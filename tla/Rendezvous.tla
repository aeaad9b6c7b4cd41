----------------------------- MODULE Rendezvous -----------------------------
(***************************************************************************)
(* ipc_channel_rendezvous_send and ipc_channel_rendezvous_recv on one      *)
(* channel (kernel/ipc/ipc.c), and the tasks of kmain.c that call them in  *)
(* a loop.  Every iteration of their loops runs under g_ipc_lock with      *)
(* interrupts off and is one step; an iteration that finds nothing to do   *)
(* changes nothing and yields, so it is no step at all.                    *)
(*                                                                         *)
(* A channel is never destroyed, so the identifier checked first stays     *)
(* valid (Ipc has the invalid ones).  rendezvous_generation is compared    *)
(* with a sender's base_generation for inequality only and, being a 64-bit *)
(* counter, does not come round to it: the model keeps, for each sender,   *)
(* whether it moved.                                                       *)
(***************************************************************************)
EXTENDS Integers, Nil

CONSTANTS Sender, Receiver,
          Data,     \* contents of a payload
          Size,     \* lengths of payloads
          Buffer    \* payload_capacity each receiver passes

Payload == [data : Data, size : Size]
Posting == [sender : Sender, payload : Payload]

ASSUME RendezvousAssumption ==
    /\ Size \subseteq Nat
    /\ Buffer \in [Receiver -> Nat]
    /\ NONE \notin Payload
    /\ NONE \notin Posting

VARIABLES
    rendezvous_pending,
    rendezvous_message,
    spc, arg, moved,    \* each sender: position, payload, generation # base
    got                 \* what each receiver was last given

rendezvousVars == <<rendezvous_pending, rendezvous_message, spc, arg, moved, got>>

(* ipc_channel_create. *)
RendezvousInit ==
    /\ rendezvous_pending = FALSE
    /\ rendezvous_message = NONE
    /\ spc = [s \in Sender |-> "idle"]
    /\ arg = [s \in Sender |-> NONE]
    /\ moved = [s \in Sender |-> FALSE]
    /\ got = [r \in Receiver |-> NONE]

(* The sender task calls ipc_channel_rendezvous_send with a payload. *)
BeginSend(s) ==
    /\ spc[s] = "idle"
    /\ \E p \in Payload : arg' = [arg EXCEPT ![s] = p]
    /\ spc' = [spc EXCEPT ![s] = "post"]
    /\ UNCHANGED <<rendezvous_pending, rendezvous_message, moved, got>>

(* Mutant: base_generation keeps the value of the previous call. *)
PostStaleBase(s) ==
    /\ spc[s] = "post"
    /\ ~rendezvous_pending
    /\ rendezvous_pending' = TRUE
    /\ rendezvous_message' = [sender |-> s, payload |-> arg[s]]
    /\ spc' = [spc EXCEPT ![s] = "await"]
    /\ UNCHANGED <<arg, moved, got>>

(* First loop of send: the slot is free, fill it. *)
Post(s) ==
    /\ spc[s] = "post"
    /\ ~rendezvous_pending
    /\ rendezvous_pending' = TRUE
    /\ rendezvous_message' = [sender |-> s, payload |-> arg[s]]
    /\ moved' = [moved EXCEPT ![s] = FALSE]
    /\ spc' = [spc EXCEPT ![s] = "await"]
    /\ UNCHANGED <<arg, got>>

(* Second loop of send: the slot is free again and the generation moved. *)
EndSend(s) ==
    /\ spc[s] = "await"
    /\ ~rendezvous_pending
    /\ moved[s]
    /\ spc' = [spc EXCEPT ![s] = "idle"]
    /\ arg' = [arg EXCEPT ![s] = NONE]
    /\ UNCHANGED <<rendezvous_pending, rendezvous_message, moved, got>>

(* Mutant: the flag stays set. *)
ReceiveKeeps(r) ==
    /\ rendezvous_pending
    /\ Buffer[r] >= rendezvous_message.payload.size
    /\ got' = [got EXCEPT ![r] = rendezvous_message]
    /\ moved' = [s \in Sender |-> TRUE]
    /\ UNCHANGED <<rendezvous_pending, rendezvous_message, spc, arg>>

(* recv: rendezvous_generation++ is seen by every sender that waits.  With *)
(* a buffer too small for the message recv returns -4 and leaves it there. *)
Receive(r) ==
    /\ rendezvous_pending
    /\ Buffer[r] >= rendezvous_message.payload.size
    /\ got' = [got EXCEPT ![r] = rendezvous_message]
    /\ rendezvous_pending' = FALSE
    /\ moved' = [s \in Sender |-> TRUE]
    /\ UNCHANGED <<rendezvous_message, spc, arg>>

RendezvousNext ==
    \/ \E s \in Sender : BeginSend(s) \/ Post(s) \/ EndSend(s)
    \/ \E r \in Receiver : Receive(r)

RendezvousSpec == RendezvousInit /\ [][RendezvousNext]_rendezvousVars

(* Every loop is run again and again: each task is scheduled, and one that *)
(* finds nothing to do yields.  Nobody is obliged to send.                 *)
RendezvousFairness ==
    /\ \A s \in Sender : WF_rendezvousVars(Post(s)) /\ WF_rendezvousVars(EndSend(s))
    /\ \A r \in Receiver : WF_rendezvousVars(Receive(r))

RendezvousFairSpec == RendezvousSpec /\ RendezvousFairness

-----------------------------------------------------------------------------
(* Properties. *)

(* The slot and the callers have their types. *)
RendezvousTypeOK ==
    /\ rendezvous_pending \in BOOLEAN
    /\ rendezvous_message \in Posting \cup {NONE}
    /\ spc \in [Sender -> {"idle", "post", "await"}]
    /\ arg \in [Sender -> Payload \cup {NONE}]
    /\ moved \in [Sender -> BOOLEAN]
    /\ got \in [Receiver -> Posting \cup {NONE}]

(* A sender in its second loop is still offering its message exactly while *)
(* the generation has not moved.                                           *)
Stage(s) == IF spc[s] # "await" THEN "idle"
            ELSE IF moved[s] THEN "taken" ELSE "offered"

Meeting == INSTANCE RendezvousAbs WITH
           stage <- [s \in Sender |-> Stage(s)],
           offer <- [s \in Sender |-> IF spc[s] = "await" THEN arg[s] ELSE NONE]

(* Send and receive are a rendezvous: a send returns 0 only after one      *)
(* receiver took exactly that message, a message is never overwritten, and *)
(* it is received once, whatever senders and receivers compete             *)
(* (rendezvous_pending, rendezvous_generation and base_generation).        *)
ImplementsRendezvous == Meeting!AbsSpec

(* The slot is pending exactly while one sender waits for its own message, *)
(* and holds that message: the inductive invariant behind the refinement.  *)
SlotInv ==
    /\ rendezvous_pending => \E s \in Sender : Stage(s) = "offered"
    /\ \A s \in Sender : Stage(s) = "offered" =>
         /\ rendezvous_pending
         /\ rendezvous_message = [sender |-> s, payload |-> arg[s]]
    /\ \A s \in Sender : spc[s] # "idle" => arg[s] \in Payload
    /\ rendezvous_pending => rendezvous_message \in Posting

(* Senders that compete never bring the channel to a halt: while anybody   *)
(* is sending, some send returns again and again, as long as one receiver  *)
(* has a buffer that is large enough.                                      *)
TrafficNeverStops ==
    \/ []<><<\E s \in Sender : EndSend(s)>>_rendezvousVars
    \/ <>[](\A s \in Sender : spc[s] = "idle")

(* A send returns once the others stop sending.  Until then it may be      *)
(* overtaken: it must find the slot free, and another sender can refill it *)
(* first (the two loops of ipc_channel_rendezvous_send).                   *)
SendReturns ==
    \A s \in Sender :
        <>[](\A u \in Sender \ {s} : spc[u] = "idle") =>
            (spc[s] = "post" ~> spc[s] = "idle")

=============================================================================
