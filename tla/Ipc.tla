-------------------------------- MODULE Ipc --------------------------------
(***************************************************************************)
(* Named kernel channels with bounded queues, and capability transfer      *)
(* through them: kernel/ipc/ipc.c composed with Capability.  A task that   *)
(* sends a capability checks it under the capability lock and stores the   *)
(* message later, under g_ipc_lock; a task that receives one takes the     *)
(* message first and copies the capability later.  Other tasks run in      *)
(* between.                                                                *)
(*                                                                         *)
(* A call that returns an error at once (a null pointer, an unknown name,  *)
(* an empty queue, a buffer smaller than the message) changes nothing and  *)
(* is no step; payload bytes are not modelled.                             *)
(***************************************************************************)
EXTENDS Capability, Ring

CONSTANTS MaxChannels,   \* IPC_MAX_CHANNELS
          Capacity,      \* IPC_CHANNEL_QUEUE_CAPACITY
          Name,          \* channel names
          ChannelId,     \* int arguments passed as a channel identifier
          IdWrap         \* 2^16: identifiers are cast to uint16_t

Channel == 0..(MaxChannels - 1)
Index == 0..(Capacity - 1)

(* capability_id is 0 in a message without a capability. *)
Message == [sender_tid : Tid, capability_id : 0..MaxEntries,
            capability_rights : Rights \cup {{}}]

Call == [channel_id : ChannelId, message : Message]

ASSUME IpcAssumption ==
    /\ MaxChannels \in Nat \ {0}
    /\ Capacity \in Nat \ {0}
    /\ IdWrap \in Nat /\ MaxChannels <= IdWrap
    /\ ChannelId \subseteq Int
    /\ NONE \notin Name /\ NONE \notin Message /\ NONE \notin Call

VARIABLES
    name,                       \* of each channel, NONE while not in use
    queue, head, tail, count,   \* the ring of each channel
    pc, call                    \* each task: position and the message in hand

chanVars == <<name, queue, head, tail, count>>
vars == <<capVars, chanVars, pc, call>>

(* ipc_init, capability_init *)
Init ==
    /\ CapabilityInit
    /\ name = [c \in Channel |-> NONE]
    /\ queue = [c \in Channel |-> [i \in Index |-> NONE]]
    /\ head = [c \in Channel |-> 0]
    /\ tail = [c \in Channel |-> 0]
    /\ count = [c \in Channel |-> 0]
    /\ pc = [t \in Tid |-> "idle"]
    /\ call = [t \in Tid |-> NONE]

(* ipc_is_valid_channel_id, and the channel that a valid identifier means. *)
Cast(id) == id % IdWrap
ValidId(id) == id >= 0 /\ Cast(id) < MaxChannels /\ name[Cast(id)] # NONE

-----------------------------------------------------------------------------
(* Mutant: the name is not looked up first. *)
ChannelCreateAnew(n) ==
    /\ \E c \in Channel :
         /\ name[c] = NONE
         /\ \A d \in Channel : d < c => name[d] # NONE
         /\ name' = [name EXCEPT ![c] = n]
         /\ head' = [head EXCEPT ![c] = 0]
         /\ tail' = [tail EXCEPT ![c] = 0]
         /\ count' = [count EXCEPT ![c] = 0]
    /\ UNCHANGED <<capVars, queue, pc, call>>

(* ipc_channel_create: a name already in use gets the existing channel and *)
(* a full table gets -2; otherwise the first free entry is set up.         *)
ChannelCreate(n) ==
    /\ \A c \in Channel : name[c] # n
    /\ \E c \in Channel :
         /\ name[c] = NONE
         /\ \A d \in Channel : d < c => name[d] # NONE
         /\ name' = [name EXCEPT ![c] = n]
         /\ head' = [head EXCEPT ![c] = 0]
         /\ tail' = [tail EXCEPT ![c] = 0]
         /\ count' = [count EXCEPT ![c] = 0]
    /\ UNCHANGED <<capVars, queue, pc, call>>

(* kmain creates capabilities; creation checks nothing but the mask. *)
CreateCapability ==
    /\ \E owner \in Tid, object \in Object, rights \in Rights :
         CapabilityCreate(owner, object, rights)
    /\ UNCHANGED <<chanVars, pc, call>>

(* ipc_resolve_sender_tid: a task may only name itself, the bootstrap      *)
(* context may name any task.                                              *)
Resolves(t, sender) == t = 0 \/ sender = t

(* Mutant: a capability is not checked before it is sent. *)
SendUnchecked(t) ==
    /\ pc[t] = "idle"
    /\ \E id \in ChannelId, m \in Message :
         /\ Resolves(t, m.sender_tid)
         /\ IF m.capability_id = 0
            THEN m.capability_rights = {}
            ELSE m.capability_rights # {}
         /\ call' = [call EXCEPT ![t] = [channel_id |-> id, message |-> m]]
    /\ pc' = [pc EXCEPT ![t] = "push"]
    /\ UNCHANGED <<capVars, chanVars>>

(* ipc_channel_send, ipc_channel_send_capability: up to the first lock. *)
Send(t) ==
    /\ pc[t] = "idle"
    /\ \E id \in ChannelId, m \in Message :
         /\ Resolves(t, m.sender_tid)
         /\ IF m.capability_id = 0
            THEN m.capability_rights = {}
            ELSE /\ m.capability_rights # {}
                 /\ CanTransfer(m.capability_id, m.sender_tid, m.capability_rights)
         /\ call' = [call EXCEPT ![t] = [channel_id |-> id, message |-> m]]
    /\ pc' = [pc EXCEPT ![t] = "push"]
    /\ UNCHANGED <<capVars, chanVars>>

(* The rest of ipc_channel_send_internal: -2, -3, or the message is queued. *)
Push(t) ==
    LET id == call[t].channel_id
        c == Cast(id)
    IN  /\ pc[t] = "push"
        /\ IF ValidId(id) /\ count[c] < Capacity
           THEN /\ queue' = [queue EXCEPT ![c][tail[c]] = call[t].message]
                /\ tail' = [tail EXCEPT ![c] = (@ + 1) % Capacity]
                /\ count' = [count EXCEPT ![c] = @ + 1]
           ELSE UNCHANGED <<queue, tail, count>>
        /\ pc' = [pc EXCEPT ![t] = "idle"]
        /\ call' = [call EXCEPT ![t] = NONE]
        /\ UNCHANGED <<capVars, name, head>>

(* Mutant: the ring is read at the tail. *)
RecvNewest(t) ==
    /\ pc[t] = "idle"
    /\ \E id \in ChannelId, with_capability \in BOOLEAN :
         LET c == Cast(id)
             m == queue[c][(tail[c] + Capacity - 1) % Capacity]
         IN  /\ ValidId(id)
             /\ count[c] > 0
             /\ call' = [call EXCEPT ![t] = [channel_id |-> id, message |-> m]]
             /\ head' = [head EXCEPT ![c] = (@ + 1) % Capacity]
             /\ count' = [count EXCEPT ![c] = @ - 1]
             /\ pc' = [pc EXCEPT ![t] = IF with_capability /\ m.capability_id # 0
                                        THEN "copy" ELSE "got"]
    /\ UNCHANGED <<capVars, name, queue, tail>>

(* ipc_channel_recv_internal for ipc_channel_recv, which drops a           *)
(* capability, and for ipc_channel_recv_capability.                        *)
Recv(t) ==
    /\ pc[t] = "idle"
    /\ \E id \in ChannelId, with_capability \in BOOLEAN :
         LET c == Cast(id)
             m == queue[c][head[c]]
         IN  /\ ValidId(id)
             /\ count[c] > 0
             /\ call' = [call EXCEPT ![t] = [channel_id |-> id, message |-> m]]
             /\ head' = [head EXCEPT ![c] = (@ + 1) % Capacity]
             /\ count' = [count EXCEPT ![c] = @ - 1]
             /\ pc' = [pc EXCEPT ![t] = IF with_capability /\ m.capability_id # 0
                                        THEN "copy" ELSE "got"]
    /\ UNCHANGED <<capVars, name, queue, tail>>

Done(t) ==
    /\ pc' = [pc EXCEPT ![t] = "idle"]
    /\ call' = [call EXCEPT ![t] = NONE]
    /\ UNCHANGED chanVars

(* ipc_channel_recv_capability copies what the message names, or returns   *)
(* -5 with the message gone.                                               *)
Copy(t) ==
    LET m == call[t].message
    IN  /\ pc[t] = "copy"
        /\ CopyForOwner(m.capability_id, m.sender_tid, m.capability_rights, t)
        /\ Done(t)

(* The caller is done with the message. *)
Got(t) ==
    /\ pc[t] = "got"
    /\ Done(t)
    /\ UNCHANGED capVars

Next ==
    \/ \E n \in Name : ChannelCreate(n)
    \/ CreateCapability
    \/ \E t \in Tid : Send(t) \/ Push(t) \/ Recv(t) \/ Copy(t) \/ Got(t)

Spec == Init /\ [][Next]_vars

-----------------------------------------------------------------------------
(* Properties. *)

(* The variables have their types; a count never exceeds the ring. *)
TypeOK ==
    /\ CapabilityTypeOK
    /\ name \in [Channel -> Name \cup {NONE}]
    /\ queue \in [Channel -> [Index -> Message \cup {NONE}]]
    /\ head \in [Channel -> Index]
    /\ tail \in [Channel -> Index]
    /\ count \in [Channel -> 0..Capacity]
    /\ pc \in [Tid -> {"idle", "push", "copy", "got"}]
    /\ call \in [Tid -> Call \cup {NONE}]

(* Tasks that create a channel of the same name share it: no two channels  *)
(* have one name (the lookup and the allocation of ipc_channel_create).    *)
UniqueNames ==
    \A c, d \in Channel : name[c] # NONE /\ name[c] = name[d] => c = d

Pending(c) == Contents(queue[c], head[c], count[c], Capacity)

Abs == INSTANCE Fifo WITH
           Queue <- Channel, Element <- Message, Taker <- Tid,
           queue <- [c \in Channel |-> Pending(c)],
           held <- [t \in Tid |-> IF pc[t] \in {"copy", "got"}
                                 THEN call[t].message ELSE NONE]

(* Each channel is a bounded FIFO queue: an accepted message is received   *)
(* once, by one task, in order, and setting up one channel never disturbs  *)
(* another (the ring of ipc_channel_t).                                    *)
ChannelsAreFifo == Abs!FifoSpec

(* A capability named in a message can be transferred by its sender. *)
Good(m) ==
    m # NONE /\ m.capability_id # 0 =>
        CanTransfer(m.capability_id, m.sender_tid, m.capability_rights)

(* What ipc_channel_send_capability tested stays true until the receiver   *)
(* tests it again, however long the message is queued and whoever creates  *)
(* or copies capabilities meanwhile: ipc_channel_recv_capability returns   *)
(* -5, losing the capability, only when the table is full.                 *)
TransferStaysGood ==
    /\ \A c \in Channel, i \in Index : Good(queue[c][i])
    /\ \A t \in Tid : call[t] # NONE => Good(call[t].message)

(* The ring of every channel is in order, a channel that is not in use is  *)
(* empty, and a task has a message in hand exactly inside a call: the      *)
(* strengthening that makes the properties above inductive.                *)
RingOK(c) ==
    /\ TailAgrees(head[c], count[c], tail[c], Capacity)
    /\ \A i \in 1..count[c] : queue[c][(head[c] + i - 1) % Capacity] \in Message
    /\ name[c] = NONE => count[c] = 0
CallOK == \A t \in Tid : pc[t] = "idle" <=> call[t] = NONE
Inv ==
    /\ TypeOK /\ CapabilityInv /\ UniqueNames /\ TransferStaysGood /\ CallOK
    /\ \A c \in Channel : RingOK(c)

=============================================================================
