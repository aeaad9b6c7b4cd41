--------------------------- MODULE RendezvousAbs ---------------------------
(***************************************************************************)
(* Synchronous message passing: a sender offers a message, one receiver    *)
(* takes that message and learns who sent it, and only then may the sender *)
(* go on.  A channel holds one offer at a time.                            *)
(***************************************************************************)
CONSTANTS Sender, Receiver, Payload, NONE

VARIABLES
    stage,    \* of each sender: "idle", "offered" or "taken"
    offer,    \* the payload each sender offers, NONE when idle
    got       \* the last message of each receiver

absVars == <<stage, offer, got>>

AbsInit ==
    /\ stage = [s \in Sender |-> "idle"]
    /\ offer = [s \in Sender |-> NONE]
    /\ got = [r \in Receiver |-> NONE]

Offer(s, p) ==
    /\ stage[s] = "idle"
    /\ \A t \in Sender : stage[t] # "offered"
    /\ stage' = [stage EXCEPT ![s] = "offered"]
    /\ offer' = [offer EXCEPT ![s] = p]
    /\ UNCHANGED got

Meet(s, r) ==
    /\ stage[s] = "offered"
    /\ stage' = [stage EXCEPT ![s] = "taken"]
    /\ got' = [got EXCEPT ![r] = [sender |-> s, payload |-> offer[s]]]
    /\ UNCHANGED offer

Leave(s) ==
    /\ stage[s] = "taken"
    /\ stage' = [stage EXCEPT ![s] = "idle"]
    /\ offer' = [offer EXCEPT ![s] = NONE]
    /\ UNCHANGED got

AbsNext ==
    \E s \in Sender : \/ \E p \in Payload : Offer(s, p)
                      \/ \E r \in Receiver : Meet(s, r)
                      \/ Leave(s)

AbsSpec == AbsInit /\ [][AbsNext]_absVars

=============================================================================
