---------------------------- MODULE SyncProofs ------------------------------
(***************************************************************************)
(* Proofs about the data that tasks share, interleaved at any point: the   *)
(* reader-writer lock, RCU, the policy and audit ring of system calls, and *)
(* the rendezvous channel.  They hold for any finite sets of tasks, any    *)
(* pool size, and any calls and policy changes.                            *)
(***************************************************************************)
EXTENDS RwLock, Rcu, Syscall, Rendezvous, TLAPS

-----------------------------------------------------------------------------
(* The rendezvous channel (ipc.c). *)

RendezvousInv == RendezvousTypeOK /\ SlotInv

(* A channel starts with an empty rendezvous slot and nobody inside a call. *)
LEMMA RendezvousInitInv == RendezvousInit => RendezvousInv
<1> SUFFICES ASSUME RendezvousInit PROVE RendezvousInv
  BY Zenon
<1>1. RendezvousTypeOK
  BY Zenon DEF RendezvousInit, RendezvousTypeOK
<1>2. SlotInv
  BY Zenon DEF RendezvousInit, SlotInv, Stage
<1> QED
  BY Zenon, <1>1, <1>2 DEF RendezvousInv

(* No two senders offer at once: the slot names the one that does. *)
LEMMA OneOffer ==
    ASSUME RendezvousInv, NEW s \in Sender, NEW t \in Sender,
           Stage(s) = "offered", Stage(t) = "offered"
    PROVE  s = t
<1>1. [sender |-> s, payload |-> arg[s]] = [sender |-> t, payload |-> arg[t]]
  BY Zenon DEF RendezvousInv, SlotInv
<1>2. [sender |-> s, payload |-> arg[s]].sender = [sender |-> t, payload |-> arg[t]].sender
  BY Zenon, <1>1
<1> QED
  BY Zenon, <1>2

(* What each step does to the stages of the senders. *)
LEMMA StageMoves ==
    ASSUME RendezvousInv
    PROVE  /\ \A s \in Sender : BeginSend(s) => \A t \in Sender : Stage(t)' = Stage(t)
           /\ \A s \in Sender : Post(s) => \A t \in Sender :
                Stage(t)' = IF t = s THEN "offered" ELSE Stage(t)
           /\ \A s \in Sender : EndSend(s) => \A t \in Sender :
                Stage(t)' = IF t = s THEN "idle" ELSE Stage(t)
           /\ \A r \in Receiver : Receive(r) => \A t \in Sender :
                Stage(t)' = IF spc[t] = "await" THEN "taken" ELSE "idle"
<1> USE DEF RendezvousInv, RendezvousTypeOK, Stage
<1>1. ASSUME NEW s \in Sender, BeginSend(s), NEW t \in Sender PROVE Stage(t)' = Stage(t)
  BY Zenon, <1>1 DEF BeginSend
<1>2. ASSUME NEW s \in Sender, Post(s), NEW t \in Sender
      PROVE  Stage(t)' = IF t = s THEN "offered" ELSE Stage(t)
  <2>1. CASE t = s
    BY Zenon, <1>2, <2>1 DEF Post
  <2>2. CASE t # s
    BY Zenon, <1>2, <2>2 DEF Post
  <2> QED
    BY Zenon, <2>1, <2>2
<1>3. ASSUME NEW s \in Sender, EndSend(s), NEW t \in Sender
      PROVE  Stage(t)' = IF t = s THEN "idle" ELSE Stage(t)
  <2>1. CASE t = s
    BY Zenon, <1>3, <2>1 DEF EndSend
  <2>2. CASE t # s
    BY Zenon, <1>3, <2>2 DEF EndSend
  <2> QED
    BY Zenon, <2>1, <2>2
<1>4. ASSUME NEW r \in Receiver, Receive(r), NEW t \in Sender
      PROVE  Stage(t)' = IF spc[t] = "await" THEN "taken" ELSE "idle"
  BY Zenon, <1>4 DEF Receive
<1> QED
  BY Zenon, <1>1, <1>2, <1>3, <1>4

(* Every step of a sender or receiver keeps the types of the slot and of the  *)
(* callers' local variables.                                                 *)
LEMMA NextType == RendezvousInv /\ [RendezvousNext]_rendezvousVars => RendezvousTypeOK'
<1> SUFFICES ASSUME RendezvousInv, [RendezvousNext]_rendezvousVars PROVE RendezvousTypeOK'
  BY Zenon
<1> USE DEF RendezvousInv, RendezvousTypeOK
<1>1. ASSUME NEW s \in Sender, BeginSend(s) PROVE RendezvousTypeOK'
  BY Zenon, <1>1 DEF BeginSend
<1>2. ASSUME NEW s \in Sender, Post(s) PROVE RendezvousTypeOK'
  <2>1. [sender |-> s, payload |-> arg[s]] \in Posting
    BY Zenon, <1>2 DEF Post, SlotInv, Posting
  <2>2. moved' \in [Sender -> BOOLEAN]
    BY Zenon, <1>2 DEF Post
  <2>3. rendezvous_pending' \in BOOLEAN
    BY Zenon, <1>2 DEF Post
  <2> QED
    BY Zenon, <1>2, <2>1, <2>2, <2>3 DEF Post
<1>3. ASSUME NEW s \in Sender, EndSend(s) PROVE RendezvousTypeOK'
  BY Zenon, <1>3 DEF EndSend
<1>4. ASSUME NEW r \in Receiver, Receive(r) PROVE RendezvousTypeOK'
  <2>1. moved' \in [Sender -> BOOLEAN] /\ rendezvous_pending' \in BOOLEAN
    BY ZenonT(40), <1>4 DEF Receive
  <2> QED
    BY Zenon, <1>4, <2>1 DEF Receive
<1>5. CASE UNCHANGED rendezvousVars
  BY Zenon, <1>5 DEF rendezvousVars
<1> QED
  BY Zenon, <1>1, <1>2, <1>3, <1>4, <1>5 DEF RendezvousNext

(* Every step keeps the slot tied to the one sender whose message it holds.   *)
LEMMA NextSlot == RendezvousInv /\ [RendezvousNext]_rendezvousVars => SlotInv'
<1> SUFFICES ASSUME RendezvousInv, [RendezvousNext]_rendezvousVars PROVE SlotInv'
  BY Zenon
<1> USE DEF RendezvousInv, SlotInv
<1>1. ASSUME NEW s \in Sender, BeginSend(s) PROVE SlotInv'
  <2>1. \A t \in Sender : Stage(t)' = Stage(t)
    BY Zenon, <1>1, StageMoves
  <2>2. /\ UNCHANGED <<rendezvous_pending, rendezvous_message>> /\ spc[s] = "idle"
        /\ arg'[s] \in Payload /\ \A t \in Sender : t # s => arg'[t] = arg[t] /\ spc'[t] = spc[t]
    BY Zenon, <1>1 DEF BeginSend, RendezvousTypeOK
  <2>3. Stage(s) = "idle"
    BY ZenonT(40), <2>2 DEF Stage
  <2> QED
    BY Zenon, <2>1, <2>2, <2>3
<1>2. ASSUME NEW s \in Sender, Post(s) PROVE SlotInv'
  <2>1. \A t \in Sender : Stage(t)' = IF t = s THEN "offered" ELSE Stage(t)
    BY ZenonT(40), <1>2, StageMoves
  <2>2. /\ ~rendezvous_pending /\ rendezvous_pending' /\ arg' = arg /\ spc[s] = "post"
        /\ rendezvous_message' = [sender |-> s, payload |-> arg[s]]
        /\ \A t \in Sender : t # s => spc'[t] = spc[t]
    BY Zenon, <1>2 DEF Post, RendezvousTypeOK
  <2>3. rendezvous_message' \in Posting
    BY ZenonT(40), <2>2 DEF Posting
  <2> QED
    BY Zenon, <2>1, <2>2, <2>3
<1>3. ASSUME NEW s \in Sender, EndSend(s) PROVE SlotInv'
  <2>1. \A t \in Sender : Stage(t)' = IF t = s THEN "idle" ELSE Stage(t)
    BY ZenonT(40), <1>3, StageMoves
  <2>2. /\ ~rendezvous_pending /\ UNCHANGED <<rendezvous_pending, rendezvous_message>>
        /\ spc'[s] = "idle" /\ \A t \in Sender : t # s => arg'[t] = arg[t] /\ spc'[t] = spc[t]
    BY Zenon, <1>3 DEF EndSend, RendezvousTypeOK
  <2> QED
    BY Zenon, <2>1, <2>2
<1>4. ASSUME NEW r \in Receiver, Receive(r) PROVE SlotInv'
  <2>1. \A t \in Sender : Stage(t)' # "offered"
    BY Zenon, <1>4, StageMoves
  <2>2. ~rendezvous_pending' /\ UNCHANGED <<arg, spc>>
    BY ZenonT(40), <1>4 DEF Receive
  <2> QED
    BY ZenonT(40), <2>1, <2>2
<1>5. CASE UNCHANGED rendezvousVars
  BY Zenon, <1>5 DEF rendezvousVars, Stage
<1> QED
  BY Zenon, <1>1, <1>2, <1>3, <1>4, <1>5 DEF RendezvousNext

(* The slot invariant holds for any number of senders and receivers. *)
THEOREM SlotInvariant == RendezvousSpec => []RendezvousInv
<1>1. RendezvousInv /\ [RendezvousNext]_rendezvousVars => RendezvousInv'
  BY Zenon, NextType, NextSlot DEF RendezvousInv
<1> QED
  BY <1>1, RendezvousInitInv, PTL DEF RendezvousSpec

(* Types are kept. *)
THEOREM RendezvousTypeCorrect == RendezvousSpec => []RendezvousTypeOK
<1>1. RendezvousInv => RendezvousTypeOK
  BY Zenon DEF RendezvousInv
<1> QED
  BY <1>1, SlotInvariant, PTL

(* Send and receive through one slot with a generation counter are a       *)
(* rendezvous: a send returns only after its own message was received,     *)
(* once and unchanged.                                                     *)
THEOREM IsRendezvous == RendezvousSpec => ImplementsRendezvous
<1> DEFINE stage == [s \in Sender |-> Stage(s)]
           offer == [s \in Sender |-> IF spc[s] = "await" THEN arg[s] ELSE NONE]
<1>1. RendezvousInit => Meeting!AbsInit
  BY Zenon DEF RendezvousInit, Meeting!AbsInit, Stage
<1>2. RendezvousInv /\ [RendezvousNext]_rendezvousVars => [Meeting!AbsNext]_(Meeting!absVars)
  <2> SUFFICES ASSUME RendezvousInv, [RendezvousNext]_rendezvousVars
               PROVE  Meeting!AbsNext \/ UNCHANGED <<stage, offer, got>>
    BY Zenon DEF Meeting!absVars
  <2> USE DEF RendezvousInv
  <2>1. ASSUME NEW s \in Sender, BeginSend(s) PROVE UNCHANGED <<stage, offer, got>>
    <3>1. stage' = stage
      BY Zenon, <2>1, StageMoves
    <3>2. \A t \in Sender : spc'[t] = "await" <=> spc[t] = "await"
      BY Zenon, <2>1 DEF BeginSend, RendezvousTypeOK
    <3>3. \A t \in Sender : spc[t] = "await" => arg'[t] = arg[t]
      BY Zenon, <2>1 DEF BeginSend, RendezvousTypeOK
    <3>4. offer' = offer
      BY Zenon, <3>2, <3>3
    <3>5. got' = got
      BY Zenon, <2>1 DEF BeginSend
    <3> QED
      BY Zenon, <3>1, <3>4, <3>5
  <2>2. ASSUME NEW s \in Sender, Post(s) PROVE Meeting!AbsNext
    <3>1. stage' = [stage EXCEPT ![s] = "offered"]
      BY Zenon, <2>2, StageMoves
    <3>2. spc[s] = "post" /\ ~rendezvous_pending /\ UNCHANGED <<arg, got>> /\ arg[s] \in Payload
      BY Zenon, <2>2 DEF Post, SlotInv
    <3>3. spc' = [spc EXCEPT ![s] = "await"]
      BY Zenon, <2>2 DEF Post
    <3>4. offer' = [offer EXCEPT ![s] = arg[s]]
      BY Zenon, <3>2, <3>3 DEF RendezvousTypeOK
    <3>5. \A t \in Sender : Stage(t) # "offered"
      BY Zenon, <3>2 DEF SlotInv
    <3>6. Stage(s) = "idle"
      BY Zenon, <3>2 DEF Stage
    <3>7. PICK p \in Payload : p = arg[s]
      BY Zenon, <3>2
    <3>8. Meeting!Offer(s, p)
      BY Zenon, <3>1, <3>2, <3>4, <3>5, <3>6, <3>7 DEF Meeting!Offer
    <3> QED
      BY Zenon, <3>8 DEF Meeting!AbsNext
  <2>3. ASSUME NEW s \in Sender, EndSend(s) PROVE Meeting!AbsNext
    <3>1. stage' = [stage EXCEPT ![s] = "idle"]
      BY Zenon, <2>3, StageMoves
    <3>2. spc[s] = "await" /\ moved[s] /\ UNCHANGED got
      BY Zenon, <2>3 DEF EndSend
    <3>3. spc' = [spc EXCEPT ![s] = "idle"] /\ arg' = [arg EXCEPT ![s] = NONE]
      BY Zenon, <2>3 DEF EndSend
    <3>4. offer' = [offer EXCEPT ![s] = NONE]
      BY Zenon, <3>3 DEF RendezvousTypeOK
    <3>5. Stage(s) = "taken"
      BY Zenon, <3>2 DEF Stage
    <3>6. Meeting!Leave(s)
      BY Zenon, <3>1, <3>2, <3>4, <3>5 DEF Meeting!Leave
    <3> QED
      BY Zenon, <3>6 DEF Meeting!AbsNext
  <2>4. ASSUME NEW r \in Receiver, Receive(r) PROVE Meeting!AbsNext
    <3>1. PICK s \in Sender : Stage(s) = "offered"
      BY Zenon, <2>4 DEF Receive, SlotInv
    <3>2. \A t \in Sender : Stage(t)' = IF t = s THEN "taken" ELSE Stage(t)
      <4> TAKE t \in Sender
      <4>1. Stage(t)' = IF spc[t] = "await" THEN "taken" ELSE "idle"
        BY Zenon, <2>4, StageMoves
      <4>2. CASE t = s
        BY Zenon, <4>1, <4>2, <3>1 DEF Stage
      <4>3. CASE t # s
        <5>1. Stage(t) # "offered"
          BY Zenon, <4>3, <3>1, OneOffer
        <5> QED
          BY Zenon, <4>1, <4>3, <5>1 DEF Stage
      <4> QED
        BY Zenon, <4>2, <4>3
    <3>3. stage' = [stage EXCEPT ![s] = "taken"]
      BY ZenonT(40), <3>2
    <3>4. rendezvous_message = [sender |-> s, payload |-> arg[s]]
      BY Zenon, <3>1 DEF SlotInv
    <3>5. UNCHANGED <<spc, arg>> /\ got' = [got EXCEPT ![r] = rendezvous_message]
      BY Zenon, <2>4 DEF Receive
    <3>6. offer[s] = arg[s] /\ offer' = offer
      BY Zenon, <3>1, <3>5 DEF Stage
    <3>7. Meeting!Meet(s, r)
      BY ZenonT(40), <3>1, <3>3, <3>4, <3>5, <3>6 DEF Meeting!Meet
    <3> QED
      BY Zenon, <3>7 DEF Meeting!AbsNext
  <2>5. CASE UNCHANGED rendezvousVars
    BY Zenon, <2>5 DEF rendezvousVars, Stage
  <2> QED
    BY ZenonT(40), <2>1, <2>2, <2>3, <2>4, <2>5 DEF RendezvousNext
<1> QED
  BY <1>1, <1>2, SlotInvariant, PTL DEF RendezvousSpec, ImplementsRendezvous, Meeting!AbsSpec

-----------------------------------------------------------------------------
(* System calls, their policy and the audit ring (syscall.c, seccomp.c). *)

Event == [sequence : Nat, tid : Nat, syscall_number : Int, action : PolicyAction, result : Int]

SyscallTypeOK ==
    /\ g_seccomp_default_action \in PolicyAction
    /\ g_seccomp_overrides \in [SyscallNumber -> PolicyAction \cup {UNSET}]
    /\ calls \in [Caller -> CallRecord \cup {NoCall}]
    /\ seen \in [Caller -> SUBSET PolicyAction]

(* What is known of a call in progress: the policy in force has been seen, *)
(* and its fields agree with how far it has come.                          *)
Judged(t) ==
    /\ calls[t].number \in SyscallNumber =>
          seccomp_get_syscall_action(calls[t].number) \in seen[t]
    /\ calls[t].number \notin SyscallNumber => calls[t].pc = "return"
    /\ calls[t].pc = "policy" => calls[t].result = ENOSYS
    /\ calls[t].pc # "policy" /\ calls[t].number \in SyscallNumber =>
          /\ calls[t].action \in seen[t]
          /\ calls[t].result = EPERM <=> calls[t].action = ERRNO
    /\ calls[t].pc = "handler" => calls[t].action # ERRNO
    /\ calls[t].pc = "record" => calls[t].action # ALLOW

PolicyInv == SyscallTypeOK /\ \A t \in Caller : calls[t] # NoCall => Judged(t)

(* The rings of seccomp.c index as those of Ring do. *)
At(i) == g_seccomp_audit_ring[(g_seccomp_audit_head + i - 1) % AuditCapacity]

AuditInv ==
    /\ g_seccomp_audit_ring \in [AuditSlot -> Event]
    /\ g_seccomp_audit_head \in AuditSlot
    /\ g_seccomp_audit_sequence \in Nat
    /\ AuditRecent
    /\ \A i \in 1..g_seccomp_audit_size :
          /\ At(i).action # ALLOW
          /\ At(i).action = ERRNO <=> At(i).result = EPERM

DueInv == due = g_seccomp_audit_total + Cardinality(OnTheWay)

SyscallInv == PolicyInv /\ AuditInv /\ DueInv

allVars == <<policyVars, auditVars, syscallVars>>

-----------------------------------------------------------------------------
(* The policy of a valid number is an action. *)
LEMMA ActionTyped ==
    ASSUME SyscallTypeOK, NEW n \in SyscallNumber
    PROVE  seccomp_get_syscall_action(n) \in PolicyAction
  BY Zenon DEF SyscallTypeOK, seccomp_get_syscall_action, ActionUnder

(* The boot state satisfies what is known of calls. *)
LEMMA PolicyInit == syscall_init => PolicyInv
  BY Zenon DEF syscall_init, seccomp_init, PolicyInv, SyscallTypeOK, PolicyAction

(* Enter: a call begins with the policy in force seen. *)
LEMMA PolicyEnter ==
    ASSUME PolicyInv, NEW t \in Caller, NEW number \in UserNumber, Enter(t, number)
    PROVE  PolicyInv'
<1> DEFINE new == [number |-> number, action |-> ALLOW, result |-> ENOSYS,
                   pc |-> IF number \in SyscallNumber THEN "policy" ELSE "return"]
<1> USE DEF PolicyInv
<1>1. new \in CallRecord
  BY DEF CallRecord, ENOSYS, PolicyAction
<1>2. InForce(number, g_seccomp_default_action, g_seccomp_overrides) \subseteq PolicyAction
  BY Zenon DEF InForce, ActionUnder, SyscallTypeOK
<1>3. /\ calls' = [calls EXCEPT ![t] = new]
      /\ seen' = [seen EXCEPT ![t] = InForce(number, g_seccomp_default_action, g_seccomp_overrides)]
      /\ UNCHANGED policyVars
  BY Zenon DEF Enter
<1> HIDE DEF new
<1>4. SyscallTypeOK'
  BY ZenonT(40), <1>1, <1>2, <1>3 DEF SyscallTypeOK, policyVars
<1>5. ASSUME NEW u \in Caller, calls'[u] # NoCall
      PROVE  Judged(u)'
  <2>1. CASE u # t
    BY ZenonT(40), <1>3, <1>5, <2>1 DEF Judged, SyscallTypeOK, policyVars, seccomp_get_syscall_action
  <2>2. CASE u = t
    <3>1. calls'[u] = new /\ seen'[u] = InForce(number, g_seccomp_default_action, g_seccomp_overrides)
      BY Zenon, <1>3, <2>2 DEF SyscallTypeOK
    <3>2. new.number = number /\ new.pc = (IF number \in SyscallNumber THEN "policy" ELSE "return")
          /\ new.result = ENOSYS
      BY Zenon DEF new
    <3>3. number \in SyscallNumber => seccomp_get_syscall_action(number)' \in seen'[u]
      BY ZenonT(40), <1>3, <3>1 DEF InForce, policyVars, seccomp_get_syscall_action, ActionUnder
    <3> QED
      BY ZenonT(40), <3>1, <3>2, <3>3 DEF Judged, seccomp_get_syscall_action
  <2> QED
    BY Zenon, <2>1, <2>2
<1> QED
  BY ZenonT(40), <1>4, <1>5

(* A step of one call that leaves the policy alone and the call judged.    *)
LEMMA PolicyStep ==
    ASSUME PolicyInv, NEW t \in Caller, NEW new \in CallRecord,
           calls[t] # NoCall, new.number = calls[t].number,
           calls' = [calls EXCEPT ![t] = new], UNCHANGED <<seen, policyVars>>,
           new.pc \in {"handler", "record", "return"},
           new.number \notin SyscallNumber => new.pc = "return",
           new.number \in SyscallNumber =>
              /\ new.action \in seen[t]
              /\ new.result = EPERM <=> new.action = ERRNO,
           new.pc = "handler" => new.action # ERRNO,
           new.pc = "record" => new.action # ALLOW
    PROVE  PolicyInv'
<1> USE DEF PolicyInv
<1>1. SyscallTypeOK'
  BY Zenon DEF SyscallTypeOK, policyVars
<1>2. ASSUME NEW u \in Caller, calls'[u] # NoCall
      PROVE  Judged(u)'
  <2>1. CASE u # t
    BY ZenonT(40), <1>2, <2>1 DEF Judged, SyscallTypeOK, policyVars, seccomp_get_syscall_action
  <2>2. CASE u = t
    <3>1. calls'[u] = new /\ seen'[u] = seen[t] /\ Judged(t)
      BY Zenon, <2>2 DEF SyscallTypeOK
    <3> QED
      BY ZenonT(40), <3>1, <2>2 DEF Judged, policyVars, seccomp_get_syscall_action
  <2> QED
    BY ZenonT(40), <2>1, <2>2
<1> QED
  BY ZenonT(40), <1>1, <1>2

(* ReadPolicy: the action read is one that has been seen. *)
LEMMA PolicyRead ==
    ASSUME PolicyInv, NEW t \in Caller, ReadPolicy(t)
    PROVE  PolicyInv'
<1> DEFINE action == seccomp_get_syscall_action(calls[t].number)
           new == [calls[t] EXCEPT !.action = action,
                                  !.pc = IF action = ERRNO THEN "record" ELSE "handler",
                                  !.result = IF action = ERRNO THEN EPERM ELSE @]
<1>1. calls[t] \in CallRecord /\ calls[t] # NoCall /\ calls[t].pc = "policy" /\ Judged(t)
  BY Zenon DEF PolicyInv, SyscallTypeOK, ReadPolicy
<1>2. calls[t].number \in SyscallNumber /\ calls[t].result = ENOSYS
  BY ZenonT(40), <1>1 DEF Judged
<1>3. action \in PolicyAction /\ action \in seen[t]
  BY Zenon, <1>1, <1>2, ActionTyped DEF Judged, PolicyInv
<1>4. calls' = [calls EXCEPT ![t] = new] /\ UNCHANGED <<seen, policyVars>>
  BY Zenon DEF ReadPolicy
<1> HIDE DEF action
<1>5. /\ new \in CallRecord /\ new.number = calls[t].number /\ new.action = action
      /\ new.pc = (IF action = ERRNO THEN "record" ELSE "handler")
      /\ new.result = (IF action = ERRNO THEN EPERM ELSE ENOSYS)
  <2>1. CASE action = ERRNO
    <3>1. EPERM \in Int
      BY DEF EPERM
    <3>2. new = [calls[t] EXCEPT !.action = action, !.pc = "record", !.result = EPERM]
      BY Zenon, <2>1
    <3> HIDE DEF new
    <3> QED
      BY Zenon, <1>1, <1>3, <2>1, <3>1, <3>2 DEF CallRecord
  <2>2. CASE action # ERRNO
    BY ZenonT(40), <1>1, <1>2, <1>3, <2>2 DEF CallRecord
  <2> QED
    BY Zenon, <2>1, <2>2
<1> HIDE DEF new
<1>6. new.result = EPERM <=> new.action = ERRNO
  BY <1>5 DEF EPERM, ENOSYS
<1>7. new.pc = "record" => new.action # ALLOW
  BY Zenon, <1>5 DEF ALLOW, ERRNO
<1> QED
  BY ZenonT(40), <1>1, <1>2, <1>3, <1>4, <1>5, <1>6, <1>7, PolicyStep

(* RunHandler: no handler returns EPERM. *)
LEMMA PolicyRun ==
    ASSUME PolicyInv, NEW t \in Caller, RunHandler(t)
    PROVE  PolicyInv'
<1>1. calls[t] \in CallRecord /\ calls[t] # NoCall /\ calls[t].pc = "handler" /\ Judged(t)
  BY Zenon DEF PolicyInv, SyscallTypeOK, RunHandler
<1>2. PICK r \in handler_results(t, calls[t].number) :
         calls' = [calls EXCEPT ![t].result = r, ![t].pc = NextPc(t)]
  BY Zenon DEF RunHandler
<1>3. r \in Int /\ r # EPERM
  BY SyscallAssumption DEF handler_results, ENOSYS, EFAULT, EPERM
<1> DEFINE new == [calls[t] EXCEPT !.result = r, !.pc = NextPc(t)]
<1>4. calls' = [calls EXCEPT ![t] = new] /\ UNCHANGED <<seen, policyVars>>
  BY Zenon, <1>2 DEF RunHandler
<1>5. /\ new \in CallRecord /\ new.number = calls[t].number /\ new.action = calls[t].action
      /\ new.pc = (IF calls[t].action = LOG THEN "record" ELSE "return")
      /\ new.result = r
  BY ZenonT(40), <1>1, <1>3 DEF CallRecord, NextPc
<1> HIDE DEF new
<1>6. new.number \in SyscallNumber /\ new.action \in seen[t] /\ new.action # ERRNO
  BY Zenon, <1>1, <1>5 DEF Judged
<1>7. new.pc = "record" => new.action # ALLOW
  BY Zenon, <1>5 DEF ALLOW, LOG
<1> QED
  BY ZenonT(40), <1>1, <1>3, <1>4, <1>5, <1>6, <1>7, PolicyStep

(* Record: only the call's place changes. *)
LEMMA PolicyRecord ==
    ASSUME PolicyInv, NEW t \in Caller, Record(t)
    PROVE  PolicyInv'
<1> DEFINE new == [calls[t] EXCEPT !.pc = "return"]
<1>1. calls[t] \in CallRecord /\ calls[t] # NoCall /\ calls[t].pc = "record" /\ Judged(t)
  BY Zenon DEF PolicyInv, SyscallTypeOK, Record
<1>2. calls' = [calls EXCEPT ![t] = new] /\ UNCHANGED <<seen, policyVars>>
  BY Zenon DEF Record, seccomp_audit_record
<1>3. /\ new \in CallRecord /\ new.number = calls[t].number /\ new.action = calls[t].action
      /\ new.pc = "return" /\ new.result = calls[t].result
  BY Zenon, <1>1 DEF CallRecord
<1> HIDE DEF new
<1> QED
  BY Zenon, <1>1, <1>2, <1>3, PolicyStep DEF Judged

(* Return: the call is over. *)
LEMMA PolicyReturn ==
    ASSUME PolicyInv, NEW t \in Caller, Return(t)
    PROVE  PolicyInv'
<1> USE DEF PolicyInv
<1>1. /\ calls' = [calls EXCEPT ![t] = NoCall] /\ seen' = [seen EXCEPT ![t] = {}]
      /\ UNCHANGED policyVars
  BY Zenon DEF Return
<1>2. SyscallTypeOK'
  BY Zenon, <1>1 DEF SyscallTypeOK, policyVars
<1>3. ASSUME NEW u \in Caller, calls'[u] # NoCall
      PROVE  Judged(u)'
  <2>1. u # t
    BY Zenon, <1>1, <1>3 DEF SyscallTypeOK
  <2> QED
    BY Zenon, <1>1, <1>3, <2>1 DEF Judged, SyscallTypeOK, policyVars, seccomp_get_syscall_action
<1> QED
  BY ZenonT(40), <1>2, <1>3

(* SetPolicy: the new policy is seen by every call in progress. *)
LEMMA PolicySet ==
    ASSUME PolicyInv, SetPolicy
    PROVE  PolicyInv'
<1> USE DEF PolicyInv
<1>1. /\ g_seccomp_default_action' \in PolicyAction
      /\ g_seccomp_overrides' \in [SyscallNumber -> PolicyAction \cup {UNSET}]
  BY Zenon DEF SetPolicy, seccomp_set_default_action, seccomp_set_syscall_action, SyscallTypeOK
<1>2. \A n : InForce(n, g_seccomp_default_action', g_seccomp_overrides') \subseteq PolicyAction
  BY Zenon, <1>1 DEF InForce, ActionUnder
<1>3. calls' = calls /\ seen' = [t \in Caller |->
                  IF calls[t] = NoCall THEN {}
                  ELSE seen[t] \cup InForce(calls[t].number, g_seccomp_default_action',
                                             g_seccomp_overrides')]
  BY Zenon DEF SetPolicy
<1>4. seen' \in [Caller -> SUBSET PolicyAction]
  BY Zenon, <1>2, <1>3 DEF SyscallTypeOK
<1>5. SyscallTypeOK'
  BY Zenon, <1>1, <1>3, <1>4 DEF SyscallTypeOK
<1>6. ASSUME NEW t \in Caller, calls'[t] # NoCall
      PROVE  Judged(t)'
  <2>1. Judged(t) /\ calls'[t] = calls[t]
    BY ZenonT(40), <1>3, <1>6
  <2>2. seen'[t] = seen[t] \cup InForce(calls[t].number, g_seccomp_default_action',
                                        g_seccomp_overrides')
    BY ZenonT(40), <1>3, <1>6
  <2>3. calls[t].number \in SyscallNumber =>
           ActionUnder(g_seccomp_default_action', g_seccomp_overrides', calls[t].number) \in seen'[t]
    BY Zenon, <2>2 DEF InForce
  <2> QED
    BY ZenonT(40), <2>1, <2>2, <2>3 DEF Judged, seccomp_get_syscall_action
<1> QED
  BY Zenon, <1>5, <1>6

(* What is known of calls survives every step. *)
LEMMA PolicyNext == PolicyInv /\ [SyscallNext]_allVars => PolicyInv'
<1> SUFFICES ASSUME PolicyInv, [SyscallNext]_allVars PROVE PolicyInv'
  BY Zenon
<1>1. CASE UNCHANGED allVars
  BY Zenon, <1>1 DEF allVars, policyVars, syscallVars, PolicyInv, SyscallTypeOK, Judged,
              seccomp_get_syscall_action
<1>2. CASE SyscallNext
  BY Zenon, <1>2, PolicyEnter, PolicyRead, PolicyRun, PolicyRecord, PolicyReturn, PolicySet
     DEF SyscallNext
<1> QED
  BY Zenon, <1>1, <1>2

-----------------------------------------------------------------------------
(* An index past the end of the audit ring wraps once. *)
LEMMA SlotWraps ==
    ASSUME NEW cap \in Nat \ {0}, NEW h \in 0..(cap - 1), NEW i \in 0..cap
    PROVE  /\ (h + i) % cap = IF h + i < cap THEN h + i ELSE h + i - cap
           /\ (h + i) % cap \in 0..(cap - 1)
<1>1. (h + i) % cap = IF h + i < cap THEN h + i ELSE h + i - cap
  BY Z3
<1> QED
  BY <1>1

(* The indices of a ring with n events from h on are distinct. *)
LEMMA AuditIndex ==
    ASSUME NEW h \in AuditSlot, NEW i \in 1..AuditCapacity
    PROVE  /\ (h + i - 1) % AuditCapacity =
                 IF h + i - 1 < AuditCapacity THEN h + i - 1 ELSE h + i - 1 - AuditCapacity
           /\ (h + i - 1) % AuditCapacity \in AuditSlot
<1>1. AuditCapacity \in Nat \ {0} /\ h \in 0..(AuditCapacity - 1)
  BY Zenon, SeccompAssumption DEF AuditSlot
<1>2. i - 1 \in 0..AuditCapacity /\ h + (i - 1) = h + i - 1
  BY <1>1
<1> QED
  BY ZenonT(40), <1>1, <1>2, SlotWraps DEF AuditSlot

(* The empty ring of seccomp_init. *)
LEMMA AuditInit == syscall_init => AuditInv
<1> SUFFICES ASSUME syscall_init PROVE AuditInv
  BY Zenon
<1>1. NoEvent \in Event
  BY DEF NoEvent, Event, PolicyAction
<1>2. 1..0 = {} /\ 0 \in AuditSlot
  BY SeccompAssumption DEF AuditSlot
<1> QED
  BY <1>1, <1>2, SeccompAssumption DEF syscall_init, seccomp_init, AuditInv, AuditRecent

(* seccomp_audit_record puts its event behind the others; a full ring      *)
(* moves on by one.                                                        *)
LEMMA RingRecord ==
    ASSUME AuditInv, NEW tid \in Nat, NEW number \in Int, NEW action \in PolicyAction,
           NEW result \in Int, action # ALLOW, action = ERRNO <=> result = EPERM,
           seccomp_audit_record(tid, number, action, result)
    PROVE  AuditInv'
<1> DEFINE n == g_seccomp_audit_size
           h == g_seccomp_audit_head
           q == g_seccomp_audit_sequence
           new == [sequence |-> q + 1, tid |-> tid, syscall_number |-> number,
                   action |-> action, result |-> result]
           slot == IF n = AuditCapacity THEN h ELSE (h + n) % AuditCapacity
<1>1. /\ AuditCapacity \in Nat \ {0} /\ n \in 0..AuditCapacity /\ h \in 0..(AuditCapacity - 1)
      /\ h \in AuditSlot /\ q \in Nat /\ n <= q /\ (n < AuditCapacity => n = q)
      /\ g_seccomp_audit_total = q
  BY ZenonT(40), SeccompAssumption DEF AuditInv, AuditRecent, AuditSlot
<1>2. /\ g_seccomp_audit_head' = (IF n = AuditCapacity THEN (h + 1) % AuditCapacity ELSE h)
      /\ g_seccomp_audit_size' = (IF n = AuditCapacity THEN n ELSE n + 1)
      /\ g_seccomp_audit_sequence' = q + 1 /\ g_seccomp_audit_total' = q + 1
      /\ g_seccomp_audit_ring' = [g_seccomp_audit_ring EXCEPT ![slot] = new]
  BY Zenon, <1>1 DEF seccomp_audit_record, next_head
<1>3. new \in Event /\ new.sequence = q + 1 /\ new.action = action /\ new.result = result
  BY <1>1 DEF Event
<1>4. /\ (h + 1) % AuditCapacity = (IF h + 1 < AuditCapacity THEN h + 1 ELSE 0)
      /\ slot = (IF n = AuditCapacity THEN h
                 ELSE IF h + n < AuditCapacity THEN h + n ELSE h + n - AuditCapacity)
      /\ slot \in AuditSlot
  <2>1. 1 \in 0..AuditCapacity
    BY <1>1
  <2>2. (h + 1) % AuditCapacity = IF h + 1 < AuditCapacity THEN h + 1 ELSE h + 1 - AuditCapacity
    BY Zenon, <1>1, <2>1, SlotWraps
  <2>3. h + 1 < AuditCapacity \/ h + 1 - AuditCapacity = 0
    BY <1>1
  <2>4. /\ (h + n) % AuditCapacity =
              IF h + n < AuditCapacity THEN h + n ELSE h + n - AuditCapacity
        /\ (h + n) % AuditCapacity \in AuditSlot
    BY Zenon, <1>1, SlotWraps DEF AuditSlot
  <2> QED
    BY Zenon, <1>1, <2>2, <2>3, <2>4
<1> HIDE DEF new, slot
<1>5. g_seccomp_audit_ring' \in [AuditSlot -> Event] /\ g_seccomp_audit_head' \in AuditSlot
  BY SMTT(30), Z3T(30), Zenon, <1>1, <1>2, <1>3, <1>4 DEF AuditInv, AuditSlot
<1> DEFINE m == g_seccomp_audit_size'
           k == g_seccomp_audit_head'
<1>6. /\ m \in 1..AuditCapacity /\ m \in 0..AuditCapacity /\ m <= q + 1
      /\ (m < AuditCapacity => m = q + 1)
  BY <1>1, <1>2
<1>7. ASSUME NEW i \in 1..m
      PROVE  At(i)' = IF i = m THEN new ELSE IF n = AuditCapacity THEN At(i + 1) ELSE At(i)
  <2> DEFINE j == (k + i - 1) % AuditCapacity
  <2>1. i \in 1..AuditCapacity /\ k \in AuditSlot
    BY <1>1, <1>5, <1>6
  <2>2. j = (IF k + i - 1 < AuditCapacity THEN k + i - 1 ELSE k + i - 1 - AuditCapacity)
        /\ j \in AuditSlot
    BY Zenon, <2>1, AuditIndex
  <2>3. At(i)' = g_seccomp_audit_ring'[j]
    BY Zenon DEF At
  <2> HIDE DEF j
  <2>4. At(i)' = IF j = slot THEN new ELSE g_seccomp_audit_ring[j]
    BY Zenon, <1>2, <1>4, <2>2, <2>3 DEF AuditInv
  <2>5. CASE i = m
    <3>1. j = slot
      BY <1>1, <1>2, <1>4, <2>2, <2>5
    <3> QED
      BY Zenon, <3>1, <2>4, <2>5
  <2>6. CASE i # m /\ n = AuditCapacity
    <3>1. i + 1 \in 1..AuditCapacity
      BY <1>1, <1>6, <2>6, <1>2
    <3>2. (h + (i + 1) - 1) % AuditCapacity =
             (IF h + (i + 1) - 1 < AuditCapacity THEN h + (i + 1) - 1
              ELSE h + (i + 1) - 1 - AuditCapacity)
      BY Zenon, <1>1, <3>1, AuditIndex
    <3>3. j = (h + (i + 1) - 1) % AuditCapacity /\ j # slot
      BY <1>1, <1>2, <1>4, <2>2, <2>6, <3>1, <3>2
    <3> QED
      BY Zenon, <3>3, <2>4, <2>6 DEF At
  <2>7. CASE i # m /\ n # AuditCapacity
    <3>1. j # slot /\ k = h
      BY <1>1, <1>2, <1>4, <1>6, <2>2, <2>7
    <3> QED
      BY Zenon, <3>1, <2>4, <2>7 DEF At, j
  <2> QED
    BY Zenon, <2>5, <2>6, <2>7
<1>8. ASSUME NEW i \in 1..m
      PROVE  /\ At(i)'.sequence = (q + 1) - m + i
             /\ At(i)'.action # ALLOW
             /\ At(i)'.action = ERRNO <=> At(i)'.result = EPERM
  <2>1. \A x \in 1..n : /\ At(x).sequence = q - n + x
                        /\ At(x).action # ALLOW
                        /\ At(x).action = ERRNO <=> At(x).result = EPERM
    BY Zenon DEF AuditInv, AuditRecent, At
  <2>2. CASE i = m
    BY <1>1, <1>3, <1>6, <1>7, <2>2
  <2>3. CASE i # m /\ n = AuditCapacity
    <3>1. i + 1 \in 1..n /\ m = n /\ q - n + (i + 1) = (q + 1) - m + i
      BY <1>1, <1>2, <2>3
    <3> QED
      BY ZenonT(40), <3>1, <2>1, <1>7, <2>3
  <2>4. CASE i # m /\ n # AuditCapacity
    <3>1. i \in 1..n /\ m = n + 1 /\ q - n + i = (q + 1) - m + i
      BY <1>1, <1>2, <2>4
    <3> QED
      BY ZenonT(40), <3>1, <2>1, <1>7, <2>4
  <2> QED
    BY Zenon, <2>2, <2>3, <2>4
<1>9. AuditRecent'
  BY Zenon, <1>1, <1>2, <1>6, <1>8 DEF AuditRecent, At
<1>10. q + 1 \in Nat
  BY <1>1
<1> QED
  BY ZenonT(40), <1>2, <1>5, <1>8, <1>9, <1>10 DEF AuditInv

(* The ring changes only when an event is recorded. *)
LEMMA RingNext ==
    PolicyInv /\ AuditInv /\ [SyscallNext]_allVars => AuditInv'
<1> SUFFICES ASSUME PolicyInv, AuditInv, [SyscallNext]_allVars PROVE AuditInv'
  BY Zenon
<1>1. CASE UNCHANGED auditVars
  BY ZenonT(40), <1>1 DEF auditVars, AuditInv, AuditRecent, At
<1>2. ASSUME NEW t \in Caller, Record(t)
      PROVE  AuditInv'
  <2>1. calls[t] \in CallRecord /\ calls[t] # NoCall /\ calls[t].pc = "record" /\ Judged(t)
    BY Zenon, <1>2 DEF PolicyInv, SyscallTypeOK, Record
  <2>2. /\ t \in Nat /\ calls[t].number \in Int /\ calls[t].action \in PolicyAction
        /\ calls[t].result \in Int /\ calls[t].action # ALLOW
        /\ calls[t].number \in SyscallNumber
    BY ZenonT(40), <2>1, SyscallAssumption DEF CallRecord, Judged
  <2>3. calls[t].action = ERRNO <=> calls[t].result = EPERM
    BY Zenon, <2>1, <2>2 DEF Judged
  <2>4. seccomp_audit_record(t, calls[t].number, calls[t].action, calls[t].result)
    BY Zenon, <1>2 DEF Record
  <2> QED
    BY Zenon, <2>2, <2>3, <2>4, RingRecord
<1>3. CASE SyscallNext /\ ~\E t \in Caller : Record(t)
  <2>1. UNCHANGED auditVars
    BY Zenon, <1>3 DEF SyscallNext, Enter, ReadPolicy, RunHandler, Return, SetPolicy,
                seccomp_set_default_action, seccomp_set_syscall_action
  <2> QED
    BY Zenon, <1>1, <2>1
<1> QED
  BY Zenon, <1>1, <1>2, <1>3 DEF allVars

-----------------------------------------------------------------------------
INSTANCE FiniteSetTheorems

(* A step of one call does not put others on the way or take them off. *)
LEMMA OthersStay ==
    ASSUME SyscallTypeOK, NEW t \in Caller, NEW new, calls' = [calls EXCEPT ![t] = new]
    PROVE  /\ OnTheWay' \ {t} = OnTheWay \ {t}
           /\ (t \in OnTheWay <=> t \in OnTheWay') => OnTheWay' = OnTheWay
<1>1. \A u \in Caller : u # t => calls'[u] = calls[u]
  BY Zenon DEF SyscallTypeOK
<1>2. \A u : u # t => (u \in OnTheWay' <=> u \in OnTheWay)
  BY Zenon, <1>1 DEF OnTheWay, InCall
<1> QED
  BY <1>2

(* The calls on the way are finitely many. *)
LEMMA OnTheWayFinite == IsFiniteSet(OnTheWay) /\ Cardinality(OnTheWay) \in Nat
<1>1. OnTheWay \subseteq Caller
  BY Zenon DEF OnTheWay, InCall
<1> QED
  BY ZenonT(40), <1>1, SyscallAssumption, FS_Subset, FS_CardinalityType

(* One more call is due, and on the way. *)
LEMMA DueMore ==
    ASSUME DueInv, g_seccomp_audit_total \in Nat, NEW t, t \notin OnTheWay,
           OnTheWay' = OnTheWay \cup {t}, due' = due + 1, UNCHANGED g_seccomp_audit_total
    PROVE  DueInv'
<1>1. Cardinality(OnTheWay') = Cardinality(OnTheWay) + 1
  BY Zenon, OnTheWayFinite, FS_AddElement
<1> QED
  BY <1>1, OnTheWayFinite DEF DueInv

(* One more event is recorded, and its call no longer on the way. *)
LEMMA DueLess ==
    ASSUME DueInv, g_seccomp_audit_total \in Nat, NEW t, t \in OnTheWay,
           OnTheWay' = OnTheWay \ {t}, due' = due,
           g_seccomp_audit_total' = g_seccomp_audit_total + 1
    PROVE  DueInv'
<1>1. Cardinality(OnTheWay') = Cardinality(OnTheWay) - 1
  BY Zenon, OnTheWayFinite, FS_RemoveElement
<1> QED
  BY <1>1, OnTheWayFinite DEF DueInv

(* The count of calls that are due is exact through every step. *)
LEMMA DueNext ==
    PolicyInv /\ AuditInv /\ DueInv /\ [SyscallNext]_allVars => DueInv'
<1> SUFFICES ASSUME PolicyInv, AuditInv, DueInv, [SyscallNext]_allVars PROVE DueInv'
  BY Zenon
<1>0. g_seccomp_audit_total \in Nat /\ SyscallTypeOK
  BY Zenon DEF AuditInv, AuditRecent, PolicyInv
<1>1. CASE UNCHANGED <<calls, due, g_seccomp_audit_total>>
  BY Zenon, <1>1 DEF DueInv, OnTheWay, InCall
<1>2. ASSUME NEW t \in Caller, NEW number \in UserNumber, Enter(t, number)
      PROVE  DueInv'
  <2> DEFINE new == [number |-> number, action |-> ALLOW, result |-> ENOSYS,
                     pc |-> IF number \in SyscallNumber THEN "policy" ELSE "return"]
  <2>1. calls' = [calls EXCEPT ![t] = new] /\ calls[t] = NoCall
        /\ UNCHANGED <<due, g_seccomp_audit_total>>
    BY Zenon, <1>2 DEF Enter, auditVars
  <2>2. calls'[t] = new /\ new.pc \notin {"record", "handler"}
    BY Zenon, <2>1, <1>0 DEF SyscallTypeOK
  <2> HIDE DEF new
  <2>3. OnTheWay' = OnTheWay
    BY Zenon, <2>1, <2>2, <1>0, OthersStay DEF OnTheWay, InCall
  <2> QED
    BY Zenon, <2>1, <2>3 DEF DueInv
<1>3. ASSUME NEW t \in Caller, ReadPolicy(t)
      PROVE  DueInv'
  <2> DEFINE action == seccomp_get_syscall_action(calls[t].number)
             new == [calls[t] EXCEPT !.action = action,
                                    !.pc = IF action = ERRNO THEN "record" ELSE "handler",
                                    !.result = IF action = ERRNO THEN EPERM ELSE @]
  <2>1. /\ calls' = [calls EXCEPT ![t] = new] /\ calls[t] # NoCall /\ calls[t].pc = "policy"
        /\ due' = IF action = ALLOW THEN due ELSE due + 1
        /\ UNCHANGED g_seccomp_audit_total
    BY Zenon, <1>3 DEF ReadPolicy, auditVars
  <2>2. calls[t] \in CallRecord /\ action \in PolicyAction
    BY Zenon, <1>0, <2>1, ActionTyped DEF SyscallTypeOK, PolicyInv, Judged
  <2> HIDE DEF action
  <2>3. new \in CallRecord
    <3>1. EPERM \in Int
      BY DEF EPERM
    <3> QED
      BY Zenon, <2>2, <3>1 DEF CallRecord
  <2>4. /\ new.action = action
        /\ new.pc = IF action = ERRNO THEN "record" ELSE "handler"
    BY Zenon, <2>2 DEF CallRecord
  <2>5. calls'[t] = new
    BY Zenon, <2>1, <1>0 DEF SyscallTypeOK
  <2> HIDE DEF new
  <2>6. t \notin OnTheWay
    BY Zenon, <2>1 DEF OnTheWay
  <2>7. CASE action = ALLOW
    <3>1. t \notin OnTheWay'
      BY Zenon, <2>4, <2>5, <2>7 DEF OnTheWay, ALLOW, LOG, ERRNO
    <3>2. OnTheWay' = OnTheWay
      BY ZenonT(40), <3>1, <2>6, <2>1, <1>0, OthersStay
    <3> QED
      BY Zenon, <3>2, <2>1, <2>7 DEF DueInv
  <2>8. CASE action # ALLOW
    <3>1. t \in OnTheWay'
      BY Zenon, <2>2, <2>3, <2>4, <2>5, <2>8, NoCallAssumption DEF OnTheWay, InCall, PolicyAction
    <3>2. OnTheWay' = OnTheWay \cup {t}
      BY Zenon, <3>1, <2>6, <2>1, <1>0, OthersStay
    <3> QED
      BY Zenon, <3>2, <2>1, <2>6, <2>8, <1>0, DueMore
  <2> QED
    BY Zenon, <2>7, <2>8
<1>4. ASSUME NEW t \in Caller, RunHandler(t)
      PROVE  DueInv'
  <2>1. calls[t] \in CallRecord /\ calls[t] # NoCall /\ calls[t].pc = "handler" /\ Judged(t)
    BY Zenon, <1>0, <1>4 DEF RunHandler, PolicyInv, SyscallTypeOK
  <2>2. PICK r \in handler_results(t, calls[t].number) :
           calls' = [calls EXCEPT ![t].result = r, ![t].pc = NextPc(t)]
    BY Zenon, <1>4 DEF RunHandler
  <2>3. r \in Int
    BY SyscallAssumption DEF handler_results, ENOSYS, EFAULT
  <2> DEFINE new == [calls[t] EXCEPT !.result = r, !.pc = NextPc(t)]
  <2>4. calls' = [calls EXCEPT ![t] = new] /\ UNCHANGED <<due, g_seccomp_audit_total>>
    BY Zenon, <1>4, <2>2 DEF RunHandler, auditVars
  <2>5. /\ new \in CallRecord /\ new.action = calls[t].action
        /\ new.pc = (IF calls[t].action = LOG THEN "record" ELSE "return")
    BY ZenonT(40), <2>1, <2>3 DEF CallRecord, NextPc
  <2>6. calls'[t] = new
    BY Zenon, <2>4, <1>0 DEF SyscallTypeOK
  <2> HIDE DEF new
  <2>7. t \in OnTheWay <=> t \in OnTheWay'
    BY Zenon, <2>1, <2>5, <2>6, NoCallAssumption DEF OnTheWay, InCall
  <2>8. OnTheWay' = OnTheWay
    BY Zenon, <2>4, <2>7, <1>0, OthersStay
  <2> QED
    BY Zenon, <2>4, <2>8 DEF DueInv
<1>5. ASSUME NEW t \in Caller, Record(t)
      PROVE  DueInv'
  <2> DEFINE new == [calls[t] EXCEPT !.pc = "return"]
  <2>1. calls[t] \in CallRecord /\ calls[t] # NoCall /\ calls[t].pc = "record"
    BY Zenon, <1>0, <1>5 DEF Record, SyscallTypeOK
  <2>2. /\ calls' = [calls EXCEPT ![t] = new] /\ due' = due
        /\ g_seccomp_audit_total' = g_seccomp_audit_total + 1
    BY Zenon, <1>5 DEF Record, seccomp_audit_record
  <2>3. new.pc = "return" /\ calls'[t] = new
    BY Zenon, <2>1, <2>2, <1>0 DEF SyscallTypeOK, CallRecord
  <2> HIDE DEF new
  <2>4. t \in OnTheWay /\ t \notin OnTheWay'
    BY Zenon, <2>1, <2>3 DEF OnTheWay, InCall
  <2>5. OnTheWay' = OnTheWay \ {t}
    BY Zenon, <2>2, <2>4, <1>0, OthersStay
  <2> QED
    BY Zenon, <2>2, <2>4, <2>5, <1>0, DueLess
<1>6. ASSUME NEW t \in Caller, Return(t)
      PROVE  DueInv'
  <2>1. /\ calls' = [calls EXCEPT ![t] = NoCall] /\ calls[t].pc = "return"
        /\ UNCHANGED <<due, g_seccomp_audit_total>>
    BY Zenon, <1>6 DEF Return, auditVars
  <2>2. calls'[t] = NoCall
    BY Zenon, <2>1, <1>0 DEF SyscallTypeOK
  <2>3. t \notin OnTheWay /\ t \notin OnTheWay'
    BY Zenon, <2>1, <2>2 DEF OnTheWay, InCall
  <2>4. OnTheWay' = OnTheWay
    BY ZenonT(40), <2>1, <2>3, <1>0, OthersStay
  <2> QED
    BY Zenon, <2>1, <2>4 DEF DueInv
<1>7. CASE SetPolicy
  <2>1. UNCHANGED <<calls, due, g_seccomp_audit_total>>
    BY Zenon, <1>7 DEF SetPolicy, seccomp_set_default_action, seccomp_set_syscall_action, auditVars
  <2> QED
    BY Zenon, <1>1, <2>1
<1>8. CASE UNCHANGED allVars
  <2>1. UNCHANGED <<calls, due, g_seccomp_audit_total>>
    BY Zenon, <1>8 DEF allVars, auditVars, syscallVars
  <2> QED
    BY Zenon, <1>1, <2>1
<1> QED
  BY Zenon, <1>2, <1>3, <1>4, <1>5, <1>6, <1>7, <1>8 DEF SyscallNext

(* At first nothing is due. *)
LEMMA DueInit == syscall_init => DueInv
<1> SUFFICES ASSUME syscall_init PROVE DueInv
  BY Zenon
<1>1. OnTheWay = {}
  BY Zenon DEF OnTheWay, InCall, syscall_init
<1> QED
  BY <1>1, FS_EmptySet DEF DueInv, syscall_init, seccomp_init

-----------------------------------------------------------------------------
(* The inductive invariant of system calls, policy and audit ring          *)
(* (syscall_dispatch, seccomp.c).                                          *)
THEOREM SyscallInvariant == SyscallSpec => []SyscallInv
<1>1. syscall_init => SyscallInv
  BY Zenon, PolicyInit, AuditInit, DueInit DEF SyscallInv
<1>2. SyscallInv /\ [SyscallNext]_allVars => SyscallInv'
  BY Zenon, PolicyNext, RingNext, DueNext DEF SyscallInv
<1> QED
  BY <1>1, <1>2, PTL DEF SyscallSpec, allVars

(* A call is judged by a policy that was in force while it ran, for any    *)
(* number of tasks, calls and changes of the policy (syscall_dispatch).    *)
THEOREM CallsAreJudged == SyscallSpec => []JudgedDuringCall
<1>1. SyscallInv => JudgedDuringCall
  BY Zenon DEF SyscallInv, PolicyInv, JudgedDuringCall, Judged, InCall
<1> QED
  BY <1>1, SyscallInvariant, PTL

(* The audit ring holds the latest events in order, one for every call     *)
(* denied or logged, for any capacity (seccomp_audit_record).              *)
THEOREM AuditIsExact == SyscallSpec => []AuditExact
<1>1. SyscallInv => AuditExact
  <2> SUFFICES ASSUME SyscallInv PROVE AuditExact
    BY Zenon
  <2>1. AuditRecent
    BY Zenon DEF SyscallInv, AuditInv
  <2>2. ASSUME g_seccomp_audit_size > 0
        PROVE  /\ seccomp_audit_latest.action # ALLOW
               /\ seccomp_audit_latest.action = ERRNO <=> seccomp_audit_latest.result = EPERM
    <3>1. g_seccomp_audit_size \in 1..g_seccomp_audit_size
      BY <2>1, <2>2, SeccompAssumption DEF AuditRecent
    <3>2. seccomp_audit_latest = At(g_seccomp_audit_size)
      BY Zenon DEF seccomp_audit_latest, At
    <3> QED
      BY Zenon, <3>1, <3>2 DEF SyscallInv, AuditInv
  <2> QED
    BY Zenon, <2>1, <2>2 DEF AuditExact, AuditComplete, SyscallInv, DueInv
<1> QED
  BY <1>1, SyscallInvariant, PTL

-----------------------------------------------------------------------------
(* The reader-writer lock (rwlock.c). *)

(* One task more, or one less, in Counted moves the count by one. *)
LEMMA CountedMoves ==
    ASSUME RwTypeOK, CountExact, NEW p \in Proc
    PROVE  /\ Counted' = Counted \cup {p} /\ p \notin Counted
                => Cardinality(Counted') = readers + 1
           /\ Counted' = Counted \ {p} /\ p \in Counted
                => readers - 1 \in Nat /\ Cardinality(Counted') = readers - 1
<1>1. IsFiniteSet(Counted)
  BY Zenon, ProcFinite, FS_Subset DEF Counted
<1>2. Cardinality(Counted \cup {p}) = IF p \in Counted THEN readers ELSE readers + 1
  BY Zenon, <1>1, FS_AddElement DEF CountExact
<1>3. /\ Cardinality(Counted \ {p}) = IF p \in Counted THEN readers - 1 ELSE readers
      /\ IsFiniteSet(Counted \ {p})
  BY Zenon, <1>1, FS_RemoveElement DEF CountExact
<1>4. Cardinality(Counted \ {p}) \in Nat
  BY Zenon, <1>3, FS_CardinalityType
<1> QED
  BY Zenon, <1>2, <1>3, <1>4

(* The lock's invariant is inductive. *)
THEOREM RwInvariant == RwSpec => []RwInv
<1>1. RwInit => RwInv
  <2> SUFFICES ASSUME RwInit PROVE RwInv
    BY Zenon
  <2>1. RwTypeOK
    BY Zenon DEF RwInit, RwTypeOK, Labels
  <2>2. Counted = {}
    BY Zenon DEF RwInit, Counted
  <2>3. CountExact
    BY Zenon, <2>2, FS_EmptySet DEF RwInit, CountExact
  <2> QED
    BY <2>1, <2>3 DEF RwInit, RwInv, FlagHeld
<1>2. RwInv /\ [RwNext]_rwVars => RwInv'
  <2> SUFFICES ASSUME RwInv, [RwNext]_rwVars PROVE RwInv'
    BY Zenon
  <2> USE DEF RwInv, RwTypeOK, Labels, Goto, FlagHeld
  (* Steps that leave the counter and the flag alone. *)
  <2>1. ASSUME NEW p \in Proc,
               ReadLock(p) \/ WriteLock(p) \/ ReadSeesNoWriter(p)
        PROVE  RwInv'
    <3>1. Counted' = Counted
      BY ZenonT(40), <2>1 DEF ReadLock, WriteLock, ReadSeesNoWriter, Counted
    <3>2. CountExact'
      BY Zenon, <2>1, <3>1 DEF ReadLock, WriteLock, ReadSeesNoWriter, CountExact
    <3> QED
      BY <2>1, <3>2 DEF ReadLock, WriteLock, ReadSeesNoWriter
  <2>2. ASSUME NEW p \in Proc, ReadCheck(p) PROVE RwInv'
    <3>1. Counted' = Counted
      BY Zenon, <2>2 DEF ReadCheck, Counted
    <3>2. CountExact'
      BY Zenon, <2>2, <3>1 DEF ReadCheck, CountExact
    <3> QED
      BY <2>2, <3>2 DEF ReadCheck
  (* Steps that move the counter. *)
  <2>3. ASSUME NEW p \in Proc, ReadAdd(p) PROVE RwInv'
    <3>1. Counted' = Counted \cup {p} /\ p \notin Counted
      BY <2>3 DEF ReadAdd, Counted
    <3>2. CountExact'
      BY Zenon, <2>3, <3>1, CountedMoves DEF ReadAdd, CountExact
    <3> QED
      BY <2>3, <3>2 DEF ReadAdd
  <2>4. ASSUME NEW p \in Proc, ReadBackOff(p) \/ ReadUnlock(p) PROVE RwInv'
    <3>1. Counted' = Counted \ {p} /\ p \in Counted
      BY Zenon, <2>4 DEF ReadBackOff, ReadUnlock, Counted
    <3>2. CountExact' /\ readers - 1 \in Nat
      BY Zenon, <2>4, <3>1, CountedMoves DEF ReadBackOff, ReadUnlock, CountExact
    <3> QED
      BY <2>4, <3>2 DEF ReadBackOff, ReadUnlock
  (* Steps of writers. *)
  <2>5. ASSUME NEW p \in Proc, WriteTake(p) \/ WriteUnlock(p) PROVE RwInv'
    <3>1. Counted' = Counted
      BY ZenonT(40), <2>5 DEF WriteTake, WriteUnlock, Counted
    <3>2. CountExact'
      BY Zenon, <2>5, <3>1 DEF WriteTake, WriteUnlock, CountExact
    <3> QED
      BY <2>5, <3>2 DEF WriteTake, WriteUnlock
  <2>6. ASSUME NEW p \in Proc, WriteDrained(p) PROVE RwInv'
    <3>1. Counted' = Counted
      BY Zenon, <2>6 DEF WriteDrained, Counted
    <3>2. CountExact'
      BY Zenon, <2>6, <3>1 DEF WriteDrained, CountExact
    <3>3. Counted = {}
      <4>1. IsFiniteSet(Counted)
        BY Zenon, ProcFinite, FS_Subset DEF Counted
      <4> QED
        BY Zenon, <4>1, <2>6, FS_EmptySet DEF WriteDrained, CountExact
    <3>4. \A q \in Proc : pc[q] # "reading"
      BY Zenon, <3>3 DEF Counted
    <3> QED
      BY ZenonT(40), <2>6, <3>2, <3>4 DEF WriteDrained
  <2>7. CASE UNCHANGED rwVars
    BY ZenonT(40), <2>7 DEF rwVars, CountExact, Counted
  <2> QED
    BY ZenonT(40), <2>1, <2>2, <2>3, <2>4, <2>5, <2>6, <2>7 DEF RwNext, Step
<1> QED
  BY <1>1, <1>2, PTL DEF RwSpec

(* The lock words keep their types; the counter never goes below zero. *)
THEOREM RwTypeCorrect == RwSpec => []RwTypeOK
<1>1. RwInv => RwTypeOK
  BY Zenon DEF RwInv
<1> QED
  BY <1>1, RwInvariant, PTL

(* A writer inside the lock is alone. *)
THEOREM WriterIsAlone == RwSpec => []Exclusion
<1>1. RwInv => Exclusion
  BY Zenon DEF RwInv, Exclusion, FlagHeld, RwTypeOK, Labels
<1> QED
  BY <1>1, RwInvariant, PTL

(* The counter is the number of readers inside or still arriving. *)
THEOREM CounterIsExact == RwSpec => []CountExact
<1>1. RwInv => CountExact
  BY Zenon DEF RwInv
<1> QED
  BY <1>1, RwInvariant, PTL

-----------------------------------------------------------------------------
(* RCU and its demo tasks (rcu.c, kmain.c). *)

(* Entering a read section raises the count by one, leaving lowers it. *)
LEMMA SectionCount ==
    ASSUME ReaderInv, NEW r \in Reader
    PROVE  /\ r \notin Section => Cardinality(Section \cup {r}) = g_rcu_readers + 1
           /\ r \in Section => /\ g_rcu_readers \in Nat /\ g_rcu_readers # 0
                               /\ Cardinality(Section \ {r}) = g_rcu_readers - 1
                               /\ g_rcu_readers - 1 \in Nat
<1>1. IsFiniteSet(Section)
  BY Zenon, RcuAssumption, FS_Subset DEF Section, RcuAssumption
<1>2. r \notin Section => Cardinality(Section \cup {r}) = g_rcu_readers + 1
  BY Zenon, <1>1, FS_AddElement DEF ReaderInv
<1>3. ASSUME r \in Section
      PROVE  Cardinality(Section \ {r}) = g_rcu_readers - 1 /\ IsFiniteSet(Section \ {r})
  BY Zenon, <1>1, <1>3, FS_RemoveElement DEF ReaderInv
<1>4. g_rcu_readers \in Nat
  BY Zenon, <1>1, FS_CardinalityType DEF ReaderInv
<1>5. r \in Section => g_rcu_readers - 1 \in Nat
  BY Zenon, <1>3, FS_CardinalityType
<1> QED
  BY <1>2, <1>3, <1>4, <1>5

(* The places of a queue behind its head. *)
LEMMA NextPlace ==
    \A l \in Nat : \A i \in 1..(l - 1) : i + 1 \in 1..l /\ i + 1 # 1
  OBVIOUS

(* The queue after call_rcu and after a callback is taken. *)
LEMMA QueueMoves ==
    ASSUME RcuTypeOK
    PROVE  /\ Len(callbacks) \in Nat
           /\ \A i \in 1..Len(callbacks) : callbacks[i] \in Node
           /\ \A n \in Node :
                /\ Append(callbacks, n) \in Seq(Node)
                /\ Len(Append(callbacks, n)) = Len(callbacks) + 1
                /\ \A i \in 1..Len(callbacks) : Append(callbacks, n)[i] = callbacks[i]
                /\ Append(callbacks, n)[Len(callbacks) + 1] = n
           /\ callbacks # <<>> =>
                /\ Tail(callbacks) \in Seq(Node)
                /\ Head(callbacks) = callbacks[1] /\ Head(callbacks) \in Node
                /\ 1 \in 1..Len(callbacks)
                /\ Len(Tail(callbacks)) = Len(callbacks) - 1
                /\ \A i \in 1..(Len(callbacks) - 1) : Tail(callbacks)[i] = callbacks[i + 1]
<1>1. callbacks \in Seq(Node)
  BY Zenon DEF RcuTypeOK
<1>2. Len(callbacks) \in Nat /\ \A i \in 1..Len(callbacks) : callbacks[i] \in Node
  BY <1>1
<1>3. ASSUME NEW n \in Node
      PROVE  /\ Append(callbacks, n) \in Seq(Node)
             /\ Len(Append(callbacks, n)) = Len(callbacks) + 1
             /\ \A i \in 1..Len(callbacks) : Append(callbacks, n)[i] = callbacks[i]
             /\ Append(callbacks, n)[Len(callbacks) + 1] = n
  BY <1>1
<1>4. ASSUME callbacks # <<>>
      PROVE  /\ Tail(callbacks) \in Seq(Node)
             /\ Head(callbacks) = callbacks[1] /\ Head(callbacks) \in Node
             /\ 1 \in 1..Len(callbacks)
             /\ Len(Tail(callbacks)) = Len(callbacks) - 1
             /\ \A i \in 1..(Len(callbacks) - 1) : Tail(callbacks)[i] = callbacks[i + 1]
  <2>1. Len(callbacks) \in Nat \ {0}
    BY <1>1, <1>4
  <2>2. Head(callbacks) = callbacks[1]
    BY <1>1, <1>4
  <2>3. Head(callbacks) \in Node
    BY <1>1, <1>4
  <2>4. Tail(callbacks) \in Seq(Node)
    BY <1>1, <1>4
  <2>5. Len(Tail(callbacks)) = Len(callbacks) - 1
    BY <1>1, <1>4
  <2>6. \A i \in 1..(Len(callbacks) - 1) : Tail(callbacks)[i] = callbacks[i + 1]
    BY <1>1, <1>4
  <2>7. 1 \in 1..Len(callbacks)
    BY <2>1
  <2> QED
    BY ZenonT(40), <2>2, <2>3, <2>4, <2>5, <2>6, <2>7
<1> QED
  BY Zenon, <1>2, <1>3, <1>4

(* The start satisfies the invariant. *)
LEMMA RcuInitInv == RcuInit => RcuInv
<1> SUFFICES ASSUME RcuInit PROVE RcuInv
  BY Zenon
<1> USE RcuAssumption DEF RcuAssumption, RcuInit, Node
<1>1. <<>> \in Seq(Node) /\ Len(<<>>) = 0
  OBVIOUS
<1>2. RcuTypeOK
  <2>1. in_use \in [Node -> BOOLEAN]
    BY Zenon
  <2> QED
    BY <1>1, <2>1 DEF RcuTypeOK, Pointer
<1>3. ReaderInv
  <2>1. Section = {}
    BY Zenon DEF Section
  <2> QED
    BY Zenon, <2>1, FS_EmptySet DEF ReaderInv
<1>4. UpdaterInv
  <2>1. 1 \in Node /\ published = 1
    OBVIOUS
  <2>3. in_use[1]
    <3> HIDE DEF Node
    <3> QED
      BY <2>1, Zenon
  <2>2. next = NONE /\ old = NONE /\ upc = "alloc"
    BY Zenon
  <2> QED
    BY Zenon, <2>1, <2>2, <2>3 DEF UpdaterInv
<1>5. RetiredInv /\ GraceInv
  BY <1>1 DEF RetiredInv, GraceInv
<1> QED
  BY ZenonT(40), <1>2, <1>3, <1>4, <1>5 DEF RcuInv

(* Steps that leave the queue and the reclaimers alone, and unlink no      *)
(* retired node.                                                           *)
LEMMA RetiredKept ==
    ASSUME RcuInv, UNCHANGED <<callbacks, callback, kpc>>,
           \A m \in Node : Unlinked(m) => Unlinked(m)'
    PROVE  RetiredInv'
<1> USE DEF RcuInv
<1>1. callbacks' = callbacks /\ callback' = callback /\ kpc' = kpc
  BY Zenon
<1>2. \A i \in 1..Len(callbacks) : callbacks[i] \in Node
  BY Zenon, QueueMoves
<1>3. \A k \in Reclaimer : callback[k] # NONE => callback[k] \in Node
  BY Zenon DEF RcuTypeOK, Pointer
<1>4. ASSUME NEW i \in 1..Len(callbacks) PROVE Unlinked(callbacks[i])'
  <2>1. Unlinked(callbacks[i])
    BY Zenon DEF RetiredInv
  <2> QED
    BY Zenon, <1>1, <1>2, <2>1 DEF Unlinked
<1>5. ASSUME NEW k \in Reclaimer, callback[k] # NONE PROVE Unlinked(callback[k])'
  <2>1. Unlinked(callback[k])
    BY Zenon, <1>5 DEF RetiredInv
  <2> QED
    BY Zenon, <1>1, <1>3, <1>5, <2>1 DEF Unlinked
<1> QED
  BY Zenon, <1>1, <1>4, <1>5 DEF RetiredInv

(* Reader steps keep the invariant.  rcu_read_unlock never finds the       *)
(* counter at zero, because the caller itself is counted.                  *)
LEMMA ReaderKeeps ==
    ASSUME RcuInv, NEW r \in Reader, rcu_read_lock(r) \/ ReaderStep(r)
    PROVE  RcuInv'
<1> USE DEF RcuInv
<1> USE RcuAssumption DEF RcuAssumption
<1>1. UNCHANGED <<in_use, callbacks, outstanding, published, upc, next, old, kpc, callback>>
  BY Zenon DEF rcu_read_lock, ReaderStep, Dereference, rcu_read_unlock, ReadLeave,
         updaterVars, reclaimerVars
<1>2. UpdaterInv' /\ RetiredInv'
  BY ZenonT(40), <1>1 DEF UpdaterInv, RetiredInv, Unlinked
<1>3. CASE rcu_read_lock(r)
  <2>1. rpc' = [rpc EXCEPT ![r] = "deref"] /\ g_rcu_readers' = g_rcu_readers + 1 /\ ref' = ref
    BY Zenon, <1>3 DEF rcu_read_lock
  <2>2. r \notin Section /\ Section' = Section \cup {r}
    BY <1>3, <2>1 DEF rcu_read_lock, Section, RcuTypeOK
  <2>3. RcuTypeOK'
    BY <1>1, <2>1 DEF RcuTypeOK
  <2>4. ReaderInv'
    <3>1. g_rcu_readers' = Cardinality(Section')
      BY Zenon, <2>1, <2>2, SectionCount
    <3> QED
      BY <1>1, <1>3, <2>1, <3>1 DEF ReaderInv, rcu_read_lock, RcuTypeOK
  <2>5. GraceInv'
    BY ZenonT(40), <1>1, <2>1 DEF GraceInv
  <2> QED
    BY Zenon, <1>2, <2>3, <2>4, <2>5
<1>4. CASE Dereference(r)
  <2>1. /\ rpc' = [rpc EXCEPT ![r] = "using"] /\ g_rcu_readers' = g_rcu_readers
        /\ ref' = [ref EXCEPT ![r] = published]
    BY Zenon, <1>4 DEF Dereference
  <2>2. Section' = Section
    BY ZenonT(40), <1>4, <2>1 DEF Dereference, Section, RcuTypeOK
  <2>3. RcuTypeOK'
    BY <1>1, <2>1 DEF RcuTypeOK, Pointer
  <2>4. ReaderInv'
    BY ZenonT(40), <1>1, <2>1, <2>2 DEF ReaderInv, UpdaterInv, RcuTypeOK
  <2>5. GraceInv'
    BY SMTT(30), Z3T(30), <1>1, <2>1 DEF GraceInv, RetiredInv, Unlinked, RcuTypeOK
  <2> QED
    BY Zenon, <1>2, <2>3, <2>4, <2>5
<1>5. CASE rcu_read_unlock(r)
  <2>1. r \in Section
    BY Zenon, <1>5 DEF rcu_read_unlock, Section
  <2>2. g_rcu_readers # 0
    BY Zenon, <2>1, SectionCount
  <2>3. /\ rpc' = [rpc EXCEPT ![r] = "leave"] /\ g_rcu_readers' = g_rcu_readers
        /\ ref' = [ref EXCEPT ![r] = NONE]
    BY Zenon, <1>5, <2>2 DEF rcu_read_unlock
  <2>4. Section' = Section
    BY Zenon, <2>1, <2>3 DEF Section, RcuTypeOK
  <2>5. RcuTypeOK'
    BY Zenon, <1>1, <2>3 DEF RcuTypeOK, Pointer
  <2>6. ReaderInv'
    BY ZenonT(40), <1>1, <2>3, <2>4 DEF ReaderInv, RcuTypeOK
  <2>7. GraceInv'
    BY ZenonT(40), <1>1, <2>3 DEF GraceInv, RetiredInv, RcuTypeOK
  <2> QED
    BY Zenon, <1>2, <2>5, <2>6, <2>7
<1>6. CASE ReadLeave(r)
  <2>1. rpc' = [rpc EXCEPT ![r] = "out"] /\ g_rcu_readers' = g_rcu_readers - 1 /\ ref' = ref
    BY Zenon, <1>6 DEF ReadLeave
  <2>2. r \in Section /\ Section' = Section \ {r}
    BY Zenon, <1>6, <2>1 DEF ReadLeave, Section, RcuTypeOK
  <2>3. RcuTypeOK'
    <3>1. g_rcu_readers' \in Nat
      BY Zenon, <2>1, <2>2, SectionCount
    <3> QED
      BY ZenonT(40), <1>1, <2>1, <3>1 DEF RcuTypeOK
  <2>4. ReaderInv'
    <3>1. g_rcu_readers' = Cardinality(Section')
      BY Zenon, <2>1, <2>2, SectionCount
    <3> QED
      BY <1>1, <1>6, <2>1, <3>1 DEF ReaderInv, ReadLeave, RcuTypeOK
  <2>5. GraceInv'
    BY Zenon, <1>1, <2>1 DEF GraceInv
  <2> QED
    BY Zenon, <1>2, <2>3, <2>4, <2>5
<1> QED
  BY ZenonT(40), <1>3, <1>4, <1>5, <1>6 DEF ReaderStep

(* Updater steps keep the invariant. *)
LEMMA UpdaterKeeps ==
    ASSUME RcuInv, UpdaterStep
    PROVE  RcuInv'
<1> USE DEF RcuInv
<1> USE RcuAssumption DEF RcuAssumption
<1>1. UNCHANGED <<rpc, ref, g_rcu_readers, kpc, callback>>
  BY Zenon DEF UpdaterStep, UpdateAlloc, UpdatePublish, CallRcu, readerVars, reclaimerVars
<1>2. Section' = Section /\ GraceInv'
  BY Zenon, <1>1 DEF Section, GraceInv
<1>3. CASE UpdateAlloc
  <2>1. PICK n \in Node : ~in_use[n] /\ in_use' = [in_use EXCEPT ![n] = TRUE] /\ next' = n
    BY Zenon, <1>3 DEF UpdateAlloc
  <2>2. upc = "alloc" /\ upc' = "publish" /\ UNCHANGED <<old, published, callbacks, outstanding>>
    BY Zenon, <1>3 DEF UpdateAlloc
  <2>3. next = NONE /\ old = NONE
    BY Zenon, <2>2 DEF UpdaterInv
  <2>4. \A m \in Node : in_use[m] => in_use'[m] /\ m # n
    BY Zenon, <2>1 DEF RcuTypeOK
  <2>5. RcuTypeOK'
    <3>1. in_use' \in [Node -> BOOLEAN]
      BY Zenon, <2>1 DEF RcuTypeOK
    <3> QED
      BY Zenon, <1>1, <2>1, <2>2, <3>1 DEF RcuTypeOK, Pointer
  <2>6. ReaderInv'
    BY <1>1, <1>2, <2>4 DEF ReaderInv, RcuTypeOK, Pointer
  <2>7. UpdaterInv'
    <3>1. in_use'[n]
      BY Zenon, <2>1 DEF RcuTypeOK
    <3>2. in_use'[published] /\ n # published
      BY Zenon, <2>4 DEF UpdaterInv, RcuTypeOK
    <3>3. n # NONE
      BY Zenon DEF Node
    <3> QED
      BY Zenon, <2>1, <2>2, <2>3, <3>1, <3>2, <3>3 DEF UpdaterInv
  <2>8. RetiredInv'
    <3>1. \A m \in Node : Unlinked(m) => Unlinked(m)'
      BY Zenon, <2>1, <2>2, <2>4 DEF Unlinked
    <3> QED
      BY Zenon, <1>1, <2>2, <3>1, RetiredKept
  <2> QED
    BY ZenonT(40), <1>2, <2>5, <2>6, <2>7, <2>8
<1>4. CASE UpdatePublish
  <2>1. /\ upc = "publish" /\ upc' = "retire" /\ old' = published /\ published' = next
        /\ next' = NONE /\ UNCHANGED <<in_use, callbacks, outstanding>>
    BY Zenon, <1>4 DEF UpdatePublish
  <2>2. next \in Node /\ next # published /\ in_use[next] /\ in_use[published] /\ old = NONE
    BY Zenon, <2>1 DEF UpdaterInv, RcuTypeOK, Pointer
  <2>3. RcuTypeOK'
    BY Zenon, <1>1, <2>1, <2>2 DEF RcuTypeOK, Pointer
  <2>4. ReaderInv'
    BY Zenon, <1>1, <1>2, <2>1 DEF ReaderInv
  <2>5. UpdaterInv'
    BY Zenon, <2>1, <2>2 DEF UpdaterInv, RcuTypeOK
  <2>6. RetiredInv'
    <3>1. \A m \in Node : Unlinked(m) => Unlinked(m)'
      BY Zenon, <2>1, <2>2 DEF Unlinked
    <3>2. \A i \in 1..Len(callbacks) : Unlinked(callbacks[i]) /\ callbacks[i] \in Node
      BY Zenon, QueueMoves DEF RetiredInv
    <3>3. \A i \in 1..Len(callbacks') : Unlinked(callbacks[i])'
      BY Zenon, <2>1, <3>1, <3>2
    <3>4. \A k \in Reclaimer : callback[k] # NONE => Unlinked(callback[k])'
      BY ZenonT(40), <1>1, <3>1 DEF RetiredInv, RcuTypeOK, Pointer
    <3> QED
      BY <1>1, <2>1, <3>3, <3>4 DEF RetiredInv
  <2> QED
    BY Zenon, <1>2, <2>3, <2>4, <2>5, <2>6
<1>5. CASE CallRcu
  <2>1. /\ upc = "retire" /\ upc' = "alloc" /\ callbacks' = Append(callbacks, old)
        /\ outstanding' = outstanding + 1 /\ old' = NONE /\ UNCHANGED <<next, published, in_use>>
    BY Zenon, <1>5 DEF CallRcu
  <2>2. old \in Node /\ old # published /\ in_use[old] /\ next = NONE
    BY Zenon, <2>1 DEF UpdaterInv, RcuTypeOK, Pointer
  <2> DEFINE L == Len(callbacks)
  <2>3. /\ callbacks' \in Seq(Node) /\ Len(callbacks') = L + 1 /\ L \in Nat
        /\ \A i \in 1..L : callbacks'[i] = callbacks[i] /\ callbacks[i] \in Node
        /\ callbacks'[L + 1] = old
    BY SMTT(30), Z3T(30), <2>1, <2>2, QueueMoves
  <2>4. RcuTypeOK'
    BY <1>1, <2>1, <2>3 DEF RcuTypeOK, Pointer
  <2>5. ReaderInv'
    BY ZenonT(40), <1>1, <1>2, <2>1 DEF ReaderInv
  <2>6. UpdaterInv'
    BY Zenon, <2>1, <2>2 DEF UpdaterInv
  <2>7. RetiredInv'
    <3>1. \A m \in Node : Unlinked(m) => Unlinked(m)' /\ m # old
      BY Zenon, <2>1, <2>2 DEF Unlinked
    <3>2. \A m \in Node : m = old => Unlinked(m)'
      BY Zenon, <2>1, <2>2 DEF Unlinked
    <3>3. \A i \in 1..(L + 1) : i \in 1..L \/ i = L + 1
      BY <2>3
    <3>4. \A i \in 1..L : Unlinked(callbacks[i]) /\ callbacks[i] # old
      BY Zenon, <2>3, <3>1 DEF RetiredInv
    <3>5. \A i \in 1..Len(callbacks') : Unlinked(callbacks[i])'
      BY ZenonT(40), <2>2, <2>3, <3>1, <3>2, <3>3, <3>4
    <3>6. \A i, j \in 1..Len(callbacks') : callbacks'[i] = callbacks'[j] => i = j
      BY <2>3, <3>3, <3>4 DEF RetiredInv
    <3>7. ASSUME NEW k \in Reclaimer, callback[k] # NONE
          PROVE  /\ Unlinked(callback[k])'
                 /\ \A i \in 1..Len(callbacks') : callbacks'[i] # callback[k]
      <4>1. callback[k] \in Node /\ Unlinked(callback[k])
        BY <3>7 DEF RetiredInv, RcuTypeOK, Pointer
      <4> QED
        BY Zenon, <4>1, <3>7, <1>1, <2>3, <3>1, <3>3 DEF RetiredInv
    <3> QED
      BY Zenon, <1>1, <3>5, <3>6, <3>7 DEF RetiredInv
  <2> QED
    BY Zenon, <1>2, <2>4, <2>5, <2>6, <2>7
<1> QED
  BY Zenon, <1>3, <1>4, <1>5 DEF UpdaterStep

(* Reclaimer steps keep the invariant.  A grace period that ends finds no  *)
(* reader inside, hence no reference; and a later reader can only get the  *)
(* published node, which is not the one to be freed.                       *)
LEMMA ReclaimerKeeps ==
    ASSUME RcuInv, NEW k \in Reclaimer, ReclaimerStep(k) \/ Synchronize(k)
    PROVE  RcuInv'
<1> USE DEF RcuInv
<1> USE RcuAssumption DEF RcuAssumption
<1>1. UNCHANGED <<rpc, ref, g_rcu_readers, upc, next, old, published>>
  BY Zenon DEF ReclaimerStep, Synchronize, TakeCallback, RunCallback, CountCallback,
         readerVars, updaterVars
<1>2. Section' = Section
  BY Zenon, <1>1 DEF Section
<1>3. CASE TakeCallback(k)
  <2>1. /\ kpc[k] = "take" /\ callbacks # <<>>
        /\ callback' = [callback EXCEPT ![k] = Head(callbacks)]
        /\ callbacks' = Tail(callbacks) /\ kpc' = [kpc EXCEPT ![k] = "sync"]
        /\ UNCHANGED <<in_use, outstanding>>
    BY Zenon, <1>3 DEF TakeCallback
  <2> DEFINE L == Len(callbacks)
             h == Head(callbacks)
  <2>2. /\ callbacks' \in Seq(Node) /\ Len(callbacks') = L - 1 /\ L \in Nat
        /\ h = callbacks[1] /\ h \in Node /\ 1 \in 1..L
        /\ \A i \in 1..(L - 1) : callbacks'[i] = callbacks[i + 1]
    BY Zenon, <2>1, QueueMoves
  <2>3. callback[k] = NONE
    BY Zenon, <2>1 DEF RetiredInv
  <2>4. RcuTypeOK'
    BY Zenon, <1>1, <2>1, <2>2 DEF RcuTypeOK, Pointer
  <2>5. ReaderInv' /\ UpdaterInv' /\ GraceInv'
    BY ZenonT(40), <1>1, <1>2, <2>1 DEF ReaderInv, UpdaterInv, GraceInv, RcuTypeOK
  <2>6. RetiredInv'
    <3>1. \A m : Unlinked(m)' <=> Unlinked(m)
      BY Zenon, <1>1, <2>1 DEF Unlinked
    <3>2. \A i \in 1..Len(callbacks') :
            i + 1 \in 1..L /\ i + 1 # 1 /\ callbacks'[i] = callbacks[i + 1]
      BY Zenon, <2>2, NextPlace
    <3>3. \A i \in 1..Len(callbacks') : Unlinked(callbacks[i])' /\ callbacks'[i] # h
      <4> TAKE i \in 1..Len(callbacks')
      <4>1. i + 1 \in 1..L /\ i + 1 # 1 /\ callbacks'[i] = callbacks[i + 1] /\ 1 \in 1..L
        BY Zenon, <2>2, <3>2
      <4>2. Unlinked(callbacks[i + 1]) /\ callbacks[i + 1] # callbacks[1]
        BY Zenon, <4>1 DEF RetiredInv
      <4> QED
        BY Zenon, <1>1, <2>1, <2>2, <4>1, <4>2 DEF Unlinked
    <3>4. \A i, j \in 1..Len(callbacks') : callbacks'[i] = callbacks'[j] => i = j
      <4> TAKE i, j \in 1..Len(callbacks')
      <4>1. callbacks'[i] = callbacks'[j] => i + 1 = j + 1
        BY <3>2 DEF RetiredInv
      <4> QED
        BY <4>1
    <3>5. \A l \in Reclaimer : /\ callback'[l] = IF l = k THEN h ELSE callback[l]
                             /\ kpc'[l] = IF l = k THEN "sync" ELSE kpc[l]
      BY Zenon, <2>1 DEF RcuTypeOK
    <3>6. Unlinked(h) /\ h # NONE
      BY <2>2 DEF RetiredInv
    <3>7. \A l \in Reclaimer : callback[l] # h
      BY <2>2, <3>6 DEF RetiredInv
    <3>8. ASSUME NEW l \in Reclaimer, callback'[l] # NONE
          PROVE  /\ Unlinked(callback[l])'
                 /\ \A i \in 1..Len(callbacks') : callbacks'[i] # callback'[l]
      <4>1. CASE l = k
        BY ZenonT(40), <4>1, <3>1, <3>3, <3>5, <3>6
      <4>2. CASE l # k
        BY <4>2, <3>8, <3>1, <3>2, <3>5 DEF RetiredInv
      <4> QED
        BY Zenon, <4>1, <4>2
    <3>9. \A l \in Reclaimer : callback'[l] # NONE <=> kpc'[l] \in {"sync", "run"}
      BY ZenonT(40), <3>5, <3>6 DEF RetiredInv
    <3>10. \A l, m \in Reclaimer :
             callback'[l] # NONE /\ callback'[l] = callback'[m] => l = m
      BY <3>5, <3>7 DEF RetiredInv
    <3> QED
      BY Zenon, <3>3, <3>4, <3>8, <3>9, <3>10 DEF RetiredInv
  <2> QED
    BY ZenonT(40), <2>4, <2>5, <2>6
<1>4. CASE Synchronize(k)
  <2>1. /\ kpc[k] = "sync" /\ g_rcu_readers = 0 /\ kpc' = [kpc EXCEPT ![k] = "run"]
        /\ UNCHANGED <<callback, in_use, callbacks, outstanding>>
    BY Zenon, <1>4 DEF Synchronize
  <2>2. \A r \in Reader : ref[r] = NONE
    <3>1. \A r \in Reader : r \notin Section
      BY Zenon, <2>1, SectionCount
    <3> QED
      BY Zenon, <3>1 DEF Section, ReaderInv
  <2>3. RcuTypeOK'
    BY Zenon, <1>1, <2>1 DEF RcuTypeOK
  <2>4. ReaderInv' /\ UpdaterInv'
    BY ZenonT(40), <1>1, <1>2, <2>1 DEF ReaderInv, UpdaterInv
  <2>5. GraceInv'
    BY SMTT(30), Z3T(30), <1>1, <2>1, <2>2 DEF GraceInv, RetiredInv, RcuTypeOK
  <2>6. RetiredInv'
    BY <1>1, <2>1 DEF RetiredInv, Unlinked, RcuTypeOK
  <2> QED
    BY Zenon, <2>3, <2>4, <2>5, <2>6
<1>5. CASE RunCallback(k)
  <2> DEFINE n == callback[k]
  <2>1. /\ kpc[k] = "run" /\ in_use' = [in_use EXCEPT ![n] = FALSE]
        /\ callback' = [callback EXCEPT ![k] = NONE] /\ kpc' = [kpc EXCEPT ![k] = "count"]
        /\ UNCHANGED <<callbacks, outstanding>>
    BY Zenon, <1>5 DEF RunCallback
  <2>2. n # NONE /\ n \in Node /\ Unlinked(n)
    BY ZenonT(40), <2>1 DEF RetiredInv, RcuTypeOK, Pointer
  <2>3. \A m \in Node : m # n => in_use'[m] = in_use[m]
    BY Zenon, <2>1 DEF RcuTypeOK
  <2>4. \A l \in Reclaimer : /\ callback'[l] = IF l = k THEN NONE ELSE callback[l]
                           /\ kpc'[l] = IF l = k THEN "count" ELSE kpc[l]
    BY ZenonT(40), <2>1 DEF RcuTypeOK
  <2>5. RcuTypeOK'
    <3>1. in_use' \in [Node -> BOOLEAN]
      BY ZenonT(40), SMT, <2>1 DEF RcuTypeOK
    <3> QED
      BY Zenon, <1>1, <2>1, <3>1 DEF RcuTypeOK, Pointer
  <2>6. ReaderInv'
    <3>1. \A r \in Reader : ref[r] # n
      BY Zenon, <2>1 DEF GraceInv
    <3> QED
      BY <1>1, <1>2, <2>3, <3>1 DEF ReaderInv, RcuTypeOK, Pointer
  <2>7. UpdaterInv'
    BY ZenonT(40), <1>1, <2>2, <2>3 DEF UpdaterInv, Unlinked, RcuTypeOK, Pointer
  <2>8. GraceInv'
    BY ZenonT(40), <1>1, <2>4 DEF GraceInv
  <2>9. RetiredInv'
    <3>1. \A m \in Node : Unlinked(m) /\ m # n => Unlinked(m)'
      BY Zenon, <1>1, <2>3 DEF Unlinked
    <3>2. \A i \in 1..Len(callbacks) : callbacks[i] # n /\ callbacks[i] \in Node
      <4>1. \A i \in 1..Len(callbacks) : callbacks[i] # n
        BY Zenon, <2>2 DEF RetiredInv
      <4>2. \A i \in 1..Len(callbacks) : callbacks[i] \in Node
        BY Zenon, QueueMoves
      <4> QED
        BY Zenon, <4>1, <4>2
    <3>3. \A i \in 1..Len(callbacks') : Unlinked(callbacks[i])'
      BY ZenonT(40), <2>1, <3>1, <3>2 DEF RetiredInv
    <3>4. ASSUME NEW l \in Reclaimer, callback'[l] # NONE
          PROVE  /\ Unlinked(callback[l])'
                 /\ \A i \in 1..Len(callbacks') : callbacks'[i] # callback'[l]
      <4>1. l # k /\ callback[l] # NONE /\ callback[l] # n /\ callback'[l] = callback[l]
        BY Zenon, <3>4, <2>2, <2>4 DEF RetiredInv
      <4>2. callback[l] \in Node
        BY Zenon, <4>1 DEF RcuTypeOK, Pointer
      <4>3. Unlinked(callback[l]) /\ \A i \in 1..Len(callbacks) : callbacks[i] # callback[l]
        BY Zenon, <4>1 DEF RetiredInv
      <4>4. Unlinked(callback[l])'
        BY Zenon, <1>1, <2>3, <4>1, <4>2, <4>3 DEF Unlinked
      <4> QED
        BY Zenon, <2>1, <4>1, <4>3, <4>4
    <3>5. \A i, j \in 1..Len(callbacks') : callbacks'[i] = callbacks'[j] => i = j
      BY Zenon, <2>1 DEF RetiredInv
    <3>6. \A l \in Reclaimer : callback'[l] # NONE <=> kpc'[l] \in {"sync", "run"}
      BY ZenonT(40), <2>4 DEF RetiredInv
    <3>7. \A l, m \in Reclaimer :
             callback'[l] # NONE /\ callback'[l] = callback'[m] => l = m
      BY Zenon, <2>4 DEF RetiredInv
    <3> QED
      BY Zenon, <3>3, <3>4, <3>5, <3>6, <3>7 DEF RetiredInv
  <2> QED
    BY Zenon, <2>5, <2>6, <2>7, <2>8, <2>9
<1>6. CASE CountCallback(k)
  <2>1. /\ kpc[k] = "count" /\ kpc' = [kpc EXCEPT ![k] = "take"]
        /\ outstanding' = outstanding - 1 /\ UNCHANGED <<callback, in_use, callbacks>>
    BY Zenon, <1>6 DEF CountCallback
  <2>2. RcuTypeOK'
    BY <1>1, <2>1 DEF RcuTypeOK
  <2>3. ReaderInv' /\ UpdaterInv' /\ GraceInv'
    BY Zenon, <1>1, <1>2, <2>1 DEF ReaderInv, UpdaterInv, GraceInv, RcuTypeOK
  <2>4. RetiredInv'
    BY <1>1, <2>1 DEF RetiredInv, Unlinked, RcuTypeOK
  <2> QED
    BY Zenon, <2>2, <2>3, <2>4
<1> QED
  BY Zenon, <1>3, <1>4, <1>5, <1>6 DEF ReclaimerStep

(* The invariant of RCU is inductive. *)
THEOREM RcuInvariant == RcuSpec => []RcuInv
<1>1. RcuInv /\ [RcuNext]_rcuVars => RcuInv'
  <2>1. RcuInv /\ UNCHANGED rcuVars => RcuInv'
    BY DEF rcuVars, RcuInv, RcuTypeOK, ReaderInv, UpdaterInv, RetiredInv, GraceInv,
           Section, Unlinked
  <2> QED
    BY Zenon, <2>1, ReaderKeeps, UpdaterKeeps, ReclaimerKeeps DEF RcuNext
<1> QED
  BY <1>1, RcuInitInv, PTL DEF RcuSpec

(* Types are kept; in particular the reader counter never wraps below 0. *)
THEOREM RcuTypeCorrect == RcuSpec => []RcuTypeOK
<1>1. RcuInv => RcuTypeOK
  BY Zenon DEF RcuInv
<1> QED
  BY <1>1, RcuInvariant, PTL

(* No reader uses a node that was given back to the pool. *)
THEOREM GracePeriodProtects == RcuSpec => []NoUseAfterReclaim
<1>1. RcuInv => NoUseAfterReclaim
  BY Zenon DEF RcuInv, ReaderInv, NoUseAfterReclaim
<1> QED
  BY <1>1, RcuInvariant, PTL

(* A reclaimer that starts or ends its work moves the count of busy ones   *)
(* by one.                                                                 *)
LEMMA ReclaimingMoves ==
    ASSUME NEW k \in Reclaimer
    PROVE  /\ Cardinality(Reclaiming) \in Nat
           /\ Reclaiming' = Reclaiming \cup {k} /\ k \notin Reclaiming
                => Cardinality(Reclaiming') = Cardinality(Reclaiming) + 1
           /\ Reclaiming' = Reclaiming \ {k} /\ k \in Reclaiming
                => Cardinality(Reclaiming') = Cardinality(Reclaiming) - 1
<1>1. IsFiniteSet(Reclaiming)
  BY Zenon, RcuAssumption, FS_Subset DEF Reclaiming, RcuAssumption
<1>2. Cardinality(Reclaiming) \in Nat
  BY Zenon, <1>1, FS_CardinalityType
<1>3. k \notin Reclaiming => Cardinality(Reclaiming \cup {k}) = Cardinality(Reclaiming) + 1
  BY Zenon, <1>1, FS_AddElement
<1>4. k \in Reclaiming => Cardinality(Reclaiming \ {k}) = Cardinality(Reclaiming) - 1
  BY Zenon, <1>1, FS_RemoveElement
<1> QED
  BY Zenon, <1>2, <1>3, <1>4

(* A step that leaves nodes, pointers and callbacks alone loses nothing. *)
LEMMA SamePlaces ==
    ASSUME CallbackInv,
           UNCHANGED <<in_use, published, next, old, callbacks, callback>>
    PROVE  NothingLost'
  BY Zenon DEF CallbackInv, NothingLost

(* The updater hands a node from one pointer to the next and then to the   *)
(* list of callbacks, which is counted.                                    *)
LEMMA UpdaterCounts ==
    ASSUME RcuInv, CallbackInv, UpdaterStep
    PROVE  CallbackInv'
<1> USE DEF RcuInv, CallbackInv
<1>1. UNCHANGED <<kpc, callback>>
  BY Zenon DEF UpdaterStep, UpdateAlloc, UpdatePublish, CallRcu, reclaimerVars
<1>2. Reclaiming' = Reclaiming
  BY Zenon, <1>1 DEF Reclaiming
<1>3. CASE UpdateAlloc
  <2>1. PICK n \in Node : in_use' = [in_use EXCEPT ![n] = TRUE] /\ next' = n
    BY ZenonT(40), <1>3 DEF UpdateAlloc
  <2>2. UNCHANGED <<old, published, callbacks, outstanding>>
    BY Zenon, <1>3 DEF UpdateAlloc
  <2>3. next = NONE
    BY ZenonT(40), <1>3 DEF UpdateAlloc, UpdaterInv
  <2>4. \A m \in Node : m # NONE
    BY Zenon, RcuAssumption DEF RcuAssumption
  <2>5. NothingLost'
    BY Zenon, <1>1, <2>1, <2>2, <2>3, <2>4 DEF NothingLost, RcuTypeOK
  <2> QED
    BY Zenon, <1>2, <2>2, <2>5 DEF OutstandingExact
<1>4. CASE UpdatePublish
  <2>1. /\ old' = published /\ published' = next
        /\ UNCHANGED <<in_use, callbacks, outstanding>>
    BY Zenon, <1>4 DEF UpdatePublish
  <2>2. old = NONE
    BY Zenon, <1>4 DEF UpdatePublish, UpdaterInv
  <2>3. \A m \in Node : m # NONE
    BY Zenon, RcuAssumption DEF RcuAssumption
  <2>4. NothingLost'
    BY Zenon, <1>1, <2>1, <2>2, <2>3 DEF NothingLost
  <2> QED
    BY Zenon, <1>2, <2>1, <2>4 DEF OutstandingExact
<1>5. CASE CallRcu
  <2>1. /\ callbacks' = Append(callbacks, old) /\ outstanding' = outstanding + 1
        /\ UNCHANGED <<in_use, next, published>>
    BY Zenon, <1>5 DEF CallRcu
  <2>2. old \in Node
    BY Zenon, <1>5 DEF CallRcu, UpdaterInv, RcuTypeOK, Pointer
  <2>3. /\ Len(callbacks) \in Nat
        /\ Len(callbacks') = Len(callbacks) + 1
        /\ \A i \in 1..Len(callbacks) : callbacks'[i] = callbacks[i]
        /\ callbacks'[Len(callbacks) + 1] = old
    BY Zenon, <2>1, <2>2, QueueMoves
  <2>4. /\ \A i \in 1..Len(callbacks) : i \in 1..Len(callbacks')
        /\ Len(callbacks) + 1 \in 1..Len(callbacks')
    BY <2>3
  <2>5. \A n \in Node : n = old \/ (\E i \in 1..Len(callbacks) : callbacks[i] = n)
             => \E i \in 1..Len(callbacks') : callbacks'[i] = n
    BY Zenon, <2>3, <2>4
  <2>6. NothingLost'
    BY Zenon, <1>1, <2>1, <2>5 DEF NothingLost
  <2>7. OutstandingExact'
    <3>1. IsFiniteSet(Reclaiming)
      BY Zenon, RcuAssumption, FS_Subset DEF Reclaiming, RcuAssumption
    <3>2. Cardinality(Reclaiming) \in Nat
      BY Zenon, <3>1, FS_CardinalityType
    <3> QED
      BY <1>2, <2>1, <2>3, <3>2 DEF OutstandingExact
  <2> QED
    BY Zenon, <2>6, <2>7
<1> QED
  BY Zenon, <1>3, <1>4, <1>5 DEF UpdaterStep

(* A reclaimer takes a callback off the list and is busy until it has      *)
(* counted it; only the node it frees leaves its places.                   *)
LEMMA ReclaimerCounts ==
    ASSUME RcuInv, CallbackInv, NEW k \in Reclaimer, ReclaimerStep(k) \/ Synchronize(k)
    PROVE  CallbackInv'
<1> USE DEF RcuInv, CallbackInv
<1>1. UNCHANGED <<published, next, old>>
  BY Zenon DEF ReclaimerStep, TakeCallback, RunCallback, CountCallback, Synchronize, updaterVars
<1>2. kpc \in [Reclaimer -> {"take", "sync", "run", "count"}] /\ callback \in [Reclaimer -> Pointer]
  BY Zenon DEF RcuTypeOK
<1>3. Cardinality(Reclaiming) \in Nat
  BY Zenon, ReclaimingMoves
<1>4. CASE TakeCallback(k)
  <2>1. /\ kpc[k] = "take" /\ callbacks # <<>>
        /\ callback' = [callback EXCEPT ![k] = Head(callbacks)]
        /\ callbacks' = Tail(callbacks)
        /\ kpc' = [kpc EXCEPT ![k] = "sync"]
        /\ UNCHANGED <<in_use, outstanding>>
    BY Zenon, <1>4 DEF TakeCallback
  <2>2. /\ Len(callbacks) \in Nat /\ Head(callbacks) = callbacks[1]
        /\ Len(callbacks') = Len(callbacks) - 1
        /\ \A i \in 1..(Len(callbacks) - 1) : callbacks'[i] = callbacks[i + 1]
    BY Zenon, <2>1, QueueMoves
  <2>3. Reclaiming' = Reclaiming \cup {k} /\ k \notin Reclaiming
    BY Zenon, <1>2, <2>1 DEF Reclaiming
  <2>0. Cardinality(Reclaiming') = Cardinality(Reclaiming) + 1
    BY Zenon, <2>3, ReclaimingMoves
  <2>4. OutstandingExact'
    BY <1>3, <2>0, <2>1, <2>2 DEF OutstandingExact
  <2>5. callback[k] = NONE
    BY Zenon, <2>1 DEF RetiredInv
  <2>6. callback'[k] = callbacks[1] /\ \A l \in Reclaimer : l # k => callback'[l] = callback[l]
    BY Zenon, <1>2, <2>1, <2>2
  <2>7. ASSUME NEW n \in Node, NEW i \in 1..Len(callbacks), callbacks[i] = n
        PROVE  \/ \E j \in 1..Len(callbacks') : callbacks'[j] = n
               \/ \E l \in Reclaimer : callback'[l] = n
    <3>1. CASE i = 1
      BY Zenon, <2>6, <2>7, <3>1
    <3>2. CASE i # 1
      <4>1. i - 1 \in 1..Len(callbacks') /\ i - 1 \in 1..(Len(callbacks) - 1) /\ (i - 1) + 1 = i
        BY <2>2, <3>2
      <4>2. callbacks'[i - 1] = callbacks[i]
        BY Zenon, <2>2, <4>1
      <4> QED
        BY Zenon, <2>7, <4>1, <4>2
    <3> QED
      BY Zenon, <3>1, <3>2
  <2>8. ASSUME NEW n \in Node, NEW l \in Reclaimer, callback[l] = n
        PROVE  callback'[l] = n
    <3>1. n # NONE
      BY Zenon, RcuAssumption DEF RcuAssumption
    <3> QED
      BY Zenon, <2>5, <2>6, <2>8, <3>1
  <2>9. NothingLost'
    BY ZenonT(40), <1>1, <2>1, <2>7, <2>8 DEF NothingLost
  <2> QED
    BY Zenon, <2>4, <2>9
<1>5. CASE RunCallback(k)
  <2>1. /\ kpc[k] = "run"
        /\ in_use' = [in_use EXCEPT ![callback[k]] = FALSE]
        /\ callback' = [callback EXCEPT ![k] = NONE]
        /\ kpc' = [kpc EXCEPT ![k] = "count"]
        /\ UNCHANGED <<callbacks, outstanding>>
    BY Zenon, <1>5 DEF RunCallback
  <2>2. Reclaiming' = Reclaiming
    BY Zenon, <1>2, <2>1 DEF Reclaiming
  <2>3. ASSUME NEW n \in Node, in_use'[n]
        PROVE  in_use[n] /\ callback[k] # n
    BY Zenon, <2>1, <2>3 DEF RcuTypeOK
  <2>4. \A l \in Reclaimer : l # k => callback'[l] = callback[l]
    BY Zenon, <1>2, <2>1
  <2>5. ASSUME NEW n \in Node, in_use'[n]
        PROVE  \/ n \in {published, next, old}'
               \/ \E i \in 1..Len(callbacks') : callbacks'[i] = n
               \/ \E l \in Reclaimer : callback'[l] = n
    <3>1. \/ n \in {published, next, old}
          \/ \E i \in 1..Len(callbacks) : callbacks[i] = n
          \/ \E l \in Reclaimer : callback[l] = n
      BY Zenon, <2>3, <2>5 DEF NothingLost
    <3>2. callback[k] # n
      BY Zenon, <2>3, <2>5
    <3>3. n \in {published, next, old} => n \in {published, next, old}'
      BY Zenon, <1>1, <2>1
    <3> QED
      BY Zenon, <2>1, <2>4, <3>1, <3>2, <3>3
  <2>6. NothingLost'
    BY Zenon, <2>5 DEF NothingLost
  <2> QED
    BY Zenon, <2>1, <2>2, <2>6 DEF OutstandingExact
<1>6. CASE CountCallback(k)
  <2>1. /\ kpc[k] = "count" /\ outstanding' = outstanding - 1
        /\ kpc' = [kpc EXCEPT ![k] = "take"]
        /\ UNCHANGED <<in_use, callback, callbacks>>
    BY Zenon, <1>6 DEF CountCallback
  <2>2. Reclaiming' = Reclaiming \ {k} /\ k \in Reclaiming
    BY ZenonT(40), <1>2, <2>1 DEF Reclaiming
  <2>3. Len(callbacks) \in Nat
    BY Zenon, QueueMoves
  <2>4. Cardinality(Reclaiming') = Cardinality(Reclaiming) - 1
    BY Zenon, <2>2, ReclaimingMoves
  <2>5. OutstandingExact'
    BY <1>3, <2>1, <2>3, <2>4 DEF OutstandingExact
  <2> QED
    BY Zenon, <1>1, <2>1, <2>5, SamePlaces
<1>7. CASE Synchronize(k)
  <2>1. /\ kpc[k] = "sync" /\ kpc' = [kpc EXCEPT ![k] = "run"]
        /\ UNCHANGED <<in_use, callback, callbacks, outstanding>>
    BY Zenon, <1>7 DEF Synchronize
  <2>2. Reclaiming' = Reclaiming
    BY Zenon, <1>2, <2>1 DEF Reclaiming
  <2> QED
    BY Zenon, <1>1, <2>1, <2>2, SamePlaces DEF OutstandingExact
<1> QED
  BY Zenon, <1>4, <1>5, <1>6, <1>7 DEF ReclaimerStep

(* At boot one node is published and nothing is queued. *)
LEMMA InitCounts == RcuInit => CallbackInv
<1> SUFFICES ASSUME RcuInit PROVE CallbackInv
  BY Zenon
<1>1. NothingLost
  BY Zenon DEF RcuInit, NothingLost
<1>2. Reclaiming = {}
  BY Zenon DEF RcuInit, Reclaiming
<1>3. Len(callbacks) = 0 /\ outstanding = 0
  BY Zenon DEF RcuInit
<1>4. OutstandingExact
  BY <1>2, <1>3, FS_EmptySet DEF OutstandingExact
<1> QED
  BY Zenon, <1>1, <1>4 DEF CallbackInv

(* A set in which no two elements differ has one element or none. *)
LEMMA AtMostOne ==
    ASSUME NEW S, \A x, y \in S : x = y
    PROVE  Cardinality(S) = IF S = {} THEN 0 ELSE 1
<1>1. CASE S = {}
  BY Zenon, <1>1, FS_EmptySet
<1>2. CASE S # {}
  <2>1. PICK x \in S : S = {x}
    BY Zenon, <1>2
  <2> QED
    BY Zenon, <1>2, <2>1, FS_Singleton
<1> QED
  BY Zenon, <1>1, <1>2

(* A node in use is in one of the places, and RcuInv says that being in    *)
(* one of them keeps it out of the others.                                 *)
LEMMA OnePlace == RcuInv /\ CallbackInv => Accounted
<1> SUFFICES ASSUME RcuInv, CallbackInv, NEW n \in Node
             PROVE  Places(n) = IF in_use[n] THEN 1 ELSE 0
  BY Zenon DEF Accounted
<1> USE DEF RcuInv, CallbackInv
<1> DEFINE Held == {p \in {"published", "next", "old"} :
                     \/ p = "published" /\ published = n
                     \/ p = "next" /\ next = n
                     \/ p = "old" /\ old = n}
<1>0. n # NONE
  BY Zenon, RcuAssumption DEF RcuAssumption
<1>1. \A p, q \in Held : p = q
  BY Zenon, <1>0 DEF UpdaterInv
<1>2. \A i, j \in Retired(n) : i = j
  BY Zenon DEF Retired, RetiredInv
<1>3. \A k, l \in Taken(n) : k = l
  BY Zenon, <1>0 DEF Taken, RetiredInv
<1>4. Held = {} <=> n \notin {published, next, old}
  BY Zenon
<1>5. Held # {} => in_use[n]
  BY Zenon, <1>0, <1>4 DEF UpdaterInv
<1>6. ASSUME NEW k \in Taken(n)
      PROVE  Unlinked(n) /\ \A i \in 1..Len(callbacks) : callbacks[i] # n
  <2>1. k \in Reclaimer /\ callback[k] = n
    BY Zenon DEF Taken
  <2> QED
    BY Zenon, <1>0, <2>1 DEF RetiredInv
<1>7. ASSUME NEW i \in Retired(n) PROVE Unlinked(n) /\ Taken(n) = {}
  <2>1. i \in 1..Len(callbacks) /\ callbacks[i] = n
    BY Zenon DEF Retired
  <2>2. Unlinked(n)
    BY Zenon, <2>1 DEF RetiredInv
  <2> QED
    BY Zenon, <1>6, <2>1, <2>2
<1>8. Unlinked(n) => in_use[n] /\ Held = {}
  BY Zenon, <1>4 DEF Unlinked
<1>9. in_use[n] => Held # {} \/ Retired(n) # {} \/ Taken(n) # {}
  BY Zenon, <1>4 DEF NothingLost, Retired, Taken
<1>10. Places(n) = Cardinality(Held) + Cardinality(Retired(n)) + Cardinality(Taken(n))
  BY Zenon DEF Places
<1>11. Cardinality(Held) = IF Held = {} THEN 0 ELSE 1
  BY Zenon, <1>1, AtMostOne
<1>12. Cardinality(Retired(n)) = IF Retired(n) = {} THEN 0 ELSE 1
  BY Zenon, <1>2, AtMostOne
<1>13. Cardinality(Taken(n)) = IF Taken(n) = {} THEN 0 ELSE 1
  BY Zenon, <1>3, AtMostOne
<1> HIDE DEF Held
<1>14. Retired(n) # {} => Held = {} /\ Taken(n) = {} /\ in_use[n]
  BY Zenon, <1>7, <1>8
<1>15. Taken(n) # {} => Held = {} /\ in_use[n]
  BY Zenon, <1>6, <1>8
<1> QED
  BY SMTT(30), Z3T(30), <1>5, <1>9, <1>10, <1>11, <1>12, <1>13, <1>14, <1>15

(* Neither a node nor a count of callbacks goes astray: a node in use is   *)
(* in exactly one place, and rcu's statistics count the callbacks queued   *)
(* and those a reclaimer is busy with.                                     *)
THEOREM CallbacksAreExact == RcuSpec => []CallbacksExact
<1>1. RcuInv /\ CallbackInv /\ [RcuNext]_rcuVars => CallbackInv'
  <2> SUFFICES ASSUME RcuInv, CallbackInv, [RcuNext]_rcuVars
               PROVE  CallbackInv'
    BY Zenon
  <2>1. CASE UNCHANGED rcuVars
    BY Zenon, <2>1 DEF rcuVars, CallbackInv, NothingLost, OutstandingExact, Reclaiming
  <2>2. ASSUME NEW r \in Reader, rcu_read_lock(r) \/ ReaderStep(r)
        PROVE  CallbackInv'
    <3>1. UNCHANGED <<in_use, published, next, old, callbacks, callback, outstanding, kpc>>
      BY Zenon, <2>2 DEF ReaderStep, rcu_read_lock, Dereference, rcu_read_unlock, ReadLeave, updaterVars,
                  reclaimerVars
    <3>2. Reclaiming' = Reclaiming
      BY Zenon, <3>1 DEF Reclaiming
    <3> QED
      BY ZenonT(40), <3>1, <3>2, SamePlaces DEF CallbackInv, OutstandingExact
  <2> QED
    BY Zenon, <2>1, <2>2, UpdaterCounts, ReclaimerCounts DEF RcuNext
<1>2. RcuInv /\ CallbackInv => CallbacksExact
  BY Zenon, OnePlace DEF CallbackInv, CallbacksExact
<1> QED
  BY <1>1, <1>2, InitCounts, RcuInvariant, PTL DEF RcuSpec

=============================================================================
