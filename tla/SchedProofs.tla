---------------------------- MODULE SchedProofs -----------------------------
(***************************************************************************)
(* Proofs about the scheduler, for any number of task slots, wait queues,  *)
(* tids and ticks.                                                         *)
(*                                                                         *)
(* The argument: while SchedInv holds the ready ring has room for every    *)
(* task that is not READY (RoomInRing), so each step is one of nine plain  *)
(* moves on the task table and the queues (StepIsMove).  The moves keep    *)
(* SchedInv (MoveInv), and each is a step of SchedAbs (MoveAbs).  When     *)
(* tasks only compete, each step is also one of nine moves on the          *)
(* vruntimes (StepIsCfsMove) that keep them even (EvenKept), and each is a *)
(* step of SchedFair (CfsMoveIsFair).                                      *)
(***************************************************************************)
EXTENDS MCSched, TLAPS

-----------------------------------------------------------------------------
(* The moves. *)

core == <<state, ready, waitq, current, creating>>

Goes(t, to) == state' = [state EXCEPT ![t] = to]

Reserved(c, i) ==
    /\ state[i] = "UNUSED" /\ creating[c] = NONE
    /\ Goes(i, "BLOCKED")
    /\ creating' = [creating EXCEPT ![c] = i]
    /\ UNCHANGED <<ready, waitq, current>>

Published(c, i) ==
    /\ creating[c] = i
    /\ Goes(i, "READY") /\ ready' = [ready EXCEPT ![i] = @ + 1]
    /\ creating' = [creating EXCEPT ![c] = NONE]
    /\ UNCHANGED <<waitq, current>>

Discarded(c, i) ==
    /\ creating[c] = i
    /\ Goes(i, "UNUSED")
    /\ creating' = [creating EXCEPT ![c] = NONE]
    /\ UNCHANGED <<ready, waitq, current>>

Started(t) ==
    /\ current = NONE /\ state[t] = "READY"
    /\ Goes(t, "RUNNING") /\ ready' = Rebuilt(t) /\ current' = t
    /\ UNCHANGED <<waitq, creating>>

Released(t) ==
    /\ current = t
    /\ Goes(t, "READY") /\ ready' = [ready EXCEPT ![t] = @ + 1]
    /\ current' = NONE
    /\ UNCHANGED <<waitq, creating>>

Ended(t) ==
    /\ current = t
    /\ Goes(t, "EXITED") /\ current' = NONE
    /\ UNCHANGED <<ready, waitq, creating>>

Slept(t, q) ==
    /\ current = t
    /\ Goes(t, "BLOCKED") /\ current' = NONE
    /\ waitq' = [waitq EXCEPT ![q] = Append(@, t)]
    /\ UNCHANGED <<ready, creating>>

WokeHead(q) ==
    /\ waitq[q] # <<>>
    /\ Goes(Head(waitq[q]), "READY")
    /\ ready' = [ready EXCEPT ![Head(waitq[q])] = @ + 1]
    /\ waitq' = [waitq EXCEPT ![q] = Tail(@)]
    /\ UNCHANGED <<current, creating>>

In(t, q) == \E i \in 1..Len(waitq[q]) : waitq[q][i] = t

WokeAll(q) ==
    /\ state' = [t \in Task |-> IF In(t, q) THEN "READY" ELSE state[t]]
    /\ ready' = [t \in Task |-> IF In(t, q) THEN ready[t] + 1 ELSE ready[t]]
    /\ waitq' = [waitq EXCEPT ![q] = <<>>]
    /\ UNCHANGED <<current, creating>>

Move ==
    \/ UNCHANGED core
    \/ \E c \in Task \cup {NONE}, i \in Task :
         Reserved(c, i) \/ Published(c, i) \/ Discarded(c, i)
    \/ \E t \in Task : Started(t) \/ Released(t) \/ Ended(t)
    \/ \E t \in Task, q \in WaitQ : Slept(t, q)
    \/ \E q \in WaitQ : WokeHead(q) \/ WokeAll(q)

-----------------------------------------------------------------------------
(* The moves keep the invariant. *)

CoreType ==
    /\ state \in [Task -> States]
    /\ ready \in [Task -> Nat]
    /\ waitq \in [WaitQ -> Seq(Task)]
    /\ current \in Task \cup {NONE}
    /\ creating \in [Task \cup {NONE} -> Task \cup {NONE}]

CoreInv == CoreType /\ RunningIsCurrent /\ ReadyQueueExact /\ HeldInv

(* The waiters left after the oldest one was woken. *)
LEMMA TailQueue ==
    ASSUME CoreType, NEW q \in WaitQ, waitq[q] # <<>>
    PROVE  /\ waitq[q] \in Seq(Task) /\ Tail(waitq[q]) \in Seq(Task)
           /\ Head(waitq[q]) \in Task /\ Head(waitq[q]) = waitq[q][1]
           /\ Len(waitq[q]) \in Nat \ {0}
           /\ Len(Tail(waitq[q])) = Len(waitq[q]) - 1
           /\ \A i \in 1..Len(Tail(waitq[q])) : Tail(waitq[q])[i] = waitq[q][i + 1]
<1> DEFINE w == waitq[q]
<1>1. w \in Seq(Task) /\ w # <<>>
  BY Zenon DEF CoreType
<1> HIDE DEF w
<1>2. Len(w) \in Nat \ {0}
  BY <1>1
<1>3. Head(w) = w[1]
  BY <1>1
<1>4. Head(w) \in Task
  BY <1>1
<1>5. Tail(w) \in Seq(Task)
  BY <1>1
<1>6. Len(Tail(w)) = Len(w) - 1
  BY <1>1
<1>7. \A i \in 1..(Len(w) - 1) : Tail(w)[i] = w[i + 1]
  BY <1>1
<1> QED
  BY ZenonT(40), <1>1, <1>2, <1>3, <1>4, <1>5, <1>6, <1>7 DEF w

(* Creating, publishing and discarding a task keep the invariant. *)
LEMMA CreateMoveInv ==
    ASSUME CoreInv, NEW c \in Task \cup {NONE}, NEW i \in Task,
           Reserved(c, i) \/ Published(c, i) \/ Discarded(c, i)
    PROVE  CoreInv'
<1> USE DEF Goes
<1> USE ConstantsAssumption DEF ConstantsAssumption
<1>0. i # NONE
  BY Zenon
<1>1. \A t \in Task : Queued(t)' <=> Queued(t)
  BY Zenon DEF Queued, Reserved, Published, Discarded
<1>2. CASE Reserved(c, i)
  <2>1. CoreType'
    BY Zenon, <1>2 DEF CoreInv, CoreType, Reserved, States
  <2>2. RunningIsCurrent' /\ ReadyQueueExact'
    BY ZenonT(40), <1>2 DEF CoreInv, CoreType, Reserved, RunningIsCurrent, ReadyQueueExact
  <2>3. ~Queued(i) /\ ~Born(i)
    BY Zenon, <1>2 DEF CoreInv, HeldInv, Reserved
  <2>4. \A t \in Task : Born(t)' <=> Born(t) \/ t = i
    BY <1>2 DEF Born, Reserved, CoreInv, CoreType
  <2>5. \A t \in Task : state'[t] = IF t = i THEN "BLOCKED" ELSE state[t]
    BY Zenon, <1>2 DEF Reserved, CoreInv, CoreType
  <2>6. \A d, e \in Task \cup {NONE} :
          creating'[d] # NONE /\ creating'[d] = creating'[e] => d = e
    BY <1>2, <2>3 DEF Reserved, CoreInv, CoreType, HeldInv, Born
  <2>7. waitq' = waitq
    BY Zenon, <1>2 DEF Reserved
  <2>8. HeldInv'
    BY SMTT(30), Z3T(30), Zenon, <1>1, <2>3, <2>4, <2>5, <2>6, <2>7 DEF HeldInv, CoreInv
  <2> QED
    BY Zenon, <2>1, <2>2, <2>8 DEF CoreInv
<1>3. CASE Published(c, i) \/ Discarded(c, i)
  <2>1. CoreType'
    <3>1. CASE Published(c, i)
      BY <3>1 DEF CoreInv, CoreType, Published, States
    <3>2. CASE Discarded(c, i)
      BY Zenon, <3>2 DEF CoreInv, CoreType, Discarded, States
    <3> QED
      BY ZenonT(40), <1>3, <3>1, <3>2
  <2>2. state[i] = "BLOCKED" /\ ~Queued(i) /\ Born(i)
    BY Zenon, <1>3 DEF CoreInv, HeldInv, Born, Published, Discarded
  <2>3. RunningIsCurrent' /\ ReadyQueueExact'
    BY SMTT(30), Z3T(30), Zenon, <1>3, <2>2
       DEF CoreInv, CoreType, Published, Discarded, RunningIsCurrent, ReadyQueueExact
  <2>4. \A t \in Task : Born(t)' <=> Born(t) /\ t # i
    <3>1. \A d \in Task \cup {NONE} :
            creating'[d] = IF d = c THEN NONE ELSE creating[d]
      BY Zenon, <1>3 DEF Published, Discarded, CoreInv, CoreType
    <3>2. \A d \in Task \cup {NONE} : creating[d] = i <=> d = c
      BY ZenonT(40), <1>3 DEF Published, Discarded, CoreInv, HeldInv
    <3> QED
      BY ZenonT(40), <3>1, <3>2 DEF Born
  <2>5. /\ \A t \in Task : t # i => state'[t] = state[t]
        /\ state'[i] # "BLOCKED"
    BY SMTT(30), Z3T(30), Zenon, <1>3 DEF Published, Discarded, CoreInv, CoreType
  <2>6. \A d, e \in Task \cup {NONE} :
          creating'[d] # NONE /\ creating'[d] = creating'[e] => d = e
    BY <1>3 DEF Published, Discarded, CoreInv, CoreType, HeldInv
  <2>7. waitq' = waitq
    BY Zenon, <1>3 DEF Published, Discarded
  <2>8. HeldInv'
    BY <1>1, <2>2, <2>4, <2>5, <2>6, <2>7 DEF HeldInv, CoreInv
  <2> QED
    BY Zenon, <2>1, <2>3, <2>8 DEF CoreInv
<1> QED
  BY Zenon, <1>2, <1>3

(* Dispatching, requeueing and ending a task keep the invariant. *)
LEMMA RunMoveInv ==
    ASSUME CoreInv, NEW t \in Task, Started(t) \/ Released(t) \/ Ended(t)
    PROVE  CoreInv'
<1> USE DEF Goes, Started, Released, Ended
<1> USE ConstantsAssumption DEF ConstantsAssumption
<1>1. CoreType'
  <2>1. CASE Started(t)
    BY Zenon, <2>1 DEF CoreInv, CoreType, States, Rebuilt
  <2>2. CASE Released(t)
    BY <2>2 DEF CoreInv, CoreType, States
  <2>3. CASE Ended(t)
    BY Zenon, <2>3 DEF CoreInv, CoreType, States
  <2> QED
    BY Zenon, <2>1, <2>2, <2>3
<1>2. state[t] \in {"READY", "RUNNING"}
  BY Zenon DEF CoreInv, RunningIsCurrent
<1>3. RunningIsCurrent'
  BY <1>2 DEF CoreInv, CoreType, RunningIsCurrent
<1>4. ReadyQueueExact'
  <2>1. CASE Started(t)
    BY Zenon, <2>1 DEF CoreInv, CoreType, ReadyQueueExact, Rebuilt
  <2>2. CASE Released(t)
    BY <2>2, <1>2 DEF CoreInv, CoreType, RunningIsCurrent, ReadyQueueExact
  <2>3. CASE Ended(t)
    BY Zenon, <2>3, <1>2 DEF CoreInv, CoreType, RunningIsCurrent, ReadyQueueExact
  <2> QED
    BY Zenon, <2>1, <2>2, <2>3
<1>5. /\ \A s \in Task : s # t => state'[s] = state[s]
      /\ state'[t] # "BLOCKED"
  BY ZenonT(40) DEF CoreInv, CoreType
<1>6. waitq' = waitq /\ creating' = creating
  BY Zenon
<1>7. \A s \in Task : (Born(s)' <=> Born(s)) /\ (Queued(s)' <=> Queued(s))
  BY Zenon, <1>6 DEF Born, Queued
<1>8. ~Born(t) /\ ~Queued(t)
  BY Zenon, <1>2 DEF CoreInv, HeldInv
<1> HIDE DEF Goes, Started, Released, Ended
<1>9. HeldInv'
  BY <1>5, <1>6, <1>7, <1>8 DEF CoreInv, HeldInv
<1> QED
  BY ZenonT(40), <1>1, <1>3, <1>4, <1>9 DEF CoreInv

(* Going to sleep on a wait queue keeps the invariant. *)
LEMMA SleepMoveInv ==
    ASSUME CoreInv, NEW t \in Task, NEW q \in WaitQ, Slept(t, q)
    PROVE  CoreInv'
<1> USE DEF Goes, Slept
<1> USE ConstantsAssumption DEF ConstantsAssumption
<1> DEFINE w == waitq[q]
<1>1. /\ w \in Seq(Task) /\ Len(w) \in Nat
      /\ Append(w, t) \in Seq(Task) /\ Len(Append(w, t)) = Len(w) + 1
      /\ \A i \in 1..Len(w) : Append(w, t)[i] = w[i]
      /\ Append(w, t)[Len(w) + 1] = t
  <2>1. w \in Seq(Task)
    BY Zenon DEF CoreInv, CoreType
  <2> QED
    BY <2>1
<1>2. state[t] = "RUNNING" /\ ~Born(t) /\ ~Queued(t)
  BY Zenon DEF CoreInv, RunningIsCurrent, HeldInv
<1>3. CoreType'
  <2>1. waitq' \in [WaitQ -> Seq(Task)]
    BY ZenonT(40), <1>1 DEF CoreInv, CoreType
  <2> QED
    BY ZenonT(40), <2>1 DEF CoreInv, CoreType, States
<1>4. RunningIsCurrent' /\ ReadyQueueExact'
  BY ZenonT(40), <1>2 DEF CoreInv, CoreType, RunningIsCurrent, ReadyQueueExact
<1>5. waitq'[q] = Append(w, t) /\ \A r \in WaitQ : r # q => waitq'[r] = waitq[r]
  BY Zenon DEF CoreInv, CoreType
<1>6. \A s \in Task : Queued(s)' <=> Queued(s) \/ s = t
  <2> SUFFICES ASSUME NEW s \in Task PROVE Queued(s)' <=> Queued(s) \/ s = t
    BY Zenon
  <2>1. ASSUME Queued(s)' PROVE Queued(s) \/ s = t
    <3>1. PICK r \in WaitQ : \E i \in 1..Len(waitq'[r]) : waitq'[r][i] = s
      BY ZenonT(40), <2>1 DEF Queued
    <3>2. PICK i \in 1..Len(waitq'[r]) : waitq'[r][i] = s
      BY Zenon, <3>1
    <3>3. CASE r = q /\ i = Len(w) + 1
      BY ZenonT(40), <3>3, <3>2, <1>5, <1>1
    <3>4. CASE r = q /\ i # Len(w) + 1
      <4>1. i \in 1..Len(w) /\ w[i] = s
        BY <3>4, <3>2, <1>5, <1>1
      <4> QED
        BY ZenonT(40), <4>1 DEF Queued
    <3>5. CASE r # q
      BY ZenonT(40), <3>5, <3>2, <1>5 DEF Queued
    <3> QED
      BY ZenonT(40), <3>3, <3>4, <3>5
  <2>2. ASSUME Queued(s) PROVE Queued(s)'
    <3>1. PICK r \in WaitQ : \E i \in 1..Len(waitq[r]) : waitq[r][i] = s
      BY ZenonT(40), <2>2 DEF Queued
    <3>2. PICK i \in 1..Len(waitq[r]) : waitq[r][i] = s
      BY ZenonT(40), <3>1
    <3>3. i \in 1..Len(waitq'[r]) /\ waitq'[r][i] = s
      BY <3>2, <1>5, <1>1
    <3> QED
      BY ZenonT(40), <3>3 DEF Queued
  <2>3. ASSUME s = t PROVE Queued(s)'
    <3>1. Len(w) + 1 \in 1..Len(waitq'[q]) /\ waitq'[q][Len(w) + 1] = s
      BY <2>3, <1>5, <1>1
    <3> QED
      BY ZenonT(40), <3>1 DEF Queued
  <2> QED
    BY ZenonT(40), <2>1, <2>2, <2>3
<1>7. \A s \in Task : Born(s)' <=> Born(s)
  BY ZenonT(40) DEF Born
<1>8. ASSUME NEW a \in WaitQ, NEW b \in WaitQ,
             NEW i \in 1..Len(waitq'[a]), NEW j \in 1..Len(waitq'[b]),
             waitq'[a][i] = waitq'[b][j]
      PROVE  a = b /\ i = j
  <2>1. ASSUME NEW r \in WaitQ, NEW k \in 1..Len(waitq'[r])
        PROVE  \/ k \in 1..Len(waitq[r]) /\ waitq'[r][k] = waitq[r][k] /\ waitq[r][k] # t
               \/ r = q /\ k = Len(w) + 1 /\ waitq'[r][k] = t
    <3>1. \/ k \in 1..Len(waitq[r]) /\ waitq'[r][k] = waitq[r][k]
          \/ r = q /\ k = Len(w) + 1 /\ waitq'[r][k] = t
      BY <1>1, <1>5
    <3>2. ASSUME k \in 1..Len(waitq[r]) PROVE waitq[r][k] # t
      BY Zenon, <3>2, <1>2 DEF Queued
    <3> QED
      BY Zenon, <3>1, <3>2
  <2>2. CASE i \in 1..Len(waitq[a]) /\ j \in 1..Len(waitq[b])
             /\ waitq'[a][i] = waitq[a][i] /\ waitq'[b][j] = waitq[b][j]
    BY <2>2, <1>8 DEF CoreInv, HeldInv
  <2> QED
    BY SMTT(30), Z3T(30), Zenon, <2>1, <2>2, <1>8
<1> HIDE DEF Goes, Slept
<1>9. /\ \A s \in Task : state'[s] = IF s = t THEN "BLOCKED" ELSE state[s]
      /\ creating' = creating
  BY ZenonT(40) DEF Slept, Goes, CoreInv, CoreType
<1>10. HeldInv'
  BY ZenonT(40), <1>2, <1>6, <1>7, <1>8, <1>9 DEF HeldInv, CoreInv
<1> QED
  BY ZenonT(40), <1>3, <1>4, <1>10 DEF CoreInv

(* Waking the oldest waiter keeps the invariant. *)
LEMMA WakeHeadInv ==
    ASSUME CoreInv, NEW q \in WaitQ, WokeHead(q)
    PROVE  CoreInv'
<1> USE DEF Goes, WokeHead
<1> DEFINE w == waitq[q]
           h == Head(w)
<1>1. /\ Tail(w) \in Seq(Task) /\ h \in Task /\ h = w[1]
      /\ Len(w) \in Nat \ {0} /\ Len(Tail(w)) = Len(w) - 1
      /\ \A i \in 1..Len(Tail(w)) : Tail(w)[i] = w[i + 1]
  BY Zenon, TailQueue DEF CoreInv
<1>2. state[h] = "BLOCKED" /\ ~Born(h)
  <2>1. Queued(h)
    <3>1. 1 \in 1..Len(w) /\ w[1] = h
      BY <1>1
    <3> QED
      BY Zenon, <3>1 DEF Queued
  <2> QED
    BY ZenonT(40), <1>1, <2>1 DEF CoreInv, HeldInv
<1>3. CoreType'
  <2>1. waitq' \in [WaitQ -> Seq(Task)]
    BY Zenon, <1>1 DEF CoreInv, CoreType
  <2> QED
    BY <1>1, <2>1 DEF CoreInv, CoreType, States
<1>4. RunningIsCurrent' /\ ReadyQueueExact'
  BY <1>1, <1>2 DEF CoreInv, CoreType, RunningIsCurrent, ReadyQueueExact
<1>5. waitq'[q] = Tail(w) /\ \A r \in WaitQ : r # q => waitq'[r] = waitq[r]
  BY Zenon DEF CoreInv, CoreType
(* Each entry left was an entry before, and is not the task just woken. *)
<1>6. ASSUME NEW r \in WaitQ, NEW i \in 1..Len(waitq'[r])
      PROVE  LET k == IF r = q THEN i + 1 ELSE i
             IN  k \in 1..Len(waitq[r]) /\ waitq'[r][i] = waitq[r][k] /\ waitq[r][k] # h
  <2>1. CASE r = q
    <3>0. i \in 1..Len(Tail(w)) /\ waitq'[q][i] = Tail(w)[i]
      BY Zenon, <2>1, <1>5
    <3>1. i + 1 \in 1..Len(w) /\ waitq'[q][i] = w[i + 1] /\ 1 \in 1..Len(w) /\ i + 1 # 1
      <4>1. waitq'[q][i] = w[i + 1]
        BY ZenonT(40), <3>0, <1>1
      <4>2. Len(w) \in Nat /\ i \in 1..(Len(w) - 1)
        BY ZenonT(40), <3>0, <1>1
      <4>3. i + 1 \in 1..Len(w) /\ 1 \in 1..Len(w) /\ i + 1 # 1
        <5> HIDE DEF w, Goes, WokeHead
        <5> QED
          BY <4>2
      <4> QED
        BY ZenonT(40), <4>1, <4>3
    <3>2. w[i + 1] # w[1]
      BY <3>1 DEF CoreInv, HeldInv
    <3> QED
      BY ZenonT(40), <2>1, <3>1, <3>2, <1>1
  <2>2. CASE r # q
    <3>1. i \in 1..Len(waitq[r]) /\ waitq'[r][i] = waitq[r][i] /\ 1 \in 1..Len(w)
      BY SMTT(30), Z3T(30), Zenon, <2>2, <1>1, <1>5
    <3>2. waitq[r][i] # w[1]
      BY <3>1, <2>2 DEF CoreInv, HeldInv
    <3> QED
      BY Zenon, <2>2, <3>1, <3>2, <1>1
  <2> QED
    BY ZenonT(40), <2>1, <2>2
<1>7. \A s \in Task : Queued(s)' <=> Queued(s) /\ s # h
  <2> SUFFICES ASSUME NEW s \in Task PROVE Queued(s)' <=> Queued(s) /\ s # h
    BY Zenon
  <2>1. ASSUME Queued(s)' PROVE Queued(s) /\ s # h
    BY <2>1, <1>6 DEF Queued
  <2>2. ASSUME Queued(s), s # h PROVE Queued(s)'
    <3>1. PICK r \in WaitQ : \E i \in 1..Len(waitq[r]) : waitq[r][i] = s
      BY Zenon, <2>2 DEF Queued
    <3>2. PICK i \in 1..Len(waitq[r]) : waitq[r][i] = s
      BY ZenonT(40), <3>1
    <3>3. CASE r = q
      <4>1. i - 1 \in 1..Len(Tail(w)) /\ Tail(w)[i - 1] = s
        BY <3>2, <3>3, <2>2, <1>1
      <4> QED
        BY Zenon, <4>1, <1>5 DEF Queued
    <3>4. CASE r # q
      BY ZenonT(40), <3>4, <3>2, <1>5 DEF Queued
    <3> QED
      BY ZenonT(40), <3>3, <3>4
  <2> QED
    BY Zenon, <2>1, <2>2
<1>8. \A s \in Task : Born(s)' <=> Born(s)
  BY Zenon DEF Born
<1>9. ASSUME NEW a \in WaitQ, NEW b \in WaitQ,
             NEW i \in 1..Len(waitq'[a]), NEW j \in 1..Len(waitq'[b]),
             waitq'[a][i] = waitq'[b][j]
      PROVE  a = b /\ i = j
  <2> DEFINE k == IF a = q THEN i + 1 ELSE i
             l == IF b = q THEN j + 1 ELSE j
  <2>1. /\ k \in 1..Len(waitq[a]) /\ waitq'[a][i] = waitq[a][k]
        /\ l \in 1..Len(waitq[b]) /\ waitq'[b][j] = waitq[b][l]
    BY <1>6
  <2>2. a = b /\ k = l
    BY <2>1, <1>9 DEF CoreInv, HeldInv
  <2>3. i \in Int /\ j \in Int
    OBVIOUS
  <2> QED
    BY <2>2, <2>3
<1> HIDE DEF Goes, WokeHead
<1>10. /\ \A s \in Task : state'[s] = IF s = h THEN "READY" ELSE state[s]
       /\ creating' = creating
  BY Zenon DEF WokeHead, Goes, CoreInv, CoreType
<1>11. HeldInv'
  BY SMTT(30), Z3T(30), Zenon, <1>2, <1>7, <1>8, <1>9, <1>10 DEF HeldInv, CoreInv
<1> QED
  BY ZenonT(40), <1>3, <1>4, <1>11 DEF CoreInv

(* Waking every waiter keeps the invariant. *)
LEMMA WakeAllInv ==
    ASSUME CoreInv, NEW q \in WaitQ, WokeAll(q)
    PROVE  CoreInv'
<1> USE DEF WokeAll
<1>1. \A s \in Task : In(s, q) => Queued(s) /\ state[s] = "BLOCKED" /\ ~Born(s)
  BY ZenonT(40) DEF In, Queued, CoreInv, HeldInv
<1> HIDE DEF In
<1>2. <<>> \in Seq(Task) /\ Len(<<>>) = 0
  OBVIOUS
<1>3. CoreType'
  <2>1. waitq' \in [WaitQ -> Seq(Task)]
    BY Zenon, <1>2 DEF CoreInv, CoreType
  <2>2. ready' \in [Task -> Nat]
    BY DEF CoreInv, CoreType
  <2>3. state' \in [Task -> States]
    BY Zenon DEF CoreInv, CoreType, States
  <2> QED
    BY ZenonT(40), <2>1, <2>2, <2>3 DEF CoreInv, CoreType
<1>4. RunningIsCurrent' /\ ReadyQueueExact'
  <2>1. RunningIsCurrent'
    BY Zenon, <1>1 DEF CoreInv, CoreType, RunningIsCurrent
  <2>2. ReadyQueueExact'
    BY <1>1 DEF CoreInv, CoreType, ReadyQueueExact
  <2> QED
    BY ZenonT(40), <2>1, <2>2
<1>5. waitq'[q] = <<>> /\ \A r \in WaitQ : r # q => waitq'[r] = waitq[r]
  BY Zenon DEF CoreInv, CoreType
<1>6. \A r \in WaitQ : \A i \in 1..Len(waitq'[r]) :
         r # q /\ i \in 1..Len(waitq[r]) /\ waitq'[r][i] = waitq[r][i]
  BY <1>2, <1>5
<1>7. \A s \in Task : Queued(s)' <=> Queued(s) /\ ~In(s, q)
  <2> SUFFICES ASSUME NEW s \in Task PROVE Queued(s)' <=> Queued(s) /\ ~In(s, q)
    BY Zenon
  <2>1. ASSUME Queued(s)' PROVE Queued(s) /\ ~In(s, q)
    <3>1. PICK r \in WaitQ : \E i \in 1..Len(waitq'[r]) : waitq'[r][i] = s
      BY Zenon, <2>1 DEF Queued
    <3>2. PICK i \in 1..Len(waitq[r]) : waitq[r][i] = s /\ r # q
      BY ZenonT(40), <3>1, <1>6
    <3>3. ~In(s, q)
      BY ZenonT(40), <3>2 DEF In, CoreInv, HeldInv
    <3> QED
      BY Zenon, <3>2, <3>3 DEF Queued
  <2>2. ASSUME Queued(s), ~In(s, q) PROVE Queued(s)'
    BY <2>2, <1>5 DEF Queued, In
  <2> QED
    BY ZenonT(40), <2>1, <2>2
<1>8. \A s \in Task : Born(s)' <=> Born(s)
  BY Zenon DEF Born
<1>9. \A a, b \in WaitQ : \A i \in 1..Len(waitq'[a]), j \in 1..Len(waitq'[b]) :
        waitq'[a][i] = waitq'[b][j] => a = b /\ i = j
  BY SMTT(30), Z3T(30), Zenon, <1>6 DEF CoreInv, HeldInv
<1>10. /\ \A s \in Task : state'[s] = IF In(s, q) THEN "READY" ELSE state[s]
       /\ creating' = creating
  BY Zenon DEF CoreInv, CoreType
<1> HIDE DEF WokeAll
<1>11. HeldInv'
  <2>1. \A t \in Task : Born(t)' => state'[t] = "BLOCKED" /\ ~Queued(t)'
    BY ZenonT(40), <1>1, <1>7, <1>8, <1>10 DEF HeldInv, CoreInv
  <2>2. \A t \in Task : Queued(t)' => state'[t] = "BLOCKED"
    BY ZenonT(40), <1>1, <1>7, <1>8, <1>10 DEF HeldInv, CoreInv
  <2>3. \A t \in Task : state'[t] = "BLOCKED" => Born(t)' \/ Queued(t)'
    BY ZenonT(40), <1>1, <1>7, <1>8, <1>10 DEF HeldInv, CoreInv
  <2> QED
    BY ZenonT(40), SMT, <2>1, <2>2, <2>3, <1>9, <1>10 DEF HeldInv, CoreInv
<1> QED
  BY Zenon, <1>3, <1>4, <1>11 DEF CoreInv

(* Every move keeps the invariant. *)
LEMMA MoveInv ==
    ASSUME CoreInv, Move
    PROVE  CoreInv'
<1>1. CASE UNCHANGED core
  BY <1>1 DEF core, CoreInv, CoreType, RunningIsCurrent, ReadyQueueExact,
              HeldInv, Born, Queued
<1> QED
  BY ZenonT(40), <1>1, CreateMoveInv, RunMoveInv, SleepMoveInv, WakeHeadInv, WakeAllInv
     DEF Move

-----------------------------------------------------------------------------
(* The start and the types. *)

(* The scheduler starts in SchedInv. *)
LEMMA InitInv == Init => SchedInv
<1> SUFFICES ASSUME Init PROVE SchedInv
  BY Zenon
<1> USE ConstantsAssumption DEF ConstantsAssumption, Init
<1>1. <<>> \in Seq(Task) /\ Len(<<>>) = 0
  OBVIOUS
<1>2. TypeOK
  <2>1. waitq \in [WaitQ -> Seq(Task)]
    BY Zenon, <1>1
  <2>2. booting \in BOOLEAN /\ need_resched \in BOOLEAN /\ idle_hlt \in BOOLEAN
    BY ZenonT(40), SMT
  <2>3. state \in [Task -> States] /\ creating \in [Task \cup {NONE} -> Task \cup {NONE}]
    BY Zenon DEF States
  <2> QED
    BY Zenon, <2>1, <2>2, <2>3 DEF TypeOK
<1>3. RunningIsCurrent /\ ReadyQueueExact
  BY Zenon DEF RunningIsCurrent, ReadyQueueExact
<1>4. (\A t \in Task : ~Queued(t)) /\ (\A t \in Task : ~Born(t))
  BY <1>1 DEF Queued, Born
<1>5. HeldInv
  BY <1>1, <1>4 DEF HeldInv
<1> QED
  BY Zenon, <1>2, <1>3, <1>5 DEF SchedInv

(* The accounting fields and flags keep their types in every step. *)
LEMMA NextType ==
    ASSUME TypeOK, [Next]_vars, CoreType'
    PROVE  TypeOK'
<1> DEFINE Fields == tid \in [Task -> Nat] /\ vruntime \in [Task -> Nat]
           Counters == min_vruntime \in Nat /\ next_tid \in Nat /\ ticks \in Nat
           Flags == need_resched \in BOOLEAN /\ booting \in BOOLEAN /\ idle_hlt \in BOOLEAN
           Rest == Fields /\ Counters /\ Flags
<1> USE DEF TypeOK
<1>1. ASSUME NEW c \in Task \cup {NONE}, CreateReserve(c) PROVE Rest'
  BY <1>1 DEF CreateReserve
<1>2. ASSUME NEW c \in Task \cup {NONE}, CreateFinish(c) PROVE Rest'
  <2>1. Fields'
    <3>1. CASE ReadyFull
      <4>1. /\ tid' = [tid EXCEPT ![creating[c]] = 0]
            /\ vruntime' = [vruntime EXCEPT ![creating[c]] = 0]
        BY ZenonT(40), <3>1, <1>2 DEF CreateFinish, Reset
      <4> QED
        BY Zenon, <4>1
    <3>2. CASE ~ReadyFull
      BY ZenonT(40), <3>2, <1>2 DEF CreateFinish
    <3> QED
      BY ZenonT(40), <3>1, <3>2
  <2> QED
    BY ZenonT(40), <2>1, <1>2 DEF CreateFinish
<1>3. ASSUME NEW c \in Task \cup {NONE}, CreateAbort(c) PROVE Rest'
  BY ZenonT(40), <1>3 DEF CreateAbort, Reset
<1>4. ASSUME NEW t \in Task, Yield(t) PROVE Rest'
  BY Zenon, <1>4 DEF Yield
<1>5. ASSUME NEW t \in Task, TickTask(t) PROVE Rest'
  <2>1. Fields' /\ Counters'
    BY <1>5 DEF TickTask
  <2>2. idle_hlt' \in {FALSE, idle_hlt}
    BY Zenon, <1>5 DEF TickTask
  <2>3. Flags'
    BY ZenonT(40), SMT, <1>5, <2>2 DEF TickTask
  <2> QED
    BY ZenonT(40), <2>1, <2>3
<1>6. ASSUME NEW t \in Task, Exit(t) PROVE Rest'
  BY <1>6 DEF Exit
<1>7. ASSUME NEW t \in Task, NEW q \in WaitQ, Wait(t, q) PROVE Rest'
  BY ZenonT(40), <1>7 DEF Wait
<1>8. ASSUME NEW q \in WaitQ, WakeOne(q) PROVE Rest'
  <2>1. need_resched' = need_resched \/ need_resched' = TRUE
    BY Zenon, <1>8 DEF WakeOne
  <2> QED
    BY Zenon, <1>8, <2>1 DEF WakeOne
<1>9. ASSUME NEW q \in WaitQ, WakeAll(q) PROVE Rest'
  <2>1. need_resched' \in BOOLEAN
    BY <1>9, Zenon DEF WakeAll
  <2> QED
    BY ZenonT(40), <1>9, <2>1 DEF WakeAll
<1>10. ASSUME Run PROVE Rest'
  <2>1. /\ need_resched' = FALSE
        /\ UNCHANGED <<tid, vruntime, min_vruntime, next_tid, ticks, booting, idle_hlt>>
    BY Zenon, <1>10 DEF Run
  <2>2. Fields' /\ Counters'
    BY Zenon, <2>1
  <2>3. Flags'
    BY Zenon, <2>1
  <2> QED
    BY Zenon, <2>2, <2>3
<1>11. ASSUME EnterLoop \/ TickBootstrap \/ OtherIrq \/ RequestResched \/ UNCHANGED vars
       PROVE  Rest'
  BY Zenon, <1>11 DEF EnterLoop, TickBootstrap, OtherIrq, RequestResched, vars
<1>12. Rest'
  BY ZenonT(40), <1>1, <1>2, <1>3, <1>4, <1>5, <1>6, <1>7, <1>8, <1>9, <1>10, <1>11
     DEF Next
<1> QED
  BY Zenon, <1>12 DEF CoreType

-----------------------------------------------------------------------------
(* The refinement. *)

(* The start of the scheduler is the start of SchedAbs. *)
LEMMA InitAbs == Init => Abs!AbsInit
<1> SUFFICES ASSUME Init PROVE Abs!AbsInit
  BY Zenon
<1>1. \A t \in Task : ~Born(t)
  BY Zenon, ConstantsAssumption DEF Init, Born, ConstantsAssumption
<1> QED
  BY ZenonT(40), <1>1 DEF Init, Abs!AbsInit, StatusMap, Born

(* Each move is a step of SchedAbs or leaves its variables alone. *)
LEMMA MoveAbs ==
    ASSUME CoreInv, CoreInv', Move
    PROVE  [Abs!AbsNext]_(Abs!absVars)
<1> USE DEF Goes, Abs!Become
<1> USE ConstantsAssumption DEF ConstantsAssumption
<1> DEFINE S == StatusMap
<1>0. /\ S = [t \in Task |-> IF Born(t) THEN "NEW" ELSE state[t]]
      /\ S' = [t \in Task |-> IF Born(t)' THEN "NEW" ELSE state'[t]]
  BY ZenonT(40) DEF StatusMap, Born
<1>1. CASE UNCHANGED core
  BY Zenon, <1>1 DEF core, StatusMap, Abs!absVars
<1>2. ASSUME NEW c \in Task \cup {NONE}, NEW i \in Task, Reserved(c, i)
      PROVE  Abs!AbsNext
  <2>1. ~Born(i)
    BY ZenonT(40), <1>2 DEF CoreInv, HeldInv, Reserved
  <2>2. \A t \in Task : Born(t)' <=> Born(t) \/ t = i
    BY <1>2 DEF Born, Reserved, CoreInv, CoreType
  <2>3. S[i] = "UNUSED" /\ S' = [S EXCEPT ![i] = "NEW"] /\ waitq' = waitq
    BY SMTT(30), Z3T(30), SMTT(40), Zenon, <1>0, <1>2, <2>1, <2>2 DEF Reserved, CoreInv, CoreType
  <2> QED
    BY ZenonT(40), SMT, <2>3 DEF Abs!AbsNext, Abs!Reserve
<1>3. ASSUME NEW c \in Task \cup {NONE}, NEW i \in Task,
             Published(c, i) \/ Discarded(c, i)
      PROVE  Abs!AbsNext
  <2>1. Born(i)
    BY Zenon, <1>3 DEF Born, Published, Discarded
  <2>2. \A t \in Task : Born(t)' <=> Born(t) /\ t # i
    <3>1. \A d \in Task \cup {NONE} :
            creating'[d] = IF d = c THEN NONE ELSE creating[d]
      BY SMTT(30), Z3T(30), Zenon, <1>3 DEF Published, Discarded, CoreInv, CoreType
    <3>2. \A d \in Task \cup {NONE} : creating[d] = i <=> d = c
      BY ZenonT(40), <1>3 DEF Published, Discarded, CoreInv, HeldInv
    <3> QED
      BY ZenonT(40), <3>1, <3>2 DEF Born
  <2>3. CASE Published(c, i)
    <3>1. S[i] = "NEW" /\ S' = [S EXCEPT ![i] = "READY"] /\ waitq' = waitq
      BY <1>0, <2>1, <2>2, <2>3 DEF Published, CoreInv, CoreType
    <3> QED
      BY Zenon, <3>1 DEF Abs!AbsNext, Abs!Publish
  <2>4. CASE Discarded(c, i)
    <3>1. S[i] = "NEW" /\ S' = [S EXCEPT ![i] = "UNUSED"] /\ waitq' = waitq
      <4>1. S[i] = "NEW" /\ waitq' = waitq
        BY <1>0, <2>1, <2>4 DEF Discarded
      <4>2. \A t \in Task : state'[t] = IF t = i THEN "UNUSED" ELSE state[t]
        BY SMTT(30), Z3T(30), <2>4 DEF Discarded, CoreInv, CoreType
      <4>3. S' = [S EXCEPT ![i] = "UNUSED"]
        BY Zenon, <1>0, <2>2, <4>2
      <4> QED
        BY Zenon, <4>1, <4>3
    <3> QED
      BY ZenonT(40), SMT, <3>1 DEF Abs!AbsNext, Abs!Discard
  <2> QED
    BY ZenonT(40), <1>3, <2>3, <2>4
(* The other moves leave the creators alone. *)
<1>4. ASSUME creating' = creating
      PROVE  \A t \in Task : Born(t)' <=> Born(t)
  BY Zenon, <1>4 DEF Born
<1>5. ASSUME NEW t \in Task, Started(t) PROVE Abs!AbsNext
  <2>1. \A s \in Task : S[s] # "RUNNING"
    BY Zenon, <1>0, <1>5 DEF Started, CoreInv, RunningIsCurrent
  <2>2. S[t] = "READY" /\ S' = [S EXCEPT ![t] = "RUNNING"] /\ waitq' = waitq
    BY ZenonT(40), SMT, <1>0, <1>4, <1>5 DEF Started, CoreInv, CoreType, HeldInv
  <2> QED
    BY Zenon, <2>1, <2>2 DEF Abs!AbsNext, Abs!Dispatch
<1>6. ASSUME NEW t \in Task, current = t
      PROVE  state[t] = "RUNNING" /\ ~Born(t) /\ S[t] = "RUNNING"
  BY Zenon, <1>0, <1>6 DEF CoreInv, RunningIsCurrent, HeldInv
<1>7. ASSUME NEW t \in Task, Released(t) PROVE Abs!AbsNext
  <2>1. S[t] = "RUNNING" /\ S' = [S EXCEPT ![t] = "READY"] /\ waitq' = waitq
    BY ZenonT(40), <1>0, <1>4, <1>6, <1>7 DEF Released, CoreInv, CoreType
  <2> QED
    BY Zenon, <2>1 DEF Abs!AbsNext, Abs!Release
<1>8. ASSUME NEW t \in Task, Ended(t) PROVE Abs!AbsNext
  <2>1. S[t] = "RUNNING" /\ S' = [S EXCEPT ![t] = "EXITED"] /\ waitq' = waitq
    BY SMTT(30), Z3T(30), Zenon, <1>0, <1>4, <1>6, <1>8 DEF Ended, CoreInv, CoreType
  <2> QED
    BY Zenon, <2>1 DEF Abs!AbsNext, Abs!Finish
<1>9. ASSUME NEW t \in Task, NEW q \in WaitQ, Slept(t, q) PROVE Abs!AbsNext
  <2>1. S[t] = "RUNNING" /\ S' = [S EXCEPT ![t] = "BLOCKED"]
    BY ZenonT(40), <1>0, <1>4, <1>6, <1>9 DEF Slept, CoreInv, CoreType
  <2>2. waitq' = [waitq EXCEPT ![q] = Append(@, t)]
    BY Zenon, <1>9 DEF Slept
  <2> QED
    BY Zenon, <2>1, <2>2 DEF Abs!AbsNext, Abs!Block
<1>10. ASSUME NEW q \in WaitQ, WokeHead(q) PROVE Abs!AbsNext
  <2> DEFINE h == Head(waitq[q])
  <2>1. h \in Task /\ h = waitq[q][1] /\ 1 \in 1..Len(waitq[q])
    BY SMTT(30), Z3T(30), Zenon, <1>10, TailQueue DEF CoreInv, WokeHead
  <2>2. state[h] = "BLOCKED" /\ ~Born(h)
    BY <2>1 DEF Queued, CoreInv, HeldInv
  <2>3. S[h] = "BLOCKED" /\ S' = [S EXCEPT ![h] = "READY"]
    BY ZenonT(40), SMT, <1>0, <1>4, <1>10, <2>1, <2>2 DEF WokeHead, CoreInv, CoreType
  <2>4. waitq[q] # <<>> /\ waitq' = [waitq EXCEPT ![q] = Tail(@)]
    BY Zenon, <1>10 DEF WokeHead
  <2>5. Abs!WakeHead(q)
    BY Zenon, <2>3, <2>4 DEF Abs!WakeHead
  <2> QED
    BY Zenon, <2>5 DEF Abs!AbsNext
<1>11. ASSUME NEW q \in WaitQ, WokeAll(q) PROVE Abs!AbsNext
  <2>1. \A t \in Task : In(t, q) => ~Born(t)
    BY DEF In, Queued, CoreInv, HeldInv
  <2>2. S' = [t \in Task |-> IF In(t, q) THEN "READY" ELSE S[t]]
    BY ZenonT(40), SMT, <1>0, <1>4, <1>11, <2>1 DEF WokeAll
  <2>3. waitq' = [waitq EXCEPT ![q] = <<>>]
    BY Zenon, <1>11 DEF WokeAll
  <2>4. Abs!WakeEvery(q)
    BY Zenon, <2>2, <2>3 DEF Abs!WakeEvery, In
  <2> QED
    BY Zenon, <2>4 DEF Abs!AbsNext
<1> QED
  BY ZenonT(40), <1>1, <1>2, <1>3, <1>5, <1>7, <1>8, <1>9, <1>10, <1>11 DEF Move

-----------------------------------------------------------------------------
(* The CFS policy. *)

(* What holds between steps when no task blocks and only kmain creates     *)
(* tasks.  The running task is one of least vruntime, so a tick takes      *)
(* nobody further than one tick ahead; tasks start level because kmain     *)
(* creates them before any of them runs; the slots are used from the left  *)
(* and the tids grow with them, so ties go to the lower slot.              *)
Even ==
    /\ \A q \in WaitQ : waitq[q] = <<>>
    /\ \A c \in Task : creating[c] = NONE
    /\ booting => /\ current = NONE /\ min_vruntime = 0
                  /\ \A t \in Task : vruntime[t] = 0 /\ state[t] # "EXITED"
    /\ ~booting => creating[NONE] = NONE
    /\ LagBounded
    /\ \A s \in Runnable : current \in Task => vruntime[current] <= vruntime[s]
    /\ \A s, t \in Task :
          s < t /\ state[t] # "UNUSED" => state[s] # "UNUSED" /\ tid[s] < tid[t]
    /\ \A t \in Task : tid[t] < next_tid
    /\ \A t \in Task : creating[NONE] # NONE /\ t > creating[NONE] => state[t] = "UNUSED"

CfsInv == workload = "cfs" => Even

(* The moves above, with what they do to vruntimes and tids. *)
BirthBegun(i) ==
    /\ booting /\ FreeSlot(i) /\ Reserved(NONE, i)
    /\ tid' = [tid EXCEPT ![i] = next_tid] /\ next_tid' = next_tid + 1
    /\ vruntime' = [vruntime EXCEPT ![i] = min_vruntime]
    /\ UNCHANGED <<min_vruntime, booting>>

BirthDone(i) ==
    /\ Published(NONE, i)
    /\ UNCHANGED <<tid, next_tid, vruntime, min_vruntime, booting>>

BirthUndone(i) ==
    /\ Discarded(NONE, i)
    /\ tid' = [tid EXCEPT ![i] = 0] /\ vruntime' = [vruntime EXCEPT ![i] = 0]
    /\ UNCHANGED <<next_tid, min_vruntime, booting>>

LoopEntered ==
    /\ booting /\ creating[NONE] = NONE /\ state[Idle] # "UNUSED" /\ ~booting'
    /\ UNCHANGED <<tid, next_tid, vruntime, min_vruntime, state, current, creating>>

Picked(t) ==
    /\ ~booting /\ IsBest(t) /\ Started(t)
    /\ UNCHANGED <<tid, next_tid, vruntime, min_vruntime, booting>>

Charged(t) ==
    /\ Released(t)
    /\ vruntime' = [vruntime EXCEPT ![t] = @ + 1] /\ min_vruntime' = vruntime[t] + 1
    /\ UNCHANGED <<tid, next_tid, booting>>

Yielded(t) ==
    /\ Released(t)
    /\ UNCHANGED <<tid, next_tid, vruntime, min_vruntime, booting>>

Left(t) ==
    /\ t # Idle /\ Ended(t)
    /\ UNCHANGED <<tid, next_tid, vruntime, min_vruntime, booting>>

Still == UNCHANGED <<tid, next_tid, vruntime, min_vruntime, booting, state, current, creating>>

CfsMove ==
    \/ \E i \in Task : BirthBegun(i) \/ BirthDone(i) \/ BirthUndone(i)
    \/ \E t \in Task : Picked(t) \/ Charged(t) \/ Yielded(t) \/ Left(t)
    \/ LoopEntered \/ Still

(* The tasks created so far are level and in the order of their slots. *)
LEMMA BirthsAreEven ==
    ASSUME SchedInv, SchedInv', Even, waitq' = waitq, \A c \in Task : creating'[c] = NONE,
           NEW i \in Task, BirthBegun(i) \/ BirthDone(i) \/ BirthUndone(i)
    PROVE  Even'
<1>t. /\ TypeOK /\ TypeOK' /\ NONE \notin Task /\ next_tid \in Nat
      /\ \A t \in Task : t \in Int /\ tid[t] \in Nat /\ tid'[t] \in Nat
  <2>1. TypeOK /\ TypeOK' /\ NONE \notin Task
    BY Zenon, ConstantsAssumption DEF SchedInv, ConstantsAssumption
  <2>2. \A t \in Task : t \in Int
    BY SMTT(30), Z3T(30), ConstantsAssumption DEF ConstantsAssumption, Task
  <2> QED
    BY ZenonT(40), <2>1, <2>2 DEF TypeOK
<1>b. /\ booting /\ booting' /\ current' = NONE /\ min_vruntime' = 0
      /\ creating[NONE] \in {NONE, i}
  <2>1. /\ booting' = booting /\ current' = current /\ min_vruntime' = min_vruntime
        /\ BirthBegun(i) => booting /\ creating[NONE] = NONE
        /\ ~BirthBegun(i) => creating[NONE] = i
    BY Zenon DEF BirthBegun, BirthDone, BirthUndone, Reserved, Published, Discarded
  <2>2. booting /\ creating[NONE] \in {NONE, i}
    BY ZenonT(40), <1>t, <2>1 DEF Even
  <2> QED
    BY ZenonT(40), <2>1, <2>2 DEF Even
<1>1. \A t \in Task : vruntime'[t] = 0 /\ state'[t] # "EXITED"
  <2>1. /\ \A t \in Task : vruntime[t] = 0 /\ state[t] # "EXITED"
        /\ min_vruntime = 0
    BY ZenonT(40), <1>b DEF Even
  <2> QED
    BY ZenonT(40), <1>t, <2>1 DEF TypeOK, BirthBegun, BirthDone, BirthUndone, Reserved, Published,
                      Discarded, Goes
<1>2. \A q \in WaitQ : waitq'[q] = <<>>
  BY Zenon DEF Even
<1>3. LagBounded'
  BY <1>1 DEF LagBounded, Runnable
<1>4. creating' = [creating EXCEPT ![NONE] = IF BirthBegun(i) THEN i ELSE NONE]
  BY Zenon, <1>t DEF BirthBegun, BirthDone, BirthUndone, Reserved, Published, Discarded
<1>5. creating'[NONE] = IF BirthBegun(i) THEN i ELSE NONE
  BY ZenonT(40), <1>4, <1>t DEF TypeOK
<1>6. CASE BirthBegun(i)
  <2>1. /\ state[i] = "UNUSED" /\ \A j \in Task : j < i => state[j] # "UNUSED"
        /\ state' = [state EXCEPT ![i] = "BLOCKED"]
        /\ tid' = [tid EXCEPT ![i] = next_tid] /\ next_tid' = next_tid + 1
    BY Zenon, <1>6 DEF BirthBegun, FreeSlot, Reserved, Goes
  <2>2. \A t \in Task : t > i => state[t] = "UNUSED"
    BY ZenonT(40), <1>t, <2>1 DEF Even
  <2>3. \A t \in Task : t > i => state'[t] = "UNUSED"
    BY ZenonT(40), <1>t, <2>1, <2>2 DEF TypeOK
  <2>4. \A s, t \in Task :
          s < t /\ state'[t] # "UNUSED" => state'[s] # "UNUSED" /\ tid'[s] < tid'[t]
    <3> SUFFICES ASSUME NEW s \in Task, NEW t \in Task, s < t, state'[t] # "UNUSED"
                 PROVE  state'[s] # "UNUSED" /\ tid'[s] < tid'[t]
      BY Zenon
    <3>1. t <= i /\ s < i
      BY SMTT(30), Z3T(30), <1>t, <2>3
    <3>2. s # i /\ state'[s] = state[s] /\ tid'[s] = tid[s] /\ state[s] # "UNUSED"
      BY Zenon, <1>t, <2>1, <3>1 DEF TypeOK
    <3>3. CASE t = i
      BY Zenon, <1>t, <2>1, <3>2, <3>3 DEF Even, TypeOK
    <3>4. CASE t # i
      BY ZenonT(40), <1>t, <2>1, <3>2, <3>4 DEF Even, TypeOK
    <3> QED
      BY Zenon, <3>2, <3>3, <3>4
  <2>5. \A t \in Task : tid'[t] < next_tid'
    BY SMTT(30), Z3T(30), SMTT(40), <1>t, <2>1 DEF Even, TypeOK
  <2> QED
    BY SMTT(30), Z3T(30), <1>b, <1>1, <1>2, <1>3, <1>5, <1>6, <2>3, <2>4, <2>5, <1>t DEF Even
<1>7. CASE BirthDone(i) \/ BirthUndone(i)
  <2>0. creating[NONE] = i /\ creating'[NONE] = NONE /\ state[i] = "BLOCKED"
    <3>1. creating[NONE] = i /\ creating' = [creating EXCEPT ![NONE] = NONE]
      BY Zenon, <1>7 DEF BirthDone, BirthUndone, Published, Discarded
    <3>2. state[i] = "BLOCKED"
      BY ZenonT(40), <3>1 DEF SchedInv, HeldInv, Born
    <3> QED
      BY ZenonT(40), <3>1, <3>2, <1>t DEF TypeOK
  <2>1. \A t \in Task : t > i => state[t] = "UNUSED"
    BY ZenonT(40), <2>0, <1>t DEF Even
  <2>2. \A t \in Task : t # i => state'[t] = state[t] /\ tid'[t] = tid[t]
    BY ZenonT(40), <1>7, <1>t DEF TypeOK, BirthDone, BirthUndone, Published, Discarded, Goes
  <2>3. next_tid' = next_tid /\ tid'[i] \in {tid[i], 0} /\ (state'[i] = "READY" => tid'[i] = tid[i])
    BY ZenonT(40), <1>7, <1>t DEF TypeOK, BirthDone, BirthUndone, Published, Discarded, Goes
  <2>4. state'[i] \in {"READY", "UNUSED"}
    BY ZenonT(40), <1>7, <1>t DEF TypeOK, BirthDone, BirthUndone, Published, Discarded, Goes
  <2>5. \A s, t \in Task :
          s < t /\ state'[t] # "UNUSED" => state'[s] # "UNUSED" /\ tid'[s] < tid'[t]
    <3> SUFFICES ASSUME NEW s \in Task, NEW t \in Task, s < t, state'[t] # "UNUSED"
                 PROVE  state'[s] # "UNUSED" /\ tid'[s] < tid'[t]
      BY Zenon
    <3>1. t <= i /\ s < i
      BY <1>t, <2>1, <2>2
    <3>2. state[t] # "UNUSED" /\ tid'[t] = tid[t]
      BY Zenon, <2>0, <2>2, <2>3, <2>4
    <3>3. s # i /\ state[s] # "UNUSED" /\ tid[s] < tid[t]
      BY SMTT(30), Z3T(30), Zenon, <1>t, <3>1, <3>2 DEF Even
    <3> QED
      BY Zenon, <2>2, <3>2, <3>3
  <2>6. \A t \in Task : tid'[t] < next_tid'
    BY SMTT(30), Z3T(30), Zenon, <1>t, <2>2, <2>3 DEF Even
  <2> QED
    BY ZenonT(40), <1>b, <1>1, <1>2, <1>3, <1>t, <2>0, <2>5, <2>6 DEF Even
<1> QED
  BY Zenon, <1>6, <1>7

(* The task that is picked has least vruntime, and a tick is charged to    *)
(* nobody else: the vruntimes stay within one tick.                        *)
LEMMA TurnsAreEven ==
    ASSUME SchedInv, SchedInv', Even, waitq' = waitq, \A c \in Task : creating'[c] = NONE,
           NEW t \in Task, Picked(t) \/ Charged(t) \/ Yielded(t) \/ Left(t)
    PROVE  Even'
<1>t. /\ TypeOK /\ TypeOK' /\ NONE \notin Task
      /\ \A s \in Task : vruntime[s] \in Nat /\ vruntime'[s] \in Nat
  BY Zenon, ConstantsAssumption DEF SchedInv, ConstantsAssumption, TypeOK
<1>1. /\ creating' = creating /\ tid' = tid /\ next_tid' = next_tid /\ booting' = booting
      /\ state[t] \in {"READY", "RUNNING"}
      /\ \A s \in Task : s # t => state'[s] = state[s] /\ vruntime'[s] = vruntime[s]
      /\ state'[t] \in {"READY", "RUNNING", "EXITED"}
  BY ZenonT(40), <1>t DEF TypeOK, SchedInv, RunningIsCurrent, Picked, Charged, Yielded, Left, Started,
              Released, Ended, Goes
<1>2. ~booting
  BY ZenonT(40), <1>t DEF Even, Picked, Charged, Yielded, Left, Released, Ended
<1>3. t \in Runnable /\ Runnable' \subseteq Runnable
  BY ZenonT(40), <1>1 DEF Runnable
<1>4. \A s \in Runnable : vruntime[t] <= vruntime[s]
  <2>1. CASE Picked(t)
    <3>1. current = NONE /\ IsBest(t)
      BY Zenon, <2>1 DEF Picked, Started
    <3>2. Runnable \subseteq ReadyTasks
      BY Zenon, <1>t, <3>1 DEF SchedInv, RunningIsCurrent, Runnable, ReadyTasks
    <3> QED
      BY SMTT(30), Z3T(30), <1>t, <3>1, <3>2 DEF IsBest, RunsBefore, Runnable
  <2>2. CASE Charged(t) \/ Yielded(t) \/ Left(t)
    BY ZenonT(40), <2>2 DEF Even, Charged, Yielded, Left, Released, Ended
  <2> QED
    BY ZenonT(40), <2>1, <2>2
<1>5. vruntime'[t] \in {vruntime[t], vruntime[t] + 1}
  BY ZenonT(40), <1>t DEF TypeOK, Picked, Charged, Yielded, Left
<1>6. LagBounded'
  <2> SUFFICES ASSUME NEW s \in Runnable, NEW r \in Runnable
               PROVE  vruntime'[s] <= vruntime'[r] + 1
    BY Zenon, <1>3 DEF LagBounded
  <2>1. vruntime[s] <= vruntime[r] + 1 /\ vruntime[s] <= vruntime[t] + 1
    BY ZenonT(40), <1>3 DEF Even, LagBounded
  <2> QED
    BY SMTT(30), Z3T(30), <1>t, <1>1, <1>4, <1>5, <2>1 DEF Runnable
<1>7. \A s \in Runnable' : current' \in Task => vruntime'[current'] <= vruntime'[s]
  BY ZenonT(40), <1>t, <1>1, <1>3, <1>4 DEF Picked, Charged, Yielded, Left, Started, Released, Ended
<1>8. \A s \in Task : state'[s] = "UNUSED" <=> state[s] = "UNUSED"
  BY Zenon, <1>1
<1> QED
  BY ZenonT(40), <1>1, <1>2, <1>6, <1>7, <1>8 DEF Even

(* No step of such a workload disturbs it. *)
LEMMA EvenKept ==
    ASSUME SchedInv, SchedInv', Even, waitq' = waitq, \A c \in Task : creating'[c] = NONE,
           CfsMove
    PROVE  Even'
<1>1. CASE LoopEntered \/ Still
  <2>1. /\ UNCHANGED <<tid, next_tid, vruntime, min_vruntime, state, current, creating>>
        /\ booting' => booting
        /\ ~booting' => creating[NONE] = NONE
    BY SMTT(30), Z3T(30), <1>1 DEF LoopEntered, Still, Even
  <2>2. LagBounded' /\ Runnable' = Runnable
    BY Zenon, <2>1 DEF Even, LagBounded, Runnable
  <2> QED
    BY Zenon, <2>1, <2>2 DEF Even
<1> QED
  BY Zenon, <1>1, BirthsAreEven, TurnsAreEven DEF CfsMove

-----------------------------------------------------------------------------
(* Lags: vruntimes relative to the least one. *)

(* LagMap, for any vruntimes v and any set U of runnable tasks. *)
LagsOf(v, U) ==
    LET Least == CHOOSE m \in {v[s] : s \in U} : \A s \in U : m <= v[s]
    IN  [t \in Task |-> IF t \in U THEN v[t] - Least ELSE 0]

Shifted(v, U, m) == [t \in Task |-> IF t \in U THEN v[t] - m ELSE 0]

IsLeast(v, U, m) == m \in Int /\ (\E s \in U : v[s] = m) /\ \A s \in U : m <= v[s]

INSTANCE WellFoundedInduction

(* A set of natural numbers that is not empty has a least element. *)
LEMMA LeastNat ==
    ASSUME NEW T \in SUBSET Nat, T # {}
    PROVE  \E x \in T : \A y \in T : x <= y
<1> DEFINE R == OpToRel(<, Nat)
<1>1. IsWellFoundedOn(R, Nat)
  BY Zenon, NatLessThanWellFounded
<1>2. \A x, y \in Nat : x < y => <<x, y>> \in R
  BY Zenon DEF OpToRel
<1> HIDE DEF R
<1>3. PICK x \in T : \A y \in T : ~(<<y, x>> \in R)
  BY Zenon, <1>1, WFMin
<1>4. ASSUME NEW y \in T PROVE x <= y
  <2>1. ~(y < x)
    BY Zenon, <1>2, <1>3
  <2> QED
    BY <2>1
<1> QED
  BY Zenon, <1>4

(* Some task has least vruntime. *)
LEMMA HasLeast ==
    ASSUME NEW v \in [Task -> Nat], NEW U \in SUBSET Task, U # {}
    PROVE  \E m : IsLeast(v, U, m)
<1> DEFINE T == {v[s] : s \in U}
<1>1. T \in SUBSET Nat /\ T # {}
  BY Zenon
<1> HIDE DEF T
<1>2. PICK x \in T : \A y \in T : x <= y
  BY ZenonT(40), <1>1, LeastNat
<1>3. IsLeast(v, U, x)
  BY <1>1, <1>2 DEF T, IsLeast
<1> QED
  BY Zenon, <1>3

(* The two ways to say which vruntime is least agree. *)
LEMMA LagsAre ==
    ASSUME NEW v \in [Task -> Int], NEW U \in SUBSET Task, NEW m, IsLeast(v, U, m)
    PROVE  LagsOf(v, U) = Shifted(v, U, m) /\ Fair!Rebase(v, U) = Shifted(v, U, m)
<1> DEFINE T == {v[s] : s \in U}
           P(x) == \A s \in U : x <= v[s]
           Q(x) == \A y \in T : x <= y
<1>1. m \in T /\ P(m) /\ Q(m) /\ \A x \in T : P(x) \/ Q(x) => x = m
  BY DEF IsLeast
<1>2. (CHOOSE x \in T : P(x)) = m /\ (CHOOSE x \in T : Q(x)) = m
  <2> HIDE DEF T, P, Q
  <2> QED
    BY Zenon, <1>1
<1>3. LagsOf(v, U) = Shifted(v, U, m)
  <2>1. LagsOf(v, U) = Shifted(v, U, CHOOSE x \in T : P(x))
    BY Zenon DEF LagsOf, Shifted
  <2> QED
    BY <1>2, <2>1, Zenon
<1>4. Fair!Rebase(v, U) = Shifted(v, U, m)
  <2>1. Fair!Rebase(v, U) = Shifted(v, U, CHOOSE x \in T : Q(x))
    BY Zenon DEF Fair!Rebase, Fair!Min, Shifted
  <2> QED
    BY <1>2, <2>1, Zenon
<1> QED
  BY Zenon, <1>3, <1>4

(* Shifting what was shifted already comes to the same. *)
LEMMA ShiftAgain ==
    ASSUME NEW v \in [Task -> Nat], NEW U \in SUBSET Task, NEW m \in Int,
           NEW L \in [Task -> Int], \A s \in U : L[s] = v[s] - m
    PROVE  LagsOf(v, U) = Fair!Rebase(L, U)
<1>1. CASE U = {}
  BY ZenonT(40), <1>1 DEF LagsOf, Fair!Rebase
<1>2. CASE U # {}
  <2>1. PICK n : IsLeast(v, U, n)
    BY ZenonT(40), <1>2, HasLeast
  <2>2. n \in Int /\ IsLeast(L, U, n - m)
    BY <2>1 DEF IsLeast
  <2>3. LagsOf(v, U) = Shifted(v, U, n) /\ Fair!Rebase(L, U) = Shifted(L, U, n - m)
    <3>1. v \in [Task -> Int]
      OBVIOUS
    <3> QED
      BY ZenonT(40), <2>1, <2>2, <3>1, LagsAre
  <2>4. \A t \in Task : Shifted(v, U, n)[t] = Shifted(L, U, n - m)[t]
    BY <2>2 DEF Shifted
  <2> QED
    BY ZenonT(40), <2>3, <2>4 DEF Shifted
<1> QED
  BY ZenonT(40), <1>1, <1>2

(* Level tasks lag behind nobody. *)
LEMMA LevelLags ==
    ASSUME NEW v \in [Task -> Nat], NEW U \in SUBSET Task, \A t \in Task : v[t] = 0
    PROVE  LagsOf(v, U) = [t \in Task |-> 0]
<1>1. CASE U = {}
  BY ZenonT(40), <1>1 DEF LagsOf
<1>2. CASE U # {}
  <2>1. IsLeast(v, U, 0)
    BY <1>2 DEF IsLeast
  <2>2. LagsOf(v, U) = Shifted(v, U, 0)
    BY <2>1, LagsAre
  <2> QED
    BY <2>2 DEF Shifted
<1> QED
  BY ZenonT(40), <1>1, <1>2

-----------------------------------------------------------------------------
(* The moves are steps of SchedFair. *)

(* LagMap and LiveMap, in terms that do not depend on the state. *)
LEMMA MapsAre ==
    /\ LagMap = LagsOf(vruntime, Runnable) /\ LagMap' = LagsOf(vruntime', Runnable')
    /\ \A t \in Task : /\ LiveMap[t] = IF state[t] \in {"UNUSED", "BLOCKED"} THEN "ABSENT" ELSE state[t]
                       /\ LiveMap'[t] = IF state'[t] \in {"UNUSED", "BLOCKED"} THEN "ABSENT" ELSE state'[t]
    /\ LiveMap = [t \in Task |-> LiveMap[t]] /\ LiveMap' = [t \in Task |-> LiveMap'[t]]
    /\ Fair!Alive(LiveMap) = Runnable
<1>1. LagMap = LagsOf(vruntime, Runnable) /\ LagMap' = LagsOf(vruntime', Runnable')
  BY Zenon DEF LagMap, LagsOf
<1>2. /\ \A t \in Task : /\ LiveMap[t] = IF state[t] \in {"UNUSED", "BLOCKED"} THEN "ABSENT" ELSE state[t]
                         /\ LiveMap'[t] = IF state'[t] \in {"UNUSED", "BLOCKED"} THEN "ABSENT" ELSE state'[t]
      /\ LiveMap = [t \in Task |-> LiveMap[t]] /\ LiveMap' = [t \in Task |-> LiveMap'[t]]
  BY ZenonT(40) DEF LiveMap
<1>3. Fair!Alive(LiveMap) = Runnable
  BY ZenonT(40), <1>2 DEF Fair!Alive, Runnable
<1> QED
  BY ZenonT(40), <1>1, <1>2, <1>3

(* A creation is a birth when it is published, and nothing before. *)
LEMMA BirthsAreFair ==
    ASSUME SchedInv, SchedInv', Even, Even',
           NEW i \in Task, BirthBegun(i) \/ BirthDone(i) \/ BirthUndone(i)
    PROVE  [Fair!FairNext]_(Fair!fairVars)
<1>t. TypeOK /\ TypeOK' /\ NONE \notin Task /\ \A t \in Task : t \in Int
  <2>1. TypeOK /\ TypeOK' /\ NONE \notin Task
    BY ZenonT(40), ConstantsAssumption DEF SchedInv, ConstantsAssumption
  <2>2. \A t \in Task : t \in Int
    BY SMTT(30), Z3T(30), ConstantsAssumption DEF ConstantsAssumption, Task
  <2> QED
    BY ZenonT(40), <2>1, <2>2
<1>b. booting /\ booting'
  <2>1. /\ booting' = booting
        /\ BirthBegun(i) => booting
        /\ ~BirthBegun(i) => creating[NONE] = i
    BY Zenon DEF BirthBegun, BirthDone, BirthUndone, Published, Discarded
  <2> QED
    BY ZenonT(40), <1>t, <2>1 DEF Even
<1>1. LagMap = [t \in Task |-> 0] /\ LagMap' = [t \in Task |-> 0]
  <2>1. /\ vruntime \in [Task -> Nat] /\ \A t \in Task : vruntime[t] = 0
        /\ vruntime' \in [Task -> Nat] /\ \A t \in Task : vruntime'[t] = 0
        /\ Runnable \in SUBSET Task /\ Runnable' \in SUBSET Task
    BY Zenon, <1>t, <1>b DEF Even, TypeOK, Runnable
  <2> QED
    BY ZenonT(40), <2>1, LevelLags, MapsAre
<1>2. CASE BirthBegun(i) \/ BirthUndone(i)
  <2>1. /\ state[i] \in {"UNUSED", "BLOCKED"} /\ state'[i] \in {"UNUSED", "BLOCKED"}
        /\ \A t \in Task : t # i => state'[t] = state[t]
    <3>1. BirthUndone(i) => state[i] = "BLOCKED"
      BY ZenonT(40) DEF BirthUndone, Discarded, SchedInv, HeldInv, Born
    <3> QED
      BY SMTT(30), Z3T(30), SMTT(40), <1>t, <1>2, <3>1 DEF TypeOK, BirthBegun, BirthUndone, Reserved, Discarded, Goes
  <2>2. LiveMap' = LiveMap
    BY Zenon, <2>1 DEF LiveMap
  <2> QED
    BY ZenonT(40), <1>b, <1>1, <2>2 DEF Fair!fairVars
<1>3. CASE BirthDone(i)
  <2>1. creating[NONE] = i /\ state[i] = "BLOCKED" /\ state' = [state EXCEPT ![i] = "READY"]
    BY ZenonT(40), <1>3 DEF BirthDone, Published, Goes, SchedInv, HeldInv, Born
  <2>2. \A s \in Task : s < i => state[s] \notin {"UNUSED", "BLOCKED"}
    <3> SUFFICES ASSUME NEW s \in Task, s < i PROVE state[s] \notin {"UNUSED", "BLOCKED"}
      BY ZenonT(40)
    <3>1. state[s] # "UNUSED" /\ s # i
      BY <1>t, <2>1 DEF Even
    <3>2. ~Queued(s)
      <4>1. \A q \in WaitQ : 1..Len(waitq[q]) = {}
        <5>1. Len(<<>>) = 0
          BY ZenonT(40)
        <5> QED
          BY SMTT(30), Z3T(30), Zenon, <5>1 DEF Even
      <4> QED
        BY ZenonT(40), <4>1 DEF Queued
    <3>3. ~Born(s)
      BY SMTT(30), Z3T(30), Zenon, <1>t, <2>1, <3>1 DEF Even, Born
    <3> QED
      BY Zenon, <3>1, <3>2, <3>3 DEF SchedInv, HeldInv
  <2>3. LiveMap' = [LiveMap EXCEPT ![i] = "READY"]
    BY Zenon, <1>t, <2>1 DEF LiveMap, TypeOK
  <2>4. LiveMap[i] = "ABSENT" /\ \A s \in Task : s < i => LiveMap[s] # "ABSENT"
    BY ZenonT(40), <1>t, <2>1, <2>2 DEF LiveMap, TypeOK, States
  <2>5. Fair!Birth(i)
    BY ZenonT(40), <1>b, <1>1, <2>3, <2>4 DEF Fair!Birth
  <2> QED
    BY ZenonT(40), <2>5 DEF Fair!FairNext
<1> QED
  BY ZenonT(40), <1>2, <1>3

(* Dispatching, the tick, a yield and an exit are the steps of the policy. *)
LEMMA TurnsAreFair ==
    ASSUME SchedInv, SchedInv', Even, Even',
           NEW t \in Task, Picked(t) \/ Charged(t) \/ Yielded(t) \/ Left(t)
    PROVE  [Fair!FairNext]_(Fair!fairVars)
<1>t. /\ TypeOK /\ TypeOK' /\ NONE \notin Task
      /\ vruntime \in [Task -> Nat] /\ vruntime' \in [Task -> Nat]
      /\ Runnable \in SUBSET Task /\ Runnable' \in SUBSET Task
  BY Zenon, ConstantsAssumption DEF SchedInv, ConstantsAssumption, TypeOK, Runnable
<1>0. PICK m \in Int : LagMap = Shifted(vruntime, Runnable, m)
  <2>1. t \in Runnable
    BY Zenon DEF Runnable, Picked, Charged, Yielded, Left, Started, Released, Ended, SchedInv,
           RunningIsCurrent
  <2>2. PICK m : IsLeast(vruntime, Runnable, m)
    BY ZenonT(40), <1>t, <2>1, HasLeast
  <2>3. m \in Int /\ vruntime \in [Task -> Int]
    BY <1>t, <2>2 DEF IsLeast
  <2> QED
    BY <1>t, <2>2, <2>3, LagsAre, MapsAre
<1>1. \A s \in Task : LagMap[s] = IF s \in Runnable THEN vruntime[s] - m ELSE 0
  BY ZenonT(40), <1>0 DEF Shifted
<1>2. LagMap \in [Task -> Int]
  BY <1>t, <1>0 DEF Shifted
<1>3. CASE Picked(t)
  <2>1. /\ ~booting /\ ~booting' /\ current = NONE /\ IsBest(t) /\ vruntime' = vruntime
        /\ state' = [state EXCEPT ![t] = "RUNNING"]
    BY ZenonT(40), <1>3 DEF Picked, Started, Goes
  <2>2. state[t] = "READY" /\ \A s \in Task : state[s] # "RUNNING"
    BY ZenonT(40), <1>t, <2>1 DEF IsBest, ReadyTasks, SchedInv, RunningIsCurrent
  <2>3. LiveMap' = [LiveMap EXCEPT ![t] = "RUNNING"] /\ LiveMap[t] = "READY"
        /\ \A s \in Task : LiveMap[s] # "RUNNING"
    BY ZenonT(40), <1>t, <2>1, <2>2 DEF LiveMap, TypeOK
  <2>4. Runnable' = Runnable
    BY <1>t, <2>1, <2>2 DEF Runnable, TypeOK
  <2>5. LagMap' = LagMap
    BY ZenonT(40), <2>1, <2>4, MapsAre
  <2>6. Fair!Least(t)
    <3> SUFFICES ASSUME NEW s \in Task, LiveMap[s] = "READY"
                 PROVE  LagMap[t] < LagMap[s] \/ (LagMap[t] = LagMap[s] /\ t <= s)
      BY Zenon DEF Fair!Least
    <3>1. state[s] = "READY"
      BY Zenon DEF LiveMap
    <3>2. RunsBefore(t, s) /\ s \in Runnable /\ t \in Runnable
      BY ZenonT(40), <2>1, <2>2, <3>1 DEF IsBest, ReadyTasks, Runnable
    <3>3. tid[t] <= tid[s] => t <= s
      <4>1. t \in Int /\ s \in Int
        BY SMTT(30), Z3T(30), ConstantsAssumption DEF ConstantsAssumption, Task
      <4>2. s < t => tid[s] < tid[t]
        BY ZenonT(40), <2>2 DEF Even
      <4>3. tid[t] \in Nat /\ tid[s] \in Nat
        BY ZenonT(40), <1>t DEF TypeOK
      <4> QED
        BY <4>1, <4>2, <4>3
    <3>4. vruntime[t] \in Nat /\ vruntime[s] \in Nat
      BY ZenonT(40), <1>t
    <3> QED
      BY <1>1, <3>2, <3>3, <3>4 DEF RunsBefore
  <2>7. Fair!Pick(t)
    BY ZenonT(40), <2>1, <2>3, <2>5, <2>6 DEF Fair!Pick
  <2> QED
    BY ZenonT(40), <2>7 DEF Fair!FairNext
<1>4. CASE Charged(t) \/ Yielded(t)
  <2>1. current = t /\ state' = [state EXCEPT ![t] = "READY"] /\ booting' = booting
    BY ZenonT(40), <1>4 DEF Charged, Yielded, Released, Goes
  <2>2. state[t] = "RUNNING"
    BY ZenonT(40), <2>1 DEF SchedInv, RunningIsCurrent
  <2>3. LiveMap' = [LiveMap EXCEPT ![t] = "READY"] /\ LiveMap[t] = "RUNNING"
    BY Zenon, <1>t, <2>1, <2>2 DEF LiveMap, TypeOK
  <2>4. Runnable' = Runnable /\ t \in Runnable
    BY ZenonT(40), <1>t, <2>1, <2>2 DEF Runnable, TypeOK
  <2>5. CASE Yielded(t)
    <3>1. vruntime' = vruntime
      BY ZenonT(40), <2>5 DEF Yielded
    <3>2. LagMap' = LagMap
      BY ZenonT(40), <2>4, <3>1, MapsAre
    <3>3. Fair!GiveUp(t)
      BY ZenonT(40), <2>1, <2>3, <3>2 DEF Fair!GiveUp
    <3> QED
      BY ZenonT(40), <3>3 DEF Fair!FairNext
  <2>6. CASE Charged(t)
    <3> DEFINE L == [LagMap EXCEPT ![t] = @ + 1]
    <3>1. vruntime' = [vruntime EXCEPT ![t] = @ + 1]
      BY ZenonT(40), <2>6 DEF Charged
    <3>2. L \in [Task -> Int] /\ \A s \in Runnable : L[s] = vruntime'[s] - m
      BY SMTT(30), Z3T(30), <1>t, <1>1, <1>2, <2>4, <3>1
    <3> HIDE DEF L
    <3>3. LagsOf(vruntime', Runnable) = Fair!Rebase(L, Runnable)
      BY <1>t, <3>2, ShiftAgain
    <3>4. LagMap' = Fair!Rebase(L, Fair!Alive(LiveMap))
      BY <2>4, <3>3, MapsAre, Zenon
    <3>5. Fair!Charge(t)
      BY ZenonT(40), <2>1, <2>3, <3>4 DEF Fair!Charge, L
    <3> QED
      BY ZenonT(40), <3>5 DEF Fair!FairNext
  <2> QED
    BY ZenonT(40), <1>4, <2>5, <2>6
<1>5. CASE Left(t)
  <2>1. /\ current = t /\ t # Idle /\ state' = [state EXCEPT ![t] = "EXITED"]
        /\ booting' = booting /\ vruntime' = vruntime
    BY ZenonT(40), <1>5 DEF Left, Ended, Goes
  <2>2. state[t] = "RUNNING"
    BY ZenonT(40), <2>1 DEF SchedInv, RunningIsCurrent
  <2>3. LiveMap' = [LiveMap EXCEPT ![t] = "EXITED"] /\ LiveMap[t] = "RUNNING"
    BY Zenon, <1>t, <2>1, <2>2 DEF LiveMap, TypeOK
  <2>4. Runnable' = Runnable \ {t}
    BY ZenonT(40), <1>t, <2>1, <2>2 DEF Runnable, TypeOK
  <2>5. Runnable \ {t} \in SUBSET Task /\ \A s \in Runnable \ {t} : LagMap[s] = vruntime[s] - m
    BY ZenonT(40), <1>t, <1>1
  <2>6. LagsOf(vruntime, Runnable \ {t}) = Fair!Rebase(LagMap, Runnable \ {t})
    BY <1>t, <1>2, <2>5, ShiftAgain
  <2>7. LagMap' = Fair!Rebase(LagMap, Fair!Alive(LiveMap) \ {t})
    BY <2>1, <2>4, <2>6, MapsAre, Zenon
  <2>8. Fair!End(t)
    BY ZenonT(40), <2>1, <2>3, <2>7 DEF Fair!End, Idle
  <2> QED
    BY ZenonT(40), <2>8 DEF Fair!FairNext
<1> QED
  BY ZenonT(40), <1>3, <1>4, <1>5

(* kmain enters its loop when there is a task to run. *)
LEMMA CfsMoveIsFair ==
    ASSUME SchedInv, SchedInv', Even, Even', CfsMove
    PROVE  [Fair!FairNext]_(Fair!fairVars)
<1>1. CASE LoopEntered
  <2>1. /\ booting /\ ~booting' /\ state[Idle] # "UNUSED" /\ creating[NONE] = NONE
        /\ UNCHANGED <<vruntime, state>>
    BY ZenonT(40), <1>1 DEF LoopEntered
  <2>2. Idle \in Task /\ NONE \notin Task
    BY ConstantsAssumption DEF ConstantsAssumption, Task, Idle
  <2>3. state[Idle] = "READY"
    <3>1. state[Idle] \in States /\ state[Idle] # "EXITED" /\ state[Idle] # "RUNNING"
      BY ZenonT(40), <2>1, <2>2 DEF Even, SchedInv, TypeOK, RunningIsCurrent
    <3>2. ~Queued(Idle)
      <4>1. \A q \in WaitQ : 1..Len(waitq[q]) = {}
        <5>1. Len(<<>>) = 0
          BY ZenonT(40)
        <5> QED
          BY SMTT(30), Z3T(30), Zenon, <5>1 DEF Even
      <4> QED
        BY ZenonT(40), <4>1 DEF Queued
    <3>3. ~Born(Idle)
      BY ZenonT(40), <2>1, <2>2 DEF Even, Born
    <3>4. state[Idle] # "BLOCKED"
      BY Zenon, <2>2, <3>2, <3>3 DEF SchedInv, HeldInv
    <3> QED
      BY ZenonT(40), <2>1, <3>1, <3>4 DEF States
  <2>4. Idle \in Fair!Alive(LiveMap)
    BY ZenonT(40), <2>2, <2>3, MapsAre DEF Runnable
  <2>5. Runnable' = Runnable /\ LiveMap' = LiveMap
    BY ZenonT(40), <2>1 DEF Runnable, LiveMap
  <2>6. LagMap' = LagMap
    BY ZenonT(40), <2>1, <2>5, MapsAre
  <2>7. Fair!Boot
    BY ZenonT(40), <2>1, <2>4, <2>5, <2>6 DEF Fair!Boot
  <2> QED
    BY ZenonT(40), <2>7 DEF Fair!FairNext
<1>2. CASE Still
  <2>1. vruntime' = vruntime /\ state' = state /\ booting' = booting
    BY ZenonT(40), <1>2 DEF Still
  <2>2. Runnable' = Runnable /\ LiveMap' = LiveMap
    BY ZenonT(40), <2>1 DEF Runnable, LiveMap
  <2> QED
    BY ZenonT(40), <2>1, <2>2, MapsAre DEF Fair!fairVars
<1> QED
  BY ZenonT(40), <1>1, <1>2, BirthsAreFair, TurnsAreFair DEF CfsMove

-----------------------------------------------------------------------------
(* The room in the ready ring. *)

INSTANCE FiniteSetTheorems

(* The task table is finite and has MaxTasks slots. *)
LEMMA TaskFinite == IsFiniteSet(Task) /\ Cardinality(Task) = MaxTasks
BY FS_Interval, ConstantsAssumption DEF ConstantsAssumption, Task

(* g_ready_size is the number of READY tasks. *)
LEMMA RingSize ==
    ASSUME TypeOK, ReadyQueueExact
    PROVE  /\ IsFiniteSet(ReadyTasks)
           /\ ReadySize = Cardinality(ReadyTasks)
           /\ ReadySize \in Nat
<1>1. IsFiniteSet(ReadyTasks)
  BY Zenon, TaskFinite, FS_Subset DEF ReadyTasks
<1>2. {p \in Task \X (1..MaxTasks) : p[2] <= ready[p[1]]} = ReadyTasks \X {1}
  <2> DEFINE P == {p \in Task \X (1..MaxTasks) : p[2] <= ready[p[1]]}
  <2>1. \A t \in Task, k \in 1..MaxTasks :
          k <= ready[t] <=> t \in ReadyTasks /\ k = 1
    BY ConstantsAssumption DEF ConstantsAssumption, ReadyQueueExact, ReadyTasks
  <2>2. 1 \in 1..MaxTasks
    BY ConstantsAssumption DEF ConstantsAssumption
  <2>3. ASSUME NEW p \in P PROVE p \in ReadyTasks \X {1}
    BY ZenonT(40), <2>1
  <2>4. ASSUME NEW p \in ReadyTasks \X {1} PROVE p \in P
    BY Zenon, <2>1, <2>2 DEF ReadyTasks
  <2> QED
    BY Zenon, <2>3, <2>4
<1>3. Cardinality(ReadyTasks \X {1}) = Cardinality(ReadyTasks)
  <2>1. Cardinality(ReadyTasks \X {1}) = Cardinality(ReadyTasks) * Cardinality({1})
    BY Zenon, <1>1, FS_Product, FS_Singleton
  <2>2. Cardinality({1}) = 1 /\ Cardinality(ReadyTasks) \in Nat
    BY Zenon, <1>1, FS_Singleton, FS_CardinalityType
  <2> QED
    BY <2>1, <2>2
<1> QED
  BY Zenon, <1>1, <1>2, <1>3, FS_CardinalityType DEF ReadySize

(* sched_enqueue_task finds room whenever some task is not READY. *)
LEMMA RoomInRing ==
    ASSUME TypeOK, ReadyQueueExact
    PROVE  EnqueueHasRoom
<1> SUFFICES ASSUME NEW t \in Task, state[t] # "READY" PROVE ~ReadyFull
  BY Zenon DEF EnqueueHasRoom
<1>1. ReadyTasks \in SUBSET Task /\ ReadyTasks # Task
  BY Zenon DEF ReadyTasks
<1>2. Cardinality(ReadyTasks) <= MaxTasks /\ Cardinality(ReadyTasks) # MaxTasks
  BY Zenon, <1>1, TaskFinite, FS_Subset
<1> QED
  BY <1>2, RingSize, ConstantsAssumption DEF ReadyFull, ConstantsAssumption

(* Every queued task is BLOCKED, so a wake skips no entry. *)
LEMMA NoStaleEntry ==
    ASSUME SchedInv, NEW q \in WaitQ
    PROVE  /\ waitq[q] \in Seq(Task) /\ Len(waitq[q]) \in Nat
           /\ \A i \in 1..Len(waitq[q]) : waitq[q][i] \in Task
           /\ BlockedAt(waitq[q]) = 1..Len(waitq[q])
<1>1. waitq[q] \in Seq(Task) /\ Len(waitq[q]) \in Nat
  BY DEF SchedInv, TypeOK
<1>2. ASSUME NEW i \in 1..Len(waitq[q])
      PROVE  waitq[q][i] \in Task /\ state[waitq[q][i]] = "BLOCKED"
  <2>1. waitq[q][i] \in Task
    BY <1>1
  <2> QED
    BY Zenon, <2>1 DEF SchedInv, HeldInv, Queued
<1> QED
  BY Zenon, <1>1, <1>2 DEF BlockedAt

(* The ring has room for all the waiters of a queue at once. *)
LEMMA RoomForAll ==
    ASSUME SchedInv, NEW q \in WaitQ, NEW k \in Nat
    PROVE  ReadySize + Cardinality({i \in BlockedAt(waitq[q]) : i <= k}) <= MaxTasks
<1> DEFINE w == waitq[q]
           S == {i \in BlockedAt(w) : i <= k}
           f == [i \in S |-> w[i]]
           Rest == Task \ ReadyTasks
<1>1. S \subseteq 1..Len(w) /\ \A i \in S : state[w[i]] = "BLOCKED" /\ w[i] \in Task
  BY Zenon, NoStaleEntry DEF BlockedAt
<1>2. f \in Injection(S, Rest)
  <2>1. \A i, j \in S : w[i] = w[j] => i = j
    BY <1>1 DEF SchedInv, HeldInv
  <2>2. f \in [S -> Rest]
    BY Zenon, <1>1 DEF ReadyTasks
  <2> QED
    BY Zenon, <2>1, <2>2 DEF Injection, IsInjective
<1>3. IsFiniteSet(ReadyTasks) /\ ReadySize = Cardinality(ReadyTasks) /\ ReadySize \in Nat
  BY Zenon, RingSize DEF SchedInv
<1>4. IsFiniteSet(Rest) /\ Cardinality(Rest) = MaxTasks - Cardinality(ReadyTasks)
  <2>1. Task \cap ReadyTasks = ReadyTasks
    BY Zenon DEF ReadyTasks
  <2> QED
    BY <2>1, TaskFinite, FS_Difference
<1>5. IsFiniteSet(S) /\ Cardinality(S) <= Cardinality(Rest)
  BY <1>2, <1>4, FS_Injection
<1>6. Cardinality(S) \in Nat /\ Cardinality(Rest) \in Nat
  BY Zenon, <1>4, <1>5, FS_CardinalityType
<1> QED
  BY <1>3, <1>4, <1>5, <1>6, ConstantsAssumption DEF ConstantsAssumption

-----------------------------------------------------------------------------
(* Every step is a move. *)

(* With SchedInv the rollback and stale-entry branches of sched.c are not  *)
(* taken, and a step is one of the moves.                                  *)
LEMMA StepIsMove ==
    ASSUME SchedInv, [Next]_vars
    PROVE  Move
<1> USE DEF Move, core, Goes, Enqueued
<1>0. \A t \in Task : state[t] # "READY" => ~ReadyFull
  BY Zenon, RoomInRing DEF SchedInv, EnqueueHasRoom
<1>00. \A t \in Task : current = t => state[t] = "RUNNING"
  BY Zenon DEF SchedInv, RunningIsCurrent
<1>1. ASSUME NEW c \in Task \cup {NONE}, CreateReserve(c) PROVE Move
  BY Zenon, <1>1 DEF CreateReserve, MayCreate, FreeSlot, Reserved
<1>2. ASSUME NEW c \in Task \cup {NONE}, CreateFinish(c) PROVE Move
  <2>1. creating[c] \in Task
    BY Zenon, <1>2 DEF CreateFinish, SchedInv, TypeOK
  <2>2. state[creating[c]] = "BLOCKED"
    BY Zenon, <2>1 DEF SchedInv, HeldInv, Born
  <2>3. ~ReadyFull
    BY Zenon, <2>1, <2>2, <1>0
  <2>4. Published(c, creating[c])
    BY Zenon, <1>2, <2>3 DEF CreateFinish, Published
  <2> QED
    BY Zenon, <2>1, <2>4
<1>3. ASSUME NEW c \in Task \cup {NONE}, CreateAbort(c) PROVE Move
  <2>1. creating[c] \in Task
    BY Zenon, <1>3 DEF CreateAbort, SchedInv, TypeOK
  <2>2. Discarded(c, creating[c])
    BY Zenon, <1>3 DEF CreateAbort, Discarded, Reset
  <2> QED
    BY Zenon, <2>1, <2>2
<1>4. ASSUME NEW t \in Task, Requeue(t), current = t, UNCHANGED <<waitq, creating>>
      PROVE  Move
  <2>1. ~ReadyFull
    BY Zenon, <1>4, <1>0, <1>00
  <2>2. Released(t)
    BY Zenon, <2>1, <1>4 DEF Requeue, Released
  <2> QED
    BY Zenon, <2>2
<1>5. ASSUME NEW t \in Task, Yield(t) PROVE Move
  BY Zenon, <1>5, <1>4 DEF Yield, InOwnCode
<1>6. ASSUME NEW t \in Task, TickTask(t) PROVE Move
  BY Zenon, <1>6, <1>4 DEF TickTask
<1>7. ASSUME NEW t \in Task, Exit(t) PROVE Move
  BY Zenon, <1>7 DEF Exit, InOwnCode, Ended
<1>8. ASSUME NEW t \in Task, NEW q \in WaitQ, Wait(t, q) PROVE Move
  BY Zenon, <1>8 DEF Wait, InOwnCode, Slept
<1>9. ASSUME NEW q \in WaitQ, WakeOne(q) PROVE Move
  <2> DEFINE w == waitq[q]
  <2>1. /\ w \in Seq(Task) /\ Len(w) \in Nat /\ BlockedAt(w) = 1..Len(w)
        /\ \A i \in 1..Len(w) : w[i] \in Task
    BY Zenon, NoStaleEntry
  <2>2. CASE w = <<>>
    <3>1. BlockedAt(w) = {}
      BY <2>1, <2>2
    <3>2. waitq' = [waitq EXCEPT ![q] = <<>>] /\ UNCHANGED <<state, ready, current, creating>>
      BY Zenon, <3>1, <1>9 DEF WakeOne
    <3>3. waitq' = waitq
      BY Zenon, <3>2, <2>2 DEF SchedInv, TypeOK
    <3> QED
      BY Zenon, <3>2, <3>3
  <2>3. CASE w # <<>>
    <3>1. 1 \in BlockedAt(w) /\ w[1] = Head(w) /\ Tail(w) = SubSeq(w, 2, Len(w))
      <4>1. Len(w) \in Nat \ {0}
        BY <2>1, <2>3
      <4>2. w[1] = Head(w)
        BY <2>1, <2>3
      <4>3. Tail(w) = SubSeq(w, 2, Len(w))
        BY <2>1, <2>3
      <4> QED
        BY <2>1, <4>1, <4>2, <4>3
    <3>2. ~ReadyFull
      <4>1. w[1] \in Task /\ state[w[1]] = "BLOCKED"
        BY Zenon, <3>1, <2>1 DEF BlockedAt
      <4> QED
        BY Zenon, <4>1, <1>0
    <3>3. PICK i \in BlockedAt(w) :
            /\ \A j \in BlockedAt(w) : i <= j
            /\ waitq' = [waitq EXCEPT ![q] = SubSeq(w, i + 1, Len(w))]
            /\ Goes(w[i], "READY")
            /\ ready' = Enqueued(w[i])
      BY Zenon, <1>9, <3>1, <3>2 DEF WakeOne
    <3>4. i = 1
      <4>1. i \in 1..Len(w)
        BY Zenon, <2>1
      <4>2. i <= 1
        BY Zenon, <3>1, <3>3
      <4> QED
        BY <2>1, <4>1, <4>2
    <3>5. UNCHANGED <<current, creating>>
      BY Zenon, <1>9 DEF WakeOne
    <3>6. WokeHead(q)
      <4>1. Goes(Head(w), "READY") /\ ready' = Enqueued(Head(w))
        BY Zenon, <3>1, <3>3, <3>4
      <4>2. waitq' = [waitq EXCEPT ![q] = Tail(w)]
        <5>1. i + 1 = 2
          BY <3>4
        <5>2. SubSeq(w, i + 1, Len(w)) = Tail(w)
          BY <3>1, <5>1, Zenon
        <5> QED
          BY <3>3, <5>2, Zenon
      <4> QED
        BY ZenonT(40), <2>3, <3>5, <4>1, <4>2 DEF WokeHead
    <3> QED
      BY Zenon, <3>6
  <2> QED
    BY Zenon, <2>2, <2>3
<1>10. ASSUME NEW q \in WaitQ, WakeAll(q) PROVE Move
  <2> DEFINE w == waitq[q]
             Reached(k) == {i \in BlockedAt(w) : i <= k}
             Fits(k) == ReadySize + Cardinality(Reached(k)) <= MaxTasks
             woken(n) == {w[i] : i \in Reached(n)}
  <2>1. /\ w \in Seq(Task) /\ Len(w) \in Nat /\ BlockedAt(w) = 1..Len(w)
        /\ \A i \in 1..Len(w) : w[i] \in Task
    BY Zenon, NoStaleEntry
  <2>2. PICK n \in 0..Len(w) :
          /\ n = Len(w) \/ ~Fits(n + 1)
          /\ waitq' = [waitq EXCEPT ![q] =
                         IF n = Len(w) THEN <<>>
                         ELSE Append(SubSeq(w, n + 2, Len(w)), w[n + 1])]
          /\ state' = [t \in Task |-> IF t \in woken(n) THEN "READY" ELSE state[t]]
          /\ ready' = [t \in Task |->
                         IF t \in woken(n) THEN ready[t] + 1 ELSE ready[t]]
    BY Zenon, <1>10 DEF WakeAll
  <2>3. n = Len(w)
    <3>1. n + 1 \in Nat
      BY <2>1
    <3> QED
      BY ZenonT(40), <3>1, <2>2, RoomForAll
  <2>4. \A t \in Task : t \in woken(n) <=> In(t, q)
    BY SMTT(30), Z3T(30), <2>1, <2>3 DEF In
  <2>5. UNCHANGED <<current, creating>>
    BY Zenon, <1>10 DEF WakeAll
  <2> HIDE DEF woken
  <2>6. WokeAll(q)
    BY ZenonT(40), <2>2, <2>3, <2>4, <2>5 DEF WokeAll
  <2> QED
    BY Zenon, <2>6
<1>11. CASE Run
  BY Zenon, <1>11 DEF Run, IsBest, ReadyTasks, Started
<1>12. CASE EnterLoop \/ TickBootstrap \/ OtherIrq \/ RequestResched \/ UNCHANGED vars
  BY Zenon, <1>12 DEF EnterLoop, TickBootstrap, OtherIrq, RequestResched, vars
<1> QED
  BY ZenonT(40), SMT, <1>1, <1>2, <1>3, <1>5, <1>6, <1>7, <1>8, <1>9, <1>10, <1>11, <1>12
     DEF Next

(* Every step of a workload in which nothing blocks is one of them. *)
LEMMA StepIsCfsMove ==
    ASSUME SchedInv, Even, [Next]_vars, waitq' = waitq, \A c \in Task : creating'[c] = NONE
    PROVE  CfsMove
<1>0. \A t \in Task : state[t] # "READY" => ~ReadyFull
  BY Zenon, RoomInRing DEF SchedInv, EnqueueHasRoom
<1>00. \A t \in Task : current = t => state[t] = "RUNNING"
  BY DEF SchedInv, RunningIsCurrent
<1>t. TypeOK /\ NONE \notin Task
  BY Zenon, ConstantsAssumption DEF SchedInv, ConstantsAssumption
<1>1. ASSUME NEW c \in Task \cup {NONE}, CreateReserve(c) PROVE CfsMove
  <2>1. PICK i \in Task :
          /\ FreeSlot(i)
          /\ state' = [state EXCEPT ![i] = "BLOCKED"]
          /\ tid' = [tid EXCEPT ![i] = next_tid]
          /\ vruntime' = [vruntime EXCEPT ![i] = min_vruntime]
          /\ creating' = [creating EXCEPT ![c] = i]
    BY Zenon, <1>1 DEF CreateReserve
  <2>2. c = NONE
    BY ZenonT(40), <1>t, <2>1 DEF TypeOK
  <2>3. BirthBegun(i)
    BY ZenonT(40), <1>t, <1>1, <2>1, <2>2, ConstantsAssumption
       DEF ConstantsAssumption, CreateReserve, MayCreate, BirthBegun, Reserved, Goes, FreeSlot
  <2> QED
    BY Zenon, <2>3 DEF CfsMove
<1>2. ASSUME NEW c \in Task \cup {NONE}, CreateFinish(c) \/ CreateAbort(c) PROVE CfsMove
  <2>1. c = NONE /\ creating[c] \in Task
    BY ZenonT(40), <1>t, <1>2 DEF CreateFinish, CreateAbort, TypeOK, Even
  <2>2. CASE CreateFinish(c)
    <3>1. state[creating[c]] = "BLOCKED"
      BY Zenon, <2>1 DEF SchedInv, HeldInv, Born
    <3>2. ~ReadyFull
      BY ZenonT(40), <2>1, <3>1, <1>0
    <3>3. BirthDone(creating[NONE])
      BY ZenonT(40), <2>1, <2>2, <3>2 DEF CreateFinish, BirthDone, Published, Goes, Enqueued
    <3> QED
      BY ZenonT(40), <2>1, <3>3 DEF CfsMove
  <2>3. CASE CreateAbort(c)
    <3>1. BirthUndone(creating[NONE])
      BY ZenonT(40), <2>1, <2>3 DEF CreateAbort, BirthUndone, Discarded, Goes, Reset
    <3> QED
      BY Zenon, <2>1, <3>1 DEF CfsMove
  <2> QED
    BY ZenonT(40), <1>2, <2>2, <2>3
<1>3. ASSUME NEW t \in Task, Yield(t) \/ TickTask(t) PROVE CfsMove
  <2>1. current = t /\ Requeue(t) /\ UNCHANGED <<waitq, creating>>
    BY ZenonT(40), <1>3 DEF Yield, TickTask, InOwnCode
  <2>2. Released(t)
    BY ZenonT(40), <2>1, <1>0, <1>00 DEF Requeue, Released, Goes, Enqueued
  <2>3. Yielded(t) \/ Charged(t)
    BY Zenon, <1>3, <2>2 DEF Yield, TickTask, Yielded, Charged
  <2> QED
    BY ZenonT(40), <2>3 DEF CfsMove
<1>4. ASSUME NEW t \in Task, Exit(t) PROVE CfsMove
  <2>1. Left(t)
    BY Zenon, <1>4 DEF Exit, InOwnCode, Left, Ended, Goes
  <2> QED
    BY Zenon, <2>1 DEF CfsMove
<1>5. ASSUME NEW t \in Task, NEW q \in WaitQ, Wait(t, q) PROVE CfsMove
  <2>1. waitq'[q] = Append(<<>>, t) /\ waitq[q] = <<>>
    BY Zenon, <1>5, <1>t DEF Wait, Even, TypeOK
  <2>2. <<>> \in Seq(Task) /\ Len(<<>>) = 0
    OBVIOUS
  <2>3. Len(Append(<<>>, t)) = 1
    BY <2>2
  <2>4. Append(<<>>, t) = <<>>
    BY ZenonT(40), <2>1
  <2> QED
    BY SMTT(30), Z3T(30), <2>2, <2>3, <2>4
<1>6. ASSUME NEW q \in WaitQ, WakeOne(q) \/ WakeAll(q) PROVE CfsMove
  <2>1. waitq[q] = <<>> /\ BlockedAt(waitq[q]) = {}
    <3>1. waitq[q] = <<>> /\ Len(<<>>) = 0
      BY Zenon DEF Even
    <3>2. 1..Len(waitq[q]) = {}
      BY SMTT(30), Z3T(30), <3>1
    <3> QED
      BY ZenonT(40), <3>1, <3>2 DEF BlockedAt
  <2>2. UNCHANGED <<tid, vruntime, current, min_vruntime, next_tid, creating, booting>>
    BY Zenon, <1>6 DEF WakeOne, WakeAll
  <2>3. state' = state
    <3>1. CASE WakeOne(q)
      BY Zenon, <2>1, <3>1 DEF WakeOne
    <3>2. CASE WakeAll(q)
      <4>1. PICK n \in 0..Len(waitq[q]) :
              state' = [t \in Task |->
                          IF t \in {waitq[q][i] : i \in {j \in BlockedAt(waitq[q]) : j <= n}}
                          THEN "READY" ELSE state[t]]
        BY ZenonT(40), <3>2 DEF WakeAll
      <4>2. state' = [t \in Task |-> state[t]]
        BY Zenon, <2>1, <4>1
      <4> QED
        BY Zenon, <4>2, <1>t DEF TypeOK
    <3> QED
      BY ZenonT(40), <1>6, <3>1, <3>2
  <2> QED
    BY Zenon, <2>2, <2>3 DEF CfsMove, Still
<1>7. CASE Run
  <2>1. PICK t \in Task : IsBest(t) /\ Started(t)
    BY ZenonT(40), <1>7 DEF Run, IsBest, ReadyTasks, Started, Goes
  <2>2. Picked(t)
    BY Zenon, <1>7, <2>1 DEF Run, Picked
  <2> QED
    BY Zenon, <2>2 DEF CfsMove
<1>8. CASE EnterLoop
  BY Zenon, <1>8 DEF EnterLoop, LoopEntered, CfsMove
<1>9. CASE TickBootstrap \/ OtherIrq \/ RequestResched \/ UNCHANGED vars
  BY ZenonT(40), <1>9 DEF TickBootstrap, OtherIrq, RequestResched, vars, CfsMove, Still
<1> QED
  BY ZenonT(40), SMT, <1>1, <1>2, <1>3, <1>4, <1>5, <1>6, <1>7, <1>8, <1>9 DEF Next

-----------------------------------------------------------------------------
(* The theorems. *)

(* SchedInv is inductive. *)
THEOREM SchedInvariant == Spec => []SchedInv
<1>1. SchedInv /\ [Next]_vars => SchedInv'
  <2> SUFFICES ASSUME SchedInv, [Next]_vars PROVE SchedInv'
    BY Zenon
  <2>1. CoreInv
    BY Zenon DEF SchedInv, CoreInv, TypeOK, CoreType
  <2>2. CoreInv'
    BY ZenonT(40), <2>1, StepIsMove, MoveInv
  <2>3. TypeOK'
    BY Zenon, <2>2, NextType DEF SchedInv, CoreInv
  <2> QED
    BY ZenonT(40), <2>2, <2>3 DEF SchedInv, CoreInv
<1> QED
  BY <1>1, InitInv, PTL DEF Spec

(* Every variable of the scheduler keeps its type. *)
THEOREM TypeCorrect == Spec => []TypeOK
<1>1. SchedInv => TypeOK
  BY ZenonT(40) DEF SchedInv
<1> QED
  BY <1>1, SchedInvariant, PTL

(* The ready ring holds each READY task exactly once and nothing else. *)
THEOREM ReadyQueueIsExact == Spec => []ReadyQueueExact
<1>1. SchedInv => ReadyQueueExact
  BY ZenonT(40) DEF SchedInv
<1> QED
  BY <1>1, SchedInvariant, PTL

(* The RUNNING task is g_current_task, and there is at most one. *)
THEOREM OneRunning == Spec => []RunningIsCurrent
<1>1. SchedInv => RunningIsCurrent
  BY ZenonT(40) DEF SchedInv
<1> QED
  BY <1>1, SchedInvariant, PTL

(* No enqueue of create, yield, preemption or wake meets a full ring. *)
THEOREM RingNeverOverflows == Spec => []EnqueueHasRoom
<1>1. SchedInv => EnqueueHasRoom
  BY ZenonT(40), RoomInRing DEF SchedInv
<1> QED
  BY <1>1, SchedInvariant, PTL

(* Every BLOCKED task is in exactly one wait queue, at one position, or is *)
(* held by the creator that has not published it; nothing else is held.    *)
THEOREM NoLostSleeper == Spec => []BlockedHeldOnce
<1>1. SchedInv => BlockedHeldOnce
  <2> SUFFICES ASSUME SchedInv, NEW t \in Task
               PROVE  Cardinality(WaitPlaces(t)) + Cardinality(BirthPlaces(t)) =
                        IF state[t] = "BLOCKED" THEN 1 ELSE 0
    BY Zenon DEF BlockedHeldOnce
  <2>1. \A p : p \in WaitPlaces(t) <=>
          \E q \in WaitQ : \E i \in 1..Len(waitq[q]) :
             p = <<q, i>> /\ waitq[q][i] = t
    BY DEF WaitPlaces
  <2>2. t # NONE
    BY Zenon, ConstantsAssumption DEF ConstantsAssumption
  <2>3. Cardinality({}) = 0 /\ \A x : Cardinality({x}) = 1
    BY FS_EmptySet, FS_Singleton
  <2>4. CASE Born(t)
    <3>1. state[t] = "BLOCKED" /\ ~Queued(t)
      BY Zenon, <2>4 DEF SchedInv, HeldInv
    <3>2. WaitPlaces(t) = {}
      BY Zenon, <3>1, <2>1 DEF Queued
    <3>3. PICK c \in Task \cup {NONE} : creating[c] = t
      BY Zenon, <2>4 DEF Born
    <3>4. BirthPlaces(t) = {c}
      BY <3>3, <2>2 DEF BirthPlaces, SchedInv, HeldInv
    <3>5. Cardinality(WaitPlaces(t)) = 0 /\ Cardinality(BirthPlaces(t)) = 1
      BY <3>2, <3>4, <2>3, Zenon
    <3> QED
      BY SMTT(30), Z3T(30), <3>1, <3>5
  <2>5. CASE Queued(t)
    <3>1. state[t] = "BLOCKED" /\ ~Born(t)
      BY Zenon, <2>5 DEF SchedInv, HeldInv
    <3>2. BirthPlaces(t) = {}
      BY Zenon, <3>1 DEF BirthPlaces, Born
    <3>3. PICK q \in WaitQ : \E i \in 1..Len(waitq[q]) : waitq[q][i] = t
      BY ZenonT(40), <2>5 DEF Queued
    <3>4. PICK i \in 1..Len(waitq[q]) : waitq[q][i] = t
      BY <3>3
    <3>5. \A r \in WaitQ : \A j \in 1..Len(waitq[r]) :
            waitq[r][j] = t => r = q /\ j = i
      BY SMTT(30), Z3T(30), SMTT(40), <3>4 DEF SchedInv, HeldInv
    <3>6. WaitPlaces(t) = {<<q, i>>}
      BY ZenonT(40), <2>1, <3>4, <3>5
    <3>7. Cardinality(WaitPlaces(t)) = 1 /\ Cardinality(BirthPlaces(t)) = 0
      BY <3>2, <3>6, <2>3, ZenonT(40)
    <3> QED
      BY SMTT(30), Z3T(30), SMTT(40), Zenon, <3>1, <3>7
  <2>6. CASE ~Born(t) /\ ~Queued(t)
    <3>1. state[t] # "BLOCKED"
      BY Zenon, <2>6 DEF SchedInv, HeldInv
    <3>2. WaitPlaces(t) = {} /\ BirthPlaces(t) = {}
      BY ZenonT(40), <2>6, <2>1 DEF Born, Queued, BirthPlaces
    <3> QED
      BY SMTT(30), Z3T(30), Zenon, <3>1, <3>2, <2>3
  <2> QED
    BY ZenonT(40), <2>4, <2>5, <2>6
<1> QED
  BY <1>1, SchedInvariant, PTL

(* A tick charged to a task always takes the CPU from it. *)
THEOREM TickAlwaysPreempts == Spec => TickPreempts
<1>1. SchedInv /\ [Next]_vars => [ticks' # ticks => current' = NONE]_vars
  <2> SUFFICES ASSUME SchedInv, Next, ticks' # ticks PROVE current' = NONE
    BY ZenonT(40)
  <2>1. PICK t \in Task : TickTask(t)
    BY ZenonT(40) DEF Next, CreateReserve, CreateFinish, CreateAbort, Yield, Exit, Wait,
           WakeOne, WakeAll, EnterLoop, Run, TickBootstrap, OtherIrq, RequestResched
  <2>2. state[t] # "READY"
    BY Zenon, <2>1 DEF TickTask, SchedInv, RunningIsCurrent
  <2>3. ~ReadyFull
    BY Zenon, <2>2, RoomInRing DEF SchedInv, EnqueueHasRoom
  <2> QED
    BY Zenon, <2>1, <2>3 DEF TickTask, Requeue
<1> QED
  BY <1>1, SchedInvariant, PTL DEF Spec, TickPreempts

(* The scheduler implements what its callers rely on. *)
THEOREM SchedImplementsAbs == Spec => ImplementsAbs
<1>1. SchedInv /\ SchedInv' /\ [Next]_vars => [Abs!AbsNext]_(Abs!absVars)
  <2>1. (SchedInv => CoreInv) /\ (SchedInv' => CoreInv')
    BY Zenon DEF SchedInv, CoreInv, TypeOK, CoreType
  <2> QED
    BY ZenonT(40), <2>1, StepIsMove, MoveAbs
<1> QED
  BY <1>1, InitAbs, SchedInvariant, PTL DEF Spec, ImplementsAbs, Abs!AbsSpec

(* In a workload where nothing blocks, Even always holds. *)
THEOREM CfsInvariant == MCSpec => [](SchedInv /\ CfsInv)
<1>1. MCSpec => Spec
  <2>1. MCInit => Init
    BY Zenon DEF MCInit
  <2>2. [MCNext]_<<vars, workload>> => [Next]_vars
    BY Zenon DEF MCNext
  <2> QED
    BY <2>1, <2>2, PTL DEF MCSpec, Spec
<1>2. MCInit => CfsInv
  <2> SUFFICES ASSUME Init PROVE Even
    BY Zenon DEF MCInit, CfsInv
  <2>1. Runnable = {}
    BY Zenon DEF Init, Runnable
  <2>2. \A t \in Task : state[t] = "UNUSED" /\ tid[t] = 0 /\ vruntime[t] = 0
    BY Zenon DEF Init
  <2> QED
    BY <2>1, <2>2 DEF Init, Even, LagBounded
<1>3. SchedInv /\ SchedInv' /\ CfsInv /\ [MCNext]_<<vars, workload>> => CfsInv'
  <2> SUFFICES ASSUME SchedInv, SchedInv', CfsInv, [MCNext]_<<vars, workload>>, workload' = "cfs"
               PROVE  Even'
    BY Zenon DEF CfsInv
  <2>1. workload = "cfs" /\ Even /\ [Next]_vars
    BY Zenon DEF MCNext, CfsInv
  <2>2. waitq' = waitq /\ \A c \in Task : creating'[c] = NONE
    BY ZenonT(40), <2>1 DEF MCNext, NothingBlocks, vars, Even
  <2> QED
    BY ZenonT(40), <2>1, <2>2, StepIsCfsMove, EvenKept
<1> QED
  BY <1>1, <1>2, <1>3, SchedInvariant, PTL DEF MCSpec

(* Tasks that never block share the CPU evenly: after any number of ticks, *)
(* yields and exits the vruntimes of two runnable tasks differ by at most  *)
(* one tick (sched_tick, sched_pick_next_ready).                           *)
THEOREM SharesAreFair == MCSpec => []FairShare
<1>1. CfsInv => FairShare
  BY Zenon DEF CfsInv, Even, FairShare
<1> QED
  BY <1>1, CfsInvariant, PTL

(* With tasks that never block, the vruntimes, tids and g_cfs_min_vruntime *)
(* implement the relative CFS policy of SchedFair: sched_tick and          *)
(* sched_task_exit are its charge and its end, sched_run its choice.       *)
THEOREM FairIsImplemented == MCSpec => ImplementsFair
<1>1. MCInit => Fair!FairInit
  <2> SUFFICES ASSUME Init PROVE Fair!FairInit
    BY ZenonT(40) DEF MCInit
  <2>1. Runnable = {} /\ LiveMap = [t \in Task |-> "ABSENT"]
    BY Zenon DEF Init, Runnable, LiveMap
  <2>2. LagMap = [t \in Task |-> 0]
    BY ZenonT(40), <2>1 DEF LagMap
  <2> QED
    BY ZenonT(40), <2>1, <2>2 DEF Fair!FairInit, Init
<1>2. /\ SchedInv /\ SchedInv' /\ CfsInv /\ CfsInv' /\ [MCNext]_<<vars, workload>>
      => [workload = "cfs" => Fair!FairNext]_(Fair!fairVars)
  <2> SUFFICES ASSUME SchedInv, SchedInv', CfsInv, CfsInv', [MCNext]_<<vars, workload>>,
                      workload = "cfs"
               PROVE  [Fair!FairNext]_(Fair!fairVars)
    BY Zenon
  <2>1. workload' = "cfs" /\ Even /\ Even' /\ [Next]_vars
    BY Zenon DEF MCNext, CfsInv
  <2>2. waitq' = waitq /\ \A c \in Task : creating'[c] = NONE
    BY Zenon, <2>1 DEF MCNext, NothingBlocks, vars, Even
  <2> QED
    BY ZenonT(40), <2>1, <2>2, StepIsCfsMove, CfsMoveIsFair
<1> QED
  BY <1>1, <1>2, CfsInvariant, PTL DEF MCSpec, ImplementsFair

=============================================================================
