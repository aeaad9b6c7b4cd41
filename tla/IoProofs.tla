----------------------------- MODULE IoProofs -------------------------------
(***************************************************************************)
(* Proofs about the rings through which interrupt handlers, tasks and      *)
(* drivers pass data to each other: the work queue, the keyboard, and the  *)
(* channels of ipc.c with the capability table.  They hold for rings of    *)
(* any capacity, and any tasks, keys and messages.                         *)
(***************************************************************************)
EXTENDS Ipc, Keyboard, WorkQueue, TLAPS

-----------------------------------------------------------------------------
(* What the operations on a ring do to the sequence it stands for. *)

(* An index past the end of the array wraps once. *)
LEMMA Wrap ==
    ASSUME NEW cap \in Nat \ {0}, NEW h \in 0..(cap - 1), NEW i \in 0..cap
    PROVE  /\ (h + i) % cap = IF h + i < cap THEN h + i ELSE h + i - cap
           /\ (h + i) % cap \in 0..(cap - 1)
<1>1. (h + i) % cap = IF h + i < cap THEN h + i ELSE h + i - cap
  BY Z3
<1> QED
  BY <1>1

(* A function on 1..n is a sequence of length n. *)
LEMMA FunctionIsSeq ==
    ASSUME NEW S, NEW n \in Nat, NEW f \in [1..n -> S]
    PROVE  f \in Seq(S) /\ Len(f) = n
  OBVIOUS

(* And a sequence of length n is a function on 1..n. *)
LEMMA SeqIsFunction ==
    ASSUME NEW S, NEW s \in Seq(S), NEW n \in Nat, Len(s) = n
    PROVE  s \in [1..n -> S]
  OBVIOUS

(* An empty ring is the empty sequence. *)
LEMMA EmptyRing ==
    ASSUME NEW cells, NEW h, NEW cap
    PROVE  Contents(cells, h, 0, cap) = <<>>
<1>1. 1..0 = {}
  OBVIOUS
<1> QED
  BY <1>1 DEF Contents

(* The ring that holds n elements from h, before and after x is stored at  *)
(* its tail t.                                                             *)
Put(new, cells, x, h, n, t, cap) ==
    /\ Contents(new, h, n + 1, cap) = Append(Contents(cells, h, n, cap), x)
    /\ TailAgrees(h, n + 1, (t + 1) % cap, cap)
    /\ (t + 1) % cap \in 0..(cap - 1)
    /\ \A i \in 1..(n + 1) :
         new[(h + i - 1) % cap] = IF i = n + 1 THEN x ELSE cells[(h + i - 1) % cap]

(* Storing at the tail appends. *)
LEMMA RingPut ==
    ASSUME NEW cap, NEW cells, NEW x, NEW h, NEW n, NEW t, NEW new,
           HasRoom(cap, h, n), TailAgrees(h, n, t, cap), Stored(new, cells, t, x, cap)
    PROVE  Put(new, cells, x, h, n, t, cap)
<1> DEFINE old == Contents(cells, h, n, cap)
           S == {cells[j] : j \in 0..(cap - 1)} \cup {x}
<1> USE DEF HasRoom, TailAgrees, Stored
<1>0. n \in 0..cap /\ n + 1 \in 0..cap /\ 1 \in 0..cap
  OBVIOUS
<1>1. t = (IF h + n < cap THEN h + n ELSE h + n - cap) /\ t \in 0..(cap - 1)
  BY Zenon, <1>0, Wrap
<1>2. \A i \in 1..(n + 1) :
         /\ (h + i - 1) % cap = (IF h + i - 1 < cap THEN h + i - 1 ELSE h + i - 1 - cap)
         /\ (h + i - 1) % cap \in 0..(cap - 1)
  <2> TAKE i \in 1..(n + 1)
  <2>1. i - 1 \in 0..cap /\ h + (i - 1) = h + i - 1
    OBVIOUS
  <2> QED
    BY Zenon, <2>1, Wrap
<1>3. \A i \in 1..n : new[(h + i - 1) % cap] = cells[(h + i - 1) % cap]
  <2> TAKE i \in 1..n
  <2>1. (h + i - 1) % cap # t /\ (h + i - 1) % cap \in 0..(cap - 1)
    BY <1>1, <1>2
  <2> QED
    BY Zenon, <2>1
<1>4. (h + (n + 1) - 1) % cap = t /\ new[t] = x
  <2>1. h + (n + 1) - 1 = h + n
    OBVIOUS
  <2> QED
    BY Zenon, <2>1, <1>1
<1>5. old \in Seq(S) /\ Len(old) = n /\ \A i \in 1..n : old[i] = cells[(h + i - 1) % cap]
  <2>1. \A i \in 1..n : cells[(h + i - 1) % cap] \in S
    BY <1>2
  <2>2. old \in [1..n -> S] /\ \A i \in 1..n : old[i] = cells[(h + i - 1) % cap]
    BY Zenon, <2>1 DEF Contents
  <2> HIDE DEF old
  <2>3. n \in Nat
    OBVIOUS
  <2> QED
    BY Zenon, <2>2, <2>3, FunctionIsSeq
<1> HIDE DEF old, S
<1>12. x \in S
  BY Zenon DEF S
<1>6. Append(old, x) \in [1..(n + 1) -> S]
  <2>1. Append(old, x) \in Seq(S) /\ Len(Append(old, x)) = n + 1
    BY <1>5, <1>12
  <2> DEFINE app == Append(old, x)
  <2> HIDE DEF app
  <2>2. n + 1 \in Nat
    OBVIOUS
  <2>3. app \in Seq(S) /\ Len(app) = n + 1
    BY Zenon, <2>1 DEF app
  <2>4. app \in [1..(n + 1) -> S]
    BY Zenon, <2>2, <2>3, SeqIsFunction
  <2> QED
    BY Zenon, <2>4 DEF app
<1>7. \A i \in 1..(n + 1) : Append(old, x)[i] = new[(h + i - 1) % cap]
  <2> TAKE i \in 1..(n + 1)
  <2>1. CASE i = n + 1
    <3>1. old \in Seq(S) /\ Len(old) = n
      BY Zenon, <1>5
    <3>2. Append(old, x)[Len(old) + 1] = x
      BY <3>1
    <3> QED
      BY Zenon, <2>1, <3>2, <1>4, <1>5
  <2>2. CASE i \in 1..n
    <3>1. Append(old, x)[i] = old[i]
      BY <2>2, <1>5, <1>12
    <3> QED
      BY Zenon, <2>2, <3>1, <1>3, <1>5
  <2>3. i = n + 1 \/ i \in 1..n
    OBVIOUS
  <2> QED
    BY Zenon, <2>1, <2>2, <2>3
<1>8. Contents(new, h, n + 1, cap) = Append(old, x)
  <2>1. Append(old, x) = [i \in 1..(n + 1) |-> new[(h + i - 1) % cap]]
    BY Zenon, <1>6, <1>7
  <2> QED
    BY Zenon, <2>1 DEF Contents
<1>9. (t + 1) % cap = (h + (n + 1)) % cap
  <2>1. (t + 1) % cap = (IF t + 1 < cap THEN t + 1 ELSE t + 1 - cap)
    BY Zenon, <1>0, <1>1, Wrap
  <2>2. (h + (n + 1)) % cap = (IF h + (n + 1) < cap THEN h + (n + 1) ELSE h + (n + 1) - cap)
    BY Zenon, <1>0, Wrap
  <2> QED
    BY <1>1, <2>1, <2>2
<1>10. (t + 1) % cap \in 0..(cap - 1)
  BY Zenon, <1>0, <1>1, Wrap
<1>11. \A i \in 1..(n + 1) :
         new[(h + i - 1) % cap] = IF i = n + 1 THEN x ELSE cells[(h + i - 1) % cap]
  <2> TAKE i \in 1..(n + 1)
  <2>1. i = n + 1 \/ i \in 1..n
    OBVIOUS
  <2>2. CASE i = n + 1
    BY Zenon, <2>2, <1>4
  <2>3. CASE i \in 1..n /\ i # n + 1
    BY Zenon, <2>3, <1>3
  <2> QED
    BY Zenon, <2>1, <2>2, <2>3
<1> QED
  BY Zenon, <1>8, <1>9, <1>10, <1>11 DEF old, Put

(* Moving the head on removes the oldest entry. *)
LEMMA RingTake ==
    ASSUME NEW S, NEW cap \in Nat \ {0}, NEW cells,
           NEW h \in 0..(cap - 1), NEW n \in 1..cap,
           \A i \in 1..n : cells[(h + i - 1) % cap] \in S
    PROVE  /\ Contents(cells, h, n, cap) # <<>>
           /\ Head(Contents(cells, h, n, cap)) = cells[h]
           /\ Tail(Contents(cells, h, n, cap)) = Contents(cells, (h + 1) % cap, n - 1, cap)
           /\ (((h + 1) % cap) + (n - 1)) % cap = (h + n) % cap
           /\ (h + 1) % cap \in 0..(cap - 1)
           /\ cells[h] \in S
           /\ \A i \in 1..(n - 1) : cells[(((h + 1) % cap) + i - 1) % cap] \in S
<1> DEFINE old == Contents(cells, h, n, cap)
           g == (h + 1) % cap
<1>0. n \in 0..cap /\ n - 1 \in 0..cap /\ 1 \in 0..cap
  OBVIOUS
<1>1. old \in Seq(S) /\ Len(old) = n /\ \A i \in 1..n : old[i] = cells[(h + i - 1) % cap]
  <2>1. old \in [1..n -> S] /\ \A i \in 1..n : old[i] = cells[(h + i - 1) % cap]
    BY Zenon DEF Contents
  <2> HIDE DEF old
  <2>2. n \in Nat
    OBVIOUS
  <2> QED
    BY Zenon, <2>1, <2>2, FunctionIsSeq
<1> HIDE DEF old
<1>2. g = (IF h + 1 < cap THEN h + 1 ELSE h + 1 - cap) /\ g \in 0..(cap - 1)
  BY Zenon, <1>0, Wrap
<1>3. old # <<>>
  BY <1>1
<1>4. Head(old) = cells[h]
  <2>1. (h + 1 - 1) % cap = h
    <3>1. h + 1 - 1 = h + 0 /\ 0 \in 0..cap
      OBVIOUS
    <3> QED
      BY <3>1, Wrap
  <2>2. old[1] = cells[(h + 1 - 1) % cap]
    BY <1>1
  <2>3. Head(old) = old[1]
    BY <1>1, <1>3
  <2> QED
    BY Zenon, <2>1, <2>2, <2>3
<1>5. \A i \in 1..(n - 1) : (h + (i + 1) - 1) % cap = (g + i - 1) % cap
  <2> TAKE i \in 1..(n - 1)
  <2>1. i \in 0..cap /\ h + (i + 1) - 1 = h + i /\ i - 1 \in 0..cap /\ g + i - 1 = g + (i - 1)
    BY <1>2
  <2>2. (h + i) % cap = (IF h + i < cap THEN h + i ELSE h + i - cap)
    BY Zenon, <2>1, Wrap
  <2>3. (g + (i - 1)) % cap = (IF g + (i - 1) < cap THEN g + (i - 1) ELSE g + (i - 1) - cap)
    BY Zenon, <2>1, <1>2, Wrap
  <2>4. (h + i) % cap = (g + (i - 1)) % cap
    BY <1>2, <2>2, <2>3
  <2> QED
    BY Zenon, <2>1, <2>4
<1>6. Tail(old) \in Seq(S) /\ Len(Tail(old)) = n - 1 /\ \A i \in 1..(n - 1) : Tail(old)[i] = old[i + 1]
  BY <1>1, <1>3
<1>7. Tail(old) \in [1..(n - 1) -> S]
  <2> DEFINE rest == Tail(old)
  <2> HIDE DEF rest
  <2>1. rest \in Seq(S) /\ Len(rest) = n - 1 /\ n - 1 \in Nat
    BY <1>6 DEF rest
  <2>2. rest \in [1..(n - 1) -> S]
    BY Zenon, <2>1, SeqIsFunction
  <2> QED
    BY Zenon, <2>2 DEF rest
<1>8. \A i \in 1..(n - 1) : Tail(old)[i] = cells[(g + i - 1) % cap]
  <2> TAKE i \in 1..(n - 1)
  <2>1. i + 1 \in 1..n
    OBVIOUS
  <2> QED
    BY <2>1, <1>1, <1>5, <1>6
<1>9. Tail(old) = Contents(cells, g, n - 1, cap)
  <2>1. Tail(old) = [i \in 1..(n - 1) |-> cells[(g + i - 1) % cap]]
    BY Zenon, <1>7, <1>8
  <2> QED
    BY Zenon, <2>1 DEF Contents
<1>10. (g + (n - 1)) % cap = (h + n) % cap
  <2>1. (g + (n - 1)) % cap = (IF g + (n - 1) < cap THEN g + (n - 1) ELSE g + (n - 1) - cap)
    BY Zenon, <1>0, <1>2, Wrap
  <2>2. (h + n) % cap = (IF h + n < cap THEN h + n ELSE h + n - cap)
    BY Zenon, <1>0, Wrap
  <2> QED
    BY <1>2, <2>1, <2>2
<1>11. cells[h] \in S
  BY <1>1, <1>3, <1>4
<1>12. \A i \in 1..(n - 1) : cells[(g + i - 1) % cap] \in S
  BY Zenon, <1>7, <1>8
<1> QED
  BY Zenon, <1>2, <1>3, <1>4, <1>9, <1>10, <1>11, <1>12 DEF old

-----------------------------------------------------------------------------
(* Channels and capabilities (ipc.c, capability.c). *)

(* Filling the first free slot, with a new capability or with a copy. *)
LEMMA FillKeeps ==
    ASSUME CapabilityInv, NEW i \in CapabilityId, FirstFree(i),
           NEW slot \in Slot, NEW from \in 0..MaxEntries, Fill(i, slot, from),
           from # 0 => /\ slots[from] # NONE
                       /\ slot.object = slots[from].object
                       /\ slot.rights \subseteq slots[from].rights
                       /\ TRANSFER \in slots[from].rights
    PROVE  /\ CapabilityInv'
           /\ \A j \in CapabilityId : slots[j] # NONE => slots'[j] = slots[j]
<1> USE CapabilityAssumption DEF CapabilityAssumption
<1>1. /\ slots' = [slots EXCEPT ![i] = slot] /\ origin' = [origin EXCEPT ![i] = from]
      /\ slots \in [CapabilityId -> Slot \cup {NONE}] /\ origin \in [CapabilityId -> 0..MaxEntries]
  BY Zenon DEF Fill, CapabilityInv, CapabilityTypeOK
<1>2. slots[i] = NONE /\ slot # NONE
  BY Zenon DEF FirstFree
<1>3. \A j \in CapabilityId : j # i => slots'[j] = slots[j] /\ origin'[j] = origin[j]
  BY ZenonT(40), <1>1
<1>4. slots'[i] = slot /\ origin'[i] = from
  BY Zenon, <1>1
<1>5. CapabilityTypeOK'
  BY Zenon, <1>1 DEF CapabilityTypeOK
<1>6. \A k, j \in CapabilityId : j < k /\ slots'[k] # NONE => slots'[j] # NONE
  BY ZenonT(40), <1>2, <1>3, <1>4 DEF FirstFree, CapabilityInv, CapabilityId
<1>7. NoAmplification'
  <2> SUFFICES ASSUME NEW j \in CapabilityId, origin'[j] # 0
               PROVE  /\ origin'[j] < j
                      /\ slots'[j] # NONE /\ slots'[origin'[j]] # NONE
                      /\ slots'[j].object = slots'[origin'[j]].object
                      /\ slots'[j].rights \subseteq slots'[origin'[j]].rights
                      /\ TRANSFER \in slots'[origin'[j]].rights
    BY ZenonT(40) DEF NoAmplification
  <2>1. CASE j = i
    <3>1. from \in CapabilityId /\ from # 0 /\ origin'[j] = from
      BY SMTT(30), Z3T(30), Zenon, <1>4, <2>1 DEF CapabilityId
    <3>2. from < i
      BY SMTT(30), Z3T(30), <1>2, <3>1 DEF CapabilityInv, CapabilityId
    <3>3. from # i
      BY SMTT(30), Z3T(30), <3>2, <3>1 DEF CapabilityId
    <3>4. slots'[from] = slots[from] /\ slots'[j] = slot
      BY Zenon, <1>3, <1>4, <2>1, <3>1, <3>3
    <3> QED
      BY Zenon, <1>2, <2>1, <3>1, <3>2, <3>4
  <2>2. CASE j # i
    <3>1. slots'[j] = slots[j] /\ origin'[j] = origin[j] /\ origin[j] # 0
      BY ZenonT(40), <1>3, <2>2
    <3>2. /\ origin[j] < j
          /\ slots[j] # NONE /\ slots[origin[j]] # NONE
          /\ slots[j].object = slots[origin[j]].object
          /\ slots[j].rights \subseteq slots[origin[j]].rights
          /\ TRANSFER \in slots[origin[j]].rights
      BY ZenonT(40), <3>1 DEF CapabilityInv, NoAmplification
    <3>3. origin[j] \in CapabilityId
      BY <1>1, <3>1 DEF CapabilityId
    <3>4. slots'[origin[j]] = slots[origin[j]]
      BY ZenonT(40), <1>2, <1>3, <3>2, <3>3
    <3> QED
      BY Zenon, <3>1, <3>2, <3>4
  <2> QED
    BY Zenon, <2>1, <2>2
<1> QED
  BY ZenonT(40), <1>2, <1>3, <1>5, <1>6, <1>7 DEF CapabilityInv

(* capability_create *)
LEMMA CreateKeeps ==
    ASSUME CapabilityInv, NEW owner \in Tid, NEW object \in Object, NEW rights \in Rights,
           CapabilityCreate(owner, object, rights)
    PROVE  /\ CapabilityInv'
           /\ \A j \in CapabilityId : slots[j] # NONE => slots'[j] = slots[j]
<1>1. PICK i \in CapabilityId :
         /\ FirstFree(i)
         /\ Fill(i, [owner |-> owner, object |-> object, rights |-> rights], 0)
  BY Zenon DEF CapabilityCreate
<1>2. [owner |-> owner, object |-> object, rights |-> rights] \in Slot
  BY Zenon DEF Slot
<1>3. 0 \in 0..MaxEntries
  BY SMTT(30), Z3T(30), CapabilityAssumption DEF CapabilityAssumption
<1> QED
  BY Zenon, <1>1, <1>2, <1>3, FillKeeps

(* capability_copy_for_owner *)
LEMMA CopyKeeps ==
    ASSUME CapabilityInv, NEW id, NEW owner, NEW mask, NEW target \in Tid,
           CopyForOwner(id, owner, mask, target)
    PROVE  /\ CapabilityInv'
           /\ \A j \in CapabilityId : slots[j] # NONE => slots'[j] = slots[j]
<1>1. CASE CanTransfer(id, owner, mask) /\ \E i \in CapabilityId : FirstFree(i)
  <2>1. PICK i \in CapabilityId :
           /\ FirstFree(i)
           /\ Fill(i, [owner |-> target, object |-> slots[id].object, rights |-> mask], id)
    BY Zenon, <1>1 DEF CopyForOwner
  <2>2. /\ id \in CapabilityId /\ mask # {} /\ slots[id] # NONE
        /\ TRANSFER \in slots[id].rights /\ mask \subseteq slots[id].rights
    BY Zenon, <1>1 DEF CanTransfer, RightsAllow
  <2>3. slots[id] \in Slot /\ id \in 0..MaxEntries
    BY SMTT(30), Z3T(30), Zenon, <2>2 DEF CapabilityInv, CapabilityTypeOK, CapabilityId
  <2>4. slots[id].object \in Object /\ slots[id].rights \in Rights
    BY Zenon, <2>3 DEF Slot
  <2>5. mask \in Rights
    BY Zenon, <2>2, <2>4 DEF Rights
  <2> DEFINE slot == [owner |-> target, object |-> slots[id].object, rights |-> mask]
  <2>6. slot \in Slot /\ slot.object = slots[id].object /\ slot.rights = mask
    BY Zenon, <2>4, <2>5 DEF Slot
  <2>7. Fill(i, slot, id)
    BY Zenon, <2>1
  <2> HIDE DEF slot
  <2> QED
    BY ZenonT(40), <2>1, <2>2, <2>3, <2>6, <2>7, FillKeeps
<1>2. CASE ~(CanTransfer(id, owner, mask) /\ \E i \in CapabilityId : FirstFree(i))
  <2>1. UNCHANGED capVars
    BY Zenon, <1>2 DEF CopyForOwner
  <2> QED
    BY Zenon, <2>1 DEF capVars, CapabilityInv, CapabilityTypeOK, NoAmplification
<1> QED
  BY Zenon, <1>1, <1>2

(* Capabilities are never revoked: what could be transferred still can be. *)
LEMMA GoodKeeps ==
    ASSUME \A j \in CapabilityId : slots[j] # NONE => slots'[j] = slots[j],
           NEW m, Good(m)
    PROVE  Good(m)'
  BY Zenon DEF Good, CanTransfer

-----------------------------------------------------------------------------
Held == [t \in Tid |-> IF pc[t] \in {"copy", "got"} THEN call[t].message ELSE NONE]
Queues == [c \in Channel |-> Pending(c)]

ChannelTypes ==
    /\ name \in [Channel -> Name \cup {NONE}]
    /\ queue \in [Channel -> [Index -> Message \cup {NONE}]]
    /\ head \in [Channel -> Index]
    /\ tail \in [Channel -> Index]
    /\ count \in [Channel -> 0..Capacity]

CallTypes ==
    /\ pc \in [Tid -> {"idle", "push", "copy", "got"}]
    /\ call \in [Tid -> Call \cup {NONE}]

(* The type invariant in its three parts. *)
LEMMA Types == TypeOK <=> CapabilityTypeOK /\ ChannelTypes /\ CallTypes
  BY Zenon DEF TypeOK, ChannelTypes, CallTypes

(* A step that leaves the channels alone keeps what is said of them. *)
LEMMA ChannelsKept ==
    ASSUME Inv, UNCHANGED chanVars
    PROVE  /\ ChannelTypes' /\ UniqueNames' /\ \A c \in Channel : RingOK(c)'
           /\ Queues' = Queues
<1>1. UNCHANGED <<name, queue, head, tail, count>>
  BY Zenon DEF chanVars
<1>2. ChannelTypes' /\ UniqueNames'
  BY Zenon, <1>1, Types DEF Inv, ChannelTypes, UniqueNames
<1>3. \A c \in Channel : RingOK(c)'
  BY Zenon, <1>1 DEF Inv, RingOK, TailAgrees
<1>4. Queues' = Queues
  BY Zenon, <1>1 DEF Queues, Pending, Contents
<1> QED
  BY ZenonT(40), <1>2, <1>3, <1>4

(* A step that only adds capabilities, and hands task t the message x. *)
LEMMA GoodStep ==
    ASSUME TransferStaysGood,
           \A j \in CapabilityId : slots[j] # NONE => slots'[j] = slots[j],
           NEW t \in Tid, NEW x,
           call \in [Tid -> Call \cup {NONE}], call' = [call EXCEPT ![t] = x],
           x # NONE => Good(x.message),
           queue' = queue
    PROVE  TransferStaysGood'
<1>1. ASSUME NEW c \in Channel, NEW i \in Index
      PROVE  Good(queue[c][i])'
  <2>1. PICK m : m = queue[c][i]
    BY Zenon
  <2>2. Good(m) /\ queue'[c][i] = m
    BY Zenon, <2>1 DEF TransferStaysGood
  <2>3. Good(m)'
    BY Zenon, <2>2, GoodKeeps
  <2> QED
    BY ZenonT(40), <2>2, <2>3 DEF Good
<1>2. ASSUME NEW u \in Tid, call'[u] # NONE
      PROVE  Good(call[u].message)'
  <2>1. CASE u = t
    <3>1. call'[u] = x
      BY Zenon, <2>1
    <3>2. PICK m : m = x.message
      BY Zenon
    <3>3. Good(m)'
      BY Zenon, <1>2, <3>1, <3>2, GoodKeeps
    <3> QED
      BY ZenonT(40), <3>1, <3>2, <3>3 DEF Good
  <2>2. CASE u # t
    <3>1. call'[u] = call[u]
      BY Zenon, <2>2
    <3>2. PICK m : m = call[u].message
      BY Zenon
    <3>3. Good(m)'
      BY ZenonT(40), <1>2, <3>1, <3>2, GoodKeeps DEF TransferStaysGood
    <3> QED
      BY ZenonT(40), <3>1, <3>2, <3>3 DEF Good
  <2> QED
    BY ZenonT(40), <2>1, <2>2
<1> QED
  BY Zenon, <1>1, <1>2 DEF TransferStaysGood

(* The call of a task is replaced by x, and its position by p. *)
LEMMA CallStep ==
    ASSUME CallTypes, CallOK, NEW t \in Tid, NEW x \in Call \cup {NONE},
           NEW p \in {"idle", "push", "copy", "got"}, p = "idle" <=> x = NONE,
           call' = [call EXCEPT ![t] = x], pc' = [pc EXCEPT ![t] = p]
    PROVE  CallTypes' /\ CallOK'
  BY Zenon DEF CallTypes, CallOK

(* ipc_init and capability_init establish the invariant. *)
LEMMA InitInv == Init => Inv
<1> SUFFICES ASSUME Init PROVE Inv
  BY Zenon
<1> USE CapabilityAssumption, IpcAssumption DEF CapabilityAssumption, IpcAssumption
<1>1. CapabilityInv
  BY DEF Init, CapabilityInit, CapabilityInv, CapabilityTypeOK, NoAmplification
<1>2. 0 \in Index /\ 0 \in 0..Capacity
  BY DEF Index
<1>3. TypeOK
  BY Zenon, <1>1, <1>2 DEF Init, TypeOK, CapabilityInv
<1>4. UniqueNames /\ CallOK /\ TransferStaysGood
  BY Zenon DEF Init, UniqueNames, CallOK, TransferStaysGood, Good
<1>5. \A c \in Channel : RingOK(c)
  <2> TAKE c \in Channel
  <2>1. head[c] = 0 /\ tail[c] = 0 /\ count[c] = 0
    BY Zenon DEF Init
  <2>2. (0 + 0) % Capacity = 0
    BY Wrap
  <2>3. \A i \in 1..0 : FALSE
    BY SMTT(30), Z3T(30)
  <2> QED
    BY ZenonT(40), <2>1, <2>2, <2>3 DEF RingOK, TailAgrees
<1> QED
  BY ZenonT(40), <1>1, <1>3, <1>4, <1>5 DEF Inv

(* Steps that touch no channel. *)
LEMMA CreateCapabilityKeeps ==
    ASSUME Inv, CreateCapability
    PROVE  Inv' /\ UNCHANGED <<Queues, Held>>
<1>1. PICK owner \in Tid, object \in Object, rights \in Rights :
         CapabilityCreate(owner, object, rights)
  BY Zenon DEF CreateCapability
<1>2. /\ CapabilityInv' /\ \A j \in CapabilityId : slots[j] # NONE => slots'[j] = slots[j]
  BY Zenon, <1>1, CreateKeeps DEF Inv
<1>3. UNCHANGED chanVars /\ pc' = pc /\ call' = call
  BY Zenon DEF CreateCapability
<1>4. TransferStaysGood'
  <2>1. PICK t : t \in Tid
    BY Zenon, CapabilityAssumption DEF CapabilityAssumption
  <2>2. PICK x : x = call[t]
    BY ZenonT(40)
  <2>3. call \in [Tid -> Call \cup {NONE}] /\ TransferStaysGood
    BY Zenon, Types DEF Inv, CallTypes
  <2>4. call' = [call EXCEPT ![t] = x]
    BY ZenonT(40), <1>3, <2>1, <2>2, <2>3
  <2>5. x # NONE => Good(x.message)
    BY Zenon, <2>1, <2>2, <2>3 DEF TransferStaysGood
  <2>6. queue' = queue
    BY Zenon, <1>3 DEF chanVars
  <2> QED
    BY Zenon, <1>2, <2>1, <2>3, <2>4, <2>5, <2>6, GoodStep
<1>5. CallTypes' /\ CallOK' /\ Held' = Held
  BY ZenonT(40), <1>3, Types DEF Inv, CallTypes, CallOK, Held
<1>6. TypeOK'
  BY ZenonT(40), <1>2, <1>3, <1>5, ChannelsKept DEF CapabilityInv, TypeOK, ChannelTypes, CallTypes
<1> QED
  BY ZenonT(40), <1>2, <1>3, <1>4, <1>5, <1>6, ChannelsKept DEF Inv

(* What a task does between locks: it keeps Inv whatever it has in hand. *)
LEMMA TaskStep ==
    ASSUME Inv, UNCHANGED chanVars, CapabilityInv',
           \A j \in CapabilityId : slots[j] # NONE => slots'[j] = slots[j],
           NEW t \in Tid, NEW x \in Call \cup {NONE},
           NEW p \in {"idle", "push", "copy", "got"}, p = "idle" <=> x = NONE,
           call' = [call EXCEPT ![t] = x], pc' = [pc EXCEPT ![t] = p],
           x # NONE => Good(x.message)
    PROVE  Inv' /\ Queues' = Queues
<1>1. CallTypes /\ CallOK /\ TransferStaysGood /\ call \in [Tid -> Call \cup {NONE}]
  BY Zenon, Types DEF Inv, CallTypes
<1>2. CallTypes' /\ CallOK'
  BY ZenonT(40), <1>1, CallStep
<1>3. queue' = queue
  BY ZenonT(40) DEF chanVars
<1>4. TransferStaysGood'
  BY ZenonT(40), <1>1, <1>3, GoodStep
<1>5. TypeOK'
  BY Zenon, <1>2, ChannelsKept DEF CapabilityInv, TypeOK, ChannelTypes, CallTypes
<1> QED
  BY ZenonT(40), <1>2, <1>4, <1>5, ChannelsKept DEF Inv

(* A checked capability is good. *)
LEMMA SendKeeps ==
    ASSUME Inv, NEW t \in Tid, Send(t)
    PROVE  Inv' /\ UNCHANGED <<Queues, Held>>
<1>1. PICK id \in ChannelId, m \in Message :
         /\ IF m.capability_id = 0
            THEN m.capability_rights = {}
            ELSE CanTransfer(m.capability_id, m.sender_tid, m.capability_rights)
         /\ call' = [call EXCEPT ![t] = [channel_id |-> id, message |-> m]]
  BY ZenonT(40) DEF Send
<1>2. /\ pc[t] = "idle" /\ pc' = [pc EXCEPT ![t] = "push"]
      /\ UNCHANGED chanVars /\ UNCHANGED capVars
  BY Zenon DEF Send
<1>3. PICK x : x = [channel_id |-> id, message |-> m]
  BY ZenonT(40)
<1>4. x \in Call /\ x # NONE /\ x.message = m
  BY SMTT(30), Z3T(30), <1>3, IpcAssumption DEF Call, IpcAssumption
<1>5. Good(m)
  BY Zenon, <1>1 DEF Good
<1>6. CapabilityInv' /\ \A j \in CapabilityId : slots[j] # NONE => slots'[j] = slots[j]
  BY ZenonT(40), <1>2 DEF Inv, capVars, CapabilityInv, CapabilityTypeOK, NoAmplification
<1>7. Inv' /\ Queues' = Queues
  BY Zenon, <1>1, <1>2, <1>3, <1>4, <1>5, <1>6, TaskStep
<1>8. Held' = Held
  BY Zenon, <1>1, <1>2, Types DEF Inv, CallTypes, Held
<1> QED
  BY Zenon, <1>7, <1>8

(* The end of a receive: the message is dropped. *)
LEMMA DoneKeeps ==
    ASSUME Inv, NEW t \in Tid, Copy(t) \/ Got(t)
    PROVE  /\ Inv' /\ Queues' = Queues
           /\ Held[t] # NONE /\ Held' = [Held EXCEPT ![t] = NONE]
<1>1. /\ pc[t] \in {"copy", "got"} /\ UNCHANGED chanVars
      /\ pc' = [pc EXCEPT ![t] = "idle"] /\ call' = [call EXCEPT ![t] = NONE]
  BY Zenon DEF Copy, Got, Done
<1>2. CapabilityInv' /\ \A j \in CapabilityId : slots[j] # NONE => slots'[j] = slots[j]
  <2>1. CASE Copy(t)
    <3>1. PICK m : m = call[t].message
      BY Zenon
    <3>2. CopyForOwner(m.capability_id, m.sender_tid, m.capability_rights, t)
      BY ZenonT(40), <2>1, <3>1 DEF Copy
    <3> QED
      BY Zenon, <3>2, CopyKeeps DEF Inv
  <2>2. CASE Got(t)
    BY Zenon, <2>2 DEF Got, Inv, capVars, CapabilityInv, CapabilityTypeOK, NoAmplification
  <2> QED
    BY ZenonT(40), <2>1, <2>2
<1>3. Inv' /\ Queues' = Queues
  BY Zenon, <1>1, <1>2, TaskStep
<1>4. /\ pc \in [Tid -> {"idle", "push", "copy", "got"}] /\ call \in [Tid -> Call \cup {NONE}]
      /\ call[t] # NONE
  BY ZenonT(40), <1>1, Types DEF Inv, CallTypes, CallOK
<1>5. Held[t] # NONE
  <2>1. call[t].message \in Message
    BY Zenon, <1>4 DEF Call
  <2> QED
    BY Zenon, <1>1, <2>1, IpcAssumption DEF Held, IpcAssumption
<1>6. Held' = [Held EXCEPT ![t] = NONE]
  BY Zenon, <1>1, <1>4 DEF Held
<1> QED
  BY Zenon, <1>3, <1>5, <1>6

(* A new channel is empty, as its entry was. *)
LEMMA ChannelCreateKeeps ==
    ASSUME Inv, NEW n \in Name, ChannelCreate(n)
    PROVE  Inv' /\ UNCHANGED <<Queues, Held>>
<1> USE IpcAssumption DEF IpcAssumption
<1>1. PICK c \in Channel :
         /\ name[c] = NONE
         /\ name' = [name EXCEPT ![c] = n]
         /\ head' = [head EXCEPT ![c] = 0]
         /\ tail' = [tail EXCEPT ![c] = 0]
         /\ count' = [count EXCEPT ![c] = 0]
  BY ZenonT(40) DEF ChannelCreate
<1>2. /\ \A d \in Channel : name[d] # n
      /\ UNCHANGED <<slots, origin, queue, pc, call>>
  BY Zenon DEF ChannelCreate, capVars
<1>3. ChannelTypes /\ count[c] = 0
  BY ZenonT(40), <1>1, Types DEF Inv, RingOK
<1>4. ChannelTypes'
  <2>1. 0 \in Index /\ 0 \in 0..Capacity
    BY SMTT(30), Z3T(30) DEF Index
  <2> QED
    BY Zenon, <1>1, <1>2, <1>3, <2>1 DEF ChannelTypes
<1>5. UniqueNames'
  BY Zenon, <1>1, <1>2, <1>3 DEF Inv, UniqueNames, ChannelTypes
<1>6. CapabilityInv' /\ CallTypes' /\ CallOK' /\ TransferStaysGood' /\ Held' = Held
  <2>1. CapabilityInv'
    BY ZenonT(40), <1>2 DEF Inv, CapabilityInv, CapabilityTypeOK, NoAmplification
  <2>2. CallTypes' /\ CallOK'
    BY ZenonT(40), <1>2, Types DEF Inv, CallTypes, CallOK
  <2>3. TransferStaysGood'
    BY ZenonT(40), <1>2 DEF Inv, TransferStaysGood, Good, CanTransfer
  <2>4. Held' = Held
    BY Zenon, <1>2 DEF Held
  <2> QED
    BY Zenon, <2>1, <2>2, <2>3, <2>4
<1>7. \A d \in Channel : RingOK(d)'
  <2> TAKE d \in Channel
  <2>1. CASE d = c
    <3>1. head'[d] = 0 /\ tail'[d] = 0 /\ count'[d] = 0
      BY Zenon, <1>1, <1>3, <2>1 DEF ChannelTypes
    <3>2. (0 + 0) % Capacity = 0
      BY Wrap
    <3>3. \A i \in 1..0 : FALSE
      BY SMTT(30), Z3T(30)
    <3> QED
      BY Zenon, <3>1, <3>2, <3>3 DEF RingOK, TailAgrees
  <2>2. CASE d # c
    <3>1. /\ name'[d] = name[d] /\ head'[d] = head[d] /\ tail'[d] = tail[d]
          /\ count'[d] = count[d] /\ queue' = queue
      BY Zenon, <1>1, <1>2, <1>3, <2>2 DEF ChannelTypes
    <3> QED
      BY Zenon, <3>1 DEF Inv, RingOK, TailAgrees
  <2> QED
    BY Zenon, <2>1, <2>2
<1>8. Queues' = Queues
  <2>1. ASSUME NEW d \in Channel PROVE Pending(d)' = Pending(d)
    <3>1. CASE d = c
      <4>1. count'[d] = 0 /\ count[d] = 0
        BY Zenon, <1>1, <1>3, <3>1 DEF ChannelTypes
      <4> QED
        BY Zenon, <4>1, EmptyRing DEF Pending
    <3>2. CASE d # c
      BY ZenonT(40), <1>1, <1>2, <1>3, <3>2 DEF ChannelTypes, Pending
    <3> QED
      BY Zenon, <3>1, <3>2
  <2> QED
    BY Zenon, <2>1 DEF Queues
<1>9. TypeOK'
  BY Zenon, <1>4, <1>6 DEF CapabilityInv, TypeOK, ChannelTypes, CallTypes
<1> QED
  BY ZenonT(40), <1>5, <1>6, <1>7, <1>8, <1>9 DEF Inv

(* A valid identifier names a channel in use. *)
LEMMA ValidIsChannel ==
    ASSUME NEW id \in ChannelId, ValidId(id)
    PROVE  Cast(id) \in Channel /\ name[Cast(id)] # NONE
<1> USE IpcAssumption DEF IpcAssumption
<1>1. id \in Int /\ id >= 0 /\ IdWrap \in Nat /\ IdWrap > 0 /\ MaxChannels \in Nat
  BY DEF ValidId
<1>2. id % IdWrap \in 0..(IdWrap - 1)
  BY SMTT(30), Z3T(30), <1>1
<1> QED
  BY SMTT(30), Z3T(30), <1>1, <1>2 DEF ValidId, Cast, Channel

(* Storing a message changes one ring, as Append does. *)
LEMMA PushKeeps ==
    ASSUME Inv, NEW t \in Tid, Push(t)
    PROVE  /\ Inv' /\ Held' = Held
           /\ \/ Queues' = Queues
              \/ \E c \in Channel, m \in Message :
                    /\ Len(Queues[c]) < Capacity
                    /\ Queues' = [Queues EXCEPT ![c] = Append(@, m)]
<1> USE IpcAssumption DEF IpcAssumption
<1>1. PICK x : x = call[t]
  BY Zenon
<1>2. PICK id, c, m : id = x.channel_id /\ c = Cast(id) /\ m = x.message
  BY Zenon
<1>3. /\ pc[t] = "push"
      /\ IF ValidId(id) /\ count[c] < Capacity
         THEN /\ queue' = [queue EXCEPT ![c][tail[c]] = m]
              /\ tail' = [tail EXCEPT ![c] = (@ + 1) % Capacity]
              /\ count' = [count EXCEPT ![c] = @ + 1]
         ELSE UNCHANGED <<queue, tail, count>>
      /\ pc' = [pc EXCEPT ![t] = "idle"]
      /\ call' = [call EXCEPT ![t] = NONE]
      /\ UNCHANGED <<slots, origin, name, head>>
  BY Zenon, <1>1, <1>2 DEF Push, capVars
<1>4. /\ ChannelTypes /\ CallTypes /\ CallOK /\ TransferStaysGood
      /\ \A d \in Channel : RingOK(d)
  BY Zenon, Types DEF Inv
<1>5. x \in Call /\ id \in ChannelId /\ m \in Message
  <2>1. x \in Call
    BY Zenon, <1>1, <1>3, <1>4 DEF CallTypes, CallOK
  <2> QED
    BY Zenon, <1>2, <2>1 DEF Call
<1>6. Good(m)
  BY Zenon, <1>1, <1>2, <1>5 DEF Inv, TransferStaysGood
<1>7. CallTypes' /\ CallOK'
  BY Zenon, <1>3, <1>4, CallStep
<1>8. CapabilityInv' /\ \A j \in CapabilityId : slots[j] # NONE => slots'[j] = slots[j]
  BY ZenonT(40), <1>3 DEF Inv, CapabilityInv, CapabilityTypeOK, NoAmplification
<1>9. Held' = Held
  BY Zenon, <1>3, <1>4 DEF CallTypes, Held
<1>10. CASE ~(ValidId(id) /\ count[c] < Capacity)
  <2>1. UNCHANGED chanVars
    BY Zenon, <1>3, <1>10 DEF chanVars
  <2>2. Inv' /\ Queues' = Queues
    BY Zenon, <1>3, <1>8, <2>1, TaskStep
  <2> QED
    BY Zenon, <1>9, <2>2
<1>11. CASE ValidId(id) /\ count[c] < Capacity
  <2>1. c \in Channel /\ name[c] # NONE
    BY Zenon, <1>2, <1>5, <1>11, ValidIsChannel
  <2>2. /\ queue' = [queue EXCEPT ![c][tail[c]] = m]
        /\ tail' = [tail EXCEPT ![c] = (@ + 1) % Capacity]
        /\ count' = [count EXCEPT ![c] = @ + 1]
    BY Zenon, <1>3, <1>11
  <2> DEFINE h == head[c]  n == count[c]  k == tail[c]
  <2>3. /\ h \in 0..(Capacity - 1) /\ k \in 0..(Capacity - 1) /\ n \in 0..(Capacity - 1)
        /\ queue[c] \in [0..(Capacity - 1) -> Message \cup {NONE}]
        /\ TailAgrees(h, n, k, Capacity)
        /\ \A i \in 1..n : queue[c][(h + i - 1) % Capacity] \in Message
    BY SMTT(30), Z3T(30), <1>4, <1>11, <2>1 DEF ChannelTypes, Index, RingOK
  <2>4. /\ head'[c] = h /\ count'[c] = n + 1 /\ tail'[c] = (k + 1) % Capacity
        /\ queue'[c] = [queue[c] EXCEPT ![k] = m]
    BY Zenon, <1>3, <1>4, <2>1, <2>2 DEF ChannelTypes
  <2>5. \A d \in Channel : d # c =>
           /\ head'[d] = head[d] /\ count'[d] = count[d] /\ tail'[d] = tail[d]
           /\ queue'[d] = queue[d] /\ name'[d] = name[d]
    BY ZenonT(40), <1>3, <1>4, <2>2 DEF ChannelTypes
  <2>6. HasRoom(Capacity, h, n) /\ Stored(queue'[c], queue[c], k, m, Capacity)
    BY Zenon, <2>3, <2>4 DEF HasRoom, Stored
  <2> HIDE DEF h, n, k
  <2>7. /\ Contents(queue'[c], h, n + 1, Capacity) = Append(Contents(queue[c], h, n, Capacity), m)
        /\ TailAgrees(h, n + 1, (k + 1) % Capacity, Capacity)
        /\ (k + 1) % Capacity \in 0..(Capacity - 1)
        /\ \A i \in 1..(n + 1) :
             queue'[c][(h + i - 1) % Capacity]
                = IF i = n + 1 THEN m ELSE queue[c][(h + i - 1) % Capacity]
    <3>1. TailAgrees(h, n, k, Capacity)
      BY Zenon, <2>3
    <3>2. PICK old, new : old = queue[c] /\ new = queue'[c]
      BY ZenonT(40)
    <3>3. HasRoom(Capacity, h, n) /\ Stored(new, old, k, m, Capacity)
      BY Zenon, <2>6, <3>2
    <3> HIDE IpcAssumption
    <3>4. /\ Contents(new, h, n + 1, Capacity) = Append(Contents(old, h, n, Capacity), m)
          /\ TailAgrees(h, n + 1, (k + 1) % Capacity, Capacity)
          /\ (k + 1) % Capacity \in 0..(Capacity - 1)
          /\ \A i \in 1..(n + 1) :
               new[(h + i - 1) % Capacity] = IF i = n + 1 THEN m ELSE old[(h + i - 1) % Capacity]
      <4>1. Put(new, old, m, h, n, k, Capacity)
        BY Zenon, <3>1, <3>3, RingPut
      <4> QED
        BY Zenon, <4>1 DEF Put
    <3> QED
      BY ZenonT(40), <3>2, <3>4
  <2>8. RingOK(c)'
    <3>1. \A i \in 1..(n + 1) : queue'[c][(h + i - 1) % Capacity] \in Message
      <4> TAKE i \in 1..(n + 1)
      <4>1. queue'[c][(h + i - 1) % Capacity]
              = IF i = n + 1 THEN m ELSE queue[c][(h + i - 1) % Capacity]
        BY Zenon, <2>7
      <4>2. CASE i = n + 1
        BY ZenonT(40), <1>5, <4>1, <4>2
      <4>3. CASE i # n + 1
        <5>1. i \in 1..n
          BY SMTT(30), Z3T(30), <2>3, <4>3
        <5> QED
          BY Zenon, <2>3, <4>1, <4>3, <5>1
      <4> QED
        BY Zenon, <4>2, <4>3
    <3>2. name'[c] # NONE
      BY Zenon, <1>3, <2>1
    <3> QED
      BY Zenon, <2>4, <2>7, <3>1, <3>2 DEF RingOK
  <2>9. \A d \in Channel : RingOK(d)'
    <3> TAKE d \in Channel
    <3>1. CASE d = c
      BY Zenon, <2>8, <3>1
    <3>2. CASE d # c
      BY ZenonT(40), <1>4, <2>5, <3>2 DEF RingOK, TailAgrees
    <3> QED
      BY Zenon, <3>1, <3>2
  <2>10. ChannelTypes' /\ UniqueNames'
    <3>1. (k + 1) % Capacity \in Index /\ n + 1 \in 0..Capacity
      BY SMTT(30), Z3T(30), Zenon, <2>3, <2>7 DEF Index
    <3>2. tail' \in [Channel -> Index] /\ count' \in [Channel -> 0..Capacity]
      BY Zenon, <1>4, <2>2, <3>1 DEF ChannelTypes, n, k
    <3>3. queue' \in [Channel -> [Index -> Message \cup {NONE}]]
      BY ZenonT(40), <1>4, <1>5, <2>2 DEF ChannelTypes
    <3> QED
      BY ZenonT(40), <1>3, <1>4, <3>2, <3>3 DEF ChannelTypes, Inv, UniqueNames
  <2>11. TransferStaysGood'
    <3>1. ASSUME NEW d \in Channel, NEW i \in Index PROVE Good(queue[d][i])'
      <4>1. queue'[d][i] = m \/ queue'[d][i] = queue[d][i]
        BY ZenonT(40), <1>4, <2>1, <2>2, <3>1 DEF ChannelTypes
      <4>2. PICK y : y = queue'[d][i]
        BY Zenon
      <4>3. Good(y)
        BY ZenonT(40), <1>4, <1>6, <4>1, <4>2 DEF TransferStaysGood
      <4>4. Good(y)'
        BY ZenonT(40), <1>8, <4>3, GoodKeeps
      <4> QED
        BY Zenon, <4>2, <4>4 DEF Good
    <3>2. ASSUME NEW u \in Tid, call'[u] # NONE PROVE Good(call[u].message)'
      <4>1. call'[u] = call[u]
        BY ZenonT(40), <1>3, <1>4, <3>2 DEF CallTypes
      <4>2. PICK y : y = call[u].message
        BY Zenon
      <4>3. Good(y)'
        BY ZenonT(40), <1>4, <1>8, <3>2, <4>1, <4>2, GoodKeeps DEF TransferStaysGood
      <4> QED
        BY Zenon, <4>1, <4>2, <4>3 DEF Good
    <3> QED
      BY Zenon, <3>1, <3>2 DEF TransferStaysGood
  <2>12. Inv'
    BY ZenonT(40), <1>7, <1>8, <2>9, <2>10, <2>11 DEF Inv, CapabilityInv, TypeOK, ChannelTypes, CallTypes
  <2>13. Len(Queues[c]) < Capacity
    <3>1. Queues[c] \in [1..n -> Message] /\ n \in Nat
      BY SMTT(30), Z3T(30), Zenon, <2>1, <2>3 DEF Queues, Pending, Contents, n, h
    <3>2. Len(Queues[c]) = n
      BY ZenonT(40), <3>1, FunctionIsSeq
    <3> QED
      BY SMTT(30), Z3T(30), Zenon, <2>3, <3>2
  <2>14. Queues' = [Queues EXCEPT ![c] = Append(@, m)]
    <3>1. Pending(c)' = Append(Pending(c), m)
      BY Zenon, <2>4, <2>7 DEF Pending, h, n
    <3>2. ASSUME NEW d \in Channel, d # c PROVE Pending(d)' = Pending(d)
      BY Zenon, <2>5, <3>2 DEF Pending
    <3> QED
      BY ZenonT(40), <2>1, <3>1, <3>2 DEF Queues
  <2> QED
    BY ZenonT(40), <1>5, <1>9, <2>1, <2>12, <2>13, <2>14
<1> QED
  BY Zenon, <1>10, <1>11

(* A receive takes the oldest message of one channel. *)
LEMMA RecvKeeps ==
    ASSUME Inv, NEW t \in Tid, Recv(t)
    PROVE  /\ Inv'
           /\ \E c \in Channel :
                 /\ Queues[c] # <<>> /\ Held[t] = NONE
                 /\ Held' = [Held EXCEPT ![t] = Head(Queues[c])]
                 /\ Queues' = [Queues EXCEPT ![c] = Tail(@)]
<1> USE IpcAssumption DEF IpcAssumption
<1>1. PICK id \in ChannelId, with_capability \in BOOLEAN :
         /\ ValidId(id)
         /\ count[Cast(id)] > 0
         /\ call' = [call EXCEPT ![t] = [channel_id |-> id,
                                         message |-> queue[Cast(id)][head[Cast(id)]]]]
         /\ head' = [head EXCEPT ![Cast(id)] = (@ + 1) % Capacity]
         /\ count' = [count EXCEPT ![Cast(id)] = @ - 1]
         /\ pc' = [pc EXCEPT ![t] =
                     IF with_capability /\ queue[Cast(id)][head[Cast(id)]].capability_id # 0
                     THEN "copy" ELSE "got"]
  BY ZenonT(40) DEF Recv
<1>2. pc[t] = "idle" /\ UNCHANGED <<slots, origin, name, queue, tail>>
  BY Zenon DEF Recv, capVars
<1>3. PICK c : c = Cast(id)
  BY Zenon
<1>4. c \in Channel /\ name[c] # NONE
  BY ZenonT(40), <1>1, <1>3, ValidIsChannel
<1>5. PICK m, h, n, k, old :
         m = queue[c][head[c]] /\ h = head[c] /\ n = count[c] /\ k = tail[c] /\ old = queue[c]
  BY Zenon
<1>6. PICK p \in {"copy", "got"} : pc' = [pc EXCEPT ![t] = p]
  BY Zenon, <1>1
<1>7. /\ ChannelTypes /\ CallTypes /\ CallOK /\ TransferStaysGood
      /\ \A d \in Channel : RingOK(d)
  BY Zenon, Types DEF Inv
<1>8. /\ h \in 0..(Capacity - 1) /\ n \in 1..Capacity
      /\ TailAgrees(h, n, k, Capacity)
      /\ \A i \in 1..n : old[(h + i - 1) % Capacity] \in Message
  BY SMTT(30), Z3T(30), Zenon, <1>1, <1>3, <1>4, <1>5, <1>7 DEF ChannelTypes, Index, RingOK
<1>9. /\ Contents(old, h, n, Capacity) # <<>>
      /\ Head(Contents(old, h, n, Capacity)) = old[h]
      /\ Tail(Contents(old, h, n, Capacity)) = Contents(old, (h + 1) % Capacity, n - 1, Capacity)
      /\ (((h + 1) % Capacity) + (n - 1)) % Capacity = (h + n) % Capacity
      /\ (h + 1) % Capacity \in 0..(Capacity - 1)
      /\ old[h] \in Message
      /\ \A i \in 1..(n - 1) : old[(((h + 1) % Capacity) + i - 1) % Capacity] \in Message
  BY Zenon, <1>8, RingTake
<1>10. /\ head'[c] = (h + 1) % Capacity /\ count'[c] = n - 1 /\ tail'[c] = k
       /\ queue'[c] = old /\ name'[c] = name[c]
  BY ZenonT(40), <1>1, <1>2, <1>3, <1>4, <1>5, <1>7 DEF ChannelTypes
<1>11. \A d \in Channel : d # c =>
          /\ head'[d] = head[d] /\ count'[d] = count[d] /\ tail'[d] = tail[d]
          /\ queue'[d] = queue[d] /\ name'[d] = name[d]
  BY Zenon, <1>1, <1>2, <1>3, <1>7 DEF ChannelTypes
<1>12. PICK x : x = [channel_id |-> id, message |-> m]
  BY Zenon
<1>13. /\ m \in Message /\ m = old[h] /\ x \in Call /\ x # NONE /\ x.message = m
       /\ call' = [call EXCEPT ![t] = x]
  BY SMTT(30), Z3T(30), Zenon, <1>1, <1>3, <1>5, <1>9, <1>12 DEF Call
<1>14. CallTypes' /\ CallOK'
  BY Zenon, <1>6, <1>7, <1>13, CallStep
<1>15. CapabilityInv' /\ \A j \in CapabilityId : slots[j] # NONE => slots'[j] = slots[j]
  BY ZenonT(40), SMT, <1>2 DEF Inv, CapabilityInv, CapabilityTypeOK, NoAmplification
<1>16. TransferStaysGood'
  <2>1. Good(m) /\ queue' = queue /\ call \in [Tid -> Call \cup {NONE}]
    BY Zenon, <1>2, <1>4, <1>5, <1>7, <1>8 DEF TransferStaysGood, CallTypes, Index
  <2> QED
    BY ZenonT(40), SMT, <1>7, <1>13, <1>15, <2>1, GoodStep
<1>17. \A d \in Channel : RingOK(d)'
  <2> TAKE d \in Channel
  <2>1. CASE d = c
    <3>1. TailAgrees((h + 1) % Capacity, n - 1, k, Capacity)
      BY Zenon, <1>8, <1>9 DEF TailAgrees
    <3>2. name'[c] # NONE
      BY ZenonT(40), <1>4, <1>10
    <3> QED
      BY ZenonT(40), <1>9, <1>10, <2>1, <3>1, <3>2 DEF RingOK
  <2>2. CASE d # c
    BY ZenonT(40), <1>7, <1>11, <2>2 DEF RingOK, TailAgrees
  <2> QED
    BY ZenonT(40), <2>1, <2>2
<1>18. ChannelTypes' /\ UniqueNames'
  <2>1. (h + 1) % Capacity \in Index /\ n - 1 \in 0..Capacity
    BY SMTT(30), Z3T(30), Zenon, <1>8, <1>9 DEF Index
  <2>2. head' \in [Channel -> Index] /\ count' \in [Channel -> 0..Capacity]
    BY ZenonT(40), <1>1, <1>3, <1>5, <1>7, <2>1 DEF ChannelTypes
  <2> QED
    BY ZenonT(40), <1>2, <1>7, <2>2 DEF ChannelTypes, Inv, UniqueNames
<1>19. Inv'
  BY Zenon, <1>14, <1>15, <1>16, <1>17, <1>18
     DEF Inv, CapabilityInv, TypeOK, ChannelTypes, CallTypes
<1>20. Held[t] = NONE /\ Held' = [Held EXCEPT ![t] = m]
  BY ZenonT(40), SMT, <1>2, <1>6, <1>7, <1>13 DEF Held, CallTypes
<1>21. Queues[c] # <<>> /\ m = Head(Queues[c]) /\ Queues' = [Queues EXCEPT ![c] = Tail(@)]
  <2>1. /\ Pending(c) = Contents(old, h, n, Capacity)
        /\ Pending(c)' = Contents(old, (h + 1) % Capacity, n - 1, Capacity)
    BY Zenon, <1>5, <1>10 DEF Pending
  <2>2. ASSUME NEW d \in Channel, d # c PROVE Pending(d)' = Pending(d)
    BY Zenon, <1>11, <2>2 DEF Pending
  <2> QED
    BY ZenonT(40), <1>4, <1>9, <1>13, <2>1, <2>2 DEF Queues
<1> QED
  BY Zenon, <1>4, <1>19, <1>20, <1>21

-----------------------------------------------------------------------------
(* Channels and capabilities keep their invariant. *)
THEOREM IpcInvariant == Spec => []Inv
<1>1. Inv /\ [Next]_vars => Inv'
  <2> SUFFICES ASSUME Inv, [Next]_vars PROVE Inv'
    BY Zenon
  <2>1. CASE UNCHANGED vars
    <3>1. UNCHANGED chanVars /\ UNCHANGED <<slots, origin, pc, call>>
      BY Zenon, <2>1 DEF vars, capVars
    <3>2. CapabilityInv' /\ CallTypes' /\ CallOK' /\ TransferStaysGood'
      BY ZenonT(40), SMT, <3>1, Types DEF Inv, CapabilityInv, CapabilityTypeOK, NoAmplification, CallTypes,
                         CallOK, TransferStaysGood, Good, CanTransfer, chanVars
    <3> QED
      BY Zenon, <3>1, <3>2, ChannelsKept DEF Inv, CapabilityInv, TypeOK, ChannelTypes, CallTypes
  <2>2. CASE Next
    BY Zenon, <2>2, ChannelCreateKeeps, CreateCapabilityKeeps, SendKeeps, PushKeeps, RecvKeeps,
       DoneKeeps DEF Next
  <2> QED
    BY Zenon, <2>1, <2>2
<1> QED
  BY <1>1, InitInv, PTL DEF Spec

(* Types are kept; the indexes of a ring never leave it. *)
THEOREM TypeCorrect == Spec => []TypeOK
<1>1. Inv => TypeOK
  BY Zenon DEF Inv
<1> QED
  BY <1>1, IpcInvariant, PTL

(* No two channels ever have one name. *)
THEOREM NamesAreUnique == Spec => []UniqueNames
<1>1. Inv => UniqueNames
  BY Zenon DEF Inv
<1> QED
  BY <1>1, IpcInvariant, PTL

(* No sequence of creations and transfers amplifies a right. *)
THEOREM RightsNeverGrow == Spec => []NoAmplification
<1>1. Inv => NoAmplification
  BY Zenon DEF Inv, CapabilityInv
<1> QED
  BY <1>1, IpcInvariant, PTL

(* A capability that was checked by the sender passes the receiver's check. *)
THEOREM QueuedTransferStaysGood == Spec => []TransferStaysGood
<1>1. Inv => TransferStaysGood
  BY Zenon DEF Inv
<1> QED
  BY <1>1, IpcInvariant, PTL

(* The rings of all channels implement bounded FIFO queues. *)
THEOREM ChannelsImplementFifo == Spec => ChannelsAreFifo
<1>1. Init => Abs!FifoInit
  <2> SUFFICES ASSUME Init PROVE Abs!FifoInit
    BY Zenon
  <2>1. Queues = [c \in Channel |-> <<>>]
    <3>1. ASSUME NEW c \in Channel PROVE Pending(c) = <<>>
      BY Zenon, EmptyRing DEF Init, Pending
    <3> QED
      BY Zenon, <3>1 DEF Queues
  <2>2. Held = [t \in Tid |-> NONE]
    BY Zenon DEF Init, Held
  <2> QED
    BY Zenon, <2>1, <2>2 DEF Abs!FifoInit, Queues, Held
<1>2. Inv /\ [Next]_vars => [Abs!FifoNext]_(Abs!fifoVars)
  <2> SUFFICES ASSUME Inv, [Next]_vars
               PROVE  Abs!FifoNext \/ UNCHANGED <<Queues, Held>>
    BY ZenonT(40) DEF Abs!fifoVars, Queues, Held
  <2>1. ASSUME NEW t \in Tid, Push(t)
        PROVE  Abs!FifoNext \/ UNCHANGED <<Queues, Held>>
    <3>1. CASE Queues' = Queues
      BY Zenon, <2>1, <3>1, PushKeeps
    <3>2. CASE \E c \in Channel, m \in Message :
                  /\ Len(Queues[c]) < Capacity
                  /\ Queues' = [Queues EXCEPT ![c] = Append(@, m)]
      <4>1. PICK c \in Channel, m \in Message :
               /\ Len(Queues[c]) < Capacity
               /\ Queues' = [Queues EXCEPT ![c] = Append(@, m)]
        BY Zenon, <3>2
      <4>2. Held' = Held
        BY Zenon, <2>1, PushKeeps
      <4>3. Abs!Put(c, m)
        BY Zenon, <4>1, <4>2 DEF Abs!Put, Queues, Held
      <4> QED
        BY Zenon, <4>3 DEF Abs!FifoNext
    <3> QED
      BY ZenonT(40), <2>1, <3>1, <3>2, PushKeeps
  <2>2. ASSUME NEW t \in Tid, Recv(t) PROVE Abs!FifoNext
    <3>1. PICK c \in Channel :
             /\ Queues[c] # <<>> /\ Held[t] = NONE
             /\ Held' = [Held EXCEPT ![t] = Head(Queues[c])]
             /\ Queues' = [Queues EXCEPT ![c] = Tail(@)]
      BY Zenon, <2>2, RecvKeeps
    <3>2. Abs!Take(c, t)
      BY Zenon, <3>1 DEF Abs!Take, Queues, Held
    <3> QED
      BY Zenon, <3>2 DEF Abs!FifoNext
  <2>3. ASSUME NEW t \in Tid, Copy(t) \/ Got(t) PROVE Abs!FifoNext
    <3>1. /\ Queues' = Queues /\ Held[t] # NONE /\ Held' = [Held EXCEPT ![t] = NONE]
      BY Zenon, <2>3, DoneKeeps
    <3>2. Abs!Finish(t)
      BY ZenonT(40), <3>1 DEF Abs!Finish, Queues, Held
    <3> QED
      BY Zenon, <3>2 DEF Abs!FifoNext
  <2>4. CASE UNCHANGED vars
    BY Zenon, <2>4 DEF vars, chanVars, Queues, Held, Pending
  <2>5. CASE (\E n \in Name : ChannelCreate(n)) \/ CreateCapability \/ (\E t \in Tid : Send(t))
    BY Zenon, <2>5, ChannelCreateKeeps, CreateCapabilityKeeps, SendKeeps
  <2> QED
    BY ZenonT(40), <2>1, <2>2, <2>3, <2>4, <2>5 DEF Next
<1> QED
  BY <1>1, <1>2, IpcInvariant, PTL DEF Spec, ChannelsAreFifo, Abs!FifoSpec

-----------------------------------------------------------------------------
(* The keyboard (drivers/ps2_keyboard.c). *)

(* The scan codes, and the keys that share one. *)
LEMMA Codes ==
    /\ Code.LSHIFT = 42 /\ Code.RSHIFT = 54 /\ Code.LCTRL = 29 /\ Code.LALT = 56 /\ Code.CAPS = 58
    /\ {Code[s] : s \in Shift} = {42, 54}
    /\ DOMAIN Code = Shift \cup Ctrl \cup Alt \cup {"CAPS", "A", "SLASH", "KPSLASH"}
    /\ \A k \in DOMAIN Code :
          /\ Code[k] \in {42, 54, 29, 56, 58, 30, 53}
          /\ Code[k] = 42 <=> k = "LSHIFT"
          /\ Code[k] = 54 <=> k = "RSHIFT"
          /\ Code[k] = 29 <=> k \in Ctrl
          /\ Code[k] = 56 <=> k \in Alt
          /\ Code[k] = 58 <=> k = "CAPS"
          /\ Code[k] = 30 <=> k = "A"
          /\ Code[k] = 53 <=> k \in {"SLASH", "KPSLASH"}
<1>1. /\ Code["LSHIFT"] = 42 /\ Code["RSHIFT"] = 54 /\ Code["LCTRL"] = 29 /\ Code["RCTRL"] = 29
      /\ Code["LALT"] = 56 /\ Code["RALT"] = 56 /\ Code["CAPS"] = 58 /\ Code["A"] = 30
      /\ Code["SLASH"] = 53 /\ Code["KPSLASH"] = 53
  BY Zenon DEF Code
<1>2. DOMAIN Code = Shift \cup Ctrl \cup Alt \cup {"CAPS", "A", "SLASH", "KPSLASH"}
  BY ZenonT(40) DEF Code, Shift, Ctrl, Alt
<1>3. {Code[s] : s \in Shift} = {42, 54}
  BY <1>1 DEF Shift
<1> QED
  BY SMTT(30), Z3T(30), <1>1, <1>2, <1>3 DEF Shift, Ctrl, Alt

(* The tables give a character to the codes of A and of the slash only. *)
LEMMA PlainChars ==
    /\ plain(30) = "A" /\ plain(53) = "SLASH"
    /\ \A c \in {42, 54, 29, 56, 58, 122, 124, 126} : plain(c) = NoChar
<1> DEFINE K(c) == {k \in DOMAIN Code \ Extended : Code[k] = c}
<1>1. \A c : plain(c) = IF K(c) \subseteq Printing /\ K(c) # {} THEN CHOOSE k \in K(c) : TRUE
                         ELSE NoChar
  BY Zenon DEF plain
<1>2. K(30) = {"A"} /\ K(53) = {"SLASH"}
  BY SMTT(30), Z3T(30), Codes DEF Extended, Shift, Ctrl, Alt
<1>3. K(42) = {"LSHIFT"} /\ K(54) = {"RSHIFT"} /\ K(29) = {"LCTRL"} /\ K(56) = {"LALT"}
      /\ K(58) = {"CAPS"} /\ K(122) = {} /\ K(124) = {} /\ K(126) = {}
  BY Codes DEF Extended, Shift, Ctrl, Alt
<1> HIDE DEF K
<1>4. plain(30) = "A" /\ plain(53) = "SLASH"
  BY Zenon, <1>1, <1>2 DEF Printing
<1> QED
  BY <1>1, <1>3, <1>4 DEF Printing

(* The flags as a scan code changes them. *)
LEMMA ModifierUpdate ==
    ASSUME NEW keys, NEW ctrl, NEW lock, NEW prefix, FlagsAre(keys, ctrl, lock, prefix),
           NEW code, NEW released \in BOOLEAN, NEW extended \in BOOLEAN
    PROVE  LET a == kbd_update_modifiers(kbd, code, released, extended)
           IN  /\ a \in [left_shift : BOOLEAN, right_shift : BOOLEAN, shift : BOOLEAN,
                         ctrl : BOOLEAN, alt : BOOLEAN, caps_lock : BOOLEAN,
                         extended_prefix : BOOLEAN]
               /\ a.ctrl <=> IF code = 29 THEN ~released ELSE kbd.ctrl
               /\ a.alt <=> IF code = 56 THEN ~released ELSE kbd.alt
               /\ a.left_shift <=> IF ~extended /\ code = 42 THEN ~released ELSE kbd.left_shift
               /\ a.right_shift <=> IF ~extended /\ code = 54 THEN ~released ELSE kbd.right_shift
               /\ a.shift <=> IF ~extended /\ code = 42 THEN ~released \/ kbd.right_shift
                              ELSE IF ~extended /\ code = 54 THEN kbd.left_shift \/ ~released
                              ELSE kbd.shift
               /\ a.caps_lock <=> IF code = 58 /\ ~extended /\ ~released THEN ~kbd.caps_lock
                                  ELSE kbd.caps_lock
<1> DEFINE left == IF code = Code.LSHIFT THEN ~released ELSE kbd.left_shift
           right == IF code = Code.RSHIFT THEN ~released ELSE kbd.right_shift
           c == IF code = Code.LCTRL THEN ~released ELSE kbd.ctrl
           l == IF code = Code.LALT THEN ~released ELSE kbd.alt
           ls == IF extended THEN kbd.left_shift ELSE left
           rs == IF extended THEN kbd.right_shift ELSE right
           sh == IF extended \/ code \notin {Code[s] : s \in Shift} THEN kbd.shift
                 ELSE shift_after(kbd, left, right, released)
           cl == IF code = Code.CAPS /\ ~extended /\ ~released THEN ~kbd.caps_lock
                 ELSE kbd.caps_lock
           R == [left_shift : BOOLEAN, right_shift : BOOLEAN, shift : BOOLEAN, ctrl : BOOLEAN,
                 alt : BOOLEAN, caps_lock : BOOLEAN, extended_prefix : BOOLEAN]
<1>1. kbd \in R
  BY Zenon DEF FlagsAre
<1>2. /\ c \in BOOLEAN /\ l \in BOOLEAN /\ ls \in BOOLEAN /\ rs \in BOOLEAN /\ sh \in BOOLEAN
      /\ cl \in BOOLEAN
  BY <1>1, Zenon DEF shift_after
<1>3. kbd_update_modifiers(kbd, code, released, extended)
        = [kbd EXCEPT !.ctrl = c, !.alt = l, !.left_shift = ls, !.right_shift = rs, !.shift = sh,
                      !.caps_lock = cl]
  BY Zenon DEF kbd_update_modifiers
<1>4. /\ (c <=> IF code = 29 THEN ~released ELSE kbd.ctrl)
      /\ (l <=> IF code = 56 THEN ~released ELSE kbd.alt)
      /\ (ls <=> IF ~extended /\ code = 42 THEN ~released ELSE kbd.left_shift)
      /\ (rs <=> IF ~extended /\ code = 54 THEN ~released ELSE kbd.right_shift)
      /\ (cl <=> IF code = 58 /\ ~extended /\ ~released THEN ~kbd.caps_lock ELSE kbd.caps_lock)
  BY SMTT(30), Z3T(30), <1>1, Codes
<1>5. sh <=> IF ~extended /\ code = 42 THEN ~released \/ kbd.right_shift
             ELSE IF ~extended /\ code = 54 THEN kbd.left_shift \/ ~released
             ELSE kbd.shift
  BY <1>1, Codes DEF shift_after
<1> HIDE DEF c, l, ls, rs, sh, cl
<1> DEFINE a1 == [kbd EXCEPT !.ctrl = c]
           a2 == [a1 EXCEPT !.alt = l]
           a3 == [a2 EXCEPT !.left_shift = ls]
           a4 == [a3 EXCEPT !.right_shift = rs]
           a5 == [a4 EXCEPT !.shift = sh]
           a6 == [a5 EXCEPT !.caps_lock = cl]
<1>10. a6 = [kbd EXCEPT !.ctrl = c, !.alt = l, !.left_shift = ls, !.right_shift = rs, !.shift = sh,
                        !.caps_lock = cl]
  BY ZenonT(40)
<1>11. a1 \in R /\ a1.ctrl = c
  BY Zenon, <1>1, <1>2
<1> HIDE DEF a1
<1>12. a2 \in R /\ a2.ctrl = c /\ a2.alt = l
  BY Zenon, <1>2, <1>11
<1> HIDE DEF a2
<1>13. a3 \in R /\ a3.ctrl = c /\ a3.alt = l /\ a3.left_shift = ls
  BY Zenon, <1>2, <1>12
<1> HIDE DEF a3
<1>14. a4 \in R /\ a4.ctrl = c /\ a4.alt = l /\ a4.left_shift = ls /\ a4.right_shift = rs
  BY Zenon, <1>2, <1>13
<1> HIDE DEF a4
<1>15. /\ a5 \in R /\ a5.ctrl = c /\ a5.alt = l /\ a5.left_shift = ls /\ a5.right_shift = rs
       /\ a5.shift = sh
  BY Zenon, <1>2, <1>14
<1> HIDE DEF a5
<1>16. /\ a6 \in R /\ a6.ctrl = c /\ a6.alt = l /\ a6.left_shift = ls /\ a6.right_shift = rs
       /\ a6.shift = sh /\ a6.caps_lock = cl
  BY Zenon, <1>2, <1>15
<1>6. kbd_update_modifiers(kbd, code, released, extended) = a6
  BY Zenon, <1>3, <1>10
<1> HIDE DEF a6
<1> QED
  BY <1>4, <1>5, <1>6, <1>16

(* kbd_buffer_push drops a character just when the ring holds all it can. *)
LEMMA CharPushKeeps ==
    ASSUME RingHolds, NEW ch \in (Printing \X FormName) \cup {NoChar}, kbd_buffer_push(ch),
           UNCHANGED <<g_kbd_tail, loaded>>,
           typed' = IF ch # NoChar /\ Len(typed) < KBD_BUFFER_SIZE - 1 THEN Append(typed, ch)
                    ELSE typed
    PROVE  RingHolds'
<1> DEFINE N == KBD_BUFFER_SIZE
           n == Len(typed)
<1>1. N \in Nat \ {0}
  BY Zenon, KeyboardAssumption DEF KeyboardAssumption
<1>2. /\ n \in 0..(N - 1) /\ g_kbd_tail \in 0..(N - 1) /\ g_kbd_head \in 0..(N - 1)
      /\ n \in 0..N /\ 1 \in 0..N /\ TailAgrees(g_kbd_tail, n, g_kbd_head, N)
  BY SMTT(30), Z3T(30), <1>1 DEF RingHolds
<1>3. buffer_full(g_kbd_head, g_kbd_tail) <=> n = N - 1
  <2> HIDE DEF n, N
  <2>1. g_kbd_head = IF g_kbd_tail + n < N THEN g_kbd_tail + n ELSE g_kbd_tail + n - N
    BY <1>1, <1>2, Wrap, Zenon DEF TailAgrees
  <2>2. (g_kbd_head + 1) % N = IF g_kbd_head + 1 < N THEN g_kbd_head + 1 ELSE g_kbd_head + 1 - N
    BY <1>1, <1>2, Wrap, Zenon
  <2> QED
    BY SMTT(30), Z3T(30), <1>1, <1>2, <2>1, <2>2 DEF buffer_full, Advance, N
<1>4. CASE ch = NoChar \/ n = N - 1
  BY SMTT(30), Z3T(30), <1>3, <1>4 DEF RingHolds, kbd_buffer_push
<1>5. CASE ch # NoChar /\ n # N - 1
  <2>1. /\ g_kbd_buffer' = [g_kbd_buffer EXCEPT ![g_kbd_head] = ch]
        /\ g_kbd_head' = (g_kbd_head + 1) % N
        /\ ch \in Printing \X FormName
    BY Zenon, <1>3, <1>5 DEF kbd_buffer_push, Advance
  <2>2. n < N - 1 /\ typed' = Append(typed, ch)
    BY SMTT(30), Z3T(30), <1>1, <1>2, <1>5
  <2>3. HasRoom(N, g_kbd_tail, n) /\ TailAgrees(g_kbd_tail, n, g_kbd_head, N)
    BY Zenon, <1>1, <1>2 DEF HasRoom, RingHolds
  <2>4. Stored(g_kbd_buffer', g_kbd_buffer, g_kbd_head, ch, N)
    BY Zenon, <1>2, <2>1 DEF Stored, RingHolds
  <2>5. /\ Contents(g_kbd_buffer', g_kbd_tail, n + 1, N)
             = Append(Contents(g_kbd_buffer, g_kbd_tail, n, N), ch)
        /\ TailAgrees(g_kbd_tail, n + 1, (g_kbd_head + 1) % N, N)
        /\ (g_kbd_head + 1) % N \in 0..(N - 1)
    <3> HIDE DEF n, N
    <3>1. Put(g_kbd_buffer', g_kbd_buffer, ch, g_kbd_tail, n, g_kbd_head, N)
      BY Zenon, <2>3, <2>4, RingPut
    <3> QED
      BY Zenon, <3>1 DEF Put
  <2>6. /\ typed \in Seq(Printing \X FormName)
        /\ typed = Contents(g_kbd_buffer, g_kbd_tail, n, N)
    BY Zenon DEF RingHolds
  <2>7. Len(typed') = n + 1 /\ typed' \in Seq(Printing \X FormName)
    BY <2>1, <2>2, <2>6
  <2>8. typed' = Contents(g_kbd_buffer', g_kbd_tail', Len(typed'), N)
    BY Zenon, <2>2, <2>5, <2>6, <2>7
  <2>9. DOMAIN g_kbd_buffer' = 0..(N - 1)
    BY Zenon, <2>1 DEF RingHolds
  <2>10. loaded' # NoChar => typed' # <<>> /\ loaded' = Head(typed')
    <3>1. typed # <<>> => Head(Append(typed, ch)) = Head(typed) /\ Append(typed, ch) # <<>>
      BY SMTT(30), Z3T(30), <2>1, <2>6
    <3> QED
      BY Zenon, <2>2, <3>1 DEF RingHolds
  <2>11. TailAgrees(g_kbd_tail', Len(typed'), g_kbd_head', N)
    BY ZenonT(40), <2>1, <2>5, <2>7
  <2>12. Len(typed') < N /\ g_kbd_head' \in 0..(N - 1) /\ g_kbd_tail' \in 0..(N - 1)
    BY SMTT(30), Z3T(30), <1>1, <1>2, <2>1, <2>2, <2>5, <2>7
  <2> HIDE DEF n
  <2> QED
    BY ZenonT(40), <2>7, <2>8, <2>9, <2>10, <2>11, <2>12 DEF RingHolds
<1> QED
  BY Zenon, <1>4, <1>5

(* Steps that leave the ring alone keep it. *)
LEMMA RingUntouched ==
    ASSUME RingHolds, UNCHANGED <<g_kbd_buffer, g_kbd_head, g_kbd_tail, loaded, typed>>
    PROVE  RingHolds'
BY Zenon DEF RingHolds

(* The oldest character of the ring. *)
LEMMA OldestTaken ==
    ASSUME RingHolds, typed # <<>>
    PROVE  /\ Head(typed) = g_kbd_buffer[g_kbd_tail]
           /\ Tail(typed) = Contents(g_kbd_buffer, Advance(g_kbd_tail), Len(typed) - 1,
                                     KBD_BUFFER_SIZE)
<1> DEFINE S == Printing \X FormName
           cap == KBD_BUFFER_SIZE
           n == Len(typed)
           h == g_kbd_tail
           shown == g_kbd_buffer
           s == typed
<1>0. /\ cap \in Nat \ {0} /\ h \in 0..(cap - 1) /\ n \in 1..cap
      /\ s \in Seq(S) /\ s = Contents(shown, h, n, cap)
  BY KeyboardAssumption DEF KeyboardAssumption, RingHolds
<1> HIDE DEF S, cap, n, h, shown, s
<1>1. \A i \in 1..n : Contents(shown, h, n, cap)[i] = shown[(h + i - 1) % cap]
  BY Zenon DEF Contents
<1>2. DOMAIN s = 1..n
  BY Zenon, <1>0 DEF Contents
<1>3. \A i \in 1..n : s[i] \in S
  BY <1>0, <1>2
<1>4. \A i \in 1..n : shown[(h + i - 1) % cap] \in S
  BY Zenon, <1>0, <1>1, <1>3
<1>5. /\ Contents(shown, h, n, cap) # <<>>
      /\ Head(Contents(shown, h, n, cap)) = shown[h]
      /\ Tail(Contents(shown, h, n, cap)) = Contents(shown, (h + 1) % cap, n - 1, cap)
      /\ (((h + 1) % cap) + (n - 1)) % cap = (h + n) % cap
      /\ (h + 1) % cap \in 0..(cap - 1)
      /\ shown[h] \in S
      /\ \A i \in 1..(n - 1) : shown[(((h + 1) % cap) + i - 1) % cap] \in S
  BY Zenon, <1>0, <1>4, RingTake
<1> QED
  BY Zenon, <1>0, <1>5 DEF s, shown, h, n, cap, Advance

(* kbd_buffer_pop, in its two steps, takes the oldest character and no     *)
(* other.                                                                  *)
LEMMA KeyPopKeeps ==
    ASSUME RingHolds, PopLoad \/ PopAdvance
    PROVE  RingHolds'
<1> DEFINE N == KBD_BUFFER_SIZE
           n == Len(typed)
<1>1. N \in Nat \ {0}
  BY Zenon, KeyboardAssumption DEF KeyboardAssumption
<1>2. /\ n \in 0..(N - 1) /\ g_kbd_tail \in 0..(N - 1) /\ g_kbd_head \in 0..(N - 1)
      /\ typed \in Seq(Printing \X FormName) /\ typed = Contents(g_kbd_buffer, g_kbd_tail, n, N)
      /\ n \in 0..N /\ 1 \in 0..N /\ TailAgrees(g_kbd_tail, n, g_kbd_head, N)
  BY <1>1 DEF RingHolds
<1>3. ASSUME n # 0
      PROVE  /\ typed # <<>> /\ Head(typed) = g_kbd_buffer[g_kbd_tail]
             /\ Tail(typed) = Contents(g_kbd_buffer, (g_kbd_tail + 1) % N, n - 1, N)
  BY SMTT(30), Z3T(30), <1>2, <1>3, OldestTaken DEF Advance
<1>4. CASE PopLoad
  <2>1. n # 0
    <3>1. g_kbd_head # g_kbd_tail /\ g_kbd_head = (g_kbd_tail + n) % N
      BY Zenon, <1>4 DEF PopLoad, RingHolds, TailAgrees
    <3>2. (g_kbd_tail + 0) % N = g_kbd_tail
      <4> HIDE DEF n, N
      <4> QED
        BY SMTT(30), Z3T(30), <1>1, <1>2
    <3> QED
      BY Zenon, <3>1, <3>2
  <2>2. loaded' = Head(typed) /\ typed # <<>>
    BY ZenonT(40), <1>3, <1>4, <2>1 DEF PopLoad
  <2> QED
    BY Zenon, <1>4, <2>2 DEF PopLoad, RingHolds, ringVars, typistVars
<1>5. CASE PopAdvance
  <2>1. n # 0
    BY SMTT(30), Z3T(30), <1>2, <1>5 DEF PopAdvance, RingHolds
  <2>2. /\ g_kbd_tail' = (g_kbd_tail + 1) % N /\ loaded' = NoChar /\ typed' = Tail(typed)
        /\ UNCHANGED <<g_kbd_buffer, g_kbd_head>>
    BY Zenon, <1>5 DEF PopAdvance, Advance, ringVars
  <2>3. typed' \in Seq(Printing \X FormName) /\ Len(typed') = n - 1
    BY SMTT(30), Z3T(30), <1>2, <1>3, <2>1, <2>2
  <2>4. typed' = Contents(g_kbd_buffer', g_kbd_tail', Len(typed'), N)
    BY Zenon, <1>3, <2>1, <2>2, <2>3
  <2>5. /\ g_kbd_tail' \in 0..(N - 1)
        /\ TailAgrees(g_kbd_tail', Len(typed'), g_kbd_head', N)
    <3> HIDE DEF n, N
    <3>1. g_kbd_head = IF g_kbd_tail + n < N THEN g_kbd_tail + n ELSE g_kbd_tail + n - N
      BY <1>1, <1>2, Wrap, Zenon DEF TailAgrees
    <3>2. /\ g_kbd_tail' = IF g_kbd_tail + 1 < N THEN g_kbd_tail + 1 ELSE g_kbd_tail + 1 - N
          /\ g_kbd_tail' \in 0..(N - 1)
      BY <1>1, <1>2, <2>2, Wrap, Zenon
    <3>3. n - 1 \in 0..N
      BY <1>1, <1>2, <2>1
    <3>4. (g_kbd_tail' + (n - 1)) % N
            = IF g_kbd_tail' + (n - 1) < N THEN g_kbd_tail' + (n - 1) ELSE g_kbd_tail' + (n - 1) - N
      BY <1>1, <3>2, <3>3, Wrap, Zenon
    <3>5. g_kbd_head = (g_kbd_tail' + (n - 1)) % N
      BY SMTT(30), Z3T(30), <1>1, <1>2, <2>1, <3>1, <3>2, <3>4
    <3> QED
      BY <2>2, <2>3, <3>2, <3>5, Zenon DEF TailAgrees
  <2>6. Len(typed') < N
    <3> HIDE DEF n, N
    <3> QED
      BY SMTT(30), Z3T(30), <1>1, <1>2, <2>3
  <2> HIDE DEF n
  <2> QED
    BY ZenonT(40), <2>2, <2>3, <2>4, <2>5, <2>6 DEF RingHolds
<1> QED
  BY Zenon, <1>4, <1>5

(* Neither ring nor flags change in a step of ps2_keyboard_init. *)
LEMMA SetupKeeps ==
    ASSUME KeyboardInv, WriteData \/ ps2_expect_ack \/ KeyboardAnswers
    PROVE  KeyboardInv'
<1>1. UNCHANGED <<ringVars, g_kbd_tail, kbd, loaded, typistVars>>
  BY Zenon DEF WriteData, ps2_expect_ack, KeyboardAnswers
<1>2. RingHolds'
  BY Zenon, <1>1, RingUntouched DEF KeyboardInv, ringVars, typistVars
<1>3. event = NoChar
  <2>1. CASE WriteData \/ ps2_expect_ack
    <3>1. setup.pc # "ready"
      BY Zenon, <2>1 DEF WriteData, ps2_expect_ack
    <3>2. setupDone.pc = "ready"
      BY ZenonT(40) DEF setupDone
    <3> QED
      BY Zenon, <3>1, <3>2 DEF KeyboardInv, FlagsFollow, Ready
  <2>2. CASE KeyboardAnswers
    <3>1. owed # 0
      BY SMTT(30), Z3T(30), <2>2 DEF KeyboardAnswers
    <3> QED
      BY <3>1, Zenon DEF KeyboardInv, FlagsFollow
  <2> QED
    BY Zenon, <2>1, <2>2
<1>4. wire \in Seq(Answer)
  BY Zenon, <1>3 DEF KeyboardInv, FlagsFollow
<1>5. wire' \in Seq(Answer) /\ owed' \in Nat
  <2>1. CASE WriteData
    <3>1. wire' = wire /\ (owed' = owed \/ owed' = owed + 1)
      BY <2>1, Zenon DEF WriteData
    <3> QED
      BY SMTT(30), Z3T(30), <1>4, <3>1 DEF KeyboardInv
  <2>2. CASE ps2_expect_ack
    <3>1. wire' = wire \/ (wire # <<>> /\ wire' = Tail(wire))
      BY Zenon, <2>2 DEF ps2_expect_ack
    <3> QED
      BY SMTT(30), Z3T(30), <1>4, <2>2, <3>1 DEF ps2_expect_ack, KeyboardInv
  <2>3. CASE KeyboardAnswers
    <3>1. PICK a \in Answer : wire' = Append(wire, a)
      BY Zenon, <2>3 DEF KeyboardAnswers
    <3> QED
      BY SMTT(30), Z3T(30), <1>4, <2>3, <3>1 DEF KeyboardAnswers, KeyboardInv
  <2> QED
    BY ZenonT(40), <2>1, <2>2, <2>3
<1>6. FlagsFollow'
  BY Zenon, <1>1, <1>3, <1>5 DEF KeyboardInv, FlagsFollow, FlagsAre, CtrlDown, typistVars
<1> QED
  BY Zenon, <1>2, <1>5, <1>6 DEF KeyboardInv

(* The new flags, and the character pushed. *)
Decoded(code, released, prefix) ==
    /\ kbd' \in [left_shift : BOOLEAN, right_shift : BOOLEAN, shift : BOOLEAN,
                 ctrl : BOOLEAN, alt : BOOLEAN, caps_lock : BOOLEAN,
                 extended_prefix : BOOLEAN]
    /\ ~kbd'.extended_prefix
    /\ kbd'.ctrl <=> IF code = 29 THEN ~released ELSE kbd.ctrl
    /\ kbd'.alt <=> IF code = 56 THEN ~released ELSE kbd.alt
    /\ kbd'.left_shift <=> IF ~prefix /\ code = 42 THEN ~released ELSE kbd.left_shift
    /\ kbd'.right_shift <=> IF ~prefix /\ code = 54 THEN ~released ELSE kbd.right_shift
    /\ kbd'.shift <=> IF ~prefix /\ code = 42 THEN ~released \/ kbd.right_shift
                      ELSE IF ~prefix /\ code = 54 THEN kbd.left_shift \/ ~released
                      ELSE kbd.shift
    /\ kbd'.caps_lock <=> IF code = 58 /\ ~prefix /\ ~released THEN ~kbd.caps_lock
                          ELSE kbd.caps_lock
    /\ \E a : /\ kbd_buffer_push(IF released \/ prefix THEN NoChar
                                 ELSE kbd_translate_make_scancode(a, code))
              /\ a.shift \in BOOLEAN /\ a.ctrl \in BOOLEAN /\ a.caps_lock \in BOOLEAN
              /\ a.shift = kbd'.shift /\ a.ctrl = kbd'.ctrl /\ a.caps_lock = kbd'.caps_lock

(* A byte that is no prefix is decoded. *)
LEMMA CodeByte ==
    ASSUME NEW keys, NEW ctrl, NEW lock, NEW prefix \in BOOLEAN,
           FlagsAre(keys, ctrl, lock, prefix),
           NEW code \in 0..127, NEW released \in BOOLEAN,
           NEW byte, byte = code + (IF released THEN 128 ELSE 0), on_irq_code(byte)
    PROVE  Decoded(code, released, prefix)
<1>1. byte % 128 = code /\ (byte >= 128 <=> released)
  OBVIOUS
<1>2. kbd.extended_prefix = prefix
  BY Zenon DEF FlagsAre
<1> DEFINE a == kbd_update_modifiers(kbd, code, released, prefix)
<1>3. /\ kbd' = [a EXCEPT !.extended_prefix = FALSE]
      /\ kbd_buffer_push(IF released \/ prefix THEN NoChar ELSE kbd_translate_make_scancode(a, code))
  <2>1. (byte >= 128) = released
    BY SMTT(30), Z3T(30), <1>1
  <2> QED
    <3> DEFINE b == kbd_update_modifiers(kbd, byte % 128, byte >= 128, kbd.extended_prefix)
    <3>1. /\ kbd' = [b EXCEPT !.extended_prefix = FALSE]
          /\ kbd_buffer_push(IF byte >= 128 \/ kbd.extended_prefix THEN NoChar
                             ELSE kbd_translate_make_scancode(b, byte % 128))
      BY Zenon DEF on_irq_code
    <3>2. b = a /\ byte % 128 = code
      BY <1>1, <1>2, <2>1, Zenon
    <3>3. kbd_buffer_push(IF byte >= 128 \/ kbd.extended_prefix THEN NoChar
                          ELSE kbd_translate_make_scancode(a, code))
      BY <3>1, <3>2
    <3>4. (IF byte >= 128 \/ kbd.extended_prefix THEN NoChar
           ELSE kbd_translate_make_scancode(a, code))
            = IF released \/ prefix THEN NoChar ELSE kbd_translate_make_scancode(a, code)
      BY <1>1, <1>2
    <3> HIDE DEF a, b
    <3> QED
      BY SMTT(30), Z3T(30), <3>1, <3>2, <3>3, <3>4
<1>4. /\ a \in [left_shift : BOOLEAN, right_shift : BOOLEAN, shift : BOOLEAN,
                ctrl : BOOLEAN, alt : BOOLEAN, caps_lock : BOOLEAN, extended_prefix : BOOLEAN]
      /\ a.ctrl <=> IF code = 29 THEN ~released ELSE kbd.ctrl
      /\ a.alt <=> IF code = 56 THEN ~released ELSE kbd.alt
      /\ a.left_shift <=> IF ~prefix /\ code = 42 THEN ~released ELSE kbd.left_shift
      /\ a.right_shift <=> IF ~prefix /\ code = 54 THEN ~released ELSE kbd.right_shift
      /\ a.shift <=> IF ~prefix /\ code = 42 THEN ~released \/ kbd.right_shift
                     ELSE IF ~prefix /\ code = 54 THEN kbd.left_shift \/ ~released
                     ELSE kbd.shift
      /\ a.caps_lock <=> IF code = 58 /\ ~prefix /\ ~released THEN ~kbd.caps_lock
                         ELSE kbd.caps_lock
  BY ModifierUpdate
<1> HIDE DEF a
<1>5. /\ kbd' \in [left_shift : BOOLEAN, right_shift : BOOLEAN, shift : BOOLEAN,
                   ctrl : BOOLEAN, alt : BOOLEAN, caps_lock : BOOLEAN,
                   extended_prefix : BOOLEAN]
      /\ ~kbd'.extended_prefix
      /\ kbd'.ctrl = a.ctrl /\ kbd'.alt = a.alt /\ kbd'.left_shift = a.left_shift
      /\ kbd'.right_shift = a.right_shift /\ kbd'.shift = a.shift
      /\ kbd'.caps_lock = a.caps_lock
  BY Zenon, <1>3, <1>4
<1>6. a.shift \in BOOLEAN /\ a.ctrl \in BOOLEAN /\ a.caps_lock \in BOOLEAN
  BY Zenon, <1>4
<1>7. \E b : /\ kbd_buffer_push(IF released \/ prefix THEN NoChar
                                ELSE kbd_translate_make_scancode(b, code))
             /\ b.shift \in BOOLEAN /\ b.ctrl \in BOOLEAN /\ b.caps_lock \in BOOLEAN
             /\ b.shift = kbd'.shift /\ b.ctrl = kbd'.ctrl /\ b.caps_lock = kbd'.caps_lock
  BY <1>3, <1>5, <1>6, Zenon
<1> QED
  BY ZenonT(40), <1>4, <1>5, <1>7 DEF Decoded

(* An answer that comes late is taken for the release of a key there is    *)
(* none of: it changes nothing.                                            *)
LEMMA AnswerByte ==
    ASSUME KeyboardInv, ps2_keyboard_on_irq, event = NoChar
    PROVE  KeyboardInv'
<1>1. /\ wire # <<>> /\ wire' = Tail(wire) /\ typed' = typed /\ event' = NoChar
      /\ UNCHANGED <<g_kbd_tail, loaded, setup, owed, held, caps, lapse>>
  BY Zenon DEF ps2_keyboard_on_irq, Typed
<1>2. wire \in Seq(Answer) /\ FlagsAre(held, CtrlDown, caps, FALSE)
  BY Zenon DEF KeyboardInv, FlagsFollow
<1>3. Head(wire) \in Answer /\ wire' \in Seq(Answer)
  BY SMTT(30), Z3T(30), <1>1, <1>2
<1> DEFINE byte == Head(wire)
           code == byte - 128
<1>4. /\ code \in 0..127 /\ byte = code + (IF TRUE THEN 128 ELSE 0)
      /\ code \notin {29, 56, 42, 54, 58} /\ byte \notin {224, 225}
  BY <1>3 DEF Answer, ACK, RESEND
<1>5. on_irq_code(byte)
  BY SMTT(30), Z3T(30), <1>4 DEF ps2_keyboard_on_irq, on_irq_prefix
<1> HIDE DEF byte, code
<1>6. /\ kbd' \in [left_shift : BOOLEAN, right_shift : BOOLEAN, shift : BOOLEAN,
                   ctrl : BOOLEAN, alt : BOOLEAN, caps_lock : BOOLEAN,
                   extended_prefix : BOOLEAN]
      /\ ~kbd'.extended_prefix
      /\ kbd'.ctrl <=> kbd.ctrl
      /\ kbd'.alt <=> kbd.alt
      /\ kbd'.left_shift <=> kbd.left_shift
      /\ kbd'.right_shift <=> kbd.right_shift
      /\ kbd'.shift <=> kbd.shift
      /\ kbd'.caps_lock <=> kbd.caps_lock
      /\ kbd_buffer_push(NoChar)
  <2>1. Decoded(code, TRUE, FALSE)
    BY Zenon, <1>2, <1>4, <1>5, CodeByte
  <2> QED
    BY <1>4, <2>1 DEF Decoded
<1>7. FlagsAre(held, CtrlDown, caps, FALSE)'
  <2>1. CtrlDown' <=> CtrlDown
    BY Zenon, <1>1 DEF CtrlDown
  <2> QED
    BY ZenonT(40), <1>1, <1>2, <1>6, <2>1 DEF FlagsAre
<1>8. RingHolds'
  BY ZenonT(40), <1>1, <1>6, CharPushKeeps DEF KeyboardInv
<1> QED
  BY Zenon, <1>1, <1>3, <1>7, <1>8 DEF KeyboardInv, FlagsFollow

(* The prefix of an extended code is remembered. *)
LEMMA PrefixByte ==
    ASSUME KeyboardInv, ps2_keyboard_on_irq, event # NoChar,
           NEW k \in Key, NEW way \in Way, NEW keys \in SUBSET Key, NEW ctrl \in BOOLEAN,
           Behind(k, way, keys, ctrl), Len(wire) # 1
    PROVE  KeyboardInv'
<1> DEFINE lock == IF k = "CAPS" /\ way = "down" THEN ~caps ELSE caps
<1>0. wire # <<ScanCode(k, way)>>
  OBVIOUS
<1>1. /\ k \in Extended /\ wire = <<224, ScanCode(k, way)>> /\ FlagsAre(keys, ctrl, lock, FALSE)
      /\ event = <<k, way>> /\ held = IF way = "down" THEN keys \cup {k} ELSE keys \ {k}
      /\ CtrlDown <=> IF k \in Ctrl THEN way = "down" ELSE ctrl
  BY <1>0, Zenon DEF Behind
<1>2. Head(wire) = 224 /\ Tail(wire) = <<ScanCode(k, way)>> /\ Len(wire) = 2
  BY <1>1
<1>3. /\ wire' = <<ScanCode(k, way)>> /\ event' = event /\ typed' = typed
      /\ UNCHANGED <<g_kbd_tail, loaded, setup, owed, held, caps, lapse>>
  BY Zenon, <1>2 DEF ps2_keyboard_on_irq, Typed
<1>4. kbd' = [kbd EXCEPT !.extended_prefix = TRUE] /\ UNCHANGED ringVars
  <2>1. Head(wire) \in {224, 225}
    BY <1>2
  <2>2. ~on_irq_code(Head(wire))
    BY <2>1, Zenon DEF on_irq_code
  <2> QED
    BY <2>2, Zenon DEF ps2_keyboard_on_irq, on_irq_prefix
<1>5. FlagsAre(keys, ctrl, lock, k \in Extended)'
  <2>1. /\ kbd' \in [left_shift : BOOLEAN, right_shift : BOOLEAN, shift : BOOLEAN,
                     ctrl : BOOLEAN, alt : BOOLEAN, caps_lock : BOOLEAN,
                     extended_prefix : BOOLEAN]
        /\ kbd'.left_shift = kbd.left_shift /\ kbd'.right_shift = kbd.right_shift
        /\ kbd'.shift = kbd.shift /\ kbd'.ctrl = kbd.ctrl
        /\ kbd'.caps_lock = kbd.caps_lock /\ kbd'.extended_prefix
    BY Zenon, <1>1, <1>4 DEF FlagsAre
  <2>2. lock' = lock
    BY Zenon, <1>3
  <2> HIDE DEF lock
  <2> QED
    BY ZenonT(40), <1>1, <2>1, <2>2 DEF FlagsAre
<1>6. Behind(k, way, keys, ctrl)'
  <2>1. /\ event' = <<k, way>> /\ held' = IF way = "down" THEN keys \cup {k} ELSE keys \ {k}
        /\ CtrlDown' <=> IF k \in Ctrl THEN way = "down" ELSE ctrl
    BY Zenon, <1>1, <1>3 DEF CtrlDown
  <2> HIDE DEF lock
  <2>2. \/ /\ k \in Extended /\ wire' = <<224, ScanCode(k, way)>>
           /\ FlagsAre(keys, ctrl, lock, FALSE)'
        \/ wire' = <<ScanCode(k, way)>> /\ FlagsAre(keys, ctrl, lock, k \in Extended)'
    BY Zenon, <1>3, <1>5
  <2> QED
    BY <2>1, <2>2, Zenon DEF Behind, lock
<1>7. RingHolds'
  BY Zenon, <1>3, <1>4, RingUntouched DEF ringVars, KeyboardInv
<1>8. FlagsFollow'
  BY Zenon, <1>3, <1>6 DEF KeyboardInv, FlagsFollow, Ready
<1> QED
  BY ZenonT(40), <1>3, <1>7, <1>8 DEF KeyboardInv

(* What the tables make of a key that went down. *)
LEMMA TranslateKey ==
    ASSUME NEW k \in DOMAIN Code \ Extended, NEW a,
           a.shift \in BOOLEAN, a.ctrl \in BOOLEAN, a.caps_lock \in BOOLEAN
    PROVE  kbd_translate_make_scancode(a, Code[k])
             = IF k \in Printing
               THEN <<k, Form(k \in Letter, a.shift, a.caps_lock, a.ctrl)>> ELSE NoChar
<1>1. CASE k \in Printing
  <2>1. plain(Code[k]) = k /\ k # NoChar
    BY <1>1, Codes, PlainChars, KeyboardAssumption
       DEF Printing, Extended, KeyboardAssumption
  <2> QED
    BY <1>1, <2>1, Zenon DEF kbd_translate_make_scancode, kbd_is_alpha
<1>2. CASE k \notin Printing
  <2>1. plain(Code[k]) = NoChar
    BY <1>2, Codes, PlainChars DEF Printing, Extended
  <2> QED
    BY <1>2, <2>1, Zenon DEF kbd_translate_make_scancode
<1> QED
  BY Zenon, <1>1, <1>2

(* A character is typed in one of the three forms. *)
LEMMA FormTyped ==
    ASSUME NEW a, NEW b, NEW c, NEW d
    PROVE  Form(a, b, c, d) \in FormName
BY Zenon DEF Form, FormName

(* The last byte of a key event: the flags catch up with the keys held,    *)
(* and a printing key that went down is in the ring if there was room.     *)
LEMMA KeyByte ==
    ASSUME KeyboardInv, ps2_keyboard_on_irq, event # NoChar,
           NEW k \in Key, NEW way \in Way, NEW keys \in SUBSET Key, NEW ctrl \in BOOLEAN,
           Behind(k, way, keys, ctrl), Len(wire) = 1
    PROVE  KeyboardInv'
<1> DEFINE lock == IF k = "CAPS" /\ way = "down" THEN ~caps ELSE caps
           prefix == k \in Extended
           released == way = "up"
           code == Code[k]
           byte == ScanCode(k, way)
<1>0. wire # <<224, ScanCode(k, way)>>
  OBVIOUS
<1>1. /\ wire = <<byte>> /\ FlagsAre(keys, ctrl, lock, prefix)
      /\ event = <<k, way>> /\ held = IF way = "down" THEN keys \cup {k} ELSE keys \ {k}
      /\ CtrlDown <=> IF k \in Ctrl THEN way = "down" ELSE ctrl
  BY <1>0, Zenon DEF Behind
<1>2. Head(wire) = byte /\ wire' = <<>>
  BY <1>1 DEF ps2_keyboard_on_irq
<1>3. /\ event' = NoChar /\ typed' = Typed
      /\ UNCHANGED <<g_kbd_tail, loaded, setup, owed, held, caps, lapse>>
  BY Zenon DEF ps2_keyboard_on_irq
<1>4. k \in DOMAIN Code /\ code \in 0..127 /\ way \in {"down", "up"}
  BY SMTT(30), Z3T(30), Codes, KeyboardAssumption DEF KeyboardAssumption, Way
<1>5. byte = code + (IF released THEN 128 ELSE 0) /\ byte \notin {224, 225}
  BY <1>4, Codes DEF ScanCode
<1>6. on_irq_code(byte)
  BY <1>2, <1>5, ZenonT(40) DEF ps2_keyboard_on_irq, on_irq_prefix
<1>7. /\ kbd' \in [left_shift : BOOLEAN, right_shift : BOOLEAN, shift : BOOLEAN,
                   ctrl : BOOLEAN, alt : BOOLEAN, caps_lock : BOOLEAN,
                   extended_prefix : BOOLEAN]
      /\ ~kbd'.extended_prefix
      /\ kbd'.ctrl <=> IF code = 29 THEN ~released ELSE kbd.ctrl
      /\ kbd'.alt <=> IF code = 56 THEN ~released ELSE kbd.alt
      /\ kbd'.left_shift <=> IF ~prefix /\ code = 42 THEN ~released ELSE kbd.left_shift
      /\ kbd'.right_shift <=> IF ~prefix /\ code = 54 THEN ~released ELSE kbd.right_shift
      /\ kbd'.shift <=> IF ~prefix /\ code = 42 THEN ~released \/ kbd.right_shift
                        ELSE IF ~prefix /\ code = 54 THEN kbd.left_shift \/ ~released
                        ELSE kbd.shift
      /\ kbd'.caps_lock <=> IF code = 58 /\ ~prefix /\ ~released THEN ~kbd.caps_lock
                            ELSE kbd.caps_lock
      /\ \E a : /\ kbd_buffer_push(IF released \/ prefix THEN NoChar
                                   ELSE kbd_translate_make_scancode(a, code))
                /\ a.shift \in BOOLEAN /\ a.ctrl \in BOOLEAN /\ a.caps_lock \in BOOLEAN
                /\ a.shift = kbd'.shift /\ a.ctrl = kbd'.ctrl /\ a.caps_lock = kbd'.caps_lock
  <2>1. prefix \in BOOLEAN /\ released \in BOOLEAN
    BY SMTT(30), Z3T(30)
  <2> HIDE DEF lock, prefix, released, code, byte
  <2>2. Decoded(code, released, prefix)
    BY SMTT(30), Z3T(30), <1>1, <1>4, <1>5, <1>6, <2>1, CodeByte
  <2> QED
    BY <2>2, Zenon DEF Decoded
<1>8. FlagsAre(held, CtrlDown, caps, FALSE)'
  <2> USE DEF FlagsAre
  <2>0. /\ kbd.left_shift <=> "LSHIFT" \in keys
        /\ kbd.right_shift <=> "RSHIFT" \in keys
        /\ kbd.shift <=> keys \cap Shift # {}
        /\ kbd.ctrl <=> ctrl
    BY Zenon, <1>1
  <2>down. /\ held = IF ~released THEN keys \cup {k} ELSE keys \ {k}
           /\ lock = IF k = "CAPS" /\ ~released THEN ~caps ELSE caps
           /\ CtrlDown <=> IF k \in Ctrl THEN ~released ELSE ctrl
    <3>1. way = "down" <=> ~released
      BY Zenon, <1>4
    <3> HIDE DEF released
    <3> QED
      BY Zenon, <1>1, <3>1
  <2>codes. /\ code = 29 <=> k \in Ctrl
            /\ (~prefix /\ code = 42) <=> k = "LSHIFT"
            /\ (~prefix /\ code = 54) <=> k = "RSHIFT"
            /\ (code = 58 /\ ~prefix) <=> k = "CAPS"
    <3>1. k = "LSHIFT" \/ k = "RSHIFT" \/ k = "CAPS" => ~prefix
      BY Zenon DEF Extended
    <3> HIDE DEF prefix
    <3>2. /\ code = 29 <=> k \in Ctrl
          /\ code = 42 <=> k = "LSHIFT"
          /\ code = 54 <=> k = "RSHIFT"
          /\ code = 58 <=> k = "CAPS"
      BY <1>4, Codes
    <3> QED
      BY Zenon, <3>1, <3>2
  <2> HIDE DEF lock, prefix, released, code, byte
  <2>1. kbd'.ctrl <=> CtrlDown'
    <3>1. kbd'.ctrl <=> IF code = 29 THEN ~released ELSE kbd.ctrl
      BY Zenon, <1>7
    <3>2. CtrlDown' <=> CtrlDown
      BY Zenon, <1>3 DEF CtrlDown
    <3> QED
      BY Zenon, <2>0, <2>codes, <2>down, <3>1, <3>2
  <2>3. kbd'.left_shift <=> "LSHIFT" \in held
    <3>1. kbd'.left_shift <=> IF ~prefix /\ code = 42 THEN ~released ELSE kbd.left_shift
      BY Zenon, <1>7
    <3>2. "LSHIFT" \in held <=> IF k = "LSHIFT" THEN ~released ELSE "LSHIFT" \in keys
      BY Zenon, <2>down
    <3> QED
      BY Zenon, <2>0, <2>codes, <3>1, <3>2
  <2>4. kbd'.right_shift <=> "RSHIFT" \in held
    <3>1. kbd'.right_shift <=> IF ~prefix /\ code = 54 THEN ~released ELSE kbd.right_shift
      BY Zenon, <1>7
    <3>2. "RSHIFT" \in held <=> IF k = "RSHIFT" THEN ~released ELSE "RSHIFT" \in keys
      BY Zenon, <2>down
    <3> QED
      BY Zenon, <2>0, <2>codes, <3>1, <3>2
  <2>5. kbd'.shift <=> held \cap Shift # {}
    <3>1. kbd'.shift <=> IF ~prefix /\ code = 42 THEN ~released \/ kbd.right_shift
                         ELSE IF ~prefix /\ code = 54 THEN kbd.left_shift \/ ~released
                         ELSE kbd.shift
      BY Zenon, <1>7
    <3>2. held \cap Shift # {} <=> IF k = "LSHIFT" THEN ~released \/ "RSHIFT" \in keys
                                   ELSE IF k = "RSHIFT" THEN "LSHIFT" \in keys \/ ~released
                                   ELSE keys \cap Shift # {}
      BY Zenon, <2>down DEF Shift
    <3> QED
      BY Zenon, <2>0, <2>codes, <3>1, <3>2
  <2>6. kbd'.caps_lock <=> caps
    <3>1. kbd'.caps_lock <=> IF code = 58 /\ ~prefix /\ ~released THEN ~kbd.caps_lock
                             ELSE kbd.caps_lock
      BY Zenon, <1>7
    <3>2. kbd.caps_lock <=> lock
      BY Zenon, <1>1
    <3>3. caps \in BOOLEAN
      BY Zenon DEF KeyboardInv, FlagsFollow
    <3>4. lock <=> IF k = "CAPS" /\ ~released THEN ~caps ELSE caps
      BY Zenon, <2>down
    <3> QED
      BY Zenon, <2>codes, <3>1, <3>2, <3>3, <3>4
  <2> QED
    BY ZenonT(40), <1>3, <1>7, <2>1, <2>3, <2>4, <2>5, <2>6
<1>9. RingHolds'
  <2>1. PICK a : /\ kbd_buffer_push(IF released \/ prefix THEN NoChar
                                    ELSE kbd_translate_make_scancode(a, code))
                 /\ a.shift \in BOOLEAN /\ a.ctrl \in BOOLEAN /\ a.caps_lock \in BOOLEAN
                 /\ a.shift = kbd'.shift /\ a.ctrl = kbd'.ctrl /\ a.caps_lock = kbd'.caps_lock
    BY <1>7, Zenon
  <2> DEFINE ch == <<k, Form(k \in Letter, held \cap Shift # {}, caps, CtrlDown)>>
             x == IF k \in Printing /\ way = "down" THEN ch ELSE NoChar
  <2>2. ch \in Printing \X FormName \/ k \notin Printing
    BY Zenon, FormTyped
  <2>3. a.shift = (held \cap Shift # {}) /\ a.ctrl = CtrlDown /\ a.caps_lock = caps
    <3>1. CtrlDown' <=> CtrlDown
      BY Zenon, <1>3 DEF CtrlDown
    <3>2. CtrlDown \in BOOLEAN
      BY Zenon DEF CtrlDown
    <3> QED
      BY Zenon, <1>3, <1>8, <2>1, <3>1, <3>2 DEF FlagsAre, KeyboardInv, FlagsFollow
  <2>4. Printing \cap Extended = {}
    BY Zenon DEF Printing, Extended
  <2>5. (IF released \/ prefix THEN NoChar ELSE kbd_translate_make_scancode(a, code)) = x
    <3>1. CASE way = "up"
      BY Zenon, <3>1
    <3>2. CASE way = "down" /\ prefix
      BY Zenon, <2>4, <3>2
    <3>3. CASE way = "down" /\ ~prefix
      <4>1. kbd_translate_make_scancode(a, code)
              = IF k \in Printing THEN <<k, Form(k \in Letter, a.shift, a.caps_lock, a.ctrl)>>
                ELSE NoChar
        BY SMTT(30), Z3T(30), Zenon, <1>4, <2>1, <3>3, TranslateKey
      <4> QED
        BY <2>3, <3>3, <4>1, Zenon
    <3> QED
      BY ZenonT(40), <1>4, <3>1, <3>2, <3>3
  <2>6. kbd_buffer_push(x)
    BY Zenon, <2>1, <2>5
  <2>7. typed' = IF x # NoChar /\ Len(typed) < KBD_BUFFER_SIZE - 1 THEN Append(typed, x)
                 ELSE typed
    <3>1. event[1] = k /\ event[2] = way
      BY Zenon, <1>1
    <3>2. k \in Printing => ch # NoChar
      BY ZenonT(40), <2>2, FormTyped, KeyboardAssumption DEF KeyboardAssumption
    <3>3. Typed = IF k \in Printing /\ way = "down" /\ Len(typed) < KBD_BUFFER_SIZE - 1
                  THEN Append(typed, ch) ELSE typed
      BY <3>1, Zenon DEF Typed
    <3> HIDE DEF ch
    <3> QED
      BY Zenon, <1>3, <3>2, <3>3
  <2>8. x \in (Printing \X FormName) \cup {NoChar}
    BY Zenon, <2>2
  <2> HIDE DEF x
  <2> QED
    BY ZenonT(40), <1>3, <2>6, <2>7, <2>8, CharPushKeeps DEF KeyboardInv
<1>10. wire' \in Seq(Answer)
  BY SMTT(30), Z3T(30), <1>2
<1> QED
  BY Zenon, <1>3, <1>8, <1>9, <1>10 DEF KeyboardInv, FlagsFollow

(* A key is pressed, repeated or lifted: the flags are behind until the    *)
(* last byte of it is read.                                                *)
LEMMA KeyEventKeeps ==
    ASSUME KeyboardInv, NEW k \in Key, NEW way \in Way, KeyEvent(k, way)
    PROVE  KeyboardInv'
<1>1. /\ Ready /\ owed = 0 /\ wire = <<>>
      /\ UNCHANGED <<g_kbd_buffer, g_kbd_head, g_kbd_tail, kbd, loaded, setup, owed, typed>>
  BY Zenon DEF KeyEvent, ringVars
<1>2. RingHolds'
  BY Zenon, <1>1, RingUntouched DEF KeyboardInv
<1>3. event = NoChar
  <2>1. \A j, w, keys, ctrl : ~Behind(j, w, keys, ctrl)
    BY ZenonT(40), <1>1 DEF Behind
  <2> QED
    BY Zenon, <2>1 DEF KeyboardInv, FlagsFollow
<1>4. FlagsAre(held, CtrlDown, caps, FALSE) /\ held \in SUBSET Key /\ caps \in BOOLEAN
  BY Zenon, <1>3 DEF KeyboardInv, FlagsFollow
<1>5. PICK keys \in SUBSET Key, ctrl \in BOOLEAN : keys = held /\ ctrl = CtrlDown
  BY Zenon, <1>4 DEF CtrlDown
<1> DEFINE lock == IF k = "CAPS" /\ way = "down" THEN ~caps ELSE caps
<1>6. /\ event' = <<k, way>> /\ held' \in SUBSET Key /\ caps' \in BOOLEAN
      /\ held' = IF way = "down" THEN keys \cup {k} ELSE keys \ {k}
      /\ lock' = caps
  <2>1. CASE way = "down" /\ Press(k)
    BY Zenon, <1>4, <1>5, <2>1 DEF Press
  <2>2. CASE way = "up" /\ LiftKey(k)
    BY Zenon, <1>4, <1>5, <2>2 DEF LiftKey
  <2> QED
    BY Zenon, <2>1, <2>2 DEF KeyEvent
<1>7. CtrlDown' <=> IF k \in Ctrl THEN way = "down" ELSE ctrl
  <2>1. CASE way = "down" /\ Press(k)
    BY Zenon, <1>5, <2>1 DEF Press, CtrlDown
  <2>2. CASE way = "up" /\ LiftKey(k)
    BY Zenon, <1>5, <2>2 DEF LiftKey, CtrlDown
  <2> QED
    BY Zenon, <2>1, <2>2 DEF KeyEvent
<1>8. wire' = IF k \in Extended THEN <<224, ScanCode(k, way)>> ELSE <<ScanCode(k, way)>>
  BY Zenon DEF KeyEvent
<1>9. event' # NoChar
  BY Zenon, <1>6, KeyboardAssumption DEF KeyboardAssumption
<1> HIDE DEF lock
<1>10. FlagsAre(keys, ctrl, lock, FALSE)'
  BY Zenon, <1>1, <1>4, <1>5, <1>6 DEF FlagsAre
<1>11. \/ /\ k \in Extended /\ wire' = <<224, ScanCode(k, way)>>
          /\ FlagsAre(keys, ctrl, lock, FALSE)'
       \/ wire' = <<ScanCode(k, way)>> /\ FlagsAre(keys, ctrl, lock, k \in Extended)'
  <2>1. CASE k \in Extended
    BY Zenon, <1>8, <1>10, <2>1
  <2>2. CASE k \notin Extended
    <3>1. FlagsAre(keys, ctrl, lock, k \in Extended)'
      BY Zenon, <1>10, <2>2 DEF FlagsAre
    <3> QED
      BY Zenon, <1>8, <2>2, <3>1
  <2> QED
    BY Zenon, <2>1, <2>2
<1>12. Behind(k, way, keys, ctrl)'
  BY <1>6, <1>7, <1>11, Zenon DEF Behind, lock
<1>13. Ready' /\ owed' = 0
  BY <1>1, Zenon DEF Ready
<1>14. FlagsFollow'
  BY <1>6, <1>9, <1>12, <1>13, Zenon DEF FlagsFollow
<1> QED
  BY ZenonT(40), <1>1, <1>2, <1>13, <1>14 DEF KeyboardInv

(* Steps that leave the keys and the flags alone keep them in agreement. *)
LEMMA FlagsUntouched ==
    ASSUME FlagsFollow, UNCHANGED <<kbd, setup, owed, wire, event, held, caps, lapse>>
    PROVE  FlagsFollow'
<1>1. CtrlDown' <=> CtrlDown
  BY Zenon DEF CtrlDown
<1>2. ASSUME NEW k \in Key, NEW way \in Way, NEW keys \in SUBSET Key, NEW ctrl \in BOOLEAN,
             Behind(k, way, keys, ctrl)
      PROVE  Behind(k, way, keys, ctrl)'
  <2> DEFINE lock == IF k = "CAPS" /\ way = "down" THEN ~caps ELSE caps
  <2>1. lock' = lock
    BY Zenon
  <2>2. /\ event = <<k, way>> /\ held = IF way = "down" THEN keys \cup {k} ELSE keys \ {k}
        /\ CtrlDown <=> IF k \in Ctrl THEN way = "down" ELSE ctrl
        /\ \/ /\ k \in Extended /\ wire = <<224, ScanCode(k, way)>>
              /\ FlagsAre(keys, ctrl, lock, FALSE)
           \/ wire = <<ScanCode(k, way)>> /\ FlagsAre(keys, ctrl, lock, k \in Extended)
    BY <1>2, Zenon DEF Behind
  <2> HIDE DEF lock
  <2>3. \A prefix : FlagsAre(keys, ctrl, lock, prefix) => FlagsAre(keys, ctrl, lock, prefix)'
    BY <2>1 DEF FlagsAre
  <2>4. /\ event' = <<k, way>> /\ held' = IF way = "down" THEN keys \cup {k} ELSE keys \ {k}
        /\ CtrlDown' <=> IF k \in Ctrl THEN way = "down" ELSE ctrl
        /\ \/ /\ k \in Extended /\ wire' = <<224, ScanCode(k, way)>>
              /\ FlagsAre(keys, ctrl, lock, FALSE)'
           \/ wire' = <<ScanCode(k, way)>> /\ FlagsAre(keys, ctrl, lock, k \in Extended)'
    BY <1>1, <2>2, <2>3, Zenon
  <2> QED
    BY <2>4, Zenon DEF Behind, lock
<1>3. CASE event = NoChar
  BY <1>1, <1>3, Zenon DEF FlagsFollow, FlagsAre
<1>4. CASE event # NoChar
  <2>1. PICK k \in Key, way \in Way, keys \in SUBSET Key, ctrl \in BOOLEAN :
            Behind(k, way, keys, ctrl)
    BY Zenon, <1>4 DEF FlagsFollow
  <2>2. Behind(k, way, keys, ctrl)'
    BY Zenon, <1>2, <2>1
  <2>3. /\ Ready' /\ owed' = 0 /\ event' # NoChar
        /\ held' \in SUBSET Key /\ caps' \in BOOLEAN
    BY Zenon, <1>4 DEF FlagsFollow, Ready
  <2> QED
    BY ZenonT(40), <2>2, <2>3 DEF FlagsFollow
<1> QED
  BY Zenon, <1>3, <1>4

(* The state of boot, before ps2_keyboard_init talks to the device. *)
LEMMA KeyboardInit == ps2_keyboard_init => KeyboardInv
<1> SUFFICES ASSUME ps2_keyboard_init PROVE KeyboardInv
  BY Zenon
<1>1. KBD_BUFFER_SIZE \in Nat \ {0}
  BY ZenonT(40), KeyboardAssumption DEF KeyboardAssumption
<1>2. RingHolds
  <2>1. typed = <<>> /\ Len(typed) = 0 /\ g_kbd_tail = 0 /\ g_kbd_head = 0 /\ loaded = NoChar
    BY Zenon DEF ps2_keyboard_init
  <2>2. typed = Contents(g_kbd_buffer, g_kbd_tail, Len(typed), KBD_BUFFER_SIZE)
    BY Zenon, <2>1, EmptyRing
  <2>3. TailAgrees(g_kbd_tail, Len(typed), g_kbd_head, KBD_BUFFER_SIZE)
    BY SMTT(30), Z3T(30), <1>1, <2>1 DEF TailAgrees
  <2>4. DOMAIN g_kbd_buffer = 0..(KBD_BUFFER_SIZE - 1)
    BY Zenon DEF ps2_keyboard_init
  <2> QED
    BY SMTT(30), Z3T(30), <1>1, <2>1, <2>2, <2>3, <2>4 DEF RingHolds
<1>3. /\ held = {} /\ caps = FALSE /\ event = NoChar /\ wire = <<>>
      /\ FlagsAre(held, CtrlDown, caps, FALSE)
  BY Zenon DEF ps2_keyboard_init, FlagsAre, CtrlDown
<1>5. wire \in Seq(Answer)
  BY <1>3
<1> QED
  BY Zenon, <1>2, <1>3, <1>5 DEF KeyboardInv, FlagsFollow, ps2_keyboard_init

(* The invariant says what kbd_get_char will return. *)
LEMMA RingIsRead ==
    ASSUME RingHolds
    PROVE  TypedIsRead
<1> DEFINE N == KBD_BUFFER_SIZE
           n == Len(typed)
<1>1. /\ N \in Nat \ {0} /\ n \in 0..(N - 1) /\ g_kbd_tail \in 0..(N - 1) /\ n \in 0..N
      /\ typed = Contents(g_kbd_buffer, g_kbd_tail, n, N)
      /\ TailAgrees(g_kbd_tail, n, g_kbd_head, N)
  BY SMTT(30), Z3T(30), KeyboardAssumption DEF KeyboardAssumption, RingHolds
<1>2. \A i \in 1..n : g_kbd_buffer[(g_kbd_tail + i - 1) % N] = typed[i]
  <2> HIDE DEF n, N
  <2>1. \A i \in 1..n : Contents(g_kbd_buffer, g_kbd_tail, n, N)[i]
                          = g_kbd_buffer[(g_kbd_tail + i - 1) % N]
    BY Zenon DEF Contents
  <2> QED
    BY Zenon, <1>1, <2>1
<1>3. n = (g_kbd_head - g_kbd_tail) % N
  <2> HIDE DEF n, N
  <2>1. g_kbd_head = IF g_kbd_tail + n < N THEN g_kbd_tail + n ELSE g_kbd_tail + n - N
    BY <1>1, Wrap, Zenon DEF TailAgrees
  <2>2. g_kbd_head - g_kbd_tail = n \/ g_kbd_head - g_kbd_tail = n - N
    BY <1>1, <2>1
  <2>3. n % N = n /\ (n - N) % N = n
    BY <1>1, Z3
  <2> QED
    BY Zenon, <2>2, <2>3
<1> QED
  BY Zenon, <1>2, <1>3 DEF TypedIsRead, RingHolds

(* For every set of keys, any of them held at once and repeating, every    *)
(* size of the ring and every interleaving of typist, keyboard, interrupts *)
(* and reader: the ring holds, in order, what the Shift keys physically    *)
(* held, Caps Lock flipped by each of its codes, and Ctrl until one Ctrl   *)
(* key is lifted give each code; a reader that is interrupted between its  *)
(* load and its store still gets the oldest character, and answers that    *)
(* come late for ps2_keyboard_init type nothing (kbd_handle_scancode,      *)
(* kbd_update_modifiers, kbd_buffer_push, kbd_buffer_pop).                 *)
THEOREM TypedTextIsRead == KeyboardSpec => []TypedIsRead
<1>1. ASSUME KeyboardInv, [KeyboardNext]_kbdVars PROVE KeyboardInv'
  <2>1. CASE WriteData \/ ps2_expect_ack \/ KeyboardAnswers
    BY Zenon, <1>1, <2>1, SetupKeeps
  <2>2. CASE \E k \in Key, way \in Way : KeyEvent(k, way)
    BY ZenonT(40), <1>1, <2>2, KeyEventKeeps
  <2>3. CASE ps2_keyboard_on_irq
    <3>1. CASE event = NoChar
      BY Zenon, <1>1, <2>3, <3>1, AnswerByte
    <3>2. CASE event # NoChar
      <4>1. PICK k \in Key, way \in Way, keys \in SUBSET Key, ctrl \in BOOLEAN :
                Behind(k, way, keys, ctrl)
        BY Zenon, <1>1, <3>2 DEF KeyboardInv, FlagsFollow
      <4> QED
        BY Zenon, <1>1, <2>3, <3>2, <4>1, PrefixByte, KeyByte
    <3> QED
      BY Zenon, <3>1, <3>2
  <2>4. CASE PopLoad \/ PopAdvance
    <3>1. RingHolds'
      BY Zenon, <1>1, <2>4, KeyPopKeeps DEF KeyboardInv
    <3>2. UNCHANGED <<kbd, setup, owed, wire, event, held, caps, lapse>>
      BY Zenon, <2>4 DEF PopLoad, PopAdvance, typistVars
    <3>3. FlagsFollow'
      BY Zenon, <1>1, <3>2, FlagsUntouched DEF KeyboardInv
    <3> QED
      BY Zenon, <1>1, <3>1, <3>2, <3>3 DEF KeyboardInv
  <2>5. CASE UNCHANGED kbdVars
    <3>1. UNCHANGED <<kbd, setup, owed, wire, event, held, caps, lapse, g_kbd_buffer, g_kbd_head,
                      g_kbd_tail, loaded, typed>>
      BY Zenon, <2>5 DEF kbdVars, ringVars, typistVars
    <3>2. FlagsFollow'
      BY Zenon, <1>1, <3>1, FlagsUntouched DEF KeyboardInv
    <3> QED
      BY Zenon, <1>1, <3>1, <3>2, RingUntouched DEF KeyboardInv
  <2> QED
    BY ZenonT(40), <1>1, <2>1, <2>2, <2>3, <2>4, <2>5 DEF KeyboardNext
<1>2. KeyboardInv => TypedIsRead
  BY Zenon, RingIsRead DEF KeyboardInv
<1> QED
  BY <1>1, <1>2, KeyboardInit, PTL DEF KeyboardSpec

-----------------------------------------------------------------------------
(* The work queue (workqueue.c). *)

INSTANCE FiniteSetTheorems

WqInv == WqTypeOK /\ RingInv /\ CountsAddUp

(* A worker that becomes busy, or stops being busy, moves the count by one. *)
LEMMA BusyMoves ==
    ASSUME wpc \in [Worker -> {"pop", "wait", "run", "count"}], NEW w \in Worker, NEW to,
           wpc' = [wpc EXCEPT ![w] = to]
    PROVE  /\ Cardinality(Busy) \in Nat
           /\ (w \notin Busy /\ to \in {"run", "count"}) =>
                Cardinality(Busy') = Cardinality(Busy) + 1
           /\ (w \in Busy /\ to \in {"run", "count"}) => Busy' = Busy
           /\ (w \in Busy /\ to \notin {"run", "count"}) =>
                Cardinality(Busy') = Cardinality(Busy) - 1
           /\ (w \notin Busy /\ to \notin {"run", "count"}) => Busy' = Busy
<1>1. IsFiniteSet(Busy)
  BY Zenon, WorkQueueAssumption, FS_Subset DEF Busy, WorkQueueAssumption
<1>2. Cardinality(Busy) \in Nat
  BY Zenon, <1>1, FS_CardinalityType
<1>3. \A v \in Worker : v \in Busy' <=> IF v = w THEN to \in {"run", "count"} ELSE v \in Busy
  BY Zenon DEF Busy
<1>4. Busy \subseteq Worker /\ Busy' \subseteq Worker
  BY Zenon DEF Busy
<1>5. ASSUME w \notin Busy, to \in {"run", "count"}
      PROVE  Cardinality(Busy') = Cardinality(Busy) + 1
  <2>1. Busy' = Busy \cup {w}
    BY ZenonT(40), <1>3, <1>4, <1>5
  <2> QED
    BY ZenonT(40), <2>1, <1>1, <1>5, FS_AddElement
<1>6. ASSUME w \in Busy, to \notin {"run", "count"}
      PROVE  Cardinality(Busy') = Cardinality(Busy) - 1
  <2>1. Busy' = Busy \ {w}
    BY ZenonT(40), <1>3, <1>4, <1>6
  <2> QED
    BY ZenonT(40), <2>1, <1>1, <1>6, FS_RemoveElement
<1>7. ASSUME w \in Busy, to \in {"run", "count"} PROVE Busy' = Busy
  BY ZenonT(40), <1>3, <1>4, <1>7
<1>8. ASSUME w \notin Busy, to \notin {"run", "count"} PROVE Busy' = Busy
  BY Zenon, <1>3, <1>4, <1>8
<1> QED
  BY ZenonT(40), <1>2, <1>5, <1>6, <1>7, <1>8

(* workqueue_init leaves an empty ring, zero statistics and no waiter.        *)
LEMMA WqInitInv == WqInit => WqInv
<1> SUFFICES ASSUME WqInit PROVE WqInv
  BY Zenon
<1> USE WorkQueueAssumption DEF WorkQueueAssumption
<1>1. WqTypeOK
  <2>1. 0 \in WqIndex /\ 0 \in 0..WqCapacity
    BY DEF WqIndex
  <2>2. waiters \in [{"waiters"} -> Seq(Worker)]
    BY DEF WqInit
  <2> QED
    BY Zenon, <2>1, <2>2 DEF WqInit, WqTypeOK
<1>2. RingInv
  <2>1. 0 \in 0..(WqCapacity - 1) /\ 0 \in 0..WqCapacity
    OBVIOUS
  <2>2. (0 + 0) % WqCapacity = 0
    BY <2>1, Wrap
  <2>3. 1..0 = {}
    OBVIOUS
  <2> QED
    BY Zenon, <2>2, <2>3 DEF WqInit, RingInv, TailAgrees
<1>3. CountsAddUp
  <2>1. Busy = {}
    BY Zenon DEF WqInit, Busy
  <2> QED
    BY <2>1, FS_EmptySet DEF WqInit, CountsAddUp
<1> QED
  BY Zenon, <1>1, <1>2, <1>3 DEF WqInv

(* A submission appends to the ring, or is refused. *)
LEMMA SubmitKeeps ==
    ASSUME WqInv, NEW s \in Submitter, Submit(s)
    PROVE  /\ WqInv'
           /\ \/ size < WqCapacity /\ \E x \in Item : Queued' = Append(Queued, x)
              \/ Queued' = Queued
           /\ item' = item
<1> USE WorkQueueAssumption DEF WorkQueueAssumption, WqInv
<1>1. PICK x \in Item :
        IF size < WqCapacity
        THEN /\ items' = [items EXCEPT ![wq_tail] = x]
             /\ wq_tail' = (wq_tail + 1) % WqCapacity
             /\ size' = size + 1
             /\ unfinished' = unfinished + 1
             /\ subpc' = [subpc EXCEPT ![s] = "wake"]
        ELSE UNCHANGED <<items, wq_tail, size, unfinished, subpc>>
  BY Zenon DEF Submit
<1>2. UNCHANGED <<wq_head, status, waiters, wpc, item>>
  BY Zenon DEF Submit, sched
<1>3. Busy' = Busy
  BY ZenonT(40), <1>2 DEF Busy
<1>4. CASE size < WqCapacity
  <2>1. /\ size \in 0..(WqCapacity - 1) /\ wq_head \in 0..(WqCapacity - 1)
        /\ items \in [0..(WqCapacity - 1) -> Item \cup {NONE}]
        /\ wq_tail = (wq_head + size) % WqCapacity
    BY <1>4 DEF WqTypeOK, WqIndex, RingInv, TailAgrees
  <2>2. /\ items' = [items EXCEPT ![wq_tail] = x] /\ wq_tail' = (wq_tail + 1) % WqCapacity
        /\ size' = size + 1 /\ unfinished' = unfinished + 1 /\ subpc' = [subpc EXCEPT ![s] = "wake"]
    BY Zenon, <1>1, <1>4
  <2>4. /\ Contents(items', wq_head, size + 1, WqCapacity)
             = Append(Contents(items, wq_head, size, WqCapacity), x)
        /\ TailAgrees(wq_head, size + 1, (wq_tail + 1) % WqCapacity, WqCapacity)
        /\ (wq_tail + 1) % WqCapacity \in 0..(WqCapacity - 1)
        /\ \A i \in 1..(size + 1) :
             items'[(wq_head + i - 1) % WqCapacity]
               = IF i = size + 1 THEN x ELSE items[(wq_head + i - 1) % WqCapacity]
    <3>1. HasRoom(WqCapacity, wq_head, size)
      BY Zenon, <2>1 DEF HasRoom
    <3>2. Stored(items', items, wq_tail, x, WqCapacity)
      BY ZenonT(40), <2>1, <2>2 DEF WqTypeOK, WqIndex, Stored
    <3>3. TailAgrees(wq_head, size, wq_tail, WqCapacity)
      BY ZenonT(40) DEF RingInv
    <3> HIDE WorkQueueAssumption DEF WqInv
    <3>4. Put(items', items, x, wq_head, size, wq_tail, WqCapacity)
      BY Zenon, <3>1, <3>2, <3>3, RingPut
    <3> QED
      BY Zenon, <3>4 DEF Put
  <2>5. WqTypeOK'
    <3>1. wq_tail' \in WqIndex /\ size' \in 0..WqCapacity /\ unfinished' \in Nat
      BY <2>1, <2>2, <2>4 DEF WqTypeOK, WqIndex
    <3>2. items' \in [WqIndex -> Item \cup {NONE}] /\ subpc' \in [Submitter -> {"submit", "wake"}]
      BY Zenon, <2>2 DEF WqTypeOK
    <3> QED
      BY ZenonT(40), <1>2, <3>1, <3>2 DEF WqTypeOK
  <2>6. RingInv'
    <3>1. \A i \in 1..(size + 1) : items'[(wq_head + i - 1) % WqCapacity] \in Item
      <4> TAKE i \in 1..(size + 1)
      <4>1. items'[(wq_head + i - 1) % WqCapacity]
               = IF i = size + 1 THEN x ELSE items[(wq_head + i - 1) % WqCapacity]
        BY ZenonT(40), <2>2, <2>4
      <4>2. CASE i = size + 1
        BY ZenonT(40), <4>1, <4>2
      <4>3. CASE i # size + 1
        <5>1. i \in 1..size
          BY <2>1, <4>3
        <5> QED
          BY ZenonT(40), <4>1, <4>3, <5>1 DEF RingInv
      <4> QED
        BY ZenonT(40), <4>2, <4>3
    <3>2. TailAgrees(wq_head, size, wq_tail, WqCapacity)'
      BY ZenonT(40), <1>2, <2>2, <2>4 DEF TailAgrees
    <3> QED
      BY Zenon, <1>2, <2>2, <3>1, <3>2 DEF RingInv
  <2>7. CountsAddUp'
    <3>1. Cardinality(Busy) \in Nat
      BY ZenonT(40), FS_Subset, FS_CardinalityType DEF Busy
    <3> QED
      BY SMTT(30), Z3T(30), <1>3, <2>1, <2>2, <3>1 DEF CountsAddUp
  <2>8. Queued' = Append(Queued, x)
    BY ZenonT(40), <1>2, <2>2, <2>4 DEF Queued
  <2> QED
    BY ZenonT(40), <1>2, <1>4, <2>5, <2>6, <2>7, <2>8
<1>5. CASE ~(size < WqCapacity)
  <2>1. UNCHANGED <<items, wq_tail, size, unfinished, subpc>>
    BY Zenon, <1>1, <1>5
  <2>2. WqTypeOK'
    BY ZenonT(40), <1>2, <2>1 DEF WqTypeOK
  <2>3. RingInv' /\ CountsAddUp' /\ Queued' = Queued
    BY ZenonT(40), <1>2, <1>3, <2>1 DEF RingInv, TailAgrees, CountsAddUp, Queued
  <2> QED
    BY ZenonT(40), <1>2, <2>2, <2>3
<1> QED
  BY ZenonT(40), <1>4, <1>5

(* A pop takes the oldest item, or finds none. *)
LEMMA PopKeeps ==
    ASSUME WqInv, NEW w \in Worker, Pop(w)
    PROVE  /\ WqInv'
           /\ \/ /\ Queued # <<>> /\ item[w] = NONE
                 /\ Queued' = Tail(Queued)
                 /\ item' = [item EXCEPT ![w] = Head(Queued)]
              \/ UNCHANGED <<Queued, item>>
<1> USE WorkQueueAssumption DEF WorkQueueAssumption, WqInv
<1>1. wpc[w] = "pop" /\ UNCHANGED <<items, wq_tail, unfinished, status, waiters, subpc>>
  BY Zenon DEF Pop, sched
<1>2. w \notin Busy /\ wpc \in [Worker -> {"pop", "wait", "run", "count"}]
  BY ZenonT(40), <1>1 DEF Busy, WqTypeOK
<1>3. item[w] = NONE
  BY ZenonT(40), <1>1 DEF RingInv
<1>4. CASE size > 0
  <2>1. /\ item' = [item EXCEPT ![w] = items[wq_head]] /\ wq_head' = (wq_head + 1) % WqCapacity
        /\ size' = size - 1 /\ wpc' = [wpc EXCEPT ![w] = "run"]
    BY ZenonT(40), <1>4 DEF Pop
  <2>2. size \in 1..WqCapacity /\ wq_head \in 0..(WqCapacity - 1) /\ wq_tail = (wq_head + size) % WqCapacity
    BY <1>4 DEF WqTypeOK, WqIndex, RingInv, TailAgrees
  <2>3. /\ Contents(items, wq_head, size, WqCapacity) # <<>>
        /\ Head(Contents(items, wq_head, size, WqCapacity)) = items[wq_head]
        /\ Tail(Contents(items, wq_head, size, WqCapacity))
             = Contents(items, (wq_head + 1) % WqCapacity, size - 1, WqCapacity)
        /\ (((wq_head + 1) % WqCapacity) + (size - 1)) % WqCapacity = (wq_head + size) % WqCapacity
        /\ (wq_head + 1) % WqCapacity \in 0..(WqCapacity - 1)
        /\ items[wq_head] \in Item
        /\ \A i \in 1..(size - 1) : items[(((wq_head + 1) % WqCapacity) + i - 1) % WqCapacity] \in Item
    <3>1. \A i \in 1..size : items[(wq_head + i - 1) % WqCapacity] \in Item
      BY Zenon DEF RingInv
    <3> QED
      BY Zenon, <2>2, <3>1, RingTake
  <2>4. WqTypeOK'
    <3>1. wq_head' \in WqIndex /\ size' \in 0..WqCapacity
      BY <2>1, <2>2, <2>3 DEF WqIndex
    <3>2. item' \in [Worker -> Item \cup {NONE}]
      BY Zenon, <2>1, <2>3 DEF WqTypeOK
    <3>3. wpc' \in [Worker -> {"pop", "wait", "run", "count"}]
      BY Zenon, <2>1 DEF WqTypeOK
    <3> QED
      BY ZenonT(40), <1>1, <3>1, <3>2, <3>3 DEF WqTypeOK
  <2>5. RingInv'
    <3>1. TailAgrees(wq_head, size, wq_tail, WqCapacity)'
      BY Zenon, <1>1, <2>1, <2>2, <2>3 DEF TailAgrees
    <3>2. \A i \in 1..size' : items'[(wq_head' + i - 1) % WqCapacity] \in Item
      BY Zenon, <1>1, <2>1, <2>3
    <3>3. \A v \in Worker : item'[v] # NONE <=> wpc'[v] = "run"
      BY Zenon, <2>1, <2>3 DEF RingInv, WqTypeOK
    <3> QED
      BY ZenonT(40), <3>1, <3>2, <3>3 DEF RingInv
  <2>6. CountsAddUp'
    <3>1. Cardinality(Busy') = Cardinality(Busy) + 1 /\ Cardinality(Busy) \in Nat
      BY Zenon, <1>2, <2>1, BusyMoves
    <3> QED
      BY <1>1, <2>1, <2>2, <3>1 DEF CountsAddUp
  <2>7. Queued # <<>> /\ Queued' = Tail(Queued) /\ Head(Queued) = items[wq_head]
    BY Zenon, <1>1, <2>1, <2>3 DEF Queued
  <2> QED
    BY Zenon, <1>3, <2>1, <2>4, <2>5, <2>6, <2>7
<1>5. CASE ~(size > 0)
  <2>1. /\ UNCHANGED <<item, wq_head, size>>
    BY Zenon, <1>5 DEF Pop
  <2> PICK to \in {"pop", "wait"} : wpc' = [wpc EXCEPT ![w] = to]
    BY Zenon, <1>5 DEF Pop
  <2>2. WqTypeOK'
    BY Zenon, <1>1, <2>1 DEF WqTypeOK
  <2>3. \A v \in Worker : wpc'[v] = "run" <=> wpc[v] = "run"
    BY Zenon, <1>1, <2>1 DEF WqTypeOK
  <2>4. RingInv'
    BY Zenon, <1>1, <2>1, <2>3 DEF RingInv, TailAgrees
  <2>5. Busy' = Busy
    BY ZenonT(40), <1>2, <2>1, BusyMoves
  <2>6. CountsAddUp' /\ Queued' = Queued
    BY Zenon, <1>1, <2>1, <2>5 DEF CountsAddUp, Queued
  <2> QED
    BY ZenonT(40), <2>1, <2>2, <2>4, <2>6
<1> QED
  BY ZenonT(40), <1>4, <1>5

(* Steps that leave the ring alone: they move a task, or finish an item. *)
LEMMA OtherKeeps ==
    ASSUME WqInv,
           \/ \E s \in Submitter : Wake(s)
           \/ \E w \in Worker : Wait(w) \/ Run(w) \/ Count(w)
           \/ \E t \in Task : Dispatch(t) \/ Preempt(t)
    PROVE  /\ WqInv'
           /\ Queued' = Queued
           /\ \/ \E w \in Worker : item[w] # NONE /\ item' = [item EXCEPT ![w] = NONE]
              \/ item' = item
<1> USE WorkQueueAssumption DEF WorkQueueAssumption, WqInv
<1>1. UNCHANGED ring
  BY ZenonT(40) DEF Wake, Wait, Run, Count, Dispatch, Preempt
<1>2. /\ Queued' = Queued /\ TailAgrees(wq_head, size, wq_tail, WqCapacity)'
      /\ \A i \in 1..size' : items'[(wq_head' + i - 1) % WqCapacity] \in Item
  BY ZenonT(40), <1>1 DEF ring, Queued, RingInv, TailAgrees
<1>3. /\ items' \in [WqIndex -> Item \cup {NONE}]
      /\ wq_head' \in WqIndex /\ wq_tail' \in WqIndex /\ size' \in 0..WqCapacity
  BY Zenon, <1>1 DEF ring, WqTypeOK
<1>4. ASSUME NEW s \in Submitter, Wake(s)
      PROVE  WqInv' /\ item' = item
  <2>1. subpc' = [subpc EXCEPT ![s] = "submit"] /\ UNCHANGED <<unfinished, wpc, item>>
    BY Zenon, <1>4 DEF Wake
  <2>2. /\ status' \in [Task -> {"READY", "RUNNING", "BLOCKED"}]
        /\ waiters' \in [{"waiters"} -> Seq(Worker)]
    <3>1. CASE waiters["waiters"] = <<>>
      BY Zenon, <1>4, <3>1 DEF Wake, sched, WqTypeOK
    <3>2. CASE waiters["waiters"] # <<>>
      <4>1. /\ status' = [status EXCEPT ![Head(waiters["waiters"])] = "READY"]
            /\ waiters' = [waiters EXCEPT !["waiters"] = Tail(@)]
        BY ZenonT(40), <1>4, <3>2 DEF Wake, Sched!WakeHead, Sched!Become
      <4>2. waiters["waiters"] \in Seq(Worker)
        BY Zenon DEF WqTypeOK
      <4>3. Tail(waiters["waiters"]) \in Seq(Worker)
        BY SMTT(30), Z3T(30), <3>2, <4>2
      <4> QED
        BY ZenonT(40), SMT, <4>1, <4>3 DEF WqTypeOK
    <3> QED
      BY Zenon, <3>1, <3>2
  <2>3. WqTypeOK'
    BY Zenon, <1>3, <2>1, <2>2 DEF WqTypeOK
  <2>4. RingInv' /\ CountsAddUp'
    BY ZenonT(40), <1>1, <1>2, <2>1 DEF ring, RingInv, CountsAddUp, Busy
  <2> QED
    BY ZenonT(40), <2>1, <2>3, <2>4
<1>5. ASSUME NEW w \in Worker, Wait(w)
      PROVE  WqInv' /\ item' = item
  <2>1. /\ wpc[w] = "wait" /\ wpc' = [wpc EXCEPT ![w] = "pop"] /\ UNCHANGED <<unfinished, item, subpc>>
        /\ status' = [status EXCEPT ![w] = "BLOCKED"]
        /\ waiters' = [waiters EXCEPT !["waiters"] = Append(@, w)]
    BY Zenon, <1>5 DEF Wait, Sched!Block, Sched!Become
  <2>2. Append(waiters["waiters"], w) \in Seq(Worker)
    BY DEF WqTypeOK
  <2>3. WqTypeOK'
    BY ZenonT(40), <1>3, <2>1, <2>2 DEF WqTypeOK
  <2>4. RingInv'
    BY Zenon, <1>2, <2>1 DEF RingInv, WqTypeOK
  <2>5. Busy' = Busy
    BY Zenon, <2>1 DEF Busy, WqTypeOK
  <2>6. CountsAddUp'
    BY Zenon, <1>1, <2>1, <2>5 DEF ring, CountsAddUp
  <2> QED
    BY ZenonT(40), <2>1, <2>3, <2>4, <2>6
<1>6. ASSUME NEW w \in Worker, Run(w)
      PROVE  WqInv' /\ item[w] # NONE /\ item' = [item EXCEPT ![w] = NONE]
  <2>1. /\ wpc[w] = "run" /\ wpc' = [wpc EXCEPT ![w] = "count"]
        /\ item' = [item EXCEPT ![w] = NONE] /\ UNCHANGED <<unfinished, status, waiters, subpc>>
    BY Zenon, <1>6 DEF Run, sched
  <2>2. WqTypeOK'
    BY ZenonT(40), <1>3, <2>1 DEF WqTypeOK
  <2>3. RingInv'
    BY Zenon, <1>2, <2>1 DEF RingInv, WqTypeOK
  <2>4. Busy' = Busy
    BY Zenon, <2>1 DEF Busy, WqTypeOK
  <2>5. CountsAddUp'
    BY ZenonT(40), <1>1, <2>1, <2>4 DEF ring, CountsAddUp
  <2>6. item[w] # NONE
    BY Zenon, <2>1 DEF RingInv
  <2> QED
    BY ZenonT(40), <2>1, <2>2, <2>3, <2>5, <2>6
<1>7. ASSUME NEW w \in Worker, Count(w)
      PROVE  WqInv' /\ item' = item
  <2>1. /\ wpc[w] = "count" /\ wpc' = [wpc EXCEPT ![w] = "pop"] /\ unfinished' = unfinished - 1
        /\ UNCHANGED <<item, status, waiters, subpc>>
    BY Zenon, <1>7 DEF Count, sched
  <2>2. w \in Busy /\ wpc \in [Worker -> {"pop", "wait", "run", "count"}]
    BY Zenon, <2>1 DEF Busy, WqTypeOK
  <2>3. /\ Cardinality(Busy') = Cardinality(Busy) - 1 /\ Cardinality(Busy) \in Nat
    <3>1. PICK to : to = "pop"
      BY Zenon
    <3>2. to \notin {"run", "count"} /\ wpc' = [wpc EXCEPT ![w] = to]
      BY Zenon, <2>1, <3>1
    <3>3. /\ Cardinality(Busy) \in Nat
          /\ (w \in Busy /\ to \notin {"run", "count"}) =>
               Cardinality(Busy') = Cardinality(Busy) - 1
      BY Zenon, <2>2, <3>2, BusyMoves
    <3> QED
      BY Zenon, <2>2, <3>2, <3>3
  <2>4. Cardinality(Busy') \in Nat
    BY ZenonT(40), FS_Subset, FS_CardinalityType DEF Busy
  <2>5. CountsAddUp' /\ unfinished' \in Nat
    BY SMTT(30), Z3T(30), <1>1, <2>1, <2>3, <2>4 DEF ring, CountsAddUp, WqTypeOK
  <2>6. WqTypeOK'
    BY Zenon, <1>3, <2>1, <2>5 DEF WqTypeOK
  <2>7. RingInv'
    BY Zenon, <1>2, <2>1 DEF RingInv, WqTypeOK
  <2> QED
    BY ZenonT(40), <2>1, <2>5, <2>6, <2>7
<1>8. ASSUME NEW t \in Task, Dispatch(t) \/ Preempt(t)
      PROVE  WqInv' /\ item' = item
  <2>1. UNCHANGED <<waiters, unfinished, wpc, item, subpc>>
    BY Zenon, <1>8 DEF Dispatch, Preempt, Sched!Dispatch, Sched!Release
  <2>2. status' \in [Task -> {"READY", "RUNNING", "BLOCKED"}]
    BY SMTT(30), Z3T(30), <1>8 DEF Dispatch, Preempt, Sched!Dispatch, Sched!Release, Sched!Become, WqTypeOK
  <2>3. WqTypeOK'
    BY Zenon, <1>3, <2>1, <2>2 DEF WqTypeOK
  <2>4. RingInv' /\ CountsAddUp'
    BY Zenon, <1>1, <1>2, <2>1 DEF ring, RingInv, CountsAddUp, Busy
  <2> QED
    BY Zenon, <2>1, <2>3, <2>4
<1> QED
  BY ZenonT(40), <1>2, <1>4, <1>5, <1>6, <1>7, <1>8

(* The work queue keeps its invariant. *)
THEOREM WorkQueueInvariant == WqSpec => []WqInv
<1>1. WqInv /\ [WqNext]_wqVars => WqInv'
  <2> SUFFICES ASSUME WqInv, [WqNext]_wqVars PROVE WqInv'
    BY Zenon
  <2>1. CASE UNCHANGED wqVars
    <3>1. WqTypeOK' /\ RingInv'
      BY Zenon, <2>1 DEF wqVars, WqInv, WqTypeOK, RingInv, TailAgrees
    <3>2. CountsAddUp'
      BY Zenon, <2>1 DEF wqVars, WqInv, CountsAddUp, Busy
    <3> QED
      BY Zenon, <3>1, <3>2 DEF WqInv
  <2>2. CASE WqNext
    BY ZenonT(40), <2>2, SubmitKeeps, PopKeeps, OtherKeeps DEF WqNext, WorkerStep
  <2> QED
    BY Zenon, <2>1, <2>2
<1> QED
  BY <1>1, WqInitInv, PTL DEF WqSpec

(* Types are kept; head, tail and size never leave their ranges. *)
THEOREM WqTypeCorrect == WqSpec => []WqTypeOK
<1>1. WqInv => WqTypeOK
  BY ZenonT(40) DEF WqInv
<1> QED
  BY <1>1, WorkQueueInvariant, PTL

(* The statistics of a work queue always add up. *)
THEOREM StatisticsAddUp == WqSpec => []CountsAddUp
<1>1. WqInv => CountsAddUp
  BY Zenon DEF WqInv
<1> QED
  BY <1>1, WorkQueueInvariant, PTL

(* The ring implements a bounded FIFO queue, whatever tasks share it. *)
THEOREM WorkQueueIsFifo == WqSpec => ImplementsFifo
<1> DEFINE fifo == [q \in {"items"} |-> Queued]
<1>1. WqInit => Items!FifoInit
  <2> SUFFICES ASSUME WqInit PROVE Items!FifoInit
    BY Zenon
  <2>1. Queued = <<>>
    BY Zenon, EmptyRing DEF WqInit, Queued
  <2> QED
    BY Zenon, <2>1 DEF WqInit, Items!FifoInit
<1>2. WqInv /\ [WqNext]_wqVars => [Items!FifoNext]_(Items!fifoVars)
  <2> SUFFICES ASSUME WqInv, [WqNext]_wqVars
               PROVE  Items!FifoNext \/ UNCHANGED <<fifo, item>>
    BY Zenon DEF Items!fifoVars
  <2>1. Len(Queued) = size
    <3>1. Queued \in [1..size -> Item] /\ size \in Nat
      BY WorkQueueAssumption DEF WqInv, RingInv, WqTypeOK, Queued, Contents, WorkQueueAssumption
    <3> QED
      BY Zenon, <3>1, FunctionIsSeq
  <2>2. ASSUME Queued' = Queued PROVE fifo' = fifo
    BY Zenon, <2>2
  <2>3. ASSUME NEW s \in Submitter, Submit(s)
        PROVE  Items!FifoNext \/ UNCHANGED <<fifo, item>>
    <3>1. item' = item
      BY ZenonT(40), <2>3, SubmitKeeps
    <3>2. CASE Queued' = Queued
      BY Zenon, <3>1, <3>2
    <3>3. CASE size < WqCapacity /\ \E x \in Item : Queued' = Append(Queued, x)
      <4>1. PICK x \in Item : Queued' = Append(Queued, x)
        BY Zenon, <3>3
      <4>2. Items!Put("items", x)
        <5>1. fifo' = [fifo EXCEPT !["items"] = Append(Queued, x)]
          BY Zenon, <4>1
        <5> QED
          BY Zenon, <2>1, <3>1, <3>3, <5>1 DEF Items!Put
      <4> QED
        BY Zenon, <4>2 DEF Items!FifoNext
    <3> QED
      BY Zenon, <2>3, <3>2, <3>3, SubmitKeeps
  <2>4. ASSUME NEW w \in Worker, Pop(w)
        PROVE  Items!FifoNext \/ UNCHANGED <<fifo, item>>
    <3>1. CASE UNCHANGED <<Queued, item>>
      BY Zenon, <3>1
    <3>2. CASE /\ Queued # <<>> /\ item[w] = NONE /\ Queued' = Tail(Queued)
               /\ item' = [item EXCEPT ![w] = Head(Queued)]
      <4>1. fifo' = [fifo EXCEPT !["items"] = Tail(Queued)]
        BY Zenon, <3>2
      <4>2. Items!Take("items", w)
        BY Zenon, <3>2, <4>1 DEF Items!Take
      <4> QED
        BY Zenon, <4>2 DEF Items!FifoNext
    <3> QED
      BY Zenon, <2>4, <3>1, <3>2, PopKeeps
  <2>5. ASSUME \/ \E s \in Submitter : Wake(s)
               \/ \E w \in Worker : Wait(w) \/ Run(w) \/ Count(w)
               \/ \E t \in Task : Dispatch(t) \/ Preempt(t)
        PROVE  Items!FifoNext \/ UNCHANGED <<fifo, item>>
    <3>1. fifo' = fifo
      BY Zenon, <2>5, <2>2, OtherKeeps
    <3>2. CASE item' = item
      BY Zenon, <3>1, <3>2
    <3>3. CASE \E w \in Worker : item[w] # NONE /\ item' = [item EXCEPT ![w] = NONE]
      <4>1. \E w \in Worker : Items!Finish(w)
        BY ZenonT(40), <3>1, <3>3 DEF Items!Finish
      <4> QED
        BY Zenon, <4>1 DEF Items!FifoNext
    <3> QED
      BY ZenonT(40), <2>5, <3>2, <3>3, OtherKeeps
  <2>6. CASE UNCHANGED wqVars
    BY Zenon, <2>6 DEF wqVars, Queued
  <2> QED
    BY Zenon, <2>3, <2>4, <2>5, <2>6 DEF WqNext, WorkerStep
<1> QED
  BY <1>1, <1>2, WorkQueueInvariant, PTL DEF WqSpec, ImplementsFifo, Items!FifoSpec

=============================================================================
