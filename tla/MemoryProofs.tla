---------------------------- MODULE MemoryProofs ----------------------------
(***************************************************************************)
(* Proofs about the memory of the kernel: the list of attachments of a     *)
(* shared memory segment, the segments on the kernel heap, and the pages   *)
(* counted over the heap, the page tables and the free pages.              *)
(***************************************************************************)
EXTENDS VmmProofs

(* What the lemmas about segments need of finite sets.  CountsHold proves  *)
(* it, behind them.                                                        *)
Counts ==
    /\ IsFiniteSet({}) /\ Cardinality({}) = 0
    /\ \A S : IsFiniteSet(S) =>
          \A x : /\ IsFiniteSet(S \cup {x}) /\ IsFiniteSet(S \ {x})
                 /\ x \notin S => Cardinality(S \cup {x}) = Cardinality(S) + 1
                 /\ x \in S => Cardinality(S \ {x}) = Cardinality(S) - 1
    /\ \A S : IsFiniteSet(S) => \A T : T \subseteq S => IsFiniteSet(T)
    /\ \A a, b \in Int : IsFiniteSet(a..b)

-----------------------------------------------------------------------------
(* Shared memory. *)

(* The first n entries of an attachment list are the threads in A, each    *)
(* once, and nothing is behind them.                                       *)
Listed(n, tids, A) ==
    /\ n \in 0..MaxAttachments /\ tids \in [AttachSlot -> Nat]
    /\ IsFiniteSet(A) /\ n = Cardinality(A)
    /\ \A x : x \in A <=> \E i \in 0..(n - 1) : tids[i] = x
    /\ \A i, j \in 0..(n - 1) : tids[i] = tids[j] => i = j
    /\ \A i \in n..(MaxAttachments - 1) : tids[i] = 0

(* A new segment has no attachments. *)
LEMMA NewListed == Counts => Listed(0, [i \in AttachSlot |-> 0], {})
<1> SUFFICES ASSUME Counts PROVE Listed(0, [i \in AttachSlot |-> 0], {})
  OBVIOUS
<1>1. IsFiniteSet({}) /\ 0 = Cardinality({})
  BY Zenon DEF Counts
<1>2. MaxAttachments \in Nat
  BY Zenon, ShmAssumption DEF ShmAssumption
<1>3. 0..(0 - 1) = {}
  OBVIOUS
<1>4. /\ 0 \in 0..MaxAttachments /\ [i \in AttachSlot |-> 0] \in [AttachSlot -> Nat]
      /\ \A i \in 0..(MaxAttachments - 1) : [j \in AttachSlot |-> 0][i] = 0
  BY <1>2 DEF AttachSlot
<1> QED
  BY Zenon, <1>1, <1>3, <1>4 DEF Listed

(* shm_attach appends a thread that is not in the list. *)
LEMMA AttachListed ==
    ASSUME Counts, NEW n, NEW tids, NEW A, Listed(n, tids, A), n < MaxAttachments,
           NEW x \in Nat, x \notin A
    PROVE  Listed(n + 1, [tids EXCEPT ![n] = x], A \cup {x})
<1> DEFINE t == [tids EXCEPT ![n] = x]
           B == A \cup {x}
<1>1. MaxAttachments \in Nat
  BY Zenon, ShmAssumption DEF ShmAssumption
<1>2. n \in 0..MaxAttachments /\ tids \in [AttachSlot -> Nat]
  BY Zenon DEF Listed
<1>3. /\ t \in [AttachSlot -> Nat] /\ t[n] = x
      /\ \A i \in AttachSlot : i # n => t[i] = tids[i]
  BY <1>1, <1>2 DEF AttachSlot
<1>4. IsFiniteSet(B) /\ n + 1 = Cardinality(B) /\ n + 1 \in 0..MaxAttachments
  <2>1. IsFiniteSet(A) /\ n = Cardinality(A)
    BY Zenon DEF Listed
  <2>2. IsFiniteSet(B) /\ Cardinality(B) = Cardinality(A) + 1
    BY Zenon, <2>1 DEF Counts, B
  <2>3. n + 1 \in 0..MaxAttachments
    BY <1>1, <1>2
  <2> QED
    BY Zenon, <2>1, <2>2, <2>3
<1>5. /\ n \in 0..((n + 1) - 1)
      /\ \A i \in 0..(n - 1) : i \in 0..((n + 1) - 1) /\ i \in AttachSlot /\ i # n
      /\ \A i \in 0..((n + 1) - 1) : i = n \/ i \in 0..(n - 1)
      /\ \A i \in (n + 1)..(MaxAttachments - 1) :
            i \in n..(MaxAttachments - 1) /\ i \in AttachSlot /\ i # n
  BY <1>1, <1>2 DEF AttachSlot
<1> HIDE DEF t, B
<1>6. \A i \in 0..(n - 1) : t[i] = tids[i] /\ tids[i] \in A /\ t[i] # x
  <2>1. \A i \in 0..(n - 1) : tids[i] \in A
    BY Zenon DEF Listed
  <2> QED
    BY Zenon, <1>3, <1>5, <2>1
<1>7. ASSUME NEW y PROVE y \in B <=> \E i \in 0..((n + 1) - 1) : t[i] = y
  <2>1. y \in B <=> y \in A \/ y = x
    BY Zenon DEF B
  <2>2. y \in A <=> \E i \in 0..(n - 1) : tids[i] = y
    BY Zenon DEF Listed
  <2>3. y \in A <=> \E i \in 0..(n - 1) : t[i] = y
    BY Zenon, <1>6, <2>2
  <2>4. y = x => \E i \in 0..((n + 1) - 1) : t[i] = y
    BY Zenon, <1>3, <1>5
  <2>5. y \in A => \E i \in 0..((n + 1) - 1) : t[i] = y
    BY Zenon, <1>5, <2>3
  <2>6. ASSUME NEW i \in 0..((n + 1) - 1), t[i] = y PROVE y \in A \/ y = x
    BY Zenon, <1>3, <1>5, <2>3, <2>6
  <2> QED
    BY Zenon, <2>1, <2>4, <2>5, <2>6
<1>8. ASSUME NEW i \in 0..((n + 1) - 1), NEW j \in 0..((n + 1) - 1), t[i] = t[j] PROVE i = j
  <2>1. \A k, l \in 0..(n - 1) : tids[k] = tids[l] => k = l
    BY Zenon DEF Listed
  <2> QED
    BY Zenon, <1>3, <1>5, <1>6, <1>8, <2>1
<1>9. \A i \in (n + 1)..(MaxAttachments - 1) : t[i] = 0
  <2>1. \A i \in n..(MaxAttachments - 1) : tids[i] = 0
    BY Zenon DEF Listed
  <2> QED
    BY Zenon, <1>3, <1>5, <2>1
<1>10. Listed(n + 1, t, B)
  BY Zenon, <1>3, <1>4, <1>7, <1>8, <1>9 DEF Listed
<1> QED
  BY Zenon, <1>10 DEF t, B

(* shm_detach takes one entry out and moves the ones behind it. *)
LEMMA DetachListed ==
    ASSUME Counts, NEW seg, NEW A, Listed(seg.attachments, seg.tids, A),
           NEW i \in 0..(seg.attachments - 1), NEW x, x = seg.tids[i]
    PROVE  Listed(seg.attachments - 1, shift_left(seg, i), A \ {x})
<1> DEFINE n == seg.attachments
           tids == seg.tids
           t == shift_left(seg, i)
           B == A \ {x}
           at(j) == IF j < i THEN j ELSE j + 1
<1>1. MaxAttachments \in Nat
  BY Zenon, ShmAssumption DEF ShmAssumption
<1>2. n \in 0..MaxAttachments /\ tids \in [AttachSlot -> Nat] /\ x \in A
  BY Zenon DEF Listed
<1>3. t = [j \in AttachSlot |-> IF j = n - 1 THEN 0
                                ELSE IF i <= j /\ j + 1 < n THEN tids[j + 1] ELSE tids[j]]
  BY Zenon DEF shift_left
<1>4. x = tids[i] /\ i \in 0..(n - 1)
  OBVIOUS
<1>5. Listed(n, tids, A)
  OBVIOUS
<1> HIDE DEF n, tids, t, B
<1>6. \A j \in AttachSlot : j + 1 < n => j + 1 \in AttachSlot
  BY <1>1, <1>2 DEF AttachSlot
<1>7. t \in [AttachSlot -> Nat]
  BY <1>2, <1>3, <1>6
<1>8. /\ \A j \in 0..((n - 1) - 1) : t[j] = tids[at(j)] /\ at(j) \in 0..(n - 1) /\ at(j) # i
      /\ \A j, k \in 0..((n - 1) - 1) : at(j) = at(k) => j = k
      /\ \A l \in 0..(n - 1) : l # i => \E j \in 0..((n - 1) - 1) : at(j) = l
  <2>1. \A j \in 0..((n - 1) - 1) : t[j] = tids[at(j)]
    BY <1>1, <1>2, <1>3, <1>4 DEF AttachSlot
  <2>2. /\ \A j \in 0..((n - 1) - 1) : at(j) \in 0..(n - 1) /\ at(j) # i
        /\ \A j, k \in 0..((n - 1) - 1) : at(j) = at(k) => j = k
    BY <1>1, <1>2, <1>4
  <2>3. ASSUME NEW l \in 0..(n - 1), l # i
        PROVE  \E j \in 0..((n - 1) - 1) : at(j) = l
    <3>1. CASE l < i
      <4>1. l \in 0..((n - 1) - 1) /\ at(l) = l
        BY <1>1, <1>2, <1>4, <2>3, <3>1
      <4> QED
        BY Zenon, <4>1
    <3>2. CASE ~(l < i)
      <4>1. l - 1 \in 0..((n - 1) - 1) /\ at(l - 1) = l
        BY <1>1, <1>2, <1>4, <2>3, <3>2
      <4> QED
        BY Zenon, <4>1
    <3> QED
      BY Zenon, <3>1, <3>2
  <2> QED
    BY Zenon, <2>1, <2>2, <2>3
<1>9. \A j \in (n - 1)..(MaxAttachments - 1) : t[j] = 0
  <2>1. \A j \in n..(MaxAttachments - 1) : tids[j] = 0
    BY Zenon, <1>5 DEF Listed
  <2> QED
    BY <1>1, <1>2, <1>3, <1>4, <2>1 DEF AttachSlot
<1>10. IsFiniteSet(B) /\ n - 1 = Cardinality(B) /\ n - 1 \in 0..MaxAttachments
  <2>1. IsFiniteSet(A) /\ n = Cardinality(A)
    BY Zenon, <1>5 DEF Listed
  <2>2. IsFiniteSet(B) /\ Cardinality(B) = Cardinality(A) - 1
    BY Zenon, <1>2, <2>1 DEF Counts, B
  <2>3. n - 1 \in 0..MaxAttachments
    BY <1>1, <1>2, <1>4
  <2> QED
    BY Zenon, <2>1, <2>2, <2>3
<1> HIDE DEF at
<1>11. \A k, l \in 0..(n - 1) : tids[k] = tids[l] => k = l
  BY Zenon, <1>5 DEF Listed
<1>12. ASSUME NEW y PROVE y \in B <=> \E j \in 0..((n - 1) - 1) : t[j] = y
  <2>1. y \in A <=> \E l \in 0..(n - 1) : tids[l] = y
    BY Zenon, <1>5 DEF Listed
  <2>2. ASSUME y \in B PROVE \E j \in 0..((n - 1) - 1) : t[j] = y
    <3>1. PICK l \in 0..(n - 1) : tids[l] = y
      BY Zenon, <2>1, <2>2 DEF B
    <3>2. l # i
      BY Zenon, <1>4, <2>2, <3>1 DEF B
    <3>3. PICK j \in 0..((n - 1) - 1) : at(j) = l
      BY Zenon, <1>8, <3>2
    <3> QED
      BY Zenon, <1>8, <3>1, <3>3
  <2>3. ASSUME NEW j \in 0..((n - 1) - 1), t[j] = y PROVE y \in B
    <3>1. tids[at(j)] = y /\ at(j) \in 0..(n - 1) /\ at(j) # i
      BY Zenon, <1>8, <2>3
    <3>2. y \in A /\ y # x
      BY Zenon, <1>4, <1>11, <2>1, <3>1
    <3> QED
      BY Zenon, <3>2 DEF B
  <2> QED
    BY Zenon, <2>2, <2>3
<1>13. \A j, k \in 0..((n - 1) - 1) : t[j] = t[k] => j = k
  BY Zenon, <1>8, <1>11
<1>14. Listed(n - 1, t, B)
  BY Zenon, <1>7, <1>9, <1>10, <1>12, <1>13 DEF Listed
<1> QED
  BY Zenon, <1>14 DEF n, t, B

(* The quotient and the rest are unique. *)
LEMMA DivideUnique ==
    ASSUME NEW v \in Nat, NEW d \in Nat \ {0}, NEW q \in Nat, NEW r \in 0..(d - 1),
           v = d * q + r
    PROVE  v \div d = q /\ v % d = r
<1> DEFINE a == v \div d
           b == v % d
<1>1. a \in Nat /\ b \in 0..(d - 1) /\ v = d * a + b
  BY Zenon, Divide
<1> HIDE DEF a, b
<1>2. a = q
  <2>1. ASSUME a < q PROVE FALSE
    <3>1. d * a + d <= d * q
      <4>1. a + 1 <= q
        BY <1>1, <2>1
      <4>2. d * (a + 1) <= d * q /\ d * (a + 1) = d * a + d
        BY <1>1, <4>1, Z3
      <4> QED
        BY Zenon, <4>2
    <3>2. d * a \in Nat /\ d * q \in Nat
      BY <1>1, Z3
    <3> DEFINE da == d * a
               dq == d * q
    <3> HIDE DEF da, dq
    <3>3. da \in Nat /\ dq \in Nat /\ da + d <= dq /\ da + b = dq + r
      BY Zenon, <1>1, <3>1, <3>2 DEF da, dq
    <3> QED
      BY <1>1, <3>3
  <2>2. ASSUME q < a PROVE FALSE
    <3>1. d * q + d <= d * a
      <4>1. q + 1 <= a
        BY <1>1, <2>2
      <4>2. d * (q + 1) <= d * a /\ d * (q + 1) = d * q + d
        BY <1>1, <4>1, Z3
      <4> QED
        BY Zenon, <4>2
    <3>2. d * a \in Nat /\ d * q \in Nat
      BY <1>1, Z3
    <3> DEFINE da == d * a
               dq == d * q
    <3> HIDE DEF da, dq
    <3>3. da \in Nat /\ dq \in Nat /\ dq + d <= da /\ da + b = dq + r
      BY Zenon, <1>1, <3>1, <3>2 DEF da, dq
    <3> QED
      BY <1>1, <3>3
  <2> QED
    BY <1>1, <2>1, <2>2
<1>3. b = r
  <2>1. d * q \in Nat /\ d * q + b = d * q + r
    BY Zenon, <1>1, <1>2, Z3
  <2> QED
    BY <1>1, <2>1
<1> QED
  BY Zenon, <1>2, <1>3 DEF a, b

(* shm_create rounds a size up to whole pages, and refuses one that the    *)
(* rounding would carry beyond 2^64.                                       *)
LEMMA AlignedSize ==
    ASSUME NEW size \in SegmentSize, aligned_size(size) \div PageSize # 0
    PROVE  /\ aligned_size(size) \in Nat /\ size \in Nat
           /\ aligned_size(size) \div PageSize \in Nat
           /\ aligned_size(size) - size \in 0..(PageSize - 1)
<1> DEFINE E == AddressEnd
           S == PageSize
           a == size + S - 1
           q == (a % E) \div S
<1>1. S \in Nat \ {0} /\ PageEnd \in Nat \ {0}
  BY Zenon, AddressAssumption DEF AddressAssumption
<1>2. E \in Nat /\ S <= E
  BY <1>1, Z3 DEF AddressEnd
<1>3. size \in Nat /\ size < E
  <2>1. size \in 0..(E - 1)
    BY Zenon, ShmAssumption DEF ShmAssumption, Address
  <2> HIDE DEF E
  <2> QED
    BY <1>2, <2>1
<1>4. aligned_size(size) = q * S
  BY Zenon DEF aligned_size
<1> HIDE DEF S, E
<1>5. a \in Nat /\ E \in Nat \ {0}
  BY <1>1, <1>2, <1>3
<1>6. CASE a < E
  <2>1. a % E = a
    <3>1. a = E * 0 + a /\ a \in 0..(E - 1)
      BY <1>5, <1>6
    <3> QED
      BY Zenon, <1>5, <3>1, DivideUnique
  <2> DEFINE r == a % S
  <2>2. q \in Nat /\ r \in 0..(S - 1) /\ a = S * q + r
    BY Zenon, <1>1, <1>5, <2>1, Divide
  <2> HIDE DEF q, r
  <2>3. q * S \in Nat /\ q * S = S * q
    BY <1>1, <2>2, Z3
  <2> DEFINE qS == q * S
  <2>4. qS \in Nat /\ qS + r = (size + S) - 1
    BY <1>1, <1>3, <2>2, <2>3
  <2> HIDE DEF qS
  <2>5. qS - size \in 0..(S - 1)
    BY <1>1, <1>3, <2>2, <2>4
  <2>6. qS \div S \in Nat
    BY Zenon, <1>1, <2>4, Divide
  <2> QED
    BY Zenon, <1>3, <1>4, <2>4, <2>5, <2>6 DEF qS, S
<1>7. CASE ~(a < E)
  <2> DEFINE b == a - E
  <2>1. 1 \in Nat /\ a = E * 1 + b /\ b \in 0..(E - 1) /\ b \in 0..(S - 1)
    BY <1>1, <1>2, <1>3, <1>7
  <2> HIDE DEF a, b
  <2>2. a % E = b
    BY Zenon, <1>5, <2>1, DivideUnique
  <2>3. b \in Nat /\ b = S * 0 + b
    BY <1>1, <2>1
  <2>4. b \div S = 0
    BY Zenon, <1>1, <2>1, <2>3, DivideUnique
  <2>5. q = 0
    BY Zenon, <2>2, <2>4
  <2> HIDE DEF q
  <2>6. q * S = 0
    BY <1>1, <2>5
  <2>7. 0 \div S = 0
    BY <1>1, Z3
  <2> QED
    BY Zenon, <1>4, <2>6, <2>7 DEF S
<1> QED
  BY Zenon, <1>6, <1>7

(* How many pages a segment has. *)
page_count(seg) == seg.size \div PageSize

(* A segment lies in the heap below h, and is just large enough. *)
Backed(seg, h) ==
    /\ page_count(seg) \in Nat \ {0} /\ seg.base >= HeapBase /\ seg.base + page_count(seg) <= h
    /\ seg.size - seg.asked \in 0..(PageSize - 1)

(* A slot of g_shm_segments, with the threads that are attached. *)
Slot(e, A, h) ==
    IF e = NONE THEN A = {}
    ELSE e \in Segment /\ Backed(e, h) /\ Listed(e.attachments, e.tids, A)

(* Two slots have neither a name nor a page in common. *)
Separate(e, f) ==
    e # NONE /\ f # NONE =>
        /\ e.name # f.name
        /\ e.base + page_count(e) <= f.base \/ f.base + page_count(f) <= e.base

(* All slots, below h. *)
Slots(g, A, h) ==
    /\ g = [s \in SegmentSlot |-> g[s]] /\ A = [s \in SegmentSlot |-> A[s]]
    /\ \A s \in SegmentSlot : Slot(g[s], A[s], h)
    /\ \A s, r \in SegmentSlot : s # r => Separate(g[s], g[r])

(* The inductive invariant of ShmSpec, beside MemoryInv. *)
SegmentsInv ==
    /\ Slots(g_shm_segments, attached, g_kernel_heap_next)
    /\ g_shm_segment_count = Cardinality(InUse)

(* It does not matter which of two segments is named first. *)
LEMMA SeparateBoth == ASSUME NEW e, NEW f, Separate(e, f) PROVE Separate(f, e)
  BY Zenon DEF Separate

(* The heap only grows. *)
LEMMA SlotGrows ==
    ASSUME NEW e, NEW A, NEW h \in Nat, NEW k \in Nat, h <= k, Slot(e, A, h)
    PROVE  Slot(e, A, k)
<1>1. CASE e = NONE
  BY Zenon, <1>1 DEF Slot
<1>2. CASE e # NONE
  <2>1. e \in Segment /\ Backed(e, h) /\ Listed(e.attachments, e.tids, A)
    BY Zenon, <1>2 DEF Slot
  <2>2. e.base \in Nat
    BY <2>1 DEF Segment
  <2>3. page_count(e) \in Nat /\ e.base + page_count(e) <= h
    BY Zenon, <2>1 DEF Backed
  <2>4. e.base + page_count(e) <= k
    BY <2>2, <2>3
  <2>5. Backed(e, k)
    BY Zenon, <2>1, <2>4 DEF Backed
  <2> QED
    BY Zenon, <1>2, <2>1, <2>5 DEF Slot
<1> QED
  BY Zenon, <1>1, <1>2

(* One slot is set. *)
LEMMA SetSlot ==
    ASSUME NEW g, NEW A, NEW h, Slots(g, A, h), NEW s \in SegmentSlot, NEW e, NEW B, NEW k,
           \A r \in SegmentSlot : Slot(g[r], A[r], k), Slot(e, B, k),
           \A r \in SegmentSlot : r # s => Separate(e, g[r])
    PROVE  Slots([g EXCEPT ![s] = e], [A EXCEPT ![s] = B], k)
<1> DEFINE g2 == [g EXCEPT ![s] = e]
           A2 == [A EXCEPT ![s] = B]
<1>1. g = [r \in SegmentSlot |-> g[r]] /\ A = [r \in SegmentSlot |-> A[r]]
  BY Zenon DEF Slots
<1>2. /\ g2 = [r \in SegmentSlot |-> IF r = s THEN e ELSE g[r]]
      /\ A2 = [r \in SegmentSlot |-> IF r = s THEN B ELSE A[r]]
  BY Zenon, <1>1
<1> HIDE DEF g2, A2
<1>3. /\ g2 = [r \in SegmentSlot |-> g2[r]] /\ A2 = [r \in SegmentSlot |-> A2[r]]
      /\ \A r \in SegmentSlot : g2[r] = (IF r = s THEN e ELSE g[r]) /\ A2[r] = IF r = s THEN B ELSE A[r]
  BY Zenon, <1>2
<1>4. ASSUME NEW r \in SegmentSlot PROVE Slot(g2[r], A2[r], k)
  BY Zenon, <1>3
<1>5. ASSUME NEW r \in SegmentSlot, NEW q \in SegmentSlot, r # q PROVE Separate(g2[r], g2[q])
  <2>1. Separate(g[r], g[q])
    BY Zenon, <1>5 DEF Slots
  <2>2. CASE r = s
    BY Zenon, <1>3, <1>5, <2>2
  <2>3. CASE q = s
    BY Zenon, <1>3, <1>5, <2>3, SeparateBoth
  <2>4. CASE r # s /\ q # s
    BY Zenon, <1>3, <2>1, <2>4
  <2> QED
    BY Zenon, <2>2, <2>3, <2>4
<1>6. Slots(g2, A2, k)
  BY Zenon, <1>3, <1>4, <1>5 DEF Slots
<1> QED
  BY Zenon, <1>6 DEF g2, A2

(* The slot of seg may hold e instead, with B attached. *)
Relisted(seg, e, B, h) ==
    e # NONE /\ Slot(e, B, h) /\ \A f : Separate(seg, f) => Separate(e, f)

(* A segment whose attachment list changes stays where it is. *)
LEMMA ListSlot ==
    ASSUME NEW seg, NEW A, NEW h, Slot(seg, A, h), seg # NONE,
           NEW n, NEW tids, NEW B, Listed(n, tids, B)
    PROVE  Relisted(seg, with_tids(seg, tids, n), B, h)
<1> DEFINE e == with_tids(seg, tids, n)
<1>1. seg \in Segment /\ Backed(seg, h)
  BY Zenon DEF Slot
<1>2. n \in 0..MaxAttachments /\ tids \in [AttachSlot -> Nat]
  BY Zenon DEF Listed
<1>3. e \in Segment
  BY <1>1, <1>2 DEF with_tids, Segment
<1>4. /\ e.name = seg.name /\ e.base = seg.base /\ e.size = seg.size /\ e.asked = seg.asked
      /\ e.attachments = n /\ e.tids = tids
  BY DEF with_tids
<1> HIDE DEF e
<1>5. e # NONE
  BY Zenon, <1>3, ShmAssumption DEF ShmAssumption
<1>6. page_count(e) = page_count(seg)
  BY Zenon, <1>4 DEF page_count
<1>7. Backed(e, h)
  BY Zenon, <1>1, <1>4, <1>6 DEF Backed
<1>8. Slot(e, B, h)
  BY Zenon, <1>3, <1>4, <1>5, <1>7 DEF Slot
<1>9. ASSUME NEW f, Separate(seg, f) PROVE Separate(e, f)
  BY Zenon, <1>4, <1>6, <1>9 DEF Separate
<1>10. Relisted(seg, e, B, h)
  BY Zenon, <1>5, <1>8, <1>9 DEF Relisted
<1> QED
  BY Zenon, <1>10 DEF e

(* The tid a call is made for. *)
LEMMA ResolvedTid ==
    ASSUME NEW requested \in ShmTid, NEW current \in ShmTid,
           shm_resolve_tid(requested, current) # NONE
    PROVE  shm_resolve_tid(requested, current) \in ShmTid
  BY Zenon DEF shm_resolve_tid

(* No slot is in use after shm_init. *)
LEMMA SegmentsInit == Counts /\ shm_init => SegmentsInv
<1> SUFFICES ASSUME Counts, shm_init PROVE SegmentsInv
  OBVIOUS
<1>1. /\ g_shm_segments = [s \in SegmentSlot |-> NONE] /\ attached = [s \in SegmentSlot |-> {}]
      /\ g_shm_segment_count = 0
  BY Zenon DEF shm_init
<1>2. InUse = {}
  BY Zenon, <1>1 DEF InUse
<1>3. Slots(g_shm_segments, attached, g_kernel_heap_next)
  BY Zenon, <1>1 DEF Slots, Slot, Separate
<1>4. Cardinality({}) = 0
  BY Zenon DEF Counts
<1> QED
  BY Zenon, <1>1, <1>2, <1>3, <1>4 DEF SegmentsInv

(* What a slot in use tells. *)
LEMMA SlotInUse ==
    ASSUME SegmentsInv, NEW s \in SegmentSlot, g_shm_segments[s] # NONE
    PROVE  /\ g_shm_segments[s] \in Segment /\ Backed(g_shm_segments[s], g_kernel_heap_next)
           /\ Listed(g_shm_segments[s].attachments, g_shm_segments[s].tids, attached[s])
  BY Zenon DEF SegmentsInv, Slots, Slot

(* A slot that stays in use is counted once. *)
LEMMA SameInUse ==
    ASSUME NEW s \in SegmentSlot, g_shm_segments[s] # NONE, NEW e, e # NONE,
           g_shm_segments = [r \in SegmentSlot |-> g_shm_segments[r]],
           g_shm_segments' = [g_shm_segments EXCEPT ![s] = e]
    PROVE  InUse' = InUse
<1>1. g_shm_segments' = [r \in SegmentSlot |-> IF r = s THEN e ELSE g_shm_segments[r]]
  BY Zenon
<1>2. \A r \in SegmentSlot : g_shm_segments'[r] = IF r = s THEN e ELSE g_shm_segments[r]
  BY Zenon, <1>1
<1> QED
  BY Zenon, <1>2 DEF InUse

(* The threads in the list are those that the search finds. *)
LEMMA NotAttached ==
    ASSUME NEW seg, NEW A, Listed(seg.attachments, seg.tids, A), NEW x, not_attached(seg, x)
    PROVE  x \notin A
<1> DEFINE n == seg.attachments
           S == {i \in 0..(n - 1) : seg.tids[i] = x}
<1>1. MaxAttachments \in Nat /\ n \in 0..MaxAttachments
  BY Zenon, ShmAssumption DEF ShmAssumption, Listed
<1>2. \A i \in 0..(n - 1) : i \in AttachSlot /\ i < n /\ i \in Nat
  BY <1>1 DEF AttachSlot
<1>3. ASSUME x \in A PROVE FALSE
  <2>1. PICK i \in 0..(n - 1) : seg.tids[i] = x
    BY Zenon, <1>3 DEF Listed
  <2>2. S \in SUBSET Nat /\ S # {}
    BY Zenon, <1>2, <2>1
  <2>3. PICK j \in S : \A k \in S : j <= k
    BY Zenon, <2>2, LeastNat
  <2>4. j \in AttachSlot /\ j < n /\ seg.tids[j] = x /\ j \in 0..(n - 1)
    BY Zenon, <1>2
  <2>5. ASSUME NEW k \in AttachSlot, k < j, seg.tids[k] = x PROVE FALSE
    <3>1. k \in 0..(n - 1) /\ ~(j <= k)
      <4> HIDE DEF S, n
      <4> QED
        BY <1>1, <2>4, <2>5 DEF AttachSlot
    <3> QED
      BY Zenon, <2>3, <2>5, <3>1
  <2>6. shm_find_attachment_locked(seg, x, j)
    BY Zenon, <2>4, <2>5 DEF shm_find_attachment_locked
  <2> QED
    BY Zenon, <2>4, <2>6 DEF not_attached
<1> QED
  BY Zenon, <1>3

(* shm_attach *)
LEMMA AttachKeeps ==
    ASSUME Counts, SegmentsInv, NEW id, NEW requested \in ShmTid, NEW current \in ShmTid,
           shm_attach(id, requested, current)
    PROVE  SegmentsInv'
<1> DEFINE x == shm_resolve_tid(requested, current)
<1>1. PICK s \in SegmentSlot :
         LET seg == g_shm_segments[s]
         IN  /\ x # NONE /\ seg # NONE /\ not_attached(seg, x) /\ seg.attachments < MaxAttachments
             /\ g_shm_segments' = [g_shm_segments EXCEPT ![s] =
                    with_tids(seg, [seg.tids EXCEPT ![seg.attachments] = x], seg.attachments + 1)]
             /\ attached' = [attached EXCEPT ![s] = @ \cup {x}]
             /\ g_shm_segment_count' = g_shm_segment_count /\ UNCHANGED vmmVars
  BY Zenon DEF shm_attach
<1>2. x \in ShmTid
  BY Zenon, <1>1, ResolvedTid
<1>3. x \in Nat
  BY Zenon, <1>2, ShmAssumption DEF ShmAssumption
<1> HIDE DEF x
<1> DEFINE seg == g_shm_segments[s]
           tids == [seg.tids EXCEPT ![seg.attachments] = x]
           e == with_tids(seg, tids, seg.attachments + 1)
           B == attached[s] \cup {x}
           h == g_kernel_heap_next
<1>4. /\ seg # NONE /\ not_attached(seg, x) /\ seg.attachments < MaxAttachments
      /\ g_shm_segments' = [g_shm_segments EXCEPT ![s] = e]
      /\ attached' = [attached EXCEPT ![s] = B]
      /\ g_shm_segment_count' = g_shm_segment_count /\ g_kernel_heap_next' = h
  BY Zenon, <1>1 DEF vmmVars
<1>5. /\ Slots(g_shm_segments, attached, h) /\ Slot(seg, attached[s], h)
      /\ \A r \in SegmentSlot : Slot(g_shm_segments[r], attached[r], h)
      /\ \A r \in SegmentSlot : r # s => Separate(seg, g_shm_segments[r])
      /\ g_shm_segments = [r \in SegmentSlot |-> g_shm_segments[r]]
      /\ g_shm_segment_count = Cardinality(InUse)
  BY Zenon DEF SegmentsInv, Slots
<1>6. Listed(seg.attachments, seg.tids, attached[s])
  BY Zenon, <1>4, SlotInUse
<1> HIDE DEF seg
<1>7. x \notin attached[s]
  BY Zenon, <1>4, <1>6, NotAttached
<1>8. Listed(seg.attachments + 1, tids, B)
  BY Zenon, <1>3, <1>4, <1>6, <1>7, AttachListed
<1> HIDE DEF tids, B
<1>9. Relisted(seg, e, B, h)
  BY Zenon, <1>4, <1>5, <1>8, ListSlot
<1> HIDE DEF e
<1>10. Slots(g_shm_segments', attached', h)
  BY Zenon, <1>4, <1>5, <1>9, SetSlot DEF Relisted
<1>11. InUse' = InUse
  BY Zenon, <1>4, <1>5, <1>9, SameInUse DEF seg, Relisted
<1> QED
  BY Zenon, <1>4, <1>5, <1>10, <1>11 DEF SegmentsInv

(* shm_detach *)
LEMMA DetachKeeps ==
    ASSUME Counts, SegmentsInv, NEW id, NEW requested \in ShmTid, NEW current \in ShmTid,
           shm_detach(id, requested, current)
    PROVE  SegmentsInv'
<1> DEFINE x == shm_resolve_tid(requested, current)
<1>1. PICK s \in SegmentSlot, i \in AttachSlot :
         LET seg == g_shm_segments[s]
         IN  /\ seg # NONE /\ shm_find_attachment_locked(seg, x, i)
             /\ g_shm_segments' = [g_shm_segments EXCEPT ![s] =
                    with_tids(seg, shift_left(seg, i), seg.attachments - 1)]
             /\ attached' = [attached EXCEPT ![s] = @ \ {x}]
             /\ g_shm_segment_count' = g_shm_segment_count /\ UNCHANGED vmmVars
  BY Zenon DEF shm_detach
<1> HIDE DEF x
<1> DEFINE seg == g_shm_segments[s]
           tids == shift_left(seg, i)
           e == with_tids(seg, tids, seg.attachments - 1)
           B == attached[s] \ {x}
           h == g_kernel_heap_next
<1>4. /\ seg # NONE /\ shm_find_attachment_locked(seg, x, i)
      /\ g_shm_segments' = [g_shm_segments EXCEPT ![s] = e]
      /\ attached' = [attached EXCEPT ![s] = B]
      /\ g_shm_segment_count' = g_shm_segment_count /\ g_kernel_heap_next' = h
  BY Zenon, <1>1 DEF vmmVars
<1>5. /\ Slots(g_shm_segments, attached, h) /\ Slot(seg, attached[s], h)
      /\ \A r \in SegmentSlot : Slot(g_shm_segments[r], attached[r], h)
      /\ \A r \in SegmentSlot : r # s => Separate(seg, g_shm_segments[r])
      /\ g_shm_segments = [r \in SegmentSlot |-> g_shm_segments[r]]
      /\ g_shm_segment_count = Cardinality(InUse)
  BY Zenon DEF SegmentsInv, Slots
<1>6. Listed(seg.attachments, seg.tids, attached[s])
  BY Zenon, <1>4, SlotInUse
<1> HIDE DEF seg
<1>7. i \in 0..(seg.attachments - 1) /\ x = seg.tids[i]
  <2>1. i < seg.attachments /\ seg.tids[i] = x
    BY Zenon, <1>4 DEF shm_find_attachment_locked
  <2>2. MaxAttachments \in Nat /\ seg.attachments \in 0..MaxAttachments
    BY Zenon, <1>6, ShmAssumption DEF ShmAssumption, Listed
  <2>3. i \in 0..(seg.attachments - 1)
    BY <2>1, <2>2 DEF AttachSlot
  <2> QED
    BY Zenon, <2>1, <2>3
<1>8. Listed(seg.attachments - 1, tids, B)
  BY Zenon, <1>6, <1>7, DetachListed
<1> HIDE DEF tids, B
<1>9. Relisted(seg, e, B, h)
  BY Zenon, <1>4, <1>5, <1>8, ListSlot
<1> HIDE DEF e
<1>10. Slots(g_shm_segments', attached', h)
  BY Zenon, <1>4, <1>5, <1>9, SetSlot DEF Relisted
<1>11. InUse' = InUse
  BY Zenon, <1>4, <1>5, <1>9, SameInUse DEF seg, Relisted
<1> QED
  BY Zenon, <1>4, <1>5, <1>10, <1>11 DEF SegmentsInv

(* The heap's answer to a request: a refusal, or the pages from h on. *)
LEMMA HeapAnswer ==
    ASSUME MemoryInv, NEW n \in Nat,
           NEW r, r = vmm_alloc_kernel_pages(vm, g_kernel_heap_next, n, {W})
    PROVE  r.ok \in BOOLEAN /\ (r.ok => r.at = g_kernel_heap_next /\ n # 0)
<1> DEFINE out == {user_page, split_page} \ {NONE}
<1>1. /\ Sound(vm, HeapBase..(g_kernel_heap_next - 1), out, pool) /\ SplitMaps(vm, split_page)
      /\ g_kernel_heap_next \in HeapBase..g_kernel_heap_limit
  BY Zenon DEF MemoryInv, Whole
<1> HIDE DEF out
<1> QED
  BY Zenon, <1>1, AllocPages

(* A segment of n pages begins where the heap ended. *)
Opened(e, name, h, n) ==
    e.name = name /\ e.base = h /\ page_count(e) = n /\ e # NONE /\ Slot(e, {}, h + n)

NewSegment(name, h, size, tid) ==
    [name |-> name, base |-> h, size |-> aligned_size(size), asked |-> size,
     owner |-> tid, attachments |-> 0, tids |-> [i \in AttachSlot |-> 0]]

(* The segment that shm_create makes. *)
LEMMA NewSlot ==
    ASSUME Counts, NEW name \in SegmentName, NEW size \in SegmentSize, aligned_size(size) \div PageSize # 0,
           NEW tid \in ShmTid, NEW h \in Nat, h >= HeapBase
    PROVE  Opened(NewSegment(name, h, size, tid), name, h, aligned_size(size) \div PageSize)
<1> DEFINE e == NewSegment(name, h, size, tid)
           a == aligned_size(size)
           k == a \div PageSize
           z == [i \in AttachSlot |-> 0]
<1>1. a \in Nat /\ size \in Nat /\ k \in Nat \ {0} /\ a - size \in 0..(PageSize - 1)
  BY Zenon, AlignedSize
<1>2. e = [name |-> name, base |-> h, size |-> a, asked |-> size,
           owner |-> tid, attachments |-> 0, tids |-> z]
  BY Zenon DEF NewSegment
<1>3. Listed(0, z, {})
  BY Zenon, NewListed
<1> HIDE DEF a, e, z
<1>4. /\ e.name = name /\ e.base = h /\ e.size = a /\ e.asked = size
      /\ e.attachments = 0 /\ e.tids = z
  BY <1>2
<1>5. e \in Segment
  <2>1. 0 \in 0..MaxAttachments /\ z \in [AttachSlot -> Nat]
    BY Zenon, <1>3 DEF Listed
  <2> QED
    BY <1>1, <1>2, <2>1 DEF Segment
<1>6. e # NONE
  BY Zenon, <1>5, ShmAssumption DEF ShmAssumption
<1>7. page_count(e) = k
  BY Zenon, <1>4 DEF page_count
<1> HIDE DEF k
<1>8. h + k <= h + k
  BY <1>1
<1>9. Backed(e, h + k)
  BY Zenon, <1>1, <1>4, <1>7, <1>8 DEF Backed
<1>10. Slot(e, {}, h + k)
  BY Zenon, <1>3, <1>4, <1>5, <1>6, <1>9 DEF Slot
<1>11. Opened(e, name, h, k)
  BY Zenon, <1>4, <1>6, <1>7, <1>10 DEF Opened
<1> QED
  BY Zenon, <1>11 DEF a, e, k

(* A slot that comes into use is counted. *)
LEMMA OneMoreInUse ==
    ASSUME Counts, NEW s \in SegmentSlot, g_shm_segments[s] = NONE, NEW e, e # NONE,
           g_shm_segments = [r \in SegmentSlot |-> g_shm_segments[r]],
           g_shm_segments' = [g_shm_segments EXCEPT ![s] = e]
    PROVE  Cardinality(InUse') = Cardinality(InUse) + 1
<1>1. g_shm_segments' = [r \in SegmentSlot |-> IF r = s THEN e ELSE g_shm_segments[r]]
  BY Zenon
<1>2. \A r \in SegmentSlot : g_shm_segments'[r] = IF r = s THEN e ELSE g_shm_segments[r]
  BY Zenon, <1>1
<1>3. \A r : r \in InUse' <=> r \in InUse \/ r = s
  BY Zenon, <1>2 DEF InUse
<1>4. InUse' = InUse \cup {s} /\ s \notin InUse /\ InUse \subseteq SegmentSlot
  BY Zenon, <1>3 DEF InUse
<1>5. IsFiniteSet(InUse)
  <2>1. 0 \in Int /\ MaxSegments - 1 \in Int
    BY ShmAssumption DEF ShmAssumption
  <2>2. IsFiniteSet(SegmentSlot)
    BY Zenon, <2>1 DEF Counts, SegmentSlot
  <2> QED
    BY Zenon, <1>4, <2>2 DEF Counts
<1> HIDE DEF InUse
<1>6. Cardinality(InUse \cup {s}) = Cardinality(InUse) + 1
  BY Zenon, <1>4, <1>5 DEF Counts
<1> QED
  BY Zenon, <1>4, <1>6

(* shm_create *)
LEMMA CreateKeeps ==
    ASSUME Counts, MemoryInv, SegmentsInv, NEW name \in SegmentName, NEW size \in SegmentSize,
           NEW owner \in ShmTid, NEW current \in ShmTid, shm_create(name, size, owner, current)
    PROVE  MemoryInv' /\ SegmentsInv'
<1> DEFINE n == aligned_size(size) \div PageSize
           r == vmm_alloc_kernel_pages(vm, g_kernel_heap_next, n, {W})
           x == shm_resolve_tid(owner, current)
           h == g_kernel_heap_next
           g == g_shm_segments
<1>1. n # 0 /\ x # NONE /\ ~\E s \in SegmentSlot : shm_find_locked(name, s)
  BY Zenon DEF shm_create
<1>2. PICK s \in SegmentSlot :
         /\ free_slot(s) /\ AllocKernelPages(n)
         /\ IF r.ok THEN /\ g_shm_segments' = [g_shm_segments EXCEPT ![s] = NewSegment(name, r.at, size, x)]
                         /\ g_shm_segment_count' = g_shm_segment_count + 1
            ELSE UNCHANGED <<g_shm_segments, g_shm_segment_count>>
  BY Zenon DEF shm_create, NewSegment
<1>3. attached' = attached
  BY Zenon DEF shm_create
<1>4. n \in Nat
  BY Zenon, <1>1, AlignedSize
<1>5. MemoryInv'
  BY Zenon, <1>2, <1>4, AllocKeeps
<1>6. g_kernel_heap_next' = IF r.ok THEN h + n ELSE h
  BY Zenon, <1>2 DEF AllocKernelPages
<1>7. r.ok \in BOOLEAN /\ (r.ok => r.at = h)
  BY Zenon, <1>4, HeapAnswer
<1>8. g[s] = NONE
  BY Zenon, <1>2 DEF free_slot
<1>9. x \in ShmTid
  BY Zenon, <1>1, ResolvedTid
<1> HIDE DEF r, x
<1>10. CASE ~r.ok
  <2>1. g_shm_segments' = g /\ g_shm_segment_count' = g_shm_segment_count /\ g_kernel_heap_next' = h
    BY Zenon, <1>2, <1>6, <1>10
  <2>2. InUse' = InUse
    BY Zenon, <2>1 DEF InUse
  <2>3. Slots(g, attached, h) /\ g_shm_segment_count = Cardinality(InUse)
    BY Zenon DEF SegmentsInv
  <2>4. SegmentsInv'
    BY Zenon, <1>3, <2>1, <2>2, <2>3 DEF SegmentsInv
  <2> QED
    BY Zenon, <1>5, <2>4
<1>11. CASE r.ok
  <2> DEFINE e == NewSegment(name, h, size, x)
  <2>1. /\ g_shm_segments' = [g EXCEPT ![s] = e] /\ g_kernel_heap_next' = h + n
        /\ g_shm_segment_count' = g_shm_segment_count + 1
    BY Zenon, <1>2, <1>6, <1>7, <1>11
  <2>2. h \in Nat /\ h >= HeapBase
    <3>1. h \in HeapBase..g_kernel_heap_limit
      BY Zenon DEF MemoryInv, Whole
    <3> QED
      BY <3>1, VmmAssumption DEF VmmAssumption
  <2>3. Opened(e, name, h, n)
    BY Zenon, <1>1, <1>9, <2>2, NewSlot
  <2> HIDE DEF e, n
  <2>4. /\ Slots(g, attached, h) /\ \A q \in SegmentSlot : Slot(g[q], attached[q], h)
        /\ g = [q \in SegmentSlot |-> g[q]] /\ attached = [q \in SegmentSlot |-> attached[q]]
        /\ g_shm_segment_count = Cardinality(InUse)
    BY Zenon DEF SegmentsInv, Slots
  <2>5. \A q \in SegmentSlot : Slot(g[q], attached[q], h + n)
    <3>1. h + n \in Nat /\ h <= h + n
      BY <1>4, <2>2
    <3> QED
      BY Zenon, <2>2, <2>4, <3>1, SlotGrows
  <2>6. ASSUME NEW q \in SegmentSlot, q # s PROVE Separate(e, g[q])
    <3>1. CASE g[q] = NONE
      BY Zenon, <3>1 DEF Separate
    <3>2. CASE g[q] # NONE
      <4>1. g[q].name # name
        BY Zenon, <1>1, <3>2 DEF shm_find_locked
      <4>2. g[q].base + page_count(g[q]) <= h
        BY Zenon, <3>2, SlotInUse DEF Backed
      <4> QED
        BY Zenon, <2>3, <4>1, <4>2 DEF Separate, Opened
    <3> QED
      BY Zenon, <3>1, <3>2
  <2>7. attached[s] = {} /\ attached = [attached EXCEPT ![s] = {}]
    <3>1. attached[s] = {}
      BY Zenon, <1>8, <2>4 DEF Slot
    <3> QED
      BY Zenon, <2>4, <3>1
  <2>8. Slots([g EXCEPT ![s] = e], [attached EXCEPT ![s] = {}], h + n)
    BY Zenon, <2>3, <2>4, <2>5, <2>6, SetSlot DEF Opened
  <2>9. Slots(g_shm_segments', attached', g_kernel_heap_next')
    BY Zenon, <1>3, <2>1, <2>7, <2>8
  <2>10. Cardinality(InUse') = Cardinality(InUse) + 1
    BY Zenon, <1>8, <2>1, <2>3, <2>4, OneMoreInUse DEF Opened
  <2>11. g_shm_segment_count' = Cardinality(InUse')
    BY Zenon, <2>1, <2>4, <2>10
  <2>12. SegmentsInv'
    BY Zenon, <2>9, <2>11 DEF SegmentsInv
  <2> QED
    BY Zenon, <1>5, <2>12
<1> QED
  BY Zenon, <1>10, <1>11

(* Every step keeps both invariants. *)
LEMMA SegmentsStep ==
    Counts /\ MemoryInv /\ SegmentsInv /\ [ShmNext]_<<vmmVars, shmVars>>
       => MemoryInv' /\ SegmentsInv'
<1> SUFFICES ASSUME Counts, MemoryInv, SegmentsInv, [ShmNext]_<<vmmVars, shmVars>>
             PROVE  MemoryInv' /\ SegmentsInv'
  OBVIOUS
<1>1. ASSUME NEW current \in ShmTid, NEW requested \in ShmTid, NEW name \in SegmentName,
             NEW size \in SegmentSize, shm_create(name, size, requested, current)
      PROVE  MemoryInv' /\ SegmentsInv'
  BY Zenon, <1>1, CreateKeeps
<1>2. ASSUME UNCHANGED vmmVars PROVE MemoryInv'
  BY Zenon, <1>2 DEF vmmVars, MemoryInv
<1>3. ASSUME NEW current \in ShmTid, NEW requested \in ShmTid, NEW id,
             shm_attach(id, requested, current)
      PROVE  MemoryInv' /\ SegmentsInv'
  <2>1. UNCHANGED vmmVars
    BY Zenon, <1>3 DEF shm_attach
  <2> QED
    BY Zenon, <1>2, <1>3, <2>1, AttachKeeps
<1>4. ASSUME NEW current \in ShmTid, NEW requested \in ShmTid, NEW id,
             shm_detach(id, requested, current)
      PROVE  MemoryInv' /\ SegmentsInv'
  <2>1. UNCHANGED vmmVars
    BY Zenon, <1>4 DEF shm_detach
  <2> QED
    BY Zenon, <1>2, <1>4, <2>1, DetachKeeps
<1>5. CASE UNCHANGED <<vmmVars, shmVars>>
  <2>1. /\ UNCHANGED vmmVars /\ g_shm_segments' = g_shm_segments /\ attached' = attached
        /\ g_shm_segment_count' = g_shm_segment_count /\ g_kernel_heap_next' = g_kernel_heap_next
    BY Zenon, <1>5 DEF vmmVars, shmVars
  <2>2. InUse' = InUse
    BY Zenon, <2>1 DEF InUse
  <2>3. SegmentsInv'
    BY Zenon, <2>1, <2>2 DEF SegmentsInv
  <2> QED
    BY Zenon, <1>2, <2>1, <2>3
<1> QED
  BY Zenon, <1>1, <1>3, <1>4, <1>5 DEF ShmNext

(* The pages of a segment. *)
LEMMA PagesOfSegment ==
    ASSUME SegmentsInv, MemoryInv, NEW s \in InUse
    PROVE  LET seg == g_shm_segments[s]
           IN  /\ seg.base \in Nat /\ page_count(seg) \in Nat \ {0}
               /\ SegmentPages(s) = seg.base..((seg.base + page_count(seg)) - 1)
               /\ SegmentPages(s) # {} /\ SegmentPages(s) \subseteq HeapPages
<1> DEFINE seg == g_shm_segments[s]
           k == page_count(seg)
<1>1. seg \in Segment /\ Backed(seg, g_kernel_heap_next)
  BY Zenon, SlotInUse DEF InUse
<1>2. seg.base \in Nat
  BY <1>1 DEF Segment
<1>3. k \in Nat \ {0} /\ seg.base >= HeapBase /\ seg.base + k <= g_kernel_heap_next
  BY Zenon, <1>1 DEF Backed
<1>4. g_kernel_heap_next \in Nat /\ HeapBase \in Nat
  <2>1. g_kernel_heap_next \in HeapBase..g_kernel_heap_limit
    BY Zenon DEF MemoryInv, Whole
  <2> QED
    BY <2>1, VmmAssumption DEF VmmAssumption
<1>5. SegmentPages(s) = seg.base..(seg.base + k - 1)
  BY Zenon DEF SegmentPages, page_count
<1> HIDE DEF seg, k
<1>6. seg.base + k - 1 = (seg.base + k) - 1
  BY <1>2, <1>3
<1>7. SegmentPages(s) = seg.base..((seg.base + k) - 1)
  BY Zenon, <1>5, <1>6
<1>8. SegmentPages(s) # {} /\ SegmentPages(s) \subseteq HeapPages
  BY <1>2, <1>3, <1>4, <1>7 DEF HeapPages
<1> QED
  BY Zenon, <1>2, <1>3, <1>7, <1>8 DEF seg, k

(* Every segment is backed by heap pages of its own. *)
LEMMA AllBacked == MemoryInv /\ SegmentsInv => SegmentsBacked
<1> SUFFICES ASSUME MemoryInv, SegmentsInv PROVE SegmentsBacked
  OBVIOUS
<1>1. ASSUME NEW s \in InUse
      PROVE  /\ SegmentPages(s) # {} /\ SegmentPages(s) \subseteq HeapPages
             /\ \A v \in SegmentPages(s) :
                   vmm_query_mapping(vm, v) # NONE /\ W \in vmm_query_mapping(vm, v).flags
             /\ g_shm_segments[s].size - g_shm_segments[s].asked \in 0..(PageSize - 1)
  <2>1. SegmentPages(s) # {} /\ SegmentPages(s) \subseteq HeapPages
    BY Zenon, PagesOfSegment
  <2>2. HeapMaps(vm, HeapPages)
    BY Zenon DEF MemoryInv, Whole, Sound, HeapPages
  <2>3. \A v \in HeapPages :
           vmm_query_mapping(vm, v) # NONE /\ W \in vmm_query_mapping(vm, v).flags
    BY Zenon, <2>2 DEF HeapMaps
  <2>4. g_shm_segments[s].size - g_shm_segments[s].asked \in 0..(PageSize - 1)
    BY Zenon, SlotInUse DEF InUse, Backed
  <2> QED
    BY Zenon, <2>1, <2>3, <2>4
<1>2. ASSUME NEW s \in InUse, NEW r \in InUse, s # r
      PROVE  /\ g_shm_segments[s].name # g_shm_segments[r].name
             /\ SegmentPages(s) \cap SegmentPages(r) = {}
  <2> DEFINE e == g_shm_segments[s]
             f == g_shm_segments[r]
             a == e.base
             b == f.base
             k == page_count(e)
             l == page_count(f)
  <2>1. s \in SegmentSlot /\ r \in SegmentSlot /\ e # NONE /\ f # NONE
    BY Zenon DEF InUse
  <2>2. Separate(e, f)
    BY Zenon, <1>2, <2>1 DEF SegmentsInv, Slots
  <2>3. e.name # f.name /\ (a + k <= b \/ b + l <= a)
    BY Zenon, <2>1, <2>2 DEF Separate
  <2>4. a \in Nat /\ k \in Nat \ {0} /\ SegmentPages(s) = a..((a + k) - 1)
    BY Zenon, PagesOfSegment
  <2>5. b \in Nat /\ l \in Nat \ {0} /\ SegmentPages(r) = b..((b + l) - 1)
    BY Zenon, PagesOfSegment
  <2> HIDE DEF a, b, k, l
  <2>6. (a..((a + k) - 1)) \cap (b..((b + l) - 1)) = {}
    BY <2>3, <2>4, <2>5
  <2> QED
    BY Zenon, <2>3, <2>4, <2>5, <2>6
<1>3. g_shm_segment_count = Cardinality(InUse)
  BY Zenon DEF SegmentsInv
<1> QED
  BY Zenon, <1>1, <1>2, <1>3 DEF SegmentsBacked

(* The attachment lists hold who is attached. *)
LEMMA AllListed == SegmentsInv => AttachmentsExact
<1> SUFFICES ASSUME SegmentsInv, NEW s \in SegmentSlot
             PROVE  IF s \notin InUse THEN attached[s] = {}
                    ELSE LET seg == g_shm_segments[s]
                         IN  /\ seg.attachments = Cardinality(attached[s])
                             /\ attached[s] = {seg.tids[i] : i \in 0..(seg.attachments - 1)}
                             /\ \A i \in seg.attachments..(MaxAttachments - 1) : seg.tids[i] = 0
  BY Zenon DEF AttachmentsExact
<1>1. CASE g_shm_segments[s] = NONE
  <2>1. attached[s] = {}
    BY Zenon, <1>1 DEF SegmentsInv, Slots, Slot
  <2> QED
    BY Zenon, <1>1, <2>1 DEF InUse
<1>2. CASE g_shm_segments[s] # NONE
  <2> DEFINE seg == g_shm_segments[s]
             n == seg.attachments
             tids == seg.tids
             A == attached[s]
  <2>1. Listed(n, tids, A) /\ s \in InUse
    BY Zenon, <1>2, SlotInUse DEF InUse
  <2> HIDE DEF n, tids, A
  <2>2. /\ n = Cardinality(A) /\ \A i \in n..(MaxAttachments - 1) : tids[i] = 0
        /\ \A x : x \in A <=> \E i \in 0..(n - 1) : tids[i] = x
    BY Zenon, <2>1 DEF Listed
  <2>3. A = {tids[i] : i \in 0..(n - 1)}
    BY Zenon, <2>2
  <2> QED
    BY Zenon, <2>1, <2>2, <2>3 DEF n, tids, A
<1> QED
  BY Zenon, <1>1, <1>2

-----------------------------------------------------------------------------
(* The pages counted. *)

INSTANCE FiniteSetTheorems

(* Finite sets are as the lemmas above need them. *)
LEMMA CountsHold == Counts
<1>1. IsFiniteSet({}) /\ Cardinality({}) = 0
  BY Zenon, FS_EmptySet
<1>2. ASSUME NEW S, IsFiniteSet(S), NEW x
      PROVE  /\ IsFiniteSet(S \cup {x}) /\ IsFiniteSet(S \ {x})
             /\ x \notin S => Cardinality(S \cup {x}) = Cardinality(S) + 1
             /\ x \in S => Cardinality(S \ {x}) = Cardinality(S) - 1
  BY Zenon, <1>2, FS_AddElement, FS_RemoveElement
<1>3. ASSUME NEW S, IsFiniteSet(S), NEW T, T \subseteq S PROVE IsFiniteSet(T)
  BY Zenon, <1>3, FS_Subset
<1>4. ASSUME NEW a \in Int, NEW b \in Int PROVE IsFiniteSet(a..b)
  BY Zenon, FS_Interval
<1> QED
  BY Zenon, <1>1, <1>2, <1>3, <1>4 DEF Counts

(* Two finite sets without a common element. *)
LEMMA CountApart ==
    ASSUME NEW S, NEW T, IsFiniteSet(S), IsFiniteSet(T), S \cap T = {}
    PROVE  /\ IsFiniteSet(S \cup T)
           /\ Cardinality(S \cup T) = Cardinality(S) + Cardinality(T)
<1>1. /\ IsFiniteSet(S \cup T)
      /\ Cardinality(S \cup T) = Cardinality(S) + Cardinality(T) - Cardinality(S \cap T)
  BY Zenon, FS_Union
<1>2. Cardinality(S \cap T) = 0 /\ Cardinality(S) \in Nat /\ Cardinality(T) \in Nat
  BY Zenon, FS_EmptySet, FS_CardinalityType
<1> QED
  BY <1>1, <1>2

(* Heap pages have as many frames as there are pages. *)
LEMMA CountFrames ==
    ASSUME NEW m, NEW H, HeapMaps(m, H), IsFiniteSet(H)
    PROVE  Cardinality(Frames(m, H)) = Cardinality(H)
<1> DEFINE g == [v \in H |-> vmm_query_mapping(m, v).frame]
           F == Frames(m, H)
<1>1. \A v, w \in H : vmm_query_mapping(m, v).frame = vmm_query_mapping(m, w).frame => v = w
  BY Zenon DEF HeapMaps
<1>2. g \in [H -> F]
  BY Zenon DEF Frames
<1>3. \A v, w \in H : g[v] = g[w] => v = w
  BY Zenon, <1>1
<1>4. \A f \in F : \E v \in H : g[v] = f
  BY Zenon DEF Frames
<1>5. g \in Bijection(H, F)
  <2> HIDE DEF g, F
  <2> QED
    BY SMTT(30), Z3T(30), <1>2, <1>3, <1>4 DEF Bijection, Injection, Surjection, IsInjective
<1>6. ExistsBijection(H, F)
  BY Zenon, <1>5 DEF ExistsBijection
<1> QED
  BY Zenon, <1>6, FS_Bijection

(* P is made up of four sets without common elements. *)
Parts(P, A, B, C, D) ==
    /\ A \cup B \cup C \cup D = P
    /\ A \cap B = {} /\ (A \cup B) \cap C = {} /\ (A \cup B \cup C) \cap D = {}

Counted(P, A, B, C, D) ==
    Cardinality(P) = Cardinality(A) + Cardinality(B) + Cardinality(C) + Cardinality(D)

(* The page counts add up. *)
LEMMA CountFour ==
    ASSUME NEW P, IsFiniteSet(P), NEW A, NEW B, NEW C, NEW D, Parts(P, A, B, C, D)
    PROVE  Counted(P, A, B, C, D)
<1>0. /\ A \cup B \cup C \cup D = P
      /\ A \cap B = {} /\ (A \cup B) \cap C = {} /\ (A \cup B \cup C) \cap D = {}
  BY Zenon DEF Parts
<1>1. A \subseteq P /\ B \subseteq P /\ C \subseteq P /\ D \subseteq P
  BY <1>0
<1>2. IsFiniteSet(A) /\ IsFiniteSet(B) /\ IsFiniteSet(C) /\ IsFiniteSet(D)
  BY Zenon, <1>1, FS_Subset
<1>3. IsFiniteSet(A \cup B) /\ Cardinality(A \cup B) = Cardinality(A) + Cardinality(B)
  BY Zenon, <1>0, <1>2, CountApart
<1>4. /\ IsFiniteSet(A \cup B \cup C)
      /\ Cardinality(A \cup B \cup C) = Cardinality(A) + Cardinality(B) + Cardinality(C)
  BY Zenon, <1>0, <1>2, <1>3, CountApart
<1>5. Cardinality(A \cup B \cup C \cup D) = Cardinality(A \cup B \cup C) + Cardinality(D)
  BY Zenon, <1>0, <1>2, <1>4, CountApart
<1> QED
  BY Zenon, <1>0, <1>4, <1>5 DEF Counted

(* No page is lost or used twice. *)
LEMMA Conserved == MemoryInv => PagesConserved
<1> SUFFICES ASSUME MemoryInv PROVE PagesConserved
  OBVIOUS
<1> DEFINE H == HeapPages
           T == DOMAIN vm.table
<1>1. /\ IsTree(vm) /\ HeapMaps(vm, H) /\ Owned(vm, HeapFrames, DemoFrames, pool)
      /\ g_kernel_heap_next \in HeapBase..g_kernel_heap_limit /\ pool \in Pool
  BY Zenon DEF MemoryInv, Whole, Sound, HeapPages, HeapFrames, Frames, DemoFrames
<1>2. vm.free \cap T = {}
  BY Zenon, <1>1 DEF IsTree, Tree
<1>3. /\ vm.free \cup T \cup HeapFrames \cup DemoFrames = pool \cup BootFrames
      /\ HeapFrames \cap (vm.free \cup T) = {} /\ DemoFrames \cap (vm.free \cup T) = {}
      /\ HeapFrames \cap DemoFrames = {} /\ BootFrames \subseteq T
  BY Zenon, <1>1 DEF Owned
<1>4. pool \subseteq Identity /\ pool \cap BootFrames = {}
  <2>1. pool \subseteq Identity \ ({SplitPage} \cup BootFrames)
    BY Zenon, <1>1 DEF Owned
  <2> HIDE DEF Identity, BootFrames
  <2> QED
    BY Zenon, <2>1
<1>5. IsFiniteSet(pool)
  <2>1. 0 \in Int /\ Fanout * Fanout - 1 \in Int
    BY PageTableAssumption DEF PageTableAssumption
  <2>2. IsFiniteSet(Identity)
    BY Zenon, <2>1, FS_Interval DEF Identity
  <2> QED
    BY Zenon, <1>4, <2>2, FS_Subset
<1>6. Cardinality(HeapFrames) = Cardinality(HeapPages)
  <2>1. HeapBase \in Int /\ g_kernel_heap_next - 1 \in Int
    BY SMTT(30), Z3T(30), <1>1, VmmAssumption DEF VmmAssumption
  <2>2. IsFiniteSet(H)
    BY Zenon, <2>1, FS_Interval DEF HeapPages
  <2>3. HeapFrames = Frames(vm, H)
    BY Zenon DEF HeapFrames, Frames
  <2> QED
    BY Zenon, <1>1, <2>2, <2>3, CountFrames
<1> DEFINE A == vm.free
           B == T \ BootFrames
<1> HIDE DEF H, T
<1>7. /\ A \cup B \cup HeapFrames \cup DemoFrames = pool
      /\ A \cap B = {} /\ (A \cup B) \cap HeapFrames = {}
      /\ (A \cup B \cup HeapFrames) \cap DemoFrames = {}
  BY SMTT(30), Z3T(30), <1>2, <1>3, <1>4
<1> HIDE DEF A, B
<1>8. Counted(pool, A, B, HeapFrames, DemoFrames)
  <2>1. Parts(pool, A, B, HeapFrames, DemoFrames)
    BY Zenon, <1>7 DEF Parts
  <2> QED
    BY Zenon, <1>5, <2>1, CountFour
<1> QED
  BY Zenon, <1>6, <1>7, <1>8 DEF PagesConserved, Counted, A, B, T

(* The heap's window maps the pages handed out, and no others. *)
LEMMA HeapIsExact == MemoryInv => HeapExact
<1> SUFFICES ASSUME MemoryInv, NEW v \in HeapWindow
             PROVE  IF v < g_kernel_heap_next
                    THEN /\ vmm_query_mapping(vm, v) # NONE
                         /\ W \in vmm_query_mapping(vm, v).flags
                    ELSE vmm_query_mapping(vm, v) = NONE
  BY Zenon DEF HeapExact
<1>1. HeapMaps(vm, HeapPages) /\ g_kernel_heap_next \in HeapBase..g_kernel_heap_limit
  BY Zenon DEF MemoryInv, Whole, Sound, HeapPages
<1>2. v < g_kernel_heap_next <=> v \in HeapPages
  <2>1. HeapBase \in Nat /\ g_kernel_heap_limit \in Nat
    BY VmmAssumption DEF VmmAssumption
  <2> QED
    BY SMTT(30), Z3T(30), <1>1, <2>1 DEF HeapWindow, HeapPages
<1> QED
  BY Zenon, <1>1, <1>2 DEF HeapMaps

(* The tables stay a tree and keep the mappings of boot. *)
LEMMA TreeIsIntact == MemoryInv => TreeIntact
<1> SUFFICES ASSUME MemoryInv PROVE TreeIntact
  OBVIOUS
<1>1. IsTree(vm) /\ BootMaps(vm) /\ SplitMaps(vm, split_page)
  BY Zenon DEF MemoryInv, Whole, Sound
<1>2. ASSUME NEW v \in Identity
      PROVE  \/ vmm_query_mapping(vm, v) = [frame |-> v, flags |-> {W}]
             \/ v = SplitPage /\ split_page # NONE
                /\ vmm_query_mapping(vm, v) = [frame |-> split_page, flags |-> {W}]
  BY Zenon, <1>1, <1>2, NoneNoPage DEF BootMaps, SplitMaps
<1>3. ASSUME NEW f \in DOMAIN vm.table \ {g_pml4}
      PROVE  \E t \in DOMAIN vm.table, i \in Index :
                /\ PointsTo(vm, t, i, f)
                /\ \A s \in DOMAIN vm.table, j \in Index : PointsTo(vm, s, j, f) => s = t /\ j = i
  <2>1. PICK lv : Tree(vm, lv)
    BY Zenon, <1>1 DEF IsTree
  <2>2. PICK t \in DOMAIN vm.table, i \in Index : PointsTo(vm, t, i, f)
    BY Zenon, <1>3, <2>1 DEF Tree
  <2>3. \A s \in DOMAIN vm.table, j \in Index : PointsTo(vm, s, j, f) => s = t /\ j = i
    BY Zenon, <1>3, <2>1, <2>2 DEF Tree
  <2> QED
    BY Zenon, <2>2, <2>3
<1> QED
  BY Zenon, <1>2, <1>3 DEF TreeIntact

(* Whatever is mapped, unmapped, split or refused half-way, no page that   *)
(* pmm had is lost or used twice, the heap is exactly the pages handed     *)
(* out, and the tables stay a tree that keeps the mappings of boot         *)
(* (vmm_alloc_kernel_pages, vmm_split_large_pd_entry, vmm_walk_to_pt).     *)
THEOREM MemoryStaysExact == VmmSpec => []MemoryExact
<1>1. MemoryInv => MemoryExact
  BY Zenon, Conserved, HeapIsExact, TreeIsIntact DEF MemoryExact
<1> QED
  BY <1>1, MemoryInit, MemoryStep, PTL DEF VmmSpec

(* Whatever segments are created, refused, attached to and detached from,  *)
(* a segment keeps heap pages that no other has, enough for the size that  *)
(* was asked for, and its attachment list is exactly who is attached       *)
(* (shm_create, shm_attach, shm_detach).                                   *)
THEOREM SegmentsStayExact == ShmSpec => []SegmentsExact
<1>1. MemoryInv /\ SegmentsInv => SegmentsExact
  BY Zenon, AllBacked, AllListed DEF SegmentsExact
<1>2. vmm_init /\ shm_init => MemoryInv /\ SegmentsInv
  BY Zenon, CountsHold, MemoryInit, SegmentsInit
<1>3. MemoryInv /\ SegmentsInv /\ [ShmNext]_<<vmmVars, shmVars>> => MemoryInv' /\ SegmentsInv'
  BY Zenon, CountsHold, SegmentsStep
<1> QED
  BY <1>1, <1>2, <1>3, PTL DEF ShmSpec

(* Shared memory takes its pages from the heap in the same way: it loses   *)
(* none and leaves the tables a tree (shm_create).                         *)
THEOREM SegmentsKeepMemory == ShmSpec => []MemoryExact
<1>1. MemoryInv => MemoryExact
  BY Zenon, Conserved, HeapIsExact, TreeIsIntact DEF MemoryExact
<1>2. vmm_init /\ shm_init => MemoryInv /\ SegmentsInv
  BY Zenon, CountsHold, MemoryInit, SegmentsInit
<1>3. MemoryInv /\ SegmentsInv /\ [ShmNext]_<<vmmVars, shmVars>> => MemoryInv' /\ SegmentsInv'
  BY Zenon, CountsHold, SegmentsStep
<1> QED
  BY <1>1, <1>2, <1>3, PTL DEF ShmSpec

=============================================================================
