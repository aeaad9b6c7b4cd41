----------------------------- MODULE PmmProofs ------------------------------
(***************************************************************************)
(* Proofs about the page allocator.  A call takes some pages in hand, the  *)
(* hole S, and keeps the tables exact outside of it (Exact): each lemma    *)
(* about a function of pmm.c says how the hole moves.  The operations      *)
(* follow: free_block, pmm_init and its ranges, then the inductive         *)
(* invariant and the refinement of PageAbs.                                *)
(***************************************************************************)
EXTENDS PmmRefine, WellFoundedInduction, TLAPS

(* A set of natural numbers that is not empty has a least element: what    *)
(* fails for some number fails for a first one.                            *)
LEMMA LeastNat ==
    \A T \in SUBSET Nat : T # {} => \E x \in T : \A y \in T : x <= y
<1> SUFFICES ASSUME NEW T \in SUBSET Nat, T # {}
             PROVE  \E x \in T : \A y \in T : x <= y
  BY Zenon
<1> DEFINE R == OpToRel(<, Nat)
<1>1. IsWellFoundedOn(R, Nat)
  BY Zenon, NatLessThanWellFounded
<1>2. \A x, y \in Nat : x < y => <<x, y>> \in R
  BY Zenon DEF OpToRel
<1> HIDE DEF R
<1>3. PICK x \in T : \A y \in T : ~(<<y, x>> \in R)
  BY Zenon, <1>1, WFMin
<1>4. ASSUME NEW y \in T PROVE x <= y
  <2>1. ~(y < x)
    BY Zenon, <1>2, <1>3
  <2>2. x \in Nat /\ y \in Nat
    BY Zenon
  <2> QED
    BY <2>1, <2>2
<1> QED
  BY Zenon, <1>3, <1>4

Double(x) == 2 * x
Doubling == INSTANCE Loops WITH Step <- Double

(* The sizes of blocks are positive, and each is twice the one before. *)
LEMMA BlockPages ==
    /\ block_pages[0] = 1
    /\ \A k \in Order : block_pages[k] \in Nat \ {0}
    /\ \A k \in Order : k < MaxOrder => k + 1 \in Order /\ block_pages[k + 1] = 2 * block_pages[k]
<1>1. MaxOrder \in Nat
  BY Zenon, PmmAssumption DEF PmmAssumption
<1>2. block_pages = CHOOSE g : Doubling!IsLoop(g, 1, MaxOrder)
  BY Zenon DEF block_pages, Doubling!IsLoop, Order, Double
<1> HIDE DEF block_pages
<1>0. Doubling!IsLoop(block_pages, 1, MaxOrder)
  BY Zenon, <1>1, <1>2, LeastNat, Doubling!LoopExists
<1>3. /\ block_pages[0] = 1
      /\ \A i \in 0..(MaxOrder - 1) : block_pages[i + 1] = Double(block_pages[i])
  <2>1. Doubling!Turns(block_pages, 1, MaxOrder)
    BY Zenon, <1>0, <1>1, Doubling!LoopTurns
  <2> QED
    BY Zenon, <2>1 DEF Doubling!Turns
<1> DEFINE T == {k \in Order : block_pages[k] \notin Nat \ {0}}
<1>4. T = {}
  <2> SUFFICES ASSUME T # {} PROVE FALSE
    BY Zenon
  <2>1. PICK k \in T : \A y \in T : k <= y
    <3>1. T \subseteq Nat
      BY <1>1 DEF Order
    <3> HIDE DEF T
    <3> QED
      BY Zenon, <3>1, LeastNat
  <2>2. k # 0
    BY <1>3
  <2>3. k - 1 \in 0..(MaxOrder - 1) /\ k - 1 \in Order /\ k - 1 \notin T /\ (k - 1) + 1 = k
    BY <1>1, <2>1, <2>2 DEF Order
  <2>4. block_pages[k - 1] \in Nat \ {0} /\ block_pages[k] = 2 * block_pages[k - 1]
    BY Zenon, <1>3, <2>3 DEF Double
  <2> QED
    BY <2>4
<1> QED
  BY <1>1, <1>3, <1>4 DEF Order, Double

-----------------------------------------------------------------------------
(* What the elementary functions do to each table. *)

SameRegion(m, n) == n.base = m.base /\ n.total_pages = m.total_pages

(* set_block changes the owners of the block, and the order and the state  *)
(* of its head.                                                            *)
SetAt(m, n, start, k, state) ==
    /\ n \in Tables /\ SameRegion(m, n)
    /\ n.free_pages = m.free_pages /\ n.free_list = m.free_list
    /\ \A p \in Page :
         /\ n.page_owner[p] = IF p \in Block(start, k) THEN start ELSE m.page_owner[p]
         /\ n.block_order[p] = IF p = start THEN k ELSE m.block_order[p]
         /\ n.block_state[p] = IF p = start THEN state ELSE m.block_state[p]

(* set_block writes the owner of every page of the block, and the head's   *)
(* state and order.                                                        *)
LEMMA SetBlock ==
    ASSUME NEW m \in Tables, NEW start \in Page, NEW k \in Order, NEW state \in BlockState,
           NEW n, n = set_block(m, start, k, state)
    PROVE  SetAt(m, n, start, k, state)
<1> DEFINE ow == [p \in Page |-> IF p \in Block(start, k) THEN start ELSE m.page_owner[p]]
           e1 == [m EXCEPT !.page_owner = ow]
           e2 == [e1 EXCEPT !.block_order = [e1.block_order EXCEPT ![start] = k]]
           e3 == [e2 EXCEPT !.block_state = [e2.block_state EXCEPT ![start] = state]]
<1>1. n = e3
  BY ZenonT(40), SMT DEF set_block, Block
<1>2. ow \in [Page -> Page \cup {INVALID}]
  BY Zenon DEF Tables
<1> HIDE DEF ow
<1>3. e1 \in Tables /\ SameRegion(m, e1) /\ e1.page_owner = ow
      /\ e1.free_pages = m.free_pages /\ e1.free_list = m.free_list
      /\ e1.block_order = m.block_order /\ e1.block_state = m.block_state
  BY Zenon, <1>2 DEF Tables, SameRegion
<1> HIDE DEF e1
<1>4. e2 \in Tables /\ SameRegion(m, e2) /\ e2.page_owner = ow
      /\ e2.free_pages = m.free_pages /\ e2.free_list = m.free_list
      /\ e2.block_order = [m.block_order EXCEPT ![start] = k] /\ e2.block_state = m.block_state
  BY Zenon, <1>3 DEF Tables, SameRegion
<1> HIDE DEF e2
<1>5. e3 \in Tables /\ SameRegion(m, e3) /\ e3.page_owner = ow
      /\ e3.free_pages = m.free_pages /\ e3.free_list = m.free_list
      /\ e3.block_order = [m.block_order EXCEPT ![start] = k]
      /\ e3.block_state = [m.block_state EXCEPT ![start] = state]
  BY Zenon, <1>4 DEF Tables, SameRegion
<1> HIDE DEF e3
<1>6. m.block_order \in [Page -> Order] /\ m.block_state \in [Page -> BlockState]
  BY Zenon DEF Tables
<1> QED
  BY <1>1, <1>5, <1>6 DEF ow, SetAt

(* clear_block_head changes the order and the state of one page. *)
ClearedAt(m, n, start) ==
    /\ n \in Tables /\ SameRegion(m, n)
    /\ n.free_pages = m.free_pages /\ n.free_list = m.free_list
    /\ n.page_owner = m.page_owner
    /\ \A p \in Page :
         /\ n.block_order[p] = IF p = start THEN 0 ELSE m.block_order[p]
         /\ n.block_state[p] = IF p = start THEN "UNUSED" ELSE m.block_state[p]

(* clear_block_head resets the head's state and order and nothing else. *)
LEMMA ClearBlockHead ==
    ASSUME NEW m \in Tables, NEW start \in Page, NEW n, n = clear_block_head(m, start)
    PROVE  ClearedAt(m, n, start)
<1> DEFINE e1 == [m EXCEPT !.block_order = [m.block_order EXCEPT ![start] = 0]]
           e2 == [e1 EXCEPT !.block_state = [e1.block_state EXCEPT ![start] = "UNUSED"]]
<1>1. n = e2
  BY ZenonT(40), SMT DEF clear_block_head
<1>2. 0 \in Order /\ "UNUSED" \in BlockState
  BY PmmAssumption DEF PmmAssumption, Order, BlockState
<1>3. e1 \in Tables /\ SameRegion(m, e1) /\ e1.page_owner = m.page_owner
      /\ e1.free_pages = m.free_pages /\ e1.free_list = m.free_list
      /\ e1.block_order = [m.block_order EXCEPT ![start] = 0] /\ e1.block_state = m.block_state
  BY Zenon, <1>2 DEF Tables, SameRegion
<1> HIDE DEF e1
<1>4. e2 \in Tables /\ SameRegion(m, e2) /\ e2.page_owner = m.page_owner
      /\ e2.free_pages = m.free_pages /\ e2.free_list = m.free_list
      /\ e2.block_order = [m.block_order EXCEPT ![start] = 0]
      /\ e2.block_state = [m.block_state EXCEPT ![start] = "UNUSED"]
  BY Zenon, <1>2, <1>3 DEF Tables, SameRegion
<1> HIDE DEF e2
<1>5. m.block_order \in [Page -> Order] /\ m.block_state \in [Page -> BlockState]
  BY Zenon DEF Tables
<1> QED
  BY <1>1, <1>4, <1>5 DEF ClearedAt

(* A block that free_list_push puts before a list. *)
LEMMA ListPushed ==
    ASSUME NEW list \in Seq(Page), IsInjective(list), NEW start \in Page, start \notin Range(list)
    PROVE  /\ <<start>> \o list \in Seq(Page)
           /\ IsInjective(<<start>> \o list)
           /\ Range(<<start>> \o list) = Range(list) \cup {start}
<1> DEFINE l == <<start>> \o list
<1>1. l \in Seq(Page) /\ Len(l) = Len(list) + 1 /\ DOMAIN l = 1..(Len(list) + 1)
      /\ DOMAIN list = 1..Len(list) /\ Len(list) \in Nat
  OBVIOUS
<1>2. l[1] = start /\ \A i \in 1..Len(list) : l[i + 1] = list[i]
  OBVIOUS
<1> HIDE DEF l
<1>3. \A i \in 2..(Len(list) + 1) : i - 1 \in 1..Len(list) /\ l[i] = list[i - 1]
  <2> TAKE i \in 2..(Len(list) + 1)
  <2>1. i - 1 \in 1..Len(list) /\ (i - 1) + 1 = i
    BY <1>1
  <2> QED
    BY Zenon, <1>2, <2>1
<1>4. \A i \in 1..Len(list) : list[i] \in Range(list)
  BY Zenon, <1>1 DEF Range
<1>5. IsInjective(l)
  <2> SUFFICES ASSUME NEW a \in 1..(Len(list) + 1), NEW b \in 1..(Len(list) + 1), l[a] = l[b]
               PROVE  a = b
    BY Zenon, <1>1 DEF IsInjective
  <2>1. CASE a = 1 \/ b = 1
    <3>1. a = 1 \/ a \in 2..(Len(list) + 1)
      BY <1>1
    <3>2. b = 1 \/ b \in 2..(Len(list) + 1)
      BY <1>1
    <3> QED
      BY <1>2, <1>3, <1>4, <2>1, <3>1, <3>2
  <2>2. CASE a # 1 /\ b # 1
    <3>1. a \in 2..(Len(list) + 1) /\ b \in 2..(Len(list) + 1)
      BY <1>1, <2>2
    <3>2. a - 1 = b - 1
      BY SMTT(30), <1>1, <1>3, <3>1 DEF IsInjective
    <3> QED
      BY <3>1, <3>2
  <2> QED
    BY Zenon, <2>1, <2>2
<1>6. Range(l) \subseteq Range(list) \cup {start}
  <2> SUFFICES ASSUME NEW i \in 1..(Len(list) + 1) PROVE l[i] \in Range(list) \cup {start}
    BY Zenon, <1>1 DEF Range
  <2>1. i = 1 \/ i \in 2..(Len(list) + 1)
    BY <1>1
  <2> QED
    BY Zenon, <1>2, <1>3, <1>4, <2>1
<1>7. Range(list) \cup {start} \subseteq Range(l)
  <2>1. start \in Range(l)
    <3>1. 1 \in DOMAIN l
      BY <1>1
    <3> QED
      BY Zenon, <1>2, <3>1 DEF Range
  <2>2. ASSUME NEW i \in 1..Len(list) PROVE list[i] \in Range(l)
    <3>1. i + 1 \in DOMAIN l
      BY <1>1
    <3> QED
      BY Zenon, <1>2, <3>1 DEF Range
  <2> QED
    BY Zenon, <1>1, <2>1, <2>2 DEF Range
<1> QED
  BY Zenon, <1>1, <1>5, <1>6, <1>7 DEF l

(* A block that free_list_remove takes from its list. *)
LEMMA ListWithout ==
    ASSUME NEW list \in Seq(Page), IsInjective(list), NEW start \in Range(list)
    PROVE  /\ Without(list, start) \in Seq(Page)
           /\ IsInjective(Without(list, start))
           /\ Range(Without(list, start)) = Range(list) \ {start}
<1> DEFINE at == CHOOSE i \in DOMAIN list : list[i] = start
           l == [i \in 1..(Len(list) - 1) |-> IF i < at THEN list[i] ELSE list[i + 1]]
<1>1. Without(list, start) = l
  BY Zenon DEF Without
<1>2. at \in DOMAIN list /\ list[at] = start
  BY Zenon DEF Range
<1> HIDE DEF at
<1>3. /\ Len(list) \in Nat /\ DOMAIN list = 1..Len(list) /\ at \in 1..Len(list)
      /\ \A i \in 1..Len(list) : list[i] \in Page
  BY <1>2
<1>4. \A i \in 1..(Len(list) - 1) : i \in 1..Len(list) /\ i + 1 \in 1..Len(list)
  BY <1>3
<1>5. Len(list) - 1 \in Nat
  BY <1>3
<1>6. l \in [1..(Len(list) - 1) -> Page]
  BY Zenon, <1>3, <1>4
<1>7. l \in Seq(Page)
  BY <1>5, <1>6
<1>8. \A i \in 1..(Len(list) - 1) : l[i] = list[IF i < at THEN i ELSE i + 1]
  BY Zenon
<1>9. DOMAIN l = 1..(Len(list) - 1)
  BY Zenon
<1> HIDE DEF l
<1>10. \A a, b \in 1..Len(list) : list[a] = list[b] => a = b
  BY Zenon, <1>3 DEF IsInjective
<1>11. IsInjective(l)
  <2> SUFFICES ASSUME NEW a \in 1..(Len(list) - 1), NEW b \in 1..(Len(list) - 1), l[a] = l[b]
               PROVE  a = b
    BY Zenon, <1>9 DEF IsInjective
  <2> DEFINE a1 == IF a < at THEN a ELSE a + 1
             b1 == IF b < at THEN b ELSE b + 1
  <2>1. a1 \in 1..Len(list) /\ b1 \in 1..Len(list) /\ l[a] = list[a1] /\ l[b] = list[b1]
    BY Zenon, <1>3, <1>4, <1>8
  <2>2. a1 = b1
    <3> HIDE DEF a1, b1
    <3> QED
      BY Zenon, <1>10, <2>1
  <2> QED
    BY <1>3, <2>2
<1>12. Range(l) \subseteq Range(list) \ {start}
  <2> SUFFICES ASSUME NEW a \in 1..(Len(list) - 1) PROVE l[a] \in Range(list) \ {start}
    BY Zenon, <1>9 DEF Range
  <2> DEFINE a1 == IF a < at THEN a ELSE a + 1
  <2>1. a1 \in 1..Len(list) /\ a1 # at /\ l[a] = list[a1]
    BY <1>3, <1>4, <1>8
  <2> HIDE DEF a1
  <2>2. l[a] # start
    BY Zenon, <1>2, <1>3, <1>10, <2>1
  <2> QED
    BY Zenon, <1>3, <2>1, <2>2 DEF Range
<1>13. Range(list) \ {start} \subseteq Range(l)
  <2> SUFFICES ASSUME NEW i \in 1..Len(list), list[i] # start PROVE list[i] \in Range(l)
    BY Zenon, <1>3 DEF Range
  <2>1. i # at
    BY Zenon, <1>2
  <2> DEFINE j == IF i < at THEN i ELSE i - 1
  <2>2. j \in 1..(Len(list) - 1) /\ (IF j < at THEN j ELSE j + 1) = i
    BY <1>3, <2>1
  <2> HIDE DEF j
  <2>3. l[j] = list[i]
    BY Zenon, <1>8, <2>2
  <2> QED
    BY Zenon, <1>9, <2>2, <2>3 DEF Range
<1> QED
  BY Zenon, <1>1, <1>7, <1>11, <1>12, <1>13

(* add_free_block is set_block, a push and a change of the count. *)
AddedAt(m, n, start, k) ==
    /\ n \in Tables /\ SameRegion(m, n)
    /\ n.free_pages = m.free_pages + block_pages[k]
    /\ \A j \in Order : n.free_list[j] = IF j = k THEN <<start>> \o m.free_list[j]
                                         ELSE m.free_list[j]
    /\ \A p \in Page :
         /\ n.page_owner[p] = IF p \in Block(start, k) THEN start ELSE m.page_owner[p]
         /\ n.block_order[p] = IF p = start THEN k ELSE m.block_order[p]
         /\ n.block_state[p] = IF p = start THEN "FREE" ELSE m.block_state[p]

(* add_free_block puts the block in front of the list of its order and     *)
(* counts its pages.                                                       *)
LEMMA AddFreeBlock ==
    ASSUME NEW m \in Tables, NEW start \in Page, NEW k \in Order, NEW n, n = add_free_block(m, start, k)
    PROVE  AddedAt(m, n, start, k)
<1> DEFINE s == set_block(m, start, k, "FREE")
           pushed == <<start>> \o s.free_list[k]
           e1 == [s EXCEPT !.free_list = [s.free_list EXCEPT ![k] = pushed]]
           e2 == [e1 EXCEPT !.free_pages = e1.free_pages + block_pages[k]]
<1>1. n = e2
  BY ZenonT(40), SMT DEF add_free_block, free_list_push
<1>2. "FREE" \in BlockState
  BY Zenon DEF BlockState
<1>3. /\ s \in Tables /\ SameRegion(m, s)
      /\ s.free_pages = m.free_pages /\ s.free_list = m.free_list
      /\ \A p \in Page :
           /\ s.page_owner[p] = IF p \in Block(start, k) THEN start ELSE m.page_owner[p]
           /\ s.block_order[p] = IF p = start THEN k ELSE m.block_order[p]
           /\ s.block_state[p] = IF p = start THEN "FREE" ELSE m.block_state[p]
  <2>1. SetAt(m, s, start, k, "FREE")
    BY Zenon, <1>2, SetBlock
  <2> QED
    BY Zenon, <2>1 DEF SetAt
<1> HIDE DEF s
<1>4. pushed \in Seq(Page) /\ s.free_list \in [Order -> Seq(Page)]
  BY <1>3 DEF Tables
<1>11. pushed = <<start>> \o m.free_list[k]
  BY Zenon, <1>3
<1> HIDE DEF pushed
<1>5. [s.free_list EXCEPT ![k] = pushed] \in [Order -> Seq(Page)]
  BY Zenon, <1>4
<1>6. e1 \in Tables /\ SameRegion(s, e1) /\ e1.page_owner = s.page_owner
      /\ e1.free_pages = s.free_pages
      /\ e1.free_list = [s.free_list EXCEPT ![k] = pushed]
      /\ e1.block_order = s.block_order /\ e1.block_state = s.block_state
  BY Zenon, <1>3, <1>5 DEF Tables, SameRegion
<1> HIDE DEF e1
<1>7. e1.free_pages + block_pages[k] \in Int
  BY SMTT(30), Z3T(30), SMTT(40), <1>6, BlockPages DEF Tables
<1>8. e2 \in Tables /\ SameRegion(e1, e2) /\ e2.page_owner = e1.page_owner
      /\ e2.free_pages = e1.free_pages + block_pages[k] /\ e2.free_list = e1.free_list
      /\ e2.block_order = e1.block_order /\ e2.block_state = e1.block_state
  BY Zenon, <1>6, <1>7 DEF Tables, SameRegion
<1> HIDE DEF e2
<1>9. SameRegion(m, e2)
  BY Zenon, <1>3, <1>6, <1>8 DEF SameRegion
<1>10. \A j \in Order : e2.free_list[j] = IF j = k THEN pushed ELSE m.free_list[j]
  BY <1>3, <1>4, <1>6, <1>8
<1> QED
  BY <1>1, <1>3, <1>6, <1>8, <1>9, <1>10, <1>11 DEF AddedAt

(* remove_free_block takes the block from the list of its order, which     *)
(* holds it, and clears its head.                                          *)
RemovedAt(m, n, start, k) ==
    /\ n \in Tables /\ SameRegion(m, n)
    /\ n.free_pages = m.free_pages - block_pages[k]
    /\ \A j \in Order : n.free_list[j] = IF j = k THEN Without(m.free_list[j], start)
                                         ELSE m.free_list[j]
    /\ n.page_owner = m.page_owner
    /\ \A p \in Page :
         /\ n.block_order[p] = IF p = start THEN 0 ELSE m.block_order[p]
         /\ n.block_state[p] = IF p = start THEN "UNUSED" ELSE m.block_state[p]

(* remove_free_block takes the block from its list, wherever it is, and    *)
(* counts its pages off.                                                   *)
LEMMA RemoveFreeBlock ==
    ASSUME NEW m \in Tables, NEW start \in Page, NEW k, k = m.block_order[start],
           IsInjective(m.free_list[k]), start \in Range(m.free_list[k]),
           NEW n, n = remove_free_block(m, start)
    PROVE  RemovedAt(m, n, start, k)
<1> DEFINE e1 == [m EXCEPT !.free_list = [m.free_list EXCEPT ![k] = Without(m.free_list[k], start)]]
           e2 == [e1 EXCEPT !.free_pages = e1.free_pages - block_pages[k]]
<1>1. n = clear_block_head(e2, start)
  BY ZenonT(40), SMT DEF remove_free_block, free_list_remove
<1>2. k \in Order /\ m.free_list \in [Order -> Seq(Page)]
  BY Zenon DEF Tables
<1>3. Without(m.free_list[k], start) \in Seq(Page)
  BY Zenon, <1>2, ListWithout
<1>4. [m.free_list EXCEPT ![k] = Without(m.free_list[k], start)] \in [Order -> Seq(Page)]
  BY Zenon, <1>2, <1>3
<1>5. e1 \in Tables /\ SameRegion(m, e1) /\ e1.page_owner = m.page_owner
      /\ e1.free_pages = m.free_pages
      /\ e1.free_list = [m.free_list EXCEPT ![k] = Without(m.free_list[k], start)]
      /\ e1.block_order = m.block_order /\ e1.block_state = m.block_state
  BY Zenon, <1>4 DEF Tables, SameRegion
<1> HIDE DEF e1
<1>6. e1.free_pages - block_pages[k] \in Int
  BY <1>2, <1>5, BlockPages DEF Tables
<1>7. e2 \in Tables /\ SameRegion(e1, e2) /\ e2.page_owner = e1.page_owner
      /\ e2.free_pages = e1.free_pages - block_pages[k] /\ e2.free_list = e1.free_list
      /\ e2.block_order = e1.block_order /\ e2.block_state = e1.block_state
  BY Zenon, <1>5, <1>6 DEF Tables, SameRegion
<1> HIDE DEF e2
<1>8. /\ n \in Tables /\ SameRegion(e2, n)
      /\ n.free_pages = e2.free_pages /\ n.free_list = e2.free_list
      /\ n.page_owner = e2.page_owner
      /\ \A p \in Page :
           /\ n.block_order[p] = IF p = start THEN 0 ELSE e2.block_order[p]
           /\ n.block_state[p] = IF p = start THEN "UNUSED" ELSE e2.block_state[p]
  <2>1. ClearedAt(e2, n, start)
    BY Zenon, <1>1, <1>7, ClearBlockHead
  <2> QED
    BY Zenon, <2>1 DEF ClearedAt
<1>9. SameRegion(m, n)
  BY Zenon, <1>5, <1>7, <1>8 DEF SameRegion
<1>10. \A j \in Order : n.free_list[j] = IF j = k THEN Without(m.free_list[j], start) ELSE m.free_list[j]
  BY <1>2, <1>5, <1>7, <1>8
<1> QED
  BY <1>5, <1>7, <1>8, <1>9, <1>10 DEF RemovedAt

-----------------------------------------------------------------------------
(* Alignment. *)

(* The multiples of a block size. *)
LEMMA Multiples ==
    ASSUME NEW b \in Nat \ {0}
    PROVE  /\ \A q \in Nat : (b * q) % b = 0 /\ (b * q) \div b = q /\ b * q \in Nat
           /\ \A p \in Nat : p % b = 0 => p = b * (p \div b) /\ p \div b \in Nat
  OBVIOUS

(* Addresses in units of pages. *)
LEMMA Units ==
    /\ PageSize \in Nat \ {0} /\ PageEnd \in Nat \ {0} /\ AddressEnd = PageSize * PageEnd
    /\ \A x, y \in Int : /\ PageSize * x \in Int /\ PageSize * y \in Int
                         /\ x <= y <=> PageSize * x <= PageSize * y
                         /\ x < y => PageSize * x + PageSize <= PageSize * y
                         /\ PageSize * (x + 1) = PageSize * x + PageSize
                         /\ PageSize * (x + y) = PageSize * x + PageSize * y
                         /\ PageSize * (x - y) = PageSize * x - PageSize * y
<1>1. PageSize \in Nat \ {0} /\ PageEnd \in Nat \ {0} /\ AddressEnd = PageSize * PageEnd
  BY AddressAssumption DEF AddressAssumption, AddressEnd
<1> DEFINE s == PageSize
<1> HIDE DEF s
<1>2. ASSUME NEW s0 \in Nat \ {0}, NEW x \in Int, NEW y \in Int
      PROVE  /\ s0 * x \in Int /\ s0 * y \in Int
             /\ x < y => s0 * x + s0 <= s0 * y
             /\ s0 * (x + 1) = s0 * x + s0
             /\ s0 * (x + y) = s0 * x + s0 * y
             /\ s0 * (x - y) = s0 * x - s0 * y
  <2>1. /\ s0 * x \in Int /\ s0 * y \in Int /\ s0 * (x + 1) = s0 * x + s0
        /\ s0 * (x + y) = s0 * x + s0 * y /\ s0 * (x - y) = s0 * x - s0 * y
    OBVIOUS
  <2>2. ASSUME x < y PROVE s0 * x + s0 <= s0 * y
    <3> DEFINE d == y - x
    <3>1. d \in Nat \ {0} /\ y = x + d
      BY <2>2
    <3> HIDE DEF d
    <3>2. s0 * y = s0 * x + s0 * d /\ s0 * d >= s0
      BY <3>1
    <3> QED
      BY <2>1, <3>1, <3>2
  <2> QED
    BY Zenon, <2>1, <2>2
<1>3. ASSUME NEW x \in Int, NEW y \in Int PROVE x <= y <=> PageSize * x <= PageSize * y
  <2>1. /\ x < y => PageSize * x + PageSize <= PageSize * y
        /\ y < x => PageSize * y + PageSize <= PageSize * x
        /\ PageSize * x \in Int /\ PageSize * y \in Int
    BY Zenon, <1>1, <1>2
  <2> QED
    BY <1>1, <2>1
<1> QED
  BY <1>1, <1>2, <1>3

(* Rounding down to a page. *)
LEMMA AlignDownIs ==
    ASSUME NEW a \in Nat
    PROVE  \E q \in Nat : AlignDown(a) = PageSize * q /\ PageSize * q <= a /\ a < PageSize * q + PageSize
<1> DEFINE q == a \div PageSize
<1>1. PageSize \in Nat \ {0}
  BY Zenon, Units
<1>2. q \in Nat /\ a = PageSize * q + (a % PageSize) /\ a % PageSize \in 0..(PageSize - 1)
  BY <1>1
<1>3. PageSize * q \in Int
  BY <1>1, <1>2
<1> HIDE DEF q
<1>4. AlignDown(a) = PageSize * q /\ PageSize * q <= a /\ a < PageSize * q + PageSize
  <2> DEFINE t == PageSize * q
             u == a % PageSize
  <2>1. AlignDown(a) = a - u /\ a = t + u /\ u \in 0..(PageSize - 1) /\ t \in Int
    BY Zenon, <1>2, <1>3 DEF AlignDown
  <2> HIDE DEF t, u
  <2>2. AlignDown(a) = t /\ t <= a /\ a < t + PageSize
    BY <1>1, <2>1
  <2> QED
    BY Zenon, <2>2 DEF t
<1> QED
  BY Zenon, <1>2, <1>4

(* Rounding up to a page, which wraps around in the last page. *)
LEMMA AlignUpIs ==
    ASSUME NEW a \in Address
    PROVE  \E q \in 0..(PageEnd - 1) :
               AlignUp(a) = PageSize * q /\ (a <= AddressEnd - PageSize => a <= PageSize * q)
<1> DEFINE s == a + PageSize - 1
           w == s % AddressEnd
<1>1. /\ PageSize \in Nat \ {0} /\ PageEnd \in Nat \ {0} /\ AddressEnd = PageSize * PageEnd
      /\ \A x, y \in Int : PageSize * x \in Int /\ (x <= y <=> PageSize * x <= PageSize * y)
  BY Zenon, Units
<1>2. AddressEnd \in Nat \ {0}
  BY <1>1
<1>3. a \in Nat /\ s \in Nat
  BY <1>1, <1>2 DEF Address
<1>4. w \in 0..(AddressEnd - 1) /\ (s < AddressEnd => w = s)
  BY <1>2, <1>3
<1> HIDE DEF w
<1>5. PICK q \in Nat : AlignDown(w) = PageSize * q /\ PageSize * q <= w /\ w < PageSize * q + PageSize
  BY <1>2, <1>4, AlignDownIs
<1>6. AlignUp(a) = PageSize * q
  BY Zenon, <1>5 DEF AlignUp, w
<1>7. q \in 0..(PageEnd - 1)
  <2>1. ~(PageSize * PageEnd <= PageSize * q)
    BY <1>1, <1>2, <1>4, <1>5
  <2> QED
    BY <1>1, <2>1
<1>8. ASSUME a <= AddressEnd - PageSize PROVE a <= PageSize * q
  <2>1. w = s
    BY <1>1, <1>2, <1>3, <1>4, <1>8
  <2>2. PageSize * q \in Int
    BY <1>1
  <2> QED
    BY <1>1, <1>3, <1>5, <2>1, <2>2
<1> QED
  BY Zenon, <1>6, <1>7, <1>8

(* The end of a range that pmm_reserve_range reserves. *)
LEMMA AlignedEndIs ==
    ASSUME NEW base \in Address, NEW size \in Address
    PROVE  \E q \in 0..(PageEnd - 1) :
               /\ aligned_end(base, size) = PageSize * q
               /\ base + size <= PageSize * q \/ q = PageEnd - 1
<1> DEFINE e == range_end(base, size)
<1>1. /\ PageSize \in Nat \ {0} /\ PageEnd \in Nat \ {0} /\ AddressEnd = PageSize * PageEnd
      /\ \A x, y \in Int : /\ PageSize * x \in Int /\ (x <= y <=> PageSize * x <= PageSize * y)
                           /\ PageSize * (x - y) = PageSize * x - PageSize * y
  BY Zenon, Units
<1>2. AddressEnd \in Nat \ {0} /\ base \in Nat /\ size \in Nat
  BY <1>1 DEF Address
<1>3. e \in Address /\ (e # base + size => e = AddressEnd - 1)
  BY <1>2 DEF range_end, Address
<1>4. PageSize <= AddressEnd
  <2>1. PageSize * 1 <= PageSize * PageEnd /\ PageSize * 1 = PageSize
    BY <1>1
  <2> QED
    BY Zenon, <1>1, <2>1
<1> HIDE DEF e
<1>5. aligned_end(base, size) = IF e > AddressEnd - PageSize THEN AlignDown(AddressEnd - 1) ELSE AlignUp(e)
  BY Zenon DEF aligned_end, e
<1>6. CASE e > AddressEnd - PageSize
  <2>1. AddressEnd - 1 \in Nat
    BY <1>2
  <2>2. PICK q \in Nat : /\ AlignDown(AddressEnd - 1) = PageSize * q /\ PageSize * q <= AddressEnd - 1
                         /\ AddressEnd - 1 < PageSize * q + PageSize
    BY Zenon, <2>1, AlignDownIs
  <2>3. PageSize * q \in Int
    BY <1>1
  <2>4. ~(PageSize * PageEnd <= PageSize * q)
    BY <1>1, <1>2, <2>2, <2>3
  <2>5. PageSize * PageEnd - PageSize <= PageSize * q
    BY <1>1, <1>2, <2>2, <2>3
  <2>6. PageSize * (PageEnd - 1) <= PageSize * q
    <3>1. PageSize * (PageEnd - 1) = PageSize * PageEnd - PageSize * 1 /\ PageSize * 1 = PageSize
      BY <1>1
    <3> QED
      BY Zenon, <2>5, <3>1
  <2>7. q = PageEnd - 1
    BY <1>1, <2>4, <2>6
  <2> QED
    BY <1>1, <1>5, <1>6, <2>2, <2>7
<1>7. CASE ~(e > AddressEnd - PageSize)
  <2>1. e <= AddressEnd - PageSize /\ e \in Nat
    BY <1>1, <1>2, <1>3, <1>4, <1>7 DEF Address
  <2>2. PICK q \in 0..(PageEnd - 1) : AlignUp(e) = PageSize * q /\ e <= PageSize * q
    BY Zenon, <1>3, <2>1, AlignUpIs
  <2>3. PageSize * q \in Int
    BY <1>1
  <2>4. e = base + size \/ PageSize * PageEnd - 1 <= PageSize * q
    BY <1>1, <1>3, <2>2
  <2>5. CASE e = base + size
    BY ZenonT(40), <1>5, <1>7, <2>2, <2>5
  <2>6. CASE e # base + size
    <3>1. e = AddressEnd - 1 /\ PageSize = 1
      BY <1>1, <1>2, <1>3, <1>4, <2>1, <2>6
    <3>2. q >= PageEnd - 1
      BY <1>1, <2>2, <3>1
    <3>3. q = PageEnd - 1
      BY <1>1, <3>2
    <3> QED
      BY ZenonT(40), <1>5, <1>7, <2>2, <3>3
  <2> QED
    BY Zenon, <2>5, <2>6
<1> QED
  BY Zenon, <1>6, <1>7

(* The distance of two addresses in pages. *)
LEMMA UnitsBetween ==
    ASSUME NEW x \in Int, NEW y \in Int, x <= y
    PROVE  (PageSize * y - PageSize * x) \div PageSize = y - x
<1>1. /\ PageSize \in Nat \ {0} /\ PageSize * (y - x) = PageSize * y - PageSize * x
      /\ y - x \in Nat
  BY Units
<1>2. (PageSize * (y - x)) \div PageSize = y - x
  <2> DEFINE s == PageSize
             d == y - x
  <2>1. s \in Nat \ {0} /\ d \in Nat
    BY Zenon, <1>1
  <2> HIDE DEF s, d
  <2>2. (s * d) \div s = d
    BY Zenon, <2>1, Multiples
  <2> QED
    BY Zenon, <2>2 DEF s, d
<1> QED
  BY Zenon, <1>1, <1>2

(* An aligned block is the lower or the upper half of the aligned block of *)
(* twice its size.                                                         *)
LEMMA Halves ==
    ASSUME NEW b \in Nat \ {0}, NEW p \in Nat, p % b = 0
    PROVE  \/ p % (2 * b) = 0 /\ (p \div b) % 2 = 0
           \/ p >= b /\ (p - b) % (2 * b) = 0 /\ (p \div b) % 2 = 1 /\ p % (2 * b) # 0
<1> DEFINE q == p \div b
           r == q \div 2
<1>1. q \in Nat /\ p = b * q
  BY Zenon, Multiples
<1> HIDE DEF q
<1>2. r \in Nat /\ (q = 2 * r \/ q = 2 * r + 1)
  BY <1>1
<1> HIDE DEF r
<1>3. 2 * b \in Nat \ {0} /\ (2 * b) * r \in Nat /\ b * (2 * r) = (2 * b) * r
  BY <1>2
<1>4. ((2 * b) * r) % (2 * b) = 0
  BY Zenon, <1>2, <1>3, Multiples
<1>5. CASE q = 2 * r
  BY <1>1, <1>2, <1>3, <1>4, <1>5 DEF q
<1>6. CASE q = 2 * r + 1
  <2>1. b * q = (2 * b) * r + b
    BY <1>2, <1>3, <1>6
  <2>2. p - b = (2 * b) * r /\ p >= b
    BY <1>1, <1>3, <2>1
  <2>3. (p - b) % (2 * b) = 0
    BY ZenonT(40), <1>4, <2>2
  <2>4. q % 2 = 1
    BY <1>2, <1>6
  <2>5. p % (2 * b) = b
    BY <1>3, <1>4, <2>2
  <2> QED
    BY ZenonT(40), <2>2, <2>3, <2>4, <2>5 DEF q
<1> QED
  BY Zenon, <1>2, <1>5, <1>6

(* Both halves of an aligned block are aligned. *)
LEMMA HalvesAligned ==
    ASSUME NEW b \in Nat \ {0}, NEW p \in Nat, p % (2 * b) = 0
    PROVE  p % b = 0 /\ (p + b) % b = 0 /\ (p + b) % (2 * b) # 0
<1> DEFINE c == 2 * b
           r == p \div c
<1>1. r \in Nat /\ p = (2 * b) * r /\ 2 * b \in Nat \ {0}
  <2>1. c \in Nat \ {0} /\ p % c = 0
    OBVIOUS
  <2> HIDE DEF c
  <2>2. r \in Nat /\ p = c * r
    BY Zenon, <2>1, Multiples
  <2> QED
    BY ZenonT(40), <2>1, <2>2 DEF c
<1> HIDE DEF r
<1>2. (2 * b) * r = b * (2 * r) /\ b * (2 * r) + b = b * (2 * r + 1)
  BY <1>1
<1>3. (b * (2 * r)) % b = 0 /\ (b * (2 * r + 1)) % b = 0
  <2>1. 2 * r \in Nat /\ 2 * r + 1 \in Nat
    BY <1>1
  <2> HIDE DEF r
  <2> QED
    BY Zenon, <2>1, Multiples
<1>4. (p + b) % (2 * b) = b
  BY <1>1
<1> QED
  BY ZenonT(40), <1>1, <1>2, <1>3, <1>4

-----------------------------------------------------------------------------
(* The tables are exact on a set X of pages. *)

(* No two halves of a larger block are free blocks. *)
NoPair(m, X) ==
    \A k \in Order : \A p \in X :
        /\ k < MaxOrder /\ p % (2 * block_pages[k]) = 0 /\ p + block_pages[k] \in X
        => ~(FreeBlock(m, p, k) /\ FreeBlock(m, p + block_pages[k], k))

(* What the proofs need to know about the numbers of pages: a block of     *)
(* order k has block_pages[k] of them.  MemoryProofs proves it from the    *)
(* library of finite sets; carried as a conjunct of Exact it keeps that    *)
(* library, which is large, out of the context of the proofs below.        *)
Counting ==
    /\ Cardinality({}) = 0
    /\ \A F \in SUBSET Page :
         /\ Cardinality(F) \in 0..block_pages[MaxOrder]
         /\ \A p \in Nat : \A k \in Order :
              /\ Block(p, k) \subseteq F =>
                     Cardinality(F \ Block(p, k)) = Cardinality(F) - block_pages[k]
              /\ Block(p, k) \cap F = {} =>
                     Cardinality(F \cup Block(p, k)) = Cardinality(F) + block_pages[k]

(* The pages in hand carry no state, except perhaps one of them, h. *)
Exact(m, X, h) ==
    /\ Counting /\ m \in Tables /\ X \subseteq Managed(m)
    /\ BlocksTile(m, X) /\ ListsExact(m, X) /\ NoPair(m, X) /\ FreePagesExact(m, X)
    /\ \A p \in Managed(m) \ X : p # h => m.block_state[p] = "UNUSED"

(* Two values of the tables agree on which pages are free, allocated and   *)
(* reserved, or on all but the free ones.                                  *)
SameClasses(m, n, X) == \A c : ClassOf(n, X, c) = ClassOf(m, X, c)

FreeBecomes(m, X, n, Y, F) ==
    /\ ClassOf(n, Y, "FREE") = F
    /\ \A c : c # "FREE" => ClassOf(n, Y, c) = ClassOf(m, X, c)

(* Types of pages and orders. *)
LEMMA PageTypes ==
    ASSUME NEW m \in Tables
    PROVE  /\ Managed(m) \subseteq Page /\ Page \subseteq Nat
           /\ m.total_pages \in Nat /\ MaxOrder \in Nat /\ Order \subseteq Nat /\ 0 \in Order
           /\ \A p \in Page : m.block_order[p] \in Order
           /\ \A k \in Order : m.free_list[k] \in Seq(Page)
<1>1. MaxOrder \in Nat /\ MaxOrder \in Order /\ 0 \in Order /\ Order \subseteq Nat
  BY PmmAssumption DEF PmmAssumption, Order
<1>2. block_pages[MaxOrder] \in Nat
  BY ZenonT(40), <1>1, BlockPages
<1>3. m.total_pages \in 0..block_pages[MaxOrder]
  BY Zenon DEF Tables
<1>4. Managed(m) \subseteq Page /\ Page \subseteq Nat
  BY <1>2, <1>3 DEF Managed, Page
<1> QED
  BY <1>1, <1>2, <1>3, <1>4 DEF Tables

(* A page is in its own block. *)
LEMMA InBlock ==
    ASSUME NEW p \in Nat, NEW k \in Order
    PROVE  p \in Block(p, k) /\ Block(p, k) \subseteq Nat
<1>1. block_pages[k] \in Nat \ {0}
  BY ZenonT(40), BlockPages
<1> QED
  BY <1>1 DEF Block

(* A page with a state is the head of its block, whose pages are the ones  *)
(* that it owns.                                                           *)
LEMMA Heads ==
    ASSUME NEW m \in Tables, NEW X, X \subseteq Managed(m), BlocksTile(m, X),
           NEW p \in X, m.block_state[p] # "UNUSED", NEW k, k = m.block_order[p]
    PROVE  /\ k \in Order /\ m.page_owner[p] = p /\ p \in Block(p, k) /\ Block(p, k) \subseteq X
           /\ \A q \in X : q \in Block(p, k) <=> m.page_owner[q] = p
           /\ \A q \in Block(p, k) : q # p => m.block_state[q] = "UNUSED"
           /\ p % block_pages[k] = 0
           /\ m.block_state[p] # "FREE" => k = 0
<1>1. p \in Page /\ p \in Nat /\ k \in Order
  BY ZenonT(40), PageTypes
<1>2. m.page_owner[p] = p
  BY Zenon DEF BlocksTile
<1>3. /\ Block(p, k) \subseteq X /\ \A q \in Block(p, k) : m.page_owner[q] = p
      /\ p % block_pages[k] = 0 /\ (m.block_state[p] # "FREE" => k = 0)
  BY <1>2 DEF BlocksTile
<1>4. ASSUME NEW q \in X, m.page_owner[q] = p PROVE q \in Block(p, k)
  BY <1>4 DEF BlocksTile
<1>5. ASSUME NEW q \in Block(p, k), q # p PROVE m.block_state[q] = "UNUSED"
  BY <1>3, <1>5 DEF BlocksTile
<1> QED
  BY ZenonT(40), <1>1, <1>2, <1>3, <1>4, <1>5, InBlock

(* What a block on X looks like from one of its pages. *)
TileAt(m, X, q, head, order) ==
    /\ head \in X
    /\ q \in Block(head, order) /\ Block(head, order) \subseteq X
    /\ \A r \in Block(head, order) : m.page_owner[r] = head
    /\ head % block_pages[order] = 0
    /\ m.block_state[head] # "UNUSED"
    /\ q # head => m.block_state[q] = "UNUSED"
    /\ m.block_state[head] # "FREE" => order = 0

(* BlocksTile, one page at a time. *)
LEMMA TilesAre ==
    ASSUME NEW m, NEW X
    PROVE  BlocksTile(m, X) <=>
             \A q \in X : TileAt(m, X, q, m.page_owner[q], m.block_order[m.page_owner[q]])
  BY Zenon DEF BlocksTile, TileAt

(* What the tables say of a page in hand of no call: its head, its block,  *)
(* their states.                                                           *)
LEMMA Tiles ==
    ASSUME NEW m \in Tables, NEW X, X \subseteq Managed(m), BlocksTile(m, X), NEW q \in X,
           NEW head, head = m.page_owner[q], NEW order, order = m.block_order[head]
    PROVE  /\ head \in X /\ order \in Order /\ m.page_owner[head] = head
           /\ q \in Block(head, order) /\ Block(head, order) \subseteq X
           /\ \A r \in Block(head, order) : m.page_owner[r] = head
           /\ head % block_pages[order] = 0
           /\ m.block_state[head] # "UNUSED"
           /\ q # head => m.block_state[q] = "UNUSED"
           /\ m.block_state[head] # "FREE" => order = 0
<1>1. /\ head \in X
      /\ q \in Block(head, order) /\ Block(head, order) \subseteq X
      /\ \A r \in Block(head, order) : m.page_owner[r] = head
      /\ head % block_pages[order] = 0
      /\ m.block_state[head] # "UNUSED"
      /\ q # head => m.block_state[q] = "UNUSED"
      /\ m.block_state[head] # "FREE" => order = 0
  BY DEF BlocksTile
<1>2. head \in Nat /\ order \in Order
  BY ZenonT(40), <1>1, PageTypes
<1>3. head \in Block(head, order)
  BY ZenonT(40), <1>2, InBlock
<1> QED
  BY ZenonT(40), <1>1, <1>2, <1>3

(* remove_free_block takes the pages of a free block in hand. *)
LEMMA TakeBlock ==
    ASSUME NEW m, NEW X, NEW h, Exact(m, X, h), NEW p \in X, NEW k, FreeBlock(m, p, k),
           NEW n, n = remove_free_block(m, p), NEW B, B = Block(p, k)
    PROVE  /\ Exact(n, X \ B, h) /\ SameRegion(m, n)
           /\ k \in Order /\ p % block_pages[k] = 0
           /\ B \subseteq ClassOf(m, X, "FREE")
           /\ FreeBecomes(m, X, n, X \ B, ClassOf(m, X, "FREE") \ B)
           /\ RemovedAt(m, n, p, k)
<1> DEFINE Y == X \ B
<1>1. /\ m \in Tables /\ X \subseteq Managed(m) /\ BlocksTile(m, X) /\ ListsExact(m, X)
      /\ NoPair(m, X) /\ FreePagesExact(m, X)
      /\ m.block_state[p] = "FREE" /\ m.block_order[p] = k
      /\ \A q \in Managed(m) \ X : q # h => m.block_state[q] = "UNUSED"
  BY ZenonT(40) DEF Exact, FreeBlock
<1>2. /\ k \in Order /\ m.page_owner[p] = p /\ p \in B /\ B \subseteq X
      /\ \A q \in X : q \in B <=> m.page_owner[q] = p
      /\ \A q \in B : q # p => m.block_state[q] = "UNUSED"
      /\ p % block_pages[k] = 0
  BY <1>1, Heads
<1>3. X \subseteq Page /\ p \in Page /\ Page \subseteq Nat
  BY ZenonT(40), <1>1, PageTypes
<1>4. IsInjective(m.free_list[k]) /\ p \in Range(m.free_list[k])
  BY ZenonT(40), <1>1, <1>2 DEF ListsExact, FreeBlock
<1>16. RemovedAt(m, n, p, k)
  BY ZenonT(40), <1>1, <1>3, <1>4, RemoveFreeBlock
<1>5. /\ n \in Tables /\ SameRegion(m, n)
      /\ n.free_pages = m.free_pages - block_pages[k]
      /\ \A j \in Order : n.free_list[j] = IF j = k THEN Without(m.free_list[j], p)
                                           ELSE m.free_list[j]
      /\ n.page_owner = m.page_owner
      /\ \A q \in Page :
           /\ n.block_order[q] = IF q = p THEN 0 ELSE m.block_order[q]
           /\ n.block_state[q] = IF q = p THEN "UNUSED" ELSE m.block_state[q]
  BY ZenonT(40), <1>16 DEF RemovedAt
<1>6. Managed(n) = Managed(m)
  BY Zenon, <1>5 DEF SameRegion, Managed
<1>7. \A q \in Y : /\ m.page_owner[q] \in Y /\ m.page_owner[q] # p /\ q # p
                   /\ n.block_order[q] = m.block_order[q] /\ n.block_state[q] = m.block_state[q]
  <2> TAKE q \in Y
  <2>1. m.page_owner[q] # p /\ q # p
    BY Zenon, <1>2
  <2>2. m.page_owner[q] \in X /\ m.page_owner[m.page_owner[q]] = m.page_owner[q]
    BY <1>1, Tiles
  <2>4. m.page_owner[q] \notin B
    BY Zenon, <1>2, <2>1, <2>2
  <2> QED
    BY ZenonT(40), <1>3, <1>5, <2>1, <2>2, <2>4
<1>8. BlocksTile(n, Y)
  <2>1. ASSUME NEW q \in Y, NEW head, head = n.page_owner[q], NEW order, order = n.block_order[head]
        PROVE  TileAt(n, Y, q, head, order)
    <3>1. head = m.page_owner[q] /\ head \in Y /\ head # p
      BY ZenonT(40), <1>5, <1>7, <2>1
    <3>2. /\ order = m.block_order[head] /\ n.block_state[head] = m.block_state[head]
          /\ n.block_state[q] = m.block_state[q]
      BY ZenonT(40), <1>7, <2>1, <3>1
    <3>3. /\ q \in Block(head, order) /\ Block(head, order) \subseteq X
          /\ \A r \in Block(head, order) : m.page_owner[r] = head
          /\ head % block_pages[order] = 0
          /\ m.block_state[head] # "UNUSED"
          /\ q # head => m.block_state[q] = "UNUSED"
          /\ m.block_state[head] # "FREE" => order = 0
      BY <1>1, <3>1, <3>2, Tiles
    <3>4. Block(head, order) \subseteq Y
      BY ZenonT(40), <1>2, <3>1, <3>3
    <3> QED
      BY <1>5, <3>1, <3>2, <3>3, <3>4 DEF TileAt
  <2>2. \A q \in Y : TileAt(n, Y, q, n.page_owner[q], n.block_order[n.page_owner[q]])
    BY <2>1
  <2> QED
    BY ZenonT(40), <2>2, TilesAre
<1>9. ListsExact(n, Y)
  <2> SUFFICES ASSUME NEW j \in Order
               PROVE  /\ IsInjective(n.free_list[j])
                      /\ Range(n.free_list[j]) = {q \in Y : FreeBlock(n, q, j)}
    BY Zenon DEF ListsExact
  <2>1. IsInjective(m.free_list[j]) /\ Range(m.free_list[j]) = {q \in X : FreeBlock(m, q, j)}
        /\ m.free_list[j] \in Seq(Page)
    BY ZenonT(40), <1>1, PageTypes DEF ListsExact
  <2>2. {q \in Y : FreeBlock(n, q, j)} = {q \in X : FreeBlock(m, q, j)} \ {p}
    <3>1. \A q \in Y : FreeBlock(n, q, j) <=> FreeBlock(m, q, j)
      BY Zenon, <1>7 DEF FreeBlock
    <3>2. \A q \in B : q # p => ~FreeBlock(m, q, j)
      BY ZenonT(40), <1>2 DEF FreeBlock
    <3> QED
      BY ZenonT(40), <1>2, <3>1, <3>2
  <2>3. CASE j = k
    BY <1>4, <1>5, <2>1, <2>2, <2>3, ListWithout
  <2>4. CASE j # k
    <3>1. p \notin {q \in X : FreeBlock(m, q, j)}
      BY ZenonT(40), <1>1, <2>4 DEF FreeBlock
    <3> QED
      BY ZenonT(40), <1>5, <2>1, <2>2, <2>4, <3>1
  <2> QED
    BY Zenon, <2>3, <2>4
<1>10. NoPair(n, Y)
  BY <1>1, <1>7 DEF NoPair, FreeBlock
<1>11. \A q \in Y : n.block_state[n.page_owner[q]] = m.block_state[m.page_owner[q]]
  BY <1>5, <1>7
<1>12. \A q \in B : m.block_state[m.page_owner[q]] = "FREE"
  BY Zenon, <1>1, <1>2
<1>13. /\ B \subseteq ClassOf(m, X, "FREE")
       /\ ClassOf(n, Y, "FREE") = ClassOf(m, X, "FREE") \ B
       /\ \A c : c # "FREE" => ClassOf(n, Y, c) = ClassOf(m, X, c)
  BY <1>2, <1>11, <1>12 DEF ClassOf
<1>14. FreePagesExact(n, Y)
  <2> DEFINE F == ClassOf(m, X, "FREE")
  <2>1. F \subseteq Page /\ p \in Nat /\ Block(p, k) \subseteq F
    BY ZenonT(40), <1>1, <1>13, PageTypes DEF ClassOf
  <2> HIDE DEF F
  <2>2. Counting
    BY Zenon DEF Exact
  <2>3. Cardinality(F \ B) = Cardinality(F) - block_pages[k]
    BY ZenonT(40), <1>2, <2>1, <2>2 DEF Counting
  <2> QED
    BY Zenon, <1>1, <1>5, <1>13, <2>3 DEF FreePagesExact, F
<1>15. \A q \in Managed(n) \ Y : q # h => n.block_state[q] = "UNUSED"
  <2> SUFFICES ASSUME NEW q \in Managed(m) \ Y, q # h PROVE n.block_state[q] = "UNUSED"
    BY ZenonT(40), <1>6
  <2>1. q \in Page
    BY ZenonT(40), <1>1, PageTypes
  <2> QED
    BY <1>1, <1>2, <1>5, <2>1
<1> QED
  BY Zenon, <1>1, <1>2, <1>5, <1>6, <1>8, <1>9, <1>10, <1>13, <1>14, <1>15, <1>16 DEF Exact, FreeBecomes

(* The buddy of an aligned block is the other half of the next larger one. *)
LEMMA BuddyIs ==
    ASSUME NEW p \in Nat, NEW k \in Order, p % block_pages[k] = 0
    PROVE  \/ p % (2 * block_pages[k]) = 0 /\ Buddy(p, k) = p + block_pages[k]
           \/ /\ p % (2 * block_pages[k]) # 0 /\ p >= block_pages[k]
              /\ (p - block_pages[k]) % (2 * block_pages[k]) = 0
              /\ Buddy(p, k) = p - block_pages[k]
<1>1. block_pages[k] \in Nat \ {0}
  BY Zenon, BlockPages
<1> DEFINE b == block_pages[k]
<1>2. Buddy(p, k) = IF (p \div b) % 2 = 0 THEN p + b ELSE p - b
  BY Zenon DEF Buddy
<1> HIDE DEF b
<1>3. b \in Nat \ {0} /\ p % b = 0
  BY Zenon, <1>1 DEF b
<1>4. \/ p % (2 * b) = 0 /\ (p \div b) % 2 = 0
      \/ p >= b /\ (p - b) % (2 * b) = 0 /\ (p \div b) % 2 = 1 /\ p % (2 * b) # 0
  BY Zenon, <1>3, Halves
<1>5. \/ p % (2 * b) = 0 /\ Buddy(p, k) = p + b
      \/ p % (2 * b) # 0 /\ p >= b /\ (p - b) % (2 * b) = 0 /\ Buddy(p, k) = p - b
  BY <1>2, <1>4
<1> QED
  BY Zenon, <1>5 DEF b

(* add_free_block makes pages in hand a free block. *)
LEMMA PutBlock ==
    ASSUME NEW m, NEW X, NEW h, Exact(m, X, h), NEW start \in Nat, NEW k \in Order,
           NEW B, B = Block(start, k), B \subseteq Managed(m) \ X,
           start % block_pages[k] = 0, h \in B => h = start,
           k < MaxOrder /\ Buddy(start, k) \in X => ~FreeBlock(m, Buddy(start, k), k),
           NEW n, n = add_free_block(m, start, k)
    PROVE  /\ Exact(n, X \cup B, h) /\ SameRegion(m, n)
           /\ FreeBecomes(m, X, n, X \cup B, ClassOf(m, X, "FREE") \cup B)
           /\ AddedAt(m, n, start, k)
<1> DEFINE Y == X \cup B
<1>1. /\ m \in Tables /\ X \subseteq Managed(m) /\ BlocksTile(m, X) /\ ListsExact(m, X)
      /\ NoPair(m, X) /\ FreePagesExact(m, X)
      /\ \A q \in Managed(m) \ X : q # h => m.block_state[q] = "UNUSED"
  BY Zenon DEF Exact
<1>2. start \in B /\ X \cap B = {}
  BY Zenon, InBlock
<1>3. X \subseteq Page /\ B \subseteq Page /\ start \in Page /\ Page \subseteq Nat
  BY Zenon, <1>1, <1>2, PageTypes
<1>19. AddedAt(m, n, start, k)
  BY ZenonT(40), <1>1, <1>3, AddFreeBlock
<1>4. /\ n \in Tables /\ SameRegion(m, n)
      /\ n.free_pages = m.free_pages + block_pages[k]
      /\ \A j \in Order : n.free_list[j] = IF j = k THEN <<start>> \o m.free_list[j]
                                           ELSE m.free_list[j]
      /\ \A p \in Page :
           /\ n.page_owner[p] = IF p \in B THEN start ELSE m.page_owner[p]
           /\ n.block_order[p] = IF p = start THEN k ELSE m.block_order[p]
           /\ n.block_state[p] = IF p = start THEN "FREE" ELSE m.block_state[p]
  BY Zenon, <1>19 DEF AddedAt
<1>5. Managed(n) = Managed(m)
  BY Zenon, <1>4 DEF SameRegion, Managed
<1>6. \A q \in X : /\ q # start /\ n.page_owner[q] = m.page_owner[q]
                   /\ n.block_order[q] = m.block_order[q] /\ n.block_state[q] = m.block_state[q]
  BY <1>2, <1>3, <1>4
<1>7. \A q \in B : /\ n.page_owner[q] = start
                   /\ q # start => n.block_state[q] = "UNUSED"
  BY <1>1, <1>3, <1>4
<1>8. n.block_state[start] = "FREE" /\ n.block_order[start] = k
  BY Zenon, <1>3, <1>4
<1>9. BlocksTile(n, Y)
  <2>1. ASSUME NEW q \in X, NEW head, head = n.page_owner[q], NEW order, order = n.block_order[head]
        PROVE  TileAt(n, Y, q, head, order)
    <3>1. head = m.page_owner[q]
      BY ZenonT(40), <1>6, <2>1
    <3>2. head \in X
      BY <1>1, <3>1, Tiles
    <3>3. order = m.block_order[head] /\ n.block_state[head] = m.block_state[head]
      BY Zenon, <1>6, <2>1, <3>2
    <3>4. /\ q \in Block(head, order) /\ Block(head, order) \subseteq X
          /\ \A r \in Block(head, order) : m.page_owner[r] = head
          /\ head % block_pages[order] = 0
          /\ m.block_state[head] # "UNUSED"
          /\ q # head => m.block_state[q] = "UNUSED"
          /\ m.block_state[head] # "FREE" => order = 0
      BY <1>1, <3>1, <3>3, Tiles
    <3> QED
      BY <1>6, <3>2, <3>3, <3>4 DEF TileAt
  <2>2. ASSUME NEW q \in B, NEW head, head = n.page_owner[q], NEW order, order = n.block_order[head]
        PROVE  TileAt(n, Y, q, head, order)
    <3>1. head = start /\ order = k
      BY ZenonT(40), <1>7, <1>8, <2>2
    <3> QED
      BY ZenonT(40), <1>2, <1>7, <1>8, <3>1 DEF TileAt
  <2>3. \A q \in Y : TileAt(n, Y, q, n.page_owner[q], n.block_order[n.page_owner[q]])
    BY Zenon, <2>1, <2>2
  <2> QED
    BY Zenon, <2>3, TilesAre
<1>10. \A j \in Order : {q \in Y : FreeBlock(n, q, j)} =
           IF j = k THEN {q \in X : FreeBlock(m, q, j)} \cup {start} ELSE {q \in X : FreeBlock(m, q, j)}
  <2> TAKE j \in Order
  <2>1. \A q \in X : FreeBlock(n, q, j) <=> FreeBlock(m, q, j)
    BY Zenon, <1>6 DEF FreeBlock
  <2>2. \A q \in B : FreeBlock(n, q, j) <=> q = start /\ j = k
    BY ZenonT(40), <1>7, <1>8 DEF FreeBlock
  <2> QED
    BY Zenon, <1>2, <2>1, <2>2
<1>11. ListsExact(n, Y)
  <2> SUFFICES ASSUME NEW j \in Order
               PROVE  /\ IsInjective(n.free_list[j])
                      /\ Range(n.free_list[j]) = {q \in Y : FreeBlock(n, q, j)}
    BY Zenon DEF ListsExact
  <2>1. IsInjective(m.free_list[j]) /\ Range(m.free_list[j]) = {q \in X : FreeBlock(m, q, j)}
        /\ m.free_list[j] \in Seq(Page)
    BY ZenonT(40), <1>1, PageTypes DEF ListsExact
  <2>2. CASE j = k
    <3>1. start \notin Range(m.free_list[j])
      BY ZenonT(40), <1>2, <2>1
    <3>2. n.free_list[j] = <<start>> \o m.free_list[j]
      BY Zenon, <1>4, <2>2
    <3>3. /\ IsInjective(<<start>> \o m.free_list[j])
          /\ Range(<<start>> \o m.free_list[j]) = Range(m.free_list[j]) \cup {start}
      BY ZenonT(40), <1>3, <2>1, <3>1, ListPushed
    <3> QED
      BY Zenon, <1>10, <2>1, <2>2, <3>2, <3>3
  <2>3. CASE j # k
    <3>1. n.free_list[j] = m.free_list[j]
      BY <1>4, <2>3
    <3> QED
      BY Zenon, <1>10, <2>1, <2>3, <3>1
  <2> QED
    BY Zenon, <2>2, <2>3
<1>12. NoPair(n, Y)
  <2> SUFFICES ASSUME NEW j \in Order, NEW p \in Y, NEW q \in Y, j < MaxOrder,
                      p % (2 * block_pages[j]) = 0, q = p + block_pages[j],
                      FreeBlock(n, p, j), FreeBlock(n, q, j)
               PROVE  FALSE
    BY Zenon DEF NoPair
  <2>1. \A r \in Y : FreeBlock(n, r, j) => (r \in X /\ FreeBlock(m, r, j)) \/ (r = start /\ j = k)
    BY <1>6, <1>7, <1>8 DEF FreeBlock
  <2>2. p \in Nat /\ q \in Nat /\ block_pages[j] \in Nat \ {0} /\ p # q
    BY <1>3, BlockPages
  <2>3. CASE p = start /\ j = k
    <3>1. q \in X /\ FreeBlock(m, q, k)
      BY ZenonT(40), <2>1, <2>2, <2>3
    <3>2. Buddy(start, k) = q
      BY Zenon, <2>3, BuddyIs
    <3> QED
      BY Zenon, <2>3, <3>1, <3>2
  <2>4. CASE q = start /\ j = k
    <3>1. p \in X /\ FreeBlock(m, p, k)
      BY ZenonT(40), <2>1, <2>2, <2>4
    <3> DEFINE b == block_pages[k]
    <3>2. b \in Nat \ {0} /\ p \in Nat /\ p % (2 * b) = 0 /\ start = p + b
      BY Zenon, <2>2, <2>4
    <3>4. \/ start % (2 * b) = 0 /\ Buddy(start, k) = start + b
          \/ /\ start % (2 * b) # 0 /\ start >= b
             /\ (start - b) % (2 * b) = 0
             /\ Buddy(start, k) = start - b
      BY Zenon, BuddyIs
    <3> HIDE DEF b
    <3>5. (p + b) % (2 * b) # 0
      BY Zenon, <3>2, HalvesAligned
    <3>6. Buddy(start, k) = p
      BY <3>2, <3>4, <3>5
    <3> QED
      BY Zenon, <2>4, <3>1, <3>6
  <2>5. CASE p \in X /\ FreeBlock(m, p, j) /\ q \in X /\ FreeBlock(m, q, j)
    BY Zenon, <1>1, <2>5 DEF NoPair
  <2> QED
    BY ZenonT(40), <2>1, <2>3, <2>4, <2>5
<1>13. \A q \in X : n.block_state[n.page_owner[q]] = m.block_state[m.page_owner[q]]
  <2> TAKE q \in X
  <2>1. m.page_owner[q] \in X
    BY <1>1, Tiles
  <2> QED
    BY <1>6, <2>1
<1>14. \A q \in B : n.block_state[n.page_owner[q]] = "FREE"
  BY Zenon, <1>7, <1>8
<1>15. /\ ClassOf(n, Y, "FREE") = ClassOf(m, X, "FREE") \cup B
       /\ \A c : c # "FREE" => ClassOf(n, Y, c) = ClassOf(m, X, c)
  BY ZenonT(40), <1>13, <1>14 DEF ClassOf
<1>16. FreePagesExact(n, Y)
  <2> DEFINE F == ClassOf(m, X, "FREE")
  <2>1. F \subseteq Page /\ Block(start, k) \cap F = {}
    BY <1>1, <1>2, <1>3 DEF ClassOf
  <2> HIDE DEF F
  <2>2. Counting
    BY Zenon DEF Exact
  <2>3. Cardinality(F \cup B) = Cardinality(F) + block_pages[k]
    BY Zenon, <2>1, <2>2 DEF Counting
  <2> QED
    BY Zenon, <1>1, <1>4, <1>15, <2>3 DEF FreePagesExact, F
<1>17. \A q \in Managed(n) \ Y : q # h => n.block_state[q] = "UNUSED"
  <2> SUFFICES ASSUME NEW q \in Managed(m) \ Y, q # h PROVE n.block_state[q] = "UNUSED"
    BY Zenon, <1>5
  <2>1. q \in Page
    BY Zenon, <1>1, PageTypes
  <2> QED
    BY Zenon, <1>1, <1>2, <1>4, <2>1
<1>18. Y \subseteq Managed(n)
  BY ZenonT(40), <1>1, <1>5
<1> QED
  BY Zenon, <1>4, <1>9, <1>11, <1>12, <1>15, <1>16, <1>17, <1>18, <1>19 DEF Exact, FreeBecomes

(* What changes only the tables of pages in hand keeps the rest exact. *)
LEMMA Untouched ==
    ASSUME NEW m, NEW X, NEW h, Exact(m, X, h), NEW n \in Tables, SameRegion(m, n),
           n.free_pages = m.free_pages, n.free_list = m.free_list,
           \A q \in X : /\ n.page_owner[q] = m.page_owner[q]
                        /\ n.block_order[q] = m.block_order[q]
                        /\ n.block_state[q] = m.block_state[q],
           NEW g, \A q \in Managed(m) \ X : q # g => n.block_state[q] = "UNUSED"
    PROVE  Exact(n, X, g) /\ SameClasses(m, n, X)
<1>1. /\ m \in Tables /\ X \subseteq Managed(m) /\ BlocksTile(m, X) /\ ListsExact(m, X)
      /\ NoPair(m, X) /\ FreePagesExact(m, X)
  BY Zenon DEF Exact
<1>2. Managed(n) = Managed(m)
  BY Zenon DEF SameRegion, Managed
<1>3. BlocksTile(n, X)
  <2>1. ASSUME NEW q \in X, NEW head, head = n.page_owner[q], NEW order, order = n.block_order[head]
        PROVE  TileAt(n, X, q, head, order)
    <3>1. head = m.page_owner[q]
      BY Zenon, <2>1
    <3>2. head \in X
      BY <1>1, <3>1, Tiles
    <3>3. order = m.block_order[head]
      BY Zenon, <2>1, <3>2
    <3>4. /\ q \in Block(head, order) /\ Block(head, order) \subseteq X
          /\ \A r \in Block(head, order) : m.page_owner[r] = head
          /\ head % block_pages[order] = 0
          /\ m.block_state[head] # "UNUSED"
          /\ q # head => m.block_state[q] = "UNUSED"
          /\ m.block_state[head] # "FREE" => order = 0
      BY <1>1, <3>1, <3>3, Tiles
    <3> QED
      BY <3>2, <3>4 DEF TileAt
  <2>2. \A q \in X : TileAt(n, X, q, n.page_owner[q], n.block_order[n.page_owner[q]])
    BY ZenonT(40), <2>1
  <2> QED
    BY Zenon, <2>2, TilesAre
<1>4. \A q \in X : \A k : FreeBlock(n, q, k) <=> FreeBlock(m, q, k)
  BY Zenon DEF FreeBlock
<1>5. ListsExact(n, X)
  BY Zenon, <1>1, <1>4 DEF ListsExact
<1>6. NoPair(n, X)
  BY Zenon, <1>1, <1>4 DEF NoPair
<1>7. \A q \in X : m.page_owner[q] \in X
  BY <1>1, Tiles
<1>8. \A c : ClassOf(n, X, c) = ClassOf(m, X, c)
  BY <1>7 DEF ClassOf
<1>9. FreePagesExact(n, X)
  BY Zenon, <1>1, <1>8 DEF FreePagesExact
<1> QED
  BY ZenonT(40), <1>1, <1>2, <1>3, <1>5, <1>6, <1>8, <1>9 DEF Exact, SameClasses

(* set_block on pages in hand. *)
LEMMA SetInHand ==
    ASSUME NEW m, NEW X, NEW start \in Nat, Exact(m, X, start), NEW k \in Order,
           Block(start, k) \subseteq Managed(m) \ X, NEW state \in BlockState,
           NEW n, n = set_block(m, start, k, state)
    PROVE  /\ Exact(n, X, start) /\ SameRegion(m, n)
           /\ SameClasses(m, n, X)
           /\ SetAt(m, n, start, k, state)
<1>1. m \in Tables /\ X \subseteq Managed(m)
      /\ \A q \in Managed(m) \ X : q # start => m.block_state[q] = "UNUSED"
  BY Zenon DEF Exact
<1>2. start \in Block(start, k) /\ Managed(m) \subseteq Page
  BY Zenon, <1>1, InBlock, PageTypes
<1>3. start \in Page /\ start \notin X /\ X \subseteq Page
  BY Zenon, <1>1, <1>2
<1>8. SetAt(m, n, start, k, state)
  BY Zenon, <1>1, <1>3, SetBlock
<1>4. /\ n \in Tables /\ SameRegion(m, n)
      /\ n.free_pages = m.free_pages /\ n.free_list = m.free_list
      /\ \A p \in Page :
           /\ n.page_owner[p] = IF p \in Block(start, k) THEN start ELSE m.page_owner[p]
           /\ n.block_order[p] = IF p = start THEN k ELSE m.block_order[p]
           /\ n.block_state[p] = IF p = start THEN state ELSE m.block_state[p]
  BY Zenon, <1>8 DEF SetAt
<1>5. \A q \in X : /\ n.page_owner[q] = m.page_owner[q]
                   /\ n.block_order[q] = m.block_order[q]
                   /\ n.block_state[q] = m.block_state[q]
  BY ZenonT(40), <1>3, <1>4
<1>6. \A q \in Managed(m) \ X : q # start => n.block_state[q] = "UNUSED"
  BY ZenonT(40), <1>1, <1>2, <1>4
<1>7. Exact(n, X, start) /\ SameClasses(m, n, X)
  BY <1>4, <1>5, <1>6, Untouched
<1> QED
  BY ZenonT(40), <1>4, <1>7, <1>8

(* clear_block_head on a page in hand. *)
LEMMA ClearInHand ==
    ASSUME NEW m, NEW X, NEW h, Exact(m, X, h), NEW p \in Managed(m) \ X,
           NEW n, n = clear_block_head(m, p)
    PROVE  /\ Exact(n, X, h) /\ SameRegion(m, n)
           /\ SameClasses(m, n, X)
           /\ ClearedAt(m, n, p)
<1>1. m \in Tables /\ X \subseteq Managed(m)
      /\ \A q \in Managed(m) \ X : q # h => m.block_state[q] = "UNUSED"
  BY Zenon DEF Exact
<1>2. Managed(m) \subseteq Page
  BY Zenon, <1>1, PageTypes
<1>3. p \in Page /\ p \notin X /\ X \subseteq Page
  BY Zenon, <1>1, <1>2
<1>8. ClearedAt(m, n, p)
  BY Zenon, <1>1, <1>3, ClearBlockHead
<1>4. /\ n \in Tables /\ SameRegion(m, n)
      /\ n.free_pages = m.free_pages /\ n.free_list = m.free_list
      /\ n.page_owner = m.page_owner
      /\ \A q \in Page :
           /\ n.block_order[q] = IF q = p THEN 0 ELSE m.block_order[q]
           /\ n.block_state[q] = IF q = p THEN "UNUSED" ELSE m.block_state[q]
  BY Zenon, <1>8 DEF ClearedAt
<1>5. \A q \in X : /\ n.page_owner[q] = m.page_owner[q]
                   /\ n.block_order[q] = m.block_order[q]
                   /\ n.block_state[q] = m.block_state[q]
  BY <1>3, <1>4
<1>6. \A q \in Managed(m) \ X : q # h => n.block_state[q] = "UNUSED"
  BY ZenonT(40), <1>1, <1>2, <1>4
<1>7. Exact(n, X, h) /\ SameClasses(m, n, X)
  BY <1>4, <1>5, <1>6, Untouched
<1> QED
  BY Zenon, <1>4, <1>7, <1>8

(* A block of order 0 is one page. *)
LEMMA OnePage ==
    ASSUME NEW p \in Nat
    PROVE  Block(p, 0) = {p} /\ p % block_pages[0] = 0 /\ 0 \in Order
<1>1. block_pages[0] = 1
  BY Zenon, BlockPages
<1>2. Block(p, 0) = {p}
  BY <1>1 DEF Block
<1>3. p % 1 = 0 /\ 0 \in Order
  BY PmmAssumption DEF PmmAssumption, Order
<1> QED
  BY Zenon, <1>1, <1>2, <1>3

(* The last page in hand is handed out or reserved. *)
LEMMA FillPage ==
    ASSUME NEW m, NEW p \in Managed(m), NEW X, X = Managed(m) \ {p}, Exact(m, X, p),
           NEW state \in {"ALLOCATED", "RESERVED"}, NEW n, n = set_block(m, p, 0, state)
    PROVE  /\ Exact(n, Managed(n), p) /\ SameRegion(m, n)
           /\ ClassOf(n, Managed(n), state) = ClassOf(m, X, state) \cup {p}
           /\ \A c : c # state => ClassOf(n, Managed(n), c) = ClassOf(m, X, c)
<1> DEFINE Y == Managed(m)
<1>1. m \in Tables
  BY Zenon DEF Exact
<1>2. Y \subseteq Page /\ Y \subseteq Nat /\ p \in Nat /\ p \in Page
  BY Zenon, <1>1, PageTypes
<1>3. Block(p, 0) = {p} /\ p % block_pages[0] = 0 /\ 0 \in Order
  BY Zenon, <1>2, OnePage
<1>4. state \in BlockState /\ state # "FREE" /\ state # "UNUSED"
  BY Zenon DEF BlockState
<1>5. Block(p, 0) \subseteq Y \ X
  BY Zenon, <1>3
<1>6. /\ Exact(n, X, p) /\ SameRegion(m, n)
      /\ SameClasses(m, n, X)
      /\ SetAt(m, n, p, 0, state)
  BY ZenonT(40), <1>2, <1>3, <1>4, <1>5, SetInHand
<1>7. n.page_owner[p] = p
  BY ZenonT(40), <1>2, <1>3, <1>6 DEF SetAt
<1>8. Managed(n) = Y
  BY Zenon, <1>6 DEF SameRegion, Managed
<1>9. n.block_state[p] = state /\ n.block_order[p] = 0
  BY Zenon, <1>2, <1>6 DEF SetAt
<1>10. /\ n \in Tables /\ X \subseteq Managed(n) /\ BlocksTile(n, X) /\ ListsExact(n, X)
       /\ NoPair(n, X) /\ FreePagesExact(n, X)
  BY Zenon, <1>6 DEF Exact
<1>11. BlocksTile(n, Y)
  <2>1. ASSUME NEW q \in Y, NEW head, head = n.page_owner[q], NEW order, order = n.block_order[head]
        PROVE  TileAt(n, Y, q, head, order)
    <3>1. CASE q = p
      BY ZenonT(40), <1>3, <1>4, <1>7, <1>9, <2>1, <3>1 DEF TileAt
    <3>2. CASE q # p
      <4>1. q \in X
        BY Zenon, <3>2
      <4>2. TileAt(n, X, q, head, order)
        BY ZenonT(40), <1>10, <2>1, <4>1, TilesAre
      <4> QED
        BY ZenonT(40), <4>2 DEF TileAt
    <3> QED
      BY Zenon, <3>1, <3>2
  <2>2. \A q \in Y : TileAt(n, Y, q, n.page_owner[q], n.block_order[n.page_owner[q]])
    BY Zenon, <2>1
  <2> QED
    BY Zenon, <2>2, TilesAre
<1>12. \A k : ~FreeBlock(n, p, k)
  BY Zenon, <1>4, <1>9 DEF FreeBlock
<1>13. \A k : {q \in Y : FreeBlock(n, q, k)} = {q \in X : FreeBlock(n, q, k)}
  BY Zenon, <1>12
<1>14. ListsExact(n, Y)
  BY Zenon, <1>10, <1>13 DEF ListsExact
<1>15. NoPair(n, Y)
  <2> SUFFICES ASSUME NEW j \in Order, NEW r \in Y, NEW q \in Y, j < MaxOrder,
                      r % (2 * block_pages[j]) = 0, q = r + block_pages[j],
                      FreeBlock(n, r, j), FreeBlock(n, q, j)
               PROVE  FALSE
    BY Zenon DEF NoPair
  <2>1. r \in X /\ q \in X
    BY Zenon, <1>12
  <2> QED
    BY Zenon, <1>10, <2>1 DEF NoPair
<1>16. /\ ClassOf(n, Y, state) = ClassOf(n, X, state) \cup {p}
       /\ \A c : c # state => ClassOf(n, Y, c) = ClassOf(n, X, c)
  BY Zenon, <1>7, <1>9 DEF ClassOf
<1>17. FreePagesExact(n, Y)
  BY ZenonT(40), <1>4, <1>10, <1>16 DEF FreePagesExact
<1>18. Exact(n, Y, p)
  BY SMTT(30), <1>8, <1>10, <1>11, <1>14, <1>15, <1>17 DEF Exact
<1> QED
  BY ZenonT(40), <1>6, <1>8, <1>16, <1>18 DEF SameClasses

(* clear_block_head takes a page in hand that is allocated or reserved. *)
LEMMA OpenPage ==
    ASSUME NEW m, NEW h, Exact(m, Managed(m), h), NEW p \in Managed(m),
           NEW state, state = m.block_state[p], state \notin {"FREE", "UNUSED"},
           NEW n, n = clear_block_head(m, p), NEW X, X = Managed(m) \ {p}
    PROVE  /\ Exact(n, X, p) /\ SameRegion(m, n)
           /\ p \in ClassOf(m, Managed(m), state)
           /\ ClassOf(n, X, state) = ClassOf(m, Managed(m), state) \ {p}
           /\ \A c : c # state => ClassOf(n, X, c) = ClassOf(m, Managed(m), c)
<1> DEFINE Y == Managed(m)
<1>1. /\ m \in Tables /\ BlocksTile(m, Y) /\ ListsExact(m, Y) /\ NoPair(m, Y)
      /\ FreePagesExact(m, Y)
  BY Zenon DEF Exact
<1>2. Y \subseteq Page /\ Y \subseteq Nat /\ p \in Nat /\ p \in Page
  BY Zenon, <1>1, PageTypes
<1>3. /\ m.block_order[p] = 0 /\ m.page_owner[p] = p
      /\ \A q \in Y : q \in Block(p, 0) <=> m.page_owner[q] = p
  BY <1>1, Heads
<1>4. \A q \in X : m.page_owner[q] # p /\ m.page_owner[q] \in X
  <2>1. Block(p, 0) = {p}
    BY Zenon, <1>2, OnePage
  <2>2. \A q \in X : m.page_owner[q] \in Y
    BY <1>1, Tiles
  <2> QED
    BY Zenon, <1>3, <2>1, <2>2
<1>5. /\ n \in Tables /\ SameRegion(m, n)
      /\ n.free_pages = m.free_pages /\ n.free_list = m.free_list
      /\ n.page_owner = m.page_owner
      /\ \A q \in Page :
           /\ n.block_order[q] = IF q = p THEN 0 ELSE m.block_order[q]
           /\ n.block_state[q] = IF q = p THEN "UNUSED" ELSE m.block_state[q]
  <2>1. ClearedAt(m, n, p)
    BY Zenon, <1>1, <1>2, ClearBlockHead
  <2> QED
    BY Zenon, <2>1 DEF ClearedAt
<1>6. Managed(n) = Y
  BY Zenon, <1>5 DEF SameRegion, Managed
<1>7. \A q \in X : n.block_order[q] = m.block_order[q] /\ n.block_state[q] = m.block_state[q]
  BY Zenon, <1>2, <1>5
<1>8. BlocksTile(n, X)
  <2>1. ASSUME NEW q \in X, NEW head, head = n.page_owner[q], NEW order, order = n.block_order[head]
        PROVE  TileAt(n, X, q, head, order)
    <3>1. head = m.page_owner[q] /\ head \in X
      BY Zenon, <1>4, <1>5, <2>1
    <3>2. order = m.block_order[head]
      BY Zenon, <1>7, <2>1, <3>1
    <3>3. /\ q \in Block(head, order) /\ Block(head, order) \subseteq Y
          /\ \A r \in Block(head, order) : m.page_owner[r] = head
          /\ head % block_pages[order] = 0
          /\ m.block_state[head] # "UNUSED"
          /\ q # head => m.block_state[q] = "UNUSED"
          /\ m.block_state[head] # "FREE" => order = 0
      BY <1>1, <3>1, <3>2, Tiles
    <3>4. Block(head, order) \subseteq X
      BY Zenon, <1>3, <3>1, <3>3
    <3> QED
      BY <1>5, <1>7, <3>1, <3>3, <3>4 DEF TileAt
  <2>2. \A q \in X : TileAt(n, X, q, n.page_owner[q], n.block_order[n.page_owner[q]])
    BY Zenon, <2>1
  <2> QED
    BY Zenon, <2>2, TilesAre
<1>9. \A q \in X : \A k : FreeBlock(n, q, k) <=> FreeBlock(m, q, k)
  BY Zenon, <1>7 DEF FreeBlock
<1>10. \A k : ~FreeBlock(m, p, k)
  BY Zenon DEF FreeBlock
<1>11. \A k : {q \in X : FreeBlock(n, q, k)} = {q \in Y : FreeBlock(m, q, k)}
  BY ZenonT(40), <1>9, <1>10
<1>12. ListsExact(n, X)
  BY ZenonT(40), <1>1, <1>5, <1>11 DEF ListsExact
<1>13. NoPair(n, X)
  BY Zenon, <1>1, <1>9 DEF NoPair
<1>14. \A q \in X : n.block_state[n.page_owner[q]] = m.block_state[m.page_owner[q]]
  BY <1>4, <1>5, <1>7
<1>15. /\ p \in ClassOf(m, Y, state)
       /\ ClassOf(n, X, state) = ClassOf(m, Y, state) \ {p}
       /\ \A c : c # state => ClassOf(n, X, c) = ClassOf(m, Y, c)
  BY <1>3, <1>14 DEF ClassOf
<1>16. FreePagesExact(n, X)
  BY ZenonT(40), <1>1, <1>5, <1>15 DEF FreePagesExact
<1>17. \A q \in Managed(n) \ X : q # p => n.block_state[q] = "UNUSED"
  BY Zenon, <1>6
<1> QED
  BY ZenonT(40), <1>5, <1>6, <1>8, <1>12, <1>13, <1>15, <1>16, <1>17 DEF Exact

-----------------------------------------------------------------------------
(* Splitting. *)

(* An aligned block is its two halves, which are each other's buddies. *)
LEMMA SplitBlock ==
    ASSUME NEW c \in Nat, NEW k \in Order, k < MaxOrder, c % block_pages[k + 1] = 0,
           NEW d, d = c + block_pages[k]
    PROVE  /\ k + 1 \in Order /\ d \in Nat /\ c % block_pages[k] = 0 /\ d % block_pages[k] = 0
           /\ Block(c, k + 1) = Block(c, k) \cup Block(d, k)
           /\ Block(c, k) \cap Block(d, k) = {}
           /\ Buddy(c, k) = d /\ Buddy(d, k) = c
           /\ c \in Block(c, k) /\ d \in Block(d, k)
<1> DEFINE b == block_pages[k]
<1>1. k + 1 \in Order /\ b \in Nat \ {0} /\ block_pages[k + 1] = 2 * b
  BY Zenon, BlockPages
<1>2. c % (2 * b) = 0 /\ d = c + b
  BY Zenon, <1>1
<1>3. /\ Block(c, k) = c..(c + b - 1) /\ Block(d, k) = d..(d + b - 1)
      /\ Block(c, k + 1) = c..(c + 2 * b - 1)
  BY Zenon, <1>1 DEF Block
<1>4. Buddy(c, k) = IF (c \div b) % 2 = 0 THEN c + b ELSE c - b
  BY Zenon DEF Buddy
<1>5. Buddy(d, k) = IF (d \div b) % 2 = 0 THEN d + b ELSE d - b
  BY Zenon DEF Buddy
<1> HIDE DEF b
<1>6. c % b = 0 /\ (c + b) % b = 0 /\ (c + b) % (2 * b) # 0
  BY Zenon, <1>1, <1>2, HalvesAligned
<1>7. d \in Nat /\ d % b = 0 /\ d % (2 * b) # 0
  BY <1>1, <1>2, <1>6
<1>8. (c \div b) % 2 = 0
  <2>1. \/ c % (2 * b) = 0 /\ (c \div b) % 2 = 0
        \/ c >= b /\ (c - b) % (2 * b) = 0 /\ (c \div b) % 2 = 1 /\ c % (2 * b) # 0
    BY Zenon, <1>1, <1>6, Halves
  <2> QED
    BY Zenon, <1>2, <2>1
<1>9. (d \div b) % 2 = 1
  <2>1. \/ d % (2 * b) = 0 /\ (d \div b) % 2 = 0
        \/ d >= b /\ (d - b) % (2 * b) = 0 /\ (d \div b) % 2 = 1 /\ d % (2 * b) # 0
    BY ZenonT(40), <1>1, <1>7, Halves
  <2> QED
    BY Zenon, <1>7, <2>1
<1>10. Buddy(c, k) = d /\ Buddy(d, k) = c
  BY <1>1, <1>2, <1>4, <1>5, <1>8, <1>9
<1>11. /\ c..(c + 2 * b - 1) = (c..(c + b - 1)) \cup (d..(d + b - 1))
       /\ (c..(c + b - 1)) \cap (d..(d + b - 1)) = {}
       /\ c \in c..(c + b - 1) /\ d \in d..(d + b - 1)
  BY <1>1, <1>2
<1> QED
  BY Zenon, <1>1, <1>3, <1>6, <1>7, <1>10, <1>11 DEF b

(* A call that began with the tables m has the pages S in hand: elsewhere  *)
(* the tables n are exact, and every page is what it was.                  *)
InHand(m, n, S, h) ==
    /\ SameRegion(m, n) /\ S \subseteq Managed(m) /\ Exact(n, Managed(m) \ S, h)
    /\ \A c : ClassOf(n, Managed(m) \ S, c) = ClassOf(m, Managed(m), c) \ S

(* A free block is taken in hand. *)
LEMMA TakeFree ==
    ASSUME NEW m, NEW h, Exact(m, Managed(m), h), NEW p \in Managed(m), NEW k, FreeBlock(m, p, k),
           NEW n, n = remove_free_block(m, p)
    PROVE  /\ InHand(m, n, Block(p, k), p) /\ k \in Order /\ p \in Nat /\ p % block_pages[k] = 0
           /\ Block(p, k) \subseteq ClassOf(m, Managed(m), "FREE")
<1> DEFINE X == Managed(m)
           B == Block(p, k)
<1>1. /\ Exact(n, X \ B, h) /\ SameRegion(m, n)
      /\ k \in Order /\ p % block_pages[k] = 0
      /\ B \subseteq ClassOf(m, X, "FREE")
      /\ FreeBecomes(m, X, n, X \ B, ClassOf(m, X, "FREE") \ B)
      /\ RemovedAt(m, n, p, k)
  BY TakeBlock
<1>2. X \subseteq Page /\ X \subseteq Nat
  BY Zenon, PageTypes DEF Exact
<1>3. B \subseteq X /\ \A q \in B : m.block_state[m.page_owner[q]] = "FREE"
  BY Zenon, <1>1 DEF ClassOf
<1>4. \A c : ClassOf(n, X \ B, c) = ClassOf(m, X, c) \ B
  <2> TAKE c
  <2>1. CASE c = "FREE"
    BY Zenon, <1>1, <2>1 DEF FreeBecomes
  <2>2. CASE c # "FREE"
    <3>1. ClassOf(n, X \ B, c) = ClassOf(m, X, c)
      BY Zenon, <1>1, <2>2 DEF FreeBecomes
    <3>2. ClassOf(m, X, c) \cap B = {}
      BY Zenon, <1>3, <2>2 DEF ClassOf
    <3> QED
      BY Zenon, <3>1, <3>2
  <2> QED
    BY Zenon, <2>1, <2>2
<1>5. \A q \in B : n.block_state[q] = "UNUSED"
  <2>1. m \in Tables /\ BlocksTile(m, X) /\ m.block_state[p] # "UNUSED" /\ k = m.block_order[p]
    BY Zenon DEF Exact, FreeBlock
  <2>2. \A q \in B : q # p => m.block_state[q] = "UNUSED"
    BY <2>1, Heads
  <2> QED
    BY ZenonT(40), <1>1, <1>2, <1>3, <2>2 DEF RemovedAt
<1>6. Managed(n) = X
  BY Zenon, <1>1 DEF SameRegion, Managed
<1>7. Exact(n, X \ B, p)
  BY ZenonT(40), <1>1, <1>3, <1>5, <1>6 DEF Exact
<1> QED
  BY Zenon, <1>1, <1>2, <1>3, <1>4, <1>7 DEF InHand

(* A call that began with the tables m has a block in hand that was free. *)
Held(m, n, start, k) ==
    /\ start \in Nat /\ start % block_pages[k] = 0
    /\ Block(start, k) \subseteq ClassOf(m, Managed(m), "FREE")
    /\ InHand(m, n, Block(start, k), start)

(* The halves of a block, in either order. *)
HalvesOf(c, k, keep, give) ==
    \/ keep = c /\ give = c + block_pages[k]
    \/ give = c /\ keep = c + block_pages[k]

(* One half of the block in hand goes back to the lists. *)
LEMMA SplitOff ==
    ASSUME NEW m, NEW n, NEW c, NEW k \in Order, k < MaxOrder, Held(m, n, c, k + 1),
           NEW keep, NEW give, HalvesOf(c, k, keep, give),
           NEW r, r = add_free_block(n, give, k)
    PROVE  Held(m, r, keep, k)
<1> DEFINE S == Block(c, k + 1)
           K == Block(keep, k)
           G == Block(give, k)
           X == Managed(m) \ S
<1>12. /\ c \in Nat /\ c % block_pages[k + 1] = 0 /\ InHand(m, n, Block(c, k + 1), c)
       /\ Block(c, k + 1) \subseteq ClassOf(m, Managed(m), "FREE")
  BY Zenon DEF Held
<1>1. /\ keep \in Nat /\ give \in Nat /\ keep % block_pages[k] = 0 /\ give % block_pages[k] = 0
      /\ S = K \cup G /\ K \cap G = {} /\ Buddy(give, k) = keep
      /\ keep \in K /\ give \in G
  <2> DEFINE d == c + block_pages[k]
  <2>1. /\ k + 1 \in Order /\ d \in Nat /\ c % block_pages[k] = 0 /\ d % block_pages[k] = 0
        /\ Block(c, k + 1) = Block(c, k) \cup Block(d, k)
        /\ Block(c, k) \cap Block(d, k) = {}
        /\ Buddy(c, k) = d /\ Buddy(d, k) = c
        /\ c \in Block(c, k) /\ d \in Block(d, k)
    BY ZenonT(40), <1>12, SplitBlock
  <2> HIDE DEF d
  <2>2. CASE keep = c /\ give = d
    BY ZenonT(40), <1>12, <2>1, <2>2
  <2>3. CASE give = c /\ keep = d
    BY ZenonT(40), <1>12, <2>1, <2>3
  <2> QED
    BY ZenonT(40), <2>2, <2>3 DEF d, HalvesOf
<1>2. /\ SameRegion(m, n) /\ S \subseteq Managed(m) /\ Exact(n, X, c)
      /\ \A x : ClassOf(n, X, x) = ClassOf(m, Managed(m), x) \ S
  BY Zenon, <1>12 DEF InHand
<1>3. Managed(n) = Managed(m)
  BY Zenon, <1>2 DEF SameRegion, Managed
<1>4. c = keep \/ c = give
  BY Zenon DEF HalvesOf
<1> HIDE DEF S, K, G, X
<1>5. G \subseteq Managed(n) \ X /\ Buddy(give, k) \notin X /\ (c \in G => c = give)
  BY ZenonT(40), <1>1, <1>2, <1>3, <1>4 DEF X
<1>6. /\ Exact(r, X \cup G, c) /\ SameRegion(n, r)
      /\ FreeBecomes(n, X, r, X \cup G, ClassOf(n, X, "FREE") \cup G)
  BY <1>1, <1>2, <1>5, PutBlock DEF G
<1>7. X \cup G = Managed(m) \ K
  BY Zenon, <1>1, <1>2 DEF X
<1>8. SameRegion(m, r) /\ Managed(r) = Managed(m)
  BY Zenon, <1>2, <1>6 DEF SameRegion, Managed
<1>9. K \subseteq Managed(m) /\ K \subseteq ClassOf(m, Managed(m), "FREE")
  BY ZenonT(40), <1>1, <1>2, <1>12 DEF S
<1>10. Exact(r, Managed(m) \ K, keep)
  <2>1. \A p \in Managed(m) \ (Managed(m) \ K) : p # keep => r.block_state[p] = "UNUSED"
    <3>1. \A p \in Managed(r) \ (X \cup G) : p # c => r.block_state[p] = "UNUSED"
      BY Zenon, <1>6 DEF Exact
    <3> QED
      BY ZenonT(40), <1>1, <1>4, <1>7, <1>8, <3>1
  <2> QED
    BY ZenonT(40), <1>6, <1>7, <1>8, <2>1 DEF Exact
<1>11. ASSUME NEW x PROVE ClassOf(r, Managed(m) \ K, x) = ClassOf(m, Managed(m), x) \ K
  <2>1. ClassOf(n, X, x) = ClassOf(m, Managed(m), x) \ S
    BY ZenonT(40), <1>2
  <2>2. CASE x = "FREE"
    <3>1. ClassOf(r, Managed(m) \ K, x) = ClassOf(n, X, x) \cup G
      BY ZenonT(40), <1>6, <1>7, <2>2 DEF FreeBecomes
    <3>2. G \subseteq ClassOf(m, Managed(m), x)
      BY ZenonT(40), <1>1, <1>12, <2>2 DEF S
    <3> QED
      BY Zenon, <1>1, <2>1, <3>1, <3>2
  <2>3. CASE x # "FREE"
    <3>1. ClassOf(r, Managed(m) \ K, x) = ClassOf(n, X, x)
      BY ZenonT(40), <1>6, <1>7, <2>3 DEF FreeBecomes
    <3>2. ClassOf(m, Managed(m), x) \cap S = {}
      BY ZenonT(40), <1>12, <2>3 DEF ClassOf, S
    <3> QED
      BY Zenon, <1>1, <2>1, <3>1, <3>2
  <2> QED
    BY Zenon, <2>2, <2>3
<1> QED
  BY Zenon, <1>1, <1>8, <1>9, <1>10, <1>11 DEF InHand, Held, K

(* The pages in hand are marked as a block. *)
LEMMA MarkInHand ==
    ASSUME NEW m, NEW n, NEW S, NEW start \in Nat, InHand(m, n, S, start), NEW k \in Order,
           Block(start, k) \subseteq S, NEW state \in BlockState,
           NEW r, r = set_block(n, start, k, state)
    PROVE  InHand(m, r, S, start) /\ SetAt(n, r, start, k, state)
<1> DEFINE X == Managed(m) \ S
<1>1. /\ SameRegion(m, n) /\ S \subseteq Managed(m) /\ Exact(n, X, start)
      /\ \A x : ClassOf(n, X, x) = ClassOf(m, Managed(m), x) \ S
  BY Zenon DEF InHand
<1>2. Managed(n) = Managed(m)
  BY Zenon, <1>1 DEF SameRegion, Managed
<1>3. Block(start, k) \subseteq Managed(n) \ X
  BY Zenon, <1>1, <1>2
<1> HIDE DEF X
<1>4. Exact(r, X, start) /\ SameRegion(n, r) /\ SameClasses(n, r, X) /\ SetAt(n, r, start, k, state)
  BY ZenonT(40), <1>1, <1>3, SetInHand
<1>5. SameRegion(m, r)
  BY Zenon, <1>1, <1>4 DEF SameRegion
<1>6. \A x : ClassOf(r, X, x) = ClassOf(m, Managed(m), x) \ S
  BY Zenon, <1>1, <1>4 DEF SameClasses
<1> QED
  BY ZenonT(40), <1>1, <1>4, <1>5, <1>6 DEF InHand, X

-----------------------------------------------------------------------------
(* Calls that take or reserve a page. *)

(* Between calls the tables are exact on all pages. *)
Whole(m) == Exact(m, Managed(m), 0)

(* A call has moved the pages P from one class to another. *)
Moved(m, n, P, from, to) ==
    /\ P \subseteq ClassOf(m, Managed(m), from)
    /\ ClassOf(n, Managed(n), from) = ClassOf(m, Managed(m), from) \ P
    /\ ClassOf(n, Managed(n), to) = ClassOf(m, Managed(m), to) \cup P
    /\ \A c : c \notin {from, to} => ClassOf(n, Managed(n), c) = ClassOf(m, Managed(m), c)

(* With no page in hand it does not matter which page may have a state. *)
LEMMA WholeAny ==
    ASSUME NEW m, NEW h, Exact(m, Managed(m), h), NEW g
    PROVE  Exact(m, Managed(m), g)
  BY Zenon DEF Exact

(* The page that is left in hand is handed out or reserved. *)
LEMMA FinishPage ==
    ASSUME NEW m, NEW n, NEW p \in Nat, InHand(m, n, {p}, p), p \in ClassOf(m, Managed(m), "FREE"),
           NEW state \in {"ALLOCATED", "RESERVED"}, NEW r, r = set_block(n, p, 0, state)
    PROVE  Whole(r) /\ SameRegion(m, r) /\ Moved(m, r, {p}, "FREE", state)
<1> DEFINE X == Managed(n) \ {p}
<1>1. SameRegion(m, n) /\ Managed(n) = Managed(m)
  BY ZenonT(40) DEF InHand, SameRegion, Managed
<1>2. /\ p \in Managed(n) /\ Exact(n, X, p)
      /\ \A c : ClassOf(n, X, c) = ClassOf(m, Managed(m), c) \ {p}
  BY Zenon, <1>1 DEF InHand
<1> HIDE DEF X
<1>3. /\ Exact(r, Managed(r), p) /\ SameRegion(n, r)
      /\ ClassOf(r, Managed(r), state) = ClassOf(n, X, state) \cup {p}
      /\ \A c : c # state => ClassOf(r, Managed(r), c) = ClassOf(n, X, c)
  BY <1>2, FillPage DEF X
<1>4. Whole(r) /\ SameRegion(m, r)
  BY Zenon, <1>1, <1>3, WholeAny DEF Whole, SameRegion
<1>5. \A c : c # "FREE" => p \notin ClassOf(m, Managed(m), c)
  BY Zenon DEF ClassOf
<1>6. state # "FREE"
  BY Zenon
<1>7. ClassOf(r, Managed(r), "FREE") = ClassOf(m, Managed(m), "FREE") \ {p}
  BY Zenon, <1>2, <1>3, <1>6
<1>8. ClassOf(r, Managed(r), state) = ClassOf(m, Managed(m), state) \cup {p}
  BY Zenon, <1>2, <1>3
<1>9. ASSUME NEW c, c \notin {"FREE", state}
      PROVE  ClassOf(r, Managed(r), c) = ClassOf(m, Managed(m), c)
  <2>1. ClassOf(r, Managed(r), c) = ClassOf(m, Managed(m), c) \ {p}
    BY ZenonT(40), <1>2, <1>3, <1>9
  <2>2. p \notin ClassOf(m, Managed(m), c)
    BY Zenon, <1>5, <1>9
  <2> QED
    BY ZenonT(40), <2>1, <2>2
<1> QED
  BY ZenonT(40), <1>4, <1>7, <1>8, <1>9 DEF Moved

(* remove_free_block takes a block in hand. *)
LEMMA TakeHeld ==
    ASSUME NEW m, Whole(m), NEW p \in Managed(m), NEW k, FreeBlock(m, p, k)
    PROVE  Held(m, remove_free_block(m, p), p, k)
  BY Zenon, TakeFree DEF Whole, Held

(* Marking the block in hand changes nothing else. *)
LEMMA MarkHeld ==
    ASSUME NEW m, NEW n, NEW c, NEW k \in Order, Held(m, n, c, k), NEW state \in BlockState
    PROVE  Held(m, set_block(n, c, k, state), c, k)
<1> DEFINE S == Block(c, k)
<1>1. InHand(m, n, S, c) /\ Block(c, k) \subseteq S /\ c \in Nat
  BY Zenon DEF Held
<1> HIDE DEF S
<1>2. InHand(m, set_block(n, c, k, state), S, c)
  BY Zenon, <1>1, MarkInHand
<1> QED
  BY Zenon, <1>2 DEF Held, S

(* A block of one page in hand is handed out or reserved. *)
LEMMA FinishHeld ==
    ASSUME NEW m, NEW n, NEW p, Held(m, n, p, 0), NEW state \in {"ALLOCATED", "RESERVED"},
           NEW r, r = set_block(n, p, 0, state)
    PROVE  Whole(r) /\ SameRegion(m, r) /\ Moved(m, r, {p}, "FREE", state) /\ p \in Managed(m)
<1>1. p \in Nat /\ Block(p, 0) = {p}
  BY Zenon, OnePage DEF Held
<1>2. InHand(m, n, {p}, p) /\ p \in ClassOf(m, Managed(m), "FREE")
  BY Zenon, <1>1 DEF Held
<1>3. p \in Managed(m)
  BY Zenon, <1>2 DEF ClassOf
<1> QED
  BY ZenonT(40), <1>1, <1>2, <1>3, FinishPage

UpperLoop == INSTANCE Loops WITH Step <- split_upper

(* alloc_block hands out one free page, whichever list it finds it in and  *)
(* however often it splits.                                                *)
LEMMA AllocBlock ==
    ASSUME NEW m, Whole(m), NEW order \in Order, m.free_list[order] # <<>>,
           NEW n, n = alloc_block(m, order)
    PROVE  /\ Whole(n) /\ SameRegion(m, n)
           /\ \E p \in Managed(m) : Moved(m, n, {p}, "FREE", "ALLOCATED")
<1> DEFINE block == Head(m.free_list[order])
           start == [mem |-> remove_free_block(m, block), block |-> block, order |-> order]
           turn == CHOOSE turn : turn = [i \in 0..order |->
                                            IF i = 0 THEN start ELSE split_upper(turn[i - 1])]
<1>1. n = set_block(turn[order].mem, block, 0, "ALLOCATED")
  BY Zenon DEF alloc_block
<1>2. order \in Nat /\ MaxOrder \in Nat /\ order <= MaxOrder
  BY PmmAssumption DEF PmmAssumption, Order
<1>3. turn = CHOOSE g : UpperLoop!IsLoop(g, start, order)
  BY Zenon DEF UpperLoop!IsLoop
<1> HIDE DEF turn
<1>4. UpperLoop!IsLoop(turn, start, order)
  BY ZenonT(40), <1>2, <1>3, LeastNat, UpperLoop!LoopExists
<1>5. turn[0] = start /\ \A i \in 0..(order - 1) : turn[i + 1] = split_upper(turn[i])
  <2> HIDE DEF start
  <2>1. UpperLoop!Turns(turn, start, order)
    BY Zenon, <1>2, <1>4, UpperLoop!LoopTurns
  <2> QED
    BY Zenon, <2>1 DEF UpperLoop!Turns
<1>6. block \in Managed(m) /\ FreeBlock(m, block, order)
  <2>1. m.free_list[order] \in Seq(Page)
    BY Zenon, PageTypes DEF Whole, Exact
  <2>2. block \in Range(m.free_list[order])
    BY <2>1 DEF Range
  <2> QED
    BY Zenon, <2>2 DEF Whole, Exact, ListsExact
<1> HIDE DEF block
<1> DEFINE P(i) == /\ turn[i].block = block /\ turn[i].order = order - i
                   /\ Held(m, turn[i].mem, block, order - i)
           T == {i \in 0..order : ~P(i)}
<1>7. P(0)
  BY <1>2, <1>5, <1>6, TakeHeld
<1>8. ASSUME NEW i \in 0..(order - 1), P(i) PROVE P(i + 1)
  <2> DEFINE k == order - (i + 1)
             b == turn[i]
             r == add_free_block(b.mem, block + block_pages[k], k)
  <2>1. k \in Order /\ k < MaxOrder /\ k + 1 = order - i
    BY <1>2 DEF Order
  <2>2. b.order - 1 = k /\ b.block = block
    BY <1>2, <1>8
  <2>3. turn[i + 1] = [mem |-> r, block |-> block, order |-> k]
    BY ZenonT(40), <1>5, <2>2 DEF split_upper
  <2>4. Held(m, b.mem, block, k + 1)
    BY ZenonT(40), <1>8, <2>1
  <2> HIDE DEF k, b
  <2>5. Held(m, r, block, k)
    <3>1. HalvesOf(block, k, block, block + block_pages[k])
      BY Zenon DEF HalvesOf
    <3> QED
      BY ZenonT(40), <2>1, <2>4, <3>1, SplitOff
  <2>6. turn[i + 1].block = block /\ turn[i + 1].order = k /\ turn[i + 1].mem = r
    BY <2>3
  <2> HIDE DEF r
  <2> QED
    BY Zenon, <2>5, <2>6 DEF k
<1> HIDE DEF P
<1>9. T = {}
  <2> SUFFICES ASSUME T # {} PROVE FALSE
    BY Zenon
  <2>1. T \subseteq Nat
    BY <1>2
  <2> HIDE DEF T
  <2>2. PICK i \in T : \A y \in T : i <= y
    BY Zenon, <2>1, LeastNat
  <2>3. i \in 0..order /\ ~P(i)
    BY Zenon DEF T
  <2>4. i # 0
    BY Zenon, <1>7, <2>3
  <2>5. i - 1 \in 0..(order - 1) /\ i - 1 \notin T /\ (i - 1) + 1 = i /\ i - 1 \in 0..order
    BY <1>2, <2>2, <2>3, <2>4
  <2>6. P(i - 1)
    BY Zenon, <2>5 DEF T
  <2> QED
    BY ZenonT(40), <1>8, <2>3, <2>5, <2>6
<1>10. P(order) /\ order - order = 0
  BY <1>2, <1>9
<1>11. Held(m, turn[order].mem, block, 0)
  BY Zenon, <1>10 DEF P
<1>12. Whole(n) /\ SameRegion(m, n) /\ Moved(m, n, {block}, "FREE", "ALLOCATED")
  BY Zenon, <1>1, <1>11, FinishHeld
<1> QED
  BY Zenon, <1>6, <1>12

AroundLoop == INSTANCE Loops WITH Step <- split_around

(* A turn of the loop of reserve_page keeps the half with the page. *)
LEMMA SplitAround ==
    ASSUME NEW m, NEW b, NEW k \in Order, k < MaxOrder, b.order = k + 1,
           NEW page \in Nat, b.page = page, page \in Block(b.current, k + 1),
           Held(m, b.mem, b.current, k + 1), NEW r, r = split_around(b)
    PROVE  /\ r.order = k /\ r.page = page /\ page \in Block(r.current, k)
           /\ Held(m, r.mem, r.current, k)
<1> DEFINE c == b.current
           d == c + block_pages[k]
           keep == IF page < d THEN c ELSE d
           give == IF page < d THEN d ELSE c
           n == add_free_block(b.mem, give, k)
<1>1. k \in Nat /\ b.order - 1 = k
  BY PmmAssumption DEF PmmAssumption, Order
<1>2. r = [mem |-> set_block(n, keep, k, "ALLOCATED"), current |-> keep, order |-> k, page |-> page]
  BY Zenon, <1>1 DEF split_around
<1>3. c \in Nat /\ block_pages[k] \in Nat /\ Block(c, k + 1) = Block(c, k) \cup Block(d, k)
  <2>1. c \in Nat /\ c % block_pages[k + 1] = 0
    BY Zenon DEF Held
  <2> HIDE DEF c
  <2> QED
    BY <2>1, BlockPages, SplitBlock
<1> HIDE DEF c
<1>4. page \in Block(keep, k)
  BY <1>3 DEF Block, c
<1>5. HalvesOf(c, k, keep, give)
  BY Zenon DEF HalvesOf
<1> HIDE DEF d, keep, give, n
<1>6. Held(m, n, keep, k)
  BY Zenon, <1>5, SplitOff DEF n, c
<1>7. Held(m, set_block(n, keep, k, "ALLOCATED"), keep, k)
  BY Zenon, <1>6, MarkHeld DEF BlockState
<1> QED
  BY <1>2, <1>4, <1>7

(* reserve_page takes a page that is free from the lists, and leaves every *)
(* other page alone.                                                       *)
LEMMA ReservePage ==
    ASSUME NEW m, Whole(m), NEW page \in Nat, NEW n, n = reserve_page(m, page)
    PROVE  /\ Whole(n) /\ SameRegion(m, n)
           /\ IF page \in ClassOf(m, Managed(m), "FREE")
              THEN Moved(m, n, {page}, "FREE", "RESERVED") ELSE n = m
<1> DEFINE head == m.page_owner[page]
           order == m.block_order[head]
           start == [mem |-> remove_free_block(m, head), current |-> head,
                     order |-> order, page |-> page]
           turn == CHOOSE turn : turn = [i \in 0..order |->
                                            IF i = 0 THEN start ELSE split_around(turn[i - 1])]
<1>1. n = IF page < m.total_pages /\ head # INVALID /\ m.block_state[head] = "FREE"
          THEN set_block(turn[order].mem, turn[order].current, 0, "RESERVED")
          ELSE m
  BY Zenon DEF reserve_page
<1>2. m \in Tables /\ m.total_pages \in Nat /\ MaxOrder \in Nat
  BY Zenon, PageTypes DEF Whole, Exact
<1>3. CASE page \notin ClassOf(m, Managed(m), "FREE")
  <2>1. n = m
    <3> HIDE DEF turn
    <3> QED
      BY <1>1, <1>2, <1>3 DEF ClassOf, Managed
  <2> QED
    BY ZenonT(40), <1>3, <2>1 DEF SameRegion
<1>4. CASE page \in ClassOf(m, Managed(m), "FREE")
  <2>1. page \in Managed(m) /\ page < m.total_pages /\ m.block_state[head] = "FREE"
    BY SMTT(30), <1>2, <1>4 DEF ClassOf, Managed
  <2>2. head \in Managed(m) /\ page \in Block(head, order)
    BY ZenonT(40), <2>1 DEF Whole, Exact, BlocksTile
  <2>3. head # INVALID /\ order \in Order /\ order \in Nat /\ order <= MaxOrder
    BY SMTT(30), <1>2, <2>2, PageTypes DEF INVALID, Order
  <2>4. n = set_block(turn[order].mem, turn[order].current, 0, "RESERVED")
    <3> HIDE DEF turn
    <3> QED
      BY Zenon, <1>1, <2>1, <2>3
  <2>5. FreeBlock(m, head, order)
    BY Zenon, <2>1 DEF FreeBlock
  <2>6. turn = CHOOSE g : AroundLoop!IsLoop(g, start, order)
    BY Zenon DEF AroundLoop!IsLoop
  <2> HIDE DEF turn, head, order
  <2>7. Held(m, remove_free_block(m, head), head, order)
    BY ZenonT(40), <2>2, <2>5, TakeHeld
  <2>8. AroundLoop!IsLoop(turn, start, order)
    BY ZenonT(40), <2>3, <2>6, LeastNat, AroundLoop!LoopExists
  <2>9. turn[0] = start /\ \A i \in 0..(order - 1) : turn[i + 1] = split_around(turn[i])
    <3> HIDE DEF start
    <3>1. AroundLoop!Turns(turn, start, order)
      BY ZenonT(40), <2>3, <2>8, AroundLoop!LoopTurns
    <3> QED
      BY Zenon, <3>1 DEF AroundLoop!Turns
  <2> DEFINE P(i) == /\ turn[i].order = order - i /\ turn[i].page = page
                     /\ page \in Block(turn[i].current, order - i)
                     /\ Held(m, turn[i].mem, turn[i].current, order - i)
             T == {i \in 0..order : ~P(i)}
  <2>10. P(0)
    BY <2>2, <2>3, <2>7, <2>9
  <2>11. ASSUME NEW i \in 0..(order - 1), P(i) PROVE P(i + 1)
    <3> DEFINE k == order - (i + 1)
               b == turn[i]
               r == turn[i + 1]
    <3>1. k \in Order /\ k < MaxOrder /\ k + 1 = order - i
      BY <1>2, <2>3 DEF Order
    <3>2. r = split_around(b)
      BY Zenon, <2>9
    <3>3. /\ b.order = k + 1 /\ b.page = page /\ page \in Block(b.current, k + 1)
          /\ Held(m, b.mem, b.current, k + 1)
      BY ZenonT(40), <2>11, <3>1
    <3> HIDE DEF k, b, r
    <3>4. /\ r.order = k /\ r.page = page /\ page \in Block(r.current, k)
          /\ Held(m, r.mem, r.current, k)
      BY <3>1, <3>2, <3>3, SplitAround
    <3> QED
      BY Zenon, <3>4 DEF k, r
  <2> HIDE DEF P
  <2>12. T = {}
    <3> SUFFICES ASSUME T # {} PROVE FALSE
      BY Zenon
    <3>1. T \subseteq Nat
      BY <2>3
    <3> HIDE DEF T
    <3>2. PICK i \in T : \A y \in T : i <= y
      BY ZenonT(40), <3>1, LeastNat
    <3>3. i \in 0..order /\ ~P(i)
      BY Zenon DEF T
    <3>4. i # 0
      BY Zenon, <2>10, <3>3
    <3>5. i - 1 \in 0..(order - 1) /\ i - 1 \notin T /\ (i - 1) + 1 = i /\ i - 1 \in 0..order
      BY <2>3, <3>2, <3>3, <3>4
    <3>6. P(i - 1)
      BY Zenon, <3>5 DEF T
    <3> QED
      BY Zenon, <2>11, <3>3, <3>5, <3>6
  <2>13. P(order) /\ order - order = 0
    BY <2>3, <2>12
  <2> DEFINE c == turn[order].current
  <2>14. Held(m, turn[order].mem, c, 0) /\ page \in Block(c, 0)
    BY Zenon, <2>13 DEF P
  <2>15. c = page
    <3> HIDE DEF c
    <3>1. c \in Nat /\ Block(c, 0) = {c}
      BY ZenonT(40), <2>14, OnePage DEF Held
    <3> QED
      BY ZenonT(40), <2>14, <3>1
  <2> HIDE DEF c
  <2>16. Whole(n) /\ SameRegion(m, n) /\ Moved(m, n, {page}, "FREE", "RESERVED")
    <3>1. Held(m, turn[order].mem, page, 0) /\ n = set_block(turn[order].mem, page, 0, "RESERVED")
      BY ZenonT(40), <2>4, <2>14, <2>15 DEF c
    <3> QED
      BY Zenon, <3>1, FinishHeld
  <2> QED
    BY Zenon, <1>4, <2>16
<1> QED
  BY Zenon, <1>3, <1>4

-----------------------------------------------------------------------------
(* The operations. *)

(* free_block began with the tables m and one page in hand, and has grown  *)
(* it to a block: every page that it added was free.                       *)
Growing(m, n, page, c, k) ==
    /\ k \in Order /\ c \in Nat /\ c % block_pages[k] = 0
    /\ page \in Block(c, k) /\ Block(c, k) \subseteq Managed(m)
    /\ SameRegion(m, n) /\ Exact(n, Managed(m) \ Block(c, k), c)
    /\ Block(c, k) \ {page} \subseteq ClassOf(m, Managed(m) \ {page}, "FREE")
    /\ \A x : ClassOf(n, Managed(m) \ Block(c, k), x) =
                  ClassOf(m, Managed(m) \ {page}, x) \ Block(c, k)

(* A block and its buddy are the halves of one aligned block. *)
LEMMA BuddyPair ==
    ASSUME NEW c \in Nat, NEW k \in Order, k < MaxOrder, c % block_pages[k] = 0,
           NEW bd, bd = Buddy(c, k), NEW low, low = IF bd < c THEN bd ELSE c
    PROVE  /\ bd \in Nat /\ bd # c /\ low \in Nat /\ low % block_pages[k + 1] = 0
           /\ k + 1 \in Order /\ Block(low, k + 1) = Block(c, k) \cup Block(bd, k)
           /\ Block(c, k) \cap Block(bd, k) = {} /\ bd \in Block(bd, k) /\ c \in Block(c, k)
           /\ low \in {c, bd}
<1> DEFINE b == block_pages[k]
           d == low + b
<1>1. b \in Nat \ {0} /\ k + 1 \in Order /\ block_pages[k + 1] = 2 * b
  BY Zenon, BlockPages
<1>2. \/ c % (2 * b) = 0 /\ bd = c + b
      \/ c >= b /\ (c - b) % (2 * b) = 0 /\ bd = c - b
  BY Zenon, BuddyIs
<1>3. \/ low = c /\ d = bd /\ c % (2 * b) = 0
      \/ low = bd /\ d = c /\ bd % (2 * b) = 0
  <2> HIDE DEF b
  <2> QED
    BY <1>1, <1>2
<1>4. low \in Nat /\ bd \in Nat /\ bd # c
  <2> HIDE DEF b
  <2> QED
    BY <1>1, <1>2
<1>5. low % block_pages[k + 1] = 0
  <2> HIDE DEF b
  <2> QED
    BY Zenon, <1>1, <1>3
<1>6. /\ Block(low, k + 1) = Block(low, k) \cup Block(d, k)
      /\ Block(low, k) \cap Block(d, k) = {}
      /\ low \in Block(low, k) /\ d \in Block(d, k)
  BY ZenonT(40), <1>4, <1>5, SplitBlock
<1> HIDE DEF d
<1>7. CASE low = c /\ d = bd
  BY Zenon, <1>1, <1>4, <1>5, <1>6, <1>7
<1>8. CASE low = bd /\ d = c
  BY Zenon, <1>1, <1>4, <1>5, <1>6, <1>8
<1> QED
  BY Zenon, <1>3, <1>7, <1>8

(* The condition under which the loop of free_block goes on. *)
CanMerge(b) ==
    /\ b.order < MaxOrder /\ Buddy(b.current, b.order) < b.mem.total_pages
    /\ FreeBlock(b.mem, Buddy(b.current, b.order), b.order)

(* A turn of the loop that merges. *)
LEMMA MergeStep ==
    ASSUME NEW m, NEW n, NEW page, NEW c, NEW k, Growing(m, n, page, c, k), k < MaxOrder,
           NEW bd, bd = Buddy(c, k), bd < n.total_pages, FreeBlock(n, bd, k),
           NEW low, low = IF bd < c THEN bd ELSE c,
           NEW n4, n4 = set_block(clear_block_head(clear_block_head(remove_free_block(n, bd), c), bd),
                                  low, k + 1, "FREE")
    PROVE  Growing(m, n4, page, low, k + 1)
<1> DEFINE S == Block(c, k)
           B == Block(bd, k)
           L == Block(low, k + 1)
           X == Managed(m) \ S
           Y == X \ B
           n1 == remove_free_block(n, bd)
           n2 == clear_block_head(n1, c)
           n3 == clear_block_head(n2, bd)
<1>1. /\ k \in Order /\ c \in Nat /\ c % block_pages[k] = 0 /\ page \in S
      /\ S \subseteq Managed(m) /\ SameRegion(m, n) /\ Exact(n, X, c)
      /\ S \ {page} \subseteq ClassOf(m, Managed(m) \ {page}, "FREE")
      /\ \A x : ClassOf(n, X, x) = ClassOf(m, Managed(m) \ {page}, x) \ S
  BY Zenon DEF Growing
<1>2. /\ bd \in Nat /\ bd # c /\ low \in Nat /\ low % block_pages[k + 1] = 0
      /\ k + 1 \in Order /\ L = S \cup B /\ S \cap B = {} /\ bd \in B /\ c \in S
      /\ low \in {c, bd}
  BY <1>1, BuddyPair
<1>3. n4 = set_block(n3, low, k + 1, "FREE")
  BY Zenon
<1>4. Managed(n) = Managed(m) /\ n \in Tables /\ n.total_pages \in Nat
  BY Zenon, <1>1, PageTypes DEF SameRegion, Managed, Exact
<1> HIDE DEF S, B, L, X, n1, n2, n3
<1>5. bd \in X
  <2>1. bd \in Managed(n) /\ n.block_state[bd] # "UNUSED"
    BY <1>2, <1>4 DEF Managed, FreeBlock
  <2> QED
    BY ZenonT(40), <1>1, <1>2, <2>1 DEF Exact
<1>6. /\ Exact(n1, Y, c) /\ SameRegion(n, n1) /\ B \subseteq ClassOf(n, X, "FREE")
      /\ FreeBecomes(n, X, n1, Y, ClassOf(n, X, "FREE") \ B)
  BY <1>1, <1>5, TakeBlock DEF B, n1
<1>7. Managed(n1) = Managed(m) /\ SameRegion(m, n1)
  BY Zenon, <1>1, <1>6 DEF SameRegion, Managed
<1>8. c \in Managed(m) \ Y /\ bd \in Managed(m) \ Y /\ L \subseteq Managed(m) \ Y
  <2>1. B \subseteq X
    BY Zenon, <1>6 DEF ClassOf
  <2> QED
    BY Zenon, <1>1, <1>2, <1>5, <2>1 DEF X
<1> HIDE DEF Y
<1>9. /\ Exact(n2, Y, c) /\ SameRegion(n1, n2) /\ SameClasses(n1, n2, Y) /\ ClearedAt(n1, n2, c)
  BY Zenon, <1>6, <1>7, <1>8, ClearInHand DEF n2
<1>10. Managed(n2) = Managed(m) /\ SameRegion(m, n2)
  BY Zenon, <1>7, <1>9 DEF SameRegion, Managed
<1>11. /\ Exact(n3, Y, c) /\ SameRegion(n2, n3) /\ SameClasses(n2, n3, Y) /\ ClearedAt(n2, n3, bd)
  BY Zenon, <1>8, <1>9, <1>10, ClearInHand DEF n3
<1>12. Managed(n3) = Managed(m) /\ SameRegion(m, n3) /\ n3 \in Tables
  BY Zenon, <1>10, <1>11 DEF SameRegion, Managed, Exact
<1>13. Exact(n3, Y, low)
  <2>1. c \in Page
    BY Zenon, <1>8, <1>12, PageTypes
  <2>2. n2.block_state[c] = "UNUSED"
    BY Zenon, <1>9, <2>1 DEF ClearedAt
  <2>3. n3.block_state[c] = "UNUSED"
    BY Zenon, <1>11, <2>1, <2>2 DEF ClearedAt
  <2> QED
    BY Zenon, <1>11, <2>3 DEF Exact
<1>14. Exact(n4, Y, low) /\ SameRegion(n3, n4) /\ SameClasses(n3, n4, Y)
  <2>1. "FREE" \in BlockState /\ Block(low, k + 1) \subseteq Managed(n3) \ Y
    BY Zenon, <1>8, <1>12 DEF BlockState, L
  <2> QED
    BY ZenonT(40), <1>2, <1>3, <1>13, <2>1, SetInHand
<1>15. SameRegion(m, n4)
  BY Zenon, <1>12, <1>14 DEF SameRegion
<1>16. Y = Managed(m) \ L
  BY Zenon, <1>2 DEF X, Y
<1>17. ASSUME NEW x PROVE ClassOf(n4, Y, x) = ClassOf(m, Managed(m) \ {page}, x) \ L
  <2>1. ClassOf(n4, Y, x) = ClassOf(n1, Y, x)
    BY Zenon, <1>9, <1>11, <1>14 DEF SameClasses
  <2>2. ClassOf(n, X, x) = ClassOf(m, Managed(m) \ {page}, x) \ S
    BY Zenon, <1>1
  <2>3. CASE x = "FREE"
    BY Zenon, <1>2, <1>6, <2>1, <2>2, <2>3 DEF FreeBecomes
  <2>4. CASE x # "FREE"
    <3>1. ClassOf(n1, Y, x) = ClassOf(n, X, x)
      BY Zenon, <1>6, <2>4 DEF FreeBecomes
    <3>2. ClassOf(n, X, x) \cap B = {}
      BY Zenon, <1>6, <2>4 DEF ClassOf
    <3> QED
      BY Zenon, <1>2, <2>1, <2>2, <3>1, <3>2
  <2> QED
    BY Zenon, <2>3, <2>4
<1>18. L \ {page} \subseteq ClassOf(m, Managed(m) \ {page}, "FREE")
  BY Zenon, <1>1, <1>2, <1>6
<1>19. page \in L /\ L \subseteq Managed(m)
  BY Zenon, <1>1, <1>2, <1>8
<1> QED
  BY Zenon, <1>2, <1>14, <1>15, <1>16, <1>17, <1>18, <1>19 DEF Growing, L

(* The loop of free_block has stopped: the block goes to its list. *)
LEMMA GrownBlock ==
    ASSUME NEW m, NEW n, NEW page, NEW c, NEW k, Growing(m, n, page, c, k),
           k < MaxOrder => ~(Buddy(c, k) < n.total_pages /\ FreeBlock(n, Buddy(c, k), k)),
           NEW r, r = add_free_block(n, c, k)
    PROVE  /\ Whole(r) /\ SameRegion(m, r)
           /\ FreeBecomes(m, Managed(m) \ {page}, r, Managed(r),
                          ClassOf(m, Managed(m) \ {page}, "FREE") \cup {page})
<1> DEFINE S == Block(c, k)
           X == Managed(m) \ S
           Z == Managed(m) \ {page}
<1>1. /\ k \in Order /\ c \in Nat /\ c % block_pages[k] = 0 /\ page \in S
      /\ S \subseteq Managed(m) /\ SameRegion(m, n) /\ Exact(n, X, c)
      /\ S \ {page} \subseteq ClassOf(m, Z, "FREE")
      /\ \A x : ClassOf(n, X, x) = ClassOf(m, Z, x) \ S
  BY Zenon DEF Growing
<1>2. Managed(n) = Managed(m) /\ n.total_pages \in Nat
  BY Zenon, <1>1, PageTypes DEF SameRegion, Managed, Exact
<1>3. k < MaxOrder /\ Buddy(c, k) \in X => ~FreeBlock(n, Buddy(c, k), k)
  <2>1. X \subseteq Managed(n)
    BY Zenon, <1>2
  <2>2. \A p \in Managed(n) : p < n.total_pages
    BY <1>2 DEF Managed
  <2> HIDE DEF X
  <2> QED
    BY Zenon, <2>1, <2>2
<1>4. S \subseteq Managed(n) \ X
  BY Zenon, <1>1, <1>2
<1> HIDE DEF S, X, Z
<1>5. /\ Exact(r, X \cup S, c) /\ SameRegion(n, r)
      /\ FreeBecomes(n, X, r, X \cup S, ClassOf(n, X, "FREE") \cup S)
  BY Zenon, <1>1, <1>3, <1>4, PutBlock DEF S
<1>6. SameRegion(m, r) /\ Managed(r) = Managed(m) /\ X \cup S = Managed(m)
  BY Zenon, <1>1, <1>5 DEF SameRegion, Managed, X
<1>7. Whole(r)
  BY Zenon, <1>5, <1>6, WholeAny DEF Whole
<1>8. ClassOf(r, Managed(r), "FREE") = ClassOf(m, Z, "FREE") \cup {page}
  <2>1. ClassOf(r, Managed(r), "FREE") = (ClassOf(m, Z, "FREE") \ S) \cup S
    BY Zenon, <1>1, <1>5, <1>6 DEF FreeBecomes
  <2> QED
    BY Zenon, <1>1, <2>1
<1>9. ASSUME NEW x, x # "FREE" PROVE ClassOf(r, Managed(r), x) = ClassOf(m, Z, x)
  <2>1. ClassOf(r, Managed(r), x) = ClassOf(m, Z, x) \ S
    BY Zenon, <1>1, <1>5, <1>6, <1>9 DEF FreeBecomes
  <2>2. page \notin ClassOf(m, Z, x)
    BY Zenon DEF ClassOf, Z
  <2>3. ClassOf(m, Z, x) \cap ClassOf(m, Z, "FREE") = {}
    BY Zenon, <1>9 DEF ClassOf
  <2> QED
    BY <1>1, <2>1, <2>2, <2>3
<1> QED
  BY Zenon, <1>6, <1>7, <1>8, <1>9 DEF FreeBecomes, Z

MergeLoop == INSTANCE Loops WITH Step <- merge

(* A turn of the loop of free_block. *)
LEMMA MergeTurn ==
    ASSUME NEW m, NEW b, NEW page, Growing(m, b.mem, page, b.current, b.order),
           NEW r, r = merge(b)
    PROVE  /\ Growing(m, r.mem, page, r.current, r.order)
           /\ IF CanMerge(b) THEN r.order = b.order + 1 ELSE r = b
<1> DEFINE c == b.current
           k == b.order
           bd == Buddy(c, k)
           low == IF bd < c THEN bd ELSE c
           n4 == set_block(clear_block_head(clear_block_head(remove_free_block(b.mem, bd), c), bd),
                           low, k + 1, "FREE")
<1>1. r = IF CanMerge(b) THEN [mem |-> n4, current |-> low, order |-> k + 1] ELSE b
  BY Zenon DEF merge, CanMerge
<1>2. CASE ~CanMerge(b)
  <2> HIDE DEF n4
  <2> QED
    BY Zenon, <1>1, <1>2
<1>3. CASE CanMerge(b)
  <2>1. k < MaxOrder /\ bd < b.mem.total_pages /\ FreeBlock(b.mem, bd, k)
    BY Zenon, <1>3 DEF CanMerge
  <2>2. Growing(m, n4, page, low, k + 1)
    BY Zenon, <2>1, MergeStep
  <2> HIDE DEF n4, low, k
  <2>3. r.mem = n4 /\ r.current = low /\ r.order = k + 1
    BY SMTT(30), <1>1, <1>3
  <2> QED
    BY Zenon, <1>3, <2>2, <2>3 DEF k
<1> QED
  BY Zenon, <1>2, <1>3

(* free_block gives back the page in hand, whichever blocks it merges. *)
LEMMA FreeBlockExact ==
    ASSUME NEW m, NEW page \in Managed(m), Exact(m, Managed(m) \ {page}, page),
           NEW n, n = free_block(m, page)
    PROVE  /\ Whole(n) /\ SameRegion(m, n)
           /\ FreeBecomes(m, Managed(m) \ {page}, n, Managed(n),
                          ClassOf(m, Managed(m) \ {page}, "FREE") \cup {page})
<1> DEFINE Z == Managed(m) \ {page}
           first == set_block(m, page, 0, "FREE")
           start == [mem |-> first, current |-> page, order |-> 0]
           turn == CHOOSE turn : turn = [i \in 0..MaxOrder |->
                                            IF i = 0 THEN start ELSE merge(turn[i - 1])]
           last == turn[MaxOrder]
<1>1. n = add_free_block(last.mem, last.current, last.order)
  BY Zenon DEF free_block
<1>2. turn = CHOOSE g : MergeLoop!IsLoop(g, start, MaxOrder)
  BY Zenon DEF MergeLoop!IsLoop
<1> HIDE DEF turn
<1>3. MaxOrder \in Nat /\ m \in Tables /\ page \in Nat /\ 0 \in Order
  BY Zenon, PageTypes DEF Exact
<1>4. MergeLoop!IsLoop(turn, start, MaxOrder)
  BY Zenon, <1>2, <1>3, LeastNat, MergeLoop!LoopExists
<1>5. turn[0] = start /\ \A i \in 0..(MaxOrder - 1) : turn[i + 1] = merge(turn[i])
  <2> HIDE DEF start
  <2>1. MergeLoop!Turns(turn, start, MaxOrder)
    BY Zenon, <1>3, <1>4, MergeLoop!LoopTurns
  <2> QED
    BY Zenon, <2>1 DEF MergeLoop!Turns
<1>6. Growing(m, first, page, page, 0)
  <2>1. Block(page, 0) = {page} /\ page % block_pages[0] = 0
    BY Zenon, <1>3, OnePage
  <2>2. Block(page, 0) \subseteq Managed(m) \ Z /\ "FREE" \in BlockState
    BY Zenon, <2>1 DEF BlockState
  <2> HIDE DEF first, Z
  <2>3. Exact(first, Z, page) /\ SameRegion(m, first) /\ SameClasses(m, first, Z)
    BY Zenon, <1>3, <2>2, SetInHand DEF first, Z
  <2>4. page \notin Z /\ \A x : ClassOf(m, Z, x) = ClassOf(m, Z, x) \ {page}
    BY Zenon DEF Z, ClassOf
  <2> QED
    <3>1. /\ Exact(first, Managed(m) \ {page}, page)
          /\ \A x : ClassOf(first, Managed(m) \ {page}, x) =
                        ClassOf(m, Managed(m) \ {page}, x) \ {page}
      BY Zenon, <2>3, <2>4 DEF SameClasses, Z
    <3>2. /\ {page} \subseteq Managed(m) /\ page \in {page}
          /\ {page} \ {page} \subseteq ClassOf(m, Managed(m) \ {page}, "FREE")
      BY Zenon
    <3> QED
      BY <1>3, <2>1, <2>3, <3>1, <3>2, Zenon DEF Growing
<1> DEFINE P(i) == /\ Growing(m, turn[i].mem, page, turn[i].current, turn[i].order)
                   /\ turn[i].order = i \/ ~CanMerge(turn[i])
           T == {i \in 0..MaxOrder : ~P(i)}
<1>7. P(0)
  <2>1. turn[0].mem = first /\ turn[0].current = page /\ turn[0].order = 0
    BY <1>5
  <2> HIDE DEF first
  <2> QED
    BY Zenon, <1>6, <2>1
<1>8. ASSUME NEW i \in 0..(MaxOrder - 1), P(i) PROVE P(i + 1)
  <2> DEFINE b == turn[i]
             r == turn[i + 1]
  <2>1. r = merge(b)
    BY Zenon, <1>5
  <2>2. Growing(m, b.mem, page, b.current, b.order) /\ (b.order = i \/ ~CanMerge(b))
    BY Zenon, <1>8
  <2> HIDE DEF b, r
  <2>3. /\ Growing(m, r.mem, page, r.current, r.order)
        /\ IF CanMerge(b) THEN r.order = b.order + 1 ELSE r = b
    BY <2>1, <2>2, MergeTurn
  <2>4. r.order = i + 1 \/ ~CanMerge(r)
    BY Zenon, <2>2, <2>3
  <2> QED
    BY Zenon, <2>3, <2>4 DEF r
<1> HIDE DEF P
<1>9. T = {}
  <2> SUFFICES ASSUME T # {} PROVE FALSE
    BY Zenon
  <2>1. T \subseteq Nat
    BY <1>3
  <2> HIDE DEF T
  <2>2. PICK i \in T : \A y \in T : i <= y
    BY Zenon, <2>1, LeastNat
  <2>3. i \in 0..MaxOrder /\ ~P(i)
    BY Zenon DEF T
  <2>4. i # 0
    BY Zenon, <1>7, <2>3
  <2>5. /\ i - 1 \in 0..(MaxOrder - 1) /\ i - 1 \notin T /\ (i - 1) + 1 = i
        /\ i - 1 \in 0..MaxOrder
    BY <1>3, <2>2, <2>3, <2>4
  <2>6. P(i - 1)
    BY Zenon, <2>5 DEF T
  <2> QED
    BY Zenon, <1>8, <2>3, <2>5, <2>6
<1>10. P(MaxOrder)
  BY <1>3, <1>9
<1>11. /\ Growing(m, last.mem, page, last.current, last.order)
       /\ last.order = MaxOrder \/ ~CanMerge(last)
  BY Zenon, <1>10 DEF P
<1> HIDE DEF last
<1>12. last.order < MaxOrder =>
           ~(/\ Buddy(last.current, last.order) < last.mem.total_pages
             /\ FreeBlock(last.mem, Buddy(last.current, last.order), last.order))
  BY <1>3, <1>11 DEF CanMerge
<1> QED
  BY Zenon, <1>1, <1>11, <1>12, GrownBlock

(* pmm_free_page moves one allocated page to the free pages. *)
LEMMA FreePageMoves ==
    ASSUME NEW m, Whole(m), NEW page \in Managed(m), m.block_state[page] = "ALLOCATED",
           NEW n, n = free_block(clear_block_head(m, page), page)
    PROVE  Whole(n) /\ SameRegion(m, n) /\ Moved(m, n, {page}, "ALLOCATED", "FREE")
<1> DEFINE o == clear_block_head(m, page)
           Z == Managed(m) \ {page}
<1>1. /\ Exact(o, Z, page) /\ SameRegion(m, o)
      /\ page \in ClassOf(m, Managed(m), "ALLOCATED")
      /\ ClassOf(o, Z, "ALLOCATED") = ClassOf(m, Managed(m), "ALLOCATED") \ {page}
      /\ \A c : c # "ALLOCATED" => ClassOf(o, Z, c) = ClassOf(m, Managed(m), c)
  BY SMTT(30), Z3T(30), SMTT(40), OpenPage DEF Whole
<1>2. Managed(o) = Managed(m)
  BY Zenon, <1>1 DEF SameRegion, Managed
<1> HIDE DEF o
<1>3. /\ Whole(n) /\ SameRegion(o, n)
      /\ FreeBecomes(o, Z, n, Managed(n), ClassOf(o, Z, "FREE") \cup {page})
  BY Zenon, <1>1, <1>2, FreeBlockExact DEF o
<1> HIDE DEF Z
<1>4. SameRegion(m, n)
  BY Zenon, <1>1, <1>3 DEF SameRegion
<1>5. Moved(m, n, {page}, "ALLOCATED", "FREE")
  <2>1. ClassOf(n, Managed(n), "ALLOCATED") = ClassOf(m, Managed(m), "ALLOCATED") \ {page}
    BY Zenon, <1>1, <1>3 DEF FreeBecomes
  <2>2. ClassOf(n, Managed(n), "FREE") = ClassOf(m, Managed(m), "FREE") \cup {page}
    BY Zenon, <1>1, <1>3 DEF FreeBecomes
  <2>3. \A c : c \notin {"ALLOCATED", "FREE"} => ClassOf(n, Managed(n), c) = ClassOf(m, Managed(m), c)
    BY Zenon, <1>1, <1>3 DEF FreeBecomes
  <2> QED
    BY Zenon, <1>1, <2>1, <2>2, <2>3 DEF Moved
<1> QED
  BY Zenon, <1>3, <1>4, <1>5

-----------------------------------------------------------------------------
(* pmm_init *)

(* The order that add_free_range chooses: the largest that fits. *)
LEMMA LargestIs ==
    ASSUME NEW page \in Nat, NEW remaining \in Nat \ {0}, NEW k, k = LargestOrder(page, remaining)
    PROVE  /\ k \in Order /\ block_pages[k] <= remaining /\ page % block_pages[k] = 0
           /\ \A j \in Order : j > k => block_pages[j] > remaining \/ page % block_pages[j] # 0
<1> DEFINE Fits(j) == block_pages[j] <= remaining /\ page % block_pages[j] = 0
           T == {t \in 0..MaxOrder : Fits(MaxOrder - t)}
<1>1. MaxOrder \in Nat /\ Order = 0..MaxOrder
  BY Zenon, PmmAssumption DEF PmmAssumption, Order
<1>2. Fits(0)
  <2>1. block_pages[0] = 1 /\ page % 1 = 0
    BY BlockPages
  <2> QED
    BY <2>1
<1> HIDE DEF Fits
<1>3. T \subseteq Nat /\ T # {}
  <2>1. MaxOrder \in 0..MaxOrder /\ MaxOrder - MaxOrder = 0
    BY <1>1
  <2>2. MaxOrder \in T
    BY Zenon, <1>2, <2>1
  <2> QED
    BY <1>1, <2>2
<1>4. PICK t \in T : \A y \in T : t <= y
  <2> HIDE DEF T
  <2> QED
    BY Zenon, <1>3, LeastNat
<1> DEFINE l == MaxOrder - t
<1>5. l \in Order /\ Fits(l)
  BY <1>1
<1>6. ASSUME NEW j \in Order, j > l PROVE ~Fits(j)
  <2>1. MaxOrder - j \in 0..MaxOrder /\ MaxOrder - (MaxOrder - j) = j /\ ~(t <= MaxOrder - j)
    BY <1>1, <1>6
  <2> QED
    BY Zenon, <1>4, <2>1
<1>7. \A j \in Order : block_pages[j] \in Nat /\ page % block_pages[j] \in Int
  BY BlockPages
<1> HIDE DEF l
<1>8. \E x \in Order :
        /\ block_pages[x] <= remaining /\ page % block_pages[x] = 0
        /\ \A j \in Order : j > x => block_pages[j] > remaining \/ page % block_pages[j] # 0
  <2>1. \A j \in Order : j > l => block_pages[j] > remaining \/ page % block_pages[j] # 0
    BY <1>6, <1>7 DEF Fits
  <2> QED
    BY Zenon, <1>5, <2>1 DEF Fits
<1> QED
  BY <1>8, Zenon DEF LargestOrder

(* add_free_range has given the pages below b.page to the lists, each      *)
(* block as large as fits.                                                 *)
Filling(m, b) ==
    /\ b.page \in 0..m.total_pages /\ SameRegion(m, b.mem) /\ Exact(b.mem, 0..(b.page - 1), INVALID)
    /\ \A p \in 0..(b.page - 1) : \A k \in Order :
           FreeBlock(b.mem, p, k) => k = LargestOrder(p, m.total_pages - p)
    /\ ClassOf(b.mem, 0..(b.page - 1), "FREE") = 0..(b.page - 1)
    /\ \A c : c # "FREE" => ClassOf(b.mem, 0..(b.page - 1), c) = {}

(* A free block of the order k just below a block of that order would have *)
(* been made twice as large.                                               *)
LEMMA NoBuddyBelow ==
    ASSUME NEW total \in Nat, NEW page \in 0..(total - 1), NEW k, k = LargestOrder(page, total - page),
           k < MaxOrder, NEW bd \in 0..(page - 1), bd = Buddy(page, k)
    PROVE  k # LargestOrder(bd, total - bd)
<1>1. page \in Nat /\ total - page \in Nat \ {0} /\ bd \in Nat /\ total - bd \in Nat \ {0}
  OBVIOUS
<1>2. k \in Order /\ block_pages[k] <= total - page /\ page % block_pages[k] = 0
  BY Zenon, <1>1, LargestIs
<1> DEFINE b == block_pages[k]
<1>3. b \in Nat \ {0} /\ k + 1 \in Order /\ block_pages[k + 1] = 2 * b
  BY Zenon, <1>2, BlockPages
<1>4. \/ bd = page + b
      \/ (page - b) % (2 * b) = 0 /\ bd = page - b
  BY <1>1, <1>2, BuddyIs
<1> HIDE DEF b
<1>5. bd % (2 * b) = 0 /\ bd = page - b
  BY <1>1, <1>3, <1>4
<1>6. 2 * b <= total - bd
  BY <1>1, <1>2, <1>3, <1>5 DEF b
<1>7. SUFFICES ASSUME k = LargestOrder(bd, total - bd) PROVE FALSE
  BY Zenon
<1>8. \A j \in Order : j > k => block_pages[j] > total - bd \/ bd % block_pages[j] # 0
  BY <1>1, <1>7, LargestIs
<1>9. k + 1 > k
  BY <1>2, PmmAssumption DEF Order, PmmAssumption
<1>10. 2 * b > total - bd \/ bd % (2 * b) # 0
  BY Zenon, <1>3, <1>8, <1>9
<1> QED
  BY SMTT(30), <1>1, <1>3, <1>5, <1>6, <1>10

(* A turn of add_free_range adds the next block. *)
LEMMA FillStep ==
    ASSUME NEW m, NEW b, Filling(m, b), b.page # m.total_pages, NEW r, r = add_largest(b)
    PROVE  Filling(m, r) /\ r.page > b.page
<1> DEFINE n == b.mem
           page == b.page
           total == m.total_pages
           k == LargestOrder(page, total - page)
           X == 0..(page - 1)
           B == Block(page, k)
           s == add_free_block(n, page, k)
           Y == 0..(page + block_pages[k] - 1)
<1>1. /\ page \in 0..total /\ SameRegion(m, n) /\ Exact(n, X, INVALID)
      /\ \A p \in X : \A j \in Order : FreeBlock(n, p, j) => j = LargestOrder(p, total - p)
      /\ ClassOf(n, X, "FREE") = X
      /\ \A c : c # "FREE" => ClassOf(n, X, c) = {}
  BY Zenon DEF Filling
<1>2. n.total_pages = total /\ Managed(n) = 0..(total - 1)
  BY Zenon, <1>1 DEF SameRegion, Managed
<1>3. r = [mem |-> s, page |-> page + block_pages[k]]
  BY Zenon, <1>2 DEF add_largest
<1>4. n \in Tables /\ total \in Nat /\ Managed(n) \subseteq Page /\ Page \subseteq Nat
  BY Zenon, <1>1, <1>2, PageTypes DEF Exact
<1>5. page \in 0..(total - 1) /\ page \in Nat /\ total - page \in Nat \ {0}
  BY <1>1, <1>4
<1>6. r.mem = s /\ r.page = page + block_pages[k]
  BY <1>3
<1> HIDE DEF n, page, total, s
<1>7. k \in Order /\ block_pages[k] <= total - page /\ page % block_pages[k] = 0
  BY Zenon, <1>5, LargestIs
<1>8. block_pages[k] \in Nat \ {0}
  BY Zenon, <1>7, BlockPages
<1>9. B \subseteq Managed(n) \ X /\ X \cup B = Y /\ page \in B /\ INVALID \notin B
  <2> DEFINE w == block_pages[k]
  <2>1. B = page..(page + w - 1) /\ Y = 0..(page + w - 1)
    BY Zenon DEF Block
  <2>2. w \in Nat \ {0} /\ w <= total - page
    BY Zenon, <1>7, <1>8
  <2> HIDE DEF w, k, B, Y
  <2>3. \A x \in page..(page + w - 1) : x \in 0..(total - 1) /\ x \notin 0..(page - 1) /\ x # -1
    BY <1>4, <1>5, <2>2
  <2>4. (0..(page - 1)) \cup (page..(page + w - 1)) = 0..(page + w - 1)
    BY <1>5, <2>2
  <2>5. page \in page..(page + w - 1)
    BY <1>5, <2>2
  <2> QED
    BY ZenonT(40), <1>2, <2>1, <2>3, <2>4, <2>5 DEF INVALID
<1>10. k < MaxOrder /\ Buddy(page, k) \in X => ~FreeBlock(n, Buddy(page, k), k)
  <2> SUFFICES ASSUME k < MaxOrder, Buddy(page, k) \in X, FreeBlock(n, Buddy(page, k), k)
               PROVE  FALSE
    BY Zenon
  <2>1. k = LargestOrder(Buddy(page, k), total - Buddy(page, k))
    BY Zenon, <1>1, <1>7
  <2> QED
    BY Zenon, <1>4, <1>5, <2>1, NoBuddyBelow
<1> HIDE DEF k, X, B
<1>11. /\ Exact(s, X \cup B, INVALID) /\ SameRegion(n, s)
       /\ FreeBecomes(n, X, s, X \cup B, ClassOf(n, X, "FREE") \cup B)
       /\ AddedAt(n, s, page, k)
  BY Zenon, <1>1, <1>5, <1>7, <1>9, <1>10, PutBlock DEF s, B
<1>12. Exact(s, Y, INVALID) /\ SameRegion(m, s)
  BY Zenon, <1>1, <1>9, <1>11 DEF SameRegion
<1>13. ASSUME NEW p \in Y, NEW j \in Order, FreeBlock(s, p, j)
       PROVE  j = LargestOrder(p, total - p)
  <2>1. p \in X \cup B /\ p \in Managed(n) /\ p \in Page
    BY Zenon, <1>1, <1>4, <1>9 DEF Exact
  <2>2. CASE p = page
    <3>1. s.block_order[p] = k
      BY Zenon, <1>11, <2>1, <2>2 DEF AddedAt
    <3> QED
      BY ZenonT(40), <1>13, <2>2, <3>1 DEF FreeBlock, k
  <2>3. CASE p # page
    <3>1. FreeBlock(n, p, j)
      BY Zenon, <1>11, <1>13, <2>1, <2>3 DEF AddedAt, FreeBlock
    <3>2. p \in X
      <4>1. INVALID \notin Managed(n)
        BY <1>4 DEF INVALID
      <4> QED
        BY Zenon, <1>1, <2>1, <3>1, <4>1 DEF Exact, FreeBlock
    <3> QED
      BY Zenon, <1>1, <3>1, <3>2
  <2> QED
    BY Zenon, <2>2, <2>3
<1>14. ClassOf(s, Y, "FREE") = Y /\ \A c : c # "FREE" => ClassOf(s, Y, c) = {}
  BY Zenon, <1>1, <1>9, <1>11 DEF FreeBecomes
<1>15. r.page \in 0..total /\ r.page > page
  BY <1>4, <1>5, <1>6, <1>7, <1>8
<1>16. Y = 0..(r.page - 1)
  BY <1>5, <1>6, <1>8
<1> HIDE DEF Y
<1>17. Filling(m, r)
  <2>1. /\ r.page \in 0..m.total_pages /\ SameRegion(m, r.mem)
        /\ Exact(r.mem, 0..(r.page - 1), INVALID)
        /\ ClassOf(r.mem, 0..(r.page - 1), "FREE") = 0..(r.page - 1)
        /\ \A c : c # "FREE" => ClassOf(r.mem, 0..(r.page - 1), c) = {}
    BY ZenonT(40), <1>6, <1>12, <1>14, <1>15, <1>16 DEF total
  <2>2. \A p \in 0..(r.page - 1) : \A j \in Order :
            FreeBlock(r.mem, p, j) => j = LargestOrder(p, m.total_pages - p)
    BY ZenonT(40), <1>6, <1>13, <1>16 DEF total
  <2> QED
    BY <2>1, <2>2, Zenon DEF Filling
<1> QED
  BY Zenon, <1>15, <1>17 DEF page

FillLoop == INSTANCE Loops WITH Step <- add_largest

(* add_free_range makes all managed pages free. *)
LEMMA AddFreeRange ==
    ASSUME NEW m, Exact(m, {}, INVALID), NEW n, n = add_free_range(m)
    PROVE  /\ Whole(n) /\ SameRegion(m, n)
           /\ ClassOf(n, Managed(n), "FREE") = Managed(n)
           /\ \A c : c # "FREE" => ClassOf(n, Managed(n), c) = {}
<1> DEFINE total == m.total_pages
           start == [mem |-> m, page |-> 0]
           turn == CHOOSE turn : turn = [i \in 0..total |->
                                            IF i = 0 THEN start ELSE add_largest(turn[i - 1])]
<1>1. n = turn[total].mem
  BY Zenon DEF add_free_range
<1>2. turn = CHOOSE g : FillLoop!IsLoop(g, start, total)
  BY Zenon DEF FillLoop!IsLoop
<1> HIDE DEF turn
<1>3. total \in Nat
  BY Zenon, PageTypes DEF Exact
<1> HIDE DEF total
<1>4. FillLoop!IsLoop(turn, start, total)
  BY Zenon, <1>2, <1>3, LeastNat, FillLoop!LoopExists
<1>5. turn[0] = start /\ \A i \in 0..(total - 1) : turn[i + 1] = add_largest(turn[i])
  <2> HIDE DEF start
  <2>1. FillLoop!Turns(turn, start, total)
    BY Zenon, <1>3, <1>4, FillLoop!LoopTurns
  <2> QED
    BY Zenon, <2>1 DEF FillLoop!Turns
<1> DEFINE P(i) == Filling(m, turn[i]) /\ (turn[i].page >= i \/ turn[i].page = total)
           T == {i \in 0..total : ~P(i)}
<1>6. P(0)
  <2>1. turn[0].mem = m /\ turn[0].page = 0 /\ 0..(0 - 1) = {}
    BY <1>5
  <2>2. SameRegion(m, m) /\ \A c : ClassOf(m, {}, c) = {}
    BY Zenon DEF SameRegion, ClassOf
  <2>3. 0 \in 0..total
    BY <1>3
  <2> QED
    BY SMTT(30), <2>1, <2>2, <2>3 DEF Filling, total
<1>7. ASSUME NEW i \in 0..(total - 1), P(i) PROVE P(i + 1)
  <2> DEFINE b == turn[i]
             r == turn[i + 1]
  <2>1. r = add_largest(b)
    BY Zenon, <1>5
  <2>2. Filling(m, b) /\ (b.page >= i \/ b.page = total)
    BY Zenon, <1>7
  <2> HIDE DEF b, r
  <2>3. CASE b.page = total
    <3>1. b.mem.total_pages = total
      BY Zenon, <2>2 DEF Filling, SameRegion, total
    <3>2. r = b
      BY Zenon, <2>1, <2>3, <3>1 DEF add_largest
    <3> QED
      BY ZenonT(40), <2>2, <2>3, <3>2 DEF r
  <2>4. CASE b.page # total
    <3>1. Filling(m, r) /\ r.page > b.page
      BY Zenon, <2>1, <2>2, <2>4, FillStep DEF total
    <3>2. r.page \in Int /\ b.page \in Int
      BY <1>3, <2>2, <3>1 DEF Filling, total
    <3> QED
      BY SMTT(30), <2>2, <2>4, <3>1, <3>2 DEF r
  <2> QED
    BY Zenon, <2>3, <2>4
<1> HIDE DEF P
<1>8. T = {}
  <2> SUFFICES ASSUME T # {} PROVE FALSE
    BY Zenon
  <2>1. T \subseteq Nat
    BY <1>3
  <2> HIDE DEF T
  <2>2. PICK i \in T : \A y \in T : i <= y
    BY Zenon, <2>1, LeastNat
  <2>3. i \in 0..total /\ ~P(i)
    BY Zenon DEF T
  <2>4. i # 0
    BY Zenon, <1>6, <2>3
  <2>5. i - 1 \in 0..(total - 1) /\ i - 1 \notin T /\ (i - 1) + 1 = i /\ i - 1 \in 0..total
    BY <1>3, <2>2, <2>3, <2>4
  <2>6. P(i - 1)
    BY Zenon, <2>5 DEF T
  <2> QED
    BY Zenon, <1>7, <2>3, <2>5, <2>6
<1>9. P(total)
  BY SMTT(30), <1>3, <1>8
<1>10. Filling(m, turn[total]) /\ turn[total].page = total
  BY <1>3, <1>9 DEF P, Filling, total
<1>11. /\ SameRegion(m, n) /\ Managed(n) = 0..(total - 1) /\ Exact(n, Managed(n), INVALID)
       /\ ClassOf(n, Managed(n), "FREE") = Managed(n)
       /\ \A c : c # "FREE" => ClassOf(n, Managed(n), c) = {}
  BY Zenon, <1>1, <1>10 DEF Filling, SameRegion, Managed, total
<1> QED
  BY Zenon, <1>11, WholeAny DEF Whole

(* reset_allocator_state leaves tables that are exact on no page. *)
LEMMA ResetExact ==
    ASSUME Counting, NEW base \in Address, NEW total \in 0..block_pages[MaxOrder],
           NEW m, m = reset_allocator_state(base, total)
    PROVE  Exact(m, {}, INVALID) /\ m.base = base /\ m.total_pages = total
<1>1. MaxOrder \in Nat /\ MaxOrder \in Order /\ 0 \in Order
  BY PmmAssumption DEF PmmAssumption, Order
<1>2. block_pages[MaxOrder] \in Nat
  BY Zenon, <1>1, BlockPages
<1>3. /\ m.base = base /\ m.total_pages = total /\ m.free_pages = 0
      /\ m.free_list = [k \in Order |-> <<>>] /\ m.block_state = [p \in Page |-> "UNUSED"]
  BY Zenon DEF reset_allocator_state
<1>4. m \in Tables
  <2>1. <<>> \in Seq(Page) /\ "UNUSED" \in BlockState /\ INVALID \in Page \cup {INVALID}
    BY DEF BlockState
  <2> QED
    BY <1>1, <2>1 DEF reset_allocator_state, Tables
<1>5. Managed(m) \subseteq Page
  BY Zenon, <1>4, PageTypes
<1>6. BlocksTile(m, {}) /\ NoPair(m, {})
  BY Zenon DEF BlocksTile, NoPair
<1>7. ListsExact(m, {})
  <2>1. ASSUME NEW k \in Order PROVE m.free_list[k] = <<>>
    BY Zenon, <1>3
  <2>2. IsInjective(<<>>) /\ Range(<<>>) = {}
    BY DEF IsInjective, Range
  <2> QED
    BY Zenon, <2>1, <2>2 DEF ListsExact
<1>8. FreePagesExact(m, {})
  <2>1. ClassOf(m, {}, "FREE") = {}
    BY Zenon DEF ClassOf
  <2> QED
    BY Zenon, <1>3, <2>1 DEF FreePagesExact, Counting
<1>9. \A p \in Managed(m) \ {} : m.block_state[p] = "UNUSED"
  BY Zenon, <1>3, <1>5
<1> QED
  BY Zenon, <1>3, <1>4, <1>6, <1>7, <1>8, <1>9 DEF Exact

ReserveLoop == INSTANCE Loops WITH Step <- reserve_next

(* reserve_page after pages of the range that come before it. *)
LEMMA ReserveNext ==
    ASSUME NEW m, NEW a, SameRegion(m, a), Whole(a), NEW F, F = ClassOf(m, Managed(m), "FREE"),
           NEW R, NEW page \in Nat, page \notin R, Moved(m, a, F \cap R, "FREE", "RESERVED"),
           NEW n, n = reserve_page(a, page)
    PROVE  Whole(n) /\ SameRegion(m, n) /\ Moved(m, n, F \cap (R \cup {page}), "FREE", "RESERVED")
<1> DEFINE G == ClassOf(a, Managed(a), "FREE")
<1>1. /\ Whole(n) /\ SameRegion(a, n)
      /\ IF page \in G THEN Moved(a, n, {page}, "FREE", "RESERVED") ELSE n = a
  BY Zenon, ReservePage
<1>2. SameRegion(m, n)
  BY Zenon, <1>1 DEF SameRegion
<1>3. G = F \ (F \cap R)
  BY Zenon DEF Moved
<1>4. page \in G <=> page \in F
  BY Zenon, <1>3
<1> HIDE DEF G
<1>5. CASE page \notin F
  <2>1. n = a /\ F \cap (R \cup {page}) = F \cap R
    BY Zenon, <1>1, <1>4, <1>5
  <2> QED
    BY Zenon, <1>1, <1>2, <2>1
<1>6. CASE page \in F
  <2> DEFINE Q == F \cap (R \cup {page})
  <2>1. Moved(a, n, {page}, "FREE", "RESERVED")
    BY Zenon, <1>1, <1>4, <1>6
  <2>2. Q \subseteq F /\ Q = (F \cap R) \cup {page}
    BY Zenon, <1>6
  <2> HIDE DEF Q
  <2>3. ClassOf(n, Managed(n), "FREE") = F \ Q
    BY ZenonT(40), <1>3, <2>1, <2>2 DEF Moved, G
  <2>4. ClassOf(n, Managed(n), "RESERVED") = ClassOf(m, Managed(m), "RESERVED") \cup Q
    BY Zenon, <2>1, <2>2 DEF Moved
  <2>5. \A c : c \notin {"FREE", "RESERVED"} => ClassOf(n, Managed(n), c) = ClassOf(m, Managed(m), c)
    BY Zenon, <2>1 DEF Moved
  <2>6. Moved(m, n, Q, "FREE", "RESERVED")
    BY Zenon, <2>2, <2>3, <2>4, <2>5 DEF Moved
  <2> QED
    BY Zenon, <1>1, <1>2, <2>6 DEF Q
<1> QED
  BY Zenon, <1>5, <1>6

(* The loop of pmm_reserve_range reserves the free pages of an interval. *)
LEMMA ReservePages ==
    ASSUME NEW m, Whole(m), NEW first \in Nat, NEW last \in Nat, first <= last,
           NEW n, n = reserve_pages(m, first, last), NEW F, F = ClassOf(m, Managed(m), "FREE")
    PROVE  /\ Whole(n) /\ SameRegion(m, n)
           /\ Moved(m, n, F \cap (first..(last - 1)), "FREE", "RESERVED")
<1> DEFINE len == last - first
           start == [mem |-> m, page |-> first]
           turn == CHOOSE turn : turn = [i \in 0..len |->
                                            IF i = 0 THEN start ELSE reserve_next(turn[i - 1])]
<1>1. n = turn[len].mem
  BY Zenon DEF reserve_pages
<1>2. turn = CHOOSE g : ReserveLoop!IsLoop(g, start, len)
  BY Zenon DEF ReserveLoop!IsLoop
<1>3. len \in Nat /\ first + len = last
  OBVIOUS
<1> HIDE DEF turn, len
<1>4. ReserveLoop!IsLoop(turn, start, len)
  BY Zenon, <1>2, <1>3, LeastNat, ReserveLoop!LoopExists
<1>5. turn[0] = start /\ \A i \in 0..(len - 1) : turn[i + 1] = reserve_next(turn[i])
  <2> HIDE DEF start
  <2>1. ReserveLoop!Turns(turn, start, len)
    BY Zenon, <1>3, <1>4, ReserveLoop!LoopTurns
  <2> QED
    BY Zenon, <2>1 DEF ReserveLoop!Turns
<1> DEFINE P(i) == /\ turn[i].page = first + i /\ Whole(turn[i].mem) /\ SameRegion(m, turn[i].mem)
                   /\ Moved(m, turn[i].mem, F \cap (first..(first + i - 1)), "FREE", "RESERVED")
           T == {i \in 0..len : ~P(i)}
<1>6. P(0)
  <2>1. turn[0].mem = m /\ turn[0].page = first /\ first + 0 = first /\ first..(first + 0 - 1) = {}
    BY <1>5
  <2>2. Moved(m, m, F \cap {}, "FREE", "RESERVED") /\ SameRegion(m, m)
    BY Zenon DEF Moved, SameRegion
  <2> QED
    BY ZenonT(40), <2>1, <2>2
<1>7. ASSUME NEW i \in 0..(len - 1), P(i) PROVE P(i + 1)
  <2> DEFINE b == turn[i]
             page == first + i
             R == first..(first + i - 1)
             a == b.mem
             r == reserve_page(a, page)
  <2>1. turn[i + 1] = [mem |-> r, page |-> page + 1]
    BY Zenon, <1>5, <1>7 DEF reserve_next
  <2>2. Whole(a) /\ SameRegion(m, a) /\ Moved(m, a, F \cap R, "FREE", "RESERVED")
    BY Zenon, <1>7
  <2>3. /\ page \in Nat /\ page \notin R /\ page + 1 = first + (i + 1)
        /\ R \cup {page} = first..(first + (i + 1) - 1)
    BY <1>3
  <2> HIDE DEF R, page, a
  <2>4. Whole(r) /\ SameRegion(m, r) /\ Moved(m, r, F \cap (R \cup {page}), "FREE", "RESERVED")
    BY Zenon, <2>2, <2>3, ReserveNext
  <2> HIDE DEF r
  <2>5. turn[i + 1].mem = r /\ turn[i + 1].page = first + (i + 1)
    BY <2>1, <2>3
  <2> QED
    BY Zenon, <2>3, <2>4, <2>5
<1> HIDE DEF P
<1>8. T = {}
  <2> SUFFICES ASSUME T # {} PROVE FALSE
    BY Zenon
  <2>1. T \subseteq Nat
    BY <1>3
  <2> HIDE DEF T
  <2>2. PICK i \in T : \A y \in T : i <= y
    BY Zenon, <2>1, LeastNat
  <2>3. i \in 0..len /\ ~P(i)
    BY Zenon DEF T
  <2>4. i # 0
    BY Zenon, <1>6, <2>3
  <2>5. i - 1 \in 0..(len - 1) /\ i - 1 \notin T /\ (i - 1) + 1 = i /\ i - 1 \in 0..len
    BY <1>3, <2>2, <2>3, <2>4
  <2>6. P(i - 1)
    BY Zenon, <2>5 DEF T
  <2> QED
    BY Zenon, <1>7, <2>3, <2>5, <2>6
<1>9. P(len)
  BY <1>3, <1>8
<1>10. first..(first + len - 1) = first..(last - 1)
  BY <1>3
<1> QED
  BY Zenon, <1>1, <1>9, <1>10 DEF P

(* What pmm_init guarantees of the region. *)
RegionFits(m) == m.base % PageSize = 0 /\ PmmEnd(m) <= AddressEnd - PageSize

(* The pages that a range touches. *)
Touches(m, base, size, p) ==
    size > 0 /\ m.base + p * PageSize < base + size /\ base < m.base + (p + 1) * PageSize

(* reserve_range, with all addresses in units of pages: B and N are the    *)
(* base and the size of the region, D and E the ends of the range.         *)
InUnits(m, n, base, size, B, D, E, N) ==
    LET S == IF D < B THEN B ELSE D
        O == IF E > B + N THEN B + N ELSE E
    IN  /\ N = m.total_pages
        /\ n = IF size = 0 \/ N = 0 \/ E <= B \/ S >= B + N THEN m
               ELSE reserve_pages(m, S - B, O - B)
        /\ D <= E
        /\ \A p \in Managed(m) : Touches(m, base, size, p) => D <= B + p /\ B + p < E

(* What reserve_range computes, in units of pages. *)
LEMMA RangeInUnits ==
    ASSUME NEW m, Whole(m), RegionFits(m), NEW base \in Address, NEW size \in Address,
           NEW n, n = reserve_range(m, base, size)
    PROVE  \E B, D, E, N \in Nat : InUnits(m, n, base, size, B, D, E, N)
<1>1. /\ PageSize \in Nat \ {0} /\ PageEnd \in Nat \ {0} /\ AddressEnd = PageSize * PageEnd
      /\ \A x, y \in Int : /\ PageSize * x \in Int /\ (x <= y <=> PageSize * x <= PageSize * y)
                           /\ PageSize * (x - y) = PageSize * x - PageSize * y
                           /\ PageSize * (x + y) = PageSize * x + PageSize * y
  BY Zenon, Units
<1>2. AddressEnd \in Nat \ {0} /\ base \in Nat /\ size \in Nat /\ base < AddressEnd
  BY <1>1 DEF Address
<1> DEFINE N == m.total_pages
<1>3. N \in Nat /\ m.base \in Nat /\ m.base % PageSize = 0 /\ PmmEnd(m) <= AddressEnd - PageSize
  <2>1. m \in Tables
    BY Zenon DEF Whole, Exact
  <2>2. m.base \in Nat
    BY <1>2, <2>1 DEF Tables, Address
  <2> QED
    BY Zenon, <2>1, <2>2, PageTypes DEF RegionFits
<1> DEFINE B == m.base \div PageSize
<1>4. B \in Nat /\ m.base = PageSize * B
  BY Zenon, <1>1, <1>3, Multiples
<1>5. PICK D \in Nat : AlignDown(base) = PageSize * D /\ PageSize * D <= base /\ base < PageSize * D + PageSize
  BY Zenon, <1>2, AlignDownIs
<1>6. PICK E \in 0..(PageEnd - 1) : /\ aligned_end(base, size) = PageSize * E
                                    /\ base + size <= PageSize * E \/ E = PageEnd - 1
  BY Zenon, AlignedEndIs
<1> HIDE DEF B, N
<1>7. N * PageSize = PageSize * N /\ PmmEnd(m) = PageSize * (B + N)
  <2>1. N * PageSize = PageSize * N
    BY <1>1, <1>3
  <2>2. PmmEnd(m) = m.base + N * PageSize
    BY Zenon DEF PmmEnd, N
  <2>3. PageSize * (B + N) = PageSize * B + PageSize * N
    BY <1>1, <1>3, <1>4
  <2> QED
    BY Zenon, <1>4, <2>1, <2>2, <2>3
<1>8. D <= E
  <2>1. CASE base + size <= PageSize * E
    <3>1. PageSize * D <= PageSize * E
      BY SMTT(30), Z3T(30), SMTT(40), <1>1, <1>2, <1>5, <2>1
    <3> QED
      BY <1>1, <3>1
  <2>2. CASE E = PageEnd - 1
    <3>1. ~(PageSize * PageEnd <= PageSize * D)
      BY SMTT(30), Z3T(30), SMTT(40), <1>1, <1>2, <1>5
    <3> QED
      BY SMTT(30), Z3T(30), SMTT(40), <1>1, <2>2, <3>1
  <2> QED
    BY Zenon, <1>6, <2>1, <2>2
<1>9. B + N <= PageEnd - 1
  <2>1. PageSize * (B + N) <= PageSize * (PageEnd - 1)
    <3>1. PageSize * (PageEnd - 1) = PageSize * PageEnd - PageSize * 1 /\ PageSize * 1 = PageSize
      BY <1>1
    <3> QED
      BY SMTT(30), Z3T(30), SMTT(40), <1>1, <1>3, <1>7, <3>1
  <2> QED
    BY SMTT(30), Z3T(30), SMTT(40), <1>1, <1>3, <1>4, <2>1
<1>10. ASSUME NEW p \in Managed(m), Touches(m, base, size, p) PROVE D <= B + p /\ B + p < E
  <2>1. p \in Nat /\ p < N
    BY <1>3 DEF Managed, N
  <2>2. m.base + p * PageSize = PageSize * (B + p)
    <3>1. p * PageSize = PageSize * p /\ PageSize * (B + p) = PageSize * B + PageSize * p
      BY <1>1, <1>4, <2>1
    <3> QED
      BY ZenonT(40), <1>4, <3>1
  <2>3. m.base + (p + 1) * PageSize = PageSize * (B + p + 1)
    <3>1. /\ (p + 1) * PageSize = PageSize * (p + 1)
          /\ PageSize * (B + (p + 1)) = PageSize * B + PageSize * (p + 1)
          /\ B + (p + 1) = B + p + 1
      BY SMTT(30), <1>1, <1>4, <2>1
    <3> QED
      BY Zenon, <1>4, <3>1
  <2>4. PageSize * (B + p) < base + size /\ base < PageSize * (B + p + 1)
    BY ZenonT(40), <1>10, <2>2, <2>3 DEF Touches
  <2>5. ~(PageSize * (B + p + 1) <= PageSize * D)
    BY SMTT(30), Z3T(30), SMTT(40), <1>1, <1>2, <1>4, <1>5, <2>1, <2>4
  <2>6. D <= B + p
    BY SMTT(30), Z3T(30), SMTT(40), <1>1, <1>4, <2>1, <2>5
  <2>7. B + p < E
    <3>1. CASE base + size <= PageSize * E
      <4>1. ~(PageSize * E <= PageSize * (B + p))
        BY SMTT(30), Z3T(30), SMTT(40), <1>1, <1>2, <1>4, <2>1, <2>4, <3>1
      <4> QED
        BY SMTT(30), Z3T(30), SMTT(40), <1>1, <1>4, <2>1, <4>1
    <3>2. CASE E = PageEnd - 1
      BY SMTT(30), Z3T(30), SMTT(40), <1>1, <1>3, <1>4, <1>9, <2>1, <3>2
    <3> QED
      BY ZenonT(40), <1>6, <3>1, <3>2
  <2> QED
    BY Zenon, <2>6, <2>7
<1> DEFINE S == IF D < B THEN B ELSE D
           O == IF E > B + N THEN B + N ELSE E
<1>11. n = IF size = 0 \/ N = 0 \/ E <= B \/ S >= B + N THEN m
           ELSE reserve_pages(m, S - B, O - B)
  <2> DEFINE start == IF AlignDown(base) < m.base THEN m.base ELSE AlignDown(base)
             end == aligned_end(base, size)
             stop == IF end > PmmEnd(m) THEN PmmEnd(m) ELSE end
  <2>1. n = IF size = 0 \/ N = 0 \/ end <= m.base \/ start >= PmmEnd(m) THEN m
            ELSE reserve_pages(m, (start - m.base) \div PageSize, (stop - m.base) \div PageSize)
    BY Zenon DEF reserve_range, N
  <2>2. start = PageSize * S
    BY SMTT(30), Z3T(30), SMTT(40), <1>1, <1>4, <1>5
  <2>3. stop = PageSize * O
    BY SMTT(30), Z3T(30), SMTT(40), <1>1, <1>3, <1>4, <1>6, <1>7
  <2>4. end <= m.base <=> E <= B
    BY SMTT(30), Z3T(30), SMTT(40), <1>1, <1>4, <1>6
  <2>5. S \in Nat /\ O \in Nat /\ S >= B
    BY SMTT(30), Z3T(30), SMTT(40), <1>3, <1>4, <1>6
  <2>6. start >= PmmEnd(m) <=> S >= B + N
    <3> HIDE DEF start, S
    <3> QED
      BY SMTT(30), Z3T(30), SMTT(40), <1>1, <1>3, <1>4, <1>7, <2>2, <2>5
  <2>7. (start - m.base) \div PageSize = S - B
    <3> HIDE DEF start, S
    <3> QED
      BY SMTT(30), Z3T(30), SMTT(40), <1>4, <2>2, <2>5, UnitsBetween
  <2>8. E <= B \/ (stop - m.base) \div PageSize = O - B
    <3>1. E <= B \/ B <= O
      BY <1>3, <1>4, <1>6
    <3> HIDE DEF stop, O
    <3> QED
      BY SMTT(30), Z3T(30), SMTT(40), <1>4, <2>3, <2>5, <3>1, UnitsBetween
  <2> HIDE DEF start, end, stop, S, O
  <2> QED
    BY ZenonT(40), <2>1, <2>4, <2>6, <2>7, <2>8
<1>12. E \in Nat
  OBVIOUS
<1>13. N = m.total_pages
  BY Zenon DEF N
<1>14. InUnits(m, n, base, size, B, D, E, N)
  BY Zenon, <1>8, <1>10, <1>11, <1>13 DEF InUnits
<1> QED
  BY Zenon, <1>3, <1>4, <1>12, <1>14

(* pmm_reserve_range only reserves free pages, and leaves none of the      *)
(* pages free that its range touches.                                      *)
LEMMA RangeReserved ==
    ASSUME NEW m, Whole(m), RegionFits(m), NEW base \in Address, NEW size \in Address,
           NEW n, n = reserve_range(m, base, size)
    PROVE  /\ Whole(n) /\ SameRegion(m, n)
           /\ \E S : Moved(m, n, S, "FREE", "RESERVED")
           /\ \A p \in Managed(m) :
                  Touches(m, base, size, p) => p \notin ClassOf(n, Managed(n), "FREE")
<1> DEFINE F == ClassOf(m, Managed(m), "FREE")
<1>1. PICK B, D, E, N \in Nat : InUnits(m, n, base, size, B, D, E, N)
  BY ZenonT(40), RangeInUnits
<1> DEFINE S == IF D < B THEN B ELSE D
           O == IF E > B + N THEN B + N ELSE E
           first == S - B
           last == O - B
           nothing == size = 0 \/ N = 0 \/ E <= B \/ S >= B + N
<1>2. ASSUME NEW p \in Managed(m), Touches(m, base, size, p)
      PROVE  ~nothing /\ p \in first..(last - 1)
  <2>1. p \in Nat /\ p < N
    BY <1>1 DEF Managed, InUnits
  <2>2. D <= B + p /\ B + p < E
    BY ZenonT(40), <1>1, <1>2 DEF InUnits
  <2>3. size # 0
    BY <1>2 DEF Touches, Address
  <2> QED
    BY <2>1, <2>2, <2>3
<1>3. CASE nothing
  <2>1. n = m
    BY ZenonT(40), <1>1, <1>3 DEF InUnits
  <2>2. Moved(m, n, {}, "FREE", "RESERVED")
    BY ZenonT(40), <2>1 DEF Moved
  <2>3. Whole(n) /\ SameRegion(m, n)
    BY ZenonT(40), <2>1 DEF SameRegion
  <2> QED
    BY ZenonT(40), <1>2, <1>3, <2>2, <2>3
<1>4. CASE ~nothing
  <2>1. n = reserve_pages(m, first, last)
    BY ZenonT(40), <1>1, <1>4 DEF InUnits
  <2>2. first \in Nat /\ last \in Nat /\ first <= last
    BY SMTT(30), <1>1, <1>4 DEF InUnits
  <2> HIDE DEF first, last
  <2>3. /\ Whole(n) /\ SameRegion(m, n)
        /\ Moved(m, n, F \cap (first..(last - 1)), "FREE", "RESERVED")
    BY ZenonT(40), <2>1, <2>2, ReservePages
  <2>4. ASSUME NEW p \in Managed(m), Touches(m, base, size, p)
        PROVE  p \notin ClassOf(n, Managed(n), "FREE")
    <3>1. p \in first..(last - 1)
      BY ZenonT(40), <1>2, <2>4
    <3>2. ClassOf(n, Managed(n), "FREE") = F \ (F \cap (first..(last - 1)))
      BY ZenonT(40), <2>3 DEF Moved
    <3> HIDE DEF F
    <3> QED
      BY ZenonT(40), <3>1, <3>2
  <2> QED
    BY ZenonT(40), <2>3, <2>4
<1> QED
  BY ZenonT(40), <1>3, <1>4

(* The region that pmm_init manages: it starts at a page boundary and ends *)
(* before the last page of the address space.                              *)
LEMMA RegionIs ==
    ASSUME NEW base \in Address, NEW size \in Address,
           NEW start, start = AlignUp(base), NEW total, total = TotalPages(base, size)
    PROVE  /\ start \in Address /\ total \in 0..block_pages[MaxOrder]
           /\ start % PageSize = 0 /\ start + total * PageSize <= AddressEnd - PageSize
<1>1. /\ PageSize \in Nat \ {0} /\ PageEnd \in Nat \ {0} /\ AddressEnd = PageSize * PageEnd
      /\ \A x, y \in Int : /\ PageSize * x \in Int /\ (x <= y <=> PageSize * x <= PageSize * y)
                           /\ PageSize * (x - y) = PageSize * x - PageSize * y
                           /\ PageSize * (x + y) = PageSize * x + PageSize * y
  BY ZenonT(40), Units
<1>2. AddressEnd \in Nat \ {0} /\ base \in Nat /\ size \in Nat
  BY <1>1 DEF Address
<1>3. block_pages[MaxOrder] \in Nat
  BY BlockPages, PmmAssumption DEF PmmAssumption, Order
<1>4. PICK q \in 0..(PageEnd - 1) : start = PageSize * q
  BY Zenon, AlignUpIs
<1> DEFINE end == (base + size) % AddressEnd
           pages == (end - start) \div PageSize
<1>5. end \in Nat /\ end < AddressEnd
  BY <1>2
<1>6. total = IF end < base \/ start >= end THEN 0
              ELSE IF pages > block_pages[MaxOrder] THEN block_pages[MaxOrder] ELSE pages
  BY Zenon DEF TotalPages
<1>7. start \in Nat /\ start % PageSize = 0
  BY SMTT(30), <1>1, <1>4, Multiples
<1> HIDE DEF end
<1>8. total \in Nat /\ total <= block_pages[MaxOrder] /\ (total = 0 \/ start + PageSize * total <= end)
  <2>1. CASE end < base \/ start >= end
    BY SMTT(30), <1>3, <1>6, <2>1
  <2>2. CASE ~(end < base \/ start >= end)
    <3>1. end - start \in Nat
      BY <1>5, <1>7, <2>2
    <3>2. pages \in Nat /\ PageSize * pages <= end - start
      <4> DEFINE d == end - start
                 s == PageSize
      <4>1. d \in Nat /\ s \in Nat \ {0}
        BY ZenonT(40), <1>1, <3>1
      <4> HIDE DEF d, s
      <4>2. d \div s \in Nat /\ s * (d \div s) <= d
        BY <4>1
      <4> QED
        BY Zenon, <4>2 DEF d, s
    <3> HIDE DEF pages
    <3>3. total \in Nat /\ total <= pages /\ total <= block_pages[MaxOrder]
      BY SMTT(30), Z3T(30), SMTT(40), <1>3, <1>6, <2>2, <3>2
    <3>4. PageSize * total \in Int /\ PageSize * total <= PageSize * pages
      BY <1>1, <3>2, <3>3
    <3>5. PageSize * pages \in Int
      BY <1>1, <3>2
    <3> QED
      BY SMTT(30), Z3T(30), SMTT(40), <1>5, <1>7, <3>2, <3>3, <3>4, <3>5
  <2> QED
    BY Zenon, <2>1, <2>2
<1>9. total * PageSize = PageSize * total /\ start + PageSize * total = PageSize * (q + total)
  <2>1. total * PageSize = PageSize * total
    BY <1>1, <1>8
  <2>2. PageSize * (q + total) = PageSize * q + PageSize * total
    BY <1>1, <1>8
  <2> QED
    BY Zenon, <1>4, <2>1, <2>2
<1>10. q + total <= PageEnd - 1
  <2>1. CASE total = 0
    BY <1>1, <2>1
  <2>2. CASE start + PageSize * total <= end
    <3>1. ~(PageSize * PageEnd <= PageSize * (q + total))
      BY SMTT(30), Z3T(30), SMTT(40), <1>1, <1>5, <1>8, <1>9, <2>2
    <3> QED
      BY SMTT(30), Z3T(30), SMTT(40), <1>1, <1>8, <3>1
  <2> QED
    BY ZenonT(40), <1>8, <2>1, <2>2
<1>11. PageSize * (q + total) <= AddressEnd - PageSize
  <2>1. PageSize * (PageEnd - 1) = PageSize * PageEnd - PageSize * 1 /\ PageSize * 1 = PageSize
    BY <1>1
  <2>2. PageSize * (q + total) <= PageSize * (PageEnd - 1)
    BY <1>1, <1>8, <1>10
  <2> QED
    BY <1>1, <2>1, <2>2
<1>12. start < AddressEnd
  <2>1. PageSize * q \in Int /\ ~(PageSize * PageEnd <= PageSize * q)
    BY <1>1
  <2> QED
    BY <1>1, <1>4, <2>1
<1> QED
  BY SMTT(30), Z3T(30), SMTT(40), <1>2, <1>3, <1>7, <1>8, <1>9, <1>11, <1>12 DEF Address

-----------------------------------------------------------------------------
(* The theorems. *)

INSTANCE FiniteSetTheorems

(* The numbers of pages of blocks. *)
LEMMA PagesCount == Counting
<1>1. MaxOrder \in Nat /\ MaxOrder \in Order /\ \A k \in Order : block_pages[k] \in Nat \ {0}
  BY BlockPages, PmmAssumption DEF PmmAssumption, Order
<1>2. Cardinality({}) = 0
  BY Zenon, FS_EmptySet
<1>3. IsFiniteSet(Page) /\ Cardinality(Page) = block_pages[MaxOrder]
  <2> DEFINE b == block_pages[MaxOrder]
  <2>1. b \in Nat \ {0}
    BY ZenonT(40), <1>1
  <2> HIDE DEF b
  <2>2. IsFiniteSet(0..(b - 1)) /\ Cardinality(0..(b - 1)) = b
    BY <2>1, FS_Interval
  <2> QED
    BY ZenonT(40), <2>2 DEF b, Page
<1>4. ASSUME NEW p \in Nat, NEW k \in Order
      PROVE  IsFiniteSet(Block(p, k)) /\ Cardinality(Block(p, k)) = block_pages[k]
  <2> DEFINE b == block_pages[k]
             e == p + b - 1
  <2>1. b \in Nat \ {0} /\ e \in Int
    BY <1>1
  <2>2. ~(p > e) /\ e - p + 1 = b
    BY <2>1
  <2> HIDE DEF b, e
  <2>3. IsFiniteSet(p..e) /\ Cardinality(p..e) = b
    BY SMTT(30), Z3T(30), SMTT(40), <2>1, <2>2, FS_Interval
  <2> QED
    BY ZenonT(40), <2>3 DEF b, e, Block
<1>5. ASSUME NEW F \in SUBSET Page
      PROVE  IsFiniteSet(F) /\ Cardinality(F) \in 0..block_pages[MaxOrder]
  <2>1. IsFiniteSet(F) /\ Cardinality(F) <= Cardinality(Page)
    BY ZenonT(40), <1>3, FS_Subset
  <2>2. Cardinality(F) \in Nat
    BY ZenonT(40), <2>1, FS_CardinalityType
  <2> QED
    BY SMTT(30), Z3T(30), SMTT(40), <1>1, <1>3, <2>1, <2>2
<1>6. ASSUME NEW F \in SUBSET Page, NEW p \in Nat, NEW k \in Order
      PROVE  /\ Block(p, k) \subseteq F =>
                    Cardinality(F \ Block(p, k)) = Cardinality(F) - block_pages[k]
             /\ Block(p, k) \cap F = {} =>
                    Cardinality(F \cup Block(p, k)) = Cardinality(F) + block_pages[k]
  <2> DEFINE b == Block(p, k)
  <2>1. IsFiniteSet(F) /\ IsFiniteSet(b) /\ Cardinality(b) = block_pages[k]
    BY ZenonT(40), <1>4, <1>5
  <2> HIDE DEF b
  <2>2. Cardinality(F) \in Nat /\ block_pages[k] \in Nat
    BY ZenonT(40), <1>1, <2>1, FS_CardinalityType
  <2>3. ASSUME b \subseteq F PROVE Cardinality(F \ b) = Cardinality(F) - block_pages[k]
    <3>1. F \cap b = b
      BY <2>3
    <3>2. Cardinality(F \ b) = Cardinality(F) - Cardinality(F \cap b)
      BY ZenonT(40), <2>1, FS_Difference
    <3> QED
      BY ZenonT(40), <2>1, <3>1, <3>2
  <2>4. ASSUME b \cap F = {} PROVE Cardinality(F \cup b) = Cardinality(F) + block_pages[k]
    <3>1. F \cap b = {}
      BY Zenon, <2>4
    <3>2. Cardinality(F \cup b) = Cardinality(F) + Cardinality(b) - Cardinality(F \cap b)
      BY ZenonT(40), <2>1, FS_Union
    <3>3. Cardinality(F \cap b) = 0
      BY ZenonT(40), <1>2, <3>1
    <3> QED
      BY SMTT(30), Z3T(30), SMTT(40), <2>1, <2>2, <3>2, <3>3
  <2> QED
    BY ZenonT(40), <2>3, <2>4 DEF b
<1> QED
  BY ZenonT(40), <1>2, <1>5, <1>6 DEF Counting

-----------------------------------------------------------------------------
(* The inductive invariant: the tables are exact, and the region is the    *)
(* one that pmm_init chose.                                                *)
PmmInv == Whole(pmm) /\ RegionFits(pmm)

(* A call that leaves the region alone leaves it fitting. *)
LEMMA RegionStays ==
    ASSUME NEW m, NEW n, RegionFits(m), SameRegion(m, n)
    PROVE  RegionFits(n)
  BY Zenon DEF RegionFits, SameRegion, PmmEnd

(* pmm_init makes every page of the region free except the first, which it *)
(* reserves.                                                               *)
LEMMA InitIsWhole ==
    ASSUME pmm_init
    PROVE  PmmInv /\ ClassOf(pmm, Managed(pmm), "ALLOCATED") = {}
<1>1. PICK base \in RegionBase, size \in RegionSize :
          LET m == reset_allocator_state(AlignUp(base), TotalPages(base, size))
          IN  pmm = IF m.total_pages = 0 THEN m ELSE reserve_page(add_free_range(m), 0)
  BY Zenon DEF pmm_init
<1>2. base \in Address /\ size \in Address
  BY ZenonT(40), PmmAssumption DEF PmmAssumption
<1> DEFINE start == AlignUp(base)
           total == TotalPages(base, size)
           m == reset_allocator_state(start, total)
<1>3. /\ start \in Address /\ total \in 0..block_pages[MaxOrder]
      /\ start % PageSize = 0 /\ start + total * PageSize <= AddressEnd - PageSize
  BY ZenonT(40), <1>2, RegionIs
<1>4. pmm = IF m.total_pages = 0 THEN m ELSE reserve_page(add_free_range(m), 0)
  BY ZenonT(40), <1>1
<1> HIDE DEF start, total
<1>5. Exact(m, {}, INVALID) /\ m.base = start /\ m.total_pages = total
  BY <1>3, PagesCount, ResetExact
<1> HIDE DEF m
<1>6. RegionFits(m)
  BY Zenon, <1>3, <1>5 DEF RegionFits, PmmEnd
<1>7. CASE m.total_pages = 0
  <2>1. pmm = m /\ Managed(m) = {}
    BY <1>4, <1>7 DEF Managed
  <2>2. Whole(m)
    BY ZenonT(40), <1>5, <2>1, WholeAny DEF Whole
  <2> QED
    BY ZenonT(40), <1>6, <2>1, <2>2 DEF PmmInv, ClassOf
<1>8. CASE m.total_pages # 0
  <2> DEFINE n == add_free_range(m)
  <2>1. pmm = reserve_page(n, 0)
    BY ZenonT(40), <1>4, <1>8
  <2>2. /\ Whole(n) /\ SameRegion(m, n)
        /\ \A c : c # "FREE" => ClassOf(n, Managed(n), c) = {}
    BY ZenonT(40), <1>5, AddFreeRange
  <2> HIDE DEF n
  <2>3. /\ Whole(pmm) /\ SameRegion(n, pmm)
        /\ Moved(n, pmm, {0}, "FREE", "RESERVED") \/ pmm = n
    BY ZenonT(40), <2>1, <2>2, ReservePage
  <2>4. ClassOf(pmm, Managed(pmm), "ALLOCATED") = ClassOf(n, Managed(n), "ALLOCATED")
    BY ZenonT(40), <2>3 DEF Moved
  <2>5. RegionFits(pmm)
    BY ZenonT(40), <1>6, <2>2, <2>3, RegionStays
  <2> QED
    BY ZenonT(40), <2>2, <2>3, <2>4, <2>5 DEF PmmInv
<1> QED
  BY ZenonT(40), <1>7, <1>8

-----------------------------------------------------------------------------
(* Blocks beside each other: NoPair speaks of the lower block of a pair,   *)
(* Coalesced of either.                                                    *)
LEMMA PairsCoalesced ==
    ASSUME NEW m, Whole(m)
    PROVE  Coalesced(m, Managed(m))
<1> DEFINE X == Managed(m)
<1>1. m \in Tables /\ BlocksTile(m, X) /\ NoPair(m, X)
  BY Zenon DEF Whole, Exact
<1>2. SUFFICES ASSUME NEW p \in X, NEW k, k = m.block_order[p], m.block_state[p] = "FREE",
                      k < MaxOrder, NEW buddy \in X,
                      buddy = IF p % (2 * block_pages[k]) = 0 THEN p + block_pages[k]
                              ELSE p - block_pages[k]
               PROVE  ~FreeBlock(m, buddy, k)
  BY ZenonT(40) DEF Coalesced
<1>3. k \in Order /\ p % block_pages[k] = 0 /\ p \in Nat
  <2>1. m.block_state[p] # "UNUSED"
    BY ZenonT(40), <1>2
  <2> QED
    BY SMTT(30), Z3T(30), SMTT(40), <1>1, <1>2, <2>1, Heads, PageTypes
<1>4. block_pages[k] \in Nat \ {0}
  BY <1>3, BlockPages
<1>5. FreeBlock(m, p, k)
  BY ZenonT(40), <1>2 DEF FreeBlock
<1>6. CASE p % (2 * block_pages[k]) = 0
  <2>1. buddy = p + block_pages[k]
    BY ZenonT(40), <1>2, <1>6
  <2>2. ~(FreeBlock(m, p, k) /\ FreeBlock(m, p + block_pages[k], k))
    BY ZenonT(40), <1>1, <1>2, <1>3, <1>6, <2>1 DEF NoPair
  <2> QED
    BY ZenonT(40), <1>5, <2>1, <2>2
<1>7. CASE p % (2 * block_pages[k]) # 0
  <2>1. p >= block_pages[k] /\ (p - block_pages[k]) % (2 * block_pages[k]) = 0
    BY ZenonT(40), <1>3, <1>4, <1>7, Halves
  <2>2. buddy = p - block_pages[k] /\ buddy + block_pages[k] = p
    BY SMTT(30), Z3T(30), SMTT(40), <1>2, <1>3, <1>4, <1>7
  <2>3. buddy % (2 * block_pages[k]) = 0
    BY ZenonT(40), <2>1, <2>2
  <2>4. ~(FreeBlock(m, buddy, k) /\ FreeBlock(m, buddy + block_pages[k], k))
    BY ZenonT(40), <1>1, <1>2, <1>3, <2>2, <2>3 DEF NoPair
  <2> QED
    BY ZenonT(40), <1>5, <2>2, <2>4
<1> QED
  BY ZenonT(40), <1>6, <1>7

(* The inductive invariant implies what the run checks. *)
LEMMA InvExact == PmmInv => AllocatorExact
<1> SUFFICES ASSUME PmmInv PROVE AllocatorExact
  BY Zenon
<1> DEFINE X == Managed(pmm)
<1>1. Whole(pmm)
  BY Zenon DEF PmmInv
<1>2. Counting /\ pmm \in Tables /\ BlocksTile(pmm, X) /\ ListsExact(pmm, X) /\ FreePagesExact(pmm, X)
  BY Zenon, <1>1 DEF Whole, Exact
<1>3. ClassOf(pmm, X, "FREE") \in SUBSET Page
  BY ZenonT(40), <1>2, PageTypes DEF ClassOf
<1>4. pmm.free_pages \in 0..block_pages[MaxOrder]
  BY ZenonT(40), <1>2, <1>3 DEF FreePagesExact, Counting
<1>5. Coalesced(pmm, X)
  BY ZenonT(40), <1>1, PairsCoalesced
<1> QED
  BY ZenonT(40), <1>2, <1>4, <1>5 DEF AllocatorExact

(* The page that pmm_free_page computes from an address is managed. *)
LEMMA FreedPage ==
    ASSUME PmmInv, NEW address \in Address, pmm_free_page(address)
    PROVE  \E page \in Managed(pmm) :
               /\ pmm.block_state[page] = "ALLOCATED"
               /\ pmm' = free_block(clear_block_head(pmm, page), page)
<1> DEFINE page == (address - pmm.base) \div PageSize
<1>1. /\ address >= pmm.base /\ page < pmm.total_pages /\ pmm.block_state[page] = "ALLOCATED"
      /\ pmm' = free_block(clear_block_head(pmm, page), page)
  BY Zenon DEF pmm_free_page
<1>2. pmm \in Tables
  BY Zenon DEF PmmInv, Whole, Exact
<1>3. AddressEnd \in Nat /\ PageSize \in Nat \ {0}
  BY SMTT(30), Units
<1>4. pmm.base \in Nat /\ pmm.total_pages \in Nat /\ address \in Nat
  BY SMTT(30), Z3T(30), SMTT(40), <1>2, <1>3, PageTypes DEF Tables, Address
<1>5. page \in Nat
  <2> DEFINE d == address - pmm.base
             s == PageSize
  <2>1. d \in Nat /\ s \in Nat \ {0}
    BY SMTT(30), Z3T(30), SMTT(40), <1>1, <1>3, <1>4
  <2> HIDE DEF d, s
  <2>2. d \div s \in Nat
    BY <2>1
  <2> QED
    BY ZenonT(40), <2>2 DEF d, s
<1> HIDE DEF page
<1>6. page \in Managed(pmm)
  BY SMTT(30), <1>1, <1>4, <1>5 DEF Managed
<1> QED
  BY ZenonT(40), <1>1, <1>6

(* A step of the allocator moves pages between two of the classes, the way *)
(* its operation says, and keeps the tables exact.                         *)
LEMMA PmmMoves ==
    ASSUME PmmInv, PmmNext
    PROVE  /\ Whole(pmm') /\ SameRegion(pmm, pmm')
           /\ \/ \E p : Moved(pmm, pmm', {p}, "FREE", "ALLOCATED")
              \/ \E p : Moved(pmm, pmm', {p}, "ALLOCATED", "FREE")
              \/ \E S : Moved(pmm, pmm', S, "FREE", "RESERVED")
<1>1. Whole(pmm) /\ RegionFits(pmm)
  BY Zenon DEF PmmInv
<1>2. CASE pmm_alloc_page
  <2>1. PICK order \in Order : pmm.free_list[order] # <<>> /\ pmm' = alloc_block(pmm, order)
    BY Zenon, <1>2 DEF pmm_alloc_page
  <2> QED
    BY ZenonT(40), <1>1, <2>1, AllocBlock
<1>3. ASSUME NEW address \in Address, pmm_free_page(address)
      PROVE  /\ Whole(pmm') /\ SameRegion(pmm, pmm')
             /\ \E p : Moved(pmm, pmm', {p}, "ALLOCATED", "FREE")
  <2>1. PICK page \in Managed(pmm) : /\ pmm.block_state[page] = "ALLOCATED"
                                     /\ pmm' = free_block(clear_block_head(pmm, page), page)
    BY ZenonT(40), <1>3, FreedPage
  <2> QED
    BY ZenonT(40), <1>1, <2>1, FreePageMoves
<1>4. ASSUME NEW base \in RangeBase, NEW size \in RangeSize, pmm_reserve_range(base, size)
      PROVE  /\ Whole(pmm') /\ SameRegion(pmm, pmm')
             /\ \E S : Moved(pmm, pmm', S, "FREE", "RESERVED")
  <2>1. base \in Address /\ size \in Address
    BY Zenon, PmmAssumption DEF PmmAssumption
  <2>2. pmm' = reserve_range(pmm, base, size)
    BY Zenon, <1>4 DEF pmm_reserve_range
  <2> QED
    BY ZenonT(40), <1>1, <2>1, <2>2, RangeReserved
<1> QED
  BY Zenon, <1>2, <1>3, <1>4 DEF PmmNext

(* PmmInv holds in every reachable state. *)
THEOREM PmmInvariant == PmmSpec => []PmmInv
<1>1. pmm_init => PmmInv
  BY ZenonT(40), InitIsWhole
<1>2. PmmInv /\ [PmmNext]_pmmVars => PmmInv'
  <2> SUFFICES ASSUME PmmInv, [PmmNext]_pmmVars PROVE PmmInv'
    BY Zenon
  <2>1. CASE PmmNext
    <3>1. Whole(pmm') /\ SameRegion(pmm, pmm') /\ RegionFits(pmm)
      BY ZenonT(40), <2>1, PmmMoves DEF PmmInv
    <3>2. RegionFits(pmm')
      BY Zenon, <3>1, RegionStays
    <3> QED
      BY ZenonT(40), <3>1, <3>2 DEF PmmInv
  <2>2. CASE UNCHANGED pmmVars
    BY Zenon, <2>2 DEF PmmInv, pmmVars
  <2> QED
    BY ZenonT(40), <2>1, <2>2
<1> QED
  BY <1>1, <1>2, PTL DEF PmmSpec

(* The lists, the owners, the states and the count of free pages of the    *)
(* allocator tell one story, and no free block is beside its free buddy,   *)
(* for every region, every maximal order and every sequence of calls.      *)
THEOREM AllocatorIsExact == PmmSpec => []AllocatorExact
  BY PmmInvariant, InvExact, PTL

(* pmm_reserve_range leaves no page that its range touches free, in every  *)
(* reachable state and for every range of 64-bit numbers.                  *)
THEOREM RangesAreCovered == PmmSpec => []RangeIsCovered
<1>1. PmmInv => RangeIsCovered
  <2> SUFFICES ASSUME PmmInv, NEW base \in RangeBase, NEW size \in RangeSize,
                      NEW p \in Managed(pmm), Touches(pmm, base, size, p),
                      NEW n, n = reserve_range(pmm, base, size)
               PROVE  n.block_state[n.page_owner[p]] # "FREE"
    BY Zenon DEF RangeIsCovered, Touches
  <2>1. base \in Address /\ size \in Address
    BY Zenon, PmmAssumption DEF PmmAssumption
  <2>2. SameRegion(pmm, n) /\ p \notin ClassOf(n, Managed(n), "FREE")
    BY ZenonT(40), <2>1, RangeReserved DEF PmmInv
  <2>3. p \in Managed(n)
    BY Zenon, <2>2 DEF SameRegion, Managed
  <2> QED
    BY ZenonT(40), <2>2, <2>3 DEF ClassOf
<1> QED
  BY <1>1, PmmInvariant, PTL

(* Two callers never hold one page, a freed page was held, and a reserved  *)
(* page is never handed out or freed: the allocator implements PageAbs.    *)
THEOREM PagesAreImplemented == PmmSpec => ImplementsPages
<1>1. pmm_init => Abs!PageInit
  <2> SUFFICES ASSUME pmm_init PROVE Abs!PageInit
    BY Zenon
  <2>1. PmmInv /\ In("ALLOCATED") = {}
    BY Zenon, InitIsWhole DEF In
  <2>2. In("FREE") \subseteq Page /\ In("RESERVED") \subseteq Page
    BY Zenon, <2>1, PageTypes DEF PmmInv, Whole, Exact, In, ClassOf
  <2>3. In("FREE") \cap In("RESERVED") = {}
    BY Zenon DEF In, ClassOf
  <2> QED
    BY Zenon, <2>1, <2>2, <2>3 DEF Abs!PageInit
<1>2. PmmInv /\ [PmmNext]_pmmVars =>
          [Abs!AllocPage \/ Abs!FreePage \/ Abs!ReservePages]_(Abs!pageVars)
  <2> SUFFICES ASSUME PmmInv, [PmmNext]_pmmVars
               PROVE  [Abs!AllocPage \/ Abs!FreePage \/ Abs!ReservePages]_(Abs!pageVars)
    BY Zenon
  <2>1. CASE PmmNext
    <3>1. CASE \E p : Moved(pmm, pmm', {p}, "FREE", "ALLOCATED")
      BY Zenon, <3>1 DEF Moved, In, Abs!AllocPage
    <3>2. CASE \E p : Moved(pmm, pmm', {p}, "ALLOCATED", "FREE")
      BY Zenon, <3>2 DEF Moved, In, Abs!FreePage
    <3>3. CASE \E S : Moved(pmm, pmm', S, "FREE", "RESERVED")
      BY Zenon, <3>3 DEF Moved, In, Abs!ReservePages
    <3> QED
      BY Zenon, <2>1, <3>1, <3>2, <3>3, PmmMoves
  <2>2. CASE UNCHANGED pmmVars
    BY Zenon, <2>2 DEF pmmVars, In, Abs!pageVars
  <2> QED
    BY ZenonT(40), <2>1, <2>2
<1> QED
  BY <1>1, <1>2, PmmInvariant, PTL DEF PmmSpec, ImplementsPages, Abs!PageSpec

=============================================================================
