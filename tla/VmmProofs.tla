------------------------------ MODULE VmmProofs -----------------------------
(***************************************************************************)
(* Proofs about virtual memory: the checks of user memory against the page *)
(* table, the page tables themselves and the operations of the kernel      *)
(* heap.  They hold for any width of the tables and any pages that are     *)
(* free at boot.  MemoryProofs goes on from here to the theorems about the *)
(* heap and the shared memory segments on it.                              *)
(***************************************************************************)
EXTENDS Uaccess, Shm, TLAPS

-----------------------------------------------------------------------------
(* The checks of user memory (uaccess.c). *)

(* The pages from the first byte of a range to its last are the pages of   *)
(* its bytes.                                                              *)
LEMMA PagesOfRange ==
    ASSUME NEW a \in Nat, NEW e \in Nat, a <= e, NEW size \in Nat \ {0}
    PROVE  {b \div size : b \in a..e} = (a \div size)..(e \div size)
<1>1. \A b \in a..e : b \div size \in Nat /\ a \div size <= b \div size /\ b \div size <= e \div size
  <2> TAKE b \in a..e
  <2>1. /\ b \div size \in Nat /\ a \div size \in Nat /\ e \div size \in Nat
        /\ size * (b \div size) <= b /\ b < size * (b \div size) + size
        /\ size * (a \div size) <= a /\ a < size * (a \div size) + size
        /\ size * (e \div size) <= e /\ e < size * (e \div size) + size
    OBVIOUS
  <2>2. ASSUME NEW x \in Nat, NEW y \in Nat, size * x < size * y + size PROVE x <= y
    <3> SUFFICES ASSUME x >= y + 1 PROVE FALSE
      OBVIOUS
    <3>1. size * x >= size * (y + 1)
      OBVIOUS
    <3>2. size * (y + 1) = size * y + size
      OBVIOUS
    <3>3. size * x \in Nat /\ size * y \in Nat
      OBVIOUS
    <3> QED
      BY <2>2, <3>1, <3>2, <3>3
  <2>3. /\ size * (a \div size) < size * (b \div size) + size
        /\ size * (b \div size) < size * (e \div size) + size
    BY <2>1
  <2> QED
    BY <2>1, <2>2, <2>3
<1>2. ASSUME NEW v \in (a \div size)..(e \div size)
      PROVE  \E b \in a..e : b \div size = v
  <2>1. /\ a \div size \in Nat /\ e \div size \in Nat /\ v \in Nat
        /\ a < size * (a \div size) + size /\ size * (e \div size) <= e
    OBVIOUS
  <2>2. v <= e \div size /\ a \div size <= v
    BY <2>1
  <2>3. size * v <= size * (e \div size) /\ size * (a \div size) <= size * v /\ size * v \in Nat
    BY <2>1, <2>2
  <2>4. CASE a \div size = v
    BY <2>4
  <2>5. CASE a \div size # v
    <3>1. (a \div size) + 1 <= v
      BY <2>1, <2>2, <2>5
    <3>2. size * ((a \div size) + 1) <= size * v
      BY <2>1, <3>1
    <3>3. size * ((a \div size) + 1) = size * (a \div size) + size
      BY <2>1
    <3>4. size * v \in a..e
      BY <2>1, <2>3, <3>2, <3>3
    <3>5. (size * v) \div size = v
      BY <2>1
    <3> QED
      BY <3>4, <3>5
  <2> QED
    BY <2>4, <2>5
<1> DEFINE Pages == (a \div size)..(e \div size)
<1>3. \A b \in a..e : b \div size \in Pages
  <2>1. a \div size \in Int /\ e \div size \in Int
    OBVIOUS
  <2> QED
    BY <1>1, <2>1
<1>4. \A v \in Pages : \E b \in a..e : b \div size = v
  BY Zenon, <1>2
<1> HIDE DEF Pages
<1>5. {b \div size : b \in a..e} = Pages
  BY <1>3, <1>4, Zenon
<1> QED
  BY Zenon, <1>5 DEF Pages

(* The check of a range that is not empty, in one case for each way out of *)
(* uaccess_validate_range.                                                 *)
LEMMA ValidateCorrect ==
    ASSUME NEW a \in UserAddress, NEW n \in UserSize, NEW w \in BOOLEAN
    PROVE  uaccess_validate_range(a, n, w) <=>
             \A b \in a..(a + n - 1) :
                /\ a # 0 /\ b <= UserMax
                /\ page_allows(b \div PageSize, IF w THEN {U, W} ELSE {U})
<1> DEFINE need == IF w THEN {U, W} ELSE {U}
           last == a + n - 1
<1>1. /\ AddressEnd \in Nat /\ a \in 0..(AddressEnd - 1) /\ n \in 0..(AddressEnd - 1)
      /\ UserMax \in 0..(AddressEnd - 1) /\ NONE \notin Int /\ PageSize \in Nat \ {0}
  BY AddressAssumption, UaccessAssumption DEF AddressAssumption, UaccessAssumption, AddressEnd
<1> HIDE DEF need
<1>2. CASE n = 0
  <2>1. a..(a + n - 1) = {}
    BY <1>1, <1>2
  <2> QED
    BY <1>2, <2>1 DEF uaccess_validate_range
<1>3. CASE n # 0 /\ last >= AddressEnd
  <2>1. last % AddressEnd = last - AddressEnd
    BY <1>1, <1>3
  <2>2. user_range_end(a, n) = NONE
    BY <1>1, <1>3, <2>1 DEF user_range_end
  <2>3. last \in a..(a + n - 1) /\ ~(last <= UserMax)
    BY <1>1, <1>3
  <2> QED
    BY <1>3, <2>2, <2>3 DEF uaccess_validate_range
<1>4. CASE n # 0 /\ last < AddressEnd
  <2>1. last % AddressEnd = last /\ last \in Nat /\ a <= last
    BY <1>1, <1>4
  <2>2. user_range_end(a, n) = IF last > UserMax THEN NONE ELSE last
    BY <1>1, <2>1 DEF user_range_end
  <2>3. last \in a..last /\ a \in a..last
    BY <1>1, <2>1
  <2>4. CASE last > UserMax
    BY <1>1, <1>4, <2>1, <2>2, <2>3, <2>4 DEF uaccess_validate_range
  <2>5. CASE ~(last > UserMax)
    <3>1. user_range_end(a, n) = last /\ last # NONE /\ a <= UserMax
      BY <1>1, <2>1, <2>2, <2>5
    <3>2. uaccess_validate_range(a, n, w) <=>
            /\ a # 0
            /\ \A v \in (a \div PageSize)..(last \div PageSize) : page_allows(v, need)
      BY Zenon, <1>4, <3>1 DEF uaccess_validate_range, need
    <3>3. \A b \in a..last : b <= UserMax
      BY <1>1, <2>1, <2>5
    <3>4. a \in Nat /\ last \in Nat /\ a <= last /\ PageSize \in Nat \ {0}
      BY <1>1, <2>1
    <3> HIDE DEF last
    <3>5. {b \div PageSize : b \in a..last} = (a \div PageSize)..(last \div PageSize)
      BY <3>4, PagesOfRange, ZenonT(40)
    <3>6. (\A v \in (a \div PageSize)..(last \div PageSize) : page_allows(v, need))
            <=> \A b \in a..last : page_allows(b \div PageSize, need)
      BY <3>5
    <3> QED
      BY Zenon, <2>3, <3>2, <3>3, <3>6 DEF need, last
  <2> QED
    BY Zenon, <2>4, <2>5
<1>5. last >= AddressEnd \/ last < AddressEnd
  BY <1>1
<1> QED
  BY Zenon, <1>2, <1>3, <1>4, <1>5

(* uaccess_validate_range accepts a range if and only if every byte of it  *)
(* is below the user limit in a page that vmm_query_mapping reports with   *)
(* the needed flags, in every state of the page tables and for sizes that  *)
(* wrap the address around.                                                *)
THEOREM RangesAreValidated == []UserRangesExact
<1>1. UserRangesExact
  BY Zenon, ValidateCorrect DEF UserRangesExact
<1> QED
  BY <1>1, PTL

-----------------------------------------------------------------------------
(* Page numbers and their indices. *)

(* A quotient and a remainder, and what they give back. *)
LEMMA Divide ==
    ASSUME NEW v \in Nat, NEW d \in Nat \ {0}
    PROVE  /\ v \div d \in Nat /\ v % d \in 0..(d - 1)
           /\ v = d * (v \div d) + (v % d)
  BY Z3

(* The indices of a page are those of a table's entries; the last one is   *)
(* the place of the page in a large one.                                   *)
LEMMA Indices ==
    ASSUME NEW v \in Nat
    PROVE  /\ table_index(v, 1) \in Index /\ table_index(v, 2) \in Index
           /\ table_index(v, 3) \in Index /\ table_index(v, 4) \in Index
           /\ table_index(v, 1) = v % Fanout
<1> DEFINE a == v \div Fanout
           b == a \div Fanout
           c == b \div Fanout
<1>1. Fanout \in Nat \ {0}
  BY PageTableAssumption DEF PageTableAssumption
<1>2. a \in Nat /\ v % Fanout \in Index
  BY Zenon, <1>1, Divide DEF Index
<1>3. b \in Nat /\ a % Fanout \in Index
  BY Zenon, <1>1, <1>2, Divide DEF Index
<1>4. c \in Nat /\ b % Fanout \in Index
  BY Zenon, <1>1, <1>3, Divide DEF Index
<1>5. c % Fanout \in Index
  BY Zenon, <1>1, <1>4, Divide DEF Index
<1>6. /\ table_index(v, 1) = v % Fanout /\ table_index(v, 2) = a % Fanout
      /\ table_index(v, 3) = b % Fanout /\ table_index(v, 4) = c % Fanout
  BY DEF table_index
<1> QED
  BY <1>2, <1>3, <1>4, <1>5, <1>6

(* Dividing by a factor of a bound divides the bound. *)
LEMMA DivideBelow ==
    ASSUME NEW v \in Nat, NEW d \in Nat \ {0}, NEW n \in Nat, v < d * n
    PROVE  v \div d < n
<1> DEFINE q == v \div d
<1>1. q \in Nat /\ d * q <= v
  BY Divide, Z3
<1>2. ASSUME q >= n PROVE FALSE
  <2> HIDE DEF q
  <2>1. d * q >= d * n
    BY <1>1, <1>2, Z3
  <2> QED
    BY <1>1, <2>1, Z3
<1> QED
  BY <1>1, <1>2

(* Below 2^48, pages with the same indices are the same page. *)
LEMMA IndicesTell ==
    ASSUME NEW v \in Canonical, NEW w \in Canonical, same_entry(v, w)
    PROVE  v = w
<1>1. Fanout \in Nat \ {0}
  BY PageTableAssumption DEF PageTableAssumption
<1> DEFINE up(x) == x \div Fanout
           F == Fanout
<1>2. F * F \in Nat /\ F * F * F \in Nat /\ F * F * F * F = F * (F * F * F)
      /\ F * F * F = F * (F * F)
  BY <1>1, Z3
<1>3. ASSUME NEW x \in Canonical
      PROVE  /\ x \in Nat /\ up(x) \in Nat /\ up(up(x)) \in Nat
             /\ up(up(up(x))) \in Nat /\ up(up(up(x))) < F
  <2> DEFINE n == F * F * F * F
  <2>1. x \in Nat /\ x < F * (F * F * F)
    <3>1. n \in Nat /\ x \in 0..(n - 1) /\ n = F * (F * F * F)
      BY <1>1, <1>2, Z3 DEF Canonical
    <3> HIDE DEF n
    <3>2. x \in Nat /\ x < n
      BY <3>1
    <3> QED
      BY <3>1, <3>2
  <2>2. up(x) \in Nat /\ up(x) < F * (F * F)
    BY Zenon, <1>1, <1>2, <2>1, Divide, DivideBelow
  <2>3. up(up(x)) \in Nat /\ up(up(x)) < F * F
    BY Zenon, <1>1, <1>2, <2>2, Divide, DivideBelow
  <2>4. up(up(up(x))) \in Nat /\ up(up(up(x))) < F
    BY Zenon, <1>1, <2>3, Divide, DivideBelow
  <2> QED
    BY <2>1, <2>2, <2>3, <2>4
<1>4. /\ v % F = w % F /\ up(v) % F = up(w) % F
      /\ up(up(v)) % F = up(up(w)) % F /\ up(up(up(v))) % F = up(up(up(w))) % F
  <2>1. /\ table_index(v, 1) = table_index(w, 1) /\ table_index(v, 2) = table_index(w, 2)
        /\ table_index(v, 3) = table_index(w, 3) /\ table_index(v, 4) = table_index(w, 4)
    BY DEF same_entry
  <2> QED
    BY <2>1 DEF table_index
<1>5. ASSUME NEW x \in Nat, NEW y \in Nat, x % F = y % F, up(x) = up(y)
      PROVE  x = y
  <2>1. x = F * up(x) + (x % F) /\ y = F * up(y) + (y % F)
    BY <1>1, Divide
  <2> QED
    BY <1>5, <2>1
<1>6. up(up(up(v))) = up(up(up(w)))
  <2>1. ASSUME NEW x \in Nat, x < F PROVE x % F = x
    BY <1>1, <2>1, Z3
  <2> QED
    BY <1>3, <1>4, <2>1
<1> HIDE DEF up
<1>7. up(up(v)) = up(up(w))
  BY <1>3, <1>4, <1>5, <1>6
<1>8. up(v) = up(w)
  BY <1>3, <1>4, <1>5, <1>7
<1> QED
  BY <1>3, <1>4, <1>5, <1>8

-----------------------------------------------------------------------------
(* The tables. *)

(* An entry of a table of some level: a pointer to a table of the level    *)
(* below; a page, in the lowest tables; an aligned large page, in a page   *)
(* directory.                                                              *)
GoodEntry(m, lv, t, e) ==
    IF e.span = 0 THEN lv[t] > 1 /\ e.frame \in DOMAIN m.table /\ lv[e.frame] = lv[t] - 1
    ELSE \/ lv[t] = 1 /\ e.span = 1
         \/ lv[t] = 2 /\ e.span = Fanout /\ e.frame % Fanout = 0

(* The tables form a tree: lv gives each one its level, the root is at     *)
(* level 4, and every other table has one parent.                          *)
Tree(m, lv) ==
    /\ m = [free |-> m.free, table |-> m.table]
    /\ m.table \in [DOMAIN m.table -> [Index -> Entry \cup {NONE}]]
    /\ m.free \subseteq Nat /\ m.free \cap DOMAIN m.table = {}
    /\ lv \in [DOMAIN m.table -> 1..4]
    /\ g_pml4 \in DOMAIN m.table /\ lv[g_pml4] = 4
    /\ \A t \in DOMAIN m.table, i \in Index :
          m.table[t][i] # NONE => GoodEntry(m, lv, t, m.table[t][i])
    /\ \A f \in DOMAIN m.table \ {g_pml4} :
          \E t \in DOMAIN m.table, i \in Index : PointsTo(m, t, i, f)
    /\ \A s, t \in DOMAIN m.table, i, j \in Index, f \in DOMAIN m.table :
          PointsTo(m, s, i, f) /\ PointsTo(m, t, j, f) => s = t /\ i = j

IsTree(m) == \E lv : Tree(m, lv)

(* The entries on the way to a page. *)
pml4e(m, v) == look(m, Table(g_pml4, {}), v, 4)
pdpte(m, v) == look(m, pml4e(m, v), v, 3)
pde(m, v) == look(m, pdpte(m, v), v, 2)
pte(m, v) == look(m, pde(m, v), v, 1)

(* The page has an entry of its own, present or not: no large page is in   *)
(* the way.                                                                *)
Small(m, v) == pde(m, v) # NONE /\ pde(m, v).span = 0

(* Only tables were added, from free pages: no translation has changed. *)
Grown(m, n) ==
    /\ DOMAIN m.table \subseteq DOMAIN n.table /\ n.free \subseteq m.free
    /\ n.free \cup DOMAIN n.table = m.free \cup DOMAIN m.table
    /\ \A t \in DOMAIN m.table, i \in Index :
          m.table[t][i] # NONE /\ m.table[t][i].span = 0 => n.table[t][i] = m.table[t][i]
    /\ \A v \in Nat : vmm_query_mapping(n, v) = vmm_query_mapping(m, v)

(* An entry of a table, present or not. *)
LEMMA CellTyped ==
    ASSUME NEW m, NEW lv, Tree(m, lv), NEW t \in DOMAIN m.table, NEW i \in Index
    PROVE  /\ m.table[t][i] \in Entry \cup {NONE}
           /\ m.table[t][i] # NONE =>
                 /\ m.table[t][i] \in Entry /\ GoodEntry(m, lv, t, m.table[t][i])
<1>1. m.table[t] \in [Index -> Entry \cup {NONE}]
  BY DEF Tree
<1>2. m.table[t][i] \in Entry \cup {NONE}
  BY <1>1
<1> QED
  BY Zenon, <1>2 DEF Tree

(* The way to a page, level by level, as vmm_query_mapping follows it. *)
Way(m, lv, v) ==
    /\ pml4e(m, v) = m.table[g_pml4][table_index(v, 4)]
    /\ pml4e(m, v) = NONE => pdpte(m, v) = NONE
    /\ pml4e(m, v) # NONE =>
         /\ pml4e(m, v).span = 0 /\ pml4e(m, v).frame \in DOMAIN m.table
         /\ lv[pml4e(m, v).frame] = 3
         /\ pdpte(m, v) = m.table[pml4e(m, v).frame][table_index(v, 3)]
    /\ pdpte(m, v) = NONE => pde(m, v) = NONE
    /\ pdpte(m, v) # NONE =>
         /\ pdpte(m, v).span = 0 /\ pdpte(m, v).frame \in DOMAIN m.table
         /\ lv[pdpte(m, v).frame] = 2
         /\ pde(m, v) = m.table[pdpte(m, v).frame][table_index(v, 2)]
    /\ pde(m, v) # NONE => pde(m, v) \in Entry
    /\ pde(m, v) # NONE /\ pde(m, v).span # 0 =>
         pde(m, v).span = Fanout /\ pde(m, v).frame % Fanout = 0
    /\ pde(m, v) # NONE /\ pde(m, v).span = 0 =>
         pde(m, v).frame \in DOMAIN m.table /\ lv[pde(m, v).frame] = 1
    /\ ~Small(m, v) => pte(m, v) = pde(m, v)
    /\ Small(m, v) => pte(m, v) = m.table[pde(m, v).frame][table_index(v, 1)]
    /\ Small(m, v) /\ pte(m, v) # NONE => pte(m, v) \in Entry /\ pte(m, v).span = 1
    /\ vmm_query_mapping(m, v) = page_of(pte(m, v), v)

(* The way to a page of a tree. *)
LEMMA Path ==
    ASSUME NEW m, NEW lv, Tree(m, lv), NEW v \in Nat
    PROVE  Way(m, lv, v)
<1> DEFINE a == pml4e(m, v)
           b == pdpte(m, v)
           c == pde(m, v)
           e == pte(m, v)
<1> HIDE DEF a, b, c, e
<1>0. /\ table_index(v, 1) \in Index /\ table_index(v, 2) \in Index
      /\ table_index(v, 3) \in Index /\ table_index(v, 4) \in Index
      /\ g_pml4 \in DOMAIN m.table /\ lv[g_pml4] = 4 /\ Fanout # 0
  BY Indices, PageTableAssumption DEF Tree, PageTableAssumption
<1>1. a = m.table[g_pml4][table_index(v, 4)]
  <2>1. Table(g_pml4, {}).span = 0 /\ Table(g_pml4, {}).frame = g_pml4
    BY DEF Table
  <2>2. Table(g_pml4, {}) # NONE
    <3>1. g_pml4 \in Nat
      BY VmmAssumption DEF VmmAssumption, Identity
    <3>2. Table(g_pml4, {}) \in Entry
      BY <3>1 DEF Table, Entry
    <3> QED
      BY Zenon, <3>2, PageTableAssumption DEF PageTableAssumption
  <2> QED
    BY Zenon, <2>1, <2>2 DEF a, pml4e, look
<1>2. a # NONE => GoodEntry(m, lv, g_pml4, a)
  BY Zenon, <1>0, <1>1, CellTyped
<1>3. a # NONE => a.span = 0 /\ a.frame \in DOMAIN m.table /\ lv[a.frame] = 3
  BY <1>0, <1>2 DEF GoodEntry
<1>4. b = IF a = NONE THEN NONE ELSE m.table[a.frame][table_index(v, 3)]
  BY Zenon, <1>3 DEF a, b, pdpte, look
<1>5. b # NONE => GoodEntry(m, lv, a.frame, b)
  BY Zenon, <1>0, <1>3, <1>4, CellTyped
<1>6. b # NONE => b.span = 0 /\ b.frame \in DOMAIN m.table /\ lv[b.frame] = 2
  BY <1>3, <1>4, <1>5 DEF GoodEntry
<1>7. c = IF b = NONE THEN NONE ELSE m.table[b.frame][table_index(v, 2)]
  BY Zenon, <1>6 DEF b, c, pde, look
<1>8. ASSUME c # NONE PROVE c \in Entry /\ GoodEntry(m, lv, b.frame, c)
  <2>1. c = m.table[b.frame][table_index(v, 2)] /\ b.frame \in DOMAIN m.table
    BY ZenonT(40), <1>6, <1>7, <1>8
  <2> QED
    BY Zenon, <1>0, <1>8, <2>1, CellTyped
<1>9. /\ c # NONE /\ c.span # 0 => c.span = Fanout /\ c.frame % Fanout = 0
      /\ c # NONE /\ c.span = 0 => c.frame \in DOMAIN m.table /\ lv[c.frame] = 1
  BY <1>6, <1>7, <1>8 DEF GoodEntry
<1>10. e = IF c = NONE \/ c.span # 0 THEN c ELSE m.table[c.frame][table_index(v, 1)]
  BY Zenon DEF c, e, pte, look
<1>11. ASSUME c # NONE, c.span = 0, e # NONE
       PROVE  e \in Entry /\ GoodEntry(m, lv, c.frame, e)
  <2>1. e = m.table[c.frame][table_index(v, 1)] /\ c.frame \in DOMAIN m.table
    BY Zenon, <1>9, <1>10, <1>11
  <2> QED
    BY Zenon, <1>0, <1>11, <2>1, CellTyped
<1>12. c # NONE /\ c.span = 0 /\ e # NONE => e \in Entry /\ e.span = 1
  BY <1>9, <1>11 DEF GoodEntry
<1>13. vmm_query_mapping(m, v) = page_of(e, v)
  BY Zenon DEF e, vmm_query_mapping, pml4e, pdpte, pde, pte
<1>14. Small(m, v) <=> c # NONE /\ c.span = 0
  BY Zenon DEF c, Small
<1>15. /\ a = NONE => b = NONE
       /\ a # NONE => b = m.table[a.frame][table_index(v, 3)]
  BY Zenon, <1>4
<1>16. /\ b = NONE => c = NONE
       /\ b # NONE => c = m.table[b.frame][table_index(v, 2)]
  BY Zenon, <1>7
<1>17. /\ ~Small(m, v) => e = c
       /\ Small(m, v) => e = m.table[c.frame][table_index(v, 1)]
  BY Zenon, <1>10, <1>14
<1>18. Small(m, v) /\ e # NONE => e \in Entry /\ e.span = 1
  BY Zenon, <1>12, <1>14
<1> QED
  BY Zenon, <1>1, <1>3, <1>6, <1>8, <1>9, <1>13, <1>15, <1>16, <1>17, <1>18
     DEF Way, a, b, c, e

(* A table is added below entry i of table t: an empty one where there was *)
(* none, or the pages of a large page.                                     *)
Adds(m, lv, t, i, entries) ==
    /\ t \in DOMAIN m.table /\ i \in Index /\ lv[t] > 1
    /\ \/ m.table[t][i] = NONE /\ entries = [j \in Index |-> NONE]
       \/ /\ m.table[t][i] # NONE /\ m.table[t][i].span # 0 /\ lv[t] = 2
          /\ entries = [j \in Index |-> Leaf(m.table[t][i].frame + j, m.table[t][i].flags)]

(* What AddTable writes. *)
LEMMA AddedCells ==
    ASSUME NEW m, NEW lv, Tree(m, lv), NEW t, NEW i, NEW entries, Adds(m, lv, t, i, entries),
           NEW f \in m.free, NEW flags \in SUBSET {W, U},
           NEW n, n = AddTable(m, t, i, f, entries, flags)
    PROVE  /\ n = [free |-> n.free, table |-> n.table]
           /\ n.free = m.free \ {f} /\ DOMAIN n.table = DOMAIN m.table \cup {f}
           /\ f \notin DOMAIN m.table /\ f \in Nat
           /\ n.table[f] = entries /\ entries \in [Index -> Entry \cup {NONE}]
           /\ \A j \in Index : entries[j] = NONE \/ (lv[t] = 2 /\ entries[j].span = 1)
           /\ n.table[t][i] = Table(f, flags) /\ Table(f, flags) \in Entry
           /\ \A s \in DOMAIN m.table, j \in Index :
                 s # t \/ j # i => n.table[s][j] = m.table[s][j]
           /\ n.table \in [DOMAIN n.table -> [Index -> Entry \cup {NONE}]]
<1>1. /\ n.free = m.free \ {f} /\ DOMAIN n.table = DOMAIN m.table \cup {f}
      /\ n = [free |-> n.free, table |-> n.table]
      /\ n.table = [g \in DOMAIN m.table \cup {f} |->
                      IF g = f THEN entries
                      ELSE IF g = t THEN [m.table[t] EXCEPT ![i] = Table(f, flags)]
                      ELSE m.table[g]]
  BY DEF AddTable
<1>2. f \notin DOMAIN m.table /\ f \in Nat /\ t # f /\ t \in DOMAIN m.table /\ i \in Index
  BY DEF Tree, Adds
<1>3. Table(f, flags) \in Entry
  BY <1>2 DEF Table, Entry
<1>4. /\ entries \in [Index -> Entry \cup {NONE}]
      /\ \A j \in Index : entries[j] = NONE \/ (lv[t] = 2 /\ entries[j].span = 1)
  <2>1. CASE entries = [j \in Index |-> NONE]
    BY SMTT(30), Z3T(30), SMTT(40), <2>1
  <2>2. CASE /\ m.table[t][i] # NONE /\ lv[t] = 2
             /\ entries = [j \in Index |-> Leaf(m.table[t][i].frame + j, m.table[t][i].flags)]
    <3>1. m.table[t][i] \in Entry
      BY <1>2, <2>2, CellTyped
    <3>2. \A j \in Index : /\ Leaf(m.table[t][i].frame + j, m.table[t][i].flags) \in Entry
                           /\ Leaf(m.table[t][i].frame + j, m.table[t][i].flags).span = 1
      BY <3>1, PageTableAssumption DEF Leaf, Entry, Index, PageTableAssumption
    <3> QED
      BY <2>2, <3>2
  <2> QED
    BY <2>1, <2>2 DEF Adds
<1>5. ASSUME NEW s \in DOMAIN m.table
      PROVE  m.table[s] \in [Index -> Entry \cup {NONE}]
  BY DEF Tree
<1>6. n.table[f] = entries
  BY <1>1
<1>7. n.table[t] = [m.table[t] EXCEPT ![i] = Table(f, flags)]
  BY <1>1, <1>2
<1>8. \A s \in DOMAIN m.table : s # t => n.table[s] = m.table[s]
  BY <1>1, <1>2
<1>9. n.table[t][i] = Table(f, flags) /\ \A j \in Index : j # i => n.table[t][j] = m.table[t][j]
  BY <1>2, <1>5, <1>7
<1>10. \A s \in DOMAIN n.table : n.table[s] \in [Index -> Entry \cup {NONE}]
  <2> TAKE s \in DOMAIN n.table
  <2>1. CASE s = f
    BY <1>4, <1>6, <2>1
  <2>2. CASE s = t
    BY <1>2, <1>3, <1>5, <1>7, <2>2
  <2>3. CASE s # f /\ s # t
    BY <1>1, <1>5, <1>8, <2>3
  <2> QED
    BY <2>1, <2>2, <2>3
<1>11. n.table \in [DOMAIN n.table -> [Index -> Entry \cup {NONE}]]
  BY <1>1, <1>10
<1> QED
  BY Zenon, <1>1, <1>2, <1>3, <1>4, <1>6, <1>8, <1>9, <1>11

(* The tables are still a tree. *)
LEMMA AddedTree ==
    ASSUME NEW m, NEW lv, Tree(m, lv), NEW t, NEW i, NEW entries, Adds(m, lv, t, i, entries),
           NEW f \in m.free, NEW flags \in SUBSET {W, U},
           NEW n, n = AddTable(m, t, i, f, entries, flags),
           NEW k, k = [g \in DOMAIN m.table \cup {f} |-> IF g = f THEN lv[t] - 1 ELSE lv[g]]
    PROVE  Tree(n, k)
<1> DEFINE D == DOMAIN m.table
<1>1. /\ n = [free |-> n.free, table |-> n.table]
      /\ n.free = m.free \ {f} /\ DOMAIN n.table = D \cup {f}
      /\ f \notin D /\ f \in Nat
      /\ n.table[f] = entries /\ entries \in [Index -> Entry \cup {NONE}]
      /\ \A j \in Index : entries[j] = NONE \/ (lv[t] = 2 /\ entries[j].span = 1)
      /\ n.table[t][i] = Table(f, flags) /\ Table(f, flags) \in Entry
      /\ \A s \in D, j \in Index : s # t \/ j # i => n.table[s][j] = m.table[s][j]
      /\ n.table \in [DOMAIN n.table -> [Index -> Entry \cup {NONE}]]
  BY SMTT(30), AddedCells
<1>2. /\ t \in D /\ i \in Index /\ lv[t] > 1 /\ lv \in [D -> 1..4]
      /\ m.free \subseteq Nat /\ m.free \cap D = {} /\ g_pml4 \in D /\ lv[g_pml4] = 4
  BY DEF Tree, Adds
<1>3. /\ k \in [D \cup {f} -> 1..4] /\ k[f] = lv[t] - 1
      /\ \A g \in D : k[g] = lv[g]
  BY <1>1, <1>2
<1>4. Table(f, flags) # NONE /\ Table(f, flags).span = 0 /\ Table(f, flags).frame = f
  BY <1>1, PageTableAssumption DEF Table, PageTableAssumption
<1>5. ASSUME NEW s \in D \cup {f}, NEW j \in Index, n.table[s][j] # NONE
      PROVE  GoodEntry(n, k, s, n.table[s][j])
  <2>1. CASE s = f
    BY <1>1, <1>3, <1>5, <2>1 DEF GoodEntry
  <2>2. CASE s = t /\ j = i
    BY SMTT(30), Z3T(30), SMTT(40), <1>1, <1>2, <1>3, <1>4, <2>2 DEF GoodEntry
  <2>3. CASE s # f /\ ~(s = t /\ j = i)
    <3>1. s \in D /\ n.table[s][j] = m.table[s][j]
      BY Zenon, <1>1, <2>3
    <3>2. GoodEntry(m, lv, s, m.table[s][j])
      BY Zenon, <1>5, <3>1, CellTyped
    <3> QED
      BY <1>1, <1>3, <3>1, <3>2 DEF GoodEntry
  <2> QED
    BY Zenon, <1>1, <1>2, <2>1, <2>2, <2>3
<1>6. ASSUME NEW s \in D \cup {f}, NEW j \in Index, NEW g \in D \cup {f}, PointsTo(n, s, j, g)
      PROVE  \/ s = t /\ j = i /\ g = f
             \/ s \in D /\ g \in D /\ PointsTo(m, s, j, g) /\ ~(s = t /\ j = i)
  <2>1. s # f
    BY <1>1, <1>6 DEF PointsTo
  <2>2. CASE s = t /\ j = i
    BY <1>1, <1>4, <1>6, <2>2 DEF PointsTo
  <2>3. CASE ~(s = t /\ j = i)
    <3>1. s \in D /\ n.table[s][j] = m.table[s][j]
      BY Zenon, <1>1, <2>1, <2>3
    <3>2. PointsTo(m, s, j, g)
      BY Zenon, <1>6, <3>1 DEF PointsTo
    <3>3. GoodEntry(m, lv, s, m.table[s][j]) /\ m.table[s][j].span = 0 /\ m.table[s][j].frame = g
      BY Zenon, <3>1, <3>2, CellTyped DEF PointsTo
    <3>4. g \in D
      BY Zenon, <3>3 DEF GoodEntry
    <3> QED
      BY Zenon, <2>3, <3>1, <3>2, <3>4
  <2> QED
    BY Zenon, <2>2, <2>3
<1>7. ASSUME NEW g \in D \ {g_pml4}
      PROVE  \E s \in D \cup {f}, j \in Index : PointsTo(n, s, j, g)
  <2>1. PICK s \in D, j \in Index : PointsTo(m, s, j, g)
    BY Zenon DEF Tree
  <2>2. ~(s = t /\ j = i)
    <3>1. m.table[t][i] = NONE \/ m.table[t][i].span # 0
      BY Zenon DEF Adds
    <3> QED
      BY Zenon, <2>1, <3>1 DEF PointsTo
  <2>3. PointsTo(n, s, j, g)
    BY Zenon, <1>1, <2>1, <2>2 DEF PointsTo
  <2> QED
    BY Zenon, <2>3
<1>8. PointsTo(n, t, i, f)
  BY Zenon, <1>1, <1>4 DEF PointsTo
<1>9. \A g \in (D \cup {f}) \ {g_pml4} :
         \E s \in D \cup {f}, j \in Index : PointsTo(n, s, j, g)
  <2> TAKE g \in (D \cup {f}) \ {g_pml4}
  <2>1. g = f \/ g \in D \ {g_pml4}
    BY Zenon
  <2>2. CASE g = f
    BY Zenon, <1>2, <1>8, <2>2
  <2>3. CASE g \in D \ {g_pml4}
    BY Zenon, <1>7, <2>3
  <2> QED
    BY Zenon, <2>1, <2>2, <2>3
<1>10. ASSUME NEW r \in D \cup {f}, NEW s \in D \cup {f}, NEW x \in Index, NEW y \in Index,
              NEW g \in D \cup {f}, PointsTo(n, r, x, g), PointsTo(n, s, y, g)
       PROVE  r = s /\ x = y
  <2>1. \/ r = t /\ x = i /\ g = f
        \/ r \in D /\ g \in D /\ PointsTo(m, r, x, g)
    BY Zenon, <1>6, <1>10
  <2>2. \/ s = t /\ y = i /\ g = f
        \/ s \in D /\ g \in D /\ PointsTo(m, s, y, g)
    BY Zenon, <1>6, <1>10
  <2>3. CASE g = f
    BY Zenon, <1>1, <2>1, <2>2, <2>3
  <2>4. CASE g # f
    <3>1. r \in D /\ s \in D /\ g \in D /\ PointsTo(m, r, x, g) /\ PointsTo(m, s, y, g)
      BY Zenon, <2>1, <2>2, <2>4
    <3> QED
      BY Zenon, <3>1 DEF Tree
  <2> QED
    BY Zenon, <2>3, <2>4
<1>11. n.free \subseteq Nat /\ n.free \cap (D \cup {f}) = {} /\ k[g_pml4] = 4
  BY Zenon, <1>1, <1>2, <1>3
<1>12. g_pml4 \in D \cup {f} /\ DOMAIN n.table = D \cup {f}
  BY Zenon, <1>1, <1>2
<1> HIDE DEF D
<1>13. /\ n = [free |-> n.free, table |-> n.table]
       /\ n.table \in [DOMAIN n.table -> [Index -> Entry \cup {NONE}]]
       /\ k \in [DOMAIN n.table -> 1..4]
  BY Zenon, <1>1, <1>3, <1>12
<1>14. \A s \in DOMAIN n.table, j \in Index :
          n.table[s][j] # NONE => GoodEntry(n, k, s, n.table[s][j])
  BY Zenon, <1>5, <1>12
<1>15. \A g \in DOMAIN n.table \ {g_pml4} :
          \E s \in DOMAIN n.table, j \in Index : PointsTo(n, s, j, g)
  BY <1>9, <1>12
<1>16. \A r, s \in DOMAIN n.table, x, y \in Index, g \in DOMAIN n.table :
          PointsTo(n, r, x, g) /\ PointsTo(n, s, y, g) => r = s /\ x = y
  BY <1>10, <1>12
<1>17. n.free \subseteq Nat /\ n.free \cap DOMAIN n.table = {} /\ g_pml4 \in DOMAIN n.table
  BY Zenon, <1>11, <1>12
<1> QED
  BY Zenon, <1>11, <1>13, <1>14, <1>15, <1>16, <1>17 DEF Tree

(* No translation changes: the new table says what the entry said. *)
LEMMA AddedQuery ==
    ASSUME NEW m, NEW lv, Tree(m, lv), NEW t, NEW i, NEW entries, Adds(m, lv, t, i, entries),
           NEW f \in m.free, NEW flags \in SUBSET {W, U},
           NEW n, n = AddTable(m, t, i, f, entries, flags), NEW v \in Nat
    PROVE  vmm_query_mapping(n, v) = vmm_query_mapping(m, v)
<1> DEFINE D == DOMAIN m.table
           k == [g \in DOMAIN m.table \cup {f} |-> IF g = f THEN lv[t] - 1 ELSE lv[g]]
<1> HIDE DEF k, D
<1>1. Way(m, lv, v) /\ Way(n, k, v)
  <2>1. Tree(n, k)
    BY AddedTree DEF k
  <2> QED
    BY Zenon, <2>1, Path
<1>2. /\ f \notin D /\ n.table[f] = entries
      /\ \A j \in Index : entries[j] = NONE \/ (lv[t] = 2 /\ entries[j].span = 1)
      /\ n.table[t][i] = Table(f, flags) /\ Table(f, flags) \in Entry
      /\ \A s \in D, j \in Index : s # t \/ j # i => n.table[s][j] = m.table[s][j]
  BY SMTT(30), AddedCells DEF D
<1>3. /\ t \in D /\ i \in Index /\ lv[t] > 1
      /\ \/ m.table[t][i] = NONE /\ entries = [j \in Index |-> NONE]
         \/ /\ m.table[t][i] # NONE /\ m.table[t][i].span # 0 /\ lv[t] = 2
            /\ entries = [j \in Index |-> Leaf(m.table[t][i].frame + j, m.table[t][i].flags)]
  BY Zenon DEF Adds, D
<1>4. Table(f, flags) # NONE /\ Table(f, flags).span = 0 /\ Table(f, flags).frame = f
  BY <1>2, PageTableAssumption DEF Table, PageTableAssumption
<1>5. /\ table_index(v, 1) \in Index /\ table_index(v, 2) \in Index
      /\ table_index(v, 3) \in Index /\ table_index(v, 4) \in Index
      /\ table_index(v, 1) = v % Fanout
  BY Zenon, Indices
<1>6. page_of(NONE, v) = NONE
  BY Zenon DEF page_of
<1>7. ASSUME NEW p, NEW x, Way(p, x, v), pde(p, v) = NONE
      PROVE  vmm_query_mapping(p, v) = NONE
  BY Zenon, <1>6, <1>7 DEF Small, Way
<1>8. g_pml4 \in D /\ lv[g_pml4] = 4
  BY Zenon DEF Tree, D
<1>9. CASE g_pml4 = t /\ table_index(v, 4) = i
  <2>1. lv[t] # 2
    BY <1>8, <1>9
  <2>2. m.table[t][i] = NONE /\ \A j \in Index : entries[j] = NONE
    BY Zenon, <1>2, <1>3, <2>1
  <2>3. pml4e(m, v) = NONE /\ pml4e(n, v) = Table(f, flags)
    BY Zenon, <1>1, <1>2, <1>9, <2>2 DEF Way
  <2>4. pdpte(m, v) = NONE /\ pdpte(n, v) = n.table[f][table_index(v, 3)]
    BY Zenon, <1>1, <1>4, <2>3 DEF Way
  <2>5. pdpte(n, v) = NONE
    BY Zenon, <1>2, <1>5, <2>2, <2>4
  <2>6. pde(m, v) = NONE /\ pde(n, v) = NONE
    BY Zenon, <1>1, <2>4, <2>5 DEF Way
  <2> QED
    BY Zenon, <1>1, <1>7, <2>6
<1>10. CASE ~(g_pml4 = t /\ table_index(v, 4) = i)
  <2>1. pml4e(n, v) = pml4e(m, v)
    <3>1. n.table[g_pml4][table_index(v, 4)] = m.table[g_pml4][table_index(v, 4)]
      BY Zenon, <1>2, <1>5, <1>8, <1>10
    <3> QED
      BY Zenon, <1>1, <3>1 DEF Way
  <2>2. CASE pml4e(m, v) = NONE
    <3>1. pdpte(m, v) = NONE /\ pdpte(n, v) = NONE
      BY Zenon, <1>1, <2>1, <2>2 DEF Way
    <3>2. pde(m, v) = NONE /\ pde(n, v) = NONE
      BY Zenon, <1>1, <3>1 DEF Way
    <3> QED
      BY Zenon, <1>1, <1>7, <3>2
  <2>3. CASE pml4e(m, v) # NONE
    <3> DEFINE s == pml4e(m, v).frame
    <3> HIDE DEF s
    <3>1. s \in D /\ lv[s] = 3 /\ pdpte(m, v) = m.table[s][table_index(v, 3)]
      BY Zenon, <1>1, <2>3 DEF Way, s, D
    <3>2. pdpte(n, v) = n.table[s][table_index(v, 3)]
      BY Zenon, <1>1, <2>1, <2>3 DEF Way, s
    <3>3. CASE s = t /\ table_index(v, 3) = i
      <4>1. lv[t] # 2
        BY <3>1, <3>3
      <4>2. m.table[t][i] = NONE /\ \A j \in Index : entries[j] = NONE
        BY Zenon, <1>2, <1>3, <4>1
      <4>3. pdpte(m, v) = NONE /\ pdpte(n, v) = Table(f, flags)
        BY Zenon, <1>2, <3>1, <3>2, <3>3, <4>2
      <4>4. pde(m, v) = NONE /\ pde(n, v) = n.table[f][table_index(v, 2)]
        BY Zenon, <1>1, <1>4, <4>3 DEF Way
      <4>5. pde(n, v) = NONE
        BY Zenon, <1>2, <1>5, <4>2, <4>4
      <4> QED
        BY Zenon, <1>1, <1>7, <4>4, <4>5
    <3>4. CASE ~(s = t /\ table_index(v, 3) = i)
      <4>1. pdpte(n, v) = pdpte(m, v)
        BY Zenon, <1>2, <1>5, <3>1, <3>2, <3>4
      <4>2. CASE pdpte(m, v) = NONE
        <5>1. pde(m, v) = NONE /\ pde(n, v) = NONE
          BY Zenon, <1>1, <4>1, <4>2 DEF Way
        <5> QED
          BY Zenon, <1>1, <1>7, <5>1
      <4>3. CASE pdpte(m, v) # NONE
        <5> DEFINE d == pdpte(m, v).frame
        <5> HIDE DEF d
        <5>1. d \in D /\ lv[d] = 2 /\ pde(m, v) = m.table[d][table_index(v, 2)]
          BY Zenon, <1>1, <4>3 DEF Way, d, D
        <5>2. pde(n, v) = n.table[d][table_index(v, 2)]
          BY Zenon, <1>1, <4>1, <4>3 DEF Way, d
        <5>3. CASE d = t /\ table_index(v, 2) = i
          <6>1. pde(n, v) = Table(f, flags) /\ Small(n, v)
            BY Zenon, <1>2, <1>4, <5>2, <5>3 DEF Small
          <6>2. pte(n, v) = entries[table_index(v, 1)]
            <7>1. pte(n, v) = n.table[pde(n, v).frame][table_index(v, 1)]
              BY Zenon, <1>1, <6>1 DEF Way
            <7>2. pde(n, v).frame = f
              BY Zenon, <1>4, <6>1
            <7> QED
              BY Zenon, <1>2, <7>1, <7>2
          <6>3. CASE pde(m, v) = NONE
            <7>1. pte(n, v) = NONE
              BY Zenon, <1>3, <1>5, <5>1, <5>3, <6>2, <6>3
            <7> QED
              BY Zenon, <1>1, <1>6, <1>7, <6>3, <7>1 DEF Way
          <6>4. CASE pde(m, v) # NONE
            <7> DEFINE c == pde(m, v)
            <7> HIDE DEF c
            <7>1. c = m.table[t][i] /\ c # NONE
              BY Zenon, <5>1, <5>3, <6>4 DEF c
            <7>2. c.span # 0 /\ pte(n, v) = Leaf(c.frame + table_index(v, 1), c.flags)
              BY <1>3, <1>5, <6>2, <7>1
            <7>3. c \in Entry /\ c.span = Fanout
              BY Zenon, <1>1, <6>4, <7>2 DEF Way, c
            <7>4. pte(m, v) = c
              BY Zenon, <1>1, <7>2 DEF Way, c, Small
            <7>5. Leaf(c.frame + table_index(v, 1), c.flags) # NONE
              <8>1. Leaf(c.frame + table_index(v, 1), c.flags) \in Entry
                BY <1>5, <7>3, PageTableAssumption DEF Leaf, Entry, Index, PageTableAssumption
              <8> QED
                BY Zenon, <8>1, PageTableAssumption DEF PageTableAssumption
            <7>6. page_of(Leaf(c.frame + table_index(v, 1), c.flags), v) = page_of(c, v)
              <8>1. v % 1 = 0 /\ c.frame \in Nat /\ table_index(v, 1) \in Nat
                BY <1>5, <7>3, PageTableAssumption DEF Entry, Index, PageTableAssumption
              <8>2. (c.frame + table_index(v, 1)) + (v % 1) = c.frame + (v % c.span)
                BY <1>5, <7>3, <8>1
              <8> QED
                BY <7>1, <7>5, <8>2 DEF page_of, Leaf
            <7> QED
              BY Zenon, <1>1, <7>2, <7>4, <7>6 DEF Way
          <6> QED
            BY Zenon, <6>3, <6>4
        <5>4. CASE ~(d = t /\ table_index(v, 2) = i)
          <6>1. pde(n, v) = pde(m, v) /\ (Small(n, v) <=> Small(m, v))
            BY Zenon, <1>2, <1>5, <5>1, <5>2, <5>4 DEF Small
          <6>2. CASE ~Small(m, v)
            BY Zenon, <1>1, <6>1, <6>2 DEF Way
          <6>3. CASE Small(m, v)
            <7> DEFINE x == pde(m, v).frame
            <7> HIDE DEF x
            <7>1. x \in D /\ lv[x] = 1 /\ pte(m, v) = m.table[x][table_index(v, 1)]
              BY Zenon, <1>1, <6>3 DEF Way, x, D, Small
            <7>2. pte(n, v) = n.table[x][table_index(v, 1)]
              BY Zenon, <1>1, <6>1, <6>3 DEF Way, x
            <7>3. x # t
              BY <1>3, <7>1
            <7>4. pte(n, v) = pte(m, v)
              BY Zenon, <1>2, <1>5, <7>1, <7>2, <7>3
            <7> QED
              BY Zenon, <1>1, <7>4 DEF Way
          <6> QED
            BY Zenon, <6>2, <6>3
        <5> QED
          BY Zenon, <5>3, <5>4
      <4> QED
        BY Zenon, <4>2, <4>3
    <3> QED
      BY Zenon, <3>3, <3>4
  <2> QED
    BY Zenon, <2>2, <2>3
<1> QED
  BY Zenon, <1>9, <1>10

(* Adding a table only grows the tree. *)
LEMMA AddedGrown ==
    ASSUME NEW m, NEW lv, Tree(m, lv), NEW t, NEW i, NEW entries, Adds(m, lv, t, i, entries),
           NEW f \in m.free, NEW flags \in SUBSET {W, U},
           NEW n, n = AddTable(m, t, i, f, entries, flags)
    PROVE  Grown(m, n)
<1>1. /\ n.free = m.free \ {f} /\ DOMAIN n.table = DOMAIN m.table \cup {f}
      /\ \A s \in DOMAIN m.table, j \in Index : s # t \/ j # i => n.table[s][j] = m.table[s][j]
  BY SMTT(30), AddedCells
<1>2. \A v \in Nat : vmm_query_mapping(n, v) = vmm_query_mapping(m, v)
  BY AddedQuery
<1>3. m.table[t][i] = NONE \/ m.table[t][i].span # 0
  BY Zenon DEF Adds
<1>4. \A s \in DOMAIN m.table, j \in Index :
          m.table[s][j] # NONE /\ m.table[s][j].span = 0 => n.table[s][j] = m.table[s][j]
  BY Zenon, <1>1, <1>3
<1>5. /\ DOMAIN m.table \subseteq DOMAIN n.table /\ n.free \subseteq m.free
      /\ n.free \cup DOMAIN n.table = m.free \cup DOMAIN m.table
  BY <1>1
<1> QED
  BY Zenon, <1>2, <1>4, <1>5 DEF Grown

(* Growing is transitive. *)
LEMMA GrownTwice ==
    ASSUME NEW m, NEW n, NEW p, Grown(m, n), Grown(n, p)
    PROVE  Grown(m, p)
<1>1. /\ DOMAIN m.table \subseteq DOMAIN p.table /\ p.free \subseteq m.free
      /\ p.free \cup DOMAIN p.table = m.free \cup DOMAIN m.table
  BY DEF Grown
<1>2. \A v \in Nat : vmm_query_mapping(p, v) = vmm_query_mapping(m, v)
  BY Zenon DEF Grown
<1>3. ASSUME NEW t \in DOMAIN m.table, NEW i \in Index,
             m.table[t][i] # NONE, m.table[t][i].span = 0
      PROVE  p.table[t][i] = m.table[t][i]
  <2>1. n.table[t][i] = m.table[t][i] /\ t \in DOMAIN n.table
    BY Zenon, <1>3 DEF Grown
  <2> QED
    BY Zenon, <1>3, <2>1 DEF Grown
<1> QED
  BY Zenon, <1>1, <1>2, <1>3 DEF Grown

(* Nothing has grown yet. *)
LEMMA GrownNot ==
    ASSUME NEW m
    PROVE  Grown(m, m)
  BY Zenon DEF Grown

(* Tables stay: a page that had an entry of its own keeps it. *)
LEMMA GrownSmall ==
    ASSUME NEW m, NEW lv, Tree(m, lv), NEW n, NEW k, Tree(n, k), Grown(m, n),
           NEW v \in Nat, Small(m, v)
    PROVE  Small(n, v)
<1> DEFINE a == pml4e(m, v)
           b == pdpte(m, v)
           c == pde(m, v)
<1> HIDE DEF a, b, c
<1>1. Way(m, lv, v) /\ Way(n, k, v)
  BY Zenon, Path
<1>2. /\ table_index(v, 2) \in Index /\ table_index(v, 3) \in Index
      /\ table_index(v, 4) \in Index /\ g_pml4 \in DOMAIN m.table
  BY Zenon, Indices DEF Tree
<1>3. c # NONE /\ c.span = 0
  BY Zenon DEF Small, c
<1>4. /\ b # NONE /\ b.span = 0 /\ b.frame \in DOMAIN m.table
      /\ c = m.table[b.frame][table_index(v, 2)]
  BY Zenon, <1>1, <1>3 DEF Way, b, c
<1>5. /\ a # NONE /\ a.span = 0 /\ a.frame \in DOMAIN m.table
      /\ b = m.table[a.frame][table_index(v, 3)] /\ a = m.table[g_pml4][table_index(v, 4)]
  BY Zenon, <1>1, <1>4 DEF Way, a, b
<1>6. pml4e(n, v) = a
  <2>1. n.table[g_pml4][table_index(v, 4)] = m.table[g_pml4][table_index(v, 4)]
    BY Zenon, <1>2, <1>5 DEF Grown
  <2> QED
    BY Zenon, <1>1, <1>5, <2>1 DEF Way
<1>7. pdpte(n, v) = b
  <2>1. n.table[a.frame][table_index(v, 3)] = m.table[a.frame][table_index(v, 3)]
    BY Zenon, <1>2, <1>4, <1>5 DEF Grown
  <2> QED
    BY Zenon, <1>1, <1>5, <1>6, <2>1 DEF Way
<1>8. pde(n, v) = c
  <2>1. n.table[b.frame][table_index(v, 2)] = m.table[b.frame][table_index(v, 2)]
    BY Zenon, <1>2, <1>3, <1>4 DEF Grown
  <2> QED
    BY Zenon, <1>1, <1>4, <1>7, <2>1 DEF Way
<1> QED
  BY Zenon, <1>3, <1>8 DEF Small

(* What one level of the walk leaves and returns. *)
Down(m, t, i, level, r) ==
    /\ r.ok \in BOOLEAN /\ Grown(m, r.m)
    /\ PointsTo(m, t, i, m.table[t][i].frame) => r = Ok(m, m.table[t][i].frame)
    /\ \E k : /\ Tree(r.m, k)
              /\ r.ok => /\ PointsTo(r.m, t, i, r.at) /\ r.at \in DOMAIN r.m.table
                         /\ k[r.at] = level - 1

(* One level down: the table the entry points to, an added one, or a       *)
(* failure that has changed nothing (vmm_get_or_create_next_table).        *)
LEMMA NextTable ==
    ASSUME NEW m, NEW lv, Tree(m, lv), NEW t \in DOMAIN m.table, NEW i \in Index,
           NEW level \in 2..4, lv[t] = level,
           NEW create \in BOOLEAN, NEW r, r = next_table(m, t, i, level, create)
    PROVE  Down(m, t, i, level, r)
<1>0. lv[t] > 1
  OBVIOUS
<1> DEFINE e == m.table[t][i]
<1> HIDE DEF e
<1>1. e # NONE => e \in Entry /\ GoodEntry(m, lv, t, e)
  BY Zenon, CellTyped DEF e
<1>2. r = (CASE e = NONE -> IF create THEN new_table(m, t, i) ELSE Failed(m)
             [] e # NONE /\ e.span = 0 -> Ok(m, e.frame)
             [] e # NONE /\ e.span # 0 ->
                   IF level = 2 THEN vmm_split_large_pd_entry(m, t, i) ELSE Failed(m))
  BY Zenon DEF next_table, e
<1>3. /\ e = NONE => r = IF create THEN new_table(m, t, i) ELSE Failed(m)
      /\ e # NONE /\ e.span = 0 => r = Ok(m, e.frame)
      /\ e # NONE /\ e.span # 0 =>
            r = IF level = 2 THEN vmm_split_large_pd_entry(m, t, i) ELSE Failed(m)
  BY <1>2
<1>4. PointsTo(m, t, i, e.frame) <=> e # NONE /\ e.span = 0
  BY Zenon DEF PointsTo, e
<1>5. Failed(m).ok = FALSE /\ Failed(m).m = m
  BY DEF Failed
<1>7. CASE r = Failed(m) /\ ~(e # NONE /\ e.span = 0)
  BY Zenon, <1>4, <1>5, <1>7, GrownNot DEF e, Down
<1>8. CASE r = Ok(m, e.frame) /\ e # NONE /\ e.span = 0
  <2>1. e.frame \in DOMAIN m.table /\ lv[e.frame] = level - 1
    BY Zenon, <1>1, <1>8 DEF GoodEntry
  <2>2. PointsTo(m, t, i, e.frame)
    BY Zenon, <1>4, <1>8
  <2> QED
    <3>1. r.ok = TRUE /\ r.m = m /\ r.at = e.frame
      BY <1>8 DEF Ok
    <3>2. /\ Tree(r.m, lv) /\ PointsTo(r.m, t, i, r.at) /\ r.at \in DOMAIN r.m.table
          /\ lv[r.at] = level - 1 /\ Grown(m, r.m)
      BY <2>1, <2>2, <3>1, GrownNot
    <3>3. r = Ok(m, m.table[t][i].frame)
      BY Zenon, <1>8 DEF e
    <3> QED
      BY Zenon, <3>1, <3>2, <3>3 DEF Down
<1>9. ASSUME NEW f \in m.free, NEW entries, NEW flags \in SUBSET {W, U},
             Adds(m, lv, t, i, entries), r = Ok(AddTable(m, t, i, f, entries, flags), f)
      PROVE  /\ Grown(m, r.m) /\ r.ok = TRUE
             /\ \E k : /\ Tree(r.m, k)
                       /\ PointsTo(r.m, t, i, r.at) /\ r.at \in DOMAIN r.m.table
                       /\ k[r.at] = level - 1
  <2> DEFINE n == AddTable(m, t, i, f, entries, flags)
             k == [g \in DOMAIN m.table \cup {f} |-> IF g = f THEN lv[t] - 1 ELSE lv[g]]
  <2> HIDE DEF n, k
  <2>1. Tree(n, k) /\ Grown(m, n)
    BY SMTT(30), Z3T(30), SMTT(40), <1>9, AddedTree, AddedGrown DEF n, k
  <2>2. n.table[t][i] = Table(f, flags) /\ Table(f, flags) \in Entry /\ f \in DOMAIN n.table
    BY SMTT(30), <1>9, AddedCells DEF n
  <2>3. Table(f, flags) # NONE /\ Table(f, flags).span = 0 /\ Table(f, flags).frame = f
    BY <2>2, PageTableAssumption DEF Table, PageTableAssumption
  <2>4. PointsTo(n, t, i, f)
    BY Zenon, <2>2, <2>3 DEF PointsTo
  <2>5. k[f] = level - 1
    BY SMTT(30), Z3T(30), SMTT(40) DEF k
  <2>6. r.ok = TRUE /\ r.m = n /\ r.at = f
    BY <1>9 DEF n, Ok
  <2> QED
    <3>1. /\ Tree(r.m, k) /\ PointsTo(r.m, t, i, r.at) /\ r.at \in DOMAIN r.m.table
          /\ k[r.at] = level - 1 /\ Grown(m, r.m)
      BY SMTT(30), Z3T(30), SMTT(40), <2>1, <2>2, <2>4, <2>5, <2>6
    <3> QED
      BY Zenon, <2>6, <3>1
<1>10. CASE e = NONE /\ create /\ r # Failed(m)
  <2>1. m.free # {} /\ r = new_table(m, t, i)
    BY Zenon, <1>3, <1>10 DEF new_table
  <2>2. take_page(m) \in m.free
    BY Zenon, <2>1 DEF take_page
  <2>3. r = Ok(AddTable(m, t, i, take_page(m), [j \in Index |-> NONE], {W}), take_page(m))
    BY Zenon, <2>1 DEF new_table
  <2>4. Adds(m, lv, t, i, [j \in Index |-> NONE])
    BY Zenon, <1>0, <1>10 DEF Adds, e
  <2>5. {W} \in SUBSET {W, U}
    BY Zenon
  <2>6. ~PointsTo(m, t, i, m.table[t][i].frame)
    BY Zenon, <1>4, <1>10 DEF e
  <2> QED
    BY ZenonT(30), <1>9, <2>2, <2>3, <2>4, <2>5, <2>6 DEF Down
<1>11. CASE e # NONE /\ e.span # 0 /\ r # Failed(m)
  <2> DEFINE base == e.frame - (e.frame % Fanout)
             entries == [j \in Index |-> Leaf(base + j, e.flags)]
             flags == {W} \cup (e.flags \cap {U})
  <2> HIDE DEF base, entries, flags
  <2>1. m.free # {} /\ r = vmm_split_large_pd_entry(m, t, i) /\ lv[t] = 2
    BY Zenon, <1>3, <1>11 DEF vmm_split_large_pd_entry
  <2>2. take_page(m) \in m.free
    BY Zenon, <2>1 DEF take_page
  <2>3. r = Ok(AddTable(m, t, i, take_page(m), entries, flags), take_page(m))
    BY Zenon, <2>1 DEF vmm_split_large_pd_entry, e, base, entries, flags
  <2>4. base = e.frame
    <3>1. e.frame % Fanout = 0 /\ e.frame \in Nat
      BY <1>1, <1>11, <2>1 DEF GoodEntry, Entry
    <3> QED
      BY <3>1 DEF base
  <2>5. Adds(m, lv, t, i, entries)
    BY Zenon, <1>0, <1>11, <2>1, <2>4 DEF Adds, e, entries
  <2>6. flags \in SUBSET {W, U}
    BY Zenon DEF flags
  <2>7. ~PointsTo(m, t, i, m.table[t][i].frame)
    BY Zenon, <1>4, <1>11 DEF e
  <2> QED
    BY ZenonT(30), <1>9, <2>2, <2>3, <2>5, <2>6, <2>7 DEF Down
<1> QED
  BY Zenon, <1>3, <1>7, <1>8, <1>10, <1>11

(* A pointer to a table stays where it is. *)
LEMMA GrownPoints ==
    ASSUME NEW m, NEW n, Grown(m, n), NEW t \in DOMAIN m.table, NEW i \in Index, NEW f,
           PointsTo(m, t, i, f)
    PROVE  PointsTo(n, t, i, f) /\ t \in DOMAIN n.table
  BY Zenon DEF Grown, PointsTo

(* The walk to the lowest table.  Tables are added on the way, whether or  *)
(* not it succeeds; it does when no table is missing.                      *)
LEMMA Walk ==
    ASSUME NEW m, IsTree(m), NEW v \in Nat, NEW create \in BOOLEAN,
           NEW r, r = vmm_walk_to_pt(m, v, create)
    PROVE  /\ r.ok \in BOOLEAN /\ Grown(m, r.m) /\ IsTree(r.m)
           /\ r.ok => Small(r.m, v) /\ pde(r.m, v).frame = r.at
           /\ Small(m, v) => r.ok
<1> DEFINE z == Ok(m, g_pml4)
           a == down(z, v, 4, create)
           b == down(a, v, 3, create)
           c == down(b, v, 2, create)
<1> HIDE DEF z, a, b, c
<1>1. PICK lv : Tree(m, lv)
  BY Zenon DEF IsTree
<1>2. /\ table_index(v, 2) \in Index /\ table_index(v, 3) \in Index
      /\ table_index(v, 4) \in Index /\ g_pml4 \in DOMAIN m.table /\ lv[g_pml4] = 4
  BY Zenon, <1>1, Indices DEF Tree
<1>3. /\ r = c /\ a = next_table(m, g_pml4, table_index(v, 4), 4, create)
      /\ b = IF a.ok THEN next_table(a.m, a.at, table_index(v, 3), 3, create) ELSE a
      /\ c = IF b.ok THEN next_table(b.m, b.at, table_index(v, 2), 2, create) ELSE b
  <2>1. z.ok = TRUE /\ z.m = m /\ z.at = g_pml4
    BY DEF Ok, z
  <2>2. a = next_table(m, g_pml4, table_index(v, 4), 4, create)
    BY <2>1 DEF a, down
  <2> QED
    BY Zenon, <2>2 DEF vmm_walk_to_pt, down, z, a, b, c
<1>4. Down(m, g_pml4, table_index(v, 4), 4, a)
  <2>1. 4 \in 2..4
    OBVIOUS
  <2> QED
    BY Zenon, <1>1, <1>2, <1>3, <2>1, NextTable
<1>5. PICK ka : /\ Tree(a.m, ka)
                /\ a.ok => /\ PointsTo(a.m, g_pml4, table_index(v, 4), a.at)
                           /\ a.at \in DOMAIN a.m.table /\ ka[a.at] = 4 - 1
  BY Zenon, <1>4 DEF Down
<1>6. ASSUME a.ok PROVE Down(a.m, a.at, table_index(v, 3), 3, b)
  <2>1. 3 \in 2..4 /\ ka[a.at] = 3
    BY <1>5, <1>6
  <2>2. b = next_table(a.m, a.at, table_index(v, 3), 3, create) /\ a.at \in DOMAIN a.m.table
    BY <1>3, <1>5, <1>6
  <2> QED
    BY Zenon, <1>2, <1>5, <2>1, <2>2, NextTable
<1>7. \E k : /\ Tree(b.m, k)
             /\ b.ok => /\ PointsTo(b.m, a.at, table_index(v, 3), b.at)
                        /\ b.at \in DOMAIN b.m.table /\ k[b.at] = 3 - 1
  <2>1. CASE a.ok
    <3>1. Down(a.m, a.at, table_index(v, 3), 3, b)
      BY Zenon, <1>6, <2>1
    <3> QED
      BY <3>1 DEF Down
  <2>2. CASE ~a.ok
    <3>1. b = a /\ ~b.ok
      BY Zenon, <1>3, <2>2
    <3>2. Tree(b.m, ka)
      BY <1>5, <3>1
    <3> QED
      BY Zenon, <3>1, <3>2
  <2> QED
    BY Zenon, <2>1, <2>2
<1>8. PICK kb : /\ Tree(b.m, kb)
                /\ b.ok => /\ PointsTo(b.m, a.at, table_index(v, 3), b.at)
                           /\ b.at \in DOMAIN b.m.table /\ kb[b.at] = 3 - 1
  BY Zenon, <1>7
<1>9. ASSUME b.ok PROVE Down(b.m, b.at, table_index(v, 2), 2, c)
  <2>1. 2 \in 2..4 /\ kb[b.at] = 2
    BY SMTT(30), Z3T(30), SMTT(40), <1>8, <1>9
  <2>2. c = next_table(b.m, b.at, table_index(v, 2), 2, create) /\ b.at \in DOMAIN b.m.table
    BY <1>3, <1>8, <1>9
  <2> QED
    BY Zenon, <1>2, <1>8, <2>1, <2>2, NextTable
<1>10. PICK kc : Tree(c.m, kc) /\ (b.ok /\ c.ok => PointsTo(c.m, b.at, table_index(v, 2), c.at))
  <2>1. CASE b.ok
    <3>1. Down(b.m, b.at, table_index(v, 2), 2, c)
      BY Zenon, <1>9, <2>1
    <3> QED
      BY <3>1 DEF Down
  <2>2. CASE ~b.ok
    <3>1. c = b
      BY Zenon, <1>3, <2>2
    <3>2. Tree(c.m, kb)
      BY <1>8, <3>1
    <3> QED
      BY Zenon, <2>2, <3>2
  <2> QED
    BY Zenon, <2>1, <2>2
<1>11. /\ b.ok \in BOOLEAN /\ c.ok \in BOOLEAN /\ (b.ok => a.ok) /\ (c.ok => b.ok)
  BY Zenon, <1>3, <1>4, <1>6, <1>9 DEF Down
<1>12. Grown(m, b.m)
  <2>1. CASE a.ok
    BY Zenon, <1>4, <1>6, <2>1, GrownTwice DEF Down
  <2>2. CASE ~a.ok
    BY Zenon, <1>3, <1>4, <2>2 DEF Down
  <2> QED
    BY Zenon, <2>1, <2>2
<1>13. Grown(m, c.m)
  <2>1. CASE b.ok
    BY Zenon, <1>9, <1>12, <2>1, GrownTwice DEF Down
  <2>2. CASE ~b.ok
    BY Zenon, <1>3, <1>12, <2>2
  <2> QED
    BY Zenon, <2>1, <2>2
<1>14. ASSUME c.ok
       PROVE  Small(c.m, v) /\ pde(c.m, v).frame = c.at
  <2>1. a.ok /\ b.ok /\ Grown(a.m, b.m) /\ Grown(b.m, c.m)
    BY Zenon, <1>6, <1>9, <1>11, <1>14 DEF Down
  <2>2. g_pml4 \in DOMAIN a.m.table
    BY Zenon, <1>5 DEF Tree
  <2>3. PointsTo(b.m, g_pml4, table_index(v, 4), a.at) /\ g_pml4 \in DOMAIN b.m.table
    <3>1. PointsTo(a.m, g_pml4, table_index(v, 4), a.at)
      BY Zenon, <1>5, <2>1
    <3> QED
      BY Zenon, <1>2, <2>1, <2>2, <3>1, GrownPoints
  <2>4. PointsTo(c.m, g_pml4, table_index(v, 4), a.at)
    BY Zenon, <1>2, <2>1, <2>3, GrownPoints
  <2>5. a.at \in DOMAIN b.m.table
    BY Zenon, <1>5, <2>1 DEF Grown
  <2>6. PointsTo(c.m, a.at, table_index(v, 3), b.at)
    BY Zenon, <1>2, <1>8, <2>1, <2>5, GrownPoints
  <2>7. PointsTo(c.m, b.at, table_index(v, 2), c.at)
    BY Zenon, <1>10, <1>14, <2>1
  <2>8. Way(c.m, kc, v)
    BY Zenon, <1>10, Path
  <2>9. pml4e(c.m, v) # NONE /\ pml4e(c.m, v).frame = a.at
    BY Zenon, <2>4, <2>8 DEF Way, PointsTo
  <2>10. pdpte(c.m, v) # NONE /\ pdpte(c.m, v).frame = b.at
    BY Zenon, <2>6, <2>8, <2>9 DEF Way, PointsTo
  <2> QED
    BY Zenon, <2>7, <2>8, <2>10 DEF Way, PointsTo, Small
<1>15. ASSUME Small(m, v) PROVE c.ok
  <2> DEFINE x == pml4e(m, v)
             y == pdpte(m, v)
             w == pde(m, v)
  <2> HIDE DEF x, y, w
  <2>1. Way(m, lv, v)
    BY Zenon, <1>1, Path
  <2>2. w # NONE /\ w.span = 0
    BY Zenon, <1>15 DEF Small, w
  <2>3. y # NONE /\ y.span = 0 /\ w = m.table[y.frame][table_index(v, 2)]
    BY Zenon, <2>1, <2>2 DEF Way, y, w
  <2>4. /\ x # NONE /\ x.span = 0 /\ y = m.table[x.frame][table_index(v, 3)]
        /\ x = m.table[g_pml4][table_index(v, 4)]
    BY Zenon, <2>1, <2>3 DEF Way, x, y
  <2>5. \A f : Ok(m, f).ok = TRUE /\ Ok(m, f).m = m /\ Ok(m, f).at = f
    BY DEF Ok
  <2>6. a.ok = TRUE /\ a.m = m /\ a.at = x.frame
    <3>1. PointsTo(m, g_pml4, table_index(v, 4), m.table[g_pml4][table_index(v, 4)].frame)
      BY Zenon, <2>4 DEF PointsTo
    <3> QED
      <4>1. a = Ok(m, x.frame)
        BY Zenon, <1>4, <2>4, <3>1 DEF Down
      <4> QED
        BY Zenon, <2>5, <4>1
  <2>7. b.ok = TRUE /\ b.m = m /\ b.at = y.frame
    <3>1. PointsTo(a.m, a.at, table_index(v, 3), a.m.table[a.at][table_index(v, 3)].frame)
          /\ a.m.table[a.at][table_index(v, 3)] = y
      BY Zenon, <2>3, <2>4, <2>6 DEF PointsTo
    <3>2. b = Ok(a.m, y.frame)
      BY Zenon, <1>6, <2>6, <3>1 DEF Down
    <3> QED
      BY <2>5, <2>6, <3>2
  <2>8. PointsTo(b.m, b.at, table_index(v, 2), b.m.table[b.at][table_index(v, 2)].frame)
    BY <2>2, <2>3, <2>7 DEF PointsTo
  <2>9. c = Ok(b.m, b.m.table[b.at][table_index(v, 2)].frame)
    BY Zenon, <1>9, <2>7, <2>8 DEF Down
  <2> QED
    BY <2>9 DEF Ok
<1> QED
  BY Zenon, <1>3, <1>10, <1>11, <1>13, <1>14, <1>15 DEF IsTree

-----------------------------------------------------------------------------
(* The entries of the lowest tables. *)

(* Pages that no table tells apart, level by level. *)
LEMMA SameEntry ==
    ASSUME NEW v, NEW w
    PROVE  same_entry(v, w) <=> /\ table_index(v, 1) = table_index(w, 1)
                                /\ table_index(v, 2) = table_index(w, 2)
                                /\ table_index(v, 3) = table_index(w, 3)
                                /\ table_index(v, 4) = table_index(w, 4)
<1>1. \A level \in 1..4 : level = 1 \/ level = 2 \/ level = 3 \/ level = 4
  OBVIOUS
<1>2. 1 \in 1..4 /\ 2 \in 1..4 /\ 3 \in 1..4 /\ 4 \in 1..4
  OBVIOUS
<1> QED
  BY Zenon, <1>1, <1>2 DEF same_entry

(* They have the same entries. *)
LEMMA SameWay ==
    ASSUME NEW m, NEW lv, Tree(m, lv), NEW v \in Nat, NEW w \in Nat, same_entry(v, w)
    PROVE  /\ pde(m, v) = pde(m, w) /\ pte(m, v) = pte(m, w)
           /\ vmm_query_mapping(m, v) = vmm_query_mapping(m, w)
<1>1. Way(m, lv, v) /\ Way(m, lv, w)
  BY Zenon, Path
<1>2. /\ table_index(v, 1) = table_index(w, 1) /\ table_index(v, 2) = table_index(w, 2)
      /\ table_index(v, 3) = table_index(w, 3) /\ table_index(v, 4) = table_index(w, 4)
  BY Zenon, SameEntry
<1>3. pml4e(m, v) = pml4e(m, w)
  BY Zenon, <1>2 DEF pml4e, look
<1>4. pdpte(m, v) = pdpte(m, w)
  BY Zenon, <1>2, <1>3 DEF pdpte, look
<1>5. pde(m, v) = pde(m, w)
  BY Zenon, <1>2, <1>4 DEF pde, look
<1>6. pte(m, v) = pte(m, w)
  BY Zenon, <1>2, <1>5 DEF pte, look
<1> DEFINE e == pte(m, v)
<1> HIDE DEF e
<1>7. ASSUME e = NONE PROVE vmm_query_mapping(m, v) = vmm_query_mapping(m, w)
  <2>1. page_of(pte(m, v), v) = NONE /\ page_of(pte(m, w), w) = NONE
    BY Zenon, <1>6, <1>7 DEF page_of, e
  <2> QED
    BY Zenon, <1>1, <2>1 DEF Way
<1>8. ASSUME e # NONE PROVE vmm_query_mapping(m, v) = vmm_query_mapping(m, w)
  <2>1. e.span = 1 \/ e.span = Fanout
    <3>1. CASE Small(m, v)
      BY Zenon, <1>1, <1>8, <3>1 DEF Way, e
    <3>2. CASE ~Small(m, v)
      BY Zenon, <1>1, <1>8, <3>2 DEF Way, Small, e
    <3> QED
      BY Zenon, <3>1, <3>2
  <2>2. v % Fanout = w % Fanout /\ v % 1 = w % 1
    <3>1. v % Fanout = w % Fanout
      BY Zenon, <1>2, Indices
    <3>2. v % 1 = 0 /\ w % 1 = 0
      OBVIOUS
    <3> QED
      BY Zenon, <3>1, <3>2
  <2>3. page_of(e, v) = page_of(e, w)
    BY Zenon, <2>1, <2>2 DEF page_of
  <2>4. page_of(pte(m, v), v) = page_of(pte(m, w), w)
    BY Zenon, <1>6, <2>3 DEF e
  <2> QED
    BY Zenon, <1>1, <2>4 DEF Way
<1> QED
  BY Zenon, <1>5, <1>6, <1>7, <1>8

(* Only one way leads to a table: pages whose lowest tables are the same   *)
(* have the same indices above.                                            *)
LEMMA OneWay ==
    ASSUME NEW m, NEW lv, Tree(m, lv), NEW v \in Nat, NEW w \in Nat,
           Small(m, v), Small(m, w), pde(m, v).frame = pde(m, w).frame
    PROVE  /\ table_index(v, 2) = table_index(w, 2) /\ table_index(v, 3) = table_index(w, 3)
           /\ table_index(v, 4) = table_index(w, 4)
<1>1. Way(m, lv, v) /\ Way(m, lv, w)
  BY Zenon, Path
<1>2. ASSUME NEW s \in DOMAIN m.table, NEW t \in DOMAIN m.table, NEW i \in Index, NEW j \in Index,
             NEW f \in DOMAIN m.table, PointsTo(m, s, i, f), PointsTo(m, t, j, f)
      PROVE  s = t /\ i = j
  BY <1>2 DEF Tree
<1>3. ASSUME NEW x \in Nat, Way(m, lv, x), Small(m, x)
      PROVE  /\ pml4e(m, x) # NONE /\ pdpte(m, x) # NONE
             /\ pde(m, x).frame \in DOMAIN m.table
             /\ pdpte(m, x).frame \in DOMAIN m.table
             /\ pml4e(m, x).frame \in DOMAIN m.table
             /\ PointsTo(m, pdpte(m, x).frame, table_index(x, 2), pde(m, x).frame)
             /\ PointsTo(m, pml4e(m, x).frame, table_index(x, 3), pdpte(m, x).frame)
             /\ PointsTo(m, g_pml4, table_index(x, 4), pml4e(m, x).frame)
  <2>1. pde(m, x) # NONE /\ pde(m, x).span = 0
    BY Zenon, <1>3 DEF Small
  <2>2. pdpte(m, x) # NONE /\ pml4e(m, x) # NONE
    BY Zenon, <1>3, <2>1 DEF Way
  <2> QED
    BY Zenon, <1>3, <2>1, <2>2 DEF Way, PointsTo
<1>4. /\ table_index(v, 2) \in Index /\ table_index(v, 3) \in Index /\ table_index(v, 4) \in Index
      /\ table_index(w, 2) \in Index /\ table_index(w, 3) \in Index /\ table_index(w, 4) \in Index
      /\ g_pml4 \in DOMAIN m.table
  BY Zenon, Indices DEF Tree
<1>5. table_index(v, 2) = table_index(w, 2) /\ pdpte(m, v).frame = pdpte(m, w).frame
  <2>1. PointsTo(m, pdpte(m, w).frame, table_index(w, 2), pde(m, v).frame)
    <3>1. PointsTo(m, pdpte(m, w).frame, table_index(w, 2), pde(m, w).frame)
      BY Zenon, <1>1, <1>3
    <3> QED
      BY Zenon, <3>1 DEF PointsTo
  <2>2. PointsTo(m, pdpte(m, v).frame, table_index(v, 2), pde(m, v).frame)
    BY Zenon, <1>1, <1>3
  <2>3. /\ pdpte(m, v).frame \in DOMAIN m.table /\ pdpte(m, w).frame \in DOMAIN m.table
        /\ pde(m, v).frame \in DOMAIN m.table
    BY Zenon, <1>1, <1>3
  <2> QED
    BY SMTT(20), <1>2, <1>4, <2>1, <2>2, <2>3
<1>6. table_index(v, 3) = table_index(w, 3) /\ pml4e(m, v).frame = pml4e(m, w).frame
  <2>1. PointsTo(m, pml4e(m, w).frame, table_index(w, 3), pdpte(m, v).frame)
    <3>1. PointsTo(m, pml4e(m, w).frame, table_index(w, 3), pdpte(m, w).frame)
      BY Zenon, <1>1, <1>3
    <3> QED
      BY Zenon, <1>5, <3>1 DEF PointsTo
  <2>2. PointsTo(m, pml4e(m, v).frame, table_index(v, 3), pdpte(m, v).frame)
    BY Zenon, <1>1, <1>3
  <2>3. /\ pml4e(m, v).frame \in DOMAIN m.table /\ pml4e(m, w).frame \in DOMAIN m.table
        /\ pdpte(m, v).frame \in DOMAIN m.table
    BY Zenon, <1>1, <1>3
  <2> QED
    BY SMTT(20), <1>2, <1>4, <2>1, <2>2, <2>3
<1>7. table_index(v, 4) = table_index(w, 4)
  <2>1. PointsTo(m, g_pml4, table_index(w, 4), pml4e(m, v).frame)
    <3>1. PointsTo(m, g_pml4, table_index(w, 4), pml4e(m, w).frame)
      BY Zenon, <1>1, <1>3
    <3> QED
      BY Zenon, <1>6, <3>1 DEF PointsTo
  <2> QED
    BY Zenon, <1>1, <1>2, <1>3, <1>4, <2>1
<1> QED
  BY Zenon, <1>5, <1>6, <1>7

(* The lowest entry of a page is set, to nothing or to a frame: only that  *)
(* page, and those no table tells from it, change.                         *)
LEMMA SetLeaf ==
    ASSUME NEW m, NEW lv, Tree(m, lv), NEW v \in Nat, Small(m, v),
           NEW x, x = NONE \/ (x \in Entry /\ x.span = 1),
           NEW n, n = SetEntry(m, pde(m, v).frame, table_index(v, 1), x)
    PROVE  /\ Tree(n, lv) /\ n.free = m.free /\ DOMAIN n.table = DOMAIN m.table
           /\ \A w \in Nat :
                 /\ Small(n, w) <=> Small(m, w)
                 /\ vmm_query_mapping(n, w) =
                      IF same_entry(w, v) THEN page_of(x, w) ELSE vmm_query_mapping(m, w)
<1> DEFINE D == DOMAIN m.table
           t == pde(m, v).frame
           i == table_index(v, 1)
<1> HIDE DEF D, t, i
<1>1. i \in Index /\ t \in D /\ lv[t] = 1 /\ pte(m, v) = m.table[t][i]
  <2>1. Way(m, lv, v) /\ i \in Index
    BY Zenon, Path, Indices DEF i
  <2> QED
    BY Zenon, <2>1 DEF Way, Small, D, t, i
<1>2. /\ m = [free |-> m.free, table |-> m.table]
      /\ m.table \in [D -> [Index -> Entry \cup {NONE}]]
  BY Zenon DEF Tree, D
<1>3. n = [free |-> m.free, table |-> [m.table EXCEPT ![t] = [@ EXCEPT ![i] = x]]]
  BY SMTT(30), Z3T(30), SMTT(40), <1>2 DEF SetEntry, t, i
<1>4. /\ n.free = m.free /\ DOMAIN n.table = D /\ n = [free |-> n.free, table |-> n.table]
      /\ n.table[t] = [m.table[t] EXCEPT ![i] = x]
      /\ \A s \in D : s # t => n.table[s] = m.table[s]
  BY <1>1, <1>2, <1>3
<1>5. ASSUME NEW s \in D PROVE m.table[s] \in [Index -> Entry \cup {NONE}]
  BY <1>2
<1>6. /\ n.table[t][i] = x
      /\ \A j \in Index : j # i => n.table[t][j] = m.table[t][j]
  BY <1>1, <1>4, <1>5
<1>7. n.table \in [DOMAIN n.table -> [Index -> Entry \cup {NONE}]]
  BY <1>1, <1>2, <1>3
<1>8. \A s \in D, j \in Index : s # t \/ j # i => n.table[s][j] = m.table[s][j]
  BY Zenon, <1>4, <1>6
<1>9. m.table[t][i] = NONE \/ m.table[t][i].span # 0
  <2>1. m.table[t][i] # NONE => GoodEntry(m, lv, t, m.table[t][i])
    BY Zenon, <1>1, CellTyped DEF D
  <2> QED
    BY <1>1, <2>1 DEF GoodEntry
<1>10. x = NONE \/ x.span = 1
  BY Zenon
<1>11. \A s \in D, j \in Index, g \in D : PointsTo(n, s, j, g) <=> PointsTo(m, s, j, g)
  <2> TAKE s \in D, j \in Index, g \in D
  <2>1. CASE s = t /\ j = i
    <3>1. ~PointsTo(m, s, j, g)
      BY Zenon, <1>9, <2>1 DEF PointsTo
    <3>2. ~PointsTo(n, s, j, g)
      BY <1>6, <1>10, <2>1 DEF PointsTo
    <3> QED
      BY Zenon, <3>1, <3>2
  <2>2. CASE s # t \/ j # i
    BY Zenon, <1>8, <2>2 DEF PointsTo
  <2> QED
    BY Zenon, <2>1, <2>2
<1>12. Tree(n, lv)
  <2>1. ASSUME NEW s \in D, NEW j \in Index, n.table[s][j] # NONE
        PROVE  GoodEntry(n, lv, s, n.table[s][j])
    <3>1. CASE s = t /\ j = i
      <4>1. lv[s] = 1 /\ n.table[s][j].span = 1
        BY Zenon, <1>1, <1>6, <1>10, <2>1, <3>1
      <4>2. ~(1 = 0)
        OBVIOUS
      <4> QED
        BY Zenon, <4>1, <4>2 DEF GoodEntry
    <3>2. CASE s # t \/ j # i
      <4>1. n.table[s][j] = m.table[s][j]
        BY Zenon, <1>8, <3>2
      <4>2. GoodEntry(m, lv, s, m.table[s][j])
        BY Zenon, <2>1, <4>1, CellTyped DEF D
      <4> QED
        BY Zenon, <1>4, <4>1, <4>2 DEF GoodEntry, D
    <3> QED
      BY Zenon, <3>1, <3>2
  <2>2. \A g \in D \ {g_pml4} : \E s \in D, j \in Index : PointsTo(n, s, j, g)
    <3>1. \A g \in D \ {g_pml4} : \E s \in D, j \in Index : PointsTo(m, s, j, g)
      BY Zenon DEF Tree, D
    <3> QED
      BY Zenon, <1>11, <3>1
  <2>3. \A r, s \in D, j, k \in Index, g \in D :
           PointsTo(n, r, j, g) /\ PointsTo(n, s, k, g) => r = s /\ j = k
    <3>1. \A r, s \in D, j, k \in Index, g \in D :
             PointsTo(m, r, j, g) /\ PointsTo(m, s, k, g) => r = s /\ j = k
      BY Zenon DEF Tree, D
    <3> QED
      BY SMTT(20), <1>11, <3>1
  <2>4. /\ m.free \subseteq Nat /\ m.free \cap D = {} /\ lv \in [D -> 1..4]
        /\ g_pml4 \in D /\ lv[g_pml4] = 4
    BY Zenon DEF Tree, D
  <2>5. \A s \in DOMAIN n.table, j \in Index :
           n.table[s][j] # NONE => GoodEntry(n, lv, s, n.table[s][j])
    BY Zenon, <1>4, <2>1
  <2>6. \A g \in DOMAIN n.table \ {g_pml4} :
           \E s \in DOMAIN n.table, j \in Index : PointsTo(n, s, j, g)
    BY <1>4, <2>2
  <2>7. \A r, s \in DOMAIN n.table, j, k \in Index, g \in DOMAIN n.table :
           PointsTo(n, r, j, g) /\ PointsTo(n, s, k, g) => r = s /\ j = k
    BY <1>4, <2>3
  <2>8. /\ n.free \subseteq Nat /\ n.free \cap DOMAIN n.table = {}
        /\ lv \in [DOMAIN n.table -> 1..4] /\ g_pml4 \in DOMAIN n.table
    BY Zenon, <1>4, <2>4
  <2> QED
    BY Zenon, <1>4, <1>7, <2>4, <2>5, <2>6, <2>7, <2>8 DEF Tree
<1>13. ASSUME NEW w \in Nat
       PROVE  pde(n, w) = pde(m, w) /\ (Small(n, w) <=> Small(m, w))
  <2>1. Way(m, lv, w) /\ Way(n, lv, w)
    BY Zenon, <1>12, Path
  <2>2. /\ table_index(w, 2) \in Index /\ table_index(w, 3) \in Index
        /\ table_index(w, 4) \in Index /\ g_pml4 \in D /\ lv[g_pml4] = 4
    BY Zenon, Indices DEF Tree, D
  <2>3. \A s \in D, j \in Index : lv[s] = 2 \/ lv[s] = 3 \/ lv[s] = 4 => n.table[s][j] = m.table[s][j]
    <3> TAKE s \in D, j \in Index
    <3>1. lv[s] = 2 \/ lv[s] = 3 \/ lv[s] = 4 => s # t
      BY <1>1
    <3> QED
      BY Zenon, <1>8, <3>1
  <2>4. pml4e(n, w) = pml4e(m, w)
    BY Zenon, <2>1, <2>2, <2>3 DEF Way
  <2>5. pdpte(n, w) = pdpte(m, w)
    <3>1. CASE pml4e(m, w) = NONE
      BY Zenon, <2>1, <2>4, <3>1 DEF Way
    <3>2. CASE pml4e(m, w) # NONE
      BY ZenonT(40), <2>1, <2>2, <2>3, <2>4, <3>2 DEF Way, D
    <3> QED
      BY Zenon, <3>1, <3>2
  <2>6. pde(n, w) = pde(m, w)
    <3>1. CASE pdpte(m, w) = NONE
      BY Zenon, <2>1, <2>5, <3>1 DEF Way
    <3>2. CASE pdpte(m, w) # NONE
      BY ZenonT(40), <2>1, <2>2, <2>3, <2>5, <3>2 DEF Way, D
    <3> QED
      BY Zenon, <3>1, <3>2
  <2> QED
    BY Zenon, <2>6 DEF Small
<1>14. ASSUME NEW w \in Nat, same_entry(w, v)
       PROVE  vmm_query_mapping(n, w) = page_of(x, w)
  <2>1. pde(m, w) = pde(m, v)
    BY Zenon, <1>14, SameWay
  <2>2. pde(n, w) = pde(m, v) /\ Small(n, w) /\ table_index(w, 1) = i
    BY Zenon, <1>13, <1>14, <2>1, SameEntry DEF Small, i
  <2>3. Way(n, lv, w)
    BY Zenon, <1>12, Path
  <2>4. pte(n, w) = n.table[t][i]
    BY Zenon, <2>2, <2>3 DEF Way, t
  <2>5. pte(n, w) = x
    BY Zenon, <1>6, <2>4
  <2> QED
    BY Zenon, <2>3, <2>5 DEF Way
<1>15. ASSUME NEW w \in Nat, ~same_entry(w, v)
       PROVE  vmm_query_mapping(n, w) = vmm_query_mapping(m, w)
  <2>1. Way(m, lv, w) /\ Way(n, lv, w) /\ table_index(w, 1) \in Index
    BY Zenon, <1>12, Path, Indices
  <2>2. pte(n, w) = pte(m, w)
    <3>1. CASE ~Small(m, w)
      BY Zenon, <1>13, <2>1, <3>1 DEF Way
    <3>2. CASE Small(m, w)
      <4> DEFINE s == pde(m, w).frame
                 j == table_index(w, 1)
      <4> HIDE DEF s, j
      <4>1. s \in D /\ pte(m, w) = m.table[s][j] /\ pte(n, w) = n.table[s][j] /\ j \in Index
        BY Zenon, <1>13, <2>1, <3>2 DEF Way, Small, D, s, j
      <4>2. s # t \/ j # i
        <5>1. ASSUME s = t, j = i PROVE FALSE
          <6>1. pde(m, w).frame = pde(m, v).frame
            BY Zenon, <5>1 DEF s, t
          <6>2. /\ table_index(w, 2) = table_index(v, 2) /\ table_index(w, 3) = table_index(v, 3)
                /\ table_index(w, 4) = table_index(v, 4)
            BY Zenon, <3>2, <6>1, OneWay
          <6> QED
            BY Zenon, <1>15, <5>1, <6>2, SameEntry DEF i, j
        <5> QED
          BY Zenon, <5>1
      <4> QED
        BY Zenon, <1>8, <4>1, <4>2
    <3> QED
      BY Zenon, <3>1, <3>2
  <2> QED
    BY Zenon, <2>1, <2>2 DEF Way
<1> QED
  BY Zenon, <1>4, <1>12, <1>13, <1>14, <1>15 DEF D

(* Tables are only added, and no large page comes into a page's way. *)
Kept(m, n) ==
    /\ DOMAIN m.table \subseteq DOMAIN n.table /\ n.free \subseteq m.free
    /\ n.free \cup DOMAIN n.table = m.free \cup DOMAIN m.table
    /\ \A w \in Nat : Small(m, w) => Small(n, w)

(* What setting the entry of v, which must be absent or present, leaves    *)
(* and returns: q is the page's mapping afterwards.                        *)
Sets(m, v, absent, q, r) ==
    /\ IsTree(r.m) /\ r.ok \in BOOLEAN /\ Kept(m, r.m)
    /\ ~r.ok => \A w \in Nat : vmm_query_mapping(r.m, w) = vmm_query_mapping(m, w)
    /\ r.ok => /\ (vmm_query_mapping(m, v) = NONE) <=> absent
               /\ Small(r.m, v)
               /\ \A w \in Nat : vmm_query_mapping(r.m, w) =
                                   IF same_entry(w, v) THEN q ELSE vmm_query_mapping(m, w)
    /\ Small(m, v) /\ ((vmm_query_mapping(m, v) = NONE) <=> absent) => r.ok

(* Growing keeps. *)
LEMMA GrownKept ==
    ASSUME NEW m, IsTree(m), NEW n, IsTree(n), Grown(m, n)
    PROVE  Kept(m, n)
<1>1. PICK lv : Tree(m, lv)
  BY Zenon DEF IsTree
<1>2. PICK k : Tree(n, k)
  BY Zenon DEF IsTree
<1>3. \A w \in Nat : Small(m, w) => Small(n, w)
  BY Zenon, <1>1, <1>2, GrownSmall
<1> QED
  BY Zenon, <1>3 DEF Kept, Grown

(* A page with an entry of its own is mapped when the entry is present. *)
LEMMA Present ==
    ASSUME NEW m, IsTree(m), NEW v \in Nat, Small(m, v)
    PROVE  (vmm_query_mapping(m, v) = NONE) <=>
           (m.table[pde(m, v).frame][table_index(v, 1)] = NONE)
<1> DEFINE e == m.table[pde(m, v).frame][table_index(v, 1)]
<1> HIDE DEF e
<1>1. PICK lv : Tree(m, lv)
  BY Zenon DEF IsTree
<1>2. Way(m, lv, v)
  BY Zenon, <1>1, Path
<1>3. pte(m, v) = e /\ vmm_query_mapping(m, v) = page_of(e, v)
  BY Zenon, <1>2 DEF Way, e
<1>4. e # NONE => e \in Entry /\ e.span = 1
  BY Zenon, <1>2, <1>3 DEF Way
<1>5. ASSUME e # NONE PROVE page_of(e, v) # NONE
  <2>1. [frame |-> e.frame + (v % e.span), flags |-> e.flags] \in Mapping
    <3>1. v % 1 = 0
      OBVIOUS
    <3> QED
      BY <1>4, <1>5, <3>1 DEF Entry, Mapping
  <2> QED
    BY Zenon, <1>5, <2>1, PageTableAssumption DEF page_of, PageTableAssumption
<1>6. e = NONE => page_of(e, v) = NONE
  BY Zenon DEF page_of
<1> QED
  BY Zenon, <1>3, <1>5, <1>6 DEF e

(* The end of vmm_map_page and vmm_unmap_page. *)
LEMMA SetPte ==
    ASSUME NEW m, IsTree(m), NEW v \in Nat, NEW create \in BOOLEAN, NEW absent \in BOOLEAN,
           NEW x, x = NONE \/ (x \in Entry /\ x.span = 1),
           NEW q, \A w \in Nat : page_of(x, w) = q,
           NEW r, r = set_pte(vmm_walk_to_pt(m, v, create), table_index(v, 1), absent, x)
    PROVE  Sets(m, v, absent, q, r)
<1> DEFINE z == vmm_walk_to_pt(m, v, create)
           i == table_index(v, 1)
<1> HIDE DEF z, i
<1>1. /\ z.ok \in BOOLEAN /\ Grown(m, z.m) /\ IsTree(z.m)
      /\ z.ok => Small(z.m, v) /\ pde(z.m, v).frame = z.at
      /\ Small(m, v) => z.ok
  BY Zenon, Walk DEF z
<1>2. r = IF ~z.ok \/ (z.m.table[z.at][i] = NONE) # absent THEN Failed(z.m)
          ELSE Ok(SetEntry(z.m, z.at, i, x), z.at)
  BY Zenon DEF set_pte, z, i
<1>3. Kept(m, z.m)
  BY Zenon, <1>1, GrownKept
<1>4. \A w \in Nat : vmm_query_mapping(z.m, w) = vmm_query_mapping(m, w)
  BY Zenon, <1>1 DEF Grown
<1>5. z.ok => ((vmm_query_mapping(m, v) = NONE) <=> (z.m.table[z.at][i] = NONE))
  <2> HAVE z.ok
  <2>1. (vmm_query_mapping(z.m, v) = NONE) <=>
        (z.m.table[pde(z.m, v).frame][table_index(v, 1)] = NONE)
    BY Zenon, <1>1, Present
  <2>2. pde(z.m, v).frame = z.at /\ vmm_query_mapping(z.m, v) = vmm_query_mapping(m, v)
    BY Zenon, <1>1, <1>4
  <2> QED
    BY <2>1, <2>2 DEF i
<1>6. CASE ~z.ok \/ (z.m.table[z.at][i] = NONE) # absent
  <2>1. r = Failed(z.m)
    BY Zenon, <1>2, <1>6
  <2>2. r.ok = FALSE /\ r.m = z.m
    BY <2>1 DEF Failed
  <2>3. IsTree(r.m) /\ Kept(m, r.m)
    BY <1>1, <1>3, <2>2
  <2>4. \A w \in Nat : vmm_query_mapping(r.m, w) = vmm_query_mapping(m, w)
    BY <1>4, <2>2
  <2>5. ~(Small(m, v) /\ ((vmm_query_mapping(m, v) = NONE) <=> absent))
    BY Zenon, <1>1, <1>5, <1>6
  <2> QED
    BY Zenon, <2>2, <2>3, <2>4, <2>5 DEF Sets
<1>7. CASE z.ok /\ (z.m.table[z.at][i] = NONE) = absent
  <2> DEFINE n == SetEntry(z.m, z.at, i, x)
  <2> HIDE DEF n
  <2>1. r = Ok(n, z.at)
    BY Zenon, <1>1, <1>2, <1>7 DEF n
  <2>2. r.ok = TRUE /\ r.m = n
    BY <2>1 DEF Ok
  <2>3. PICK lv : Tree(z.m, lv)
    BY Zenon, <1>1 DEF IsTree
  <2>4. n = SetEntry(z.m, pde(z.m, v).frame, table_index(v, 1), x) /\ Small(z.m, v)
    BY <1>1, <1>7 DEF n, i
  <2>5. /\ Tree(n, lv) /\ n.free = z.m.free /\ DOMAIN n.table = DOMAIN z.m.table
        /\ \A w \in Nat :
              /\ Small(n, w) <=> Small(z.m, w)
              /\ vmm_query_mapping(n, w) =
                   IF same_entry(w, v) THEN page_of(x, w) ELSE vmm_query_mapping(z.m, w)
    BY SMTT(30), <2>3, <2>4, SetLeaf
  <2>6. IsTree(r.m)
    <3>1. IsTree(n)
      BY Zenon, <2>5 DEF IsTree
    <3> QED
      BY <2>2, <3>1
  <2>7. Kept(m, n)
    <3>1. \A w \in Nat : Small(m, w) => Small(n, w)
      BY Zenon, <1>3, <2>5 DEF Kept
    <3>2. /\ DOMAIN m.table \subseteq DOMAIN n.table /\ n.free \subseteq m.free
          /\ n.free \cup DOMAIN n.table = m.free \cup DOMAIN m.table
      BY <1>3, <2>5 DEF Kept
    <3> QED
      BY Zenon, <3>1, <3>2 DEF Kept
  <2>8. /\ Small(n, v)
        /\ \A w \in Nat : vmm_query_mapping(n, w) =
                            IF same_entry(w, v) THEN q ELSE vmm_query_mapping(m, w)
    BY Zenon, <1>4, <2>4, <2>5
  <2>9. /\ Kept(m, r.m) /\ Small(r.m, v)
        /\ \A w \in Nat : vmm_query_mapping(r.m, w) =
                            IF same_entry(w, v) THEN q ELSE vmm_query_mapping(m, w)
    BY <2>2, <2>7, <2>8
  <2>10. (vmm_query_mapping(m, v) = NONE) <=> absent
    BY Zenon, <1>5, <1>7
  <2> QED
    BY Zenon, <2>2, <2>6, <2>9, <2>10 DEF Sets
<1> QED
  BY Zenon, <1>1, <1>6, <1>7

(* A page is mapped. *)
LEMMA MapPage ==
    ASSUME NEW m, IsTree(m), NEW v \in Nat, NEW f \in Nat, NEW flags \in SUBSET {W, U}
    PROVE  Sets(m, v, TRUE, [frame |-> f, flags |-> flags], vmm_map_page(m, v, f, flags))
<1>1. Leaf(f, flags) \in Entry /\ Leaf(f, flags).span = 1
  BY DEF Leaf, Entry
<1>2. Leaf(f, flags) # NONE
  BY Zenon, <1>1, PageTableAssumption DEF PageTableAssumption
<1>3. \A w \in Nat : page_of(Leaf(f, flags), w) = [frame |-> f, flags |-> flags]
  <2> TAKE w \in Nat
  <2>1. f + (w % 1) = f
    OBVIOUS
  <2> QED
    BY <1>2, <2>1 DEF page_of, Leaf
<1> QED
  <2> DEFINE x == Leaf(f, flags)
             q == [frame |-> f, flags |-> flags]
             r == vmm_map_page(m, v, f, flags)
  <2>1. r = set_pte(vmm_walk_to_pt(m, v, TRUE), table_index(v, 1), TRUE, x)
    BY Zenon DEF vmm_map_page
  <2>2. (x = NONE \/ (x \in Entry /\ x.span = 1)) /\ \A w \in Nat : page_of(x, w) = q
    BY Zenon, <1>1, <1>3
  <2> HIDE DEF x, q, r
  <2>3. \A absent \in BOOLEAN, create \in BOOLEAN :
           r = set_pte(vmm_walk_to_pt(m, v, create), table_index(v, 1), absent, x)
           => Sets(m, v, absent, q, r)
    BY Zenon, <2>2, SetPte
  <2>4. Sets(m, v, TRUE, q, r)
    BY Zenon, <2>1, <2>3
  <2> QED
    BY Zenon, <2>4 DEF q, r

(* A page is unmapped. *)
LEMMA UnmapPage ==
    ASSUME NEW m, IsTree(m), NEW v \in Nat
    PROVE  Sets(m, v, FALSE, NONE, vmm_unmap_page(m, v))
<1>1. \A w \in Nat : page_of(NONE, w) = NONE
  BY Zenon DEF page_of
<1> QED
  <2> DEFINE r == vmm_unmap_page(m, v)
  <2>1. r = set_pte(vmm_walk_to_pt(m, v, FALSE), table_index(v, 1), FALSE, NONE)
    BY Zenon DEF vmm_unmap_page
  <2> HIDE DEF r
  <2>2. \A absent \in BOOLEAN, create \in BOOLEAN :
           r = set_pte(vmm_walk_to_pt(m, v, create), table_index(v, 1), absent, NONE)
           => Sets(m, v, absent, NONE, r)
    BY Zenon, <1>1, SetPte
  <2>3. Sets(m, v, FALSE, NONE, r)
    BY Zenon, <2>1, <2>2
  <2> QED
    BY Zenon, <2>3 DEF r

-----------------------------------------------------------------------------
(* The heap, its frames, and the mappings of boot. *)

(* The frames behind heap pages. *)
Frames(m, H) == {vmm_query_mapping(m, v).frame : v \in H}

(* Of the heap's window exactly the pages in H are mapped, each through an *)
(* entry of its own and to a frame of its own.                             *)
HeapMaps(m, H) ==
    /\ H \subseteq HeapWindow
    /\ \A v \in HeapWindow \ H : vmm_query_mapping(m, v) = NONE
    /\ \A v \in H : /\ vmm_query_mapping(m, v) # NONE /\ W \in vmm_query_mapping(m, v).flags
                    /\ Small(m, v)
    /\ \A v, w \in H :
          vmm_query_mapping(m, v).frame = vmm_query_mapping(m, w).frame => v = w

(* The boot mappings, without the page kmain's test replaces. *)
BootMaps(m) ==
    \A v \in Identity \ {SplitPage} : vmm_query_mapping(m, v) = [frame |-> v, flags |-> {W}]

(* The pages of pmm: free, a table, behind a heap page (F) or held (out). *)
Owned(m, F, out, P) ==
    /\ m.free \cup DOMAIN m.table \cup F \cup out = P \cup BootFrames
    /\ F \cap (m.free \cup DOMAIN m.table) = {}
    /\ out \cap (m.free \cup DOMAIN m.table) = {} /\ F \cap out = {}
    /\ BootFrames \subseteq DOMAIN m.table
    /\ P \subseteq Identity \ ({SplitPage} \cup BootFrames)

Sound(m, H, out, P) ==
    IsTree(m) /\ HeapMaps(m, H) /\ BootMaps(m) /\ Owned(m, Frames(m, H), out, P)

(* The page of kmain's split test: itself, or the frame that replaced it. *)
SplitMaps(m, f) ==
    \/ vmm_query_mapping(m, SplitPage) = [frame |-> SplitPage, flags |-> {W}]
    \/ /\ f \in Nat /\ vmm_query_mapping(m, SplitPage) = [frame |-> f, flags |-> {W}]
       /\ Small(m, SplitPage)

SplitKept(m, n) == \A f : SplitMaps(m, f) => SplitMaps(n, f)

(* Every page named here is a number. *)
LEMMA PagesAreNat ==
    /\ HeapWindow \subseteq Nat /\ Identity \subseteq Nat /\ UserPage \in Nat /\ SplitPage \in Nat
    /\ HeapWindow \subseteq Canonical /\ Identity \subseteq Canonical
    /\ UserPage \in Canonical /\ SplitPage \in Identity
    /\ HeapWindow \cap Identity = {} /\ UserPage \notin HeapWindow /\ UserPage \notin Identity
<1>1. Fanout \in Nat /\ Fanout > 1
  BY PageTableAssumption DEF PageTableAssumption
<1> DEFINE F2 == Fanout * Fanout
           F4 == Fanout * Fanout * Fanout * Fanout
<1>2. F2 \in Nat /\ F4 = F2 * F2
  BY <1>1, Z3
<1>3. F2 > 0
  BY <1>1, Z3
<1>4. F4 \in Nat /\ F2 <= F4
  <2> HIDE DEF F2, F4
  <2>1. F2 * F2 >= F2 /\ F2 * F2 \in Nat
    BY <1>2, <1>3, Z3
  <2> QED
    BY <1>2, <2>1
<1> HIDE DEF F2, F4
<1>5. Canonical = 0..(F4 - 1) /\ Identity = 0..(F2 - 1)
  BY Zenon DEF Canonical, Identity, F2, F4
<1>6. Canonical \subseteq Nat /\ Identity \subseteq Canonical
  BY <1>2, <1>4, <1>5
<1> QED
  BY Zenon, <1>6, VmmAssumption DEF VmmAssumption

(* Pages of the window and of boot are told apart by their indices. *)
LEMMA Apart ==
    ASSUME NEW v \in Canonical, NEW w \in Canonical, v # w
    PROVE  ~same_entry(v, w)
  BY Zenon, IndicesTell

(* Translations depend on the tables only. *)
LEMMA SameTables ==
    ASSUME NEW m, NEW n, n.table = m.table, NEW v
    PROVE  /\ vmm_query_mapping(n, v) = vmm_query_mapping(m, v)
           /\ Small(n, v) <=> Small(m, v)
<1>1. \A e, l : look(n, e, v, l) = look(m, e, v, l)
  BY Zenon DEF look
<1>2. pml4e(n, v) = pml4e(m, v)
  BY Zenon, <1>1 DEF pml4e
<1>3. pdpte(n, v) = pdpte(m, v)
  BY Zenon, <1>1, <1>2 DEF pdpte
<1>4. pde(n, v) = pde(m, v)
  BY Zenon, <1>1, <1>3 DEF pde
<1>5. pte(n, v) = pte(m, v)
  BY Zenon, <1>1, <1>4 DEF pte
<1>6. \A p : vmm_query_mapping(p, v) = page_of(pte(p, v), v)
  BY Zenon DEF vmm_query_mapping, pml4e, pdpte, pde, pte
<1> QED
  BY Zenon, <1>4, <1>5, <1>6 DEF Small

(* What holds of the translations holds of any state with the same ones. *)
LEMMA SameMaps ==
    ASSUME NEW m, NEW n, NEW H, HeapMaps(m, H), BootMaps(m),
           \A v \in HeapWindow \cup (Identity \ {SplitPage}) :
               vmm_query_mapping(n, v) = vmm_query_mapping(m, v),
           \A v \in HeapWindow : Small(m, v) => Small(n, v)
    PROVE  HeapMaps(n, H) /\ BootMaps(n) /\ Frames(n, H) = Frames(m, H)
<1>1. H \subseteq HeapWindow
  BY Zenon DEF HeapMaps
<1>2. \A v \in HeapWindow : vmm_query_mapping(n, v) = vmm_query_mapping(m, v)
  BY Zenon
<1>3. HeapMaps(n, H)
  <2>1. \A v \in HeapWindow \ H : vmm_query_mapping(n, v) = NONE
    BY Zenon, <1>2 DEF HeapMaps
  <2>2. \A v \in H : /\ vmm_query_mapping(n, v) # NONE /\ W \in vmm_query_mapping(n, v).flags
                     /\ Small(n, v)
    BY Zenon, <1>1, <1>2 DEF HeapMaps
  <2>3. ASSUME NEW v \in H, NEW w \in H,
               vmm_query_mapping(n, v).frame = vmm_query_mapping(n, w).frame
        PROVE  v = w
    <3>1. /\ vmm_query_mapping(n, v) = vmm_query_mapping(m, v)
          /\ vmm_query_mapping(n, w) = vmm_query_mapping(m, w)
      BY Zenon, <1>1, <1>2
    <3>2. vmm_query_mapping(m, v).frame = vmm_query_mapping(m, w).frame
      BY Zenon, <2>3, <3>1
    <3> QED
      BY Zenon, <3>2 DEF HeapMaps
  <2> QED
    BY Zenon, <1>1, <2>1, <2>2, <2>3 DEF HeapMaps
<1>4. BootMaps(n)
  BY Zenon DEF BootMaps
<1>5. Frames(n, H) = Frames(m, H)
  BY <1>1, <1>2 DEF Frames
<1> QED
  BY Zenon, <1>3, <1>4, <1>5

(* A page moves between pmm and whoever asked for it. *)
LEMMA TakeGive ==
    ASSUME NEW m, NEW H, NEW P, NEW out, NEW f
    PROVE  /\ Sound(m, H, out, P) /\ f \in m.free =>
                 /\ f \notin out /\ f \in P /\ f \in Nat
                 /\ Sound([m EXCEPT !.free = @ \ {f}], H, out \cup {f}, P)
           /\ Sound(m, H, out, P) /\ f \in out => Sound(give_page(m, f), H, out \ {f}, P)
<1>1. ASSUME Sound(m, H, out, P), NEW X, X \subseteq Nat, X \cap DOMAIN m.table = {},
             NEW n, n = [m EXCEPT !.free = X], NEW held,
             Owned(n, Frames(m, H), held, P)
      PROVE  Sound(n, H, held, P)
  <2>1. PICK lv : Tree(m, lv)
    BY Zenon, <1>1 DEF Sound, IsTree
  <2>2. m = [free |-> m.free, table |-> m.table]
    BY Zenon, <2>1 DEF Tree
  <2>3. n.free = X /\ n.table = m.table /\ n = [free |-> n.free, table |-> n.table]
    BY <1>1, <2>2
  <2>4. Tree(n, lv)
    <3>1. \A t, e : GoodEntry(n, lv, t, e) <=> GoodEntry(m, lv, t, e)
      BY Zenon, <2>3 DEF GoodEntry
    <3>2. \A t, i, g : PointsTo(n, t, i, g) <=> PointsTo(m, t, i, g)
      BY Zenon, <2>3 DEF PointsTo
    <3> QED
      BY SMTT(30), <1>1, <2>1, <2>3, <3>1, <3>2 DEF Tree
  <2>5. HeapMaps(n, H) /\ BootMaps(n) /\ Frames(n, H) = Frames(m, H)
    <3>1. \A v \in HeapWindow \cup (Identity \ {SplitPage}) :
             vmm_query_mapping(n, v) = vmm_query_mapping(m, v)
      BY Zenon, <2>3, SameTables
    <3>2. \A v \in HeapWindow : Small(m, v) => Small(n, v)
      BY Zenon, <2>3, SameTables
    <3>3. HeapMaps(m, H) /\ BootMaps(m)
      BY Zenon, <1>1 DEF Sound
    <3> QED
      BY ZenonT(40), <3>1, <3>2, <3>3, SameMaps
  <2> QED
    <3>1. Owned(n, Frames(n, H), held, P) /\ IsTree(n)
      BY <1>1, <2>4, <2>5 DEF IsTree
    <3> QED
      BY Zenon, <2>5, <3>1 DEF Sound
<1>2. ASSUME Sound(m, H, out, P)
      PROVE  /\ m.free \subseteq Nat /\ m.free \cap DOMAIN m.table = {}
             /\ m = [free |-> m.free, table |-> m.table] /\ Owned(m, Frames(m, H), out, P)
  BY Zenon, <1>2 DEF Sound, IsTree, Tree
<1>3. ASSUME Sound(m, H, out, P), f \in m.free
      PROVE  /\ f \notin out /\ f \in P /\ f \in Nat
             /\ Sound([m EXCEPT !.free = @ \ {f}], H, out \cup {f}, P)
  <2> DEFINE X == m.free \ {f}
             n == [m EXCEPT !.free = X]
             F == Frames(m, H)
  <2>1. n.free = m.free \ {f} /\ n.table = m.table
    BY <1>2, <1>3
  <2> HIDE DEF F
  <2>2. X \subseteq Nat /\ X \cap DOMAIN m.table = {} /\ f \in Nat /\ f \notin DOMAIN m.table
    BY <1>2, <1>3
  <2>3. Owned(m, F, out, P)
    BY Zenon, <1>2, <1>3 DEF F
  <2> HIDE DEF n
  <2>4. Owned(n, F, out \cup {f}, P) /\ f \notin out /\ f \in P
    BY <1>3, <2>1, <2>2, <2>3 DEF Owned
  <2>5. Sound(n, H, out \cup {f}, P)
    BY Zenon, <1>1, <1>3, <2>2, <2>4 DEF F, n
  <2> QED
    BY Zenon, <2>2, <2>4, <2>5 DEF n
<1>4. ASSUME Sound(m, H, out, P), f \in out
      PROVE  Sound(give_page(m, f), H, out \ {f}, P)
  <2> DEFINE X == m.free \cup {f}
             n == [m EXCEPT !.free = X]
             F == Frames(m, H)
  <2>1. n.free = m.free \cup {f} /\ n.table = m.table
    BY <1>2, <1>4
  <2> HIDE DEF F, n
  <2>2. Owned(m, F, out, P)
    BY Zenon, <1>2, <1>4 DEF F
  <2>3. f \in P \cup BootFrames /\ f \notin DOMAIN m.table
    BY <1>4, <2>2 DEF Owned
  <2>4. f \in P /\ P \subseteq Identity
    BY <2>2, <2>3 DEF Owned
  <2>5. f \in Nat
    BY Zenon, <2>4, PagesAreNat
  <2>6. X \subseteq Nat /\ X \cap DOMAIN m.table = {}
    BY <1>2, <1>4, <2>3, <2>5
  <2>7. Owned(n, F, out \ {f}, P)
    BY <1>4, <2>1, <2>2, <2>3 DEF Owned
  <2>8. Sound(n, H, out \ {f}, P)
    BY Zenon, <1>1, <1>4, <2>6, <2>7 DEF F, n
  <2> QED
    BY Zenon, <2>8 DEF give_page, n
<1> QED
  BY Zenon, <1>3, <1>4

(* Adding tables takes free pages, and nothing that is owned. *)
LEMMA KeptOwned ==
    ASSUME NEW m, NEW n, NEW F, NEW out, NEW P, Owned(m, F, out, P), Kept(m, n)
    PROVE  Owned(n, F, out, P)
  BY DEF Owned, Kept

(* Mapping or unmapping a page of neither the heap nor boot. *)
LEMMA SetElsewhere ==
    ASSUME NEW m, NEW H, NEW out, NEW P, Sound(m, H, out, P),
           NEW v \in Nat, NEW absent, NEW q, NEW r, Sets(m, v, absent, q, r),
           r.ok => \A w \in HeapWindow \cup (Identity \ {SplitPage}) : ~same_entry(w, v)
    PROVE  Sound(r.m, H, out, P)
<1>1. IsTree(r.m) /\ Kept(m, r.m)
  BY Zenon DEF Sets
<1>2. \A w \in HeapWindow \cup (Identity \ {SplitPage}) :
         vmm_query_mapping(r.m, w) = vmm_query_mapping(m, w)
  <2> TAKE w \in HeapWindow \cup (Identity \ {SplitPage})
  <2>1. w \in Nat
    BY Zenon, PagesAreNat
  <2>2. CASE ~r.ok
    BY Zenon, <2>1, <2>2 DEF Sets
  <2>3. CASE r.ok
    <3>1. ~same_entry(w, v)
      BY Zenon, <2>3
    <3> QED
      BY Zenon, <2>1, <2>3, <3>1 DEF Sets
  <2> QED
    BY Zenon, <2>2, <2>3
<1>3. \A w \in HeapWindow : Small(m, w) => Small(r.m, w)
  BY Zenon, <1>1, PagesAreNat DEF Kept
<1>4. HeapMaps(r.m, H) /\ BootMaps(r.m) /\ Frames(r.m, H) = Frames(m, H)
  BY ZenonT(40), <1>2, <1>3, SameMaps DEF Sound
<1>5. Owned(r.m, Frames(m, H), out, P)
  BY Zenon, <1>1, KeptOwned DEF Sound
<1>6. Owned(r.m, Frames(r.m, H), out, P)
  BY <1>4, <1>5
<1> QED
  BY Zenon, <1>1, <1>4, <1>6 DEF Sound

(* Mapping or unmapping a page other than the one of the split test. *)
LEMMA SetNotSplit ==
    ASSUME NEW m, NEW f, SplitMaps(m, f),
           NEW v \in Nat, NEW absent, NEW q, NEW r, Sets(m, v, absent, q, r),
           r.ok => ~same_entry(SplitPage, v)
    PROVE  SplitMaps(r.m, f)
<1>1. SplitPage \in Nat
  BY Zenon, PagesAreNat
<1>2. vmm_query_mapping(r.m, SplitPage) = vmm_query_mapping(m, SplitPage)
  <2>1. CASE ~r.ok
    BY Zenon, <1>1, <2>1 DEF Sets
  <2>2. CASE r.ok
    BY Zenon, <1>1, <2>2 DEF Sets
  <2> QED
    BY Zenon, <2>1, <2>2
<1>3. Small(m, SplitPage) => Small(r.m, SplitPage)
  BY Zenon, <1>1 DEF Sets, Kept
<1> QED
  BY Zenon, <1>2, <1>3 DEF SplitMaps

(* The split test's page does not depend on the free pages. *)
LEMMA FreeNotSplit ==
    ASSUME NEW m, IsTree(m), NEW f, SplitMaps(m, f), NEW X
    PROVE  SplitMaps([m EXCEPT !.free = X], f)
<1>1. m = [free |-> m.free, table |-> m.table]
  BY Zenon DEF IsTree, Tree
<1>2. [m EXCEPT !.free = X].table = m.table
  BY <1>1
<1> QED
  BY Zenon, <1>2, SameTables DEF SplitMaps

(* A held frame is mapped at the next page of the heap. *)
LEMMA MapHeap ==
    ASSUME NEW m, NEW H, NEW out, NEW P, Sound(m, H, out, P), NEW f \in out,
           NEW v \in HeapWindow \ H, NEW r, r = vmm_map_page(m, v, f, {W})
    PROVE  /\ r.ok \in BOOLEAN
           /\ r.ok => Sound(r.m, H \cup {v}, out \ {f}, P)
           /\ ~r.ok => Sound(r.m, H, out, P)
           /\ SplitKept(m, r.m)
<1> DEFINE F == Frames(m, H)
           q == [frame |-> f, flags |-> {W}]
<1> HIDE DEF F, q
<1>1. Owned(m, F, out, P) /\ IsTree(m) /\ HeapMaps(m, H) /\ BootMaps(m)
  BY Zenon DEF Sound, F
<1>2. f \in P /\ f \notin F /\ f \in Nat
  <2>1. f \in P /\ f \notin F /\ P \subseteq Identity
    BY <1>1 DEF Owned
  <2> QED
    BY Zenon, <2>1, PagesAreNat
<1>3. v \in Nat /\ v \in Canonical /\ v \notin Identity /\ v \in HeapWindow /\ v \notin H
  BY Zenon, PagesAreNat
<1>4. Sets(m, v, TRUE, q, r)
  <2>1. {W} \in SUBSET {W, U}
    BY Zenon
  <2> QED
    BY Zenon, <1>1, <1>2, <1>3, <2>1, MapPage DEF q
<1>5. IsTree(r.m) /\ Kept(m, r.m) /\ r.ok \in BOOLEAN
  BY Zenon, <1>4 DEF Sets
<1>6. \A w \in HeapWindow \cup Identity : w # v => ~same_entry(w, v)
  BY Zenon, <1>3, Apart, PagesAreNat
<1>7. ASSUME ~r.ok PROVE Sound(r.m, H, out, P)
  BY Zenon, <1>3, <1>4, <1>7, SetElsewhere
<1>8. ASSUME NEW g, SplitMaps(m, g) PROVE SplitMaps(r.m, g)
  <2>1. SplitPage # v /\ SplitPage \in Identity
    BY Zenon, <1>3, PagesAreNat
  <2>2. ~same_entry(SplitPage, v)
    BY Zenon, <1>6, <2>1
  <2> QED
    BY Zenon, <1>3, <1>4, <1>8, <2>2, SetNotSplit
<1>9. ASSUME r.ok PROVE Sound(r.m, H \cup {v}, out \ {f}, P)
  <2>1. \A w \in Nat : vmm_query_mapping(r.m, w) =
                          IF same_entry(w, v) THEN q ELSE vmm_query_mapping(m, w)
    BY Zenon, <1>4, <1>9 DEF Sets
  <2>2. Small(r.m, v)
    BY Zenon, <1>4, <1>9 DEF Sets
  <2>3. same_entry(v, v)
    BY Zenon DEF same_entry
  <2>4. vmm_query_mapping(r.m, v) = q
    BY Zenon, <1>3, <2>1, <2>3
  <2>5. \A w \in HeapWindow \cup Identity :
           w # v => vmm_query_mapping(r.m, w) = vmm_query_mapping(m, w)
    BY Zenon, <1>6, <2>1, PagesAreNat
  <2>6. BootMaps(r.m)
    BY Zenon, <1>1, <1>3, <2>5 DEF BootMaps
  <2>7. q # NONE /\ q.frame = f /\ W \in q.flags
    <3>1. q \in Mapping
      BY <1>2 DEF q, Mapping
    <3>2. q # NONE
      BY Zenon, <3>1, PageTableAssumption DEF PageTableAssumption
    <3> QED
      BY <3>2 DEF q
  <2>8. H \subseteq HeapWindow
    BY Zenon, <1>1 DEF HeapMaps
  <2>9. \A w \in H : /\ vmm_query_mapping(r.m, w) = vmm_query_mapping(m, w)
                     /\ vmm_query_mapping(m, w).frame \in F
    BY Zenon, <1>3, <2>5, <2>8 DEF F, Frames
  <2>10. HeapMaps(r.m, H \cup {v})
    <3>1. \A w \in HeapWindow \ (H \cup {v}) : vmm_query_mapping(r.m, w) = NONE
      BY Zenon, <1>1, <2>5 DEF HeapMaps
    <3>2. ASSUME NEW w \in H
          PROVE  /\ vmm_query_mapping(r.m, w) # NONE /\ W \in vmm_query_mapping(r.m, w).flags
                 /\ Small(r.m, w)
      <4>1. Small(m, w) /\ w \in Nat
        BY Zenon, <1>1, <2>8, PagesAreNat DEF HeapMaps
      <4>2. Small(r.m, w)
        BY Zenon, <1>5, <4>1 DEF Kept
      <4> QED
        BY Zenon, <1>1, <2>9, <4>2 DEF HeapMaps
    <3>3. \A w \in H \cup {v} :
             /\ vmm_query_mapping(r.m, w) # NONE /\ W \in vmm_query_mapping(r.m, w).flags
             /\ Small(r.m, w)
      BY Zenon, <2>2, <2>4, <2>7, <3>2
    <3>4. ASSUME NEW w \in H \cup {v}, NEW x \in H \cup {v},
                 vmm_query_mapping(r.m, w).frame = vmm_query_mapping(r.m, x).frame
          PROVE  w = x
      <4>1. CASE w \in H /\ x \in H
        BY Zenon, <1>1, <2>9, <3>4, <4>1 DEF HeapMaps
      <4>2. \A y \in H : vmm_query_mapping(r.m, y).frame # f
        BY Zenon, <1>2, <2>9
      <4>3. vmm_query_mapping(r.m, v).frame = f
        BY Zenon, <2>4, <2>7
      <4> QED
        BY Zenon, <3>4, <4>1, <4>2, <4>3
    <3> QED
      BY Zenon, <1>3, <2>8, <3>1, <3>3, <3>4 DEF HeapMaps
  <2>11. Frames(r.m, H \cup {v}) = F \cup {f}
    <3>1. vmm_query_mapping(r.m, v).frame = f
      BY Zenon, <2>4, <2>7
    <3> QED
      BY SMTT(30), Z3T(30), SMTT(40), <2>9, <3>1 DEF F, Frames
  <2>12. Owned(r.m, F, out, P)
    BY Zenon, <1>1, <1>5, KeptOwned
  <2>13. Owned(r.m, F \cup {f}, out \ {f}, P)
    <3> DEFINE A == r.m.free \cup DOMAIN r.m.table
    <3>1. /\ A \cup F \cup out = P \cup BootFrames /\ F \cap A = {}
          /\ out \cap A = {} /\ F \cap out = {} /\ f \in out
      BY Zenon, <2>12 DEF Owned
    <3> HIDE DEF A
    <3>2. /\ A \cup (F \cup {f}) \cup (out \ {f}) = P \cup BootFrames
          /\ (F \cup {f}) \cap A = {} /\ (out \ {f}) \cap A = {}
          /\ (F \cup {f}) \cap (out \ {f}) = {}
      BY <3>1
    <3> QED
      BY Zenon, <2>12, <3>2 DEF Owned, A
  <2>14. Owned(r.m, Frames(r.m, H \cup {v}), out \ {f}, P)
    BY <2>11, <2>13
  <2> QED
    BY Zenon, <1>5, <2>6, <2>10, <2>14 DEF Sound
<1> QED
  BY Zenon, <1>5, <1>7, <1>8, <1>9 DEF SplitKept

(* A page of the heap is given back (the rollback of                       *)
(* vmm_alloc_kernel_pages).                                                *)
LEMMA UndoHeap ==
    ASSUME NEW m, NEW H, NEW out, NEW P, Sound(m, H, out, P), NEW v \in H,
           NEW n, n = undo_page(m, v)
    PROVE  /\ Sound(n, H \ {v}, out, P)
           /\ SplitKept(m, n)
<1> DEFINE F == Frames(m, H)
           f == vmm_query_mapping(m, v).frame
           r == vmm_unmap_page(m, v)
<1> HIDE DEF F, f, r
<1>1. Owned(m, F, out, P) /\ IsTree(m) /\ HeapMaps(m, H) /\ BootMaps(m)
  BY Zenon DEF Sound, F
<1>2. vmm_query_mapping(m, v) # NONE /\ Small(m, v) /\ f \in F /\ H \subseteq HeapWindow
  BY Zenon, <1>1 DEF HeapMaps, F, Frames, f
<1>3. v \in Nat /\ v \in Canonical /\ v \notin Identity /\ v \in HeapWindow
  BY Zenon, <1>2, PagesAreNat
<1>4. n = give_page(r.m, f)
  BY Zenon, <1>2 DEF undo_page, r, f
<1>5. Sets(m, v, FALSE, NONE, r)
  BY Zenon, <1>1, <1>3, UnmapPage DEF r
<1>6. r.ok
  BY Zenon, <1>2, <1>5 DEF Sets
<1>7. /\ IsTree(r.m) /\ Kept(m, r.m)
      /\ \A w \in Nat : vmm_query_mapping(r.m, w) =
                          IF same_entry(w, v) THEN NONE ELSE vmm_query_mapping(m, w)
  BY Zenon, <1>5, <1>6 DEF Sets
<1>8. \A w \in HeapWindow \cup Identity : w # v => ~same_entry(w, v)
  BY Zenon, <1>3, Apart, PagesAreNat
<1>9. vmm_query_mapping(r.m, v) = NONE
  <2>1. same_entry(v, v)
    BY Zenon DEF same_entry
  <2> QED
    BY Zenon, <1>3, <1>7, <2>1
<1>10. \A w \in HeapWindow \cup Identity :
          w # v => vmm_query_mapping(r.m, w) = vmm_query_mapping(m, w)
  BY Zenon, <1>7, <1>8, PagesAreNat
<1> DEFINE G == Frames(m, H \ {v})
<1> HIDE DEF G
<1>11. G = F \ {f}
  <2>1. \A w \in H : w # v => vmm_query_mapping(m, w).frame # f
    BY Zenon, <1>1 DEF HeapMaps, f
  <2> QED
    BY <2>1 DEF F, G, f, Frames
<1>12. \A w \in H \ {v} : vmm_query_mapping(r.m, w) = vmm_query_mapping(m, w)
  BY Zenon, <1>2, <1>10
<1>13. Frames(r.m, H \ {v}) = G
  BY <1>12 DEF G, Frames
<1>14. HeapMaps(r.m, H \ {v})
  <2>1. \A w \in HeapWindow \ (H \ {v}) : vmm_query_mapping(r.m, w) = NONE
    <3> TAKE w \in HeapWindow \ (H \ {v})
    <3>1. CASE w = v
      BY Zenon, <1>9, <3>1
    <3>2. CASE w # v
      <4>1. vmm_query_mapping(m, w) = NONE
        BY Zenon, <1>1, <3>2 DEF HeapMaps
      <4> QED
        BY Zenon, <1>10, <3>2, <4>1
    <3> QED
      BY Zenon, <3>1, <3>2
  <2>2. ASSUME NEW w \in H \ {v}
        PROVE  /\ vmm_query_mapping(r.m, w) # NONE /\ W \in vmm_query_mapping(r.m, w).flags
               /\ Small(r.m, w)
    <3>1. w \in H /\ w \in Nat /\ Small(m, w)
      BY Zenon, <1>1, <1>2, PagesAreNat DEF HeapMaps
    <3>2. Small(r.m, w)
      BY Zenon, <1>7, <3>1 DEF Kept
    <3> QED
      BY Zenon, <1>1, <1>12, <3>1, <3>2 DEF HeapMaps
  <2>3. \A w, x \in H \ {v} :
           vmm_query_mapping(r.m, w).frame = vmm_query_mapping(r.m, x).frame => w = x
    BY Zenon, <1>1, <1>12 DEF HeapMaps
  <2> QED
    BY Zenon, <1>2, <2>1, <2>2, <2>3 DEF HeapMaps
<1>15. BootMaps(r.m)
  BY Zenon, <1>1, <1>3, <1>10 DEF BootMaps
<1>16. Owned(r.m, F, out, P)
  BY Zenon, <1>1, <1>7, KeptOwned
<1>17. Owned(r.m, F \ {f}, out \cup {f}, P) /\ f \notin out
  <2> DEFINE A == r.m.free \cup DOMAIN r.m.table
  <2>1. /\ A \cup F \cup out = P \cup BootFrames /\ F \cap A = {}
        /\ out \cap A = {} /\ F \cap out = {}
    BY Zenon, <1>16 DEF Owned
  <2> HIDE DEF A
  <2>2. /\ A \cup (F \ {f}) \cup (out \cup {f}) = P \cup BootFrames
        /\ (F \ {f}) \cap A = {} /\ (out \cup {f}) \cap A = {}
        /\ (F \ {f}) \cap (out \cup {f}) = {} /\ f \notin out
    BY <1>2, <2>1
  <2> QED
    BY Zenon, <1>16, <2>2 DEF Owned, A
<1>18. Sound(r.m, H \ {v}, out \cup {f}, P)
  <2>1. Owned(r.m, Frames(r.m, H \ {v}), out \cup {f}, P)
    BY <1>11, <1>13, <1>17
  <2> QED
    BY Zenon, <1>7, <1>14, <1>15, <2>1 DEF Sound
<1>19. Sound(n, H \ {v}, out, P)
  <2>1. Sound(give_page(r.m, f), H \ {v}, (out \cup {f}) \ {f}, P)
    <3> DEFINE held == out \cup {f}
    <3>1. f \in held
      OBVIOUS
    <3> HIDE DEF held
    <3>2. Sound(r.m, H \ {v}, held, P)
      BY Zenon, <1>18 DEF held
    <3>3. Sound(give_page(r.m, f), H \ {v}, held \ {f}, P)
      BY Zenon, <3>1, <3>2, TakeGive
    <3> QED
      BY Zenon, <3>3 DEF held
  <2>2. (out \cup {f}) \ {f} = out
    BY <1>17
  <2> QED
    BY <1>4, <2>1, <2>2
<1>20. ASSUME NEW g, SplitMaps(m, g) PROVE SplitMaps(n, g)
  <2>1. ~same_entry(SplitPage, v)
    BY Zenon, <1>3, <1>8, PagesAreNat
  <2>2. SplitMaps(r.m, g)
    BY Zenon, <1>3, <1>5, <1>20, <2>1, SetNotSplit
  <2> QED
    <3>1. n = [r.m EXCEPT !.free = r.m.free \cup {f}]
      BY Zenon, <1>4 DEF give_page
    <3>2. SplitMaps([r.m EXCEPT !.free = r.m.free \cup {f}], g)
      BY Zenon, <1>7, <2>2, FreeNotSplit
    <3> QED
      BY <3>1, <3>2
<1> QED
  BY Zenon, <1>19, <1>20 DEF SplitKept

-----------------------------------------------------------------------------
(* The loops. *)

INSTANCE WellFoundedInduction

(* A set of natural numbers that is not empty has a least element: what    *)
(* fails for some number fails for a first one.                            *)
LEMMA LeastNat ==
    \A T \in SUBSET Nat : T # {} => \E x \in T : \A y \in T : x <= y
<1> SUFFICES ASSUME NEW T \in SUBSET Nat, T # {}
             PROVE  \E x \in T : \A y \in T : x <= y
  OBVIOUS
<1> DEFINE R == OpToRel(<, Nat)
<1>1. IsWellFoundedOn(R, Nat)
  BY Zenon, NatLessThanWellFounded
<1>2. \A x, y \in Nat : x < y => <<x, y>> \in R
  BY DEF OpToRel
<1> HIDE DEF R
<1>3. PICK x \in T : \A y \in T : ~(<<y, x>> \in R)
  BY Zenon, <1>1, WFMin
<1>4. ASSUME NEW y \in T PROVE x <= y
  <2>1. ~(y < x)
    BY Zenon, <1>2, <1>3
  <2>2. x \in Nat /\ y \in Nat
    OBVIOUS
  <2> QED
    BY <2>1, <2>2
<1> QED
  BY <1>3, <1>4

(* What holds before the first turn, and after a turn when it held before, *)
(* holds after the last.                                                   *)
LEMMA AllTurns ==
    ASSUME NEW n \in Nat, NEW S, 0 \in S, \A i \in 0..(n - 1) : i \in S => i + 1 \in S
    PROVE  n \in S
<1> DEFINE T == {i \in 0..n : i \notin S}
<1> SUFFICES ASSUME n \notin S PROVE FALSE
  OBVIOUS
<1>1. T \subseteq Nat /\ n \in T
  OBVIOUS
<1> HIDE DEF T
<1>2. PICK k \in T : \A y \in T : k <= y
  BY <1>1, LeastNat
<1>3. k \in 0..n /\ k \notin S
  BY DEF T
<1>4. k # 0
  BY <1>3
<1>5. k - 1 \in 0..(n - 1) /\ k - 1 \notin T /\ (k - 1) + 1 = k /\ k - 1 \in 0..n
  BY <1>2, <1>3, <1>4
<1>6. k - 1 \in S
  BY <1>5 DEF T
<1> QED
  BY <1>3, <1>5, <1>6

(* The allocation loop after i turns. *)
Allocating(s, start, i, out, P, g) ==
    /\ s = [m |-> s.m, at |-> s.at, flags |-> {W}, ok |-> s.ok]
    /\ s.at \in start..(start + i) /\ s.ok \in BOOLEAN
    /\ Sound(s.m, HeapBase..(s.at - 1), out, P) /\ SplitMaps(s.m, g)

(* One more turn. *)
LEMMA AllocTurn ==
    ASSUME NEW start \in Nat, start >= HeapBase, NEW i \in Nat, start + i < g_kernel_heap_limit,
           NEW out, NEW P, NEW g, NEW s, Allocating(s, start, i, out, P, g)
    PROVE  Allocating(alloc_next(s), start, i + 1, out, P, g)
<1> DEFINE H == HeapBase..(s.at - 1)
<1>1. /\ s = [m |-> s.m, at |-> s.at, flags |-> {W}, ok |-> s.ok]
      /\ s.at \in start..(start + i) /\ s.ok \in BOOLEAN
      /\ Sound(s.m, H, out, P) /\ SplitMaps(s.m, g)
  BY Zenon DEF Allocating
<1>2. HeapBase \in Nat /\ g_kernel_heap_limit \in Nat
  BY VmmAssumption, AddressAssumption DEF VmmAssumption, AddressAssumption
<1>3. /\ s.at \in Nat /\ s.at \in start..(start + (i + 1)) /\ s.at + 1 \in start..(start + (i + 1))
      /\ s.at \in HeapWindow \ H /\ H \cup {s.at} = HeapBase..((s.at + 1) - 1)
  BY <1>1, <1>2 DEF HeapWindow
<1> HIDE DEF H
<1>4. ASSUME NEW t, NEW n, NEW b \in BOOLEAN, t = [m |-> n, at |-> s.at, flags |-> {W}, ok |-> b],
             Sound(n, H, out, P), SplitMaps(n, g)
      PROVE  Allocating(t, start, i + 1, out, P, g)
  <2>1. t.m = n /\ t.at = s.at /\ t.ok = b /\ t = [m |-> t.m, at |-> t.at, flags |-> {W}, ok |-> t.ok]
    BY <1>4
  <2>2. t.at \in start..(start + (i + 1)) /\ t.ok \in BOOLEAN
    BY Zenon, <1>3, <2>1
  <2>3. Sound(t.m, HeapBase..(t.at - 1), out, P) /\ SplitMaps(t.m, g)
    BY <1>4, <2>1 DEF H
  <2> QED
    BY Zenon, <2>1, <2>2, <2>3 DEF Allocating
<1>5. CASE ~s.ok
  <2>1. alloc_next(s) = s
    BY Zenon, <1>5 DEF alloc_next
  <2>2. Allocating(s, start, i + 1, out, P, g)
    BY Zenon, <1>1, <1>4
  <2> QED
    BY <2>1, <2>2
<1>6. CASE s.ok /\ s.m.free = {}
  <2>1. s.flags = {W}
    BY <1>1
  <2>2. alloc_next(s) = [m |-> s.m, at |-> s.at, flags |-> {W}, ok |-> FALSE]
    BY Zenon, <1>6, <2>1 DEF alloc_next
  <2> QED
    BY Zenon, <1>1, <1>4, <2>2
<1>7. CASE s.ok /\ s.m.free # {}
  <2> DEFINE f == take_page(s.m)
             m1 == [s.m EXCEPT !.free = @ \ {f}]
             r == vmm_map_page(m1, s.at, f, {W})
             held == out \cup {f}
  <2>1. f \in s.m.free
    BY Zenon, <1>7 DEF take_page
  <2>2. alloc_next(s) = alloc_mapped(s, r, f)
    <3>1. s.flags \cup {W} = {W}
      <4>1. s.flags = {W}
        BY <1>1
      <4> QED
        BY <4>1
    <3>2. alloc_next(s) = alloc_page(s, f)
      BY Zenon, <1>7 DEF alloc_next
    <3> QED
      BY Zenon, <3>1, <3>2 DEF alloc_page
  <2> HIDE DEF f
  <2>3. Sound(m1, H, held, P) /\ f \notin out
    BY ZenonT(40), <1>1, <2>1, TakeGive
  <2>4. f \in held /\ held \ {f} = out
    BY <2>3
  <2>5. SplitMaps(m1, g)
    BY Zenon, <1>1, FreeNotSplit DEF Sound
  <2> HIDE DEF m1, held
  <2>6. /\ r.ok \in BOOLEAN
        /\ r.ok => Sound(r.m, H \cup {s.at}, held \ {f}, P)
        /\ ~r.ok => Sound(r.m, H, held, P)
        /\ SplitMaps(r.m, g)
    <3> HIDE DEF r
    <3>1. r = vmm_map_page(m1, s.at, f, {W})
      BY Zenon DEF r
    <3>2. s.at \in HeapWindow \ H
      BY Zenon, <1>3
    <3>3. r.ok \in BOOLEAN
      BY Zenon, <2>3, <2>4, <3>1, <3>2, MapHeap
    <3>4. r.ok => Sound(r.m, H \cup {s.at}, held \ {f}, P)
      BY Zenon, <2>3, <2>4, <3>1, <3>2, MapHeap
    <3>5. ~r.ok => Sound(r.m, H, held, P)
      BY Zenon, <2>3, <2>4, <3>1, <3>2, MapHeap
    <3>6. SplitMaps(r.m, g)
      <4>1. SplitKept(m1, r.m)
        BY Zenon, <2>3, <2>4, <3>1, <3>2, MapHeap
      <4> QED
        BY Zenon, <2>5, <4>1 DEF SplitKept
    <3> QED
      BY Zenon, <3>3, <3>4, <3>5, <3>6
  <2> HIDE DEF r
  <2>7. CASE r.ok
    <3> DEFINE t == alloc_next(s)
    <3>1. s.flags = {W}
      BY <1>1
    <3>2. t = [m |-> r.m, at |-> s.at + 1, flags |-> {W}, ok |-> TRUE]
      BY Zenon, <2>2, <2>7, <3>1 DEF alloc_mapped
    <3> HIDE DEF t
    <3>3. /\ t.m = r.m /\ t.at = s.at + 1 /\ t.ok = TRUE
          /\ t = [m |-> t.m, at |-> t.at, flags |-> {W}, ok |-> t.ok]
      BY <3>2
    <3>4. Sound(r.m, HeapBase..((s.at + 1) - 1), out, P)
      BY Zenon, <1>3, <2>4, <2>6, <2>7
    <3>5. Sound(t.m, HeapBase..(t.at - 1), out, P) /\ SplitMaps(t.m, g)
      BY <2>6, <3>3, <3>4
    <3>6. t.at \in start..(start + (i + 1)) /\ t.ok \in BOOLEAN
      BY Zenon, <1>3, <3>3
    <3>7. Allocating(t, start, i + 1, out, P, g)
      BY Zenon, <3>3, <3>5, <3>6 DEF Allocating
    <3> QED
      BY Zenon, <3>7 DEF t
  <2>8. CASE ~r.ok
    <3> DEFINE n == give_page(r.m, f)
    <3>1. s.flags = {W}
      BY <1>1
    <3>2. alloc_next(s) = [m |-> n, at |-> s.at, flags |-> {W}, ok |-> FALSE]
      BY Zenon, <2>2, <2>8, <3>1 DEF alloc_mapped
    <3> HIDE DEF n
    <3>3. Sound(r.m, H, held, P)
      BY Zenon, <2>6, <2>8
    <3>4. Sound(n, H, held \ {f}, P)
      BY Zenon, <2>4, <3>3, TakeGive DEF n
    <3>5. Sound(n, H, out, P)
      BY <2>4, <3>4
    <3>6. SplitMaps(n, g)
      <4>1. n = [r.m EXCEPT !.free = r.m.free \cup {f}]
        BY Zenon DEF n, give_page
      <4>2. SplitMaps([r.m EXCEPT !.free = r.m.free \cup {f}], g)
        BY Zenon, <2>6, <3>3, FreeNotSplit DEF Sound
      <4> QED
        BY <4>1, <4>2
    <3> QED
      BY Zenon, <1>4, <3>2, <3>5, <3>6
  <2> QED
    BY Zenon, <2>6, <2>7, <2>8
<1> QED
  BY Zenon, <1>5, <1>6, <1>7


AllocTurns == INSTANCE Loops WITH Step <- alloc_next

(* The whole allocation loop. *)
LEMMA AllocLoop ==
    ASSUME NEW start \in Nat, start >= HeapBase, NEW n \in Nat, start + n <= g_kernel_heap_limit,
           NEW out, NEW P, NEW g, NEW m, Sound(m, HeapBase..(start - 1), out, P), SplitMaps(m, g)
    PROVE  Allocating(alloc_loop(m, start, {W}, n), start, n, out, P, g)
<1> DEFINE first == [m |-> m, at |-> start, flags |-> {W}, ok |-> TRUE]
           turn == CHOOSE turn : turn = [i \in 0..n |->
                                            IF i = 0 THEN first ELSE alloc_next(turn[i - 1])]
<1>1. alloc_loop(m, start, {W}, n) = turn[n]
  BY Zenon DEF alloc_loop
<1>2. turn = CHOOSE g_1 : AllocTurns!IsLoop(g_1, first, n)
  BY Zenon DEF AllocTurns!IsLoop
<1> HIDE DEF turn
<1>3. AllocTurns!IsLoop(turn, first, n)
  BY <1>2, LeastNat, AllocTurns!LoopExists
<1>4. turn[0] = first /\ \A i \in 0..(n - 1) : turn[i + 1] = alloc_next(turn[i])
  <2> HIDE DEF first
  <2>1. AllocTurns!Turns(turn, first, n)
    BY <1>3, AllocTurns!LoopTurns
  <2> QED
    BY <2>1 DEF AllocTurns!Turns
<1>5. HeapBase \in Nat /\ g_kernel_heap_limit \in Nat
  BY VmmAssumption, AddressAssumption DEF VmmAssumption, AddressAssumption
<1> DEFINE S == {i \in 0..n : Allocating(turn[i], start, i, out, P, g)}
<1>6. 0 \in S
  <2>0. ASSUME NEW t, NEW b \in BOOLEAN, t = [m |-> m, at |-> start, flags |-> {W}, ok |-> b]
        PROVE  /\ t.m = m /\ t.at = start /\ t.ok = b
               /\ t = [m |-> t.m, at |-> t.at, flags |-> {W}, ok |-> t.ok]
    BY <2>0
  <2>1. /\ first.m = m /\ first.at = start /\ first.ok = TRUE
        /\ first = [m |-> first.m, at |-> first.at, flags |-> {W}, ok |-> first.ok]
    BY Zenon, <2>0
  <2> HIDE DEF first
  <2>2. Sound(first.m, HeapBase..(first.at - 1), out, P) /\ SplitMaps(first.m, g)
    BY Zenon, <2>1
  <2>3. first.at \in start..(start + 0) /\ first.ok \in BOOLEAN /\ 0 \in 0..n
    <3>1. start \in start..(start + 0) /\ 0 \in 0..n
      OBVIOUS
    <3> QED
      BY Zenon, <2>1, <3>1
  <2>4. Allocating(first, start, 0, out, P, g)
    BY Zenon, <2>1, <2>2, <2>3 DEF Allocating
  <2> QED
    BY Zenon, <1>4, <2>3, <2>4
<1>7. ASSUME NEW i \in 0..(n - 1), i \in S PROVE i + 1 \in S
  <2>1. i \in Nat /\ start + i < g_kernel_heap_limit /\ i + 1 \in 0..n
    BY <1>5
  <2>2. Allocating(turn[i], start, i, out, P, g)
    BY Zenon, <1>7
  <2>3. Allocating(alloc_next(turn[i]), start, i + 1, out, P, g)
    BY Zenon, <2>1, <2>2, AllocTurn
  <2> QED
    BY Zenon, <1>4, <2>1, <2>3
<1> HIDE DEF S
<1>8. n \in S
  BY Zenon, <1>6, <1>7, AllTurns
<1> QED
  BY Zenon, <1>1, <1>8 DEF S

(* The rollback of the pages start..(top - 1) after j turns. *)
Undoing(s, start, j, top, out, P, g) ==
    /\ s.at = start + j
    /\ Sound(s.m, (HeapBase..(start - 1)) \cup ((start + j)..(top - 1)), out, P)
    /\ SplitMaps(s.m, g)

(* One more page. *)
LEMMA UndoTurn ==
    ASSUME NEW start \in Nat, start >= HeapBase, NEW top \in Nat, top <= g_kernel_heap_limit,
           NEW j \in Nat, start + j < top,
           NEW out, NEW P, NEW g, NEW s, Undoing(s, start, j, top, out, P, g)
    PROVE  Undoing(undo_next(s), start, j + 1, top, out, P, g)
<1> DEFINE H == (HeapBase..(start - 1)) \cup ((start + j)..(top - 1))
           K == (HeapBase..(start - 1)) \cup ((start + (j + 1))..(top - 1))
           t == undo_next(s)
           n == undo_page(s.m, s.at)
<1>1. s.at = start + j /\ Sound(s.m, H, out, P) /\ SplitMaps(s.m, g)
  BY Zenon DEF Undoing
<1>2. HeapBase \in Nat
  BY VmmAssumption DEF VmmAssumption
<1>3. s.at \in H /\ H \ {s.at} = K /\ s.at + 1 = start + (j + 1)
  BY <1>1, <1>2
<1>4. t.m = n /\ t.at = s.at + 1
  BY DEF undo_next
<1> HIDE DEF H, K, t
<1>5. Sound(n, H \ {s.at}, out, P)
  BY Zenon, <1>1, <1>3, UndoHeap
<1>6. SplitMaps(n, g)
  <2>1. SplitKept(s.m, n)
    BY Zenon, <1>1, <1>3, UndoHeap
  <2> QED
    BY Zenon, <1>1, <2>1 DEF SplitKept
<1> HIDE DEF n
<1>7. t.at = start + (j + 1) /\ Sound(t.m, K, out, P) /\ SplitMaps(t.m, g)
  BY <1>3, <1>4, <1>5, <1>6
<1> QED
  BY Zenon, <1>7 DEF Undoing, K, t

UndoTurns == INSTANCE Loops WITH Step <- undo_next

(* The whole rollback. *)
LEMMA Rollback ==
    ASSUME NEW start \in Nat, start >= HeapBase, NEW top \in Nat, top <= g_kernel_heap_limit,
           start <= top, NEW out, NEW P, NEW g, NEW m,
           Sound(m, HeapBase..(top - 1), out, P), SplitMaps(m, g),
           NEW r, r = rollback(m, start, top - start)
    PROVE  Sound(r, HeapBase..(start - 1), out, P) /\ SplitMaps(r, g)
<1> DEFINE n == top - start
           first == [m |-> m, at |-> start]
           turn == CHOOSE turn : turn = [i \in 0..n |->
                                            IF i = 0 THEN first ELSE undo_next(turn[i - 1])]
<1>1. r = turn[n].m
  BY Zenon DEF rollback
<1>2. n \in Nat /\ start + n = top
  OBVIOUS
<1> HIDE DEF n
<1>3. turn = CHOOSE g_1 : UndoTurns!IsLoop(g_1, first, n)
  BY Zenon DEF UndoTurns!IsLoop
<1> HIDE DEF turn
<1>4. UndoTurns!IsLoop(turn, first, n)
  BY <1>2, <1>3, LeastNat, UndoTurns!LoopExists
<1>5. turn[0] = first /\ \A i \in 0..(n - 1) : turn[i + 1] = undo_next(turn[i])
  <2> HIDE DEF first
  <2>1. UndoTurns!Turns(turn, first, n)
    BY <1>2, <1>4, UndoTurns!LoopTurns
  <2> QED
    BY <2>1 DEF UndoTurns!Turns
<1>6. HeapBase \in Nat
  BY VmmAssumption DEF VmmAssumption
<1> DEFINE S == {i \in 0..n : Undoing(turn[i], start, i, top, out, P, g)}
<1>7. 0 \in S
  <2>1. first.m = m /\ first.at = start /\ start + 0 = start /\ 0 \in 0..n
    BY <1>2
  <2> HIDE DEF first
  <2>2. HeapBase..(top - 1) = (HeapBase..(start - 1)) \cup ((start + 0)..(top - 1))
    BY <1>6
  <2>3. Undoing(first, start, 0, top, out, P, g)
    BY Zenon, <2>1, <2>2 DEF Undoing
  <2> QED
    BY Zenon, <1>5, <2>1, <2>3
<1>8. ASSUME NEW i \in 0..(n - 1), i \in S PROVE i + 1 \in S
  <2>1. i \in Nat /\ start + i < top /\ i + 1 \in 0..n
    BY <1>2
  <2>2. Undoing(turn[i], start, i, top, out, P, g)
    BY Zenon, <1>8
  <2>3. Undoing(undo_next(turn[i]), start, i + 1, top, out, P, g)
    BY Zenon, <2>1, <2>2, UndoTurn
  <2> QED
    BY Zenon, <1>5, <2>1, <2>3
<1> HIDE DEF S
<1>9. n \in S
  BY Zenon, <1>2, <1>7, <1>8, AllTurns
<1>10. Undoing(turn[n], start, n, top, out, P, g)
  BY Zenon, <1>9 DEF S
<1>11. (HeapBase..(start - 1)) \cup ((start + n)..(top - 1)) = HeapBase..(start - 1)
  BY <1>2
<1> QED
  BY Zenon, <1>1, <1>10, <1>11 DEF Undoing

(* vmm_alloc_kernel_pages moves the end of the heap by the request, or     *)
(* leaves the heap as it was.                                              *)
LEMMA AllocPages ==
    ASSUME NEW start \in HeapBase..g_kernel_heap_limit, NEW n \in Nat,
           NEW out, NEW P, NEW g, NEW m, Sound(m, HeapBase..(start - 1), out, P), SplitMaps(m, g),
           NEW r, r = vmm_alloc_kernel_pages(m, start, n, {W})
    PROVE  /\ r.ok \in BOOLEAN
           /\ r.ok => /\ r.at = start /\ n # 0 /\ start + n \in HeapBase..g_kernel_heap_limit
                      /\ Sound(r.m, HeapBase..((start + n) - 1), out, P)
           /\ ~r.ok => Sound(r.m, HeapBase..(start - 1), out, P)
           /\ SplitMaps(r.m, g)
<1> DEFINE a == alloc_loop(m, start, {W}, n)
<1>1. start \in Nat /\ start >= HeapBase /\ HeapBase \in Nat /\ g_kernel_heap_limit \in Nat
      /\ PageEnd \in Nat
  BY VmmAssumption, AddressAssumption DEF VmmAssumption, AddressAssumption
<1>2. \A x, at : /\ Ok(x, at).ok = TRUE /\ Ok(x, at).m = x /\ Ok(x, at).at = at
               /\ Failed(x).ok = FALSE /\ Failed(x).m = x
  BY DEF Ok, Failed
<1>3. CASE HeapRefuses(start, n)
  <2>1. r = Failed(m)
    BY Zenon, <1>3 DEF vmm_alloc_kernel_pages
  <2> QED
    BY Zenon, <1>2, <2>1
<1>4. CASE ~HeapRefuses(start, n)
  <2>1. n # 0 /\ start + n <= g_kernel_heap_limit /\ start + n \in HeapBase..g_kernel_heap_limit
    BY <1>1, <1>4 DEF HeapRefuses
  <2>2. r = IF a.at = start + n THEN Ok(a.m, start) ELSE Failed(rollback(a.m, start, a.at - start))
    BY Zenon, <1>4 DEF vmm_alloc_kernel_pages
  <2>3. Allocating(a, start, n, out, P, g)
    BY Zenon, <1>1, <2>1, AllocLoop
  <2> HIDE DEF a
  <2>4. /\ a.at \in start..(start + n)
        /\ Sound(a.m, HeapBase..(a.at - 1), out, P) /\ SplitMaps(a.m, g)
    BY Zenon, <2>3 DEF Allocating
  <2>5. CASE a.at = start + n
    <3>1. r = Ok(a.m, start)
      BY Zenon, <2>2, <2>5
    <3>2. r.ok = TRUE /\ r.m = a.m /\ r.at = start
      BY <3>1 DEF Ok
    <3>3. Sound(r.m, HeapBase..((start + n) - 1), out, P) /\ SplitMaps(r.m, g)
      <4>1. HeapBase..(a.at - 1) = HeapBase..((start + n) - 1)
        BY <2>5
      <4> QED
        BY Zenon, <2>4, <3>2, <4>1
    <3>4. r.ok /\ r.ok \in BOOLEAN
      BY Zenon, <3>2
    <3> QED
      BY Zenon, <2>1, <3>2, <3>3, <3>4
  <2>6. CASE a.at # start + n
    <3> DEFINE x == rollback(a.m, start, a.at - start)
    <3>1. r = Failed(x)
      BY Zenon, <2>2, <2>6
    <3>2. a.at \in Nat /\ a.at <= g_kernel_heap_limit /\ start <= a.at
      BY <1>1, <2>1, <2>4
    <3>3. Sound(x, HeapBase..(start - 1), out, P)
      BY Zenon, <1>1, <2>4, <3>2, Rollback
    <3>4. SplitMaps(x, g)
      BY Zenon, <1>1, <2>4, <3>2, Rollback
    <3> HIDE DEF x
    <3>5. r.ok = FALSE /\ r.m = x
      BY Zenon, <1>2, <3>1
    <3> QED
      BY Zenon, <3>3, <3>4, <3>5
  <2> QED
    BY Zenon, <2>5, <2>6
<1> QED
  BY Zenon, <1>3, <1>4

(* A page is mapped by a record. *)
LEMMA Mapped ==
    ASSUME NEW m, NEW v, NEW f \in Nat, vmm_query_mapping(m, v) = [frame |-> f, flags |-> {W}]
    PROVE  vmm_query_mapping(m, v) # NONE
<1>1. [frame |-> f, flags |-> {W}] \in Mapping
  BY DEF Mapping
<1> QED
  BY Zenon, <1>1, PageTableAssumption DEF PageTableAssumption

(* So is the one of the split test. *)
LEMMA SplitMapped ==
    ASSUME NEW m, NEW f, SplitMaps(m, f)
    PROVE  SplitPage \in Nat /\ vmm_query_mapping(m, SplitPage) # NONE
  BY Zenon, PagesAreNat, Mapped DEF SplitMaps

(* An identity map of the pages from first on, after i turns. *)
Identifying(s, first, i, H, out, P, g) ==
    s.at \in first..(first + i) /\ Sound(s.m, H, out, P) /\ SplitMaps(s.m, g)

(* One more page: what is mapped already, or shares its entry with a boot  *)
(* page, is left alone, and no device is in the heap's window.             *)
LEMMA IdentityTurn ==
    ASSUME NEW first \in Nat, NEW last \in Int, NEW i \in Nat, first + i < last,
           \A v \in first..(last - 1), w \in HeapWindow : ~same_entry(v, w),
           NEW H, NEW out, NEW P, NEW g, NEW s, Identifying(s, first, i, H, out, P, g)
    PROVE  Identifying(identity_next(s), first, i + 1, H, out, P, g)
<1> DEFINE m == s.m
           v == s.at
           r == vmm_map_page(m, v, v, {W})
           q == [frame |-> v, flags |-> {W}]
<1>1. v \in first..(first + i) /\ Sound(m, H, out, P) /\ SplitMaps(m, g)
  BY Zenon DEF Identifying
<1>2. /\ v \in Nat /\ v \in first..(last - 1)
      /\ v \in first..(first + (i + 1)) /\ v + 1 \in first..(first + (i + 1))
  BY <1>1
<1> HIDE DEF m, v, q
<1>3. CASE ~s.ok
  <2>1. identity_next(s) = s
    BY Zenon, <1>3 DEF identity_next
  <2> QED
    BY Zenon, <1>1, <1>2, <2>1 DEF Identifying, m, v
<1>4. ASSUME NEW n, NEW b, identity_next(s) = [m |-> n, at |-> v + 1, ok |-> b],
             Sound(n, H, out, P), SplitMaps(n, g)
      PROVE  Identifying(identity_next(s), first, i + 1, H, out, P, g)
  <2> DEFINE t == identity_next(s)
  <2> HIDE DEF t
  <2>1. t.m = n /\ t.at = v + 1
    BY <1>4 DEF t
  <2>2. t.at \in first..(first + (i + 1)) /\ Sound(t.m, H, out, P) /\ SplitMaps(t.m, g)
    BY Zenon, <1>2, <1>4, <2>1
  <2> QED
    BY Zenon, <2>2 DEF Identifying, t
<1>5. CASE s.ok /\ vmm_query_mapping(m, v) # NONE
  <2>1. identity_next(s) = [m |-> m, at |-> v + 1, ok |-> TRUE]
    BY Zenon, <1>5 DEF identity_next, m, v
  <2> QED
    BY Zenon, <1>1, <1>4, <2>1
<1>6. CASE s.ok /\ vmm_query_mapping(m, v) = NONE
  <2>1. identity_next(s) = [m |-> r.m, at |-> v + 1, ok |-> r.ok]
    BY Zenon, <1>6 DEF identity_next, m, v
  <2>2. PICK lv : Tree(m, lv)
    BY Zenon, <1>1 DEF Sound, IsTree
  <2>3. Sets(m, v, TRUE, q, r)
    <3>1. {W} \in SUBSET {W, U} /\ IsTree(m)
      BY Zenon, <1>1 DEF Sound
    <3> QED
      BY Zenon, <1>2, <3>1, MapPage DEF q
  <2> HIDE DEF r
  <2>4. ASSUME NEW w \in Nat, vmm_query_mapping(m, w) # NONE PROVE ~same_entry(w, v)
    BY Zenon, <1>2, <1>6, <2>2, <2>4, SameWay
  <2>5. ASSUME NEW w \in HeapWindow PROVE ~same_entry(w, v)
    BY Zenon, <1>2 DEF same_entry
  <2>6. ASSUME NEW w \in Identity \ {SplitPage} PROVE ~same_entry(w, v)
    <3>1. vmm_query_mapping(m, w) = [frame |-> w, flags |-> {W}] /\ w \in Nat
      BY Zenon, <1>1, PagesAreNat DEF Sound, BootMaps
    <3>2. vmm_query_mapping(m, w) # NONE
      BY Zenon, <3>1, Mapped
    <3> QED
      BY Zenon, <2>4, <3>1, <3>2
  <2>7. ~same_entry(SplitPage, v)
    BY Zenon, <1>1, <2>4, SplitMapped
  <2>8. Sound(r.m, H, out, P)
    <3>1. \A w \in HeapWindow \cup (Identity \ {SplitPage}) : ~same_entry(w, v)
      BY Zenon, <2>5, <2>6
    <3> QED
      BY Zenon, <1>1, <1>2, <2>3, <3>1, SetElsewhere
  <2>9. SplitMaps(r.m, g)
    BY Zenon, <1>1, <1>2, <2>3, <2>7, SetNotSplit
  <2> QED
    BY Zenon, <1>4, <2>1, <2>8, <2>9
<1> QED
  BY Zenon, <1>3, <1>5, <1>6

(* The pages of a range of bytes are numbered upwards. *)
LEMMA RangePages ==
    ASSUME NEW base \in Nat, NEW length \in Nat
    PROVE  first_page(base) \in Nat /\ end_page(base, length) - first_page(base) \in Nat
           /\ end_page(base, length) \in Nat
<1> DEFINE x == base + length + PageSize - 1
           a == base \div PageSize
           b == x \div PageSize
<1>1. PageSize \in Nat \ {0} /\ x \in Nat /\ base <= x
  BY AddressAssumption DEF AddressAssumption
<1>2. a = first_page(base) /\ b = end_page(base, length)
  BY DEF first_page, end_page
<1> HIDE DEF x
<1>3. a \in Nat /\ b \in Nat /\ x % PageSize \in 0..(PageSize - 1)
      /\ x = PageSize * b + (x % PageSize)
  BY Zenon, <1>1, Divide
<1> HIDE DEF b
<1>4. PageSize * (b + 1) = PageSize * b + PageSize /\ PageSize * b \in Nat
  BY <1>1, <1>3
<1>5. base < PageSize * (b + 1) /\ b + 1 \in Nat
  BY <1>1, <1>3, <1>4
<1>6. a < b + 1
  BY Zenon, <1>1, <1>5, DivideBelow
<1> HIDE DEF a
<1>7. b - a \in Nat
  BY <1>3, <1>6
<1> QED
  BY Zenon, <1>2, <1>3, <1>7

IdentityTurns == INSTANCE Loops WITH Step <- identity_next

(* The whole identity map of a device. *)
LEMMA IdentityRange ==
    ASSUME NEW d \in DeviceRange, NEW H, NEW out, NEW P, NEW g, NEW m,
           Sound(m, H, out, P), SplitMaps(m, g),
           NEW r, r = map_identity_range(m, d[1], d[2])
    PROVE  Sound(r, H, out, P) /\ SplitMaps(r, g)
<1> DEFINE base == d[1]
           length == d[2]
           start == first_page(base)
           last == end_page(base, length)
           n == last - start
           first == [m |-> m, at |-> start, ok |-> TRUE]
           turn == CHOOSE turn : turn = [i \in 0..n |->
                                            IF i = 0 THEN first ELSE identity_next(turn[i - 1])]
<1>1. r = m \/ r = turn[n].m
  BY Zenon DEF map_identity_range
<1>2. /\ base \in Nat /\ length \in Nat
      /\ \A v \in start..(last - 1), w \in HeapWindow : ~same_entry(v, w)
  <2>1. /\ d \in Nat \X Nat
        /\ \A v \in start..(last - 1), w \in HeapWindow : ~same_entry(v, w)
    BY Zenon, DeviceAssumption DEF DeviceAssumption
  <2>2. base \in Nat /\ length \in Nat
    <3> HIDE DEF start, last
    <3> QED
      BY <2>1
  <2> QED
    BY Zenon, <2>1, <2>2
<1> HIDE DEF base, length
<1>3. start \in Nat /\ last \in Nat /\ n \in Nat
  BY Zenon, <1>2, RangePages
<1> HIDE DEF start, last
<1>4. n = last - start
  OBVIOUS
<1> HIDE DEF n
<1>5. turn = CHOOSE g_1 : IdentityTurns!IsLoop(g_1, first, n)
  BY Zenon DEF IdentityTurns!IsLoop
<1> HIDE DEF turn
<1>6. IdentityTurns!IsLoop(turn, first, n)
  BY <1>3, <1>5, LeastNat, IdentityTurns!LoopExists
<1>7. turn[0] = first /\ \A i \in 0..(n - 1) : turn[i + 1] = identity_next(turn[i])
  <2> HIDE DEF first
  <2>1. IdentityTurns!Turns(turn, first, n)
    BY <1>3, <1>6, IdentityTurns!LoopTurns
  <2> QED
    BY <2>1 DEF IdentityTurns!Turns
<1> DEFINE S == {i \in 0..n : Identifying(turn[i], start, i, H, out, P, g)}
<1>8. 0 \in S
  <2>1. first.m = m /\ first.at = start
    OBVIOUS
  <2> HIDE DEF first
  <2>2. start \in start..(start + 0) /\ 0 \in 0..n
    BY <1>3
  <2>3. Identifying(first, start, 0, H, out, P, g)
    BY Zenon, <2>1, <2>2 DEF Identifying
  <2> QED
    BY Zenon, <1>7, <2>2, <2>3
<1>9. ASSUME NEW i \in 0..(n - 1), i \in S PROVE i + 1 \in S
  <2>1. i \in Nat /\ start + i < last /\ i + 1 \in 0..n /\ last \in Int
    BY <1>3, <1>4
  <2>2. Identifying(turn[i], start, i, H, out, P, g)
    BY Zenon, <1>9
  <2>3. Identifying(identity_next(turn[i]), start, i + 1, H, out, P, g)
    BY Zenon, <1>2, <1>3, <2>1, <2>2, IdentityTurn
  <2> QED
    BY Zenon, <1>7, <2>1, <2>3
<1> HIDE DEF S
<1>10. n \in S
  BY Zenon, <1>3, <1>8, <1>9, AllTurns
<1>11. Identifying(turn[n], start, n, H, out, P, g)
  BY Zenon, <1>10 DEF S
<1> QED
  BY Zenon, <1>1, <1>11 DEF Identifying

(* The state between two steps: u and s are the frames of kmain's tests,   *)
(* h the end of the heap, P what pmm had at boot.                          *)
Whole(m, h, u, s, P) ==
    /\ Sound(m, HeapBase..(h - 1), {u, s} \ {NONE}, P) /\ SplitMaps(m, s)
    /\ h \in HeapBase..g_kernel_heap_limit /\ P \in Pool
    /\ u \in Nat \cup {NONE} /\ s \in Nat \cup {NONE} /\ (u = s => u = NONE)

(* NONE is no page. *)
LEMMA NoneNoPage == NONE \notin Nat
  BY Zenon, PageTableAssumption DEF PageTableAssumption

(* Every page has the entry of itself. *)
LEMMA SameSelf == \A v : same_entry(v, v)
  BY Zenon DEF same_entry

(* AllocKernelPages *)
LEMMA AllocWhole ==
    ASSUME NEW m, NEW h, NEW u, NEW s, NEW P, Whole(m, h, u, s, P), NEW n \in Nat,
           NEW r, r = vmm_alloc_kernel_pages(m, h, n, {W})
    PROVE  Whole(r.m, IF r.ok THEN h + n ELSE h, u, s, P)
<1> DEFINE out == {u, s} \ {NONE}
<1> HIDE DEF out
<1>1. Sound(m, HeapBase..(h - 1), out, P) /\ SplitMaps(m, s) /\ h \in HeapBase..g_kernel_heap_limit
  BY Zenon DEF Whole, out
<1>2. r.ok => /\ h + n \in HeapBase..g_kernel_heap_limit
              /\ Sound(r.m, HeapBase..((h + n) - 1), out, P)
  BY Zenon, <1>1, AllocPages
<1>3. ~r.ok => Sound(r.m, HeapBase..(h - 1), out, P)
  BY Zenon, <1>1, AllocPages
<1>4. SplitMaps(r.m, s)
  BY Zenon, <1>1, AllocPages
<1>5. /\ P \in Pool /\ u \in Nat \cup {NONE} /\ s \in Nat \cup {NONE} /\ (u = s => u = NONE)
  BY Zenon DEF Whole
<1>6. CASE r.ok
  <2>1. Whole(r.m, h + n, u, s, P)
    BY Zenon, <1>2, <1>4, <1>5, <1>6 DEF Whole, out
  <2> QED
    BY Zenon, <1>6, <2>1
<1>7. CASE ~r.ok
  <2>1. Whole(r.m, h, u, s, P)
    BY Zenon, <1>1, <1>3, <1>4, <1>5, <1>7 DEF Whole, out
  <2> QED
    BY Zenon, <1>7, <2>1
<1> QED
  BY Zenon, <1>6, <1>7

(* MapDevice *)
LEMMA DeviceWhole ==
    ASSUME NEW m, NEW h, NEW u, NEW s, NEW P, Whole(m, h, u, s, P), NEW d \in DeviceRange,
           NEW r, r = map_identity_range(m, d[1], d[2])
    PROVE  Whole(r, h, u, s, P)
<1>1. Sound(m, HeapBase..(h - 1), {u, s} \ {NONE}, P) /\ SplitMaps(m, s)
  BY Zenon DEF Whole
<1>2. Sound(r, HeapBase..(h - 1), {u, s} \ {NONE}, P)
  BY Zenon, <1>1, IdentityRange
<1>3. SplitMaps(r, s)
  BY ZenonT(40), <1>1, IdentityRange
<1> QED
  BY Zenon, <1>2, <1>3 DEF Whole

(* The page of the system call tests has no entry of the heap's or boot's. *)
LEMMA UserApart ==
    /\ \A w \in HeapWindow \cup (Identity \ {SplitPage}) : ~same_entry(w, UserPage)
    /\ ~same_entry(SplitPage, UserPage)
  BY Zenon, PagesAreNat, Apart

(* Nor has the page of the split test, but its own. *)
LEMMA SplitApart ==
    \A w \in HeapWindow \cup (Identity \ {SplitPage}) : ~same_entry(w, SplitPage)
<1> SUFFICES ASSUME NEW w \in HeapWindow \cup (Identity \ {SplitPage})
             PROVE  ~same_entry(w, SplitPage)
  OBVIOUS
<1>1. w \in Canonical /\ SplitPage \in Canonical /\ w # SplitPage
  BY PagesAreNat
<1> QED
  BY Zenon, <1>1, Apart

(* MapUserPage *)
LEMMA MapUserWhole ==
    ASSUME NEW m, NEW h, NEW s, NEW P, Whole(m, h, NONE, s, P), NEW f \in m.free,
           NEW r, r = vmm_map_page([m EXCEPT !.free = @ \ {f}], UserPage, f, {U, W})
    PROVE  Whole(IF r.ok THEN r.m ELSE give_page(r.m, f), h, IF r.ok THEN f ELSE NONE, s, P)
<1> DEFINE H == HeapBase..(h - 1)
           out == {NONE, s} \ {NONE}
           m1 == [m EXCEPT !.free = @ \ {f}]
           q == [frame |-> f, flags |-> {U, W}]
<1> HIDE DEF H, out, q
<1>1. Sound(m, H, out, P) /\ SplitMaps(m, s)
  BY Zenon DEF Whole, H, out
<1>2. f \notin out /\ f \in Nat /\ Sound(m1, H, out \cup {f}, P)
  BY Zenon, <1>1, TakeGive
<1>3. SplitMaps(m1, s)
  BY Zenon, <1>1, FreeNotSplit DEF Sound
<1> HIDE DEF m1
<1>4. Sets(m1, UserPage, TRUE, q, r)
  <2>1. {U, W} \in SUBSET {W, U} /\ IsTree(m1) /\ UserPage \in Nat
    BY Zenon, <1>2, PagesAreNat DEF Sound
  <2>2. r = vmm_map_page(m1, UserPage, f, {U, W})
    BY Zenon DEF m1
  <2> QED
    BY Zenon, <1>2, <2>1, <2>2, MapPage DEF q
<1>5. Sound(r.m, H, out \cup {f}, P)
  BY Zenon, <1>2, <1>4, PagesAreNat, UserApart, SetElsewhere
<1>6. SplitMaps(r.m, s)
  BY Zenon, <1>3, <1>4, PagesAreNat, UserApart, SetNotSplit
<1>7. h \in HeapBase..g_kernel_heap_limit /\ P \in Pool /\ s \in Nat \cup {NONE}
  BY Zenon DEF Whole
<1>8. CASE r.ok
  <2>1. out \cup {f} = {f, s} \ {NONE} /\ (f = s => f = NONE)
    BY <1>2, NoneNoPage DEF out
  <2>2. Whole(r.m, h, f, s, P)
    <3>1. Sound(r.m, H, {f, s} \ {NONE}, P)
      BY <1>5, <2>1
    <3> QED
      BY Zenon, <1>2, <1>6, <1>7, <2>1, <3>1 DEF Whole, H
  <2> QED
    BY Zenon, <1>8, <2>2
<1>9. CASE ~r.ok
  <2> DEFINE n == give_page(r.m, f)
  <2>1. Sound(n, H, (out \cup {f}) \ {f}, P)
    BY Zenon, <1>5, TakeGive
  <2>2. SplitMaps(n, s)
    BY Zenon, <1>5, <1>6, FreeNotSplit DEF Sound, give_page
  <2> HIDE DEF n
  <2>3. (out \cup {f}) \ {f} = {NONE, s} \ {NONE} /\ (NONE = s => NONE = NONE)
    BY <1>2 DEF out
  <2>4. Whole(n, h, NONE, s, P)
    <3>1. Sound(n, H, {NONE, s} \ {NONE}, P)
      BY <2>1, <2>3
    <3> QED
      BY Zenon, <1>7, <2>2, <2>3, <3>1 DEF Whole, H
  <2> QED
    BY Zenon, <1>9, <2>4 DEF n
<1> QED
  BY Zenon, <1>8, <1>9

(* UnmapUserPage *)
LEMMA UnmapUserWhole ==
    ASSUME NEW m, NEW h, NEW u \in Nat, NEW s, NEW P, Whole(m, h, u, s, P),
           NEW r, r = vmm_unmap_page(m, UserPage)
    PROVE  Whole(give_page(r.m, u), h, NONE, s, P)
<1> DEFINE H == HeapBase..(h - 1)
           out == {u, s} \ {NONE}
           n == give_page(r.m, u)
<1> HIDE DEF H, out
<1>1. Sound(m, H, out, P) /\ SplitMaps(m, s)
  BY Zenon DEF Whole, H, out
<1>2. Sets(m, UserPage, FALSE, NONE, r)
  BY Zenon, <1>1, PagesAreNat, UnmapPage DEF Sound
<1>3. Sound(r.m, H, out, P)
  BY Zenon, <1>1, <1>2, PagesAreNat, UserApart, SetElsewhere
<1>4. SplitMaps(r.m, s)
  BY Zenon, <1>1, <1>2, PagesAreNat, UserApart, SetNotSplit
<1>5. u \in out /\ out \ {u} = {NONE, s} \ {NONE}
  <2>1. u # s /\ u # NONE
    BY Zenon, NoneNoPage DEF Whole
  <2> QED
    BY <2>1 DEF out
<1>6. Sound(n, H, out \ {u}, P)
  BY Zenon, <1>3, <1>5, TakeGive
<1>7. SplitMaps(n, s)
  BY Zenon, <1>3, <1>4, FreeNotSplit DEF Sound, give_page
<1> HIDE DEF n
<1>8. Sound(n, H, {NONE, s} \ {NONE}, P)
  BY <1>5, <1>6
<1>9. h \in HeapBase..g_kernel_heap_limit /\ P \in Pool /\ s \in Nat \cup {NONE}
      /\ NONE \in Nat \cup {NONE}
  BY Zenon DEF Whole
<1>10. Whole(n, h, NONE, s, P)
  BY Zenon, <1>7, <1>8, <1>9 DEF Whole, H
<1> QED
  BY Zenon, <1>10 DEF n

(* The split test's page is mapped anew once it is unmapped. *)
LEMMA SplitRemap ==
    ASSUME NEW m, IsTree(m), NEW u, u = vmm_unmap_page(m, SplitPage), u.ok,
           NEW f \in Nat, NEW r, r = vmm_map_page(u.m, SplitPage, f, {W})
    PROVE  /\ vmm_query_mapping(r.m, SplitPage) = [frame |-> f, flags |-> {W}]
           /\ Small(r.m, SplitPage)
<1> DEFINE q == [frame |-> f, flags |-> {W}]
<1> HIDE DEF q
<1>1. SplitPage \in Nat
  BY Zenon, PagesAreNat
<1>2. Sets(m, SplitPage, FALSE, NONE, u)
  BY Zenon, <1>1, UnmapPage
<1>3. Small(u.m, SplitPage) /\ vmm_query_mapping(u.m, SplitPage) = NONE /\ IsTree(u.m)
  BY Zenon, <1>1, <1>2, SameSelf DEF Sets
<1>4. Sets(u.m, SplitPage, TRUE, q, r)
  <2>1. {W} \in SUBSET {W, U}
    BY Zenon
  <2> QED
    BY Zenon, <1>1, <1>3, <2>1, MapPage DEF q
<1>5. r.ok
  BY Zenon, <1>3, <1>4 DEF Sets
<1>6. vmm_query_mapping(r.m, SplitPage) = q /\ Small(r.m, SplitPage)
  BY Zenon, <1>1, <1>4, <1>5, SameSelf DEF Sets
<1> QED
  BY Zenon, <1>6 DEF q

(* Unmapping and mapping it leave everything else. *)
LEMMA SplitSound ==
    ASSUME NEW m, NEW H, NEW out, NEW P, Sound(m, H, out, P), NEW f \in Nat
    PROVE  /\ Sound(vmm_unmap_page(m, SplitPage).m, H, out, P)
           /\ Sound(vmm_map_page(m, SplitPage, f, {W}).m, H, out, P)
<1>1. SplitPage \in Nat /\ IsTree(m) /\ {W} \in SUBSET {W, U}
  BY Zenon, PagesAreNat DEF Sound
<1>2. Sets(m, SplitPage, FALSE, NONE, vmm_unmap_page(m, SplitPage))
  BY Zenon, <1>1, UnmapPage
<1>3. Sets(m, SplitPage, TRUE, [frame |-> f, flags |-> {W}], vmm_map_page(m, SplitPage, f, {W}))
  BY Zenon, <1>1, MapPage
<1>4. Sound(vmm_unmap_page(m, SplitPage).m, H, out, P)
  BY Zenon, <1>1, <1>2, SplitApart, SetElsewhere
<1>5. Sound(vmm_map_page(m, SplitPage, f, {W}).m, H, out, P)
  BY Zenon, <1>1, <1>3, SplitApart, SetElsewhere
<1> QED
  BY Zenon, <1>4, <1>5

(* SplitTest *)
LEMMA SplitWhole ==
    ASSUME NEW m, NEW h, NEW u, NEW P, Whole(m, h, u, NONE, P), NEW f \in m.free,
           NEW x, x = vmm_unmap_page([m EXCEPT !.free = @ \ {f}], SplitPage)
    PROVE  Whole(IF x.ok THEN vmm_map_page(x.m, SplitPage, f, {W}).m ELSE x.m, h, u, f, P)
<1> DEFINE H == HeapBase..(h - 1)
           out == {u, NONE} \ {NONE}
           m1 == [m EXCEPT !.free = @ \ {f}]
           n == IF x.ok THEN vmm_map_page(x.m, SplitPage, f, {W}).m ELSE x.m
<1> HIDE DEF H, out
<1>1. Sound(m, H, out, P) /\ SplitMaps(m, NONE)
  BY Zenon DEF Whole, H, out
<1>2. f \notin out /\ f \in Nat /\ Sound(m1, H, out \cup {f}, P)
  BY Zenon, <1>1, TakeGive
<1>3. SplitMaps(m1, NONE)
  BY Zenon, <1>1, FreeNotSplit DEF Sound
<1>4. x = vmm_unmap_page(m1, SplitPage)
  BY Zenon
<1> HIDE DEF m1
<1>5. Sound(x.m, H, out \cup {f}, P)
  BY Zenon, <1>2, <1>4, SplitSound
<1>6. Sound(n, H, out \cup {f}, P)
  <2>1. Sound(vmm_map_page(x.m, SplitPage, f, {W}).m, H, out \cup {f}, P)
    BY Zenon, <1>2, <1>5, SplitSound
  <2> QED
    BY Zenon, <1>5, <2>1
<1>7. SplitMaps(n, f)
  <2>1. CASE x.ok
    <3> DEFINE r == vmm_map_page(x.m, SplitPage, f, {W})
    <3>1. IsTree(m1)
      BY Zenon, <1>2 DEF Sound
    <3>2. vmm_query_mapping(r.m, SplitPage) = [frame |-> f, flags |-> {W}] /\ Small(r.m, SplitPage)
      BY Zenon, <1>2, <1>4, <2>1, <3>1, SplitRemap
    <3>3. SplitMaps(r.m, f)
      BY Zenon, <1>2, <3>2 DEF SplitMaps
    <3> QED
      BY Zenon, <2>1, <3>3
  <2>2. CASE ~x.ok
    <3>1. Sets(m1, SplitPage, FALSE, NONE, x)
      BY Zenon, <1>2, <1>4, PagesAreNat, UnmapPage DEF Sound
    <3>2. vmm_query_mapping(x.m, SplitPage) = vmm_query_mapping(m1, SplitPage)
      BY Zenon, <2>2, <3>1, PagesAreNat DEF Sets
    <3>3. SplitMaps(x.m, f)
      BY Zenon, <1>3, <3>2, NoneNoPage DEF SplitMaps
    <3> QED
      BY Zenon, <2>2, <3>3
  <2> QED
    BY Zenon, <2>1, <2>2
<1> HIDE DEF n
<1>8. out \cup {f} = {u, f} \ {NONE} /\ (u = f => u = NONE)
  BY <1>2, NoneNoPage DEF out
<1>9. Sound(n, H, {u, f} \ {NONE}, P)
  BY <1>6, <1>8
<1>10. h \in HeapBase..g_kernel_heap_limit /\ P \in Pool /\ u \in Nat \cup {NONE}
  BY Zenon DEF Whole
<1>11. Whole(n, h, u, f, P)
  BY Zenon, <1>2, <1>7, <1>8, <1>9, <1>10 DEF Whole, H
<1> QED
  BY Zenon, <1>11 DEF n

(* SplitRestore *)
LEMMA RestoreWhole ==
    ASSUME NEW m, NEW h, NEW u, NEW s \in Nat, NEW P, Whole(m, h, u, s, P),
           NEW x, x = vmm_unmap_page(m, SplitPage),
           NEW r, r = vmm_map_page(x.m, SplitPage, SplitPage, {W})
    PROVE  Whole(give_page(r.m, s), h, u, NONE, P)
<1> DEFINE H == HeapBase..(h - 1)
           out == {u, s} \ {NONE}
           q == [frame |-> SplitPage, flags |-> {W}]
           n == give_page(r.m, s)
<1> HIDE DEF H, out, q, n
<1>1. Sound(m, H, out, P) /\ SplitMaps(m, s) /\ IsTree(m)
  BY Zenon DEF Whole, Sound, H, out
<1>2. SplitPage \in Nat /\ {W} \in SUBSET {W, U}
  BY Zenon, PagesAreNat
<1>3. Sound(x.m, H, out, P) /\ IsTree(x.m)
  <2>1. Sound(x.m, H, out, P)
    BY Zenon, <1>1, <1>2, SplitSound
  <2> QED
    BY Zenon, <2>1 DEF Sound
<1>4. Sound(r.m, H, out, P)
  BY Zenon, <1>2, <1>3, SplitSound
<1>5. Sets(m, SplitPage, FALSE, NONE, x)
  BY Zenon, <1>1, <1>2, UnmapPage
<1>6. Sets(x.m, SplitPage, TRUE, q, r)
  BY Zenon, <1>2, <1>3, MapPage DEF q
<1>7. vmm_query_mapping(r.m, SplitPage) = q
  <2>1. CASE x.ok
    BY Zenon, <1>1, <1>2, <2>1, SplitRemap DEF q
  <2>2. CASE ~x.ok
    <3>1. vmm_query_mapping(x.m, SplitPage) = vmm_query_mapping(m, SplitPage)
      BY Zenon, <1>2, <1>5, <2>2 DEF Sets
    <3>2. vmm_query_mapping(m, SplitPage) # NONE
      BY Zenon, <1>1, SplitMapped
    <3>3. ~Small(m, SplitPage)
      BY Zenon, <1>5, <2>2, <3>2 DEF Sets
    <3>4. vmm_query_mapping(m, SplitPage) = q
      BY Zenon, <1>1, <3>3 DEF SplitMaps, q
    <3>5. ~r.ok
      BY Zenon, <1>6, <3>1, <3>2 DEF Sets
    <3>6. vmm_query_mapping(r.m, SplitPage) = vmm_query_mapping(x.m, SplitPage)
      BY Zenon, <1>2, <1>6, <3>5 DEF Sets
    <3> QED
      BY Zenon, <3>1, <3>4, <3>6
  <2> QED
    BY Zenon, <2>1, <2>2
<1>8. SplitMaps(r.m, NONE)
  BY Zenon, <1>7 DEF SplitMaps, q
<1>9. s \in out /\ out \ {s} = {u, NONE} \ {NONE}
  <2>1. s # NONE /\ u # s
    BY Zenon, NoneNoPage DEF Whole
  <2> QED
    BY <2>1 DEF out
<1>10. Sound(n, H, out \ {s}, P)
  BY Zenon, <1>4, <1>9, TakeGive DEF n
<1>11. SplitMaps(n, NONE)
  BY Zenon, <1>4, <1>8, FreeNotSplit DEF Sound, give_page, n
<1>12. Sound(n, H, {u, NONE} \ {NONE}, P)
  BY <1>9, <1>10
<1>13. h \in HeapBase..g_kernel_heap_limit /\ P \in Pool /\ u \in Nat \cup {NONE}
       /\ NONE \in Nat \cup {NONE}
  BY Zenon DEF Whole
<1>14. Whole(n, h, u, NONE, P)
  BY Zenon, <1>11, <1>12, <1>13 DEF Whole, H
<1> QED
  BY Zenon, <1>14 DEF n

-----------------------------------------------------------------------------
(* The tables of boot. *)

(* The pages that boot maps have their entries in the first page           *)
(* directory.                                                              *)
LEMMA BootIndices ==
    ASSUME NEW v \in Identity
    PROVE  /\ table_index(v, 4) = 0 /\ table_index(v, 3) = 0
           /\ table_index(v, 2) = v \div Fanout /\ v \div Fanout \in Index
<1> DEFINE F == Fanout
           a == v \div F
           b == a \div F
           c == b \div F
<1>1. F \in Nat \ {0} /\ 0 % F = 0 /\ 0 \div F = 0
  <2>1. F \in Nat \ {0}
    BY PageTableAssumption DEF PageTableAssumption
  <2> QED
    BY <2>1, Z3
<1>2. v \in Nat /\ v < F * F
  <2> DEFINE n == F * F
  <2>1. n \in Nat /\ v \in 0..(n - 1)
    BY <1>1, Z3 DEF Identity
  <2> HIDE DEF n
  <2>2. v \in Nat /\ v < n
    BY <2>1
  <2> QED
    BY <2>2 DEF n
<1>3. /\ table_index(v, 2) = a % F /\ table_index(v, 3) = b % F /\ table_index(v, 4) = c % F
  BY DEF table_index
<1>4. a \in Nat /\ a < F
  BY Zenon, <1>1, <1>2, Divide, DivideBelow
<1> HIDE DEF a
<1>5. b = 0 /\ a % F = a
  BY <1>1, <1>4, Z3
<1> HIDE DEF b
<1>6. c = 0
  BY Zenon, <1>1, <1>5
<1>7. a \in Index
  BY <1>1, <1>4 DEF Index
<1> QED
  BY Zenon, <1>1, <1>3, <1>5, <1>6, <1>7 DEF a

(* No other page has. *)
LEMMA HighIndices ==
    ASSUME NEW v \in Canonical, table_index(v, 4) = 0, table_index(v, 3) = 0
    PROVE  v \in Identity
<1> DEFINE F == Fanout
           a == v \div F
           b == a \div F
           c == b \div F
           n == F * F * F * F
           F2 == F * F
           F3 == F * F2
<1>1. F \in Nat \ {0} /\ n = F * F3 /\ F2 \in Nat /\ F3 \in Nat /\ n \in Nat
  <2>1. F \in Nat \ {0}
    BY PageTableAssumption DEF PageTableAssumption
  <2> QED
    BY <2>1, Z3
<1>2. v \in 0..(n - 1)
  BY Zenon DEF Canonical
<1> HIDE DEF n
<1>3. v \in Nat /\ v < F * F3
  BY <1>1, <1>2
<1>4. b % F = 0 /\ c % F = 0
  BY DEF table_index
<1>5. a \in Nat /\ a < F * F2 /\ v % F \in 0..(F - 1) /\ v = F * a + (v % F)
  BY Zenon, <1>1, <1>3, Divide, DivideBelow
<1> HIDE DEF a, F3
<1>6. b \in Nat /\ b < F * F /\ a % F \in 0..(F - 1) /\ a = F * b + (a % F)
  BY Zenon, <1>1, <1>5, Divide, DivideBelow
<1> HIDE DEF b
<1>7. c \in Nat /\ c < F /\ b = F * c + (b % F)
  BY Zenon, <1>1, <1>6, Divide, DivideBelow
<1> HIDE DEF c
<1>8. c = 0
  <2>1. c % F = c
    BY <1>1, <1>7, Z3
  <2> QED
    BY Zenon, <1>4, <2>1
<1>9. b = 0
  BY <1>1, <1>4, <1>7, <1>8, Z3
<1>10. a < F
  BY <1>1, <1>6, <1>9, Z3
<1>11. v < F * F
  <2>1. F * a <= F * (F - 1)
    BY <1>1, <1>5, <1>10, Z3
  <2>2. F * (F - 1) = F * F - F
    BY <1>1, Z3
  <2> QED
    BY <1>1, <1>5, <2>1, <2>2, Z3
<1>12. v \in 0..(F2 - 1)
  BY <1>1, <1>3, <1>11
<1> QED
  BY Zenon, <1>12 DEF Identity

(* The level of a table of boot. *)
BootLevel == [f \in BootFrames |-> IF f = g_pml4 THEN 4 ELSE IF f = pdpt_table THEN 3 ELSE 2]

(* The entries of setup_page_tables. *)
LEMMA BootEntries ==
    /\ DOMAIN BootTables = BootFrames /\ BootFrames \subseteq Nat
    /\ g_pml4 # pdpt_table /\ g_pml4 # pd_table /\ pdpt_table # pd_table
    /\ \A i \in Index :
          /\ BootTables[g_pml4][i] = IF i = 0 THEN Table(pdpt_table, {W}) ELSE NONE
          /\ BootTables[pdpt_table][i] = IF i = 0 THEN Table(pd_table, {W}) ELSE NONE
          /\ BootTables[pd_table][i] = [span |-> Fanout, frame |-> i * Fanout, flags |-> {W}]
    /\ BootTables = [f \in BootFrames |-> [i \in Index |-> BootTables[f][i]]]
<1>1. g_pml4 # pdpt_table /\ g_pml4 # pd_table /\ pdpt_table # pd_table
  BY Zenon, VmmAssumption DEF VmmAssumption
<1>2. BootFrames \subseteq Nat
  BY Zenon, VmmAssumption, PagesAreNat DEF VmmAssumption, BootFrames
<1>3. DOMAIN BootTables = BootFrames
  BY Zenon DEF BootTables, BootFrames
<1>4. ASSUME NEW f \in BootFrames, NEW i \in Index
      PROVE  BootTables[f][i] =
                IF f = pd_table THEN [span |-> Fanout, frame |-> i * Fanout, flags |-> {W}]
                ELSE IF i # 0 THEN NONE
                ELSE Table(IF f = g_pml4 THEN pdpt_table ELSE pd_table, {W})
  BY Zenon DEF BootTables, BootFrames
<1>5. g_pml4 \in BootFrames /\ pdpt_table \in BootFrames /\ pd_table \in BootFrames
  BY Zenon DEF BootFrames
<1>6. BootTables = [f \in BootFrames |-> [i \in Index |-> BootTables[f][i]]]
  BY DEF BootTables, BootFrames
<1>7. ASSUME NEW i \in Index
      PROVE  /\ BootTables[g_pml4][i] = IF i = 0 THEN Table(pdpt_table, {W}) ELSE NONE
             /\ BootTables[pdpt_table][i] = IF i = 0 THEN Table(pd_table, {W}) ELSE NONE
             /\ BootTables[pd_table][i] = [span |-> Fanout, frame |-> i * Fanout, flags |-> {W}]
  <2>1. BootTables[g_pml4][i] = IF i = 0 THEN Table(pdpt_table, {W}) ELSE NONE
    BY Zenon, <1>1, <1>4, <1>5
  <2>2. BootTables[pdpt_table][i] = IF i = 0 THEN Table(pd_table, {W}) ELSE NONE
    BY Zenon, <1>1, <1>4, <1>5
  <2>3. BootTables[pd_table][i] = [span |-> Fanout, frame |-> i * Fanout, flags |-> {W}]
    BY Zenon, <1>4, <1>5
  <2> QED
    BY Zenon, <2>1, <2>2, <2>3
<1> QED
  BY Zenon, <1>1, <1>2, <1>3, <1>6, <1>7

(* They form a tree of three tables. *)
LEMMA BootTree ==
    ASSUME NEW P, P \subseteq Identity \ BootFrames, NEW m, m = [table |-> BootTables, free |-> P]
    PROVE  Tree(m, BootLevel)
<1> DEFINE T == BootTables
           A == g_pml4
           B == pdpt_table
           C == pd_table
           big(i) == [span |-> Fanout, frame |-> i * Fanout, flags |-> {W}]
<1>1. m.table = T /\ m.free = P /\ m = [free |-> m.free, table |-> m.table]
  BY DEF T
<1> HIDE DEF T
<1>2. /\ DOMAIN T = {A, B, C} /\ {A, B, C} \subseteq Nat /\ BootFrames = {A, B, C}
      /\ A # B /\ A # C /\ B # C
      /\ \A i \in Index : /\ T[A][i] = IF i = 0 THEN Table(B, {W}) ELSE NONE
                          /\ T[B][i] = IF i = 0 THEN Table(C, {W}) ELSE NONE
                          /\ T[C][i] = big(i)
      /\ T = [f \in BootFrames |-> [i \in Index |-> T[f][i]]]
  BY Zenon, BootEntries DEF BootFrames, T
<1>3. Fanout \in Nat \ {0, 1} /\ NONE \notin Entry
  BY Zenon, PageTableAssumption DEF PageTableAssumption
<1>4. 0 \in Index /\ Index \subseteq Nat
  BY <1>3 DEF Index
<1>5. ASSUME NEW i \in Index
      PROVE  /\ big(i) \in Entry /\ big(i).span = Fanout /\ big(i).span # 0
             /\ big(i).frame % Fanout = 0
  <2> DEFINE k == i * Fanout
  <2>1. k \in Nat /\ k % Fanout = 0
    BY <1>3, <1>4, Z3
  <2> DEFINE e == [span |-> Fanout, frame |-> k, flags |-> {W}]
  <2>2. big(i) = e
    OBVIOUS
  <2> HIDE DEF k, big
  <2>3. e \in Entry /\ e.span = Fanout /\ e.frame = k
    BY <1>3, <2>1 DEF Entry
  <2> HIDE DEF e
  <2> QED
    BY Zenon, <1>3, <2>1, <2>2, <2>3
<1> HIDE DEF big
<1> DEFINE pB == Table(B, {W})
           pC == Table(C, {W})
<1>6. /\ pB \in Entry /\ pB # NONE /\ pB.span = 0 /\ pB.frame = B
      /\ pC \in Entry /\ pC # NONE /\ pC.span = 0 /\ pC.frame = C
  <2>1. ASSUME NEW f \in Nat
        PROVE  Table(f, {W}) \in Entry /\ Table(f, {W}).span = 0 /\ Table(f, {W}).frame = f
    BY DEF Table, Entry
  <2>2. B \in Nat /\ C \in Nat
    BY Zenon, <1>2
  <2>3. pB \in Entry /\ pB.span = 0 /\ pB.frame = B
    BY Zenon, <2>1, <2>2
  <2>4. pC \in Entry /\ pC.span = 0 /\ pC.frame = C
    BY Zenon, <2>1, <2>2
  <2> QED
    BY Zenon, <1>3, <2>3, <2>4
<1>cells. \A i \in Index : /\ T[A][i] = IF i = 0 THEN pB ELSE NONE
                           /\ T[B][i] = IF i = 0 THEN pC ELSE NONE
                           /\ T[C][i] = big(i)
  BY Zenon, <1>2
<1> HIDE DEF pB, pC
<1>7. ASSUME NEW f \in {A, B, C}, NEW i \in Index
      PROVE  T[f][i] \in Entry \cup {NONE}
  <2>1. T[A][i] \in Entry \cup {NONE}
    BY Zenon, <1>cells, <1>6
  <2>2. T[B][i] \in Entry \cup {NONE}
    BY Zenon, <1>cells, <1>6
  <2>3. T[C][i] \in Entry \cup {NONE}
    BY Zenon, <1>cells, <1>5
  <2> QED
    BY Zenon, <2>1, <2>2, <2>3
<1>15. ASSUME NEW f \in {A, B, C}, NEW i \in Index, T[f][i] # NONE, T[f][i].span = 0
       PROVE  i = 0 /\ ((f = A /\ T[f][i].frame = B) \/ (f = B /\ T[f][i].frame = C))
  <2>1. CASE f = A
    <3>1. i = 0
      BY Zenon, <1>cells, <1>15, <2>1
    <3>2. T[f][i] = pB
      BY Zenon, <1>cells, <2>1, <3>1
    <3>3. T[f][i].frame = B
      BY Zenon, <1>cells, <1>6, <3>2
    <3> QED
      BY Zenon, <2>1, <3>1, <3>3
  <2>2. CASE f = B
    <3>1. i = 0
      BY Zenon, <1>cells, <1>15, <2>2
    <3>2. T[f][i] = pC
      BY Zenon, <1>cells, <2>2, <3>1
    <3>3. T[f][i].frame = C
      BY Zenon, <1>cells, <1>6, <3>2
    <3> QED
      BY Zenon, <2>2, <3>1, <3>3
  <2>3. CASE f = C
    <3>1. T[f][i] = big(i)
      BY Zenon, <1>cells, <2>3
    <3> QED
      BY Zenon, <1>5, <1>15, <3>1
  <2> QED
    BY Zenon, <2>1, <2>2, <2>3
<1>16. ASSUME NEW f \in {A, B, C}, NEW i \in Index, T[f][i] # NONE, T[f][i].span # 0
       PROVE  f = C /\ T[f][i] = big(i)
  <2>1. CASE f = A
    <3>1. T[f][i] = pB
      BY Zenon, <1>cells, <1>16, <2>1
    <3> QED
      BY Zenon, <1>cells, <1>6, <1>16, <3>1
  <2>2. CASE f = B
    <3>1. T[f][i] = pC
      BY Zenon, <1>cells, <1>16, <2>2
    <3> QED
      BY Zenon, <1>cells, <1>6, <1>16, <3>1
  <2>3. CASE f = C
    BY Zenon, <1>cells, <2>3
  <2> QED
    BY Zenon, <2>1, <2>2, <2>3
<1>dom. DOMAIN T = {A, B, C}
  BY Zenon, <1>2
<1>8. T \in [DOMAIN T -> [Index -> Entry \cup {NONE}]]
  BY <1>2, <1>7
<1>9. P \subseteq Nat /\ P \cap DOMAIN T = {}
  BY SMTT(30), Z3T(30), SMTT(40), <1>2, PagesAreNat
<1>10. /\ BootLevel \in [DOMAIN T -> 1..4] /\ BootLevel[A] = 4 /\ BootLevel[B] = 3
       /\ BootLevel[C] = 2
  BY <1>2 DEF BootLevel
<1> HIDE DEF A, B, C
<1>11. ASSUME NEW t \in DOMAIN T, NEW i \in Index, T[t][i] # NONE
       PROVE  GoodEntry(m, BootLevel, t, T[t][i])
  <2> DEFINE e == T[t][i]
  <2> HIDE DEF e
  <2>1. CASE e.span = 0
    <3>1. (t = A /\ e.frame = B) \/ (t = B /\ e.frame = C)
      BY ZenonT(40), <1>dom, <1>15, <1>11, <2>1 DEF e
    <3>2. BootLevel[t] > 1 /\ e.frame \in DOMAIN m.table /\ BootLevel[e.frame] = BootLevel[t] - 1
      BY <1>1, <1>2, <1>10, <3>1
    <3> QED
      BY Zenon, <2>1, <3>2 DEF GoodEntry, e
  <2>2. CASE e.span # 0
    <3>1. t = C /\ e = big(i)
      BY Zenon, <1>dom, <1>16, <1>11, <2>2 DEF e
    <3>2. BootLevel[t] = 2 /\ e.span = Fanout /\ e.frame % Fanout = 0
      BY Zenon, <1>5, <1>10, <3>1
    <3> QED
      BY Zenon, <2>2, <3>2 DEF GoodEntry, e
  <2> QED
    BY Zenon, <2>1, <2>2
<1>12. ASSUME NEW f \in DOMAIN T \ {g_pml4}
       PROVE  \E t \in DOMAIN T, i \in Index : PointsTo(m, t, i, f)
  <2>1. T[A][0] = pB /\ T[B][0] = pC
    BY Zenon, <1>cells, <1>4
  <2>2. PointsTo(m, A, 0, B) /\ PointsTo(m, B, 0, C)
    <3>1. T[A][0] # NONE /\ T[A][0].span = 0 /\ T[A][0].frame = B
      BY Zenon, <1>6, <2>1
    <3>2. T[B][0] # NONE /\ T[B][0].span = 0 /\ T[B][0].frame = C
      BY Zenon, <1>6, <2>1
    <3> QED
      BY Zenon, <1>1, <3>1, <3>2 DEF PointsTo
  <2>3. f = B \/ f = C
    BY Zenon, <1>2 DEF A
  <2>4. A \in DOMAIN T /\ B \in DOMAIN T
    BY Zenon, <1>2
  <2> QED
    BY Zenon, <1>4, <2>2, <2>3, <2>4
<1>13. ASSUME NEW s \in DOMAIN T, NEW t \in DOMAIN T, NEW i \in Index, NEW j \in Index,
              NEW f \in DOMAIN T, PointsTo(m, s, i, f), PointsTo(m, t, j, f)
       PROVE  s = t /\ i = j
  <2>1. ASSUME NEW x \in DOMAIN T, NEW k \in Index, PointsTo(m, x, k, f)
        PROVE  k = 0 /\ ((x = A /\ f = B) \/ (x = B /\ f = C))
    <3>1. T[x][k] # NONE /\ T[x][k].span = 0 /\ T[x][k].frame = f
      BY Zenon, <1>1, <2>1 DEF PointsTo
    <3> QED
      BY Zenon, <1>dom, <1>15, <3>1
  <2>2. /\ i = 0 /\ ((s = A /\ f = B) \/ (s = B /\ f = C))
        /\ j = 0 /\ ((t = A /\ f = B) \/ (t = B /\ f = C))
    BY Zenon, <1>13, <2>1
  <2> QED
    BY Zenon, <1>2, <2>2
<1>14. g_pml4 \in DOMAIN T /\ BootLevel[g_pml4] = 4
  BY Zenon, <1>2, <1>10 DEF A
<1> HIDE DEF T
<1>17. /\ \A t \in DOMAIN m.table, i \in Index :
             m.table[t][i] # NONE => GoodEntry(m, BootLevel, t, m.table[t][i])
       /\ \A f \in DOMAIN m.table \ {g_pml4} :
             \E t \in DOMAIN m.table, i \in Index : PointsTo(m, t, i, f)
  BY ZenonT(40), <1>1, <1>11, <1>12
<1>18. \A s, t \in DOMAIN m.table, i, j \in Index, f \in DOMAIN m.table :
          PointsTo(m, s, i, f) /\ PointsTo(m, t, j, f) => s = t /\ i = j
  <2>1. DOMAIN m.table = DOMAIN T
    BY Zenon, <1>1
  <2>2. \A s, t \in DOMAIN T, i, j \in Index, f \in DOMAIN T :
          PointsTo(m, s, i, f) /\ PointsTo(m, t, j, f) => s = t /\ i = j
    BY <1>13
  <2> QED
    BY <2>1, <2>2
<1>19. /\ m.table \in [DOMAIN m.table -> [Index -> Entry \cup {NONE}]]
       /\ m.free \subseteq Nat /\ m.free \cap DOMAIN m.table = {}
       /\ BootLevel \in [DOMAIN m.table -> 1..4]
       /\ g_pml4 \in DOMAIN m.table /\ BootLevel[g_pml4] = 4
  BY Zenon, <1>1, <1>8, <1>9, <1>10, <1>14
<1> QED
  BY ZenonT(40), <1>1, <1>17, <1>18, <1>19 DEF Tree

(* What boot maps, and that it maps nothing in the heap's window. *)
LEMMA BootQueries ==
    ASSUME NEW P, NEW m, m = [table |-> BootTables, free |-> P], NEW v \in Nat
    PROVE  /\ v \in Identity => vmm_query_mapping(m, v) = [frame |-> v, flags |-> {W}]
           /\ v \in Canonical \ Identity => vmm_query_mapping(m, v) = NONE
<1> DEFINE T == BootTables
           pB == Table(pdpt_table, {W})
           pC == Table(pd_table, {W})
           root == Table(g_pml4, {})
           a == pml4e(m, v)
           b == pdpte(m, v)
           c == pde(m, v)
<1>1. m.table = T
  BY DEF T
<1>2. /\ root.span = 0 /\ root.frame = g_pml4 /\ root # NONE
      /\ pB.span = 0 /\ pB.frame = pdpt_table /\ pB # NONE
      /\ pC.span = 0 /\ pC.frame = pd_table /\ pC # NONE
  <2>1. ASSUME NEW f \in Nat, NEW s \in SUBSET {W, U}
        PROVE  /\ Table(f, s) \in Entry /\ Table(f, s).span = 0 /\ Table(f, s).frame = f
    BY DEF Table, Entry
  <2>2. /\ g_pml4 \in Nat /\ pdpt_table \in Nat /\ pd_table \in Nat
        /\ {} \in SUBSET {W, U} /\ {W} \in SUBSET {W, U}
    BY Zenon, BootEntries DEF BootFrames
  <2>3. root \in Entry /\ root.span = 0 /\ root.frame = g_pml4
    BY Zenon, <2>1, <2>2
  <2>4. pB \in Entry /\ pB.span = 0 /\ pB.frame = pdpt_table
    BY Zenon, <2>1, <2>2
  <2>5. pC \in Entry /\ pC.span = 0 /\ pC.frame = pd_table
    BY Zenon, <2>1, <2>2
  <2> QED
    BY ZenonT(40), <2>3, <2>4, <2>5, PageTableAssumption DEF PageTableAssumption
<1>3. \A i \in Index :
         /\ T[g_pml4][i] = IF i = 0 THEN pB ELSE NONE
         /\ T[pdpt_table][i] = IF i = 0 THEN pC ELSE NONE
         /\ T[pd_table][i] = [span |-> Fanout, frame |-> i * Fanout, flags |-> {W}]
  BY Zenon, BootEntries
<1>4. vmm_query_mapping(m, v) = page_of(look(m, c, v, 1), v)
  BY Zenon DEF vmm_query_mapping, pde, pdpte, pml4e
<1>5. a = look(m, root, v, 4) /\ b = look(m, a, v, 3) /\ c = look(m, b, v, 2)
  BY Zenon DEF pde, pdpte, pml4e
<1> HIDE DEF T, pB, pC, root, a, b, c
<1>6. /\ table_index(v, 1) \in Index /\ table_index(v, 2) \in Index
      /\ table_index(v, 3) \in Index /\ table_index(v, 4) \in Index
  BY Zenon, Indices
<1>7. a = IF table_index(v, 4) = 0 THEN pB ELSE NONE
  <2>1. a = T[g_pml4][table_index(v, 4)]
    BY Zenon, <1>1, <1>2, <1>5 DEF look
  <2> QED
    BY Zenon, <1>3, <1>6, <2>1
<1>8. b = IF table_index(v, 4) = 0 /\ table_index(v, 3) = 0 THEN pC ELSE NONE
  <2>1. CASE table_index(v, 4) = 0
    <3>1. b = T[pdpt_table][table_index(v, 3)]
      BY Zenon, <1>1, <1>2, <1>5, <1>7, <2>1 DEF look
    <3> QED
      BY Zenon, <1>3, <1>6, <2>1, <3>1
  <2>2. CASE table_index(v, 4) # 0
    BY Zenon, <1>5, <1>7, <2>2 DEF look
  <2> QED
    BY Zenon, <2>1, <2>2
<1>9. ASSUME v \in Canonical \ Identity PROVE vmm_query_mapping(m, v) = NONE
  <2>1. b = NONE
    BY Zenon, <1>8, <1>9, HighIndices
  <2>2. c = NONE
    BY Zenon, <1>5, <2>1 DEF look
  <2>3. look(m, c, v, 1) = NONE
    BY Zenon, <2>2 DEF look
  <2> QED
    BY Zenon, <1>4, <2>3 DEF page_of
<1>10. ASSUME v \in Identity PROVE vmm_query_mapping(m, v) = [frame |-> v, flags |-> {W}]
  <2> DEFINE i == v \div Fanout
             e == [span |-> Fanout, frame |-> i * Fanout, flags |-> {W}]
  <2>1. b = pC /\ table_index(v, 2) = i /\ i \in Index
    BY Zenon, <1>8, <1>10, BootIndices
  <2>2. c = e
    <3>1. c = T[pd_table][i]
      BY Zenon, <1>1, <1>2, <1>5, <2>1 DEF look
    <3> QED
      BY Zenon, <1>3, <2>1, <3>1
  <2>3. Fanout \in Nat \ {0} /\ v = Fanout * i + (v % Fanout) /\ i \in Nat
    <3>1. Fanout \in Nat \ {0}
      BY PageTableAssumption DEF PageTableAssumption
    <3> QED
      BY Zenon, <3>1, Divide
  <2> HIDE DEF i
  <2>4. i * Fanout \in Nat /\ i * Fanout + (v % Fanout) = v
    BY <2>3, Z3
  <2> DEFINE k == i * Fanout
  <2> HIDE DEF k
  <2>5. e = [span |-> Fanout, frame |-> k, flags |-> {W}] /\ k \in Nat /\ k + (v % Fanout) = v
    BY Zenon, <2>4 DEF k
  <2> HIDE DEF e
  <2>6. e \in Entry /\ e.span = Fanout /\ e.span # 0 /\ e.frame = k /\ e.flags = {W}
    BY <2>3, <2>5 DEF Entry
  <2>7. e # NONE
    BY Zenon, <2>6, PageTableAssumption DEF PageTableAssumption
  <2>8. look(m, c, v, 1) = e
    BY Zenon, <2>2, <2>6 DEF look
  <2>9. page_of(e, v) = [frame |-> e.frame + (v % e.span), flags |-> e.flags]
    BY Zenon, <2>7 DEF page_of
  <2>10. page_of(e, v) = [frame |-> v, flags |-> {W}]
    BY Zenon, <2>5, <2>6, <2>9
  <2> QED
    BY Zenon, <1>4, <2>8, <2>10
<1> QED
  BY Zenon, <1>9, <1>10

(* vmm_init *)
LEMMA BootWhole ==
    ASSUME NEW P \in Pool, NEW m, m = [table |-> BootTables, free |-> P]
    PROVE  Whole(m, HeapBase, NONE, NONE, P)
<1> DEFINE H == HeapBase..(HeapBase - 1)
<1>1. HeapBase \in Nat /\ HeapBase \in HeapBase..g_kernel_heap_limit
  BY VmmAssumption, AddressAssumption DEF VmmAssumption, AddressAssumption
<1>2. H = {}
  BY <1>1
<1>3. P \subseteq Identity \ ({SplitPage} \cup BootFrames)
  BY VmmAssumption DEF VmmAssumption, BootFrames
<1>4. IsTree(m)
  <2>1. P \subseteq Identity \ BootFrames
    BY <1>3
  <2> QED
    BY Zenon, <2>1, BootTree DEF IsTree
<1>5. m.table = BootTables /\ m.free = P
  BY Zenon
<1>6. DOMAIN m.table = BootFrames
  BY Zenon, <1>5, BootEntries
<1> HIDE DEF H
<1>7. HeapMaps(m, H)
  <2>1. ASSUME NEW v \in HeapWindow PROVE vmm_query_mapping(m, v) = NONE
    <3>1. v \in Nat /\ v \in Canonical \ Identity
      BY PagesAreNat
    <3> QED
      BY Zenon, <3>1, BootQueries
  <2> QED
    BY Zenon, <1>2, <2>1 DEF HeapMaps
<1>8. BootMaps(m) /\ SplitMaps(m, NONE)
  <2>1. ASSUME NEW v \in Identity PROVE vmm_query_mapping(m, v) = [frame |-> v, flags |-> {W}]
    BY Zenon, PagesAreNat, BootQueries
  <2>2. BootMaps(m)
    BY Zenon, <2>1 DEF BootMaps
  <2>3. SplitMaps(m, NONE)
    BY ZenonT(40), <2>1, PagesAreNat DEF SplitMaps
  <2> QED
    BY Zenon, <2>2, <2>3
<1>9. Owned(m, Frames(m, H), {NONE, NONE} \ {NONE}, P)
  <2>1. Frames(m, H) = {}
    BY Zenon, <1>2 DEF Frames
  <2> QED
    BY <1>3, <1>5, <1>6, <2>1 DEF Owned
<1>10. Sound(m, H, {NONE, NONE} \ {NONE}, P)
  BY Zenon, <1>4, <1>7, <1>8, <1>9 DEF Sound
<1>11. NONE \in Nat \cup {NONE}
  BY Zenon
<1> QED
  BY ZenonT(40), <1>1, <1>8, <1>10, <1>11 DEF Whole, H
-----------------------------------------------------------------------------
(* Nothing the kernel does with its memory loses a page. *)

(* The inductive invariant of VmmSpec. *)
MemoryInv == Whole(vm, g_kernel_heap_next, user_page, split_page, pool)

(* It holds after vmm_init. *)
LEMMA MemoryInit == vmm_init => MemoryInv
  BY Zenon, BootWhole DEF vmm_init, MemoryInv

(* pmm_alloc_page returns a free page. *)
LEMMA TakesFree == ASSUME NEW m, m.free # {} PROVE take_page(m) \in m.free
  BY Zenon DEF take_page

(* Every operation keeps it: the heap's, those of the devices, and kmain's *)
(* tests.                                                                  *)
LEMMA AllocKeeps ==
    ASSUME MemoryInv, NEW n \in Nat, AllocKernelPages(n)
    PROVE  MemoryInv'
<1>1. Whole(vm', g_kernel_heap_next', user_page, split_page, pool)
  BY Zenon, AllocWhole DEF MemoryInv, AllocKernelPages
<1>2. user_page' = user_page /\ split_page' = split_page /\ pool' = pool
  BY Zenon DEF AllocKernelPages
<1> QED
  BY Zenon, <1>1, <1>2 DEF MemoryInv

(* The other operations, and steps that change nothing. *)
LEMMA MemoryStep == MemoryInv /\ [VmmNext]_vmmVars => MemoryInv'
<1> SUFFICES ASSUME MemoryInv, [VmmNext]_vmmVars PROVE MemoryInv'
  OBVIOUS
<1>0. Whole(vm, g_kernel_heap_next, user_page, split_page, pool)
  BY Zenon DEF MemoryInv
<1>1. CASE \E n \in HeapRequest : AllocKernelPages(n)
  BY Zenon, <1>1, AllocKeeps, VmmAssumption DEF VmmAssumption
<1>2. CASE MapDevice
  <2>1. PICK d \in DeviceRange : vm' = map_identity_range(vm, d[1], d[2])
    BY Zenon, <1>2 DEF MapDevice
  <2>2. /\ g_kernel_heap_next' = g_kernel_heap_next /\ user_page' = user_page
        /\ split_page' = split_page /\ pool' = pool
    BY Zenon, <1>2 DEF MapDevice
  <2>3. Whole(vm', g_kernel_heap_next, user_page, split_page, pool)
    BY Zenon, <1>0, <2>1, DeviceWhole
  <2> QED
    BY Zenon, <2>2, <2>3 DEF MemoryInv
<1>3. CASE MapUserPage
  <2> DEFINE f == take_page(vm)
             r == vmm_map_page([vm EXCEPT !.free = @ \ {f}], UserPage, f, {U, W})
  <2>1. /\ g_kernel_heap_next' = g_kernel_heap_next /\ user_page = NONE
        /\ split_page' = split_page /\ pool' = pool /\ f \in vm.free
    BY Zenon, <1>3, TakesFree DEF MapUserPage
  <2>2. vm' = (IF r.ok THEN r.m ELSE give_page(r.m, f)) /\ user_page' = IF r.ok THEN f ELSE NONE
    BY Zenon, <1>3 DEF MapUserPage
  <2>3. Whole(vm, g_kernel_heap_next, NONE, split_page, pool)
    BY Zenon, <1>0, <2>1
  <2> HIDE DEF f
  <2>4. Whole(IF r.ok THEN r.m ELSE give_page(r.m, f), g_kernel_heap_next,
              IF r.ok THEN f ELSE NONE, split_page, pool)
    BY Zenon, <2>1, <2>3, MapUserWhole
  <2> HIDE DEF r
  <2> QED
    BY Zenon, <2>1, <2>2, <2>4 DEF MemoryInv
<1>4. CASE UnmapUserPage
  <2>1. user_page \in Nat
    BY Zenon, <1>0, <1>4 DEF UnmapUserPage, Whole
  <2>2. Whole(vm', g_kernel_heap_next, NONE, split_page, pool)
    BY Zenon, <1>0, <1>4, <2>1, UnmapUserWhole DEF UnmapUserPage
  <2> QED
    BY Zenon, <1>4, <2>2 DEF UnmapUserPage, MemoryInv
<1>5. CASE SplitTest
  <2> DEFINE f == take_page(vm)
             x == vmm_unmap_page([vm EXCEPT !.free = @ \ {f}], SplitPage)
  <2>1. /\ g_kernel_heap_next' = g_kernel_heap_next /\ split_page = NONE
        /\ user_page' = user_page /\ pool' = pool /\ f \in vm.free
    BY Zenon, <1>5, TakesFree DEF SplitTest
  <2>2. /\ vm' = (IF x.ok THEN vmm_map_page(x.m, SplitPage, f, {W}).m ELSE x.m)
        /\ split_page' = f
    BY Zenon, <1>5 DEF SplitTest
  <2>3. Whole(vm, g_kernel_heap_next, user_page, NONE, pool)
    BY Zenon, <1>0, <2>1
  <2> HIDE DEF f
  <2>4. Whole(IF x.ok THEN vmm_map_page(x.m, SplitPage, f, {W}).m ELSE x.m,
              g_kernel_heap_next, user_page, f, pool)
    BY Zenon, <2>1, <2>3, SplitWhole
  <2> HIDE DEF x
  <2> QED
    BY Zenon, <2>1, <2>2, <2>4 DEF MemoryInv
<1>6. CASE SplitRestore
  <2>1. split_page \in Nat
    BY Zenon, <1>0, <1>6 DEF SplitRestore, Whole
  <2>2. Whole(vm', g_kernel_heap_next, user_page, NONE, pool)
    BY Zenon, <1>0, <1>6, <2>1, RestoreWhole DEF SplitRestore
  <2> QED
    BY Zenon, <1>6, <2>2 DEF SplitRestore, MemoryInv
<1>7. CASE UNCHANGED vmmVars
  BY Zenon, <1>7 DEF vmmVars, MemoryInv
<1> QED
  BY Zenon, <1>1, <1>2, <1>3, <1>4, <1>5, <1>6, <1>7 DEF VmmNext

=============================================================================
