------------------------------- MODULE Loops --------------------------------
(***************************************************************************)
(* Two facts for proofs about the loops of the code.  A loop of n turns is *)
(* written as the function f of its states, f[0] before the first turn and *)
(* f[i] after turn i.                                                      *)
(***************************************************************************)
EXTENDS Integers

CONSTANT Step(_)

IsLoop(f, start, n) == f = [i \in 0..n |-> IF i = 0 THEN start ELSE Step(f[i - 1])]

(* Whatever a turn does, the loop has a run of any number of turns: the    *)
(* equation that defines the function of its states has a solution.  The   *)
(* hypothesis, that the natural numbers are well ordered, is the lemma     *)
(* LeastNat of the modules that use this one: proving it here would bring  *)
(* the library of induction theorems into the context of every INSTANCE.   *)
THEOREM LoopExists ==
    ASSUME \A T \in SUBSET Nat : T # {} => \E x \in T : \A y \in T : x <= y,
           NEW start, NEW n \in Nat
    PROVE  \E f : IsLoop(f, start, n)
<1> DEFINE T == {k \in Nat : ~ \E f : IsLoop(f, start, k)}
<1> SUFFICES ASSUME T # {} PROVE FALSE
  OBVIOUS
<1>1. PICK k \in T : \A y \in T : k <= y
  <2> HIDE DEF T
  <2>1. T \subseteq Nat
    BY DEF T
  <2> QED
    BY <2>1
<1>2. CASE k = 0
  <2> DEFINE g == [i \in 0..0 |-> start]
  <2>1. IsLoop(g, start, 0)
    BY DEF IsLoop
  <2> QED
    BY <1>2, <2>1
<1>3. CASE k # 0
  <2>1. k - 1 \in Nat /\ k - 1 \notin T
    BY <1>1, <1>3
  <2>2. PICK g : IsLoop(g, start, k - 1)
    BY <2>1
  <2> DEFINE h == [i \in 0..k |-> IF i < k THEN g[i] ELSE Step(g[k - 1])]
  <2>3. \A i \in 0..(k - 1) : g[i] = IF i = 0 THEN start ELSE Step(g[i - 1])
    BY <2>2 DEF IsLoop
  <2>4. ASSUME NEW i \in 0..k
        PROVE  h[i] = IF i = 0 THEN start ELSE Step(h[i - 1])
    <3>1. CASE i = k
      <4>1. h[i] = Step(g[k - 1]) /\ h[i - 1] = g[k - 1]
        BY <1>3, <3>1
      <4> QED
        BY <1>3, <3>1, <4>1
    <3>2. CASE i < k
      <4>1. h[i] = g[i] /\ (i # 0 => h[i - 1] = g[i - 1]) /\ i \in 0..(k - 1)
        BY <3>2
      <4> QED
        BY <2>3, <4>1
    <3> QED
      BY <3>1, <3>2
  <2> HIDE DEF h
  <2>5. h = [i \in 0..k |-> h[i]]
    BY DEF h
  <2>6. IsLoop(h, start, k)
    BY <2>4, <2>5 DEF IsLoop
  <2> QED
    BY <2>6
<1> QED
  BY <1>2, <1>3

(* The states of a loop, turn by turn. *)
Turns(f, start, n) == f[0] = start /\ \A i \in 0..(n - 1) : f[i + 1] = Step(f[i])

(* What the equation says, one turn at a time. *)
LEMMA LoopTurns ==
    ASSUME NEW start, NEW n \in Nat, NEW f, IsLoop(f, start, n)
    PROVE  Turns(f, start, n)
<1>1. \A i \in 0..n : f[i] = IF i = 0 THEN start ELSE Step(f[i - 1])
  BY DEF IsLoop
<1>2. f[0] = start
  BY <1>1
<1>3. ASSUME NEW i \in 0..(n - 1) PROVE f[i + 1] = Step(f[i])
  <2>1. i + 1 \in 0..n /\ i + 1 # 0 /\ (i + 1) - 1 = i
    OBVIOUS
  <2> QED
    BY <1>1, <2>1
<1> QED
  BY <1>2, <1>3 DEF Turns

=============================================================================
