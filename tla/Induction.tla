----------------------------- MODULE Induction -----------------------------
(* Induction and recursion on the natural numbers, stated of sets and         *)
(* functions: the loops of the program are recursive functions in the modules *)
(* that model them, and what a loop leaves behind is proved with these.       *)
EXTENDS Integers, WellFoundedInduction, TLAPS

\* A set of natural numbers that is not empty has a least element.
LEMMA LeastElement ==
    ASSUME NEW S \in SUBSET Nat, S # {}
    PROVE  \E n \in S : \A m \in S : n <= m
<1>1. PICK n \in S : \A m \in S : ~ (<<m, n>> \in OpToRel(<, Nat))
    BY WFMin, NatLessThanWellFounded
<1>2. \A m \in S : ~(m < n)
    BY <1>1 DEF OpToRel
<1> QED BY <1>2

\* A set that holds 0 and n + 1 with every n holds every natural number.
LEMMA NatSetInduction ==
    ASSUME NEW S, 0 \in S, \A n \in Nat : n \in S => n + 1 \in S
    PROVE  Nat \subseteq S
<1> DEFINE T == Nat \ S
<1>1. SUFFICES ASSUME T # {} PROVE FALSE
    OBVIOUS
<1>2. PICK n \in T : \A m \in T : n <= m
    BY <1>1, LeastElement
<1>3. n # 0
    OBVIOUS
<1>4. n - 1 \in Nat /\ n - 1 \notin T
    BY <1>2, <1>3
<1> QED BY <1>4

\* A loop of n turns, with what holds after each of them.
LEMMA LoopInvariant ==
    ASSUME NEW n \in Nat, NEW f, NEW A,
           f[0] \in A[0],
           \A k \in 1..n : f[k - 1] \in A[k - 1] => f[k] \in A[k]
    PROVE  \A k \in 0..n : f[k] \in A[k]
<1> DEFINE S == {k \in Nat : k <= n => f[k] \in A[k]}
<1>1. 0 \in S
    OBVIOUS
<1>2. ASSUME NEW k \in Nat, k \in S PROVE k + 1 \in S
  <2>1. CASE k + 1 <= n
    <3>1. k + 1 \in 1..n /\ (k + 1) - 1 = k /\ f[k] \in A[k]
        BY <1>2, <2>1
    <3>2. f[k + 1] \in A[k + 1]
        BY <3>1
    <3> QED BY <3>2
  <2> QED BY <2>1
<1>3. Nat \subseteq S
  <2> HIDE DEF S
  <2> QED BY <1>1, <1>2, NatSetInduction
<1> QED BY <1>3

\* The loop of n turns that starts with a, takes step[k] in turn k and stays in A.
LoopIn(f, n, a, step, A) ==
    /\ f = [k \in 0..n |-> IF k = 0 THEN a ELSE step[k][f[k - 1]]]
    /\ \A k \in 0..n : f[k] \in A[k]

\* Such a loop computes something: a recursive function exists, if each turn is defined
\* on what the turn before leaves.
LEMMA LoopExists ==
    ASSUME NEW n \in Nat, NEW a, NEW A, NEW step,
           a \in A[0],
           \A k \in 1..n : \A x \in A[k - 1] : step[k][x] \in A[k]
    PROVE  \E f : LoopIn(f, n, a, step, A)
<1> DEFINE Loop(m, f) == /\ f = [k \in 0..m |-> IF k = 0 THEN a ELSE step[k][f[k - 1]]]
                         /\ \A k \in 0..m : f[k] \in A[k]
           S == {m \in Nat : m <= n => \E f : Loop(m, f)}
<1>1. 0 \in S
  <2> DEFINE g == [k \in 0..0 |-> a]
  <2>1. g = [k \in 0..0 |-> IF k = 0 THEN a ELSE step[k][g[k - 1]]]
      OBVIOUS
  <2>2. \A k \in 0..0 : g[k] \in A[k]
      OBVIOUS
  <2>3. Loop(0, g)
      BY <2>1, <2>2
  <2> QED BY <2>3
<1>2. ASSUME NEW m \in Nat, m \in S PROVE m + 1 \in S
  <2> SUFFICES ASSUME m + 1 <= n PROVE \E f : Loop(m + 1, f)
      OBVIOUS
  <2>1. PICK f : Loop(m, f)
      BY <1>2
  <2> DEFINE g == [k \in 0..(m + 1) |-> IF k <= m THEN f[k] ELSE step[k][f[m]]]
  <2>2. ASSUME NEW k \in 0..m PROVE g[k] = IF k = 0 THEN a ELSE step[k][g[k - 1]]
    <3>1. f[k] = IF k = 0 THEN a ELSE step[k][f[k - 1]]
        BY <2>1
    <3>2. g[k] = f[k] /\ (k # 0 => g[k - 1] = f[k - 1])
        OBVIOUS
    <3> QED BY <3>1, <3>2
  <2>3. g[m + 1] = step[m + 1][g[m]] /\ m + 1 # 0 /\ (m + 1) - 1 = m
      OBVIOUS
  <2>4. \A k \in 0..(m + 1) : g[k] = IF k = 0 THEN a ELSE step[k][g[k - 1]]
    <3> HIDE DEF g
    <3>1. \A k \in 0..(m + 1) : k \in 0..m \/ k = m + 1
        OBVIOUS
    <3> QED BY <2>2, <2>3, <3>1
  <2>5. g = [k \in 0..(m + 1) |-> IF k = 0 THEN a ELSE step[k][g[k - 1]]]
      BY <2>4
  <2>6. \A k \in 0..(m + 1) : g[k] \in A[k]
    <3>1. \A k \in 0..m : g[k] \in A[k]
        BY <2>1
    <3>2. g[m + 1] \in A[m + 1]
        BY <2>1
    <3> HIDE DEF g
    <3>3. \A k \in 0..(m + 1) : k \in 0..m \/ k = m + 1
        OBVIOUS
    <3> QED BY <3>1, <3>2, <3>3
  <2>7. Loop(m + 1, g)
      BY <2>5, <2>6
  <2> HIDE DEF Loop
  <2> QED BY <2>7
<1>3. Nat \subseteq S
  <2> HIDE DEF S
  <2> QED BY <1>1, <1>2, NatSetInduction
<1>4. n \in S
  <2> HIDE DEF S
  <2> QED BY <1>3
<1>5. \E f : Loop(n, f)
  <2> HIDE DEF Loop
  <2> QED BY <1>4
<1> QED BY <1>5 DEF LoopIn
=============================================================================
