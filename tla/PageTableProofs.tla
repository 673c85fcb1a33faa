-------------------------- MODULE PageTableProofs --------------------------
(* Proofs about PageTable.tla, for any number of levels, any fan-out and any  *)
(* page numbers: the tree of tables is well formed, and is one entry per      *)
(* page.  The argument follows one path through the tree per page: linking a  *)
(* new table changes, in the paths of just those pages that agree with it     *)
(* down to that level, the one place that was empty.                          *)
EXTENDS PageTable, SequenceTheorems, Induction

-----------------------------------------------------------------------------
(* Page numbers, digit by digit.                                              *)

\* What a page shares with the pages that have the same table at a level.
Prefix(g, l) == High(g, Levels - l + 1)

\* High shifts by one digit at a time.
LEMMA HighShifts ==
    ASSUME NEW g \in Nat
    PROVE  /\ High(g, 0) = g
           /\ \A k \in 0..Levels : High(g, k) \in Nat
           /\ \A k \in 1..Levels : High(g, k) = High(g, k - 1) \div Fanout
<1> DEFINE h[j \in 0..Levels] == IF j = 0 THEN g ELSE h[j - 1] \div Fanout
           step == [j \in 1..Levels |-> [x \in Nat |-> x \div Fanout]]
           A == [j \in 0..Levels |-> Nat]
           Loop(f) == f = [j \in 0..Levels |-> IF j = 0 THEN g ELSE f[j - 1] \div Fanout]
<1>0. Levels \in Nat /\ Fanout \in Nat \ {0}
    BY TreeAssumption
<1>1. ASSUME NEW x \in Nat PROVE x \div Fanout \in Nat
    BY <1>0
<1>2. \A j \in 1..Levels : \A x \in A[j - 1] :
          step[j][x] \in A[j] /\ step[j][x] = x \div Fanout /\ j - 1 \in 0..Levels
  <2>1. \A j \in 1..Levels : j \in 0..Levels /\ j - 1 \in 0..Levels
      BY <1>0
  <2>2. \A j \in 0..Levels : A[j] = Nat
      OBVIOUS
  <2>3. \A j \in 1..Levels : \A x \in Nat : step[j][x] = x \div Fanout
      OBVIOUS
  <2> HIDE DEF step, A
  <2> QED BY <1>1, <2>1, <2>2, <2>3
<1>3. g \in A[0]
    BY <1>0
<1>4. \E f : Loop(f)
  <2> HIDE DEF step, A
  <2>0. \A j \in 1..Levels : \A x \in A[j - 1] : step[j][x] \in A[j]
      BY <1>2
  <2>1. PICK f : LoopIn(f, Levels, g, step, A)
      BY <1>0, <1>3, <2>0, LoopExists
  <2>2. /\ f = [j \in 0..Levels |-> IF j = 0 THEN g ELSE step[j][f[j - 1]]]
        /\ \A j \in 0..Levels : f[j] \in A[j]
      BY <2>1 DEF LoopIn
  <2>3. ASSUME NEW j \in 0..Levels
        PROVE  f[j] = IF j = 0 THEN g ELSE f[j - 1] \div Fanout
    <3>1. CASE j = 0
        BY <2>2, <3>1
    <3>2. CASE j # 0
      <4>1. j \in 1..Levels /\ j - 1 \in 0..Levels
          BY <1>0, <3>2
      <4> QED BY <1>2, <2>2, <3>2, <4>1
    <3> QED BY <3>1, <3>2
  <2>4. f = [j \in 0..Levels |-> f[j]]
      BY <2>2
  <2>5. Loop(f)
      BY <2>3, <2>4
  <2> QED BY <2>5
<1>5. Loop(h)
    BY <1>4
<1>6. \A k \in 0..Levels : High(g, k) = h[k]
    BY DEF High, h
<1> HIDE DEF h
<1>7. h[0] = g /\ \A k \in 1..Levels : h[k] = h[k - 1] \div Fanout
    BY <1>0, <1>5
<1>8. \A k \in 0..Levels : h[k] \in Nat
  <2>1. \A k \in 1..Levels : h[k - 1] \in A[k - 1] => h[k] \in A[k]
    <3>1. \A k \in 1..Levels : A[k - 1] = Nat /\ A[k] = Nat
        BY <1>0
    <3> QED BY <1>1, <1>7, <3>1
  <2>2. h[0] \in A[0]
      BY <1>3, <1>7
  <2>3. \A k \in 0..Levels : h[k] \in A[k]
    <3> HIDE DEF A
    <3> QED BY <1>0, <2>1, <2>2, LoopInvariant
  <2> QED BY <2>3
<1> QED BY <1>0, <1>6, <1>7, <1>8

\* Pages agree below a level just when they agree above it and in its digit.
LEMMA Digits ==
    ASSUME NEW g \in Nat, NEW h \in Nat, NEW l \in 1..Levels
    PROVE  /\ Index(g, l) \in Slot
           /\ Prefix(g, l + 1) = Prefix(h, l + 1)
                  <=> Prefix(g, l) = Prefix(h, l) /\ Index(g, l) = Index(h, l)
<1> DEFINE k == Levels - l
           q == High(g, k)
           r == High(h, k)
<1>1. Levels \in Nat /\ Fanout \in Nat \ {0} /\ k \in 0..Levels /\ k + 1 \in 1..Levels
      /\ (k + 1) - 1 = k /\ Levels - (l + 1) + 1 = k
    BY TreeAssumption
<1>2. q \in Nat /\ r \in Nat /\ High(g, k + 1) = q \div Fanout
      /\ High(h, k + 1) = r \div Fanout
    BY <1>1, HighShifts
<1>3. Prefix(g, l + 1) = q /\ Prefix(h, l + 1) = r
      /\ Prefix(g, l) = q \div Fanout /\ Prefix(h, l) = r \div Fanout
    BY <1>1, <1>2 DEF Prefix
<1>4. Index(g, l) = q % Fanout /\ Index(h, l) = r % Fanout
    BY DEF Index
<1>5. q % Fanout \in Slot
    BY <1>1, <1>2 DEF Slot
<1>6. q = r <=> q \div Fanout = r \div Fanout /\ q % Fanout = r % Fanout
  <2> HIDE DEF q, r
  <2> QED BY <1>1, <1>2
<1> QED BY <1>3, <1>4, <1>5, <1>6

\* All pages are below the pgd, and a page is all there is of itself.
LEMMA Ends ==
    ASSUME NEW g \in PageNo
    PROVE  g \in Nat /\ Prefix(g, 1) = 0 /\ Prefix(g, Levels + 1) = g
<1>1. g \in Nat /\ High(g, Levels) = 0 /\ Levels \in Nat
    BY TreeAssumption
<1>2. Levels - 1 + 1 = Levels /\ Levels - (Levels + 1) + 1 = 0
    BY <1>1
<1> QED BY <1>1, <1>2, HighShifts DEF Prefix

-----------------------------------------------------------------------------
(* The path of a page.                                                        *)

\* TableOf in directories d.
Path(d, g) ==
    LET at[l \in 1..Levels] ==
            IF l = 1 THEN 1
            ELSE IF at[l - 1] = 0 THEN 0
            ELSE d[at[l - 1]][Index(g, l - 1)]
    IN  at

IsPath(f, d, g) ==
    f = [l \in 1..Levels |-> IF l = 1 THEN 1
                             ELSE IF f[l - 1] = 0 THEN 0
                             ELSE d[f[l - 1]][Index(g, l - 1)]]

\* The way down is a loop, whatever the directories hold.
LEMMA PathExists == ASSUME NEW d, NEW g PROVE \E f : IsPath(f, d, g)
<1> DEFINE Upto(m, f) ==
               f = [l \in 1..m |-> IF l = 1 THEN 1
                                   ELSE IF f[l - 1] = 0 THEN 0
                                   ELSE d[f[l - 1]][Index(g, l - 1)]]
           S == {m \in Nat : \E f : Upto(m, f)}
<1>1. 0 \in S
  <2>1. Upto(0, [l \in 1..0 |-> 1])
      OBVIOUS
  <2> HIDE DEF Upto
  <2> QED BY <2>1
<1>2. ASSUME NEW m \in Nat, m \in S PROVE m + 1 \in S
  <2>1. PICK f : Upto(m, f)
      BY <1>2
  <2> DEFINE last == IF m = 0 THEN 1 ELSE IF f[m] = 0 THEN 0 ELSE d[f[m]][Index(g, m)]
             e == [l \in 1..(m + 1) |-> IF l = m + 1 THEN last ELSE f[l]]
  <2>2. ASSUME NEW l \in 1..(m + 1)
        PROVE  e[l] = IF l = 1 THEN 1
                      ELSE IF e[l - 1] = 0 THEN 0 ELSE d[e[l - 1]][Index(g, l - 1)]
    <3>1. CASE l = m + 1
      <4>1. e[l] = last
          BY <3>1
      <4>2. m # 0 => l # 1 /\ l - 1 = m /\ e[l - 1] = f[m]
          BY <3>1
      <4>3. m = 0 => l = 1
          BY <3>1
      <4> HIDE DEF e
      <4> QED BY <4>1, <4>2, <4>3
    <3>2. CASE l # m + 1
      <4>1. l \in 1..m /\ e[l] = f[l]
          BY <3>2
      <4>2. l # 1 => l - 1 \in 1..m /\ e[l - 1] = f[l - 1]
          BY <4>1
      <4>3. f[l] = IF l = 1 THEN 1
                   ELSE IF f[l - 1] = 0 THEN 0 ELSE d[f[l - 1]][Index(g, l - 1)]
          BY <2>1, <4>1
      <4> HIDE DEF e
      <4> QED BY <4>1, <4>2, <4>3
    <3> QED BY <3>1, <3>2
  <2>3. e = [l \in 1..(m + 1) |-> e[l]]
      OBVIOUS
  <2> HIDE DEF e
  <2>4. Upto(m + 1, e)
      BY <2>2, <2>3
  <2> HIDE DEF Upto
  <2> QED BY <2>4
<1>3. Levels \in S
  <2> HIDE DEF S
  <2> QED BY <1>1, <1>2, NatSetInduction, TreeAssumption
<1>4. \E f : Upto(Levels, f)
    BY <1>3
<1> QED BY <1>4 DEF IsPath

\* Each place on the path is found from the one before.
LEMMA PathIs == ASSUME NEW d, NEW g PROVE IsPath(Path(d, g), d, g)
<1> DEFINE at[l \in 1..Levels] ==
            IF l = 1 THEN 1
            ELSE IF at[l - 1] = 0 THEN 0
            ELSE d[at[l - 1]][Index(g, l - 1)]
<1>1. \E f : IsPath(f, d, g)
    BY PathExists
<1>2. IsPath(at, d, g)
    BY <1>1 DEF IsPath
<1>3. Path(d, g) = at
    BY DEF Path
<1> QED BY <1>2, <1>3

\* No other sequence of places is.
LEMMA PathUnique ==
    ASSUME NEW d, NEW g, NEW f, IsPath(f, d, g)
    PROVE  Path(d, g) = f
<1> DEFINE P == Path(d, g)
           S == {m \in Nat : \A l \in 1..Levels : l <= m => P[l] = f[l]}
<1>1. IsPath(P, d, g)
    BY PathIs
<1> HIDE DEF P
<1>2. 0 \in S
    OBVIOUS
<1>3. ASSUME NEW m \in Nat, m \in S PROVE m + 1 \in S
  <2>1. ASSUME NEW l \in 1..Levels, l = m + 1 PROVE P[l] = f[l]
    <3>1. CASE l = 1
        BY <1>1, <2>1, <3>1 DEF IsPath
    <3>2. CASE l # 1
      <4>1. l - 1 \in 1..Levels /\ l - 1 <= m
          BY <2>1, <3>2, TreeAssumption
      <4>2. P[l - 1] = f[l - 1]
          BY <1>3, <4>1
      <4>3. P[l] = IF P[l - 1] = 0 THEN 0 ELSE d[P[l - 1]][Index(g, l - 1)]
          BY <1>1, <3>2 DEF IsPath
      <4>4. f[l] = IF f[l - 1] = 0 THEN 0 ELSE d[f[l - 1]][Index(g, l - 1)]
          BY <3>2 DEF IsPath
      <4> QED BY <4>2, <4>3, <4>4
    <3> QED BY <3>1, <3>2
  <2> QED BY <1>3, <2>1
<1>4. Levels \in S /\ Levels \in Nat
  <2> HIDE DEF S
  <2> QED BY <1>2, <1>3, NatSetInduction, TreeAssumption
<1>5. \A l \in 1..Levels : P[l] = f[l]
    BY <1>4
<1>6. P = [l \in 1..Levels |-> P[l]] /\ f = [l \in 1..Levels |-> f[l]]
    BY <1>1 DEF IsPath
<1>7. P = f
    BY <1>5, <1>6
<1> QED BY <1>7 DEF P

\* The places of a path, one by one.
LEMMA PathStep ==
    ASSUME NEW d, NEW g
    PROVE  /\ Path(d, g)[1] = 1
           /\ \A l \in 1..Levels : l + 1 \in 1..Levels =>
                  Path(d, g)[l + 1] = IF Path(d, g)[l] = 0 THEN 0
                                      ELSE d[Path(d, g)[l]][Index(g, l)]
<1>1. Levels \in Nat /\ 1 \in 1..Levels
    BY TreeAssumption
<1>2. IsPath(Path(d, g), d, g)
    BY PathIs
<1>3. ASSUME NEW l \in 1..Levels, l + 1 \in 1..Levels
      PROVE  Path(d, g)[l + 1] = IF Path(d, g)[l] = 0 THEN 0
                                 ELSE d[Path(d, g)[l]][Index(g, l)]
  <2>1. (l + 1) - 1 = l /\ l + 1 # 1
      BY <1>1
  <2> QED BY <1>2, <1>3, <2>1 DEF IsPath
<1> QED BY <1>1, <1>2, <1>3 DEF IsPath

\* Below a table that is missing there are none.
LEMMA NothingBelow ==
    ASSUME NEW d, NEW g, NEW l \in 1..Levels, Path(d, g)[l] = 0
    PROVE  \A m \in l..Levels : Path(d, g)[m] = 0
<1> DEFINE P == Path(d, g)
           S == {m \in Nat : l + m <= Levels => P[l + m] = 0}
<1>0. Levels \in Nat /\ l \in Nat /\ 1 <= l
    BY TreeAssumption
<1>1. 0 \in S
    BY <1>0
<1>2. ASSUME NEW m \in Nat, m \in S PROVE m + 1 \in S
  <2>1. CASE l + m + 1 <= Levels
    <3>1. l + m \in 1..Levels /\ (l + m) + 1 \in 1..Levels /\ l + (m + 1) = (l + m) + 1
        BY <1>0, <2>1
    <3>2. P[(l + m) + 1] = 0
        BY <1>2, <3>1, PathStep
    <3> QED BY <3>1, <3>2
  <2> QED BY <1>0, <2>1
<1>3. Nat \subseteq S
  <2> HIDE DEF S
  <2> QED BY <1>1, <1>2, NatSetInduction
<1>4. ASSUME NEW m \in l..Levels PROVE P[m] = 0
  <2>1. m - l \in Nat /\ l + (m - l) = m /\ m <= Levels
      BY <1>0
  <2>2. m - l \in S
      BY <1>3, <2>1
  <2> QED BY <2>1, <2>2
<1> QED BY <1>4

\* Pages that agree down to a level have the same path down to it.
LEMMA PathShared ==
    ASSUME NEW d, NEW g \in Nat, NEW h \in Nat, NEW l \in 1..Levels,
           Prefix(g, l) = Prefix(h, l)
    PROVE  \A j \in 1..l : Path(d, g)[j] = Path(d, h)[j] /\ Prefix(g, j) = Prefix(h, j)
<1> DEFINE Same(j) == Path(d, g)[j] = Path(d, h)[j] /\ Prefix(g, j) = Prefix(h, j)
           S == {m \in Nat : m \in 1..Levels /\ Prefix(g, m) = Prefix(h, m) =>
                                 \A j \in 1..m : Same(j)}
<1>0. Levels \in Nat
    BY TreeAssumption
<1>1. 0 \in S
    OBVIOUS
<1>2. ASSUME NEW m \in Nat, m \in S PROVE m + 1 \in S
  <2> SUFFICES ASSUME m + 1 \in 1..Levels, Prefix(g, m + 1) = Prefix(h, m + 1)
               PROVE  \A j \in 1..(m + 1) : Same(j)
      OBVIOUS
  <2>1. CASE m = 0
      BY <2>1, PathStep
  <2>2. CASE m # 0
    <3>1. m \in 1..Levels
        BY <1>0, <2>2
    <3>2. Prefix(g, m) = Prefix(h, m) /\ Index(g, m) = Index(h, m)
        BY <3>1, Digits
    <3>3. \A j \in 1..m : Same(j)
        BY <1>2, <3>1, <3>2
    <3>4. Path(d, g)[m] = Path(d, h)[m]
        BY <3>3, <2>2
    <3>5. Path(d, g)[m + 1] = Path(d, h)[m + 1]
        BY <3>1, <3>2, <3>4, PathStep
    <3>6. \A j \in 1..(m + 1) : j \in 1..m \/ j = m + 1
        OBVIOUS
    <3> HIDE DEF S
    <3> QED BY <3>3, <3>5, <3>6
  <2> QED BY <2>1, <2>2
<1>3. l \in S
  <2> HIDE DEF S
  <2> QED BY <1>0, <1>1, <1>2, NatSetInduction
<1>4. \A j \in 1..l : Same(j)
    BY <1>3
<1> QED BY <1>4

-----------------------------------------------------------------------------
(* The tree.                                                                  *)

Dirs == Seq([Slot -> Nat])
Tabs == Seq([Slot -> PTE])

\* The tables there are at a level.
Tables(d, p, l) == IF l = Levels THEN 1..Len(p) ELSE 1..Len(d)

PathsEnd(d, p) ==
    \A g \in PageNo : \A l \in 1..Levels : Path(d, g)[l] \in {0} \cup Tables(d, p, l)

\* A table is shared only by pages that agree above it, ...
OnePrefix(d) ==
    \A g, h \in PageNo : \A l \in 1..Levels :
        Path(d, g)[l] # 0 /\ Path(d, g)[l] = Path(d, h)[l] => Prefix(g, l) = Prefix(h, l)

\* ... and is at one level only.
OneLevel(d) ==
    \A g, h \in PageNo : \A l, m \in 1..(Levels - 1) :
        Path(d, g)[l] # 0 /\ Path(d, g)[l] = Path(d, h)[m] => l = m

\* No table but the pgd, which is there from the start, is out of every page's reach.
Reached(d, p) ==
    /\ \A t \in 1..Len(p) : \E g \in PageNo : Path(d, g)[Levels] = t
    /\ \A t \in 1..Len(d) :
           t # 1 => \E g \in PageNo : \E l \in 1..(Levels - 1) : Path(d, g)[l] = t

\* The inductive invariant of the tree, between any two turns of any loop.
Tree(d, p) ==
    /\ d \in Dirs /\ p \in Tabs
    /\ PathsEnd(d, p) /\ OnePrefix(d) /\ OneLevel(d) /\ Reached(d, p)

\* What a page's entry reads as.
Entry(d, p, g) ==
    IF Path(d, g)[Levels] = 0 THEN NoEntry ELSE p[Path(d, g)[Levels]][Index(g, Levels)]

\* A new table at the empty slot of page g at level l.
Linked(d, p, dd, pp, g, l, new) ==
    /\ dd \in Dirs /\ pp \in Tabs
    /\ \A t \in 1..Len(d) : \A i \in Slot :
           dd[t][i] = IF t = Path(d, g)[l] /\ i = Index(g, l) THEN new ELSE d[t][i]
    /\ \A t \in 1..Len(p) : pp[t] = p[t]
    /\ IF l + 1 = Levels
         THEN Len(dd) = Len(d) /\ new = Len(p) + 1 /\ Len(pp) = new /\ pp[new] = FreshTable
         ELSE pp = p /\ new = Len(d) + 1 /\ Len(dd) = new /\ \A i \in Slot : dd[new][i] = 0

\* Linking a table puts it into the paths of the pages it is for, and leaves every other
\* place of every path alone.
LEMMA PathLinked ==
    ASSUME NEW d, NEW p, NEW dd, NEW pp, NEW g \in PageNo, NEW l \in 1..(Levels - 1), NEW new,
           Tree(d, p), Linked(d, p, dd, pp, g, l, new),
           Path(d, g)[l] # 0, Path(d, g)[l + 1] = 0, NEW h \in PageNo
    PROVE  \A m \in 1..Levels :
               Path(dd, h)[m] = IF m = l + 1 /\ Prefix(h, m) = Prefix(g, m) THEN new
                                ELSE Path(d, h)[m]
<1> DEFINE P == Path(d, h)
           T == Path(d, g)[l]
           Mine == Prefix(h, l + 1) = Prefix(g, l + 1)
           f == [m \in 1..Levels |-> IF m = l + 1 /\ Mine THEN new ELSE P[m]]
<1>0. Levels \in Nat /\ l \in 1..Levels /\ l + 1 \in 1..Levels /\ l < Levels
      /\ g \in Nat /\ h \in Nat
    BY TreeAssumption
<1>1. new # 0 /\ T \in 1..Len(d) /\ Index(g, l) \in Slot
  <2>1. d \in Dirs /\ p \in Tabs /\ T \in {0} \cup Tables(d, p, l)
      BY <1>0 DEF Tree, PathsEnd
  <2>2. Len(d) \in Nat /\ Len(p) \in Nat
      BY <2>1 DEF Dirs, Tabs
  <2> QED BY <1>0, <2>1, <2>2, Digits DEF Linked, Tables
<1>2. ASSUME Mine PROVE /\ P[l] = T /\ P[l + 1] = 0 /\ Index(h, l) = Index(g, l)
                        /\ \A m \in (l + 1)..Levels : P[m] = 0
  <2>1. P[l] = T /\ P[l + 1] = 0
      BY <1>0, <1>2, PathShared
  <2>2. Index(h, l) = Index(g, l)
      BY <1>0, <1>2, Digits
  <2> QED BY <1>0, <2>1, <2>2, NothingBelow
<1>3. \A m \in 1..Levels : m + 1 \in 1..Levels => P[m] \in {0} \cup 1..Len(d)
  <2>1. \A m \in 1..Levels : m + 1 \in 1..Levels => m # Levels
      BY <1>0
  <2> QED BY <2>1 DEF Tree, PathsEnd, Tables
<1>4. ASSUME NEW m \in 1..Levels, m + 1 \in 1..Levels, P[m] = T, Index(h, m) = Index(g, l)
      PROVE  m = l /\ Mine
  <2>1. m \in 1..(Levels - 1)
      BY <1>0, <1>4
  <2>2. m = l
      BY <1>4, <2>1 DEF Tree, OneLevel
  <2>3. Prefix(h, l) = Prefix(g, l)
      BY <1>0, <1>4, <2>2 DEF Tree, OnePrefix
  <2> QED BY <1>0, <1>4, <2>2, <2>3, Digits
<1>5. f[1] = 1
    BY <1>0, PathStep
<1>6. ASSUME NEW m \in 1..Levels, m + 1 \in 1..Levels
      PROVE  f[m + 1] = IF f[m] = 0 THEN 0 ELSE dd[f[m]][Index(h, m)]
  <2>0. /\ P[m + 1] = IF P[m] = 0 THEN 0 ELSE d[P[m]][Index(h, m)]
        /\ Index(h, m) \in Slot
      BY <1>0, <1>6, PathStep, Digits
  <2>1. CASE Mine /\ m = l
    <3>1. f[m] = T /\ f[m + 1] = new
        BY <1>0, <1>2, <2>1
    <3>2. dd[T][Index(h, m)] = new
        BY <1>1, <1>2, <2>1 DEF Linked
    <3> QED BY <1>1, <3>1, <3>2
  <2>2. CASE Mine /\ m = l + 1
    <3>1. f[m] = new /\ f[m + 1] = P[m + 1] /\ l + 1 # Levels
        BY <1>0, <1>6, <2>2
    <3>2. P[m + 1] = 0
        BY <1>0, <1>2, <1>6, <2>2
    <3>3. dd[new][Index(h, m)] = 0
        BY <2>0, <3>1 DEF Linked
    <3> QED BY <3>1, <3>2, <3>3
  <2>3. CASE ~(Mine /\ (m = l \/ m = l + 1))
    <3>1. f[m] = P[m] /\ f[m + 1] = P[m + 1]
        BY <1>0, <1>6, <2>3
    <3>2. CASE P[m] = 0
        BY <2>0, <3>1, <3>2
    <3>3. CASE P[m] # 0
      <4>1. P[m] \in 1..Len(d)
          BY <1>3, <1>6, <3>3
      <4>2. ~(P[m] = T /\ Index(h, m) = Index(g, l))
          BY <1>4, <1>6, <2>3
      <4>3. dd[P[m]][Index(h, m)] = d[P[m]][Index(h, m)]
          BY <2>0, <4>1, <4>2 DEF Linked
      <4> QED BY <2>0, <3>1, <3>3, <4>3
    <3> QED BY <3>2, <3>3
  <2> QED BY <2>1, <2>2, <2>3
<1>7. ASSUME NEW m \in 1..Levels
      PROVE  f[m] = IF m = 1 THEN 1
                    ELSE IF f[m - 1] = 0 THEN 0 ELSE dd[f[m - 1]][Index(h, m - 1)]
  <2>1. CASE m = 1
      BY <1>5, <2>1
  <2>2. CASE m # 1
    <3>1. m - 1 \in 1..Levels /\ (m - 1) + 1 = m
        BY <1>0, <2>2
    <3> HIDE DEF f
    <3> QED BY <1>6, <2>2, <3>1
  <2> QED BY <2>1, <2>2
<1>8. f = [m \in 1..Levels |-> f[m]]
    OBVIOUS
<1>9. IsPath(f, dd, h)
  <2> HIDE DEF f
  <2> QED BY <1>7, <1>8 DEF IsPath
<1>10. Path(dd, h) = f
  <2> HIDE DEF f
  <2> QED BY <1>9, PathUnique
<1> QED BY <1>10

\* Linking keeps the tree well formed, and no page's entry reads differently: a new table
\* is empty.
LEMMA TreeLinked ==
    ASSUME NEW d, NEW p, NEW dd, NEW pp, NEW g \in PageNo, NEW l \in 1..(Levels - 1), NEW new,
           Tree(d, p), Linked(d, p, dd, pp, g, l, new),
           Path(d, g)[l] # 0, Path(d, g)[l + 1] = 0
    PROVE  /\ Tree(dd, pp) /\ Path(dd, g)[l + 1] = new /\ new # 0
           /\ \A h \in PageNo : Entry(dd, pp, h) = Entry(d, p, h)
<1> DEFINE New(h, m) == m = l + 1 /\ Prefix(h, m) = Prefix(g, m)
<1>0. /\ Levels \in Nat /\ l \in 1..Levels /\ l + 1 \in 1..Levels /\ l < Levels
      /\ PageNo \subseteq Nat /\ Levels \in 1..Levels
    BY TreeAssumption
<1>1. /\ d \in Dirs /\ p \in Tabs /\ dd \in Dirs /\ pp \in Tabs
      /\ Len(d) \in Nat /\ Len(p) \in Nat
    BY DEF Tree, Linked, Dirs, Tabs
<1>2. \A h \in PageNo : \A m \in 1..Levels :
          /\ New(h, m) => Path(dd, h)[m] = new /\ Path(d, h)[m] = 0
          /\ ~New(h, m) => Path(dd, h)[m] = Path(d, h)[m]
  <2> SUFFICES ASSUME NEW h \in PageNo, NEW m \in 1..Levels
               PROVE  /\ New(h, m) => Path(dd, h)[m] = new /\ Path(d, h)[m] = 0
                      /\ ~New(h, m) => Path(dd, h)[m] = Path(d, h)[m]
      OBVIOUS
  <2>1. Path(dd, h)[m] = IF m = l + 1 /\ Prefix(h, m) = Prefix(g, m) THEN new
                         ELSE Path(d, h)[m]
      BY PathLinked
  <2>2. ASSUME New(h, m) PROVE Path(d, h)[m] = 0
    <3>1. h \in Nat /\ g \in Nat /\ Prefix(h, l + 1) = Prefix(g, l + 1) /\ l + 1 \in 1..(l + 1)
        BY <1>0, <2>2
    <3>2. Path(d, h)[l + 1] = Path(d, g)[l + 1]
        BY <1>0, <3>1, PathShared
    <3> QED BY <2>2, <3>2
  <2> QED BY <2>1, <2>2
<1>3. \A h \in PageNo : \A m \in 1..Levels : Path(d, h)[m] \in {0} \cup Tables(d, p, m)
    BY DEF Tree, PathsEnd
<1>4. /\ new # 0 /\ new \in Tables(dd, pp, l + 1) /\ new \notin Tables(d, p, l + 1)
      /\ \A m \in 1..Levels : Tables(d, p, m) \subseteq Tables(dd, pp, m)
      /\ l + 1 # Levels => new \notin 1..Len(d)
    BY <1>1 DEF Tables, Linked
<1>5. g \in PageNo /\ New(g, l + 1)
    OBVIOUS
<1> HIDE DEF New
<1>6. Path(dd, g)[l + 1] = new
    BY <1>0, <1>2, <1>5
<1>7. PathsEnd(dd, pp)
  <2> SUFFICES ASSUME NEW h \in PageNo, NEW m \in 1..Levels
               PROVE  Path(dd, h)[m] \in {0} \cup Tables(dd, pp, m)
      BY DEF PathsEnd
  <2>1. New(h, m) => m = l + 1
      BY DEF New
  <2> QED BY <1>2, <1>3, <1>4, <2>1
<1>8. OnePrefix(dd)
  <2> SUFFICES ASSUME NEW e \in PageNo, NEW h \in PageNo, NEW m \in 1..Levels,
                      Path(dd, e)[m] # 0, Path(dd, e)[m] = Path(dd, h)[m]
               PROVE  Prefix(e, m) = Prefix(h, m)
      BY DEF OnePrefix
  <2>1. New(e, m) => m = l + 1 /\ Prefix(e, m) = Prefix(g, m)
      BY DEF New
  <2>2. New(h, m) => m = l + 1 /\ Prefix(h, m) = Prefix(g, m)
      BY DEF New
  <2>3. New(e, m) <=> New(h, m)
      BY <1>2, <1>3, <1>4, <2>1, <2>2
  <2>4. CASE New(e, m)
      BY <2>1, <2>2, <2>3, <2>4
  <2>5. CASE ~New(e, m)
    <3>1. Path(d, e)[m] # 0 /\ Path(d, e)[m] = Path(d, h)[m]
        BY <1>2, <2>3, <2>5
    <3> QED BY <3>1 DEF Tree, OnePrefix
  <2> QED BY <2>4, <2>5
<1>9. OneLevel(dd)
  <2> SUFFICES ASSUME NEW e \in PageNo, NEW h \in PageNo,
                      NEW m \in 1..(Levels - 1), NEW n \in 1..(Levels - 1),
                      Path(dd, e)[m] # 0, Path(dd, e)[m] = Path(dd, h)[n]
               PROVE  m = n
      BY DEF OneLevel
  <2>0. /\ m \in 1..Levels /\ n \in 1..Levels /\ m # Levels /\ n # Levels
        /\ Tables(d, p, m) = 1..Len(d) /\ Tables(d, p, n) = 1..Len(d)
      BY <1>0 DEF Tables
  <2>1. (New(e, m) => m = l + 1) /\ (New(h, n) => n = l + 1)
      BY DEF New
  <2>2. New(e, m) <=> New(h, n)
      BY <1>2, <1>3, <1>4, <2>0, <2>1
  <2>3. CASE New(e, m)
      BY <2>1, <2>2, <2>3
  <2>4. CASE ~New(e, m)
    <3>1. Path(d, e)[m] # 0 /\ Path(d, e)[m] = Path(d, h)[n]
        BY <1>2, <2>0, <2>2, <2>4
    <3> QED BY <3>1 DEF Tree, OneLevel
  <2> QED BY <2>3, <2>4
<1>10. \A h \in PageNo : \A m \in 1..Levels :
           Path(d, h)[m] # 0 => Path(dd, h)[m] = Path(d, h)[m]
    BY <1>2
<1>11. Reached(dd, pp)
  <2>1. ASSUME NEW t \in 1..Len(pp) PROVE \E h \in PageNo : Path(dd, h)[Levels] = t
    <3>1. CASE t \in 1..Len(p)
      <4>1. PICK h \in PageNo : Path(d, h)[Levels] = t
          BY <3>1 DEF Tree, Reached
      <4>2. Path(dd, h)[Levels] = t
          BY <1>0, <1>10, <3>1, <4>1
      <4> QED BY <4>2
    <3>2. CASE t \notin 1..Len(p)
      <4>1. t = new /\ l + 1 = Levels
          BY <1>1, <3>2 DEF Linked
      <4> QED BY <1>6, <4>1
    <3> QED BY <3>1, <3>2
  <2>2. ASSUME NEW t \in 1..Len(dd), t # 1
        PROVE  \E h \in PageNo : \E m \in 1..(Levels - 1) : Path(dd, h)[m] = t
    <3>1. CASE t \in 1..Len(d)
      <4>1. PICK h \in PageNo, m \in 1..(Levels - 1) : Path(d, h)[m] = t
          BY <2>2, <3>1 DEF Tree, Reached
      <4>2. m \in 1..Levels
          BY <1>0
      <4>3. Path(dd, h)[m] = t
          BY <1>10, <3>1, <4>1, <4>2
      <4> QED BY <4>3
    <3>2. CASE t \notin 1..Len(d)
      <4>1. t = new /\ l + 1 # Levels
          BY <1>1, <3>2 DEF Linked
      <4>2. l + 1 \in 1..(Levels - 1)
          BY <1>0, <4>1
      <4> QED BY <1>6, <4>1, <4>2
    <3> QED BY <3>1, <3>2
  <2> QED BY <2>1, <2>2 DEF Reached
<1>12. ASSUME NEW h \in PageNo PROVE Entry(dd, pp, h) = Entry(d, p, h)
  <2>0. Index(h, Levels) \in Slot
      BY <1>0, Digits
  <2>1. CASE New(h, Levels)
    <3>1. Path(dd, h)[Levels] = new /\ Path(d, h)[Levels] = 0 /\ l + 1 = Levels
        BY <1>0, <1>2, <2>1 DEF New
    <3>2. pp[new][Index(h, Levels)] = NoEntry
        BY <2>0, <3>1 DEF Linked, FreshTable
    <3> QED BY <1>4, <3>1, <3>2 DEF Entry
  <2>2. CASE ~New(h, Levels)
    <3>1. Path(dd, h)[Levels] = Path(d, h)[Levels]
        BY <1>0, <1>2, <2>2
    <3>2. Path(d, h)[Levels] # 0 => Path(d, h)[Levels] \in 1..Len(p)
        BY <1>0, <1>3 DEF Tables
    <3>3. \A t \in 1..Len(p) : pp[t] = p[t]
        BY DEF Linked
    <3> QED BY <3>1, <3>2, <3>3 DEF Entry
  <2> QED BY <2>1, <2>2
<1> QED BY <1>1, <1>4, <1>6, <1>7, <1>8, <1>9, <1>11, <1>12 DEF Tree

-----------------------------------------------------------------------------
(* The walk down to a pt.                                                     *)

\* U is T with the slot i of table t set to v.
SlotSet(V, T, t, i, v, U) ==
    /\ U \in Seq([Slot -> V]) /\ Len(U) = Len(T)
    /\ \A u \in 1..Len(T) : \A j \in Slot :
           U[u][j] = IF u = t /\ j = i THEN v ELSE T[u][j]

\* One slot of one table set.
LEMMA SetSlot ==
    ASSUME NEW V, NEW T \in Seq([Slot -> V]), NEW t \in 1..Len(T), NEW i \in Slot,
           NEW v \in V, NEW U, U = [T EXCEPT ![t][i] = v]
    PROVE  SlotSet(V, T, t, i, v, U)
<1> DEFINE row == [T[t] EXCEPT ![i] = v]
<1>1. \A u \in 1..Len(T) : T[u] \in [Slot -> V]
    BY ElementOfSeq
<1>2. row \in [Slot -> V] /\ \A j \in Slot : row[j] = IF j = i THEN v ELSE T[t][j]
    BY <1>1
<1>3. U = [T EXCEPT ![t] = row]
    OBVIOUS
<1> HIDE DEF row
<1>4. U \in Seq([Slot -> V]) /\ Len(U) = Len(T)
      /\ \A u \in 1..Len(T) : U[u] = IF u = t THEN row ELSE T[u]
    BY <1>2, <1>3, ExceptSeq
<1> QED BY <1>2, <1>4 DEF SlotSet

\* An empty slot and a new directory, or a new pt.
LEMMA NewTables ==
    /\ [i \in Slot |-> 0] \in [Slot -> Nat]
    /\ FreshTable \in [Slot -> PTE]
BY DEF FreshTable, NoEntry, PTE

WState == [dir : Dirs, ptab : Tabs, at : Nat]

\* The walk for page g has come to level l + 1: the table it stands in exists, and what
\* was made on the way is well formed and changed no entry.
Walked(d, p, g, l, s) ==
    /\ Tree(s.dir, s.ptab)
    /\ s.at = Path(s.dir, g)[l + 1] /\ s.at # 0
    /\ \A h \in PageNo : Entry(s.dir, s.ptab, h) = Entry(d, p, h)

\* One level down.
LEMMA DownWalks ==
    ASSUME NEW d, NEW p, NEW g \in PageNo, NEW l \in 1..(Levels - 1), NEW s \in WState,
           Walked(d, p, g, l - 1, s)
    PROVE  Down(s, g, l) \in WState /\ Walked(d, p, g, l, Down(s, g, l))
<1> DEFINE D == s.dir
           B == s.ptab
           T == s.at
           i == Index(g, l)
           slot == D[T][i]
           new == 1 + IF l = Levels - 1 THEN Len(B) ELSE Len(D)
           linked == [D EXCEPT ![T][i] = new]
<1>0. /\ Levels \in Nat /\ l \in 1..Levels /\ l + 1 \in 1..Levels /\ l # Levels
      /\ (l - 1) + 1 = l /\ g \in Nat
    BY TreeAssumption
<1>1. /\ D \in Dirs /\ B \in Tabs /\ T \in Nat /\ Len(D) \in Nat /\ Len(B) \in Nat
      /\ s = [dir |-> D, ptab |-> B, at |-> T]
    BY DEF WState, Dirs, Tabs
<1>2. /\ Tree(D, B) /\ T = Path(D, g)[l] /\ T # 0
      /\ \A h \in PageNo : Entry(D, B, h) = Entry(d, p, h)
    BY <1>0 DEF Walked
<1>3. T \in 1..Len(D) /\ i \in Slot
    BY <1>0, <1>2, Digits DEF Tree, PathsEnd, Tables
<1>4. slot = Path(D, g)[l + 1] /\ slot \in Nat
  <2>1. slot = Path(D, g)[l + 1]
      BY <1>0, <1>2, PathStep
  <2>2. D[T] \in [Slot -> Nat]
      BY <1>1, <1>3, ElementOfSeq DEF Dirs
  <2> QED BY <1>3, <2>1, <2>2
<1>5. new \in Nat
    BY <1>1
<1>6. Down(s, g, l) =
          IF slot # 0 THEN [s EXCEPT !.at = slot]
          ELSE IF l = Levels - 1
            THEN [dir |-> linked, ptab |-> Append(B, FreshTable), at |-> new]
          ELSE [dir |-> Append(linked, [j \in Slot |-> 0]), ptab |-> B, at |-> new]
    BY DEF Down
<1>7. /\ linked \in Dirs /\ Len(linked) = Len(D)
      /\ \A t \in 1..Len(D) : \A j \in Slot :
             linked[t][j] = IF t = T /\ j = i THEN new ELSE D[t][j]
  <2> HIDE DEF D, T, i, new
  <2>1. D \in Seq([Slot -> Nat]) /\ linked = [D EXCEPT ![T][i] = new]
      BY <1>1 DEF Dirs
  <2> HIDE DEF linked
  <2>2. SlotSet(Nat, D, T, i, new, linked)
      BY <1>3, <1>5, <2>1, SetSlot
  <2> QED BY <2>1, <2>2 DEF SlotSet, Dirs
<1> HIDE DEF D, B, T, i, slot, new, linked
<1>8. CASE slot # 0
  <2>1. Down(s, g, l) = [dir |-> D, ptab |-> B, at |-> slot]
      BY <1>1, <1>6, <1>8
  <2> QED BY <1>1, <1>2, <1>4, <1>8, <2>1 DEF WState, Walked
<1>9. ASSUME slot = 0, NEW dd, NEW pp, Linked(D, B, dd, pp, g, l, new),
             Down(s, g, l) = [dir |-> dd, ptab |-> pp, at |-> new]
      PROVE  Down(s, g, l) \in WState /\ Walked(d, p, g, l, Down(s, g, l))
  <2>1. dd \in Dirs /\ pp \in Tabs
      BY <1>9 DEF Linked
  <2>2. /\ Tree(dd, pp) /\ Path(dd, g)[l + 1] = new /\ new # 0
        /\ \A h \in PageNo : Entry(dd, pp, h) = Entry(D, B, h)
    <3>1. Tree(D, B) /\ Path(D, g)[l] # 0 /\ Path(D, g)[l + 1] = 0
        BY <1>2, <1>4, <1>9
    <3>2. Linked(D, B, dd, pp, g, l, new)
        BY <1>9
    <3> QED BY <3>1, <3>2, TreeLinked
  <2> QED BY <1>2, <1>5, <1>9, <2>1, <2>2 DEF WState, Walked
<1>10. CASE slot = 0 /\ l = Levels - 1
  <2> DEFINE pp == Append(B, FreshTable)
  <2>1. Down(s, g, l) = [dir |-> linked, ptab |-> pp, at |-> new]
      BY <1>6, <1>10
  <2>2. /\ pp \in Tabs /\ Len(pp) = Len(B) + 1 /\ pp[Len(B) + 1] = FreshTable
        /\ \A t \in 1..Len(B) : pp[t] = B[t]
      BY <1>1, NewTables, AppendProperties DEF Tabs
  <2>3. new = Len(B) + 1 /\ l + 1 = Levels
      BY <1>0, <1>1, <1>10 DEF new
  <2> HIDE DEF pp
  <2>4. Linked(D, B, linked, pp, g, l, new)
      BY <1>2, <1>7, <2>2, <2>3 DEF Linked, i
  <2> QED BY <1>9, <1>10, <2>1, <2>4
<1>11. CASE slot = 0 /\ l # Levels - 1
  <2> DEFINE zero == [j \in Slot |-> 0]
             dd == Append(linked, zero)
  <2>1. Down(s, g, l) = [dir |-> dd, ptab |-> B, at |-> new]
      BY <1>6, <1>11
  <2>2. zero \in [Slot -> Nat] /\ \A j \in Slot : zero[j] = 0
      BY NewTables
  <2> HIDE DEF zero
  <2>3. /\ dd \in Dirs /\ Len(dd) = Len(D) + 1 /\ dd[Len(D) + 1] = zero
        /\ \A t \in 1..Len(D) : dd[t] = linked[t]
      BY <1>1, <1>7, <2>2, AppendProperties DEF Dirs
  <2>4. new = Len(D) + 1 /\ l + 1 # Levels
      BY <1>0, <1>1, <1>11 DEF new
  <2> HIDE DEF dd
  <2>5. \A t \in 1..Len(D) : \A j \in Slot :
            dd[t][j] = IF t = Path(D, g)[l] /\ j = Index(g, l) THEN new ELSE D[t][j]
      BY <1>2, <1>7, <2>3 DEF i
  <2>6. \A j \in Slot : dd[new][j] = 0
      BY <2>2, <2>3, <2>4
  <2>7. Linked(D, B, dd, B, g, l, new)
      BY <1>1, <2>3, <2>4, <2>5, <2>6 DEF Linked
  <2> QED BY <1>9, <1>11, <2>1, <2>7
<1> QED BY <1>8, <1>10, <1>11

\* All the way down: the pt of the page exists then, and no entry reads differently.
LEMMA WalkEnds ==
    ASSUME NEW d, NEW p, Tree(d, p), NEW g \in PageNo
    PROVE  Walk(d, p, g) \in WState /\ Walked(d, p, g, Levels - 1, Walk(d, p, g))
<1> DEFINE n == Levels - 1
           s0 == [dir |-> d, ptab |-> p, at |-> 1]
           s[l \in 0..n] == IF l = 0 THEN s0 ELSE Down(s[l - 1], g, l)
           A == [l \in 0..n |-> {x \in WState : Walked(d, p, g, l, x)}]
           step == [l \in 1..n |-> [x \in WState |-> Down(x, g, l)]]
           Loop(f) == f = [l \in 0..n |-> IF l = 0 THEN s0 ELSE Down(f[l - 1], g, l)]
<1>0. n \in Nat /\ 0 \in 0..n /\ n \in 0..n
    BY TreeAssumption
<1>1. s0 \in A[0]
  <2>1. s0 \in WState /\ s0.dir = d /\ s0.ptab = p /\ s0.at = 1
      BY DEF WState, Tree
  <2>2. Path(d, g)[0 + 1] = 1
      BY PathStep
  <2>3. Walked(d, p, g, 0, s0)
      BY <2>1, <2>2 DEF Walked
  <2> QED BY <1>0, <2>1, <2>3
<1>2. ASSUME NEW l \in 1..n, NEW x \in A[l - 1]
      PROVE  x \in WState /\ Down(x, g, l) \in A[l]
  <2>1. l - 1 \in 0..n /\ l \in 0..n /\ l \in 1..(Levels - 1)
      BY <1>0
  <2>2. x \in WState /\ Walked(d, p, g, l - 1, x)
      BY <1>2, <2>1
  <2>3. Down(x, g, l) \in WState /\ Walked(d, p, g, l, Down(x, g, l))
      BY <2>1, <2>2, DownWalks
  <2> QED BY <2>1, <2>2, <2>3
<1> HIDE DEF s0, A, n
<1>3. \E f : Loop(f)
  <2>1. \A l \in 1..n : \A x \in A[l - 1] : step[l][x] \in A[l] /\ step[l][x] = Down(x, g, l)
      BY <1>2
  <2> HIDE DEF step
  <2>2. \A l \in 1..n : \A x \in A[l - 1] : step[l][x] \in A[l]
      BY <2>1
  <2>3. PICK f : LoopIn(f, n, s0, step, A)
      BY <1>0, <1>1, <2>2, LoopExists
  <2>4. /\ f = [l \in 0..n |-> IF l = 0 THEN s0 ELSE step[l][f[l - 1]]]
        /\ \A l \in 0..n : f[l] \in A[l]
      BY <2>3 DEF LoopIn
  <2>5. ASSUME NEW l \in 0..n
        PROVE  f[l] = IF l = 0 THEN s0 ELSE Down(f[l - 1], g, l)
    <3>1. CASE l = 0
        BY <2>4, <3>1
    <3>2. CASE l # 0
      <4>1. l \in 1..n /\ l - 1 \in 0..n
          BY <1>0, <3>2
      <4>2. f[l] = step[l][f[l - 1]] /\ f[l - 1] \in A[l - 1]
          BY <2>4, <3>2, <4>1
      <4> QED BY <2>1, <3>2, <4>1, <4>2
    <3> QED BY <3>1, <3>2
  <2>6. f = [l \in 0..n |-> f[l]]
      BY <2>4
  <2>7. Loop(f)
      BY <2>5, <2>6
  <2> QED BY <2>7
<1>4. Loop(s)
    BY <1>3
<1>5. Walk(d, p, g) = s[n]
    BY DEF Walk, s, s0, n
<1> HIDE DEF s
<1>6. \A l \in 0..n : s[l] \in A[l]
  <2>1. s[0] = s0
      BY <1>0, <1>4
  <2>2. \A l \in 1..n : s[l] = Down(s[l - 1], g, l)
      BY <1>0, <1>4
  <2> QED BY <1>0, <1>1, <1>2, <2>1, <2>2, LoopInvariant
<1>7. s[n] \in A[n]
    BY <1>0, <1>6
<1> QED BY <1>0, <1>5, <1>7 DEF A, n

-----------------------------------------------------------------------------
(* The handlers.                                                              *)

\* An entry is an entry.
LEMMA EntryType ==
    ASSUME NEW d, NEW p, Tree(d, p), NEW g \in PageNo
    PROVE  Entry(d, p, g) \in PTE
<1>1. NoEntry \in PTE
    BY DEF NoEntry, PTE
<1>2. g \in Nat /\ Levels \in 1..Levels
    BY TreeAssumption
<1>3. Index(g, Levels) \in Slot
    BY <1>2, Digits
<1>4. CASE Path(d, g)[Levels] # 0
  <2>1. Path(d, g)[Levels] \in 1..Len(p) /\ p \in Seq([Slot -> PTE])
      BY <1>2, <1>4 DEF Tree, PathsEnd, Tables, Tabs
  <2>2. p[Path(d, g)[Levels]] \in [Slot -> PTE]
      BY <2>1, ElementOfSeq
  <2> QED BY <1>3, <1>4, <2>2 DEF Entry
<1> QED BY <1>1, <1>4 DEF Entry

\* The entries, after e has been stored for g.
Put(d, p, dd, pp, g, e) ==
    /\ Tree(dd, pp)
    /\ \A h \in PageNo : Entry(dd, pp, h) = IF h = g THEN e ELSE Entry(d, p, h)

\* Storing into the entry that the walk has found changes no other.
LEMMA EntryStored ==
    ASSUME NEW d, NEW p, Tree(d, p), NEW g \in PageNo, NEW e \in PTE, NEW s, NEW pp,
           s = Walk(d, p, g), pp = [s.ptab EXCEPT ![s.at][Index(g, Levels)] = e]
    PROVE  /\ Put(d, p, s.dir, pp, g, e)
           /\ s.ptab[s.at][Index(g, Levels)] = Entry(d, p, g)
<1> DEFINE D == s.dir
           B == s.ptab
           T == s.at
           i == Index(g, Levels)
<1>0. Levels \in Nat /\ (Levels - 1) + 1 = Levels /\ Levels \in 1..Levels
      /\ PageNo \subseteq Nat
    BY TreeAssumption
<1>1. /\ Tree(D, B) /\ T = Path(D, g)[Levels] /\ T # 0
      /\ \A h \in PageNo : Entry(D, B, h) = Entry(d, p, h)
  <2>1. Walked(d, p, g, Levels - 1, s)
      BY WalkEnds
  <2> QED BY <1>0, <2>1 DEF Walked
<1> HIDE DEF D, B, T
<1>2. T \in 1..Len(B) /\ i \in Slot /\ B \in Seq([Slot -> PTE]) /\ D \in Dirs
    BY <1>0, <1>1, Digits DEF Tree, PathsEnd, Tables, Tabs
<1>3. pp = [B EXCEPT ![T][i] = e]
    BY DEF B, T
<1> HIDE DEF i
<1>4. /\ pp \in Seq([Slot -> PTE]) /\ Len(pp) = Len(B)
      /\ \A u \in 1..Len(B) : \A j \in Slot :
             pp[u][j] = IF u = T /\ j = i THEN e ELSE B[u][j]
  <2>1. SlotSet(PTE, B, T, i, e, pp)
      BY <1>2, <1>3, SetSlot
  <2> QED BY <2>1 DEF SlotSet
<1>5. Tree(D, pp)
    BY <1>1, <1>2, <1>4 DEF Tree, PathsEnd, Tables, Reached, Tabs
<1>6. B[T][i] = Entry(d, p, g)
    BY <1>1 DEF Entry, i
<1>7. ASSUME NEW h \in PageNo
      PROVE  Entry(D, pp, h) = IF h = g THEN e ELSE Entry(d, p, h)
  <2>1. Index(h, Levels) \in Slot
      BY <1>0, Digits
  <2>2. CASE h = g
      BY <1>1, <1>2, <1>4, <2>2 DEF Entry, i
  <2>3. CASE h # g /\ Path(D, h)[Levels] # 0
    <3>1. Path(D, h)[Levels] \in 1..Len(B)
        BY <1>0, <1>1, <2>3 DEF Tree, PathsEnd, Tables
    <3>2. ~(Path(D, h)[Levels] = T /\ Index(h, Levels) = i)
      <4> SUFFICES ASSUME Path(D, h)[Levels] = T, Index(h, Levels) = i PROVE FALSE
          OBVIOUS
      <4>1. Prefix(h, Levels) = Prefix(g, Levels)
          BY <1>0, <1>1 DEF Tree, OnePrefix
      <4>2. h \in Nat /\ g \in Nat /\ Index(h, Levels) = Index(g, Levels)
          BY <1>0 DEF i
      <4>3. Prefix(h, Levels + 1) = Prefix(g, Levels + 1)
          BY <1>0, <4>1, <4>2, Digits
      <4> QED BY <2>3, <4>3, Ends
    <3>3. Entry(D, pp, h) = Entry(D, B, h)
        BY <1>4, <2>1, <2>3, <3>1, <3>2 DEF Entry
    <3> QED BY <1>1, <2>3, <3>3
  <2>4. CASE h # g /\ Path(D, h)[Levels] = 0
      BY <1>1, <2>4 DEF Entry
  <2> QED BY <2>2, <2>3, <2>4
<1>8. Put(d, p, D, pp, g, e)
    BY <1>5, <1>7 DEF Put
<1> QED BY <1>6, <1>8 DEF D, B, T, i

\* What pte_set_fpn and pte_set_swap make of an entry is an entry.
LEMMA SetTypes ==
    ASSUME NEW e \in PTE
    PROVE  /\ \A f \in Frame : SetFpn(e, f) \in PTE
           /\ \A o \in Swap : SetSwap(e, o) \in PTE
<1>1. ASSUME NEW f \in Nat PROVE SetFpn(e, f) \in PTE
  <2>1. e.low \in Nat /\ FPNSPAN \in Nat \ {0}
      BY EntryAssumption DEF PTE
  <2>2. e.low % FPNSPAN \in Nat /\ e.low % FPNSPAN <= e.low
      BY <2>1
  <2>3. e.low - (e.low % FPNSPAN) + f \in Nat
      BY <2>1, <2>2
  <2>4. SetFpn(e, f) = [present |-> TRUE, swapped |-> FALSE, low |-> e.low - (e.low % FPNSPAN) + f]
      BY DEF SetFpn, FPN
  <2> QED BY <2>3, <2>4 DEF PTE
<1>2. ASSUME NEW o \in Nat PROVE SetSwap(e, o) \in PTE
  <2>1. o * SWPOFF \in Nat
      BY EntryAssumption
  <2> QED BY <2>1 DEF SetSwap, SetSwap32, SetSwap64, PTE
<1> QED BY <1>1, <1>2, NumberAssumption

\* pte_set_fpn: the page's entry is set, and no other changes.
LEMMA PteSetFpnPuts ==
    ASSUME Tree(dir, ptab), NEW g \in PageNo, NEW f \in Frame, PteSetFpn(g, f)
    PROVE  Put(dir, ptab, dir', ptab', g, SetFpn(Entry(dir, ptab, g), f))
<1> DEFINE s == Walk(dir, ptab, g)
           old == s.ptab[s.at][Index(g, Levels)]
           e == SetFpn(Entry(dir, ptab, g), f)
<1>1. dir' = s.dir /\ ptab' = [s.ptab EXCEPT ![s.at][Index(g, Levels)] = SetFpn(old, f)]
    BY DEF PteSetFpn
<1>2. e \in PTE
    BY EntryType, SetTypes
<1>3. old = Entry(dir, ptab, g)
  <2> DEFINE pp == [s.ptab EXCEPT ![s.at][Index(g, Levels)] = e]
  <2> HIDE DEF s, e
  <2> QED BY <1>2, EntryStored DEF s
<1>4. ptab' = [s.ptab EXCEPT ![s.at][Index(g, Levels)] = e]
    BY <1>1, <1>3
<1> HIDE DEF s, e
<1>5. Put(dir, ptab, s.dir, ptab', g, e)
    BY <1>2, <1>4, EntryStored DEF s
<1> QED BY <1>1, <1>5 DEF e

\* pte_set_swap likewise.
LEMMA PteSetSwapPuts ==
    ASSUME Tree(dir, ptab), NEW g \in PageNo, NEW o \in Swap, PteSetSwap(g, o)
    PROVE  Put(dir, ptab, dir', ptab', g, SetSwap(Entry(dir, ptab, g), o))
<1> DEFINE s == Walk(dir, ptab, g)
           old == s.ptab[s.at][Index(g, Levels)]
           e == SetSwap(Entry(dir, ptab, g), o)
<1>1. dir' = s.dir /\ ptab' = [s.ptab EXCEPT ![s.at][Index(g, Levels)] = SetSwap(old, o)]
    BY DEF PteSetSwap
<1>2. e \in PTE
    BY EntryType, SetTypes
<1>3. old = Entry(dir, ptab, g)
  <2> DEFINE pp == [s.ptab EXCEPT ![s.at][Index(g, Levels)] = e]
  <2> HIDE DEF s, e
  <2> QED BY <1>2, EntryStored DEF s
<1>4. ptab' = [s.ptab EXCEPT ![s.at][Index(g, Levels)] = e]
    BY <1>1, <1>3
<1> HIDE DEF s, e
<1>5. Put(dir, ptab, s.dir, ptab', g, e)
    BY <1>2, <1>4, EntryStored DEF s
<1> QED BY <1>1, <1>5 DEF e

\* One turn of vmap_pgd_memset's loop.
Fill(x, g) ==
    LET t == Walk(x.dir, x.ptab, g) IN
    [dir |-> t.dir, ptab |-> [t.ptab EXCEPT ![t.at][Index(g, Levels)] = Pattern]]

MState == [dir : Dirs, ptab : Tabs]

\* The entries, after k pages from the first have been reserved.
Filled(d, p, first, k, x) ==
    /\ Tree(x.dir, x.ptab)
    /\ \A h \in PageNo : Entry(x.dir, x.ptab, h) =
           IF h \in first..(first + k - 1) THEN Pattern ELSE Entry(d, p, h)

\* A turn reserves one page more.
LEMMA FillTurn ==
    ASSUME NEW d, NEW p, NEW first \in Nat, NEW k \in Nat, NEW x \in MState,
           Filled(d, p, first, k, x), first + k \in PageNo
    PROVE  Fill(x, first + k) \in MState /\ Filled(d, p, first, k + 1, Fill(x, first + k))
<1> DEFINE g == first + k
           t == Walk(x.dir, x.ptab, g)
           pp == [t.ptab EXCEPT ![t.at][Index(g, Levels)] = Pattern]
           y == Fill(x, g)
<1>1. y.dir = t.dir /\ y.ptab = pp /\ y = [dir |-> t.dir, ptab |-> pp]
    BY DEF Fill
<1>2. Put(x.dir, x.ptab, t.dir, pp, g, Pattern)
    BY PatternAssumption, EntryStored DEF Filled
<1> HIDE DEF t, pp, y
<1>3. y \in MState
    BY <1>1, <1>2 DEF Put, Tree, MState
<1>4. \A h \in Nat : h \in first..(first + (k + 1) - 1) <=>
                        h = g \/ h \in first..(first + k - 1)
    OBVIOUS
<1>5. PageNo \subseteq Nat
    BY TreeAssumption
<1> HIDE DEF g
<1>6. Filled(d, p, first, k + 1, y)
    BY <1>1, <1>2, <1>4, <1>5 DEF Put, Filled
<1> QED BY <1>3, <1>6 DEF y, g

\* vmap_pgd_memset: the pages of the range are reserved, and no other entry changes.
LEMMA MemsetFills ==
    ASSUME Tree(dir, ptab), NEW first \in PageNo, NEW n \in Nat,
           first..(first + n - 1) \subseteq PageNo, VmapPgdMemset(first, n)
    PROVE  Filled(dir, ptab, first, n, [dir |-> dir', ptab |-> ptab'])
<1> DEFINE s0 == [dir |-> dir, ptab |-> ptab]
           s[k \in 0..n] == IF k = 0 THEN s0 ELSE Fill(s[k - 1], first + k - 1)
           A == [k \in 0..n |-> {x \in MState : Filled(dir, ptab, first, k, x)}]
           step == [k \in 1..n |-> [x \in MState |-> Fill(x, first + k - 1)]]
           Loop(f) == f = [k \in 0..n |-> IF k = 0 THEN s0 ELSE Fill(f[k - 1], first + k - 1)]
<1>0. 0 \in 0..n /\ n \in 0..n /\ first \in Nat
    BY TreeAssumption
<1>1. s0 \in A[0]
  <2>1. s0 \in MState /\ s0.dir = dir /\ s0.ptab = ptab
      BY DEF MState, Tree
  <2>2. first..(first + 0 - 1) = {}
      BY <1>0
  <2>3. Filled(dir, ptab, first, 0, s0)
      BY <2>1, <2>2 DEF Filled
  <2> QED BY <1>0, <2>1, <2>3
<1>2. ASSUME NEW k \in 1..n, NEW x \in A[k - 1]
      PROVE  x \in MState /\ Fill(x, first + k - 1) \in A[k]
  <2>1. /\ k - 1 \in 0..n /\ k \in 0..n /\ k - 1 \in Nat /\ (k - 1) + 1 = k
        /\ first + k - 1 = first + (k - 1)
        /\ first + (k - 1) \in first..(first + n - 1)
      BY <1>0
  <2>2. x \in MState /\ Filled(dir, ptab, first, k - 1, x)
      BY <1>2, <2>1
  <2>3. first + (k - 1) \in PageNo
      BY <2>1
  <2>4. /\ Fill(x, first + (k - 1)) \in MState
        /\ Filled(dir, ptab, first, (k - 1) + 1, Fill(x, first + (k - 1)))
      BY <1>0, <2>1, <2>2, <2>3, FillTurn
  <2> QED BY <2>1, <2>2, <2>4
<1> HIDE DEF s0, A
<1>3. \E f : Loop(f)
  <2>1. \A k \in 1..n : \A x \in A[k - 1] :
            step[k][x] \in A[k] /\ step[k][x] = Fill(x, first + k - 1)
      BY <1>2
  <2> HIDE DEF step
  <2>2. \A k \in 1..n : \A x \in A[k - 1] : step[k][x] \in A[k]
      BY <2>1
  <2>3. PICK f : LoopIn(f, n, s0, step, A)
      BY <1>1, <2>2, LoopExists
  <2>4. /\ f = [k \in 0..n |-> IF k = 0 THEN s0 ELSE step[k][f[k - 1]]]
        /\ \A k \in 0..n : f[k] \in A[k]
      BY <2>3 DEF LoopIn
  <2>5. ASSUME NEW k \in 0..n
        PROVE  f[k] = IF k = 0 THEN s0 ELSE Fill(f[k - 1], first + k - 1)
    <3>1. CASE k = 0
        BY <2>4, <3>1
    <3>2. CASE k # 0
      <4>1. k \in 1..n /\ k - 1 \in 0..n
          BY <3>2
      <4>2. f[k] = step[k][f[k - 1]] /\ f[k - 1] \in A[k - 1]
          BY <2>4, <3>2, <4>1
      <4> QED BY <2>1, <3>2, <4>1, <4>2
    <3> QED BY <3>1, <3>2
  <2>6. f = [k \in 0..n |-> f[k]]
      BY <2>4
  <2>7. Loop(f)
      BY <2>5, <2>6
  <2> QED BY <2>7
<1>4. Loop(s)
    BY <1>3
<1>5. dir' = s[n].dir /\ ptab' = s[n].ptab
    BY DEF VmapPgdMemset, Fill, s, s0
<1> HIDE DEF s
<1>6. \A k \in 0..n : s[k] \in A[k]
  <2>1. s[0] = s0
      BY <1>0, <1>4
  <2>2. \A k \in 1..n : s[k] = Fill(s[k - 1], first + k - 1)
      BY <1>0, <1>4
  <2> QED BY <1>1, <1>2, <2>1, <2>2, LoopInvariant
<1>7. s[n] \in A[n]
    BY <1>0, <1>6
<1>8. Filled(dir, ptab, first, n, s[n])
    BY <1>0, <1>7 DEF A
<1> DEFINE y == [dir |-> dir', ptab |-> ptab']
<1>9. y.dir = s[n].dir /\ y.ptab = s[n].ptab
    BY <1>5
<1> HIDE DEF y
<1>10. Filled(dir, ptab, first, n, y)
    BY <1>8, <1>9 DEF Filled
<1> QED BY <1>10 DEF y

-----------------------------------------------------------------------------
(* The theorems.                                                              *)

\* The pgd alone is a tree, in which every entry is empty.
LEMMA TreeInit ==
    ASSUME Init
    PROVE  Tree(dir, ptab) /\ \A g \in PageNo : Entry(dir, ptab, g) = NoEntry
<1> DEFINE zero == [i \in Slot |-> 0]
<1>0. Levels \in Nat \ {0, 1} /\ PageNo \subseteq Nat
    BY TreeAssumption
<1>1. /\ dir \in Dirs /\ Len(dir) = 1 /\ dir[1] = zero
      /\ ptab \in Tabs /\ Len(ptab) = 0 /\ ptab = << >>
  <2>1. zero \in [Slot -> Nat]
      OBVIOUS
  <2> HIDE DEF zero
  <2>2. <<zero>> \in Seq([Slot -> Nat]) /\ Len(<<zero>>) = 1 /\ <<zero>>[1] = zero
      BY <2>1
  <2>3. << >> \in Seq([Slot -> PTE]) /\ Len(<< >>) = 0
      BY EmptySeq
  <2>4. dir = <<zero>> /\ ptab = << >>
      BY DEF Init, zero
  <2> QED BY <2>2, <2>3, <2>4 DEF Dirs, Tabs
<1>2. ASSUME NEW g \in PageNo
      PROVE  Path(dir, g)[1] = 1 /\ \A l \in 1..Levels : l # 1 => Path(dir, g)[l] = 0
  <2>1. Path(dir, g)[1] = 1
      BY PathStep
  <2>2. Index(g, 1) \in Slot
      BY <1>0, Digits
  <2>3. 1 + 1 = 2 /\ 1 \in 1..Levels /\ 2 \in 1..Levels
      BY <1>0
  <2>4. Path(dir, g)[2] = dir[1][Index(g, 1)]
      BY <2>1, <2>3, PathStep
  <2>5. Path(dir, g)[2] = 0
      BY <1>1, <2>2, <2>4
  <2>6. \A l \in 2..Levels : Path(dir, g)[l] = 0
      BY <2>3, <2>5, NothingBelow
  <2>7. \A l \in 1..Levels : l # 1 => l \in 2..Levels
      BY <1>0
  <2> QED BY <2>1, <2>6, <2>7
<1>3. PathsEnd(dir, ptab)
    BY <1>0, <1>1, <1>2 DEF PathsEnd, Tables
<1>4. OnePrefix(dir)
    BY <1>2, Ends DEF OnePrefix
<1>5. OneLevel(dir)
  <2>1. \A l \in 1..(Levels - 1) : l \in 1..Levels
      BY <1>0
  <2> QED BY <1>2, <2>1 DEF OneLevel
<1>6. Reached(dir, ptab)
    BY <1>1 DEF Reached
<1>7. ASSUME NEW g \in PageNo PROVE Entry(dir, ptab, g) = NoEntry
  <2>1. Levels \in 1..Levels /\ Levels # 1
      BY <1>0
  <2> QED BY <1>2, <2>1 DEF Entry
<1> QED BY <1>1, <1>3, <1>4, <1>5, <1>6, <1>7 DEF Tree

\* What a step makes of the entries.
Changes ==
    \/ \E g \in PageNo : \/ \E f \in Frame :
                               Put(dir, ptab, dir', ptab', g, SetFpn(Entry(dir, ptab, g), f))
                         \/ \E o \in Swap :
                               Put(dir, ptab, dir', ptab', g, SetSwap(Entry(dir, ptab, g), o))
    \/ \E g \in PageNo, n \in Nat :
           /\ g..(g + n - 1) \subseteq PageNo
           /\ Filled(dir, ptab, g, n, [dir |-> dir', ptab |-> ptab'])

\* Each step sets one entry or reserves one range, and leaves a tree behind.
LEMMA NextChanges ==
    ASSUME Tree(dir, ptab), Next
    PROVE  Changes /\ Tree(dir', ptab')
<1>1. ASSUME NEW g \in PageNo, NEW f \in Frame, PteSetFpn(g, f)
      PROVE  Changes /\ Tree(dir', ptab')
  <2>1. Put(dir, ptab, dir', ptab', g, SetFpn(Entry(dir, ptab, g), f))
      BY <1>1, PteSetFpnPuts
  <2>2. Tree(dir', ptab')
      BY <2>1 DEF Put
  <2> QED BY <2>1, <2>2 DEF Changes
<1>2. ASSUME NEW g \in PageNo, NEW o \in Swap, PteSetSwap(g, o)
      PROVE  Changes /\ Tree(dir', ptab')
  <2>1. Put(dir, ptab, dir', ptab', g, SetSwap(Entry(dir, ptab, g), o))
      BY <1>2, PteSetSwapPuts
  <2>2. Tree(dir', ptab')
      BY <2>1 DEF Put
  <2> QED BY <2>1, <2>2 DEF Changes
<1>3. ASSUME NEW g \in PageNo, NEW n \in 1..MaxRange,
             g..(g + n - 1) \subseteq PageNo, VmapPgdMemset(g, n)
      PROVE  Changes /\ Tree(dir', ptab')
  <2>1. n \in Nat
      OBVIOUS
  <2>2. Filled(dir, ptab, g, n, [dir |-> dir', ptab |-> ptab'])
      BY <1>3, <2>1, MemsetFills
  <2>3. Tree(dir', ptab')
      BY <2>2 DEF Filled
  <2> QED BY <1>3, <2>1, <2>2, <2>3 DEF Changes
<1> QED BY <1>1, <1>2, <1>3 DEF Next

\* The tree of mm64.c is well formed in every reachable state.
THEOREM TreeAlways == Spec => []Tree(dir, ptab)
<1>1. Init => Tree(dir, ptab)
    BY TreeInit
<1>2. Tree(dir, ptab) /\ [Next]_vars => Tree(dir, ptab)'
  <2> SUFFICES ASSUME Tree(dir, ptab), [Next]_vars PROVE Tree(dir', ptab')
      OBVIOUS
  <2>1. CASE Next
      BY <2>1, NextChanges
  <2>2. CASE UNCHANGED vars
      BY <2>2 DEF vars
  <2> QED BY <2>1, <2>2
<1> QED BY <1>1, <1>2, PTL DEF Spec

\* TableOf and PteGetEntry are Path and Entry in the process's tables.
LEMMA Reading ==
    ASSUME NEW g
    PROVE  TableOf(g) = Path(dir, g) /\ PteGetEntry(g) = Entry(dir, ptab, g)
<1>1. TableOf(g) = Path(dir, g)
    BY DEF TableOf, Path
<1>2. PteGetEntry(g) = Entry(dir, ptab, g)
    BY <1>1 DEF PteGetEntry, Entry
<1> QED BY <1>1, <1>2

\* Every reachable state of the tables is well typed, and no slot points beyond the tables
\* there are (PageTableTypeOK of the page_table run).
THEOREM PageTableTypeCorrect == Spec => []PageTableTypeOK
<1>1. Tree(dir, ptab) => PageTableTypeOK
  <2> SUFFICES ASSUME Tree(dir, ptab) PROVE PageTableTypeOK
      OBVIOUS
  <2>1. dir \in Seq([Slot -> Nat]) /\ ptab \in Seq([Slot -> PTE])
      BY DEF Tree, Dirs, Tabs
  <2>2. ASSUME NEW g \in PageNo, NEW l \in 1..Levels
        PROVE  TableOf(g)[l] \in 0..Len(IF l = Levels THEN ptab ELSE dir)
    <3>1. TableOf(g)[l] \in {0} \cup Tables(dir, ptab, l)
        BY Reading DEF Tree, PathsEnd
    <3>2. Len(dir) \in Nat /\ Len(ptab) \in Nat
        BY <2>1
    <3>3. CASE l = Levels
        BY <3>1, <3>2, <3>3 DEF Tables
    <3>4. CASE l # Levels
        BY <3>1, <3>2, <3>4 DEF Tables
    <3> QED BY <3>3, <3>4
  <2> QED BY <2>1, <2>2 DEF PageTableTypeOK
<1> QED BY <1>1, TreeAlways, PTL

\* Two pages share a table just when their numbers agree above it, and no table is out of
\* every page's reach, for any number of levels and any fan-out (OneTablePerPrefix of the
\* page_table run).  Without pages to map nothing would reach the pgd.
THEOREM TablesAreShared == ASSUME PageNo # {} PROVE Spec => []OneTablePerPrefix
<1>1. Tree(dir, ptab) => OneTablePerPrefix
  <2> SUFFICES ASSUME Tree(dir, ptab) PROVE OneTablePerPrefix
      OBVIOUS
  <2>0. Levels \in Nat \ {0, 1} /\ PageNo \subseteq Nat
      BY TreeAssumption
  <2>1. ASSUME NEW g \in PageNo, NEW h \in PageNo, NEW l \in 1..Levels,
               TableOf(g)[l] # 0, TableOf(h)[l] # 0
        PROVE  TableOf(g)[l] = TableOf(h)[l]
                   <=> High(g, Levels - l + 1) = High(h, Levels - l + 1)
    <3>1. TableOf(g)[l] = TableOf(h)[l] => Prefix(g, l) = Prefix(h, l)
        BY <2>1, Reading DEF Tree, OnePrefix
    <3>2. ASSUME Prefix(g, l) = Prefix(h, l) PROVE TableOf(g)[l] = TableOf(h)[l]
      <4>1. l \in 1..l /\ g \in Nat /\ h \in Nat
          BY <2>0
      <4> QED BY <3>2, <4>1, PathShared, Reading
    <3> QED BY <3>1, <3>2 DEF Prefix
  <2>2. ASSUME NEW t \in 1..Len(ptab) PROVE \E g \in PageNo : TableOf(g)[Levels] = t
    <3>1. PICK g \in PageNo : Path(dir, g)[Levels] = t
        BY DEF Tree, Reached
    <3> QED BY <3>1, Reading
  <2>3. ASSUME NEW t \in 1..Len(dir)
        PROVE  \E g \in PageNo, l \in 1..(Levels - 1) : TableOf(g)[l] = t
    <3>1. CASE t = 1
      <4>1. PICK g \in PageNo : TRUE
          OBVIOUS
      <4>2. TableOf(g)[1] = 1 /\ 1 \in 1..(Levels - 1)
          BY <2>0, PathStep, Reading
      <4> QED BY <3>1, <4>2
    <3>2. CASE t # 1
      <4>1. PICK g \in PageNo, l \in 1..(Levels - 1) : Path(dir, g)[l] = t
          BY <3>2 DEF Tree, Reached
      <4> QED BY <4>1, Reading
    <3> QED BY <3>1, <3>2
  <2> QED BY <2>1, <2>2, <2>3 DEF OneTablePerPrefix
<1> QED BY <1>1, TreeAlways, PTL

\* The entries the pages read as, all together.
Entries == [g \in PageNo |-> PteGetEntry(g)]

\* A step of the tree is a step of PageMap.
LEMMA ChangesAreMapped ==
    ASSUME Changes
    PROVE  Flat!MapNext
<1>1. \A g \in PageNo : Entries[g] = Entry(dir, ptab, g)
    BY Reading DEF Entries
<1>2. Entries' = [h \in PageNo |-> Entry(dir', ptab', h)]
  <2>1. \A h \in PageNo : PteGetEntry(h)' = Entry(dir', ptab', h)
    <3>1. \A h \in PageNo : PteGetEntry(h) = Entry(dir, ptab, h)
        BY Reading
    <3>2. (\A h \in PageNo : PteGetEntry(h) = Entry(dir, ptab, h))'
      <4>1. ASSUME NEW h \in PageNo PROVE (PteGetEntry(h) = Entry(dir, ptab, h))'
          BY DEF PteGetEntry, TableOf, Entry, Path
      <4> QED BY <4>1
    <3> QED BY <3>2
  <2> QED BY <2>1 DEF Entries
<1>3. ASSUME NEW g \in PageNo, NEW e, Put(dir, ptab, dir', ptab', g, e)
      PROVE  Entries' = [Entries EXCEPT ![g] = e]
  <2>1. \A h \in PageNo : Entry(dir', ptab', h) = IF h = g THEN e ELSE Entries[h]
      BY <1>1, <1>3 DEF Put
  <2>2. Entries = [h \in PageNo |-> Entries[h]]
      BY DEF Entries
  <2> HIDE DEF Entries
  <2> QED BY <1>2, <2>1, <2>2
<1>4. ASSUME NEW g \in PageNo, NEW f \in Frame,
             Put(dir, ptab, dir', ptab', g, SetFpn(Entry(dir, ptab, g), f))
      PROVE  Flat!MapNext
  <2>1. Entries' = [Entries EXCEPT ![g] = SetFpn(Entries[g], f)]
      BY <1>1, <1>3, <1>4
  <2>2. Flat!MapSetFpn(g, f)
      BY <2>1 DEF Flat!MapSetFpn, Entries, SetFpn, FPN, Flat!SetFpn, Flat!FPN
  <2> QED BY <2>2 DEF Flat!MapNext
<1>5. ASSUME NEW g \in PageNo, NEW o \in Swap,
             Put(dir, ptab, dir', ptab', g, SetSwap(Entry(dir, ptab, g), o))
      PROVE  Flat!MapNext
  <2>1. Entries' = [Entries EXCEPT ![g] = SetSwap(Entries[g], o)]
      BY <1>1, <1>3, <1>5
  <2>2. Flat!MapSetSwap(g, o)
      BY <2>1 DEF Flat!MapSetSwap, Entries, SetSwap, SetSwap32, SetSwap64,
                  Flat!SetSwap, Flat!SetSwap32, Flat!SetSwap64
  <2> QED BY <2>2 DEF Flat!MapNext
<1>6. ASSUME NEW g \in PageNo, NEW n \in Nat, g..(g + n - 1) \subseteq PageNo,
             Filled(dir, ptab, g, n, [dir |-> dir', ptab |-> ptab'])
      PROVE  Flat!MapNext
  <2> DEFINE range == g..(g + n - 1)
  <2>1. \A h \in PageNo : Entry(dir', ptab', h) =
            IF h \in range THEN Pattern ELSE Entries[h]
      BY <1>1, <1>6 DEF Filled
  <2> HIDE DEF range
  <2>2. Entries' = [h \in PageNo |-> IF h \in range THEN Pattern ELSE Entries[h]]
      BY <1>2, <2>1
  <2>3. Flat!MapMemset(range)
      BY <2>2 DEF Flat!MapMemset, Entries
  <2>4. range \in SUBSET PageNo
      BY <1>6 DEF range
  <2> QED BY <2>3, <2>4 DEF Flat!MapNext
<1> QED BY <1>4, <1>5, <1>6 DEF Changes

\* The tree is one entry per page: mapping, swapping out or reserving a page, and making the
\* tables on the way to it, changes no other page's entry, for any number of levels, any
\* fan-out and any page numbers (ImplementsPageMap of the page_table run).
THEOREM PageTableImplementsPageMap == Spec => ImplementsPageMap
<1>1. Init => Flat!MapInit
  <2> SUFFICES ASSUME Init PROVE Flat!MapInit
      OBVIOUS
  <2>1. \A g \in PageNo : PteGetEntry(g) = NoEntry
      BY TreeInit, Reading
  <2> QED BY <2>1 DEF Flat!MapInit, Flat!NoEntry, NoEntry
<1>2. Tree(dir, ptab) /\ [Next]_vars => [Flat!MapNext]_Entries
  <2> SUFFICES ASSUME Tree(dir, ptab), [Next]_vars PROVE Flat!MapNext \/ UNCHANGED Entries
      OBVIOUS
  <2>1. CASE Next
      BY <2>1, NextChanges, ChangesAreMapped
  <2>2. CASE UNCHANGED vars
      BY <2>2 DEF vars, Entries, PteGetEntry, TableOf
  <2> QED BY <2>1, <2>2
<1> QED BY <1>1, <1>2, TreeAlways, PTL DEF Spec, ImplementsPageMap, Flat!MapSpec, Entries
=============================================================================
