---------------------------- MODULE VmAreaProofs ----------------------------
(* Proofs about VmArea.tla, for any page size, any set of symbols and any      *)
(* sizes an int can hold.                                                      *)
EXTENDS VmArea, SequenceTheorems, TLAPS

\* Every size a program asks for survives the conversion to int.
SizesFitInt == Size \subseteq 0..(IntLimit - 1)

Rg == [start : Nat, end : Nat]

-----------------------------------------------------------------------------
(* Arithmetic.                                                                *)

\* A number below the modulus is its own remainder.
LEMMA OwnRemainder ==
    ASSUME NEW d \in Nat \ {0}, NEW n \in 0..(d - 1)
    PROVE  n % d = n
<1> DEFINE q == n \div d
<1>1. q \in Nat /\ n % d \in 0..(d - 1) /\ n = d * q + (n % d)
    OBVIOUS
<1> HIDE DEF q
<1>2. CASE q = 0
    BY <1>1, <1>2
<1>3. CASE q # 0
  <2>1. q - 1 \in Nat /\ q = (q - 1) + 1
      BY <1>1, <1>3
  <2>2. d * q = d * (q - 1) + d /\ d * (q - 1) \in Nat
      BY <2>1
  <2> QED BY <1>1, <2>2
<1> QED BY <1>2, <1>3

\* What an int keeps of a value: all of it below 2^31, and something negative up to 2^32.
LEMMA IntFacts ==
    ASSUME NEW n \in Nat
    PROVE  /\ ToInt(n) \in Int
           /\ n < IntLimit => ToInt(n) = n
           /\ n < 2 * IntLimit /\ 0 <= ToInt(n) => ToInt(n) = n
<1>1. IntLimit \in Nat /\ 2 * IntLimit \in Nat \ {0}
    BY IntLimitAssumption
<1>2. n % (2 * IntLimit) \in Nat
    BY <1>1
<1>3. ToInt(n) \in Int
    BY <1>1, <1>2 DEF ToInt
<1>4. ASSUME n < 2 * IntLimit
      PROVE  ToInt(n) = IF n < IntLimit THEN n ELSE n - 2 * IntLimit
  <2>1. n \in 0..(2 * IntLimit - 1)
      BY <1>1, <1>4
  <2>2. n % (2 * IntLimit) = n
      BY <1>1, <2>1, OwnRemainder
  <2> QED BY <2>2 DEF ToInt
<1> QED BY <1>1, <1>3, <1>4

\* An asked size below 2^31 survives the conversion to int.
LEMMA SizeFacts ==
    ASSUME SizesFitInt, NEW size \in Size
    PROVE  size \in Nat /\ ToInt(size) = size
<1>1. size \in Nat /\ size < IntLimit
    BY IntLimitAssumption DEF SizesFitInt
<1> QED BY <1>1, IntFacts

\* Two multiples of the page size add up to one.
LEMMA WholePagesAdd ==
    ASSUME NEW a \in Nat, NEW b \in Nat,
           a % PAGING_PAGESZ = 0, b % PAGING_PAGESZ = 0
    PROVE  (a + b) % PAGING_PAGESZ = 0
<1> DEFINE P == PAGING_PAGESZ
           x == a \div P
           y == b \div P
<1>1. P \in Nat /\ P > 0
    BY PageSizeAssumption
<1>2. a % P = 0 /\ b % P = 0
    OBVIOUS
<1> HIDE DEF P
<1>3. x \in Int /\ y \in Int /\ a = P * x /\ b = P * y
    BY <1>1, <1>2, SMTT(30)
<1> HIDE DEF x, y
<1>4. a + b = P * (x + y) /\ x + y \in Int
    BY <1>1, <1>3, SMTT(30)
<1>5. \A q \in Int : (P * q) % P = 0
    BY <1>1, SMTT(30)
<1>6. (P * (x + y)) % P = 0
    BY <1>4, <1>5
<1> QED BY <1>4, <1>6 DEF P

\* Page alignment never loses a byte, and leaves only the empty span empty.
LEMMA PageAlignFacts ==
    ASSUME NEW sz \in Nat
    PROVE  /\ PageAlign(sz) \in Nat
           /\ sz <= PageAlign(sz)
           /\ PageAlign(sz) % PAGING_PAGESZ = 0
<1> DEFINE P == PAGING_PAGESZ
           n == sz + P - 1
           q == n \div P
<1>1. P \in Nat /\ P > 0 /\ n \in Nat
    BY PageSizeAssumption
<1> HIDE DEF P
<1>2. q \in Int /\ n % P \in 0..(P - 1) /\ n = P * q + (n % P)
    BY <1>1, SMTT(30)
<1>3. P * q <= n /\ n - P < P * q
    BY <1>1, <1>2, SMTT(30)
<1>4. PageAlign(sz) = P * q
    BY <1>1, <1>2 DEF PageAlign, P
<1>5. sz <= P * q /\ P * q \in Nat
    BY <1>1, <1>2, <1>3, SMTT(30)
<1>6. (P * q) % P = 0
    BY <1>1, <1>2, SMTT(30)
<1> QED BY <1>4, <1>5, <1>6 DEF P

-----------------------------------------------------------------------------
(* The list of free regions.                                                  *)

\* The fields of a region are natural numbers.
LEMMA RgFacts ==
    ASSUME NEW rg \in Rg
    PROVE  rg.start \in Nat /\ rg.end \in Nat
BY DEF Rg

\* Region builds a region with the fields it is given.
LEMMA RegionInRg ==
    ASSUME NEW s \in Nat, NEW e \in Nat
    PROVE  /\ Region(s, e) \in Rg
           /\ Region(s, e).start = s /\ Region(s, e).end = e
BY DEF Region, Rg

\* The addresses of the region that Region builds.
LEMMA BytesOfRegion ==
    \A s, e : Bytes(Region(s, e)) = s..(e - 1)
BY DEF Bytes, Region

\* A function on 1..n is a sequence of length n.
LEMMA SeqFromFunction ==
    ASSUME NEW n \in Nat, NEW f \in [1..n -> Rg]
    PROVE  f \in Seq(Rg) /\ Len(f) = n
<1>1. f \in Seq(Rg)
    BY SeqDef, Zenon
<1>2. Len(f) \in Nat /\ DOMAIN f = 1..Len(f) /\ DOMAIN f = 1..n
    BY <1>1, LenProperties
<1>3. Len(f) = n
    BY <1>2
<1> QED BY <1>1, <1>3

\* Shrinking region k of the list.
LEMMA TakenPart ==
    ASSUME NEW L \in Seq(Rg), NEW k \in 1..Len(L), NEW n \in Nat,
           Fits(L[k], n), L[k].start + n < L[k].end
    PROVE  /\ Taken(L, k, n) \in Seq(Rg) /\ Len(Taken(L, k, n)) = Len(L)
           /\ \A j \in 1..Len(L) :
                 Taken(L, k, n)[j] = IF j = k THEN Region(L[k].start + n, L[k].end)
                                              ELSE L[j]
<1> DEFINE rest == Region(L[k].start + n, L[k].end)
           T == [L EXCEPT ![k] = rest]
<1>1. L \in [1..Len(L) -> Rg] /\ Len(L) \in Nat
    BY LenProperties
<1>2. L[k] \in Rg
    BY <1>1
<1>3. rest \in Rg
    BY <1>2, RgFacts, RegionInRg
<1> HIDE DEF rest
<1>4. T \in [1..Len(L) -> Rg]
    BY <1>1, <1>3
<1>5. \A j \in 1..Len(L) : T[j] = IF j = k THEN rest ELSE L[j]
    BY <1>1
<1>6. Taken(L, k, n) = T
    BY DEF Taken, rest
<1>7. T \in Seq(Rg) /\ Len(T) = Len(L)
    BY <1>1, <1>4, SeqFromFunction
<1> QED BY <1>5, <1>6, <1>7 DEF rest

\* Using up region k of the list.
LEMMA TakenAll ==
    ASSUME NEW L \in Seq(Rg), NEW k \in 1..Len(L), NEW n \in Nat,
           ~(L[k].start + n < L[k].end)
    PROVE  /\ Taken(L, k, n) \in Seq(Rg) /\ Len(Taken(L, k, n)) = Len(L) - 1
           /\ \A j \in 1..(Len(L) - 1) :
                 Taken(L, k, n)[j] = IF j < k THEN L[j] ELSE L[j + 1]
<1> DEFINE T == [j \in 1..(Len(L) - 1) |-> IF j < k THEN L[j] ELSE L[j + 1]]
<1>1. L \in [1..Len(L) -> Rg] /\ Len(L) \in Nat
    BY LenProperties
<1>2. Len(L) - 1 \in Nat
    BY <1>1
<1>3. \A j \in 1..(Len(L) - 1) : (IF j < k THEN L[j] ELSE L[j + 1]) \in Rg
    BY <1>1
<1>4. T \in [1..(Len(L) - 1) -> Rg]
    BY <1>3
<1>5. Taken(L, k, n) = T
    BY DEF Taken, Removed
<1>6. \A j \in 1..(Len(L) - 1) : T[j] = IF j < k THEN L[j] ELSE L[j + 1]
    BY <1>1
<1> HIDE DEF T
<1>7. T \in Seq(Rg) /\ Len(T) = Len(L) - 1
    BY <1>2, <1>4, SeqFromFunction
<1> QED BY <1>5, <1>6, <1>7

\* What get_free_vmrg_area makes of the list, as the invariants see it: every
\* region that is left comes from one of its own, less what was taken, and no
\* byte disappears.
Came(T, L, taken) ==
    \E f \in [1..Len(T) -> 1..Len(L)] :
        /\ \A i, j \in 1..Len(T) : i # j => f[i] # f[j]
        /\ \A j \in 1..Len(T) : /\ Bytes(T[j]) \subseteq Bytes(L[f[j]])
                                /\ Bytes(T[j]) \cap taken = {}
        /\ \A i \in 1..Len(L) : \A b \in Bytes(L[i]) \ taken :
               \E j \in 1..Len(T) : b \in Bytes(T[j])

\* What get_free_vmrg_area leaves of the list comes from the old list, without
\* the bytes taken and with all the others.
LEMMA TakenCame ==
    ASSUME NEW L \in Seq(Rg), NEW k \in 1..Len(L), NEW n \in Nat, Fits(L[k], n),
           \A i, j \in 1..Len(L) : i # j => Bytes(L[i]) \cap Bytes(L[j]) = {}
    PROVE  Came(Taken(L, k, n), L, Bytes(Region(L[k].start, L[k].start + n)))
<1> DEFINE T == Taken(L, k, n)
           taken == Bytes(Region(L[k].start, L[k].start + n))
           rest == Region(L[k].start + n, L[k].end)
<1>1. L \in [1..Len(L) -> Rg] /\ Len(L) \in Nat
    BY LenProperties
<1>2. L[k] \in Rg /\ L[k].start \in Nat /\ L[k].end \in Nat
      /\ L[k].start + n \in Nat /\ L[k].start + n <= L[k].end
    BY <1>1, RgFacts DEF Fits
<1>3. /\ taken = L[k].start..((L[k].start + n) - 1)
      /\ Bytes(L[k]) = L[k].start..(L[k].end - 1)
      /\ Bytes(rest) = (L[k].start + n)..(L[k].end - 1)
  <2>1. taken = L[k].start..((L[k].start + n) - 1)
      BY BytesOfRegion, Zenon
  <2>2. Bytes(rest) = (L[k].start + n)..(L[k].end - 1)
      BY BytesOfRegion, Zenon
  <2>3. Bytes(L[k]) = L[k].start..(L[k].end - 1)
      BY DEF Bytes
  <2> QED BY <2>1, <2>2, <2>3, Zenon
<1> HIDE DEF taken, rest
<1>4. /\ taken \subseteq Bytes(L[k]) /\ Bytes(rest) \subseteq Bytes(L[k])
      /\ Bytes(rest) \cap taken = {} /\ Bytes(L[k]) \ taken = Bytes(rest)
  <2> DEFINE lo == L[k].start
             hi == L[k].end
  <2>1. lo \in Nat /\ hi \in Nat /\ lo + n <= hi
      BY <1>2
  <2>2. /\ taken = lo..((lo + n) - 1) /\ Bytes(L[k]) = lo..(hi - 1)
        /\ Bytes(rest) = (lo + n)..(hi - 1)
      BY <1>3
  <2> HIDE DEF lo, hi
  <2> QED BY <2>1, <2>2
<1>5. \A i \in 1..Len(L) : i # k => Bytes(L[i]) \cap taken = {}
    BY <1>4
<1>6. CASE L[k].start + n < L[k].end
  <2> DEFINE f == [j \in 1..Len(T) |-> j]
  <2>1. /\ T \in Seq(Rg) /\ Len(T) = Len(L)
        /\ \A j \in 1..Len(L) : T[j] = IF j = k THEN rest ELSE L[j]
      BY <1>6, TakenPart DEF rest
  <2> HIDE DEF T
  <2>2. f \in [1..Len(T) -> 1..Len(L)] /\ \A j \in 1..Len(T) : f[j] = j
      BY <2>1
  <2>3. \A j \in 1..Len(T) : /\ Bytes(T[j]) \subseteq Bytes(L[j])
                             /\ Bytes(T[j]) \cap taken = {}
      BY <2>1, <1>4, <1>5
  <2>4. \A i \in 1..Len(L) : \A b \in Bytes(L[i]) \ taken :
           i \in 1..Len(T) /\ b \in Bytes(T[i])
      BY <2>1, <1>4
  <2> HIDE DEF f
  <2>5. Came(T, L, taken)
      BY <2>2, <2>3, <2>4 DEF Came
  <2> QED BY <2>5 DEF T, taken
<1>7. CASE ~(L[k].start + n < L[k].end)
  <2> DEFINE f == [j \in 1..Len(T) |-> IF j < k THEN j ELSE j + 1]
  <2>1. /\ T \in Seq(Rg) /\ Len(T) = Len(L) - 1
        /\ \A j \in 1..(Len(L) - 1) : T[j] = IF j < k THEN L[j] ELSE L[j + 1]
      BY <1>7, TakenAll
  <2> HIDE DEF T
  <2>2. \A j \in 1..Len(T) : (IF j < k THEN j ELSE j + 1) \in 1..Len(L)
      BY <1>1, <2>1
  <2>3. f \in [1..Len(T) -> 1..Len(L)]
      BY <2>2
  <2>4. \A j \in 1..Len(T) : f[j] = IF j < k THEN j ELSE j + 1
      OBVIOUS
  <2> HIDE DEF f
  <2>5. \A j \in 1..Len(T) : f[j] # k /\ T[j] = L[f[j]]
      BY <2>1, <2>4, <1>1
  <2>6. \A i, j \in 1..Len(T) : i # j => f[i] # f[j]
      BY <2>4, <2>1, <1>1
  <2>7. \A j \in 1..Len(T) : /\ Bytes(T[j]) \subseteq Bytes(L[f[j]])
                             /\ Bytes(T[j]) \cap taken = {}
      BY <2>3, <2>5, <1>5
  <2>8. L[k].start + n = L[k].end
      BY <1>7, <1>2
  <2>9. Bytes(L[k]) \ taken = {}
      BY <1>2, <1>3, <1>4, <2>8
  <2>10. \A i \in 1..Len(L) : i # k => \E j \in 1..Len(T) : T[j] = L[i]
    <3> TAKE i \in 1..Len(L)
    <3> HAVE i # k
    <3>1. CASE i < k
        BY <3>1, <2>1, <1>1
    <3>2. CASE i > k
      <4>1. i - 1 \in 1..Len(T) /\ ~(i - 1 < k) /\ (i - 1) + 1 = i
          BY <3>2, <2>1, <1>1
      <4>2. T[i - 1] = L[i]
          BY <4>1, <2>1
      <4> QED BY <4>1, <4>2
    <3> QED BY <3>1, <3>2, <1>1
  <2>11. \A i \in 1..Len(L) : \A b \in Bytes(L[i]) \ taken :
             \E j \in 1..Len(T) : b \in Bytes(T[j])
      BY <2>9, <2>10
  <2>12. Came(T, L, taken)
      BY <2>3, <2>6, <2>7, <2>11 DEF Came
  <2> QED BY <2>12 DEF T, taken
<1> QED BY <1>6, <1>7

-----------------------------------------------------------------------------
(* The invariant.  None of its parts is inductive without the others.         *)

IInv == VmTypeOK /\ RegionsDisjoint /\ EveryByteAccounted /\ BreakWithinLimit

\* What typing says of the list and of the break.
LEMMA TypeFacts ==
    ASSUME VmTypeOK
    PROVE  /\ vm_end \in Nat /\ sbrk \in Nat
           /\ vm_freerg_list \in Seq(Rg) /\ Len(vm_freerg_list) \in Nat
           /\ symrgtbl \in [RgId -> Rg]
           /\ \A k \in FreeIdx : vm_freerg_list[k] \in Rg /\ InArea(vm_freerg_list[k])
           /\ \A r \in RgId : symrgtbl[r] \in Rg /\ InArea(symrgtbl[r])
<1>1. /\ vm_end \in Nat /\ sbrk \in Nat
      /\ vm_freerg_list \in Seq(Rg) /\ symrgtbl \in [RgId -> Rg]
      /\ \A k \in FreeIdx : InArea(vm_freerg_list[k])
      /\ \A r \in RgId : InArea(symrgtbl[r])
    BY DEF VmTypeOK, Rg
<1>2. /\ Len(vm_freerg_list) \in Nat
      /\ \A k \in 1..Len(vm_freerg_list) : vm_freerg_list[k] \in Rg
    BY <1>1, LenProperties
<1> QED BY <1>1, <1>2 DEF FreeIdx

\* A region of the area lies below the break.
LEMMA InAreaBytes ==
    ASSUME sbrk \in Nat, NEW rg \in Rg, InArea(rg)
    PROVE  Bytes(rg) \subseteq 0..(sbrk - 1)
BY RgFacts DEF InArea, Bytes

\* A symbol that holds nothing holds no byte.
LEMMA BytesOfNoRegion == Bytes(NoRegion) = {} /\ NoRegion \in Rg
BY DEF Bytes, NoRegion, Region, Rg

\* init_mm establishes the invariant.
LEMMA InitInv == Init => IInv
<1> SUFFICES ASSUME Init PROVE IInv
    OBVIOUS
<1>1. /\ vm_end = 0 /\ sbrk = 0 /\ lost = {}
      /\ vm_freerg_list = <<NoRegion>>
      /\ symrgtbl = [r \in RgId |-> NoRegion]
    BY DEF Init, NoRegion
<1>2. Len(vm_freerg_list) = 1 /\ FreeIdx = {1} /\ vm_freerg_list[1] = NoRegion
    BY <1>1 DEF FreeIdx
<1>3. vm_freerg_list \in Seq(Rg) /\ symrgtbl \in [RgId -> Rg]
    BY <1>1, BytesOfNoRegion
<1>4. InArea(NoRegion)
    BY <1>1 DEF InArea, NoRegion, Region
<1>5. VmTypeOK
    BY <1>1, <1>2, <1>3, <1>4 DEF VmTypeOK, Rg
<1>6. RegionsDisjoint
    BY <1>1, <1>2, BytesOfNoRegion DEF RegionsDisjoint
<1>7. Held = {} /\ Spare = {}
    BY <1>1, <1>2, BytesOfNoRegion DEF Held, Spare
<1>8. EveryByteAccounted
    BY <1>1, <1>7 DEF EveryByteAccounted
<1>9. BreakWithinLimit
    BY <1>1, PageSizeAssumption DEF BreakWithinLimit
<1> QED BY <1>5, <1>6, <1>8, <1>9 DEF IInv

-----------------------------------------------------------------------------
(* What every allocation does to the invariant, wherever its region comes     *)
(* from: `new' is the region symbol r gets, T the free list afterwards.       *)

\* A region that lies in no other symbol's and in no free region's bytes keeps the
\* regions disjoint.
LEMMA AssignDisjoint ==
    ASSUME IInv, NEW r \in RgId, NEW new \in Rg, Assign(r, new),
           NEW f \in [1..Len(vm_freerg_list') -> FreeIdx],
           \A i, j \in 1..Len(vm_freerg_list') : i # j => f[i] # f[j],
           \A j \in 1..Len(vm_freerg_list') :
               /\ Bytes(vm_freerg_list'[j]) \subseteq Bytes(vm_freerg_list[f[j]])
               /\ Bytes(vm_freerg_list'[j]) \cap Bytes(new) = {},
           \A q \in RgId \ {r} : Bytes(symrgtbl[q]) \cap Bytes(new) = {}
    PROVE  RegionsDisjoint'
<1>1. symrgtbl \in [RgId -> Rg]
    BY TypeFacts DEF IInv
<1>2. \A q \in RgId : symrgtbl'[q] = IF q = r THEN new ELSE symrgtbl[q]
    BY <1>1 DEF Assign
<1>3. /\ \A r1, r2 \in RgId : r1 # r2 => Bytes(symrgtbl[r1]) \cap Bytes(symrgtbl[r2]) = {}
      /\ \A q \in RgId, k \in FreeIdx :
             Bytes(symrgtbl[q]) \cap Bytes(vm_freerg_list[k]) = {}
      /\ \A j, k \in FreeIdx :
             j # k => Bytes(vm_freerg_list[j]) \cap Bytes(vm_freerg_list[k]) = {}
    BY DEF IInv, RegionsDisjoint
<1>4. \A j \in 1..Len(vm_freerg_list') : f[j] \in FreeIdx
    OBVIOUS
<1>5. \A r1, r2 \in RgId :
          r1 # r2 => Bytes(symrgtbl'[r1]) \cap Bytes(symrgtbl'[r2]) = {}
  <2> SUFFICES ASSUME NEW r1 \in RgId, NEW r2 \in RgId, r1 # r2
               PROVE  Bytes(symrgtbl'[r1]) \cap Bytes(symrgtbl'[r2]) = {}
      OBVIOUS
  <2>1. CASE r1 # r /\ r2 # r
      BY <2>1, <1>2, <1>3
  <2>2. CASE r1 = r
      BY <2>2, <1>2
  <2>3. CASE r2 = r
      BY <2>3, <1>2
  <2> QED BY <2>1, <2>2, <2>3
<1>6. \A q \in RgId, j \in 1..Len(vm_freerg_list') :
          Bytes(symrgtbl'[q]) \cap Bytes(vm_freerg_list'[j]) = {}
  <2> SUFFICES ASSUME NEW q \in RgId, NEW j \in 1..Len(vm_freerg_list')
               PROVE  Bytes(symrgtbl'[q]) \cap Bytes(vm_freerg_list'[j]) = {}
      OBVIOUS
  <2>1. CASE q = r
      BY <2>1, <1>2
  <2>2. CASE q # r
      BY <2>2, <1>2, <1>3, <1>4
  <2> QED BY <2>1, <2>2
<1>7. \A i, j \in 1..Len(vm_freerg_list') :
          i # j => Bytes(vm_freerg_list'[i]) \cap Bytes(vm_freerg_list'[j]) = {}
  <2> SUFFICES ASSUME NEW i \in 1..Len(vm_freerg_list'),
                      NEW j \in 1..Len(vm_freerg_list'), i # j
               PROVE  Bytes(vm_freerg_list'[i]) \cap Bytes(vm_freerg_list'[j]) = {}
      OBVIOUS
  <2>1. Bytes(vm_freerg_list[f[i]]) \cap Bytes(vm_freerg_list[f[j]]) = {}
      BY <1>3, <1>4
  <2> QED BY <2>1
<1> QED BY <1>5, <1>6, <1>7 DEF RegionsDisjoint, FreeIdx

\* And no byte disappears when the new region and the new list together hold the
\* free bytes and those the break moved over.
LEMMA AssignAccounts ==
    ASSUME IInv, NEW r \in RgId, NEW new \in Rg, Assign(r, new),
           Spare' \cup Bytes(new) = Spare \cup ((0..(sbrk' - 1)) \ (0..(sbrk - 1))),
           0..(sbrk - 1) \subseteq 0..(sbrk' - 1),
           Bytes(new) \cap Held = {}, Bytes(new) \cap lost = {}
    PROVE  EveryByteAccounted'
<1>1. symrgtbl \in [RgId -> Rg]
    BY TypeFacts DEF IInv
<1>2. /\ \A q \in RgId : symrgtbl'[q] = IF q = r THEN new ELSE symrgtbl[q]
      /\ lost' = lost \cup Bytes(symrgtbl[r])
    BY <1>1 DEF Assign
<1> DEFINE Others == UNION {Bytes(symrgtbl[q]) : q \in RgId \ {r}}
<1>3. Held = Others \cup Bytes(symrgtbl[r])
    BY DEF Held
<1>4. Held' = Others \cup Bytes(new)
    BY <1>2 DEF Held
<1>5. Others \cap Bytes(symrgtbl[r]) = {}
    BY DEF IInv, RegionsDisjoint
<1>6. Spare \cap Bytes(symrgtbl[r]) = {}
    BY DEF IInv, RegionsDisjoint, Spare
<1>7. Held \cup Spare \cup lost = 0..(sbrk - 1) /\ lost \cap (Held \cup Spare) = {}
    BY DEF IInv, EveryByteAccounted
<1> HIDE DEF Others
<1> DEFINE Fresh == (0..(sbrk' - 1)) \ (0..(sbrk - 1))
<1>8. Held' \cup Spare' \cup lost' = 0..(sbrk' - 1)
  <2>1. Held' \cup Spare' \cup lost'
           = Others \cup Bytes(symrgtbl[r]) \cup lost \cup (Spare' \cup Bytes(new))
      BY <1>2, <1>4
  <2>2. @ = (Held \cup Spare \cup lost) \cup Fresh
      BY <1>3
  <2>3. @ = 0..(sbrk' - 1)
      BY <1>7
  <2> QED BY <2>1, <2>2, <2>3
<1>9. lost' \cap (Held' \cup Spare') = {}
  <2>1. Held' \cup Spare' = Others \cup Spare \cup Fresh
    BY <1>4, <1>8, <1>3, <1>7
  <2> QED BY <2>1, <1>2, <1>3, <1>4, <1>5, <1>6, <1>7
<1> QED BY <1>8, <1>9 DEF EveryByteAccounted

-----------------------------------------------------------------------------
(* One lemma per action.                                                      *)

\* An allocation from the free list preserves the invariant.
LEMMA AllocReuseInv ==
    ASSUME SizesFitInt, IInv, NEW r \in RgId, NEW size \in Size, AllocReuse(r, size)
    PROVE  IInv'
<1> DEFINE L == vm_freerg_list
<1>1. PICK k \in 1..Len(L) :
          /\ Fits(L[k], size)
          /\ vm_freerg_list' = Taken(L, k, size)
          /\ Assign(r, Region(L[k].start, L[k].start + size))
          /\ UNCHANGED <<vm_end, sbrk>>
    BY SizeFacts DEF AllocReuse, FirstFit
<1> DEFINE new == Region(L[k].start, L[k].start + size)
           rest == Region(L[k].start + size, L[k].end)
           T == Taken(L, k, size)
<1>2. size \in Nat
    BY SizeFacts
<1>3. /\ vm_end \in Nat /\ sbrk \in Nat
      /\ L \in Seq(Rg) /\ Len(L) \in Nat
      /\ symrgtbl \in [RgId -> Rg]
      /\ \A i \in 1..Len(L) : L[i] \in Rg /\ InArea(L[i])
      /\ \A q \in RgId : symrgtbl[q] \in Rg /\ InArea(symrgtbl[q])
    BY TypeFacts DEF IInv, FreeIdx
<1>4. /\ L[k].start \in Nat /\ L[k].end \in Nat /\ L[k].end <= sbrk
      /\ L[k].start + size \in Nat /\ L[k].start + size <= L[k].end
    BY <1>1, <1>2, <1>3, RgFacts DEF Fits, InArea
<1>5. /\ new \in Rg /\ new.start = L[k].start /\ new.end = L[k].start + size
      /\ rest \in Rg /\ rest.start = L[k].start + size /\ rest.end = L[k].end
    BY <1>4, RegionInRg
<1>15. Assign(r, new)
    BY <1>1
<1> HIDE DEF new, rest
<1>6. InArea(new) /\ InArea(rest)
  <2>1. /\ 0 <= L[k].start /\ L[k].start <= L[k].start + size
        /\ L[k].start + size <= sbrk /\ L[k].end <= sbrk
        /\ 0 <= L[k].start + size /\ L[k].start + size <= L[k].end
    <3> DEFINE a == L[k].start
               b == L[k].end
    <3>1. sbrk \in Nat /\ size \in Nat /\ a \in Nat /\ b \in Nat
        BY <1>2, <1>3, <1>4
    <3>2. b <= sbrk /\ a + size <= b
        BY <1>4
    <3> SUFFICES /\ 0 <= a /\ a <= a + size /\ a + size <= sbrk /\ b <= sbrk
                 /\ 0 <= a + size /\ a + size <= b
        OBVIOUS
    <3> HIDE DEF a, b
    <3> QED BY <3>1, <3>2
  <2> QED BY <2>1, <1>5, Zenon DEF InArea
<1>7. /\ \A i, j \in 1..Len(L) : i # j => Bytes(L[i]) \cap Bytes(L[j]) = {}
      /\ \A q \in RgId : Bytes(symrgtbl[q]) \cap Bytes(L[k]) = {}
    BY DEF IInv, RegionsDisjoint, FreeIdx
<1>8. Came(T, L, Bytes(new))
    BY <1>1, <1>2, <1>3, <1>7, TakenCame DEF new
<1>9. PICK f \in [1..Len(T) -> 1..Len(L)] :
        /\ \A i, j \in 1..Len(T) : i # j => f[i] # f[j]
        /\ \A j \in 1..Len(T) : /\ Bytes(T[j]) \subseteq Bytes(L[f[j]])
                                /\ Bytes(T[j]) \cap Bytes(new) = {}
        /\ \A i \in 1..Len(L) : \A b \in Bytes(L[i]) \ Bytes(new) :
               \E j \in 1..Len(T) : b \in Bytes(T[j])
    BY <1>8 DEF Came
<1>10. Bytes(new) \subseteq Bytes(L[k])
  <2>1. /\ Bytes(new) = L[k].start..((L[k].start + size) - 1)
        /\ Bytes(L[k]) = L[k].start..(L[k].end - 1)
      BY <1>5 DEF Bytes
  <2> DEFINE a == L[k].start
             b == L[k].end
  <2>2. a \in Nat /\ b \in Nat /\ a + size <= b
      BY <1>4
  <2>3. Bytes(new) = a..((a + size) - 1) /\ Bytes(L[k]) = a..(b - 1)
      BY <2>1
  <2> HIDE DEF a, b
  <2> QED BY <2>2, <2>3, <1>2
<1>11. /\ T \in Seq(Rg)
       /\ \A j \in 1..Len(T) : T[j] = rest \/ \E i \in 1..Len(L) : T[j] = L[i]
  <2>1. CASE L[k].start + size < L[k].end
      BY <2>1, <1>1, <1>2, <1>3, TakenPart DEF rest
  <2>2. CASE ~(L[k].start + size < L[k].end)
    <3>1. /\ T \in Seq(Rg) /\ Len(T) = Len(L) - 1
          /\ \A j \in 1..(Len(L) - 1) : T[j] = IF j < k THEN L[j] ELSE L[j + 1]
        BY <2>2, <1>2, <1>3, TakenAll
    <3> HIDE DEF T
    <3> QED BY <3>1, <1>3
  <2> QED BY <2>1, <2>2
<1>12. vm_freerg_list' = T /\ FreeIdx' = 1..Len(T) /\ FreeIdx = 1..Len(L)
    BY <1>1 DEF FreeIdx
<1>13. sbrk' = sbrk /\ vm_end' = vm_end
    BY <1>1
<1>14. /\ symrgtbl' \in [RgId -> Rg]
       /\ \A q \in RgId : symrgtbl'[q] = IF q = r THEN new ELSE symrgtbl[q]
       /\ lost' = lost \cup Bytes(symrgtbl[r])
    BY <1>15, <1>3, <1>5 DEF Assign
<1> HIDE DEF T
<1>16. VmTypeOK'
  <2>1. (\A q \in RgId : InArea(symrgtbl[q]))'
    <3>1. \A q \in RgId : InArea(symrgtbl'[q])
        BY <1>3, <1>6, <1>14
    <3> QED BY <3>1, <1>13 DEF InArea
  <2>2. \A j \in 1..Len(T) : InArea(T[j])
      BY <1>3, <1>6, <1>11
  <2>3. (\A j \in FreeIdx : InArea(vm_freerg_list[j]))'
      BY <2>2, <1>12, <1>13 DEF InArea
  <2>4. lost' \subseteq 0..(sbrk' - 1)
      BY <1>3, <1>13, <1>14, InAreaBytes DEF IInv, VmTypeOK
  <2> QED BY <2>1, <2>3, <2>4, <1>3, <1>11, <1>12, <1>13, <1>14 DEF VmTypeOK, Rg
<1>17. RegionsDisjoint'
  <2>1. f \in [1..Len(vm_freerg_list') -> FreeIdx]
      BY <1>9, <1>12
  <2>2. /\ \A i, j \in 1..Len(vm_freerg_list') : i # j => f[i] # f[j]
        /\ \A j \in 1..Len(vm_freerg_list') :
               /\ Bytes(vm_freerg_list'[j]) \subseteq Bytes(vm_freerg_list[f[j]])
               /\ Bytes(vm_freerg_list'[j]) \cap Bytes(new) = {}
      BY <1>9, <1>12
  <2>3. \A q \in RgId \ {r} : Bytes(symrgtbl[q]) \cap Bytes(new) = {}
      BY <1>7, <1>10
  <2> QED BY <2>1, <2>2, <2>3, <1>5, <1>15, AssignDisjoint
<1>18. EveryByteAccounted'
  <2>1. Spare' \cup Bytes(new) = Spare
    <3>1. Spare = UNION {Bytes(L[i]) : i \in 1..Len(L)}
        BY DEF Spare, FreeIdx
    <3>2. Spare' = UNION {Bytes(T[j]) : j \in 1..Len(T)}
        BY <1>12 DEF Spare
    <3>3. ASSUME NEW b, b \in Spare PROVE b \in Spare' \cup Bytes(new)
      <4>1. PICK i \in 1..Len(L) : b \in Bytes(L[i])
          BY <3>1, <3>3
      <4>2. b \notin Bytes(new) => \E j \in 1..Len(T) : b \in Bytes(T[j])
          BY <4>1, <1>9
      <4> QED BY <3>2, <4>2
    <3>4. ASSUME NEW b, b \in Spare' PROVE b \in Spare
      <4>1. PICK j \in 1..Len(T) : b \in Bytes(T[j])
          BY <3>2, <3>4
      <4>2. f[j] \in 1..Len(L) /\ b \in Bytes(L[f[j]])
          BY <4>1, <1>9
      <4> QED BY <3>1, <4>2
    <3>5. Bytes(new) \subseteq Spare
        BY <3>1, <1>2, <1>10
    <3> QED BY <3>3, <3>4, <3>5
  <2>2. Bytes(new) \subseteq Spare
      BY <2>1
  <2>3. Bytes(new) \cap Held = {}
      BY <1>7, <1>10 DEF Held
  <2>4. Bytes(new) \cap lost = {}
      BY <2>2 DEF IInv, EveryByteAccounted
  <2> QED BY <2>1, <2>3, <2>4, <1>5, <1>13, <1>15, AssignAccounts
<1>19. BreakWithinLimit'
    BY <1>13 DEF IInv, BreakWithinLimit
<1> QED BY <1>16, <1>17, <1>18, <1>19 DEF IInv

\* An allocation at the break preserves the invariant.
LEMMA AllocGrowInv ==
    ASSUME SizesFitInt, IInv, NEW r \in RgId, NEW size \in Size, AllocGrow(r, size)
    PROVE  IInv'
<1> DEFINE new == Region(sbrk, sbrk + size)
<1>1. size \in Nat
    BY SizeFacts
<1>2. /\ vm_end \in Nat /\ sbrk \in Nat
      /\ vm_freerg_list \in Seq(Rg)
      /\ symrgtbl \in [RgId -> Rg]
      /\ \A i \in FreeIdx : vm_freerg_list[i] \in Rg /\ InArea(vm_freerg_list[i])
      /\ \A q \in RgId : symrgtbl[q] \in Rg /\ InArea(symrgtbl[q])
    BY TypeFacts DEF IInv
<1>3. /\ PageAlign(size) \in Nat /\ size <= PageAlign(size)
      /\ PageAlign(size) % PAGING_PAGESZ = 0
    BY <1>1, PageAlignFacts
<1>4. sbrk' = sbrk + size /\ vm_end' = vm_end + PageAlign(size)
  <2>1. IncVmaLimit(size)
      BY DEF AllocGrow
  <2>2. CASE PageAlign(size) = 0
    <3>1. size = 0 /\ sbrk' = sbrk /\ vm_end' = vm_end
        BY <1>1, <1>3, <2>1, <2>2 DEF IncVmaLimit
    <3> QED BY <1>2, <2>2, <3>1
  <2>3. CASE PageAlign(size) # 0
      BY <2>1, <2>3 DEF IncVmaLimit
  <2> QED BY <2>2, <2>3
<1>5. new \in Rg /\ new.start = sbrk /\ new.end = sbrk + size
    BY <1>1, <1>2, RegionInRg
<1>6. Bytes(new) = sbrk..((sbrk + size) - 1)
    BY BytesOfRegion, Zenon
<1>7. Assign(r, new) /\ vm_freerg_list' = vm_freerg_list /\ FreeIdx' = FreeIdx
    BY DEF AllocGrow, FreeIdx
<1> HIDE DEF new
<1>8. /\ \A q \in RgId : Bytes(symrgtbl[q]) \subseteq 0..(sbrk - 1)
      /\ \A k \in FreeIdx : Bytes(vm_freerg_list[k]) \subseteq 0..(sbrk - 1)
    BY <1>2, InAreaBytes
<1>9. (0..(sbrk - 1)) \cap Bytes(new) = {}
    BY <1>1, <1>2, <1>6
<1>10. 0..(sbrk' - 1) = (0..(sbrk - 1)) \cup Bytes(new)
    BY <1>1, <1>2, <1>4, <1>6
<1>11. /\ symrgtbl' \in [RgId -> Rg]
       /\ \A q \in RgId : symrgtbl'[q] = IF q = r THEN new ELSE symrgtbl[q]
       /\ lost' = lost \cup Bytes(symrgtbl[r])
    BY <1>2, <1>5, <1>7 DEF Assign
<1>12. VmTypeOK'
  <2>1. 0 <= sbrk /\ sbrk <= sbrk + size /\ sbrk \in Nat /\ sbrk + size \in Nat
      BY <1>1, <1>2
  <2>2. \A rg \in Rg : InArea(rg) => 0 <= rg.start /\ rg.start <= rg.end /\ rg.end <= sbrk'
    <3> SUFFICES ASSUME NEW rg \in Rg, InArea(rg)
                 PROVE  0 <= rg.start /\ rg.start <= rg.end /\ rg.end <= sbrk'
        OBVIOUS
    <3> QED BY <2>1, <1>1, <1>4, RgFacts DEF InArea
  <2>3. (\A q \in RgId : InArea(symrgtbl[q]))'
    <3>1. \A q \in RgId : 0 <= symrgtbl'[q].start /\ symrgtbl'[q].start <= symrgtbl'[q].end
                              /\ symrgtbl'[q].end <= sbrk'
      <4> SUFFICES ASSUME NEW q \in RgId
                   PROVE  0 <= symrgtbl'[q].start /\ symrgtbl'[q].start <= symrgtbl'[q].end
                              /\ symrgtbl'[q].end <= sbrk'
          OBVIOUS
      <4>1. CASE q = r
        <5>1. symrgtbl'[q].start = sbrk /\ symrgtbl'[q].end = sbrk + size
            BY <4>1, <1>5, <1>11
        <5> QED BY <5>1, <2>1, <1>4
      <4>2. CASE q # r
        <5>1. symrgtbl'[q] = symrgtbl[q]
            BY <4>2, <1>11
        <5> QED BY <5>1, <2>2, <1>2
      <4> QED BY <4>1, <4>2
    <3> QED BY <3>1 DEF InArea
  <2>4. (\A k \in FreeIdx : InArea(vm_freerg_list[k]))'
    <3>1. \A k \in FreeIdx : 0 <= vm_freerg_list[k].start
                             /\ vm_freerg_list[k].start <= vm_freerg_list[k].end
                             /\ vm_freerg_list[k].end <= sbrk'
        BY <1>2, <2>2
    <3> QED BY <3>1, <1>7 DEF InArea
  <2>5. lost' \subseteq 0..(sbrk' - 1)
    <3>1. lost \subseteq 0..(sbrk - 1)
        BY DEF IInv, VmTypeOK
    <3> QED BY <3>1, <1>8, <1>10, <1>11
  <2>6. vm_end' \in Nat /\ sbrk' \in Nat
      BY <1>1, <1>2, <1>3, <1>4
  <2> QED BY <2>3, <2>4, <2>5, <2>6, <1>2, <1>7, <1>11 DEF VmTypeOK, Rg
<1>13. RegionsDisjoint'
  <2> DEFINE f == [k \in 1..Len(vm_freerg_list') |-> k]
  <2>1. /\ f \in [1..Len(vm_freerg_list') -> FreeIdx]
        /\ \A k \in 1..Len(vm_freerg_list') : f[k] = k
      BY <1>7 DEF FreeIdx
  <2> HIDE DEF f
  <2>2. /\ \A i, j \in 1..Len(vm_freerg_list') : i # j => f[i] # f[j]
        /\ \A j \in 1..Len(vm_freerg_list') :
               /\ Bytes(vm_freerg_list'[j]) \subseteq Bytes(vm_freerg_list[f[j]])
               /\ Bytes(vm_freerg_list'[j]) \cap Bytes(new) = {}
    <3>1. \A j \in 1..Len(vm_freerg_list') : j \in FreeIdx /\ f[j] = j
        BY <2>1, <1>7 DEF FreeIdx
    <3> QED BY <3>1, <1>7, <1>8, <1>9
  <2>3. \A q \in RgId \ {r} : Bytes(symrgtbl[q]) \cap Bytes(new) = {}
      BY <1>8, <1>9
  <2> QED BY <2>1, <2>2, <2>3, <1>5, <1>7, AssignDisjoint
<1>14. EveryByteAccounted'
  <2>1. Spare' = Spare
      BY <1>7 DEF Spare
  <2>2. Spare' \cup Bytes(new) = Spare \cup ((0..(sbrk' - 1)) \ (0..(sbrk - 1)))
      BY <2>1, <1>9, <1>10
  <2>3. Bytes(new) \cap Held = {}
      BY <1>8, <1>9 DEF Held
  <2>4. Bytes(new) \cap lost = {}
      BY <1>9 DEF IInv, VmTypeOK
  <2>5. 0..(sbrk - 1) \subseteq 0..(sbrk' - 1)
      BY <1>10
  <2> QED BY <2>2, <2>3, <2>4, <2>5, <1>5, <1>7, AssignAccounts
<1>15. BreakWithinLimit'
  <2>1. sbrk <= vm_end /\ vm_end % PAGING_PAGESZ = 0
      BY DEF IInv, BreakWithinLimit
  <2>2. (vm_end + PageAlign(size)) % PAGING_PAGESZ = 0
      BY <2>1, <1>2, <1>3, WholePagesAdd
  <2>3. sbrk + size <= vm_end + PageAlign(size)
      BY <2>1, <1>1, <1>2, <1>3
  <2> QED BY <2>2, <2>3, <1>4 DEF BreakWithinLimit
<1> QED BY <1>12, <1>13, <1>14, <1>15 DEF IInv

\* __free preserves the invariant.
LEMMA FreeInv ==
    ASSUME IInv, NEW r \in RgId, Free(r)
    PROVE  IInv'
<1> DEFINE L == vm_freerg_list
           old == symrgtbl[r]
<1>1. /\ vm_end \in Nat /\ sbrk \in Nat
      /\ L \in Seq(Rg) /\ Len(L) \in Nat /\ FreeIdx = 1..Len(L)
      /\ symrgtbl \in [RgId -> Rg]
      /\ \A i \in FreeIdx : L[i] \in Rg /\ InArea(L[i])
      /\ \A q \in RgId : symrgtbl[q] \in Rg /\ InArea(symrgtbl[q])
    BY TypeFacts DEF IInv, FreeIdx
<1>2. /\ vm_freerg_list' = Enlist(old)
      /\ symrgtbl' = [symrgtbl EXCEPT ![r] = NoRegion]
      /\ vm_end' = vm_end /\ sbrk' = sbrk /\ lost' = lost
    BY DEF Free
<1>3. /\ symrgtbl' \in [RgId -> Rg]
      /\ \A q \in RgId : symrgtbl'[q] = IF q = r THEN NoRegion ELSE symrgtbl[q]
    BY <1>1, <1>2, BytesOfNoRegion
<1>4. old \in Rg /\ InArea(old) /\ Bytes(NoRegion) = {} /\ InArea(NoRegion)
  <2>1. InArea(NoRegion)
      BY <1>1 DEF InArea, NoRegion, Region
  <2> QED BY <2>1, <1>1, BytesOfNoRegion
<1> HIDE DEF old
<1>5. /\ \A r1, r2 \in RgId : r1 # r2 => Bytes(symrgtbl[r1]) \cap Bytes(symrgtbl[r2]) = {}
      /\ \A q \in RgId, k \in FreeIdx : Bytes(symrgtbl[q]) \cap Bytes(L[k]) = {}
      /\ \A j, k \in FreeIdx : j # k => Bytes(L[j]) \cap Bytes(L[k]) = {}
    BY DEF IInv, RegionsDisjoint
<1>6. /\ (\A q \in RgId : InArea(symrgtbl[q]))'
      /\ \A r1, r2 \in RgId : r1 # r2 => Bytes(symrgtbl'[r1]) \cap Bytes(symrgtbl'[r2]) = {}
  <2>1. \A q \in RgId : InArea(symrgtbl'[q])
      BY <1>1, <1>3, <1>4
  <2>2. (\A q \in RgId : InArea(symrgtbl[q]))'
      BY <2>1, <1>2 DEF InArea
  <2>3. \A q \in RgId : Bytes(symrgtbl'[q]) \subseteq Bytes(symrgtbl[q])
      BY <1>3, <1>4
  <2> QED BY <2>2, <2>3, <1>5
<1>7. Held' \cup Bytes(old) = Held /\ Held' \cap Bytes(old) = {}
  <2> DEFINE Others == UNION {Bytes(symrgtbl[q]) : q \in RgId \ {r}}
  <2>1. Held' = Others
      BY <1>3, <1>4 DEF Held
  <2>2. Held = Others \cup Bytes(old)
      BY DEF Held, old
  <2>3. Others \cap Bytes(old) = {}
      BY <1>5 DEF old
  <2> QED BY <2>1, <2>2, <2>3
<1>8. BreakWithinLimit'
    BY <1>2 DEF IInv, BreakWithinLimit
<1>9. CASE old.start >= old.end
  <2>1. Bytes(old) = {}
      BY <1>9, <1>4, RgFacts DEF Bytes
  <2>2. vm_freerg_list' = L /\ FreeIdx' = FreeIdx
      BY <1>2, <1>9 DEF Enlist, FreeIdx
  <2>3. Spare' = Spare /\ Held' = Held
      BY <2>1, <2>2, <1>7 DEF Spare
  <2>4. (\A k \in FreeIdx : InArea(vm_freerg_list[k]))'
      BY <2>2, <1>1, <1>2 DEF InArea
  <2>5. VmTypeOK'
      BY <2>2, <2>4, <1>1, <1>2, <1>3, <1>6 DEF VmTypeOK, IInv, Rg
  <2>6. EveryByteAccounted'
      BY <2>3, <1>2 DEF IInv, EveryByteAccounted
  <2>7. RegionsDisjoint'
    <3>1. \A q \in RgId : Bytes(symrgtbl'[q]) \subseteq Bytes(symrgtbl[q])
        BY <1>3, <1>4
    <3> QED BY <3>1, <2>2, <1>5, <1>6 DEF RegionsDisjoint
  <2> QED BY <2>5, <2>6, <2>7, <1>8 DEF IInv
<1>10. CASE ~(old.start >= old.end)
  <2> DEFINE T == <<old>> \o L
  <2>1. vm_freerg_list' = T
      BY <1>2, <1>10 DEF Enlist
  <2>2. /\ T \in Seq(Rg) /\ Len(T) = Len(L) + 1
        /\ \A j \in 1..(Len(L) + 1) : T[j] = IF j = 1 THEN old ELSE L[j - 1]
      BY <1>1, <1>4
  <2> HIDE DEF T
  <2>3. /\ FreeIdx' = 1..(Len(L) + 1) /\ T[1] = old /\ 1 \in FreeIdx'
        /\ \A j \in FreeIdx' : j = 1 \/ (j - 1 \in FreeIdx /\ T[j] = L[j - 1])
        /\ \A i \in FreeIdx : i + 1 \in FreeIdx' /\ T[i + 1] = L[i]
    <3>1. FreeIdx' = 1..(Len(L) + 1)
        BY <2>1, <2>2 DEF FreeIdx
    <3> QED BY <3>1, <2>2, <1>1
  <2>4. (\A k \in FreeIdx : InArea(vm_freerg_list[k]))'
    <3>1. \A k \in FreeIdx' : InArea(T[k])
        BY <2>3, <1>1, <1>4
    <3> QED BY <3>1, <2>1, <1>2 DEF InArea
  <2>5. VmTypeOK'
      BY <2>1, <2>2, <2>4, <1>1, <1>2, <1>3, <1>6 DEF VmTypeOK, IInv, Rg
  <2>6. Spare' = Spare \cup Bytes(old)
    <3>1. Spare' = UNION {Bytes(T[j]) : j \in FreeIdx'}
        BY <2>1 DEF Spare
    <3>2. Spare = UNION {Bytes(L[i]) : i \in FreeIdx}
        BY DEF Spare
    <3> QED BY <3>1, <3>2, <2>3
  <2>7. EveryByteAccounted'
      BY <2>6, <1>2, <1>7 DEF IInv, EveryByteAccounted
  <2>8. \A q \in RgId, j \in FreeIdx' : Bytes(symrgtbl'[q]) \cap Bytes(T[j]) = {}
    <3> SUFFICES ASSUME NEW q \in RgId, NEW j \in FreeIdx'
                 PROVE  Bytes(symrgtbl'[q]) \cap Bytes(T[j]) = {}
        OBVIOUS
    <3>1. CASE j = 1
      <4>1. Bytes(symrgtbl'[q]) \subseteq Held'
          BY DEF Held
      <4> QED BY <4>1, <3>1, <2>3, <1>7
    <3>2. CASE j # 1
        BY <3>2, <2>3, <1>3, <1>4, <1>5
    <3> QED BY <3>1, <3>2
  <2>9. \A i, j \in FreeIdx' : i # j => Bytes(T[i]) \cap Bytes(T[j]) = {}
    <3> SUFFICES ASSUME NEW i \in FreeIdx', NEW j \in FreeIdx', i # j
                 PROVE  Bytes(T[i]) \cap Bytes(T[j]) = {}
        OBVIOUS
    <3>1. \A k \in FreeIdx : Bytes(old) \cap Bytes(L[k]) = {}
        BY <1>5 DEF old
    <3>2. CASE i = 1 \/ j = 1
        BY <3>1, <3>2, <2>3
    <3>3. CASE i # 1 /\ j # 1
      <4>1. /\ i - 1 \in FreeIdx /\ j - 1 \in FreeIdx
            /\ T[i] = L[i - 1] /\ T[j] = L[j - 1]
          BY <3>3, <2>3
      <4>2. i - 1 # j - 1
          BY <2>3, <1>1
      <4> QED BY <4>1, <4>2, <1>5
    <3> QED BY <3>2, <3>3
  <2>10. RegionsDisjoint'
      BY <2>1, <2>8, <2>9, <1>6 DEF RegionsDisjoint
  <2> QED BY <2>5, <2>7, <2>10, <1>8 DEF IInv
<1> QED BY <1>9, <1>10

\* Reads, writes and stuttering preserve it: the regions stay as they are.
LEMMA StutterInv ==
    ASSUME IInv, UNCHANGED <<areaVars, lost>>
    PROVE  IInv'
<1>1. /\ vm_end' = vm_end /\ sbrk' = sbrk /\ lost' = lost
      /\ vm_freerg_list' = vm_freerg_list /\ symrgtbl' = symrgtbl
    BY DEF areaVars
<1>2. VmTypeOK'
    BY <1>1 DEF IInv, VmTypeOK, FreeIdx, InArea
<1>3. RegionsDisjoint'
    BY <1>1 DEF IInv, RegionsDisjoint, FreeIdx
<1>4. EveryByteAccounted'
    BY <1>1 DEF IInv, EveryByteAccounted, Held, Spare, FreeIdx
<1>5. BreakWithinLimit'
    BY <1>1 DEF IInv, BreakWithinLimit
<1> QED BY <1>2, <1>3, <1>4, <1>5 DEF IInv

-----------------------------------------------------------------------------
(* The theorems.                                                              *)

\* The four invariants together are preserved by every ALLOC and FREE of libmem.c,
\* whatever the symbols, sizes and page size.
THEOREM Inductive == ASSUME SizesFitInt PROVE Spec => []IInv
<1>1. Init => IInv
    BY InitInv
<1>2. IInv /\ [Next]_vars => IInv'
  <2> SUFFICES ASSUME IInv, [Next]_vars PROVE IInv'
      OBVIOUS
  <2>1. ASSUME NEW r \in RgId, NEW size \in Size, AllocReuse(r, size) PROVE IInv'
      BY <2>1, AllocReuseInv
  <2>2. ASSUME NEW r \in RgId, NEW size \in Size, AllocGrow(r, size) PROVE IInv'
      BY <2>2, AllocGrowInv
  <2>3. ASSUME NEW r \in RgId, Free(r) PROVE IInv'
      BY <2>3, FreeInv
  <2>4. ASSUME NEW r \in RgId, NEW off \in Offset, Read(r, off) PROVE IInv'
      BY <2>4, StutterInv DEF Read, Access
  <2>5. ASSUME NEW r \in RgId, NEW off \in Offset, Write(r, off) PROVE IInv'
      BY <2>5, StutterInv DEF Write, Access
  <2>6. CASE UNCHANGED vars
      BY <2>6, StutterInv DEF vars, areaVars
  <2> QED BY <2>1, <2>2, <2>3, <2>4, <2>5, <2>6 DEF Next
<1> QED BY <1>1, <1>2, PTL DEF Spec

\* Regions never leave the area, and a byte is lost below the break only
\* (VmTypeOK of the vm_area run).
THEOREM AreaTypeCorrect == ASSUME SizesFitInt PROVE Spec => []VmTypeOK
<1>1. IInv => VmTypeOK
    BY DEF IInv
<1> QED BY <1>1, Inductive, PTL

\* No byte is ever in two regions, for any page size and any sequence of
\* allocations and frees (libmem.c and mm-vm.c).
THEOREM RegionsNeverOverlap == ASSUME SizesFitInt PROVE Spec => []RegionsDisjoint
<1>1. IInv => RegionsDisjoint
    BY DEF IInv
<1> QED BY <1>1, Inductive, PTL

\* Overwriting a symbol that holds a region is the only way to leak one.
THEOREM OnlyOverwritingLeaks == ASSUME SizesFitInt PROVE Spec => []EveryByteAccounted
<1>1. IInv => EveryByteAccounted
    BY DEF IInv
<1> QED BY <1>1, Inductive, PTL

\* The break never passes the end of the pages inc_vma_limit asked to map.
THEOREM BreakStaysWithinLimit == ASSUME SizesFitInt PROVE Spec => []BreakWithinLimit
<1>1. IInv => BreakWithinLimit
    BY DEF IInv
<1> QED BY <1>1, Inductive, PTL

\* Where the latest access was made, and the test of __read.
AccessOK ==
    access # NoAccess =>
        /\ access.kind \in {"read", "write"} /\ access.rgid \in RgId /\ access.off \in Nat
        /\ access.addr = Vaddr(access.rgid, access.off) % MaxSpace
        /\ access.kind = "read" => Within(symrgtbl[access.rgid], Vaddr(access.rgid, access.off))

\* The area never outgrows what page numbers tell apart.
BreakBounded == sbrk <= MaxBreak

\* An access is recorded with what __read and __write know of it.
LEMMA AccessStep ==
    ASSUME NEW r \in RgId, NEW off \in Offset, Read(r, off) \/ Write(r, off)
    PROVE  AccessOK' /\ sbrk' = sbrk
<1>1. symrgtbl' = symrgtbl /\ sbrk' = sbrk
    BY DEF Read, Write, Access, areaVars
<1>2. \/ /\ access' = [kind |-> "read", rgid |-> r, off |-> off,
                       addr |-> Vaddr(r, off) % MaxSpace]
         /\ Within(symrgtbl[r], Vaddr(r, off))
      \/ access' = [kind |-> "write", rgid |-> r, off |-> off,
                    addr |-> Vaddr(r, off) % MaxSpace]
    BY DEF Read, Write, Access
<1>3. off \in Nat /\ Vaddr(r, off)' = Vaddr(r, off)
    BY <1>1, OffsetAssumption DEF Vaddr
<1> QED BY <1>1, <1>2, <1>3 DEF AccessOK, Vaddr

\* Every access so far, read or write, with the regions as they were and are.
LEMMA AccessAlways == ASSUME SizesFitInt PROVE Spec => [](IInv /\ BreakBounded /\ AccessOK)
<1>1. Init => BreakBounded /\ AccessOK
    BY MaxBreakAssumption DEF Init, AccessOK, BreakBounded
<1>2. IInv /\ BreakBounded /\ AccessOK /\ [Next]_vars => (BreakBounded /\ AccessOK)'
  <2> SUFFICES ASSUME IInv, BreakBounded, AccessOK, [Next]_vars
               PROVE  BreakBounded' /\ AccessOK'
      OBVIOUS
  <2>1. ASSUME NEW r \in RgId, NEW size \in Size, AllocReuse(r, size)
        PROVE  BreakBounded' /\ AccessOK'
      BY <2>1 DEF AllocReuse, Assign, AccessOK, BreakBounded
  <2>2. ASSUME NEW r \in RgId, NEW size \in Size, AllocGrow(r, size)
        PROVE  BreakBounded' /\ AccessOK'
      BY <2>2 DEF AllocGrow, IncVmaLimit, Assign, AccessOK, BreakBounded
  <2>3. ASSUME NEW r \in RgId, Free(r) PROVE BreakBounded' /\ AccessOK'
      BY <2>3 DEF Free, AccessOK, BreakBounded
  <2>4. ASSUME NEW r \in RgId, NEW off \in Offset, Read(r, off) \/ Write(r, off)
        PROVE  BreakBounded' /\ AccessOK'
      BY <2>4, AccessStep DEF BreakBounded
  <2>5. CASE UNCHANGED vars
      BY <2>5 DEF vars, areaVars, AccessOK, BreakBounded, Vaddr
  <2> QED BY <2>1, <2>2, <2>3, <2>4, <2>5 DEF Next
<1> QED BY <1>1, <1>2, Inductive, PTL DEF Spec

\* What the latest access has to do with its own region: below 2^32 the address is the sum
\* of the region's start and the offset, or negative.
LEMMA AccessFacts ==
    ASSUME IInv, BreakBounded, AccessOK, access # NoAccess,
           NEW own, own = symrgtbl[access.rgid], NEW v, v = Vaddr(access.rgid, access.off)
    PROVE  /\ own.start \in Nat /\ own.end \in Nat /\ access.off \in Nat /\ v \in Int
           /\ own.end <= sbrk /\ sbrk \in Nat
           /\ own.start + access.off < own.end => v = own.start + access.off
           /\ own.start + access.off < 2 * IntLimit /\ 0 <= v => v = own.start + access.off
           /\ access.kind = "read" => v \in 0..(own.end - 1)
           /\ v \in 0..(sbrk - 1) => access.addr = v
<1>1. /\ own.start \in Nat /\ own.end \in Nat /\ own.start <= own.end /\ own.end <= sbrk
      /\ sbrk \in Nat /\ access.off \in Nat
    BY DEF IInv, VmTypeOK, InArea, AccessOK
<1>2. /\ IntLimit \in Nat /\ MaxSpace \in Nat \ {0}
      /\ sbrk < MaxSpace /\ MaxSpace <= IntLimit
    BY <1>1, IntLimitAssumption, MaxSpaceAssumption, MaxBreakAssumption DEF BreakBounded
<1>3. v = ToInt(own.start + access.off) /\ own.start + access.off \in Nat
    BY <1>1 DEF Vaddr
<1>4. /\ v \in Int
      /\ own.start + access.off < IntLimit => v = own.start + access.off
      /\ own.start + access.off < 2 * IntLimit /\ 0 <= v => v = own.start + access.off
    BY <1>3, IntFacts
<1>5. access.kind = "read" => v \in 0..(own.end - 1)
    BY <1>1, <1>4 DEF AccessOK, Within
<1>6. ASSUME v \in 0..(sbrk - 1) PROVE access.addr = v
  <2>1. v \in 0..(MaxSpace - 1)
      BY <1>1, <1>2, <1>6
  <2>2. access.addr = v % MaxSpace
      BY DEF AccessOK
  <2> QED BY <1>2, <2>1, <2>2, OwnRemainder
<1> QED BY <1>1, <1>2, <1>4, <1>5, <1>6

\* A byte of its own region is nobody else's.
LEMMA OwnIsNotElsewhere ==
    ASSUME IInv, access.rgid \in RgId, Reached(symrgtbl[access.rgid])
    PROVE  ~Trespasses
BY DEF IInv, RegionsDisjoint, Trespasses, Reached

\* An access that reaches the bytes of another symbol, or free ones, is made from an offset
\* beyond its own region, and a read only from one that wraps around the int to below it
\* (OnlyWildOffsetsTrespass of the vm_area run).
THEOREM TrespassingIsWild == ASSUME SizesFitInt PROVE Spec => []OnlyWildOffsetsTrespass
<1>1. IInv /\ BreakBounded /\ AccessOK => OnlyWildOffsetsTrespass
  <2> DEFINE own == symrgtbl[access.rgid]
             v == Vaddr(access.rgid, access.off)
  <2> SUFFICES ASSUME IInv, BreakBounded, AccessOK, access # NoAccess, Trespasses
               PROVE  /\ access.off >= own.end - own.start
                      /\ access.kind = "read" =>
                             /\ access.addr < own.start
                             /\ own.start + access.off >= 2 * IntLimit
      BY DEF OnlyWildOffsetsTrespass
  <2>1. /\ own.start \in Nat /\ own.end \in Nat /\ access.off \in Nat /\ v \in Int
        /\ own.end <= sbrk /\ sbrk \in Nat
        /\ own.start + access.off < own.end => v = own.start + access.off
        /\ own.start + access.off < 2 * IntLimit /\ 0 <= v => v = own.start + access.off
        /\ access.kind = "read" => v \in 0..(own.end - 1)
        /\ v \in 0..(sbrk - 1) => access.addr = v
      BY AccessFacts
  <2>2. access.addr \notin own.start..(own.end - 1)
      BY OwnIsNotElsewhere DEF AccessOK, Reached, Bytes
  <2>3. IntLimit \in Nat
      BY IntLimitAssumption
  <2> HIDE DEF own, v
  <2>4. access.off >= own.end - own.start
      BY <2>1, <2>2
  <2>5. ASSUME access.kind = "read"
        PROVE  access.addr < own.start /\ own.start + access.off >= 2 * IntLimit
    <3>1. access.addr = v /\ v \in 0..(own.end - 1)
        BY <2>1, <2>5
    <3>2. v < own.start
        BY <2>1, <2>2, <3>1
    <3> QED BY <2>1, <2>3, <3>1, <3>2
  <2> QED BY <2>4, <2>5
<1> QED BY <1>1, AccessAlways, PTL

\* What __read returns lies in the area, whatever the offset; and with an address that does
\* not wrap around it is the symbol's own: in no other symbol's region, and in no free one.
ReadsOwnBytes ==
    access # NoAccess /\ access.kind = "read" =>
        LET own == symrgtbl[access.rgid]
        IN  /\ access.addr \in 0..(sbrk - 1)
            /\ own.start + access.off < 2 * IntLimit => Reached(own) /\ ~Trespasses

\* The test of __read is enough to stay in the area, and to stay in the region as long as
\* the sum of its start and the offset is below 2^32.
THEOREM ReadsStayWithin == ASSUME SizesFitInt PROVE Spec => []ReadsOwnBytes
<1>1. IInv /\ BreakBounded /\ AccessOK => ReadsOwnBytes
  <2> DEFINE own == symrgtbl[access.rgid]
             v == Vaddr(access.rgid, access.off)
  <2> SUFFICES ASSUME IInv, BreakBounded, AccessOK, access # NoAccess, access.kind = "read"
               PROVE  /\ access.addr \in 0..(sbrk - 1)
                      /\ own.start + access.off < 2 * IntLimit => Reached(own) /\ ~Trespasses
      BY DEF ReadsOwnBytes
  <2>1. /\ own.start \in Nat /\ own.end \in Nat /\ access.off \in Nat /\ v \in Int
        /\ own.end <= sbrk /\ sbrk \in Nat
        /\ own.start + access.off < 2 * IntLimit /\ 0 <= v => v = own.start + access.off
        /\ v \in 0..(own.end - 1)
        /\ v \in 0..(sbrk - 1) => access.addr = v
      BY AccessFacts
  <2>2. access.addr = v /\ v \in 0..(sbrk - 1)
    <3> HIDE DEF own, v
    <3> QED BY <2>1
  <2>3. ASSUME own.start + access.off < 2 * IntLimit PROVE Reached(own)
    <3>1. access.addr \in own.start..(own.end - 1)
      <4> HIDE DEF own, v
      <4> QED BY <2>1, <2>2, <2>3
    <3> QED BY <3>1 DEF Reached, Bytes
  <2>4. Reached(own) => ~Trespasses
      BY OwnIsNotElsewhere DEF AccessOK
  <2> HIDE DEF own, v
  <2> QED BY <2>2, <2>3, <2>4
<1> QED BY <1>1, AccessAlways, PTL
=============================================================================
