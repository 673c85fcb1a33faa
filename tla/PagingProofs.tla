---------------------------- MODULE PagingProofs ----------------------------
(* Paging in the 32-bit build, for any number of processes, frames and pages:  *)
(* no frame of RAM or of swap has two pages, the FIFO lists hold what is in    *)
(* RAM, and what a process wrote it reads back, but for the page that went to  *)
(* swap frame 0; and that this is what PageStore promises.                     *)
(*                                                                             *)
(* A handler is a chain of steps on the two devices and on one process's page  *)
(* table.  Between two of them frames are taken from RAM and belong to no page *)
(* yet, so what holds throughout (World) says which, and relates the state the *)
(* handler has reached with the one it started from, which is the one the      *)
(* variables hold.                                                             *)
EXTENDS Paging, Induction

RFrame == 0..(RamFrames - 1)
SFrame == 0..(SwpFrames - 1)
Content == Value \cup {Unwritten}
Table == [Page -> PTE]
Device(S) == [cell : [S -> Content], free : Seq(S)]
Ram == Device(RFrame)
Swp == Device(SFrame)
HState == [ram : Ram, swp : Swp, pgd : Table, fifo : Seq(Page)]

Tables == [q \in Proc |-> mm[q].pgd]

\* The tables while a handler works on that of p.
At(p, pgd) == [q \in Proc |-> IF q = p THEN pgd ELSE mm[q].pgd]

-----------------------------------------------------------------------------
(* What holds of the page tables and the devices, with the frames of RAM that  *)
(* are taken and not yet mapped.                                               *)

\* Frames of RAM: no page shares one, nor has one that is free or taken.
FramesOK(t, free, taken) ==
    /\ \A q \in Proc, g \in Page : t[q][g].present =>
           /\ FPN(t[q][g]) \in RFrame \ taken
           /\ ~OnList(free, FPN(t[q][g]))
    /\ \A q, r \in Proc, g, h \in Page :
           t[q][g].present /\ t[r][h].present /\ FPN(t[q][g]) = FPN(t[r][h])
           => q = r /\ g = h
    /\ NoRepeat(free)
    /\ taken \subseteq RFrame
    /\ \A f \in taken : ~OnList(free, f)

Out(pte) == ~pte.present /\ pte.swapped

\* Frames of swap, likewise.
SwapOK(t, free) ==
    /\ \A q \in Proc, g \in Page : Out(t[q][g]) =>
           /\ SWP(t[q][g]) \in SFrame
           /\ ~OnList(free, SWP(t[q][g]))
    /\ \A q, r \in Proc, g, h \in Page :
           Out(t[q][g]) /\ Out(t[r][h]) /\ SWP(t[q][g]) = SWP(t[r][h])
           => q = r /\ g = h
    /\ NoRepeat(free)

\* A page is in RAM, on the swap device or nowhere.
ShapeOK(t) == \A q \in Proc, g \in Page :
                  t[q][g].present \/ t[q][g].swapped \/ t[q][g] = NoEntry

\* A frame of RAM that was never taken was never written.
Blank(ram) == \A f \in RFrame : OnList(ram.free, f) => ram.cell[f] = Unwritten

\* The list of pages in RAM, and the end of the area.
ListOK(pgd, fifo, end) ==
    /\ NoRepeat(fifo)
    /\ \A k \in 1..Len(fifo) : pgd[fifo[k]].present
    /\ \A g \in Page : g >= end => pgd[g] = NoEntry

\* What a read of a page with this entry would return.
SeenIn(pte, ram, swp) == IF pte.present THEN Cell(ram, FPN(pte))
                         ELSE IF SWP(pte) # 0 THEN Cell(swp, SWP(pte))
                         ELSE Unwritten

\* The inductive invariant: the page tables, the devices and the lists, ...
StateOK ==
    /\ mram \in Ram /\ mswp \in Swp
    /\ mm \in [Proc -> [pgd : Table, fifo : Seq(Page), vm_end : 0..MaxPages]]
    /\ FramesOK(Tables, mram.free, {})
    /\ SwapOK(Tables, mswp.free)
    /\ ShapeOK(Tables)
    /\ Blank(mram)
    /\ \A q \in Proc : ListOK(mm[q].pgd, mm[q].fifo, mm[q].vm_end)

\* ... and what was written.
KeptOK ==
    /\ mem \in [Proc -> [Page -> Content]]
    /\ \A q \in Proc, g \in Page :
           mem[q][g] # Unwritten => \/ SeenIn(mm[q].pgd[g], mram, mswp) = mem[q][g]
                                    \/ AtFrameZero(mm[q].pgd[g])

PagingInv == StateOK /\ KeptOK

-----------------------------------------------------------------------------
(* And since the handler of p started.                                        *)

Before(q, g) == SeenIn(mm[q].pgd[g], mram, mswp)

\* What p had somewhere.
Own(p) == {Unwritten} \cup {Before(p, h) : h \in Page}

\* The taken frames show nothing, or what p had.
Lent(p, ram, taken) == \A f \in taken : ram.cell[f] \in Own(p)

\* Every page shows what it did, or has gone to swap frame 0; and the new ones of p
\* show nothing of another process.
Shown(p, t, ram, swp, new) ==
    /\ \A q \in Proc, g \in Page : ~(q = p /\ g \in new) =>
           SeenIn(t[q][g], ram, swp) = Before(q, g) \/ AtFrameZero(t[q][g])
    /\ \A g \in new : SeenIn(t[p][g], ram, swp) \in Own(p)

\* Swap frame 0 is never given back; if it was taken, it was for a page of p.
ZeroOK(p, t, swp) ==
    /\ OnList(swp.free, 0) => OnList(mswp.free, 0)
    /\ \A q \in Proc, g \in Page : AtFrameZero(t[q][g]) =>
           AtFrameZero(mm[q].pgd[g]) \/ (q = p /\ OnList(mswp.free, 0))
    /\ OnList(mswp.free, 0) /\ ~OnList(swp.free, 0) =>
           \E g \in Page : AtFrameZero(t[p][g])

\* A page that was lost stays lost.
StaysLost(p, t, touched) ==
    \A q \in Proc, g \in Page : ~(q = p /\ g \in touched) =>
        (AtFrameZero(mm[q].pgd[g]) => AtFrameZero(t[q][g]))

World(p, s, taken, new, end) ==
    /\ s \in HState
    /\ FramesOK(At(p, s.pgd), s.ram.free, taken)
    /\ SwapOK(At(p, s.pgd), s.swp.free)
    /\ ShapeOK(At(p, s.pgd))
    /\ Blank(s.ram)
    /\ ListOK(s.pgd, s.fifo, end)
    /\ Lent(p, s.ram, taken)
    /\ Shown(p, At(p, s.pgd), s.ram, s.swp, new)
    /\ ZeroOK(p, At(p, s.pgd), s.swp)

-----------------------------------------------------------------------------
(* Lists and entries.                                                         *)

\* Taking the head off a list.
LEMMA TailOfList ==
    ASSUME NEW S, NEW l \in Seq(S), l # << >>
    PROVE  /\ Head(l) \in S /\ Tail(l) \in Seq(S)
           /\ OnList(l, Head(l))
           /\ \A f : OnList(Tail(l), f) => OnList(l, f)
           /\ \A f : OnList(l, f) => f = Head(l) \/ OnList(Tail(l), f)
           /\ NoRepeat(l) => NoRepeat(Tail(l)) /\ ~OnList(Tail(l), Head(l))
<1>1. /\ Head(l) \in S /\ Tail(l) \in Seq(S) /\ Len(l) \in Nat \ {0}
      /\ Len(Tail(l)) = Len(l) - 1 /\ Head(l) = l[1]
    OBVIOUS
<1>2. \A k \in 1..Len(Tail(l)) : Tail(l)[k] = l[k + 1]
    OBVIOUS
<1>3. \A f : OnList(Tail(l), f) => OnList(l, f)
  <2> SUFFICES ASSUME NEW f, OnList(Tail(l), f) PROVE OnList(l, f)
      OBVIOUS
  <2>1. PICK k \in 1..Len(Tail(l)) : Tail(l)[k] = f
      BY DEF OnList
  <2>2. k + 1 \in 1..Len(l) /\ l[k + 1] = f
      BY <1>1, <1>2, <2>1
  <2> QED BY <2>2 DEF OnList
<1>4. \A f : OnList(l, f) => f = Head(l) \/ OnList(Tail(l), f)
  <2> SUFFICES ASSUME NEW f, OnList(l, f), f # Head(l) PROVE OnList(Tail(l), f)
      OBVIOUS
  <2>1. PICK k \in 1..Len(l) : l[k] = f
      BY DEF OnList
  <2>2. k - 1 \in 1..Len(Tail(l)) /\ (k - 1) + 1 = k
      BY <1>1, <2>1
  <2>3. Tail(l)[k - 1] = f
      BY <1>2, <2>1, <2>2
  <2> QED BY <2>2, <2>3 DEF OnList
<1>5. ASSUME NoRepeat(l) PROVE NoRepeat(Tail(l)) /\ ~OnList(Tail(l), Head(l))
    BY <1>1, <1>2, <1>5 DEF NoRepeat, OnList
<1>6. OnList(l, Head(l))
    BY <1>1 DEF OnList
<1> QED BY <1>1, <1>3, <1>4, <1>5, <1>6

\* Putting an element in front of a list.
LEMMA InFront ==
    ASSUME NEW S, NEW l \in Seq(S), NEW f \in S
    PROVE  /\ <<f>> \o l \in Seq(S)
           /\ \A h : OnList(<<f>> \o l, h) <=> h = f \/ OnList(l, h)
           /\ NoRepeat(l) /\ ~OnList(l, f) => NoRepeat(<<f>> \o l)
<1> DEFINE m == <<f>> \o l
<1>1. m \in Seq(S) /\ Len(l) \in Nat /\ Len(m) = Len(l) + 1 /\ m[1] = f
    OBVIOUS
<1>2. \A k \in 2..Len(m) : m[k] = l[k - 1] /\ k - 1 \in 1..Len(l)
    OBVIOUS
<1>3. \A k \in 1..Len(l) : l[k] = m[k + 1] /\ k + 1 \in 1..Len(m)
    OBVIOUS
<1> HIDE DEF m
<1>4. \A k \in 1..Len(m) : k = 1 \/ k \in 2..Len(m)
    BY <1>1
<1>5. \A h : OnList(m, h) => h = f \/ OnList(l, h)
    BY <1>1, <1>2, <1>4 DEF OnList
<1>6. \A h : OnList(l, h) => OnList(m, h)
    BY <1>3 DEF OnList
<1>7. OnList(m, f)
    BY <1>1 DEF OnList
<1>8. ASSUME NoRepeat(l), ~OnList(l, f), NEW j \in 1..Len(m), NEW k \in 1..Len(m), j # k
      PROVE  m[j] # m[k]
  <2>1. CASE j = 1
      BY <1>1, <1>2, <1>4, <1>8, <2>1 DEF OnList
  <2>2. CASE k = 1
      BY <1>1, <1>2, <1>4, <1>8, <2>2 DEF OnList
  <2>3. CASE j # 1 /\ k # 1
    <3>1. /\ j - 1 \in 1..Len(l) /\ k - 1 \in 1..Len(l) /\ j - 1 # k - 1
          /\ m[j] = l[j - 1] /\ m[k] = l[k - 1]
        BY <1>2, <1>4, <1>8, <2>3
    <3> QED BY <1>8, <3>1 DEF NoRepeat
  <2> QED BY <2>1, <2>2, <2>3
<1> QED BY <1>1, <1>5, <1>6, <1>7, <1>8 DEF m, NoRepeat

\* Taking the last element off.
LEMMA FrontKeeps ==
    ASSUME NEW S, NEW l \in Seq(S), l # << >>
    PROVE  /\ WithoutVictim(l) \in Seq(S) /\ Len(WithoutVictim(l)) = Len(l) - 1
           /\ \A k \in 1..Len(WithoutVictim(l)) :
                  WithoutVictim(l)[k] = l[k] /\ k \in 1..Len(l)
<1> DEFINE m == WithoutVictim(l)
<1>1. m = [k \in 1..(Len(l) - 1) |-> l[k]]
    BY DEF WithoutVictim
<1>2. Len(l) - 1 \in Nat /\ \A k \in 1..(Len(l) - 1) : l[k] \in S
    OBVIOUS
<1>3. m \in Seq(S) /\ Len(m) = Len(l) - 1
    BY <1>1, <1>2
<1>4. \A k \in 1..Len(m) : m[k] = l[k] /\ k \in 1..Len(l)
    BY <1>1, <1>2, <1>3
<1> QED BY <1>3, <1>4

\* The element that was last.
LEMMA FrontOfList ==
    ASSUME NEW S, NEW l \in Seq(S), l # << >>
    PROVE  /\ Victim(l) \in S
           /\ OnList(l, Victim(l))
           /\ NoRepeat(l) => NoRepeat(WithoutVictim(l)) /\ ~OnList(WithoutVictim(l), Victim(l))
<1> DEFINE m == WithoutVictim(l)
<1>1. Len(l) \in Nat \ {0} /\ Victim(l) = l[Len(l)] /\ Victim(l) \in S
    BY DEF Victim
<1>2. m \in Seq(S) /\ Len(m) = Len(l) - 1
    BY FrontKeeps
<1>3. \A k \in 1..Len(m) : m[k] = l[k] /\ k \in 1..Len(l)
    BY FrontKeeps
<1> HIDE DEF m
<1>4. NoRepeat(l) => NoRepeat(m) /\ ~OnList(m, Victim(l))
    BY <1>1, <1>2, <1>3 DEF NoRepeat, OnList
<1>5. OnList(l, Victim(l))
    BY <1>1 DEF OnList
<1> QED BY <1>1, <1>4, <1>5 DEF m

\* Adding one at the end.
LEMMA AtTheEnd ==
    ASSUME NEW S, NEW l \in Seq(S), NEW f \in S
    PROVE  /\ Append(l, f) \in Seq(S) /\ Len(Append(l, f)) = Len(l) + 1
           /\ \A h : OnList(Append(l, f), h) <=> h = f \/ OnList(l, h)
           /\ NoRepeat(l) /\ ~OnList(l, f) => NoRepeat(Append(l, f))
<1> DEFINE m == Append(l, f)
<1>1. m \in Seq(S) /\ Len(l) \in Nat /\ Len(m) = Len(l) + 1 /\ m[Len(m)] = f
    OBVIOUS
<1>2. \A k \in 1..Len(l) : m[k] = l[k] /\ k \in 1..Len(m)
    OBVIOUS
<1> HIDE DEF m
<1>3. \A k \in 1..Len(m) : k = Len(m) \/ k \in 1..Len(l)
    BY <1>1
<1>4. \A h : OnList(m, h) => h = f \/ OnList(l, h)
    BY <1>1, <1>2, <1>3 DEF OnList
<1>5. \A h : OnList(l, h) => OnList(m, h)
    BY <1>2 DEF OnList
<1>6. OnList(m, f)
    BY <1>1 DEF OnList
<1>7. NoRepeat(l) /\ ~OnList(l, f) => NoRepeat(m)
    BY <1>1, <1>2, <1>3 DEF NoRepeat, OnList
<1> QED BY <1>1, <1>4, <1>5, <1>6, <1>7 DEF m

\* pte_set_fpn leaves the page in RAM, in that frame.
LEMMA SetFpnPte ==
    ASSUME NEW pte \in PTE, NEW f \in RFrame
    PROVE  /\ SetFpn(pte, f) \in PTE
           /\ SetFpn(pte, f).present /\ ~SetFpn(pte, f).swapped
           /\ FPN(SetFpn(pte, f)) = f
<1>1. FPNSPAN \in Nat \ {0} /\ f \in Nat /\ f < FPNSPAN
    BY EntryAssumption, LayoutAssumption, FramesAssumption DEF RFrame
<1>2. pte.low \in Nat
    BY DEF PTE
<1>3. PICK k \in Nat : pte.low - (pte.low % FPNSPAN) = k * FPNSPAN
  <2>1. pte.low = FPNSPAN * (pte.low \div FPNSPAN) + (pte.low % FPNSPAN)
      BY <1>1, <1>2
  <2>2. pte.low \div FPNSPAN \in Nat
      BY <1>1, <1>2
  <2>3. FPNSPAN * (pte.low \div FPNSPAN) = (pte.low \div FPNSPAN) * FPNSPAN
      BY <1>1, <2>2
  <2>4. pte.low - (pte.low % FPNSPAN) = (pte.low \div FPNSPAN) * FPNSPAN
    <3> DEFINE a == FPNSPAN * (pte.low \div FPNSPAN)
               b == pte.low % FPNSPAN
    <3>1. a \in Nat /\ b \in Nat /\ pte.low = a + b
        BY <1>1, <1>2, <2>1, <2>2
    <3>2. (a + b) - b = a
        BY <3>1
    <3> HIDE DEF a, b
    <3>3. pte.low - b = a
        BY <3>1, <3>2
    <3> QED BY <2>3, <3>3 DEF a, b
  <2> QED BY <2>2, <2>4
<1>4. (k * FPNSPAN + f) % FPNSPAN = f
    BY <1>1
<1>5. k * FPNSPAN + f \in Nat
    BY <1>1
<1>6. SetFpn(pte, f).low = k * FPNSPAN + f
    BY <1>3 DEF SetFpn, FPN
<1>7. SetFpn(pte, f).present = TRUE /\ SetFpn(pte, f).swapped = FALSE
    BY DEF SetFpn
<1>8. SetFpn(pte, f) \in PTE
    BY <1>5, <1>6, <1>7 DEF SetFpn, PTE
<1> QED BY <1>4, <1>6, <1>7, <1>8 DEF FPN

\* pte_set_swap of the 32-bit build takes it out, to that frame of swap.
LEMMA SetSwapPte ==
    ASSUME ~MM64, NEW pte, NEW g \in SFrame
    PROVE  /\ SetSwap(pte, g) \in PTE
           /\ ~SetSwap(pte, g).present /\ SetSwap(pte, g).swapped
           /\ SWP(SetSwap(pte, g)) = g
<1>1. SWPOFF \in Nat \ {0} /\ g \in Nat
    BY EntryAssumption, FramesAssumption DEF SFrame
<1>2. (g * SWPOFF) \div SWPOFF = g /\ g * SWPOFF \in Nat
    BY <1>1
<1>3. SetSwap(pte, g) = [present |-> FALSE, swapped |-> TRUE, low |-> g * SWPOFF]
    BY DEF SetSwap, SetSwap32
<1> QED BY <1>2, <1>3 DEF SWP, PTE

-----------------------------------------------------------------------------
(* One entry changed.                                                         *)

\* The tables u are t with entry v of p set to e.
Changed(t, u, p, v, e) ==
    /\ t \in [Proc -> Table] /\ u \in [Proc -> Table]
    /\ p \in Proc /\ v \in Page
    /\ u[p][v] = e
    /\ \A q \in Proc, g \in Page : ~(q = p /\ g = v) => u[q][g] = t[q][g]

\* The tables while p is served.
LEMMA AtTables ==
    ASSUME PagingInv, NEW p \in Proc, NEW pgd \in Table
    PROVE  /\ At(p, pgd) \in [Proc -> Table]
           /\ At(p, pgd)[p] = pgd
           /\ \A q \in Proc : q # p => At(p, pgd)[q] = mm[q].pgd
<1>1. \A q \in Proc : mm[q].pgd \in Table
    BY DEF PagingInv, StateOK
<1> QED BY <1>1 DEF At

\* And after one of its entries is set.
LEMMA AtChanged ==
    ASSUME PagingInv, NEW p \in Proc, NEW pgd \in Table, NEW v \in Page, NEW e \in PTE,
           NEW new, new = [pgd EXCEPT ![v] = e]
    PROVE  Changed(At(p, pgd), At(p, new), p, v, e) /\ new \in Table
<1>1. new \in Table
    BY DEF Table
<1>2. new[v] = e /\ \A g \in Page : g # v => new[g] = pgd[g]
    BY DEF Table
<1>3. /\ At(p, pgd) \in [Proc -> Table] /\ At(p, pgd)[p] = pgd
      /\ \A q \in Proc : q # p => At(p, pgd)[q] = mm[q].pgd
    BY AtTables
<1>4. /\ At(p, new) \in [Proc -> Table] /\ At(p, new)[p] = new
      /\ \A q \in Proc : q # p => At(p, new)[q] = mm[q].pgd
    BY <1>1, AtTables
<1>5. At(p, new)[p][v] = e
    BY <1>2, <1>4
<1>6. ASSUME NEW q \in Proc, NEW g \in Page, ~(q = p /\ g = v)
      PROVE  At(p, new)[q][g] = At(p, pgd)[q][g]
  <2>1. CASE q = p
      BY <1>2, <1>3, <1>4, <1>6, <2>1
  <2>2. CASE q # p
      BY <1>3, <1>4, <2>2
  <2> QED BY <2>1, <2>2
<1> HIDE DEF Table
<1> QED BY <1>1, <1>3, <1>4, <1>5, <1>6 DEF Changed

\* A taken frame mapped to a page that had none.
LEMMA MapFrames ==
    ASSUME NEW t, NEW u, NEW p, NEW g, NEW e, NEW free, NEW taken,
           Changed(t, u, p, g, e), FramesOK(t, free, taken),
           ~t[p][g].present, FPN(e) \in taken
    PROVE  FramesOK(u, free, taken \ {FPN(e)})
<1> USE DEF FramesOK, Changed
<1>1. \A q \in Proc, h \in Page : ~(q = p /\ h = g) /\ t[q][h].present =>
          FPN(t[q][h]) # FPN(e)
    OBVIOUS
<1>2. ASSUME NEW q \in Proc, NEW h \in Page, u[q][h].present
      PROVE  FPN(u[q][h]) \in RFrame \ (taken \ {FPN(e)}) /\ ~OnList(free, FPN(u[q][h]))
    BY <1>2
<1>3. ASSUME NEW q \in Proc, NEW r \in Proc, NEW h \in Page, NEW i \in Page,
             u[q][h].present, u[r][i].present, FPN(u[q][h]) = FPN(u[r][i])
      PROVE  q = r /\ h = i
    BY <1>1, <1>3
<1> QED BY <1>2, <1>3

\* And put at the head of the FIFO list.
LEMMA MapList ==
    ASSUME NEW pgd \in Table, NEW fifo \in Seq(Page), NEW end \in Nat, NEW g \in Page,
           NEW e \in PTE, ListOK(pgd, fifo, end), ~pgd[g].present, g < end, e.present
    PROVE  /\ Enlist(fifo, g) \in Seq(Page)
           /\ ListOK([pgd EXCEPT ![g] = e], Enlist(fifo, g), end)
<1> DEFINE new == [pgd EXCEPT ![g] = e]
<1>1. new[g] = e /\ \A h \in Page : h # g => new[h] = pgd[h]
    BY DEF Table
<1>2. ~OnList(fifo, g)
    BY DEF ListOK, OnList
<1>3. /\ Enlist(fifo, g) \in Seq(Page)
      /\ \A h : OnList(Enlist(fifo, g), h) <=> h = g \/ OnList(fifo, h)
      /\ NoRepeat(Enlist(fifo, g))
    BY <1>2, InFront DEF Enlist, ListOK
<1>4. \A h : OnList(fifo, h) => h \in Page /\ pgd[h].present
    BY DEF ListOK, OnList
<1>5. ASSUME NEW k \in 1..Len(Enlist(fifo, g)) PROVE new[Enlist(fifo, g)[k]].present
  <2>1. OnList(Enlist(fifo, g), Enlist(fifo, g)[k])
      BY DEF OnList
  <2> QED BY <1>1, <1>3, <1>4, <2>1
<1>6. ASSUME NEW h \in Page, h >= end PROVE new[h] = NoEntry
  <2>1. end \in Nat /\ g < end /\ h # g
      BY <1>6 DEF Page
  <2> QED BY <1>1, <1>6, <2>1 DEF ListOK
<1> HIDE DEF new
<1>7. ListOK(new, Enlist(fifo, g), end)
    BY <1>3, <1>5, <1>6 DEF ListOK
<1> QED BY <1>3, <1>7 DEF new

\* Out of RAM, the page leaves its frame taken.
LEMMA EvictFrames ==
    ASSUME NEW t, NEW u, NEW p, NEW v, NEW e, NEW free, NEW taken,
           Changed(t, u, p, v, e), FramesOK(t, free, taken), t[p][v].present, ~e.present
    PROVE  /\ FPN(t[p][v]) \in RFrame \ taken
           /\ FramesOK(u, free, taken \cup {FPN(t[p][v])})
<1> USE DEF FramesOK, Changed
<1>1. FPN(t[p][v]) \in RFrame \ taken /\ ~OnList(free, FPN(t[p][v]))
    OBVIOUS
<1>2. \A q \in Proc, h \in Page : u[q][h].present =>
          ~(q = p /\ h = v) /\ u[q][h] = t[q][h] /\ FPN(t[q][h]) # FPN(t[p][v])
    OBVIOUS
<1>3. ASSUME NEW q \in Proc, NEW h \in Page, u[q][h].present
      PROVE  /\ FPN(u[q][h]) \in RFrame \ (taken \cup {FPN(t[p][v])})
             /\ ~OnList(free, FPN(u[q][h]))
    BY <1>2, <1>3
<1>4. ASSUME NEW q \in Proc, NEW r \in Proc, NEW h \in Page, NEW i \in Page,
             u[q][h].present, u[r][i].present, FPN(u[q][h]) = FPN(u[r][i])
      PROVE  q = r /\ h = i
    BY <1>2, <1>4
<1> QED BY <1>1, <1>3, <1>4

\* A frame of swap for it.
LEMMA EvictSwap ==
    ASSUME NEW t, NEW u, NEW p, NEW v, NEW e, NEW free \in Seq(SFrame), free # << >>,
           Changed(t, u, p, v, e), SwapOK(t, free), Out(e), SWP(e) = Head(free)
    PROVE  SwapOK(u, Tail(free))
<1> USE DEF SwapOK, Changed
<1>1. /\ Head(free) \in SFrame /\ OnList(free, Head(free)) /\ ~OnList(Tail(free), Head(free))
      /\ \A f : OnList(Tail(free), f) => OnList(free, f)
      /\ NoRepeat(Tail(free))
    BY TailOfList
<1>2. \A q \in Proc, h \in Page : ~(q = p /\ h = v) /\ Out(u[q][h]) =>
          u[q][h] = t[q][h] /\ SWP(t[q][h]) # SWP(e)
    BY <1>1
<1>3. ASSUME NEW q \in Proc, NEW h \in Page, Out(u[q][h])
      PROVE  SWP(u[q][h]) \in SFrame /\ ~OnList(Tail(free), SWP(u[q][h]))
    BY <1>1, <1>2, <1>3
<1>4. ASSUME NEW q \in Proc, NEW r \in Proc, NEW h \in Page, NEW i \in Page,
             Out(u[q][h]), Out(u[r][i]), SWP(u[q][h]) = SWP(u[r][i])
      PROVE  q = r /\ h = i
    BY <1>2, <1>4
<1> QED BY <1>1, <1>3, <1>4

-----------------------------------------------------------------------------
(* The devices.                                                               *)

\* MEMPHY_get_freefp.
LEMMA GetFreeDevice ==
    ASSUME NEW S, NEW dev \in Device(S), dev.free # << >>
    PROVE  /\ GetFree(dev) \in Device(S)
           /\ GetFree(dev).cell = dev.cell /\ GetFree(dev).free = Tail(dev.free)
<1>1. dev.free \in Seq(S)
    BY DEF Device
<1>2. Tail(dev.free) \in Seq(S)
    BY <1>1
<1> QED BY <1>2 DEF GetFree, Device

\* MEMPHY_put_freefp.
LEMMA PutFreeDevice ==
    ASSUME NEW S, NEW dev \in Device(S), NEW f \in S
    PROVE  /\ PutFree(dev, f) \in Device(S)
           /\ PutFree(dev, f).cell = dev.cell /\ PutFree(dev, f).free = <<f>> \o dev.free
<1>1. dev.free \in Seq(S)
    BY DEF Device
<1>2. <<f>> \o dev.free \in Seq(S)
    BY <1>1
<1> QED BY <1>2 DEF PutFree, Device

\* The device w is dev with v in frame f.
Stored(S, w, dev, f, v) ==
    /\ w \in Device(S)
    /\ w.free = dev.free
    /\ w.cell[f] = v
    /\ \A h \in S : h # f => w.cell[h] = dev.cell[h]

\* A write to a frame that exists.
LEMMA SetCellDevice ==
    ASSUME NEW S, NEW dev \in Device(S), NEW f \in S, NEW v \in Content
    PROVE  Stored(S, SetCell(dev, f, v), dev, f, v)
<1>1. f \in DOMAIN dev.cell
    BY DEF Device
<1>2. SetCell(dev, f, v) = [dev EXCEPT !.cell[f] = v]
    BY <1>1 DEF SetCell
<1> QED BY <1>2 DEF Stored, Device

\* __swap_cp_page of the 32-bit build, between frames that exist.
LEMMA SwapCopyDevice ==
    ASSUME ~MM64, NEW R, NEW src \in Device(R), NEW f \in R,
           NEW S, NEW dst \in Device(S), NEW g \in S
    PROVE  Stored(S, SwapCopy(src, f, dst, g), dst, g, src.cell[f])
<1>1. f \in DOMAIN src.cell /\ g \in DOMAIN dst.cell /\ src.cell[f] \in Content
    BY DEF Device
<1> DEFINE v == src.cell[f]
<1>2. v \in Content /\ SwapCopy(src, f, dst, g) = [dst EXCEPT !.cell[g] = v]
    BY <1>1 DEF SwapCopy, SwapCopy32
<1> HIDE DEF v
<1>3. Stored(S, [dst EXCEPT !.cell[g] = v], dst, g, v)
    BY <1>1, <1>2 DEF Stored, Device
<1> QED BY <1>2, <1>3 DEF v

\* A read of a frame that exists.
LEMMA CellOf ==
    /\ \A dev \in Ram, f \in RFrame : Cell(dev, f) = dev.cell[f]
    /\ \A dev \in Swp, f \in SFrame : Cell(dev, f) = dev.cell[f]
BY DEF Cell, Ram, Swp, Device

-----------------------------------------------------------------------------
(* A frame from the free list.                                                *)

\* Its head is taken; it was never written, so it shows nothing.
LEMMA TakeFrame ==
    ASSUME PagingInv, NEW p \in Proc, NEW s, NEW taken, NEW new, NEW end,
           World(p, s, taken, new, end), s.ram.free # << >>
    PROVE  LET u == [s EXCEPT !.ram = GetFree(@)]
               f == Head(s.ram.free)
           IN  /\ f \in RFrame \ taken
               /\ u.pgd = s.pgd /\ u.fifo = s.fifo
               /\ World(p, u, taken \cup {f}, new, end)
<1> DEFINE u == [s EXCEPT !.ram = GetFree(@)]
           f == Head(s.ram.free)
<1>1. /\ s \in HState /\ s.ram \in Ram /\ s.ram.free \in Seq(RFrame)
      /\ s.ram.cell \in [RFrame -> Content]
    BY DEF World, HState, Ram, Device
<1>2. /\ GetFree(s.ram) \in Ram /\ GetFree(s.ram).cell = s.ram.cell
      /\ GetFree(s.ram).free = Tail(s.ram.free)
    BY <1>1, GetFreeDevice DEF Ram
<1>3. /\ u \in HState /\ u.ram.cell = s.ram.cell /\ u.ram.free = Tail(s.ram.free)
      /\ u.swp = s.swp /\ u.pgd = s.pgd /\ u.fifo = s.fifo /\ u.ram \in Ram
    BY <1>1, <1>2 DEF HState
<1>4. /\ f \in RFrame /\ OnList(s.ram.free, f)
      /\ \A h : OnList(Tail(s.ram.free), h) => OnList(s.ram.free, h)
      /\ NoRepeat(s.ram.free) => NoRepeat(Tail(s.ram.free)) /\ ~OnList(Tail(s.ram.free), f)
    BY <1>1, TailOfList
<1> HIDE DEF u, f
<1>5. FramesOK(At(p, s.pgd), s.ram.free, taken)
    BY DEF World
<1>6. f \notin taken /\ FramesOK(At(p, u.pgd), u.ram.free, taken \cup {f})
    BY <1>3, <1>4, <1>5 DEF FramesOK
<1>7. Blank(s.ram) /\ Lent(p, s.ram, taken)
    BY DEF World
<1>8. Blank(u.ram)
    BY <1>3, <1>4, <1>7 DEF Blank
<1>9. Lent(p, u.ram, taken \cup {f})
  <2>1. s.ram.cell[f] = Unwritten
      BY <1>4, <1>7 DEF Blank
  <2> QED BY <1>3, <1>7, <2>1 DEF Lent, Own
<1>10. Shown(p, At(p, u.pgd), u.ram, u.swp, new)
  <2>1. \A h : Cell(u.ram, h) = Cell(s.ram, h)
      BY <1>3 DEF Cell
  <2>2. \A pte : SeenIn(pte, u.ram, u.swp) = SeenIn(pte, s.ram, s.swp)
      BY <1>3, <2>1 DEF SeenIn
  <2>3. Shown(p, At(p, s.pgd), s.ram, s.swp, new)
      BY DEF World
  <2> QED BY <1>3, <2>2, <2>3 DEF Shown
<1>11. World(p, u, taken \cup {f}, new, end)
    BY <1>3, <1>6, <1>8, <1>9, <1>10 DEF World
<1> QED BY <1>3, <1>4, <1>6, <1>11 DEF u, f

-----------------------------------------------------------------------------
(* An eviction.                                                               *)

\* The state after it.
LEMMA EvictedState ==
    ASSUME ~MM64, NEW s \in HState, NEW v \in Page, FPN(s.pgd[v]) \in RFrame,
           s.swp.free # << >>, s.fifo # << >>
    PROVE  LET u == Evicted(s, v)
               g == Head(s.swp.free)
           IN  /\ g \in SFrame
               /\ u \in HState /\ u.ram = s.ram /\ u.fifo = WithoutVictim(s.fifo)
               /\ u.pgd = [s.pgd EXCEPT ![v] = SetSwap(s.pgd[v], g)]
               /\ u.swp.free = Tail(s.swp.free)
               /\ Stored(SFrame, u.swp, GetFree(s.swp), g, s.ram.cell[FPN(s.pgd[v])])
<1> DEFINE g == Head(s.swp.free)
           f == FPN(s.pgd[v])
           w == SwapCopy(s.ram, f, GetFree(s.swp), g)
<1>1. s.ram \in Ram /\ s.swp \in Swp /\ s.pgd \in Table /\ s.fifo \in Seq(Page)
    BY DEF HState
<1>2. s.swp.free \in Seq(SFrame)
    BY <1>1 DEF Swp, Device
<1>3. g \in SFrame
    BY <1>2
<1>4. /\ GetFree(s.swp) \in Swp /\ GetFree(s.swp).free = Tail(s.swp.free)
      /\ GetFree(s.swp).cell = s.swp.cell
    BY <1>1, GetFreeDevice DEF Swp
<1>5. Stored(SFrame, w, GetFree(s.swp), g, s.ram.cell[f])
    BY <1>1, <1>3, <1>4, SwapCopyDevice DEF Ram, Swp
<1>6. [s.pgd EXCEPT ![v] = SetSwap(s.pgd[v], g)] \in Table
    BY <1>1, <1>3, SetSwapPte DEF Table
<1>7. WithoutVictim(s.fifo) \in Seq(Page)
    BY <1>1, FrontKeeps
<1>8. Evicted(s, v) = [s EXCEPT !.swp = w, !.fifo = WithoutVictim(s.fifo),
                                !.pgd = [s.pgd EXCEPT ![v] = SetSwap(s.pgd[v], g)]]
    BY DEF Evicted
<1> DEFINE d == [s.pgd EXCEPT ![v] = SetSwap(s.pgd[v], g)]
           l == WithoutVictim(s.fifo)
           u == Evicted(s, v)
<1> HIDE DEF d, l, w, f, g, u
<1>9. u = [s EXCEPT !.swp = w, !.fifo = l, !.pgd = d]
    BY <1>8 DEF d, l, u
<1>10. /\ u \in HState /\ u.ram = s.ram /\ u.fifo = l /\ u.pgd = d /\ u.swp = w
  <2>1. w \in Swp
      BY <1>5 DEF Stored, Swp
  <2> QED BY <1>6, <1>7, <1>9, <2>1 DEF d, l, HState
<1>11. w.free = Tail(s.swp.free)
    BY <1>4, <1>5 DEF Stored
<1> QED BY <1>3, <1>5, <1>10, <1>11 DEF d, l, u, g, f

\* What shows of the pages.
LEMMA EvictShown ==
    ASSUME ~MM64, NEW t, NEW u, NEW p, NEW v, NEW g \in SFrame, NEW ram \in Ram, NEW swp \in Swp,
           NEW from, from.cell = swp.cell,
           NEW swp2, Stored(SFrame, swp2, from, g, ram.cell[FPN(t[p][v])]),
           Changed(t, u, p, v, SetSwap(t[p][v], g)),
           t[p][v].present, FPN(t[p][v]) \in RFrame, ShapeOK(t), SwapOK(t, swp.free),
           OnList(swp.free, g), Shown(p, t, ram, swp, {})
    PROVE  Shown(p, u, ram, swp2, {})
<1> DEFINE f == FPN(t[p][v])
           e == SetSwap(t[p][v], g)
<1>1. ~e.present /\ e.swapped /\ SWP(e) = g
    BY SetSwapPte
<1>2. u[p][v] = e /\ p \in Proc /\ v \in Page
    BY DEF Changed
<1>3. SeenIn(t[p][v], ram, swp) = ram.cell[f] /\ ~AtFrameZero(t[p][v])
    BY CellOf DEF SeenIn, AtFrameZero
<1>4. Before(p, v) = ram.cell[f]
    BY <1>2, <1>3 DEF Shown
<1> HIDE DEF e, f
<1>5. SeenIn(u[p][v], ram, swp2) = Before(p, v) \/ AtFrameZero(u[p][v])
  <2>1. CASE g = 0
      BY <1>1, <1>2, <2>1 DEF AtFrameZero
  <2>2. CASE g # 0
    <3>1. SeenIn(e, ram, swp2) = Cell(swp2, g)
        BY <1>1, <2>2 DEF SeenIn
    <3>2. Cell(swp2, g) = ram.cell[f]
        BY CellOf DEF Stored, Swp, f
    <3> QED BY <1>2, <1>4, <3>1, <3>2
  <2> QED BY <2>1, <2>2
<1>6. ASSUME NEW q \in Proc, NEW h \in Page, ~(q = p /\ h = v)
      PROVE  SeenIn(u[q][h], ram, swp2) = Before(q, h) \/ AtFrameZero(u[q][h])
  <2>1. u[q][h] = t[q][h]
      BY <1>6 DEF Changed
  <2>2. SeenIn(t[q][h], ram, swp) = Before(q, h) \/ AtFrameZero(t[q][h])
      BY DEF Shown
  <2>3. SeenIn(t[q][h], ram, swp2) = SeenIn(t[q][h], ram, swp)
    <3>1. CASE t[q][h].present
        BY <3>1 DEF SeenIn
    <3>2. CASE Out(t[q][h])
      <4>1. SWP(t[q][h]) \in SFrame /\ SWP(t[q][h]) # g
          BY <3>2 DEF SwapOK
      <4>2. Cell(swp2, SWP(t[q][h])) = Cell(swp, SWP(t[q][h]))
          BY <4>1, CellOf DEF Stored, Swp
      <4> QED BY <3>2, <4>2 DEF SeenIn, Out
    <3>3. CASE t[q][h] = NoEntry
      <4>1. SWP(NoEntry) = 0 /\ NoEntry.present = FALSE
          BY EntryAssumption DEF SWP, NoEntry
      <4> QED BY <3>3, <4>1 DEF SeenIn
    <3> QED BY <3>1, <3>2, <3>3 DEF ShapeOK, Out
  <2> QED BY <2>1, <2>2, <2>3
<1> QED BY <1>5, <1>6 DEF Shown

\* Swap frame 0 taken, or another.
LEMMA EvictZero ==
    ASSUME ~MM64, NEW t, NEW u, NEW p, NEW v, NEW free \in Seq(SFrame), free # << >>,
           NEW swp, swp.free = free, NEW swp2, swp2.free = Tail(free),
           Changed(t, u, p, v, SetSwap(t[p][v], Head(free))), t[p][v].present,
           ZeroOK(p, t, swp)
    PROVE  ZeroOK(p, u, swp2)
<1> DEFINE g == Head(free)
           e == SetSwap(t[p][v], g)
<1>1. /\ g \in SFrame /\ OnList(free, g)
      /\ \A h : OnList(Tail(free), h) => OnList(free, h)
      /\ \A h : OnList(free, h) => h = g \/ OnList(Tail(free), h)
    BY TailOfList
<1>2. ~e.present /\ e.swapped /\ SWP(e) = g
    BY <1>1, SetSwapPte
<1>3. u[p][v] = e /\ p \in Proc /\ v \in Page
    BY DEF Changed
<1> HIDE DEF e, g
<1>4. OnList(swp2.free, 0) => OnList(mswp.free, 0)
    BY <1>1 DEF ZeroOK
<1>5. ASSUME NEW q \in Proc, NEW h \in Page, AtFrameZero(u[q][h])
      PROVE  AtFrameZero(mm[q].pgd[h]) \/ (q = p /\ OnList(mswp.free, 0))
  <2>1. CASE q = p /\ h = v
    <3>1. g = 0
        BY <1>2, <1>3, <1>5, <2>1 DEF AtFrameZero
    <3> QED BY <1>1, <2>1, <3>1 DEF ZeroOK
  <2>2. CASE ~(q = p /\ h = v)
      BY <1>5, <2>2 DEF ZeroOK, Changed
  <2> QED BY <2>1, <2>2
<1>6. ASSUME OnList(mswp.free, 0), ~OnList(swp2.free, 0)
      PROVE  \E h \in Page : AtFrameZero(u[p][h])
  <2>1. CASE OnList(free, 0)
    <3>1. g = 0
        BY <1>1, <1>6, <2>1
    <3> QED BY <1>2, <1>3, <3>1 DEF AtFrameZero
  <2>2. CASE ~OnList(free, 0)
    <3>1. PICK h \in Page : AtFrameZero(t[p][h])
        BY <1>6, <2>2 DEF ZeroOK
    <3>2. h # v
        BY <3>1 DEF AtFrameZero
    <3> QED BY <1>3, <3>1, <3>2 DEF Changed
  <2> QED BY <2>1, <2>2
<1> QED BY <1>4, <1>5, <1>6 DEF ZeroOK

\* The victim is in RAM; its frame is taken now, and nothing else has changed.
LEMMA EvictWorld ==
    ASSUME ~MM64, PagingInv, NEW p \in Proc, NEW s, NEW taken, NEW end,
           World(p, s, taken, {}, end), s.fifo # << >>, s.swp.free # << >>
    PROVE  LET v == Victim(s.fifo)
               f == FPN(s.pgd[v])
               u == Evicted(s, v)
           IN  /\ v \in Page /\ s.pgd[v].present /\ f \in RFrame \ taken
               /\ World(p, u, taken \cup {f}, {}, end)
               /\ \A h \in Page : ~s.pgd[h].present => u.pgd[h] = s.pgd[h]
               /\ \A touched : StaysLost(p, At(p, s.pgd), touched)
                               => StaysLost(p, At(p, u.pgd), touched)
<1> DEFINE v == Victim(s.fifo)
           f == FPN(s.pgd[v])
           u == Evicted(s, v)
           g == Head(s.swp.free)
           e == SetSwap(s.pgd[v], g)
<1>1. /\ s \in HState /\ s.ram \in Ram /\ s.swp \in Swp /\ s.pgd \in Table
      /\ s.fifo \in Seq(Page) /\ s.swp.free \in Seq(SFrame)
    BY DEF World, HState, Swp, Device
<1>2. ListOK(s.pgd, s.fifo, end)
    BY DEF World
<1>3. v \in Page /\ OnList(s.fifo, v)
    BY <1>1, FrontOfList
<1>4. s.pgd[v].present
    BY <1>2, <1>3 DEF ListOK, OnList
<1>5. At(p, s.pgd)[p][v] = s.pgd[v] /\ g \in SFrame /\ e \in PTE
    BY <1>1, TailOfList, SetSwapPte DEF At
<1>6. FramesOK(At(p, s.pgd), s.ram.free, taken) /\ SwapOK(At(p, s.pgd), s.swp.free)
    BY DEF World
<1>7. f \in RFrame \ taken
    BY <1>3, <1>4, <1>5, <1>6 DEF FramesOK
<1>8. /\ u \in HState /\ u.ram = s.ram /\ u.fifo = WithoutVictim(s.fifo)
      /\ u.pgd = [s.pgd EXCEPT ![v] = e]
      /\ u.swp.free = Tail(s.swp.free)
      /\ Stored(SFrame, u.swp, GetFree(s.swp), g, s.ram.cell[f])
    BY <1>1, <1>3, <1>7, EvictedState
<1>9. Changed(At(p, s.pgd), At(p, u.pgd), p, v, e)
    BY <1>1, <1>3, <1>5, <1>8, AtChanged
<1> DEFINE t == At(p, s.pgd)
           w == At(p, u.pgd)
<1>10. /\ t[p][v] = s.pgd[v] /\ FPN(t[p][v]) = f
       /\ Changed(t, w, p, v, SetSwap(t[p][v], g))
    BY <1>5, <1>9
<1>11. ~e.present /\ e.swapped /\ SWP(e) = g /\ Out(e)
    BY <1>5, SetSwapPte DEF Out
<1>12. /\ ShapeOK(t) /\ Blank(s.ram) /\ Lent(p, s.ram, taken)
       /\ Shown(p, t, s.ram, s.swp, {}) /\ ZeroOK(p, t, s.swp)
    BY DEF World
<1> HIDE DEF v, f, u, g, e, t, w
<1>13. FramesOK(w, u.ram.free, taken \cup {f})
    BY <1>4, <1>6, <1>8, <1>9, <1>10, <1>11, EvictFrames DEF t, w
<1>14. SwapOK(w, u.swp.free)
    BY <1>1, <1>6, <1>8, <1>9, <1>11, EvictSwap DEF t, w, g
<1>15. ShapeOK(w)
    BY <1>9, <1>11, <1>12 DEF ShapeOK, Changed, t, w
<1>16. Blank(u.ram)
    BY <1>8, <1>12
<1>17. ListOK(u.pgd, u.fifo, end)
  <2>1. /\ NoRepeat(u.fifo) /\ ~OnList(u.fifo, v) /\ u.fifo \in Seq(Page)
        /\ \A k \in 1..Len(u.fifo) : u.fifo[k] = s.fifo[k] /\ k \in 1..Len(s.fifo)
      BY <1>1, <1>2, <1>8, FrontOfList, FrontKeeps DEF ListOK, v
  <2>2. \A h \in Page : h # v => u.pgd[h] = s.pgd[h]
      BY <1>1, <1>3, <1>8 DEF Table
  <2>3. ASSUME NEW k \in 1..Len(u.fifo) PROVE u.pgd[u.fifo[k]].present
    <3>1. u.fifo[k] \in Page /\ u.fifo[k] # v
        BY <2>1 DEF OnList
    <3> QED BY <1>2, <2>1, <2>2, <3>1 DEF ListOK
  <2>4. ASSUME NEW h \in Page, h >= end PROVE u.pgd[h] = NoEntry
    <3>1. s.pgd[h] = NoEntry
        BY <1>2, <2>4 DEF ListOK
    <3> QED BY <1>4, <2>2, <3>1 DEF NoEntry
  <2> QED BY <2>1, <2>3, <2>4 DEF ListOK
<1>18. Lent(p, u.ram, taken \cup {f})
  <2>1. SeenIn(t[p][v], s.ram, s.swp) = s.ram.cell[f] /\ ~AtFrameZero(t[p][v])
      BY <1>1, <1>4, <1>7, <1>10, CellOf DEF SeenIn, AtFrameZero
  <2>2. Before(p, v) = s.ram.cell[f]
      BY <1>3, <1>12, <2>1 DEF Shown
  <2>3. s.ram.cell[f] \in Own(p)
      BY <1>3, <2>2 DEF Own
  <2> QED BY <1>8, <1>12, <2>3 DEF Lent
<1>19. Shown(p, w, u.ram, u.swp, {})
  <2>1. OnList(s.swp.free, g)
      BY <1>1, TailOfList DEF g
  <2>2. t[p][v].present /\ FPN(t[p][v]) \in RFrame /\ SwapOK(t, s.swp.free)
      BY <1>4, <1>6, <1>7, <1>10 DEF t
  <2>3. Stored(SFrame, u.swp, GetFree(s.swp), g, s.ram.cell[FPN(t[p][v])])
      BY <1>8, <1>10
  <2>4. GetFree(s.swp).cell = s.swp.cell
      BY <1>1, GetFreeDevice DEF Swp
  <2> QED BY <1>1, <1>5, <1>8, <1>10, <1>12, <2>1, <2>2, <2>3, <2>4, EvictShown
<1>20. ZeroOK(p, w, u.swp)
  <2>1. /\ s.swp.free \in Seq(SFrame) /\ u.swp.free = Tail(s.swp.free)
        /\ Changed(t, w, p, v, SetSwap(t[p][v], Head(s.swp.free)))
        /\ t[p][v].present /\ ZeroOK(p, t, s.swp)
      BY <1>1, <1>4, <1>8, <1>10, <1>12 DEF g
  <2> QED BY <2>1, EvictZero
<1>21. World(p, u, taken \cup {f}, {}, end)
    BY <1>8, <1>13, <1>14, <1>15, <1>16, <1>17, <1>18, <1>19, <1>20 DEF World, w
<1>22. \A h \in Page : ~s.pgd[h].present => u.pgd[h] = s.pgd[h]
    BY <1>1, <1>3, <1>4, <1>8 DEF Table
<1>23. ASSUME NEW touched, StaysLost(p, t, touched) PROVE StaysLost(p, w, touched)
  <2>1. ~AtFrameZero(t[p][v])
      BY <1>4, <1>10 DEF AtFrameZero
  <2> QED BY <1>10, <1>23, <2>1 DEF StaysLost, Changed
<1> QED BY <1>3, <1>4, <1>7, <1>21, <1>22, <1>23 DEF v, f, u, t, w

-----------------------------------------------------------------------------
(* A frame by one way or the other.                                           *)

\* The victim is off the FIFO list even when nothing comes of it.
LEMMA DropVictim ==
    ASSUME NEW p, NEW s, NEW taken, NEW new, NEW end,
           World(p, s, taken, new, end), s.fifo # << >>
    PROVE  LET u == [s EXCEPT !.fifo = WithoutVictim(@)] IN
           World(p, u, taken, new, end) /\ u.pgd = s.pgd
<1> DEFINE u == [s EXCEPT !.fifo = WithoutVictim(@)]
           l == WithoutVictim(s.fifo)
<1>1. s \in HState /\ s.fifo \in Seq(Page)
    BY DEF World, HState
<1>2. l \in Seq(Page)
    BY <1>1, FrontKeeps
<1>3. u \in HState /\ u.ram = s.ram /\ u.swp = s.swp /\ u.pgd = s.pgd /\ u.fifo = l
  <2> HIDE DEF l
  <2>1. u = [s EXCEPT !.fifo = l]
      BY DEF l
  <2> QED BY <1>1, <1>2, <2>1 DEF HState
<1> HIDE DEF u
<1>4. ListOK(s.pgd, s.fifo, end)
    BY DEF World
<1>5. NoRepeat(l)
    BY <1>1, <1>4, FrontOfList DEF ListOK
<1>6. \A k \in 1..Len(l) : l[k] = s.fifo[k] /\ k \in 1..Len(s.fifo)
    BY <1>1, FrontKeeps
<1> HIDE DEF l
<1>7. ListOK(u.pgd, u.fifo, end)
    BY <1>3, <1>4, <1>5, <1>6 DEF ListOK
<1>8. World(p, u, taken, new, end)
    BY <1>3, <1>7 DEF World
<1> QED BY <1>3, <1>8 DEF u

\* What a request for a frame leaves: the frame taken, if there is one, the pages
\* that were out of RAM as they were, and nothing lost for a second time.
Obtained(p, s, r, taken, end) ==
    /\ r.ok \in BOOLEAN
    /\ r.ok => /\ r.frame \in RFrame \ taken
               /\ World(p, r.s, taken \cup {r.frame}, {}, end)
    /\ ~r.ok => World(p, r.s, taken, {}, end)
    /\ \A h \in Page : ~s.pgd[h].present => r.s.pgd[h] = s.pgd[h]
    /\ \A touched : StaysLost(p, At(p, s.pgd), touched)
                    => StaysLost(p, At(p, r.s.pgd), touched)

\* One turn of alloc_pages_range.
LEMMA OneMoreWorld ==
    ASSUME ~MM64, PagingInv, NEW p \in Proc, NEW s, NEW taken, NEW end,
           World(p, s, taken, {}, end)
    PROVE  Obtained(p, s, OneMore32(s), taken, end)
<1>1. CASE s.ram.free # << >>
  <2> DEFINE u == [s EXCEPT !.ram = GetFree(@)]
             f == Head(s.ram.free)
  <2>1. OneMore32(s) = Done(u, f)
      BY <1>1 DEF OneMore32
  <2>2. /\ f \in RFrame \ taken /\ u.pgd = s.pgd
        /\ World(p, u, taken \cup {f}, {}, end)
      BY <1>1, TakeFrame
  <2> HIDE DEF u, f
  <2> QED BY <2>1, <2>2 DEF Obtained, Done
<1>2. CASE s.ram.free = << >> /\ s.fifo = << >>
  <2>1. OneMore32(s) = Failed(s)
      BY <1>2 DEF OneMore32
  <2> QED BY <2>1 DEF Obtained, Failed
<1>3. CASE s.ram.free = << >> /\ s.fifo # << >> /\ s.swp.free = << >>
  <2> DEFINE u == [s EXCEPT !.fifo = WithoutVictim(@)]
  <2>1. OneMore32(s) = Failed(u)
      BY <1>3 DEF OneMore32
  <2>2. World(p, u, taken, {}, end) /\ u.pgd = s.pgd
      BY <1>3, DropVictim
  <2> HIDE DEF u
  <2> QED BY <2>1, <2>2 DEF Obtained, Failed
<1>4. CASE s.ram.free = << >> /\ s.fifo # << >> /\ s.swp.free # << >>
  <2> DEFINE u == Evicted(s, Victim(s.fifo))
             f == FPN(s.pgd[Victim(s.fifo)])
  <2>1. OneMore32(s) = Done(u, f)
      BY <1>4 DEF OneMore32
  <2>2. /\ f \in RFrame \ taken /\ World(p, u, taken \cup {f}, {}, end)
        /\ \A h \in Page : ~s.pgd[h].present => u.pgd[h] = s.pgd[h]
        /\ \A touched : StaysLost(p, At(p, s.pgd), touched)
                        => StaysLost(p, At(p, u.pgd), touched)
      BY <1>4, EvictWorld
  <2> HIDE DEF u, f
  <2> QED BY <2>1, <2>2 DEF Obtained, Done
<1> QED BY <1>1, <1>2, <1>3, <1>4

\* pg_getpage asks the same way: the victim is in RAM.
LEMMA GetFrameWorld ==
    ASSUME ~MM64, PagingInv, NEW p \in Proc, NEW s, NEW taken, NEW end,
           World(p, s, taken, {}, end)
    PROVE  Obtained(p, s, GetFrame(s), taken, end)
<1>1. GetFrame(s) = OneMore32(s)
  <2>1. CASE s.fifo # << >>
    <3>1. s.fifo \in Seq(Page) /\ ListOK(s.pgd, s.fifo, end)
        BY DEF World, HState
    <3>2. OnList(s.fifo, Victim(s.fifo))
        BY <2>1, <3>1, FrontOfList
    <3>3. s.pgd[Victim(s.fifo)].present
        BY <3>1, <3>2 DEF ListOK, OnList
    <3> QED BY <3>3 DEF GetFrame, OneMore32
  <2>2. CASE s.fifo = << >>
      BY <2>2 DEF GetFrame, OneMore32
  <2> QED BY <2>1, <2>2
<1> QED BY <1>1, OneMoreWorld

-----------------------------------------------------------------------------
(* A page brought in.                                                         *)

\* Step 2 of pg_getpage, and the entry and the list.
In(s, g, f) ==
    LET t == SwapIn(s, s.pgd[g], f) IN
    [t EXCEPT !.pgd[g] = SetFpn(@, f), !.fifo = Enlist(@, g)]

\* The state after it.
LEMMA InState ==
    ASSUME ~MM64, NEW s \in HState, NEW g \in Page, NEW f \in RFrame,
           SWP(s.pgd[g]) # 0 => SWP(s.pgd[g]) \in SFrame
    PROVE  LET u == In(s, g, f)
               b == SWP(s.pgd[g])
           IN  /\ u \in HState /\ u.pgd = [s.pgd EXCEPT ![g] = SetFpn(s.pgd[g], f)]
               /\ u.fifo = Enlist(s.fifo, g) /\ u.swp.cell = s.swp.cell
               /\ b # 0 => /\ u.swp.free = <<b>> \o s.swp.free
                           /\ Stored(RFrame, u.ram, s.ram, f, s.swp.cell[b])
               /\ b = 0 => /\ u.swp.free = s.swp.free
                           /\ Stored(RFrame, u.ram, s.ram, f, Unwritten)
<1> DEFINE u == In(s, g, f)
           b == SWP(s.pgd[g])
           t == SwapIn(s, s.pgd[g], f)
           d == [s.pgd EXCEPT ![g] = SetFpn(s.pgd[g], f)]
           l == Enlist(s.fifo, g)
<1>1. s.ram \in Ram /\ s.swp \in Swp /\ s.pgd \in Table /\ s.fifo \in Seq(Page)
    BY DEF HState
<1>2. d \in Table
    BY <1>1, SetFpnPte DEF Table
<1>3. l \in Seq(Page)
    BY <1>1 DEF Enlist
<1>4. CASE b # 0
  <2> DEFINE ram == SwapCopy(s.swp, b, s.ram, f)
             swp == PutFree(s.swp, b)
  <2>1. Stored(RFrame, ram, s.ram, f, s.swp.cell[b])
      BY <1>1, <1>4, SwapCopyDevice DEF Ram, Swp
  <2>2. swp \in Swp /\ swp.cell = s.swp.cell /\ swp.free = <<b>> \o s.swp.free
      BY <1>1, <1>4, PutFreeDevice DEF Swp
  <2>3. t = [s EXCEPT !.ram = ram, !.swp = swp]
      BY <1>4 DEF SwapIn
  <2> HIDE DEF ram, swp, b, t
  <2>4. t \in HState /\ t.ram = ram /\ t.swp = swp /\ t.pgd = s.pgd /\ t.fifo = s.fifo
      BY <2>1, <2>2, <2>3 DEF HState, Stored, Ram
  <2>5. u = [t EXCEPT !.pgd = d, !.fifo = l]
      BY <2>4 DEF In, t
  <2> HIDE DEF u, d, l
  <2>6. u \in HState /\ u.ram = ram /\ u.swp = swp /\ u.pgd = d /\ u.fifo = l
      BY <1>2, <1>3, <2>4, <2>5 DEF HState
  <2> QED BY <1>4, <2>1, <2>2, <2>6 DEF u, d, l, b
<1>5. CASE b = 0
  <2> DEFINE ram == SetCell(s.ram, f, Unwritten)
  <2>1. Stored(RFrame, ram, s.ram, f, Unwritten)
      BY <1>1, SetCellDevice DEF Ram, Content
  <2>2. t = [s EXCEPT !.ram = ram]
      BY <1>5 DEF SwapIn, Unwritten
  <2> HIDE DEF ram, b, t
  <2>3. t \in HState /\ t.ram = ram /\ t.swp = s.swp /\ t.pgd = s.pgd /\ t.fifo = s.fifo
      BY <2>1, <2>2 DEF HState, Stored, Ram
  <2>4. u = [t EXCEPT !.pgd = d, !.fifo = l]
      BY <2>3 DEF In, t
  <2> HIDE DEF u, d, l
  <2>5. u \in HState /\ u.ram = ram /\ u.swp = s.swp /\ u.pgd = d /\ u.fifo = l
      BY <1>2, <1>3, <2>3, <2>4 DEF HState
  <2> QED BY <1>5, <2>1, <2>5 DEF u, d, l, b
<1> QED BY <1>4, <1>5

\* Swap frames after the page is in: its own is free again, unless that was frame 0.
LEMMA InSwap ==
    ASSUME NEW t, NEW u, NEW p, NEW g, NEW e, NEW free \in Seq(SFrame), NEW after,
           Changed(t, u, p, g, e), SwapOK(t, free), e.present, ~t[p][g].present,
           ShapeOK(t),
           SWP(t[p][g]) # 0 => after = <<SWP(t[p][g])>> \o free,
           SWP(t[p][g]) = 0 => after = free
    PROVE  SwapOK(u, after)
<1> DEFINE b == SWP(t[p][g])
<1> USE DEF Changed
<1>1. \A q \in Proc, h \in Page : Out(u[q][h]) =>
          ~(q = p /\ h = g) /\ u[q][h] = t[q][h] /\ Out(t[q][h])
    BY DEF Out
<1>2. CASE b # 0
  <2>1. Out(t[p][g])
    <3>1. SWP(NoEntry) = 0
        BY EntryAssumption DEF SWP, NoEntry
    <3> QED BY <1>2, <3>1 DEF ShapeOK, Out
  <2>2. b \in SFrame /\ ~OnList(free, b) /\ NoRepeat(free)
      BY <2>1 DEF SwapOK
  <2>3. /\ \A h : OnList(after, h) <=> h = b \/ OnList(free, h)
        /\ NoRepeat(after)
    <3> DEFINE l == <<b>> \o free
    <3>1. /\ \A h : OnList(l, h) <=> h = b \/ OnList(free, h)
          /\ NoRepeat(l)
        BY <2>2, InFront
    <3>2. after = l
        BY <1>2
    <3> QED BY <3>1, <3>2
  <2>4. \A q \in Proc, h \in Page : Out(u[q][h]) => SWP(u[q][h]) # b
      BY <1>1, <2>1 DEF SwapOK
  <2>5. ASSUME NEW q \in Proc, NEW h \in Page, Out(u[q][h])
        PROVE  SWP(u[q][h]) \in SFrame /\ ~OnList(after, SWP(u[q][h]))
      BY <1>1, <2>3, <2>4, <2>5 DEF SwapOK
  <2>6. ASSUME NEW q \in Proc, NEW r \in Proc, NEW h \in Page, NEW i \in Page,
               Out(u[q][h]), Out(u[r][i]), SWP(u[q][h]) = SWP(u[r][i])
        PROVE  q = r /\ h = i
      BY <1>1, <2>6 DEF SwapOK
  <2> QED BY <2>3, <2>5, <2>6 DEF SwapOK
<1>3. CASE b = 0
  <2>1. \A q \in Proc, h \in Page : Out(u[q][h]) =>
            SWP(u[q][h]) \in SFrame /\ ~OnList(after, SWP(u[q][h]))
      BY <1>1, <1>3 DEF SwapOK
  <2>2. ASSUME NEW q \in Proc, NEW r \in Proc, NEW h \in Page, NEW i \in Page,
               Out(u[q][h]), Out(u[r][i]), SWP(u[q][h]) = SWP(u[r][i])
        PROVE  q = r /\ h = i
      BY <1>1, <2>2 DEF SwapOK
  <2> QED BY <1>3, <2>1, <2>2 DEF SwapOK
<1> QED BY <1>2, <1>3

\* The pages other than g of p are where they were and show what they did.
Undisturbed(t, ram, swp, u, ram2, swp2, p, g) ==
    \A q \in Proc, h \in Page : ~(q = p /\ h = g) =>
        /\ u[q][h] = t[q][h]
        /\ SeenIn(u[q][h], ram2, swp2) = SeenIn(t[q][h], ram, swp)

\* Only the frame that was written shows something else.
LEMMA OthersShow ==
    ASSUME NEW t, NEW u, NEW p, NEW g, NEW e, NEW ram \in Ram, NEW swp \in Swp,
           NEW f \in RFrame, NEW v, NEW ram2, Stored(RFrame, ram2, ram, f, v),
           NEW swp2, swp2.cell = swp.cell, Changed(t, u, p, g, e),
           \A q \in Proc, h \in Page : ~(q = p /\ h = g) /\ t[q][h].present =>
               FPN(t[q][h]) \in RFrame /\ FPN(t[q][h]) # f
    PROVE  Undisturbed(t, ram, swp, u, ram2, swp2, p, g)
<1> SUFFICES ASSUME NEW q \in Proc, NEW h \in Page, ~(q = p /\ h = g)
             PROVE  /\ u[q][h] = t[q][h]
                    /\ SeenIn(u[q][h], ram2, swp2) = SeenIn(t[q][h], ram, swp)
    BY DEF Undisturbed
<1>1. u[q][h] = t[q][h]
    BY DEF Changed
<1>2. CASE t[q][h].present
  <2>1. Cell(ram2, FPN(t[q][h])) = Cell(ram, FPN(t[q][h]))
      BY <1>2, CellOf DEF Stored, Ram
  <2> QED BY <1>1, <1>2, <2>1 DEF SeenIn
<1>3. CASE ~t[q][h].present
  <2>1. \A b : Cell(swp2, b) = Cell(swp, b)
      BY DEF Cell
  <2> QED BY <1>1, <1>3, <2>1 DEF SeenIn
<1> QED BY <1>2, <1>3

\* The page shows what it did, in the frame that was taken for it.
LEMMA InWorld ==
    ASSUME ~MM64, PagingInv, NEW p \in Proc, NEW s, NEW f, NEW end \in Nat, NEW g \in Page,
           World(p, s, {f}, {}, end), StaysLost(p, At(p, s.pgd), {}),
           ~s.pgd[g].present, s.pgd[g] = mm[p].pgd[g], g < end
    PROVE  LET u == In(s, g, f) IN
           /\ World(p, u, {}, {}, end) /\ StaysLost(p, At(p, u.pgd), {g})
           /\ u.pgd[g].present /\ FPN(u.pgd[g]) = f
<1> DEFINE u == In(s, g, f)
           b == SWP(s.pgd[g])
           e == SetFpn(s.pgd[g], f)
           t == At(p, s.pgd)
           w == At(p, u.pgd)
<1>1. /\ s \in HState /\ s.ram \in Ram /\ s.swp \in Swp /\ s.pgd \in Table
      /\ s.fifo \in Seq(Page) /\ s.swp.free \in Seq(SFrame) /\ s.pgd[g] \in PTE
    BY DEF World, HState, Swp, Device, Table
<1>2. t[p][g] = s.pgd[g]
    BY DEF At
<1>3. /\ FramesOK(t, s.ram.free, {f}) /\ SwapOK(t, s.swp.free) /\ ShapeOK(t)
      /\ Blank(s.ram) /\ ListOK(s.pgd, s.fifo, end)
      /\ Shown(p, t, s.ram, s.swp, {}) /\ ZeroOK(p, t, s.swp)
    BY DEF World
<1>4. f \in RFrame
    BY <1>3 DEF FramesOK
<1>5. SWP(NoEntry) = 0
    BY EntryAssumption DEF SWP, NoEntry
<1>6. b # 0 => Out(s.pgd[g]) /\ b \in SFrame
    BY <1>2, <1>3, <1>5 DEF ShapeOK, SwapOK, Out
<1>7. e \in PTE /\ e.present /\ ~e.swapped /\ FPN(e) = f
    BY <1>1, <1>4, SetFpnPte
<1> HIDE DEF u, b, e, t, w
<1>8. /\ u \in HState /\ u.pgd = [s.pgd EXCEPT ![g] = e]
      /\ u.fifo = Enlist(s.fifo, g) /\ u.swp.cell = s.swp.cell
      /\ b # 0 => /\ u.swp.free = <<b>> \o s.swp.free
                  /\ Stored(RFrame, u.ram, s.ram, f, s.swp.cell[b])
      /\ b = 0 => /\ u.swp.free = s.swp.free
                  /\ Stored(RFrame, u.ram, s.ram, f, Unwritten)
    BY <1>1, <1>4, <1>6, InState DEF u, b, e
<1> DEFINE v == IF b # 0 THEN s.swp.cell[b] ELSE Unwritten
<1>9. Stored(RFrame, u.ram, s.ram, f, v) /\ u.ram.free = s.ram.free /\ u.ram \in Ram
    BY <1>8 DEF Stored, Ram
<1> HIDE DEF v
<1>10. Changed(t, w, p, g, e)
    BY <1>1, <1>7, <1>8, AtChanged DEF t, w
<1>11. FramesOK(w, u.ram.free, {})
  <2>1. FramesOK(w, s.ram.free, {f} \ {f})
      BY <1>2, <1>3, <1>7, <1>10, MapFrames
  <2>2. {f} \ {f} = {}
      OBVIOUS
  <2> QED BY <1>9, <2>1, <2>2
<1>12. SwapOK(w, u.swp.free)
    BY <1>1, <1>2, <1>3, <1>7, <1>8, <1>10, InSwap DEF b
<1>13. ShapeOK(w)
    BY <1>3, <1>7, <1>10 DEF ShapeOK, Changed
<1>14. Blank(u.ram)
    BY <1>3, <1>4, <1>9 DEF Blank, Stored, FramesOK
<1>15. ListOK(u.pgd, u.fifo, end)
    BY <1>1, <1>3, <1>7, <1>8, MapList
<1>16. Lent(p, u.ram, {})
    BY DEF Lent
<1>17. \A q \in Proc, h \in Page : ~(q = p /\ h = g) =>
           /\ w[q][h] = t[q][h]
           /\ SeenIn(w[q][h], u.ram, u.swp) = SeenIn(t[q][h], s.ram, s.swp)
  <2>1. \A q \in Proc, h \in Page : t[q][h].present =>
            FPN(t[q][h]) \in RFrame /\ FPN(t[q][h]) # f
      BY <1>3 DEF FramesOK
  <2>2. Undisturbed(t, s.ram, s.swp, w, u.ram, u.swp, p, g)
      BY <1>1, <1>4, <1>8, <1>9, <1>10, <2>1, OthersShow
  <2> QED BY <2>2 DEF Undisturbed
<1>18. w[p][g] = e
    BY <1>10 DEF Changed
<1>19. SeenIn(e, u.ram, u.swp) = v
    BY <1>4, <1>7, <1>9, CellOf DEF SeenIn, Stored
<1>20. v = SeenIn(s.pgd[g], s.ram, s.swp)
    BY <1>1, <1>6, CellOf DEF v, SeenIn, b
<1>21. v = Before(p, g)
  <2>1. v = Before(p, g) \/ AtFrameZero(s.pgd[g])
      BY <1>2, <1>3, <1>20 DEF Shown
  <2>2. ASSUME AtFrameZero(s.pgd[g]) PROVE v = Before(p, g)
    <3>1. \A r1, r2, s1, s2 : AtFrameZero(s.pgd[g]) =>
              SeenIn(s.pgd[g], r1, s1) = SeenIn(s.pgd[g], r2, s2)
        BY DEF AtFrameZero, SeenIn
    <3> QED BY <1>20, <2>2, <3>1 DEF Before
  <2> QED BY <2>1, <2>2
<1>22. Shown(p, w, u.ram, u.swp, {})
    BY <1>3, <1>17, <1>18, <1>19, <1>21 DEF Shown
<1>23. ~AtFrameZero(e)
    BY <1>7 DEF AtFrameZero
<1>24. ZeroOK(p, w, u.swp)
  <2>1. OnList(u.swp.free, 0) => OnList(mswp.free, 0)
    <3>1. CASE b = 0
        BY <1>3, <1>8, <3>1 DEF ZeroOK
    <3>2. CASE b # 0
      <4>1. \A h : OnList(<<b>> \o s.swp.free, h) => h = b \/ OnList(s.swp.free, h)
          BY <1>1, <1>6, <3>2, InFront
      <4> QED BY <1>3, <1>8, <3>2, <4>1 DEF ZeroOK
    <3> QED BY <3>1, <3>2
  <2>2. \A q \in Proc, h \in Page : AtFrameZero(w[q][h]) =>
            AtFrameZero(mm[q].pgd[h]) \/ (q = p /\ OnList(mswp.free, 0))
      BY <1>3, <1>17, <1>18, <1>23 DEF ZeroOK
  <2>3. ASSUME OnList(mswp.free, 0), ~OnList(u.swp.free, 0)
        PROVE  \E h \in Page : AtFrameZero(w[p][h])
    <3>1. ~OnList(s.swp.free, 0)
      <4>1. CASE b = 0
          BY <1>8, <2>3, <4>1
      <4>2. CASE b # 0
        <5>1. \A h : OnList(s.swp.free, h) => OnList(<<b>> \o s.swp.free, h)
            BY <1>1, <1>6, <4>2, InFront
        <5> QED BY <1>8, <2>3, <4>2, <5>1
      <4> QED BY <4>1, <4>2
    <3>2. PICK h \in Page : AtFrameZero(t[p][h])
        BY <1>3, <2>3, <3>1 DEF ZeroOK
    <3>3. ~AtFrameZero(mm[p].pgd[g])
        BY <2>3 DEF PagingInv, StateOK, SwapOK, Tables, AtFrameZero, Out
    <3> QED BY <1>2, <1>17, <3>2, <3>3
  <2> QED BY <2>1, <2>2, <2>3 DEF ZeroOK
<1>25. StaysLost(p, w, {g})
    BY <1>17 DEF StaysLost, t
<1>26. World(p, u, {}, {}, end)
    BY <1>8, <1>11, <1>12, <1>13, <1>14, <1>15, <1>16, <1>22, <1>24 DEF World, w
<1>27. u.pgd[g] = e
    BY <1>1, <1>8 DEF Table
<1> QED BY <1>7, <1>25, <1>26, <1>27 DEF u, w

-----------------------------------------------------------------------------
(* pg_getpage.                                                                *)

\* A handler starts from what the variables hold.
LEMMA StartWorld ==
    ASSUME PagingInv, NEW p \in Proc
    PROVE  /\ World(p, State(p), {}, {}, mm[p].vm_end)
           /\ At(p, mm[p].pgd) = Tables
           /\ StaysLost(p, At(p, State(p).pgd), {})
<1>1. /\ State(p).ram = mram /\ State(p).swp = mswp
      /\ State(p).pgd = mm[p].pgd /\ State(p).fifo = mm[p].fifo
    BY DEF State
<1>2. State(p) \in HState
    BY DEF State, HState, PagingInv, StateOK
<1>3. At(p, mm[p].pgd) = Tables
    BY DEF At, Tables
<1>4. \A q \in Proc : Tables[q] = mm[q].pgd
    BY DEF Tables
<1>5. Lent(p, mram, {})
    BY DEF Lent
<1>6. Shown(p, Tables, mram, mswp, {})
    BY <1>4 DEF Shown, Before
<1>7. ZeroOK(p, Tables, mswp)
    BY <1>4 DEF ZeroOK
<1>8. StaysLost(p, Tables, {})
    BY <1>4 DEF StaysLost
<1>9. World(p, State(p), {}, {}, mm[p].vm_end)
    BY <1>1, <1>2, <1>3, <1>5, <1>6, <1>7 DEF World, PagingInv, StateOK
<1> QED BY <1>1, <1>3, <1>8, <1>9

\* The page is in RAM afterwards or nothing was to be had for it.
LEMMA GetPageWorld ==
    ASSUME ~MM64, PagingInv, NEW p \in Proc, NEW g \in Page, g < mm[p].vm_end
    PROVE  LET r == GetPage(State(p), g) IN
           /\ World(p, r.s, {}, {}, mm[p].vm_end)
           /\ StaysLost(p, At(p, r.s.pgd), {g})
           /\ r.ok => r.s.pgd[g].present
           /\ ~r.ok => StaysLost(p, At(p, r.s.pgd), {})
<1> DEFINE s == State(p)
           r == GetFrame(s)
           end == mm[p].vm_end
<1>1. World(p, s, {}, {}, end) /\ StaysLost(p, At(p, s.pgd), {})
    BY StartWorld
<1>2. s.pgd = mm[p].pgd /\ end \in Nat
    BY DEF State, PagingInv, StateOK
<1>3. \A t : StaysLost(p, t, {}) => StaysLost(p, t, {g})
    BY DEF StaysLost
<1>4. CASE s.pgd[g].present
  <2>1. GetPage(s, g) = Done(s, FPN(s.pgd[g]))
      BY <1>4 DEF GetPage
  <2> HIDE DEF s
  <2> QED BY <1>1, <1>3, <1>4, <2>1 DEF Done, s
<1>5. CASE ~s.pgd[g].present
  <2>1. Obtained(p, s, r, {}, end)
      BY <1>1, GetFrameWorld
  <2> HIDE DEF s, r, end
  <2>2. r.s.pgd[g] = s.pgd[g] /\ StaysLost(p, At(p, r.s.pgd), {})
      BY <1>1, <1>5, <2>1 DEF Obtained
  <2>3. CASE ~r.ok
    <3>1. GetPage(s, g) = r
        BY <1>5, <2>3 DEF GetPage, r
    <3> QED BY <1>3, <2>1, <2>2, <2>3, <3>1 DEF Obtained, s, end
  <2>4. CASE r.ok
    <3>1. {} \cup {r.frame} = {r.frame}
        OBVIOUS
    <3>2. World(p, r.s, {r.frame}, {}, end)
        BY <2>1, <2>4, <3>1 DEF Obtained
    <3>3. GetPage(s, g) = Done(In(r.s, g, r.frame), r.frame)
        BY <1>5, <2>2, <2>4 DEF GetPage, In, r
    <3>4. LET u == In(r.s, g, r.frame) IN
          /\ World(p, u, {}, {}, end) /\ StaysLost(p, At(p, u.pgd), {g})
          /\ u.pgd[g].present
      <4>1. /\ ~r.s.pgd[g].present /\ r.s.pgd[g] = mm[p].pgd[g]
            /\ end \in Nat /\ g < end
          BY <1>2, <1>5, <2>2 DEF end
      <4> QED BY <2>2, <3>2, <4>1, InWorld
    <3> QED BY <3>3, <3>4 DEF Done, s, end
  <2> QED BY <2>3, <2>4
<1> QED BY <1>4, <1>5

-----------------------------------------------------------------------------
(* alloc_pages_range.                                                         *)

Taken(frames) == {f \in RFrame : OnList(frames, f)}

AllocState == [s : HState, ok : BOOLEAN, frames : Seq(RFrame)]

\* After k turns: k frames, all different, or fewer.
Allocated(p, a, k, end) ==
    /\ a \in AllocState
    /\ World(p, a.s, Taken(a.frames), {}, end)
    /\ StaysLost(p, At(p, a.s.pgd), {})
    /\ NoRepeat(a.frames)
    /\ a.ok => Len(a.frames) = k

\* One turn.
Turn(a) ==
    LET r == OneMore32(a.s) IN
    IF ~a.ok THEN a
    ELSE [s |-> r.s, ok |-> r.ok,
          frames |-> IF r.ok THEN Append(a.frames, r.frame) ELSE a.frames]

\* A turn adds a frame that is not among the others.
LEMMA TurnAllocates ==
    ASSUME ~MM64, PagingInv, NEW p \in Proc, NEW end, NEW k \in Nat, NEW a,
           Allocated(p, a, k, end)
    PROVE  Allocated(p, Turn(a), k + 1, end)
<1> DEFINE r == OneMore32(a.s)
<1>1. /\ a.s \in HState /\ a.ok \in BOOLEAN /\ a.frames \in Seq(RFrame)
      /\ World(p, a.s, Taken(a.frames), {}, end)
    BY DEF Allocated, AllocState
<1>2. CASE ~a.ok
  <2>1. Turn(a) = a
      BY <1>2 DEF Turn
  <2> QED BY <1>2, <2>1 DEF Allocated
<1>3. CASE a.ok
  <2>1. Obtained(p, a.s, r, Taken(a.frames), end)
      BY <1>1, OneMoreWorld
  <2>2. StaysLost(p, At(p, r.s.pgd), {})
      BY <2>1 DEF Obtained, Allocated
  <2> DEFINE l == Append(a.frames, r.frame)
             u == Turn(a)
  <2> HIDE DEF r
  <2>3. u = [s |-> r.s, ok |-> r.ok, frames |-> IF r.ok THEN l ELSE a.frames]
      BY <1>3 DEF Turn, r
  <2>4. r.ok \in BOOLEAN
      BY <2>1 DEF Obtained
  <2> HIDE DEF l, u
  <2>5. CASE r.ok
    <3>1. r.frame \in RFrame \ Taken(a.frames)
        BY <2>1, <2>5 DEF Obtained
    <3>2. ~OnList(a.frames, r.frame)
        BY <3>1 DEF Taken
    <3>3. /\ l \in Seq(RFrame) /\ Len(l) = Len(a.frames) + 1
          /\ \A h : OnList(l, h) <=> h = r.frame \/ OnList(a.frames, h)
        BY <1>1, <3>1, AtTheEnd DEF l
    <3>4. NoRepeat(l)
        BY <1>1, <3>1, <3>2, AtTheEnd DEF l, Allocated
    <3>5. Taken(l) = Taken(a.frames) \cup {r.frame}
        BY <3>1, <3>3 DEF Taken
    <3>6. World(p, r.s, Taken(l), {}, end) /\ r.s \in HState
        BY <2>1, <2>5, <3>5 DEF Obtained, World
    <3>7. u.s = r.s /\ u.ok = r.ok /\ u.frames = l /\ u \in AllocState
        BY <2>3, <2>4, <2>5, <3>3, <3>6 DEF AllocState
    <3>8. Len(a.frames) = k
        BY <1>3 DEF Allocated
    <3>9. Allocated(p, u, k + 1, end)
        BY <2>2, <3>3, <3>4, <3>6, <3>7, <3>8 DEF Allocated
    <3> QED BY <3>9 DEF u
  <2>6. CASE ~r.ok
    <3>1. World(p, r.s, Taken(a.frames), {}, end) /\ r.s \in HState
        BY <2>1, <2>6 DEF Obtained, World
    <3>2. u.s = r.s /\ ~u.ok /\ u.frames = a.frames /\ u \in AllocState
        BY <1>1, <2>3, <2>4, <2>6, <3>1 DEF AllocState
    <3>3. Allocated(p, u, k + 1, end)
        BY <2>2, <3>1, <3>2 DEF Allocated
    <3> QED BY <3>3 DEF u
  <2> QED BY <2>5, <2>6
<1> QED BY <1>1, <1>2, <1>3

\* And so does the loop.
LEMMA AllocPagesWorld ==
    ASSUME ~MM64, PagingInv, NEW p \in Proc, NEW end, NEW n \in Nat, NEW s \in HState,
           World(p, s, {}, {}, end), StaysLost(p, At(p, s.pgd), {})
    PROVE  Allocated(p, AllocPages(s, n), n, end)
<1> DEFINE a0 == [s |-> s, ok |-> TRUE, frames |-> << >>]
           after[k \in 0..n] == IF k = 0 THEN a0 ELSE Turn(after[k - 1])
           A == [k \in 0..n |-> {a \in AllocState : Allocated(p, a, k, end)}]
           step == [k \in 1..n |-> [a \in AllocState |-> Turn(a)]]
           Loop(f) == f = [k \in 0..n |-> IF k = 0 THEN a0 ELSE Turn(f[k - 1])]
<1>1. a0 \in A[0]
  <2>1. a0 \in AllocState /\ a0.s = s /\ a0.frames = << >>
      BY DEF AllocState
  <2>2. Taken(<< >>) = {} /\ NoRepeat(<< >>) /\ Len(<< >>) = 0
      BY DEF Taken, OnList, NoRepeat
  <2>3. Allocated(p, a0, 0, end)
      BY <2>1, <2>2 DEF Allocated
  <2> QED BY <2>1, <2>3
<1>2. ASSUME NEW k \in 1..n, NEW a \in A[k - 1]
      PROVE  a \in AllocState /\ Turn(a) \in A[k]
  <2>1. k - 1 \in 0..n /\ k - 1 \in Nat /\ (k - 1) + 1 = k /\ k \in 0..n
      OBVIOUS
  <2>2. a \in AllocState /\ Allocated(p, a, k - 1, end)
      BY <1>2, <2>1
  <2>3. Allocated(p, Turn(a), k, end)
      BY <2>1, <2>2, TurnAllocates
  <2> QED BY <2>1, <2>2, <2>3 DEF Allocated
<1> HIDE DEF a0, A
<1>3. \E f : Loop(f)
  <2>1. \A k \in 1..n : \A a \in A[k - 1] : step[k][a] \in A[k] /\ step[k][a] = Turn(a)
      BY <1>2
  <2> HIDE DEF step
  <2>6. \A k \in 1..n : \A a \in A[k - 1] : step[k][a] \in A[k]
      BY <2>1
  <2>2. PICK f : /\ f = [k \in 0..n |-> IF k = 0 THEN a0 ELSE step[k][f[k - 1]]]
                 /\ \A k \in 0..n : f[k] \in A[k]
    <3>1. PICK f : LoopIn(f, n, a0, step, A)
        BY <1>1, <2>6, LoopExists
    <3> QED BY <3>1 DEF LoopIn
  <2>3. ASSUME NEW k \in 0..n
        PROVE  f[k] = IF k = 0 THEN a0 ELSE Turn(f[k - 1])
    <3>1. CASE k = 0
        BY <2>2, <3>1
    <3>2. CASE k # 0
      <4>1. k \in 1..n /\ k - 1 \in 0..n
          BY <3>2
      <4>2. f[k] = step[k][f[k - 1]] /\ f[k - 1] \in A[k - 1]
          BY <2>2, <3>2, <4>1
      <4> QED BY <2>1, <3>2, <4>1, <4>2
    <3> QED BY <3>1, <3>2
  <2>4. f = [k \in 0..n |-> f[k]]
      BY <2>2
  <2>5. Loop(f)
      BY <2>3, <2>4
  <2> QED BY <2>5
<1>4. Loop(after)
    BY <1>3
<1> HIDE DEF after
<1>5. \A k \in 0..n : after[k] \in A[k]
  <2>1. after[0] = a0
      BY <1>4
  <2>2. \A k \in 1..n : after[k] = Turn(after[k - 1])
      BY <1>4
  <2> QED BY <1>1, <1>2, <2>1, <2>2, LoopInvariant
<1>6. after[n] \in A[n]
    BY <1>5
<1>7. AllocPages(s, n) = after[n]
    BY DEF AllocPages, after, Turn, a0
<1> QED BY <1>6, <1>7 DEF A

-----------------------------------------------------------------------------
(* vmap_page_range.                                                           *)

\* Frames that were taken may be forgotten, ...
LEMMA Forget ==
    ASSUME NEW p, NEW s, NEW taken, NEW new, NEW end, World(p, s, taken, new, end)
    PROVE  World(p, s, {}, new, end)
<1>1. FramesOK(At(p, s.pgd), s.ram.free, {})
    BY DEF World, FramesOK
<1>2. Lent(p, s.ram, {})
    BY DEF Lent
<1> QED BY <1>1, <1>2 DEF World

\* ... and the area grows by pages that are nowhere.
LEMMA Grow ==
    ASSUME NEW p \in Proc, NEW s, NEW taken, NEW first \in Nat, NEW n \in Nat,
           World(p, s, taken, {}, first)
    PROVE  LET new == {g \in Page : first <= g /\ g < first + n} IN
           World(p, s, taken, new, first + n)
<1> DEFINE new == {g \in Page : first <= g /\ g < first + n}
           t == At(p, s.pgd)
<1>1. t[p] = s.pgd
    BY DEF At
<1>2. ListOK(s.pgd, s.fifo, first)
    BY DEF World
<1>3. \A g \in Page : g \in Nat
    BY DEF Page
<1>4. \A g \in new : s.pgd[g] = NoEntry
    BY <1>2, <1>3 DEF ListOK
<1>5. \A g \in Page : g >= first + n => s.pgd[g] = NoEntry
    BY <1>2, <1>3 DEF ListOK
<1>6. ListOK(s.pgd, s.fifo, first + n)
    BY <1>2, <1>5 DEF ListOK
<1>7. SeenIn(NoEntry, s.ram, s.swp) = Unwritten
    BY EntryAssumption DEF SeenIn, NoEntry, SWP
<1> HIDE DEF t
<1>8. \A g \in new : SeenIn(t[p][g], s.ram, s.swp) \in Own(p)
    BY <1>1, <1>4, <1>7 DEF Own
<1>9. Shown(p, t, s.ram, s.swp, {})
    BY DEF World, t
<1>10. Shown(p, t, s.ram, s.swp, new)
    BY <1>8, <1>9 DEF Shown
<1> QED BY <1>6, <1>10 DEF World, t

\* One page mapped.
MapOne(s, g, f) == [s EXCEPT !.pgd[g] = SetFpn(@, f), !.fifo = Enlist(@, g)]

\* Two page tables that differ in one entry at most.
SameBut(g, d, c) == \A h \in Page : h # g => d[h] = c[h]

\* It shows what the frame holds, which is nothing or something p had.
LEMMA MapOneWorld ==
    ASSUME PagingInv, NEW p \in Proc, NEW s, NEW taken, NEW new \in SUBSET Page,
           NEW end \in Nat, World(p, s, taken, new, end), NEW f \in taken,
           NEW g \in Page, g \in new, g < end, s.pgd[g] = NoEntry
    PROVE  LET u == MapOne(s, g, f) IN
           /\ World(p, u, taken \ {f}, new, end)
           /\ SameBut(g, u.pgd, s.pgd)
           /\ StaysLost(p, At(p, s.pgd), {}) => StaysLost(p, At(p, u.pgd), {})
<1> DEFINE u == MapOne(s, g, f)
           e == SetFpn(s.pgd[g], f)
           d == [s.pgd EXCEPT ![g] = e]
           l == Enlist(s.fifo, g)
           t == At(p, s.pgd)
           w == At(p, u.pgd)
<1>1. /\ s \in HState /\ s.ram \in Ram /\ s.swp \in Swp /\ s.pgd \in Table
      /\ s.fifo \in Seq(Page) /\ s.pgd[g] \in PTE
    BY DEF World, HState, Table
<1>2. t[p][g] = s.pgd[g]
    BY DEF At
<1>3. /\ FramesOK(t, s.ram.free, taken) /\ SwapOK(t, s.swp.free) /\ ShapeOK(t)
      /\ Blank(s.ram) /\ ListOK(s.pgd, s.fifo, end) /\ Lent(p, s.ram, taken)
      /\ Shown(p, t, s.ram, s.swp, new) /\ ZeroOK(p, t, s.swp)
    BY DEF World
<1>4. f \in RFrame
    BY <1>3 DEF FramesOK
<1>5. e \in PTE /\ e.present /\ ~e.swapped /\ FPN(e) = f
    BY <1>1, <1>4, SetFpnPte
<1>6. d \in Table
    BY <1>1, <1>5 DEF Table
<1>7. l \in Seq(Page)
    BY <1>1 DEF Enlist
<1>8. ~s.pgd[g].present /\ ~AtFrameZero(s.pgd[g])
    BY DEF NoEntry, AtFrameZero
<1>9. u = [s EXCEPT !.pgd = d, !.fifo = l]
    BY DEF MapOne
<1> HIDE DEF u, e, t, w, d, l
<1>10. u \in HState /\ u.ram = s.ram /\ u.swp = s.swp /\ u.pgd = d /\ u.fifo = l
    BY <1>1, <1>6, <1>7, <1>9 DEF HState
<1>11. Changed(t, w, p, g, e)
    BY <1>1, <1>5, <1>10, AtChanged DEF t, w, d
<1>12. FramesOK(w, u.ram.free, taken \ {f})
    BY <1>2, <1>3, <1>5, <1>8, <1>10, <1>11, MapFrames
<1>13. SwapOK(w, u.swp.free)
  <2>1. \A q \in Proc, h \in Page : Out(w[q][h]) => w[q][h] = t[q][h]
      BY <1>5, <1>11 DEF Changed, Out
  <2> QED BY <1>3, <1>10, <2>1 DEF SwapOK
<1>14. ShapeOK(w)
    BY <1>3, <1>5, <1>11 DEF ShapeOK, Changed
<1>15. Blank(u.ram) /\ Lent(p, u.ram, taken \ {f})
    BY <1>3, <1>10 DEF Lent
<1>16. ListOK(u.pgd, u.fifo, end)
    BY <1>1, <1>3, <1>5, <1>8, <1>10, MapList DEF d, l
<1>17. w[p][g] = e
    BY <1>11 DEF Changed
<1>18. \A q \in Proc, h \in Page : ~(q = p /\ h = g) => w[q][h] = t[q][h]
    BY <1>11 DEF Changed
<1>19. SeenIn(e, u.ram, u.swp) \in Own(p)
    BY <1>1, <1>3, <1>4, <1>5, <1>10, CellOf DEF SeenIn, Lent
<1>20. Shown(p, w, u.ram, u.swp, new)
  <2>1. \A h \in new : SeenIn(w[p][h], u.ram, u.swp) \in Own(p)
    <3> SUFFICES ASSUME NEW h \in new PROVE SeenIn(w[p][h], u.ram, u.swp) \in Own(p)
        OBVIOUS
    <3>1. CASE h = g
        BY <1>17, <1>19, <3>1
    <3>2. CASE h # g /\ h \in Page
        BY <1>3, <1>10, <1>18, <3>2 DEF Shown
    <3> QED BY <3>1, <3>2
  <2> QED BY <1>3, <1>10, <1>18, <2>1 DEF Shown
<1>21. ~AtFrameZero(e)
    BY <1>5 DEF AtFrameZero
<1>22. ZeroOK(p, w, u.swp)
    BY <1>2, <1>3, <1>8, <1>10, <1>17, <1>18, <1>21 DEF ZeroOK
<1>23. StaysLost(p, t, {}) => StaysLost(p, w, {})
    BY <1>2, <1>8, <1>17, <1>18 DEF StaysLost
<1>24. World(p, u, taken \ {f}, new, end)
    BY <1>10, <1>12, <1>13, <1>14, <1>15, <1>16, <1>20, <1>22 DEF World, w
<1>25. SameBut(g, u.pgd, s.pgd)
    BY <1>1, <1>10 DEF d, Table, SameBut
<1> QED BY <1>23, <1>24, <1>25 DEF u, t, w

\* The frames still to be mapped after k turns.
Rest(frames, k) == {frames[j] : j \in (k + 1)..Len(frames)}

\* After k turns the pages from first + k on are nowhere.
MappedSoFar(p, s, first, frames, new, k) ==
    /\ s \in HState
    /\ World(p, s, Rest(frames, k), new, first + Len(frames))
    /\ StaysLost(p, At(p, s.pgd), {})
    /\ \A g \in new : g >= first + k => s.pgd[g] = NoEntry

\* One turn of vmap_page_range.
LEMMA TurnMaps ==
    ASSUME PagingInv, NEW p \in Proc, NEW s, NEW first \in Nat, NEW frames \in Seq(RFrame),
           NoRepeat(frames), first + Len(frames) <= MaxPages,
           NEW new, new = {g \in Page : first <= g /\ g < first + Len(frames)},
           NEW k \in 1..Len(frames), MappedSoFar(p, s, first, frames, new, k - 1)
    PROVE  MappedSoFar(p, MapOne(s, first + k - 1, frames[k]), first, frames, new, k)
<1> DEFINE g == first + k - 1
           f == frames[k]
           u == MapOne(s, g, f)
           end == first + Len(frames)
<1>1. /\ Len(frames) \in Nat /\ MaxPages \in Nat /\ k \in Nat /\ k # 0
      /\ (k - 1) + 1 = k /\ first + (k - 1) = g
    BY MaxPagesAssumption
<1>2. g \in Page /\ g \in new /\ g < end /\ g >= first + (k - 1) /\ end \in Nat
    BY <1>1 DEF Page
<1>3. s.pgd[g] = NoEntry
    BY <1>2 DEF MappedSoFar
<1>4. f \in Rest(frames, k - 1)
  <2>1. k \in ((k - 1) + 1)..Len(frames)
      BY <1>1
  <2> QED BY <2>1 DEF Rest
<1>5. Rest(frames, k - 1) \ {f} = Rest(frames, k)
  <2>1. \A j \in k..Len(frames) : j = k \/ j \in (k + 1)..Len(frames)
      BY <1>1
  <2>2. \A j \in (k + 1)..Len(frames) : j \in k..Len(frames) /\ frames[j] # f
      BY <1>1 DEF NoRepeat
  <2> QED BY <1>1, <2>1, <2>2 DEF Rest
<1>6. new \in SUBSET Page
    OBVIOUS
<1>7. World(p, s, Rest(frames, k - 1), new, end) /\ StaysLost(p, At(p, s.pgd), {})
    BY DEF MappedSoFar
<1> HIDE DEF g, f, u, end
<1>8. /\ World(p, u, Rest(frames, k - 1) \ {f}, new, end)
      /\ SameBut(g, u.pgd, s.pgd)
      /\ StaysLost(p, At(p, u.pgd), {})
    BY <1>2, <1>3, <1>4, <1>6, <1>7, MapOneWorld DEF u
<1>9. ASSUME NEW h \in new, h >= first + k PROVE u.pgd[h] = NoEntry
  <2>1. h \in Page /\ h # g /\ h >= first + (k - 1)
      BY <1>1, <1>9 DEF Page, g
  <2> QED BY <1>8, <2>1 DEF MappedSoFar, SameBut
<1>10. MappedSoFar(p, u, first, frames, new, k)
    BY <1>5, <1>8, <1>9 DEF MappedSoFar, end, World
<1> QED BY <1>10 DEF u, g, f

\* And so does the loop.
LEMMA MappedWorld ==
    ASSUME PagingInv, NEW p \in Proc, NEW s, NEW first \in Nat, NEW frames \in Seq(RFrame),
           NoRepeat(frames), first + Len(frames) <= MaxPages,
           NEW new, new = {g \in Page : first <= g /\ g < first + Len(frames)},
           MappedSoFar(p, s, first, frames, new, 0)
    PROVE  MappedSoFar(p, VmapPageRange32(s, first, frames), first, frames, new, Len(frames))
<1> DEFINE n == Len(frames)
           pgns == [k \in 1..n |-> first + k - 1]
           mapped[k \in 0..n] == IF k = 0 THEN s ELSE MapOne(mapped[k - 1], pgns[k], frames[k])
           A == [k \in 0..n |-> {x \in HState : MappedSoFar(p, x, first, frames, new, k)}]
           step == [k \in 1..n |-> [x \in HState |-> MapOne(x, pgns[k], frames[k])]]
           Loop(f) == f = [k \in 0..n |-> IF k = 0 THEN s
                                           ELSE MapOne(f[k - 1], pgns[k], frames[k])]
<1>1. n \in Nat
    OBVIOUS
<1>2. s \in A[0]
    BY <1>1 DEF MappedSoFar
<1>3. ASSUME NEW k \in 1..n, NEW x \in A[k - 1]
      PROVE  x \in HState /\ MapOne(x, pgns[k], frames[k]) \in A[k]
  <2>1. k - 1 \in 0..n /\ k \in 0..n /\ pgns[k] = first + k - 1
      BY <1>1
  <2>2. x \in HState /\ MappedSoFar(p, x, first, frames, new, k - 1)
      BY <1>3, <2>1
  <2> HIDE DEF pgns
  <2>3. MappedSoFar(p, MapOne(x, first + k - 1, frames[k]), first, frames, new, k)
      BY <2>2, TurnMaps
  <2> QED BY <2>1, <2>2, <2>3 DEF MappedSoFar
<1> HIDE DEF A, n, pgns
<1>4. \E f : Loop(f)
  <2>1. \A k \in 1..n : \A x \in A[k - 1] :
            step[k][x] \in A[k] /\ step[k][x] = MapOne(x, pgns[k], frames[k])
      BY <1>3
  <2> HIDE DEF step
  <2>2. \A k \in 1..n : \A x \in A[k - 1] : step[k][x] \in A[k]
      BY <2>1
  <2>3. PICK f : LoopIn(f, n, s, step, A)
      BY <1>1, <1>2, <2>2, LoopExists
  <2>4. /\ f = [k \in 0..n |-> IF k = 0 THEN s ELSE step[k][f[k - 1]]]
        /\ \A k \in 0..n : f[k] \in A[k]
      BY <2>3 DEF LoopIn
  <2>5. ASSUME NEW k \in 0..n
        PROVE  f[k] = IF k = 0 THEN s ELSE MapOne(f[k - 1], pgns[k], frames[k])
    <3>1. CASE k = 0
        BY <2>4, <3>1
    <3>2. CASE k # 0
      <4>1. k \in 1..n /\ k - 1 \in 0..n
          BY <1>1, <3>2
      <4>2. f[k] = step[k][f[k - 1]] /\ f[k - 1] \in A[k - 1]
          BY <2>4, <3>2, <4>1
      <4> QED BY <2>1, <3>2, <4>1, <4>2
    <3> QED BY <3>1, <3>2
  <2>6. f = [k \in 0..n |-> f[k]]
      BY <2>4
  <2>7. Loop(f)
      BY <2>5, <2>6
  <2> QED BY <2>7
<1>5. Loop(mapped)
    BY <1>4
<1> HIDE DEF mapped
<1>6. \A k \in 0..n : mapped[k] \in A[k]
  <2>1. mapped[0] = s
      BY <1>1, <1>5
  <2>2. \A k \in 1..n : mapped[k] = MapOne(mapped[k - 1], pgns[k], frames[k])
      BY <1>1, <1>5
  <2> QED BY <1>1, <1>2, <1>3, <2>1, <2>2, LoopInvariant
<1>7. mapped[n] \in A[n]
    BY <1>1, <1>6
<1>8. VmapPageRange32(s, first, frames) = mapped[n]
    BY DEF VmapPageRange32, Mapped, mapped, MapOne, n, pgns
<1> QED BY <1>1, <1>7, <1>8 DEF A, n

-----------------------------------------------------------------------------
(* inc_vma_limit.                                                             *)

\* All frames are had and all pages mapped, or none is mapped and the frames are
\* forgotten.
LEMMA VmMapRamWorld ==
    ASSUME ~MM64, PagingInv, NEW p \in Proc, NEW n \in Nat,
           mm[p].vm_end + n <= MaxPages
    PROVE  LET first == mm[p].vm_end
               s == VmMapRam(State(p), first, n)
           IN  /\ World(p, s, {}, {g \in Page : first <= g /\ g < first + n}, first + n)
               /\ StaysLost(p, At(p, s.pgd), {})
<1> DEFINE first == mm[p].vm_end
           a == AllocPages(State(p), n)
           new == {g \in Page : first <= g /\ g < first + n}
<1>1. first \in Nat
    BY DEF PagingInv, StateOK
<1>2. Allocated(p, a, n, first)
  <2>1. /\ World(p, State(p), {}, {}, first) /\ StaysLost(p, At(p, State(p).pgd), {})
        /\ State(p) \in HState
      BY StartWorld DEF World
  <2> QED BY <2>1, AllocPagesWorld
<1> HIDE DEF a
<1>3. /\ a.s \in HState /\ a.ok \in BOOLEAN /\ a.frames \in Seq(RFrame)
      /\ World(p, a.s, Taken(a.frames), new, first + n)
      /\ StaysLost(p, At(p, a.s.pgd), {}) /\ NoRepeat(a.frames)
      /\ ListOK(a.s.pgd, a.s.fifo, first)
    BY <1>1, <1>2, Grow DEF Allocated, AllocState, World
<1>4. CASE ~a.ok
  <2>1. VmMapRam(State(p), first, n) = a.s
      BY <1>4 DEF VmMapRam, a
  <2>2. World(p, a.s, {}, new, first + n)
      BY <1>3, Forget
  <2> QED BY <1>3, <2>1, <2>2
<1>5. CASE a.ok
  <2>1. Len(a.frames) = n
      BY <1>2, <1>5 DEF Allocated
  <2> DEFINE s == VmapPageRange32(a.s, first, a.frames)
  <2>2. VmMapRam(State(p), first, n) = s
      BY <1>5 DEF VmMapRam, a
  <2>3. Taken(a.frames) = Rest(a.frames, 0)
      BY <1>3 DEF Taken, Rest, OnList
  <2>4. \A g \in new : g >= first + 0 => a.s.pgd[g] = NoEntry
      BY <1>1, <1>3 DEF ListOK, Page
  <2>5. MappedSoFar(p, a.s, first, a.frames, new, 0)
      BY <1>3, <2>1, <2>3, <2>4 DEF MappedSoFar
  <2>6. MappedSoFar(p, s, first, a.frames, new, n)
      BY <1>1, <1>3, <2>1, <2>5, MappedWorld
  <2>7. World(p, s, {}, new, first + n) /\ StaysLost(p, At(p, s.pgd), {})
      BY <2>1, <2>6, Forget DEF MappedSoFar
  <2> QED BY <2>2, <2>7
<1> QED BY <1>3, <1>4, <1>5

-----------------------------------------------------------------------------
(* The invariant is inductive.                                                *)

\* What a handler leaves for the next.
Sound(p, s, end) ==
    /\ s \in HState
    /\ FramesOK(At(p, s.pgd), s.ram.free, {})
    /\ SwapOK(At(p, s.pgd), s.swp.free)
    /\ ShapeOK(At(p, s.pgd))
    /\ Blank(s.ram)
    /\ ListOK(s.pgd, s.fifo, end)

\* A handler that has come to its end has.
LEMMA WorldIsSound ==
    ASSUME NEW p, NEW s, NEW new, NEW end, World(p, s, {}, new, end)
    PROVE  Sound(p, s, end)
BY DEF World, Sound

\* The variables hold it.
Holds(p, s, end) ==
    /\ mram' = s.ram /\ mswp' = s.swp
    /\ mm' \in [Proc -> [pgd : Table, fifo : Seq(Page), vm_end : 0..MaxPages]]
    /\ mm'[p].pgd = s.pgd /\ mm'[p].fifo = s.fifo /\ mm'[p].vm_end = end
    /\ \A q \in Proc : q # p => mm'[q] = mm[q]

\* The state is made of it.
LEMMA Settled ==
    ASSUME PagingInv, NEW p \in Proc, NEW s, NEW end, Sound(p, s, end), Holds(p, s, end)
    PROVE  StateOK' /\ Tables' = At(p, s.pgd)
<1>1. s.ram \in Ram /\ s.swp \in Swp
    BY DEF Sound, HState
<1>2. Tables' = At(p, s.pgd)
  <2>1. \A q \in Proc : mm'[q].pgd = IF q = p THEN s.pgd ELSE mm[q].pgd
      BY DEF Holds
  <2> QED BY <2>1 DEF Tables, At
<1>3. /\ FramesOK(Tables', mram'.free, {}) /\ SwapOK(Tables', mswp'.free)
      /\ ShapeOK(Tables') /\ Blank(mram')
    BY <1>2 DEF Sound, Holds
<1>4. ASSUME NEW q \in Proc PROVE ListOK(mm'[q].pgd, mm'[q].fifo, mm'[q].vm_end)
  <2>1. CASE q = p
      BY <2>1 DEF Sound, Holds
  <2>2. CASE q # p
      BY <2>2 DEF PagingInv, StateOK, Holds
  <2> QED BY <2>1, <2>2
<1> QED BY <1>1, <1>2, <1>3, <1>4 DEF StateOK, Holds

\* An access does not move the end of the area.
LEMMA PutHolds ==
    ASSUME PagingInv, NEW p \in Proc, NEW s \in HState, Put(p, s)
    PROVE  Holds(p, s, mm[p].vm_end)
<1> DEFINE Rec == [pgd : Table, fifo : Seq(Page), vm_end : 0..MaxPages]
           d == s.pgd
           l == s.fifo
           r == mm[p]
           n == [[r EXCEPT !.pgd = d] EXCEPT !.fifo = l]
<1>1. d \in Table /\ l \in Seq(Page)
    BY DEF HState
<1>2. mm \in [Proc -> Rec] /\ r \in Rec
    BY DEF PagingInv, StateOK
<1> HIDE DEF d, l
<1>3. n \in Rec /\ n.pgd = d /\ n.fifo = l /\ n.vm_end = r.vm_end
  <2> HIDE DEF r
  <2> QED BY <1>1, <1>2
<1>4. mm' = [mm EXCEPT ![p] = n]
  <2>1. mm' = [[mm EXCEPT ![p].pgd = d] EXCEPT ![p].fifo = l]
      BY DEF Put, d, l
  <2> HIDE DEF Rec
  <2> QED BY <1>2, <2>1
<1> HIDE DEF n, Rec
<1>5. mm' \in [Proc -> Rec] /\ mm'[p] = n /\ \A q \in Proc : q # p => mm'[q] = mm[q]
    BY <1>2, <1>3, <1>4
<1>6. mram' = s.ram /\ mswp' = s.swp
    BY DEF Put
<1> QED BY <1>3, <1>5, <1>6 DEF Holds, Rec, d, l

\* The store of pg_setval.
LEMMA StoreCell ==
    ASSUME PagingInv, NEW p \in Proc, NEW s, NEW end, NEW g \in Page, NEW v \in Content,
           World(p, s, {}, {}, end), s.pgd[g].present
    PROVE  LET u == [s EXCEPT !.ram = SetCell(@, FPN(s.pgd[g]), v)] IN
           /\ Sound(p, u, end) /\ u.swp = s.swp /\ u.pgd = s.pgd
           /\ SeenIn(u.pgd[g], u.ram, u.swp) = v
           /\ Undisturbed(At(p, s.pgd), s.ram, s.swp, At(p, u.pgd), u.ram, u.swp, p, g)
<1> DEFINE f == FPN(s.pgd[g])
           ram == SetCell(s.ram, f, v)
           u == [s EXCEPT !.ram = ram]
           t == At(p, s.pgd)
<1>1. s \in HState /\ s.ram \in Ram /\ s.swp \in Swp /\ s.pgd \in Table
    BY DEF World, HState
<1>2. t[p] = s.pgd /\ t \in [Proc -> Table]
    BY <1>1, AtTables
<1>3. FramesOK(t, s.ram.free, {}) /\ Sound(p, s, end)
    BY WorldIsSound DEF World
<1> HIDE DEF t
<1>4. f \in RFrame /\ ~OnList(s.ram.free, f)
    BY <1>2, <1>3 DEF FramesOK
<1>5. Stored(RFrame, ram, s.ram, f, v)
    BY <1>1, <1>4, SetCellDevice DEF Ram
<1> HIDE DEF ram, f
<1>6. ram \in Ram /\ ram.free = s.ram.free
    BY <1>5 DEF Stored, Ram
<1>7. /\ u \in HState /\ u.ram = ram /\ u.swp = s.swp /\ u.pgd = s.pgd /\ u.fifo = s.fifo
    BY <1>1, <1>6 DEF HState
<1> HIDE DEF u
<1>8. Blank(u.ram)
    BY <1>3, <1>4, <1>5, <1>7 DEF Blank, Stored, Sound
<1>9. Sound(p, u, end)
    BY <1>3, <1>6, <1>7, <1>8 DEF Sound
<1>10. SeenIn(u.pgd[g], u.ram, u.swp) = v
  <2>1. Cell(ram, f) = v
      BY <1>4, <1>5, <1>6, CellOf DEF Stored
  <2> QED BY <1>7, <2>1 DEF SeenIn, f
<1>11. Changed(t, t, p, g, t[p][g])
    BY <1>2 DEF Changed
<1>12. \A q \in Proc, h \in Page : ~(q = p /\ h = g) /\ t[q][h].present =>
           FPN(t[q][h]) \in RFrame /\ FPN(t[q][h]) # f
  <2>1. t[p][g].present /\ FPN(t[p][g]) = f
      BY <1>2 DEF f
  <2> QED BY <1>3, <2>1 DEF FramesOK
<1>13. Undisturbed(t, s.ram, s.swp, t, ram, s.swp, p, g)
    BY <1>1, <1>4, <1>5, <1>11, <1>12, OthersShow
<1> QED BY <1>7, <1>9, <1>10, <1>13 DEF u, ram, f, t

\* The history m remembers no more than mem, and nothing of the new pages or of a
\* lost page that was touched.
Remembers(p, new, touched, m) ==
    \A q \in Proc, h \in Page : m[q][h] # Unwritten =>
        /\ m[q][h] = mem[q][h]
        /\ ~(q = p /\ h \in new)
        /\ q = p /\ h \in touched => ~AtFrameZero(mm[q].pgd[h])

\* What a page was last written with it still shows, if it was not written since.
LEMMA KeptAfter ==
    ASSUME PagingInv, NEW p \in Proc, NEW s, NEW new, NEW touched, NEW end,
           World(p, s, {}, new, end), StaysLost(p, At(p, s.pgd), touched), Holds(p, s, end),
           mem' \in [Proc -> [Page -> Content]],
           Remembers(p, new, touched, mem')
    PROVE  KeptOK'
<1> DEFINE t == At(p, s.pgd)
<1>1. \A q \in Proc : mm'[q].pgd = t[q]
    BY DEF Holds, At
<1>2. mram' = s.ram /\ mswp' = s.swp
    BY DEF Holds
<1>3. Shown(p, t, s.ram, s.swp, new)
    BY DEF World
<1> HIDE DEF t
<1>4. ASSUME NEW q \in Proc, NEW h \in Page, mem'[q][h] # Unwritten
      PROVE  SeenIn(t[q][h], s.ram, s.swp) = mem'[q][h] \/ AtFrameZero(t[q][h])
  <2>1. /\ mem'[q][h] = mem[q][h] /\ ~(q = p /\ h \in new)
        /\ q = p /\ h \in touched => ~AtFrameZero(mm[q].pgd[h])
      BY <1>4 DEF Remembers
  <2>2. Before(q, h) = mem[q][h] \/ AtFrameZero(mm[q].pgd[h])
      BY <1>4, <2>1 DEF PagingInv, KeptOK, Before
  <2>3. CASE AtFrameZero(mm[q].pgd[h])
      BY <2>1, <2>3 DEF StaysLost, t
  <2>4. CASE Before(q, h) = mem[q][h]
      BY <1>3, <2>1, <2>4 DEF Shown
  <2> QED BY <2>2, <2>3, <2>4
<1> QED BY <1>1, <1>2, <1>4 DEF KeptOK

\* pg_getval.
LEMMA ReadStep ==
    ASSUME ~MM64, PagingInv, NEW p \in Proc, NEW g \in Page, Read(p, g)
    PROVE  /\ PagingInv'
           /\ \E s : World(p, s, {}, {}, mm[p].vm_end) /\ Holds(p, s, mm[p].vm_end)
<1> DEFINE r == GetPage(State(p), g)
           end == mm[p].vm_end
           lost == r.ok /\ AtFrameZero(mm[p].pgd[g])
<1>1. /\ g < end /\ Put(p, r.s)
      /\ mem' = IF lost THEN [mem EXCEPT ![p][g] = Unwritten] ELSE mem
    BY DEF Read, InArea
<1>2. /\ World(p, r.s, {}, {}, end)
      /\ StaysLost(p, At(p, r.s.pgd), {g})
      /\ ~r.ok => StaysLost(p, At(p, r.s.pgd), {})
    BY <1>1, GetPageWorld
<1>3. mem \in [Proc -> [Page -> Content]]
    BY DEF PagingInv, KeptOK
<1> HIDE DEF r, end
<1>4. r.s \in HState /\ Sound(p, r.s, end)
    BY <1>2, WorldIsSound DEF World
<1>5. Holds(p, r.s, end)
    BY <1>1, <1>4, PutHolds DEF end
<1>6. StateOK'
    BY <1>4, <1>5, Settled
<1>7. KeptOK'
  <2>1. CASE ~r.ok
    <3>1. mem' = mem
        BY <1>1, <2>1
    <3>2. Remembers(p, {}, {}, mem')
        BY <3>1 DEF Remembers
    <3>3. StaysLost(p, At(p, r.s.pgd), {})
        BY <1>2, <2>1
    <3> QED BY <1>2, <1>3, <1>5, <3>1, <3>2, <3>3, KeptAfter
  <2>2. CASE r.ok
    <3>1. \A q \in Proc, h \in Page :
              mem'[q][h] = IF lost /\ q = p /\ h = g THEN Unwritten ELSE mem[q][h]
        BY <1>1, <1>3
    <3>2. mem' \in [Proc -> [Page -> Content]]
        BY <1>1, <1>3 DEF Content
    <3>3. Remembers(p, {}, {g}, mem')
        BY <2>2, <3>1 DEF Remembers
    <3> QED BY <1>2, <1>5, <3>2, <3>3, KeptAfter
  <2> QED BY <2>1, <2>2
<1> QED BY <1>2, <1>5, <1>6, <1>7 DEF PagingInv, end

\* What pg_setval leaves when it could get the page.
WroteTo(p, s, u, g, v, end) ==
    /\ World(p, s, {}, {}, end)
    /\ Holds(p, u, end) /\ Sound(p, u, end) /\ u.pgd = s.pgd /\ u.swp = s.swp
    /\ SeenIn(u.pgd[g], u.ram, u.swp) = v
    /\ Undisturbed(At(p, s.pgd), s.ram, s.swp, At(p, u.pgd), u.ram, u.swp, p, g)

\* pg_setval.
LEMMA WriteStep ==
    ASSUME ~MM64, PagingInv, NEW p \in Proc, NEW g \in Page, NEW v \in Value, Write(p, g, v)
    PROVE  /\ PagingInv'
           /\ \/ \E s : World(p, s, {}, {}, mm[p].vm_end) /\ Holds(p, s, mm[p].vm_end)
              \/ \E s, u : WroteTo(p, s, u, g, v, mm[p].vm_end)
<1> DEFINE r == GetPage(State(p), g)
           s == r.s
           end == mm[p].vm_end
           t == At(p, s.pgd)
<1>1. /\ g < end
      /\ Put(p, IF r.ok THEN [s EXCEPT !.ram = SetCell(@, FPN(s.pgd[g]), v)] ELSE s)
      /\ mem' = IF r.ok THEN [mem EXCEPT ![p][g] = v] ELSE mem
    BY DEF Write, InArea
<1>2. /\ World(p, s, {}, {}, end) /\ StaysLost(p, t, {g})
      /\ r.ok => s.pgd[g].present
      /\ ~r.ok => StaysLost(p, t, {})
    BY <1>1, GetPageWorld
<1>3. mem \in [Proc -> [Page -> Content]] /\ v \in Content
    BY DEF PagingInv, KeptOK, Content
<1> HIDE DEF r, end
<1>4. s \in HState /\ Sound(p, s, end)
    BY <1>2, WorldIsSound DEF World
<1>5. CASE ~r.ok
  <2>1. Put(p, s) /\ mem' = mem
      BY <1>1, <1>5
  <2>2. Holds(p, s, end)
      BY <1>4, <2>1, PutHolds DEF end
  <2>3. StateOK'
      BY <1>4, <2>2, Settled
  <2>4. KeptOK'
    <3>1. Remembers(p, {}, {}, mem')
        BY <2>1 DEF Remembers
    <3>2. StaysLost(p, t, {})
        BY <1>2, <1>5
    <3> QED BY <1>2, <1>3, <2>1, <2>2, <3>1, <3>2, KeptAfter
  <2> QED BY <1>2, <2>2, <2>3, <2>4 DEF PagingInv, end
<1>6. CASE r.ok
  <2> DEFINE u == [s EXCEPT !.ram = SetCell(@, FPN(s.pgd[g]), v)]
  <2>1. /\ Sound(p, u, end) /\ u.swp = s.swp /\ u.pgd = s.pgd
        /\ SeenIn(u.pgd[g], u.ram, u.swp) = v
        /\ Undisturbed(t, s.ram, s.swp, At(p, u.pgd), u.ram, u.swp, p, g)
      BY <1>2, <1>3, <1>6, StoreCell
  <2>2. Put(p, u) /\ mem' = [mem EXCEPT ![p][g] = v]
      BY <1>1, <1>6
  <2> HIDE DEF u
  <2>3. Holds(p, u, end)
      BY <2>1, <2>2, PutHolds DEF end, Sound
  <2>4. StateOK'
      BY <2>1, <2>3, Settled
  <2>5. KeptOK'
    <3>1. /\ mem' \in [Proc -> [Page -> Content]] /\ mem'[p][g] = v
          /\ \A q \in Proc, h \in Page : ~(q = p /\ h = g) => mem'[q][h] = mem[q][h]
        BY <1>3, <2>2
    <3>2. \A q \in Proc : mm'[q].pgd = t[q]
        BY <2>1, <2>3 DEF Holds, At
    <3>3. mram' = u.ram /\ mswp' = u.swp
        BY <2>3 DEF Holds
    <3>4. ASSUME NEW q \in Proc, NEW h \in Page, mem'[q][h] # Unwritten
          PROVE  SeenIn(mm'[q].pgd[h], mram', mswp') = mem'[q][h] \/ AtFrameZero(mm'[q].pgd[h])
      <4>1. CASE q = p /\ h = g
        <5>1. mm'[p].pgd = u.pgd
            BY <2>3 DEF Holds
        <5> QED BY <2>1, <3>1, <3>3, <4>1, <5>1
      <4>2. CASE ~(q = p /\ h = g)
        <5>1. /\ t[q][h] = At(p, u.pgd)[q][h]
              /\ SeenIn(At(p, u.pgd)[q][h], u.ram, u.swp) = SeenIn(t[q][h], s.ram, s.swp)
            BY <2>1, <4>2 DEF Undisturbed
        <5>2. SeenIn(t[q][h], s.ram, s.swp) = Before(q, h) \/ AtFrameZero(t[q][h])
            BY <1>2 DEF World, Shown
        <5>3. Before(q, h) = mem[q][h] \/ AtFrameZero(mm[q].pgd[h])
            BY <3>1, <3>4, <4>2 DEF PagingInv, KeptOK, Before
        <5>4. AtFrameZero(mm[q].pgd[h]) => AtFrameZero(t[q][h])
            BY <1>2, <4>2 DEF StaysLost
        <5> HIDE DEF t
        <5> QED BY <3>1, <3>2, <3>3, <4>2, <5>1, <5>2, <5>3, <5>4
      <4> QED BY <4>1, <4>2
    <3> QED BY <3>1, <3>4 DEF KeptOK
  <2>6. WroteTo(p, s, u, g, v, end)
      BY <1>2, <2>1, <2>3 DEF WroteTo
  <2>7. \E x, y : WroteTo(p, x, y, g, v, end)
      BY <2>6
  <2> QED BY <2>4, <2>5, <2>7 DEF PagingInv, end
<1> QED BY <1>5, <1>6

\* inc_vma_limit.
LEMMA AllocStep ==
    ASSUME ~MM64, PagingInv, NEW p \in Proc, NEW n \in 1..MaxPages, Alloc(p, n)
    PROVE  LET first == mm[p].vm_end IN
           /\ PagingInv' /\ first + n <= MaxPages
           /\ \E s : /\ World(p, s, {}, {g \in Page : first <= g /\ g < first + n}, first + n)
                     /\ Holds(p, s, first + n)
<1> DEFINE first == mm[p].vm_end
           s == VmMapRam(State(p), first, n)
           new == {g \in Page : first <= g /\ g < first + n}
           Rec == [pgd : Table, fifo : Seq(Page), vm_end : 0..MaxPages]
           rec == [pgd |-> s.pgd, fifo |-> s.fifo, vm_end |-> first + n]
<1>1. /\ first + n <= MaxPages /\ mram' = s.ram /\ mswp' = s.swp
      /\ mm' = [mm EXCEPT ![p] = rec] /\ mem' = mem
    BY DEF Alloc
<1>2. n \in Nat /\ first \in Nat /\ MaxPages \in Nat
    BY MaxPagesAssumption DEF PagingInv, StateOK
<1>3. World(p, s, {}, new, first + n) /\ StaysLost(p, At(p, s.pgd), {})
    BY <1>1, <1>2, VmMapRamWorld
<1> HIDE DEF s
<1>4. s \in HState /\ Sound(p, s, first + n)
    BY <1>3, WorldIsSound DEF World
<1>5. Holds(p, s, first + n)
  <2>1. rec \in Rec /\ rec.pgd = s.pgd /\ rec.fifo = s.fifo /\ rec.vm_end = first + n
      BY <1>1, <1>2, <1>4 DEF HState
  <2>2. mm \in [Proc -> Rec]
      BY DEF PagingInv, StateOK
  <2> HIDE DEF rec, Rec, first
  <2>3. /\ mm' \in [Proc -> Rec] /\ mm'[p] = rec
        /\ \A q \in Proc : q # p => mm'[q] = mm[q]
      BY <1>1, <2>1, <2>2
  <2> QED BY <1>1, <2>1, <2>3 DEF Holds, Rec
<1>6. StateOK'
    BY <1>4, <1>5, Settled
<1>7. KeptOK'
  <2>1. \A g \in new : mem[p][g] = Unwritten
    <3> SUFFICES ASSUME NEW g \in new PROVE mem[p][g] = Unwritten
        OBVIOUS
    <3>1. g \in Page /\ g >= first
        BY <1>2 DEF Page
    <3>2. mm[p].pgd[g] = NoEntry
        BY <3>1 DEF PagingInv, StateOK, ListOK
    <3>3. ~AtFrameZero(NoEntry) /\ SeenIn(NoEntry, mram, mswp) = Unwritten
        BY EntryAssumption DEF AtFrameZero, NoEntry, SeenIn, SWP
    <3> QED BY <3>1, <3>2, <3>3 DEF PagingInv, KeptOK
  <2>2. mem \in [Proc -> [Page -> Content]]
      BY DEF PagingInv, KeptOK
  <2> HIDE DEF new
  <2>3. Remembers(p, new, {}, mem')
      BY <1>1, <2>1 DEF Remembers
  <2> QED BY <1>1, <1>3, <1>5, <2>2, <2>3, KeptAfter
<1> QED BY <1>1, <1>3, <1>5, <1>6, <1>7 DEF PagingInv

\* The devices as they are formatted, and no page anywhere.
LEMMA InitInv ==
    ASSUME Init
    PROVE  PagingInv
<1>1. ASSUME NEW n \in Nat
      PROVE  /\ InitMemphy(n) \in Device(0..(n - 1))
             /\ NoRepeat(InitMemphy(n).free)
             /\ \A f \in 0..(n - 1) : InitMemphy(n).cell[f] = Unwritten
  <2>1. Format(n) \in Seq(0..(n - 1)) /\ Len(Format(n)) = n
      BY DEF Format
  <2>2. \A k \in 1..n : Format(n)[k] = k - 1
      BY DEF Format
  <2>3. NoRepeat(Format(n))
      BY <2>1, <2>2 DEF NoRepeat
  <2> QED BY <2>1, <2>3 DEF InitMemphy, Device, Content, Unwritten
<1>2. RamFrames \in Nat /\ SwpFrames \in Nat /\ MaxPages \in Nat
    BY FramesAssumption, MaxPagesAssumption
<1>3. /\ mram \in Ram /\ NoRepeat(mram.free) /\ Blank(mram)
      /\ mswp \in Swp /\ NoRepeat(mswp.free)
    BY <1>1, <1>2 DEF Init, Ram, Swp, RFrame, SFrame, Blank
<1>4. NoEntry \in PTE /\ ~NoEntry.present /\ ~NoEntry.swapped
    BY DEF NoEntry, PTE
<1>5. \A q \in Proc, g \in Page : mm[q].pgd[g] = NoEntry
    BY DEF Init, InitMm
<1>6. mm \in [Proc -> [pgd : Table, fifo : Seq(Page), vm_end : 0..MaxPages]]
    BY <1>2, <1>4 DEF Init, InitMm, Table
<1>7. \A q \in Proc : ListOK(mm[q].pgd, mm[q].fifo, mm[q].vm_end)
    BY <1>5 DEF Init, InitMm, ListOK, NoRepeat
<1>8. \A q \in Proc, g \in Page : Tables[q][g] = NoEntry
    BY <1>5 DEF Tables
<1>9. FramesOK(Tables, mram.free, {}) /\ SwapOK(Tables, mswp.free) /\ ShapeOK(Tables)
    BY <1>3, <1>4, <1>8 DEF FramesOK, SwapOK, ShapeOK, Out
<1>10. mem = [q \in Proc |-> [g \in Page |-> Unwritten]]
    BY DEF Init
<1>11. KeptOK
    BY <1>10 DEF KeptOK, Content
<1> QED BY <1>3, <1>6, <1>7, <1>9, <1>11 DEF PagingInv, StateOK

\* The invariant of the 32-bit build.
THEOREM PagingInvariant ==
    ASSUME ~MM64
    PROVE  Spec => []PagingInv
<1>1. Init => PagingInv
    BY InitInv
<1>2. PagingInv /\ [Next]_vars => PagingInv'
  <2> SUFFICES ASSUME PagingInv, [Next]_vars PROVE PagingInv'
      OBVIOUS
  <2>1. ASSUME NEW p \in Proc, NEW n \in 1..MaxPages, Alloc(p, n) PROVE PagingInv'
      BY <2>1, AllocStep
  <2>2. ASSUME NEW p \in Proc, NEW g \in Page, Read(p, g) PROVE PagingInv'
      BY <2>2, ReadStep
  <2>3. ASSUME NEW p \in Proc, NEW g \in Page, NEW v \in Value, Write(p, g, v)
        PROVE  PagingInv'
      BY <2>3, WriteStep
  <2>4. CASE UNCHANGED vars
      BY <2>4 DEF vars, PagingInv, StateOK, KeptOK, Tables
  <2> QED BY <2>1, <2>2, <2>3, <2>4 DEF Next
<1> QED BY <1>1, <1>2, PTL DEF Spec

-----------------------------------------------------------------------------
(* What the invariant says.                                                   *)

\* Every variable has its type.
THEOREM PagingTypeCorrect ==
    ASSUME ~MM64
    PROVE  Spec => []PagingTypeOK
<1>1. PagingInv => PagingTypeOK
  <2> SUFFICES ASSUME PagingInv PROVE PagingTypeOK
      OBVIOUS
  <2>1. mram \in Ram /\ mswp \in Swp
      BY DEF PagingInv, StateOK
  <2>2. /\ DOMAIN mram.cell = RFrame /\ DOMAIN mswp.cell = SFrame
        /\ \A f \in RFrame : mram.cell[f] \in Content
        /\ \A f \in SFrame : mswp.cell[f] \in Content
        /\ mram.free \in Seq(RFrame) /\ mswp.free \in Seq(SFrame)
      BY <2>1 DEF Ram, Swp, Device
  <2>3. /\ \A k \in 1..Len(mram.free) : mram.free[k] \in RFrame
        /\ \A k \in 1..Len(mswp.free) : mswp.free[k] \in SFrame
      BY <2>2
  <2>4. /\ mm \in [Proc -> [pgd : Table, fifo : Seq(Page), vm_end : 0..MaxPages]]
        /\ mem \in [Proc -> [Page -> Content]]
      BY DEF PagingInv, StateOK, KeptOK
  <2> QED BY <2>2, <2>3, <2>4 DEF PagingTypeOK, RFrame, SFrame, Content, Table
<1> QED BY <1>1, PagingInvariant, PTL

\* The entries of all pages, one table at a time.
LEMMA EntryOf ==
    \A x \in Pages : /\ x[1] \in Proc /\ x[2] \in Page /\ x = <<x[1], x[2]>>
                     /\ Entry(x) = Tables[x[1]][x[2]]
BY DEF Pages, Entry, Tables

\* A frame of RAM never has two pages, nor is free while it has one: whatever the
\* allocations, faults, evictions and failures of all processes.
THEOREM FramesArePrivate ==
    ASSUME ~MM64
    PROVE  Spec => []NoFrameShared
<1>1. PagingInv => NoFrameShared
  <2> SUFFICES ASSUME PagingInv PROVE NoFrameShared
      OBVIOUS
  <2>1. FramesOK(Tables, mram.free, {})
      BY DEF PagingInv, StateOK
  <2>2. ASSUME NEW x \in Pages, NEW y \in Pages, x # y, Entry(x).present, Entry(y).present
        PROVE  FPN(Entry(x)) # FPN(Entry(y))
      BY <2>1, <2>2, EntryOf DEF FramesOK
  <2>3. ASSUME NEW x \in Pages, Entry(x).present PROVE ~OnList(mram.free, FPN(Entry(x)))
      BY <2>1, <2>3, EntryOf DEF FramesOK
  <2> QED BY <2>1, <2>2, <2>3 DEF NoFrameShared, FramesOK
<1> QED BY <1>1, PagingInvariant, PTL

\* Nor a frame of swap.
THEOREM SwapFramesArePrivate ==
    ASSUME ~MM64
    PROVE  Spec => []NoSwapFrameShared
<1>1. PagingInv => NoSwapFrameShared
  <2> SUFFICES ASSUME PagingInv PROVE NoSwapFrameShared
      OBVIOUS
  <2>1. SwapOK(Tables, mswp.free)
      BY DEF PagingInv, StateOK
  <2>2. ASSUME NEW x \in Pages, NEW y \in Pages, x # y, Swapped(x), Swapped(y)
        PROVE  SWP(Entry(x)) # SWP(Entry(y))
      BY <2>1, <2>2, EntryOf DEF SwapOK, Swapped, Out
  <2>3. ASSUME NEW x \in Pages, Swapped(x) PROVE ~OnList(mswp.free, SWP(Entry(x)))
      BY <2>1, <2>3, EntryOf DEF SwapOK, Swapped, Out
  <2> QED BY <2>1, <2>2, <2>3 DEF NoSwapFrameShared, SwapOK
<1> QED BY <1>1, PagingInvariant, PTL

\* A victim is always in RAM: the FIFO lists never hold a page that is not, nor one
\* twice.
THEOREM VictimsAreResident ==
    ASSUME ~MM64
    PROVE  Spec => []FifoIsResident
<1>1. PagingInv => FifoIsResident
    BY DEF PagingInv, StateOK, ListOK, FifoIsResident
<1> QED BY <1>1, PagingInvariant, PTL

\* What a process wrote it reads back, but for the page that went to swap frame 0.
THEOREM OnlyFrameZeroLoses ==
    ASSUME ~MM64
    PROVE  Spec => []LostOnlyAtFrameZero
<1>1. PagingInv => LostOnlyAtFrameZero
  <2> SUFFICES ASSUME PagingInv, NEW x \in Pages, Written(x) # Unwritten
               PROVE  Seen(x) = Written(x) \/ AtFrameZero(Entry(x))
      BY DEF LostOnlyAtFrameZero
  <2>1. x[1] \in Proc /\ x[2] \in Page
      BY DEF Pages
  <2>2. Seen(x) = SeenIn(mm[x[1]].pgd[x[2]], mram, mswp)
      BY DEF Seen, SeenIn, Entry
  <2> QED BY <2>1, <2>2 DEF PagingInv, KeptOK, Written, Entry
<1> QED BY <1>1, PagingInvariant, PTL

-----------------------------------------------------------------------------
(* The paging is a PageStore.                                                 *)

\* What a page shows in the state a handler of p has reached.
Shows(p, s, q, h) == SeenIn(At(p, s.pgd)[q][h], s.ram, s.swp)

\* Every page but these of p shows what it did, ...
AllKept(p, s, pages) ==
    \A q \in Proc, h \in Page : ~(q = p /\ h \in pages) => Shows(p, s, q, h) = Before(q, h)

\* ... or one page of p was lost on the way.
KeptOrOneLost(p, s, pages) ==
    \/ AllKept(p, s, pages) /\ (OnList(s.swp.free, 0) <=> OnList(mswp.free, 0))
    \/ /\ OnList(mswp.free, 0) /\ ~OnList(s.swp.free, 0)
       /\ \E lost \in Page : /\ AllKept(p, s, pages \cup {lost})
                             /\ lost \notin pages => Shows(p, s, p, lost) = Unwritten

\* Swap frame 0 is taken at most once, so one page at most is lost, and to an
\* eviction by its own process.
LEMMA OneIsLost ==
    ASSUME NEW p \in Proc, NEW s, NEW new, NEW end, World(p, s, {}, new, end)
    PROVE  KeptOrOneLost(p, s, new)
<1> DEFINE t == At(p, s.pgd)
<1>1. Shown(p, t, s.ram, s.swp, new) /\ ZeroOK(p, t, s.swp) /\ SwapOK(t, s.swp.free)
    BY DEF World
<1>2. \A q \in Proc, h \in Page : Shows(p, s, q, h) = SeenIn(t[q][h], s.ram, s.swp)
    BY DEF Shows
<1> HIDE DEF t
<1>3. ASSUME NEW q \in Proc, NEW h \in Page, AtFrameZero(t[q][h])
      PROVE  /\ Shows(p, s, q, h) = Unwritten /\ ~OnList(s.swp.free, 0)
             /\ AtFrameZero(mm[q].pgd[h]) => Before(q, h) = Unwritten
  <2>1. ~OnList(s.swp.free, 0)
      BY <1>1, <1>3 DEF SwapOK, AtFrameZero, Out
  <2> QED BY <1>2, <1>3, <2>1 DEF AtFrameZero, SeenIn, Before
<1>4. CASE ~(OnList(mswp.free, 0) /\ ~OnList(s.swp.free, 0))
  <2>1. OnList(s.swp.free, 0) <=> OnList(mswp.free, 0)
      BY <1>1, <1>4 DEF ZeroOK
  <2>2. ASSUME NEW q \in Proc, NEW h \in Page, ~(q = p /\ h \in new)
        PROVE  Shows(p, s, q, h) = Before(q, h)
    <3>1. CASE AtFrameZero(t[q][h])
      <4>1. ~OnList(mswp.free, 0)
          BY <1>3, <2>1, <3>1
      <4>2. AtFrameZero(mm[q].pgd[h])
          BY <1>1, <3>1, <4>1 DEF ZeroOK
      <4> QED BY <1>3, <3>1, <4>2
    <3>2. CASE ~AtFrameZero(t[q][h])
        BY <1>1, <1>2, <2>2, <3>2 DEF Shown
    <3> QED BY <3>1, <3>2
  <2> QED BY <2>1, <2>2 DEF KeptOrOneLost, AllKept
<1>5. CASE OnList(mswp.free, 0) /\ ~OnList(s.swp.free, 0)
  <2>1. PICK lost \in Page : AtFrameZero(t[p][lost])
      BY <1>1, <1>5 DEF ZeroOK
  <2>2. ASSUME NEW q \in Proc, NEW h \in Page, ~(q = p /\ h \in new \cup {lost})
        PROVE  Shows(p, s, q, h) = Before(q, h)
    <3>1. ~AtFrameZero(t[q][h])
        BY <1>1, <2>1, <2>2 DEF SwapOK, AtFrameZero, Out
    <3> QED BY <1>1, <1>2, <2>2, <3>1 DEF Shown
  <2>3. AllKept(p, s, new \cup {lost})
      BY <2>2 DEF AllKept
  <2>4. Shows(p, s, p, lost) = Unwritten
      BY <1>3, <2>1
  <2> QED BY <1>5, <2>3, <2>4 DEF KeptOrOneLost
<1> QED BY <1>4, <1>5

\* The store's variables.
content == [q \in Proc |-> [g \in Page |-> Seen(<<q, g>>)]]
size == [q \in Proc |-> mm[q].vm_end]
intact == OnList(mswp.free, 0)

\* Before a step, ...
LEMMA ContentBefore ==
    /\ \A q \in Proc, h \in Page : content[q][h] = Before(q, h)
    /\ \A q \in Proc : size[q] = mm[q].vm_end
BY DEF content, Before, Seen, SeenIn, Entry, size

\* ... and after it.
LEMMA ContentAfter ==
    ASSUME NEW p \in Proc, NEW s, NEW end, Holds(p, s, end)
    PROVE  /\ \A q \in Proc, h \in Page : content'[q][h] = Shows(p, s, q, h)
           /\ intact' = OnList(s.swp.free, 0)
           /\ size' = [size EXCEPT ![p] = end]
<1>1. \A q \in Proc : mm'[q].pgd = At(p, s.pgd)[q]
    BY DEF Holds, At
<1>2. mram' = s.ram /\ mswp' = s.swp
    BY DEF Holds
<1>3. ASSUME NEW q \in Proc, NEW h \in Page PROVE content'[q][h] = Shows(p, s, q, h)
  <2>1. content'[q][h] = SeenIn(mm'[q].pgd[h], mram', mswp')
      BY DEF content, Seen, SeenIn, Entry
  <2> QED BY <1>1, <1>2, <2>1 DEF Shows
<1>4. \A q \in Proc : mm'[q].vm_end = IF q = p THEN end ELSE mm[q].vm_end
    BY DEF Holds
<1>5. size' = [size EXCEPT ![p] = end]
    BY <1>4 DEF size
<1> QED BY <1>2, <1>3, <1>5 DEF intact

\* A page lost is a page lost in the store.
LEMMA LossInStore ==
    ASSUME NEW p \in Proc, NEW s, NEW u, NEW pages, NEW end, Holds(p, u, end), u.swp = s.swp,
           \A q \in Proc, h \in Page : ~(q = p /\ h \in pages) =>
               Shows(p, u, q, h) = Shows(p, s, q, h),
           KeptOrOneLost(p, s, pages)
    PROVE  Store!KeptOrLost(p, pages)
<1>1. /\ \A q \in Proc, h \in Page : content'[q][h] = Shows(p, u, q, h)
      /\ intact' = OnList(s.swp.free, 0)
    BY ContentAfter
<1>2. \A q \in Proc, h \in Page : content[q][h] = Before(q, h)
    BY ContentBefore
<1>3. ASSUME NEW some, pages \subseteq some, AllKept(p, s, some)
      PROVE  Store!Kept(p, some)
  <2>1. \A q \in Proc, h \in Page : ~(q = p /\ h \in some) => content'[q][h] = content[q][h]
      BY <1>1, <1>2, <1>3 DEF AllKept
  <2> QED BY <2>1 DEF Store!Kept, content
<1>4. CASE AllKept(p, s, pages) /\ (OnList(s.swp.free, 0) <=> OnList(mswp.free, 0))
  <2>1. Store!Kept(p, pages)
      BY <1>3, <1>4
  <2>2. intact' = intact
      BY <1>1, <1>4 DEF intact, OnList
  <2> QED BY <2>1, <2>2 DEF Store!KeptOrLost, intact
<1>5. CASE /\ OnList(mswp.free, 0) /\ ~OnList(s.swp.free, 0)
           /\ \E lost \in Page : /\ AllKept(p, s, pages \cup {lost})
                                 /\ lost \notin pages => Shows(p, s, p, lost) = Unwritten
  <2>1. PICK lost \in Page : /\ AllKept(p, s, pages \cup {lost})
                             /\ lost \notin pages => Shows(p, s, p, lost) = Unwritten
      BY <1>5
  <2>2. Store!Kept(p, pages \cup {lost})
      BY <1>3, <2>1
  <2>3. lost \notin pages => content'[p][lost] = Unwritten
      BY <1>1, <2>1
  <2>4. intact /\ ~intact'
      BY <1>1, <1>5 DEF intact
  <2> QED BY <2>2, <2>3, <2>4 DEF Store!KeptOrLost, intact, content
<1> QED BY <1>4, <1>5 DEF KeptOrOneLost

\* A read, or a write that found no frame.
LEMMA StoreReads ==
    ASSUME PagingInv, NEW p \in Proc, NEW s,
           World(p, s, {}, {}, mm[p].vm_end), Holds(p, s, mm[p].vm_end)
    PROVE  Store!StoreRead(p)
<1>1. Store!KeptOrLost(p, {})
    BY OneIsLost, LossInStore
<1>2. size' = [size EXCEPT ![p] = mm[p].vm_end]
    BY ContentAfter
<1>3. size' = size
    BY <1>2 DEF size
<1> QED BY <1>1, <1>3 DEF Store!StoreRead, size

\* A write.
LEMMA StoreWrites ==
    ASSUME PagingInv, NEW p \in Proc, NEW g \in Page, NEW v \in Value, NEW s, NEW u,
           g < mm[p].vm_end, WroteTo(p, s, u, g, v, mm[p].vm_end)
    PROVE  Store!StoreWrite(p, g, v)
<1> DEFINE end == mm[p].vm_end
<1>1. /\ World(p, s, {}, {}, end) /\ Holds(p, u, end) /\ u.swp = s.swp /\ u.pgd = s.pgd
      /\ SeenIn(u.pgd[g], u.ram, u.swp) = v
      /\ Undisturbed(At(p, s.pgd), s.ram, s.swp, At(p, u.pgd), u.ram, u.swp, p, g)
    BY DEF WroteTo
<1>2. KeptOrOneLost(p, s, {})
    BY <1>1, OneIsLost
<1>3. \A some : AllKept(p, s, {} \cup some) => AllKept(p, s, {g} \cup some)
    BY DEF AllKept
<1>4. KeptOrOneLost(p, s, {g})
  <2>1. AllKept(p, s, {}) => AllKept(p, s, {g})
      BY DEF AllKept
  <2> QED BY <1>2, <1>3, <2>1 DEF KeptOrOneLost
<1>5. \A q \in Proc, h \in Page : ~(q = p /\ h \in {g}) =>
          Shows(p, u, q, h) = Shows(p, s, q, h)
    BY <1>1 DEF Undisturbed, Shows
<1>6. Store!KeptOrLost(p, {g})
    BY <1>1, <1>4, <1>5, LossInStore
<1>7. content'[p][g] = v
  <2>1. content'[p][g] = Shows(p, u, p, g)
      BY <1>1, ContentAfter
  <2>2. At(p, u.pgd)[p] = u.pgd
      BY DEF At
  <2> QED BY <1>1, <2>1, <2>2 DEF Shows
<1>8. size' = size /\ g < size[p]
  <2>1. size' = [size EXCEPT ![p] = end]
      BY <1>1, ContentAfter
  <2> QED BY <2>1 DEF size
<1> QED BY <1>6, <1>7, <1>8 DEF Store!StoreWrite, content, size

\* An allocation.
LEMMA StoreAllocates ==
    ASSUME PagingInv, NEW p \in Proc, NEW n \in 1..MaxPages, NEW s,
           NEW new, new = {g \in Page : mm[p].vm_end <= g /\ g < mm[p].vm_end + n},
           World(p, s, {}, new, mm[p].vm_end + n), Holds(p, s, mm[p].vm_end + n)
    PROVE  Store!StoreAlloc(p)
<1> DEFINE first == mm[p].vm_end
           k == n - 1
<1>1. first \in Nat /\ MaxPages \in Nat /\ k \in Page /\ first + n = first + k + 1
    BY MaxPagesAssumption DEF PagingInv, StateOK, Page
<1>2. size[p] = first
    BY DEF size
<1>3. {g \in Page : size[p] <= g /\ g <= size[p] + k} = new
    BY <1>1, <1>2 DEF Page
<1>4. Store!KeptOrLost(p, new)
    BY OneIsLost, LossInStore
<1>5. size' = [size EXCEPT ![p] = @ + k + 1]
  <2>1. size' = [size EXCEPT ![p] = first + n]
      BY ContentAfter
  <2> QED BY <1>1, <1>2, <2>1
<1>6. \A g \in new : content'[p][g] \in {Unwritten} \cup {content[p][h] : h \in Page}
  <2> SUFFICES ASSUME NEW g \in new
               PROVE  content'[p][g] \in {Unwritten} \cup {content[p][h] : h \in Page}
      OBVIOUS
  <2>1. content'[p][g] = Shows(p, s, p, g)
      BY ContentAfter
  <2>2. Shows(p, s, p, g) \in Own(p)
      BY DEF World, Shown, Shows
  <2>3. Own(p) = {Unwritten} \cup {content[p][h] : h \in Page}
      BY ContentBefore DEF Own
  <2> QED BY <2>1, <2>2, <2>3
<1>7. PICK m \in Page : m = k
    BY <1>1
<1> QED BY <1>3, <1>4, <1>5, <1>6, <1>7 DEF Store!StoreAlloc, content, size

\* The paging of all processes is a set of memories of independent pages, of which
\* one page at most is lost, once.
THEOREM PagingImplementsPageStore ==
    ASSUME ~MM64
    PROVE  Spec => ImplementsPageStore
<1>1. Init => Store!StoreInit
  <2> SUFFICES ASSUME Init PROVE Store!StoreInit
      OBVIOUS
  <2>1. \A q \in Proc, h \in Page : mm[q].pgd[h] = NoEntry /\ mm[q].vm_end = 0
      BY DEF Init, InitMm
  <2>2. \A q \in Proc : mm[q].vm_end = 0
      BY DEF Init, InitMm
  <2>3. \A q \in Proc, h \in Page : Seen(<<q, h>>) = Unwritten
      BY <2>1, EntryAssumption DEF Seen, Entry, NoEntry, SWP
  <2>4. OnList(mswp.free, 0) \in BOOLEAN
      BY DEF OnList
  <2> QED BY <2>2, <2>3, <2>4 DEF Store!StoreInit
<1>2. PagingInv /\ [Next]_vars => [Store!StoreNext]_Store!storeVars
  <2> SUFFICES ASSUME PagingInv, [Next]_vars PROVE [Store!StoreNext]_Store!storeVars
      OBVIOUS
  <2>1. ASSUME NEW p \in Proc, NEW n \in 1..MaxPages, Alloc(p, n)
        PROVE  Store!StoreNext
      BY <2>1, AllocStep, StoreAllocates DEF Store!StoreNext
  <2>2. ASSUME NEW p \in Proc, NEW g \in Page, Read(p, g) PROVE Store!StoreNext
      BY <2>2, ReadStep, StoreReads DEF Store!StoreNext
  <2>3. ASSUME NEW p \in Proc, NEW g \in Page, NEW v \in Value, Write(p, g, v)
        PROVE  Store!StoreNext
    <3>1. g < mm[p].vm_end
        BY <2>3 DEF Write, InArea
    <3>2. Store!StoreRead(p) \/ Store!StoreWrite(p, g, v)
        BY <2>3, <3>1, WriteStep, StoreReads, StoreWrites
    <3> QED BY <3>2 DEF Store!StoreNext
  <2>4. CASE UNCHANGED vars
      BY <2>4 DEF vars, Store!storeVars, Seen, Entry, Cell, OnList
  <2> QED BY <2>1, <2>2, <2>3, <2>4 DEF Next
<1> QED BY <1>1, <1>2, PagingInvariant, PTL DEF Spec, ImplementsPageStore, Store!StoreSpec
=============================================================================
