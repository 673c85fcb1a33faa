------------------------------- MODULE Paging -------------------------------
(* Page tables, frames and the swap device: what an ALLOC maps, and how a READ *)
(* or WRITE finds its frame, evicting a page when RAM is full.  The two builds *)
(* share libmem.c and mm-memphy.c; mm64.c (MM64 = TRUE, the one os-cfg.h       *)
(* selects) and mm.c (MM64 = FALSE) differ in how they map a range, mark an    *)
(* evicted page and act on a full RAM.                                         *)
(*                                                                             *)
(* Every operation runs under mmvm_lock and is one step.  A page's contents    *)
(* are one value: the offset within the page plays no part in paging.          *)
EXTENDS Pte, Sequences, FiniteSets

CONSTANTS Proc,
          RamFrames, SwpFrames,     \* frames of mram and of active_mswp
          Value,                    \* contents a program writes
          PagesPer64,               \* PAGING64_PAGESZ / PAGING_PAGESZ
          MaxPages                  \* bound: pages of a process's area

ASSUME FramesAssumption == RamFrames \in Nat \ {0} /\ SwpFrames \in Nat
ASSUME LayoutAssumption == PagesPer64 \in Nat \ {0} /\ RamFrames <= FPNSPAN
ASSUME ValueAssumption == Value \subseteq Nat \ {0}
ASSUME MaxPagesAssumption == MaxPages \in Nat

VARIABLES mram, mswp,       \* devices: cell, what each frame holds; free, its list
          mm,               \* per process: pgd, fifo (newest first), vm_end in pages
          mem               \* history: what each page was last written with

vars == <<mram, mswp, mm, mem>>

Page == 0..(MaxPages - 1)
Unwritten == 0              \* also what a page cleared by memset holds

-----------------------------------------------------------------------------
(* What there is at the start.                                                *)

\* MEMPHY_format: every frame is free, in order.
Format(n) == [k \in 1..n |-> k - 1]

\* init_memphy.
InitMemphy(n) == [cell |-> [f \in 0..(n - 1) |-> 0], free |-> Format(n)]

\* init_mm.
InitMm == [pgd |-> [g \in Page |-> NoEntry], fifo |-> << >>, vm_end |-> 0]

\* main and load.
Init == /\ mram = InitMemphy(RamFrames)
        /\ mswp = InitMemphy(SwpFrames)
        /\ mm = [p \in Proc |-> InitMm]
        /\ mem = [p \in Proc |-> [g \in Page |-> Unwritten]]

-----------------------------------------------------------------------------
(* mm-memphy.c.  A frame number beyond the device comes up only after an       *)
(* eviction of the MM64 build has left an entry whose frame is none: writes    *)
(* there are refused, and a refused read leaves a byte nobody set, of which    *)
(* one value stands for all since no run goes on from such a state.            *)

Cell(dev, f) == IF f \in DOMAIN dev.cell THEN dev.cell[f] ELSE Unwritten
SetCell(dev, f, v) == IF f \in DOMAIN dev.cell THEN [dev EXCEPT !.cell[f] = v] ELSE dev

GetFree(dev) == [dev EXCEPT !.free = Tail(@)]

\* Mutant: a frame put back twice.
PutFreeTwice(dev, f) == [dev EXCEPT !.free = <<f, f>> \o @]

PutFree(dev, f) == [dev EXCEPT !.free = <<f>> \o @]

-----------------------------------------------------------------------------
(* The handlers, on the state they work with: the two devices and the page     *)
(* table and FIFO list of the running process.                                 *)

State(p) == [ram |-> mram, swp |-> mswp, pgd |-> mm[p].pgd, fifo |-> mm[p].fifo]

Done(s, f) == [s |-> s, ok |-> TRUE, frame |-> f]
Failed(s) == [s |-> s, ok |-> FALSE, frame |-> 0]

\* Mutant: the newest page is the victim, and the oldest is taken off the list.
VictimNewest(fifo) == fifo[1]

\* find_victim_page: the end of the list.
Victim(fifo) == fifo[Len(fifo)]
WithoutVictim(fifo) == SubSeq(fifo, 1, Len(fifo) - 1)

\* enlist_pgn_node.
Enlist(fifo, g) == <<g>> \o fifo

\* Mutant: the copy forgotten.
CopyForgotten(src, f, dst, g) == dst

\* __swap_cp_page, as it leaves the destination: mm.c looks first, ...
SwapCopy32(src, f, dst, g) ==
    IF f \in DOMAIN src.cell /\ g \in DOMAIN dst.cell
      THEN [dst EXCEPT !.cell[g] = src.cell[f]] ELSE dst

\* ... mm64.c leaves it to the devices.
SwapCopy64(src, f, dst, g) == SetCell(dst, g, Cell(src, f))

SwapCopy(src, f, dst, g) ==
    IF MM64 THEN SwapCopy64(src, f, dst, g) ELSE SwapCopy32(src, f, dst, g)

\* The victim v goes to the swap frame at hand; its own is what this is all for.
Evicted(s, v) ==
    LET g == Head(s.swp.free) IN
    [s EXCEPT !.swp = SwapCopy(s.ram, FPN(s.pgd[v]), GetFree(@), g),
              !.fifo = WithoutVictim(@),
              !.pgd[v] = SetSwap(@, g)]

\* Step 1 of pg_getpage: a frame of RAM, by evicting a page if none is free.  The
\* victim is off the list before the swap frame is asked for, and the swap frame
\* off its own before the victim is looked at.
GetFrame(s) ==
    IF s.ram.free # << >>
      THEN Done([s EXCEPT !.ram = GetFree(@)], Head(s.ram.free))
    ELSE IF s.fifo = << >>
      THEN Failed(s)
    ELSE IF s.swp.free = << >>
      THEN Failed([s EXCEPT !.fifo = WithoutVictim(@)])
    ELSE IF ~s.pgd[Victim(s.fifo)].present
      THEN Failed([s EXCEPT !.fifo = WithoutVictim(@), !.swp = GetFree(@)])
    ELSE Done(Evicted(s, Victim(s.fifo)), FPN(s.pgd[Victim(s.fifo)]))

\* Mutant: swap frame 0 given back like the others.
SwapInZero(s, pte, f) ==
    [s EXCEPT !.ram = IF SWP(pte) # 0 THEN SwapCopy(s.swp, SWP(pte), @, f)
                      ELSE SetCell(@, f, 0),
              !.swp = PutFree(@, SWP(pte))]

\* Step 2: the contents of the page that faulted.  Swap frame 0 is taken for "never
\* swapped", and the page comes back empty.
SwapIn(s, pte, f) ==
    IF SWP(pte) # 0
      THEN [s EXCEPT !.ram = SwapCopy(s.swp, SWP(pte), @, f),
                     !.swp = PutFree(@, SWP(pte))]
      ELSE [s EXCEPT !.ram = SetCell(@, f, 0)]

\* pg_getpage.
GetPage(s, g) ==
    LET pte == s.pgd[g]
        r == GetFrame(s)
    IN  IF pte.present THEN Done(s, FPN(pte))
        ELSE IF ~r.ok THEN r
        ELSE LET t == SwapIn(r.s, pte, r.frame) IN
             Done([t EXCEPT !.pgd[g] = SetFpn(@, r.frame), !.fifo = Enlist(@, g)],
                  r.frame)

Put(p, s) ==
    /\ mram' = s.ram /\ mswp' = s.swp
    /\ mm' = [mm EXCEPT ![p].pgd = s.pgd, ![p].fifo = s.fifo]

-----------------------------------------------------------------------------
(* inc_vma_limit: frames one after the other, up to the first failure, and     *)
(* then the page table.                                                       *)

\* One turn of alloc_pages_range: mm64.c stops when RAM is full, ...
OneMore64(s) ==
    IF s.ram.free = << >> THEN Failed(s)
    ELSE Done([s EXCEPT !.ram = GetFree(@)], Head(s.ram.free))

\* ... mm.c evicts a page, which it takes to be present.
OneMore32(s) ==
    IF s.ram.free # << >>
      THEN Done([s EXCEPT !.ram = GetFree(@)], Head(s.ram.free))
    ELSE IF s.fifo = << >>
      THEN Failed(s)
    ELSE IF s.swp.free = << >>
      THEN Failed([s EXCEPT !.fifo = WithoutVictim(@)])
    ELSE Done(Evicted(s, Victim(s.fifo)), FPN(s.pgd[Victim(s.fifo)]))

\* alloc_pages_range.
AllocPages(s, n) ==
    LET after[k \in 0..n] ==
            IF k = 0 THEN [s |-> s, ok |-> TRUE, frames |-> << >>]
            ELSE LET a == after[k - 1]
                     r == IF MM64 THEN OneMore64(a.s) ELSE OneMore32(a.s)
                 IN  IF ~a.ok THEN a
                     ELSE [s |-> r.s, ok |-> r.ok,
                           frames |-> IF r.ok THEN Append(a.frames, r.frame) ELSE a.frames]
    IN  after[n]

\* Frame after frame to page after page.
Mapped(s, pgns, frames) ==
    LET mapped[k \in 0..Len(frames)] ==
            IF k = 0 THEN s
            ELSE [mapped[k - 1] EXCEPT !.pgd[pgns[k]] = SetFpn(@, frames[k]),
                                       !.fifo = Enlist(@, pgns[k])]
    IN  mapped[Len(frames)]

\* Mutant: pages counted from 1.
MapFromOne(s, first, frames) ==
    Mapped(s, [k \in 1..Len(frames) |-> first + k], frames)

\* vmap_page_range of mm.c.
VmapPageRange32(s, first, frames) ==
    Mapped(s, [k \in 1..Len(frames) |-> first + k - 1], frames)

\* vmap_page_range of mm64.c steps by pages of 4096 bytes through an area that
\* libmem.c cuts into pages of 256 (PAGING_PGN).
VmapPageRange64(s, first, frames) ==
    Mapped(s, [k \in 1..Len(frames) |-> first \div PagesPer64 + k - 1], frames)

\* vm_map_ram.  When frames run out those taken so far are forgotten and nothing is
\* mapped.
VmMapRam(s, first, n) ==
    LET a == AllocPages(s, n) IN
    IF ~a.ok THEN a.s
    ELSE IF MM64 THEN VmapPageRange64(a.s, first, a.frames)
    ELSE VmapPageRange32(a.s, first, a.frames)

\* inc_vma_limit by n pages.  The limit moves even when nothing was mapped (an
\* unsigned result is compared with 0).
Alloc(p, n) ==
    LET first == mm[p].vm_end
        s == VmMapRam(State(p), first, n)
    IN  /\ first + n <= MaxPages
        /\ mram' = s.ram /\ mswp' = s.swp
        /\ mm' = [mm EXCEPT ![p] = [pgd |-> s.pgd, fifo |-> s.fifo, vm_end |-> first + n]]
        /\ UNCHANGED mem

\* The pages a program has been given.  __read refuses an address beyond its region
\* and so beyond these; __write does not look (VmArea), and the programs here are
\* the ones that keep to their regions.
InArea(p, g) == g < mm[p].vm_end

\* pg_setval.  __write reports success even when the page could not be got; mem
\* records the writes that took place.
Write(p, g, v) ==
    LET r == GetPage(State(p), g)
        f == FPN(r.s.pgd[g])
    IN  /\ InArea(p, g)
        /\ Put(p, IF r.ok THEN [r.s EXCEPT !.ram = SetCell(@, f, v)] ELSE r.s)
        /\ mem' = IF r.ok THEN [mem EXCEPT ![p][g] = v] ELSE mem

\* A page whose contents went to swap frame 0.
AtFrameZero(pte) == ~pte.present /\ pte.swapped /\ SWP(pte) = 0

\* pg_getval.
Read(p, g) ==
    LET r == GetPage(State(p), g) IN
    /\ InArea(p, g)
    /\ Put(p, r.s)
    /\ mem' = IF r.ok /\ AtFrameZero(mm[p].pgd[g])
                THEN [mem EXCEPT ![p][g] = Unwritten] ELSE mem

Next == \E p \in Proc :
            \/ \E n \in 1..MaxPages : Alloc(p, n)
            \/ \E g \in Page : Read(p, g) \/ \E v \in Value : Write(p, g, v)

Spec == Init /\ [][Next]_vars

-----------------------------------------------------------------------------
(* Properties.                                                                *)

\* All pages of all processes.
Pages == Proc \X Page
Entry(x) == mm[x[1]].pgd[x[2]]

OnList(list, f) == \E k \in 1..Len(list) : list[k] = f
NoRepeat(list) == \A j, k \in 1..Len(list) : j # k => list[j] # list[k]

PagingTypeOK ==
    /\ DOMAIN mram.cell = 0..(RamFrames - 1) /\ DOMAIN mswp.cell = 0..(SwpFrames - 1)
    /\ \A f \in DOMAIN mram.cell : mram.cell[f] \in Value \cup {Unwritten}
    /\ \A f \in DOMAIN mswp.cell : mswp.cell[f] \in Value \cup {Unwritten}
    /\ \A k \in 1..Len(mram.free) : mram.free[k] \in DOMAIN mram.cell
    /\ \A k \in 1..Len(mswp.free) : mswp.free[k] \in DOMAIN mswp.cell
    /\ mm \in [Proc -> [pgd : [Page -> PTE], fifo : Seq(Page), vm_end : 0..MaxPages]]
    /\ mem \in [Proc -> [Page -> Value \cup {Unwritten}]]

\* No frame of RAM belongs to two pages, of one process or of two, and none that
\* belongs to a page is free: whatever the order of allocations, faults, evictions
\* and their failures.
NoFrameShared ==
    /\ \A x, y \in Pages :
           x # y /\ Entry(x).present /\ Entry(y).present => FPN(Entry(x)) # FPN(Entry(y))
    /\ \A x \in Pages : Entry(x).present => ~OnList(mram.free, FPN(Entry(x)))
    /\ NoRepeat(mram.free)

Swapped(x) == ~Entry(x).present /\ Entry(x).swapped

\* The same of the swap device.
NoSwapFrameShared ==
    /\ \A x, y \in Pages :
           x # y /\ Swapped(x) /\ Swapped(y) => SWP(Entry(x)) # SWP(Entry(y))
    /\ \A x \in Pages : Swapped(x) => ~OnList(mswp.free, SWP(Entry(x)))
    /\ NoRepeat(mswp.free)

\* Every page on a FIFO list is in RAM and is there once, so the victim always has
\* a frame to give up.
FifoIsResident ==
    \A p \in Proc :
        /\ NoRepeat(mm[p].fifo)
        /\ \A k \in 1..Len(mm[p].fifo) : mm[p].pgd[mm[p].fifo[k]].present

\* What a read of the page would return.
Seen(x) == IF Entry(x).present THEN Cell(mram, FPN(Entry(x)))
           ELSE IF SWP(Entry(x)) # 0 THEN Cell(mswp, SWP(Entry(x)))
           ELSE Unwritten

Written(x) == mem[x[1]][x[2]]

\* A process reads back what it wrote last, whoever else allocates, reads or writes
\* in between and wherever the page has been meanwhile.
WrittenIsKept == \A x \in Pages : Written(x) # Unwritten => Seen(x) = Written(x)

\* The only way to lose a page is through swap frame 0.
LostOnlyAtFrameZero ==
    \A x \in Pages :
        Written(x) # Unwritten => Seen(x) = Written(x) \/ AtFrameZero(Entry(x))

Store == INSTANCE PageStore
             WITH content <- [p \in Proc |-> [g \in Page |-> Seen(<<p, g>>)]],
                  size <- [p \in Proc |-> mm[p].vm_end],
                  intact <- OnList(mswp.free, 0)

\* What the paging of all processes amounts to: memories of independent cells, of
\* which one cell is lost at most, once, by the process that evicts it.
ImplementsPageStore == Store!StoreSpec
=============================================================================
