------------------------------- MODULE VmArea -------------------------------
(* The regions of a process's memory area: the ALLOC, FREE, READ and WRITE     *)
(* instructions as libmem.c and mm-vm.c carry them out on struct mm_struct, in *)
(* the MM64 build.  Each is one critical section of mmvm_lock, so one step.    *)
(* Which frames back the area is the business of the paging code; here a       *)
(* region is an interval of addresses.                                         *)
EXTENDS Integers, Sequences, FiniteSets

CONSTANTS RgId,             \* indices of symrgtbl a program uses
          Size,             \* sizes it asks for
          Offset,           \* offsets it reads and writes at
          PAGING_PAGESZ,
          IntLimit,         \* 2^31: an int holds -IntLimit..IntLimit-1
          MaxSpace,         \* 2^PAGING_CPU_BUS_WIDTH: the bytes page numbers tell apart
          MaxBreak          \* bound: no allocation moves sbrk beyond it

ASSUME PageSizeAssumption == PAGING_PAGESZ \in Nat \ {0}
ASSUME IntLimitAssumption == IntLimit \in Nat \ {0}
ASSUME SizeAssumption == Size \subseteq 0..(2 * IntLimit - 1)
\* Any 64-bit value.  2^64 is a multiple of 2 * IntLimit, so that a sum that wraps around
\* 64 bits is truncated to the same int as one that does not.
ASSUME OffsetAssumption == Offset \subseteq Nat
ASSUME MaxSpaceAssumption == MaxSpace \in 1..IntLimit
\* Below MaxSpace, where `int old_sbrk' holds every address and no two bytes of the area
\* have one page number and offset.
ASSUME MaxBreakAssumption == MaxBreak \in 0..(MaxSpace - 1)

VARIABLES vm_end, sbrk,     \* of the only area, whose vm_start is 0
          vm_freerg_list,   \* its free regions, head first
          symrgtbl,         \* the region of each symbol
          lost,             \* history: bytes whose symbol got another region
          access            \* history: the latest access, or NoAccess

areaVars == <<vm_end, sbrk, vm_freerg_list, symrgtbl>>
vars == <<vm_end, sbrk, vm_freerg_list, symrgtbl, lost, access>>

Region(s, e) == [start |-> s, end |-> e]
NoRegion == Region(0, 0)
NoAccess == [kind |-> "none"]

\* The addresses of a region.
Bytes(rg) == rg.start..(rg.end - 1)

-----------------------------------------------------------------------------
\* init_mm.  It leaves symrgtbl and the list that first_rg is put in front of as
\* malloc returned them: zeros, since the loader thread allocates them and frees
\* nothing of their sizes.
Init == /\ vm_end = 0 /\ sbrk = 0
        /\ vm_freerg_list = <<Region(0, 0)>>
        /\ symrgtbl = [r \in RgId |-> NoRegion]
        /\ lost = {}
        /\ access = NoAccess

\* Mutant: the division of PAGING_PAGE_ALIGNSZ rounds down.
PageAlignDown(sz) == (sz \div PAGING_PAGESZ) * PAGING_PAGESZ

\* PAGING_PAGE_ALIGNSZ.
PageAlign(sz) == ((sz + PAGING_PAGESZ - 1) \div PAGING_PAGESZ) * PAGING_PAGESZ

\* What an int keeps of a 64-bit value: its low half, the upper part of which is negative.
\* get_free_vmrg_area takes the size so, __read and __write the address.
ToInt(n) == LET low == n % (2 * IntLimit)
            IN  IF low < IntLimit THEN low ELSE low - 2 * IntLimit

\* Mutant: a region one byte too short accepted.
FitsByOne(rg, n) == 0 <= rg.start + n /\ rg.start + n <= rg.end + 1

\* A sum below zero wraps around to an address beyond every region.
Fits(rg, n) == 0 <= rg.start + n /\ rg.start + n <= rg.end

\* The traversal stops at the first region that fits.
FirstFit(k, n) == /\ k \in 1..Len(vm_freerg_list)
                  /\ Fits(vm_freerg_list[k], n)
                  /\ \A j \in 1..(k - 1) : ~Fits(vm_freerg_list[j], n)

Removed(list, k) == [j \in 1..(Len(list) - 1) |-> IF j < k THEN list[j] ELSE list[j + 1]]

\* Mutant: a region is shrunk by nothing.
TakenForgotten(list, k, n) ==
    IF list[k].start + n < list[k].end THEN list ELSE Removed(list, k)

\* Mutant: what is left of a region is dropped with its node.
TakenWhole(list, k, n) == Removed(list, k)

\* "Update left space in chosen region".
Taken(list, k, n) ==
    IF list[k].start + n < list[k].end
      THEN [list EXCEPT ![k] = Region(list[k].start + n, list[k].end)]
      ELSE Removed(list, k)

\* What an allocation records about its symbol.
Assign(r, rg) ==
    /\ symrgtbl' = [symrgtbl EXCEPT ![r] = rg]
    /\ lost' = lost \cup Bytes(symrgtbl[r])
    /\ access' = NoAccess

\* __alloc, when get_free_vmrg_area finds a region.
AllocReuse(r, size) ==
    \E k \in 1..Len(vm_freerg_list) :
        /\ FirstFit(k, ToInt(size))
        /\ vm_freerg_list' = Taken(vm_freerg_list, k, ToInt(size))
        /\ Assign(r, Region(vm_freerg_list[k].start,
                            vm_freerg_list[k].start + ToInt(size)))
        /\ UNCHANGED <<vm_end, sbrk>>

\* inc_vma_limit.  The area is the only one, so validate_overlap_vm_area refuses
\* an empty span and nothing else; vm_map_ram returns an unsigned addr_t, which is
\* never below 0, so running out of frames does not stop the limit from moving.
IncVmaLimit(size) ==
    IF PageAlign(size) = 0
      THEN UNCHANGED <<vm_end, sbrk>>
      ELSE vm_end' = vm_end + PageAlign(size) /\ sbrk' = sbrk + size

\* __alloc, when none does: whatever memmap returned, the region is at old_sbrk.
AllocGrow(r, size) ==
    /\ \A k \in 1..Len(vm_freerg_list) : ~Fits(vm_freerg_list[k], ToInt(size))
    /\ sbrk + size <= MaxBreak
    /\ IncVmaLimit(size)
    /\ Assign(r, Region(sbrk, sbrk + size))
    /\ UNCHANGED vm_freerg_list

\* enlist_vm_freerg_list.
Enlist(rg) == IF rg.start >= rg.end THEN vm_freerg_list ELSE <<rg>> \o vm_freerg_list

\* __free, of a symbol that holds something.
Free(r) ==
    /\ symrgtbl[r] # NoRegion
    /\ vm_freerg_list' = Enlist(symrgtbl[r])
    /\ symrgtbl' = [symrgtbl EXCEPT ![r] = NoRegion]
    /\ access' = NoAccess
    /\ UNCHANGED <<vm_end, sbrk, lost>>

\* Mutant: the end taken for the last address.
WithinOrAt(rg, vaddr) == 0 <= vaddr /\ vaddr <= rg.end

\* The test of __read: it compares the int with a 64-bit end, which makes a negative one
\* larger than every end.  It does not look at the start.
Within(rg, vaddr) == 0 <= vaddr /\ vaddr < rg.end

\* The int that __read computes, and that __write passes to pg_setval.
Vaddr(r, off) == ToInt(symrgtbl[r].start + off)

\* PAGING_PGN and PAGING_OFFST of pg_getval and pg_setval keep the low bits of the int.
Access(kind, r, off) ==
    /\ access' = [kind |-> kind, rgid |-> r, off |-> off, addr |-> Vaddr(r, off) % MaxSpace]
    /\ UNCHANGED <<areaVars, lost>>

\* __read tests the address against the end of the region, ...
Read(r, off) == Within(symrgtbl[r], Vaddr(r, off)) /\ Access("read", r, off)

\* ... and __write does not.
Write(r, off) == Access("write", r, off)

Next == \E r \in RgId :
            \/ \E size \in Size : AllocReuse(r, size) \/ AllocGrow(r, size)
            \/ Free(r)
            \/ \E off \in Offset : Read(r, off) \/ Write(r, off)

Spec == Init /\ [][Next]_vars

-----------------------------------------------------------------------------
(* Properties.                                                                *)

FreeIdx == 1..Len(vm_freerg_list)

\* A region of the area: non-negative and not beyond the break.
InArea(rg) == 0 <= rg.start /\ rg.start <= rg.end /\ rg.end <= sbrk

VmTypeOK == /\ vm_end \in Nat /\ sbrk \in Nat
            /\ vm_freerg_list \in Seq([start : Nat, end : Nat])
            /\ symrgtbl \in [RgId -> [start : Nat, end : Nat]]
            /\ lost \subseteq 0..(sbrk - 1)
            /\ \A r \in RgId : InArea(symrgtbl[r])
            /\ \A k \in FreeIdx : InArea(vm_freerg_list[k])

\* No byte is in two regions: two symbols, a symbol and a free region, or two free
\* regions, in whatever order a program allocates, frees and allocates over what a
\* symbol holds.  (__alloc, __free, get_free_vmrg_area and inc_vma_limit together.)
RegionsDisjoint ==
    /\ \A r1, r2 \in RgId : r1 # r2 => Bytes(symrgtbl[r1]) \cap Bytes(symrgtbl[r2]) = {}
    /\ \A r \in RgId, k \in FreeIdx :
           Bytes(symrgtbl[r]) \cap Bytes(vm_freerg_list[k]) = {}
    /\ \A j, k \in FreeIdx :
           j # k => Bytes(vm_freerg_list[j]) \cap Bytes(vm_freerg_list[k]) = {}

Held == UNION {Bytes(symrgtbl[r]) : r \in RgId}
Spare == UNION {Bytes(vm_freerg_list[k]) : k \in FreeIdx}

\* Every byte below the break is held by a symbol, or free to be allocated again,
\* unless an allocation took the symbol that held it: nothing else leaks.
EveryByteAccounted ==
    /\ Held \cup Spare \cup lost = 0..(sbrk - 1)
    /\ lost \cap (Held \cup Spare) = {}

\* What a symbol holds lies in the pages inc_vma_limit asked to map: sbrk moves by
\* the size and vm_end by whole pages, and the first never passes the second.
BreakWithinLimit == sbrk <= vm_end /\ vm_end % PAGING_PAGESZ = 0

Reached(rg) == access.addr \in Bytes(rg)

\* The latest access was to a byte of another symbol, or to one that is free.
Trespasses == \/ \E r \in RgId \ {access.rgid} : Reached(symrgtbl[r])
              \/ \E k \in FreeIdx : Reached(vm_freerg_list[k])

\* An access from an offset within its own region never reaches the region of another
\* symbol, nor a free one.  One from beyond it may, since __write tests nothing.  A read
\* may only when its address wrapped around the int, and then only below its own region,
\* since __read tests the end of the region and not its start.
OnlyWildOffsetsTrespass ==
    access # NoAccess /\ Trespasses =>
        LET own == symrgtbl[access.rgid]
        IN  /\ access.off >= own.end - own.start
            /\ access.kind = "read" =>
                   access.addr < own.start /\ own.start + access.off >= 2 * IntLimit
=============================================================================
