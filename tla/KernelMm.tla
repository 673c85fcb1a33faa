------------------------------ MODULE KernelMm ------------------------------
(* Which process's memory an instruction works on.  There is one krnl for all *)
(* CPUs; run stores the mm of the process it is about to execute in it, with  *)
(* no lock, and everything below fetches caller->krnl->mm again at each use.  *)
(* The instructions ALLOC to WRITE hold mmvm_lock while they do; what a       *)
(* program calls by its own SYSCALL does not, nor does print_pgtbl.           *)
(*                                                                            *)
(* A step is one such fetch, one half of taking a frame off a free list, or   *)
(* one acquisition or release of mmvm_lock.  What is then done to the regions *)
(* and page tables is in VmArea.tla and Paging.tla: here only whose they are, *)
(* and every branch the data could decide is open.  The CPUs are the devices  *)
(* of the clock.                                                              *)
EXTENDS SlotClock

CONSTANTS Proc, NULL,
          MaxMap            \* bound: pages one instruction maps, or prints

ASSUME NullAssumption == NULL \notin Proc \cup Devices
ASSUME MaxMapAssumption == MaxMap \in Nat \ {0}

VARIABLES krnl_mm,          \* krnl->mm, as the process it belongs to
          mmvm_lock,        \* the thread that holds it, or NULL
          cpc,              \* where each CPU is
          proc,             \* its process
          op,               \* the instruction it executes
          pages,            \* pages it has yet to map, or to print
          touched           \* history: whose mm its instruction has used

kernelVars == <<krnl_mm, mmvm_lock, cpc, proc, op, pages, touched>>
vars == <<time, status, krnl_mm, mmvm_lock, cpc, proc, op, pages, touched>>

\* The instructions that take mmvm_lock, ...
Locked == {"ALLOC", "FREE", "READ", "WRITE"}
\* ... a SYSCALL 17 of the program, by its memmap operation, ...
Memop == {"MAP_OP", "INC_OP", "SWP_OP", "IO_OP"}
\* ... and CALC and every other system call but killall.
Op == Locked \cup Memop \cup {"CALC", "SYSCALL"}

ASSUME OpAssumption == NULL \notin Op

PC == {"top", "get", "run", "next_slot",
       "lock", "lookup", "vma", "fit", "sym_start", "sym_end", "enlist",
       "inc", "overlap", "ram_head", "ram_unlink", "owner", "set_fpn", "enlist_pgn",
       "page", "victim", "swap_head", "swap_unlink", "victim_pte", "set_swap", "frame",
       "memset", "unlock", "unlock_failed", "dump", "dump_page"}

Init == /\ ClockInit
        /\ krnl_mm = NULL /\ mmvm_lock = NULL
        /\ cpc = [c \in Devices |-> "top"]
        /\ proc = [c \in Devices |-> NULL]
        /\ op = [c \in Devices |-> NULL]
        /\ pages = [c \in Devices |-> 0]
        /\ touched = [c \in Devices |-> {}]

-----------------------------------------------------------------------------

\* Mutant: next_slot comes back at once.
AtAnyTime(c, l) == cpc[c] = l

At(c, l) == cpc[c] = l /\ status[c] = "working"
Goto(c, l) == cpc' = [cpc EXCEPT ![c] = l]

\* A step that fetches krnl->mm, goes on to one of the given places, and is left
\* with n pages.
UseFor(c, n, from, places) ==
    /\ At(c, from)
    /\ \E l \in places : Goto(c, l)
    /\ touched' = [touched EXCEPT ![c] = @ \cup {krnl_mm}]
    /\ pages' = [pages EXCEPT ![c] = n]
    /\ UNCHANGED <<clockVars, krnl_mm, mmvm_lock, proc, op>>

Use(c, from, places) == UseFor(c, pages[c], from, places)

\* One that fetches nothing.
MoveFor(c, n, from, places) ==
    /\ At(c, from)
    /\ \E l \in places : Goto(c, l)
    /\ pages' = [pages EXCEPT ![c] = n]
    /\ UNCHANGED <<clockVars, krnl_mm, mmvm_lock, proc, op, touched>>

Move(c, from, places) == MoveFor(c, pages[c], from, places)

-----------------------------------------------------------------------------
(* cpu_routine: between two slots a CPU keeps its process, or gives it away   *)
(* and gets one nobody has (Os.tla says which and when).                      *)

Keep(c) == proc[c] # NULL /\ Move(c, "top", {"run"})

Leave(c) == /\ At(c, "top")
            /\ proc' = [proc EXCEPT ![c] = NULL]
            /\ Goto(c, "get")
            /\ UNCHANGED <<clockVars, krnl_mm, mmvm_lock, op, pages, touched>>

Get(c) == /\ At(c, "get")
          /\ \E p \in Proc \ {proc[d] : d \in Devices} : proc' = [proc EXCEPT ![c] = p]
          /\ Goto(c, "run")
          /\ UNCHANGED <<clockVars, krnl_mm, mmvm_lock, op, pages, touched>>

GetNothing(c) == Move(c, "get", {"next_slot"})

NextSlot(c) == /\ cpc[c] = "next_slot"
               /\ Arrive(c)
               /\ Goto(c, "top")
               /\ op' = [op EXCEPT ![c] = NULL]
               /\ UNCHANGED <<krnl_mm, mmvm_lock, proc, pages, touched>>

\* Mutant: `proc->krnl->mm = proc->mm' forgotten.
StoredForgotten(c) == krnl_mm

Stored(c) == proc[c]

\* __sys_memmap: a copy to the swap device and a physical access use no mm.
Memmap(o) == IF o = "MAP_OP" THEN "memset" ELSE IF o = "INC_OP" THEN "inc" ELSE "next_slot"

\* Where an instruction starts; libsyscall and syscall take no lock.
Entry(o) == IF o \in Locked THEN "lock" ELSE IF o \in Memop THEN Memmap(o) ELSE "next_slot"

\* run, past the end of the program (an empty one) or not.
RunNothing(c) == Move(c, "run", {"next_slot"})

Run(c) == /\ At(c, "run")
          /\ krnl_mm' = Stored(c)
          /\ \E o \in Op : op' = [op EXCEPT ![c] = o] /\ Goto(c, Entry(o))
          /\ UNCHANGED <<clockVars, mmvm_lock, proc, pages, touched>>

-----------------------------------------------------------------------------
(* mmvm_lock.                                                                 *)

\* Mutant: the mutex tested and not waited for.
LockAnyway == TRUE

LockIsFree == mmvm_lock = NULL

Lock(c) == /\ At(c, "lock") /\ LockIsFree
           /\ mmvm_lock' = c
           /\ Goto(c, "lookup")
           /\ UNCHANGED <<clockVars, krnl_mm, proc, op, pages, touched>>

\* The end of an operation; the dump of liballoc, libfree, libread and libwrite
\* follows outside the lock.
Unlock(c) == /\ At(c, "unlock")
             /\ mmvm_lock' = NULL
             /\ Goto(c, "dump")
             /\ UNCHANGED <<clockVars, krnl_mm, proc, op, pages, touched>>

\* Mutant: an early return without pthread_mutex_unlock.
OwnerKept(c) == c

OwnerAfterFailure(c) == NULL

\* libread dumps even then; libfree and libwrite do not.
AfterFailure(c) == IF op[c] = "READ" THEN "dump" ELSE "next_slot"

\* An early return.
UnlockFailed(c) == /\ At(c, "unlock_failed")
                   /\ mmvm_lock' = OwnerAfterFailure(c)
                   /\ Goto(c, AfterFailure(c))
                   /\ UNCHANGED <<clockVars, krnl_mm, proc, op, pages, touched>>

-----------------------------------------------------------------------------
(* Looking up: __alloc, __free, __read, __write.                              *)

\* __free refuses an id before it looks at any memory.
RefuseId(c) == op[c] = "FREE" /\ Move(c, "lookup", {"unlock_failed"})

\* get_vma_by_num in __alloc, get_symrg_byid elsewhere.
Lookup(c) == Use(c, "lookup", IF op[c] = "ALLOC" THEN {"fit"}
                              ELSE IF op[c] = "FREE" THEN {"enlist", "unlock_failed"}
                              ELSE {"vma"})

\* get_vma_by_num in __read and __write.
FindArea(c) == Use(c, "vma", {"page", "unlock_failed"})

\* get_free_vmrg_area.
Fit(c) == Use(c, "fit", {"sym_start", "inc"})

\* symrgtbl[rgid].rg_start and .rg_end, each through krnl->mm.
SymStart(c) == Use(c, "sym_start", {"sym_end"})
SymEnd(c) == Use(c, "sym_end", {"unlock"})

\* enlist_vm_freerg_list.
Enlist(c) == Use(c, "enlist", {"unlock"})

-----------------------------------------------------------------------------
(* inc_vma_limit and alloc_pages_range, by ALLOC or by SYSCALL 17.            *)

\* What comes after the range is mapped, or could not be: __alloc does not look.
Mapped(c) == IF op[c] = "ALLOC" THEN "sym_start"
             ELSE IF op[c] = "INC_OP" THEN "next_slot"
             ELSE "frame"

Inc(c) == Use(c, "inc", IF op[c] = "ALLOC" THEN {"overlap"} ELSE {"overlap", "next_slot"})

ValidateOverlap(c) == Use(c, "overlap", {"ram_head", Mapped(c)})

\* MEMPHY_get_freefp reads the head of the list ...
RamHead(c) == Move(c, "ram_head", {"ram_unlink"})

\* ... which may be empty: then a mapping is given up, and a fault evicts.
RamEmpty(c) == IF op[c] \in {"READ", "WRITE"} THEN Move(c, "ram_head", {"victim"})
               ELSE MoveFor(c, 0, "ram_head", {Mapped(c)})

\* ... and then moves the head on.
RamUnlink(c) == MoveFor(c, pages[c] + 1, "ram_unlink",
                        {IF op[c] \in {"READ", "WRITE"} THEN "set_fpn" ELSE "owner"})

\* newfp_str->owner; there may be more to come.
SetOwner(c) == Use(c, "owner", {"set_fpn"} \cup
                               IF pages[c] < MaxMap THEN {"ram_head"} ELSE {})

\* pte_set_fpn.
SetFpn(c) == Use(c, "set_fpn", {"enlist_pgn"})

\* Mutant: the loop of vmap_page_range does not advance.
SamePages(c) == pages[c]

\* Mutant: it counts each page twice.
TwoPagesLess(c) == pages[c] - 2

PagesLeft(c) == pages[c] - 1

\* enlist_pgn_node, then the next page if there is one.
EnlistPgn(c) == UseFor(c, PagesLeft(c), "enlist_pgn",
                       {IF PagesLeft(c) > 0 THEN "set_fpn" ELSE Mapped(c)})

-----------------------------------------------------------------------------
(* pg_getpage, by READ or WRITE.  Its failures end in the unlock at the end of *)
(* __read and of __write.                                                     *)

\* pte_get_entry: the page is present, or not.
GetEntry(c) == Use(c, "page", {"frame", "ram_head"})

\* find_victim_page.
FindVictim(c) == Use(c, "victim", {"swap_head", "unlock"})

\* MEMPHY_get_freefp of the swap device.
SwapHead(c) == Move(c, "swap_head", {"swap_unlink", "unlock"})
SwapUnlink(c) == Move(c, "swap_unlink", {"victim_pte"})

\* pte_get_entry of the victim, and pte_set_swap once it is copied out.
VictimEntry(c) == Use(c, "victim_pte", {"set_swap", "unlock"})
SetSwap(c) == UseFor(c, 1, "set_swap", {"set_fpn"})

\* The second pte_get_entry; then SYSMEM_IO_READ or SYSMEM_IO_WRITE, on mram.
Frame(c) == Use(c, "frame", {"unlock"})

-----------------------------------------------------------------------------
(* Without the lock.                                                          *)

\* vmap_pgd_memset by SYSCALL 17, which fetches krnl->mm once.
PgdMemset(c) == Use(c, "memset", {"next_slot"})

\* print_pgtbl asks one memory how far to go and then each time anew where.
Dump(c) == \/ UseFor(c, 0, "dump", {"next_slot"})
           \/ \E n \in 1..MaxMap : UseFor(c, n, "dump", {"dump_page"})

DumpPage(c) == UseFor(c, pages[c] - 1, "dump_page",
                      {IF pages[c] > 1 THEN "dump_page" ELSE "next_slot"})

-----------------------------------------------------------------------------

Step(c) == \/ Keep(c) \/ Leave(c) \/ Get(c) \/ GetNothing(c)
           \/ RunNothing(c) \/ Run(c) \/ NextSlot(c)
           \/ Lock(c) \/ Unlock(c) \/ UnlockFailed(c)
           \/ RefuseId(c) \/ Lookup(c) \/ FindArea(c) \/ Fit(c)
           \/ SymStart(c) \/ SymEnd(c) \/ Enlist(c)
           \/ Inc(c) \/ ValidateOverlap(c) \/ RamHead(c) \/ RamEmpty(c) \/ RamUnlink(c)
           \/ SetOwner(c) \/ SetFpn(c) \/ EnlistPgn(c)
           \/ GetEntry(c) \/ FindVictim(c) \/ SwapHead(c) \/ SwapUnlink(c)
           \/ VictimEntry(c) \/ SetSwap(c) \/ Frame(c)
           \/ PgdMemset(c) \/ Dump(c) \/ DumpPage(c)

\* The slot ends; the history is of one slot.
EndSlot == /\ Tick
           /\ touched' = [c \in Devices |-> {}]
           /\ UNCHANGED <<krnl_mm, mmvm_lock, cpc, proc, op, pages>>

Next == (\E c \in Devices : Step(c)) \/ EndSlot

\* Every thread keeps running.  No more is asked of mmvm_lock: nobody comes back
\* to it within a slot.
Fairness == (\A c \in Devices : WF_vars(Step(c))) /\ WF_vars(EndSlot)

Spec == Init /\ [][Next]_vars /\ Fairness

-----------------------------------------------------------------------------
(* Properties.                                                                *)

Running == {proc[d] : d \in Devices} \ {NULL}

\* Between lock and unlock.
Inside(c) == op[c] \in Locked /\ cpc[c] \notin {"top", "lock", "dump", "dump_page", "next_slot"}

KernelTypeOK ==
    /\ ClockTypeOK
    /\ krnl_mm \in Proc \cup {NULL}
    /\ mmvm_lock \in Devices \cup {NULL}
    /\ cpc \in [Devices -> PC]
    /\ proc \in [Devices -> Proc \cup {NULL}]
    /\ op \in [Devices -> Op \cup {NULL}]
    /\ pages \in [Devices -> 0..MaxMap]
    /\ touched \in [Devices -> SUBSET (Proc \cup {NULL})]

\* The memory an instruction works on is at least that of a process some CPU has in
\* this slot, never of one that waits in a ready queue or has finished: it is the
\* timer that sees to it.
ConfinedToRunning == \A c \in Devices : touched[c] \subseteq Running

\* As long as no other CPU has a process, every instruction works on its own
\* process's memory.
OwnWhenAlone ==
    \A c \in Devices : Running \subseteq {proc[c]} => touched[c] \subseteq {proc[c]}

\* The two halves of taking a frame off a free list are never interleaved with
\* another CPU's, as long as no program asks for SYSMEM_INC_OP itself: no frame is
\* given out twice and no list node freed twice.
UnlinkExclusive ==
    \A c, d \in Devices :
        /\ c # d /\ cpc[c] = "ram_unlink" /\ cpc[d] = "ram_unlink"
               => "INC_OP" \in {op[c], op[d]}
        /\ c # d /\ cpc[c] = "swap_unlink" => cpc[d] # "swap_unlink"

\* mmvm_lock is held by the thread inside an operation and by no other: every
\* return of __alloc, __free, __read and __write gives it back.
LockHeldInside == \A c \in Devices : mmvm_lock = c <=> Inside(c)

\* Every instruction that asks for mmvm_lock gets it and comes to its end.
EveryInstructionEnds ==
    \A c \in Devices : cpc[c] = "lock" ~> cpc[c] = "next_slot"

\* What the comments say of `caller' and `proc': ALLOC, FREE, READ and WRITE work
\* on the memory of the process executing them.
OwnMemory == \A c \in Devices : op[c] \in Locked => touched[c] \subseteq {proc[c]}
=============================================================================
