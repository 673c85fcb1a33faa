# A verification of OS_Lamia in TLA+

OS_Lamia (`src/OS_LaminaAtrium-main/`) simulates a small operating system: CPU
threads take processes from a multi-level ready queue, a loader thread adds
processes at the slots a configuration file gives, a timer thread keeps all of
them in lock step, and a paging memory manager backs the ALLOC, FREE, READ and
WRITE instructions. File names below are relative to its `src/` directory, and
the build is the one `include/os-cfg.h` selects: `MLQ_SCHED`, `MM_PAGING`,
`MM64`. `mm.c`, the 32-bit alternative of `mm64.c`, is modelled too.

`tlc -workers 2 -config X.cfg M` repeats a run of the table below, `tlapm M.tla`
the proofs of module M. `PROJECT.json` maps each definition to the lines it
translates, and lists the mutants each property was seen to catch.

## 1. Inventory

### Slot timer (`timer.c`)
* State: the list of containers (`dev_list`), one `timer_id_t` per device (flags
  `done` and `fsh`, mutexes `event_lock` and `timer_lock`, two condition
  variables), `_time`, `timer_started`, `timer_stop`.
* Operations: `attach_event`, `start_timer`, `next_slot`, `detach_event`,
  `stop_timer`, `current_time`, and the thread `timer_routine`.
* Hard: the hand-shake through `done`, which a device sets under one mutex and
  the timer clears under another; lost or spurious wake-ups; devices that run
  ahead while the release loop still holds others; devices that detach between
  rounds; freeing containers while the timer leaves.
* Correct when: no device skips a slot or lives through one twice; the clock ticks
  only when everybody arrived; every `next_slot` returns; shutdown completes and
  frees nothing in use.

### Ready queues and scheduler (`queue.c`, `sched.c`)
* State: one queue per priority, the `slot` each level has left in the round,
  `running_list`; one mutex over all of it.
* Operations: `get_proc`, `put_proc`, `add_proc`, called by CPUs and loader.
* Hard: bounded queues, the round of slots while processes keep arriving and being
  put back, the array shift in `dequeue`.
* Correct when: no process is lost, duplicated or starved.

### CPU threads, loader thread, main (`os.c`, `cpu.c`)
* State: each CPU's `proc` and `time_left`, the loader's index, the flag `done`
  (unprotected), each pcb's `pc`.
* Operations: `cpu_routine`, `ld_routine`, `run`; main creates and joins.
* Hard: a process moving between CPUs within a slot; `done` read without a lock
  while the queue was just found empty; the quantum kept in a local of the CPU.
* Correct when: a process is on at most one CPU and runs one instruction per slot,
  no quantum is inherited, nothing is left behind when CPUs stop, every process
  finishes and the simulator ends.

### Virtual memory regions (`libmem.c`, `mm-vm.c`)
* State, per process: the area's `vm_end` and `sbrk`, its list of free regions,
  `symrgtbl`, the region each symbol holds. `mmvm_lock` covers each operation.
* Operations: `__alloc`, `__free`, `__read`, `__write`.
* Hard: long sequences of legal calls (first fit, splitting, overwriting a symbol
  that holds a region), rounding, the conversion of sizes and addresses to `int`.
* Correct when: no byte is in two regions, bytes do not leak, and an access reaches its own
  region from any offset that lies in it. (From others the code does let it leave.)

### Paging (`mm64.c` or `mm.c`, with `libmem.c`)
* State, per process: the page table and the FIFO list; shared by all: the frames.
* Operations: mapping a range (`vm_map_ram`), page faults with eviction and swap
  (`pg_getpage`), `pg_getval`, `pg_setval`.
* Hard: RAM and swap running out half-way through an operation, the overlapping bit
  fields of an entry, error codes returned through unsigned types; in the 64-bit
  build, tables of the page tree that come into being on the way to a page.
* Correct when: frames are exclusive, a process reads back what it wrote and sees
  nothing of another's, and no page's entry is changed on behalf of another page.

### Physical memory devices (`mm-memphy.c`)
* State: contents and a free list of frames; operations: get and put a frame, read
  and write a byte. Called by the paging code only.

### System calls (`syscall.c`, `sys_mem.c`, `sys_listsyscall.c`, `sys_killall.c`, `libstd.c`)
* State: the shared `krnl`, whose `mm` field `run` overwrites at every instruction;
  `mmvm_lock`, which the instructions ALLOC to WRITE hold and a program's own
  SYSCALL does not.
* Operations: `libsyscall`, `syscall`, `__sys_memmap` with its five memory operations.
* Hard: with several CPUs, `krnl->mm` may be another process's by the time it is
  used (`cpu.c:70`, `os.c:117`); the free lists are reached with and without the lock.
* Correct when: an instruction works on its own process's memory, no frame is handed
  out twice, and `mmvm_lock` is given back on every path.

### Program loader (`loader.c`), legacy memory manager (`mem.c`, `paging.c`)
Pure parsing with no shared state; code of an earlier release that this build
does not reach. Not modelled.

### How they interact
CPU and loader threads call `next_slot` once per slot and the scheduler in
between; `run` stores the process's `mm` in `krnl` and calls the memory library,
which calls itself back through the system call table (`sys_memmap`) into
`mm-vm.c`, the paging code and the devices. `main` attaches everything before the
timer starts and joins everything before `stop_timer`.

## 2. Modules

    SlotClock <---- refines ---- Timer
        ^
        | extends
       Os  ---- extends ---> Mlq <--- extends --- Sched <--- extends --- SchedWait
        |                                           ^
        +------------- refines ---------------------+
    VmArea

    Pte <- PageMap <---- refines ---- PageTable (EXTENDS Pte)
     ^
     | extends
    Paging ---- refines, 32-bit build ----> PageStore

    SlotClock <---- extends ---- KernelMm

    TimerProofs, SchedProofs (of Sched and SchedWait), OsProofs, VmAreaProofs, PagingProofs,
    PageTableProofs, KernelMmProofs: each extends what it proves about.
    OsProofs ---- INSTANCE ----> SchedProofs
    SchedProofs, PagingProofs, PageTableProofs ---- extend ----> Induction

| Module | Models | State and actions |
|---|---|---|
| `SlotClock` | what `timer.c` promises | `time` and the `status` of each device; `Arrive` (next_slot), `Detach`, `Tick` |
| `Timer` | `timer.c`, one step between two acquisitions of a mutex | the C variables under their names, mutexes as owners, sleeping on a condition variable as a program counter value; one action per mutex section |
| `Mlq` | `queue.c` and `sched.c` | `mlq_ready_queue`, `slot`, `running_list`; `GetProc`, `PutProc`, `AddProc`, each one section of `queue_lock` |
| `Sched` | the scheduler in the open: any CPU, any loader | `Load`, `Get`, `Put`, `Finish` and the sets of processes loaded, held, freed |
| `SchedWait` | `Sched` with a history of waiting | counts the dispatches a process sits through |
| `Os` | `os.c` and the dispatch part of `cpu.c` on `Mlq` and `SlotClock` | a program counter per thread, one action per branch of `cpu_routine` and `ld_routine` |
| `VmArea` | regions | one action per `__alloc` (from the list or at the break), `__free`, `__read`, `__write` |
| `Pte` | a page table entry and what `pte_set_fpn` and `pte_set_swap` make of it | no state |
| `PageMap` | what a page table is for its users | one entry per page number, changed by itself |
| `PageTable` | `pgd` to `pt` of `mm64.c` | the tables of directories and of entries by address; `PteSetFpn`, `PteSetSwap`, `VmapPgdMemset`, which allocate what is missing on their way |
| `PageStore` | what the 32-bit build's paging gives its processes | contents and size of each process's memory, and whether a page has been lost |
| `Paging` | page tables, frames, swap, both builds (`MM64`) | one action per ALLOC (`vm_map_ram`), READ, WRITE; the handlers are functions on the state they work with |
| `KernelMm` | CPUs over one `krnl->mm`: `run`, `libsyscall`, `sys_memmap`, the memory instructions | a program counter per CPU; one action per fetch of `krnl->mm`, per half of `MEMPHY_get_freefp`, per lock and unlock |
| `Induction` | nothing of the program | induction on natural numbers stated of sets and functions, for proofs about loops |
| `*Proofs` | no new behaviour | invariants, lemmas and theorems; section 5 |
| `MC*` | instances for TLC | model values, symmetry, configurations |

Abstractions: a page's contents are one value in `Paging`, since paging moves whole
pages. `Paging` takes a page table for a function from page numbers to entries; that
the tree of `mm64.c` is one is what `PageTable` shows, and `PageTableProofs` proves (`mm.c` has an array). An
instruction in `Os` is an increment of the program counter, since its effects on memory
do not feed back into scheduling. In `VmArea` and `Paging` a memory operation is one step
because `mmvm_lock` covers it, and works on the running process's memory, which is so
with one CPU. `KernelMm` takes both apart: it keeps whose memory each fetch meets and
nothing of what the memory holds, so every branch the data could decide is open. It
shows when the assumption holds (`OwnWhenAlone`), what is left of it otherwise
(`ConfinedToRunning`, `UnlinkExclusive`), and that with two CPUs it fails (finding 3).

`Paging` assumes programs that access what is in their area (`InArea`), of less than 4 MB,
where no two pages have one number. Reads are always in it (`ReadsOwnBytes`); a write is as
long as its offset is within its region. `VmArea` converts the 64-bit sum of a region's start
and an offset as the code does: `int` keeps the low half (`ToInt`, 2^31 being `IntLimit`), the
test of `__read` refuses a negative one, and `PAGING_PGN` and `PAGING_OFFST` keep what
`MaxSpace` (2^22) tells apart. Which accesses then meet bytes that are not theirs is what
`OnlyWildOffsetsTrespass` says.

Undefined behaviour: the racy reads of `timer_stop`, and of `done` in `os.c`, return
the old or the new value, which is what reading before or after the write gives.
The indices outside `symrgtbl` and `mlq_ready_queue` are excluded by assumptions.
The fields `init_mm` leaves as malloc returned them are zeros: the loader thread
allocates every `mm_struct` from its own fresh heap.

## 3. Runs

| Run | Question | Result |
|---|---|---|
| `timer` | hand-shake, races, use after free of `timer.c`; does it implement `SlotClock`; does everybody get out | holds |
| `sched` | losing, duplicating, starving processes; does `running_list` miss one that runs | holds, with a tight bound |
| `sched_overflow` | the same when a queue is full | violated: finding |
| `os` | CPUs, loader, scheduler and clock together | holds |
| `os_never_stops` | does the simulator end with more CPUs than processes | violated: finding |
| `vm_area` | overlap and leaks of regions; which accesses leave theirs | holds |
| `paging32` | frames, swap, contents in the 32-bit build; does it implement `PageStore` | holds, but for swap frame 0 |
| `paging_remap` | contents in the 64-bit build | violated: finding |
| `paging_evict` | exclusive frames in the 64-bit build | violated: finding |
| `page_table` | is the tree of `mm64.c` one entry per page | holds |
| `kernel_mm` | what `mmvm_lock` and the slots still guarantee over one `krnl->mm` | holds |
| `kernel_mm_own` | does an instruction work on its own process's memory | violated: finding |

Bounds, and why they are enough:
* `timer`: three devices, so that one can run ahead, one be held and one have detached;
  two slots each, so that a second round meets the leftovers of the first. `MaxSlots`
  bounds how often a device calls `next_slot`; it may detach earlier. The run has
  liveness, so no symmetry.
* `sched`: three levels give slot counts 3, 2, 1; two processes share the lowest, the
  third makes the highest busy for ever. `sched_overflow` takes queues of one entry for
  the code's 50.
* `os`: three CPUs and three processes, two on one level, one of them late; quantum 2
  and programs of 3, 1 and 3 instructions, so that each way of losing a CPU occurs.
  `Horizon` cuts the clock after the last start time.
* `vm_area`: pages of two bytes, sizes 0 to 3 (empty, partial, exact, more than a page),
  a break of at most 5: free lists reach several regions of different sizes.
  `MaxBreak` bounds the allocations at the break. Accesses are made at offset 1, which is
  within some regions, at the end of others and beyond it of empty ones; and at offset 10,
  which an `int` of -6 to 5 makes negative from a start of 0 or 1, and wraps around to below
  its region from a start of 2 or more: such reads do reach other symbols in the run.
* `paging32`: six pages want two frames of RAM and three of swap, so allocations and
  faults fail at each point they can. `MaxPages` bounds a process's area. The 64-bit
  runs have one frame (eviction) or more than anybody can ask for (no eviction).
* `page_table`: three levels of two slots for the code's five of 512: a first table, an
  inner one and a last one are the three kinds there are. The four pages share every
  table, some, or none; ranges of two cross a table's end. `MaxRange` bounds what one
  `vmap_pgd_memset` covers.
* `kernel_mm`: two CPUs and three processes, so that a slot can leave one process waiting.
  `MaxMap` bounds the pages one instruction maps or prints: two, so that a loop is entered
  again. `Horizon` is 0, so the clock does not count; each slot is like the next.

Deadlock is checked in every run; the models that end have an explicit final step.

### Fairness
`Timer`: weak fairness of main, the timer thread and each device thread, for the
scheduler of the host runs a thread that can run. Each mutex is held for one short
section, and weak fairness suffices since the holder's next step always frees it.
Condition variables may wake up spuriously, but nothing obliges them to, so progress
must come from the signals; a waiter woken spuriously for ever could keep taking a mutex,
so from some point on wake-ups are genuine (`<>[][~Spurious]_vars`).
`Os`: weak fairness of each thread and of the tick; the second is what `timer`
establishes (`UsefulTick` of `SlotClock`).
`KernelMm`: weak fairness of each CPU and of the end of the slot. Nothing stronger is asked
of `mmvm_lock`: a CPU asks for it at most once in a slot, so the others run out of turns.

## 4. Findings

1. `os.c:60`: a CPU that finds no process at the top of its loop never looks at
   `done`; with more CPUs than processes the simulator never ends.
2. `queue.c:18`: a full queue drops the process it is given.
3. `cpu.c:70`: `run` stores the process's `mm` in the one `krnl` of all CPUs; an instruction
   holding `mmvm_lock` then works on the memory of the process another CPU runs.
4. `mm64.c:393`: pages are mapped in units of 4096 and laid out in units of 256, so a
   second ALLOC replaces the frame of a page in use.
5. `mm64.c:167`: an evicted page stays marked present.

Also seen, and built into a property rather than a run of its own:
* `libmem.c:307` takes swap frame 0 for "never swapped": the first page evicted comes back
  empty, and the frame is not given back (`LostOnlyAtFrameZero`, and `PageStore`, say it is
  the only one).
* `sched.c:110`: `running_list` is never shortened; `RunningIsListed` says what it is good for.
* `libmem.c:426`: `__read` truncates the 64-bit address to `int` before "Ensure read is within
  the allocated region" (`libmem.c:428`) and then tests the end only. From a region at 256,
  offset 2^32 - 256 reads address 0 (`OnlyWildOffsetsTrespass` has the exception).
* `libmem.c:489`: `__write` tests no bound where `__read` does, and `pg_setval` takes the address
  as an `int` (`libmem.c:373`): a write may end up on either side of its region.
* `mm.c:329`: a newly allocated page of the 32-bit build is not cleared; what it shows is
  never another process's (`StoreAlloc` of `PageStore`), since frames go from process to
  process only by way of a free list nothing is put back on.
* `sys_mem.c:55`: a program's own `SYSMEM_INC_OP` takes frames without `mmvm_lock`
  (the exception in `UnlinkExclusive`).

## 5. Proofs

All proofs are checked by TLAPS to the last leaf. Every safety property a passing run
checks is a theorem, for every value of the constants that the named assumptions allow;
the modules that declare the constants state these, and TLC evaluates them on each run.
Each inductive invariant was an invariant of a TLC run before it was proved.

* `TimerProofs`, for every finite set of devices and any `MaxSlots`: `TypeOK`, `HandShake`,
  `SlotAgreement`, `NoDataRace`, `NoUseAfterFree`. None of the last three is inductive:
  that a device has lived through `_time` slots follows from what the flags say about
  where it stands relative to the timer's cursor. `HandShake` says that: a device heard
  in this round, or not yet released, has `done` or `fsh` set and has not moved, and a
  device at work has both clear. The argument turns on the cursor: moving it adds
  exactly the device it stood on to those heard or released (lemma `Advance`), and at
  the end of the list all are. `TimerKeepsLockStep` is the safety part of `ImplementsClock`:
  setting `done` maps to `Arrive`, setting `fsh` to `Detach`, the increment of `_time` to `Tick`,
  everything else to a stutter. A tick of `SlotClock` stops at `Horizon`, so the proof needs that `_time` does
  not get there early; `WithinHorizon` says so, from the slots the devices have lived through.
* `SchedProofs`, for any number of levels and processes. Whatever the capacity of the
  queues: `SchedTypeOK`, `RunningIsListed`, `BoundedWait`, and `NoProcessDoubled`, the part
  of `NoProcessLost` that a full queue cannot break. `NoProcessLost` itself under
  `RoomForAll`: a queue can hold all processes of its level, without which
  `sched_overflow` shows the loss. The lemmas say what the shift loop of `dequeue` leaves,
  that a queue without duplicates has at most the processes of its level, and that a
  dispatch moves exactly one process.
  `BoundedWait` needs a measure of what is ahead of a waiting process (`Ahead`): the
  slots all levels have left in this round, whole rounds for the processes in front of it
  that this round cannot serve, and the last round without the slots its level keeps. A
  dispatch of any level takes one from it (`DispatchPasses`); the start of a round adds
  nothing to it, since none starts while the process's level has a slot (`RoundKeepsAhead`);
  at any place in any state of a round it is below the bound (`AheadAtMost`). So what a
  process has sat through and what is ahead of it stay below the bound together.
* `OsProofs`, for any CPUs, levels, configuration and quantum: `OsTypeOK`,
  `NoLeftoverQuantum`, the action property `OneInstructionPerSlot`, and `ImplementsSched`;
  `StoppedMeansFinished` under `RoomForAll` and with a CPU at all. `OsInv` instantiates the
  invariant of `SchedProofs` with the processes the loader has been through and those the
  CPUs hold, and adds where each thread's program counter may be with which of its
  locals. What makes `StoppedMeansFinished` hold is `SomebodyLooks`: once everything is
  loaded, as long as a process waits, there is a CPU that has not just found the queues
  empty, so the CPU that put it there is not about to stop.
* `KernelMmProofs`, for any CPUs, processes and `MaxMap`: `KernelTypeOK`, `LockHeldInside`,
  `UnlinkExclusive`, `ConfinedToRunning`, `OwnWhenAlone`. The invariant says where each
  instruction may stand (`Placed`), that a CPU waiting for the slot to end is out of its
  instruction (`ArrivedIsDone`), and that `krnl->mm` belongs to a CPU that keeps its process
  for the rest of the slot as long as any CPU executes (`MmOfSettled`): the last writer of
  `krnl->mm` may be done before another CPU's fetch, but not rid of its process.
* `VmAreaProofs`, for any symbols, page size and bounds: `VmTypeOK`, `RegionsDisjoint`,
  `EveryByteAccounted`, `BreakWithinLimit`, `OnlyWildOffsetsTrespass`, and `ReadsOwnBytes`, under
  `SizesFitInt` (sizes below 2^31), for any offset. None of the first four is inductive
  without the others: a region cut from the free list is disjoint from the symbols only
  because the list was. The lemmas follow each region of the new free list back to the one
  it came from (`Came`). The fifth adds `AccessFacts`: in a region below `MaxSpace`, an offset
  within the region survives both the `int` and the page number.
* `PagingProofs`, for the 32-bit build (`~MM64`; the runs show that the 64-bit build violates
  the same properties) and any processes, devices, contents and `MaxPages` (the code's page
  numbers are those of the model up to 2^14, an area of 4 MB): `PagingTypeOK`,
  `NoFrameShared`, `NoSwapFrameShared`, `FifoIsResident`, `LostOnlyAtFrameZero`,
  `ImplementsPageStore`. The invariant `PagingInv` covers frames of RAM behind pages, free,
  and taken by a handler but not yet mapped (`FramesOK`), swap frames (`SwapOK`), the FIFO
  lists and what each page shows. The handlers are loops that stop half-way in several
  places, so each is proved turn by turn: every turn keeps the invariant of a handler under
  way, and every page shows what it did, or has gone to swap frame 0. Reading an old
  content in a new page is possible, but only the process's own: a frame comes from the
  free list blank, or from a page of the same process.
* `PageTableProofs`, for any number of levels, any fan-out and any page numbers of that many
  digits: `PageTableTypeOK`, `OneTablePerPrefix` (if there are pages at all), and
  `ImplementsPageMap`. The invariant `Tree` says that the tables on the way of two pages
  coincide only where the pages agree in all higher digits, that a table is at one level,
  and that every table is on some page's way. It is kept by linking one new table
  (`TreeLinked`), which every walk repeats, and storing an entry disturbs no other page
  because two pages that end in the same slot of the same table are one.
* `Induction`: least elements, induction and invariants of loops, and that a recursive
  function is what its equation says. The loops of `Paging`, `PageTable` and the sums of
  `SchedProofs` are such functions. Everything is stated of sets and functions, because the
  provers take no theorem with an operator for a parameter.

Model-checked only, since it needs fairness and ENABLED, which is out of the prover's reach:
`NextSlotTerminates`, `ShutdownCompletes`, the liveness part of `ImplementsClock`,
`EveryProcessFinishes` and `EveryInstructionEnds`.

## 6. Not modelled

* `loader.c` and `read_config`: parsing, no shared state.
* `killall` and `listsyscall`: `killall` is called through the table with arguments of
  other types than its definition has; what it does to `running_list` is undefined.
* `mem.c`, `paging.c`, the code under `#ifndef MLQ_SCHED`: not part of this build.
* The sequential mode of devices: main opens every device as random access.
* What a program's own `SYSCALL 17` does to regions, tables and devices: `KernelMm` has its
  steps on `krnl->mm` and the free lists, `PageTable` the effect of `vmap_pgd_memset` on
  the 64-bit tree; `VmArea` and `Paging` have the instructions ALLOC, FREE, READ and WRITE.
  `vmap_pgd_memset` of the 32-bit build is left out with it.
* What `print_pgtbl` prints, and a read of a table between its allocation and its `memset`.
* The break in `VmArea` is the 64-bit build's; `mm.c`'s moves by whole pages.
* `free_pcb_memph`, `purgequeue`, `queue_empty`, `init_pte`, `pte_set_entry`,
  `get_vm_area_node_at_brk`: called by nobody.

## 7. Plan

The model is what it is meant to be, and the safety properties of its passing runs are
proved. What is left:

1. Theorems about the 64-bit build of `Paging` for what its findings leave standing: which
   of `NoFrameShared` and `NoSwapFrameShared` hold as long as RAM suffices, under which layout.
2. What `EveryProcessFinishes` and `EveryInstructionEnds` need besides fairness, as safety:
   that no thread waits for one that waits for it.
3. Shorter proofs where a lemma of `Induction` has replaced an argument of its own.
