-------------------------- MODULE KernelMmProofs ---------------------------
(* Proofs about KernelMm.tla, for any CPUs, processes and number of pages.    *)
EXTENDS KernelMm, TLAPS

-----------------------------------------------------------------------------
(* The inductive invariant.                                                   *)

\* READ and WRITE, which may fault.
Accesses == {"READ", "WRITE"}

\* ALLOC and a program's own SYSMEM_INC_OP.
Grows == {"ALLOC", "INC_OP"}

\* Which instructions can be at a place, ...
OpPlaced(o, l) ==
    /\ o \in Op \cup {NULL} /\ l \in PC
    /\ o = NULL => l \in {"top", "get", "run", "next_slot"}
    /\ l \in {"top", "get", "run"} => o = NULL
    /\ l \in {"lock", "lookup", "unlock", "dump", "dump_page"} => o \in Locked
    /\ l \in {"fit", "sym_start", "sym_end"} => o = "ALLOC"
    /\ l = "enlist" => o = "FREE"
    /\ l = "unlock_failed" => o \in {"FREE", "READ", "WRITE"}
    /\ l \in {"inc", "overlap", "owner"} => o \in Grows
    /\ l \in {"ram_head", "ram_unlink", "set_fpn", "enlist_pgn"} => o \in Grows \cup Accesses
    /\ l \in {"vma", "page", "victim", "swap_head", "swap_unlink", "victim_pte", "set_swap",
              "frame"} => o \in Accesses
    /\ l = "memset" => o = "MAP_OP"

\* ... and the pages it has left there.
PagesAt(o, l) ==
    IF l \in {"owner", "set_fpn", "enlist_pgn", "dump_page"} THEN 1..MaxMap
    ELSE IF l \in {"ram_head", "ram_unlink"} /\ o \in Grows THEN 0..(MaxMap - 1)
    ELSE {0}

Placed(o, l, n) == OpPlaced(o, l) /\ n \in PagesAt(o, l)

\* Inside(c), of an instruction and a place.
InsideAt(o, l) == o \in Locked /\ l \notin {"top", "lock", "dump", "dump_page", "next_slot"}

\* An instruction that moves on within its lock, or outside it.
MayGo(o, from, l, n) ==
    o # NULL /\ Placed(o, l, n) /\ (InsideAt(o, l) <=> InsideAt(o, from))

\* The CPUs that keep the process they have until the slot ends.
Settled == {d \in Devices : /\ proc[d] # NULL
                            /\ \/ cpc[d] \notin {"top", "get", "run"}
                               \/ status[d] = "arrived"}

\* Whoever executes an instruction finds the memory of such a CPU's process in krnl.
MmOfSettled ==
    /\ \A c \in Devices : op[c] # NULL => krnl_mm \in {proc[d] : d \in Settled}
    /\ \A c \in Devices : touched[c] \subseteq {proc[d] : d \in Settled}

\* A CPU that waits for the slot to end is out of its instruction.
ArrivedIsDone ==
    \A c \in Devices : /\ status[c] \in {"working", "arrived"}
                       /\ status[c] = "arrived" => cpc[c] = "top"
                       /\ op[c] # NULL \/ cpc[c] = "run" => proc[c] # NULL

IInv == /\ KernelTypeOK
        /\ \A c \in Devices : Placed(op[c], cpc[c], pages[c])
        /\ LockHeldInside
        /\ ArrivedIsDone
        /\ MmOfSettled

-----------------------------------------------------------------------------
(* Steps within an instruction, in general.                                   *)

\* A step that fetches krnl->mm keeps the invariant if the places it may go to suit
\* the instruction, and are on the same side of lock and unlock as where it was.
LEMMA UseForInv ==
    ASSUME IInv, NEW c \in Devices, NEW n, NEW from, NEW places,
           UseFor(c, n, from, places),
           \A l \in places : MayGo(op[c], from, l, n)
    PROVE  IInv'
<1>1. PICK l \in places : cpc' = [cpc EXCEPT ![c] = l]
    BY DEF UseFor, Goto
<1>2. /\ cpc[c] = from /\ status[c] = "working"
      /\ touched' = [touched EXCEPT ![c] = @ \cup {krnl_mm}]
      /\ pages' = [pages EXCEPT ![c] = n]
      /\ time' = time /\ status' = status /\ krnl_mm' = krnl_mm /\ mmvm_lock' = mmvm_lock
      /\ proc' = proc /\ op' = op
    BY DEF UseFor, At, clockVars
<1>3. /\ op[c] # NULL /\ Placed(op[c], l, n)
      /\ InsideAt(op[c], l) <=> InsideAt(op[c], cpc[c])
    BY <1>1, <1>2 DEF MayGo
<1>4. /\ l \in PC /\ n \in 0..MaxMap
      /\ l \notin {"top", "get", "run"} /\ cpc[c] \notin {"top", "get", "run"}
    BY <1>3, MaxMapAssumption DEF Placed, PagesAt, OpPlaced, IInv
<1>5. KernelTypeOK'
    BY <1>1, <1>2, <1>4 DEF IInv, KernelTypeOK, ClockTypeOK
<1>6. ASSUME NEW d \in Devices PROVE Placed(op'[d], cpc'[d], pages'[d])
    BY <1>1, <1>2, <1>3 DEF IInv, KernelTypeOK
<1>7. ASSUME NEW d \in Devices PROVE Inside(d)' <=> Inside(d)
    BY <1>1, <1>2, <1>3 DEF IInv, KernelTypeOK, Inside, InsideAt
<1>8. LockHeldInside'
    BY <1>2, <1>7 DEF IInv, LockHeldInside
<1>9. ArrivedIsDone'
    BY <1>1, <1>2, <1>3 DEF IInv, ArrivedIsDone, KernelTypeOK
<1>10. Settled' = Settled
    BY <1>1, <1>2, <1>4 DEF Settled, IInv, KernelTypeOK
<1>11. MmOfSettled'
    BY <1>2, <1>3, <1>10 DEF MmOfSettled, IInv, KernelTypeOK
<1> QED BY <1>5, <1>6, <1>8, <1>9, <1>11 DEF IInv

\* So does one that fetches nothing.
LEMMA MoveForInv ==
    ASSUME IInv, NEW c \in Devices, NEW n, NEW from, NEW places,
           MoveFor(c, n, from, places),
           \A l \in places : MayGo(op[c], from, l, n)
    PROVE  IInv'
<1>1. PICK l \in places : cpc' = [cpc EXCEPT ![c] = l]
    BY DEF MoveFor, Goto
<1>2. /\ cpc[c] = from /\ status[c] = "working"
      /\ touched' = touched
      /\ pages' = [pages EXCEPT ![c] = n]
      /\ time' = time /\ status' = status /\ krnl_mm' = krnl_mm /\ mmvm_lock' = mmvm_lock
      /\ proc' = proc /\ op' = op
    BY DEF MoveFor, At, clockVars
<1>3. /\ op[c] # NULL /\ Placed(op[c], l, n)
      /\ InsideAt(op[c], l) <=> InsideAt(op[c], cpc[c])
    BY <1>1, <1>2 DEF MayGo
<1>4. /\ l \in PC /\ n \in 0..MaxMap
      /\ l \notin {"top", "get", "run"} /\ cpc[c] \notin {"top", "get", "run"}
    BY <1>3, MaxMapAssumption DEF Placed, PagesAt, OpPlaced, IInv
<1>5. KernelTypeOK'
    BY <1>1, <1>2, <1>4 DEF IInv, KernelTypeOK, ClockTypeOK
<1>6. ASSUME NEW d \in Devices PROVE Placed(op'[d], cpc'[d], pages'[d])
    BY <1>1, <1>2, <1>3 DEF IInv, KernelTypeOK
<1>7. ASSUME NEW d \in Devices PROVE Inside(d)' <=> Inside(d)
    BY <1>1, <1>2, <1>3 DEF IInv, KernelTypeOK, Inside, InsideAt
<1>8. LockHeldInside'
    BY <1>2, <1>7 DEF IInv, LockHeldInside
<1>9. ArrivedIsDone'
    BY <1>1, <1>2, <1>3 DEF IInv, ArrivedIsDone, KernelTypeOK
<1>10. Settled' = Settled
    BY <1>1, <1>2, <1>4 DEF Settled, IInv, KernelTypeOK
<1>11. MmOfSettled'
    BY <1>2, <1>3, <1>10 DEF MmOfSettled, IInv, KernelTypeOK
<1> QED BY <1>5, <1>6, <1>8, <1>9, <1>11 DEF IInv

-----------------------------------------------------------------------------
(* The instructions.                                                          *)

USE OpAssumption, MaxMapAssumption DEF Locked, Memop, Op, Grows, Accesses

\* Looking up regions and areas.
LEMMA LookingUpInv ==
    ASSUME IInv, NEW c \in Devices,
           RefuseId(c) \/ Lookup(c) \/ FindArea(c) \/ Fit(c) \/ SymStart(c) \/
           SymEnd(c) \/ Enlist(c)
    PROVE  IInv'
<1>1. Placed(op[c], cpc[c], pages[c])
    BY DEF IInv
<1>2. CASE RefuseId(c)
  <2>1. cpc[c] = "lookup" /\ op[c] = "FREE"
      BY <1>2 DEF RefuseId, Move, MoveFor, At
  <2>2. op[c] \in Locked /\ pages[c] = 0
      BY <1>1, <2>1 DEF Placed, OpPlaced, PagesAt
  <2>3. MayGo(op[c], "lookup", "unlock_failed", pages[c])
      BY <2>1, <2>2 DEF MayGo, Placed, OpPlaced, PagesAt, PC, InsideAt
  <2> QED BY <1>2, <2>3, MoveForInv DEF RefuseId, Move
<1>3. CASE Lookup(c)
  <2>1. cpc[c] = "lookup"
      BY <1>3 DEF Lookup, Use, UseFor, At
  <2>2. op[c] \in Locked /\ pages[c] = 0
      BY <1>1, <2>1 DEF Placed, OpPlaced, PagesAt
  <2>3. \A l \in (IF op[c] = "ALLOC" THEN {"fit"}
                  ELSE IF op[c] = "FREE" THEN {"enlist", "unlock_failed"}
                  ELSE {"vma"}) : MayGo(op[c], "lookup", l, pages[c])
      BY <2>1, <2>2 DEF MayGo, Placed, OpPlaced, PagesAt, PC, InsideAt
  <2> QED BY <1>3, <2>3, UseForInv DEF Lookup, Use
<1>4. CASE FindArea(c)
  <2>1. cpc[c] = "vma"
      BY <1>4 DEF FindArea, Use, UseFor, At
  <2>2. op[c] \in Accesses /\ pages[c] = 0
      BY <1>1, <2>1 DEF Placed, OpPlaced, PagesAt
  <2>3. \A l \in {"page", "unlock_failed"} : MayGo(op[c], "vma", l, pages[c])
      BY <2>1, <2>2 DEF MayGo, Placed, OpPlaced, PagesAt, PC, InsideAt
  <2> QED BY <1>4, <2>3, UseForInv DEF FindArea, Use
<1>5. CASE Fit(c)
  <2>1. cpc[c] = "fit"
      BY <1>5 DEF Fit, Use, UseFor, At
  <2>2. op[c] = "ALLOC" /\ pages[c] = 0
      BY <1>1, <2>1 DEF Placed, OpPlaced, PagesAt
  <2>3. \A l \in {"sym_start", "inc"} : MayGo(op[c], "fit", l, pages[c])
      BY <2>1, <2>2 DEF MayGo, Placed, OpPlaced, PagesAt, PC, InsideAt
  <2> QED BY <1>5, <2>3, UseForInv DEF Fit, Use
<1>6. CASE SymStart(c)
  <2>1. cpc[c] = "sym_start"
      BY <1>6 DEF SymStart, Use, UseFor, At
  <2>2. op[c] = "ALLOC" /\ pages[c] = 0
      BY <1>1, <2>1 DEF Placed, OpPlaced, PagesAt
  <2>3. MayGo(op[c], "sym_start", "sym_end", pages[c])
      BY <2>1, <2>2 DEF MayGo, Placed, OpPlaced, PagesAt, PC, InsideAt
  <2> QED BY <1>6, <2>3, UseForInv DEF SymStart, Use
<1>7. CASE SymEnd(c)
  <2>1. cpc[c] = "sym_end"
      BY <1>7 DEF SymEnd, Use, UseFor, At
  <2>2. op[c] = "ALLOC" /\ pages[c] = 0
      BY <1>1, <2>1 DEF Placed, OpPlaced, PagesAt
  <2>3. MayGo(op[c], "sym_end", "unlock", pages[c])
      BY <2>1, <2>2 DEF MayGo, Placed, OpPlaced, PagesAt, PC, InsideAt
  <2> QED BY <1>7, <2>3, UseForInv DEF SymEnd, Use
<1>8. CASE Enlist(c)
  <2>1. cpc[c] = "enlist"
      BY <1>8 DEF Enlist, Use, UseFor, At
  <2>2. op[c] = "FREE" /\ pages[c] = 0
      BY <1>1, <2>1 DEF Placed, OpPlaced, PagesAt
  <2>3. MayGo(op[c], "enlist", "unlock", pages[c])
      BY <2>1, <2>2 DEF MayGo, Placed, OpPlaced, PagesAt, PC, InsideAt
  <2> QED BY <1>8, <2>3, UseForInv DEF Enlist, Use
<1> QED BY <1>2, <1>3, <1>4, <1>5, <1>6, <1>7, <1>8

\* Growing an area, and mapping pages to frames.
LEMMA GrowingInv ==
    ASSUME IInv, NEW c \in Devices,
           Inc(c) \/ ValidateOverlap(c) \/ RamHead(c) \/ RamUnlink(c) \/ SetOwner(c) \/
           SetFpn(c) \/ EnlistPgn(c)
    PROVE  IInv'
<1>1. Placed(op[c], cpc[c], pages[c])
    BY DEF IInv
<1>2. CASE Inc(c)
  <2>1. cpc[c] = "inc"
      BY <1>2 DEF Inc, Use, UseFor, At
  <2>2. op[c] \in Grows /\ pages[c] = 0
      BY <1>1, <2>1 DEF Placed, OpPlaced, PagesAt
  <2>3. \A l \in (IF op[c] = "ALLOC" THEN {"overlap"} ELSE {"overlap", "next_slot"}) :
             MayGo(op[c], "inc", l, pages[c])
      BY <2>1, <2>2 DEF MayGo, Placed, OpPlaced, PagesAt, PC, InsideAt
  <2> QED BY <1>2, <2>3, UseForInv DEF Inc, Use
<1>3. CASE ValidateOverlap(c)
  <2>1. cpc[c] = "overlap"
      BY <1>3 DEF ValidateOverlap, Use, UseFor, At
  <2>2. op[c] \in Grows /\ pages[c] = 0
      BY <1>1, <2>1 DEF Placed, OpPlaced, PagesAt
  <2>3. \A l \in {"ram_head", Mapped(c)} : MayGo(op[c], "overlap", l, pages[c])
      BY <2>1, <2>2 DEF MayGo, Placed, OpPlaced, PagesAt, PC, InsideAt, Mapped
  <2> QED BY <1>3, <2>3, UseForInv DEF ValidateOverlap, Use
<1>4. CASE RamHead(c)
  <2>1. cpc[c] = "ram_head"
      BY <1>4 DEF RamHead, Move, MoveFor, At
  <2>2. op[c] \in Grows \cup Accesses /\ pages[c] \in PagesAt(op[c], "ram_head")
      BY <1>1, <2>1 DEF Placed, OpPlaced, PagesAt
  <2>3. MayGo(op[c], "ram_head", "ram_unlink", pages[c])
      BY <2>1, <2>2 DEF MayGo, Placed, OpPlaced, PagesAt, PC, InsideAt
  <2> QED BY <1>4, <2>3, MoveForInv DEF RamHead, Move
<1>5. CASE RamUnlink(c)
  <2>1. cpc[c] = "ram_unlink"
      BY <1>5 DEF RamUnlink, MoveFor, At
  <2>2. op[c] \in Grows \cup Accesses /\ pages[c] \in 0..(MaxMap - 1)
      BY <1>1, <2>1 DEF Placed, OpPlaced, PagesAt
  <2>3. \A l \in {IF op[c] \in {"READ", "WRITE"} THEN "set_fpn" ELSE "owner"} :
             MayGo(op[c], "ram_unlink", l, pages[c] + 1)
      BY <2>1, <2>2 DEF MayGo, Placed, OpPlaced, PagesAt, PC, InsideAt
  <2> QED BY <1>5, <2>3, MoveForInv DEF RamUnlink
<1>6. CASE SetOwner(c)
  <2>1. cpc[c] = "owner"
      BY <1>6 DEF SetOwner, Use, UseFor, At
  <2>2. op[c] \in Grows /\ pages[c] \in 1..MaxMap
      BY <1>1, <2>1 DEF Placed, OpPlaced, PagesAt
  <2>3. \A l \in ({"set_fpn"} \cup IF pages[c] < MaxMap THEN {"ram_head"} ELSE {}) :
             MayGo(op[c], "owner", l, pages[c])
      BY <2>1, <2>2 DEF MayGo, Placed, OpPlaced, PagesAt, PC, InsideAt
  <2> QED BY <1>6, <2>3, UseForInv DEF SetOwner, Use
<1>7. CASE SetFpn(c)
  <2>1. cpc[c] = "set_fpn"
      BY <1>7 DEF SetFpn, Use, UseFor, At
  <2>2. op[c] \in Grows \cup Accesses /\ pages[c] \in 1..MaxMap
      BY <1>1, <2>1 DEF Placed, OpPlaced, PagesAt
  <2>3. MayGo(op[c], "set_fpn", "enlist_pgn", pages[c])
      BY <2>1, <2>2 DEF MayGo, Placed, OpPlaced, PagesAt, PC, InsideAt
  <2> QED BY <1>7, <2>3, UseForInv DEF SetFpn, Use
<1>8. CASE EnlistPgn(c)
  <2>1. cpc[c] = "enlist_pgn"
      BY <1>8 DEF EnlistPgn, UseFor, At
  <2>2. op[c] \in Grows \cup Accesses /\ pages[c] \in 1..MaxMap
      BY <1>1, <2>1 DEF Placed, OpPlaced, PagesAt
  <2>3. \A l \in {IF PagesLeft(c) > 0 THEN "set_fpn" ELSE Mapped(c)} :
             MayGo(op[c], "enlist_pgn", l, PagesLeft(c))
      BY <2>1, <2>2 DEF MayGo, Placed, OpPlaced, PagesAt, PC, InsideAt, PagesLeft, Mapped
  <2> QED BY <1>8, <2>3, UseForInv DEF EnlistPgn
<1> QED BY <1>2, <1>3, <1>4, <1>5, <1>6, <1>7, <1>8

\* Page faults.
LEMMA FaultInv ==
    ASSUME IInv, NEW c \in Devices,
           GetEntry(c) \/ FindVictim(c) \/ SwapHead(c) \/ SwapUnlink(c) \/
           VictimEntry(c) \/ SetSwap(c) \/ Frame(c)
    PROVE  IInv'
<1>1. Placed(op[c], cpc[c], pages[c])
    BY DEF IInv
<1>2. CASE GetEntry(c)
  <2>1. cpc[c] = "page"
      BY <1>2 DEF GetEntry, Use, UseFor, At
  <2>2. op[c] \in Accesses /\ pages[c] = 0
      BY <1>1, <2>1 DEF Placed, OpPlaced, PagesAt
  <2>3. \A l \in {"frame", "ram_head"} : MayGo(op[c], "page", l, pages[c])
      BY <2>1, <2>2 DEF MayGo, Placed, OpPlaced, PagesAt, PC, InsideAt
  <2> QED BY <1>2, <2>3, UseForInv DEF GetEntry, Use
<1>3. CASE FindVictim(c)
  <2>1. cpc[c] = "victim"
      BY <1>3 DEF FindVictim, Use, UseFor, At
  <2>2. op[c] \in Accesses /\ pages[c] = 0
      BY <1>1, <2>1 DEF Placed, OpPlaced, PagesAt
  <2>3. \A l \in {"swap_head", "unlock"} : MayGo(op[c], "victim", l, pages[c])
      BY <2>1, <2>2 DEF MayGo, Placed, OpPlaced, PagesAt, PC, InsideAt
  <2> QED BY <1>3, <2>3, UseForInv DEF FindVictim, Use
<1>4. CASE SwapHead(c)
  <2>1. cpc[c] = "swap_head"
      BY <1>4 DEF SwapHead, Move, MoveFor, At
  <2>2. op[c] \in Accesses /\ pages[c] = 0
      BY <1>1, <2>1 DEF Placed, OpPlaced, PagesAt
  <2>3. \A l \in {"swap_unlink", "unlock"} : MayGo(op[c], "swap_head", l, pages[c])
      BY <2>1, <2>2 DEF MayGo, Placed, OpPlaced, PagesAt, PC, InsideAt
  <2> QED BY <1>4, <2>3, MoveForInv DEF SwapHead, Move
<1>5. CASE SwapUnlink(c)
  <2>1. cpc[c] = "swap_unlink"
      BY <1>5 DEF SwapUnlink, Move, MoveFor, At
  <2>2. op[c] \in Accesses /\ pages[c] = 0
      BY <1>1, <2>1 DEF Placed, OpPlaced, PagesAt
  <2>3. MayGo(op[c], "swap_unlink", "victim_pte", pages[c])
      BY <2>1, <2>2 DEF MayGo, Placed, OpPlaced, PagesAt, PC, InsideAt
  <2> QED BY <1>5, <2>3, MoveForInv DEF SwapUnlink, Move
<1>6. CASE VictimEntry(c)
  <2>1. cpc[c] = "victim_pte"
      BY <1>6 DEF VictimEntry, Use, UseFor, At
  <2>2. op[c] \in Accesses /\ pages[c] = 0
      BY <1>1, <2>1 DEF Placed, OpPlaced, PagesAt
  <2>3. \A l \in {"set_swap", "unlock"} : MayGo(op[c], "victim_pte", l, pages[c])
      BY <2>1, <2>2 DEF MayGo, Placed, OpPlaced, PagesAt, PC, InsideAt
  <2> QED BY <1>6, <2>3, UseForInv DEF VictimEntry, Use
<1>7. CASE SetSwap(c)
  <2>1. cpc[c] = "set_swap"
      BY <1>7 DEF SetSwap, UseFor, At
  <2>2. op[c] \in Accesses
      BY <1>1, <2>1 DEF Placed, OpPlaced, PagesAt
  <2>3. MayGo(op[c], "set_swap", "set_fpn", 1)
      BY <2>1, <2>2 DEF MayGo, Placed, OpPlaced, PagesAt, PC, InsideAt
  <2> QED BY <1>7, <2>3, UseForInv DEF SetSwap
<1>8. CASE Frame(c)
  <2>1. cpc[c] = "frame"
      BY <1>8 DEF Frame, Use, UseFor, At
  <2>2. op[c] \in Accesses /\ pages[c] = 0
      BY <1>1, <2>1 DEF Placed, OpPlaced, PagesAt
  <2>3. MayGo(op[c], "frame", "unlock", pages[c])
      BY <2>1, <2>2 DEF MayGo, Placed, OpPlaced, PagesAt, PC, InsideAt
  <2> QED BY <1>8, <2>3, UseForInv DEF Frame, Use
<1> QED BY <1>2, <1>3, <1>4, <1>5, <1>6, <1>7, <1>8

\* Without the lock.
LEMMA UnlockedInv ==
    ASSUME IInv, NEW c \in Devices,
           PgdMemset(c) \/ DumpPage(c)
    PROVE  IInv'
<1>1. Placed(op[c], cpc[c], pages[c])
    BY DEF IInv
<1>2. CASE PgdMemset(c)
  <2>1. cpc[c] = "memset"
      BY <1>2 DEF PgdMemset, Use, UseFor, At
  <2>2. op[c] = "MAP_OP" /\ pages[c] = 0
      BY <1>1, <2>1 DEF Placed, OpPlaced, PagesAt
  <2>3. MayGo(op[c], "memset", "next_slot", pages[c])
      BY <2>1, <2>2 DEF MayGo, Placed, OpPlaced, PagesAt, PC, InsideAt
  <2> QED BY <1>2, <2>3, UseForInv DEF PgdMemset, Use
<1>3. CASE DumpPage(c)
  <2>1. cpc[c] = "dump_page"
      BY <1>3 DEF DumpPage, UseFor, At
  <2>2. op[c] \in Locked /\ pages[c] \in 1..MaxMap
      BY <1>1, <2>1 DEF Placed, OpPlaced, PagesAt
  <2>3. \A l \in {IF pages[c] > 1 THEN "dump_page" ELSE "next_slot"} :
             MayGo(op[c], "dump_page", l, pages[c] - 1)
      BY <2>1, <2>2 DEF MayGo, Placed, OpPlaced, PagesAt, PC, InsideAt
  <2> QED BY <1>3, <2>3, UseForInv DEF DumpPage
<1> QED BY <1>2, <1>3

\* A device without a free frame.
LEMMA RamEmptyInv ==
    ASSUME IInv, NEW c \in Devices, RamEmpty(c)
    PROVE  IInv'
<1>1. Placed(op[c], cpc[c], pages[c])
    BY DEF IInv
<1>2. CASE op[c] \in Accesses
  <2>1. Move(c, "ram_head", {"victim"})
      BY <1>2, RamEmpty(c) DEF RamEmpty
  <2>2. pages[c] = 0
      BY <1>1, <1>2, <2>1 DEF Move, MoveFor, At, Placed, PagesAt
  <2>3. MayGo(op[c], "ram_head", "victim", pages[c])
      BY <1>2, <2>2 DEF MayGo, Placed, OpPlaced, PagesAt, PC, InsideAt
  <2> QED BY <2>1, <2>3, MoveForInv DEF Move
<1>3. CASE op[c] \notin Accesses
  <2>1. MoveFor(c, 0, "ram_head", {Mapped(c)})
      BY <1>3 DEF RamEmpty
  <2>2. op[c] \in Grows
      BY <1>1, <1>3, <2>1 DEF MoveFor, At, Placed, OpPlaced
  <2>3. \A l \in {Mapped(c)} : MayGo(op[c], "ram_head", l, 0)
      BY <2>2 DEF MayGo, Placed, OpPlaced, PagesAt, PC, InsideAt, Mapped
  <2> QED BY <2>1, <2>3, MoveForInv
<1> QED BY <1>2, <1>3

\* print_pgtbl, with pages to print or without.
LEMMA DumpInv ==
    ASSUME IInv, NEW c \in Devices, Dump(c)
    PROVE  IInv'
<1>1. cpc[c] = "dump"
    BY DEF Dump, UseFor, At
<1>2. op[c] \in Locked
    BY <1>1 DEF IInv, Placed, OpPlaced
<1>3. CASE UseFor(c, 0, "dump", {"next_slot"})
  <2>1. MayGo(op[c], "dump", "next_slot", 0)
      BY <1>2 DEF MayGo, Placed, OpPlaced, PagesAt, PC, InsideAt
  <2> QED BY <1>2, <1>3, <2>1, UseForInv
<1>4. ASSUME NEW n \in 1..MaxMap, UseFor(c, n, "dump", {"dump_page"}) PROVE IInv'
  <2>1. MayGo(op[c], "dump", "dump_page", n)
      BY <1>2 DEF MayGo, Placed, OpPlaced, PagesAt, PC, InsideAt
  <2> QED BY <1>2, <1>4, <2>1, UseForInv
<1> QED BY <1>3, <1>4 DEF Dump

-----------------------------------------------------------------------------
(* mmvm_lock.                                                                 *)

\* A step that takes mmvm_lock going in, or gives it back coming out, keeps the
\* invariant.
LEMMA LockStepInv ==
    ASSUME IInv, NEW c \in Devices, NEW l,
           status[c] = "working", op[c] \in Locked, cpc[c] \notin {"top", "get", "run"},
           Placed(op[c], l, pages[c]),
           Goto(c, l),
           \/ /\ mmvm_lock = NULL /\ mmvm_lock' = c
              /\ InsideAt(op[c], l)
           \/ /\ Inside(c) /\ mmvm_lock' = NULL
              /\ ~InsideAt(op[c], l),
           UNCHANGED <<clockVars, krnl_mm, proc, op, pages, touched>>
    PROVE  IInv'
<1>1. /\ cpc' = [cpc EXCEPT ![c] = l]
      /\ status' = status /\ time' = time /\ krnl_mm' = krnl_mm /\ proc' = proc
      /\ op' = op /\ pages' = pages /\ touched' = touched
    BY DEF Goto, clockVars
<1>2. l \in PC /\ l \notin {"top", "get", "run"}
    BY DEF Placed, OpPlaced
<1>3. KernelTypeOK'
    BY <1>1, <1>2 DEF IInv, KernelTypeOK, ClockTypeOK
<1>4. \A d \in Devices : Placed(op'[d], cpc'[d], pages'[d])
    BY <1>1 DEF IInv, KernelTypeOK
<1>5. \A d \in Devices : Inside(d)' <=> IF d = c THEN InsideAt(op[c], l) ELSE Inside(d)
    BY <1>1 DEF IInv, KernelTypeOK, Inside, InsideAt
<1>6. LockHeldInside'
  <2>1. \A d \in Devices : d # NULL /\ (mmvm_lock = d <=> Inside(d))
      BY NullAssumption DEF IInv, LockHeldInside
  <2> QED BY <1>5, <2>1 DEF LockHeldInside
<1>7. ArrivedIsDone'
    BY <1>1 DEF IInv, ArrivedIsDone, KernelTypeOK
<1>8. Settled' = Settled
    BY <1>1, <1>2 DEF Settled, IInv, KernelTypeOK
<1>9. MmOfSettled'
    BY <1>1, <1>8 DEF MmOfSettled, IInv
<1> QED BY <1>3, <1>4, <1>6, <1>7, <1>9 DEF IInv

\* Taking and giving back mmvm_lock, on success or after a failure.
LEMMA LockInv ==
    ASSUME IInv, NEW c \in Devices, Lock(c) \/ Unlock(c) \/ UnlockFailed(c)
    PROVE  IInv'
<1>1. Placed(op[c], cpc[c], pages[c])
    BY DEF IInv
<1>2. CASE Lock(c)
  <2>1. cpc[c] = "lock" /\ status[c] = "working" /\ mmvm_lock = NULL
      BY <1>2 DEF Lock, At, LockIsFree
  <2>2. op[c] \in Locked /\ pages[c] = 0
      BY <1>1, <2>1 DEF Placed, OpPlaced, PagesAt
  <2>3. Placed(op[c], "lookup", pages[c]) /\ InsideAt(op[c], "lookup")
      BY <2>2 DEF Placed, OpPlaced, PagesAt, PC, InsideAt
  <2> QED BY <1>2, <2>1, <2>2, <2>3, LockStepInv DEF Lock
<1>3. CASE Unlock(c)
  <2>1. cpc[c] = "unlock" /\ status[c] = "working"
      BY <1>3 DEF Unlock, At
  <2>2. op[c] \in Locked /\ pages[c] = 0
      BY <1>1, <2>1 DEF Placed, OpPlaced, PagesAt
  <2>3. Placed(op[c], "dump", pages[c]) /\ ~InsideAt(op[c], "dump") /\ Inside(c)
      BY <2>1, <2>2 DEF Placed, OpPlaced, PagesAt, PC, InsideAt, Inside
  <2> QED BY <1>3, <2>1, <2>2, <2>3, LockStepInv DEF Unlock
<1>4. CASE UnlockFailed(c)
  <2>1. cpc[c] = "unlock_failed" /\ status[c] = "working"
      BY <1>4 DEF UnlockFailed, At
  <2>2. op[c] \in Locked /\ pages[c] = 0
      BY <1>1, <2>1 DEF Placed, OpPlaced, PagesAt
  <2>3. /\ Placed(op[c], AfterFailure(c), pages[c]) /\ Inside(c)
        /\ ~InsideAt(op[c], AfterFailure(c))
      BY <2>1, <2>2 DEF Placed, OpPlaced, PagesAt, PC, InsideAt, Inside, AfterFailure
  <2> QED BY <1>4, <2>1, <2>2, <2>3, LockStepInv DEF UnlockFailed, OwnerAfterFailure
<1> QED BY <1>2, <1>3, <1>4

-----------------------------------------------------------------------------
(* cpu_routine and the clock.                                                 *)

\* Between two instructions a CPU keeps its process, gives it away, or gets one: no
\* CPU that is settled is disturbed.
LEMMA BetweenInv ==
    ASSUME IInv, NEW c \in Devices, NEW l \in {"get", "run", "next_slot"},
           NEW p \in Proc \cup {NULL}, l = "run" => p # NULL,
           status[c] = "working", cpc[c] \in {"top", "get", "run"},
           Goto(c, l),
           proc' = [proc EXCEPT ![c] = p],
           UNCHANGED <<clockVars, krnl_mm, mmvm_lock, op, pages, touched>>
    PROVE  IInv'
<1>1. /\ cpc' = [cpc EXCEPT ![c] = l]
      /\ status' = status /\ time' = time /\ krnl_mm' = krnl_mm
      /\ mmvm_lock' = mmvm_lock /\ op' = op /\ pages' = pages /\ touched' = touched
    BY DEF Goto, clockVars
<1>2. op[c] = NULL /\ pages[c] = 0
    BY DEF IInv, Placed, OpPlaced, PagesAt
<1>3. KernelTypeOK'
    BY <1>1 DEF IInv, KernelTypeOK, ClockTypeOK, PC
<1>4. \A d \in Devices : Placed(op'[d], cpc'[d], pages'[d])
    BY <1>1, <1>2 DEF IInv, KernelTypeOK, Placed, OpPlaced, PagesAt, PC
<1>5. \A d \in Devices : Inside(d)' <=> Inside(d)
    BY <1>1, <1>2 DEF IInv, KernelTypeOK, Inside
<1>6. LockHeldInside'
    BY <1>1, <1>5 DEF IInv, LockHeldInside
<1>7. ArrivedIsDone'
    BY <1>1, <1>2 DEF IInv, ArrivedIsDone, KernelTypeOK
<1>8. c \notin Settled
    BY DEF Settled
<1>9. \A d \in Settled : d \in Settled' /\ proc'[d] = proc[d]
    BY <1>1, <1>8 DEF Settled, IInv, KernelTypeOK
<1>10. {proc[d] : d \in Settled} \subseteq {proc'[d] : d \in Settled'}
    BY <1>9
<1>11. MmOfSettled'
  <2> HIDE DEF Settled
  <2>1. MmOfSettled
      BY DEF IInv
  <2> QED BY <1>1, <1>10, <2>1 DEF MmOfSettled
<1> QED BY <1>3, <1>4, <1>6, <1>7, <1>11 DEF IInv

\* cpu_routine before run: the process is kept, given away, or got.
LEMMA RoutineInv ==
    ASSUME IInv, NEW c \in Devices,
           Keep(c) \/ Leave(c) \/ Get(c) \/ GetNothing(c) \/ RunNothing(c)
    PROVE  IInv'
<1>1. proc \in [Devices -> Proc \cup {NULL}] /\ pages \in [Devices -> Nat]
    BY DEF IInv, KernelTypeOK
<1>2. ASSUME NEW from \in {"top", "get", "run"}, NEW l \in {"get", "run", "next_slot"},
             Move(c, from, {l}), l = "run" => proc[c] # NULL
      PROVE  IInv'
  <2>1. /\ status[c] = "working" /\ cpc[c] = from /\ Goto(c, l)
        /\ proc' = [proc EXCEPT ![c] = proc[c]] /\ pages' = pages
        /\ UNCHANGED <<clockVars, krnl_mm, mmvm_lock, op, touched>>
      BY <1>1, <1>2 DEF Move, MoveFor, At
  <2> QED BY <1>1, <1>2, <2>1, BetweenInv
<1>3. CASE Keep(c)
    BY <1>2, <1>3 DEF Keep
<1>4. CASE Leave(c)
    BY <1>4, BetweenInv DEF Leave, At
<1>5. CASE Get(c)
    BY <1>5, BetweenInv, NullAssumption DEF Get, At
<1>6. CASE GetNothing(c)
    BY <1>2, <1>6 DEF GetNothing
<1>7. CASE RunNothing(c)
    BY <1>2, <1>7 DEF RunNothing
<1> QED BY <1>3, <1>4, <1>5, <1>6, <1>7

\* run: from here on krnl holds the memory of c's process.
LEMMA RunInv ==
    ASSUME IInv, NEW c \in Devices, Run(c)
    PROVE  IInv'
<1>1. PICK o \in Op : op' = [op EXCEPT ![c] = o] /\ Goto(c, Entry(o))
    BY DEF Run
<1>2. /\ cpc[c] = "run" /\ status[c] = "working" /\ krnl_mm' = proc[c]
      /\ cpc' = [cpc EXCEPT ![c] = Entry(o)]
      /\ status' = status /\ time' = time /\ mmvm_lock' = mmvm_lock /\ proc' = proc
      /\ pages' = pages /\ touched' = touched
    BY <1>1 DEF Run, At, Goto, clockVars, Stored
<1>3. op[c] = NULL /\ pages[c] = 0 /\ proc[c] \in Proc
    BY <1>2 DEF IInv, Placed, OpPlaced, PagesAt, ArrivedIsDone, KernelTypeOK
<1>4. Placed(o, Entry(o), 0) /\ ~InsideAt(o, Entry(o)) /\ Entry(o) \notin {"top", "get", "run"}
    BY DEF Placed, OpPlaced, PagesAt, PC, InsideAt, Entry, Memmap
<1>5. KernelTypeOK'
    BY <1>1, <1>2, <1>3, <1>4 DEF IInv, KernelTypeOK, ClockTypeOK, Placed, OpPlaced
<1>6. \A d \in Devices : Placed(op'[d], cpc'[d], pages'[d])
    BY <1>1, <1>2, <1>3, <1>4 DEF IInv, KernelTypeOK
<1>7. \A d \in Devices : Inside(d)' <=> Inside(d)
    BY <1>1, <1>2, <1>3, <1>4 DEF IInv, KernelTypeOK, Inside, InsideAt
<1>8. LockHeldInside'
    BY <1>2, <1>7 DEF IInv, LockHeldInside
<1>9. ArrivedIsDone'
    BY <1>1, <1>2, <1>3 DEF IInv, ArrivedIsDone, KernelTypeOK
<1>10. c \in Settled' /\ \A d \in Settled : d \in Settled'
    BY <1>2, <1>3, <1>4, NullAssumption DEF Settled, IInv, KernelTypeOK
<1>11. MmOfSettled'
  <2>1. krnl_mm' \in {proc'[d] : d \in Settled'}
      BY <1>2, <1>10
  <2>2. {proc[d] : d \in Settled} \subseteq {proc'[d] : d \in Settled'}
      BY <1>2, <1>10
  <2>3. \A d \in Devices : touched[d] \subseteq {proc[e] : e \in Settled}
      BY DEF IInv, MmOfSettled
  <2> HIDE DEF Settled
  <2> QED BY <1>2, <2>1, <2>2, <2>3 DEF MmOfSettled
<1> QED BY <1>5, <1>6, <1>8, <1>9, <1>11 DEF IInv

\* next_slot: the instruction is over, the process stays until the slot ends.
LEMMA NextSlotInv ==
    ASSUME IInv, NEW c \in Devices, NextSlot(c)
    PROVE  IInv'
<1>1. /\ cpc[c] = "next_slot" /\ status[c] = "working"
      /\ cpc' = [cpc EXCEPT ![c] = "top"]
      /\ status' = [status EXCEPT ![c] = "arrived"]
      /\ op' = [op EXCEPT ![c] = NULL]
      /\ time' = time /\ krnl_mm' = krnl_mm /\ mmvm_lock' = mmvm_lock /\ proc' = proc
      /\ pages' = pages /\ touched' = touched
    BY DEF NextSlot, Arrive, Goto
<1>2. pages[c] = 0
    BY <1>1 DEF IInv, Placed, PagesAt
<1>3. KernelTypeOK'
    BY <1>1 DEF IInv, KernelTypeOK, ClockTypeOK, PC, Status
<1>4. \A d \in Devices : Placed(op'[d], cpc'[d], pages'[d])
    BY <1>1, <1>2 DEF IInv, KernelTypeOK, Placed, OpPlaced, PagesAt, PC
<1>5. \A d \in Devices : Inside(d)' <=> Inside(d)
    BY <1>1 DEF IInv, KernelTypeOK, Inside
<1>6. LockHeldInside'
    BY <1>1, <1>5 DEF IInv, LockHeldInside
<1>7. ArrivedIsDone'
    BY <1>1 DEF IInv, ArrivedIsDone, KernelTypeOK, ClockTypeOK
<1>8. Settled' = Settled
    BY <1>1 DEF Settled, IInv, KernelTypeOK, ClockTypeOK
<1>9. MmOfSettled'
    BY <1>1, <1>8 DEF MmOfSettled, IInv, KernelTypeOK
<1> QED BY <1>3, <1>4, <1>6, <1>7, <1>9 DEF IInv

\* The end of a slot finds every CPU out of its instruction.
LEMMA EndSlotInv ==
    ASSUME IInv, EndSlot
    PROVE  IInv'
<1>1. /\ status \in [Devices -> Status] /\ time \in 0..Horizon
      /\ \A d \in Devices : status[d] = "arrived" /\ cpc[d] = "top" /\ op[d] = NULL
    BY DEF IInv, EndSlot, Tick, ArrivedIsDone, Placed, OpPlaced, KernelTypeOK, ClockTypeOK
<1>2. /\ status' = [d \in Devices |-> "working"]
      /\ time' \in 0..Horizon
    BY <1>1, HorizonAssumption DEF EndSlot, Tick
<1>3. /\ touched' = [c \in Devices |-> {}]
      /\ krnl_mm' = krnl_mm /\ mmvm_lock' = mmvm_lock /\ cpc' = cpc /\ proc' = proc
      /\ op' = op /\ pages' = pages
    BY DEF EndSlot
<1>4. KernelTypeOK'
    BY <1>2, <1>3 DEF IInv, KernelTypeOK, ClockTypeOK, Status
<1>5. \A d \in Devices : Placed(op'[d], cpc'[d], pages'[d])
    BY <1>3 DEF IInv
<1>6. LockHeldInside'
    BY <1>3 DEF IInv, LockHeldInside, Inside
<1>7. ArrivedIsDone'
    BY <1>1, <1>2, <1>3 DEF ArrivedIsDone
<1>8. MmOfSettled'
    BY <1>1, <1>3 DEF MmOfSettled
<1> QED BY <1>4, <1>5, <1>6, <1>7, <1>8 DEF IInv

\* A step of other parts of the simulator leaves the invariant alone.
LEMMA StutterInv == IInv /\ UNCHANGED vars => IInv'
<1> SUFFICES ASSUME IInv, UNCHANGED vars PROVE IInv'
    OBVIOUS
<1>1. /\ time' = time /\ status' = status /\ krnl_mm' = krnl_mm /\ mmvm_lock' = mmvm_lock
      /\ cpc' = cpc /\ proc' = proc /\ op' = op /\ pages' = pages /\ touched' = touched
    BY DEF vars
<1>2. Settled' = Settled
    BY <1>1 DEF Settled
<1> QED BY <1>1, <1>2 DEF IInv, KernelTypeOK, ClockTypeOK, LockHeldInside, Inside,
                          ArrivedIsDone, MmOfSettled

-----------------------------------------------------------------------------
(* The theorems.                                                              *)

\* Before the first slot nobody has a process or the lock.
LEMMA InitInv == Init => IInv
<1> SUFFICES ASSUME Init PROVE IInv
    OBVIOUS
<1>1. KernelTypeOK
    BY HorizonAssumption DEF Init, ClockInit, KernelTypeOK, ClockTypeOK, Status, PC
<1>2. \A c \in Devices : Placed(op[c], cpc[c], pages[c])
    BY DEF Init, Placed, OpPlaced, PagesAt, PC
<1>3. LockHeldInside
    BY NullAssumption DEF Init, LockHeldInside, Inside
<1>4. ArrivedIsDone
    BY DEF Init, ClockInit, ArrivedIsDone
<1>5. MmOfSettled
    BY DEF Init, MmOfSettled
<1> QED BY <1>1, <1>2, <1>3, <1>4, <1>5 DEF IInv

\* Every step of every CPU, at the granularity of its fetches of krnl->mm, and the end
\* of the slot, keep the invariant.
THEOREM Inductive == Spec => []IInv
<1>1. IInv /\ [Next]_vars => IInv'
  <2> SUFFICES ASSUME IInv, [Next]_vars PROVE IInv'
      OBVIOUS
  <2>1. ASSUME NEW c \in Devices, Step(c) PROVE IInv'
      BY <2>1, LookingUpInv, GrowingInv, RamEmptyInv, FaultInv, UnlockedInv, DumpInv,
         LockInv, RoutineInv, RunInv, NextSlotInv DEF Step
  <2> QED BY <2>1, EndSlotInv, StutterInv DEF Next
<1> QED BY <1>1, InitInv, PTL DEF Spec

\* Every reachable state of CPUs over one krnl->mm is well typed
\* (KernelTypeOK of the kernel_mm run).
THEOREM KernelTypeCorrect == Spec => []KernelTypeOK
<1>1. IInv => KernelTypeOK
    BY DEF IInv
<1> QED BY <1>1, Inductive, PTL

\* Whoever holds mmvm_lock is inside __alloc, __free, __read or __write, and whoever is
\* inside holds it: no return keeps it (LockHeldInside of the kernel_mm run).
THEOREM LockIsGivenBack == Spec => []LockHeldInside
<1>1. IInv => LockHeldInside
    BY DEF IInv
<1> QED BY <1>1, Inductive, PTL

\* No two CPUs are in the middle of MEMPHY_get_freefp, but for a program's own
\* SYSMEM_INC_OP (UnlinkExclusive of the kernel_mm run).
THEOREM UnlinkIsExclusive == Spec => []UnlinkExclusive
<1>1. IInv => UnlinkExclusive
  <2> SUFFICES ASSUME IInv, NEW c \in Devices, NEW d \in Devices, c # d
               PROVE  /\ cpc[c] = "ram_unlink" /\ cpc[d] = "ram_unlink"
                             => "INC_OP" \in {op[c], op[d]}
                      /\ cpc[c] = "swap_unlink" => cpc[d] # "swap_unlink"
      BY DEF UnlinkExclusive
  <2>1. ~(Inside(c) /\ Inside(d))
      BY DEF IInv, LockHeldInside
  <2>2. \A e \in Devices :
           /\ cpc[e] = "ram_unlink" /\ op[e] # "INC_OP" => Inside(e)
           /\ cpc[e] = "swap_unlink" => Inside(e)
      BY DEF IInv, Placed, OpPlaced, Inside
  <2> QED BY <2>1, <2>2
<1> QED BY <1>1, Inductive, PTL

\* An instruction works on the memory of processes some CPU has in this slot
\* (ConfinedToRunning of the kernel_mm run).
THEOREM MemoryIsOfRunning == Spec => []ConfinedToRunning
<1>1. IInv => ConfinedToRunning
  <2>1. {proc[d] : d \in Settled} \subseteq Running
      BY DEF Settled, Running
  <2> HIDE DEF Settled
  <2> QED BY <2>1 DEF IInv, MmOfSettled, ConfinedToRunning
<1> QED BY <1>1, Inductive, PTL

\* With one CPU at work there is one memory: its process's
\* (OwnWhenAlone of the kernel_mm run).
THEOREM AloneOnOwnMemory == Spec => []OwnWhenAlone
<1>1. ConfinedToRunning => OwnWhenAlone
    BY DEF ConfinedToRunning, OwnWhenAlone
<1> QED BY <1>1, MemoryIsOfRunning, PTL
=============================================================================
