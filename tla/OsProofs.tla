----------------------------- MODULE OsProofs -----------------------------
(* Proofs about Os.tla, for any CPUs, levels, configuration file and quantum. *)
EXTENDS Os, SequenceTheorems, FiniteSetTheorems, TLAPS

\* The processes the loader has been through.
Loaded == {Config[k] : k \in 1..(i - 1)}

\* What is proved of the scheduler in any environment.  Os keeps no history of waiting, and
\* nothing below depends on what stands for it.
SP == INSTANCE SchedProofs WITH loaded <- Loaded, held <- Running,
                                waited <- [p \in Proc |-> 0]

-----------------------------------------------------------------------------
(* The inductive invariant.                                                   *)

\* The locals of cpu_routine.
CpuTypeOK == /\ cpc \in [CPU -> CpuPC]
             /\ proc \in [CPU -> Proc \cup {NULL}]
             /\ time_left \in [CPU -> 0..time_slot]

\* What a CPU knows about its process, the quantum and the flag where it stands.
CpuPlaced ==
    \A c \in CPU :
        /\ cpc[c] \in {"first_get", "get", "detach", "stopped"} => proc[c] = NULL
        /\ cpc[c] = "run" => proc[c] # NULL /\ time_left[c] > 0
        /\ cpc[c] \in {"detach", "stopped"} => done
        /\ status[c] = "arrived" => cpc[c] = "top"
        /\ status[c] = "detached" <=> cpc[c] = "stopped"

\* No two CPUs have the same process.
OwnProcess == \A c, d \in CPU : c # d /\ proc[c] = proc[d] => proc[c] = NULL

\* A process that has executed in this slot stays where it did, until the slot ends.
RanIsOver ==
    \A p \in ran : \E c \in CPU : proc[c] = p /\ (cpc[c] = "next_slot" \/ status[c] = "arrived")

\* The programs.
PcTypeOK == pc \in [Proc -> Nat] /\ \A p \in Proc : pc[p] <= code_size[p]

CpuInv == /\ CpuTypeOK /\ CpuPlaced /\ NoLeftoverQuantum /\ OwnProcess /\ RanIsOver
          /\ PcTypeOK /\ ran \subseteq Proc

\* The locals of ld_routine, and the flag.
LoaderInv == /\ lpc \in LoaderPC /\ i \in 1..(Len(Config) + 1) /\ done \in BOOLEAN
             /\ done <=> lpc \in {"detach", "stopped"}
             /\ done => i = Len(Config) + 1
             /\ status[ld] = "arrived" => lpc = "load"
             /\ status[ld] = "detached" <=> lpc = "stopped"

\* The loader has been through the configuration since before this slot.
AllIn == i = Len(Config) + 1 /\ lpc # "next_slot" /\ status[ld] # "arrived"

\* A CPU that is on its way out, unless `done' still holds it back.
FoundNothing(c) == \/ cpc[c] \in {"detach", "stopped"}
                   \/ cpc[c] = "recheck" /\ proc[c] = NULL

\* From then on a process that waits is one that some CPU will look for.
SomebodyLooks ==
    CPU # {} /\ AllIn /\ SP!Queued # {} => \E c \in CPU : ~FoundNothing(c)

OsInv == /\ SP!SchedInv
         /\ ClockTypeOK
         /\ CpuInv
         /\ LoaderInv
         /\ SomebodyLooks

-----------------------------------------------------------------------------
(* The scheduler's operations, as Os and as SchedProofs name them.            *)

\* SP has an IsFiniteSet of its own.
LEMMA ProcFinite == SP!IsFiniteSet(Proc)
BY ProcAssumption DEF SP!IsFiniteSet, IsFiniteSet

\* The names of the operations, and what they mean there.
LEMMA GetProcSame == ASSUME NEW p PROVE SP!GetProc(p) <=> GetProc(p)
BY Zenon DEF SP!GetProc, GetProc, SP!mlqVars, mlqVars, SP!Idle, Idle, SP!NonEmpty, NonEmpty,
   SP!Level, Level, SP!IsFirst, IsFirst, SP!Eligible, Eligible, SP!RoundSlot, RoundSlot,
   SP!FullSlot, FullSlot, SP!Dequeued, Dequeued, SP!HighestPrioIdx, HighestPrioIdx,
   SP!AfterDequeue, AfterDequeue, SP!RemoveIdx, RemoveIdx, SP!Spend, Spend, SP!Enqueue, Enqueue

\* The same of put_proc.
LEMMA PutProcSame == ASSUME NEW p PROVE SP!PutProc(p) <=> PutProc(p)
BY Zenon DEF SP!PutProc, PutProc, SP!Enqueue, Enqueue

\* The scheduler's invariant, in this module's terms.
LEMMA SchedInvSays ==
    ASSUME OsInv
    PROVE  /\ MlqTypeOK /\ \A l \in Level : slot[l] <= FullSlot(l)
           /\ Loaded \subseteq Proc /\ Running \subseteq Proc /\ freed \subseteq Proc
           /\ SP!Queued \cap Running = {}
           /\ SP!Queued \subseteq Loaded
<1>1. MlqTypeOK /\ \A l \in Level : slot[l] <= FullSlot(l)
    BY DEF OsInv, SP!SchedInv, SP!SchedTypeOK, SP!MlqTypeOK, MlqTypeOK, SP!Level, Level,
           SP!FullSlot, FullSlot
<1> QED BY <1>1 DEF OsInv, SP!SchedInv, SP!SchedTypeOK, SP!NoProcessDoubled

\* get_proc returns a process that was waiting, ...
LEMMA GotWasQueued ==
    ASSUME OsInv, NEW p \in Proc, GetProc(p)
    PROVE  p \in SP!Queued /\ p \notin Running /\ SP!Queued' = SP!Queued \ {p}
<1>1. SP!SchedTypeOK /\ SP!QueuesInOrder /\ SP!GetProc(p)
    BY GetProcSame DEF OsInv, SP!SchedInv, SP!NoProcessDoubled
<1>2. p \in SP!Queued /\ SP!Queued' = SP!Queued \ {p}
    BY <1>1, SP!GetProcMoves, ProcFinite, MaxPrioAssumption, QueueSizeAssumption,
       ProcAssumption, PrioAssumption
<1> QED BY <1>2, SchedInvSays

\* ... or nothing when nobody waits.
LEMMA GotNothing ==
    ASSUME OsInv, GetProc(NULL)
    PROVE  SP!Queued = {} /\ UNCHANGED mlqVars
<1>1. Idle /\ UNCHANGED mlqVars
  <2>1. ASSUME NEW l \in Level, IsFirst(l, Eligible(RoundSlot)),
               NULL = Dequeued(mlq_ready_queue[l])
        PROVE  FALSE
    <3> DEFINE q == mlq_ready_queue[l]
    <3>1. q \in Seq(Proc) /\ q # << >> /\ l \in SP!Level
        BY <2>1, SchedInvSays DEF IsFirst, Eligible, NonEmpty, MlqTypeOK, Level, SP!Level
    <3>2. \A k \in 1..Len(q) : prio[q[k]] = l
        BY <3>1 DEF OsInv, SP!SchedInv, SP!NoProcessDoubled, SP!QueuesInOrder
    <3>3. SP!HighestPrioIdx(q) = 1
        BY <3>1, <3>2, SP!DequeueIsFifo, ProcFinite, MaxPrioAssumption,
           QueueSizeAssumption, ProcAssumption, PrioAssumption
    <3>4. HighestPrioIdx(q) = SP!HighestPrioIdx(q)
        BY Zenon DEF HighestPrioIdx, SP!HighestPrioIdx
    <3>5. q[1] \in Proc
        BY <3>1, EmptySeq, LenProperties
    <3> QED BY <2>1, <3>3, <3>4, <3>5, ProcAssumption DEF Dequeued
  <2> QED BY <2>1 DEF GetProc
<1> QED BY <1>1 DEF SP!Queued, Idle, NonEmpty, Level, SP!Level

\* So Running follows proc: a CPU without a process takes one, ...
LEMMA TakesOne ==
    ASSUME CpuTypeOK, NEW c \in CPU, NEW p \in Proc, proc[c] = NULL,
           proc' = [proc EXCEPT ![c] = p]
    PROVE  Running' = Running \cup {p}
BY ProcAssumption DEF CpuTypeOK, Running

\* ... and one that has a process gives it up, which no other CPU has.
LEMMA GivesUp ==
    ASSUME CpuTypeOK, OwnProcess, NEW c \in CPU, proc[c] # NULL,
           proc' = [proc EXCEPT ![c] = NULL]
    PROVE  proc[c] \in Running /\ Running' = Running \ {proc[c]} /\ proc[c] \in Proc
BY DEF CpuTypeOK, OwnProcess, Running

\* Each process is in the configuration once.
LEMMA ConfigInjective ==
    \A j, k \in 1..Len(Config) : Config[j] = Config[k] => j = k
<1>1. Config \in [1..Len(Config) -> Proc] /\ Len(Config) \in Nat
    BY ConfigAssumption, LenProperties
<1>2. Config \in Surjection(1..Len(Config), Proc)
    BY <1>1, ConfigAssumption DEF Surjection
<1>3. IsFiniteSet(1..Len(Config)) /\ Cardinality(1..Len(Config)) = Len(Config)
  <2>1. 1 \in Int /\ Len(Config) \in Int
      BY <1>1
  <2>2. Cardinality(1..Len(Config)) = IF 1 > Len(Config) THEN 0 ELSE Len(Config) - 1 + 1
      BY <2>1, FS_Interval
  <2>3. IsFiniteSet(1..Len(Config))
      BY <2>1, FS_Interval
  <2>4. (IF 1 > Len(Config) THEN 0 ELSE Len(Config) - 1 + 1) = Len(Config)
      BY <1>1
  <2> QED BY <2>2, <2>3, <2>4
<1>4. Config \in Injection(1..Len(Config), Proc)
    BY <1>2, <1>3, ConfigAssumption, FS_SurjSameCardinalityImpliesInj
<1> QED BY <1>4 DEF Injection, IsInjective

\* The loader's next process is one it has not been through.
LEMMA NextIsNew ==
    ASSUME i \in 1..Len(Config)
    PROVE  /\ Config[i] \in Proc \ Loaded
           /\ i' = i + 1 => Loaded' = Loaded \cup {Config[i]}
<1>1. Len(Config) \in Nat /\ Config[i] \in Proc
    BY ConfigAssumption, LenProperties
<1>2. Config[i] \notin Loaded
    BY <1>1, ConfigInjective DEF Loaded
<1>3. ASSUME i' = i + 1 PROVE Loaded' = Loaded \cup {Config[i]}
    BY <1>1, <1>3 DEF Loaded
<1> QED BY <1>1, <1>2, <1>3

-----------------------------------------------------------------------------
(* Os implements Sched, step by step.                                         *)

\* Every step is one of Sched's or leaves the scheduler and its users alone.
LEMMA SchedStep ==
    ASSUME OsInv, [OsNext]_osVars
    PROVE  [SP!SchedNext]_SP!schedVars
<1> USE DEF OsInv, CpuInv, CpuPlaced
<1>1. ASSUME UNCHANGED <<mlqVars, proc, i, freed>> PROVE UNCHANGED SP!schedVars
    BY <1>1 DEF SP!schedVars, mlqVars, Running, Loaded
<1>2. ASSUME NEW c \in CPU, CpuStep(c) PROVE [SP!SchedNext]_SP!schedVars
  <2>1. CASE CheckFinished(c)
    <3>1. SP!Finish(proc[c])
        BY <2>1, GivesUp DEF CheckFinished, SP!Finish, SP!mlqVars, mlqVars, loaderVars, Loaded
    <3> QED BY <2>1, <3>1, GivesUp DEF SP!SchedNext, CheckFinished
  <2>2. CASE CheckQuantum(c)
    <3>1. SP!Put(proc[c])
        BY <2>2, GivesUp, PutProcSame DEF CheckQuantum, SP!Put, loaderVars, Loaded
    <3> QED BY <2>2, <3>1, GivesUp DEF SP!SchedNext, CheckQuantum
  <2>3. ASSUME NEW p \in Proc \cup {NULL}, GetProc(p), proc' = [proc EXCEPT ![c] = p],
               proc[c] = NULL, UNCHANGED <<i, freed>>
        PROVE  [SP!SchedNext]_SP!schedVars
    <3>1. CASE p = NULL
      <4>1. UNCHANGED mlqVars /\ proc' = proc
          BY <2>3, <3>1, GotNothing DEF CpuTypeOK
      <4> QED BY <1>1, <2>3, <4>1
    <3>2. CASE p # NULL
      <4>1. SP!Get(p)
          BY <2>3, <3>2, TakesOne, GetProcSame DEF SP!Get, Loaded
      <4> QED BY <2>3, <3>2, <4>1 DEF SP!SchedNext
    <3> QED BY <3>1, <3>2
  <2>4. CASE FirstGet(c)
      BY <2>3, <2>4 DEF FirstGet, At, loaderVars
  <2>5. CASE GetNext(c)
      BY <2>3, <2>5 DEF GetNext, At, loaderVars
  <2>6. CASE CheckNone(c) \/ CheckGoesOn(c)
      BY <1>1, <2>6 DEF CheckNone, CheckGoesOn, loaderVars
  <2>7. CASE RecheckStop(c) \/ RecheckSkip(c) \/ RecheckDispatch(c)
      BY <1>1, <2>7 DEF RecheckStop, RecheckSkip, RecheckDispatch, loaderVars
  <2>8. CASE Run(c) \/ CpuNextSlot(c) \/ CpuDetach(c)
      BY <1>1, <2>8 DEF Run, CpuNextSlot, CpuDetach, loaderVars
  <2> QED BY <1>2, <2>1, <2>2, <2>4, <2>5, <2>6, <2>7, <2>8 DEF CpuStep
<1>3. ASSUME LdStep PROVE [SP!SchedNext]_SP!schedVars
  <2>1. CASE LdAdd
    <3>1. i \in 1..Len(Config) /\ i' = i + 1
        BY <2>1, ConfigAssumption, LenProperties DEF LdAdd, LoaderInv
    <3>2. SP!Load(Config[i])
        BY <2>1, <3>1, NextIsNew, PutProcSame
           DEF LdAdd, SP!Load, SP!AddProc, AddProc, localVars, Running
    <3> QED BY <3>1, <3>2, NextIsNew DEF SP!SchedNext
  <2>2. CASE LdWait \/ LdNextSlot
      BY <1>1, <2>2 DEF LdWait, LdNextSlot, loaderVars, localVars
  <2>3. CASE LdDone \/ LdDetach
      BY <1>1, <2>3 DEF LdDone, LdDetach, loaderVars, localVars
  <2> QED BY <1>3, <2>1, <2>2, <2>3 DEF LdStep
<1>4. CASE OsTick
    BY <1>1, <1>4 DEF OsTick, loaderVars, localVars
<1>5. CASE UNCHANGED osVars
    BY <1>1, <1>5 DEF osVars, mlqVars
<1> QED BY <1>2, <1>3, <1>4, <1>5 DEF OsNext

-----------------------------------------------------------------------------
(* The threads' locals.                                                       *)

USE OsDevicesAssumption, TimeSlotAssumption

\* A CPU that moves on within its slot, with the process it has.
LEMMA MoveOn ==
    ASSUME CpuInv, ClockTypeOK, NEW c \in CPU, NEW l \in CpuPC, NEW t \in 0..time_slot,
           At(c, cpc[c]), cpc[c] # "next_slot", Goto(c, l), l # "stopped",
           time_left' = [time_left EXCEPT ![c] = t],
           l \in {"first_get", "get", "detach"} => proc[c] = NULL,
           l = "run" => proc[c] # NULL /\ t > 0,
           l = "detach" => done,
           proc[c] = NULL => t = 0,
           UNCHANGED <<clockVars, proc, done, pc, ran>>
    PROVE  CpuInv' /\ ClockTypeOK'
<1>1. /\ cpc' = [cpc EXCEPT ![c] = l] /\ status[c] = "working"
      /\ proc' = proc /\ status' = status /\ time' = time /\ done' = done
      /\ pc' = pc /\ ran' = ran
    BY DEF At, Goto, clockVars
<1>2. CpuTypeOK'
    BY <1>1 DEF CpuInv, CpuTypeOK
<1>3. CpuPlaced'
    BY <1>1 DEF CpuInv, CpuTypeOK, CpuPlaced
<1>4. NoLeftoverQuantum'
    BY <1>1 DEF CpuInv, CpuTypeOK, NoLeftoverQuantum
<1>5. OwnProcess'
    BY <1>1 DEF CpuInv, OwnProcess
<1>6. RanIsOver'
    BY <1>1 DEF CpuInv, CpuTypeOK, RanIsOver
<1> QED BY <1>1, <1>2, <1>3, <1>4, <1>5, <1>6 DEF CpuInv, PcTypeOK, ClockTypeOK

\* One that gives up its process, or takes one nobody has.
LEMMA Exchange ==
    ASSUME CpuInv, ClockTypeOK, NEW c \in CPU, NEW l \in CpuPC, NEW p \in Proc \cup {NULL},
           NEW t \in 0..time_slot,
           At(c, cpc[c]), cpc[c] # "next_slot", Goto(c, l),
           l \notin {"stopped", "detach", "run"},
           l \in {"first_get", "get"} => p = NULL,
           p # NULL => p \notin Running,
           proc' = [proc EXCEPT ![c] = p],
           time_left' = [time_left EXCEPT ![c] = t],
           p = NULL => t = 0,
           UNCHANGED <<clockVars, done, pc, ran>>
    PROVE  CpuInv' /\ ClockTypeOK'
<1>1. /\ cpc' = [cpc EXCEPT ![c] = l] /\ status[c] = "working"
      /\ status' = status /\ time' = time /\ done' = done
      /\ pc' = pc /\ ran' = ran
    BY DEF At, Goto, clockVars
<1>2. CpuTypeOK'
    BY <1>1 DEF CpuInv, CpuTypeOK
<1>3. CpuPlaced'
    BY <1>1 DEF CpuInv, CpuTypeOK, CpuPlaced
<1>4. NoLeftoverQuantum'
    BY <1>1 DEF CpuInv, CpuTypeOK, NoLeftoverQuantum
<1>5. OwnProcess'
    BY <1>1 DEF CpuInv, CpuTypeOK, OwnProcess, Running
<1>6. RanIsOver'
  <2> SUFFICES ASSUME NEW q \in ran
               PROVE  \E d \in CPU : /\ proc'[d] = q
                                     /\ cpc'[d] = "next_slot" \/ status'[d] = "arrived"
      BY <1>1 DEF RanIsOver
  <2>1. PICK d \in CPU : proc[d] = q /\ (cpc[d] = "next_slot" \/ status[d] = "arrived")
      BY DEF CpuInv, RanIsOver
  <2>2. d # c
      BY <1>1, <2>1
  <2> QED BY <1>1, <2>1, <2>2 DEF CpuInv, CpuTypeOK
<1> QED BY <1>1, <1>2, <1>3, <1>4, <1>5, <1>6 DEF CpuInv, PcTypeOK, ClockTypeOK

\* run: the quantum goes down by one, and the process stays where it is.
LEMMA RunInv ==
    ASSUME CpuInv, ClockTypeOK, NEW c \in CPU, Run(c)
    PROVE  CpuInv' /\ ClockTypeOK'
<1>1. /\ cpc[c] = "run" /\ status[c] = "working" /\ cpc' = [cpc EXCEPT ![c] = "next_slot"]
      /\ time_left' = [time_left EXCEPT ![c] = time_left[c] - 1]
      /\ proc' = proc /\ status' = status /\ time' = time /\ done' = done
    BY DEF Run, At, Goto, clockVars, loaderVars
<1>2. proc[c] \in Proc /\ proc[c] # NULL /\ time_left[c] - 1 \in 0..time_slot
    BY <1>1 DEF CpuInv, CpuTypeOK, CpuPlaced
<1>3. \/ /\ pc[proc[c]] < code_size[proc[c]]
         /\ pc' = [pc EXCEPT ![proc[c]] = pc[proc[c]] + 1]
         /\ ran' = ran \cup {proc[c]}
      \/ pc' = pc /\ ran' = ran
    BY DEF Run
<1>4. CpuTypeOK'
    BY <1>1, <1>2 DEF CpuInv, CpuTypeOK, CpuPC
<1>5. CpuPlaced'
    BY <1>1 DEF CpuInv, CpuTypeOK, CpuPlaced
<1>6. NoLeftoverQuantum'
    BY <1>1, <1>2 DEF CpuInv, CpuTypeOK, NoLeftoverQuantum
<1>7. OwnProcess'
    BY <1>1 DEF CpuInv, OwnProcess
<1>8. RanIsOver'
    BY <1>1, <1>3 DEF CpuInv, CpuTypeOK, RanIsOver
<1>9. PcTypeOK'
    BY <1>2, <1>3, CodeAssumption DEF CpuInv, PcTypeOK
<1>10. ran' \subseteq Proc
    BY <1>2, <1>3 DEF CpuInv
<1> QED BY <1>1, <1>4, <1>5, <1>6, <1>7, <1>8, <1>9, <1>10 DEF CpuInv, ClockTypeOK

\* next_slot.
LEMMA NextSlotInv ==
    ASSUME CpuInv, ClockTypeOK, NEW c \in CPU, CpuNextSlot(c)
    PROVE  CpuInv' /\ ClockTypeOK'
<1>1. /\ cpc[c] = "next_slot" /\ cpc' = [cpc EXCEPT ![c] = "top"]
      /\ status' = [status EXCEPT ![c] = "arrived"]
      /\ proc' = proc /\ time' = time /\ done' = done /\ time_left' = time_left
      /\ pc' = pc /\ ran' = ran
    BY DEF CpuNextSlot, Arrive, At, Goto, loaderVars
<1>2. ClockTypeOK'
    BY <1>1 DEF ClockTypeOK, Status
<1>3. CpuTypeOK'
    BY <1>1 DEF CpuInv, CpuTypeOK, CpuPC
<1>4. CpuPlaced'
    BY <1>1 DEF CpuInv, CpuTypeOK, CpuPlaced, ClockTypeOK
<1>5. NoLeftoverQuantum' /\ OwnProcess'
    BY <1>1 DEF CpuInv, NoLeftoverQuantum, OwnProcess
<1>6. RanIsOver'
    BY <1>1 DEF CpuInv, CpuTypeOK, RanIsOver, ClockTypeOK
<1> QED BY <1>1, <1>2, <1>3, <1>4, <1>5, <1>6 DEF CpuInv, PcTypeOK

\* detach_event and the end of the thread.
LEMMA DetachInv ==
    ASSUME CpuInv, ClockTypeOK, NEW c \in CPU, CpuDetach(c)
    PROVE  CpuInv' /\ ClockTypeOK'
<1>1. /\ cpc[c] = "detach" /\ cpc' = [cpc EXCEPT ![c] = "stopped"]
      /\ status' = [status EXCEPT ![c] = "detached"] /\ status[c] = "working"
      /\ proc' = proc /\ time' = time /\ done' = done /\ time_left' = time_left
      /\ pc' = pc /\ ran' = ran
    BY DEF CpuDetach, Detach, At, Goto, loaderVars
<1>2. ClockTypeOK'
    BY <1>1 DEF ClockTypeOK, Status
<1>3. CpuTypeOK'
    BY <1>1 DEF CpuInv, CpuTypeOK, CpuPC
<1>4. CpuPlaced'
    BY <1>1 DEF CpuInv, CpuTypeOK, CpuPlaced, ClockTypeOK
<1>5. NoLeftoverQuantum' /\ OwnProcess'
    BY <1>1 DEF CpuInv, NoLeftoverQuantum, OwnProcess
<1>6. RanIsOver'
    BY <1>1 DEF CpuInv, CpuTypeOK, RanIsOver, ClockTypeOK
<1> QED BY <1>1, <1>2, <1>3, <1>4, <1>5, <1>6 DEF CpuInv, PcTypeOK

\* Every branch of cpu_routine keeps what a CPU knows.
LEMMA CpuStepInv ==
    ASSUME OsInv, NEW c \in CPU, CpuStep(c)
    PROVE  CpuInv' /\ ClockTypeOK'
<1> USE DEF CpuPC, clockVars, loaderVars
<1>1. /\ CpuInv /\ ClockTypeOK
      /\ time_left[c] \in 0..time_slot /\ proc[c] \in Proc \cup {NULL}
      /\ time_left = [time_left EXCEPT ![c] = time_left[c]]
      /\ proc[c] = NULL => time_left[c] = 0
    BY DEF OsInv, CpuInv, CpuTypeOK, NoLeftoverQuantum
<1>2. cpc[c] \in {"first_get", "get"} => proc[c] = NULL
    BY DEF OsInv, CpuInv, CpuPlaced
<1>3. CASE CheckNone(c)
    BY <1>1, <1>3, MoveOn DEF CheckNone, At
<1>4. CASE CheckFinished(c)
  <2>1. /\ At(c, cpc[c]) /\ cpc[c] = "top" /\ Goto(c, "get")
        /\ proc' = [proc EXCEPT ![c] = NULL]
        /\ time_left' = [time_left EXCEPT ![c] = 0]
        /\ UNCHANGED <<clockVars, done, pc, ran>>
      BY <1>4 DEF CheckFinished, At, LeftAfterFree
  <2>2. 0 \in 0..time_slot
      OBVIOUS
  <2> QED BY <1>1, <2>1, <2>2, Exchange
<1>5. CASE CheckQuantum(c)
    BY <1>1, <1>5, Exchange DEF CheckQuantum, At, QuantumUp
<1>6. CASE CheckGoesOn(c)
    BY <1>1, <1>6, MoveOn DEF CheckGoesOn, At, QuantumUp
<1>7. CASE FirstGet(c)
  <2>1. PICK p \in Proc \cup {NULL} :
           /\ GetProc(p) /\ proc' = [proc EXCEPT ![c] = p]
           /\ Goto(c, IF p = NULL THEN "next_slot" ELSE "recheck")
      BY <1>7 DEF FirstGet
  <2>2. p # NULL => p \notin Running
      BY <2>1, GotWasQueued
  <2> QED BY <1>1, <1>2, <1>7, <2>1, <2>2, Exchange DEF FirstGet, At
<1>8. CASE GetNext(c)
  <2>1. PICK p \in Proc \cup {NULL} : GetProc(p) /\ proc' = [proc EXCEPT ![c] = p]
      BY <1>8 DEF GetNext
  <2>2. p # NULL => p \notin Running
      BY <2>1, GotWasQueued
  <2> QED BY <1>1, <1>2, <1>8, <2>1, <2>2, Exchange DEF GetNext, At
<1>9. CASE RecheckStop(c)
    BY <1>1, <1>9, MoveOn DEF RecheckStop, At, NoMoreToLoad
<1>10. CASE RecheckSkip(c)
    BY <1>1, <1>10, MoveOn DEF RecheckSkip, At
<1>11. CASE RecheckDispatch(c)
  <2> DEFINE t == IF time_left[c] = 0 THEN time_slot ELSE time_left[c]
  <2>1. t \in 0..time_slot /\ t > 0
      BY <1>1
  <2> QED BY <1>1, <1>11, <2>1, MoveOn DEF RecheckDispatch, At
<1> QED BY <1>1, <1>3, <1>4, <1>5, <1>6, <1>7, <1>8, <1>9, <1>10, <1>11, RunInv, NextSlotInv,
           DetachInv DEF CpuStep

\* The loader and the clock leave the CPUs as they are, ...
LEMMA CpuInvStays ==
    ASSUME CpuInv, UNCHANGED <<localVars, pc, ran>>, done => done',
           \A c \in CPU : status'[c] = status[c]
    PROVE  CpuInv'
<1>1. /\ cpc' = cpc /\ proc' = proc /\ time_left' = time_left /\ pc' = pc /\ ran' = ran
    BY DEF localVars
<1>2. CpuPlaced' /\ RanIsOver'
    BY <1>1 DEF CpuInv, CpuPlaced, RanIsOver
<1> QED BY <1>1, <1>2 DEF CpuInv, CpuTypeOK, NoLeftoverQuantum, OwnProcess, PcTypeOK

\* ... and the CPUs leave the loader.
LEMMA LoaderInvStays ==
    ASSUME LoaderInv, UNCHANGED loaderVars, status'[ld] = status[ld]
    PROVE  LoaderInv'
BY DEF LoaderInv, loaderVars

\* ld_routine.
LEMMA LdStepInv ==
    ASSUME OsInv, LdStep
    PROVE  CpuInv' /\ ClockTypeOK' /\ LoaderInv'
<1> USE DEF LoaderPC
<1>1. CpuInv /\ ClockTypeOK /\ LoaderInv /\ Len(Config) \in Nat
    BY ConfigAssumption, LenProperties DEF OsInv
<1>2. CASE LdWait
  <2>1. /\ lpc = "load" /\ i <= Len(Config) /\ status[ld] = "working"
        /\ status' = [status EXCEPT ![ld] = "arrived"] /\ time' = time
        /\ UNCHANGED <<localVars, pc, ran>> /\ lpc' = lpc /\ i' = i /\ done' = done
      BY <1>2 DEF LdWait, LdAt, Arrive, loaderVars
  <2>2. ClockTypeOK' /\ \A c \in CPU : status'[c] = status[c]
      BY <1>1, <2>1 DEF ClockTypeOK, Status
  <2>3. LoaderInv'
      BY <1>1, <2>1 DEF LoaderInv, ClockTypeOK
  <2> QED BY <1>1, <2>1, <2>2, <2>3, CpuInvStays
<1>3. CASE LdAdd
  <2>1. /\ lpc = "load" /\ i <= Len(Config) /\ status[ld] = "working"
        /\ status' = status /\ time' = time
        /\ UNCHANGED <<localVars, pc, ran>> /\ lpc' = "next_slot" /\ i' = i + 1 /\ done' = done
      BY <1>3 DEF LdAdd, LdAt, clockVars
  <2>2. ClockTypeOK' /\ LoaderInv'
      BY <1>1, <2>1 DEF LoaderInv, ClockTypeOK
  <2> QED BY <1>1, <2>1, <2>2, CpuInvStays
<1>4. CASE LdNextSlot
  <2>1. /\ lpc = "next_slot" /\ status[ld] = "working"
        /\ status' = [status EXCEPT ![ld] = "arrived"] /\ time' = time
        /\ UNCHANGED <<localVars, pc, ran>> /\ lpc' = "load" /\ i' = i /\ done' = done
      BY <1>4 DEF LdNextSlot, LdAt, Arrive
  <2>2. ClockTypeOK' /\ \A c \in CPU : status'[c] = status[c]
      BY <1>1, <2>1 DEF ClockTypeOK, Status
  <2>3. LoaderInv'
      BY <1>1, <2>1 DEF LoaderInv, ClockTypeOK
  <2> QED BY <1>1, <2>1, <2>2, <2>3, CpuInvStays
<1>5. CASE LdDone
  <2>1. /\ lpc = "load" /\ i > Len(Config) /\ status[ld] = "working"
        /\ status' = status /\ time' = time
        /\ UNCHANGED <<localVars, pc, ran>> /\ lpc' = "detach" /\ i' = i /\ done' = TRUE
      BY <1>5 DEF LdDone, LdAt, clockVars
  <2>2. ClockTypeOK' /\ LoaderInv'
      BY <1>1, <2>1 DEF LoaderInv, ClockTypeOK
  <2> QED BY <1>1, <2>1, <2>2, CpuInvStays
<1>6. CASE LdDetach
  <2>1. /\ lpc = "detach" /\ status[ld] = "working"
        /\ status' = [status EXCEPT ![ld] = "detached"] /\ time' = time
        /\ UNCHANGED <<localVars, pc, ran>> /\ lpc' = "stopped" /\ i' = i /\ done' = done
      BY <1>6 DEF LdDetach, LdAt, Detach
  <2>2. ClockTypeOK' /\ \A c \in CPU : status'[c] = status[c]
      BY <1>1, <2>1 DEF ClockTypeOK, Status
  <2>3. LoaderInv'
      BY <1>1, <2>1 DEF LoaderInv, ClockTypeOK
  <2> QED BY <1>1, <2>1, <2>2, <2>3, CpuInvStays
<1> QED BY <1>2, <1>3, <1>4, <1>5, <1>6 DEF LdStep

\* A tick finds every CPU in next_slot or gone, and lets those in next_slot go on.
LEMMA TickFinds ==
    ASSUME OsInv, OsTick
    PROVE  /\ \A c \in CPU : cpc[c] = "top" \/ cpc[c] = "stopped"
           /\ \A d \in Devices : status'[d] = IF status[d] = "arrived" THEN "working"
                                              ELSE status[d]
           /\ time' \in 0..Horizon /\ status' \in [Devices -> Status]
           /\ ran' = {} /\ UNCHANGED <<mlqVars, localVars, loaderVars, pc, freed>>
<1>1. \A d \in Devices : status[d] \in {"arrived", "detached"}
    BY DEF OsTick, Tick, OsInv, ClockTypeOK, Status
<1>2. \A c \in CPU : cpc[c] = "top" \/ cpc[c] = "stopped"
    BY <1>1 DEF OsInv, CpuInv, CpuPlaced
<1>3. time \in 0..Horizon /\ Horizon \in Nat
    BY HorizonAssumption DEF OsInv, ClockTypeOK
<1>4. /\ status' = [d \in Devices |->
                        IF status[d] = "arrived" THEN "working" ELSE status[d]]
      /\ time' = IF time < Horizon THEN time + 1 ELSE Horizon
      /\ ran' = {} /\ UNCHANGED <<mlqVars, localVars, loaderVars, pc, freed>>
    BY DEF OsTick, Tick
<1>5. time' \in 0..Horizon
    BY <1>3, <1>4
<1> QED BY <1>1, <1>2, <1>4, <1>5 DEF Status

\* So a tick keeps what the threads know.
LEMMA TickInv ==
    ASSUME OsInv, OsTick
    PROVE  CpuInv' /\ ClockTypeOK' /\ LoaderInv'
<1>1. /\ cpc' = cpc /\ proc' = proc /\ time_left' = time_left /\ pc' = pc /\ ran' = {}
      /\ lpc' = lpc /\ i' = i /\ done' = done
      /\ \A d \in Devices : status'[d] = IF status[d] = "arrived" THEN "working"
                                         ELSE status[d]
    BY TickFinds DEF localVars, loaderVars
<1>2. ClockTypeOK'
    BY TickFinds DEF ClockTypeOK
<1>3. CpuPlaced' /\ RanIsOver'
    BY <1>1 DEF OsInv, CpuInv, CpuPlaced, RanIsOver
<1>4. CpuInv'
    BY <1>1, <1>3 DEF OsInv, CpuInv, CpuTypeOK, NoLeftoverQuantum, OwnProcess, PcTypeOK
<1>5. LoaderInv'
    BY <1>1 DEF OsInv, LoaderInv
<1> QED BY <1>2, <1>4, <1>5

-----------------------------------------------------------------------------
(* The end of the simulation.                                                 *)

\* A step that changes no queue leaves what waits in them.
LEMMA QueuedStays ==
    ASSUME mlq_ready_queue' = mlq_ready_queue
    PROVE  SP!Queued' = SP!Queued
BY DEF SP!Queued

\* A CPU that comes to find nothing has found the queues empty, or had done so before.
LEMMA FindsNothing ==
    ASSUME OsInv, NEW c \in CPU, CpuStep(c), FoundNothing(c)'
    PROVE  /\ SP!Queued' = SP!Queued
           /\ SP!Queued = {} \/ FoundNothing(c)
<1>1. cpc \in [CPU -> CpuPC] /\ proc \in [CPU -> Proc \cup {NULL}]
    BY DEF OsInv, CpuInv, CpuTypeOK
<1>2. cpc'[c] \in {"detach", "stopped"} \/ (cpc'[c] = "recheck" /\ proc'[c] = NULL)
    BY DEF FoundNothing
<1>3. CASE GetNext(c)
  <2>1. PICK p \in Proc \cup {NULL} : GetProc(p) /\ proc' = [proc EXCEPT ![c] = p]
      BY <1>3 DEF GetNext
  <2>2. p = NULL
      BY <1>1, <1>2, <1>3, <2>1 DEF GetNext, Goto
  <2> QED BY <2>1, <2>2, GotNothing, QueuedStays DEF mlqVars
<1>4. CASE RecheckStop(c) \/ CpuDetach(c)
  <2>1. mlq_ready_queue' = mlq_ready_queue /\ FoundNothing(c)
      BY <1>4 DEF RecheckStop, CpuDetach, At, FoundNothing, mlqVars
  <2> QED BY <2>1, QueuedStays
<1>5. CASE FirstGet(c)
  <2>1. PICK p \in Proc \cup {NULL} : /\ proc' = [proc EXCEPT ![c] = p]
                                      /\ Goto(c, IF p = NULL THEN "next_slot" ELSE "recheck")
      BY <1>5 DEF FirstGet
  <2> QED BY <1>1, <1>2, <2>1 DEF Goto
<1>6. CASE CheckNone(c) \/ CheckFinished(c) \/ CheckQuantum(c) \/ CheckGoesOn(c)
    BY <1>1, <1>2, <1>6 DEF CheckNone, CheckFinished, CheckQuantum, CheckGoesOn, Goto
<1>7. CASE RecheckSkip(c) \/ RecheckDispatch(c) \/ Run(c) \/ CpuNextSlot(c)
    BY <1>1, <1>2, <1>7 DEF RecheckSkip, RecheckDispatch, Run, CpuNextSlot, Goto
<1> QED BY <1>3, <1>4, <1>5, <1>6, <1>7 DEF CpuStep

\* A CPU's step is on its own locals.
LEMMA OwnLocals ==
    ASSUME CpuTypeOK, ClockTypeOK, NEW c \in CPU, CpuStep(c)
    PROVE  /\ \A d \in CPU \ {c} : cpc'[d] = cpc[d] /\ proc'[d] = proc[d]
           /\ UNCHANGED loaderVars /\ status'[ld] = status[ld]
<1>1. CASE CheckNone(c) \/ CheckFinished(c) \/ CheckQuantum(c) \/ CheckGoesOn(c)
    BY <1>1 DEF CheckNone, CheckFinished, CheckQuantum, CheckGoesOn, Goto, CpuTypeOK, clockVars
<1>2. CASE FirstGet(c) \/ GetNext(c)
    BY <1>2 DEF FirstGet, GetNext, Goto, CpuTypeOK, clockVars
<1>3. CASE RecheckStop(c) \/ RecheckSkip(c) \/ RecheckDispatch(c) \/ Run(c)
    BY <1>3 DEF RecheckStop, RecheckSkip, RecheckDispatch, Run, Goto, CpuTypeOK, clockVars
<1>4. CASE CpuNextSlot(c) \/ CpuDetach(c)
    BY <1>4 DEF CpuNextSlot, CpuDetach, Arrive, Detach, Goto, CpuTypeOK, ClockTypeOK
<1> QED BY <1>1, <1>2, <1>3, <1>4 DEF CpuStep

\* Whatever still waits once everything is loaded, some CPU will look for it.
LEMMA SomebodyLooksNext ==
    ASSUME OsInv, OsNext
    PROVE  SomebodyLooks'
<1> SUFFICES ASSUME CPU # {}, AllIn', SP!Queued' # {}
             PROVE  \E c \in CPU : ~FoundNothing(c)'
    BY DEF SomebodyLooks
<1>1. ASSUME NEW c \in CPU, CpuStep(c), FoundNothing(c)'
      PROVE  \E d \in CPU : ~FoundNothing(d)'
  <2>1. SP!Queued # {} /\ FoundNothing(c)
      BY <1>1, FindsNothing
  <2>2. /\ \A d \in CPU \ {c} : cpc'[d] = cpc[d] /\ proc'[d] = proc[d]
        /\ UNCHANGED loaderVars /\ status'[ld] = status[ld]
      BY <1>1, OwnLocals DEF OsInv, CpuInv
  <2>3. AllIn
      BY <2>2 DEF AllIn, loaderVars
  <2>4. PICK d \in CPU : ~FoundNothing(d)
      BY <2>1, <2>3 DEF OsInv, SomebodyLooks
  <2> QED BY <2>1, <2>2, <2>4 DEF FoundNothing
<1>2. ASSUME AllIn, mlq_ready_queue' = mlq_ready_queue, UNCHANGED localVars
      PROVE  \E d \in CPU : ~FoundNothing(d)'
  <2>1. PICK d \in CPU : ~FoundNothing(d)
      BY <1>2, QueuedStays DEF OsInv, SomebodyLooks
  <2> QED BY <1>2, <2>1 DEF FoundNothing, localVars
<1>3. CASE LdStep
  <2>1. ~(LdWait \/ LdAdd \/ LdNextSlot)
      BY DEF LdWait, LdAdd, LdNextSlot, Arrive, AllIn, OsInv, ClockTypeOK
  <2>2. CASE LdDone \/ LdDetach
    <3>1. AllIn
        BY <2>2, ConfigAssumption, LenProperties
           DEF LdDone, LdDetach, LdAt, AllIn, OsInv, LoaderInv
    <3> QED BY <1>2, <2>2, <3>1 DEF LdDone, LdDetach, mlqVars
  <2> QED BY <1>3, <2>1, <2>2 DEF LdStep
<1>4. CASE OsTick
  <2>1. /\ lpc' = lpc /\ i' = i /\ cpc' = cpc
        /\ mlq_ready_queue' = mlq_ready_queue /\ UNCHANGED localVars
      BY <1>4, TickFinds DEF mlqVars, loaderVars, localVars
  <2>2. CASE AllIn
      BY <1>2, <2>1, <2>2
  <2>3. CASE ~AllIn
    <3>1. status[ld] = "arrived"
        BY <2>1, <2>3 DEF AllIn
    <3>2. ~done
        BY <3>1 DEF OsInv, LoaderInv
    <3>3. \A c \in CPU : cpc[c] = "top"
        BY <1>4, <3>2, TickFinds DEF OsInv, CpuInv, CpuPlaced
    <3> QED BY <2>1, <3>3 DEF FoundNothing
  <2> QED BY <2>2, <2>3
<1> QED BY <1>1, <1>3, <1>4 DEF OsNext

-----------------------------------------------------------------------------
(* The theorems.                                                              *)

\* The simulator starts in the invariant.
LEMMA OsInvInit == OsInit => OsInv
<1> SUFFICES ASSUME OsInit PROVE OsInv
    OBVIOUS
<1>1. Len(Config) \in Nat
    BY ConfigAssumption, LenProperties
<1>2. Loaded = {} /\ Running = {}
    BY <1>1 DEF OsInit, Loaded, Running
<1>3. SP!SchedInit
    BY <1>2 DEF OsInit, MlqInit, SP!SchedInit, SP!MlqInit, Level, SP!Level, FullSlot, SP!FullSlot
<1>4. SP!SchedInv
    BY <1>3, SP!SchedInvInit, ProcFinite, MaxPrioAssumption, QueueSizeAssumption,
       ProcAssumption, PrioAssumption
<1>5. ClockTypeOK
    BY HorizonAssumption DEF OsInit, ClockInit, ClockTypeOK, Status
<1>6. CpuTypeOK /\ PcTypeOK
    BY CodeAssumption DEF OsInit, CpuTypeOK, CpuPC, PcTypeOK
<1>7. CpuPlaced /\ NoLeftoverQuantum /\ OwnProcess /\ RanIsOver
    BY DEF OsInit, ClockInit, CpuPlaced, NoLeftoverQuantum, OwnProcess, RanIsOver
<1>8. LoaderInv
  <2>1. lpc = "load" /\ i = 1 /\ done = FALSE /\ status[ld] = "working"
      BY DEF OsInit, ClockInit
  <2>2. 1 \in 1..(Len(Config) + 1)
      BY <1>1
  <2> QED BY <2>1, <2>2 DEF LoaderInv, LoaderPC
<1>9. SomebodyLooks
    BY DEF OsInit, SomebodyLooks, FoundNothing
<1> QED BY <1>4, <1>5, <1>6, <1>7, <1>8, <1>9 DEF OsInv, CpuInv, OsInit

\* Every step of every thread keeps it.
LEMMA OsInvNext == OsInv /\ [OsNext]_osVars => OsInv'
<1> SUFFICES ASSUME OsInv, [OsNext]_osVars PROVE OsInv'
    OBVIOUS
<1>1. SP!SchedInv'
  <2>1. [SP!SchedNext]_SP!schedVars /\ SP!SchedInv
      BY SchedStep DEF OsInv
  <2> QED BY <2>1, SP!SchedInvNext, ProcFinite, MaxPrioAssumption, QueueSizeAssumption,
             ProcAssumption, PrioAssumption
<1>2. ASSUME NEW c \in CPU, CpuStep(c) PROVE CpuInv' /\ ClockTypeOK' /\ LoaderInv'
    BY <1>2, CpuStepInv, OwnLocals, LoaderInvStays DEF OsInv, CpuInv
<1>3. CASE OsNext
    BY <1>1, <1>2, <1>3, LdStepInv, TickInv, SomebodyLooksNext DEF OsNext, OsInv
<1>4. CASE UNCHANGED osVars
  <2>1. CpuInv' /\ ClockTypeOK' /\ LoaderInv'
      BY <1>4, CpuInvStays, LoaderInvStays
         DEF osVars, localVars, loaderVars, OsInv, ClockTypeOK
  <2>2. SP!Queued' = SP!Queued
      BY <1>4, QueuedStays DEF osVars
  <2>3. SomebodyLooks'
      BY <1>4, <2>2 DEF osVars, OsInv, SomebodyLooks, AllIn, FoundNothing
  <2> QED BY <1>1, <2>1, <2>3 DEF OsInv
<1> QED BY <1>3, <1>4

\* The inductive invariant of the simulator.
THEOREM OsInvariant == OsSpec => []OsInv
BY OsInvInit, OsInvNext, PTL DEF OsSpec

\* Every reachable state of the simulator is well typed (OsTypeOK of the os run).
THEOREM OsTypeCorrect == OsSpec => []OsTypeOK
<1>1. OsInv => OsTypeOK
    BY SchedInvSays DEF OsInv, CpuInv, CpuTypeOK, PcTypeOK, LoaderInv, OsTypeOK
<1> QED BY <1>1, OsInvariant, PTL

\* A CPU without a process has no quantum left to hand on, for any quantum and any
\* number of CPUs (NoLeftoverQuantum of the os run).
THEOREM NoQuantumIsInherited == OsSpec => []NoLeftoverQuantum
<1>1. OsInv => NoLeftoverQuantum
    BY DEF OsInv, CpuInv
<1> QED BY <1>1, OsInvariant, PTL

\* No process executes twice in a slot, whichever CPUs it is on
\* (OneInstructionPerSlot of the os run).
THEOREM ExecutesOncePerSlot == OsSpec => OneInstructionPerSlot
<1> DEFINE A == \A p \in Proc : pc'[p] # pc[p] => p \notin ran
<1>1. OsInv /\ [OsNext]_osVars => [A]_osVars
  <2> SUFFICES ASSUME OsInv, OsNext, NEW p \in Proc, pc'[p] # pc[p] PROVE p \notin ran
      OBVIOUS
  <2>1. PICK c \in CPU : Run(c)
    <3>1. \A c \in CPU : CpuStep(c) => Run(c) \/ pc' = pc
        BY DEF CpuStep, CheckNone, CheckFinished, CheckQuantum, CheckGoesOn, FirstGet,
               GetNext, RecheckStop, RecheckSkip, RecheckDispatch, CpuNextSlot, CpuDetach
    <3>2. LdStep \/ OsTick => pc' = pc
        BY DEF LdStep, LdWait, LdAdd, LdNextSlot, LdDone, LdDetach, OsTick
    <3> QED BY <3>1, <3>2 DEF OsNext
  <2>2. cpc[c] = "run" /\ status[c] = "working" /\ p = proc[c]
      BY <2>1 DEF Run, At, OsInv, CpuInv, PcTypeOK
  <2>3. p # NULL
      BY ProcAssumption
  <2> QED BY <2>2, <2>3 DEF OsInv, CpuInv, RanIsOver, OwnProcess
<1> QED BY <1>1, OsInvariant, PTL DEF OsSpec, OneInstructionPerSlot

\* The simulator is one of the environments Sched.tla allows (ImplementsSched of the os
\* run): initial states are Sched's, and each step of a thread is one of Sched's or none.
THEOREM OsImplementsSched == OsSpec => ImplementsSched
<1>1. OsInit => S!SchedInit
  <2> SUFFICES ASSUME OsInit PROVE S!SchedInit
      OBVIOUS
  <2>1. Len(Config) \in Nat
      BY ConfigAssumption, LenProperties
  <2>2. {Config[k] : k \in 1..(i - 1)} = {} /\ Running = {}
      BY <2>1 DEF OsInit, Running
  <2> QED BY <2>2 DEF OsInit, MlqInit, S!SchedInit, S!MlqInit, Level, S!Level, FullSlot,
                      S!FullSlot
<1>2. OsInv /\ [OsNext]_osVars => [S!SchedNext]_S!schedVars
  <2> SUFFICES ASSUME OsInv, [OsNext]_osVars PROVE [S!SchedNext]_S!schedVars
      OBVIOUS
  <2>1. [SP!SchedNext]_SP!schedVars
      BY SchedStep
  <2>2. SP!schedVars = S!schedVars
      BY DEF SP!schedVars, S!schedVars, Loaded
  <2>3. (SP!schedVars)' = (S!schedVars)'
      BY DEF SP!schedVars, S!schedVars, Loaded
  <2>4. SP!SchedNext => S!SchedNext \/ UNCHANGED S!schedVars
    <3>1. ASSUME NEW p \in Proc, SP!Load(p) PROVE S!Load(p)
        BY <3>1, Zenon DEF SP!Load, S!Load, SP!AddProc, S!AddProc, SP!PutProc, S!PutProc,
                           SP!Enqueue, S!Enqueue, Loaded
    <3>2. ASSUME NEW p \in Proc, SP!Get(p) PROVE S!Get(p)
      <4>1. SP!GetProc(p) <=> S!GetProc(p)
          BY Zenon DEF SP!GetProc, S!GetProc, SP!mlqVars, S!mlqVars, SP!Idle, S!Idle,
             SP!NonEmpty, S!NonEmpty, SP!Level, S!Level, SP!IsFirst, S!IsFirst,
             SP!Eligible, S!Eligible, SP!RoundSlot, S!RoundSlot, SP!FullSlot, S!FullSlot,
             SP!Dequeued, S!Dequeued, SP!HighestPrioIdx, S!HighestPrioIdx,
             SP!AfterDequeue, S!AfterDequeue, SP!RemoveIdx, S!RemoveIdx, SP!Spend, S!Spend,
             SP!Enqueue, S!Enqueue
      <4> QED BY <3>2, <4>1, Zenon DEF SP!Get, S!Get, Loaded
    <3>3. ASSUME NEW p \in Proc, SP!Put(p) PROVE S!Put(p)
        BY <3>3, Zenon DEF SP!Put, S!Put, SP!PutProc, S!PutProc, SP!Enqueue, S!Enqueue, Loaded
    <3>4. ASSUME NEW p \in Proc, SP!Finish(p) PROVE S!Finish(p)
        BY <3>4, Zenon DEF SP!Finish, S!Finish, SP!mlqVars, S!mlqVars, Loaded
    <3>5. SP!AllFinished => UNCHANGED S!schedVars
        BY <2>2, <2>3 DEF SP!AllFinished
    <3> QED BY <3>1, <3>2, <3>3, <3>4, <3>5, Zenon DEF SP!SchedNext, S!SchedNext
  <2> QED BY <2>1, <2>2, <2>3, <2>4
<1> QED BY <1>1, <1>2, OsInvariant, PTL DEF OsSpec, ImplementsSched, S!SchedSpec

\* When the CPUs have all stopped nothing is left: whatever was put back after one of them
\* had found the queues empty was found by another (StoppedMeansFinished of the os run).
THEOREM StoppedIsFinished ==
    ASSUME SP!RoomForAll, CPU # {}
    PROVE  OsSpec => []StoppedMeansFinished
<1> DEFINE Inv == OsInv /\ SP!NoneMissing
<1>1. OsInit => Inv
  <2> SUFFICES ASSUME OsInit PROVE SP!NoneMissing
      BY OsInvInit
  <2>1. Len(Config) \in Nat
      BY ConfigAssumption, LenProperties
  <2> QED BY <2>1 DEF OsInit, SP!NoneMissing, Loaded
<1>2. Inv /\ [OsNext]_osVars => Inv'
  <2> SUFFICES ASSUME Inv, [OsNext]_osVars PROVE Inv'
      OBVIOUS
  <2>1. SP!SchedInv /\ [SP!SchedNext]_SP!schedVars
      BY SchedStep DEF OsInv
  <2>2. SP!NoneMissing'
      BY <2>1, SP!SchedInvNext, ProcFinite, MaxPrioAssumption, QueueSizeAssumption,
         ProcAssumption, PrioAssumption
  <2> QED BY <2>2, OsInvNext
<1>3. Inv => StoppedMeansFinished
  <2> SUFFICES ASSUME OsInv, SP!NoneMissing, \A c \in CPU : cpc[c] = "stopped"
               PROVE  freed = Proc
      BY DEF StoppedMeansFinished
  <2>1. done /\ Running = {}
      BY DEF OsInv, CpuInv, CpuPlaced, Running
  <2>2. i = Len(Config) + 1 /\ lpc # "next_slot" /\ status[ld] # "arrived"
      BY <2>1 DEF OsInv, LoaderInv
  <2>3. SP!Queued = {}
      BY <2>2 DEF OsInv, SomebodyLooks, AllIn, FoundNothing
  <2>4. Loaded = Proc
    <3>1. Len(Config) \in Nat /\ Len(Config) + 1 - 1 = Len(Config)
        BY ConfigAssumption, LenProperties
    <3> QED BY <2>2, <3>1, ConfigAssumption DEF Loaded
  <2> QED BY <2>1, <2>3, <2>4, SchedInvSays DEF SP!NoneMissing
<1> QED BY <1>1, <1>2, <1>3, PTL DEF OsSpec
=============================================================================
