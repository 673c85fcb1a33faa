-------------------------------- MODULE Os --------------------------------
(* os.c: the CPU threads and the loader thread, on the scheduler of Mlq.tla   *)
(* and the clock of SlotClock.tla.  A step is one call of the scheduler, one  *)
(* read or write of the shared flag `done', one instruction of a process, or  *)
(* one arrival at the clock; everything else a thread does is local to it.    *)
EXTENDS Mlq, SlotClock

CONSTANTS CPU,          \* the CPU threads
          ld,           \* the loader thread
          time_slot,    \* quantum of a dispatch
          Config,       \* the processes in the order of the configuration file
          start_time,   \* ld_processes.start_time, per process
          code_size     \* proc->code->size

ASSUME OsDevicesAssumption == Devices = CPU \cup {ld} /\ ld \notin CPU
ASSUME TimeSlotAssumption == time_slot \in Nat \ {0}
ASSUME ConfigAssumption ==
    /\ Config \in Seq(Proc)
    /\ {Config[k] : k \in 1..Len(Config)} = Proc /\ Len(Config) = Cardinality(Proc)
ASSUME StartAssumption == start_time \in [Proc -> 0..Horizon]
ASSUME CodeAssumption == code_size \in [Proc -> Nat]

VARIABLES cpc,          \* where each CPU thread is in cpu_routine
          proc,         \* its local proc
          time_left,    \* its local time_left
          lpc, i,       \* the loader's place in ld_routine and its local i
          done,         \* the shared flag: no process is left to load
          pc,           \* proc->pc of every process
          freed,        \* history: processes whose pcb was freed
          ran           \* history: processes that executed in the current slot

localVars == <<cpc, proc, time_left>>
loaderVars == <<lpc, i, done>>
osVars == <<mlq_ready_queue, slot, running_list, time, status, cpc, proc, time_left,
            lpc, i, done, pc, freed, ran>>

CpuPC == {"top", "first_get", "get", "recheck", "run", "next_slot", "detach", "stopped"}
LoaderPC == {"load", "next_slot", "detach", "stopped"}

OsTypeOK == /\ MlqTypeOK
            /\ \A l \in Level : slot[l] <= FullSlot(l)
            /\ ClockTypeOK
            /\ cpc \in [CPU -> CpuPC]
            /\ proc \in [CPU -> Proc \cup {NULL}]
            /\ time_left \in [CPU -> 0..time_slot]
            /\ lpc \in LoaderPC /\ i \in 1..(Len(Config) + 1) /\ done \in BOOLEAN
            /\ \A p \in Proc : pc[p] \in 0..code_size[p]
            /\ freed \subseteq Proc /\ ran \subseteq Proc

OsInit == /\ MlqInit /\ ClockInit
          /\ cpc = [c \in CPU |-> "top"]
          /\ proc = [c \in CPU |-> NULL]
          /\ time_left = [c \in CPU |-> 0]
          /\ lpc = "load" /\ i = 1 /\ done = FALSE
          /\ pc = [p \in Proc |-> 0]
          /\ freed = {} /\ ran = {}

-----------------------------------------------------------------------------
(* cpu_routine.  A CPU that has entered next_slot acts again after the tick.  *)

\* Mutant: next_slot comes back at once.
AtAnyTime(c, l) == cpc[c] = l

At(c, l) == cpc[c] = l /\ status[c] = "working"
Goto(c, l) == cpc' = [cpc EXCEPT ![c] = l]

Ended(p) == pc[p] = code_size[p]

\* Mutant: the quantum tested off by one.
QuantumOverrun(c) == time_left[c] < 0

QuantumUp(c) == time_left[c] = 0

\* Mutant: `time_left = 0' forgotten after free.
LeftoverKept(c) == time_left[c]

LeftAfterFree(c) == 0

\* Mutant: a CPU that finds nothing stops, whatever is still to be loaded.
StopsEarly == TRUE

NoMoreToLoad == done

\* "Check the status of current process": no process, ...
CheckNone(c) ==
    /\ At(c, "top") /\ proc[c] = NULL
    /\ Goto(c, "first_get")
    /\ UNCHANGED <<mlqVars, clockVars, proc, time_left, loaderVars, pc, freed, ran>>

\* ... a process that has run its last instruction, ...
CheckFinished(c) ==
    /\ At(c, "top") /\ proc[c] # NULL /\ Ended(proc[c])
    /\ freed' = freed \cup {proc[c]}
    /\ proc' = [proc EXCEPT ![c] = NULL]
    /\ time_left' = [time_left EXCEPT ![c] = LeftAfterFree(c)]
    /\ Goto(c, "get")
    /\ UNCHANGED <<mlqVars, clockVars, loaderVars, pc, ran>>

\* ... a process whose quantum is used up, ...
CheckQuantum(c) ==
    /\ At(c, "top") /\ proc[c] # NULL /\ ~Ended(proc[c]) /\ QuantumUp(c)
    /\ PutProc(proc[c])
    /\ proc' = [proc EXCEPT ![c] = NULL]
    /\ Goto(c, "get")
    /\ UNCHANGED <<clockVars, time_left, loaderVars, pc, freed, ran>>

\* ... or one that goes on.
CheckGoesOn(c) ==
    /\ At(c, "top") /\ proc[c] # NULL /\ ~Ended(proc[c]) /\ ~QuantumUp(c)
    /\ Goto(c, "run")
    /\ UNCHANGED <<mlqVars, clockVars, proc, time_left, loaderVars, pc, freed, ran>>

\* get_proc for a CPU that had none: a failure skips the slot and the re-check,
\* and with the re-check the test of `done'.
FirstGet(c) ==
    /\ At(c, "first_get")
    /\ \E p \in Proc \cup {NULL} :
         /\ GetProc(p)
         /\ proc' = [proc EXCEPT ![c] = p]
         /\ Goto(c, IF p = NULL THEN "next_slot" ELSE "recheck")
    /\ UNCHANGED <<clockVars, time_left, loaderVars, pc, freed, ran>>

\* get_proc after a process was freed or put back.
GetNext(c) ==
    /\ At(c, "get")
    /\ \E p \in Proc \cup {NULL} : GetProc(p) /\ proc' = [proc EXCEPT ![c] = p]
    /\ Goto(c, "recheck")
    /\ UNCHANGED <<clockVars, time_left, loaderVars, pc, freed, ran>>

\* "Recheck process status after loading new process": stop, ...
RecheckStop(c) ==
    /\ At(c, "recheck") /\ proc[c] = NULL /\ NoMoreToLoad
    /\ Goto(c, "detach")
    /\ UNCHANGED <<mlqVars, clockVars, proc, time_left, loaderVars, pc, freed, ran>>

\* ... skip the slot, ...
RecheckSkip(c) ==
    /\ At(c, "recheck") /\ proc[c] = NULL /\ ~NoMoreToLoad
    /\ Goto(c, "next_slot")
    /\ UNCHANGED <<mlqVars, clockVars, proc, time_left, loaderVars, pc, freed, ran>>

\* ... or dispatch.
RecheckDispatch(c) ==
    /\ At(c, "recheck") /\ proc[c] # NULL
    /\ time_left' = [time_left EXCEPT ![c] = IF @ = 0 THEN time_slot ELSE @]
    /\ Goto(c, "run")
    /\ UNCHANGED <<mlqVars, clockVars, proc, loaderVars, pc, freed, ran>>

\* run: one instruction, unless the program counter is past the end.
Run(c) ==
    /\ At(c, "run")
    /\ LET p == proc[c] IN
         IF pc[p] < code_size[p]
           THEN pc' = [pc EXCEPT ![p] = @ + 1] /\ ran' = ran \cup {p}
           ELSE UNCHANGED <<pc, ran>>
    /\ time_left' = [time_left EXCEPT ![c] = @ - 1]
    /\ Goto(c, "next_slot")
    /\ UNCHANGED <<mlqVars, clockVars, proc, loaderVars, freed>>

CpuNextSlot(c) ==
    /\ At(c, "next_slot")
    /\ Arrive(c)
    /\ Goto(c, "top")
    /\ UNCHANGED <<mlqVars, proc, time_left, loaderVars, pc, freed, ran>>

CpuDetach(c) ==
    /\ At(c, "detach")
    /\ Detach(c)
    /\ Goto(c, "stopped")
    /\ UNCHANGED <<mlqVars, proc, time_left, loaderVars, pc, freed, ran>>

-----------------------------------------------------------------------------
(* ld_routine.                                                                *)

LdAt(l) == lpc = l /\ status[ld] = "working"

TooEarly == time < start_time[Config[i]]

\* Mutant: the index moves on while the loader waits.
LdWaitMovesOn ==
    /\ LdAt("load") /\ i <= Len(Config) /\ TooEarly
    /\ Arrive(ld)
    /\ i' = i + 1
    /\ UNCHANGED <<mlqVars, localVars, lpc, done, pc, freed, ran>>

\* The loop that waits for start_time; the process is loaded but not yet added.
LdWait ==
    /\ LdAt("load") /\ i <= Len(Config) /\ TooEarly
    /\ Arrive(ld)
    /\ UNCHANGED <<mlqVars, localVars, loaderVars, pc, freed, ran>>

LdAdd ==
    /\ LdAt("load") /\ i <= Len(Config) /\ ~TooEarly
    /\ AddProc(Config[i])
    /\ i' = i + 1
    /\ lpc' = "next_slot"
    /\ UNCHANGED <<clockVars, localVars, done, pc, freed, ran>>

LdNextSlot ==
    /\ LdAt("next_slot")
    /\ Arrive(ld)
    /\ lpc' = "load"
    /\ UNCHANGED <<mlqVars, localVars, i, done, pc, freed, ran>>

\* Every process is added: the CPUs may stop when they find nothing to run.
LdDone ==
    /\ LdAt("load") /\ i > Len(Config)
    /\ done' = TRUE
    /\ lpc' = "detach"
    /\ UNCHANGED <<mlqVars, clockVars, localVars, i, pc, freed, ran>>

LdDetach ==
    /\ LdAt("detach")
    /\ Detach(ld)
    /\ lpc' = "stopped"
    /\ UNCHANGED <<mlqVars, localVars, i, done, pc, freed, ran>>

-----------------------------------------------------------------------------
\* The timer, on behalf of all devices.
OsTick == /\ Tick
          /\ ran' = {}
          /\ UNCHANGED <<mlqVars, localVars, loaderVars, pc, freed>>

CpuStep(c) == \/ CheckNone(c) \/ CheckFinished(c) \/ CheckQuantum(c) \/ CheckGoesOn(c)
              \/ FirstGet(c) \/ GetNext(c)
              \/ RecheckStop(c) \/ RecheckSkip(c) \/ RecheckDispatch(c)
              \/ Run(c) \/ CpuNextSlot(c) \/ CpuDetach(c)

LdStep == LdWait \/ LdAdd \/ LdNextSlot \/ LdDone \/ LdDetach

OsNext == (\E c \in CPU : CpuStep(c)) \/ LdStep \/ OsTick

\* Each thread runs, and timer.c ends a slot everybody has arrived in (ImplementsClock
\* of Timer.tla).  The mutex of the scheduler is held for one step at a time.
OsFairness == /\ \A c \in CPU : WF_osVars(CpuStep(c))
              /\ WF_osVars(LdStep)
              /\ WF_osVars(OsTick)

OsSpec == OsInit /\ [][OsNext]_osVars /\ OsFairness

-----------------------------------------------------------------------------
(* Properties.                                                                *)

Running == {proc[c] : c \in CPU} \ {NULL}

S == INSTANCE Sched WITH loaded <- {Config[k] : k \in 1..(i - 1)}, held <- Running

\* The simulator is an environment of the scheduler that Sched.tla allows: no CPU
\* puts back, runs or frees a process another CPU has, or one it has given away.
ImplementsSched == S!SchedSpec

\* A process executes at most one instruction in a slot, even when it is put back
\* by one CPU and got by another within that slot.
OneInstructionPerSlot == [][\A p \in Proc : pc'[p] # pc[p] => p \notin ran]_osVars

\* No process inherits what another one, or an earlier turn, left of its quantum.
NoLeftoverQuantum == \A c \in CPU : proc[c] = NULL => time_left[c] = 0

\* When all the CPUs have stopped no work is left: every process of the
\* configuration was loaded, ran to its end and was freed.
StoppedMeansFinished == (\A c \in CPU : cpc[c] = "stopped") => freed = Proc

\* Every process of the configuration is loaded, runs to its end and is freed.
EveryProcessFinishes == \A p \in Proc : <>(p \in freed /\ pc[p] = code_size[p])

\* The simulator comes to an end: what main waits for.
SimulatorStops == <>(lpc = "stopped" /\ \A c \in CPU : cpc[c] = "stopped")
=============================================================================
