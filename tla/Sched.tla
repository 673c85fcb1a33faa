------------------------------ MODULE Sched ------------------------------
(* The ready queues as the rest of the simulator uses them, with no clock: a  *)
(* loader that adds each process once, and CPUs that get processes, put them  *)
(* back or free them in any order.  How many CPUs there are and when they act *)
(* is left open; Os.tla is one such environment and is checked to implement   *)
(* this module.                                                               *)
EXTENDS Mlq

VARIABLES loaded,       \* processes handed to add_proc so far
          held,         \* processes in the variable `proc' of some CPU
          freed         \* processes whose pcb a CPU has freed

schedVars == <<mlq_ready_queue, slot, running_list, loaded, held, freed>>

\* Slots never leave the range of the comment above get_mlq_proc: 0..(MAX_PRIO - prio).
SchedTypeOK == /\ MlqTypeOK
               /\ \A i \in Level : slot[i] <= FullSlot(i)
               /\ loaded \subseteq Proc
               /\ held \subseteq Proc
               /\ freed \subseteq Proc

SchedInit == /\ MlqInit
             /\ loaded = {} /\ held = {} /\ freed = {}

\* ld_routine: add_proc of a process it has just loaded.
Load(p) == /\ p \notin loaded
           /\ AddProc(p)
           /\ loaded' = loaded \cup {p}
           /\ UNCHANGED <<held, freed>>

\* cpu_routine: get_proc returns a process.
Get(p) == /\ GetProc(p)
          /\ held' = held \cup {p}
          /\ UNCHANGED <<loaded, freed>>

\* cpu_routine: the quantum is used up.
Put(p) == /\ p \in held
          /\ PutProc(p)
          /\ held' = held \ {p}
          /\ UNCHANGED <<loaded, freed>>

\* cpu_routine: the process has run its last instruction.
Finish(p) == /\ p \in held
             /\ held' = held \ {p}
             /\ freed' = freed \cup {p}
             /\ UNCHANGED <<mlqVars, loaded>>

\* The configuration has run to its end; CPUs go on asking in vain.
AllFinished == freed = Proc /\ UNCHANGED schedVars

SchedNext == \/ \E p \in Proc : Load(p) \/ Get(p) \/ Put(p) \/ Finish(p)
             \/ AllFinished

SchedSpec == SchedInit /\ [][SchedNext]_schedVars

-----------------------------------------------------------------------------
(* Properties.                                                                *)

Queued == {p \in Proc :
             \E i \in Level : \E k \in 1..Len(mlq_ready_queue[i]) : mlq_ready_queue[i][k] = p}

\* Each level holds processes of its priority, each of them once.
QueuesInOrder ==
    \A i \in Level :
        /\ \A k \in 1..Len(mlq_ready_queue[i]) : prio[mlq_ready_queue[i][k]] = i
        /\ \A j, k \in 1..Len(mlq_ready_queue[i]) :
              mlq_ready_queue[i][j] = mlq_ready_queue[i][k] => j = k

\* Every process that was loaded is in exactly one place: one entry of the queue
\* of its own level, one CPU, or freed.  enqueue may not drop it, get_proc may not
\* hand it out twice, and no CPU may free what another one can still get.
NoProcessLost ==
    /\ loaded = Queued \cup held \cup freed
    /\ Queued \cap held = {} /\ Queued \cap freed = {} /\ held \cap freed = {}
    /\ QueuesInOrder

Listed == {running_list[k] : k \in 1..Len(running_list)}

\* Whatever a CPU holds can be found through running_list, where killall looks for
\* it, up to the dispatch that finds the list full.  The converse does not hold:
\* nothing ever takes a process off the list again.
RunningIsListed == Len(running_list) < MAX_QUEUE_SIZE => held \subseteq Listed
=============================================================================
