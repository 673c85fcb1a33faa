------------------------------- MODULE Mlq -------------------------------
(* The multi-level ready queue: queue.c, and sched.c as it is built with      *)
(* MLQ_SCHED.  Every operation is one critical section of queue_lock, so it   *)
(* is one step.  The module holds the scheduler's state and its operations;   *)
(* Sched.tla puts them in an environment of CPUs and Os.tla in the simulator. *)
EXTENDS Naturals, Sequences, FiniteSets

CONSTANTS MAX_PRIO,         \* number of priority levels, 0 the highest
          MAX_QUEUE_SIZE,   \* capacity of every queue_t
          Proc,             \* the processes of the configuration
          prio,             \* prio[p], fixed when the loader creates p
          NULL

ASSUME MaxPrioAssumption == MAX_PRIO \in Nat \ {0}
ASSUME QueueSizeAssumption == MAX_QUEUE_SIZE \in Nat \ {0}
ASSUME ProcAssumption == IsFiniteSet(Proc) /\ NULL \notin Proc
ASSUME PrioAssumption == prio \in [Proc -> 0..(MAX_PRIO - 1)]

VARIABLES mlq_ready_queue,  \* one queue per priority
          slot,             \* dispatches each level has left in this round
          running_list      \* krnl->running_list, as killall finds it

mlqVars == <<mlq_ready_queue, slot, running_list>>

Level == 0..(MAX_PRIO - 1)

FullSlot(i) == MAX_PRIO - i

MlqTypeOK == /\ mlq_ready_queue \in [Level -> Seq(Proc)]
             /\ slot \in [Level -> Nat]
             /\ running_list \in Seq(Proc)

-----------------------------------------------------------------------------
(* queue.c                                                                    *)

\* Mutant: the last entry of the array never used.
EnqueueEarly(q, p) == IF Len(q) >= MAX_QUEUE_SIZE - 1 THEN q ELSE Append(q, p)

\* A full queue drops the process without a word.
Enqueue(q, p) == IF Len(q) >= MAX_QUEUE_SIZE THEN q ELSE Append(q, p)

\* The first position among those of the smallest prio.
HighestPrioIdx(q) ==
    CHOOSE i \in 1..Len(q) :
        \A j \in 1..Len(q) : \/ prio[q[i]] < prio[q[j]]
                             \/ prio[q[i]] = prio[q[j]] /\ i <= j

\* Mutant: the shift loop starts one entry late.
RemoveIdxLate(q, k) == [j \in 1..(Len(q) - 1) |-> IF j <= k THEN q[j] ELSE q[j + 1]]

\* The loop that shifts the entries behind position k.
RemoveIdx(q, k) == [j \in 1..(Len(q) - 1) |-> IF j < k THEN q[j] ELSE q[j + 1]]

Dequeued(q) == q[HighestPrioIdx(q)]
AfterDequeue(q) == RemoveIdx(q, HighestPrioIdx(q))

-----------------------------------------------------------------------------
(* sched.c                                                                    *)

MlqInit == /\ mlq_ready_queue = [i \in Level |-> << >>]
           /\ slot = [i \in Level |-> FullSlot(i)]
           /\ running_list = << >>

NonEmpty(i) == mlq_ready_queue[i] # << >>

\* Nothing in any level: get_proc has nothing to return.
Idle == \A i \in Level : ~NonEmpty(i)

\* Mutant: the test of the slots left out.
EligibleSpent(s) == {i \in Level : NonEmpty(i)}

\* The levels step 1 of get_mlq_proc accepts for the slots s.
Eligible(s) == {i \in Level : NonEmpty(i) /\ s[i] > 0}

\* Mutant: the slots are never given back.
RoundSlotNever == slot

\* The slots step 3 works with: all levels start again when processes wait and
\* none of their levels has a slot left.
RoundSlot == IF Eligible(slot) = {} /\ ~Idle
               THEN [i \in Level |-> FullSlot(i)]
               ELSE slot

\* The level the scan from 0 upwards stops at.
IsFirst(i, S) == i \in S /\ \A j \in S : i <= j

\* Mutant: slot[i]-- forgotten.
SpendNothing(i) == RoundSlot

Spend(i) == [RoundSlot EXCEPT ![i] = @ - 1]

\* get_proc, returning p.
GetProc(p) ==
    \/ /\ p = NULL
       /\ Idle
       /\ UNCHANGED mlqVars
    \/ \E i \in Level :
         /\ IsFirst(i, Eligible(RoundSlot))
         /\ p = Dequeued(mlq_ready_queue[i])
         /\ mlq_ready_queue' = [mlq_ready_queue EXCEPT ![i] = AfterDequeue(@)]
         /\ slot' = Spend(i)
         /\ running_list' = Enqueue(running_list, p)

\* put_proc and add_proc do the same: the tail of the queue of the process's level.
PutProc(p) ==
    /\ mlq_ready_queue' = [mlq_ready_queue EXCEPT ![prio[p]] = Enqueue(@, p)]
    /\ UNCHANGED <<slot, running_list>>

AddProc(p) == PutProc(p)
=============================================================================
