---------------------------- MODULE SchedWait ----------------------------
(* Sched with a history variable: how many other dispatches each process has  *)
(* sat through since it entered a ready queue.  It bounds the waiting time of *)
(* the MLQ policy without any fairness assumption.                            *)
EXTENDS Sched

VARIABLE waited

waitVars == <<mlq_ready_queue, slot, running_list, loaded, held, freed, waited>>

WaitInit == SchedInit /\ waited = [p \in Proc |-> 0]

\* A dispatch is counted against every process left in the queues.
WaitGet(p) == /\ Get(p)
              /\ waited' = [q \in Proc |->
                              IF q = p THEN 0
                              ELSE IF q \in Queued THEN waited[q] + 1 ELSE waited[q]]

WaitNext == \/ \E p \in Proc : WaitGet(p)
            \/ \E p \in Proc : (Load(p) \/ Put(p) \/ Finish(p)) /\ UNCHANGED waited
            \/ AllFinished /\ UNCHANGED waited

WaitSpec == WaitInit /\ [][WaitNext]_waitVars

\* The dispatches of a whole round: MAX_PRIO + ... + 2 + 1.
RoundLength == (MAX_PRIO * (MAX_PRIO + 1)) \div 2

SameLevel(p) == {q \in Proc : prio[q] = prio[p]}

\* The rounds p needs to get through a queue of all the processes of its level.
RoundsNeeded(p) == (Cardinality(SameLevel(p)) + FullSlot(prio[p]) - 1) \div FullSlot(prio[p])

\* Nobody starves: a waiting process sits through at most the rest of a round in
\* which its level has no slot left, and RoundsNeeded more rounds up to its turn,
\* whatever the CPUs put back in front of it and however high the priorities of
\* the processes that keep arriving.
BoundedWait ==
    \A p \in Proc :
        waited[p] < RoundLength * (RoundsNeeded(p) + 1) - FullSlot(prio[p])
=============================================================================
