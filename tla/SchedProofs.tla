--------------------------- MODULE SchedProofs ---------------------------
(* Proofs about Sched.tla, for any number of priority levels and any finite   *)
(* set of processes with any priorities.  Only that no process is lost needs  *)
(* queues with room for all of them.  The last part is about SchedWait.tla:   *)
(* how long a process can wait.                                               *)
EXTENDS SchedWait, SequenceTheorems, FiniteSetTheorems, Induction, TLAPS

\* The processes of a level.
OfLevel(i) == {p \in Proc : prio[p] = i}

\* What the simulator relies on and nowhere checks: at most MAX_QUEUE_SIZE
\* processes of one priority in a configuration.
RoomForAll == \A i \in Level : Cardinality(OfLevel(i)) <= MAX_QUEUE_SIZE

-----------------------------------------------------------------------------
(* The operations of queue.c on one queue.                                    *)

\* A process's priority is a level, and a level is a natural number.
LEMMA LevelFacts ==
    /\ \A i \in Level : i \in Nat /\ FullSlot(i) \in Nat /\ FullSlot(i) > 0
    /\ \A p \in Proc : prio[p] \in Level
BY MaxPrioAssumption, PrioAssumption DEF Level, FullSlot

\* A queue of processes stays one.
LEMMA EnqueueType ==
    ASSUME NEW q \in Seq(Proc), NEW p \in Proc
    PROVE  Enqueue(q, p) \in Seq(Proc)
BY AppendProperties DEF Enqueue

\* Whatever else is in the queue afterwards was there, in the same place.
LEMMA EnqueueKeeps ==
    ASSUME NEW q \in Seq(Proc), NEW p \in Proc, NEW r, r = Enqueue(q, p)
    PROVE  \A k \in 1..Len(r) : r[k] = p \/ (k \in 1..Len(q) /\ q[k] = r[k])
<1>1. Len(q) \in Nat
    BY LenProperties
<1>2. CASE r = q
    BY <1>2
<1>3. CASE r = Append(q, p)
  <2>1. /\ Len(r) = Len(q) + 1
        /\ \A j \in 1..Len(r) : r[j] = IF j <= Len(q) THEN q[j] ELSE p
      BY <1>3, AppendProperties
  <2> QED BY <1>1, <2>1
<1> QED BY <1>2, <1>3 DEF Enqueue

\* A queue of one level without duplicates has at most the processes of that level.
LEMMA QueueFits ==
    ASSUME NEW q \in Seq(Proc), NEW i,
           \A k \in 1..Len(q) : prio[q[k]] = i,
           \A j, k \in 1..Len(q) : q[j] = q[k] => j = k
    PROVE  Cardinality(OfLevel(i)) \in Nat /\ Len(q) <= Cardinality(OfLevel(i))
<1> DEFINE Same == OfLevel(i)
<1>1. Len(q) \in Nat /\ q \in [1..Len(q) -> Proc]
    BY LenProperties
<1>2. IsFiniteSet(Same) /\ Cardinality(Same) \in Nat
    BY ProcAssumption, FS_Subset, FS_CardinalityType DEF OfLevel
<1>3. IsFiniteSet(1..Len(q)) /\ Cardinality(1..Len(q)) = Len(q)
  <2>1. 1 \in Int /\ Len(q) \in Int
      BY <1>1
  <2>2. Cardinality(1..Len(q)) = IF 1 > Len(q) THEN 0 ELSE Len(q) - 1 + 1
      BY <2>1, FS_Interval
  <2>3. IsFiniteSet(1..Len(q))
      BY <2>1, FS_Interval
  <2>4. (IF 1 > Len(q) THEN 0 ELSE Len(q) - 1 + 1) = Len(q)
      BY <1>1
  <2> QED BY <2>2, <2>3, <2>4
<1>4. q \in [1..Len(q) -> Same]
    BY <1>1 DEF OfLevel
<1>5. ~(Cardinality(Same) < Cardinality(1..Len(q)))
    BY <1>2, <1>3, <1>4, FS_PigeonHole
<1> HIDE DEF Same
<1>6. Len(q) <= Cardinality(Same)
    BY <1>1, <1>2, <1>3, <1>5
<1> QED BY <1>2, <1>6 DEF Same

\* A queue of p's level, without duplicates, that does not hold p has room for p.
LEMMA EnqueueHasRoom ==
    ASSUME RoomForAll, NEW q \in Seq(Proc), NEW p \in Proc,
           \A k \in 1..Len(q) : prio[q[k]] = prio[p],
           \A k \in 1..Len(q) : q[k] # p,
           \A j, k \in 1..Len(q) : q[j] = q[k] => j = k
    PROVE  Enqueue(q, p) = Append(q, p)
<1> DEFINE r == Append(q, p)
<1>1. /\ Len(q) \in Nat /\ r \in Seq(Proc) /\ Len(r) = Len(q) + 1
      /\ \A k \in 1..Len(r) : r[k] = IF k <= Len(q) THEN q[k] ELSE p
    BY LenProperties, AppendProperties
<1> HIDE DEF r
<1>2. /\ \A k \in 1..Len(r) : prio[r[k]] = prio[p]
      /\ \A j, k \in 1..Len(r) : r[j] = r[k] => j = k
    BY <1>1
<1>3. Cardinality(OfLevel(prio[p])) \in Nat /\ Len(r) <= Cardinality(OfLevel(prio[p]))
    BY <1>1, <1>2, QueueFits
<1>4. Cardinality(OfLevel(prio[p])) <= MAX_QUEUE_SIZE
    BY LevelFacts DEF RoomForAll
<1>5. ~(Len(q) >= MAX_QUEUE_SIZE)
    BY <1>1, <1>3, <1>4, QueueSizeAssumption
<1> QED BY <1>5, Zenon DEF Enqueue

\* A sequence on 1..n has length n.
LEMMA LenOfDomain ==
    ASSUME NEW r \in Seq(Proc), NEW n \in Nat, r \in [1..n -> Proc]
    PROVE  Len(r) = n
<1>1. Len(r) \in Nat /\ DOMAIN r = 1..Len(r) /\ DOMAIN r = 1..n
    BY LenProperties
<1> QED BY <1>1

\* What the shift loop of dequeue leaves: one entry less, the others in order.
LEMMA RemoveIdxProperties ==
    ASSUME NEW q \in Seq(Proc), NEW k \in 1..Len(q)
    PROVE  /\ RemoveIdx(q, k) \in Seq(Proc)
           /\ Len(RemoveIdx(q, k)) = Len(q) - 1
           /\ \A j \in 1..(Len(q) - 1) :
                 RemoveIdx(q, k)[j] = IF j < k THEN q[j] ELSE q[j + 1]
<1> DEFINE r == RemoveIdx(q, k)
           n == Len(q) - 1
<1>1. Len(q) \in Nat /\ q \in [1..Len(q) -> Proc] /\ n \in Nat
    BY LenProperties
<1>2. r \in [1..n -> Proc]
    BY <1>1 DEF RemoveIdx
<1>3. r \in Seq(Proc)
  <2>1. r \in UNION {[1..m -> Proc] : m \in Nat}
      BY <1>1, <1>2, Zenon
  <2> QED BY <2>1, SeqDef, Zenon
<1>4. Len(r) = n
    BY <1>1, <1>2, <1>3, LenOfDomain
<1>5. \A j \in 1..n : r[j] = IF j < k THEN q[j] ELSE q[j + 1]
    BY DEF RemoveIdx
<1> QED BY <1>3, <1>4, <1>5

\* In a queue of one priority the process that waits longest is taken.
LEMMA DequeueIsFifo ==
    ASSUME NEW q \in Seq(Proc), q # << >>, NEW i \in Level,
           \A k \in 1..Len(q) : prio[q[k]] = i
    PROVE  HighestPrioIdx(q) = 1
<1>1. Len(q) \in Nat /\ Len(q) > 0
    BY EmptySeq, LenProperties
<1>2. i \in Nat
    BY LevelFacts
<1>3. \A h \in 1..Len(q) :
         (\A j \in 1..Len(q) : \/ prio[q[h]] < prio[q[j]]
                               \/ prio[q[h]] = prio[q[j]] /\ h <= j) <=> h = 1
    BY <1>1, <1>2
<1> QED BY <1>1, <1>3 DEF HighestPrioIdx

-----------------------------------------------------------------------------
(* The operations of sched.c.                                                 *)

\* The slots a dispatch works with are at most the full ones.
LEMMA RoundSlotType ==
    ASSUME SchedTypeOK
    PROVE  RoundSlot \in [Level -> Nat] /\ \A i \in Level : RoundSlot[i] <= FullSlot(i)
<1>1. /\ [i \in Level |-> FullSlot(i)] \in [Level -> Nat]
      /\ \A i \in Level : [j \in Level |-> FullSlot(j)][i] <= FullSlot(i)
    BY LevelFacts
<1>2. slot \in [Level -> Nat] /\ \A i \in Level : slot[i] <= FullSlot(i)
    BY DEF SchedTypeOK, MlqTypeOK
<1>3. RoundSlot = slot \/ RoundSlot = [i \in Level |-> FullSlot(i)]
    BY DEF RoundSlot
<1> QED BY <1>1, <1>2, <1>3

\* get_proc takes the longest waiting process of one level, and one of its slots.
LEMMA GetProcTakes ==
    ASSUME SchedTypeOK, QueuesInOrder, NEW p \in Proc, GetProc(p)
    PROVE  \E i \in Level :
              /\ mlq_ready_queue[i] \in Seq(Proc) /\ mlq_ready_queue[i] # << >>
              /\ p = mlq_ready_queue[i][1]
              /\ mlq_ready_queue' =
                    [mlq_ready_queue EXCEPT ![i] = RemoveIdx(mlq_ready_queue[i], 1)]
              /\ RoundSlot[i] > 0
              /\ slot' = [RoundSlot EXCEPT ![i] = RoundSlot[i] - 1]
              /\ running_list' = Enqueue(running_list, p)
<1>1. p # NULL
    BY ProcAssumption
<1>2. PICK i \in Level :
         /\ IsFirst(i, Eligible(RoundSlot))
         /\ p = Dequeued(mlq_ready_queue[i])
         /\ mlq_ready_queue' =
               [mlq_ready_queue EXCEPT ![i] = AfterDequeue(mlq_ready_queue[i])]
         /\ slot' = Spend(i)
         /\ running_list' = Enqueue(running_list, p)
    BY <1>1 DEF GetProc
<1>3. mlq_ready_queue[i] # << >> /\ RoundSlot[i] > 0
    BY <1>2 DEF IsFirst, Eligible, NonEmpty
<1>4. mlq_ready_queue[i] \in Seq(Proc)
    BY DEF SchedTypeOK, MlqTypeOK
<1>5. HighestPrioIdx(mlq_ready_queue[i]) = 1
    BY <1>3, <1>4, DequeueIsFifo DEF QueuesInOrder
<1> QED BY <1>2, <1>3, <1>4, <1>5 DEF Dequeued, AfterDequeue, Spend

\* get_proc keeps the scheduler well typed.
LEMMA GetProcType ==
    ASSUME SchedTypeOK, QueuesInOrder, NEW p \in Proc, GetProc(p)
    PROVE  MlqTypeOK' /\ \A i \in Level : slot'[i] <= FullSlot(i)
<1>1. PICK i \in Level :
         /\ mlq_ready_queue[i] \in Seq(Proc) /\ mlq_ready_queue[i] # << >>
         /\ mlq_ready_queue' =
               [mlq_ready_queue EXCEPT ![i] = RemoveIdx(mlq_ready_queue[i], 1)]
         /\ RoundSlot[i] > 0
         /\ slot' = [RoundSlot EXCEPT ![i] = RoundSlot[i] - 1]
         /\ running_list' = Enqueue(running_list, p)
    BY GetProcTakes
<1>2. RemoveIdx(mlq_ready_queue[i], 1) \in Seq(Proc)
  <2>1. 1 \in 1..Len(mlq_ready_queue[i])
      BY <1>1, EmptySeq
  <2> QED BY <1>1, <2>1, RemoveIdxProperties
<1>3. mlq_ready_queue' \in [Level -> Seq(Proc)]
    BY <1>1, <1>2 DEF SchedTypeOK, MlqTypeOK
<1>4. slot' \in [Level -> Nat] /\ \A j \in Level : slot'[j] <= FullSlot(j)
    BY <1>1, RoundSlotType, LevelFacts
<1>5. running_list' \in Seq(Proc)
    BY <1>1, EnqueueType DEF SchedTypeOK, MlqTypeOK
<1> QED BY <1>3, <1>4, <1>5 DEF MlqTypeOK

\* So do put_proc and add_proc.
LEMMA PutProcType ==
    ASSUME SchedTypeOK, NEW p \in Proc, PutProc(p)
    PROVE  MlqTypeOK' /\ \A i \in Level : slot'[i] <= FullSlot(i)
<1>1. prio[p] \in Level /\ mlq_ready_queue[prio[p]] \in Seq(Proc)
    BY LevelFacts DEF SchedTypeOK, MlqTypeOK
<1>2. Enqueue(mlq_ready_queue[prio[p]], p) \in Seq(Proc)
    BY <1>1, EnqueueType
<1>3. mlq_ready_queue' \in [Level -> Seq(Proc)]
    BY <1>1, <1>2 DEF PutProc, SchedTypeOK, MlqTypeOK
<1> QED BY <1>3 DEF PutProc, SchedTypeOK, MlqTypeOK

\* get_proc removes p from the queues, and nothing else changes place.
LEMMA GetProcMoves ==
    ASSUME SchedTypeOK, QueuesInOrder, NEW p \in Proc, GetProc(p)
    PROVE  p \in Queued /\ Queued' = Queued \ {p} /\ QueuesInOrder'
<1>1. PICK i \in Level :
         /\ mlq_ready_queue[i] \in Seq(Proc) /\ mlq_ready_queue[i] # << >>
         /\ p = mlq_ready_queue[i][1]
         /\ mlq_ready_queue' =
               [mlq_ready_queue EXCEPT ![i] = RemoveIdx(mlq_ready_queue[i], 1)]
    BY GetProcTakes
<1> DEFINE q == mlq_ready_queue[i]
           r == RemoveIdx(q, 1)
<1>2. Len(q) \in Nat /\ Len(q) > 0 /\ 1 \in 1..Len(q)
    BY <1>1, EmptySeq, LenProperties
<1>3. /\ Len(r) = Len(q) - 1
      /\ \A j \in 1..(Len(q) - 1) : r[j] = q[j + 1]
  <2>1. /\ Len(r) = Len(q) - 1
        /\ \A j \in 1..(Len(q) - 1) : r[j] = IF j < 1 THEN q[j] ELSE q[j + 1]
      BY <1>1, <1>2, RemoveIdxProperties, Zenon
  <2> HIDE DEF r
  <2>2. \A j \in 1..(Len(q) - 1) : ~(j < 1)
      BY <1>2
  <2> QED BY <2>1, <2>2
<1>4. /\ mlq_ready_queue'[i] = r
      /\ \A l \in Level \ {i} : mlq_ready_queue'[l] = mlq_ready_queue[l]
    BY <1>1 DEF SchedTypeOK, MlqTypeOK
<1> HIDE DEF r
<1>5. p \in Queued
    BY <1>1, <1>2 DEF Queued
<1>6. prio[p] = i
    BY <1>1, <1>2 DEF QueuesInOrder
<1>7. \A x \in Proc : (\E k \in 1..Len(r) : r[k] = x) <=>
                        (x # p /\ \E k \in 1..Len(q) : q[k] = x)
  <2>1. ASSUME NEW x \in Proc, NEW k \in 1..Len(r), r[k] = x
        PROVE  x # p /\ \E h \in 1..Len(q) : q[h] = x
    <3>1. k + 1 \in 1..Len(q) /\ q[k + 1] = x /\ k + 1 # 1
        BY <2>1, <1>2, <1>3
    <3> QED BY <3>1, <1>1, <1>2 DEF QueuesInOrder
  <2>2. ASSUME NEW x \in Proc, x # p, NEW k \in 1..Len(q), q[k] = x
        PROVE  \E h \in 1..Len(r) : r[h] = x
    <3>1. k - 1 \in 1..Len(r) /\ r[k - 1] = x
        BY <2>2, <1>1, <1>2, <1>3
    <3> QED BY <3>1
  <2> QED BY <2>1, <2>2
<1>8. Queued' = Queued \ {p}
  <2>1. \A x \in Proc : x \in Queued' <=>
           \E l \in Level : \E k \in 1..Len(mlq_ready_queue'[l]) : mlq_ready_queue'[l][k] = x
      BY DEF Queued
  <2>2. \A x \in Proc : x \in Queued <=>
           \E l \in Level : \E k \in 1..Len(mlq_ready_queue[l]) : mlq_ready_queue[l][k] = x
      BY DEF Queued
  <2>3. \A l \in Level \ {i} : \A k \in 1..Len(mlq_ready_queue[l]) : mlq_ready_queue[l][k] # p
      BY <1>6 DEF QueuesInOrder
  <2>4. ASSUME NEW x \in Proc PROVE x \in Queued' <=> x \in Queued /\ x # p
      BY <2>1, <2>2, <2>3, <1>4, <1>7
  <2> QED BY <2>4 DEF Queued
<1>9. QueuesInOrder'
  <2>1. \A k \in 1..Len(r) : prio[r[k]] = i
      BY <1>2, <1>3 DEF QueuesInOrder
  <2>2. \A j, k \in 1..Len(r) : r[j] = r[k] => j = k
      BY <1>2, <1>3 DEF QueuesInOrder
  <2> QED BY <2>1, <2>2, <1>4 DEF QueuesInOrder
<1> QED BY <1>5, <1>8, <1>9

\* put_proc and add_proc of a process that is in no queue put it in one, if there is
\* room, and never disturb another.
LEMMA PutProcMoves ==
    ASSUME SchedTypeOK, QueuesInOrder, NEW p \in Proc, p \notin Queued, PutProc(p)
    PROVE  /\ Queued \subseteq Queued' /\ Queued' \subseteq Queued \cup {p}
           /\ QueuesInOrder'
           /\ RoomForAll => p \in Queued'
<1> DEFINE i == prio[p]
           q == mlq_ready_queue[i]
           r == Append(q, p)
<1>1. i \in Level /\ q \in Seq(Proc) /\ Len(q) \in Nat
    BY LevelFacts, LenProperties DEF SchedTypeOK, MlqTypeOK
<1>2. \A k \in 1..Len(q) : q[k] # p
    BY <1>1 DEF Queued
<1>3. RoomForAll => Enqueue(q, p) = r
    BY <1>1, <1>2, EnqueueHasRoom DEF QueuesInOrder
<1>4. /\ mlq_ready_queue'[i] = Enqueue(q, p)
      /\ \A l \in Level \ {i} : mlq_ready_queue'[l] = mlq_ready_queue[l]
    BY <1>1 DEF PutProc, SchedTypeOK, MlqTypeOK
<1>5. Len(r) = Len(q) + 1 /\ \A k \in 1..Len(r) : r[k] = IF k <= Len(q) THEN q[k] ELSE p
    BY <1>1, AppendProperties
<1> HIDE DEF r
<1>6. \A x \in Proc : (\E k \in 1..Len(r) : r[k] = x) <=>
                        (x = p \/ \E k \in 1..Len(q) : q[k] = x)
  <2>1. Len(r) \in 1..Len(r) /\ r[Len(r)] = p
      BY <1>1, <1>5
  <2>2. \A k \in 1..Len(q) : k \in 1..Len(r) /\ r[k] = q[k]
      BY <1>1, <1>5
  <2>3. \A k \in 1..Len(r) : k \in 1..Len(q) \/ r[k] = p
      BY <1>1, <1>5
  <2> QED BY <2>1, <2>2, <2>3
<1>7. CASE Enqueue(q, p) = q
  <2>1. \A l \in Level : mlq_ready_queue'[l] = mlq_ready_queue[l]
      BY <1>4, <1>7
  <2>2. Queued' = Queued /\ QueuesInOrder'
      BY <2>1 DEF Queued, QueuesInOrder
  <2>3. r # q
      BY <1>1, <1>5
  <2> QED BY <1>3, <1>7, <2>2, <2>3
<1>8. CASE Enqueue(q, p) = r
  <2>1. /\ mlq_ready_queue'[i] = r
        /\ \A l \in Level \ {i} : mlq_ready_queue'[l] = mlq_ready_queue[l]
      BY <1>4, <1>8
  <2>2. \A x \in Proc : x \in Queued' <=>
           \E l \in Level : \E k \in 1..Len(mlq_ready_queue'[l]) : mlq_ready_queue'[l][k] = x
      BY DEF Queued
  <2>3. \A x \in Proc : x \in Queued <=>
           \E l \in Level : \E k \in 1..Len(mlq_ready_queue[l]) : mlq_ready_queue[l][k] = x
      BY DEF Queued
  <2>4. ASSUME NEW x \in Proc PROVE x \in Queued' <=> x \in Queued \/ x = p
    <3>1. ASSUME NEW l \in Level
          PROVE  (\E k \in 1..Len(mlq_ready_queue'[l]) : mlq_ready_queue'[l][k] = x)
                 <=> \/ l = i /\ x = p
                     \/ \E k \in 1..Len(mlq_ready_queue[l]) : mlq_ready_queue[l][k] = x
      <4>1. CASE l = i
          BY <2>1, <1>6, <4>1
      <4>2. CASE l # i
          BY <2>1, <4>2
      <4> QED BY <4>1, <4>2
    <3> QED BY <2>2, <2>3, <3>1, <1>1
  <2>5. Queued' = Queued \cup {p}
      BY <2>4 DEF Queued
  <2>6. \A k \in 1..Len(r) : prio[r[k]] = i
      BY <1>1, <1>5 DEF QueuesInOrder
  <2>7. \A j, k \in 1..Len(r) : r[j] = r[k] => j = k
      BY <1>1, <1>2, <1>5 DEF QueuesInOrder
  <2>8. QueuesInOrder'
    <3>1. ASSUME NEW l \in Level
          PROVE  /\ \A k \in 1..Len(mlq_ready_queue'[l]) : prio[mlq_ready_queue'[l][k]] = l
                 /\ \A j, k \in 1..Len(mlq_ready_queue'[l]) :
                        mlq_ready_queue'[l][j] = mlq_ready_queue'[l][k] => j = k
      <4>1. CASE l = i
          BY <2>1, <2>6, <2>7, <4>1
      <4>2. CASE l # i
          BY <2>1, <4>2 DEF QueuesInOrder
      <4> QED BY <4>1, <4>2
    <3> QED BY <3>1 DEF QueuesInOrder
  <2> QED BY <2>5, <2>8
<1> QED BY <1>7, <1>8 DEF Enqueue, r

-----------------------------------------------------------------------------
(* The invariants.                                                            *)

\* NoProcessLost as far as it holds whatever the queues' capacity: a process can get
\* lost, but it is never in two places, and never somewhere before it was loaded.
NoProcessDoubled ==
    /\ Queued \cup held \cup freed \subseteq loaded
    /\ Queued \cap held = {} /\ Queued \cap freed = {} /\ held \cap freed = {}
    /\ QueuesInOrder

SchedInv == SchedTypeOK /\ NoProcessDoubled /\ RunningIsListed

\* What adding room for everybody makes of it.
NoneMissing == loaded \subseteq Queued \cup held \cup freed

\* init_scheduler establishes the invariants.
LEMMA SchedInvInit == SchedInit => SchedInv /\ NoneMissing
<1> SUFFICES ASSUME SchedInit PROVE SchedInv /\ NoneMissing
    OBVIOUS
<1>1. MlqTypeOK /\ \A i \in Level : slot[i] <= FullSlot(i)
    BY EmptySeq, LevelFacts DEF SchedInit, MlqInit, MlqTypeOK
<1>2. \A i \in Level : mlq_ready_queue[i] = << >> /\ Len(mlq_ready_queue[i]) = 0
    BY EmptySeq DEF SchedInit, MlqInit
<1>3. Queued = {} /\ QueuesInOrder
    BY <1>2 DEF Queued, QueuesInOrder
<1> QED BY <1>1, <1>3 DEF SchedInit, SchedInv, SchedTypeOK, NoProcessDoubled, NoneMissing,
                          RunningIsListed

\* A dispatch with room on running_list puts the process there.
LEMMA GetIsListed ==
    ASSUME SchedInv, NEW p \in Proc, Get(p)
    PROVE  RunningIsListed'
<1> DEFINE q == running_list
<1>1. q \in Seq(Proc) /\ Len(q) \in Nat /\ held' = held \cup {p}
    BY LenProperties DEF SchedInv, SchedTypeOK, MlqTypeOK, Get
<1>2. running_list' = Enqueue(q, p)
    BY GetProcTakes DEF Get, SchedInv, NoProcessDoubled
<1>3. CASE Len(q) >= MAX_QUEUE_SIZE
    BY <1>1, <1>2, <1>3, QueueSizeAssumption DEF Enqueue, RunningIsListed
<1>4. CASE ~(Len(q) >= MAX_QUEUE_SIZE)
  <2>1. running_list' = Append(q, p)
      BY <1>2, <1>4 DEF Enqueue
  <2>2. /\ Len(running_list') = Len(q) + 1
        /\ running_list'[Len(q) + 1] = p
        /\ \A k \in 1..Len(q) : running_list'[k] = q[k]
      BY <1>1, <2>1, AppendProperties
  <2>3. p \in Listed'
      BY <1>1, <2>2 DEF Listed
  <2>4. Listed \subseteq Listed'
      BY <1>1, <2>2 DEF Listed
  <2>5. held \subseteq Listed
      BY <1>1, <1>4, QueueSizeAssumption DEF SchedInv, RunningIsListed
  <2> QED BY <1>1, <2>3, <2>4, <2>5 DEF RunningIsListed
<1> QED BY <1>3, <1>4

\* Every dispatch, preemption, load and end of a process preserves them.
LEMMA SchedInvNext ==
    ASSUME SchedInv, [SchedNext]_schedVars
    PROVE  SchedInv' /\ (RoomForAll /\ NoneMissing => NoneMissing')
<1> USE DEF SchedInv
<1> DEFINE Goal == SchedInv' /\ (RoomForAll /\ NoneMissing => NoneMissing')
<1>1. ASSUME NEW p \in Proc, Load(p) PROVE Goal
  <2>1. p \notin Queued /\ PutProc(p) /\ QueuesInOrder
      BY <1>1 DEF Load, AddProc, NoProcessDoubled
  <2>2. MlqTypeOK' /\ \A i \in Level : slot'[i] <= FullSlot(i)
      BY <2>1, PutProcType
  <2>3. /\ Queued \subseteq Queued' /\ Queued' \subseteq Queued \cup {p}
        /\ QueuesInOrder' /\ (RoomForAll => p \in Queued')
      BY <2>1, PutProcMoves
  <2>4. RunningIsListed'
      BY <1>1, <2>1 DEF Load, PutProc, RunningIsListed, Listed
  <2> QED BY <1>1, <2>2, <2>3, <2>4 DEF Load, SchedTypeOK, NoProcessDoubled, NoneMissing
<1>2. ASSUME NEW p \in Proc, Get(p) PROVE Goal
  <2>1. GetProc(p) /\ QueuesInOrder
      BY <1>2 DEF Get, NoProcessDoubled
  <2>2. MlqTypeOK' /\ \A i \in Level : slot'[i] <= FullSlot(i)
      BY <2>1, GetProcType
  <2>3. p \in Queued /\ Queued' = Queued \ {p} /\ QueuesInOrder'
      BY <2>1, GetProcMoves
  <2>4. RunningIsListed'
      BY <1>2, GetIsListed
  <2> QED BY <1>2, <2>2, <2>3, <2>4 DEF Get, SchedTypeOK, NoProcessDoubled, NoneMissing
<1>3. ASSUME NEW p \in Proc, Put(p) PROVE Goal
  <2>1. p \notin Queued /\ PutProc(p) /\ QueuesInOrder
      BY <1>3 DEF Put, NoProcessDoubled
  <2>2. MlqTypeOK' /\ \A i \in Level : slot'[i] <= FullSlot(i)
      BY <2>1, PutProcType
  <2>3. /\ Queued \subseteq Queued' /\ Queued' \subseteq Queued \cup {p}
        /\ QueuesInOrder' /\ (RoomForAll => p \in Queued')
      BY <2>1, PutProcMoves
  <2>4. RunningIsListed'
      BY <1>3, <2>1 DEF Put, PutProc, RunningIsListed, Listed
  <2> QED BY <1>3, <2>2, <2>3, <2>4 DEF Put, SchedTypeOK, NoProcessDoubled, NoneMissing
<1>4. ASSUME NEW p \in Proc, Finish(p) PROVE Goal
  <2>1. /\ Queued' = Queued /\ (QueuesInOrder' <=> QueuesInOrder) /\ Listed' = Listed
        /\ running_list' = running_list
      BY <1>4 DEF Finish, mlqVars, Queued, QueuesInOrder, Listed
  <2> QED BY <1>4, <2>1 DEF Finish, mlqVars, SchedTypeOK, MlqTypeOK, NoProcessDoubled,
                            NoneMissing, RunningIsListed
<1>5. CASE UNCHANGED schedVars
  <2>1. /\ Queued' = Queued /\ (QueuesInOrder' <=> QueuesInOrder) /\ Listed' = Listed
        /\ running_list' = running_list
      BY <1>5 DEF schedVars, Queued, QueuesInOrder, Listed
  <2> QED BY <1>5, <2>1 DEF schedVars, SchedTypeOK, MlqTypeOK, NoProcessDoubled,
                            NoneMissing, RunningIsListed
<1> QED BY <1>1, <1>2, <1>3, <1>4, <1>5 DEF SchedNext, AllFinished

\* The invariant of every state, whatever fits in the queues.
LEMMA SchedInvAlways == SchedSpec => []SchedInv
<1>1. SchedInv /\ [SchedNext]_schedVars => SchedInv'
    BY SchedInvNext
<1>2. SchedInit => SchedInv
    BY SchedInvInit
<1> QED BY <1>1, <1>2, PTL DEF SchedSpec

\* The types, with the slots of every level within 0..(MAX_PRIO - prio), the range
\* given above get_mlq_proc.
THEOREM SchedTypeCorrect == SchedSpec => []SchedTypeOK
<1>1. SchedInv => SchedTypeOK
    BY DEF SchedInv
<1> QED BY <1>1, SchedInvAlways, PTL

\* No process is dispatched twice, freed while queued, or queued out of its level, for
\* any number of CPUs, levels and processes: also when enqueue drops some.
THEOREM NoProcessIsDoubled == SchedSpec => []NoProcessDoubled
<1>1. SchedInv => NoProcessDoubled
    BY DEF SchedInv
<1> QED BY <1>1, SchedInvAlways, PTL

\* killall finds in running_list whatever a CPU runs, as long as the list never was
\* full (RunningIsListed of the sched run).
THEOREM RunningStaysListed == SchedSpec => []RunningIsListed
<1>1. SchedInv => RunningIsListed
    BY DEF SchedInv
<1> QED BY <1>1, SchedInvAlways, PTL

\* No process is lost either, provided a queue can hold every process of its level.
THEOREM NoProcessIsLost == ASSUME RoomForAll PROVE SchedSpec => []NoProcessLost
<1>1. (SchedInv /\ NoneMissing) /\ [SchedNext]_schedVars => (SchedInv /\ NoneMissing)'
    BY SchedInvNext
<1>2. SchedInv /\ NoneMissing => NoProcessLost
    BY DEF SchedInv, NoneMissing, NoProcessDoubled, NoProcessLost
<1> QED BY <1>1, <1>2, SchedInvInit, PTL DEF SchedSpec

-----------------------------------------------------------------------------
(* The slots of all levels together.                                          *)

\* The dispatches that the levels have left in this round, all together.
Sum(s) == LET t[j \in 0..MAX_PRIO] == IF j = 0 THEN 0 ELSE t[j - 1] + s[j - 1]
          IN  t[MAX_PRIO]

\* Those of the first levels only.
SumOf(t, s) ==
    /\ t \in [0..MAX_PRIO -> Nat]
    /\ t[0] = 0 /\ \A j \in 1..MAX_PRIO : t[j] = t[j - 1] + s[j - 1]
    /\ Sum(s) = t[MAX_PRIO]

\* The recursive definition of the sum has a value.
LEMMA SumExists ==
    ASSUME NEW s \in [Level -> Nat]
    PROVE  \E t : SumOf(t, s)
<1> DEFINE step == [j \in 1..MAX_PRIO |-> [x \in Nat |-> x + s[j - 1]]]
           A == [j \in 0..MAX_PRIO |-> Nat]
           Loop(f) == f = [j \in 0..MAX_PRIO |-> IF j = 0 THEN 0 ELSE f[j - 1] + s[j - 1]]
           t[j \in 0..MAX_PRIO] == IF j = 0 THEN 0 ELSE t[j - 1] + s[j - 1]
<1>1. \A j \in 1..MAX_PRIO : s[j - 1] \in Nat /\ j - 1 \in 0..MAX_PRIO
    BY MaxPrioAssumption DEF Level
<1>2. PICK f : LoopIn(f, MAX_PRIO, 0, step, A)
  <2>1. MAX_PRIO \in Nat /\ 0 \in A[0]
      BY MaxPrioAssumption
  <2>2. ASSUME NEW j \in 1..MAX_PRIO, NEW x \in A[j - 1] PROVE step[j][x] \in A[j]
      BY <1>1, MaxPrioAssumption
  <2> HIDE DEF step, A
  <2> QED BY <2>1, <2>2, LoopExists
<1>3. Loop(f) /\ \A j \in 0..MAX_PRIO : f[j] \in Nat
  <2>1. \A j \in 0..MAX_PRIO : f[j] \in Nat
      BY <1>2 DEF LoopIn
  <2>2. \A j \in 1..MAX_PRIO : \A x \in Nat : step[j][x] = x + s[j - 1]
      OBVIOUS
  <2>3. f = [j \in 0..MAX_PRIO |-> IF j = 0 THEN 0 ELSE step[j][f[j - 1]]]
      BY <1>2 DEF LoopIn
  <2> HIDE DEF step
  <2>4. \A j \in 1..MAX_PRIO : step[j][f[j - 1]] = f[j - 1] + s[j - 1]
      BY <1>1, <2>1, <2>2
  <2>5. \A j \in 0..MAX_PRIO : j # 0 => j \in 1..MAX_PRIO
      BY MaxPrioAssumption
  <2> QED BY <2>1, <2>3, <2>4, <2>5
<1>4. Loop(t)
  <2>1. t = CHOOSE g : Loop(g)
      OBVIOUS
  <2> HIDE DEF Loop, t
  <2> QED BY <1>3, <2>1
<1>5. Sum(s) = t[MAX_PRIO]
    BY DEF Sum
<1> HIDE DEF t
<1>6. \A j \in 0..MAX_PRIO : t[j] \in A[j]
  <2>1. t[0] = 0 /\ \A j \in 1..MAX_PRIO : t[j] = t[j - 1] + s[j - 1]
      BY <1>4, MaxPrioAssumption
  <2>2. \A j \in 1..MAX_PRIO : A[j] = Nat /\ A[j - 1] = Nat
      BY MaxPrioAssumption
  <2>3. \A j \in 1..MAX_PRIO : t[j - 1] \in A[j - 1] => t[j] \in A[j]
      BY <1>1, <2>1, <2>2
  <2>4. MAX_PRIO \in Nat /\ t[0] \in A[0]
      BY <2>1, MaxPrioAssumption
  <2> HIDE DEF A
  <2> QED BY <2>3, <2>4, LoopInvariant
<1> QED BY <1>4, <1>5, <1>6, MaxPrioAssumption DEF SumOf

\* The sum is a number.
LEMMA SumIsNat ==
    ASSUME NEW s \in [Level -> Nat]
    PROVE  Sum(s) \in Nat
BY SumExists, MaxPrioAssumption DEF SumOf

\* Where r has at least d less than s at one level and no more at the others, the sums
\* compare likewise.
LEMMA SumCompares ==
    ASSUME NEW r \in [Level -> Nat], NEW s \in [Level -> Nat], NEW i \in Level, NEW d \in Int,
           \A j \in Level : j # i => r[j] <= s[j],
           r[i] + d <= s[i]
    PROVE  /\ Sum(r) \in Nat /\ Sum(s) \in Nat
           /\ Sum(r) + d <= Sum(s)
<1>1. PICK t : SumOf(t, r)
    BY SumExists
<1>2. PICK u : SumOf(u, s)
    BY SumExists
<1> DEFINE D(j) == IF i < j THEN d ELSE 0
           S == {j \in Nat : j <= MAX_PRIO => t[j] + D(j) <= u[j]}
<1>3. i \in Nat /\ i < MAX_PRIO /\ MAX_PRIO \in Nat
    BY MaxPrioAssumption DEF Level
<1>4. 0 \in S
    BY <1>1, <1>2, <1>3 DEF SumOf
<1>5. ASSUME NEW j \in Nat, j \in S PROVE j + 1 \in S
  <2> SUFFICES ASSUME j + 1 <= MAX_PRIO PROVE t[j + 1] + D(j + 1) <= u[j + 1]
      OBVIOUS
  <2>1. j \in Level /\ j + 1 \in 1..MAX_PRIO /\ (j + 1) - 1 = j /\ j \in 0..MAX_PRIO
      BY <1>3 DEF Level
  <2>2. t[j + 1] = t[j] + r[j] /\ u[j + 1] = u[j] + s[j]
      BY <1>1, <1>2, <2>1 DEF SumOf
  <2>3. t[j] \in Nat /\ u[j] \in Nat /\ r[j] \in Nat /\ s[j] \in Nat
      BY <1>1, <1>2, <2>1 DEF SumOf
  <2>4. t[j] + D(j) <= u[j]
      BY <1>3, <1>5
  <2>5. r[j] + (IF j = i THEN d ELSE 0) <= s[j]
      BY <2>1, <2>3
  <2>6. D(j + 1) = D(j) + (IF j = i THEN d ELSE 0) /\ D(j) \in Int
      BY <1>3
  <2> HIDE DEF D
  <2> QED BY <2>2, <2>3, <2>4, <2>5, <2>6
<1>6. MAX_PRIO \in S
  <2> HIDE DEF S
  <2> QED BY <1>3, <1>4, <1>5, NatSetInduction
<1>7. t[MAX_PRIO] \in Nat /\ u[MAX_PRIO] \in Nat
    BY <1>1, <1>2, <1>3 DEF SumOf
<1> QED BY <1>1, <1>2, <1>3, <1>6, <1>7 DEF SumOf

\* The slots at the start of a round.
Full == [i \in Level |-> FullSlot(i)]

\* All levels together start a round with RoundLength dispatches.
LEMMA SumFull == Full \in [Level -> Nat] /\ RoundLength \in Nat /\ Sum(Full) = RoundLength
<1> DEFINE M == MAX_PRIO
<1>1. Full \in [Level -> Nat]
    BY LevelFacts DEF Full
<1>2. PICK t : SumOf(t, Full)
    BY <1>1, SumExists
<1> DEFINE S == {j \in Nat : j <= M => 2 * t[j] = j * (2 * M - j + 1)}
<1>3. M \in Nat
    BY MaxPrioAssumption
<1>4. 0 \in S
    BY <1>2, <1>3 DEF SumOf
<1>5. ASSUME NEW j \in Nat, j \in S PROVE j + 1 \in S
  <2> SUFFICES ASSUME j + 1 <= M PROVE 2 * t[j + 1] = (j + 1) * (2 * M - (j + 1) + 1)
      OBVIOUS
  <2>1. j \in Level /\ j + 1 \in 1..M /\ (j + 1) - 1 = j /\ j \in 0..M
      BY <1>3 DEF Level
  <2>2. t[j + 1] = t[j] + (M - j) /\ t[j] \in Nat
      BY <1>2, <2>1 DEF SumOf, Full, FullSlot
  <2>3. 2 * t[j] = j * (2 * M - j + 1)
      BY <1>3, <1>5
  <2>4. (j + 1) * (2 * M - (j + 1) + 1) = j * (2 * M - j + 1) + 2 * (M - j)
      BY <1>3
  <2> QED BY <1>3, <2>2, <2>3, <2>4
<1>6. M \in S
  <2> HIDE DEF S, M
  <2> QED BY <1>3, <1>4, <1>5, NatSetInduction
<1>7. 2 * t[M] = M * (M + 1) /\ t[M] \in Nat
  <2>1. 2 * M - M + 1 = M + 1
      BY <1>3
  <2> QED BY <1>2, <1>3, <1>6, <2>1 DEF SumOf
<1>8. (M * (M + 1)) \div 2 = t[M]
  <2> DEFINE X == M * (M + 1)
  <2>1. X = 2 * t[M]
      BY <1>7
  <2> HIDE DEF X
  <2> QED BY <1>7, <2>1
<1> QED BY <1>1, <1>2, <1>7, <1>8 DEF SumOf, RoundLength

\* A dispatch takes one of them.
LEMMA SumSpend ==
    ASSUME NEW s \in [Level -> Nat], NEW i \in Level, s[i] > 0
    PROVE  Sum([s EXCEPT ![i] = s[i] - 1]) = Sum(s) - 1 /\ Sum(s) \in Nat
<1> DEFINE r == [s EXCEPT ![i] = s[i] - 1]
<1>1. /\ r \in [Level -> Nat] /\ r[i] = s[i] - 1 /\ s[i] \in Nat
      /\ \A j \in Level : s[j] \in Nat /\ (j # i => r[j] = s[j])
    OBVIOUS
<1> HIDE DEF r
<1>2. Sum(r) + 1 <= Sum(s) /\ Sum(r) \in Nat /\ Sum(s) \in Nat
    BY <1>1, SumCompares
<1>3. Sum(s) + (-1) <= Sum(r)
  <2>1. s[i] + (-1) <= r[i] /\ -1 \in Int
      BY <1>1
  <2>2. \A j \in Level : j # i => s[j] <= r[j]
      BY <1>1
  <2> QED BY <1>1, <2>1, <2>2, SumCompares
<1>4. Sum(r) = Sum(s) - 1
    BY <1>2, <1>3
<1> QED BY <1>2, <1>4 DEF r

\* A level's share of what is left, and of a whole round.
LEMMA SumBounds ==
    ASSUME NEW s \in [Level -> Nat], \A j \in Level : s[j] <= FullSlot(j), NEW i \in Level
    PROVE  /\ Sum(s) \in Nat /\ s[i] <= Sum(s)
           /\ Sum(s) + FullSlot(i) <= RoundLength + s[i]
           /\ FullSlot(i) <= RoundLength
<1> DEFINE zero == [j \in Level |-> 0]
<1>1. zero \in [Level -> Nat] /\ \A j \in Level : zero[j] = 0
    OBVIOUS
<1> HIDE DEF zero
<1>2. \A j \in Level : Full[j] = FullSlot(j) /\ s[j] \in Nat /\ FullSlot(j) \in Nat
    BY LevelFacts DEF Full
<1>3. Sum(zero) \in Nat /\ Sum(s) \in Nat /\ Sum(zero) + s[i] <= Sum(s)
    BY <1>1, <1>2, SumCompares
<1>4. Sum(zero) + FullSlot(i) <= Sum(Full)
    BY <1>1, <1>2, SumFull, SumCompares
<1>5. Sum(s) + (FullSlot(i) - s[i]) <= Sum(Full)
  <2>1. s[i] + (FullSlot(i) - s[i]) <= Full[i] /\ FullSlot(i) - s[i] \in Int
      BY <1>2
  <2> QED BY <1>2, <2>1, SumFull, SumCompares
<1> QED BY <1>2, <1>3, <1>4, <1>5, SumFull

\* Division with a remainder.
LEMMA DivMod ==
    ASSUME NEW n \in Nat, NEW d \in Nat \ {0}
    PROVE  /\ n \div d \in Nat /\ n % d \in 0..(d - 1)
           /\ n = d * (n \div d) + (n % d)
OBVIOUS

\* Quotient and remainder are the only ones.
LEMMA DivUnique ==
    ASSUME NEW n \in Nat, NEW d \in Nat \ {0}, NEW q \in Nat, NEW r \in 0..(d - 1),
           n = d * q + r
    PROVE  n \div d = q /\ n % d = r
<1> DEFINE a == n \div d
           b == n % d
<1>1. a \in Nat /\ b \in 0..(d - 1) /\ n = d * a + b
    BY DivMod
<1> HIDE DEF a, b
<1>2. d * a + b = d * q + r
    BY <1>1
<1>3. CASE a < q
  <2>1. PICK c \in Nat : q = a + 1 + c
    <3>1. q - a - 1 \in Nat /\ q = a + 1 + (q - a - 1)
        BY <1>1, <1>3
    <3> QED BY <3>1
  <2>2. d * q = d * a + d + d * c /\ d * c \in Nat /\ d * a \in Nat
      BY <1>1, <2>1
  <2> QED BY <1>1, <1>2, <2>2
<1>4. CASE q < a
  <2>1. PICK c \in Nat : a = q + 1 + c
    <3>1. a - q - 1 \in Nat /\ a = q + 1 + (a - q - 1)
        BY <1>1, <1>4
    <3> QED BY <3>1
  <2>2. d * a = d * q + d + d * c /\ d * c \in Nat /\ d * q \in Nat
      BY <1>1, <2>1
  <2> QED BY <1>1, <1>2, <2>2
<1>5. CASE a = q
    BY <1>1, <1>2, <1>5
<1>6. a = q /\ b = r
    BY <1>1, <1>2, <1>3, <1>4, <1>5
<1> QED BY <1>6 DEF a, b

\* The quotient grows with the dividend.
LEMMA DivMonotonic ==
    ASSUME NEW d \in Nat \ {0}, NEW m \in Nat, NEW n \in Nat, m <= n
    PROVE  m \div d <= n \div d
<1> DEFINE a == m \div d
           b == n \div d
<1>1. /\ a \in Nat /\ m % d \in 0..(d - 1) /\ m = d * a + (m % d)
      /\ b \in Nat /\ n % d \in 0..(d - 1) /\ n = d * b + (n % d)
    BY DivMod
<1> DEFINE u == m % d
           v == n % d
<1> HIDE DEF a, b, u, v
<1>2. u \in 0..(d - 1) /\ v \in 0..(d - 1) /\ m = d * a + u /\ n = d * b + v
    BY <1>1 DEF u, v
<1>3. ASSUME b < a PROVE FALSE
  <2>1. PICK c \in Nat : a = b + 1 + c
    <3>1. a - b - 1 \in Nat /\ a = b + 1 + (a - b - 1)
        BY <1>1, <1>3
    <3> QED BY <3>1
  <2>2. d * a = d * b + d + d * c /\ d * c \in Nat /\ d * b \in Nat
      BY <1>1, <2>1
  <2> QED BY <1>2, <2>2
<1>4. a <= b
    BY <1>1, <1>3
<1> QED BY <1>4 DEF a, b

\* The dispatches of the rounds that take n processes off a level, and of the last one
\* until the level is left with its slots for the next process.
Rounds(n, full) == RoundLength * (n \div full) + (n % full)

\* The most dispatches that pass by the k-th process of a level which has left slots in
\* this round, when all levels together have total.
Ahead(k, left, total, full) ==
    IF k <= left THEN total + (k - left) - 1
    ELSE total + (RoundLength - full) + Rounds(k - left - 1, full)

\* A round more takes as many processes more as the level has slots.
LEMMA RoundMore ==
    ASSUME NEW n \in Nat, NEW full \in Nat \ {0}
    PROVE  /\ Rounds(n + full, full) = Rounds(n, full) + RoundLength
           /\ Rounds(n, full) \in Nat
           /\ n < full => Rounds(n, full) = n
<1> DEFINE q == n \div full
           r == n % full
<1>1. q \in Nat /\ r \in 0..(full - 1) /\ n = full * q + r
    BY DivMod
<1>2. RoundLength \in Nat
    BY SumFull
<1> HIDE DEF q, r
<1>3. (n + full) \div full = q + 1 /\ (n + full) % full = r
  <2>1. n + full = full * (q + 1) + r /\ n + full \in Nat /\ q + 1 \in Nat
      BY <1>1
  <2> QED BY <1>1, <2>1, DivUnique
<1>4. Rounds(n + full, full) = RoundLength * (q + 1) + r
    BY <1>3 DEF Rounds
<1>5. Rounds(n, full) = RoundLength * q + r /\ RoundLength * q \in Nat
    BY <1>1, <1>2 DEF Rounds, q, r
<1>6. RoundLength * (q + 1) = RoundLength * q + RoundLength
    BY <1>1, <1>2
<1>7. n < full => Rounds(n, full) = n
  <2>1. ASSUME n < full PROVE n \div full = 0 /\ n % full = n
    <3>1. n \in 0..(full - 1) /\ n = full * 0 + n /\ 0 \in Nat
        BY <2>1
    <3> QED BY <3>1, DivUnique
  <2> QED BY <1>2, <2>1 DEF Rounds
<1> QED BY <1>1, <1>2, <1>4, <1>5, <1>6, <1>7

\* What is ahead is a number.
LEMMA AheadIsInt ==
    ASSUME NEW k \in Nat \ {0}, NEW left \in Nat, NEW total \in Nat, NEW full \in Nat \ {0}
    PROVE  Ahead(k, left, total, full) \in Int
<1>1. RoundLength \in Nat
    BY SumFull
<1>2. CASE k <= left
    BY <1>2 DEF Ahead
<1>3. CASE ~(k <= left)
  <2>1. k - left - 1 \in Nat
      BY <1>3
  <2>2. Rounds(k - left - 1, full) \in Nat
      BY <2>1, RoundMore
  <2> QED BY <1>1, <1>3, <2>2 DEF Ahead
<1> QED BY <1>2, <1>3

\* A dispatch of another level in the same round.
LEMMA AheadOfOther ==
    ASSUME NEW k \in Nat \ {0}, NEW left \in Nat, NEW total \in Nat, NEW full \in Nat \ {0}
    PROVE  Ahead(k, left, total - 1, full) = Ahead(k, left, total, full) - 1
<1>1. RoundLength \in Nat
    BY SumFull
<1>2. CASE k <= left
    BY <1>1, <1>2 DEF Ahead
<1>3. CASE ~(k <= left)
  <2>1. k - left - 1 \in Nat
      BY <1>3
  <2>2. Rounds(k - left - 1, full) \in Nat
      BY <2>1, RoundMore
  <2> QED BY <1>1, <1>3, <2>2 DEF Ahead
<1> QED BY <1>2, <1>3

\* A dispatch of the process's own level in the same round.
LEMMA AheadOfOwn ==
    ASSUME NEW k \in Nat \ {0}, NEW left \in Nat \ {0}, NEW total \in Nat,
           NEW full \in Nat \ {0}
    PROVE  Ahead(k - 1, left - 1, total - 1, full) = Ahead(k, left, total, full) - 1
<1>1. RoundLength \in Nat
    BY SumFull
<1> DEFINE n == k - left - 1
<1>2. CASE k <= left
    BY <1>1, <1>2 DEF Ahead
<1>3. CASE ~(k <= left)
  <2>1. n \in Nat /\ (k - 1) - (left - 1) - 1 = n
      BY <1>3
  <2>2. Rounds(n, full) \in Nat
      BY <2>1, RoundMore
  <2>3. Ahead(k, left, total, full) = total + (RoundLength - full) + Rounds(n, full)
      BY <1>3 DEF Ahead
  <2>4. Ahead(k - 1, left - 1, total - 1, full)
        = (total - 1) + (RoundLength - full) + Rounds(n, full)
      BY <1>3, <2>1 DEF Ahead
  <2> HIDE DEF n
  <2> QED BY <1>1, <2>2, <2>3, <2>4
<1> QED BY <1>2, <1>3

\* A dispatch that starts a round, when the process's level has no slot left.
LEMMA AheadReset ==
    ASSUME NEW k \in Nat \ {0}, NEW total \in Nat, NEW full \in Nat \ {0}
    PROVE  Ahead(k, full, RoundLength, full) <= Ahead(k, 0, total, full)
<1>1. RoundLength \in Nat /\ k - 1 \in Nat /\ k - 0 - 1 = k - 1
    BY SumFull
<1>2. Ahead(k, 0, total, full) = total + (RoundLength - full) + Rounds(k - 1, full)
    BY <1>1 DEF Ahead
<1>3. CASE k <= full
  <2>1. Rounds(k - 1, full) = k - 1
      BY <1>1, <1>3, RoundMore
  <2>2. Ahead(k, full, RoundLength, full) = RoundLength + (k - full) - 1
      BY <1>3 DEF Ahead
  <2> QED BY <1>1, <1>2, <2>1, <2>2
<1>4. CASE ~(k <= full)
  <2> DEFINE n == k - full - 1
  <2>1. n \in Nat /\ n + full = k - 1
      BY <1>4
  <2>2. Rounds(k - 1, full) = Rounds(n, full) + RoundLength /\ Rounds(n, full) \in Nat
    <3> HIDE DEF n
    <3>1. Rounds(n + full, full) = Rounds(n, full) + RoundLength /\ Rounds(n, full) \in Nat
        BY <2>1, RoundMore
    <3> QED BY <2>1, <3>1
  <2>3. Ahead(k, full, RoundLength, full)
        = RoundLength + (RoundLength - full) + Rounds(n, full)
      BY <1>4 DEF Ahead
  <2> HIDE DEF n
  <2> QED BY <1>1, <1>2, <2>2, <2>3
<1> QED BY <1>3, <1>4

\* Whatever is left of a round, the last of c processes of a level need not wait longer
\* than BoundedWait says.
LEMMA AheadAtMost ==
    ASSUME NEW c \in Nat, NEW k \in 1..c, NEW full \in Nat \ {0}, NEW left \in 0..full,
           NEW total \in Nat, left <= total, total + full <= RoundLength + left,
           full <= RoundLength
    PROVE  /\ 0 <= Ahead(k, left, total, full)
           /\ Ahead(k, left, total, full)
              < RoundLength * (((c + full - 1) \div full) + 1) - full
<1> DEFINE R == RoundLength
           a == (c - 1) \div full
<1>1. R \in Nat /\ c - 1 \in Nat /\ a \in Nat
  <2>1. c - 1 \in Nat
      OBVIOUS
  <2> QED BY <2>1, SumFull, DivMod
<1>2. (c + full - 1) \div full = a + 1
  <2>1. /\ c - 1 = full * a + ((c - 1) % full) /\ (c - 1) % full \in 0..(full - 1)
      BY <1>1, DivMod
  <2> DEFINE b == (c - 1) % full
  <2> HIDE DEF a, b
  <2>2. c + full - 1 = full * (a + 1) + b /\ b \in 0..(full - 1) /\ c + full - 1 \in Nat
        /\ a + 1 \in Nat
      BY <1>1, <2>1 DEF b
  <2> QED BY <2>2, DivUnique
<1>3. R * (a + 2) = R * a + R + R /\ R * a \in Nat
  <2> HIDE DEF a, R
  <2> QED BY <1>1
<1>4. R * (((c + full - 1) \div full) + 1) = R * a + R + R
  <2>1. ((c + full - 1) \div full) + 1 = a + 2
      BY <1>1, <1>2
  <2> QED BY <1>3, <2>1
<1>0. SUFFICES /\ 0 <= Ahead(k, left, total, full)
               /\ Ahead(k, left, total, full) < R * a + R + R - full
  <2> DEFINE B == R * (((c + full - 1) \div full) + 1)
  <2>1. B = R * a + R + R
      BY <1>4
  <2>2. SUFFICES 0 <= Ahead(k, left, total, full) /\ Ahead(k, left, total, full) < B - full
      OBVIOUS
  <2> HIDE DEF B, a
  <2> QED BY <1>0, <1>1, <1>3, <2>1
<1>5. CASE k <= left
  <2>1. Ahead(k, left, total, full) = total + (k - left) - 1
      BY <1>5 DEF Ahead
  <2> HIDE DEF a, R
  <2>2. 0 <= total + (k - left) - 1 /\ total + (k - left) - 1 < R + R - full
      BY <1>1, <1>5 DEF R
  <2> QED BY <1>1, <1>3, <2>1, <2>2
<1>6. CASE ~(k <= left)
  <2> DEFINE n == k - left - 1
             q == n \div full
             r == n % full
  <2>1. n \in Nat /\ n + left <= c - 1 /\ n + left \in Nat
      BY <1>6
  <2>2. q \in Nat /\ r \in 0..(full - 1) /\ n = full * q + r
      BY <2>1, DivMod
  <2>3. Ahead(k, left, total, full) = total + (R - full) + (R * q + r)
      BY <1>6 DEF Ahead, Rounds
  <2> HIDE DEF n, q, r, a, R
  <2>4. R * q \in Nat
      BY <1>1, <2>2
  <2>5. (n + left) \div full <= a
      BY <1>1, <2>1, DivMonotonic DEF a
  <2>6. 0 <= Ahead(k, left, total, full)
      BY <1>1, <2>2, <2>3, <2>4 DEF R
  <2>7. CASE left + r < full
    <3>1. n + left = full * q + (r + left) /\ r + left \in 0..(full - 1)
        BY <2>1, <2>2, <2>7
    <3>2. q <= a
        BY <2>1, <2>2, <2>5, <3>1, DivUnique
    <3>3. R * q <= R * a
        BY <1>1, <2>2, <3>2
    <3>4. total + (R - full) + (R * q + r) < R * a + R + R - full
        BY <1>1, <1>3, <2>2, <2>4, <2>7, <3>3 DEF R
    <3> QED BY <2>3, <2>6, <3>4
  <2>8. CASE ~(left + r < full)
    <3>1. n + left = full * (q + 1) + (r + left - full) /\ r + left - full \in 0..(full - 1)
          /\ q + 1 \in Nat
        BY <2>1, <2>2, <2>8
    <3>2. q + 1 <= a
        BY <2>1, <2>2, <2>5, <3>1, DivUnique
    <3>3. R * q + R <= R * a
      <4>1. PICK d \in Nat : a = q + 1 + d
        <5>1. a - q - 1 \in Nat /\ a = q + 1 + (a - q - 1)
            BY <1>1, <2>2, <3>2
        <5> QED BY <5>1
      <4>2. R * a = R * q + R + R * d /\ R * d \in Nat
          BY <1>1, <2>2, <4>1
      <4> QED BY <1>1, <2>4, <4>2
    <3>4. total + (R - full) + (R * q + r) < R * a + R + R - full
        BY <1>1, <1>3, <2>2, <2>4, <2>8, <3>3 DEF R
    <3> QED BY <2>3, <2>6, <3>4
  <2> QED BY <2>7, <2>8
<1> QED BY <1>5, <1>6

-----------------------------------------------------------------------------
(* Waiting.                                                                   *)

\* The most dispatches that pass by p, the k-th process of its level, from here on.
AheadOf(p, k) == Ahead(k, slot[prio[p]], Sum(slot), FullSlot(prio[p]))

\* The right-hand side of BoundedWait.
Limit(p) == RoundLength * (RoundsNeeded(p) + 1) - FullSlot(prio[p])

\* What a process has sat through and what is ahead of it stay below the limit together.
WithinLimit(p) ==
    \A k \in 1..Len(mlq_ready_queue[prio[p]]) :
        mlq_ready_queue[prio[p]][k] = p => waited[p] + AheadOf(p, k) < Limit(p)

Waiting ==
    /\ waited \in [Proc -> Nat]
    /\ \A p \in Proc : p \notin Queued => waited[p] = 0
    /\ \A p \in Proc : WithinLimit(p)

\* A level's share of a round.
LEMMA FullInRound ==
    ASSUME NEW i \in Level
    PROVE  FullSlot(i) <= RoundLength
<1>1. \A j \in Level : Full[j] <= FullSlot(j)
    BY LevelFacts DEF Full
<1> QED BY <1>1, SumFull, SumBounds

\* What is ahead of a place that the level of p has, and how it compares with the limit.
LEMMA AheadInRange ==
    ASSUME NEW p \in Proc, NEW k \in 1..Cardinality(OfLevel(prio[p])),
           NEW left \in 0..FullSlot(prio[p]), NEW total \in Nat, left <= total,
           total + FullSlot(prio[p]) <= RoundLength + left
    PROVE  /\ Ahead(k, left, total, FullSlot(prio[p])) \in Nat
           /\ Ahead(k, left, total, FullSlot(prio[p])) < Limit(p)
<1> DEFINE c == Cardinality(OfLevel(prio[p]))
           full == FullSlot(prio[p])
<1>1. c \in Nat
    BY ProcAssumption, FS_Subset, FS_CardinalityType DEF OfLevel
<1>2. full \in Nat \ {0} /\ prio[p] \in Level
    BY LevelFacts
<1>3. full <= RoundLength
    BY <1>2, FullInRound
<1>4. Limit(p) = RoundLength * (((c + full - 1) \div full) + 1) - full
    BY DEF Limit, RoundsNeeded, SameLevel, OfLevel
<1> HIDE DEF c, full
<1>5. k \in 1..c /\ left \in 0..full /\ total + full <= RoundLength + left
    BY DEF c, full
<1>6. /\ 0 <= Ahead(k, left, total, full)
      /\ Ahead(k, left, total, full) < RoundLength * (((c + full - 1) \div full) + 1) - full
    BY <1>1, <1>2, <1>3, <1>5, AheadAtMost
<1>7. k \in Nat \ {0} /\ left \in Nat
    BY <1>1, <1>2, <1>5
<1>8. Ahead(k, left, total, full) \in Int
    BY <1>2, <1>7, AheadIsInt
<1>9. Ahead(k, left, total, full) \in Nat
    BY <1>6, <1>8
<1> QED BY <1>4, <1>6, <1>9 DEF full

\* The limit is never below the first place of a fresh round, so it is positive.
LEMMA LimitIsPositive ==
    ASSUME NEW p \in Proc
    PROVE  Limit(p) \in Int /\ 0 < Limit(p)
<1> DEFINE c == Cardinality(OfLevel(prio[p]))
           full == FullSlot(prio[p])
<1>1. c \in Nat /\ 1 <= c
  <2>1. IsFiniteSet(OfLevel(prio[p])) /\ p \in OfLevel(prio[p])
      BY ProcAssumption, FS_Subset DEF OfLevel
  <2>2. c \in Nat /\ c # 0
      BY <2>1, FS_CardinalityType, FS_EmptySet
  <2> HIDE DEF c
  <2> QED BY <2>2
<1>2. full \in Nat \ {0} /\ RoundLength \in Nat
    BY LevelFacts, SumFull
<1>3. Limit(p) \in Int
  <2>1. Limit(p) = RoundLength * (((c + full - 1) \div full) + 1) - full
      BY DEF Limit, RoundsNeeded, SameLevel, OfLevel
  <2> HIDE DEF c, full
  <2>2. c + full - 1 \in Nat
      BY <1>1, <1>2
  <2>3. (c + full - 1) \div full \in Nat
      BY <1>2, <2>2, DivMod
  <2> DEFINE n == ((c + full - 1) \div full) + 1
  <2>4. n \in Nat /\ Limit(p) = RoundLength * n - full
      BY <2>1, <2>3
  <2> HIDE DEF n
  <2> QED BY <1>2, <2>4
<1>4. Ahead(1, full, RoundLength, full) \in Nat /\ Ahead(1, full, RoundLength, full) < Limit(p)
  <2>1. full <= RoundLength
      BY LevelFacts, FullInRound
  <2>2. 1 \in 1..c /\ full \in 0..full
      BY <1>1, <1>2
  <2> QED BY <1>2, <2>1, <2>2, AheadInRange
<1> QED BY <1>3, <1>4

\* Every place in a queue that is in order is within the limit, whatever is left of the
\* round.
LEMMA PlaceInRange ==
    ASSUME NEW p \in Proc, NEW q \in Seq(Proc), NEW s \in [Level -> Nat],
           \A j \in Level : s[j] <= FullSlot(j),
           \A j \in 1..Len(q) : prio[q[j]] = prio[p],
           \A j, k \in 1..Len(q) : q[j] = q[k] => j = k,
           NEW k \in 1..Len(q)
    PROVE  /\ Ahead(k, s[prio[p]], Sum(s), FullSlot(prio[p])) \in Nat
           /\ Ahead(k, s[prio[p]], Sum(s), FullSlot(prio[p])) < Limit(p)
<1> DEFINE i == prio[p]
<1>1. i \in Level
    BY LevelFacts
<1>2. k \in 1..Cardinality(OfLevel(i))
  <2>1. Cardinality(OfLevel(i)) \in Nat /\ Len(q) <= Cardinality(OfLevel(i))
      BY QueueFits
  <2>2. Len(q) \in Nat
      BY LenProperties
  <2> QED BY <2>1, <2>2
<1>3. /\ Sum(s) \in Nat /\ s[i] <= Sum(s)
      /\ Sum(s) + FullSlot(i) <= RoundLength + s[i]
    BY <1>1, SumBounds
<1>4. s[i] \in 0..FullSlot(i)
    BY <1>1, LevelFacts
<1> QED BY <1>2, <1>3, <1>4, AheadInRange

\* Starting a round, which get_proc does only when no level with a process has a slot,
\* puts nothing more ahead of anybody.
LEMMA RoundKeepsAhead ==
    ASSUME SchedInv, NEW i \in Level, NonEmpty(i), NEW k \in Nat \ {0}
    PROVE  Ahead(k, RoundSlot[i], Sum(RoundSlot), FullSlot(i))
           <= Ahead(k, slot[i], Sum(slot), FullSlot(i))
<1>1. slot \in [Level -> Nat] /\ \A j \in Level : slot[j] <= FullSlot(j)
    BY DEF SchedInv, SchedTypeOK, MlqTypeOK
<1>2. Sum(slot) \in Nat /\ FullSlot(i) \in Nat \ {0}
    BY <1>1, SumBounds, LevelFacts
<1>3. CASE Eligible(slot) = {} /\ ~Idle
  <2>1. RoundSlot = Full
      BY <1>3 DEF RoundSlot, Full
  <2>2. slot[i] = 0
      BY <1>1, <1>3 DEF Eligible
  <2>3. Full[i] = FullSlot(i) /\ Sum(Full) = RoundLength
      BY SumFull DEF Full
  <2> QED BY <1>2, <2>1, <2>2, <2>3, AheadReset
<1>4. CASE ~(Eligible(slot) = {} /\ ~Idle)
  <2>1. RoundSlot = slot
      BY <1>4 DEF RoundSlot
  <2>2. Ahead(k, slot[i], Sum(slot), FullSlot(i)) \in Int
    <3>1. slot[i] \in Nat
        BY <1>1
    <3> QED BY <1>2, <3>1, AheadIsInt
  <2> QED BY <2>1, <2>2
<1> QED BY <1>3, <1>4

\* A dispatch of p brings every process that stays in a queue one nearer to its limit:
\* it stands one place further in p's queue, or in the same place of another.
LEMMA DispatchPasses ==
    ASSUME SchedInv, NEW p \in Proc, GetProc(p), NEW x \in Proc,
           NEW k \in 1..Len(mlq_ready_queue'[prio[x]]), mlq_ready_queue'[prio[x]][k] = x
    PROVE  \E h \in 1..Len(mlq_ready_queue[prio[x]]) :
              /\ mlq_ready_queue[prio[x]][h] = x
              /\ AheadOf(x, h) \in Int /\ AheadOf(x, k)' \in Int
              /\ AheadOf(x, k)' + 1 <= AheadOf(x, h)
<1> DEFINE i == prio[x]
           Q == mlq_ready_queue
           F == FullSlot(i)
           r == RoundSlot
<1>1. PICK l \in Level :
         /\ Q[l] \in Seq(Proc) /\ Q[l] # << >>
         /\ Q' = [Q EXCEPT ![l] = RemoveIdx(Q[l], 1)]
         /\ r[l] > 0
         /\ slot' = [r EXCEPT ![l] = r[l] - 1]
    BY GetProcTakes DEF SchedInv, NoProcessDoubled
<1>2. i \in Level /\ F \in Nat \ {0} /\ Q \in [Level -> Seq(Proc)]
    BY LevelFacts DEF SchedInv, SchedTypeOK, MlqTypeOK
<1>3. r \in [Level -> Nat]
    BY RoundSlotType DEF SchedInv
<1>4. Sum(slot') = Sum(r) - 1 /\ Sum(r) \in Nat /\ Sum(slot') \in Nat
  <2> HIDE DEF r
  <2>1. Sum([r EXCEPT ![l] = r[l] - 1]) = Sum(r) - 1 /\ Sum(r) \in Nat
      BY <1>1, <1>3, SumSpend
  <2>2. slot' \in [Level -> Nat]
      BY <1>1, <1>3
  <2> QED BY <1>1, <2>1, <2>2, SumIsNat
<1> HIDE DEF r, Q, F
<1>5. PICK h \in 1..Len(Q[i]) : Q[i][h] = x /\ h = IF i = l THEN k + 1 ELSE k
  <2>1. CASE i # l
      BY <1>1, <1>2, <2>1 DEF Q
  <2>2. CASE i = l
    <3>1. 1 \in 1..Len(Q[l]) /\ Len(Q[l]) \in Nat
        BY <1>1, EmptySeq, LenProperties
    <3>2. /\ Len(RemoveIdx(Q[l], 1)) = Len(Q[l]) - 1
          /\ \A j \in 1..(Len(Q[l]) - 1) :
                RemoveIdx(Q[l], 1)[j] = IF j < 1 THEN Q[l][j] ELSE Q[l][j + 1]
        BY <1>1, <3>1, RemoveIdxProperties
    <3>3. Q'[i] = RemoveIdx(Q[l], 1)
        BY <1>1, <1>2, <2>2
    <3>4. k \in 1..(Len(Q[l]) - 1) /\ RemoveIdx(Q[l], 1)[k] = x
        BY <3>2, <3>3 DEF Q
    <3>5. k + 1 \in 1..Len(Q[i]) /\ Q[i][k + 1] = x
        BY <2>2, <3>1, <3>2, <3>4
    <3> QED BY <2>2, <3>5
  <2> QED BY <2>1, <2>2
<1>6. h \in Nat \ {0} /\ k \in Nat \ {0} /\ NonEmpty(i)
  <2>1. Len(Q[i]) \in Nat /\ Q[i] \in Seq(Proc)
      BY <1>2, LenProperties
  <2>2. Q[i] # << >>
      BY <2>1, <1>5, EmptySeq
  <2> QED BY <2>1, <2>2, <1>5 DEF NonEmpty, Q
<1>7. Ahead(h, r[i], Sum(r), F) <= AheadOf(x, h)
    BY <1>2, <1>6, RoundKeepsAhead DEF AheadOf, r, F
<1>8. Ahead(k, slot'[i], Sum(slot'), F) = Ahead(h, r[i], Sum(r), F) - 1
  <2> DEFINE left == r[i]
             total == Sum(r)
  <2>1. left \in Nat /\ total \in Nat
      BY <1>2, <1>3, <1>4
  <2>4. h \in Nat \ {0} /\ F \in Nat \ {0}
      BY <1>2, <1>6
  <2> HIDE DEF left, total
  <2>2. CASE i # l
    <3>1. slot'[i] = r[i] /\ h = k
        BY <1>1, <1>2, <1>3, <1>5, <2>2
    <3>2. Ahead(h, left, total - 1, F) = Ahead(h, left, total, F) - 1
        BY <2>1, <2>4, AheadOfOther
    <3> QED BY <1>4, <3>1, <3>2 DEF left, total
  <2>3. CASE i = l
    <3>1. slot'[i] = r[i] - 1 /\ r[i] > 0 /\ h - 1 = k
        BY <1>1, <1>2, <1>3, <1>5, <1>6, <2>3
    <3>2. left > 0
        BY <3>1 DEF left
    <3>3. left \in Nat \ {0}
        BY <2>1, <3>2
    <3>4. Ahead(h - 1, left - 1, total - 1, F) = Ahead(h, left, total, F) - 1
        BY <2>1, <2>4, <3>3, AheadOfOwn
    <3> QED BY <1>4, <3>1, <3>4 DEF left, total
  <2> QED BY <2>2, <2>3
<1>9. AheadOf(x, k)' = Ahead(k, slot'[i], Sum(slot'), F)
    BY DEF AheadOf, F
<1>10. Ahead(h, r[i], Sum(r), F) \in Int /\ AheadOf(x, h) \in Int
  <2>1. slot \in [Level -> Nat] /\ r[i] \in Nat
      BY <1>2, <1>3 DEF SchedInv, SchedTypeOK, MlqTypeOK
  <2>2. slot[i] \in Nat /\ Sum(slot) \in Nat
      BY <1>2, <2>1, SumIsNat
  <2> QED BY <1>2, <1>4, <1>6, <2>1, <2>2, AheadIsInt DEF AheadOf, F
<1>11. AheadOf(x, k)' \in Int /\ AheadOf(x, k)' + 1 <= AheadOf(x, h)
    BY <1>7, <1>8, <1>9, <1>10
<1> QED BY <1>5, <1>10, <1>11 DEF Q

\* put_proc and add_proc put a process in at most where the limit allows for, and pass by
\* nobody.
LEMMA PutKeepsWaiting ==
    ASSUME SchedInv, SchedInv', Waiting, NEW p \in Proc, p \notin Queued, PutProc(p),
           waited' = waited
    PROVE  Waiting'
<1> DEFINE Q == mlq_ready_queue
<1>1. /\ Q \in [Level -> Seq(Proc)] /\ slot' = slot
      /\ Q' = [Q EXCEPT ![prio[p]] = Enqueue(Q[prio[p]], p)]
    BY DEF SchedInv, SchedTypeOK, MlqTypeOK, PutProc
<1>2. Queued \subseteq Queued' /\ waited[p] = 0
    BY PutProcMoves DEF SchedInv, NoProcessDoubled, Waiting
<1>3. ASSUME NEW x \in Proc PROVE WithinLimit(x)'
  <2> DEFINE i == prio[x]
  <2> SUFFICES ASSUME NEW k \in 1..Len(Q'[i]), Q'[i][k] = x
               PROVE  waited[x] + AheadOf(x, k)' < Limit(x)
      BY DEF WithinLimit, Limit
  <2>1. i \in Level /\ Len(Q[i]) \in Nat /\ Q[i] \in Seq(Proc)
      BY <1>1, LevelFacts, LenProperties
  <2>2. AheadOf(x, k)' = AheadOf(x, k)
      BY <1>1 DEF AheadOf
  <2>5. AheadOf(x, k)' < Limit(x) /\ AheadOf(x, k)' \in Nat
    <3>1. /\ Q'[i] \in Seq(Proc) /\ slot' \in [Level -> Nat]
          /\ \A j \in Level : slot'[j] <= FullSlot(j)
        BY <2>1 DEF SchedInv, SchedTypeOK, MlqTypeOK
    <3>2. /\ \A j \in 1..Len(Q'[i]) : prio[Q'[i][j]] = i
          /\ \A j, h \in 1..Len(Q'[i]) : Q'[i][j] = Q'[i][h] => j = h
        BY <2>1 DEF SchedInv, NoProcessDoubled, QueuesInOrder
    <3> QED BY <3>1, <3>2, PlaceInRange DEF AheadOf
  <2>3. CASE x = p
    <3>1. waited[x] = 0
        BY <1>2, <2>3
    <3> QED BY <2>5, <3>1
  <2>4. CASE x # p
    <3>1. k \in 1..Len(Q[i]) /\ Q[i][k] = x
      <4>1. Q'[i] = Q[i] \/ Q'[i] = Enqueue(Q[i], p)
          BY <1>1, <2>1
      <4>2. CASE Q'[i] = Q[i]
          BY <4>2
      <4>3. CASE Q'[i] = Enqueue(Q[i], p)
        <5>1. \A j \in 1..Len(Q'[i]) : Q'[i][j] = p \/ (j \in 1..Len(Q[i]) /\ Q[i][j] = Q'[i][j])
          <6> HIDE DEF Q, i
          <6> QED BY <2>1, <4>3, EnqueueKeeps
        <5> QED BY <2>4, <5>1
      <4> QED BY <4>1, <4>2, <4>3
    <3> QED BY <2>2, <3>1 DEF Waiting, WithinLimit
  <2> QED BY <2>3, <2>4
<1>4. \A x \in Proc : x \notin Queued' => waited'[x] = 0
    BY <1>2 DEF Waiting
<1> QED BY <1>3, <1>4 DEF Waiting

\* A dispatch is one more that everybody left in a queue has sat through, and one less
\* ahead of it.
LEMMA GetKeepsWaiting ==
    ASSUME SchedInv, Waiting, NEW p \in Proc, WaitGet(p)
    PROVE  Waiting'
<1>1. /\ GetProc(p)
      /\ waited' = [x \in Proc |-> IF x = p THEN 0
                                   ELSE IF x \in Queued THEN waited[x] + 1 ELSE waited[x]]
    BY DEF WaitGet, Get
<1>2. p \in Queued /\ Queued' = Queued \ {p}
    BY <1>1, GetProcMoves DEF SchedInv, NoProcessDoubled
<1>3. waited \in [Proc -> Nat]
    BY DEF Waiting
<1>4. waited' \in [Proc -> Nat]
    BY <1>1, <1>3
<1>5. \A x \in Proc : x \notin Queued' => waited'[x] = 0
    BY <1>1, <1>2 DEF Waiting
<1>6. ASSUME NEW x \in Proc PROVE WithinLimit(x)'
  <2> DEFINE i == prio[x]
  <2> SUFFICES ASSUME NEW k \in 1..Len(mlq_ready_queue'[i]), mlq_ready_queue'[i][k] = x
               PROVE  waited'[x] + AheadOf(x, k)' < Limit(x)
      BY DEF WithinLimit, Limit
  <2>1. PICK h \in 1..Len(mlq_ready_queue[i]) :
           /\ mlq_ready_queue[i][h] = x
           /\ AheadOf(x, h) \in Int /\ AheadOf(x, k)' \in Int
           /\ AheadOf(x, k)' + 1 <= AheadOf(x, h)
      BY <1>1, DispatchPasses
  <2>2. waited[x] + AheadOf(x, h) < Limit(x)
      BY <2>1 DEF Waiting, WithinLimit
  <2>3. x \in Queued'
      BY LevelFacts DEF Queued
  <2>4. waited'[x] = waited[x] + 1
      BY <1>1, <1>2, <2>3
  <2>5. Limit(x) \in Int
      BY LimitIsPositive
  <2> QED BY <1>3, <2>1, <2>2, <2>4, <2>5
<1> QED BY <1>4, <1>5, <1>6 DEF Waiting

\* Nobody waits at the start.
LEMMA WaitingInit == WaitInit => Waiting
<1> SUFFICES ASSUME WaitInit PROVE Waiting
    OBVIOUS
<1>1. waited = [p \in Proc |-> 0]
    BY DEF WaitInit
<1>2. \A i \in Level : mlq_ready_queue[i] = << >> /\ Len(mlq_ready_queue[i]) = 0
    BY EmptySeq DEF WaitInit, SchedInit, MlqInit
<1>3. \A p \in Proc : WithinLimit(p)
    BY <1>2, LevelFacts DEF WithinLimit
<1> QED BY <1>1, <1>3 DEF Waiting

\* Every step of the scheduler keeps the limits.
LEMMA WaitingNext ==
    ASSUME SchedInv, SchedInv', Waiting, [WaitNext]_waitVars
    PROVE  Waiting'
<1>1. ASSUME NEW p \in Proc, WaitGet(p) PROVE Waiting'
    BY <1>1, GetKeepsWaiting
<1>2. ASSUME NEW p \in Proc, Load(p) \/ Put(p), UNCHANGED waited PROVE Waiting'
  <2>1. p \notin Queued /\ PutProc(p) /\ waited' = waited
      BY <1>2 DEF Load, Put, AddProc, SchedInv, NoProcessDoubled
  <2> QED BY <2>1, PutKeepsWaiting
<1>3. ASSUME UNCHANGED <<mlq_ready_queue, slot, waited>> PROVE Waiting'
  <2>1. Queued' = Queued
      BY <1>3 DEF Queued
  <2>2. ASSUME NEW x \in Proc PROVE WithinLimit(x)'
    <3>1. WithinLimit(x)
        BY DEF Waiting
    <3> QED BY <1>3, <3>1 DEF WithinLimit, AheadOf, Limit
  <2> QED BY <1>3, <2>1, <2>2 DEF Waiting
<1>4. ASSUME NEW p \in Proc, Finish(p), UNCHANGED waited PROVE Waiting'
    BY <1>3, <1>4 DEF Finish, mlqVars
<1>5. CASE AllFinished /\ UNCHANGED waited
    BY <1>3, <1>5 DEF AllFinished, schedVars
<1>6. CASE UNCHANGED waitVars
    BY <1>3, <1>6 DEF waitVars
<1> QED BY <1>1, <1>2, <1>4, <1>5, <1>6 DEF WaitNext

\* What the limits are for.
LEMMA WaitingSuffices == SchedInv /\ Waiting => BoundedWait
<1> SUFFICES ASSUME SchedInv, Waiting, NEW p \in Proc PROVE waited[p] < Limit(p)
    BY DEF BoundedWait, Limit
<1> DEFINE i == prio[p]
           q == mlq_ready_queue[i]
<1>1. /\ i \in Level /\ q \in Seq(Proc) /\ slot \in [Level -> Nat]
      /\ \A j \in Level : slot[j] <= FullSlot(j)
    BY LevelFacts DEF SchedInv, SchedTypeOK, MlqTypeOK
<1>2. waited[p] \in Nat /\ Limit(p) \in Int
    BY LimitIsPositive DEF Waiting
<1>3. CASE p \in Queued
  <2>1. PICK k \in 1..Len(q) : q[k] = p
      BY <1>3 DEF Queued, SchedInv, NoProcessDoubled, QueuesInOrder
  <2>2. AheadOf(p, k) \in Nat
    <3>1. /\ \A j \in 1..Len(q) : prio[q[j]] = i
          /\ \A j, h \in 1..Len(q) : q[j] = q[h] => j = h
        BY <1>1 DEF SchedInv, NoProcessDoubled, QueuesInOrder
    <3> QED BY <1>1, <3>1, PlaceInRange DEF AheadOf
  <2>3. waited[p] + AheadOf(p, k) < Limit(p)
      BY <2>1 DEF Waiting, WithinLimit
  <2> QED BY <1>2, <2>2, <2>3
<1>4. CASE p \notin Queued
  <2>1. waited[p] = 0
      BY <1>4 DEF Waiting
  <2> QED BY <2>1, LimitIsPositive
<1> QED BY <1>3, <1>4

\* The invariant of waiting, with the one of the scheduler it rests on.
LEMMA WaitingAlways == WaitSpec => [](SchedInv /\ Waiting)
<1>1. WaitInit => SchedInv /\ Waiting
    BY SchedInvInit, WaitingInit DEF WaitInit
<1>2. (SchedInv /\ Waiting) /\ [WaitNext]_waitVars => (SchedInv /\ Waiting)'
  <2> SUFFICES ASSUME SchedInv, Waiting, [WaitNext]_waitVars PROVE (SchedInv /\ Waiting)'
      OBVIOUS
  <2>1. [SchedNext]_schedVars
      BY DEF WaitNext, WaitGet, SchedNext, waitVars, schedVars
  <2>2. SchedInv'
      BY <2>1, SchedInvNext
  <2> QED BY <2>2, WaitingNext
<1> QED BY <1>1, <1>2, PTL DEF WaitSpec

\* Nobody starves: for any levels, processes and capacity of the queues, whatever CPUs and
\* loader do, a process sits through at most the rest of a round in which its level has no
\* slot left, and the rounds its level needs for a queue of all its processes (BoundedWait
\* of the sched run).
THEOREM WaitIsBounded == WaitSpec => []BoundedWait
BY WaitingAlways, WaitingSuffices, PTL
=============================================================================
