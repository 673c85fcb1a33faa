------------------------------ MODULE Timer ------------------------------
(* timer.c: the thread that turns the simulator's devices (one per CPU and    *)
(* one for the loader) into a machine with a global clock.                    *)
(*                                                                            *)
(* Each device owns two mutexes.  `event_lock' covers the device telling the  *)
(* timer "I am done with this slot" and `timer_lock' covers the timer telling *)
(* the device "go on"; the flag `done' is written under the one by the device *)
(* and under the other by the timer.  A step below is what a thread does      *)
(* between two moments at which another thread can act: acquiring a mutex,    *)
(* and everything it does while holding it up to the release.                 *)
EXTENDS Naturals, Sequences, FiniteSets

CONSTANTS Devices,      \* the devices main attaches: num_cpus CPUs and the loader
          MaxSlots      \* bound: a device calls next_slot at most MaxSlots times

ASSUME DevicesAssumption == IsFiniteSet(Devices)
ASSUME MaxSlotsAssumption == MaxSlots \in Nat

VARIABLES
    dev_list,           \* the linked list of containers, head first
    timer_started, timer_stop, _time,
    done, fsh,          \* the flags of each timer_id_t
    event_lock,         \* owner of each device's event_lock: Free, Dev or Tmr
    timer_lock,         \* owner of each device's timer_lock
    tpc,                \* where the timer thread is
    cur,                \* its cursor `temp', as a position in dev_list
    nfsh, nevent,       \* its locals fsh and event
    dpc,                \* where each device's thread is
    mpc,                \* where main is
    slots               \* history: the next_slot calls each device returned from

mainVars == <<dev_list, timer_started, timer_stop, mpc>>
countVars == <<nfsh, nevent>>
vars == <<dev_list, timer_started, timer_stop, _time, done, fsh, event_lock,
          timer_lock, tpc, cur, nfsh, nevent, dpc, mpc, slots>>

Owner == {"free", "device", "timer"}

\* "scan" and "resume" are the two for loops of timer_routine, between mutexes.
TimerPC == {"idle", "loop", "scan", "test_event", "sleep_event",
            "resume", "release", "exit"}

DevicePC == {"off", "work", "set_done", "await", "test_done", "sleep_done",
             "set_fsh", "gone"}

MainPC == {"attach", "create", "destroy", "exit"}

Attached == {dev_list[i] : i \in 1..Len(dev_list)}

\* The device under the timer's cursor, when there is one.
HasCur == cur <= Len(dev_list)
Cur == dev_list[cur]

TypeOK == /\ dev_list \in Seq(Devices)
          /\ timer_started \in BOOLEAN /\ timer_stop \in BOOLEAN
          /\ _time \in Nat
          /\ done \in [Devices -> BOOLEAN] /\ fsh \in [Devices -> BOOLEAN]
          /\ event_lock \in [Devices -> Owner]
          /\ timer_lock \in [Devices -> Owner]
          /\ tpc \in TimerPC /\ cur \in Nat \ {0}
          /\ nfsh \in Nat /\ nevent \in Nat
          /\ dpc \in [Devices -> DevicePC] /\ mpc \in MainPC
          /\ slots \in [Devices -> Nat]

Init == /\ dev_list = << >>
        /\ timer_started = FALSE /\ timer_stop = FALSE
        /\ _time = 0
        /\ done = [d \in Devices |-> FALSE]
        /\ fsh = [d \in Devices |-> FALSE]
        /\ event_lock = [d \in Devices |-> "free"]
        /\ timer_lock = [d \in Devices |-> "free"]
        /\ tpc = "idle" /\ cur = 1
        /\ nfsh = 0 /\ nevent = 0
        /\ dpc = [d \in Devices |-> "off"]
        /\ mpc = "attach"
        /\ slots = [d \in Devices |-> 0]

-----------------------------------------------------------------------------
(* main, in the part of it that drives the timer.                             *)

\* attach_event: allocate a container and push it in front of the list.  Once
\* the timer has started it would return NULL; main never asks that late.
AttachEvent(d) ==
    /\ mpc = "attach" /\ ~timer_started /\ d \notin Attached
    /\ dev_list' = <<d>> \o dev_list
    /\ done' = [done EXCEPT ![d] = FALSE]
    /\ fsh' = [fsh EXCEPT ![d] = FALSE]
    /\ UNCHANGED <<timer_started, timer_stop, _time, event_lock, timer_lock, tpc,
                   cur, nfsh, nevent, dpc, mpc, slots>>

\* start_timer, once every CPU and the loader are attached.
StartTimer ==
    /\ mpc = "attach" /\ Attached = Devices
    /\ timer_started' = TRUE
    /\ tpc' = "loop"
    /\ mpc' = "create"
    /\ UNCHANGED <<dev_list, timer_stop, _time, done, fsh, event_lock, timer_lock,
                   cur, nfsh, nevent, dpc, slots>>

\* pthread_create of one device's thread; main creates them one after another
\* and the model leaves the order open.
CreateThread(d) ==
    /\ mpc = "create" /\ dpc[d] = "off"
    /\ dpc' = [dpc EXCEPT ![d] = "work"]
    /\ UNCHANGED <<mainVars, _time, done, fsh, event_lock, timer_lock, tpc, cur,
                   nfsh, nevent, slots>>

\* Every CPU and the loader joined; stop_timer raises the flag.  The timer reads
\* timer_stop without a lock: whichever value that racy read returns is one the
\* timer can be in front of, because it may read before or after this step.
StopTimer ==
    /\ mpc = "create" /\ \A d \in Devices : dpc[d] = "gone"
    /\ timer_stop' = TRUE
    /\ mpc' = "destroy"
    /\ UNCHANGED <<dev_list, timer_started, _time, done, fsh, event_lock,
                   timer_lock, tpc, cur, nfsh, nevent, dpc, slots>>

\* Mutant: stop_timer without its pthread_join.
TimerNotJoined == TRUE

\* The timer joined: one container destroyed and freed per step.
TimerJoined == tpc = "exit"

DestroyHead ==
    /\ mpc = "destroy" /\ TimerJoined
    /\ IF dev_list # << >>
         THEN dev_list' = Tail(dev_list) /\ mpc' = mpc
         ELSE dev_list' = dev_list /\ mpc' = "exit"
    /\ UNCHANGED <<timer_started, timer_stop, _time, done, fsh, event_lock,
                   timer_lock, tpc, cur, nfsh, nevent, dpc, slots>>

-----------------------------------------------------------------------------
(* next_slot and detach_event, on a device's thread.                          *)

\* pthread_cond_signal(event_cond): wakes the timer if it sleeps on this device;
\* it has to take the mutex again and re-test, which is what "scan" does next.
WakeTimer(d) == tpc' = IF tpc = "sleep_event" /\ Cur = d THEN "scan" ELSE tpc

\* next_slot takes event_lock ...
NextSlot(d) ==
    /\ dpc[d] = "work" /\ slots[d] < MaxSlots
    /\ event_lock[d] = "free"
    /\ event_lock' = [event_lock EXCEPT ![d] = "device"]
    /\ dpc' = [dpc EXCEPT ![d] = "set_done"]
    /\ UNCHANGED <<mainVars, _time, done, fsh, timer_lock, tpc, cur, countVars, slots>>

\* ... tells the timer that the job of this slot is done, and gives the lock back.
SetDone(d) ==
    /\ dpc[d] = "set_done"
    /\ done' = [done EXCEPT ![d] = TRUE]
    /\ WakeTimer(d)
    /\ event_lock' = [event_lock EXCEPT ![d] = "free"]
    /\ dpc' = [dpc EXCEPT ![d] = "await"]
    /\ UNCHANGED <<mainVars, _time, fsh, timer_lock, cur, countVars, slots>>

\* Taking timer_lock, the first time or on waking up inside pthread_cond_wait.
TakeTimerLock(d) ==
    /\ dpc[d] = "await" /\ timer_lock[d] = "free"
    /\ timer_lock' = [timer_lock EXCEPT ![d] = "device"]
    /\ dpc' = [dpc EXCEPT ![d] = "test_done"]
    /\ UNCHANGED <<mainVars, _time, done, fsh, event_lock, tpc, cur, countVars, slots>>

\* Mutant: next_slot does not test the flag.
SlotOverUntested(d) == TRUE

\* The while loop around pthread_cond_wait.
SlotOver(d) == ~done[d]

SleepDone(d) ==
    /\ dpc[d] = "test_done" /\ ~SlotOver(d)
    /\ timer_lock' = [timer_lock EXCEPT ![d] = "free"]
    /\ dpc' = [dpc EXCEPT ![d] = "sleep_done"]
    /\ UNCHANGED <<mainVars, _time, done, fsh, event_lock, tpc, cur, countVars, slots>>

\* next_slot returns: the device starts the job of its next slot.
NextSlotReturns(d) ==
    /\ dpc[d] = "test_done" /\ SlotOver(d)
    /\ timer_lock' = [timer_lock EXCEPT ![d] = "free"]
    /\ dpc' = [dpc EXCEPT ![d] = "work"]
    /\ slots' = [slots EXCEPT ![d] = @ + 1]
    /\ UNCHANGED <<mainVars, _time, done, fsh, event_lock, tpc, cur, countVars>>

\* POSIX allows pthread_cond_wait to return without a signal.
SpuriousDevice(d) ==
    /\ dpc[d] = "sleep_done"
    /\ dpc' = [dpc EXCEPT ![d] = "await"]
    /\ UNCHANGED <<mainVars, _time, done, fsh, event_lock, timer_lock, tpc, cur,
                   countVars, slots>>

\* detach_event takes event_lock ...
DetachEvent(d) ==
    /\ dpc[d] = "work" /\ event_lock[d] = "free"
    /\ event_lock' = [event_lock EXCEPT ![d] = "device"]
    /\ dpc' = [dpc EXCEPT ![d] = "set_fsh"]
    /\ UNCHANGED <<mainVars, _time, done, fsh, timer_lock, tpc, cur, countVars, slots>>

\* ... and leaves the clock for good; the thread exits right after.
SetFsh(d) ==
    /\ dpc[d] = "set_fsh"
    /\ fsh' = [fsh EXCEPT ![d] = TRUE]
    /\ WakeTimer(d)
    /\ event_lock' = [event_lock EXCEPT ![d] = "free"]
    /\ dpc' = [dpc EXCEPT ![d] = "gone"]
    /\ UNCHANGED <<mainVars, _time, done, timer_lock, cur, countVars, slots>>

-----------------------------------------------------------------------------
(* timer_routine.                                                             *)

\* The head of the outer loop.
TimerLoop ==
    /\ tpc = "loop"
    /\ tpc' = IF timer_stop THEN "exit" ELSE "scan"
    /\ cur' = 1 /\ nfsh' = 0 /\ nevent' = 0
    /\ UNCHANGED <<mainVars, _time, done, fsh, event_lock, timer_lock, dpc, slots>>

\* Taking the event_lock of the device under the cursor (also after a wake-up).
TakeEventLock ==
    /\ tpc = "scan" /\ HasCur /\ event_lock[Cur] = "free"
    /\ event_lock' = [event_lock EXCEPT ![Cur] = "timer"]
    /\ tpc' = "test_event"
    /\ UNCHANGED <<mainVars, _time, done, fsh, timer_lock, cur, countVars, dpc, slots>>

\* Mutants of the while condition below: no waiting at all, waiting for the first
\* device of the list only, and no thought for the detached devices.
NeverBusy(d) == FALSE
OnlyHeadBusy(d) == ~done[d] /\ ~fsh[d] /\ cur = 1
BusyThoughDetached(d) == ~done[d]

\* The while condition: nothing heard from this device in the current slot.
StillBusy(d) == ~done[d] /\ ~fsh[d]

SleepEvent ==
    /\ tpc = "test_event" /\ StillBusy(Cur)
    /\ event_lock' = [event_lock EXCEPT ![Cur] = "free"]
    /\ tpc' = "sleep_event"
    /\ UNCHANGED <<mainVars, _time, done, fsh, timer_lock, cur, countVars, dpc, slots>>

\* Mutant: fsh counted the wrong way.
CountFshDown(d) == IF fsh[d] THEN nfsh - 1 ELSE nfsh

CountFsh(d) == IF fsh[d] THEN nfsh + 1 ELSE nfsh

CountEvent ==
    /\ tpc = "test_event" /\ ~StillBusy(Cur)
    /\ nfsh' = CountFsh(Cur)
    /\ nevent' = nevent + 1
    /\ event_lock' = [event_lock EXCEPT ![Cur] = "free"]
    /\ cur' = cur + 1
    /\ tpc' = "scan"
    /\ UNCHANGED <<mainVars, _time, done, fsh, timer_lock, dpc, slots>>

SpuriousTimer ==
    /\ tpc = "sleep_event"
    /\ tpc' = "scan"
    /\ UNCHANGED <<mainVars, _time, done, fsh, event_lock, timer_lock, cur,
                   countVars, dpc, slots>>

\* Every device was heard: `_time++', and the second loop starts.
TickTime ==
    /\ tpc = "scan" /\ ~HasCur
    /\ _time' = _time + 1
    /\ cur' = 1
    /\ tpc' = "resume"
    /\ UNCHANGED <<mainVars, done, fsh, event_lock, timer_lock, countVars, dpc, slots>>

TakeReleaseLock ==
    /\ tpc = "resume" /\ HasCur /\ timer_lock[Cur] = "free"
    /\ timer_lock' = [timer_lock EXCEPT ![Cur] = "timer"]
    /\ tpc' = "release"
    /\ UNCHANGED <<mainVars, _time, done, fsh, event_lock, cur, countVars, dpc, slots>>

\* Mutant: done cleared, but no signal.
WakeNobody(d) == dpc' = dpc

\* pthread_cond_signal(timer_cond).
WakeDevice(d) == dpc' = [dpc EXCEPT ![d] = IF @ = "sleep_done" THEN "await" ELSE @]

Release ==
    /\ tpc = "release"
    /\ done' = [done EXCEPT ![Cur] = FALSE]
    /\ WakeDevice(Cur)
    /\ timer_lock' = [timer_lock EXCEPT ![Cur] = "free"]
    /\ cur' = cur + 1
    /\ tpc' = "resume"
    /\ UNCHANGED <<mainVars, _time, fsh, event_lock, countVars, slots>>

\* The timer leaves when all the devices it counted had detached.
AllFinished == nfsh = nevent

RoundEnds ==
    /\ tpc = "resume" /\ ~HasCur
    /\ tpc' = IF AllFinished THEN "exit" ELSE "loop"
    /\ UNCHANGED <<mainVars, _time, done, fsh, event_lock, timer_lock, cur,
                   countVars, dpc, slots>>

-----------------------------------------------------------------------------
MainStep == \/ \E d \in Devices : AttachEvent(d) \/ CreateThread(d)
            \/ StartTimer \/ StopTimer \/ DestroyHead

\* next_slot once entered, or detach_event: what a device cannot dally in.
DeviceStep(d) == \/ NextSlot(d) \/ SetDone(d) \/ TakeTimerLock(d)
                 \/ SleepDone(d) \/ NextSlotReturns(d)
                 \/ DetachEvent(d) \/ SetFsh(d)

TimerStep == \/ TimerLoop \/ TakeEventLock \/ SleepEvent \/ CountEvent
             \/ TickTime \/ TakeReleaseLock \/ Release \/ RoundEnds

Spurious == SpuriousTimer \/ \E d \in Devices : SpuriousDevice(d)

\* The simulator is over: main has returned.
Over == mpc = "exit" /\ UNCHANGED vars

Next == \/ MainStep
        \/ \E d \in Devices : DeviceStep(d)
        \/ TimerStep
        \/ Spurious
        \/ Over

\* Threads that can run do run.  Nothing obliges a condition variable to wake up
\* spuriously, so progress must come from the signals; but a waiter that woke up
\* spuriously for ever could keep a mutex from the other side, so from some point
\* on it no longer does.
Fairness == /\ WF_vars(MainStep)
            /\ \A d \in Devices : WF_vars(DeviceStep(d))
            /\ WF_vars(TimerStep)
            /\ <>[][~Spurious]_vars

Safety == Init /\ [][Next]_vars
Spec == Safety /\ Fairness

-----------------------------------------------------------------------------
(* Properties.                                                                *)

\* The devices the release loop has already let go in the current round.
Released == {dev_list[i] : i \in 1..(cur - 1)}

Releasing == tpc \in {"resume", "release"}

\* The timer has ticked and has not let this device go yet.
Pending(d) == Releasing /\ d \notin Released

\* What the devices are doing, seen from the abstract clock: between `_time++'
\* and the moment the release loop reaches it, a device that is still waiting
\* already belongs to the new slot.
ClockStatus ==
    [d \in Devices |->
        IF fsh[d] THEN "detached"
        ELSE IF done[d] /\ ~Pending(d) THEN "arrived" ELSE "working"]

\* No slot number is beyond this horizon, so the abstract clock never saturates.
C == INSTANCE SlotClock WITH time <- _time, status <- ClockStatus,
                             Horizon <- MaxSlots + 1

\* timer.c implements the lock-step clock of SlotClock: the clock never ticks
\* while a device is at work, a tick lets every waiting device go exactly once,
\* and a tick somebody waits for does come.
ImplementsClock == C!Clock

\* A device at work has returned from next_slot exactly _time times: it neither
\* skips a slot nor lives through one twice, so current_time() read by the loader
\* is the number of the slot it is in.
SlotAgreement ==
    \A d \in Devices :
        /\ dpc[d] \in {"work", "set_done", "set_fsh"} => slots[d] = _time
        /\ dpc[d] \in {"await", "test_done", "sleep_done"} => _time - slots[d] \in {0, 1}

\* `done' is written by the device under event_lock and by the timer under
\* timer_lock, and _time is read by devices under no lock at all; the hand-shake
\* alone keeps the two sides apart.
NoDataRace ==
    /\ \A d \in Devices : ~(dpc[d] = "set_done" /\ tpc = "release" /\ Cur = d)
    /\ tpc = "scan" /\ ~HasCur => \A d \in Devices : dpc[d] # "work"

\* stop_timer frees a container only when neither its device nor the timer can
\* still touch it.
NoUseAfterFree ==
    /\ \A d \in Devices : dpc[d] \notin {"off", "gone"} => d \in Attached
    /\ tpc \in {"test_event", "sleep_event", "release"} => HasCur
    /\ mpc = "destroy" /\ Attached # Devices => tpc = "exit"

\* The device threads that are between telling the timer and returning from
\* next_slot.
Waiting == {"await", "test_done", "sleep_done"}

\* Where main, the timer and the devices can be at the same time, and what the
\* list of containers looks like meanwhile.
Control ==
    /\ \A j, k \in 1..Len(dev_list) : dev_list[j] = dev_list[k] => j = k
    /\ mpc = "attach" <=> tpc = "idle"
    /\ mpc = "attach" => \A d \in Devices : dpc[d] = "off"
    /\ mpc \in {"destroy", "exit"} => \A d \in Devices : dpc[d] = "gone"
    /\ tpc \notin {"idle", "exit"} \/ mpc = "create" => Attached = Devices
    /\ tpc \in {"test_event", "sleep_event", "release"} => HasCur

\* What the flags say about a device, and how many slots it has gone through.
Agreed(d) ==
    /\ fsh[d] <=> dpc[d] = "gone"
    /\ done[d] => dpc[d] \in Waiting
    /\ dpc[d] \in {"off", "work", "set_done", "set_fsh"} => slots[d] = _time
    /\ dpc[d] \in Waiting => IF done[d] /\ ~Pending(d) THEN slots[d] = _time
                                                     ELSE slots[d] + 1 = _time
    /\ tpc \in {"scan", "test_event", "sleep_event"} /\ d \in Released => done[d] \/ fsh[d]
    /\ Pending(d) => done[d] \/ fsh[d]

\* The hand-shake through `done': a device the timer has heard in this round, or
\* has not let go yet, stays where it is.  With Control this is the inductive
\* invariant behind SlotAgreement, NoDataRace and NoUseAfterFree.
HandShake == Control /\ \A d \in Devices : Agreed(d)

\* A device that enters next_slot gets out of it: no wake-up is ever lost.
NextSlotTerminates ==
    \A d \in Devices : dpc[d] = "set_done" ~> dpc[d] = "work"

\* Once every device has detached, the timer thread exits by itself or because
\* of timer_stop, and main returns from stop_timer.
ShutdownCompletes == (\A d \in Devices : dpc[d] = "gone") ~> mpc = "exit"
=============================================================================
