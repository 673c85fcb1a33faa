---------------------------- MODULE SlotClock ----------------------------
(* What timer.c promises to the devices that attach to it: a clock that       *)
(* advances in lock step with them.  A device is doing its job of the current *)
(* slot, or has arrived (it sits in next_slot), or has detached for ever; the *)
(* clock ticks only when nobody is still at work, and a tick sends every      *)
(* device that had arrived back to work.                                      *)
(*                                                                            *)
(* Timer.tla is the implementation with its threads, mutexes and condition    *)
(* variables, and is checked to implement this module; Os.tla builds the CPUs *)
(* and the loader on these actions.                                           *)
EXTENDS Naturals

CONSTANTS Devices,      \* the devices attached before start_timer
          Horizon       \* bound: later slots all read as this one

ASSUME HorizonAssumption == Horizon \in Nat

VARIABLES time,         \* _time
          status        \* what each device is doing in the current slot

clockVars == <<time, status>>

Status == {"working", "arrived", "detached"}

ClockTypeOK == /\ time \in 0..Horizon
               /\ status \in [Devices -> Status]

ClockInit == /\ time = 0
             /\ status = [d \in Devices |-> "working"]

\* next_slot, up to the point where the caller waits for the slot to end.
Arrive(d) == /\ status[d] = "working"
             /\ status' = [status EXCEPT ![d] = "arrived"]
             /\ UNCHANGED time

\* detach_event.
Detach(d) == /\ status[d] = "working"
             /\ status' = [status EXCEPT ![d] = "detached"]
             /\ UNCHANGED time

\* One round of timer_routine.
Tick == /\ \A d \in Devices : status[d] # "working"
        /\ time' = IF time < Horizon THEN time + 1 ELSE Horizon
        /\ status' = [d \in Devices |->
                        IF status[d] = "arrived" THEN "working" ELSE status[d]]

ClockNext == \/ \E d \in Devices : Arrive(d) \/ Detach(d)
             \/ Tick

\* A round somebody waits for does come to its end.
UsefulTick == Tick /\ \E d \in Devices : status[d] = "arrived"

Clock == ClockInit /\ [][ClockNext]_clockVars /\ WF_clockVars(UsefulTick)

ClockSafety == ClockInit /\ [][ClockNext]_clockVars
=============================================================================
