--------------------------- MODULE TimerProofs ---------------------------
(* Proofs about Timer.tla, for any finite set of devices and any MaxSlots.    *)
(* The theorems are about Safety: no scheduling assumption is used.           *)
EXTENDS Timer, SequenceTheorems, TLAPS

-----------------------------------------------------------------------------
(* Type correctness.                                                          *)

\* The initial state is well typed.
LEMMA TypeInit == Init => TypeOK
<1> SUFFICES ASSUME Init PROVE TypeOK
    OBVIOUS
<1>1. dev_list \in Seq(Devices)
    BY EmptySeq DEF Init
<1>2. /\ _time \in Nat /\ cur \in Nat \ {0} /\ nfsh \in Nat /\ nevent \in Nat
      /\ tpc \in TimerPC /\ mpc \in MainPC
    BY DEF Init, TimerPC, MainPC
<1>4. /\ timer_started \in BOOLEAN /\ timer_stop \in BOOLEAN
      /\ done \in [Devices -> BOOLEAN] /\ fsh \in [Devices -> BOOLEAN]
    BY Zenon DEF Init
<1>3. /\ event_lock \in [Devices -> Owner] /\ timer_lock \in [Devices -> Owner]
      /\ dpc \in [Devices -> DevicePC] /\ slots \in [Devices -> Nat]
    BY DEF Init, Owner, DevicePC
<1> QED BY <1>1, <1>2, <1>3, <1>4 DEF TypeOK

\* main's steps keep the types.
LEMMA TypeMain == TypeOK /\ MainStep => TypeOK'
<1> SUFFICES ASSUME TypeOK, MainStep PROVE TypeOK'
    OBVIOUS
<1> USE DEF TypeOK, Owner, TimerPC, DevicePC, MainPC
<1>1. ASSUME NEW d \in Devices, AttachEvent(d) PROVE TypeOK'
    BY <1>1 DEF AttachEvent
<1>2. ASSUME NEW d \in Devices, CreateThread(d) PROVE TypeOK'
    BY <1>2 DEF CreateThread, mainVars
<1>3. CASE StartTimer
    BY <1>3 DEF StartTimer
<1>4. CASE StopTimer
    BY <1>4 DEF StopTimer
<1>5. CASE DestroyHead
  <2>1. dev_list # << >> => Tail(dev_list) \in Seq(Devices)
    BY HeadTailProperties
  <2>2. dev_list' \in Seq(Devices)
    BY <1>5, <2>1 DEF DestroyHead
  <2>3. mpc' \in MainPC
    BY <1>5 DEF DestroyHead
  <2> QED BY <1>5, <2>2, <2>3 DEF DestroyHead
<1> QED BY <1>1, <1>2, <1>3, <1>4, <1>5 DEF MainStep

\* The devices' steps keep the types.
LEMMA TypeDevice ==
    ASSUME TypeOK, NEW d \in Devices, DeviceStep(d) \/ SpuriousDevice(d)
    PROVE  TypeOK'
<1> USE DEF TypeOK, Owner, TimerPC, DevicePC, mainVars, countVars
<1>1. CASE NextSlot(d)
    BY <1>1 DEF NextSlot
<1>2. CASE SetDone(d)
    BY <1>2 DEF SetDone, WakeTimer
<1>3. CASE TakeTimerLock(d)
    BY <1>3 DEF TakeTimerLock
<1>4. CASE SleepDone(d)
    BY <1>4 DEF SleepDone
<1>5. CASE NextSlotReturns(d)
    BY <1>5 DEF NextSlotReturns
<1>6. CASE DetachEvent(d)
    BY <1>6 DEF DetachEvent
<1>7. CASE SetFsh(d)
    BY <1>7 DEF SetFsh, WakeTimer
<1>8. CASE SpuriousDevice(d)
    BY <1>8 DEF SpuriousDevice
<1> QED BY <1>1, <1>2, <1>3, <1>4, <1>5, <1>6, <1>7, <1>8 DEF DeviceStep

\* The timer's steps keep the types.
LEMMA TypeTimer ==
    ASSUME TypeOK, TimerStep \/ SpuriousTimer
    PROVE  TypeOK'
<1> USE DEF TypeOK, Owner, TimerPC, mainVars, countVars
<1>1. CASE TimerLoop
    BY <1>1 DEF TimerLoop
<1>2. CASE TakeEventLock
    BY <1>2 DEF TakeEventLock
<1>3. CASE SleepEvent
    BY <1>3 DEF SleepEvent
<1>4. CASE CountEvent
  <2>1. nfsh' \in Nat /\ nevent' \in Nat /\ cur' \in Nat \ {0}
    BY <1>4 DEF CountEvent, CountFsh
  <2>2. event_lock' \in [Devices -> Owner]
    BY <1>4 DEF CountEvent
  <2> QED BY <1>4, <2>1, <2>2 DEF CountEvent
<1>5. CASE TickTime
    BY <1>5 DEF TickTime
<1>6. CASE TakeReleaseLock
    BY <1>6 DEF TakeReleaseLock
<1>7. CASE Release
  <2>1. dpc' \in [Devices -> DevicePC]
    BY <1>7 DEF Release, WakeDevice, DevicePC
  <2>2. done' \in [Devices -> BOOLEAN] /\ timer_lock' \in [Devices -> Owner]
    BY <1>7 DEF Release
  <2> QED BY <1>7, <2>1, <2>2 DEF Release
<1>8. CASE RoundEnds
    BY <1>8 DEF RoundEnds
<1>9. CASE SpuriousTimer
    BY <1>9 DEF SpuriousTimer
<1> QED BY <1>1, <1>2, <1>3, <1>4, <1>5, <1>6, <1>7, <1>8, <1>9 DEF TimerStep

\* So every step does.
LEMMA TypeNext == TypeOK /\ [Next]_vars => TypeOK'
<1> SUFFICES ASSUME TypeOK, [Next]_vars PROVE TypeOK'
    OBVIOUS
<1>1. CASE UNCHANGED vars
    BY <1>1 DEF TypeOK, vars
<1>2. CASE Next
    BY <1>2, <1>1, TypeMain, TypeDevice, TypeTimer DEF Next, Spurious, Over
<1> QED BY <1>1, <1>2

\* Every variable of the model of timer.c keeps its type.
THEOREM TypeCorrect == Safety => []TypeOK
BY TypeInit, TypeNext, PTL DEF Safety

-----------------------------------------------------------------------------
(* The cursor and the list.                                                   *)

\* The device under the cursor is one of those attached.
LEMMA CursorInList ==
    ASSUME TypeOK, HasCur
    PROVE  Cur \in Devices
BY ElementOfSeq DEF TypeOK, HasCur, Cur

\* Moving the cursor on releases (or hears) exactly the device it was on.
LEMMA Advance ==
    ASSUME TypeOK, Control, HasCur, cur' = cur + 1, dev_list' = dev_list
    PROVE  Released' = Released \cup {Cur} /\ Cur \notin Released
<1>1. Len(dev_list) \in Nat /\ cur \in Nat \ {0} /\ cur <= Len(dev_list)
    BY LenProperties DEF TypeOK, HasCur
<1>2. Released' = Released \cup {Cur}
    BY <1>1 DEF Released, Cur
<1>3. Cur \notin Released
    BY <1>1 DEF Released, Cur, Control
<1> QED BY <1>2, <1>3

\* At the end of the list every device is behind the cursor.
LEMMA AllReleased ==
    ASSUME TypeOK, Control, ~HasCur, Attached = Devices
    PROVE  \A d \in Devices : d \in Released
<1>1. Len(dev_list) \in Nat /\ cur \in Nat /\ Len(dev_list) < cur
    BY LenProperties DEF TypeOK, HasCur
<1> QED BY <1>1 DEF Attached, Released

\* At its head none is.
LEMMA NoneReleased == cur = 1 => Released = {}
BY DEF Released

\* The set behind the cursor depends on the list and the cursor alone.
LEMMA SameReleased ==
    ASSUME cur' = cur, dev_list' = dev_list
    PROVE  Released' = Released /\ Attached' = Attached /\ (HasCur' <=> HasCur)
BY DEF Released, Attached, HasCur

-----------------------------------------------------------------------------
(* The hand-shake is inductive.                                               *)

\* The initial state satisfies the hand-shake.
LEMMA HandShakeInit == Init => HandShake
<1> SUFFICES ASSUME Init PROVE HandShake
    OBVIOUS
<1>1. Control
    BY EmptySeq DEF Init, Control
<1>2. ASSUME NEW d \in Devices PROVE Agreed(d)
    BY DEF Init, Agreed, Waiting, Pending, Releasing
<1> QED BY <1>1, <1>2 DEF HandShake

\* A step of a device's thread touches its own flags only, and moves the timer
\* from "sleep_event" to "scan" at most.
LEMMA DeviceFrame ==
    ASSUME TypeOK, NEW d \in Devices, DeviceStep(d) \/ SpuriousDevice(d)
    PROVE  /\ dev_list' = dev_list /\ cur' = cur /\ _time' = _time /\ mpc' = mpc
           /\ tpc' = tpc \/ (tpc = "sleep_event" /\ tpc' = "scan")
           /\ dpc[d] \notin {"off", "gone"}
           /\ \A e \in Devices \ {d} : /\ done'[e] = done[e] /\ fsh'[e] = fsh[e]
                                       /\ dpc'[e] = dpc[e] /\ slots'[e] = slots[e]
<1> USE DEF TypeOK, mainVars
<1>1. CASE NextSlot(d)
    BY <1>1 DEF NextSlot
<1>2. CASE SetDone(d)
    BY <1>2 DEF SetDone, WakeTimer
<1>3. CASE TakeTimerLock(d)
    BY <1>3 DEF TakeTimerLock
<1>4. CASE SleepDone(d)
    BY <1>4 DEF SleepDone
<1>5. CASE NextSlotReturns(d)
    BY <1>5 DEF NextSlotReturns
<1>6. CASE DetachEvent(d)
    BY <1>6 DEF DetachEvent
<1>7. CASE SetFsh(d)
    BY <1>7 DEF SetFsh, WakeTimer
<1>8. CASE SpuriousDevice(d)
    BY <1>8 DEF SpuriousDevice
<1> QED BY <1>1, <1>2, <1>3, <1>4, <1>5, <1>6, <1>7, <1>8 DEF DeviceStep

\* next_slot and detach_event preserve the hand-shake.
LEMMA HandShakeDevice ==
    ASSUME TypeOK, HandShake, NEW d \in Devices, DeviceStep(d) \/ SpuriousDevice(d)
    PROVE  HandShake'
<1>1. /\ dev_list' = dev_list /\ cur' = cur /\ _time' = _time /\ mpc' = mpc
      /\ tpc' = tpc \/ (tpc = "sleep_event" /\ tpc' = "scan")
      /\ dpc[d] \notin {"off", "gone"}
      /\ \A e \in Devices \ {d} : /\ done'[e] = done[e] /\ fsh'[e] = fsh[e]
                                  /\ dpc'[e] = dpc[e] /\ slots'[e] = slots[e]
    BY DeviceFrame
<1>2. Released' = Released /\ Attached' = Attached /\ (HasCur' <=> HasCur)
    BY <1>1, SameReleased
<1>3. \A e \in Devices : Pending(e)' <=> Pending(e)
    BY <1>1, <1>2 DEF Pending, Releasing
<1>4. mpc = "create" /\ Control
    BY <1>1 DEF HandShake, Control, TypeOK, MainPC
<1>5. Control'
    BY <1>1, <1>2, <1>4 DEF Control
<1>6. ASSUME NEW e \in Devices \ {d} PROVE Agreed(e)'
    BY <1>1, <1>2, <1>3, <1>6 DEF HandShake, Agreed
<1>7. Agreed(d)'
  <2> Agreed(d)
      BY DEF HandShake
  <2> USE <1>1, <1>2, <1>3 DEF Agreed, Waiting, TypeOK, mainVars
  <2>1. CASE NextSlot(d)
      BY <2>1 DEF NextSlot
  <2>2. CASE SetDone(d)
      BY <2>2 DEF SetDone
  <2>3. CASE TakeTimerLock(d)
      BY <2>3 DEF TakeTimerLock
  <2>4. CASE SleepDone(d)
      BY <2>4 DEF SleepDone
  <2>5. CASE NextSlotReturns(d)
      BY <2>5 DEF NextSlotReturns, SlotOver
  <2>6. CASE DetachEvent(d)
      BY <2>6 DEF DetachEvent
  <2>7. CASE SetFsh(d)
      BY <2>7 DEF SetFsh
  <2>8. CASE SpuriousDevice(d)
      BY <2>8 DEF SpuriousDevice
  <2> QED BY <2>1, <2>2, <2>3, <2>4, <2>5, <2>6, <2>7, <2>8 DEF DeviceStep
<1> QED BY <1>5, <1>6, <1>7 DEF HandShake

\* The timer's steps that neither tick, nor move its cursor, nor release.
LEMMA HandShakeTimerStill ==
    ASSUME TypeOK, HandShake, TakeEventLock \/ SleepEvent \/ TakeReleaseLock \/ SpuriousTimer
    PROVE  HandShake'
<1> USE DEF mainVars, countVars
<1>1. /\ dev_list' = dev_list /\ cur' = cur /\ _time' = _time /\ mpc' = mpc
      /\ done' = done /\ fsh' = fsh /\ dpc' = dpc /\ slots' = slots
    BY DEF TakeEventLock, SleepEvent, TakeReleaseLock, SpuriousTimer
<1>2. Released' = Released /\ Attached' = Attached /\ (HasCur' <=> HasCur)
    BY <1>1, SameReleased
<1>3. Control
    BY DEF HandShake
<1>4. \/ /\ tpc \in {"scan", "test_event", "sleep_event"}
         /\ tpc' \in {"scan", "test_event", "sleep_event"}
      \/ tpc = "resume" /\ tpc' = "release"
    BY DEF TakeEventLock, SleepEvent, TakeReleaseLock, SpuriousTimer
<1>5. tpc' \in {"test_event", "sleep_event", "release"} => HasCur
    BY <1>3 DEF TakeEventLock, SleepEvent, TakeReleaseLock, SpuriousTimer, Control
<1>6. Control'
    BY <1>1, <1>2, <1>3, <1>4, <1>5 DEF Control
<1>7. \A d \in Devices : Pending(d)' <=> Pending(d)
    BY <1>2, <1>4 DEF Pending, Releasing
<1>8. ASSUME NEW d \in Devices PROVE Agreed(d)'
    BY <1>1, <1>2, <1>4, <1>7 DEF HandShake, Agreed
<1> QED BY <1>6, <1>8 DEF HandShake

\* A new round begins; no device was heard in it yet.
LEMMA HandShakeLoop ==
    ASSUME TypeOK, HandShake, TimerLoop
    PROVE  HandShake'
<1> USE DEF mainVars
<1>1. Control'
    BY DEF TimerLoop, HandShake, Control, Attached
<1>2. Released' = {}
    BY NoneReleased DEF TimerLoop, Released
<1>3. ASSUME NEW d \in Devices PROVE Agreed(d)'
    BY <1>2 DEF TimerLoop, HandShake, Agreed, Pending, Releasing
<1> QED BY <1>1, <1>3 DEF HandShake

\* Hearing a device preserves it.
LEMMA HandShakeCount ==
    ASSUME TypeOK, HandShake, CountEvent
    PROVE  HandShake'
<1> USE DEF mainVars
<1>1. Control /\ HasCur /\ ~StillBusy(Cur)
    BY DEF CountEvent, HandShake, Control
<1>2. Released' = Released \cup {Cur}
    BY <1>1, Advance DEF CountEvent
<1>3. Control'
    BY <1>1 DEF CountEvent, Control, Attached
<1>4. ASSUME NEW d \in Devices PROVE Agreed(d)'
    BY <1>1, <1>2 DEF CountEvent, HandShake, Agreed, Pending, Releasing, StillBusy
<1> QED BY <1>3, <1>4 DEF HandShake

\* The tick: every device was heard, so every device is waiting or gone.
LEMMA HandShakeTick ==
    ASSUME TypeOK, HandShake, TickTime
    PROVE  HandShake'
<1> USE DEF mainVars
<1>1. Control /\ Attached = Devices
    BY DEF TickTime, HandShake, Control
<1>2. \A d \in Devices : d \in Released
    BY <1>1, AllReleased DEF TickTime
<1>3. Released' = {}
    BY NoneReleased DEF TickTime, Released
<1>4. Control'
    BY <1>1 DEF TickTime, Control, Attached
<1>5. ASSUME NEW d \in Devices PROVE Agreed(d)'
  <2>1. Agreed(d) /\ (done[d] \/ fsh[d]) /\ ~Pending(d)
      BY <1>2 DEF HandShake, Agreed, TickTime, Pending
  <2>2. dpc[d] = "gone" \/ (dpc[d] \in Waiting /\ done[d] /\ slots[d] = _time)
      BY <2>1 DEF Agreed, Waiting
  <2> QED BY <2>1, <2>2, <1>3 DEF TickTime, Agreed, Pending, Releasing, Waiting, TypeOK
<1> QED BY <1>4, <1>5 DEF HandShake

\* Letting a device go preserves it.
LEMMA HandShakeRelease ==
    ASSUME TypeOK, HandShake, Release
    PROVE  HandShake'
<1> USE DEF mainVars
<1>1. Control /\ HasCur
    BY DEF Release, HandShake, Control
<1>2. Released' = Released \cup {Cur} /\ Cur \notin Released /\ Cur \in Devices
    BY <1>1, Advance, CursorInList DEF Release
<1>3. /\ dev_list' = dev_list /\ mpc' = mpc /\ tpc' = "resume" /\ tpc = "release"
      /\ \A d \in Devices : dpc'[d] = dpc[d] \/ (dpc[d] = "sleep_done" /\ dpc'[d] = "await")
  <2>1. dpc \in [Devices -> DevicePC] /\ WakeDevice(Cur)
      BY DEF Release, TypeOK
  <2>2. \A d \in Devices : dpc'[d] = dpc[d] \/ (dpc[d] = "sleep_done" /\ dpc'[d] = "await")
      BY <2>1 DEF WakeDevice
  <2>3. dev_list' = dev_list /\ mpc' = mpc /\ tpc' = "resume" /\ tpc = "release"
      BY DEF Release
  <2> QED BY <2>2, <2>3
<1>4. Control'
  <2>1. mpc # "attach" /\ Attached = Devices /\ Attached' = Attached
      BY <1>1, <1>3 DEF Control, Attached
  <2>2. mpc \in {"destroy", "exit"} => \A d \in Devices : dpc'[d] = "gone"
      BY <1>1, <1>3 DEF Control
  <2> QED BY <1>1, <1>3, <2>1, <2>2 DEF Control
<1>5. ASSUME NEW d \in Devices PROVE Agreed(d)'
  <2>1. Agreed(d)
      BY DEF HandShake
  <2>2. CASE d = Cur
    <3>1. Pending(d) /\ (done[d] \/ fsh[d])
        BY <2>1, <2>2, <1>2, <1>3 DEF Pending, Releasing, Agreed
    <3>2. done'[d] = FALSE /\ ~Pending(d)'
        BY <2>2, <1>2 DEF Release, TypeOK, Pending
    <3> QED BY <2>1, <3>1, <3>2, <1>2, <1>3 DEF Release, Agreed, Waiting
  <2>3. CASE d # Cur
    <3>1. done'[d] = done[d] /\ (Pending(d)' <=> Pending(d))
        BY <2>3, <1>2, <1>3 DEF Release, TypeOK, Pending, Releasing
    <3> QED BY <2>1, <3>1, <1>2, <1>3 DEF Release, Agreed, Waiting
  <2> QED BY <2>2, <2>3
<1> QED BY <1>4, <1>5 DEF HandShake

\* The end of a round: nobody is left to be released.
LEMMA HandShakeRound ==
    ASSUME TypeOK, HandShake, RoundEnds
    PROVE  HandShake'
<1> USE DEF mainVars, countVars
<1>1. Control /\ Attached = Devices
    BY DEF RoundEnds, HandShake, Control
<1>2. \A d \in Devices : ~Pending(d) /\ ~Pending(d)'
  <2>1. \A d \in Devices : d \in Released
      BY <1>1, AllReleased DEF RoundEnds
  <2>2. tpc' \in {"exit", "loop"}
      BY DEF RoundEnds
  <2> QED BY <2>1, <2>2 DEF Pending, Releasing
<1>3. Control'
    BY <1>1 DEF RoundEnds, Control, Attached
<1>4. ASSUME NEW d \in Devices PROVE Agreed(d)'
    BY <1>2 DEF RoundEnds, HandShake, Agreed
<1> QED BY <1>3, <1>4 DEF HandShake

\* main's steps preserve it.
LEMMA HandShakeMain ==
    ASSUME TypeOK, HandShake, MainStep
    PROVE  HandShake'
<1> Control
    BY DEF HandShake
<1> USE DEF mainVars
<1>1. ASSUME NEW d \in Devices, AttachEvent(d) PROVE HandShake'
  <2>1. tpc = "idle" /\ mpc = "attach" /\ \A e \in Devices : dpc[e] = "off"
      BY <1>1 DEF AttachEvent, Control
  <2>2. /\ Len(dev_list') = Len(dev_list) + 1 /\ Len(dev_list) \in Nat
        /\ \A k \in 1..Len(dev_list') :
              dev_list'[k] = IF k = 1 THEN d ELSE dev_list[k - 1]
    <3>1. <<d>> \in Seq(Devices) /\ Len(<<d>>) = 1 /\ <<d>>[1] = d
        OBVIOUS
    <3>2. dev_list \in Seq(Devices) /\ Len(dev_list) \in Nat
        BY LenProperties DEF TypeOK
    <3>3. /\ Len(<<d>> \o dev_list) = Len(<<d>>) + Len(dev_list)
          /\ \A k \in 1..Len(<<d>>) + Len(dev_list) :
                (<<d>> \o dev_list)[k] = IF k <= Len(<<d>>) THEN <<d>>[k]
                                         ELSE dev_list[k - Len(<<d>>)]
        BY <3>1, <3>2, ConcatProperties
    <3> QED BY <3>1, <3>2, <3>3, <1>1 DEF AttachEvent
  <2>3. \A j, k \in 1..Len(dev_list') : dev_list'[j] = dev_list'[k] => j = k
      BY <2>2, <1>1 DEF AttachEvent, Attached, Control
  <2>4. Control'
      BY <2>1, <2>3, <1>1 DEF AttachEvent, Control
  <2>5. ASSUME NEW e \in Devices PROVE Agreed(e)'
    <3>1. Agreed(e) /\ dpc[e] = "off"
        BY <2>1 DEF HandShake
    <3>2. done'[e] = FALSE /\ fsh'[e] = FALSE /\ ~done[e] /\ ~fsh[e]
        BY <3>1, <1>1 DEF AttachEvent, TypeOK, Agreed, Waiting
    <3> QED BY <3>1, <3>2, <2>1, <1>1 DEF AttachEvent, Agreed, Waiting, Pending, Releasing
  <2> QED BY <2>4, <2>5 DEF HandShake
<1>2. ASSUME NEW d \in Devices, CreateThread(d) PROVE HandShake'
  <2>1. Released' = Released /\ Attached' = Attached /\ (HasCur' <=> HasCur)
      BY <1>2, SameReleased DEF CreateThread
  <2>2. Control'
      BY <1>2, <2>1 DEF CreateThread, Control
  <2>3. ASSUME NEW e \in Devices PROVE Agreed(e)'
      BY <1>2, <2>1 DEF CreateThread, HandShake, Agreed, Pending, Releasing, Waiting, TypeOK
  <2> QED BY <2>2, <2>3 DEF HandShake
<1>3. CASE StartTimer
  <2>1. Released' = Released /\ Attached' = Attached
      BY <1>3, SameReleased DEF StartTimer
  <2>2. Control'
      BY <1>3, <2>1 DEF StartTimer, Control
  <2>3. ASSUME NEW e \in Devices PROVE Agreed(e)'
      BY <1>3, <2>1 DEF StartTimer, HandShake, Control, Agreed, Pending, Releasing
  <2> QED BY <2>2, <2>3 DEF HandShake
<1>4. CASE StopTimer
  <2>1. Released' = Released /\ Attached' = Attached /\ (HasCur' <=> HasCur)
      BY <1>4, SameReleased DEF StopTimer
  <2>2. Control'
      BY <1>4, <2>1 DEF StopTimer, Control
  <2>3. ASSUME NEW e \in Devices PROVE Agreed(e)'
      BY <1>4, <2>1 DEF StopTimer, HandShake, Agreed, Pending, Releasing
  <2> QED BY <2>2, <2>3 DEF HandShake
<1>5. CASE DestroyHead
  <2>1. tpc = "exit" /\ tpc' = "exit" /\ mpc = "destroy" /\ mpc' \in {"destroy", "exit"}
      BY <1>5 DEF DestroyHead, TimerJoined
  <2>2. \A j, k \in 1..Len(dev_list') : dev_list'[j] = dev_list'[k] => j = k
    <3>1. CASE dev_list = << >>
        BY <3>1, <1>5 DEF DestroyHead, Control
    <3>2. CASE dev_list # << >>
      <4>1. /\ Len(Tail(dev_list)) = Len(dev_list) - 1 /\ Len(dev_list) \in Nat
            /\ \A k \in 1..Len(Tail(dev_list)) : Tail(dev_list)[k] = dev_list[k + 1]
          BY <3>2, HeadTailProperties, LenProperties DEF TypeOK
      <4>2. dev_list' = Tail(dev_list)
          BY <3>2, <1>5 DEF DestroyHead
      <4>3. \A j, k \in 1..Len(dev_list) : dev_list[j] = dev_list[k] => j = k
          BY DEF Control
      <4> QED BY <4>1, <4>2, <4>3
    <3> QED BY <3>1, <3>2
  <2>3. Control'
      BY <2>1, <2>2, <1>5 DEF DestroyHead, Control
  <2>4. ASSUME NEW e \in Devices PROVE Agreed(e)'
      BY <2>1, <1>5 DEF DestroyHead, HandShake, Agreed, Pending, Releasing
  <2> QED BY <2>3, <2>4 DEF HandShake
<1> QED BY <1>1, <1>2, <1>3, <1>4, <1>5 DEF MainStep

\* So every step does.
LEMMA HandShakeNext == TypeOK /\ HandShake /\ [Next]_vars => HandShake'
<1> SUFFICES ASSUME TypeOK, HandShake, [Next]_vars PROVE HandShake'
    OBVIOUS
<1>1. CASE UNCHANGED vars
  <2>1. Released' = Released /\ Attached' = Attached /\ (HasCur' <=> HasCur)
      BY <1>1, SameReleased DEF vars
  <2>2. Control'
      BY <1>1, <2>1 DEF vars, HandShake, Control
  <2>3. ASSUME NEW e \in Devices PROVE Agreed(e)'
      BY <1>1, <2>1 DEF vars, HandShake, Agreed, Pending, Releasing
  <2> QED BY <2>2, <2>3 DEF HandShake
<1>2. CASE TimerStep
    BY <1>2, HandShakeTimerStill, HandShakeLoop, HandShakeCount, HandShakeTick,
       HandShakeRelease, HandShakeRound DEF TimerStep
<1> QED BY <1>1, <1>2, HandShakeMain, HandShakeDevice, HandShakeTimerStill
        DEF Next, Spurious, Over

\* The inductive invariant holds in every reachable state.
THEOREM HandShakeHolds == Safety => [](TypeOK /\ HandShake)
BY TypeInit, TypeNext, HandShakeInit, HandShakeNext, PTL DEF Safety

-----------------------------------------------------------------------------
(* What follows from it.                                                      *)

\* A device at work has gone through exactly _time slots: the clock of timer.c
\* loses no slot and gives none twice, for any number of devices.
THEOREM SlotsAgree == Safety => []SlotAgreement
<1>1. TypeOK /\ HandShake => SlotAgreement
    BY DEF TypeOK, HandShake, Agreed, Waiting, SlotAgreement
<1> QED BY <1>1, HandShakeHolds, PTL

\* `done', written under two different mutexes, and _time, read under none, are
\* never accessed by the timer and a device at the same moment.
THEOREM RaceFree == Safety => []NoDataRace
<1>1. TypeOK /\ HandShake => NoDataRace
  <2> SUFFICES ASSUME TypeOK, HandShake PROVE NoDataRace
      OBVIOUS
  <2>1. ASSUME NEW d \in Devices, dpc[d] = "set_done", tpc = "release", Cur = d PROVE FALSE
    <3>1. Control /\ HasCur
        BY <2>1 DEF HandShake, Control
    <3>2. Cur \notin Released
        BY <3>1, LenProperties DEF Released, Cur, Control, TypeOK, HasCur
    <3> QED BY <2>1, <3>2 DEF HandShake, Agreed, Pending, Releasing, Waiting
  <2>2. ASSUME NEW d \in Devices, tpc = "scan", ~HasCur, dpc[d] = "work" PROVE FALSE
    <3>1. Control /\ Attached = Devices
        BY <2>2 DEF HandShake, Control
    <3>2. d \in Released
        BY <2>2, <3>1, AllReleased
    <3> QED BY <2>2, <3>2 DEF HandShake, Agreed, Waiting
  <2> QED BY <2>1, <2>2 DEF NoDataRace
<1> QED BY <1>1, HandShakeHolds, PTL

\* stop_timer never frees a container that its device or the timer still uses.
THEOREM NoFreedContainerUsed == Safety => []NoUseAfterFree
<1>1. TypeOK /\ HandShake => NoUseAfterFree
    BY DEF TypeOK, HandShake, Control, NoUseAfterFree, MainPC
<1> QED BY <1>1, HandShakeHolds, PTL

-----------------------------------------------------------------------------
(* Timer implements the safety part of SlotClock.  The abstract clock stops   *)
(* at its Horizon of MaxSlots + 1; that the model of timer.c never gets       *)
(* beyond it is an invariant of its own: a round in which some device was     *)
(* heard that has not detached is a slot of that device's, and a round in     *)
(* which none was is the timer's last.                                        *)

Scanning == tpc \in {"scan", "test_event", "sleep_event"}

\* No device lives through more than MaxSlots slots, and the clock is not further than
\* the device that has come furthest; but for the tick of the timer's last round.
WithinHorizon ==
    /\ \A d \in Devices : dpc[d] = "set_done" \/ dpc[d] \in Waiting => slots[d] < MaxSlots
    /\ Scanning \/ tpc \in {"idle", "loop"} => _time <= MaxSlots
    /\ Scanning /\ ~AllFinished => \E d \in Devices : d \in Released /\ ~fsh[d]
    /\ Releasing /\ ~AllFinished => _time <= MaxSlots

\* main attaches before anything is counted.
LEMMA HorizonInit == Init => WithinHorizon
BY MaxSlotsAssumption DEF Init, WithinHorizon, Waiting, Scanning, Releasing

\* A device enters next_slot only while it has slots left, and does not detach after
\* the timer has heard it wait.
LEMMA HorizonDevice ==
    ASSUME TypeOK, HandShake, WithinHorizon, NEW d \in Devices,
           DeviceStep(d) \/ SpuriousDevice(d)
    PROVE  WithinHorizon'
<1> USE DEF mainVars, countVars, TypeOK
<1>1. /\ cur' = cur /\ dev_list' = dev_list /\ _time' = _time
      /\ nfsh' = nfsh /\ nevent' = nevent
      /\ tpc' = tpc \/ (tpc = "sleep_event" /\ tpc' = "scan")
    BY DEF DeviceStep, NextSlot, SetDone, TakeTimerLock, SleepDone, NextSlotReturns,
           DetachEvent, SetFsh, SpuriousDevice, WakeTimer
<1>2. Released' = Released /\ (AllFinished' <=> AllFinished)
    BY <1>1, SameReleased DEF AllFinished
<1>3. (Scanning' <=> Scanning) /\ (Releasing' <=> Releasing)
      /\ (tpc' \in {"idle", "loop"} <=> tpc \in {"idle", "loop"})
    BY <1>1 DEF Scanning, Releasing
<1>4. ASSUME NEW e \in Devices, e \in Released, ~fsh[e], Scanning
      PROVE  ~fsh'[e]
  <2>1. done[e] /\ dpc[e] \in Waiting
      BY <1>4 DEF HandShake, Agreed, Scanning
  <2> QED BY <1>4, <2>1 DEF DeviceStep, NextSlot, SetDone, TakeTimerLock, SleepDone,
             NextSlotReturns, DetachEvent, SetFsh, SpuriousDevice, Waiting
<1>5. ASSUME NEW e \in Devices, dpc'[e] = "set_done" \/ dpc'[e] \in Waiting
      PROVE  slots'[e] < MaxSlots
    BY <1>5 DEF WithinHorizon, DeviceStep, NextSlot, SetDone, TakeTimerLock, SleepDone,
       NextSlotReturns, DetachEvent, SetFsh, SpuriousDevice, Waiting
<1> QED BY <1>1, <1>2, <1>3, <1>4, <1>5 DEF WithinHorizon

\* The clock ticks on behalf of a device that waits, or for the last time.
LEMMA HorizonTimer ==
    ASSUME TypeOK, HandShake, WithinHorizon, TimerStep \/ SpuriousTimer
    PROVE  WithinHorizon'
<1> USE MaxSlotsAssumption DEF mainVars, countVars, TypeOK
<1>0. ASSUME NEW e \in Devices, dpc'[e] = "set_done" \/ dpc'[e] \in Waiting
      PROVE  slots'[e] < MaxSlots
  <2>1. slots' = slots /\ \A d \in Devices :
            dpc'[d] = dpc[d] \/ (dpc[d] = "sleep_done" /\ dpc'[d] = "await")
      BY DEF TimerStep, TimerLoop, TakeEventLock, SleepEvent, CountEvent, TickTime,
             TakeReleaseLock, Release, RoundEnds, SpuriousTimer, WakeDevice
  <2> QED BY <1>0, <2>1 DEF WithinHorizon, Waiting
<1>1. CASE TakeEventLock \/ SleepEvent \/ TakeReleaseLock \/ SpuriousTimer
  <2>1. /\ cur' = cur /\ dev_list' = dev_list /\ _time' = _time /\ fsh' = fsh
        /\ nfsh' = nfsh /\ nevent' = nevent
        /\ (Scanning' <=> Scanning) /\ (Releasing' <=> Releasing)
        /\ tpc' \notin {"idle", "loop"}
      BY <1>1 DEF TakeEventLock, SleepEvent, TakeReleaseLock, SpuriousTimer, Scanning,
                  Releasing
  <2>2. Released' = Released
      BY <2>1, SameReleased
  <2> QED BY <1>0, <2>1, <2>2 DEF WithinHorizon, AllFinished
<1>2. CASE TimerLoop
    BY <1>0, <1>2 DEF TimerLoop, WithinHorizon, Scanning, Releasing, AllFinished
<1>3. CASE CountEvent
  <2>1. Released' = Released \cup {Cur} /\ Cur \in Devices
      BY <1>3, Advance, CursorInList DEF CountEvent, HandShake, Control
  <2>2. Scanning /\ Scanning' /\ ~Releasing' /\ tpc' = "scan"
      BY <1>3 DEF CountEvent, Scanning, Releasing
  <2>3. ASSUME ~AllFinished' PROVE \E d \in Devices : d \in Released' /\ ~fsh'[d]
    <3>1. CASE fsh[Cur]
        BY <1>3, <2>1, <2>2, <2>3, <3>1 DEF CountEvent, CountFsh, AllFinished, WithinHorizon
    <3>2. CASE ~fsh[Cur]
        BY <1>3, <2>1, <3>2 DEF CountEvent
    <3> QED BY <3>1, <3>2
  <2>4. _time' <= MaxSlots
      BY <1>3, <2>2 DEF CountEvent, WithinHorizon
  <2> QED BY <1>0, <2>2, <2>3, <2>4 DEF WithinHorizon
<1>4. CASE TickTime
  <2>1. ASSUME ~AllFinished' PROVE _time' <= MaxSlots
    <3>1. PICK d \in Devices : d \in Released /\ ~fsh[d]
        BY <1>4, <2>1 DEF TickTime, AllFinished, WithinHorizon, Scanning
    <3>2. done[d] /\ dpc[d] \in Waiting /\ ~Pending(d)
        BY <1>4, <3>1 DEF TickTime, HandShake, Agreed, Pending
    <3>3. slots[d] = _time /\ slots[d] < MaxSlots
        BY <3>2 DEF HandShake, Agreed, WithinHorizon
    <3> QED BY <1>4, <3>3 DEF TickTime
  <2> QED BY <1>0, <1>4, <2>1 DEF TickTime, WithinHorizon, Scanning
<1>5. CASE Release
    BY <1>0, <1>5 DEF Release, WithinHorizon, Scanning, Releasing, AllFinished
<1>6. CASE RoundEnds
    BY <1>0, <1>6 DEF RoundEnds, WithinHorizon, Scanning, Releasing, AllFinished
<1> QED BY <1>1, <1>2, <1>3, <1>4, <1>5, <1>6 DEF TimerStep

\* main counts nothing.
LEMMA HorizonMain ==
    ASSUME TypeOK, HandShake, WithinHorizon, MainStep
    PROVE  WithinHorizon'
<1> USE DEF mainVars, TypeOK
<1>1. ASSUME NEW e \in Devices, dpc'[e] = "set_done" \/ dpc'[e] \in Waiting
      PROVE  slots'[e] < MaxSlots
    BY <1>1 DEF MainStep, AttachEvent, CreateThread, StartTimer, StopTimer, DestroyHead,
                WithinHorizon, Waiting
<1>2. CASE tpc \in {"idle", "exit"}
  <2>1. _time' = _time /\ (tpc' = tpc \/ (tpc = "idle" /\ tpc' = "loop"))
      BY <1>2 DEF MainStep, AttachEvent, CreateThread, StartTimer, StopTimer, DestroyHead,
                  HandShake, Control
  <2>2. ~Scanning' /\ ~Releasing' /\ (tpc' \in {"idle", "loop"} => tpc = "idle")
      BY <1>2, <2>1 DEF Scanning, Releasing
  <2> QED BY <1>1, <2>1, <2>2 DEF WithinHorizon
<1>3. CASE tpc \notin {"idle", "exit"}
  <2>1. /\ cur' = cur /\ dev_list' = dev_list /\ _time' = _time /\ fsh' = fsh
        /\ nfsh' = nfsh /\ nevent' = nevent /\ tpc' = tpc
      BY <1>3 DEF MainStep, AttachEvent, CreateThread, StartTimer, StopTimer,
                  DestroyHead, TimerJoined, HandShake, Control
  <2>2. Released' = Released
      BY <2>1, SameReleased
  <2> QED BY <1>1, <2>1, <2>2 DEF WithinHorizon, Scanning, Releasing, AllFinished
<1> QED BY <1>2, <1>3

\* The clock of timer.c stays within the horizon.
LEMMA HorizonAlways == Safety => []WithinHorizon
<1>1. TypeOK /\ HandShake /\ WithinHorizon /\ [Next]_vars => WithinHorizon'
  <2> SUFFICES ASSUME TypeOK, HandShake, WithinHorizon, [Next]_vars PROVE WithinHorizon'
      OBVIOUS
  <2>1. CASE UNCHANGED vars
    <3>1. Released' = Released
        BY <2>1, SameReleased DEF vars
    <3> QED BY <2>1, <3>1 DEF vars, WithinHorizon, Scanning, Releasing, AllFinished
  <2> QED BY <2>1, HorizonMain, HorizonDevice, HorizonTimer DEF Next, Spurious, Over
<1> QED BY <1>1, HorizonInit, HandShakeHolds, PTL DEF Safety

-----------------------------------------------------------------------------

\* A step that leaves the flags, the clock and who is pending alone is a stutter.
LEMMA SameClock ==
    ASSUME fsh' = fsh, done' = done, _time' = _time,
           \A d \in Devices : Pending(d)' <=> Pending(d)
    PROVE  UNCHANGED <<_time, ClockStatus>>
<1>1. ASSUME NEW d \in Devices
      PROVE  (IF fsh'[d] THEN "detached"
              ELSE IF done'[d] /\ ~Pending(d)' THEN "arrived" ELSE "working")
             = (IF fsh[d] THEN "detached"
                ELSE IF done[d] /\ ~Pending(d) THEN "arrived" ELSE "working")
    OBVIOUS
<1> QED BY <1>1 DEF ClockStatus

\* Each step of main is a stutter of the abstract clock.
LEMMA ClockMain ==
    ASSUME TypeOK, HandShake, MainStep
    PROVE  UNCHANGED <<_time, ClockStatus>>
<1> USE DEF mainVars, TypeOK
<1>1. _time' = _time /\ cur' = cur
    BY DEF MainStep, AttachEvent, CreateThread, StartTimer, StopTimer, DestroyHead
<1>2. fsh' = fsh /\ done' = done
  <2>1. ASSUME NEW d \in Devices, AttachEvent(d) PROVE fsh' = fsh /\ done' = done
    <3>1. ~fsh[d] /\ ~done[d]
        BY <2>1 DEF AttachEvent, HandShake, Control, Agreed, Waiting
    <3> QED BY <2>1, <3>1 DEF AttachEvent
  <2> QED BY <2>1 DEF MainStep, CreateThread, StartTimer, StopTimer, DestroyHead
<1>3. ASSUME NEW d \in Devices PROVE Pending(d)' <=> Pending(d)
  <2>1. CASE ~Releasing
      BY <2>1 DEF Pending, Releasing, MainStep, AttachEvent, CreateThread, StartTimer,
                  StopTimer, DestroyHead
  <2>2. CASE Releasing
    <3>1. dev_list' = dev_list /\ tpc' = tpc
        BY <2>2 DEF Releasing, MainStep, AttachEvent, CreateThread, StartTimer, StopTimer,
                    DestroyHead, TimerJoined, HandShake, Control
    <3> QED BY <1>1, <3>1, SameReleased DEF Pending, Releasing
  <2> QED BY <2>1, <2>2
<1> QED BY <1>1, <1>2, <1>3, SameClock

\* A device's step is its arrival, its leaving, or a stutter.
LEMMA ClockDevice ==
    ASSUME TypeOK, HandShake, NEW d \in Devices, DeviceStep(d) \/ SpuriousDevice(d)
    PROVE  C!Arrive(d) \/ C!Detach(d) \/ UNCHANGED <<_time, ClockStatus>>
<1> USE DEF mainVars, countVars, TypeOK
<1>1. /\ cur' = cur /\ dev_list' = dev_list /\ _time' = _time
      /\ tpc' = tpc \/ (tpc = "sleep_event" /\ tpc' = "scan")
    BY DEF DeviceStep, NextSlot, SetDone, TakeTimerLock, SleepDone, NextSlotReturns,
           DetachEvent, SetFsh, SpuriousDevice, WakeTimer
<1>2. \A e \in Devices : Pending(e)' <=> Pending(e)
    BY <1>1, SameReleased DEF Pending, Releasing
<1>3. CASE SetDone(d)
  <2>1. ~fsh[d] /\ ~done[d] /\ ~Pending(d)
      BY <1>3 DEF SetDone, HandShake, Agreed, Waiting
  <2>2. fsh' = fsh /\ done' = [done EXCEPT ![d] = TRUE]
      BY <1>3 DEF SetDone
  <2>3. ClockStatus[d] = "working"
      BY <2>1 DEF ClockStatus
  <2>4. ClockStatus' = [ClockStatus EXCEPT ![d] = "arrived"]
      BY <1>2, <2>1, <2>2 DEF ClockStatus
  <2> QED BY <1>1, <2>3, <2>4 DEF C!Arrive
<1>4. CASE SetFsh(d)
  <2>1. ~fsh[d] /\ ~done[d]
      BY <1>4 DEF SetFsh, HandShake, Agreed, Waiting
  <2>2. done' = done /\ fsh' = [fsh EXCEPT ![d] = TRUE]
      BY <1>4 DEF SetFsh
  <2>3. ClockStatus[d] = "working"
      BY <2>1 DEF ClockStatus
  <2>4. ClockStatus' = [ClockStatus EXCEPT ![d] = "detached"]
      BY <1>2, <2>1, <2>2 DEF ClockStatus
  <2> QED BY <1>1, <2>3, <2>4 DEF C!Detach
<1>5. CASE ~SetDone(d) /\ ~SetFsh(d)
  <2>1. fsh' = fsh /\ done' = done
      BY <1>5 DEF DeviceStep, NextSlot, TakeTimerLock, SleepDone, NextSlotReturns,
                  DetachEvent, SpuriousDevice
  <2> QED BY <1>1, <1>2, <2>1, SameClock
<1> QED BY <1>3, <1>4, <1>5

\* The timer's step is the tick or a stutter: between `_time++' and its release a device
\* that waits already belongs to the new slot.
LEMMA ClockTimer ==
    ASSUME TypeOK, HandShake, WithinHorizon, TimerStep \/ SpuriousTimer
    PROVE  C!Tick \/ UNCHANGED <<_time, ClockStatus>>
<1> USE DEF mainVars, countVars, TypeOK
<1>1. CASE TickTime
  <2>1. \A d \in Devices : d \in Released
      BY <1>1, AllReleased DEF TickTime, HandShake, Control
  <2>2. Released' = {}
      BY <1>1, NoneReleased DEF TickTime, Released
  <2>3. \A d \in Devices : (done[d] \/ fsh[d]) /\ ~Pending(d) /\ Pending(d)'
      BY <1>1, <2>1, <2>2 DEF TickTime, HandShake, Agreed, Pending, Releasing
  <2>4. fsh' = fsh /\ done' = done /\ _time' = _time + 1
      BY <1>1 DEF TickTime
  <2>5. \A d \in Devices : ClockStatus[d] = IF fsh[d] THEN "detached" ELSE "arrived"
      BY <2>3 DEF ClockStatus
  <2>6. ClockStatus' = [d \in Devices |-> IF fsh[d] THEN "detached" ELSE "working"]
      BY <2>3, <2>4 DEF ClockStatus
  <2>7. ClockStatus' = [d \in Devices |-> IF ClockStatus[d] = "arrived" THEN "working"
                                          ELSE ClockStatus[d]]
      BY <2>5, <2>6
  <2>8. _time < MaxSlots + 1
      BY <1>1, MaxSlotsAssumption DEF TickTime, WithinHorizon, Scanning
  <2> QED BY <2>4, <2>5, <2>7, <2>8 DEF C!Tick
<1>2. CASE Release
  <2>1. Released' = Released \cup {Cur} /\ Cur \notin Released /\ Cur \in Devices
      BY <1>2, Advance, CursorInList DEF Release, HandShake, Control
  <2>2. /\ fsh' = fsh /\ done' = [done EXCEPT ![Cur] = FALSE] /\ _time' = _time
        /\ Releasing /\ Releasing'
      BY <1>2 DEF Release, Releasing
  <2>3. \A d \in Devices : d # Cur => (Pending(d)' <=> Pending(d))
      BY <2>1, <2>2 DEF Pending
  <2>4. Pending(Cur)
      BY <2>1, <2>2 DEF Pending
  <2>5. ASSUME NEW d \in Devices
        PROVE  (IF fsh'[d] THEN "detached"
                ELSE IF done'[d] /\ ~Pending(d)' THEN "arrived" ELSE "working")
               = (IF fsh[d] THEN "detached"
                  ELSE IF done[d] /\ ~Pending(d) THEN "arrived" ELSE "working")
      BY <2>1, <2>2, <2>3, <2>4
  <2>6. ClockStatus' = ClockStatus
      BY <2>5 DEF ClockStatus
  <2> QED BY <2>2, <2>6
<1>3. CASE RoundEnds
  <2>1. \A d \in Devices : d \in Released
      BY <1>3, AllReleased DEF RoundEnds, HandShake, Control
  <2>2. \A d \in Devices : ~Pending(d) /\ ~Pending(d)'
      BY <1>3, <2>1 DEF RoundEnds, Pending, Releasing
  <2> QED BY <1>3, <2>2, SameClock DEF RoundEnds
<1>4. CASE TakeReleaseLock
    BY <1>4, SameClock, SameReleased DEF TakeReleaseLock, Pending, Releasing
<1>5. CASE TimerLoop \/ TakeEventLock \/ SleepEvent \/ CountEvent \/ SpuriousTimer
  <2>1. \A d \in Devices : ~Pending(d) /\ ~Pending(d)'
      BY <1>5 DEF Pending, Releasing, TimerLoop, TakeEventLock, SleepEvent, CountEvent,
                  SpuriousTimer
  <2>2. fsh' = fsh /\ done' = done /\ _time' = _time
      BY <1>5 DEF TimerLoop, TakeEventLock, SleepEvent, CountEvent, SpuriousTimer
  <2> QED BY <2>1, <2>2, SameClock
<1> QED BY <1>1, <1>2, <1>3, <1>4, <1>5 DEF TimerStep

\* timer.c implements the lock-step clock of SlotClock, step by step and for any number
\* of devices: the clock never ticks while a device is at work, and a tick lets every
\* waiting device go exactly once (the safety part of ImplementsClock of the timer run).
THEOREM TimerKeepsLockStep == Safety => C!ClockSafety
<1>1. Init => C!ClockInit
  <2> SUFFICES ASSUME Init PROVE C!ClockInit
      OBVIOUS
  <2>1. ClockStatus = [d \in Devices |-> "working"]
      BY DEF Init, ClockStatus
  <2> QED BY <2>1 DEF Init, C!ClockInit
<1>2. TypeOK /\ HandShake /\ WithinHorizon /\ [Next]_vars => [C!ClockNext]_(C!clockVars)
  <2> SUFFICES ASSUME TypeOK, HandShake, WithinHorizon, [Next]_vars
               PROVE  C!ClockNext \/ UNCHANGED <<_time, ClockStatus>>
      BY DEF C!clockVars
  <2>1. CASE UNCHANGED vars
    <3>1. \A d \in Devices : Pending(d)' <=> Pending(d)
        BY <2>1, SameReleased DEF vars, Pending, Releasing
    <3> QED BY <2>1, <3>1, SameClock DEF vars
  <2>2. CASE MainStep
      BY <2>2, ClockMain
  <2>3. ASSUME NEW d \in Devices, DeviceStep(d) \/ SpuriousDevice(d)
        PROVE  C!ClockNext \/ UNCHANGED <<_time, ClockStatus>>
    <3>1. C!Arrive(d) \/ C!Detach(d) \/ UNCHANGED <<_time, ClockStatus>>
        BY <2>3, ClockDevice
    <3> QED BY <3>1 DEF C!ClockNext
  <2>4. CASE TimerStep \/ SpuriousTimer
    <3>1. C!Tick \/ UNCHANGED <<_time, ClockStatus>>
        BY <2>4, ClockTimer
    <3> QED BY <3>1 DEF C!ClockNext
  <2> QED BY <2>1, <2>2, <2>3, <2>4 DEF Next, Spurious, Over
<1> QED BY <1>1, <1>2, HandShakeHolds, HorizonAlways, PTL DEF Safety, C!ClockSafety
=============================================================================
