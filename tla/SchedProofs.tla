---------------------------- MODULE SchedProofs ----------------------------
(***************************************************************************)
(* What holds of the scheduler for every size of the pool, of the queues   *)
(* and of the clock, any callers and any timing: types, conservation of    *)
(* the element pool, and that neither a wake-up of the gpSched task nor an *)
(* interrupt is ever lost.                                                 *)
(***************************************************************************)
EXTENDS Sched, SeqLemmas

(* The wrap-around sum and difference of two times are times.              *)
LEMMA TimeArithmetic ==
  ASSUME NEW a \in Time, NEW b \in Time
  PROVE  Plus(a, b) \in Time /\ Minus(a, b) \in Time
BY HalfAssumption DEF Time, Modulus, Plus, Minus

(* The constants that are times, and the delays callers pass.              *)
LEMMA TimeConstants ==
  /\ 0 \in Time /\ 1 \in Time /\ EVENT_TIME_NOW \in Time /\ NoTime \notin Time
  /\ Time \subseteq Nat /\ RelTimes \subseteq Time
  /\ \A rel \in RelTimes : Delay(rel) \in Nat
BY HalfAssumption, SchedAssumption
   DEF Time, Modulus, EVENT_TIME_MAX, EVENT_TIME_NOW, NoTime, Delay

(* The two parts of a distant delay.                                       *)
LEMMA Parts ==
  ASSUME NEW s \in Nat
  PROVE  FirstPart(s) \in Time /\ RestPart(s) \in Nat /\ FirstPart(s) <= s
BY HalfAssumption, SchedAssumption
   DEF Time, Modulus, EVENT_TIME_MAX, FirstPart, RestPart

(* The first listed event has a time.                                      *)
LEMMA FirstTimeType ==
  ASSUME TypeOK, list # <<>>
  PROVE  Head(list) \in Elem /\ FirstTime \in Time
BY HeadTailProperties DEF TypeOK, FirstTime, Elements

LEMMA AbsTimeType ==
  ASSUME TypeOK, NEW rel \in RelTimes \cup {FirstPart(s) : s \in Nat}
  PROVE  AbsTime(rel) \in Time
<1>1. rel \in Time /\ now \in Time
  BY TimeConstants, Parts DEF TypeOK
<1>2. (IF list = <<>> THEN now ELSE FirstTime) \in Time
  BY <1>1, FirstTimeType
<1> QED BY <1>1, <1>2, TimeArithmetic, TimeConstants DEF AbsTime

(* The search for the place of an event ends inside the list or behind it, *)
(* the search for an event at a match or nowhere.                          *)
LEMMA InsertPosRange ==
  ASSUME list \in Seq(Elem), NEW t
  PROVE  InsertPos(t) \in 1 .. Len(list) + 1
<1> DEFINE later == {i \in 1 .. Len(list) : TIME_COMPARE_BIGGER(ev[list[i]].time, t)}
<1>1. Len(list) \in Nat /\ later \in SUBSET Nat
  BY LenProperties
<1>2. CASE later = {}
  BY <1>1, <1>2 DEF InsertPos
<1>3. CASE later # {}
  <2>1. \E i \in later : \A j \in later : i <= j
    BY <1>1, <1>3, LeastElement
  <2>2. InsertPos(t) \in later
    BY <1>3, <2>1 DEF InsertPos
  <2> QED BY <1>1, <2>2
<1> QED BY <1>2, <1>3

LEMMA FindEventArgRange ==
  ASSUME list \in Seq(Elem), NEW cb, NEW arg, ExistsEventArg(cb, arg)
  PROVE  /\ FindEventArg(cb, arg) \in 1 .. Len(list)
         /\ list[FindEventArg(cb, arg)] \in Elem
<1> DEFINE found == {i \in 1 .. Len(list) : Matches(list[i], cb, arg)}
<1>1. found # {} /\ found \in SUBSET Nat
  BY DEF ExistsEventArg, FindEventArg
<1>2. \E i \in found : \A j \in found : i <= j
  BY <1>1, LeastElement
<1>3. FindEventArg(cb, arg) \in found
  BY <1>1, <1>2 DEF FindEventArg
<1> QED BY <1>3, ElementOfSeq
-----------------------------------------------------------------------------
(* Scheduling an event, whoever does it: it keeps the types, and when the  *)
(* list grows the gpSched task is notified.                                *)
LEMMA ScheduleEventType ==
  ASSUME TypeOK, NEW t \in Time, NEW r, NEW cb \in Callbacks \cup {NoElem},
         NEW arg \in Args \cup {NoElem}, NEW rem \in Nat, NEW left \in Int,
         ScheduleEvent(t, r, cb, arg, rem, left)
  PROVE  /\ list' \in Seq(Elem) /\ free' \in Seq(Elem)
         /\ ev' \in [Elem -> Elements]
         /\ notified' \in BOOLEAN /\ fault' \in {"none", "pool", "range"}
         /\ notified => notified'
         /\ list' # list => notified'
<1>1. CASE free = <<>> \/ ~ r
  BY <1>1 DEF ScheduleEvent, TypeOK
<1>2. CASE ~ (free = <<>> \/ ~ r)
  <2>1. Head(free) \in Elem /\ Tail(free) \in Seq(Elem)
    BY <1>2, HeadTailProperties DEF TypeOK
  <2>2. InsertAt(list, InsertPos(t), Head(free)) \in Seq(Elem)
    BY <2>1, InsertPosRange, InsertAtElements DEF TypeOK
  <2>3. [time |-> t, cb |-> cb, arg |-> arg, rem |-> rem, left |-> left] \in Elements
    BY DEF Elements
  <2> QED BY <1>2, <2>1, <2>2, <2>3 DEF ScheduleEvent, TypeOK
<1> QED BY <1>1, <1>2

(* Forgetting the contents of some elements keeps the types.               *)
LEMMA ForgetType ==
  ASSUME ev \in [Elem -> Elements], NEW dead
  PROVE  Forget(dead) \in [Elem -> Elements]
BY TimeConstants DEF Forget, Blank, Elements
-----------------------------------------------------------------------------
(* Types.  The task holds an element exactly while it executes it.         *)
Held == pc \in {"exec", "release"} => cur \in Elem

TypeInv == TypeOK /\ Held

LEMMA TypeInit ==
  ASSUME Init PROVE TypeInv
<1>1. free \in Seq(Elem)
  BY SchedAssumption, FS_CardinalityType, SeqDef DEF Init
<1>2. Blank \in Elements /\ 0 \in Nat /\ 0 \in Time
  BY TimeConstants DEF Blank, Elements
<1>3. <<>> \in Seq(Elem) /\ <<>> \in Seq(QueueItems)
  OBVIOUS
<1> QED BY <1>1, <1>2, <1>3
        DEF Init, TypeInv, TypeOK, Held, Places, NoQuery, NoTime

(* The callers: tasks and interrupt handlers that use the API.             *)
LEMMA TypeCaller ==
  ASSUME TypeInv, CallerStep PROVE TypeInv'
<1> USE DEF TypeInv, Held
<1>1. ASSUME NEW cb \in Callbacks, NEW arg \in Args, NEW rel \in RelTimes,
             ScheduleEventArg(rel, cb, arg)
      PROVE  TypeInv'
  <2>1. AbsTime(rel) \in Time /\ Delay(rel) \in Int
    BY AbsTimeType, TimeConstants
  <2>2. /\ list' \in Seq(Elem) /\ free' \in Seq(Elem) /\ ev' \in [Elem -> Elements]
        /\ notified' \in BOOLEAN /\ fault' \in {"none", "pool", "range"}
    BY <1>1, <2>1, ScheduleEventType, TimeConstants DEF ScheduleEventArg
  <2> QED BY <1>1, <2>2 DEF ScheduleEventArg, TypeOK, loopVars, intVars, isrVars
<1>2. ASSUME NEW cb \in Callbacks, NEW arg \in Args, NEW s \in Seconds,
             ScheduleEventInSeconds(s, cb, arg)
      PROVE  TypeInv'
  <2>1. s \in Nat /\ AbsTime(FirstPart(s)) \in Time /\ RestPart(s) \in Nat
    BY AbsTimeType, Parts, SchedAssumption
  <2>2. /\ list' \in Seq(Elem) /\ free' \in Seq(Elem) /\ ev' \in [Elem -> Elements]
        /\ notified' \in BOOLEAN /\ fault' \in {"none", "pool", "range"}
    <3>1. ScheduleEvent(AbsTime(FirstPart(s)), InRange(FirstPart(s)), cb, arg,
                        RestPart(s), s)
      BY <1>2 DEF ScheduleEventInSeconds
    <3>2. s \in Int /\ cb \in Callbacks \cup {NoElem} /\ arg \in Args \cup {NoElem}
      BY <2>1
    <3> QED BY <2>1, <3>1, <3>2, ScheduleEventType
  <2> QED BY <1>2, <2>2
          DEF ScheduleEventInSeconds, TypeOK, loopVars, intVars, isrVars
<1>3. ASSUME NEW cb \in Callbacks, NEW arg \in Args, NEW rel \in RelTimes,
             ScheduleEventDeferred(rel, cb, arg)
      PROVE  TypeInv'
  <2>1. isrQ' \in Seq(QueueItems)
    <3> DEFINE item == [rel |-> rel, cb |-> cb, arg |-> arg, age |-> 0]
    <3>1. item \in QueueItems
      BY DEF QueueItems
    <3>2. isrQ' \in {isrQ, Append(isrQ, item)} /\ isrQ \in Seq(QueueItems)
      BY <1>3 DEF ScheduleEventDeferred, TypeOK
    <3> QED BY <3>1, <3>2, AppendProperties
  <2>2. pend' \in Nat
    BY <1>3 DEF ScheduleEventDeferred, TypeOK
  <2> QED BY <1>3, <2>1, <2>2
          DEF ScheduleEventDeferred, TypeOK, poolVars, loopVars, intVars
<1>4. ASSUME NEW cb \in Callbacks, NEW arg \in Args, UnscheduleEventArg(cb, arg)
      PROVE  TypeInv'
  <2> DEFINE i == FindEventArg(cb, arg)
  <2>1. i \in 1 .. Len(list) /\ list[i] \in Elem
    BY <1>4, FindEventArgRange DEF UnscheduleEventArg, TypeOK
  <2>2. RemoveAt(list, i) \in Seq(Elem) /\ Append(free, list[i]) \in Seq(Elem)
    BY <2>1, RemoveAtElements, AppendProperties DEF TypeOK
  <2>3. Forget({list[i]}) \in [Elem -> Elements]
    BY ForgetType DEF TypeOK
  <2> QED BY <1>4, <2>2, <2>3
          DEF UnscheduleEventArg, TypeOK, loopVars, intVars, isrVars
<1>5. ASSUME NEW cb \in Callbacks, NEW arg \in Args, GetRemainingTimeFind(cb, arg)
      PROVE  TypeInv'
  <2>1. list[FindEventArg(cb, arg)] \in Elem
    BY <1>5, FindEventArgRange DEF GetRemainingTimeFind, TypeOK
  <2> QED BY <1>5, <2>1
          DEF GetRemainingTimeFind, TypeOK, poolVars, loopVars, intVars, isrVars
<1>6. CASE GetRemainingTimeRead
  BY <1>6 DEF GetRemainingTimeRead, TypeOK, poolVars, loopVars, intVars, isrVars,
              NoQuery
<1>7. CASE Clear
  <2>1. <<>> \in Seq(Elem) /\ free \o Reverse(list) \in Seq(Elem)
    BY ReverseRange, ConcatProperties DEF TypeOK
  <2>2. Forget(Range(list)) \in [Elem -> Elements]
    BY ForgetType DEF TypeOK
  <2> QED BY <1>7, <2>1, <2>2 DEF Clear, TypeOK, loopVars, intVars, isrVars
<1> QED BY <1>1, <1>2, <1>3, <1>4, <1>5, <1>6, <1>7 DEF CallerStep

(* The gpSched task.                                                       *)
LEMMA TypeTask ==
  ASSUME TypeInv, TaskStep PROVE TypeInv'
<1> USE DEF TypeInv, Held, Places
<1>1. CASE TaskNotifyWait
  BY <1>1, TimeConstants
     DEF TaskNotifyWait, TypeOK, poolVars, intVars, isrVars
<1>2. CASE HandleRadioInterrupt
  BY <1>2 DEF HandleRadioInterrupt, TypeOK, poolVars, isrVars
<1>3. CASE UnmaskRadioInterrupt
  BY <1>3 DEF UnmaskRadioInterrupt, TypeOK, poolVars, isrVars
<1>4. CASE GetEvent
  <2>1. ASSUME IsDue PROVE Head(list) \in Elem /\ Tail(list) \in Seq(Elem)
    BY <2>1, HeadTailProperties DEF IsDue, TypeOK
  <2> QED BY <1>4, <2>1 DEF GetEvent, AfterBody, TypeOK, intVars, isrVars
<1>5. CASE ReScheduleInSeconds
  <2> DEFINE d == ev[cur]
             t == Plus(d.time, FirstPart(d.rem))
  <2>1. /\ d.time \in Time /\ d.rem \in Nat /\ d.left \in Int
        /\ d.cb \in Callbacks \cup {NoElem} /\ d.arg \in Args \cup {NoElem}
    BY <1>5 DEF ReScheduleInSeconds, TypeOK, Elements
  <2>2. t \in Time /\ RestPart(d.rem) \in Nat
    BY <2>1, TimeArithmetic, Parts
  <2>3. ScheduleEvent(t, TRUE, d.cb, d.arg, RestPart(d.rem), d.left)
    BY <1>5 DEF ReScheduleInSeconds
  <2> HIDE DEF d, t
  <2>4. /\ list' \in Seq(Elem) /\ free' \in Seq(Elem) /\ ev' \in [Elem -> Elements]
        /\ notified' \in BOOLEAN /\ fault' \in {"none", "pool", "range"}
    BY <2>1, <2>2, <2>3, ScheduleEventType
  <2> QED BY <1>5, <2>4 DEF ReScheduleInSeconds, TypeOK, intVars, isrVars
<1>6. CASE ExecEvent
  BY <1>6 DEF ExecEvent, TypeOK, poolVars, intVars, isrVars
<1>7. CASE ReleaseEvent
  <2>1. Append(free, cur) \in Seq(Elem)
    BY <1>7, AppendProperties DEF ReleaseEvent, TypeOK
  <2>2. Forget({cur}) \in [Elem -> Elements]
    BY ForgetType DEF TypeOK
  <2> QED BY <1>7, <2>1, <2>2
          DEF ReleaseEvent, AfterBody, TypeOK, intVars, isrVars
<1>8. CASE CheckQueue
  BY <1>8 DEF CheckQueue, TypeOK, poolVars, intVars, isrVars
<1>9. CASE CheckRadio
  BY <1>9 DEF CheckRadio, TypeOK, poolVars, isrVars
<1>10. CASE GetTimeToNextEvent
  <2>1. TimeToNextEvent \in Time
    BY FirstTimeType, TimeArithmetic, TimeConstants DEF TimeToNextEvent, TypeOK
  <2> QED BY <1>10, <2>1, TimeConstants
          DEF GetTimeToNextEvent, TypeOK, poolVars, intVars, isrVars
<1>11. CASE ScheduleESTimer
  <2>1. Plus(now, wait) \in Time
    BY TimeArithmetic DEF TypeOK
  <2> QED BY <1>11, <2>1, TimeConstants
          DEF ScheduleESTimer, TypeOK, poolVars, isrVars
<1> QED BY <1>1, <1>2, <1>3, <1>4, <1>5, <1>6, <1>7, <1>8, <1>9, <1>10, <1>11
        DEF TaskStep

(* The daemon, the hardware and the clock.                                 *)
LEMMA TypeOther ==
  ASSUME TypeInv, DeferredEvent \/ HardwareStep \/ Tick PROVE TypeInv'
<1> USE DEF TypeInv, Held
<1>1. CASE DeferredEvent
  <2>1. pend' \in Nat
    BY <1>1 DEF DeferredEvent, TypeOK
  <2>2. CASE isrQ = <<>>
    BY <1>1, <2>1, <2>2
       DEF DeferredEvent, TypeOK, poolVars, loopVars, intVars
  <2>3. CASE isrQ # <<>>
    <3> DEFINE q == Head(isrQ)
    <3>1. q \in QueueItems /\ isrQ' \in Seq(QueueItems)
      <4>1. isrQ \in Seq(QueueItems) /\ isrQ' = Tail(isrQ)
        BY <1>1, <2>3 DEF DeferredEvent, TypeOK
      <4> QED BY <2>3, <4>1, HeadTailProperties
    <3>2. /\ q.rel \in RelTimes /\ q.cb \in Callbacks /\ q.arg \in Args
          /\ q.age \in Nat
      BY <3>1 DEF QueueItems
    <3>5. AbsTime(q.rel) \in Time /\ Delay(q.rel) - q.age \in Int
      <4>1. AbsTime(q.rel) \in Time
        BY <3>2, AbsTimeType
      <4>2. Delay(q.rel) \in Nat
        BY <3>2, TimeConstants
      <4> QED BY <3>2, <4>1, <4>2
    <3>3. ScheduleEvent(AbsTime(q.rel), InRange(q.rel), q.cb, q.arg, 0,
                        Delay(q.rel) - q.age)
      BY <1>1, <2>3 DEF DeferredEvent
    <3> HIDE DEF q
    <3>4. /\ list' \in Seq(Elem) /\ free' \in Seq(Elem) /\ ev' \in [Elem -> Elements]
          /\ notified' \in BOOLEAN /\ fault' \in {"none", "pool", "range"}
      BY <3>2, <3>3, <3>5, ScheduleEventType
    <3> QED BY <1>1, <2>1, <3>1, <3>4 DEF DeferredEvent, TypeOK, loopVars, intVars
  <2> QED BY <2>2, <2>3
<1>2. CASE EsFires
  BY <1>2 DEF EsFires, Raise, Sources, TypeOK, poolVars, loopVars, isrVars
<1>3. CASE RadioRaises
  BY <1>3 DEF RadioRaises, Raise, Sources, TypeOK, poolVars, loopVars, isrVars
<1>4. CASE Tick
  <2>1. now' \in Time /\ lag' \in Nat
    BY <1>4, TimeArithmetic, TimeConstants DEF Tick, TypeOK
  <2>2. ev' \in [Elem -> Elements]
    <3>1. ASSUME NEW e \in Elem
          PROVE  ev[e] \in Elements /\ [ev[e] EXCEPT !.left = @ - 1] \in Elements
      <4>1. ev[e] \in Elements
        BY DEF TypeOK
      <4> QED BY <4>1 DEF Elements
    <3> QED BY <1>4, <3>1 DEF Tick
  <2>3. isrQ' \in Seq(QueueItems)
    <3>1. /\ Len(isrQ) \in Nat
          /\ isrQ' \in [1 .. Len(isrQ) -> QueueItems]
      <4>1. isrQ \in Seq(QueueItems) /\ Len(isrQ) \in Nat
        BY LenProperties DEF TypeOK
      <4>2. ASSUME NEW i \in 1 .. Len(isrQ)
            PROVE  [isrQ[i] EXCEPT !.age = @ + 1] \in QueueItems
        <5>1. isrQ[i] \in QueueItems
          BY <4>1, ElementOfSeq
        <5> QED BY <5>1 DEF QueueItems
      <4> QED BY <1>4, <4>1, <4>2 DEF Tick
    <3> QED BY <3>1, SeqDef
  <2> QED BY <1>4, <2>1, <2>2, <2>3 DEF Tick, TypeOK, loopVars
<1> QED BY <1>1, <1>2, <1>3, <1>4 DEF HardwareStep

LEMMA TypeNext ==
  ASSUME TypeInv, [Next]_vars PROVE TypeInv'
<1>1. CASE UNCHANGED vars
  BY <1>1 DEF vars, TypeInv, TypeOK, Held
<1> QED BY <1>1, TypeCaller, TypeTask, TypeOther DEF Next

(* Every variable always holds a value of its type: the absolute times are *)
(* UInt32 values however the sums wrap, the list and the pool hold array   *)
(* elements and a search never runs off the list.                          *)
THEOREM TypeCorrect == Spec => []TypeOK
<1>1. Init => TypeInv
  BY TypeInit
<1>2. TypeInv /\ [Next]_vars => TypeInv'
  BY TypeNext
<1>3. TypeInv => TypeOK
  BY DEF TypeInv
<1> QED BY <1>1, <1>2, <1>3, PTL DEF Spec
-----------------------------------------------------------------------------
(* Wake-ups and interrupts.  WakeUpPending is not inductive: it speaks of  *)
(* the blocked task only, and what saves it is what the task knew before   *)
(* it blocked.                                                             *)

(* A raised source is masked; outside the stretch between handling and     *)
(* unmasking the converse holds too.                                       *)
RaisedIsMasked ==
  /\ raised \subseteq masked
  /\ pc # "unmask" => masked = raised

(* The timer that the task has set is still armed, or it has fired and     *)
(* left a notification; a source that could hide its interrupt has left    *)
(* one as well.                                                            *)
TimerStands ==
  timerSet => notified \/ (es # NoTime /\ masked = {} /\ raised = {})

(* The task leaves the loop with an empty list, a timer set, or an event   *)
(* listed in the meantime and a notification.                              *)
LeavesSafely == pc = "checkRadio" /\ list # <<>> => timerSet \/ notified

WaitsSafely == pc = "wait" /\ list # <<>> => notified \/ es # NoTime

Wake == /\ RaisedIsMasked /\ InterruptsServed /\ TimerStands
        /\ LeavesSafely /\ WaitsSafely

WakeInv == TypeInv /\ Wake

LEMMA WakeInit ==
  ASSUME Init PROVE Wake
BY DEF Init, Wake, RaisedIsMasked, InterruptsServed, TimerStands, LeavesSafely,
       WaitsSafely

(* A step that only edits the list, and notifies when it adds to an empty  *)
(* one.                                                                    *)
LEMMA WakeListStep ==
  ASSUME Wake, notified \in BOOLEAN, notified' \in BOOLEAN,
         list = <<>> => list' = <<>> \/ notified',
         notified => notified',
         UNCHANGED <<loopVars, raised, masked, es>>
  PROVE  Wake'
BY DEF Wake, RaisedIsMasked, InterruptsServed, TimerStands, LeavesSafely,
       WaitsSafely, loopVars

LEMMA WakeCaller ==
  ASSUME WakeInv, CallerStep \/ DeferredEvent PROVE Wake'
<1>0. Wake /\ TypeInv /\ TypeOK /\ notified \in BOOLEAN
  BY DEF WakeInv, TypeInv, TypeOK
<1>1. ASSUME NEW cb \in Callbacks, NEW arg \in Args, NEW rel \in RelTimes,
             ScheduleEventArg(rel, cb, arg)
      PROVE  Wake'
  <2>1. AbsTime(rel) \in Time /\ Delay(rel) \in Int
    BY <1>0, AbsTimeType, TimeConstants
  <2>2. notified' \in BOOLEAN /\ (notified => notified') /\ (list' # list => notified')
    BY <1>0, <1>1, <2>1, ScheduleEventType, TimeConstants DEF ScheduleEventArg
  <2> QED BY <1>0, <1>1, <2>2, WakeListStep DEF ScheduleEventArg, intVars
<1>2. ASSUME NEW cb \in Callbacks, NEW arg \in Args, NEW s \in Seconds,
             ScheduleEventInSeconds(s, cb, arg)
      PROVE  Wake'
  <2>1. s \in Nat /\ AbsTime(FirstPart(s)) \in Time /\ RestPart(s) \in Nat
    BY <1>0, AbsTimeType, Parts, SchedAssumption
  <2>2. ScheduleEvent(AbsTime(FirstPart(s)), InRange(FirstPart(s)), cb, arg,
                      RestPart(s), s)
    BY <1>2 DEF ScheduleEventInSeconds
  <2>3. s \in Int /\ cb \in Callbacks \cup {NoElem} /\ arg \in Args \cup {NoElem}
    BY <2>1
  <2>4. notified' \in BOOLEAN /\ (notified => notified') /\ (list' # list => notified')
    BY <1>0, <2>1, <2>2, <2>3, ScheduleEventType
  <2> QED BY <1>0, <1>2, <2>4, WakeListStep DEF ScheduleEventInSeconds, intVars
<1>3. ASSUME NEW cb \in Callbacks, NEW arg \in Args, NEW rel \in RelTimes,
             ScheduleEventDeferred(rel, cb, arg)
      PROVE  Wake'
  BY <1>0, <1>3, WakeListStep DEF ScheduleEventDeferred, poolVars, intVars
<1>4. ASSUME NEW cb \in Callbacks, NEW arg \in Args, UnscheduleEventArg(cb, arg)
      PROVE  Wake'
  <2>1. FindEventArg(cb, arg) \in 1 .. Len(list)
    BY <1>0, <1>4, FindEventArgRange DEF UnscheduleEventArg, TypeOK
  <2>2. list # <<>>
    BY <2>1
  <2> QED BY <1>0, <1>4, <2>2, WakeListStep DEF UnscheduleEventArg, intVars
<1>5. ASSUME NEW cb \in Callbacks, NEW arg \in Args, GetRemainingTimeFind(cb, arg)
      PROVE  Wake'
  BY <1>0, <1>5, WakeListStep DEF GetRemainingTimeFind, poolVars, intVars
<1>6. CASE GetRemainingTimeRead
  BY <1>0, <1>6, WakeListStep DEF GetRemainingTimeRead, poolVars, intVars
<1>7. CASE Clear
  BY <1>0, <1>7, WakeListStep DEF Clear, intVars
<1>8. CASE DeferredEvent
  <2>1. CASE isrQ = <<>>
    BY <1>0, <1>8, <2>1, WakeListStep DEF DeferredEvent, poolVars, intVars
  <2>2. CASE isrQ # <<>>
    <3> DEFINE q == Head(isrQ)
    <3>1. q \in QueueItems
      BY <1>0, <2>2, HeadTailProperties DEF TypeOK
    <3>2. /\ q.rel \in RelTimes /\ q.cb \in Callbacks /\ q.arg \in Args
          /\ q.age \in Nat
      BY <3>1 DEF QueueItems
    <3>3. AbsTime(q.rel) \in Time
      BY <1>0, <3>2, AbsTimeType
    <3>4. Delay(q.rel) \in Nat
      BY <3>2, TimeConstants
    <3>5. Delay(q.rel) - q.age \in Int
      BY <3>2, <3>4
    <3>6. ScheduleEvent(AbsTime(q.rel), InRange(q.rel), q.cb, q.arg, 0,
                        Delay(q.rel) - q.age)
      BY <1>8, <2>2 DEF DeferredEvent
    <3> HIDE DEF q
    <3>7. /\ notified' \in BOOLEAN /\ (notified => notified')
          /\ (list' # list => notified')
      BY <1>0, <3>2, <3>3, <3>5, <3>6, ScheduleEventType
    <3> QED BY <1>0, <1>8, <3>7, WakeListStep DEF DeferredEvent, intVars
  <2> QED BY <2>1, <2>2
<1> QED BY <1>1, <1>2, <1>3, <1>4, <1>5, <1>6, <1>7, <1>8 DEF CallerStep

LEMMA WakeTask ==
  ASSUME WakeInv, TaskStep PROVE Wake'
<1>0. Wake /\ TypeInv /\ TypeOK /\ notified \in BOOLEAN /\ pc \in Places
  BY DEF WakeInv, TypeInv, TypeOK
<1> USE <1>0 DEF Wake, RaisedIsMasked, InterruptsServed, TimerStands,
                 LeavesSafely, WaitsSafely
<1>1. CASE TaskNotifyWait
  BY <1>1 DEF TaskNotifyWait, intVars
<1>2. CASE HandleRadioInterrupt
  BY <1>2 DEF HandleRadioInterrupt, poolVars
<1>3. CASE UnmaskRadioInterrupt
  BY <1>3 DEF UnmaskRadioInterrupt, poolVars
<1>4. CASE GetEvent
  BY <1>4 DEF GetEvent, AfterBody, intVars
<1>5. CASE ReScheduleInSeconds
  <2> DEFINE d == ev[cur]
             t == Plus(d.time, FirstPart(d.rem))
  <2>1. /\ d.time \in Time /\ d.rem \in Nat /\ d.left \in Int
        /\ d.cb \in Callbacks \cup {NoElem} /\ d.arg \in Args \cup {NoElem}
    BY <1>5 DEF ReScheduleInSeconds, TypeInv, Held, TypeOK, Elements
  <2>2. t \in Time /\ RestPart(d.rem) \in Nat
    BY <2>1, TimeArithmetic, Parts
  <2>3. ScheduleEvent(t, TRUE, d.cb, d.arg, RestPart(d.rem), d.left)
    BY <1>5 DEF ReScheduleInSeconds
  <2> HIDE DEF d, t
  <2>4. notified' \in BOOLEAN /\ (notified => notified')
    BY <2>1, <2>2, <2>3, ScheduleEventType
  <2> QED BY <1>5, <2>4 DEF ReScheduleInSeconds, intVars
<1>6. CASE ExecEvent
  BY <1>6 DEF ExecEvent, poolVars, intVars
<1>7. CASE ReleaseEvent
  BY <1>7 DEF ReleaseEvent, AfterBody, intVars
<1>8. CASE CheckQueue
  BY <1>8 DEF CheckQueue, poolVars, intVars
<1>9. CASE CheckRadio
  BY <1>9 DEF CheckRadio, poolVars
<1>10. CASE GetTimeToNextEvent
  BY <1>10 DEF GetTimeToNextEvent, poolVars, intVars
<1>11. CASE ScheduleESTimer
  <2>1. Plus(now, wait) # NoTime
    BY TimeArithmetic, TimeConstants DEF TypeOK
  <2> QED BY <1>11, <2>1 DEF ScheduleESTimer, poolVars
<1> QED BY <1>1, <1>2, <1>3, <1>4, <1>5, <1>6, <1>7, <1>8, <1>9, <1>10, <1>11
        DEF TaskStep

LEMMA WakeHardware ==
  ASSUME WakeInv, HardwareStep \/ Tick PROVE Wake'
<1>0. Wake /\ notified \in BOOLEAN
  BY DEF WakeInv, TypeInv, TypeOK
<1> USE <1>0 DEF Wake, RaisedIsMasked, InterruptsServed, TimerStands,
                 LeavesSafely, WaitsSafely
<1>1. CASE EsFires
  BY <1>1 DEF EsFires, Raise, poolVars, loopVars
<1>2. CASE RadioRaises
  BY <1>2 DEF RadioRaises, Raise, poolVars, loopVars
<1>3. CASE Tick
  BY <1>3 DEF Tick, loopVars
<1> QED BY <1>1, <1>2, <1>3 DEF HardwareStep

LEMMA WakeNext ==
  ASSUME WakeInv, [Next]_vars PROVE WakeInv'
<1>1. TypeInv'
  BY TypeNext DEF WakeInv
<1>2. CASE UNCHANGED vars
  BY <1>1, <1>2 DEF vars, WakeInv, Wake, RaisedIsMasked, InterruptsServed, TimerStands,
              LeavesSafely, WaitsSafely
<1> QED BY <1>1, <1>2, WakeCaller, WakeTask, WakeHardware DEF Next, WakeInv

LEMMA WakeInvariant == Spec => []WakeInv
<1>1. Init => WakeInv
  BY TypeInit, WakeInit DEF WakeInv
<1>2. WakeInv /\ [Next]_vars => WakeInv'
  BY WakeNext
<1> QED BY <1>1, <1>2, PTL DEF Spec

(* No wake-up is lost: whatever callers, interrupts and the daemon do      *)
(* between two steps of the task, it never blocks with an event listed and *)
(* no timer armed.                                                         *)
THEOREM NoLostWakeUp == Spec => []WakeUpPending
<1>1. WakeInv => WakeUpPending
  BY DEF WakeInv, Wake, WaitsSafely, WakeUpPending, Blocked
<1> QED BY <1>1, WakeInvariant, PTL

(* No interrupt is lost: a raised or masked source is always on its way to *)
(* the code that handles and unmasks it.                                   *)
THEOREM NoLostInterrupt == Spec => []InterruptsServed
<1>1. WakeInv => InterruptsServed
  BY DEF WakeInv, Wake
<1> QED BY <1>1, WakeInvariant, PTL
-----------------------------------------------------------------------------
(* The element pool.  PoolConserved and the types are inductive together.  *)

(* A list l and a pool f share out the elements of E.                      *)
Shares(l, f, E) == /\ IsInjective(l) /\ IsInjective(f)
                   /\ Range(l) \cap Range(f) = {}
                   /\ Range(l) \cup Range(f) = E

PoolInv == TypeInv /\ PoolConserved

LEMMA PoolAsShares ==
  ASSUME NEW l \in Seq(Elem), NEW f \in Seq(Elem), NEW c \in Elem \cup {NoElem}
  PROVE  Shares(l, f, Elem \ {c}) <=>
           /\ IsInjective(l) /\ IsInjective(f)
           /\ Range(l) \cap Range(f) = {}
           /\ c \notin Range(l) \cup Range(f)
           /\ Range(l) \cup Range(f) \cup ({c} \ {NoElem}) = Elem
<1>1. Range(l) \subseteq Elem /\ Range(f) \subseteq Elem /\ NoElem \notin Elem
  BY RangeElements, SchedAssumption
<1> QED BY <1>1 DEF Shares

(* A step that leaves the task where it is and shares out the rest.        *)
LEMMA PoolStep ==
  ASSUME PoolInv, TypeInv', UNCHANGED <<cur, pc>>,
         Shares(list, free, Elem \ {cur}) => Shares(list', free', Elem \ {cur})
  PROVE  PoolConserved'
<1>1. /\ list \in Seq(Elem) /\ free \in Seq(Elem) /\ cur \in Elem \cup {NoElem}
      /\ list' \in Seq(Elem) /\ free' \in Seq(Elem)
  BY DEF PoolInv, TypeInv, TypeOK
<1>2. Shares(list, free, Elem \ {cur})
  BY <1>1, PoolAsShares DEF PoolInv, PoolConserved
<1>3. /\ IsInjective(list') /\ IsInjective(free')
      /\ Range(list') \cap Range(free') = {}
      /\ cur \notin Range(list') \cup Range(free')
      /\ Range(list') \cup Range(free') \cup ({cur} \ {NoElem}) = Elem
  BY <1>1, <1>2, PoolAsShares
<1> QED BY <1>3 DEF PoolInv, PoolConserved

(* Scheduling moves one element from the pool to the list, or none.        *)
LEMMA ScheduleEventPool ==
  ASSUME TypeOK, NEW E, Shares(list, free, E), NEW t \in Time, NEW r, NEW cb,
         NEW arg, NEW rem, NEW left, ScheduleEvent(t, r, cb, arg, rem, left)
  PROVE  Shares(list', free', E)
<1>1. CASE free = <<>> \/ ~ r
  BY <1>1 DEF ScheduleEvent
<1>2. CASE ~ (free = <<>> \/ ~ r)
  <2> DEFINE e == Head(free)
  <2>1. /\ list \in Seq(Elem) /\ free \in Seq(Elem) /\ free # <<>> /\ e \in Elem
        /\ IsInjective(list) /\ IsInjective(free)
        /\ free' = Tail(free) /\ list' = InsertAt(list, InsertPos(t), e)
    BY <1>2, HeadTailProperties DEF TypeOK, Shares, ScheduleEvent
  <2> HIDE DEF e
  <2>2. e \in Range(free) /\ Range(free') = Range(free) \ {e} /\ IsInjective(free')
    BY <2>1, TailRange DEF e
  <2>3. InsertPos(t) \in 1 .. Len(list) + 1
    BY <2>1, InsertPosRange
  <2>4. e \notin Range(list)
    BY <2>2 DEF Shares
  <2>5. Range(list') = Range(list) \cup {e} /\ IsInjective(list')
    BY <2>1, <2>3, <2>4, InsertAtRange
  <2> QED BY <2>2, <2>4, <2>5 DEF Shares
<1> QED BY <1>1, <1>2

LEMMA PoolInit ==
  ASSUME Init PROVE PoolConserved
<1>1. Range(free) = Elem
  BY SchedAssumption, InjectiveEnumeration DEF Init
<1>2. Range(<<>>) = {} /\ IsInjective(<<>>)
  BY DEF Range, IsInjective
<1> QED BY <1>1, <1>2, SchedAssumption DEF Init, PoolConserved

(* The callers and the daemon leave the task and its element alone.        *)
LEMMA PoolCaller ==
  ASSUME PoolInv, CallerStep \/ DeferredEvent PROVE PoolConserved'
<1>0. /\ TypeInv /\ TypeOK /\ TypeInv'
      /\ list \in Seq(Elem) /\ free \in Seq(Elem)
  BY TypeCaller, TypeOther DEF PoolInv, TypeInv, TypeOK
<1> DEFINE E == Elem \ {cur}
<1> SUFFICES ASSUME Shares(list, free, E)
             PROVE  UNCHANGED <<cur, pc>> /\ Shares(list', free', E)
  <2>1. cur \in Elem \cup {NoElem}
    BY <1>0 DEF TypeOK
  <2>2. Shares(list, free, E)
    BY <1>0, <2>1, PoolAsShares DEF PoolInv, PoolConserved
  <2> QED BY <1>0, <2>2, PoolStep
<1> HIDE DEF E
<1>1. ASSUME NEW cb \in Callbacks, NEW arg \in Args, NEW rel \in RelTimes,
             ScheduleEventArg(rel, cb, arg)
      PROVE  UNCHANGED <<cur, pc>> /\ Shares(list', free', E)
  <2>1. AbsTime(rel) \in Time
    BY <1>0, AbsTimeType
  <2>2. Shares(list', free', E)
    BY <1>0, <1>1, <2>1, ScheduleEventPool DEF ScheduleEventArg
  <2> QED BY <1>1, <2>2 DEF ScheduleEventArg, loopVars
<1>2. ASSUME NEW cb \in Callbacks, NEW arg \in Args, NEW s \in Seconds,
             ScheduleEventInSeconds(s, cb, arg)
      PROVE  UNCHANGED <<cur, pc>> /\ Shares(list', free', E)
  <2>1. AbsTime(FirstPart(s)) \in Time
    BY <1>0, AbsTimeType, SchedAssumption
  <2>2. ScheduleEvent(AbsTime(FirstPart(s)), InRange(FirstPart(s)), cb, arg,
                      RestPart(s), s)
    BY <1>2 DEF ScheduleEventInSeconds
  <2>3. Shares(list', free', E)
    BY <1>0, <2>1, <2>2, ScheduleEventPool
  <2> QED BY <1>2, <2>3 DEF ScheduleEventInSeconds, loopVars
<1>3. ASSUME NEW cb \in Callbacks, NEW arg \in Args, NEW rel \in RelTimes,
             ScheduleEventDeferred(rel, cb, arg)
      PROVE  UNCHANGED <<cur, pc>> /\ Shares(list', free', E)
  BY <1>3 DEF ScheduleEventDeferred, poolVars, loopVars
<1>4. ASSUME NEW cb \in Callbacks, NEW arg \in Args, UnscheduleEventArg(cb, arg)
      PROVE  UNCHANGED <<cur, pc>> /\ Shares(list', free', E)
  <2> DEFINE i == FindEventArg(cb, arg)
             e == list[i]
  <2>1. i \in 1 .. Len(list) /\ e \in Elem /\ e \in Range(list)
    BY <1>0, <1>4, FindEventArgRange, RangeElements DEF UnscheduleEventArg
  <2>2. list' = RemoveAt(list, i) /\ free' = Append(free, e)
    BY <1>4 DEF UnscheduleEventArg
  <2>3. Range(list') = Range(list) \ {e} /\ IsInjective(list')
    BY <1>0, <2>1, <2>2, RemoveAtRange DEF Shares
  <2> HIDE DEF e
  <2>4. Range(free') = Range(free) \cup {e} /\ IsInjective(free')
    BY <1>0, <2>1, <2>2, AppendRange DEF Shares
  <2>5. Shares(list', free', E)
    BY <2>1, <2>3, <2>4 DEF Shares
  <2> QED BY <1>4, <2>5 DEF UnscheduleEventArg, loopVars
<1>5. ASSUME NEW cb \in Callbacks, NEW arg \in Args, GetRemainingTimeFind(cb, arg)
      PROVE  UNCHANGED <<cur, pc>> /\ Shares(list', free', E)
  BY <1>5 DEF GetRemainingTimeFind, poolVars, loopVars
<1>6. CASE GetRemainingTimeRead
  BY <1>6 DEF GetRemainingTimeRead, poolVars, loopVars
<1>7. CASE Clear
  <2>1. /\ Reverse(list) \in Seq(Elem) /\ Range(Reverse(list)) = Range(list)
        /\ IsInjective(Reverse(list))
    BY <1>0, ReverseRange DEF Shares
  <2>2. Range(free') = Range(free) \cup Range(list) /\ IsInjective(free')
    BY <1>0, <1>7, <2>1, ConcatRange DEF Clear, Shares
  <2>3. list' = <<>> /\ Range(<<>>) = {} /\ IsInjective(<<>>)
    BY <1>7 DEF Clear, Range, IsInjective
  <2>4. Shares(list', free', E)
    BY <2>2, <2>3 DEF Shares
  <2> QED BY <1>7, <2>4 DEF Clear, loopVars
<1>8. CASE DeferredEvent
  <2>1. CASE isrQ = <<>>
    BY <1>8, <2>1 DEF DeferredEvent, poolVars, loopVars
  <2>2. CASE isrQ # <<>>
    <3> DEFINE q == Head(isrQ)
    <3>1. q \in QueueItems
      BY <1>0, <2>2, HeadTailProperties DEF TypeOK
    <3>2. AbsTime(q.rel) \in Time
      BY <1>0, <3>1, AbsTimeType DEF QueueItems
    <3>3. ScheduleEvent(AbsTime(q.rel), InRange(q.rel), q.cb, q.arg, 0,
                        Delay(q.rel) - q.age)
      BY <1>8, <2>2 DEF DeferredEvent
    <3> HIDE DEF q
    <3>4. Shares(list', free', E)
      BY <1>0, <3>2, <3>3, ScheduleEventPool
    <3> QED BY <1>8, <3>4 DEF DeferredEvent, loopVars
  <2> QED BY <2>1, <2>2
<1> QED BY <1>1, <1>2, <1>3, <1>4, <1>5, <1>6, <1>7, <1>8 DEF CallerStep

(* The steps of the task: GetEvent takes an element out of the list,       *)
(* ReleaseEvent gives it to the pool.                                      *)
LEMMA PoolTask ==
  ASSUME PoolInv, TaskStep PROVE PoolConserved'
<1>0. /\ TypeInv /\ TypeInv' /\ list \in Seq(Elem) /\ free \in Seq(Elem)
      /\ cur \in Elem \cup {NoElem} /\ NoElem \notin Elem /\ PoolConserved
  BY TypeTask, SchedAssumption DEF PoolInv, TypeInv, TypeOK
<1>1. CASE GetEvent
  <2>1. CASE IsDue
    <3>1. list # <<>>
      BY <2>1 DEF IsDue
    <3>2. IsInjective(list) /\ cur' = Head(list) /\ list' = Tail(list)
      BY <1>0, <1>1, <2>1 DEF GetEvent, PoolConserved
    <3>3. /\ Head(list) \in Elem /\ Head(list) \in Range(list)
          /\ Range(list') = Range(list) \ {Head(list)} /\ IsInjective(list')
      BY <1>0, <3>1, <3>2, TailRange, HeadTailProperties
    <3>4. cur = NoElem
      BY <1>0, <1>1 DEF GetEvent, PoolConserved
    <3> QED BY <1>0, <1>1, <2>1, <3>2, <3>3, <3>4 DEF GetEvent, PoolConserved
  <2>2. CASE ~ IsDue
    BY <1>0, <1>1, <2>2 DEF GetEvent, AfterBody, PoolConserved
  <2> QED BY <2>1, <2>2
<1>2. CASE ReScheduleInSeconds
  <2> DEFINE d == ev[cur]
             t == Plus(d.time, FirstPart(d.rem))
  <2>1. /\ d.time \in Time /\ d.rem \in Nat
    BY <1>0, <1>2 DEF ReScheduleInSeconds, TypeInv, Held, TypeOK, Elements
  <2>2. t \in Time
    BY <2>1, TimeArithmetic, Parts
  <2>3. ScheduleEvent(t, TRUE, d.cb, d.arg, RestPart(d.rem), d.left)
    BY <1>2 DEF ReScheduleInSeconds
  <2> HIDE DEF d, t
  <2>4. Shares(list, free, Elem \ {cur})
    BY <1>0, PoolAsShares DEF PoolConserved
  <2>5. Shares(list', free', Elem \ {cur})
    BY <1>0, <2>2, <2>3, <2>4, ScheduleEventPool DEF TypeInv
  <2>6. list' \in Seq(Elem) /\ free' \in Seq(Elem)
    BY <1>0 DEF TypeInv, TypeOK
  <2>7. /\ IsInjective(list') /\ IsInjective(free')
        /\ Range(list') \cap Range(free') = {}
        /\ cur \notin Range(list') \cup Range(free')
        /\ Range(list') \cup Range(free') \cup ({cur} \ {NoElem}) = Elem
    BY <1>0, <2>5, <2>6, PoolAsShares
  <2>8. cur' = cur /\ pc = "exec" /\ pc' = "release"
    BY <1>2 DEF ReScheduleInSeconds
  <2> QED BY <1>0, <2>7, <2>8 DEF PoolConserved
<1>3. CASE ReleaseEvent
  <2>1. cur \in Elem /\ cur # NoElem /\ free' = Append(free, cur)
    BY <1>0, <1>3 DEF ReleaseEvent, TypeInv, Held
  <2>2. /\ Range(free') = Range(free) \cup {cur}
        /\ IsInjective(free')
    BY <1>0, <2>1, AppendRange DEF PoolConserved
  <2> QED BY <1>0, <1>3, <2>1, <2>2 DEF ReleaseEvent, AfterBody, PoolConserved
<1>4. CASE ExecEvent
  BY <1>0, <1>4 DEF ExecEvent, poolVars, PoolConserved
<1>5. CASE TaskNotifyWait \/ HandleRadioInterrupt \/ UnmaskRadioInterrupt
  BY <1>0, <1>5 DEF TaskNotifyWait, HandleRadioInterrupt, UnmaskRadioInterrupt,
                    poolVars, PoolConserved
<1>6. CASE CheckQueue \/ CheckRadio
  BY <1>0, <1>6 DEF CheckQueue, CheckRadio, poolVars, PoolConserved
<1>7. CASE GetTimeToNextEvent \/ ScheduleESTimer
  BY <1>0, <1>7 DEF GetTimeToNextEvent, ScheduleESTimer, poolVars, PoolConserved
<1> QED BY <1>1, <1>2, <1>3, <1>4, <1>5, <1>6, <1>7 DEF TaskStep

LEMMA PoolNext ==
  ASSUME PoolInv, [Next]_vars PROVE PoolInv'
<1>1. TypeInv'
  BY TypeNext DEF PoolInv
<1>2. CASE UNCHANGED vars
  BY <1>1, <1>2 DEF vars, PoolInv, PoolConserved
<1>3. CASE HardwareStep \/ Tick
  BY <1>1, <1>3
     DEF HardwareStep, EsFires, RadioRaises, Raise, Tick, poolVars, loopVars,
         PoolInv, PoolConserved
<1> QED BY <1>1, <1>2, <1>3, PoolCaller, PoolTask DEF Next, PoolInv

(* No element of gpSched_EventArray is lost, freed twice or handed out     *)
(* while it is linked, whatever the pool's size: every critical section    *)
(* takes it from one owner and gives it to the next.                       *)
THEOREM PoolIsConserved == Spec => []PoolConserved
<1>1. Init => PoolInv
  BY TypeInit, PoolInit DEF PoolInv
<1>2. PoolInv /\ [Next]_vars => PoolInv'
  BY PoolNext
<1>3. PoolInv => PoolConserved
  BY DEF PoolInv
<1> QED BY <1>1, <1>2, <1>3, PTL DEF Spec
-----------------------------------------------------------------------------
(* The deferral from interrupt context.  Neither FreeRTOS call's result is *)
(* looked at; this is what makes that harmless.                            *)

(* As long as the daemon's command queue has room for as many calls as the *)
(* interrupt queue has places, every queued event has a call on its way.   *)
THEOREM DeferralsAreServed ==
  ASSUME QueueLength <= PendLength
  PROVE  Spec => []DeferralsServed
<1> DEFINE DInv == TypeInv /\ DeferralsServed
<1>1. Init => DInv
  <2> SUFFICES ASSUME Init PROVE DInv
    OBVIOUS
  <2>1. Len(isrQ) = 0 /\ pend = 0
    BY EmptySeq DEF Init
  <2> QED BY <2>1, TypeInit DEF DeferralsServed
<1>2. DInv /\ [Next]_vars => DInv'
  <2> SUFFICES ASSUME DInv, [Next]_vars PROVE DInv'
    OBVIOUS
  <2>0. /\ TypeInv' /\ isrQ \in Seq(QueueItems) /\ pend \in Nat
        /\ Len(isrQ) \in Nat /\ Len(isrQ) <= pend
        /\ QueueLength \in Nat /\ PendLength \in Nat
    BY TypeNext, LenProperties, SchedAssumption DEF TypeInv, TypeOK, DeferralsServed
  <2> SUFFICES Len(isrQ') <= pend'
    BY <2>0 DEF DeferralsServed
  <2>1. CASE UNCHANGED <<isrQ, pend>>
    BY <2>0, <2>1
  <2>2. ASSUME NEW cb \in Callbacks, NEW arg \in Args, NEW rel \in RelTimes,
               ScheduleEventDeferred(rel, cb, arg)
        PROVE  Len(isrQ') <= pend'
    <3> DEFINE item == [rel |-> rel, cb |-> cb, arg |-> arg, age |-> 0]
    <3>1. item \in QueueItems
      BY DEF QueueItems
    <3>2. Len(Append(isrQ, item)) = Len(isrQ) + 1
      BY <2>0, <3>1, AppendProperties
    <3> HIDE DEF item
    <3>3. /\ isrQ' = IF Len(isrQ) < QueueLength THEN Append(isrQ, item) ELSE isrQ
          /\ pend' = IF pend < PendLength THEN pend + 1 ELSE pend
      BY <2>2 DEF ScheduleEventDeferred, item
    <3> QED BY <2>0, <3>2, <3>3
  <2>3. CASE DeferredEvent
    <3>1. pend' = pend - 1 /\ pend > 0
      BY <2>3 DEF DeferredEvent
    <3>2. CASE isrQ = <<>>
      <4>1. isrQ' = isrQ /\ Len(isrQ) = 0
        BY <2>3, <3>2, EmptySeq DEF DeferredEvent
      <4> QED BY <2>0, <3>1, <4>1
    <3>3. CASE isrQ # <<>>
      <4>1. isrQ' = Tail(isrQ)
        BY <2>3, <3>3 DEF DeferredEvent
      <4>2. Len(Tail(isrQ)) = Len(isrQ) - 1
        BY <2>0, <3>3, HeadTailProperties
      <4> QED BY <2>0, <3>1, <4>1, <4>2
    <3> QED BY <3>2, <3>3
  <2>4. CASE Tick
    <3>1. pend' = pend /\ isrQ' = [i \in 1 .. Len(isrQ) |-> [isrQ[i] EXCEPT !.age = @ + 1]]
      BY <2>4 DEF Tick
    <3>2. isrQ' \in Seq(QueueItems) /\ DOMAIN isrQ' = 1 .. Len(isrQ)
      BY <2>0, <3>1 DEF TypeInv, TypeOK
    <3>3. Len(isrQ') = Len(isrQ)
      BY <2>0, <3>2, LenProperties
    <3> QED BY <2>0, <3>1, <3>3
  <2>5. CASE CallerStep
    <3>1. ASSUME NEW cb \in Callbacks, NEW arg \in Args,
                 \/ \E rel \in RelTimes : ScheduleEventArg(rel, cb, arg)
                 \/ \E s \in Seconds : ScheduleEventInSeconds(s, cb, arg)
                 \/ UnscheduleEventArg(cb, arg)
                 \/ GetRemainingTimeFind(cb, arg)
          PROVE  UNCHANGED <<isrQ, pend>>
      BY <3>1 DEF ScheduleEventArg, ScheduleEventInSeconds, UnscheduleEventArg,
                  GetRemainingTimeFind, isrVars
    <3>2. ASSUME GetRemainingTimeRead \/ Clear PROVE UNCHANGED <<isrQ, pend>>
      BY <3>2 DEF GetRemainingTimeRead, Clear, isrVars
    <3> QED BY <2>1, <2>2, <2>5, <3>1, <3>2 DEF CallerStep
  <2>6. CASE TaskStep \/ HardwareStep
    <3>1. UNCHANGED <<isrQ, pend>>
      BY <2>6
         DEF TaskStep, TaskNotifyWait, HandleRadioInterrupt, UnmaskRadioInterrupt,
             GetEvent, ReScheduleInSeconds, ExecEvent, ReleaseEvent, CheckQueue,
             CheckRadio, GetTimeToNextEvent, ScheduleESTimer, HardwareStep, EsFires,
             RadioRaises, Raise, isrVars
    <3> QED BY <2>1, <3>1
  <2>7. CASE UNCHANGED vars
    BY <2>1, <2>7 DEF vars
  <2> QED BY <2>3, <2>4, <2>5, <2>6, <2>7 DEF Next
<1>3. DInv => DeferralsServed
  OBVIOUS
<1> QED BY <1>1, <1>2, <1>3, PTL DEF Spec
-----------------------------------------------------------------------------
(***************************************************************************)
(* What holds of the scheduler's times, for every size of the pool and of  *)
(* the clock, any number of wrap-arounds and any interleaving, as long as  *)
(* callers ask for delays that fit the range of the clock (DelaysFit).     *)
(*                                                                         *)
(* The argument: every listed event lies in a window around the present    *)
(* that is shorter than half the clock's range, so the modular comparison  *)
(* of two listed times is the plain comparison of their distances from     *)
(* now, which the passing of time does not change.                         *)
(***************************************************************************)

(* The distance between two times, and what a sum does to it.              *)
LEMMA AheadType ==
  ASSUME NEW a \in Time, NEW b \in Time
  PROVE  /\ Ahead(a, b) \in Int /\ - Half <= Ahead(a, b) /\ Ahead(a, b) < Half
         /\ TIME_COMPARE_BIGGER_EQUAL(a, b) <=> Ahead(a, b) >= 0
         /\ Ahead(a, b) >= 0 => Ahead(a, b) = Minus(a, b)
         /\ - Half < Ahead(a, b) => Ahead(b, a) = - Ahead(a, b)
BY HalfAssumption DEF Time, Modulus, Ahead, Minus, TIME_COMPARE_BIGGER_EQUAL

LEMMA AheadOfSum ==
  ASSUME NEW a \in Time, NEW b \in Time, NEW r \in Nat, r < Half,
         Ahead(a, b) + r < Half
  PROVE  Ahead(Plus(a, r), b) = Ahead(a, b) + r
BY HalfAssumption DEF Time, Modulus, Ahead, Minus, Plus

LEMMA AheadOfNow ==
  ASSUME NEW b \in Time, NEW r \in Nat, r < Half
  PROVE  Ahead(Plus(b, r), b) = r
BY HalfAssumption DEF Time, Modulus, Ahead, Minus, Plus

LEMMA AheadTick ==
  ASSUME NEW a \in Time, NEW b \in Time, - Half < Ahead(a, b)
  PROVE  Ahead(a, Plus(b, 1)) = Ahead(a, b) - 1
BY HalfAssumption DEF Time, Modulus, Ahead, Minus, Plus

(* Seen from a common point, the modular order is the order of distances.  *)
LEMMA AheadCompare ==
  ASSUME NEW a \in Time, NEW b \in Time, NEW n \in Time,
         - Half < Ahead(a, n) - Ahead(b, n), Ahead(a, n) - Ahead(b, n) < Half
  PROVE  /\ TIME_COMPARE_BIGGER(a, b) <=> Ahead(b, n) < Ahead(a, n)
         /\ Ahead(a, b) = Ahead(a, n) - Ahead(b, n)
BY HalfAssumption DEF Time, Modulus, Ahead, Minus, TIME_COMPARE_BIGGER
-----------------------------------------------------------------------------
(* How far an event lies ahead of the present; negative when overdue.      *)
Lead(e) == Ahead(ev[e].time, now)

Window(e) ==
  /\ 0 <= Lead(e) + MaxLag + lag
  /\ Lead(e) + 2 * MaxLag < EVENT_TIME_MAX

(* A further interval of a distant event fits as the first one did.        *)
RestFits(e) == ev[e].rem > 0 => Interval + 2 * MaxLag < EVENT_TIME_MAX

(* Every event that waits lies in the window, and what is left of its      *)
(* delay is covered by the time to its deadline and the intervals to come. *)
InWindow ==
  \A e \in Elem :
    IsWaiting(e) =>
      Window(e) /\ RestFits(e) /\ ev[e].left <= Lead(e) + ev[e].rem

InOrder ==
  \A i, j \in 1 .. Len(list) : i < j => Lead(list[i]) <= Lead(list[j])

(* What the task executes is due.                                          *)
ExecutesDue == InFlight => Lead(cur) <= 0

(* A blocked task starts its next busy period from nothing.                *)
LagCounts == lag <= MaxLag /\ (Blocked => lag = 0)

(* An armed ES timer never lies in the past.                               *)
EsAhead == es # NoTime => Ahead(es, now) >= 0

(* Between reading the clock and arming the timer the deadline comes       *)
(* nearer by no more than the time the task was held up.                   *)
ArmsInTime ==
  pc = "arm" =>
    /\ wait <= EVENT_TIME_MAX
    /\ ~ notified /\ list # <<>> => wait <= Lead(Head(list)) + lag

(* The timer that was set follows the first deadline by no more than that, *)
(* as long as no event was listed since.                                   *)
SetInTime ==
  timerSet /\ ~ notified /\ list # <<>> =>
    Ahead(es, now) <= Lead(Head(list)) + MaxLag

BlocksWithTimer == Blocked /\ list # <<>> => timerSet

Times == /\ InWindow /\ InOrder /\ ExecutesDue /\ LagCounts
         /\ EsAhead /\ ArmsInTime /\ SetInTime /\ BlocksWithTimer

TimeInv == PoolInv /\ Wake /\ Times
-----------------------------------------------------------------------------
(* What the invariant says of one waiting event, without modular sums.     *)
LEMMA LeadType ==
  ASSUME TypeOK, NEW e \in Elem
  PROVE  /\ ev[e].time \in Time /\ now \in Time
         /\ Lead(e) \in Int /\ - Half <= Lead(e) /\ Lead(e) < Half
         /\ ev[e].rem \in Nat /\ ev[e].left \in Int
<1>1. ev[e].time \in Time /\ now \in Time /\ ev[e].rem \in Nat /\ ev[e].left \in Int
  BY DEF TypeOK, Elements
<1> QED BY <1>1, AheadType DEF Lead

(* The constants of the invariant are integers; the window is shorter than *)
(* half the range.                                                         *)
LEMMA Horizon ==
  ASSUME DelaysFit
  PROVE  /\ MaxLag \in Nat /\ EVENT_TIME_MAX \in Nat /\ EVENT_TIME_MAX = Half - 1
         /\ Half \in Nat /\ 2 * MaxLag < EVENT_TIME_MAX /\ Interval \in Nat
         /\ Interval < Half
BY HalfAssumption, SchedAssumption DEF DelaysFit, EVENT_TIME_MAX

LEMMA WindowFacts ==
  ASSUME DelaysFit, TypeOK, LagCounts, NEW e \in Elem, Window(e)
  PROVE  /\ Lead(e) \in Int /\ lag \in Nat /\ lag <= MaxLag
         /\ - (2 * MaxLag) <= Lead(e) /\ Lead(e) < EVENT_TIME_MAX - 2 * MaxLag
         /\ - Half < Lead(e)
<1>1. Lead(e) \in Int /\ lag \in Nat /\ lag <= MaxLag
  BY LeadType DEF TypeOK, LagCounts
<1> QED BY <1>1, Horizon DEF Window

(* The elements of the list are elements, and wait.                        *)
LEMMA ListedWait ==
  ASSUME TypeOK, NEW i \in 1 .. Len(list)
  PROVE  list[i] \in Elem /\ list[i] \in Range(list) /\ IsWaiting(list[i])
BY ElementOfSeq, RangeElements DEF TypeOK, IsWaiting

LEMMA FirstListed ==
  ASSUME TypeOK, list # <<>>
  PROVE  /\ 1 \in 1 .. Len(list) /\ Head(list) = list[1]
         /\ Head(list) \in Elem /\ IsWaiting(Head(list))
<1>1. list \in Seq(Elem) /\ Len(list) \in Nat /\ Len(list) # 0
  BY EmptySeq, LenProperties DEF TypeOK
<1> QED BY <1>1, ListedWait, HeadTailProperties

(* The order of the absolute times is the order of the leads.              *)
LEMMA OrderOfTimes ==
  ASSUME DelaysFit, TypeOK, LagCounts, NEW e \in Elem, Window(e), NEW t \in Time,
         - (2 * MaxLag) <= Ahead(t, now), Ahead(t, now) < EVENT_TIME_MAX - 2 * MaxLag
  PROVE  /\ TIME_COMPARE_BIGGER(ev[e].time, t) <=> Ahead(t, now) < Lead(e)
         /\ Ahead(ev[e].time, t) = Lead(e) - Ahead(t, now)
<1>1. ev[e].time \in Time /\ now \in Time /\ Ahead(t, now) \in Int
  BY LeadType, AheadType
<1>2. /\ - Half < Lead(e) - Ahead(t, now) /\ Lead(e) - Ahead(t, now) < Half
  BY <1>1, WindowFacts, Horizon
<1> QED BY <1>1, <1>2, AheadCompare DEF Lead
-----------------------------------------------------------------------------
(* Steps on the list.  First what they leave to the other parts of the     *)
(* invariant: the clock, the timer and the task stay where they are, and   *)
(* without a notification the first deadline moves away only.              *)
LEMMA TimesListStep ==
  ASSUME TimeInv, TypeOK', InWindow', InOrder', ExecutesDue',
         UNCHANGED <<now, timerSet, wait, es, lag>>, notified => notified',
         pc' = pc \/ pc' \notin {"arm", "wait"},
         ~ notified' /\ list' # <<>> =>
           list # <<>> /\ Lead(Head(list)) <= Lead(Head(list))'
  PROVE  Times'
<1>1. /\ notified \in BOOLEAN /\ notified' \in BOOLEAN /\ now' = now /\ es' = es
      /\ wait \in Int /\ lag \in Int /\ MaxLag \in Int
      /\ wait' = wait /\ lag' = lag /\ timerSet' = timerSet
      /\ pc' = "arm" => pc = "arm"
      /\ pc' = "wait" => pc = "wait"
  BY SchedAssumption, TimeConstants DEF TimeInv, PoolInv, TypeInv, TypeOK
<1>2. LagCounts' /\ EsAhead'
  BY <1>1 DEF TimeInv, Times, LagCounts, EsAhead, Blocked
<1>3. ASSUME ~ notified', list' # <<>>
      PROVE  /\ ~ notified /\ list # <<>> /\ Lead(Head(list)) <= Lead(Head(list))'
             /\ Lead(Head(list)) \in Int /\ Lead(Head(list))' \in Int
  <2>1. ~ notified /\ list # <<>> /\ Lead(Head(list)) <= Lead(Head(list))'
    BY <1>1, <1>3
  <2>2. Head(list) \in Elem /\ Lead(Head(list)) \in Int
    BY <2>1, FirstListed, LeadType DEF TimeInv, PoolInv, TypeInv
  <2>3. list' \in Seq(Elem) /\ ev' \in [Elem -> Elements] /\ now' \in Time
    BY DEF TypeOK
  <2>4. Head(list') \in Elem
    BY <1>3, <2>3, HeadTailProperties
  <2>5. ev'[Head(list')].time \in Time
    BY <2>3, <2>4 DEF Elements
  <2>6. Lead(Head(list))' \in Int
    BY <2>3, <2>5, AheadType DEF Lead
  <2> QED BY <2>1, <2>2, <2>6
<1>4. ArmsInTime'
  <2>1. ASSUME pc = "arm" PROVE wait <= EVENT_TIME_MAX
    BY <2>1 DEF TimeInv, Times, ArmsInTime
  <2>2. ASSUME pc = "arm", ~ notified', list' # <<>>
        PROVE  wait <= Lead(Head(list))' + lag
    <3>1. wait <= Lead(Head(list)) + lag
      BY <1>3, <2>2 DEF TimeInv, Times, ArmsInTime
    <3> QED BY <1>1, <1>3, <2>2, <3>1
  <2> QED BY <1>1, <2>1, <2>2 DEF ArmsInTime
<1>5. SetInTime'
  <2>1. ASSUME timerSet, ~ notified', list' # <<>>
        PROVE  Ahead(es, now) <= Lead(Head(list))' + MaxLag
    <3>1. Ahead(es, now) <= Lead(Head(list)) + MaxLag
      BY <1>3, <2>1 DEF TimeInv, Times, SetInTime
    <3>2. Ahead(es, now) \in Int
      <4>1. es # NoTime
        BY <1>3, <2>1 DEF TimeInv, Wake, TimerStands
      <4> QED BY <4>1, AheadType DEF TimeInv, PoolInv, TypeInv, TypeOK
    <3> QED BY <1>1, <1>3, <2>1, <3>1, <3>2
  <2> QED BY <1>1, <2>1 DEF SetInTime
<1>6. BlocksWithTimer'
  BY <1>1, <1>3 DEF TimeInv, Times, BlocksWithTimer, Blocked
<1> QED BY <1>2, <1>4, <1>5, <1>6 DEF Times

(* Taking elements out: what remains is a part of the list in its order,   *)
(* h says where it was.                                                    *)
LEMMA TimesRemoval ==
  ASSUME TimeInv, TypeOK', UNCHANGED <<now, lag>>,
         InFlight' => cur' \in Elem /\ IsWaiting(cur') /\ ev'[cur'] = ev[cur'],
         \A e \in Range(list') : ev'[e] = ev[e],
         NEW h \in [1 .. Len(list') -> 1 .. Len(list)],
         \A i \in 1 .. Len(list') : list'[i] = list[h[i]],
         \A i, j \in 1 .. Len(list') : i < j => h[i] < h[j]
  PROVE  /\ InWindow' /\ InOrder'
         /\ list' # <<>> => list # <<>> /\ Lead(Head(list)) <= Lead(Head(list))'
<1>0. /\ TypeOK /\ list \in Seq(Elem) /\ list' \in Seq(Elem) /\ InWindow /\ InOrder
      /\ now' = now /\ lag' = lag
  BY DEF TimeInv, PoolInv, TypeInv, TypeOK, Times
<1>1. ASSUME NEW i \in 1 .. Len(list')
      PROVE  /\ h[i] \in 1 .. Len(list) /\ list'[i] = list[h[i]]
             /\ list'[i] \in Elem /\ IsWaiting(list'[i])
             /\ ev'[list'[i]] = ev[list'[i]] /\ Lead(list'[i]) = Lead(list[h[i]])
             /\ Ahead(ev'[list'[i]].time, now') = Lead(list[h[i]])
  <2>1. h[i] \in 1 .. Len(list) /\ list'[i] = list[h[i]]
    OBVIOUS
  <2>2. list'[i] \in Range(list') /\ list'[i] \in Elem
    BY <1>0, RangeElements, ElementOfSeq
  <2>3. IsWaiting(list[h[i]])
    BY <1>0, <2>1, ListedWait
  <2> QED BY <1>0, <2>1, <2>2, <2>3 DEF Lead
<1>2. InOrder'
  <2>1. ASSUME NEW i \in 1 .. Len(list'), NEW j \in 1 .. Len(list'), i < j
        PROVE  Ahead(ev'[list'[i]].time, now') <= Ahead(ev'[list'[j]].time, now')
    <3>1. h[i] < h[j] /\ h[i] \in 1 .. Len(list) /\ h[j] \in 1 .. Len(list)
      BY <2>1
    <3>2. Lead(list[h[i]]) <= Lead(list[h[j]])
      BY <1>0, <3>1 DEF InOrder
    <3> QED BY <1>1, <3>2
  <2> QED BY <2>1 DEF InOrder, Lead
<1>3. InWindow'
  <2>1. ASSUME NEW e \in Elem, IsWaiting(e)'
        PROVE  IsWaiting(e) /\ ev'[e] = ev[e]
    <3>1. CASE e \in Range(list')
      <4>1. PICK i \in 1 .. Len(list') : e = list'[i]
        BY <1>0, <3>1, RangeElements
      <4> QED BY <1>1, <4>1
    <3>2. CASE InFlight' /\ e = cur'
      BY <3>2
    <3> QED BY <2>1, <3>1, <3>2 DEF IsWaiting
  <2>2. ASSUME NEW e \in Elem, IsWaiting(e)'
        PROVE  (Window(e) /\ RestFits(e) /\ ev[e].left <= Lead(e) + ev[e].rem)'
    <3>1. Window(e) /\ RestFits(e) /\ ev[e].left <= Lead(e) + ev[e].rem
      BY <1>0, <2>1, <2>2 DEF InWindow
    <3> QED BY <1>0, <2>1, <2>2, <3>1 DEF Window, RestFits, Lead
  <2> QED BY <2>2 DEF InWindow
<1>4. ASSUME list' # <<>>
      PROVE  list # <<>> /\ Lead(Head(list)) <= Lead(Head(list))'
  <2>1. 1 \in 1 .. Len(list') /\ Head(list') = list'[1]
    <3>1. Len(list') \in Nat /\ Len(list') # 0
      BY <1>0, <1>4, EmptySeq, LenProperties
    <3> QED BY <1>0, <1>4, <3>1, HeadTailProperties
  <2>2. /\ h[1] \in 1 .. Len(list)
        /\ Ahead(ev'[Head(list')].time, now') = Lead(list[h[1]])
    BY <1>1, <2>1
  <2>3. list # <<>> /\ Len(list) \in Nat
    BY <1>0, <2>2, EmptySeq, LenProperties
  <2>4. 1 \in 1 .. Len(list) /\ Head(list) = list[1]
    BY <1>0, <2>3, FirstListed
  <2>5. Lead(Head(list)) \in Int
    BY <1>0, <2>3, FirstListed, LeadType
  <2>6. Lead(Head(list)) <= Lead(list[h[1]])
    BY <1>0, <2>2, <2>4, <2>5 DEF InOrder
  <2> QED BY <2>2, <2>3, <2>6 DEF Lead
<1> QED BY <1>2, <1>3, <1>4
(* Listing an event: the element is free, its time lies in the window, its *)
(* place is before the first event that comes later.                       *)
LEMMA TimesInsertion ==
  ASSUME DelaysFit, TimeInv, TypeOK', UNCHANGED <<now, cur, lag>>,
         InFlight' => InFlight,
         NEW t \in Time, NEW cb, NEW arg, NEW rem \in Nat, NEW left \in Int,
         free # <<>>,
         ev' = [ev EXCEPT ![Head(free)] =
                  [time |-> t, cb |-> cb, arg |-> arg, rem |-> rem, left |-> left]],
         list' = InsertAt(list, InsertPos(t), Head(free)),
         0 <= Ahead(t, now) + MaxLag + lag,
         Ahead(t, now) + 2 * MaxLag < EVENT_TIME_MAX,
         rem > 0 => Interval + 2 * MaxLag < EVENT_TIME_MAX,
         left <= Ahead(t, now) + rem
  PROVE  InWindow' /\ InOrder' /\ (ExecutesDue => ExecutesDue')
<1> DEFINE new == Head(free)
           p   == InsertPos(t)
           n   == Len(list)
           L   == Ahead(t, now)
<1>0. /\ TypeOK /\ list \in Seq(Elem) /\ free \in Seq(Elem) /\ InWindow /\ InOrder
      /\ LagCounts /\ n \in Nat /\ list' \in Seq(Elem)
      /\ now' = now /\ lag' = lag /\ cur' = cur /\ ev \in [Elem -> Elements]
  BY LenProperties DEF TimeInv, PoolInv, TypeInv, TypeOK, Times
<1>1. new \in Elem /\ new \notin Range(list) /\ new # cur
  <2>1. new \in Elem /\ new \in Range(free)
    <3>1. IsInjective(free)
      BY DEF TimeInv, PoolInv, PoolConserved
    <3> QED BY <1>0, <3>1, TailRange, HeadTailProperties
  <2> QED BY <2>1 DEF TimeInv, PoolInv, PoolConserved
<1>2. L \in Int /\ now \in Time /\ - (2 * MaxLag) <= L /\ L < EVENT_TIME_MAX - 2 * MaxLag
  <2>1. L \in Int /\ now \in Time
    BY <1>0, AheadType DEF TypeOK
  <2>2. lag \in Nat /\ lag <= MaxLag
    BY <1>0 DEF TypeOK, LagCounts
  <2> QED BY <2>1, <2>2, Horizon
<1>3. ASSUME NEW e \in Elem, e # new
      PROVE  ev'[e] = ev[e] /\ Ahead(ev'[e].time, now') = Lead(e)
  BY <1>0, <1>3 DEF Lead
<1>4. /\ ev'[new].time = t /\ ev'[new].rem = rem /\ ev'[new].left = left
      /\ Ahead(ev'[new].time, now') = L
  BY <1>0, <1>1
<1>5. p \in 1 .. n + 1
  BY <1>0, InsertPosRange
<1>6. /\ Len(list') = n + 1
      /\ \A j \in 1 .. n + 1 :
           list'[j] = IF j < p THEN list[j] ELSE IF j = p THEN new ELSE list[j - 1]
  <2>1. list' = InsertAt(list, p, new)
    OBVIOUS
  <2> HIDE DEF p, new
  <2>2. /\ Len(InsertAt(list, p, new)) = Len(list) + 1
        /\ \A j \in 1 .. Len(list) + 1 :
             InsertAt(list, p, new)[j] =
               IF j < p THEN list[j] ELSE IF j = p THEN new ELSE list[j - 1]
    <3>1. list \in Seq(Elem) /\ new \in Elem /\ p \in 1 .. Len(list) + 1
      BY <1>0, <1>1, <1>5
    <3> QED BY <3>1, InsertAtElements
  <2> QED BY <2>1, <2>2
<1>7. Range(list') = Range(list) \cup {new}
  BY <1>0, <1>1, <1>5, InsertAtRange
<1>8. ASSUME NEW i \in 1 .. n
      PROVE  /\ list[i] \in Elem /\ list[i] # new /\ Lead(list[i]) \in Int
             /\ TIME_COMPARE_BIGGER(ev[list[i]].time, t) <=> L < Lead(list[i])
  <2>1. list[i] \in Elem /\ list[i] \in Range(list) /\ IsWaiting(list[i])
    BY <1>0, ListedWait
  <2>2. Window(list[i])
    BY <1>0, <2>1 DEF InWindow
  <2> QED BY <1>0, <1>1, <1>2, <2>1, <2>2, LeadType, OrderOfTimes
<1>9. /\ \A i \in 1 .. n : i < p => Lead(list[i]) <= L
      /\ \A i \in 1 .. n : p <= i => L < Lead(list[i])
  <2> DEFINE later == {i \in 1 .. n : TIME_COMPARE_BIGGER(ev[list[i]].time, t)}
  <2>1. later \in SUBSET Nat
    BY <1>0
  <2>2. CASE later = {}
    <3>1. p = n + 1
      BY <2>2 DEF InsertPos
    <3>2. ASSUME NEW i \in 1 .. n PROVE Lead(list[i]) <= L /\ i < n + 1
      BY <1>0, <1>2, <1>8, <2>2
    <3> QED BY <1>0, <3>1, <3>2
  <2>3. CASE later # {}
    <3>1. \E i \in later : \A j \in later : i <= j
      BY <2>1, <2>3, LeastElement
    <3>2. p \in later /\ \A j \in later : p <= j
      BY <2>3, <3>1 DEF InsertPos
    <3> HIDE DEF p
    <3>3. ASSUME NEW i \in 1 .. n, i < p PROVE Lead(list[i]) <= L
      <4>1. i \notin later
        BY <1>0, <3>2, <3>3
      <4>2. ~ (L < Lead(list[i])) /\ Lead(list[i]) \in Int
        BY <1>8, <4>1
      <4> QED BY <1>2, <4>2
    <3>4. ASSUME NEW i \in 1 .. n, p <= i PROVE L < Lead(list[i])
      <4>1. p \in 1 .. n /\ L < Lead(list[p]) /\ Lead(list[p]) \in Int
        BY <1>8, <3>2
      <4>2. Lead(list[p]) <= Lead(list[i])
        <5>1. CASE p = i
          BY <4>1, <5>1
        <5>2. CASE p < i
          BY <1>0, <4>1, <5>2 DEF InOrder
        <5> QED BY <3>4, <4>1, <5>1, <5>2
      <4> QED BY <1>2, <1>8, <4>1, <4>2
    <3> QED BY <3>3, <3>4
  <2> QED BY <2>2, <2>3
<1> HIDE DEF p, new, L, n
<1>10. InOrder'
  <2> DEFINE lead(j) == Ahead(ev'[list'[j]].time, now')
  <2>1. ASSUME NEW j \in 1 .. n + 1
        PROVE  lead(j) = IF j < p THEN Lead(list[j])
                         ELSE IF j = p THEN L ELSE Lead(list[j - 1])
    <3>1. CASE j < p
      <4>1. list'[j] = list[j] /\ j \in 1 .. n
        BY <1>0, <1>5, <1>6, <3>1
      <4> QED BY <1>3, <1>8, <3>1, <4>1
    <3>2. CASE j = p
      <4>1. list'[j] = new
        BY <1>6, <3>2
      <4> QED BY <1>4, <3>2, <4>1, <1>5
    <3>3. CASE j > p
      <4>1. list'[j] = list[j - 1] /\ j - 1 \in 1 .. n
        BY <1>0, <1>5, <1>6, <3>3
      <4> QED BY <1>3, <1>8, <1>5, <3>3, <4>1
    <3> QED BY <1>5, <3>1, <3>2, <3>3
  <2> HIDE DEF lead
  <2>2. ASSUME NEW i \in 1 .. n + 1, NEW j \in 1 .. n + 1, i < j
        PROVE  lead(i) <= lead(j)
    <3>1. CASE j < p
      <4>1. i < p /\ i \in 1 .. n /\ j \in 1 .. n
        BY <1>0, <1>5, <2>2, <3>1
      <4>2. lead(i) = Lead(list[i]) /\ lead(j) = Lead(list[j])
        BY <2>1, <3>1, <4>1
      <4> QED BY <1>0, <2>2, <4>1, <4>2 DEF InOrder, n
    <3>2. CASE j = p
      <4>1. i < p /\ i \in 1 .. n
        BY <1>0, <1>5, <2>2, <3>2
      <4>2. lead(i) = Lead(list[i]) /\ lead(j) = L
        BY <2>1, <3>2, <4>1
      <4> QED BY <1>9, <4>1, <4>2
    <3>3. CASE j > p
      <4>1. j - 1 \in 1 .. n /\ p <= j - 1 /\ lead(j) = Lead(list[j - 1])
        BY <1>0, <1>5, <2>1, <3>3
      <4>2. L < Lead(list[j - 1]) /\ Lead(list[j - 1]) \in Int
        BY <1>8, <1>9, <4>1
      <4>3. CASE i < p
        <5>1. i \in 1 .. n /\ lead(i) = Lead(list[i])
          BY <1>0, <1>5, <2>1, <4>3
        <5>2. Lead(list[i]) <= L /\ Lead(list[i]) \in Int
          BY <1>8, <1>9, <4>3, <5>1
        <5> QED BY <1>2, <4>1, <4>2, <5>1, <5>2
      <4>4. CASE i = p
        BY <1>2, <1>5, <2>1, <4>1, <4>2, <4>4
      <4>5. CASE i > p
        <5>1. i - 1 \in 1 .. n /\ i - 1 < j - 1 /\ lead(i) = Lead(list[i - 1])
          BY <1>0, <1>5, <2>1, <2>2, <4>5
        <5> QED BY <1>0, <4>1, <5>1 DEF InOrder, n
      <4> QED BY <1>5, <4>3, <4>4, <4>5
    <3> QED BY <1>5, <3>1, <3>2, <3>3
  <2>3. Len(list') = n + 1
    BY <1>6
  <2> QED BY <2>2, <2>3 DEF InOrder, Lead, lead
<1>11. InWindow'
  <2>1. ASSUME NEW e \in Elem, IsWaiting(e)', e # new
        PROVE  (Window(e) /\ RestFits(e) /\ ev[e].left <= Lead(e) + ev[e].rem)'
    <3>1. IsWaiting(e)
      BY <1>0, <1>7, <2>1 DEF IsWaiting
    <3>2. Window(e) /\ RestFits(e) /\ ev[e].left <= Lead(e) + ev[e].rem
      BY <1>0, <3>1 DEF InWindow
    <3> QED BY <1>0, <1>3, <2>1, <3>2 DEF Window, RestFits, Lead
  <2>2. ASSUME NEW e \in Elem, e = new
        PROVE  (Window(e) /\ RestFits(e) /\ ev[e].left <= Lead(e) + ev[e].rem)'
    <3>1. /\ 0 <= L + MaxLag + lag /\ L + 2 * MaxLag < EVENT_TIME_MAX
          /\ rem > 0 => Interval + 2 * MaxLag < EVENT_TIME_MAX
          /\ left <= L + rem
      BY DEF L
    <3> QED BY <1>0, <1>4, <2>2, <3>1 DEF Window, RestFits, Lead
  <2> QED BY <2>1, <2>2 DEF InWindow
<1>12. ASSUME ExecutesDue PROVE ExecutesDue'
  <2>1. ASSUME InFlight' PROVE Lead(cur)' <= 0
    <3>1. cur \in Elem /\ Lead(cur) <= 0
      BY <1>0, <1>12, <2>1 DEF ExecutesDue, InFlight, TypeOK
    <3>2. Ahead(ev'[cur].time, now') = Lead(cur)
      BY <1>1, <1>3, <3>1
    <3> QED BY <1>0, <3>1, <3>2 DEF Lead
  <2> QED BY <2>1 DEF ExecutesDue
<1> QED BY <1>10, <1>11, <1>12
-----------------------------------------------------------------------------
(* A delay that fits leads to a time that far ahead.                       *)
LEMMA DelayLeads ==
  ASSUME DelaysFit, TypeOK, NEW r \in Nat, r + 2 * MaxLag < EVENT_TIME_MAX
  PROVE  /\ AbsTime(r) \in Time /\ Ahead(AbsTime(r), now) = r
         /\ Delay(r) = r
<1>1. r < Half /\ r \in Time /\ r # EVENT_TIME_NOW /\ now \in Time
  BY Horizon DEF TypeOK, Time, Modulus, EVENT_TIME_NOW, EVENT_TIME_MAX
<1>2. AbsTime(r) = Plus(now, r) /\ Delay(r) = r
  BY <1>1 DEF AbsTime, Delay
<1> QED BY <1>1, <1>2, TimeArithmetic, AheadOfNow

(* Scheduling, whoever does it.                                            *)
LEMMA TimesSchedule ==
  ASSUME DelaysFit, TimeInv, TypeOK', UNCHANGED <<now, cur, timerSet, wait, es, lag>>,
         pc' = pc \/ pc' \notin {"exec", "arm", "wait"},
         NEW t \in Time, NEW r, NEW cb, NEW arg, NEW rem \in Nat, NEW left \in Int,
         ScheduleEvent(t, r, cb, arg, rem, left),
         0 <= Ahead(t, now) + MaxLag + lag,
         Ahead(t, now) + 2 * MaxLag < EVENT_TIME_MAX,
         rem > 0 => Interval + 2 * MaxLag < EVENT_TIME_MAX,
         left <= Ahead(t, now) + rem
  PROVE  Times'
<1>0. /\ TypeOK /\ InWindow /\ InOrder /\ ExecutesDue /\ notified \in BOOLEAN
      /\ InFlight' => InFlight
  BY DEF TimeInv, PoolInv, TypeInv, TypeOK, Times, InFlight
<1>1. CASE free = <<>> \/ ~ r
  <2>1. UNCHANGED <<list, free, ev, notified>>
    BY <1>1 DEF ScheduleEvent
  <2>2. InWindow' /\ InOrder' /\ ExecutesDue'
    BY <1>0, <2>1 DEF InWindow, InOrder, ExecutesDue, IsWaiting, Window, RestFits,
                      Lead, InFlight
  <2>3. ASSUME list # <<>> PROVE Lead(Head(list)) <= Lead(Head(list))'
    <3>1. Lead(Head(list)) \in Int
      BY <1>0, <2>3, FirstListed, LeadType
    <3> QED BY <2>1, <3>1 DEF Lead
  <2> QED BY <1>0, <2>1, <2>2, <2>3, TimesListStep
<1>2. CASE ~ (free = <<>> \/ ~ r)
  <2>1. /\ free # <<>> /\ notified' = TRUE
        /\ ev' = [ev EXCEPT ![Head(free)] =
                    [time |-> t, cb |-> cb, arg |-> arg, rem |-> rem, left |-> left]]
        /\ list' = InsertAt(list, InsertPos(t), Head(free))
    BY <1>2 DEF ScheduleEvent
  <2>2. InWindow' /\ InOrder' /\ ExecutesDue'
    BY <1>0, <2>1, TimesInsertion
  <2> QED BY <1>0, <2>1, <2>2, TimesListStep
<1> QED BY <1>1, <1>2

(* Nothing that the times depend on changes.                               *)
LEMMA TimesFrame ==
  ASSUME TimeInv, TypeOK',
         UNCHANGED <<now, list, ev, cur, timerSet, wait, es, lag>>,
         notified => notified',
         pc' = pc \/ pc' \notin {"exec", "arm", "wait"}
  PROVE  Times'
<1>0. TypeOK /\ InWindow /\ InOrder /\ ExecutesDue
  BY DEF TimeInv, PoolInv, TypeInv, TypeOK, Times
<1>2. InWindow' /\ InOrder' /\ ExecutesDue'
  BY <1>0 DEF InWindow, InOrder, ExecutesDue, IsWaiting, Window, RestFits,
              Lead, InFlight
<1>3. ASSUME list # <<>> PROVE Lead(Head(list)) <= Lead(Head(list))'
  <2>1. Lead(Head(list)) \in Int
    BY <1>0, <1>3, FirstListed, LeadType
  <2> QED BY <2>1 DEF Lead
<1> QED BY <1>2, <1>3, TimesListStep

(* The callers and the daemon.                                             *)
LEMMA TimesCaller ==
  ASSUME DelaysFit, TimeInv, CallerStep \/ DeferredEvent PROVE Times'
<1>0. /\ TypeInv /\ TypeOK /\ TypeOK' /\ PoolConserved
      /\ lag \in Nat /\ MaxLag \in Nat /\ list \in Seq(Elem)
      /\ Times /\ ExecutesDue
  BY TypeCaller, TypeOther, SchedAssumption
     DEF TimeInv, PoolInv, TypeInv, TypeOK, Times
<1>1. ASSUME NEW rel \in RelTimes
      PROVE  /\ rel \in Nat /\ rel + 2 * MaxLag < EVENT_TIME_MAX
             /\ AbsTime(rel) \in Time /\ Ahead(AbsTime(rel), now) = rel
             /\ Delay(rel) = rel /\ 0 <= rel + MaxLag + lag
  <2>1. rel \in Nat /\ rel + 2 * MaxLag < EVENT_TIME_MAX
    BY TimeConstants DEF DelaysFit
  <2> QED BY <1>0, <2>1, DelayLeads
<1>2. ASSUME NEW cb \in Callbacks, NEW arg \in Args, NEW rel \in RelTimes,
             ScheduleEventArg(rel, cb, arg)
      PROVE  Times'
  <2>1. /\ ScheduleEvent(AbsTime(rel), InRange(rel), cb, arg, 0, Delay(rel))
        /\ UNCHANGED <<now, cur, pc, timerSet, wait, es, lag>>
    BY <1>2 DEF ScheduleEventArg, loopVars, intVars
  <2> QED BY <1>0, <1>1, <2>1, TimesSchedule
<1>3. ASSUME NEW cb \in Callbacks, NEW arg \in Args, NEW s \in Seconds,
             ScheduleEventInSeconds(s, cb, arg)
      PROVE  Times'
  <2>1. /\ s \in Nat /\ FirstPart(s) \in Nat /\ RestPart(s) \in Nat
        /\ FirstPart(s) + RestPart(s) = s
    <3>1. s \in Nat /\ FirstPart(s) \in Nat /\ RestPart(s) \in Nat
      BY Parts, TimeConstants, SchedAssumption
    <3> QED BY <3>1 DEF RestPart
  <2>2. /\ FirstPart(s) + 2 * MaxLag < EVENT_TIME_MAX
        /\ RestPart(s) > 0 => Interval + 2 * MaxLag < EVENT_TIME_MAX
    BY <2>1, Horizon DEF DelaysFit, FirstPart, RestPart
  <2>3. /\ AbsTime(FirstPart(s)) \in Time
        /\ Ahead(AbsTime(FirstPart(s)), now) = FirstPart(s)
    BY <1>0, <2>1, <2>2, DelayLeads
  <2>4. /\ ScheduleEvent(AbsTime(FirstPart(s)), InRange(FirstPart(s)), cb, arg,
                         RestPart(s), s)
        /\ UNCHANGED <<now, cur, pc, timerSet, wait, es, lag>>
    BY <1>3 DEF ScheduleEventInSeconds, loopVars, intVars
  <2>5. 0 <= FirstPart(s) + MaxLag + lag /\ s \in Int /\ s <= FirstPart(s) + RestPart(s)
    BY <1>0, <2>1
  <2> QED BY <1>0, <2>1, <2>2, <2>3, <2>4, <2>5, TimesSchedule
<1>4. ASSUME NEW cb \in Callbacks, NEW arg \in Args, NEW rel \in RelTimes,
             ScheduleEventDeferred(rel, cb, arg)
      PROVE  Times'
  BY <1>0, <1>4, TimesFrame DEF ScheduleEventDeferred, poolVars, loopVars, intVars
<1>5. ASSUME NEW cb \in Callbacks, NEW arg \in Args, UnscheduleEventArg(cb, arg)
      PROVE  Times'
  <2> DEFINE i == FindEventArg(cb, arg)
             n == Len(list)
             h == [j \in 1 .. n - 1 |-> IF j < i THEN j ELSE j + 1]
  <2>1. /\ i \in 1 .. n /\ list[i] \in Elem /\ list[i] \in Range(list)
        /\ n \in Nat /\ list # <<>>
    BY <1>0, <1>5, FindEventArgRange, RangeElements DEF UnscheduleEventArg
  <2>2. /\ list' = RemoveAt(list, i) /\ ev' = Forget({list[i]})
        /\ UNCHANGED <<now, cur, pc, timerSet, wait, es, lag, notified>>
    BY <1>5 DEF UnscheduleEventArg, loopVars, intVars
  <2>3. /\ Len(list') = n - 1
        /\ \A j \in 1 .. n - 1 : list'[j] = IF j < i THEN list[j] ELSE list[j + 1]
    BY <1>0, <2>1, <2>2, RemoveAtElements
  <2>4. Range(list') = Range(list) \ {list[i]} /\ Range(list) \subseteq Elem
    <3>1. IsInjective(list)
      BY <1>0 DEF PoolConserved
    <3> QED BY <1>0, <2>1, <2>2, <3>1, RemoveAtRange, RangeElements
  <2>5. \A e \in Elem : e # list[i] => ev'[e] = ev[e]
    BY <2>2 DEF Forget
  <2> HIDE DEF i, n
  <2>6. /\ h \in [1 .. Len(list') -> 1 .. Len(list)]
        /\ \A j \in 1 .. Len(list') : list'[j] = list[h[j]]
        /\ \A j, k \in 1 .. Len(list') : j < k => h[j] < h[k]
    BY <2>1, <2>3 DEF n
  <2>7. \A e \in Range(list') : ev'[e] = ev[e]
    BY <2>4, <2>5
  <2>8. ASSUME InFlight'
        PROVE  InFlight /\ cur' = cur /\ cur \in Elem /\ IsWaiting(cur)
               /\ ev'[cur] = ev[cur]
    <3>1. InFlight /\ cur' = cur /\ cur \in Elem
      BY <1>0, <2>2, <2>8 DEF InFlight, TypeOK
    <3>2. cur # list[i]
      BY <1>0, <2>1 DEF PoolConserved
    <3> QED BY <2>5, <3>1, <3>2 DEF IsWaiting
  <2> HIDE DEF h
  <2>9. /\ InWindow' /\ InOrder'
        /\ list' # <<>> => list # <<>> /\ Lead(Head(list)) <= Lead(Head(list))'
    BY <1>0, <2>2, <2>6, <2>7, <2>8, TimesRemoval
  <2>10. ExecutesDue'
    BY <1>0, <2>2, <2>8 DEF ExecutesDue, Lead
  <2> QED BY <1>0, <2>2, <2>9, <2>10, TimesListStep
<1>6. ASSUME NEW cb \in Callbacks, NEW arg \in Args, GetRemainingTimeFind(cb, arg)
      PROVE  Times'
  BY <1>0, <1>6, TimesFrame DEF GetRemainingTimeFind, poolVars, loopVars, intVars
<1>7. CASE GetRemainingTimeRead
  BY <1>0, <1>7, TimesFrame DEF GetRemainingTimeRead, poolVars, loopVars, intVars
<1>8. CASE Clear
  <2>1. /\ list' = <<>> /\ ev' = Forget(Range(list))
        /\ UNCHANGED <<now, cur, pc, timerSet, wait, es, lag, notified>>
    BY <1>8 DEF Clear, loopVars, intVars
  <2>2. ASSUME InFlight'
        PROVE  InFlight /\ cur' = cur /\ cur \in Elem /\ IsWaiting(cur)
               /\ ev'[cur] = ev[cur]
    BY <1>0, <2>1, <2>2 DEF InFlight, TypeOK, IsWaiting, PoolConserved, Forget
  <2>3. Range(list') = {} /\ Len(list') = 0
    BY <2>1, EmptySeq DEF Range
  <2>4. InOrder'
    BY <2>3 DEF InOrder
  <2>5. InWindow'
    <3>1. ASSUME NEW e \in Elem, IsWaiting(e)'
          PROVE  e = cur /\ InFlight'
      BY <2>1, <2>3, <3>1 DEF IsWaiting
    <3>2. ASSUME InFlight'
          PROVE  (Window(cur) /\ RestFits(cur) /\ ev[cur].left <= Lead(cur) + ev[cur].rem)'
      BY <1>0, <2>1, <2>2, <3>2 DEF Times, InWindow, Window, RestFits, Lead
    <3> QED BY <2>1, <3>1, <3>2 DEF InWindow, Window, RestFits, Lead
  <2>6. ExecutesDue'
    BY <1>0, <2>1, <2>2 DEF ExecutesDue, Lead
  <2> QED BY <1>0, <2>1, <2>4, <2>5, <2>6, TimesListStep
<1>9. CASE DeferredEvent
  <2>1. CASE isrQ = <<>>
    BY <1>0, <1>9, <2>1, TimesFrame DEF DeferredEvent, poolVars, loopVars, intVars
  <2>2. CASE isrQ # <<>>
    <3> DEFINE q == Head(isrQ)
    <3>1. q \in QueueItems
      BY <1>0, <2>2, HeadTailProperties DEF TypeOK
    <3>2. q.rel \in RelTimes /\ q.age \in Nat
      BY <3>1 DEF QueueItems
    <3>3. /\ ScheduleEvent(AbsTime(q.rel), InRange(q.rel), q.cb, q.arg, 0,
                           Delay(q.rel) - q.age)
          /\ UNCHANGED <<now, cur, pc, timerSet, wait, es, lag>>
      BY <1>9, <2>2 DEF DeferredEvent, loopVars, intVars
    <3> HIDE DEF q
    <3>4. Delay(q.rel) - q.age \in Int /\ Delay(q.rel) - q.age <= q.rel + 0
      BY <1>1, <3>2
    <3> QED BY <1>0, <1>1, <3>2, <3>3, <3>4, TimesSchedule
  <2> QED BY <2>1, <2>2
<1> QED BY <1>2, <1>3, <1>4, <1>5, <1>6, <1>7, <1>8, <1>9 DEF CallerStep
(* The gpSched task.  The steps that concern the times are those that take *)
(* an event, list the rest of one, read the clock, arm and block.          *)
LEMMA TimesTask ==
  ASSUME DelaysFit, TimeInv, TaskStep PROVE Times'
<1>0. /\ TypeInv /\ TypeOK /\ TypeOK' /\ PoolConserved /\ Wake /\ pc \in Places
      /\ lag \in Nat /\ MaxLag \in Nat /\ list \in Seq(Elem) /\ notified \in BOOLEAN
      /\ Times /\ InWindow /\ InOrder /\ ExecutesDue /\ LagCounts /\ EsAhead
      /\ ArmsInTime /\ SetInTime /\ BlocksWithTimer
  BY TypeTask, SchedAssumption DEF TimeInv, PoolInv, TypeInv, TypeOK, Times
<1>1. CASE TaskNotifyWait
  <2>1. /\ UNCHANGED <<now, list, ev, cur, es, lag>> /\ pc' = "body" /\ pc = "wait"
        /\ timerSet' = FALSE
    BY <1>1 DEF TaskNotifyWait, poolVars, intVars
  <2> QED BY <1>0, <2>1 DEF Times, InWindow, InOrder, ExecutesDue, LagCounts, EsAhead,
            ArmsInTime, SetInTime, BlocksWithTimer, IsWaiting, Window, RestFits, Lead,
            InFlight, Blocked
<1>2. CASE HandleRadioInterrupt \/ UnmaskRadioInterrupt
  BY <1>0, <1>2, TimesFrame
     DEF HandleRadioInterrupt, UnmaskRadioInterrupt, poolVars, loopVars
<1>3. CASE GetEvent
  <2>1. CASE IsDue
    <3> DEFINE n == Len(list)
               h == [j \in 1 .. n - 1 |-> j + 1]
    <3>1. /\ list # <<>> /\ n \in Nat /\ n > 0 /\ 1 \in 1 .. n
          /\ Head(list) = list[1] /\ Head(list) \in Elem /\ IsWaiting(Head(list))
          /\ Head(list) \in Range(list)
      BY <1>0, <2>1, FirstListed, EmptySeq, LenProperties, RangeElements DEF IsDue
    <3>2. /\ cur' = Head(list) /\ list' = Tail(list) /\ pc' = "exec" /\ pc = "get"
          /\ UNCHANGED <<now, ev, timerSet, wait, es, lag, notified>>
      BY <1>3, <2>1 DEF GetEvent, intVars
    <3>3. /\ Len(list') = n - 1
          /\ \A j \in 1 .. n - 1 : list'[j] = list[j + 1]
      BY <1>0, <3>1, <3>2, HeadTailProperties
    <3> HIDE DEF n
    <3>4. /\ h \in [1 .. Len(list') -> 1 .. Len(list)]
          /\ \A j \in 1 .. Len(list') : list'[j] = list[h[j]]
          /\ \A j, k \in 1 .. Len(list') : j < k => h[j] < h[k]
      BY <3>1, <3>3 DEF n
    <3> HIDE DEF h
    <3>5. /\ InWindow' /\ InOrder'
          /\ list' # <<>> => list # <<>> /\ Lead(Head(list)) <= Lead(Head(list))'
      BY <1>0, <3>1, <3>2, <3>4, TimesRemoval
    <3>6. ExecutesDue'
      <4>1. now \in Time /\ FirstTime \in Time /\ Lead(Head(list)) \in Int
        BY <1>0, <3>1, FirstTimeType, LeadType DEF TypeOK
      <4>2. Ahead(now, FirstTime) >= 0 /\ Ahead(now, FirstTime) \in Int
        BY <2>1, <4>1, AheadType DEF IsDue
      <4>3. Lead(Head(list)) = - Ahead(now, FirstTime)
        BY <4>1, <4>2, HalfAssumption, AheadType DEF Lead, FirstTime
      <4> QED BY <3>2, <4>1, <4>2, <4>3 DEF ExecutesDue, Lead
    <3> QED BY <1>0, <3>1, <3>2, <3>5, <3>6, TimesListStep
  <2>2. CASE ~ IsDue
    <3>1. /\ UNCHANGED <<now, list, ev, cur, timerSet, wait, es, lag, notified>>
          /\ pc' \in {"next", "check"}
      BY <1>3, <2>2 DEF GetEvent, AfterBody, intVars
    <3> QED BY <1>0, <3>1, TimesFrame
  <2> QED BY <2>1, <2>2
<1>4. CASE ReScheduleInSeconds
  <2> DEFINE d == ev[cur]
             t == Plus(d.time, FirstPart(d.rem))
  <2>1. /\ cur \in Elem /\ IsWaiting(cur) /\ InFlight /\ pc = "exec" /\ d.rem > 0
        /\ pc' = "release" /\ UNCHANGED <<now, cur, timerSet, wait, es, lag>>
        /\ ScheduleEvent(t, TRUE, d.cb, d.arg, RestPart(d.rem), d.left)
    BY <1>0, <1>4, SchedAssumption
       DEF ReScheduleInSeconds, TypeInv, Held, IsWaiting, InFlight, intVars
  <2>2. /\ d.time \in Time /\ d.rem \in Nat /\ d.left \in Int /\ now \in Time
        /\ Lead(cur) \in Int /\ Lead(cur) <= 0
        /\ 0 <= Lead(cur) + MaxLag + lag /\ d.left <= Lead(cur) + d.rem
        /\ Interval + 2 * MaxLag < EVENT_TIME_MAX
    <3>1. Window(cur) /\ RestFits(cur) /\ d.left <= Lead(cur) + d.rem /\ Lead(cur) <= 0
      BY <1>0, <2>1 DEF InWindow, ExecutesDue
    <3> QED BY <1>0, <2>1, <3>1, LeadType DEF Window, RestFits
  <2>3. /\ FirstPart(d.rem) \in Nat /\ RestPart(d.rem) \in Nat
        /\ FirstPart(d.rem) <= Interval /\ FirstPart(d.rem) < Half
        /\ FirstPart(d.rem) + RestPart(d.rem) = d.rem
    <3>1. FirstPart(d.rem) \in Nat /\ RestPart(d.rem) \in Nat
      BY <2>2, Parts, TimeConstants
    <3> HIDE DEF d
    <3> QED BY <2>2, <3>1, Horizon DEF FirstPart, RestPart
  <2>4. t \in Time /\ Ahead(t, now) = Lead(cur) + FirstPart(d.rem)
    <3>1. FirstPart(d.rem) \in Time
      BY <2>2, Parts
    <3>2. Lead(cur) + FirstPart(d.rem) < Half
      BY <2>2, <2>3, Horizon
    <3> QED BY <2>2, <2>3, <3>1, <3>2, TimeArithmetic, AheadOfSum DEF Lead
  <2> HIDE DEF d, t
  <2>5. /\ 0 <= Ahead(t, now) + MaxLag + lag
        /\ Ahead(t, now) + 2 * MaxLag < EVENT_TIME_MAX
        /\ d.left <= Ahead(t, now) + RestPart(d.rem)
    <3>1. MaxLag \in Nat /\ EVENT_TIME_MAX \in Nat /\ Interval \in Nat
      BY Horizon
    <3>2. 0 <= Ahead(t, now) + MaxLag + lag
      BY <1>0, <2>2, <2>3, <2>4
    <3>3. Ahead(t, now) + 2 * MaxLag < EVENT_TIME_MAX
      BY <2>2, <2>3, <2>4, <3>1
    <3>4. d.left <= Ahead(t, now) + RestPart(d.rem)
      BY <2>2, <2>3, <2>4
    <3> QED BY <3>2, <3>3, <3>4
  <2> QED BY <1>0, <2>1, <2>2, <2>3, <2>4, <2>5, TimesSchedule
<1>5. CASE ExecEvent
  <2>1. /\ UNCHANGED <<now, list, ev, cur, timerSet, wait, es, lag, notified>>
        /\ pc' = "release"
    BY <1>5 DEF ExecEvent, poolVars, intVars
  <2> QED BY <1>0, <2>1, TimesFrame
<1>6. CASE ReleaseEvent
  <2>1. /\ UNCHANGED <<now, list, timerSet, wait, es, lag, notified>>
        /\ ev' = Forget({cur}) /\ pc' \in {"next", "check"} /\ ~ InFlight'
    BY <1>6 DEF ReleaseEvent, AfterBody, InFlight, intVars
  <2>2. \A i \in 1 .. Len(list) : list[i] \in Elem /\ ev'[list[i]] = ev[list[i]]
    <3>1. ASSUME NEW i \in 1 .. Len(list)
          PROVE  list[i] \in Elem /\ list[i] # cur
      BY <1>0, ListedWait DEF PoolConserved
    <3> QED BY <2>1, <3>1 DEF Forget
  <2>3. InOrder'
    BY <1>0, <2>1, <2>2 DEF InOrder, Lead
  <2>4. InWindow'
    <3>1. ASSUME NEW e \in Elem, IsWaiting(e)'
          PROVE  IsWaiting(e) /\ ev'[e] = ev[e]
      BY <1>0, <2>1, <3>1 DEF IsWaiting, PoolConserved, Forget
    <3> QED BY <1>0, <2>1, <3>1 DEF InWindow, Window, RestFits, Lead
  <2>5. ASSUME list # <<>> PROVE Lead(Head(list)) <= Lead(Head(list))'
    <3>1. /\ 1 \in 1 .. Len(list) /\ Head(list) = list[1] /\ Lead(Head(list)) \in Int
      BY <1>0, <2>5, FirstListed, LeadType
    <3>2. ev'[Head(list)] = ev[Head(list)] /\ now' = now /\ list' = list
      BY <2>1, <2>2, <3>1
    <3>3. Lead(Head(list))' = Lead(Head(list))
      BY <3>2 DEF Lead
    <3> QED BY <3>1, <3>3
  <2>6. ExecutesDue'
    BY <2>1 DEF ExecutesDue
  <2> QED BY <1>0, <2>1, <2>3, <2>4, <2>5, <2>6, TimesListStep
<1>7. CASE CheckQueue
  <2>1. /\ UNCHANGED <<now, list, ev, cur, timerSet, wait, es, lag, notified>>
        /\ pc' \in {"body", "checkRadio"}
    BY <1>7 DEF CheckQueue, poolVars, intVars
  <2> QED BY <1>0, <2>1, TimesFrame
<1>8. CASE CheckRadio
  <2>1. /\ UNCHANGED <<now, list, ev, cur, timerSet, wait, es, notified>>
        /\ pc' \in {"body", "wait"} /\ pc = "checkRadio"
        /\ lag' = IF raised = {} /\ ~ notified THEN 0 ELSE lag
        /\ raised # {} => pc' = "body"
    BY <1>8 DEF CheckRadio, poolVars
  <2>2. ~ InFlight /\ ~ InFlight'
    BY <2>1 DEF InFlight
  <2>3. LagCounts' /\ ArmsInTime' /\ SetInTime' /\ EsAhead' /\ ExecutesDue' /\ InOrder'
    BY <1>0, <2>1, <2>2
       DEF LagCounts, ArmsInTime, SetInTime, EsAhead, ExecutesDue, InOrder, Blocked, Lead
  <2>4. BlocksWithTimer'
    BY <1>0, <2>1 DEF BlocksWithTimer, Blocked, Wake, LeavesSafely
  <2>5. InWindow'
    <3>1. CASE lag' = lag
      BY <1>0, <2>1, <2>2, <3>1 DEF InWindow, IsWaiting, Window, RestFits, Lead
    <3>2. CASE raised = {} /\ ~ notified
      <4>1. ASSUME NEW e \in Elem, e \in Range(list)
            PROVE  0 <= Lead(e) + MaxLag /\ Window(e) /\ RestFits(e)
                   /\ ev[e].left <= Lead(e) + ev[e].rem
        <5>1. PICK i \in 1 .. Len(list) : e = list[i]
          BY <1>0, <4>1, RangeElements
        <5>2. list # <<>> /\ Len(list) \in Nat
          BY <1>0, <5>1, EmptySeq, LenProperties
        <5>3. /\ 1 \in 1 .. Len(list) /\ Head(list) = list[1] /\ Head(list) \in Elem
              /\ Lead(Head(list)) \in Int /\ Lead(e) \in Int
          BY <1>0, <5>2, FirstListed, LeadType
        <5>4. Lead(Head(list)) <= Lead(e)
          BY <1>0, <5>1, <5>3 DEF InOrder
        <5>5. timerSet /\ es # NoTime
          BY <1>0, <2>1, <3>2, <5>2 DEF Wake, LeavesSafely, TimerStands
        <5>6. Ahead(es, now) \in Int /\ 0 <= Ahead(es, now)
          BY <1>0, <5>5, AheadType DEF TypeOK, EsAhead
        <5>7. Ahead(es, now) <= Lead(Head(list)) + MaxLag
          BY <1>0, <3>2, <5>2, <5>5 DEF SetInTime
        <5>8. Window(e) /\ RestFits(e) /\ ev[e].left <= Lead(e) + ev[e].rem
          BY <1>0, <4>1 DEF InWindow, IsWaiting
        <5> QED BY <1>0, <5>3, <5>4, <5>6, <5>7, <5>8
      <4>2. lag' = 0
        BY <2>1, <3>2
      <4>3. ASSUME NEW e \in Elem, IsWaiting(e)'
            PROVE  (Window(e) /\ RestFits(e) /\ ev[e].left <= Lead(e) + ev[e].rem)'
        <5>1. e \in Range(list)
          BY <2>1, <2>2, <4>3 DEF IsWaiting
        <5>2. Lead(e)' = Lead(e) /\ Lead(e) \in Int
          BY <1>0, <2>1, LeadType DEF Lead
        <5>3. Window(e)'
          BY <1>0, <4>1, <4>2, <5>1, <5>2 DEF Window
        <5>4. RestFits(e)' /\ (ev[e].left <= Lead(e) + ev[e].rem)'
          BY <2>1, <4>1, <5>1, <5>2 DEF RestFits
        <5> QED BY <5>3, <5>4
      <4> QED BY <4>3 DEF InWindow
    <3> QED BY <2>1, <3>1, <3>2
  <2> QED BY <2>3, <2>4, <2>5 DEF Times
<1>9. CASE GetTimeToNextEvent
  <2>1. /\ UNCHANGED <<now, list, ev, cur, timerSet, es, lag, notified>>
        /\ pc = "next" /\ pc' \in {"arm", "check"}
        /\ pc' = "arm" => wait' = TimeToNextEvent
    BY <1>9 DEF GetTimeToNextEvent, poolVars, intVars
  <2>2. /\ InWindow' /\ InOrder' /\ ExecutesDue' /\ LagCounts' /\ EsAhead'
        /\ SetInTime' /\ BlocksWithTimer'
    BY <1>0, <2>1
       DEF InWindow, InOrder, ExecutesDue, LagCounts, EsAhead, SetInTime,
           BlocksWithTimer, IsWaiting, Window, RestFits, Lead, InFlight, Blocked
  <2>3. ASSUME list # <<>>
        PROVE  /\ TimeToNextEvent \in Int /\ TimeToNextEvent <= EVENT_TIME_MAX
               /\ Lead(Head(list)) \in Int
               /\ TimeToNextEvent <= Lead(Head(list)) \/ TimeToNextEvent = 0
               /\ TimeToNextEvent > 0 => TimeToNextEvent <= Lead(Head(list))
    <3>1. /\ FirstTime \in Time /\ now \in Time /\ Lead(Head(list)) \in Int
          /\ Lead(Head(list)) < Half
      BY <1>0, <2>3, FirstTimeType, FirstListed, LeadType DEF TypeOK
    <3>2. Lead(Head(list)) = Ahead(FirstTime, now)
      BY DEF Lead, FirstTime
    <3> QED BY <2>3, <3>1, <3>2, AheadType, Horizon DEF TimeToNextEvent
  <2>4. ASSUME pc' = "arm"
        PROVE  TimeToNextEvent > 0
    BY <1>9, <2>4 DEF GetTimeToNextEvent
  <2>5. ArmsInTime'
    <3>1. CASE list = <<>>
      BY <2>1, <2>4, <3>1 DEF ArmsInTime, TimeToNextEvent
    <3>2. CASE list # <<>>
      <4>1. ASSUME pc' = "arm"
            PROVE  wait' <= EVENT_TIME_MAX /\ wait' <= Lead(Head(list)) + lag
        BY <1>0, <2>1, <2>3, <2>4, <3>2, <4>1
      <4> QED BY <2>1, <4>1 DEF ArmsInTime, Lead
    <3> QED BY <3>1, <3>2
  <2> QED BY <2>2, <2>5 DEF Times
<1>10. CASE ScheduleESTimer
  <2>1. /\ UNCHANGED <<now, list, ev, cur, lag, notified>>
        /\ pc = "arm" /\ pc' = "check" /\ es' = Plus(now, wait) /\ timerSet' = TRUE
    BY <1>10 DEF ScheduleESTimer, poolVars
  <2>2. Ahead(Plus(now, wait), now) = wait /\ wait \in Nat
    <3>1. wait \in Nat /\ wait < Half /\ now \in Time
      BY <1>0, <2>1, Horizon, TimeConstants DEF TypeOK, ArmsInTime
    <3> QED BY <3>1, AheadOfNow
  <2>3. InWindow' /\ InOrder' /\ ExecutesDue' /\ LagCounts' /\ ArmsInTime' /\ BlocksWithTimer'
    BY <1>0, <2>1
       DEF InWindow, InOrder, ExecutesDue, LagCounts, ArmsInTime,
           BlocksWithTimer, IsWaiting, Window, RestFits, Lead, InFlight, Blocked
  <2>4. EsAhead'
    BY <2>1, <2>2 DEF EsAhead
  <2>5. SetInTime'
    <3>1. ASSUME ~ notified, list # <<>>
          PROVE  wait <= Lead(Head(list)) + MaxLag
      <4>1. wait <= Lead(Head(list)) + lag /\ Lead(Head(list)) \in Int
        BY <1>0, <2>1, <3>1, FirstListed, LeadType DEF ArmsInTime
      <4>2. lag <= MaxLag
        BY <1>0 DEF LagCounts
      <4> QED BY <1>0, <2>2, <4>1, <4>2
    <3> QED BY <2>1, <2>2, <3>1 DEF SetInTime, Lead
  <2> QED BY <2>3, <2>4, <2>5 DEF Times
<1> QED BY <1>1, <1>2, <1>3, <1>4, <1>5, <1>6, <1>7, <1>8, <1>9, <1>10 DEF TaskStep
(* The hardware and the clock.  The clock moves every waiting event one    *)
(* nearer, and the busy period of the task with it; while the task is      *)
(* blocked the armed timer keeps the first event in the window.            *)
LEMMA TimesTick ==
  ASSUME DelaysFit, TimeInv, Tick PROVE Times'
<1>0. /\ TypeInv /\ TypeOK /\ TypeOK' /\ PoolConserved /\ Wake
      /\ lag \in Nat /\ MaxLag \in Nat /\ list \in Seq(Elem) /\ notified \in BOOLEAN
      /\ Times /\ InWindow /\ InOrder /\ ExecutesDue /\ LagCounts /\ EsAhead
      /\ ArmsInTime /\ SetInTime /\ BlocksWithTimer /\ now \in Time
      /\ ev \in [Elem -> Elements]
  BY TypeOther, SchedAssumption DEF TimeInv, PoolInv, TypeInv, TypeOK, Times
<1>1. /\ now' = Plus(now, 1) /\ lag' = (IF Blocked THEN lag ELSE lag + 1) /\ MayTick
      /\ ev' = [e \in Elem |-> IF IsWaiting(e)
                                 THEN [ev[e] EXCEPT !.left = @ - 1] ELSE ev[e]]
      /\ UNCHANGED <<list, cur, pc, timerSet, wait, es, notified>>
  BY DEF Tick, loopVars
<1>2. ASSUME es # NoTime
      PROVE  /\ Ahead(es, now) \in Int /\ 0 < Ahead(es, now)
             /\ Ahead(es, now') = Ahead(es, now) - 1
  <2>1. es \in Time /\ 0 <= Ahead(es, now)
    BY <1>0, <1>2 DEF TypeOK, EsAhead
  <2>2. /\ Ahead(es, now) \in Int /\ - Half < Ahead(es, now)
        /\ Ahead(now, es) = - Ahead(es, now) /\ Ahead(now, es) \in Int
    BY <1>0, <2>1, AheadType, HalfAssumption
  <2>3. ~ (Ahead(now, es) >= 0)
    BY <1>0, <1>1, <1>2, <2>1, AheadType DEF MayTick, EsIsDue
  <2> QED BY <1>0, <1>1, <2>1, <2>2, <2>3, AheadTick
<1>3. ASSUME NEW e \in Elem, IsWaiting(e)
      PROVE  /\ Lead(e) \in Int /\ Lead(e)' = Lead(e) - 1
             /\ ev'[e].left = ev[e].left - 1 /\ ev'[e].rem = ev[e].rem
             /\ ev[e].left \in Int /\ ev[e].rem \in Nat
             /\ Window(e) /\ RestFits(e) /\ ev[e].left <= Lead(e) + ev[e].rem
  <2>1. Window(e) /\ RestFits(e) /\ ev[e].left <= Lead(e) + ev[e].rem
    BY <1>0, <1>3 DEF InWindow
  <2>2. /\ ev[e].time \in Time /\ ev[e].left \in Int /\ ev[e].rem \in Nat
        /\ Lead(e) \in Int /\ - Half < Lead(e)
    BY <1>0, <2>1, LeadType, WindowFacts
  <2>3. /\ ev'[e].time = ev[e].time /\ ev'[e].left = ev[e].left - 1
        /\ ev'[e].rem = ev[e].rem
    <3>1. ev[e] \in Elements /\ ev'[e] = [ev[e] EXCEPT !.left = @ - 1]
      BY <1>0, <1>1, <1>3
    <3> QED BY <3>1 DEF Elements
  <2>4. Lead(e)' = Lead(e) - 1
    BY <1>0, <1>1, <2>2, <2>3, AheadTick DEF Lead
  <2> QED BY <2>1, <2>2, <2>3, <2>4
<1>4. ASSUME list # <<>>
      PROVE  /\ Head(list) \in Elem /\ IsWaiting(Head(list))
             /\ Lead(Head(list)) \in Int /\ Lead(Head(list))' = Lead(Head(list)) - 1
  <2>1. Head(list) \in Elem /\ IsWaiting(Head(list))
    BY <1>0, <1>4, FirstListed
  <2> QED BY <1>1, <1>3, <2>1 DEF Lead
<1>5. InOrder'
  <2>1. ASSUME NEW i \in 1 .. Len(list), NEW j \in 1 .. Len(list), i < j
        PROVE  Lead(list[i])' <= Lead(list[j])'
    <3>1. /\ list[i] \in Elem /\ IsWaiting(list[i])
          /\ list[j] \in Elem /\ IsWaiting(list[j])
      BY <1>0, ListedWait
    <3>2. Lead(list[i]) <= Lead(list[j])
      BY <1>0, <2>1 DEF InOrder
    <3>3. /\ Lead(list[i]) \in Int /\ Lead(list[j]) \in Int
          /\ Ahead(ev'[list[i]].time, now') = Lead(list[i]) - 1
          /\ Ahead(ev'[list[j]].time, now') = Lead(list[j]) - 1
      BY <1>3, <3>1 DEF Lead
    <3> QED BY <1>1, <3>2, <3>3 DEF Lead
  <2> QED BY <1>1, <2>1 DEF InOrder
<1>6. ExecutesDue'
  <2>1. ASSUME InFlight
        PROVE  cur \in Elem /\ IsWaiting(cur) /\ Lead(cur) <= 0
    BY <1>0, <2>1 DEF ExecutesDue, InFlight, IsWaiting, TypeOK
  <2>2. ASSUME InFlight
        PROVE  Lead(cur)' <= 0
    <3>1. Ahead(ev'[cur].time, now') = Lead(cur) - 1 /\ Lead(cur) \in Int
      BY <1>3, <2>1, <2>2 DEF Lead
    <3> QED BY <1>1, <2>1, <2>2, <3>1 DEF Lead
  <2> QED BY <1>1, <2>2 DEF ExecutesDue, InFlight
<1>7. LagCounts'
  BY <1>0, <1>1 DEF LagCounts, MayTick, Blocked
<1>8. EsAhead'
  BY <1>1, <1>2 DEF EsAhead
<1>9. ArmsInTime'
  <2>1. ASSUME pc = "arm", ~ notified, list # <<>>
        PROVE  wait <= Lead(Head(list))' + lag'
    <3>1. lag' = lag + 1 /\ wait <= Lead(Head(list)) + lag
      BY <1>0, <1>1, <2>1 DEF Blocked, ArmsInTime
    <3>2. wait \in Int
      BY <1>0, TimeConstants DEF TypeOK
    <3> QED BY <1>0, <1>4, <2>1, <3>1, <3>2
  <2> QED BY <1>0, <1>1, <2>1 DEF ArmsInTime
<1>10. SetInTime'
  <2>1. ASSUME timerSet, ~ notified, list # <<>>
        PROVE  Ahead(es, now') <= Lead(Head(list))' + MaxLag
    <3>1. es # NoTime
      BY <1>0, <2>1 DEF Wake, TimerStands
    <3>2. Ahead(es, now) <= Lead(Head(list)) + MaxLag
      BY <1>0, <2>1 DEF SetInTime
    <3> QED BY <1>0, <1>2, <1>4, <2>1, <3>1, <3>2
  <2> QED BY <1>1, <2>1 DEF SetInTime
<1>11. BlocksWithTimer'
  BY <1>0, <1>1 DEF BlocksWithTimer, Blocked
<1>12. InWindow'
  <2>1. ASSUME Blocked, NEW e \in Elem, IsWaiting(e)
        PROVE  0 < Lead(e) + MaxLag /\ lag = 0
    <3>1. lag = 0 /\ e \in Range(list) /\ ~ notified
      BY <1>0, <2>1 DEF LagCounts, Blocked, IsWaiting, InFlight
    <3>2. PICK i \in 1 .. Len(list) : e = list[i]
      BY <1>0, <3>1, RangeElements
    <3>3. list # <<>> /\ Len(list) \in Nat
      BY <1>0, <3>2, EmptySeq, LenProperties
    <3>4. 1 \in 1 .. Len(list) /\ Head(list) = list[1] /\ Lead(Head(list)) \in Int
      BY <1>0, <3>3, FirstListed, LeadType
    <3>5. Lead(Head(list)) <= Lead(e)
      BY <1>0, <1>3, <2>1, <3>2, <3>4 DEF InOrder
    <3>6. timerSet /\ es # NoTime
      BY <1>0, <2>1, <3>1, <3>3 DEF BlocksWithTimer, Wake, TimerStands
    <3>7. Ahead(es, now) <= Lead(Head(list)) + MaxLag
      BY <1>0, <3>1, <3>3, <3>6 DEF SetInTime
    <3> QED BY <1>0, <1>2, <1>3, <2>1, <3>1, <3>4, <3>5, <3>6, <3>7
  <2>2. ASSUME NEW e \in Elem, IsWaiting(e)
        PROVE  (Window(e) /\ RestFits(e) /\ ev[e].left <= Lead(e) + ev[e].rem)'
    <3>1. 0 <= Lead(e)' + MaxLag + lag'
      <4>1. /\ Lead(e)' = Lead(e) - 1 /\ Lead(e) \in Int
            /\ 0 <= Lead(e) + MaxLag + lag
        BY <1>3, <2>2 DEF Window
      <4>2. CASE Blocked
        <5>1. lag' = lag /\ 0 < Lead(e) + MaxLag
          BY <1>1, <2>1, <2>2, <4>2
        <5> QED BY <1>0, <4>1, <5>1
      <4>3. CASE ~ Blocked
        <5>1. lag' = lag + 1
          BY <1>1, <4>3
        <5> QED BY <1>0, <4>1, <5>1
      <4> QED BY <4>2, <4>3
    <3>2. Lead(e)' + 2 * MaxLag < EVENT_TIME_MAX
      BY <1>3, <2>2, Horizon DEF Window
    <3>3. Window(e)'
      BY <3>1, <3>2 DEF Window
    <3>4. RestFits(e)'
      BY <1>3, <2>2 DEF RestFits
    <3>5. ev'[e].left <= Lead(e)' + ev'[e].rem
      BY <1>3, <2>2
    <3> QED BY <3>3, <3>4, <3>5
  <2>3. ASSUME NEW e \in Elem, IsWaiting(e)' PROVE IsWaiting(e)
    BY <1>1, <2>3 DEF IsWaiting, InFlight
  <2> QED BY <2>2, <2>3 DEF InWindow
<1> QED BY <1>5, <1>6, <1>7, <1>8, <1>9, <1>10, <1>11, <1>12 DEF Times

LEMMA TimesHardware ==
  ASSUME DelaysFit, TimeInv, HardwareStep PROVE Times'
<1>0. /\ TypeInv /\ TypeOK /\ TypeOK' /\ Wake /\ notified \in BOOLEAN
      /\ Times /\ InWindow /\ InOrder /\ ExecutesDue /\ LagCounts /\ EsAhead
      /\ ArmsInTime /\ SetInTime /\ BlocksWithTimer
  BY TypeOther DEF TimeInv, PoolInv, TypeInv, TypeOK, Times
<1>1. CASE EsFires
  <2>1. /\ UNCHANGED <<now, list, ev, cur, pc, timerSet, wait, lag>>
        /\ es' = NoTime /\ es # NoTime
        /\ notified' = (notified \/ "es" \notin masked)
    BY <1>1 DEF EsFires, EsIsDue, Raise, poolVars, loopVars
  <2>2. timerSet => notified'
    BY <1>0, <2>1 DEF Wake, TimerStands
  <2> QED BY <1>0, <2>1, <2>2
          DEF Times, InWindow, InOrder, ExecutesDue, LagCounts, EsAhead,
              ArmsInTime, SetInTime, BlocksWithTimer, IsWaiting, Window, RestFits, Lead,
              InFlight, Blocked
<1>2. CASE RadioRaises
  BY <1>0, <1>2, TimesFrame DEF RadioRaises, Raise, poolVars, loopVars
<1> QED BY <1>1, <1>2 DEF HardwareStep

LEMMA TimesInit ==
  ASSUME Init PROVE Times
<1>1. Len(list) = 0 /\ Range(list) = {} /\ list = <<>>
  BY EmptySeq DEF Init, Range
<1> QED BY <1>1, SchedAssumption
        DEF Init, Times, InWindow, InOrder, ExecutesDue, LagCounts, EsAhead,
            ArmsInTime, SetInTime, BlocksWithTimer, IsWaiting, InFlight

LEMMA TimeNext ==
  ASSUME DelaysFit, TimeInv, [Next]_vars PROVE TimeInv'
<1>1. PoolInv' /\ Wake'
  BY PoolNext, WakeNext DEF TimeInv, WakeInv, PoolInv
<1>2. CASE UNCHANGED vars
  <2>1. TypeOK' /\ notified \in BOOLEAN
    BY <1>1 DEF TimeInv, PoolInv, TypeInv, TypeOK
  <2>2. /\ UNCHANGED <<now, list, ev, cur, timerSet, wait, es, lag, notified>>
        /\ pc' = pc
    BY <1>2 DEF vars
  <2>3. Times'
    BY <2>1, <2>2, TimesFrame
  <2> QED BY <1>1, <2>3 DEF TimeInv
<1> QED BY <1>1, <1>2, TimesCaller, TimesTask, TimesTick, TimesHardware DEF Next, TimeInv

LEMMA TimeInvariant ==
  ASSUME DelaysFit PROVE Spec => []TimeInv
<1>1. Init => TimeInv
  BY TypeInit, PoolInit, WakeInit, TimesInit DEF TimeInv, PoolInv
<1>2. TimeInv /\ [Next]_vars => TimeInv'
  BY TimeNext
<1> QED BY <1>1, <1>2, PTL DEF Spec
-----------------------------------------------------------------------------
(* The order of the list, seen through the modular comparison.             *)
LEMMA SortedByWindow ==
  ASSUME DelaysFit, TimeInv PROVE ListSorted
<1>1. TypeOK /\ InWindow /\ InOrder /\ LagCounts
  BY DEF TimeInv, PoolInv, TypeInv, Times
<1>2. ASSUME NEW i \in 1 .. Len(list), NEW j \in 1 .. Len(list), i < j
      PROVE  ~ TIME_COMPARE_BIGGER(ev[list[i]].time, ev[list[j]].time)
  <2>1. /\ list[i] \in Elem /\ Window(list[i])
        /\ list[j] \in Elem /\ Window(list[j])
    BY <1>1, ListedWait DEF InWindow
  <2>2. /\ ev[list[j]].time \in Time /\ Ahead(ev[list[j]].time, now) = Lead(list[j])
        /\ - (2 * MaxLag) <= Lead(list[j]) /\ Lead(list[j]) < EVENT_TIME_MAX - 2 * MaxLag
        /\ Lead(list[j]) \in Int /\ Lead(list[i]) \in Int
    BY <1>1, <2>1, LeadType, WindowFacts DEF Lead
  <2>3. TIME_COMPARE_BIGGER(ev[list[i]].time, ev[list[j]].time)
          <=> Lead(list[j]) < Lead(list[i])
    BY <1>1, <2>1, <2>2, OrderOfTimes
  <2>4. Lead(list[i]) <= Lead(list[j])
    BY <1>1, <1>2 DEF InOrder
  <2> QED BY <2>2, <2>3, <2>4
<1> QED BY <1>2 DEF ListSorted

(* The list is in the order of its deadlines at every moment, however      *)
(* often the clock has wrapped: the modular comparison of any two listed   *)
(* events is their true order, and GetEvent may look at the first one only.*)
THEOREM ListIsSorted ==
  ASSUME DelaysFit PROVE Spec => []ListSorted
<1>1. TimeInv => ListSorted
  BY SortedByWindow
<1> QED BY <1>1, TimeInvariant, PTL

(* No listed deadline, nor the intervals still to come behind it, ever     *)
(* stands for less than what is left of the delay asked for.               *)
THEOREM DelaysAreKept ==
  ASSUME DelaysFit PROVE Spec => []DueIsKept
<1>1. TimeInv => DueIsKept
  <2> SUFFICES ASSUME TimeInv, NEW e \in Range(list)
               PROVE  Ahead(ev[e].time, now) + ev[e].rem >= ev[e].left
    BY DEF DueIsKept
  <2>1. TypeOK /\ InWindow /\ list \in Seq(Elem)
    BY DEF TimeInv, PoolInv, TypeInv, TypeOK, Times
  <2>2. e \in Elem /\ IsWaiting(e)
    BY <2>1, RangeElements DEF IsWaiting
  <2>3. ev[e].left <= Lead(e) + ev[e].rem
    BY <2>1, <2>2 DEF InWindow
  <2> QED BY <2>1, <2>2, <2>3, LeadType DEF Lead
<1> QED BY <1>1, TimeInvariant, PTL

(* No listed event is overdue by more than two busy periods of the task.   *)
THEOREM OverdueIsBounded ==
  ASSUME DelaysFit PROVE Spec => []OverdueBounded
<1>1. TimeInv => OverdueBounded
  <2> SUFFICES ASSUME TimeInv, NEW e \in Range(list)
               PROVE  Ahead(now, ev[e].time) <= 2 * MaxLag
    BY DEF OverdueBounded
  <2>1. TypeOK /\ InWindow /\ LagCounts /\ list \in Seq(Elem) /\ now \in Time
    BY DEF TimeInv, PoolInv, TypeInv, TypeOK, Times
  <2>2. e \in Elem /\ Window(e)
    BY <2>1, RangeElements DEF InWindow, IsWaiting
  <2>3. /\ Lead(e) \in Int /\ - (2 * MaxLag) <= Lead(e) /\ - Half < Lead(e)
        /\ ev[e].time \in Time
    BY <2>1, <2>2, WindowFacts, LeadType
  <2>4. Ahead(now, ev[e].time) = - Lead(e)
    BY <2>1, <2>3, AheadType DEF Lead
  <2> QED BY <2>3, <2>4, Horizon
<1> QED BY <1>1, TimeInvariant, PTL

(* Whenever the task blocks with an event listed, the ES timer it armed    *)
(* goes off no later than the first deadline plus one busy period.         *)
THEOREM WakesUpInTime ==
  ASSUME DelaysFit PROVE Spec => []WakeUpInTime
<1>1. TimeInv => WakeUpInTime
  <2> SUFFICES ASSUME TimeInv, Blocked, list # <<>>, es # NoTime
               PROVE  Ahead(es, FirstTime) <= MaxLag
    BY DEF WakeUpInTime
  <2>1. /\ TypeOK /\ InWindow /\ LagCounts /\ now \in Time /\ es \in Time
        /\ SetInTime /\ BlocksWithTimer /\ EsAhead /\ MaxLag \in Nat
    BY SchedAssumption DEF TimeInv, PoolInv, TypeInv, TypeOK, Times
  <2>2. Head(list) \in Elem /\ Window(Head(list)) /\ FirstTime \in Time
    BY <2>1, FirstListed, FirstTimeType DEF InWindow
  <2>3. /\ Lead(Head(list)) \in Int /\ Lead(Head(list)) < EVENT_TIME_MAX - 2 * MaxLag
        /\ Ahead(FirstTime, now) = Lead(Head(list))
    BY <2>1, <2>2, WindowFacts DEF Lead, FirstTime
  <2>4. timerSet /\ ~ notified
    BY <2>1 DEF BlocksWithTimer, Blocked
  <2>5. /\ Ahead(es, now) \in Int /\ 0 <= Ahead(es, now)
        /\ Ahead(es, now) <= Lead(Head(list)) + MaxLag
    BY <2>1, <2>4, AheadType DEF EsAhead, SetInTime
  <2>6. /\ - Half < Ahead(es, now) - Lead(Head(list))
        /\ Ahead(es, now) - Lead(Head(list)) <= MaxLag
        /\ Ahead(es, now) - Lead(Head(list)) < Half
    BY <2>1, <2>3, <2>5, Horizon
  <2>7. Ahead(es, FirstTime) = Ahead(es, now) - Lead(Head(list))
    BY <2>1, <2>2, <2>3, <2>6, AheadCompare
  <2> QED BY <2>6, <2>7
<1> QED BY <1>1, TimeInvariant, PTL

(* No callback runs before the delay its caller asked for has elapsed,     *)
(* whatever the wrap-arounds, re-schedulings and deferrals on its way.     *)
THEOREM RunsNeverEarly ==
  ASSUME DelaysFit PROVE Spec => NeverEarly
<1>1. TimeInv /\ [Next]_vars => [ExecEvent => ev[cur].left <= 0]_vars
  <2> SUFFICES ASSUME TimeInv, ExecEvent PROVE ev[cur].left <= 0
    OBVIOUS
  <2>1. /\ TypeOK /\ InWindow /\ ExecutesDue /\ pc = "exec" /\ ev[cur].rem = 0
        /\ cur \in Elem /\ cur # NoElem
    BY SchedAssumption DEF TimeInv, PoolInv, TypeInv, Held, Times, ExecEvent
  <2>2. IsWaiting(cur) /\ Lead(cur) <= 0
    BY <2>1 DEF IsWaiting, InFlight, ExecutesDue
  <2>3. ev[cur].left <= Lead(cur) + ev[cur].rem
    BY <2>1, <2>2 DEF InWindow
  <2> QED BY <2>1, <2>2, <2>3, LeadType
<1> QED BY <1>1, TimeInvariant, PTL DEF Spec, NeverEarly
-----------------------------------------------------------------------------
(* The two assertions of the scheduler.  Their operands: the pool is never *)
(* empty when an event is to be listed, and the delay is never further     *)
(* from the first deadline than the comparison can tell.                   *)
AssertInv == TimeInv /\ Outstanding <= MaxPending /\ NoAssertion

LEMMA RangeCardinality ==
  ASSUME NEW S, NEW s \in Seq(S)
  PROVE  /\ IsFiniteSet(Range(s)) /\ Cardinality(Range(s)) \in Nat
         /\ Cardinality(Range(s)) <= Len(s)
<1>1. Len(s) \in Nat /\ IsFiniteSet(1 .. Len(s)) /\ Cardinality(1 .. Len(s)) = Len(s)
  <2>1. Len(s) \in Nat
    BY LenProperties
  <2>2. /\ IsFiniteSet(1 .. Len(s))
        /\ Cardinality(1 .. Len(s)) = IF 1 > Len(s) THEN 0 ELSE Len(s) - 1 + 1
    BY <2>1, FS_Interval
  <2> QED BY <2>1, <2>2
<1>2. s \in Surjection(1 .. Len(s), Range(s))
  <2>1. Range(s) = {s[i] : i \in 1 .. Len(s)} /\ DOMAIN s = 1 .. Len(s)
    BY RangeElements, LenProperties
  <2>2. s \in [1 .. Len(s) -> Range(s)]
    BY <2>1, LenProperties
  <2> QED BY <2>1, <2>2 DEF Surjection
<1> QED BY <1>1, <1>2, FS_Surjection, FS_CardinalityType

LEMMA PoolHasSpare ==
  ASSUME PoolSuffices, PoolInv, Len(list) + 1 <= MaxPending
  PROVE  free # <<>>
<1> SUFFICES ASSUME free = <<>> PROVE FALSE
  OBVIOUS
<1>1. list \in Seq(Elem) /\ Len(list) \in Nat /\ cur \in Elem \cup {NoElem}
  BY LenProperties DEF PoolInv, TypeInv, TypeOK
<1>2. Range(free) = {}
  BY DEF Range
<1>3. Elem \subseteq Range(list) \cup {cur}
  BY <1>2 DEF PoolInv, PoolConserved
<1>4. /\ IsFiniteSet(Range(list)) /\ Cardinality(Range(list)) \in Nat
      /\ Cardinality(Range(list)) <= Len(list)
  BY <1>1, RangeCardinality
<1>5. /\ IsFiniteSet(Range(list) \cup {cur})
      /\ Cardinality(Range(list) \cup {cur}) <= Cardinality(Range(list)) + 1
  BY <1>4, FS_AddElement
<1>6. Cardinality(Elem) <= Cardinality(Range(list) \cup {cur})
  BY <1>3, <1>5, FS_Subset
<1>7. Cardinality(Range(list) \cup {cur}) \in Nat /\ Cardinality(Elem) \in Nat
      /\ MaxPending \in Nat
  BY <1>5, SchedAssumption, FS_CardinalityType
<1> QED BY <1>1, <1>4, <1>5, <1>6, <1>7 DEF PoolSuffices

LEMMA DelayInRange ==
  ASSUME DelaysFit, TimeInv, NEW r \in Nat, r + 2 * MaxLag < EVENT_TIME_MAX
  PROVE  InRange(r)
<1>1. CASE list = <<>>
  BY <1>1 DEF InRange
<1>2. CASE list # <<>>
  <2>1. TypeOK /\ InWindow /\ LagCounts /\ now \in Time
    BY DEF TimeInv, PoolInv, TypeInv, TypeOK, Times
  <2>2. Head(list) \in Elem /\ Window(Head(list)) /\ FirstTime \in Time
    BY <1>2, <2>1, FirstListed, FirstTimeType DEF InWindow
  <2>3. /\ Ahead(FirstTime, now) \in Int /\ - (2 * MaxLag) <= Ahead(FirstTime, now)
        /\ Ahead(FirstTime, now) < EVENT_TIME_MAX - 2 * MaxLag
    BY <2>1, <2>2, WindowFacts DEF Lead, FirstTime
  <2> HIDE DEF FirstTime
  <2>4. r < Plus(Minus(FirstTime, now), EVENT_TIME_MAX)
    BY <2>1, <2>2, <2>3, Horizon DEF Plus, Minus, Ahead, Time, Modulus
  <2> QED BY <2>4 DEF InRange
<1> QED BY <1>1, <1>2

(* Listing with a spare element and a delay in range.                      *)
LEMMA ListsOne ==
  ASSUME PoolInv, NEW t \in Time, NEW cb, NEW arg, NEW rem, NEW left, free # <<>>,
         NEW r, r, ScheduleEvent(t, r, cb, arg, rem, left)
  PROVE  /\ Len(list') = Len(list) + 1 /\ Len(list) \in Nat
         /\ fault' = fault
<1>1. list \in Seq(Elem) /\ free \in Seq(Elem) /\ Head(free) \in Elem
  BY HeadTailProperties DEF PoolInv, TypeInv, TypeOK
<1>2. list' = InsertAt(list, InsertPos(t), Head(free)) /\ fault' = fault
  BY DEF ScheduleEvent
<1> QED BY <1>1, <1>2, InsertPosRange, InsertAtElements, LenProperties

LEMMA AssertNext ==
  ASSUME DelaysFit, PoolSuffices, AssertInv, [Next]_vars PROVE AssertInv'
<1> DEFINE busy == IF InFlight THEN 1 ELSE 0
<1>0. /\ TimeInv /\ TimeInv' /\ PoolInv /\ TypeInv /\ TypeOK /\ MaxPending \in Nat
      /\ list \in Seq(Elem) /\ isrQ \in Seq(QueueItems) /\ Len(list) \in Nat
      /\ Len(isrQ) \in Nat /\ fault = "none"
      /\ Len(list) + Len(isrQ) + (IF InFlight THEN 1 ELSE 0) <= MaxPending
  BY TimeNext, LenProperties, SchedAssumption
     DEF AssertInv, TimeInv, PoolInv, TypeInv, TypeOK, NoAssertion, Outstanding
<1> SUFFICES Outstanding' <= MaxPending /\ fault' = "none"
  BY <1>0 DEF AssertInv, NoAssertion
<1>1. ASSUME UNCHANGED <<list, isrQ, cur, fault>>, pc' = pc \/ pc' # "exec"
      PROVE  Outstanding' <= MaxPending /\ fault' = "none"
  BY <1>0, <1>1 DEF Outstanding, InFlight
<1>2. ASSUME MayCall PROVE Len(list) + Len(isrQ) + busy + 1 <= MaxPending
  BY <1>0, <1>2 DEF MayCall, Outstanding
<1>3. ASSUME NEW cb \in Callbacks, NEW arg \in Args, NEW rel \in RelTimes,
             ScheduleEventArg(rel, cb, arg)
      PROVE  Outstanding' <= MaxPending /\ fault' = "none"
  <2>1. /\ MayCall /\ UNCHANGED <<cur, pc, isrQ>>
        /\ ScheduleEvent(AbsTime(rel), InRange(rel), cb, arg, 0, Delay(rel))
    BY <1>3 DEF ScheduleEventArg, loopVars, isrVars
  <2>2. free # <<>>
    BY <1>0, <1>2, <2>1, PoolHasSpare
  <2>3. AbsTime(rel) \in Time /\ InRange(rel)
    BY <1>0, TimeConstants, AbsTimeType, DelayInRange DEF DelaysFit
  <2>4. Len(list') = Len(list) + 1 /\ fault' = fault
    BY <1>0, <2>1, <2>2, <2>3, ListsOne
  <2> QED BY <1>0, <1>2, <2>1, <2>4 DEF Outstanding, InFlight
<1>4. ASSUME NEW cb \in Callbacks, NEW arg \in Args, NEW s \in Seconds,
             ScheduleEventInSeconds(s, cb, arg)
      PROVE  Outstanding' <= MaxPending /\ fault' = "none"
  <2>1. /\ MayCall /\ UNCHANGED <<cur, pc, isrQ>>
        /\ ScheduleEvent(AbsTime(FirstPart(s)), InRange(FirstPart(s)), cb, arg,
                         RestPart(s), s)
    BY <1>4 DEF ScheduleEventInSeconds, loopVars, isrVars
  <2>2. free # <<>>
    BY <1>0, <1>2, <2>1, PoolHasSpare
  <2>3. s \in Nat /\ FirstPart(s) \in Nat
    BY SchedAssumption, Parts, TimeConstants
  <2>4. AbsTime(FirstPart(s)) \in Time /\ InRange(FirstPart(s))
    BY <1>0, <2>3, AbsTimeType, DelayInRange DEF DelaysFit
  <2>5. Len(list') = Len(list) + 1 /\ fault' = fault
    BY <1>0, <2>1, <2>2, <2>4, ListsOne
  <2> QED BY <1>0, <1>2, <2>1, <2>5 DEF Outstanding, InFlight
<1>5. ASSUME NEW cb \in Callbacks, NEW arg \in Args, NEW rel \in RelTimes,
             ScheduleEventDeferred(rel, cb, arg)
      PROVE  Outstanding' <= MaxPending /\ fault' = "none"
  <2> DEFINE item == [rel |-> rel, cb |-> cb, arg |-> arg, age |-> 0]
  <2>1. item \in QueueItems
    BY DEF QueueItems
  <2>2. Len(Append(isrQ, item)) = Len(isrQ) + 1
    BY <1>0, <2>1, AppendProperties
  <2> HIDE DEF item
  <2>3. /\ MayCall /\ UNCHANGED <<list, cur, pc, fault>>
        /\ isrQ' \in {isrQ, Append(isrQ, item)}
    BY <1>5 DEF ScheduleEventDeferred, poolVars, loopVars, item
  <2> QED BY <1>0, <1>2, <2>2, <2>3 DEF Outstanding, InFlight
<1>6. ASSUME NEW cb \in Callbacks, NEW arg \in Args, UnscheduleEventArg(cb, arg)
      PROVE  Outstanding' <= MaxPending /\ fault' = "none"
  <2>1. /\ FindEventArg(cb, arg) \in 1 .. Len(list)
        /\ list' = RemoveAt(list, FindEventArg(cb, arg))
        /\ UNCHANGED <<cur, pc, isrQ, fault>>
    BY <1>0, <1>6, FindEventArgRange DEF UnscheduleEventArg, loopVars, isrVars
  <2>2. Len(list') = Len(list) - 1
    BY <1>0, <2>1, RemoveAtElements
  <2> QED BY <1>0, <2>1, <2>2 DEF Outstanding, InFlight
<1>7. CASE Clear
  <2>1. Len(list') = 0 /\ UNCHANGED <<cur, pc, isrQ, fault>>
    BY <1>7, EmptySeq DEF Clear, loopVars, isrVars
  <2> QED BY <1>0, <2>1 DEF Outstanding, InFlight
<1>8. CASE DeferredEvent
  <2>1. CASE isrQ = <<>>
    BY <1>1, <1>8, <2>1 DEF DeferredEvent, poolVars, loopVars
  <2>2. CASE isrQ # <<>>
    <3> DEFINE q == Head(isrQ)
    <3>1. q \in QueueItems /\ Len(Tail(isrQ)) = Len(isrQ) - 1 /\ Len(isrQ) # 0
      BY <1>0, <2>2, HeadTailProperties, EmptySeq
    <3>2. q.rel \in RelTimes
      BY <3>1 DEF QueueItems
    <3>3. /\ ScheduleEvent(AbsTime(q.rel), InRange(q.rel), q.cb, q.arg, 0,
                           Delay(q.rel) - q.age)
          /\ UNCHANGED <<cur, pc>> /\ isrQ' = Tail(isrQ)
      BY <1>8, <2>2 DEF DeferredEvent, loopVars
    <3> HIDE DEF q
    <3>4. free # <<>>
      BY <1>0, <3>1, PoolHasSpare
    <3>5. AbsTime(q.rel) \in Time /\ InRange(q.rel)
      BY <1>0, <3>2, TimeConstants, AbsTimeType, DelayInRange DEF DelaysFit
    <3>6. Len(list') = Len(list) + 1 /\ fault' = fault
      BY <1>0, <3>3, <3>4, <3>5, ListsOne
    <3> QED BY <1>0, <3>1, <3>3, <3>6 DEF Outstanding, InFlight
  <2> QED BY <2>1, <2>2
<1>9. CASE GetEvent
  <2>1. CASE IsDue
    <3>1. /\ Len(Tail(list)) = Len(list) - 1
      BY <1>0, <2>1, HeadTailProperties DEF IsDue
    <3>2. /\ list' = Tail(list) /\ UNCHANGED <<isrQ, fault>> /\ pc = "get"
      BY <1>9, <2>1 DEF GetEvent, isrVars
    <3> DEFINE m == Len(list)
               k == Len(isrQ)
    <3>3. ~ InFlight /\ m + k <= MaxPending
      BY <1>0, <3>2 DEF InFlight
    <3>4. Outstanding' \in {(m - 1) + k + 0, (m - 1) + k + 1}
      BY <3>1, <3>2 DEF Outstanding
    <3>5. m \in Int /\ k \in Int /\ MaxPending \in Int /\ fault' = "none"
      BY <1>0, <3>2
    <3> HIDE DEF m, k
    <3> QED BY <3>3, <3>4, <3>5
  <2>2. CASE ~ IsDue
    BY <1>1, <1>9, <2>2 DEF GetEvent, AfterBody, isrVars
  <2> QED BY <2>1, <2>2
<1>10. CASE ReScheduleInSeconds
  <2> DEFINE d == ev[cur]
             t == Plus(d.time, FirstPart(d.rem))
  <2>1. /\ cur \in Elem /\ cur # NoElem /\ pc = "exec" /\ pc' = "release"
        /\ UNCHANGED <<cur, isrQ>>
        /\ ScheduleEvent(t, TRUE, d.cb, d.arg, RestPart(d.rem), d.left)
    BY <1>0, <1>10, SchedAssumption DEF ReScheduleInSeconds, TypeInv, Held, isrVars
  <2>2. t \in Time
    <3>1. d.time \in Time /\ d.rem \in Nat
      BY <1>0, <2>1 DEF TypeOK, Elements
    <3> QED BY <3>1, Parts, TimeArithmetic
  <2>3. InFlight /\ Len(list) + 1 <= MaxPending
    BY <1>0, <2>1 DEF InFlight
  <2>4. free # <<>>
    BY <1>0, <2>3, PoolHasSpare
  <2> HIDE DEF d, t
  <2>5. Len(list') = Len(list) + 1 /\ fault' = fault
    BY <1>0, <2>1, <2>2, <2>4, ListsOne
  <2> QED BY <1>0, <2>1, <2>3, <2>5 DEF Outstanding, InFlight
<1>11. CASE ReleaseEvent
  <2>1. UNCHANGED <<list, isrQ, fault>> /\ pc' # "exec"
    BY <1>11 DEF ReleaseEvent, AfterBody, isrVars
  <2> QED BY <1>0, <2>1 DEF Outstanding, InFlight
<1>12. CASE TaskStep
  <2>1. CASE \/ TaskNotifyWait \/ HandleRadioInterrupt \/ UnmaskRadioInterrupt
             \/ ExecEvent \/ CheckQueue \/ CheckRadio \/ GetTimeToNextEvent
             \/ ScheduleESTimer
    BY <1>1, <2>1
       DEF TaskNotifyWait, HandleRadioInterrupt, UnmaskRadioInterrupt, ExecEvent,
           CheckQueue, CheckRadio, GetTimeToNextEvent, ScheduleESTimer, poolVars, isrVars
  <2> QED BY <1>9, <1>10, <1>11, <1>12, <2>1 DEF TaskStep
<1>13. CASE HardwareStep
  BY <1>1, <1>13 DEF HardwareStep, EsFires, RadioRaises, Raise, poolVars, loopVars, isrVars
<1>14. CASE Tick
  <2>1. /\ isrQ' = [i \in 1 .. Len(isrQ) |-> [isrQ[i] EXCEPT !.age = @ + 1]]
        /\ UNCHANGED <<list, cur, pc, fault>>
    BY <1>14 DEF Tick, loopVars
  <2>2. isrQ' \in Seq(QueueItems) /\ DOMAIN isrQ' = 1 .. Len(isrQ)
    BY <1>0, <2>1 DEF TimeInv, PoolInv, TypeInv, TypeOK
  <2>3. Len(isrQ') = Len(isrQ)
    BY <1>0, <2>2, LenProperties
  <2> QED BY <1>0, <2>1, <2>3 DEF Outstanding, InFlight
<1>15. ASSUME NEW cb \in Callbacks, NEW arg \in Args, GetRemainingTimeFind(cb, arg)
       PROVE  Outstanding' <= MaxPending /\ fault' = "none"
  BY <1>1, <1>15 DEF GetRemainingTimeFind, poolVars, loopVars, isrVars
<1>16. CASE GetRemainingTimeRead
  BY <1>1, <1>16 DEF GetRemainingTimeRead, poolVars, loopVars, isrVars
<1>17. CASE CallerStep
  BY <1>3, <1>4, <1>5, <1>6, <1>7, <1>15, <1>16, <1>17 DEF CallerStep
<1>18. CASE UNCHANGED vars
  BY <1>1, <1>18 DEF vars
<1> QED BY <1>8, <1>12, <1>13, <1>14, <1>17, <1>18 DEF Next

LEMMA AssertInit ==
  ASSUME Init PROVE AssertInv
<1>1. TimeInv
  BY TypeInit, PoolInit, WakeInit, TimesInit DEF TimeInv, PoolInv
<1>2. Outstanding = 0
  BY EmptySeq DEF Init, Outstanding, InFlight
<1> QED BY <1>1, <1>2, SchedAssumption DEF AssertInv, NoAssertion, Init

(* With delays that fit and one element left for the event being executed, *)
(* neither GP_ASSERT of the scheduler (the pool is empty; the delay is too *)
(* far from the first deadline) ever fires.                                *)
THEOREM NoAssertionFires ==
  ASSUME DelaysFit, PoolSuffices PROVE Spec => []NoAssertion
<1>1. Init => AssertInv
  BY AssertInit
<1>2. AssertInv /\ [Next]_vars => AssertInv'
  BY AssertNext
<1>3. AssertInv => NoAssertion
  BY DEF AssertInv
<1> QED BY <1>1, <1>2, <1>3, PTL DEF Spec
-----------------------------------------------------------------------------
(***************************************************************************)
(* The scheduler implements the promise of SchedAbs, for every size of the *)
(* pool, of the queue and of the clock: every step of list, pool, timer,   *)
(* queue and task is a step of the bag of requests, or changes nothing     *)
(* there.                                                                  *)
(*                                                                         *)
(* A bag is compared request by request: how often a request occurs among  *)
(* the listed, the queued and the unlinked ones is all that counts.        *)
(***************************************************************************)

(* The requests of the abstract state, and their bag by counts.            *)
Asked == [cb : Callbacks \cup {NoElem}, arg : Args \cup {NoElem}, left : Int]

LEMMA CountIn ==
  ASSUME NEW S, NEW s \in Seq(S)
  PROVE  \A r : Count(s, r) \in Nat /\ (r \in Range(s) <=> Count(s, r) > 0)
<1> SUFFICES ASSUME NEW r
             PROVE  Count(s, r) \in Nat /\ (r \in Range(s) <=> Count(s, r) > 0)
  OBVIOUS
<1> QED BY CountType

LEMMA BagSame ==
  ASSUME NEW S, NEW s \in Seq(S), NEW t \in Seq(S),
         \A r : Count(t, r) = Count(s, r)
  PROVE  BagOf(t) = BagOf(s)
<1>1. ASSUME NEW r PROVE r \in Range(t) <=> r \in Range(s)
  BY CountIn
<1> QED BY <1>1 DEF BagOf, Count

LEMMA BagAdd ==
  ASSUME NEW S, NEW s \in Seq(S), NEW t \in Seq(S), NEW x,
         \A r : Count(t, r) = Count(s, r) + One(x, r)
  PROVE  BagOf(t) = BagOf(s) (+) SetToBag({x})
<1> DEFINE b == BagOf(s)
           c == SetToBag({x})
<1>1. /\ DOMAIN b = Range(s) /\ \A r \in Range(s) : b[r] = Count(s, r)
      /\ DOMAIN c = {x} /\ c[x] = 1
  BY DEF BagOf, Count, SetToBag
<1>2. Range(t) = Range(s) \cup {x}
  <2>1. ASSUME NEW r PROVE r \in Range(t) <=> r \in Range(s) \cup {x}
    BY CountIn DEF One
  <2> QED BY <2>1
<1>3. BagOf(t) = [r \in Range(t) |-> Count(t, r)]
  BY DEF BagOf, Count
<1> HIDE DEF b, c
<1>4. b (+) c = [r \in DOMAIN b \cup DOMAIN c |->
                   (IF r \in DOMAIN b THEN b[r] ELSE 0)
                     + (IF r \in DOMAIN c THEN c[r] ELSE 0)]
  BY DEF (+)
<1>5. ASSUME NEW r \in Range(t)
      PROVE  Count(t, r) = (IF r \in DOMAIN b THEN b[r] ELSE 0)
                             + (IF r \in DOMAIN c THEN c[r] ELSE 0)
  <2>1. Count(s, r) \in Nat /\ (r \in Range(s) <=> Count(s, r) > 0)
    BY CountIn
  <2>2. Count(t, r) = Count(s, r) + One(x, r)
    OBVIOUS
  <2>3. (IF r \in DOMAIN b THEN b[r] ELSE 0) = Count(s, r)
    BY <1>1, <2>1
  <2>4. (IF r \in DOMAIN c THEN c[r] ELSE 0) = One(x, r)
    BY <1>1 DEF One
  <2> QED BY <2>2, <2>3, <2>4
<1>6. BagOf(t) = b (+) c
  BY <1>1, <1>2, <1>3, <1>4, <1>5
<1> QED BY <1>6 DEF b, c

(* A bag without one copy of x.                                            *)
Without(b, x) == b (-) SetToBag({x})

LEMMA BagTake ==
  ASSUME NEW S, NEW s \in Seq(S), NEW t \in Seq(S), NEW x,
         \A r : Count(s, r) = Count(t, r) + One(x, r)
  PROVE  x \in DOMAIN BagOf(s) /\ BagOf(t) = Without(BagOf(s), x)
<1> DEFINE b == BagOf(s)
           c == SetToBag({x})
           d == [r \in DOMAIN b |-> IF r \in DOMAIN c THEN b[r] - c[r] ELSE b[r]]
<1>1. /\ DOMAIN b = Range(s) /\ \A r \in Range(s) : b[r] = Count(s, r)
      /\ DOMAIN c = {x} /\ c[x] = 1
  BY DEF BagOf, Count, SetToBag
<1>2. BagOf(t) = [r \in Range(t) |-> Count(t, r)]
  BY DEF BagOf, Count
<1>3. x \in Range(s)
  <2>1. Count(s, x) = Count(t, x) + 1 /\ Count(t, x) \in Nat
    BY CountIn DEF One
  <2> QED BY <2>1, CountIn
<1> HIDE DEF b, c
<1>4. b (-) c = [r \in {q \in DOMAIN d : d[q] > 0} |-> d[r]]
  BY DEF (-)
<1>5. ASSUME NEW r \in Range(s) PROVE d[r] = Count(t, r)
  <2>1. Count(t, r) \in Nat /\ Count(s, r) = Count(t, r) + One(x, r)
    BY CountIn
  <2>2. d[r] = IF r = x THEN Count(s, r) - 1 ELSE Count(s, r)
    BY <1>1
  <2> QED BY <2>1, <2>2 DEF One
<1>6. DOMAIN d = Range(s)
  BY <1>1
<1> HIDE DEF d
<1>7. {q \in DOMAIN d : d[q] > 0} = Range(t)
  <2>1. ASSUME NEW q PROVE q \in Range(t) <=> q \in Range(s) /\ Count(t, q) > 0
    <3>1. /\ Count(t, q) \in Nat /\ Count(s, q) = Count(t, q) + One(x, q)
          /\ q \in Range(t) <=> Count(t, q) > 0
          /\ q \in Range(s) <=> Count(s, q) > 0
      BY CountIn
    <3> QED BY <3>1 DEF One
  <2> QED BY <1>5, <1>6, <2>1
<1>8. BagOf(t) = b (-) c
  <2>1. \A r \in Range(t) : r \in Range(s)
    BY <1>6, <1>7
  <2> QED BY <1>2, <1>4, <1>5, <1>7, <2>1
<1> QED BY <1>1, <1>3, <1>8 DEF b, c, Without

LEMMA BagLess ==
  ASSUME NEW S, NEW s \in Seq(S), NEW t \in Seq(S),
         \A r : Count(t, r) <= Count(s, r)
  PROVE  BagOf(t) \sqsubseteq BagOf(s)
<1>1. /\ DOMAIN BagOf(s) = Range(s) /\ \A r \in Range(s) : BagOf(s)[r] = Count(s, r)
      /\ DOMAIN BagOf(t) = Range(t) /\ \A r \in Range(t) : BagOf(t)[r] = Count(t, r)
  BY DEF BagOf, Count
<1>2. ASSUME NEW r \in Range(t) PROVE r \in Range(s)
  <2>1. Count(t, r) > 0 /\ Count(t, r) <= Count(s, r) /\ Count(t, r) \in Nat
        /\ Count(s, r) \in Nat
    BY CountIn
  <2> QED BY <2>1, CountIn
<1> QED BY <1>1, <1>2 DEF \sqsubseteq
-----------------------------------------------------------------------------
(* The promise is about lateness too: the way to the deadline, with all    *)
(* intervals to come, is no longer than what is left of the delay, but for *)
(* the time an event spent in the queue from interrupts, which is bounded. *)
NotLate ==
  /\ \A e \in Elem : IsWaiting(e) => Lead(e) + ev[e].rem <= ev[e].left + MaxLag
  /\ \A i \in 1 .. Len(isrQ) : isrQ[i].age <= MaxLag

LateInv == AssertInv /\ NotLate

LEMMA LateFacts ==
  ASSUME LateInv
  PROVE  /\ TimeInv /\ PoolInv /\ TypeInv /\ TypeOK /\ PoolConserved /\ NotLate
         /\ list \in Seq(Elem) /\ free \in Seq(Elem) /\ ev \in [Elem -> Elements]
         /\ isrQ \in Seq(QueueItems) /\ cur \in Elem \cup {NoElem} /\ now \in Time
         /\ MaxLag \in Nat /\ NoElem \notin Elem
         /\ pc \in {"exec", "release"} => cur \in Elem
BY SchedAssumption DEF LateInv, AssertInv, TimeInv, PoolInv, TypeInv, TypeOK, Held

(* Nothing new waits.                                                      *)
LEMMA LateFrame ==
  ASSUME LateInv, UNCHANGED <<now, isrQ>>,
         \A e \in Elem : IsWaiting(e)' => IsWaiting(e) /\ ev'[e] = ev[e]
  PROVE  NotLate'
<1>1. ASSUME NEW e \in Elem, IsWaiting(e)'
      PROVE  (Lead(e) + ev[e].rem <= ev[e].left + MaxLag)'
  <2>1. IsWaiting(e) /\ ev'[e] = ev[e] /\ Lead(e) + ev[e].rem <= ev[e].left + MaxLag
    BY <1>1, LateFacts DEF NotLate
  <2> QED BY <2>1 DEF Lead
<1> QED BY <1>1, LateFacts DEF NotLate

LEMMA LateSame ==
  ASSUME LateInv, UNCHANGED <<now, isrQ, list, ev, cur>>, pc' = pc \/ pc' # "exec"
  PROVE  NotLate'
<1>1. \A e \in Elem : IsWaiting(e)' => IsWaiting(e) /\ ev'[e] = ev[e]
  BY DEF IsWaiting, InFlight
<1> QED BY <1>1, LateFrame

(* A new event.                                                            *)
LEMMA LateSchedule ==
  ASSUME LateInv, UNCHANGED <<now, cur>>, pc' = pc \/ pc' # "exec",
         \A i \in 1 .. Len(isrQ') : isrQ'[i].age <= MaxLag,
         NEW t \in Time, NEW r, NEW cb, NEW arg, NEW rem \in Nat, NEW left \in Int,
         ScheduleEvent(t, r, cb, arg, rem, left),
         Ahead(t, now) + rem <= left + MaxLag
  PROVE  NotLate'
<1>0. InFlight' => InFlight
  BY DEF InFlight
<1>1. CASE free = <<>> \/ ~ r
  BY <1>0, <1>1, LateFacts DEF ScheduleEvent, NotLate, IsWaiting, Lead
<1>2. CASE ~ (free = <<>> \/ ~ r)
  <2> DEFINE new == Head(free)
             rec == [time |-> t, cb |-> cb, arg |-> arg, rem |-> rem, left |-> left]
  <2>1. /\ free # <<>> /\ ev' = [ev EXCEPT ![new] = rec]
        /\ list' = InsertAt(list, InsertPos(t), new)
    BY <1>2 DEF ScheduleEvent
  <2>2. new \in Elem /\ InsertPos(t) \in 1 .. Len(list) + 1
    BY <2>1, LateFacts, HeadTailProperties, InsertPosRange
  <2>3. rec.time = t /\ rec.rem = rem /\ rec.left = left
    OBVIOUS
  <2> HIDE DEF new, rec
  <2>4. Range(list') = Range(list) \cup {new}
    BY <2>1, <2>2, LateFacts, InsertAtRange
  <2>5. ASSUME NEW e \in Elem, IsWaiting(e)'
        PROVE  (Lead(e) + ev[e].rem <= ev[e].left + MaxLag)'
    <3>1. CASE e = new
      <4>1. ev'[e] = rec /\ now' = now
        BY <2>1, <3>1, LateFacts
      <4> QED BY <2>3, <4>1 DEF Lead
    <3>2. CASE e # new
      <4>1. ev'[e] = ev[e] /\ now' = now /\ IsWaiting(e)
        BY <1>0, <2>1, <2>4, <2>5, <3>2, LateFacts DEF IsWaiting
      <4>2. Lead(e) + ev[e].rem <= ev[e].left + MaxLag
        BY <4>1, LateFacts DEF NotLate
      <4> QED BY <4>1, <4>2 DEF Lead
    <3> QED BY <3>1, <3>2
  <2> QED BY <2>5 DEF NotLate
<1> QED BY <1>1, <1>2

LEMMA LateCaller ==
  ASSUME DelaysFit, LateInv, CallerStep \/ DeferredEvent PROVE NotLate'
<1>0. \A i \in 1 .. Len(isrQ) : isrQ[i].age <= MaxLag
  BY LateFacts DEF NotLate
<1>a. ASSUME NEW rel \in RelTimes
      PROVE  /\ rel \in Nat /\ AbsTime(rel) \in Time
             /\ Ahead(AbsTime(rel), now) = rel /\ Delay(rel) = rel
  <2>1. rel \in Nat /\ rel + 2 * MaxLag < EVENT_TIME_MAX
    BY SchedAssumption, TimeConstants DEF DelaysFit
  <2> QED BY <2>1, LateFacts, DelayLeads
<1>1. ASSUME NEW cb \in Callbacks, NEW arg \in Args, NEW rel \in RelTimes,
             ScheduleEventArg(rel, cb, arg)
      PROVE  NotLate'
  <2>1. /\ ScheduleEvent(AbsTime(rel), InRange(rel), cb, arg, 0, Delay(rel))
        /\ UNCHANGED <<now, cur, pc, isrQ>>
    BY <1>1 DEF ScheduleEventArg, loopVars, isrVars
  <2>2. Ahead(AbsTime(rel), now) + 0 <= Delay(rel) + MaxLag /\ Delay(rel) \in Int
    BY <1>a, LateFacts
  <2> QED BY <1>0, <1>a, <2>1, <2>2, LateSchedule
<1>2. ASSUME NEW cb \in Callbacks, NEW arg \in Args, NEW s \in Seconds,
             ScheduleEventInSeconds(s, cb, arg)
      PROVE  NotLate'
  <2>1. /\ ScheduleEvent(AbsTime(FirstPart(s)), InRange(FirstPart(s)), cb, arg,
                         RestPart(s), s)
        /\ UNCHANGED <<now, cur, pc, isrQ>>
    BY <1>2 DEF ScheduleEventInSeconds, loopVars, isrVars
  <2>2. /\ s \in Nat /\ FirstPart(s) \in Nat /\ RestPart(s) \in Nat
        /\ FirstPart(s) + RestPart(s) = s /\ FirstPart(s) + 2 * MaxLag < EVENT_TIME_MAX
    <3>1. s \in Nat /\ Interval \in Nat
      BY SchedAssumption, Horizon
    <3> QED BY <3>1 DEF FirstPart, RestPart, DelaysFit
  <2>3. AbsTime(FirstPart(s)) \in Time /\ Ahead(AbsTime(FirstPart(s)), now) = FirstPart(s)
    BY <2>2, LateFacts, DelayLeads
  <2>4. Ahead(AbsTime(FirstPart(s)), now) + RestPart(s) <= s + MaxLag
    BY <2>2, <2>3, LateFacts
  <2> QED BY <1>0, <2>1, <2>2, <2>3, <2>4, LateSchedule
<1>3. ASSUME NEW cb \in Callbacks, NEW arg \in Args, NEW rel \in RelTimes,
             ScheduleEventDeferred(rel, cb, arg)
      PROVE  NotLate'
  <2> DEFINE item == [rel |-> rel, cb |-> cb, arg |-> arg, age |-> 0]
  <2>1. item \in QueueItems /\ item.age = 0
    BY DEF QueueItems
  <2> HIDE DEF item
  <2>2. UNCHANGED <<now, list, ev, cur, pc>> /\ isrQ' \in {isrQ, Append(isrQ, item)}
    BY <1>3 DEF ScheduleEventDeferred, poolVars, loopVars, item
  <2>3. ASSUME isrQ' = Append(isrQ, item), NEW i \in 1 .. Len(isrQ')
        PROVE  isrQ'[i].age <= MaxLag
    <3>1. /\ Len(Append(isrQ, item)) = Len(isrQ) + 1 /\ Len(isrQ) \in Nat
          /\ \A j \in 1 .. Len(isrQ) : Append(isrQ, item)[j] = isrQ[j]
          /\ Append(isrQ, item)[Len(isrQ) + 1] = item
      BY <2>1, LateFacts, AppendProperties, LenProperties
    <3> QED BY <1>0, <2>1, <2>3, <3>1, LateFacts
  <2>4. \A i \in 1 .. Len(isrQ') : isrQ'[i].age <= MaxLag
    BY <1>0, <2>2, <2>3
  <2>5. \A e \in Elem : IsWaiting(e)' <=> IsWaiting(e)
    BY <2>2 DEF IsWaiting, InFlight
  <2> QED BY <2>2, <2>4, <2>5, LateFacts DEF NotLate, Lead
<1>4. ASSUME NEW cb \in Callbacks, NEW arg \in Args, UnscheduleEventArg(cb, arg)
      PROVE  NotLate'
  <2> DEFINE i == FindEventArg(cb, arg)
  <2>1. /\ i \in 1 .. Len(list) /\ list[i] \in Range(list)
    BY <1>4, LateFacts, FindEventArgRange, RangeElements DEF UnscheduleEventArg
  <2>2. /\ list' = RemoveAt(list, i) /\ ev' = Forget({list[i]})
        /\ UNCHANGED <<now, cur, pc, isrQ>>
    BY <1>4 DEF UnscheduleEventArg, loopVars, isrVars
  <2> HIDE DEF i
  <2>3. Range(list') = Range(list) \ {list[i]} /\ cur # list[i]
    BY <2>1, <2>2, LateFacts, RemoveAtRange DEF PoolConserved
  <2>4. \A e \in Elem : IsWaiting(e)' => IsWaiting(e) /\ ev'[e] = ev[e]
    BY <2>2, <2>3 DEF IsWaiting, InFlight, Forget
  <2> QED BY <2>2, <2>4, LateFrame
<1>5. CASE Clear
  <2>1. /\ list' = <<>> /\ ev' = Forget(Range(list))
        /\ UNCHANGED <<now, cur, pc, isrQ>>
    BY <1>5 DEF Clear, loopVars, isrVars
  <2>2. Range(list') = {} /\ cur \notin Range(list)
    BY <2>1, LateFacts DEF PoolConserved, Range
  <2>3. \A e \in Elem : IsWaiting(e)' => IsWaiting(e) /\ ev'[e] = ev[e]
    BY <2>1, <2>2 DEF IsWaiting, InFlight, Forget
  <2> QED BY <2>1, <2>3, LateFrame
<1>6. CASE DeferredEvent
  <2>1. CASE isrQ = <<>>
    BY <1>6, <2>1, LateSame DEF DeferredEvent, poolVars, loopVars
  <2>2. CASE isrQ # <<>>
    <3> DEFINE q == Head(isrQ)
    <3>1. /\ q \in QueueItems /\ Tail(isrQ) \in Seq(QueueItems)
          /\ Len(Tail(isrQ)) = Len(isrQ) - 1 /\ Len(isrQ) \in Nat
          /\ \A i \in 1 .. Len(Tail(isrQ)) : Tail(isrQ)[i] = isrQ[i + 1]
          /\ 1 \in 1 .. Len(isrQ) /\ q = isrQ[1]
      BY <2>2, LateFacts, HeadTailProperties, EmptySeq, LenProperties
    <3>2. q.rel \in RelTimes /\ q.age \in Nat /\ q.age <= MaxLag
      BY <1>0, <3>1 DEF QueueItems
    <3>3. /\ ScheduleEvent(AbsTime(q.rel), InRange(q.rel), q.cb, q.arg, 0,
                           Delay(q.rel) - q.age)
          /\ UNCHANGED <<now, cur, pc>> /\ isrQ' = Tail(isrQ)
      BY <1>6, <2>2 DEF DeferredEvent, loopVars
    <3> HIDE DEF q
    <3>4. \A i \in 1 .. Len(isrQ') : isrQ'[i].age <= MaxLag
      BY <1>0, <3>1, <3>3
    <3>5. /\ AbsTime(q.rel) \in Time /\ Delay(q.rel) - q.age \in Int
          /\ Ahead(AbsTime(q.rel), now) + 0 <= (Delay(q.rel) - q.age) + MaxLag
      BY <1>a, <3>2, LateFacts
    <3> QED BY <3>3, <3>4, <3>5, LateSchedule
  <2> QED BY <2>1, <2>2
<1>7. CASE GetRemainingTimeRead
  BY <1>7, LateSame DEF GetRemainingTimeRead, poolVars, loopVars, isrVars
<1>8. ASSUME NEW cb \in Callbacks, NEW arg \in Args, GetRemainingTimeFind(cb, arg)
      PROVE  NotLate'
  BY <1>8, LateSame DEF GetRemainingTimeFind, poolVars, loopVars, isrVars
<1> QED BY <1>1, <1>2, <1>3, <1>4, <1>5, <1>6, <1>7, <1>8 DEF CallerStep

LEMMA LateTask ==
  ASSUME DelaysFit, LateInv, TaskStep PROVE NotLate'
<1>1. CASE GetEvent
  <2>1. CASE IsDue
    <3>1. /\ list # <<>> /\ cur' = Head(list) /\ list' = Tail(list)
          /\ UNCHANGED <<now, ev, isrQ>>
      BY <1>1, <2>1 DEF GetEvent, IsDue, isrVars
    <3>2. Head(list) \in Range(list) /\ Range(Tail(list)) = Range(list) \ {Head(list)}
      BY <3>1, LateFacts, TailRange DEF PoolConserved
    <3>3. \A e \in Elem : IsWaiting(e)' => IsWaiting(e) /\ ev'[e] = ev[e]
      BY <3>1, <3>2 DEF IsWaiting, InFlight
    <3> QED BY <3>1, <3>3, LateFrame
  <2>2. CASE ~ IsDue
    BY <1>1, <2>2, LateSame DEF GetEvent, AfterBody, isrVars
  <2> QED BY <2>1, <2>2
<1>2. CASE ReScheduleInSeconds
  <2> DEFINE d == ev[cur]
             t == Plus(d.time, FirstPart(d.rem))
  <2>1. /\ cur \in Elem /\ IsWaiting(cur) /\ pc' = "release" /\ d.rem > 0
        /\ UNCHANGED <<now, cur, isrQ>>
        /\ ScheduleEvent(t, TRUE, d.cb, d.arg, RestPart(d.rem), d.left)
    BY <1>2, LateFacts DEF ReScheduleInSeconds, IsWaiting, InFlight, isrVars
  <2>2. /\ d.time \in Time /\ d.rem \in Nat /\ d.left \in Int
        /\ Lead(cur) \in Int /\ Lead(cur) + d.rem <= d.left + MaxLag /\ Lead(cur) <= 0
        /\ Interval + 2 * MaxLag < EVENT_TIME_MAX
    <3>1. Lead(cur) <= 0 /\ RestFits(cur)
      BY <1>2, <2>1, LateFacts
         DEF TimeInv, Times, ExecutesDue, InFlight, InWindow, ReScheduleInSeconds
    <3>2. Lead(cur) + d.rem <= d.left + MaxLag
      BY <2>1, LateFacts DEF NotLate
    <3> QED BY <2>1, <3>1, <3>2, LateFacts, LeadType DEF RestFits
  <2>3. /\ FirstPart(d.rem) \in Nat /\ RestPart(d.rem) \in Nat
        /\ FirstPart(d.rem) <= Interval /\ FirstPart(d.rem) + RestPart(d.rem) = d.rem
    <3>1. Interval \in Nat
      BY Horizon
    <3> HIDE DEF d
    <3> QED BY <2>2, <3>1 DEF FirstPart, RestPart
  <2>4. t \in Time /\ Ahead(t, now) = Lead(cur) + FirstPart(d.rem)
    <3>1. FirstPart(d.rem) \in Time
      BY <2>2, Parts
    <3>2. Lead(cur) + FirstPart(d.rem) < Half /\ FirstPart(d.rem) < Half
      BY <2>2, <2>3, Horizon
    <3> QED BY <2>2, <2>3, <3>1, <3>2, LateFacts, TimeArithmetic, AheadOfSum DEF Lead
  <2> HIDE DEF d, t
  <2>5. Ahead(t, now) + RestPart(d.rem) <= d.left + MaxLag
    BY <2>2, <2>3, <2>4, LateFacts
  <2>6. \A i \in 1 .. Len(isrQ') : isrQ'[i].age <= MaxLag
    BY <2>1, LateFacts DEF NotLate
  <2> QED BY <2>1, <2>2, <2>3, <2>4, <2>5, <2>6, LateSchedule
<1>3. CASE ReleaseEvent
  <2>1. /\ UNCHANGED <<now, list, isrQ>> /\ ev' = Forget({cur}) /\ ~ InFlight'
    BY <1>3 DEF ReleaseEvent, AfterBody, InFlight, isrVars
  <2>2. \A e \in Elem : IsWaiting(e)' => IsWaiting(e) /\ ev'[e] = ev[e]
    BY <2>1, LateFacts DEF IsWaiting, PoolConserved, Forget
  <2> QED BY <2>1, <2>2, LateFrame
<1>4. CASE \/ TaskNotifyWait \/ HandleRadioInterrupt \/ UnmaskRadioInterrupt
           \/ ExecEvent \/ CheckQueue \/ CheckRadio \/ GetTimeToNextEvent
           \/ ScheduleESTimer
  BY <1>4, LateSame
     DEF TaskNotifyWait, HandleRadioInterrupt, UnmaskRadioInterrupt, ExecEvent,
         CheckQueue, CheckRadio, GetTimeToNextEvent, ScheduleESTimer, poolVars, isrVars
<1> QED BY <1>1, <1>2, <1>3, <1>4 DEF TaskStep

(* A tick brings deadline and delay one nearer together.                   *)
LEMMA TickFacts ==
  ASSUME DelaysFit, LateInv, Tick
  PROVE  /\ UNCHANGED <<list, cur, pc>> /\ MayTick
         /\ \A e \in Elem : IsWaiting(e) =>
              /\ ev'[e] = [ev[e] EXCEPT !.left = @ - 1] /\ ev[e] \in Elements
              /\ Lead(e) \in Int /\ Lead(e)' = Lead(e) - 1 /\ Window(e)
         /\ isrQ' = [i \in 1 .. Len(isrQ) |-> [isrQ[i] EXCEPT !.age = @ + 1]]
         /\ \A i \in 1 .. Len(isrQ) : isrQ[i].age < MaxLag
<1>1. /\ now' = Plus(now, 1) /\ MayTick /\ UNCHANGED <<list, cur, pc>>
      /\ ev' = [e \in Elem |-> IF IsWaiting(e)
                                 THEN [ev[e] EXCEPT !.left = @ - 1] ELSE ev[e]]
      /\ isrQ' = [i \in 1 .. Len(isrQ) |-> [isrQ[i] EXCEPT !.age = @ + 1]]
  BY DEF Tick, loopVars
<1>2. ASSUME NEW e \in Elem, IsWaiting(e)
      PROVE  /\ ev'[e] = [ev[e] EXCEPT !.left = @ - 1] /\ ev[e] \in Elements
             /\ Lead(e) \in Int /\ Lead(e)' = Lead(e) - 1 /\ Window(e)
  <2>1. Window(e) /\ ev[e] \in Elements /\ ev'[e] = [ev[e] EXCEPT !.left = @ - 1]
    BY <1>1, <1>2, LateFacts DEF TimeInv, Times, InWindow
  <2>2. Lead(e) \in Int /\ - Half < Lead(e) /\ ev[e].time \in Time
    BY <2>1, LateFacts, LeadType, WindowFacts DEF TimeInv, Times
  <2>3. ev'[e].time = ev[e].time
    BY <2>1 DEF Elements
  <2> QED BY <1>1, <2>1, <2>2, <2>3, LateFacts, AheadTick DEF Lead
<1>3. \A i \in 1 .. Len(isrQ) : isrQ[i].age < MaxLag
  BY <1>1 DEF MayTick
<1> QED BY <1>1, <1>2, <1>3

LEMMA LateTick ==
  ASSUME DelaysFit, LateInv, Tick PROVE NotLate'
<1>1. ASSUME NEW e \in Elem, IsWaiting(e)'
      PROVE  (Lead(e) + ev[e].rem <= ev[e].left + MaxLag)'
  <2>1. IsWaiting(e) /\ Lead(e) + ev[e].rem <= ev[e].left + MaxLag
    BY <1>1, TickFacts, LateFacts DEF IsWaiting, InFlight, NotLate
  <2>2. /\ ev'[e] = [ev[e] EXCEPT !.left = @ - 1] /\ ev[e] \in Elements
        /\ Lead(e) \in Int /\ Lead(e)' = Lead(e) - 1
    BY <2>1, TickFacts
  <2>3. /\ ev'[e].rem = ev[e].rem /\ ev'[e].left = ev[e].left - 1
        /\ ev[e].rem \in Nat /\ ev[e].left \in Int
    BY <2>2 DEF Elements
  <2> QED BY <2>1, <2>2, <2>3, LateFacts
<1>2. ASSUME NEW i \in 1 .. Len(isrQ')
      PROVE  isrQ'[i].age <= MaxLag
  <2>1. i \in 1 .. Len(isrQ)
    <3>1. DOMAIN isrQ' = 1 .. Len(isrQ) /\ Len(isrQ) \in Nat
      BY TickFacts, LateFacts, LenProperties
    <3>2. isrQ' \in Seq(QueueItems)
      BY TypeOther, LateFacts DEF TypeInv, TypeOK
    <3> QED BY <1>2, <3>1, <3>2, LenProperties
  <2>2. isrQ[i] \in QueueItems /\ isrQ'[i] = [isrQ[i] EXCEPT !.age = @ + 1]
        /\ isrQ[i].age < MaxLag
    BY <2>1, TickFacts, LateFacts, ElementOfSeq
  <2>3. isrQ'[i].age = isrQ[i].age + 1 /\ isrQ[i].age \in Nat
    BY <2>2 DEF QueueItems
  <2> QED BY <2>2, <2>3, LateFacts
<1> QED BY <1>1, <1>2 DEF NotLate

LEMMA LateNext ==
  ASSUME DelaysFit, PoolSuffices, LateInv, [Next]_vars PROVE LateInv'
<1>1. AssertInv'
  BY AssertNext DEF LateInv
<1>2. ASSUME HardwareStep PROVE NotLate'
  BY <1>2, LateSame DEF HardwareStep, EsFires, RadioRaises, Raise, poolVars, loopVars,
                        isrVars
<1>3. ASSUME UNCHANGED vars PROVE NotLate'
  BY <1>3, LateSame DEF vars
<1>4. NotLate'
  BY <1>2, <1>3, LateCaller, LateTask, LateTick DEF Next
<1> QED BY <1>1, <1>4 DEF LateInv
-----------------------------------------------------------------------------
(* The requests, by where they wait.                                       *)
ListedOf(l, e) == [i \in 1 .. Len(l) |-> Request(e[l[i]])]

QueuedOf(q) == [i \in 1 .. Len(q) |-> Deferred(q[i])]

InHand(p, c, e) == IF c # NoElem /\ p = "exec" THEN <<Request(e[c])>> ELSE <<>>

All(l, e, q, p, c) == ListedOf(l, e) \o QueuedOf(q) \o InHand(p, c, e)

LEMMA AskedType ==
  /\ \A d \in Elements : Request(d) \in Asked
  /\ \A q \in QueueItems : Deferred(q) \in Asked
<1>1. ASSUME NEW d \in Elements PROVE Request(d) \in Asked
  BY DEF Elements, Request, Asked
<1>2. ASSUME NEW q \in QueueItems PROVE Deferred(q) \in Asked
  <2>1. q.rel \in RelTimes /\ q.cb \in Callbacks /\ q.arg \in Args /\ q.age \in Nat
    BY DEF QueueItems
  <2>2. Delay(q.rel) \in Int
    <3>1. Delay(q.rel) \in Nat
      BY <2>1, TimeConstants, Zenon
    <3> QED BY <3>1
  <2> QED BY <2>1, <2>2 DEF Deferred, Asked
<1> QED BY <1>1, <1>2

LEMMA ListedType ==
  ASSUME NEW l \in Seq(Elem), NEW e \in [Elem -> Elements]
  PROVE  /\ ListedOf(l, e) \in Seq(Asked) /\ Len(ListedOf(l, e)) = Len(l)
         /\ \A i \in 1 .. Len(l) : ListedOf(l, e)[i] = Request(e[l[i]])
<1>1. Len(l) \in Nat
  BY LenProperties
<1>2. \A i \in 1 .. Len(l) : Request(e[l[i]]) \in Asked
  BY AskedType, ElementOfSeq
<1>3. ListedOf(l, e) \in [1 .. Len(l) -> Asked]
  BY <1>2 DEF ListedOf
<1>4. ListedOf(l, e) \in Seq(Asked) /\ Len(ListedOf(l, e)) = Len(l)
  BY <1>1, <1>3, LenProperties
<1> QED BY <1>4 DEF ListedOf

LEMMA QueuedType ==
  ASSUME NEW q \in Seq(QueueItems)
  PROVE  /\ QueuedOf(q) \in Seq(Asked) /\ Len(QueuedOf(q)) = Len(q)
         /\ \A i \in 1 .. Len(q) : QueuedOf(q)[i] = Deferred(q[i])
<1>1. Len(q) \in Nat
  BY LenProperties
<1>2. \A i \in 1 .. Len(q) : Deferred(q[i]) \in Asked
  BY AskedType, ElementOfSeq
<1>3. QueuedOf(q) \in [1 .. Len(q) -> Asked]
  BY <1>2 DEF QueuedOf
<1>4. QueuedOf(q) \in Seq(Asked) /\ Len(QueuedOf(q)) = Len(q)
  BY <1>1, <1>3, LenProperties
<1> QED BY <1>4 DEF QueuedOf

LEMMA InHandType ==
  ASSUME NEW e \in [Elem -> Elements], NEW p, NEW c \in Elem \cup {NoElem}
  PROVE  InHand(p, c, e) \in Seq(Asked)
<1>1. ASSUME c # NoElem PROVE <<Request(e[c])>> \in Seq(Asked)
  BY <1>1, AskedType
<1> QED BY <1>1 DEF InHand

LEMMA CountAll ==
  ASSUME NEW l \in Seq(Elem), NEW e \in [Elem -> Elements], NEW q \in Seq(QueueItems),
         NEW p, NEW c \in Elem \cup {NoElem}
  PROVE  /\ All(l, e, q, p, c) \in Seq(Asked)
         /\ \A r : /\ Count(All(l, e, q, p, c), r)
                        = Count(ListedOf(l, e), r) + Count(QueuedOf(q), r)
                            + Count(InHand(p, c, e), r)
                   /\ Count(ListedOf(l, e), r) \in Nat /\ Count(QueuedOf(q), r) \in Nat
                   /\ Count(InHand(p, c, e), r) \in Nat
<1> DEFINE L == ListedOf(l, e)
           Q == QueuedOf(q)
           H == InHand(p, c, e)
<1>1. L \in Seq(Asked) /\ Q \in Seq(Asked) /\ H \in Seq(Asked)
  BY ListedType, QueuedType, InHandType
<1>2. All(l, e, q, p, c) = (L \o Q) \o H
  BY DEF All
<1> HIDE DEF L, Q, H
<1>3. L \o Q \in Seq(Asked) /\ (L \o Q) \o H \in Seq(Asked)
  BY <1>1, ConcatProperties
<1>4. ASSUME NEW r
      PROVE  /\ Count((L \o Q) \o H, r) = Count(L, r) + Count(Q, r) + Count(H, r)
             /\ Count(L, r) \in Nat /\ Count(Q, r) \in Nat /\ Count(H, r) \in Nat
  <2>1. /\ Count((L \o Q) \o H, r) = Count(L \o Q, r) + Count(H, r)
    BY <1>1, <1>3, CountConcat
  <2>2. Count(L \o Q, r) = Count(L, r) + Count(Q, r)
    BY <1>1, CountConcat
  <2> QED BY <1>1, <2>1, <2>2, CountType
<1> QED BY <1>2, <1>3, <1>4 DEF L, Q, H

(* One request more in the list.                                           *)
LEMMA CountListed ==
  ASSUME NEW l \in Seq(Elem), NEW e \in [Elem -> Elements], NEW x \in Elem,
         NEW i \in 1 .. Len(l) + 1, NEW r
  PROVE  Count(ListedOf(InsertAt(l, i, x), e), r)
           = Count(ListedOf(l, e), r) + One(Request(e[x]), r)
<1> DEFINE m == InsertAt(l, i, x)
           L == ListedOf(l, e)
           M == ListedOf(m, e)
           y == Request(e[x])
<1>1. /\ m \in Seq(Elem) /\ Len(m) = Len(l) + 1 /\ Len(l) \in Nat
      /\ \A j \in 1 .. Len(l) + 1 :
           m[j] = IF j < i THEN l[j] ELSE IF j = i THEN x ELSE l[j - 1]
  BY InsertAtElements, LenProperties
<1> HIDE DEF m
<1>2. /\ L \in Seq(Asked) /\ Len(L) = Len(l)
      /\ \A j \in 1 .. Len(l) : L[j] = Request(e[l[j]])
  BY ListedType DEF L
<1>3. /\ M \in Seq(Asked) /\ Len(M) = Len(m)
      /\ \A j \in 1 .. Len(m) : M[j] = Request(e[m[j]])
  BY <1>1, ListedType DEF M
<1> HIDE DEF L, M
<1>4. y \in Asked /\ i \in 1 .. Len(L) + 1 /\ L \in Seq(Asked)
  BY <1>2, AskedType
<1>5. y = Request(e[x])
  OBVIOUS
<1> HIDE DEF y
<1>6. /\ InsertAt(L, i, y) \in Seq(Asked) /\ Len(InsertAt(L, i, y)) = Len(L) + 1
      /\ \A j \in 1 .. Len(L) + 1 :
           InsertAt(L, i, y)[j] = IF j < i THEN L[j] ELSE IF j = i THEN y ELSE L[j - 1]
  BY <1>4, InsertAtElements
<1>7. ASSUME NEW j \in 1 .. Len(M) PROVE M[j] = InsertAt(L, i, y)[j]
  <2>1. /\ j \in 1 .. Len(l) + 1 /\ M[j] = Request(e[m[j]])
        /\ m[j] = IF j < i THEN l[j] ELSE IF j = i THEN x ELSE l[j - 1]
        /\ InsertAt(L, i, y)[j] = IF j < i THEN L[j] ELSE IF j = i THEN y ELSE L[j - 1]
    BY <1>1, <1>2, <1>3, <1>6
  <2>2. CASE j < i
    <3>1. j \in 1 .. Len(l) /\ m[j] = l[j] /\ InsertAt(L, i, y)[j] = L[j]
      BY <1>1, <2>1, <2>2
    <3> QED BY <1>2, <2>1, <3>1
  <2>3. CASE j = i
    BY <1>5, <2>1, <2>3
  <2>4. CASE j > i
    <3>1. j - 1 \in 1 .. Len(l) /\ ~ (j < i) /\ j # i
      BY <1>1, <2>1, <2>4
    <3>2. m[j] = l[j - 1] /\ InsertAt(L, i, y)[j] = L[j - 1]
      BY <2>1, <3>1
    <3>3. L[j - 1] = Request(e[l[j - 1]])
      BY <1>2, <3>1
    <3> QED BY <2>1, <3>2, <3>3
  <2> QED BY <1>1, <2>1, <2>2, <2>3, <2>4
<1>8. M = InsertAt(L, i, y)
  <2>1. Len(M) = Len(InsertAt(L, i, y))
    BY <1>1, <1>2, <1>3, <1>6
  <2> QED BY <1>3, <1>6, <1>7, <2>1, SeqEqual
<1>9. Count(M, r) = Count(L, r) + One(y, r)
  BY <1>4, <1>8, CountInsert
<1> QED BY <1>9 DEF L, M, m, y

(* A listed element is changed nowhere else than in the list.              *)
LEMMA ListedSame ==
  ASSUME NEW l \in Seq(Elem), NEW e, NEW f, \A x \in Range(l) : f[x] = e[x]
  PROVE  ListedOf(l, f) = ListedOf(l, e)
<1>1. \A i \in 1 .. Len(l) : l[i] \in Range(l)
  BY RangeElements
<1> QED BY <1>1 DEF ListedOf

(* One request less.                                                       *)
LEMMA CountUnlisted ==
  ASSUME NEW l \in Seq(Elem), NEW e \in [Elem -> Elements], NEW i \in 1 .. Len(l), NEW r
  PROVE  Count(ListedOf(l, e), r)
           = Count(ListedOf(RemoveAt(l, i), e), r) + One(Request(e[l[i]]), r)
<1> DEFINE m == RemoveAt(l, i)
           L == ListedOf(l, e)
           M == ListedOf(m, e)
<1>1. /\ m \in Seq(Elem) /\ Len(m) = Len(l) - 1 /\ Len(l) \in Nat
      /\ \A j \in 1 .. Len(l) - 1 : m[j] = IF j < i THEN l[j] ELSE l[j + 1]
  BY RemoveAtElements, LenProperties
<1> HIDE DEF m
<1>2. /\ L \in Seq(Asked) /\ Len(L) = Len(l)
      /\ \A j \in 1 .. Len(l) : L[j] = Request(e[l[j]])
  BY ListedType DEF L
<1>3. /\ M \in Seq(Asked) /\ Len(M) = Len(m)
      /\ \A j \in 1 .. Len(m) : M[j] = Request(e[m[j]])
  BY <1>1, ListedType DEF M
<1> HIDE DEF L, M
<1>4. /\ RemoveAt(L, i) \in Seq(Asked) /\ Len(RemoveAt(L, i)) = Len(L) - 1
      /\ \A j \in 1 .. Len(L) - 1 :
           RemoveAt(L, i)[j] = IF j < i THEN L[j] ELSE L[j + 1]
  BY <1>2, RemoveAtElements
<1>5. ASSUME NEW j \in 1 .. Len(M) PROVE M[j] = RemoveAt(L, i)[j]
  <2>1. /\ j \in 1 .. Len(l) - 1 /\ M[j] = Request(e[m[j]])
        /\ j \in 1 .. Len(l) /\ j + 1 \in 1 .. Len(l)
    BY <1>1, <1>3
  <2> QED BY <1>1, <1>2, <1>4, <2>1
<1>6. M = RemoveAt(L, i)
  <2>1. Len(M) = Len(RemoveAt(L, i))
    BY <1>1, <1>2, <1>3, <1>4
  <2> QED BY <1>3, <1>4, <1>5, <2>1, SeqEqual
<1>7. Count(L, r) = Count(RemoveAt(L, i), r) + One(L[i], r)
  BY <1>2, CountRemove
<1> QED BY <1>2, <1>6, <1>7 DEF L, M, m
-----------------------------------------------------------------------------
(* The steps of the promise, by what they do to the counts.                *)
AbsRunning == IF pc = "release" /\ ev[cur].rem = 0
                THEN <<ev[cur].cb, ev[cur].arg>> ELSE NoElem

LEMMA Mapped ==
  ASSUME LateInv, LateInv'
  PROVE  /\ AllRequests = All(list, ev, isrQ, pc, cur)
         /\ AllRequests' = All(list', ev', isrQ', pc', cur')
         /\ AllRequests \in Seq(Asked) /\ AllRequests' \in Seq(Asked)
         /\ Abs!absVars = <<BagOf(AllRequests), AbsRunning>>
         /\ Abs!absVars' = <<BagOf(AllRequests'), AbsRunning'>>
<1>1. /\ AllRequests = All(list, ev, isrQ, pc, cur)
      /\ AllRequests' = All(list', ev', isrQ', pc', cur')
  BY DEF AllRequests, All, ListedOf, QueuedOf, InHand, InFlight
<1>2. /\ list' \in Seq(Elem) /\ ev' \in [Elem -> Elements]
      /\ isrQ' \in Seq(QueueItems) /\ cur' \in Elem \cup {NoElem}
  BY DEF LateInv, AssertInv, TimeInv, PoolInv, TypeInv, TypeOK
<1>3. AllRequests \in Seq(Asked) /\ AllRequests' \in Seq(Asked)
  BY <1>1, <1>2, LateFacts, CountAll
<1> QED BY <1>1, <1>3 DEF Abs!absVars, AbsRunning, BagOf

(* The counts, place by place, before and after the step.                  *)
LEMMA Counts ==
  ASSUME LateInv, LateInv', NEW r
  PROVE  /\ Count(AllRequests, r) = Count(ListedOf(list, ev), r)
              + Count(QueuedOf(isrQ), r) + Count(InHand(pc, cur, ev), r)
         /\ Count(AllRequests', r) = Count(ListedOf(list', ev'), r)
              + Count(QueuedOf(isrQ'), r) + Count(InHand(pc', cur', ev'), r)
         /\ Count(ListedOf(list, ev), r) \in Nat
         /\ Count(QueuedOf(isrQ), r) \in Nat /\ Count(InHand(pc, cur, ev), r) \in Nat
         /\ Count(ListedOf(list', ev'), r) \in Nat
         /\ Count(QueuedOf(isrQ'), r) \in Nat
         /\ Count(InHand(pc', cur', ev'), r) \in Nat
<1>1. /\ list' \in Seq(Elem) /\ ev' \in [Elem -> Elements]
      /\ isrQ' \in Seq(QueueItems) /\ cur' \in Elem \cup {NoElem}
  BY DEF LateInv, AssertInv, TimeInv, PoolInv, TypeInv, TypeOK
<1>2. /\ AllRequests = All(list, ev, isrQ, pc, cur)
      /\ AllRequests' = All(list', ev', isrQ', pc', cur')
  BY Mapped
<1>3. /\ Count(All(list, ev, isrQ, pc, cur), r) = Count(ListedOf(list, ev), r)
           + Count(QueuedOf(isrQ), r) + Count(InHand(pc, cur, ev), r)
      /\ Count(ListedOf(list, ev), r) \in Nat
      /\ Count(QueuedOf(isrQ), r) \in Nat /\ Count(InHand(pc, cur, ev), r) \in Nat
  <2>1. /\ list \in Seq(Elem) /\ ev \in [Elem -> Elements]
        /\ isrQ \in Seq(QueueItems) /\ cur \in Elem \cup {NoElem}
    BY LateFacts
  <2> QED BY <2>1, CountAll
<1>4. /\ Count(All(list', ev', isrQ', pc', cur'), r) = Count(ListedOf(list', ev'), r)
           + Count(QueuedOf(isrQ'), r) + Count(InHand(pc', cur', ev'), r)
      /\ Count(ListedOf(list', ev'), r) \in Nat
      /\ Count(QueuedOf(isrQ'), r) \in Nat /\ Count(InHand(pc', cur', ev'), r) \in Nat
  BY <1>1, CountAll
<1> QED BY <1>2, <1>3, <1>4

LEMMA AsStutter ==
  ASSUME LateInv, LateInv', AbsRunning' = AbsRunning,
         \A r : Count(AllRequests', r) = Count(AllRequests, r)
  PROVE  UNCHANGED Abs!absVars
BY Mapped, BagSame

LEMMA AsRequest ==
  ASSUME LateInv, LateInv', AbsRunning' = AbsRunning,
         NEW cb, NEW arg, NEW d,
         \A r : Count(AllRequests', r)
                  = Count(AllRequests, r) + One([cb |-> cb, arg |-> arg, left |-> d], r)
  PROVE  Abs!Request(cb, arg, d)
<1> DEFINE x == [cb |-> cb, arg |-> arg, left |-> d]
           s == AllRequests
           t == AllRequests'
<1>1. BagOf(t) = BagOf(s) (+) SetToBag({x})
  <2>1. s \in Seq(Asked) /\ t \in Seq(Asked)
    BY Mapped
  <2>2. \A r : Count(t, r) = Count(s, r) + One(x, r)
    OBVIOUS
  <2> HIDE DEF s, t, x
  <2> QED BY <2>1, <2>2, BagAdd
<1> QED BY <1>1 DEF Abs!Request, Abs!(+), (+), Abs!SetToBag, SetToBag, AbsRunning, BagOf

LEMMA AsCancel ==
  ASSUME LateInv, LateInv', Cancels, AbsRunning' = AbsRunning,
         \A r : Count(AllRequests', r) <= Count(AllRequests, r)
  PROVE  Abs!Cancel
<1>1. BagOf(AllRequests') \sqsubseteq BagOf(AllRequests)
  BY Mapped, BagLess
<1> QED BY <1>1 DEF Abs!Cancel, Abs!\sqsubseteq, \sqsubseteq, AbsRunning, BagOf

LEMMA AsRun ==
  ASSUME LateInv, LateInv', NEW x, AbsRunning = NoElem,
         AbsRunning' = <<x.cb, x.arg>>, x.left <= 0,
         \A r : Count(AllRequests, r) = Count(AllRequests', r) + One(x, r)
  PROVE  x \in DOMAIN BagOf(AllRequests) /\ Abs!Run(x)
<1> DEFINE s == AllRequests
           t == AllRequests'
<1>1. x \in DOMAIN BagOf(s) /\ BagOf(t) = Without(BagOf(s), x)
  <2>1. s \in Seq(Asked) /\ t \in Seq(Asked)
    BY Mapped
  <2>2. \A r : Count(s, r) = Count(t, r) + One(x, r)
    OBVIOUS
  <2> HIDE DEF s, t
  <2> QED BY <2>1, <2>2, BagTake
<1> QED BY <1>1 DEF Abs!Run, Without, Abs!(-), (-), Abs!SetToBag, SetToBag, AbsRunning, BagOf

LEMMA AsFinish ==
  ASSUME LateInv, LateInv', AbsRunning' = NoElem,
         \A r : Count(AllRequests', r) = Count(AllRequests, r)
  PROVE  Abs!Finish \/ UNCHANGED Abs!absVars
<1>1. BagOf(AllRequests') = BagOf(AllRequests)
  BY Mapped, BagSame
<1>2. CASE AbsRunning = NoElem
  BY <1>1, <1>2, Mapped
<1>3. CASE AbsRunning # NoElem
  BY <1>1, <1>3 DEF Abs!Finish, AbsRunning, BagOf
<1> QED BY <1>2, <1>3

LEMMA RunningStays ==
  ASSUME LateInv,
         \/ pc # "release" /\ pc' # "release"
         \/ pc' = pc /\ cur' = cur /\ (pc = "release" => ev'[cur] = ev[cur])
  PROVE  AbsRunning' = AbsRunning
BY DEF AbsRunning

LEMMA InHandStays ==
  ASSUME LateInv, pc' = pc, cur' = cur, pc = "exec" => ev'[cur] = ev[cur]
  PROVE  InHand(pc', cur', ev') = InHand(pc, cur, ev)
BY DEF InHand

(* Sched_ScheduleEvent, once it does not fail, adds its request to the     *)
(* listed ones and leaves the element of the task alone.                   *)
LEMMA ListsRequest ==
  ASSUME LateInv, LateInv', NEW t \in Time, NEW in,
         NEW cb \in Callbacks \cup {NoElem}, NEW arg \in Args \cup {NoElem},
         NEW rem \in Nat, NEW left \in Int,
         ScheduleEvent(t, in, cb, arg, rem, left)
  PROVE  /\ \A r : Count(ListedOf(list', ev'), r) = Count(ListedOf(list, ev), r)
                     + One([cb |-> cb, arg |-> arg, left |-> left], r)
         /\ pc \in {"exec", "release"} => ev'[cur] = ev[cur]
<1> DEFINE new == Head(free)
           rec == [time |-> t, cb |-> cb, arg |-> arg, rem |-> rem, left |-> left]
<1>1. fault' = "none"
  BY DEF LateInv, AssertInv, NoAssertion
<1>2. /\ free # <<>> /\ ev' = [ev EXCEPT ![new] = rec]
      /\ list' = InsertAt(list, InsertPos(t), new)
  BY <1>1 DEF ScheduleEvent
<1>3. new \in Elem /\ new \in Range(free) /\ InsertPos(t) \in 1 .. Len(list) + 1
  BY <1>2, LateFacts, HeadTailProperties, InsertPosRange, TailRange DEF PoolConserved
<1>4. new \notin Range(list) /\ new # cur
  BY <1>3, LateFacts DEF PoolConserved
<1>5. rec \in Elements /\ Request(rec) = [cb |-> cb, arg |-> arg, left |-> left]
  BY DEF Elements, Request
<1> HIDE DEF new, rec
<1>6. ASSUME NEW r
      PROVE  Count(ListedOf(list', ev'), r)
               = Count(ListedOf(list, ev), r) + One(Request(rec), r)
  <2>1. list \in Seq(Elem) /\ ev \in [Elem -> Elements]
    BY LateFacts
  <2> DEFINE p == InsertPos(t)
  <2>2. p \in 1 .. Len(list) + 1
    BY <1>3
  <2> HIDE DEF p
  <2>3. /\ ev' \in [Elem -> Elements] /\ ev'[new] = rec
        /\ \A y \in Range(list) : ev'[y] = ev[y]
    BY <1>2, <1>3, <1>4, <1>5, <2>1, RangeElements
  <2>4. Count(ListedOf(InsertAt(list, p, new), ev'), r)
          = Count(ListedOf(list, ev'), r) + One(Request(ev'[new]), r)
    BY <1>3, <2>1, <2>2, <2>3, CountListed
  <2>5. ListedOf(list, ev') = ListedOf(list, ev)
    BY <2>1, <2>3, ListedSame
  <2>6. Count(ListedOf(InsertAt(list, p, new), ev'), r)
          = Count(ListedOf(list, ev), r) + One(Request(rec), r)
    BY <2>3, <2>4, <2>5
  <2> QED BY <1>2, <2>6 DEF p
<1>7. pc \in {"exec", "release"} => ev'[cur] = ev[cur]
  BY <1>2, <1>4, LateFacts
<1> QED BY <1>5, <1>6, <1>7

(* Taking a listed element out.                                            *)
LEMMA UnlistsRequest ==
  ASSUME LateInv, NEW i \in 1 .. Len(list), NEW f,
         \A e \in Range(list) \ {list[i]} : f[e] = ev[e]
  PROVE  \A r : Count(ListedOf(list, ev), r)
                  = Count(ListedOf(RemoveAt(list, i), f), r) + One(Request(ev[list[i]]), r)
<1>1. list \in Seq(Elem) /\ ev \in [Elem -> Elements] /\ IsInjective(list)
  BY LateFacts DEF PoolConserved
<1>2. /\ RemoveAt(list, i) \in Seq(Elem)
      /\ Range(RemoveAt(list, i)) = Range(list) \ {list[i]}
  BY <1>1, RemoveAtElements, RemoveAtRange
<1>3. ListedOf(RemoveAt(list, i), f) = ListedOf(RemoveAt(list, i), ev)
  BY <1>2, ListedSame
<1> QED BY <1>1, <1>3, CountUnlisted

LEMMA QueueTail ==
  ASSUME NEW q \in Seq(QueueItems), q # <<>>
  PROVE  \A r : Count(QueuedOf(q), r)
                  = Count(QueuedOf(Tail(q)), r) + One(Deferred(Head(q)), r)
<1> DEFINE Q == QueuedOf(q)
           T == QueuedOf(Tail(q))
<1>1. /\ Tail(q) \in Seq(QueueItems) /\ Len(Tail(q)) = Len(q) - 1 /\ Len(q) \in Nat
      /\ \A i \in 1 .. Len(q) - 1 : Tail(q)[i] = q[i + 1]
      /\ 1 \in 1 .. Len(q) /\ Head(q) = q[1]
  BY HeadTailProperties, EmptySeq, LenProperties
<1>2. /\ Q \in Seq(Asked) /\ Len(Q) = Len(q)
      /\ \A i \in 1 .. Len(q) : Q[i] = Deferred(q[i])
  BY QueuedType
<1>3. /\ T \in Seq(Asked) /\ Len(T) = Len(q) - 1
      /\ \A i \in 1 .. Len(q) - 1 : T[i] = Deferred(Tail(q)[i])
  BY <1>1, QueuedType
<1> HIDE DEF Q, T
<1>4. Q # <<>>
  BY <1>1, <1>2, EmptySeq
<1>5. /\ Tail(Q) \in Seq(Asked) /\ Len(Tail(Q)) = Len(Q) - 1 /\ Head(Q) = Q[1]
      /\ \A i \in 1 .. Len(Q) - 1 : Tail(Q)[i] = Q[i + 1]
  BY <1>2, <1>4, HeadTailProperties
<1>6. ASSUME NEW i \in 1 .. Len(T) PROVE T[i] = Tail(Q)[i]
  <2>1. i \in 1 .. Len(q) - 1 /\ i + 1 \in 1 .. Len(q)
    BY <1>1, <1>3
  <2> QED BY <1>1, <1>2, <1>3, <1>5, <2>1
<1>7. T = Tail(Q)
  <2>1. Len(T) = Len(Tail(Q))
    BY <1>2, <1>3, <1>5
  <2> QED BY <1>3, <1>5, <1>6, <2>1, SeqEqual
<1>8. Head(Q) = Deferred(Head(q))
  BY <1>1, <1>2, <1>5
<1>9. ASSUME NEW r PROVE Count(Q, r) = Count(T, r) + One(Deferred(Head(q)), r)
  BY <1>2, <1>4, <1>7, <1>8, CountTail
<1> QED BY <1>9 DEF Q, T

LEMMA QueueAppend ==
  ASSUME NEW q \in Seq(QueueItems), NEW x \in QueueItems
  PROVE  \A r : Count(QueuedOf(Append(q, x)), r)
                  = Count(QueuedOf(q), r) + One(Deferred(x), r)
<1> DEFINE a == Append(q, x)
           Q == QueuedOf(q)
           A == QueuedOf(a)
           y == Deferred(x)
<1>1. /\ a \in Seq(QueueItems) /\ Len(a) = Len(q) + 1 /\ Len(q) \in Nat
      /\ \A i \in 1 .. Len(q) : a[i] = q[i]
      /\ a[Len(q) + 1] = x
  BY AppendProperties, LenProperties
<1> HIDE DEF a
<1>2. /\ Q \in Seq(Asked) /\ Len(Q) = Len(q)
      /\ \A i \in 1 .. Len(q) : Q[i] = Deferred(q[i])
  BY QueuedType
<1>3. /\ A \in Seq(Asked) /\ Len(A) = Len(a)
      /\ \A i \in 1 .. Len(a) : A[i] = Deferred(a[i])
  BY <1>1, QueuedType
<1>4. y \in Asked
  BY AskedType
<1>5. A[Len(q) + 1] = y /\ \A i \in 1 .. Len(q) : A[i] = Q[i]
  BY <1>1, <1>2, <1>3
<1> HIDE DEF Q, A, y
<1>6. /\ <<y>> \in Seq(Asked) /\ Q \o <<y>> \in Seq(Asked)
      /\ Len(Q \o <<y>>) = Len(Q) + 1
      /\ \A i \in 1 .. Len(Q) + 1 : (Q \o <<y>>)[i] = IF i <= Len(Q) THEN Q[i] ELSE y
  BY <1>2, <1>4, ConcatProperties
<1>7. ASSUME NEW i \in 1 .. Len(A) PROVE A[i] = (Q \o <<y>>)[i]
  <2>1. i \in 1 .. Len(q) \/ i = Len(q) + 1
    BY <1>1, <1>3
  <2> QED BY <1>1, <1>2, <1>3, <1>5, <1>6, <2>1
<1>8. A = Q \o <<y>>
  <2>1. Len(A) = Len(Q \o <<y>>)
    BY <1>1, <1>2, <1>3, <1>6
  <2> QED BY <1>3, <1>6, <1>7, <2>1, SeqEqual
<1>9. ASSUME NEW r PROVE Count(A, r) = Count(Q, r) + One(y, r)
  <2>1. Count(Q \o <<y>>, r) = Count(Q, r) + Count(<<y>>, r)
    BY <1>2, <1>6, CountConcat
  <2>2. Count(<<y>>, r) = One(y, r)
    BY CountOne
  <2> QED BY <1>8, <2>1, <2>2
<1> QED BY <1>9 DEF A, Q, y, a
-----------------------------------------------------------------------------
(* A tick: every request ages by one, and none is too late.                *)
Aging(s, t) ==
  /\ Len(t) = Len(s)
  /\ \A i \in 1 .. Len(s) :
       t[i] = [s[i] EXCEPT !.left = @ - 1] /\ s[i].left > - (3 * MaxLag)

Older(r)   == [r EXCEPT !.left = @ - 1]
Younger(r) == [r EXCEPT !.left = @ + 1]

LEMMA AgingConcat ==
  ASSUME NEW S, NEW s \in Seq(S), NEW t \in Seq(S), NEW u \in Seq(S), NEW v \in Seq(S),
         Aging(s, t), Aging(u, v)
  PROVE  Aging(s \o u, t \o v)
<1>1. /\ Len(s) \in Nat /\ Len(u) \in Nat /\ Len(t) = Len(s) /\ Len(v) = Len(u)
      /\ \A i \in 1 .. Len(s) :
           t[i] = [s[i] EXCEPT !.left = @ - 1] /\ s[i].left > - (3 * MaxLag)
      /\ \A i \in 1 .. Len(u) :
           v[i] = [u[i] EXCEPT !.left = @ - 1] /\ u[i].left > - (3 * MaxLag)
  BY LenProperties DEF Aging
<1>2. /\ Len(s \o u) = Len(s) + Len(u) /\ Len(t \o v) = Len(t) + Len(v)
      /\ \A i \in 1 .. Len(s) + Len(u) :
           (s \o u)[i] = IF i <= Len(s) THEN s[i] ELSE u[i - Len(s)]
      /\ \A i \in 1 .. Len(t) + Len(v) :
           (t \o v)[i] = IF i <= Len(t) THEN t[i] ELSE v[i - Len(t)]
  BY ConcatProperties
<1>3. ASSUME NEW i \in 1 .. Len(s) + Len(u)
      PROVE  /\ (t \o v)[i] = [(s \o u)[i] EXCEPT !.left = @ - 1]
             /\ (s \o u)[i].left > - (3 * MaxLag)
  <2>1. CASE i <= Len(s)
    <3>1. i \in 1 .. Len(s) /\ (s \o u)[i] = s[i] /\ (t \o v)[i] = t[i]
      BY <1>1, <1>2, <2>1
    <3> QED BY <1>1, <3>1
  <2>2. CASE ~ (i <= Len(s))
    <3>1. /\ i - Len(s) \in 1 .. Len(u)
          /\ (s \o u)[i] = u[i - Len(s)] /\ (t \o v)[i] = v[i - Len(s)]
      BY <1>1, <1>2, <2>2
    <3> QED BY <1>1, <3>1
  <2> QED BY <2>1, <2>2
<1> QED BY <1>1, <1>2, <1>3 DEF Aging

LEMMA OlderYounger ==
  ASSUME NEW r \in Asked
  PROVE  /\ Older(r) \in Asked /\ Younger(r) \in Asked
         /\ Younger(Older(r)) = r /\ Older(Younger(r)) = r
<1>1. r = [cb |-> r.cb, arg |-> r.arg, left |-> r.left] /\ r.left \in Int
  BY DEF Asked
<1>2. /\ Older(r) = [cb |-> r.cb, arg |-> r.arg, left |-> r.left - 1]
      /\ Younger(r) = [cb |-> r.cb, arg |-> r.arg, left |-> r.left + 1]
  BY <1>1 DEF Older, Younger
<1>3. Older(r) \in Asked /\ Younger(r) \in Asked
  BY <1>1, <1>2 DEF Asked
<1>4. /\ (r.left - 1) + 1 = r.left /\ (r.left + 1) - 1 = r.left
  BY <1>1
<1>5. Younger(Older(r)) = [cb |-> r.cb, arg |-> r.arg, left |-> (r.left - 1) + 1]
  BY <1>2 DEF Younger
<1>6. Older(Younger(r)) = [cb |-> r.cb, arg |-> r.arg, left |-> (r.left + 1) - 1]
  BY <1>2 DEF Older
<1> QED BY <1>1, <1>3, <1>4, <1>5, <1>6

LEMMA BagAged ==
  ASSUME NEW s \in Seq(Asked), NEW t \in Seq(Asked), Aging(s, t)
  PROVE  BagOf(t) = [q \in {Older(r) : r \in DOMAIN BagOf(s)} |-> BagOf(s)[Younger(q)]]
<1>1. /\ DOMAIN s = 1 .. Len(s) /\ DOMAIN t = 1 .. Len(s)
      /\ \A i \in 1 .. Len(s) : s[i] \in Asked /\ t[i] \in Asked /\ t[i] = Older(s[i])
  BY ElementOfSeq, LenProperties DEF Aging, Older
<1>2. /\ Range(s) = {s[i] : i \in 1 .. Len(s)} /\ Range(t) = {t[i] : i \in 1 .. Len(s)}
  BY <1>1 DEF Range
<1>3. DOMAIN BagOf(s) = Range(s)
  BY DEF BagOf
<1>4. {Older(r) : r \in DOMAIN BagOf(s)} = Range(t)
  BY <1>1, <1>2, <1>3
<1>5. ASSUME NEW q \in Range(t)
      PROVE  BagOf(s)[Younger(q)] = Cardinality({i \in DOMAIN t : t[i] = q})
  <2>1. q \in Asked /\ Younger(q) \in Range(s)
    <3>1. PICK i \in 1 .. Len(s) : q = t[i]
      BY <1>2
    <3> QED BY <1>1, <1>2, <3>1, OlderYounger
  <2>2. BagOf(s)[Younger(q)] = Cardinality({i \in DOMAIN s : s[i] = Younger(q)})
    BY <2>1 DEF BagOf
  <2>3. ASSUME NEW i \in 1 .. Len(s) PROVE s[i] = Younger(q) <=> t[i] = q
    BY <1>1, <2>1, OlderYounger
  <2>4. {i \in DOMAIN s : s[i] = Younger(q)} = {i \in DOMAIN t : t[i] = q}
    BY <1>1, <2>3
  <2> QED BY <2>2, <2>4
<1>6. BagOf(t) = [q \in Range(t) |-> Cardinality({i \in DOMAIN t : t[i] = q})]
  BY DEF BagOf
<1> QED BY <1>4, <1>5, <1>6

LEMMA AsTick ==
  ASSUME LateInv, LateInv', AbsRunning' = AbsRunning, Aging(AllRequests, AllRequests')
  PROVE  Abs!AbsTick
<1> DEFINE s == AllRequests
           t == AllRequests'
<1>1. s \in Seq(Asked) /\ t \in Seq(Asked) /\ Aging(s, t)
  BY Mapped
<1> HIDE DEF s, t
<1>2. BagOf(t) = [q \in {Older(r) : r \in DOMAIN BagOf(s)} |-> BagOf(s)[Younger(q)]]
  BY <1>1, BagAged
<1>3. ASSUME NEW r \in DOMAIN BagOf(s) PROVE r.left > - (3 * MaxLag)
  <2>1. r \in Range(s)
    BY DEF BagOf
  <2>2. PICK i \in 1 .. Len(s) : r = s[i]
    BY <1>1, <2>1, RangeElements
  <2> QED BY <1>1, <2>2 DEF Aging
<1> QED BY <1>2, <1>3 DEF Abs!AbsTick, Abs!Aged, Older, Younger, s, t, AbsRunning, BagOf

LEMMA TickStep ==
  ASSUME DelaysFit, LateInv, LateInv', Tick
  PROVE  Abs!AbsTick
<1>1. /\ UNCHANGED <<list, cur, pc>> /\ MaxLag \in Nat
      /\ list \in Seq(Elem) /\ isrQ \in Seq(QueueItems) /\ isrQ' \in Seq(QueueItems)
      /\ ev \in [Elem -> Elements] /\ ev' \in [Elem -> Elements]
      /\ cur \in Elem \cup {NoElem}
  BY LateFacts, TickFacts DEF LateInv, AssertInv, TimeInv, PoolInv, TypeInv, TypeOK
<1>2. ASSUME NEW e \in Elem, IsWaiting(e)
      PROVE  /\ Request(ev'[e]) = [Request(ev[e]) EXCEPT !.left = @ - 1]
             /\ Request(ev[e]).left > - (3 * MaxLag)
  <2>1. /\ ev'[e] = [ev[e] EXCEPT !.left = @ - 1] /\ ev[e] \in Elements
        /\ Lead(e) \in Int /\ Lead(e)' = Lead(e) - 1
    BY <1>2, TickFacts
  <2>2. - (2 * MaxLag) <= Lead(e)'
    <3>1. Window(e)' /\ LagCounts' /\ TypeOK'
      BY <1>1, <1>2 DEF LateInv, AssertInv, TimeInv, PoolInv, TypeInv, Times, InWindow,
                        IsWaiting, InFlight
    <3>2. 0 <= Lead(e)' + MaxLag + lag' /\ lag' <= MaxLag /\ lag' \in Nat
      BY <3>1 DEF Window, LagCounts, TypeOK
    <3> QED BY <1>1, <2>1, <3>2
  <2>3. Lead(e) + ev[e].rem <= ev[e].left + MaxLag
    BY <1>2, LateFacts DEF NotLate
  <2>4. ev[e].rem \in Nat /\ ev[e].left \in Int
    BY <2>1 DEF Elements
  <2>5. ev[e].left > - (3 * MaxLag)
    <3> DEFINE L == Lead(e)
               m == ev[e].rem
               d == ev[e].left
    <3>1. /\ L \in Int /\ m \in Nat /\ d \in Int /\ MaxLag \in Nat
          /\ - (2 * MaxLag) <= L - 1 /\ L + m <= d + MaxLag
      BY <1>1, <2>1, <2>2, <2>3, <2>4
    <3> HIDE DEF L, m, d
    <3>2. d > - (3 * MaxLag)
      BY <3>1
    <3> QED BY <3>2 DEF d
  <2>6. Request(ev'[e]) = [Request(ev[e]) EXCEPT !.left = @ - 1]
    BY <2>1 DEF Request, Elements
  <2> QED BY <2>5, <2>6 DEF Request
<1>3. Aging(ListedOf(list, ev), ListedOf(list', ev'))
  <2>1. /\ ListedOf(list, ev) \in Seq(Asked) /\ Len(ListedOf(list, ev)) = Len(list)
        /\ \A i \in 1 .. Len(list) : ListedOf(list, ev)[i] = Request(ev[list[i]])
    BY <1>1, ListedType
  <2>2. /\ Len(ListedOf(list, ev')) = Len(list)
        /\ \A i \in 1 .. Len(list) : ListedOf(list, ev')[i] = Request(ev'[list[i]])
    BY <1>1, ListedType
  <2>3. \A i \in 1 .. Len(list) : list[i] \in Elem /\ IsWaiting(list[i])
    BY LateFacts, ListedWait
  <2> QED BY <1>1, <1>2, <2>1, <2>2, <2>3 DEF Aging
<1>4. Aging(QueuedOf(isrQ), QueuedOf(isrQ'))
  <2>1. /\ Len(QueuedOf(isrQ)) = Len(isrQ)
        /\ \A i \in 1 .. Len(isrQ) : QueuedOf(isrQ)[i] = Deferred(isrQ[i])
    BY <1>1, QueuedType
  <2>2. /\ Len(QueuedOf(isrQ')) = Len(isrQ')
        /\ \A i \in 1 .. Len(isrQ') : QueuedOf(isrQ')[i] = Deferred(isrQ'[i])
    BY <1>1, QueuedType
  <2>3. /\ isrQ' = [i \in 1 .. Len(isrQ) |-> [isrQ[i] EXCEPT !.age = @ + 1]]
        /\ \A i \in 1 .. Len(isrQ) : isrQ[i].age < MaxLag
    BY TickFacts
  <2>4. Len(isrQ') = Len(isrQ)
    <3>1. DOMAIN isrQ' = 1 .. Len(isrQ) /\ Len(isrQ) \in Nat
      BY <1>1, <2>3, LenProperties
    <3> QED BY <1>1, <3>1, LenProperties
  <2>5. ASSUME NEW i \in 1 .. Len(isrQ)
        PROVE  /\ Deferred(isrQ'[i]) = [Deferred(isrQ[i]) EXCEPT !.left = @ - 1]
               /\ Deferred(isrQ[i]).left > - (3 * MaxLag)
    <3> DEFINE q == isrQ[i]
    <3>1. q \in QueueItems /\ q.age < MaxLag /\ isrQ'[i] = [q EXCEPT !.age = @ + 1]
      BY <1>1, <2>3, ElementOfSeq
    <3> HIDE DEF q
    <3>2. q.rel \in RelTimes /\ q.age \in Nat
      BY <3>1 DEF QueueItems
    <3>3. Delay(q.rel) \in Nat
      BY <3>2, TimeConstants, Zenon
    <3>4. /\ isrQ'[i].rel = q.rel /\ isrQ'[i].cb = q.cb /\ isrQ'[i].arg = q.arg
          /\ isrQ'[i].age = q.age + 1
      BY <3>1 DEF QueueItems
    <3>5. Delay(q.rel) - (q.age + 1) = (Delay(q.rel) - q.age) - 1
      BY <3>2, <3>3
    <3>6. Deferred(isrQ'[i]) = [Deferred(q) EXCEPT !.left = @ - 1]
      BY <3>4, <3>5 DEF Deferred
    <3>7. Deferred(q).left > - (3 * MaxLag)
      BY <1>1, <3>1, <3>2, <3>3 DEF Deferred
    <3> QED BY <3>6, <3>7 DEF q
  <2> QED BY <2>1, <2>2, <2>4, <2>5 DEF Aging
<1>5. Aging(InHand(pc, cur, ev), InHand(pc', cur', ev'))
  <2>1. CASE InFlight
    <3>1. cur \in Elem /\ IsWaiting(cur)
      BY <1>1, <2>1 DEF InFlight, IsWaiting
    <3>2. /\ InHand(pc, cur, ev) = <<Request(ev[cur])>>
          /\ InHand(pc', cur', ev') = <<Request(ev'[cur])>>
      BY <1>1, <2>1 DEF InFlight, InHand
    <3> QED BY <1>2, <3>1, <3>2 DEF Aging
  <2>2. CASE ~ InFlight
    BY <1>1, <2>2 DEF InFlight, InHand, Aging
  <2> QED BY <2>1, <2>2
<1>6. Aging(AllRequests, AllRequests')
  <2> DEFINE L == ListedOf(list, ev)
             M == ListedOf(list', ev')
             Q == QueuedOf(isrQ)
             R == QueuedOf(isrQ')
             H == InHand(pc, cur, ev)
             G == InHand(pc', cur', ev')
  <2>1. /\ L \in Seq(Asked) /\ M \in Seq(Asked) /\ Q \in Seq(Asked) /\ R \in Seq(Asked)
        /\ H \in Seq(Asked) /\ G \in Seq(Asked)
    BY <1>1, ListedType, QueuedType, InHandType
  <2>2. Aging(L, M) /\ Aging(Q, R) /\ Aging(H, G)
    BY <1>3, <1>4, <1>5
  <2>3. AllRequests = (L \o Q) \o H /\ AllRequests' = (M \o R) \o G
    BY Mapped DEF All
  <2> HIDE DEF L, M, Q, R, H, G
  <2>4. Aging(L \o Q, M \o R) /\ L \o Q \in Seq(Asked) /\ M \o R \in Seq(Asked)
    BY <2>1, <2>2, AgingConcat, ConcatProperties
  <2>5. Aging((L \o Q) \o H, (M \o R) \o G)
    BY <2>1, <2>2, <2>4, AgingConcat
  <2> QED BY <2>3, <2>5
<1>7. AbsRunning' = AbsRunning
  <2>1. pc = "release" => ev'[cur] = ev[cur]
    <3> SUFFICES ASSUME pc = "release" PROVE ev'[cur] = ev[cur]
      OBVIOUS
    <3>1. cur \in Elem /\ ~ IsWaiting(cur)
      BY LateFacts DEF IsWaiting, InFlight, PoolConserved
    <3>2. ev' = [e \in Elem |-> IF IsWaiting(e)
                                  THEN [ev[e] EXCEPT !.left = @ - 1] ELSE ev[e]]
      BY DEF Tick
    <3> QED BY <3>1, <3>2
  <2> QED BY <1>1, <2>1 DEF AbsRunning
<1> QED BY <1>6, <1>7, AsTick
-----------------------------------------------------------------------------
(* Every step of the scheduler is a step of the promise.                   *)
LEMMA RequestNext ==
  ASSUME NEW cb \in Callbacks, NEW arg \in Args,
         NEW d \in {Delay(rel) : rel \in RelTimes} \cup Seconds, Abs!Request(cb, arg, d)
  PROVE  Abs!AbsNext
BY DEF Abs!AbsNext

(* A step that leaves queue, task and element of the task alone.           *)
LEMMA HandStays ==
  ASSUME LateInv, UNCHANGED <<cur, pc, isrQ>>,
         pc \in {"exec", "release"} => ev'[cur] = ev[cur]
  PROVE  /\ AbsRunning' = AbsRunning
         /\ InHand(pc', cur', ev') = InHand(pc, cur, ev)
         /\ QueuedOf(isrQ') = QueuedOf(isrQ)
BY InHandStays DEF AbsRunning

LEMMA ScheduleNext ==
  ASSUME LateInv, LateInv', UNCHANGED <<cur, pc, isrQ>>,
         NEW t \in Time, NEW in, NEW cb \in Callbacks, NEW arg \in Args, NEW rem \in Nat,
         NEW d \in {Delay(rel) : rel \in RelTimes} \cup Seconds, d \in Int,
         ScheduleEvent(t, in, cb, arg, rem, d)
  PROVE  Abs!AbsNext
<1> DEFINE x == [cb |-> cb, arg |-> arg, left |-> d]
<1>1. /\ \A r : Count(ListedOf(list', ev'), r) = Count(ListedOf(list, ev), r) + One(x, r)
      /\ pc \in {"exec", "release"} => ev'[cur] = ev[cur]
  BY ListsRequest
<1> HIDE DEF x
<1>2. /\ AbsRunning' = AbsRunning
      /\ InHand(pc', cur', ev') = InHand(pc, cur, ev)
      /\ QueuedOf(isrQ') = QueuedOf(isrQ)
  BY <1>1, HandStays
<1>3. ASSUME NEW r PROVE Count(AllRequests', r) = Count(AllRequests, r) + One(x, r)
  <2>1. One(x, r) \in Nat
    BY DEF One
  <2> QED BY <1>1, <1>2, <2>1, Counts
<1>4. Abs!Request(cb, arg, d)
  BY <1>2, <1>3, AsRequest DEF x
<1> QED BY <1>4, RequestNext

LEMMA CallerNext ==
  ASSUME DelaysFit, LateInv, LateInv', CallerStep
  PROVE  Abs!AbsNext \/ UNCHANGED Abs!absVars
<1>0. list \in Seq(Elem) /\ isrQ \in Seq(QueueItems) /\ TypeOK
  BY LateFacts
<1>1. ASSUME NEW cb \in Callbacks, NEW arg \in Args, NEW rel \in RelTimes,
             ScheduleEventArg(rel, cb, arg)
      PROVE  Abs!AbsNext
  <2>1. /\ ScheduleEvent(AbsTime(rel), InRange(rel), cb, arg, 0, Delay(rel))
        /\ UNCHANGED <<cur, pc, isrQ>>
    BY <1>1 DEF ScheduleEventArg, loopVars, isrVars
  <2>2. AbsTime(rel) \in Time /\ Delay(rel) \in Int
    <3>1. Delay(rel) \in Nat
      BY TimeConstants, Zenon
    <3> QED BY <1>0, <3>1, TimeConstants, AbsTimeType
  <2> QED BY <2>1, <2>2, ScheduleNext
<1>2. ASSUME NEW cb \in Callbacks, NEW arg \in Args, NEW s \in Seconds,
             ScheduleEventInSeconds(s, cb, arg)
      PROVE  Abs!AbsNext
  <2>1. /\ ScheduleEvent(AbsTime(FirstPart(s)), InRange(FirstPart(s)), cb, arg,
                         RestPart(s), s)
        /\ UNCHANGED <<cur, pc, isrQ>>
    BY <1>2 DEF ScheduleEventInSeconds, loopVars, isrVars
  <2>2. /\ s \in Int /\ FirstPart(s) \in Nat /\ RestPart(s) \in Nat
        /\ FirstPart(s) + 2 * MaxLag < EVENT_TIME_MAX
    <3>1. s \in Nat /\ Interval \in Nat
      BY SchedAssumption, Horizon
    <3> QED BY <3>1 DEF FirstPart, RestPart, DelaysFit
  <2>3. AbsTime(FirstPart(s)) \in Time
    BY <1>0, <2>2, DelayLeads
  <2> QED BY <2>1, <2>2, <2>3, ScheduleNext
<1>3. ASSUME NEW cb \in Callbacks, NEW arg \in Args, NEW rel \in RelTimes,
             ScheduleEventDeferred(rel, cb, arg)
      PROVE  Abs!AbsNext \/ UNCHANGED Abs!absVars
  <2> DEFINE item == [rel |-> rel, cb |-> cb, arg |-> arg, age |-> 0]
             x == [cb |-> cb, arg |-> arg, left |-> Delay(rel)]
  <2>1. item \in QueueItems /\ Deferred(item) = [cb |-> cb, arg |-> arg, left |-> Delay(rel)]
    <3>1. Delay(rel) \in Nat
      BY TimeConstants, Zenon
    <3>2. Delay(rel) - 0 = Delay(rel)
      BY <3>1
    <3> QED BY <3>2 DEF QueueItems, Deferred
  <2>2. UNCHANGED <<list, ev, cur, pc>> /\ isrQ' \in {isrQ, Append(isrQ, item)}
    BY <1>3 DEF ScheduleEventDeferred, poolVars, loopVars
  <2> HIDE DEF item, x
  <2>3. AbsRunning' = AbsRunning
    BY <2>2 DEF AbsRunning
  <2>4. CASE isrQ' = isrQ
    <3>1. \A r : Count(AllRequests', r) = Count(AllRequests, r)
      BY <2>2, <2>4, Counts
    <3> QED BY <2>3, <3>1, AsStutter
  <2>5. CASE isrQ' = Append(isrQ, item)
    <3>1. ASSUME NEW r PROVE Count(AllRequests', r) = Count(AllRequests, r) + One(x, r)
      <4>1. One(x, r) \in Nat
        BY DEF One
      <4>2. Count(QueuedOf(isrQ'), r) = Count(QueuedOf(isrQ), r) + One(x, r)
        BY <1>0, <2>1, <2>5, QueueAppend DEF x
      <4> QED BY <2>2, <4>1, <4>2, Counts
    <3>2. Abs!Request(cb, arg, Delay(rel))
      BY <2>3, <3>1, AsRequest DEF x
    <3> QED BY <3>2, RequestNext
  <2> QED BY <2>2, <2>4, <2>5
<1>4. ASSUME NEW cb \in Callbacks, NEW arg \in Args, UnscheduleEventArg(cb, arg)
      PROVE  Abs!AbsNext
  <2> DEFINE i == FindEventArg(cb, arg)
  <2>1. /\ i \in 1 .. Len(list) /\ list[i] \in Range(list)
    BY <1>4, LateFacts, FindEventArgRange, RangeElements DEF UnscheduleEventArg
  <2>2. /\ list' = RemoveAt(list, i) /\ ev' = Forget({list[i]}) /\ Cancels
        /\ UNCHANGED <<cur, pc, isrQ>>
    BY <1>4 DEF UnscheduleEventArg, loopVars, isrVars
  <2> HIDE DEF i
  <2>3. /\ \A e \in Range(list) \ {list[i]} : ev'[e] = ev[e]
        /\ pc \in {"exec", "release"} => ev'[cur] = ev[cur]
    <3>1. Range(list) \subseteq Elem /\ cur # list[i]
      BY <1>0, <2>1, LateFacts, RangeElements DEF PoolConserved
    <3> QED BY <2>2, <3>1, LateFacts DEF Forget
  <2>4. \A r : Count(ListedOf(list, ev), r)
                 = Count(ListedOf(list', ev'), r) + One(Request(ev[list[i]]), r)
    BY <2>1, <2>2, <2>3, UnlistsRequest
  <2>5. /\ AbsRunning' = AbsRunning
        /\ InHand(pc', cur', ev') = InHand(pc, cur, ev)
        /\ QueuedOf(isrQ') = QueuedOf(isrQ)
    BY <2>2, <2>3, HandStays
  <2>6. ASSUME NEW r PROVE Count(AllRequests', r) <= Count(AllRequests, r)
    <3>1. One(Request(ev[list[i]]), r) \in Nat
      BY DEF One
    <3> QED BY <2>4, <2>5, <3>1, Counts
  <2>7. Abs!Cancel
    BY <2>2, <2>5, <2>6, AsCancel
  <2> QED BY <2>7 DEF Abs!AbsNext
<1>5. ASSUME Clear PROVE Abs!AbsNext
  <2>1. /\ list' = <<>> /\ ev' = Forget(Range(list)) /\ Cancels
        /\ UNCHANGED <<cur, pc, isrQ>>
    BY <1>5 DEF Clear, loopVars, isrVars
  <2>2. pc \in {"exec", "release"} => ev'[cur] = ev[cur]
    BY <2>1, LateFacts DEF Forget, PoolConserved
  <2>3. /\ AbsRunning' = AbsRunning
        /\ InHand(pc', cur', ev') = InHand(pc, cur, ev)
        /\ QueuedOf(isrQ') = QueuedOf(isrQ)
    BY <2>1, <2>2, HandStays
  <2>4. ASSUME NEW r PROVE Count(AllRequests', r) <= Count(AllRequests, r)
    <3>1. Count(ListedOf(list', ev'), r) = 0
      <4>1. ListedOf(list', ev') = <<>>
        BY <2>1, EmptySeq DEF ListedOf
      <4> QED BY <4>1, CountEmpty
    <3> QED BY <2>3, <3>1, Counts
  <2>5. Abs!Cancel
    BY <2>1, <2>3, <2>4, AsCancel
  <2> QED BY <2>5 DEF Abs!AbsNext
<1>6. ASSUME UNCHANGED <<list, ev, cur, pc, isrQ>> PROVE UNCHANGED Abs!absVars
  <2>1. AbsRunning' = AbsRunning
    BY <1>6 DEF AbsRunning
  <2>2. \A r : Count(AllRequests', r) = Count(AllRequests, r)
    BY <1>6, Counts
  <2> QED BY <2>1, <2>2, AsStutter
<1>7. CASE GetRemainingTimeRead
  BY <1>6, <1>7 DEF GetRemainingTimeRead, poolVars, loopVars, isrVars
<1>8. ASSUME NEW cb \in Callbacks, NEW arg \in Args, GetRemainingTimeFind(cb, arg)
      PROVE  UNCHANGED Abs!absVars
  BY <1>6, <1>8 DEF GetRemainingTimeFind, poolVars, loopVars, isrVars
<1> QED BY <1>1, <1>2, <1>3, <1>4, <1>5, <1>7, <1>8 DEF CallerStep

(* The daemon takes the request from the queue to the list.                *)
LEMMA DeferredNext ==
  ASSUME DelaysFit, LateInv, LateInv', DeferredEvent
  PROVE  UNCHANGED Abs!absVars
<1>0. list \in Seq(Elem) /\ isrQ \in Seq(QueueItems) /\ TypeOK
  BY LateFacts
<1>1. CASE isrQ = <<>>
  <2>1. UNCHANGED <<list, ev, cur, pc, isrQ>>
    BY <1>1 DEF DeferredEvent, poolVars, loopVars
  <2>2. AbsRunning' = AbsRunning
    BY <2>1 DEF AbsRunning
  <2>3. \A r : Count(AllRequests', r) = Count(AllRequests, r)
    BY <2>1, Counts
  <2> QED BY <2>2, <2>3, AsStutter
<1>2. CASE isrQ # <<>>
  <2> DEFINE q == Head(isrQ)
             left == Delay(q.rel) - q.age
             x == [cb |-> q.cb, arg |-> q.arg, left |-> left]
  <2>1. /\ ScheduleEvent(AbsTime(q.rel), InRange(q.rel), q.cb, q.arg, 0, left)
        /\ UNCHANGED <<cur, pc>> /\ isrQ' = Tail(isrQ)
    BY <1>2 DEF DeferredEvent, loopVars
  <2>2. q \in QueueItems
    BY <1>0, <1>2, HeadTailProperties
  <2> HIDE DEF q
  <2>3. /\ q.rel \in RelTimes /\ q.age \in Nat
        /\ q.cb \in Callbacks \cup {NoElem} /\ q.arg \in Args \cup {NoElem}
    BY <2>2 DEF QueueItems
  <2>4. AbsTime(q.rel) \in Time /\ left \in Int
    <3>1. Delay(q.rel) \in Nat
      BY <2>3, TimeConstants, Zenon
    <3>2. left \in Int
      BY <2>3, <3>1
    <3>3. AbsTime(q.rel) \in Time
      <4> HIDE DEF left, x
      <4> QED BY <1>0, <2>3, AbsTimeType
    <3> QED BY <3>2, <3>3
  <2>5. x = Deferred(q)
    BY DEF Deferred
  <2> HIDE DEF left
  <2>6. /\ \A r : Count(ListedOf(list', ev'), r) = Count(ListedOf(list, ev), r) + One(x, r)
        /\ pc \in {"exec", "release"} => ev'[cur] = ev[cur]
    BY <2>1, <2>3, <2>4, ListsRequest
  <2>7. \A r : Count(QueuedOf(isrQ), r) = Count(QueuedOf(isrQ'), r) + One(x, r)
    BY <1>0, <1>2, <2>1, <2>5, QueueTail DEF q
  <2> HIDE DEF x
  <2>8. /\ AbsRunning' = AbsRunning
        /\ InHand(pc', cur', ev') = InHand(pc, cur, ev)
    BY <2>1, <2>6, InHandStays DEF AbsRunning
  <2>9. ASSUME NEW r PROVE Count(AllRequests', r) = Count(AllRequests, r)
    <3>1. One(x, r) \in Nat
      BY DEF One
    <3> QED BY <2>6, <2>7, <2>8, <3>1, Counts
  <2> QED BY <2>8, <2>9, AsStutter
<1> QED BY <1>1, <1>2

LEMMA TaskNext ==
  ASSUME DelaysFit, LateInv, LateInv', TaskStep
  PROVE  Abs!AbsNext \/ UNCHANGED Abs!absVars
<1>0. /\ list \in Seq(Elem) /\ isrQ \in Seq(QueueItems) /\ TypeOK
      /\ ev \in [Elem -> Elements] /\ NoElem \notin Elem
  BY LateFacts
<1>1. CASE GetEvent
  <2>1. CASE IsDue
    <3> DEFINE x == Request(ev[Head(list)])
    <3>1. /\ list # <<>> /\ cur' = Head(list) /\ list' = Tail(list) /\ pc' = "exec"
          /\ pc = "get" /\ UNCHANGED <<ev, isrQ>>
      BY <1>1, <2>1 DEF GetEvent, IsDue, isrVars
    <3>2. /\ Head(list) = list[1] /\ 1 \in 1 .. Len(list) /\ Head(list) \in Elem
      BY <1>0, <3>1, FirstListed
    <3>3. Tail(list) = RemoveAt(list, 1)
      BY <1>0, <3>1, TailIsRemoveAt
    <3>4. \A r : Count(ListedOf(list, ev), r)
                   = Count(ListedOf(RemoveAt(list, 1), ev'), r)
                       + One(Request(ev[list[1]]), r)
      BY <3>1, <3>2, UnlistsRequest
    <3>5. \A r : Count(ListedOf(list, ev), r)
                   = Count(ListedOf(list', ev'), r) + One(x, r)
      BY <3>1, <3>2, <3>3, <3>4
    <3>6. InHand(pc, cur, ev) = <<>> /\ InHand(pc', cur', ev') = <<x>>
      BY <1>0, <3>1, <3>2 DEF InHand
    <3> HIDE DEF x
    <3>7. ASSUME NEW r PROVE Count(AllRequests', r) = Count(AllRequests, r)
      <4>1. /\ Count(InHand(pc, cur, ev), r) = 0
            /\ Count(InHand(pc', cur', ev'), r) = One(x, r)
        BY <3>6, CountEmpty, CountOne
      <4>2. QueuedOf(isrQ') = QueuedOf(isrQ)
        BY <3>1
      <4>3. One(x, r) \in Nat
        BY DEF One
      <4> QED BY <3>5, <4>1, <4>2, <4>3, Counts
    <3>8. AbsRunning' = AbsRunning
      BY <3>1 DEF AbsRunning
    <3> QED BY <3>7, <3>8, AsStutter
  <2>2. CASE ~ IsDue
    <3>1. UNCHANGED <<list, ev, cur, isrQ>> /\ pc = "get" /\ pc' \in {"next", "check"}
      BY <1>1, <2>2 DEF GetEvent, AfterBody, isrVars
    <3>2. InHand(pc', cur', ev') = InHand(pc, cur, ev) /\ AbsRunning' = AbsRunning
      BY <3>1 DEF InHand, AbsRunning
    <3>3. \A r : Count(AllRequests', r) = Count(AllRequests, r)
      BY <3>1, <3>2, Counts
    <3> QED BY <3>2, <3>3, AsStutter
  <2> QED BY <2>1, <2>2
<1>2. CASE ReScheduleInSeconds
  <2> DEFINE d == ev[cur]
             t == Plus(d.time, FirstPart(d.rem))
             x == [cb |-> d.cb, arg |-> d.arg, left |-> d.left]
  <2>1. /\ cur \in Elem /\ pc = "exec" /\ pc' = "release" /\ d.rem > 0
        /\ UNCHANGED <<cur, isrQ>>
        /\ ScheduleEvent(t, TRUE, d.cb, d.arg, RestPart(d.rem), d.left)
    BY <1>2, LateFacts DEF ReScheduleInSeconds, isrVars
  <2>2. /\ d.time \in Time /\ d.rem \in Nat /\ d.left \in Int
        /\ d.cb \in Callbacks \cup {NoElem} /\ d.arg \in Args \cup {NoElem}
    <3>1. d \in Elements
      BY <1>0, <2>1
    <3> QED BY <3>1 DEF Elements
  <2>3. x = Request(d)
    BY DEF Request
  <2> HIDE DEF d
  <2>4. RestPart(d.rem) \in Nat /\ FirstPart(d.rem) \in Time
    BY <2>2, Parts
  <2>5. t \in Time
    BY <2>2, <2>4, TimeArithmetic
  <2> HIDE DEF t
  <2>6. /\ \A r : Count(ListedOf(list', ev'), r) = Count(ListedOf(list, ev), r) + One(x, r)
        /\ pc \in {"exec", "release"} => ev'[cur] = ev[cur]
    BY <2>1, <2>2, <2>4, <2>5, ListsRequest
  <2> HIDE DEF x
  <2>7. InHand(pc, cur, ev) = <<x>> /\ InHand(pc', cur', ev') = <<>>
    BY <1>0, <2>1, <2>3 DEF InHand, d
  <2>8. AbsRunning = NoElem /\ AbsRunning' = NoElem
    <3>1. ev'[cur'].rem > 0
      BY <2>1, <2>6 DEF d
    <3> QED BY <2>1, <3>1 DEF AbsRunning
  <2>9. ASSUME NEW r PROVE Count(AllRequests', r) = Count(AllRequests, r)
    <3>1. /\ Count(InHand(pc, cur, ev), r) = One(x, r)
          /\ Count(InHand(pc', cur', ev'), r) = 0
      BY <2>7, CountEmpty, CountOne
    <3>2. QueuedOf(isrQ') = QueuedOf(isrQ) /\ One(x, r) \in Nat
      BY <2>1 DEF One
    <3> QED BY <2>6, <3>1, <3>2, Counts
  <2> QED BY <2>8, <2>9, AsStutter
<1>3. CASE ExecEvent
  <2> DEFINE x == Request(ev[cur])
  <2>1. /\ pc = "exec" /\ pc' = "release" /\ ev[cur].rem = 0
        /\ UNCHANGED <<list, ev, cur, isrQ>> /\ cur \in Elem
    BY <1>3, LateFacts DEF ExecEvent, poolVars, isrVars
  <2>2. x.left <= 0
    <3>1. /\ InWindow /\ ExecutesDue /\ IsWaiting(cur) /\ InFlight
      BY <1>0, <2>1, LateFacts DEF TimeInv, Times, IsWaiting, InFlight
    <3>2. ev[cur].left <= Lead(cur) + ev[cur].rem /\ Lead(cur) <= 0
      BY <2>1, <3>1 DEF InWindow, ExecutesDue
    <3>3. ev[cur].left <= 0
      BY <1>0, <2>1, <3>2, LeadType
    <3> QED BY <3>3 DEF Request
  <2>3. /\ AbsRunning = NoElem /\ AbsRunning' = <<x.cb, x.arg>>
    BY <2>1 DEF AbsRunning, Request
  <2>4. InHand(pc, cur, ev) = <<x>> /\ InHand(pc', cur', ev') = <<>>
    BY <1>0, <2>1 DEF InHand
  <2> HIDE DEF x
  <2>5. ASSUME NEW r PROVE Count(AllRequests, r) = Count(AllRequests', r) + One(x, r)
    <3>1. /\ Count(InHand(pc, cur, ev), r) = One(x, r)
          /\ Count(InHand(pc', cur', ev'), r) = 0
      BY <2>4, CountEmpty, CountOne
    <3>2. /\ QueuedOf(isrQ') = QueuedOf(isrQ) /\ One(x, r) \in Nat
          /\ ListedOf(list', ev') = ListedOf(list, ev)
      BY <2>1 DEF One
    <3> QED BY <3>1, <3>2, Counts
  <2>6. x \in DOMAIN BagOf(AllRequests) /\ Abs!Run(x)
    BY <2>2, <2>3, <2>5, AsRun
  <2> QED BY <2>6 DEF Abs!AbsNext, BagOf
<1>4. CASE ReleaseEvent
  <2>1. /\ pc = "release" /\ pc' \in {"next", "check"} /\ UNCHANGED <<list, isrQ>>
        /\ ev' = Forget({cur}) /\ cur' = NoElem
    BY <1>4 DEF ReleaseEvent, AfterBody, isrVars
  <2>2. \A e \in Range(list) : ev'[e] = ev[e]
    <3>1. Range(list) \subseteq Elem /\ cur \notin Range(list)
      BY <1>0, LateFacts, RangeElements DEF PoolConserved
    <3> QED BY <2>1, <3>1 DEF Forget
  <2>3. ListedOf(list', ev') = ListedOf(list, ev)
    <3>1. ListedOf(list, ev') = ListedOf(list, ev)
      BY <1>0, <2>2, ListedSame
    <3> QED BY <2>1, <3>1
  <2>4. InHand(pc, cur, ev) = <<>> /\ InHand(pc', cur', ev') = <<>> /\ AbsRunning' = NoElem
    BY <2>1 DEF InHand, AbsRunning
  <2>5. \A r : Count(AllRequests', r) = Count(AllRequests, r)
    BY <2>1, <2>3, <2>4, Counts
  <2>6. Abs!Finish \/ UNCHANGED Abs!absVars
    BY <2>4, <2>5, AsFinish
  <2> QED BY <2>6 DEF Abs!AbsNext
<1>5. CASE \/ TaskNotifyWait \/ HandleRadioInterrupt \/ UnmaskRadioInterrupt
           \/ CheckQueue \/ CheckRadio \/ GetTimeToNextEvent \/ ScheduleESTimer
  <2>1. /\ UNCHANGED <<list, ev, cur, isrQ>>
        /\ pc \notin {"exec", "release"} /\ pc' \notin {"exec", "release"}
    BY <1>5 DEF TaskNotifyWait, HandleRadioInterrupt, UnmaskRadioInterrupt, CheckQueue,
                CheckRadio, GetTimeToNextEvent, ScheduleESTimer, poolVars, isrVars
  <2>2. InHand(pc', cur', ev') = InHand(pc, cur, ev) /\ AbsRunning' = AbsRunning
    BY <2>1 DEF InHand, AbsRunning
  <2>3. \A r : Count(AllRequests', r) = Count(AllRequests, r)
    BY <2>1, <2>2, Counts
  <2> QED BY <2>2, <2>3, AsStutter
<1> QED BY <1>1, <1>2, <1>3, <1>4, <1>5 DEF TaskStep

LEMMA StillNext ==
  ASSUME LateInv, LateInv', HardwareStep \/ UNCHANGED vars
  PROVE  UNCHANGED Abs!absVars
<1>1. UNCHANGED <<list, ev, cur, pc, isrQ>>
  BY DEF HardwareStep, EsFires, RadioRaises, Raise, poolVars, loopVars, isrVars, vars
<1>2. AbsRunning' = AbsRunning
  BY <1>1 DEF AbsRunning
<1>3. \A r : Count(AllRequests', r) = Count(AllRequests, r)
  BY <1>1, Counts
<1> QED BY <1>2, <1>3, AsStutter
-----------------------------------------------------------------------------
LEMMA LateInit ==
  ASSUME Init PROVE NotLate
<1>1. Len(list) = 0 /\ Range(list) = {} /\ Len(isrQ) = 0
  BY EmptySeq DEF Init, Range
<1> QED BY <1>1 DEF Init, NotLate, IsWaiting, InFlight

LEMMA LateInvariant ==
  ASSUME DelaysFit, PoolSuffices PROVE Spec => []LateInv
<1>1. Init => LateInv
  BY AssertInit, LateInit DEF LateInv
<1>2. LateInv /\ [Next]_vars => LateInv'
  BY LateNext
<1> QED BY <1>1, <1>2, PTL DEF Spec

LEMMA PromiseInit ==
  ASSUME Init PROVE Abs!AbsInit
<1>1. /\ Len(list) = 0 /\ Len(isrQ) = 0 /\ ~ InFlight /\ pc # "release"
  BY EmptySeq DEF Init, InFlight
<1>2. AllRequests = <<>> \o <<>> \o <<>>
  BY <1>1 DEF AllRequests
<1>3. AllRequests = <<>>
  BY <1>2, ConcatEmptySeq
<1>4. DOMAIN BagOf(AllRequests) = {}
  BY <1>3 DEF BagOf, Range
<1>5. BagOf(AllRequests) = SetToBag({})
  BY <1>4 DEF BagOf, SetToBag
<1> QED BY <1>1, <1>5 DEF Abs!AbsInit, Abs!EmptyBag, EmptyBag, Abs!SetToBag, SetToBag, BagOf

(* The list surgery, the pool, the distant events, the deferral and the    *)
(* timer never lose, duplicate, advance or unduly delay a request: every   *)
(* behaviour of the scheduler is one of the promise.                       *)
THEOREM SchedulerKeepsPromise ==
  ASSUME DelaysFit, PoolSuffices PROVE Spec => Promise
<1>1. Init => Abs!AbsInit
  BY PromiseInit
<1>2. LateInv /\ LateInv' /\ [Next]_vars => [Abs!AbsNext]_(Abs!absVars)
  <2> SUFFICES ASSUME LateInv, LateInv', [Next]_vars
               PROVE  Abs!AbsNext \/ UNCHANGED Abs!absVars
    OBVIOUS
  <2>1. ASSUME Tick PROVE Abs!AbsNext
    BY <2>1, TickStep DEF Abs!AbsNext
  <2> QED BY <2>1, CallerNext, DeferredNext, TaskNext, StillNext DEF Next
<1> QED BY <1>1, <1>2, LateInvariant, PTL DEF Spec, Promise, Abs!AbsSpec
=============================================================================
