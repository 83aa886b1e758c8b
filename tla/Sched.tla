------------------------------- MODULE Sched -------------------------------
(***************************************************************************)
(* gpSched, the event scheduler every Qorvo component runs on, in its      *)
(* FreeRTOS integration.                                                   *)
(*                                                                         *)
(* Shared state: the time-ordered event list (lock EventList), the pool of *)
(* free event elements (lock EventFree) and, for callers in interrupt      *)
(* context, a short queue that the FreeRTOS timer daemon drains.  Every    *)
(* access to a list runs under its mutex, so one critical section is one   *)
(* action.  The locks nest in one order only (EventList, then EventFree).  *)
(*                                                                         *)
(* Actors: the gpSched task (Sched_Main, one action per stretch between    *)
(* two points where another actor can run), any task that calls the API    *)
(* (a callback being executed is such a caller), interrupt handlers, the   *)
(* timer daemon, the hardware (ES timer, radio) and the clock.             *)
(***************************************************************************)
EXTENDS SchedTime, Sequences, SequencesExt, FiniteSets

CONSTANTS
  Elem,        \* the GP_SCHED_EVENT_LIST_SIZE elements of gpSched_EventArray
  NoElem,      \* the NULL pointer to an element
  Callbacks,   \* callback functions
  Args,        \* argument pointers, NoArg included
  NoArg,       \* the NULL argument: wildcard of Unschedule and Exists
  RelTimes,    \* relative delays that callers pass (us)
  Seconds,     \* delays that callers of the seconds API pass
  Interval,    \* GP_SCHED_DISTANTEVENTS_INTERVAL
  QueueLength, \* SCHED_EVENT_QUEUE_LENGTH of the interrupt queue
  PendLength,  \* free slots of the timer daemon's command queue
  MaxLag,      \* bound: ticks a runnable gpSched task (a queued call) waits
  MaxPending,  \* bound: events the callers have outstanding at a time
  MaxQueries,  \* bound: concurrent GetRemainingTime callers (0 or 1)
  Cancels      \* whether callers unschedule and clear

ASSUME SchedAssumption ==
  /\ NoElem \notin Elem /\ IsFiniteSet(Elem) /\ Elem # {}
  /\ NoArg \in Args
  /\ RelTimes \subseteq (0 .. EVENT_TIME_MAX) \cup {EVENT_TIME_NOW}
  /\ Seconds \subseteq Nat
  /\ Interval \in 1 .. EVENT_TIME_MAX
  /\ QueueLength \in Nat /\ PendLength \in Nat
  /\ MaxLag \in Nat /\ MaxLag >= 1
  /\ MaxPending \in Nat /\ MaxQueries \in {0, 1}
  /\ Cancels \in BOOLEAN

VARIABLES
  now,      \* the 1 us hardware clock
  list,     \* gpSched_EventList: elements in order of execution
  free,     \* gpSched_EventFree: first element is the next one handed out
  ev,       \* contents of the elements
  cur,      \* the element unlinked by Sched_GetEvent, not yet released
  pc,       \* where the gpSched task is in Sched_Main
  inLoop,   \* the current Main_Body call is the one inside the while loop
  timerSet, \* timerScheduled
  wait,     \* nextEventTime
  es,       \* absolute time of the ES timer event, or NoTime
  notified, \* GP_SCHED_TASK_NOTIFY_EVENTQ_MASK pending for the task
  raised,   \* interrupt sources with an unhandled interrupt
  masked,   \* sources whose handler has run: masked until the task is done
  lag,      \* ticks since the gpSched task was last blocked
  isrQ,     \* gpSched_EventQueue
  pend,     \* gpSched_DeferredEvent calls the daemon still has to make
  query,    \* a caller between the unlock and the read of GetRemainingTime
  fault     \* the assertion that stopped the system, "none" while it runs

vars == <<now, list, free, ev, cur, pc, inLoop, timerSet, wait, es, notified,
          raised, masked, lag, isrQ, pend, query, fault>>

poolVars == <<list, free, ev>>
loopVars == <<pc, inLoop, timerSet, wait>>
intVars  == <<raised, masked, es, lag>>
isrVars  == <<isrQ, pend>>

NoTime  == Modulus
NoQuery == [e |-> NoElem, cb |-> NoElem, arg |-> NoElem]
Blank   == [time |-> 0, cb |-> NoElem, arg |-> NoElem, rem |-> 0, left |-> 0]

Running == fault = "none"

(* What a released element still holds is dead, every later use overwrites *)
(* all of it: the model forgets it.                                        *)
Forget(dead) == [e \in Elem |-> IF e \in dead THEN Blank ELSE ev[e]]

(* The interrupt sources of the gpSched task: its own ES timer event, and  *)
(* any of the RCI, PHY, STBC and IPC interrupts.                           *)
Sources == {"es", "radio"}
-----------------------------------------------------------------------------
(* Sched_RescheduleEvent: the absolute time an event gets.                 *)
FirstTime == ev[Head(list)].time

AbsTime(rel) ==
  IF rel = EVENT_TIME_NOW
    THEN LET first == IF list = <<>> THEN now ELSE FirstTime
         IN  IF TIME_COMPARE_LOWER_EQUAL(first, now)
               THEN Minus(first, 1) ELSE Minus(now, 1)
    ELSE Plus(now, rel)

(* Fault: the bound is counted from now and not from the end of the range. *)
InRangeOfFirst(rel) == list = <<>> \/ rel <= Minus(FirstTime, now)

(* The assertion of Sched_RescheduleEvent on the distance to the first     *)
(* event of the list, computed in UInt32.                                  *)
InRange(rel) ==
  list = <<>> \/ rel < Plus(Minus(FirstTime, now), EVENT_TIME_MAX)

(* Fault: a plain comparison of times, wrong once the clock has wrapped.   *)
InsertPosPlain(t) ==
  LET later == {i \in 1 .. Len(list) : ev[list[i]].time > t}
  IN  IF later = {} THEN Len(list) + 1
      ELSE CHOOSE i \in later : \A j \in later : i <= j

(* Sched_RescheduleEventAbs: the place before the first later event.       *)
InsertPos(t) ==
  LET later == {i \in 1 .. Len(list) : TIME_COMPARE_BIGGER(ev[list[i]].time, t)}
  IN  IF later = {} THEN Len(list) + 1
      ELSE CHOOSE i \in later : \A j \in later : i <= j

(* Fault: the gpSched task is not triggered.                               *)
ScheduleWithoutTrigger(t, inRange, cb, arg, rem, left) ==
  IF free = <<>> \/ ~ inRange
    THEN /\ fault' = IF free = <<>> THEN "pool" ELSE "range"
         /\ UNCHANGED <<list, free, ev, notified>>
    ELSE /\ free' = Tail(free)
         /\ ev' = [ev EXCEPT ![Head(free)] =
                     [time |-> t, cb |-> cb, arg |-> arg, rem |-> rem, left |-> left]]
         /\ list' = InsertAt(list, InsertPos(t), Head(free))
         /\ UNCHANGED <<notified, fault>>

(* Sched_ScheduleEvent under the EventList lock: take an element, fill it, *)
(* link it in time order, trigger the task.                                *)
ScheduleEvent(t, inRange, cb, arg, rem, left) ==
  IF free = <<>> \/ ~ inRange
    THEN /\ fault' = IF free = <<>> THEN "pool" ELSE "range"
         /\ UNCHANGED <<list, free, ev, notified>>
    ELSE /\ free' = Tail(free)
         /\ ev' = [ev EXCEPT ![Head(free)] =
                     [time |-> t, cb |-> cb, arg |-> arg, rem |-> rem, left |-> left]]
         /\ list' = InsertAt(list, InsertPos(t), Head(free))
         /\ notified' = TRUE
         /\ UNCHANGED fault

(* Fault: the remainder beyond the first interval is forgotten.            *)
RestPartLost(s) == 0

(* Sched_ScheduleEventInSeconds: the first Interval seconds now, the rest  *)
(* when they have elapsed.  One unit of the clock stands for one second.   *)
FirstPart(s) == IF s > Interval THEN Interval ELSE s
RestPart(s)  == s - FirstPart(s)
-----------------------------------------------------------------------------
(* Events that some caller still expects: listed, unlinked but not yet     *)
(* executed, or waiting in the interrupt queue.                            *)
InFlight    == cur # NoElem /\ pc = "exec"
Outstanding == Len(list) + Len(isrQ) + (IF InFlight THEN 1 ELSE 0)

MayCall == /\ Running
           /\ Outstanding < MaxPending

(* Ghost: rel counts down in the left field; for NOW it is due at once.    *)
Delay(rel) == IF rel = EVENT_TIME_NOW THEN 0 ELSE rel

(* gpSched_ScheduleEventArg from a task.                                   *)
ScheduleEventArg(rel, cb, arg) ==
  /\ MayCall
  /\ ScheduleEvent(AbsTime(rel), InRange(rel), cb, arg, 0, Delay(rel))
  /\ UNCHANGED <<now, cur, loopVars, intVars, isrVars, query>>

(* gpSched_ScheduleEventInSeconds from a task.                             *)
ScheduleEventInSeconds(s, cb, arg) ==
  /\ MayCall
  /\ ScheduleEvent(AbsTime(FirstPart(s)), InRange(FirstPart(s)), cb, arg,
                   RestPart(s), s)
  /\ UNCHANGED <<now, cur, loopVars, intVars, isrVars, query>>

(* Fault: only the first deferred event asks for a daemon call.            *)
ScheduleEventDeferredOnce(rel, cb, arg) ==
  /\ MayCall
  /\ isrQ' = IF Len(isrQ) < QueueLength
               THEN Append(isrQ, [rel |-> rel, cb |-> cb, arg |-> arg, age |-> 0])
               ELSE isrQ
  /\ pend' = IF isrQ = <<>> /\ pend < PendLength THEN pend + 1 ELSE pend
  /\ UNCHANGED <<now, poolVars, cur, loopVars, notified, intVars, query, fault>>

(* gpSched_ScheduleEventDeferred: the same call in interrupt context.  The *)
(* results of both FreeRTOS calls are ignored.                             *)
ScheduleEventDeferred(rel, cb, arg) ==
  /\ MayCall
  /\ isrQ' = IF Len(isrQ) < QueueLength
               THEN Append(isrQ, [rel |-> rel, cb |-> cb, arg |-> arg, age |-> 0])
               ELSE isrQ
  /\ pend' = IF pend < PendLength THEN pend + 1 ELSE pend
  /\ UNCHANGED <<now, poolVars, cur, loopVars, notified, intVars, query, fault>>

(* gpSched_DeferredEvent in the timer daemon: one element per call, the    *)
(* delay counted from now.                                                 *)
DeferredEvent ==
  /\ Running
  /\ pend > 0
  /\ pend' = pend - 1
  /\ IF isrQ = <<>>
       THEN UNCHANGED <<poolVars, isrQ, notified, fault>>
       ELSE LET q == Head(isrQ) IN
            /\ isrQ' = Tail(isrQ)
            /\ ScheduleEvent(AbsTime(q.rel), InRange(q.rel), q.cb, q.arg, 0,
                             Delay(q.rel) - q.age)
  /\ UNCHANGED <<now, cur, loopVars, intVars, query>>
-----------------------------------------------------------------------------
(* Sched_FindEventArg: the first listed match, a NULL argument matching    *)
(* every argument; 0 when there is none.                                   *)
Matches(e, cb, arg) == ev[e].cb = cb /\ (ev[e].arg = arg \/ arg = NoArg)

FindEventArg(cb, arg) ==
  LET found == {i \in 1 .. Len(list) : Matches(list[i], cb, arg)}
  IN  IF found = {} THEN 0 ELSE CHOOSE i \in found : \A j \in found : i <= j

(* What gpSched_ExistsEventArg returns.                                    *)
ExistsEventArg(cb, arg) == FindEventArg(cb, arg) # 0

(* Fault: the unlinked element is not given back to the pool.              *)
UnscheduleWithoutRelease(cb, arg) ==
  /\ Running /\ Cancels
  /\ ExistsEventArg(cb, arg)
  /\ LET i == FindEventArg(cb, arg) IN
     /\ list' = RemoveAt(list, i)
     /\ ev' = Forget({list[i]})
  /\ UNCHANGED <<now, free, cur, loopVars, notified, intVars, isrVars, query,
                 fault>>

(* gpSched_UnscheduleEventArg that finds its event.                        *)
UnscheduleEventArg(cb, arg) ==
  /\ Running /\ Cancels
  /\ ExistsEventArg(cb, arg)
  /\ LET i == FindEventArg(cb, arg) IN
     /\ list' = RemoveAt(list, i)
     /\ free' = Append(free, list[i])
     /\ ev' = Forget({list[i]})
  /\ UNCHANGED <<now, cur, loopVars, notified, intVars, isrVars, query,
                 fault>>

(* gpSched_Clear: unlinks from the tail and frees each element.            *)
Clear ==
  /\ Running /\ Cancels
  /\ list # <<>>
  /\ list' = <<>>
  /\ free' = free \o Reverse(list)
  /\ ev' = Forget(Range(list))
  /\ UNCHANGED <<now, cur, loopVars, notified, intVars, isrVars, query,
                 fault>>

(* gpSched_GetRemainingTimeArgInSecAndUs: the element is looked up under   *)
(* the lock and read after the lock is released.                           *)
GetRemainingTimeFind(cb, arg) ==
  /\ Running
  /\ MaxQueries > 0
  /\ query = NoQuery
  /\ ExistsEventArg(cb, arg)
  /\ query' = [e |-> list[FindEventArg(cb, arg)], cb |-> cb, arg |-> arg]
  /\ UNCHANGED <<now, poolVars, cur, loopVars, notified, intVars, isrVars, fault>>

GetRemainingTimeRead ==
  /\ Running
  /\ query # NoQuery
  /\ query' = NoQuery
  /\ UNCHANGED <<now, poolVars, cur, loopVars, notified, intVars, isrVars,
                 fault>>
-----------------------------------------------------------------------------
(* Fault: timerScheduled keeps the value of the previous round.            *)
TaskNotifyWaitStale ==
  /\ pc = "wait" /\ notified
  /\ notified' = FALSE
  /\ pc' = "body"
  /\ inLoop' = FALSE /\ wait' = 0
  /\ UNCHANGED <<now, poolVars, cur, timerSet, intVars, isrVars, query, fault>>

(* The gpSched task.  Sched_Main waits for its notification; the wait      *)
(* clears the bits and the two loop variables start afresh.                *)
TaskNotifyWait ==
  /\ pc = "wait" /\ notified
  /\ notified' = FALSE
  /\ pc' = "body"
  /\ inLoop' = FALSE /\ timerSet' = FALSE /\ wait' = 0
  /\ UNCHANGED <<now, poolVars, cur, intVars, isrVars, query, fault>>

(* Fault: the sources are handled and never unmasked.                      *)
HandleWithoutUnmask ==
  /\ pc = "body"
  /\ pc' = "get"
  /\ raised' = {}
  /\ UNCHANGED <<now, poolVars, cur, inLoop, timerSet, wait, es, notified,
                 masked, lag, isrVars, query, fault>>

(* hal_HandleRadioInterrupt(true), at the start of gpSched_Main_Body: every *)
(* raised source is handled, then (a separate step) all are unmasked.      *)
HandleRadioInterrupt ==
  /\ pc = "body"
  /\ pc' = IF raised # {} THEN "unmask" ELSE "get"
  /\ raised' = {}
  /\ UNCHANGED <<now, poolVars, cur, inLoop, timerSet, wait, es, notified,
                 masked, lag, isrVars, query, fault>>

(* A source raised while it was masked gets its handler at once.           *)
UnmaskRadioInterrupt ==
  /\ pc = "unmask"
  /\ pc' = "get"
  /\ masked' = raised
  /\ notified' = (notified \/ raised # {})
  /\ UNCHANGED <<now, poolVars, cur, inLoop, timerSet, wait, es, raised,
                 lag, isrVars, query, fault>>

AfterBody == IF inLoop THEN "next" ELSE "check"

(* Fault: due by a plain comparison of times.                              *)
IsDuePlain == list # <<>> /\ now >= FirstTime

(* Sched_GetEvent: unlink the first element when it is due.                *)
IsDue == list # <<>> /\ TIME_COMPARE_BIGGER_EQUAL(now, FirstTime)

GetEvent ==
  /\ pc = "get"
  /\ IF IsDue
       THEN cur' = Head(list) /\ list' = Tail(list) /\ pc' = "exec"
       ELSE UNCHANGED <<cur, list>> /\ pc' = AfterBody
  /\ UNCHANGED <<now, free, ev, inLoop, timerSet, wait, notified, intVars,
                 isrVars, query, fault>>

(* A distant event whose interval has elapsed is scheduled again in an     *)
(* element of its own, counted from the deadline that has just passed.     *)
ReScheduleInSeconds ==
  /\ pc = "exec" /\ ev[cur].rem > 0
  /\ LET d == ev[cur]
         t == Plus(d.time, FirstPart(d.rem))
     IN  ScheduleEvent(t, TRUE, d.cb, d.arg, RestPart(d.rem), d.left)
  /\ pc' = "release"
  /\ UNCHANGED <<now, cur, inLoop, timerSet, wait, intVars, isrVars, query>>

(* Sched_ExecEvent: the callback starts.  What it does to the scheduler is *)
(* the work of the caller actions while pc = "release".                    *)
ExecEvent ==
  /\ pc = "exec" /\ ev[cur].rem = 0
  /\ pc' = "release"
  /\ UNCHANGED <<now, poolVars, cur, inLoop, timerSet, wait, notified, intVars,
                 isrVars, query, fault>>

(* Sched_ReleaseEvent: the element goes back to the pool.                  *)
ReleaseEvent ==
  /\ pc = "release"
  /\ free' = Append(free, cur)
  /\ ev' = Forget({cur})
  /\ cur' = NoElem
  /\ pc' = AfterBody
  /\ UNCHANGED <<now, list, inLoop, timerSet, wait, notified, intVars,
                 isrVars, query, fault>>

(* The condition of the while loop: the queue first, the interrupt second. *)
CheckQueue ==
  /\ pc = "check"
  /\ IF list # <<>> /\ ~ timerSet
       THEN pc' = "body" /\ inLoop' = TRUE
       ELSE pc' = "checkRadio" /\ UNCHANGED inLoop
  /\ UNCHANGED <<now, poolVars, cur, timerSet, wait, notified, intVars, isrVars,
                 query, fault>>

CheckRadio ==
  /\ pc = "checkRadio"
  /\ IF raised # {}
       THEN pc' = "body" /\ inLoop' = TRUE
       ELSE pc' = "wait" /\ UNCHANGED inLoop
  /\ lag' = IF raised = {} /\ ~ notified THEN 0 ELSE lag
  /\ UNCHANGED <<now, poolVars, cur, timerSet, wait, notified, raised, masked, es,
                 isrVars, query, fault>>

(* gpSched_GetTimeToNextEvent; 0 for an empty queue and an overdue event.  *)
TimeToNextEvent ==
  IF list # <<>> /\ TIME_COMPARE_BIGGER_EQUAL(FirstTime, now)
    THEN Minus(FirstTime, now) ELSE 0

GetTimeToNextEvent ==
  /\ pc = "next"
  /\ IF TimeToNextEvent > 0 /\ ~ timerSet
       THEN wait' = TimeToNextEvent /\ pc' = "arm"
       ELSE wait' = 0 /\ pc' = "check"
  /\ UNCHANGED <<now, poolVars, cur, inLoop, timerSet, notified, intVars,
                 isrVars, query, fault>>

(* Sched_ScheduleESTimer: refresh the one absolute event of the scheduler. *)
ScheduleESTimer ==
  /\ pc = "arm"
  /\ es' = Plus(now, wait)
  /\ timerSet' = TRUE /\ wait' = 0
  /\ pc' = "check"
  /\ UNCHANGED <<now, poolVars, cur, inLoop, notified, raised, masked,
                 lag, isrVars, query, fault>>

TaskStep ==
  /\ Running
  /\ \/ TaskNotifyWait \/ HandleRadioInterrupt \/ UnmaskRadioInterrupt
     \/ GetEvent \/ ReScheduleInSeconds \/ ExecEvent \/ ReleaseEvent
     \/ CheckQueue \/ CheckRadio \/ GetTimeToNextEvent \/ ScheduleESTimer
-----------------------------------------------------------------------------
(* es_handler_impl, phy_handler_impl, rci_handler_impl: a source that is   *)
(* not masked interrupts whatever task runs; its handler masks it and      *)
(* notifies the gpSched task.                                              *)
Raise(src) ==
  /\ raised' = raised \cup {src}
  /\ masked' = masked \cup {src}
  /\ notified' = (notified \/ src \notin masked)
  /\ UNCHANGED <<now, poolVars, cur, loopVars, lag, isrVars, query, fault>>

(* The ES event fires at its time or, armed too late, at once.             *)
EsIsDue == es # NoTime /\ TIME_COMPARE_BIGGER_EQUAL(now, es)

EsFires ==
  /\ Running /\ EsIsDue
  /\ es' = NoTime
  /\ Raise("es")

RadioRaises ==
  /\ Running /\ "radio" \notin raised
  /\ Raise("radio")
  /\ UNCHANGED es

Blocked == pc = "wait" /\ ~ notified

(* Time passes.  The hardware does not miss its time, a runnable gpSched   *)
(* task blocks again within MaxLag, the daemon is no later than MaxLag.    *)
MayTick ==
  /\ ~ EsIsDue
  /\ ~ Blocked => lag < MaxLag
  /\ \A i \in 1 .. Len(isrQ) : isrQ[i].age < MaxLag

IsWaiting(e) == e \in Range(list) \/ (InFlight /\ e = cur)

Tick ==
  /\ Running /\ MayTick
  /\ now' = Plus(now, 1)
  /\ lag' = IF Blocked THEN lag ELSE lag + 1
  /\ ev' = [e \in Elem |-> IF IsWaiting(e)
                             THEN [ev[e] EXCEPT !.left = @ - 1] ELSE ev[e]]
  /\ isrQ' = [i \in 1 .. Len(isrQ) |-> [isrQ[i] EXCEPT !.age = @ + 1]]
  /\ UNCHANGED <<list, free, cur, loopVars, notified, raised, masked, es,
                 pend, query, fault>>
-----------------------------------------------------------------------------
(* gpSched_Init and main: an empty list, a full pool; the scheduler task   *)
(* waits for its first notification.                                       *)
Init ==
  /\ now \in Time
  /\ list = <<>>
  /\ free \in [1 .. Cardinality(Elem) -> Elem] /\ IsInjective(free)
  /\ ev = [e \in Elem |-> Blank]
  /\ cur = NoElem /\ pc = "wait" /\ inLoop = FALSE /\ timerSet = FALSE
  /\ wait = 0 /\ es = NoTime /\ notified = FALSE
  /\ raised = {} /\ masked = {} /\ lag = 0
  /\ isrQ = <<>> /\ pend = 0 /\ query = NoQuery /\ fault = "none"

CallerStep ==
  \/ \E cb \in Callbacks, arg \in Args :
       \/ \E rel \in RelTimes : ScheduleEventArg(rel, cb, arg)
       \/ \E s \in Seconds : ScheduleEventInSeconds(s, cb, arg)
       \/ \E rel \in RelTimes : ScheduleEventDeferred(rel, cb, arg)
       \/ UnscheduleEventArg(cb, arg)
       \/ GetRemainingTimeFind(cb, arg)
  \/ GetRemainingTimeRead
  \/ Clear

HardwareStep == EsFires \/ RadioRaises

Next == CallerStep \/ DeferredEvent \/ TaskStep \/ HardwareStep \/ Tick

(* The gpSched task and the daemon are FreeRTOS tasks that are never       *)
(* suspended, the ES timer fires, time passes.                             *)
Fairness ==
  /\ WF_vars(TaskStep)
  /\ WF_vars(DeferredEvent)
  /\ WF_vars(EsFires)
  /\ WF_vars(Tick)

Spec == Init /\ [][Next]_vars
FairSpec == Spec /\ Fairness
-----------------------------------------------------------------------------
(* Bounds under which the modular order is meaningful: no caller asks for  *)
(* more than half the clock's range counted from the latest overdue event  *)
(* (the comment in Sched_RescheduleEvent asks for exactly this).           *)
DelaysFit ==
  /\ 2 * MaxLag < EVENT_TIME_MAX
  /\ \A rel \in RelTimes : rel + 2 * MaxLag < EVENT_TIME_MAX
  /\ \A s \in Seconds : FirstPart(s) + 2 * MaxLag < EVENT_TIME_MAX

(* Callers leave one element for the event being executed.                 *)
PoolSuffices == MaxPending < Cardinality(Elem)

Places == {"wait", "body", "unmask", "get", "exec", "release", "check",
           "checkRadio", "next", "arm"}

Elements == [time : Time, cb : Callbacks \cup {NoElem}, arg : Args \cup {NoElem},
             rem : Nat, left : Int]

QueueItems == [rel : RelTimes, cb : Callbacks, arg : Args, age : Nat]

(* Every variable holds a value of its type.                               *)
TypeOK ==
  /\ now \in Time
  /\ list \in Seq(Elem) /\ free \in Seq(Elem)
  /\ ev \in [Elem -> Elements]
  /\ cur \in Elem \cup {NoElem} /\ pc \in Places
  /\ inLoop \in BOOLEAN /\ timerSet \in BOOLEAN /\ wait \in Time
  /\ es \in Time \cup {NoTime} /\ notified \in BOOLEAN
  /\ raised \subseteq Sources /\ masked \subseteq Sources /\ lag \in Nat
  /\ isrQ \in Seq(QueueItems) /\ pend \in Nat
  /\ query \in [e : Elem \cup {NoElem}, cb : Callbacks \cup {NoElem},
                arg : Args \cup {NoElem}]
  /\ fault \in {"none", "pool", "range"}

(* Every element of the array is in exactly one place at every moment: in  *)
(* the pool, in the list, or unlinked in the hands of the gpSched task.    *)
(* A double Sched_ReleaseEvent, an unlink without release (Unschedule and  *)
(* Clear racing GetEvent) or a lost element would break it.                *)
PoolConserved ==
  /\ IsInjective(list) /\ IsInjective(free)
  /\ Range(list) \cap Range(free) = {}
  /\ cur \notin Range(list) \cup Range(free)
  /\ Range(list) \cup Range(free) \cup ({cur} \ {NoElem}) = Elem
  /\ cur # NoElem <=> pc \in {"exec", "release"}

(* The list is ordered by the modular comparison of every pair, not only   *)
(* of neighbours, while the clock wraps: GetEvent looks at the first       *)
(* element only, so an element out of order is executed late.              *)
ListSorted ==
  \A i, j \in 1 .. Len(list) :
    i < j => ~ TIME_COMPARE_BIGGER(ev[list[i]].time, ev[list[j]].time)

(* The absolute times of the list stand for the delays asked for: what is  *)
(* left of a listed event (of all its intervals, for a distant one) is     *)
(* never more than the clock still has to run.  One interval computed from *)
(* the execution time instead of the deadline, or lost, breaks it.         *)
DueIsKept ==
  \A e \in Range(list) : Ahead(ev[e].time, now) + ev[e].rem >= ev[e].left

(* No callback runs before the delay its caller asked for has elapsed,     *)
(* whatever the wrap-arounds, re-schedulings and deferrals on its way.     *)
NeverEarly == [][ExecEvent => ev[cur].left <= 0]_vars

(* With callers that respect the documented range and leave one element    *)
(* for the event being executed, neither assertion of the scheduler fires. *)
NoAssertion == fault = "none"

(* No lost wake-up: whenever the gpSched task blocks with events listed,   *)
(* the ES timer is armed.  The loop that leaves with events in the list,   *)
(* an event listed between the last look and the wait, and an interrupt    *)
(* that fires while its source is masked are the ways to lose one.         *)
WakeUpPending == Blocked /\ list # <<>> => es # NoTime

(* ... and armed no later than the first deadline plus the time the task   *)
(* was held up between reading the clock and arming.                       *)
WakeUpInTime ==
  Blocked /\ list # <<>> /\ es # NoTime => Ahead(es, FirstTime) <= MaxLag

(* An interrupt source that is raised, or left masked, is always on its way*)
(* to the code that handles and unmasks it.                                *)
InterruptsServed ==
  raised \cup masked # {} => notified \/ pc \in {"body", "unmask"}

(* No listed event is overdue by more than two busy periods of the task:   *)
(* one that delayed the arming of the timer, one that is executing.        *)
OverdueBounded ==
  \A e \in Range(list) : Ahead(now, ev[e].time) <= 2 * MaxLag

(* Every event in the interrupt queue has a daemon call on its way.        *)
DeferralsServed == Len(isrQ) <= pend

(* Whatever has happened before, once callers and the radio fall silent    *)
(* every event asked for is executed: neither the timer re-arming rule, nor*)
(* the loop that leaves with an event listed, nor a deferral, strands one. *)
EventsComplete ==
  <>[][~ (CallerStep \/ RadioRaises)]_vars => <>[](Outstanding = 0)
-----------------------------------------------------------------------------
(* The promise of SchedAbs.  A request waits in the list, unlinked but not *)
(* yet executed, or in the interrupt queue.                                *)
Request(d) == [cb |-> d.cb, arg |-> d.arg, left |-> d.left]

Deferred(q) == [cb |-> q.cb, arg |-> q.arg, left |-> Delay(q.rel) - q.age]

AllRequests ==
  [i \in 1 .. Len(list) |-> Request(ev[list[i]])]
    \o [i \in 1 .. Len(isrQ) |-> Deferred(isrQ[i])]
    \o (IF InFlight THEN <<Request(ev[cur])>> ELSE <<>>)

BagOf(s) == [r \in Range(s) |-> Cardinality({i \in DOMAIN s : s[i] = r})]

Abs == INSTANCE SchedAbs WITH
         pending <- LET all == AllRequests IN BagOf(all),
         running <- IF pc = "release" /\ ev[cur].rem = 0
                      THEN <<ev[cur].cb, ev[cur].arg>> ELSE NoElem,
         None    <- NoElem,
         Delays  <- {Delay(rel) : rel \in RelTimes} \cup Seconds,
         MaxLate <- 3 * MaxLag

(* The scheduler implements that promise: the list surgery, the free list, *)
(* the distant events, the deferral and the timer never lose, duplicate,   *)
(* advance or unduly delay a request.                                      *)
Promise == Abs!AbsSpec
=============================================================================
