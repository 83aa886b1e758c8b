----------------------------- MODULE LockProofs -----------------------------
(***************************************************************************)
(* What holds of the door lock for every length of its event queue, any    *)
(* interleaving of its two tasks and any use of its buttons: types, that a *)
(* movement takes its time and has a timer unless its start failed, that a *)
(* factory reset needs the button held, that a selection ends with the     *)
(* release of the button unless its timer did not start, and that the      *)
(* cluster says where the button left the bolt.                            *)
(***************************************************************************)
EXTENDS Lock, SequenceTheorems, TLAPS

(* Both ends of the queue: what posting adds and what receiving takes.     *)
LEMMA PostElements ==
  ASSUME NEW q \in Seq(Events), NEW e \in Events, Len(q) <= QueueLength
  PROVE  /\ Post(q, e) \in Seq(Events) /\ Len(Post(q, e)) <= QueueLength
         /\ \/ Post(q, e) = q
            \/ /\ Len(Post(q, e)) = Len(q) + 1
               /\ \A i \in 1 .. Len(q) : Post(q, e)[i] = q[i]
               /\ Post(q, e)[Len(q) + 1] = e
         /\ Len(q) < QueueLength => Post(q, e) # q
<1>1. Len(q) \in Nat /\ QueueLength \in Nat
  BY LockAssumption, LenProperties
<1>2. /\ Append(q, e) \in Seq(Events) /\ Len(Append(q, e)) = Len(q) + 1
      /\ \A i \in 1 .. Len(q) : Append(q, e)[i] = q[i]
      /\ Append(q, e)[Len(q) + 1] = e
  BY AppendProperties
<1>3. Append(q, e) # q
  BY <1>1, <1>2
<1> QED BY <1>1, <1>2, <1>3 DEF Post

(* What is left of a queue when its head is taken.                         *)
LEMMA TailElements ==
  ASSUME NEW q \in Seq(Events), q # <<>>
  PROVE  /\ Tail(q) \in Seq(Events) /\ Head(q) \in Events /\ Head(q) = q[1]
         /\ Len(q) \in Nat \ {0} /\ Len(Tail(q)) = Len(q) - 1
         /\ \A i \in 1 .. Len(q) - 1 : Tail(q)[i] = q[i + 1]
<1>1. Len(q) \in Nat /\ Len(q) # 0
  BY LenProperties, EmptySeq
<1> QED BY <1>1, HeadTailProperties
-----------------------------------------------------------------------------
(* The states of the bolt, one by one.                                     *)
LEMMA BoltStates ==
  /\ Initiated("LOCK") = "LockingInitiated" /\ Completed("LOCK") = "LockingCompleted"
  /\ Initiated("UNLOCK") = "UnlockingInitiated"
  /\ Completed("UNLOCK") = "UnlockingCompleted"
BY DEF Initiated, Completed

(* The start has the types.                                                *)
LEMMA TypeInit ==
  ASSUME Init PROVE TypeOK
<1>1. /\ <<>> \in Seq(Events) /\ Len(<<>>) = 0 /\ 0 <= QueueLength
      /\ <<Locked>> \in Seq({Locked, Unlocked})
  BY LockAssumption
<1> QED BY <1>1
           DEF TypeOK, Functions, Init, Start, Idle, Actions, States, Places, AppPlaces

(* An accepted action goes to work, another one does not.                  *)
LEMMA DecideType ==
  ASSUME NEW a \in Actions
  PROVE  Decide(a) \in [pc : {"idle", "start"}, act : Actions]
BY DEF Decide, Idle, Actions

(* One step of InitiateAction by a task whose places include its four.     *)
LEMMA InitiateType ==
  ASSUME NEW P, Places \subseteq P, app \in [pc : P, act : Actions],
         mState \in States, timer \in BOOLEAN, elapsed \in BOOLEAN,
         noTimer \in BOOLEAN, sync \in BOOLEAN,
         InitiateAction(app)
  PROVE  /\ app' \in [pc : P, act : Actions] /\ mState' \in States
         /\ timer' \in BOOLEAN /\ elapsed' \in BOOLEAN
         /\ noTimer' \in BOOLEAN /\ sync' \in BOOLEAN
<1>0. /\ {"idle", "state", "notify"} \subseteq P /\ Idle \in [pc : P, act : Actions]
      /\ app.act \in Actions /\ \A a \in Actions : Initiated(a) \in States
  BY DEF Places, Idle, Actions, States, Initiated
<1>1. CASE StartTimer(app)
  BY <1>0, <1>1 DEF StartTimer
<1>2. CASE SetState(app)
  BY <1>0, <1>2 DEF SetState, timerVars
<1>3. CASE Notify(app)
  BY <1>0, <1>3 DEF Notify, timerVars
<1> QED BY <1>1, <1>2, <1>3 DEF InitiateAction

(* The same for the Matter task.                                           *)
LEMMA InitiateTypeChip ==
  ASSUME chip \in [pc : Places, act : Actions],
         mState \in States, timer \in BOOLEAN, elapsed \in BOOLEAN,
         noTimer \in BOOLEAN, sync \in BOOLEAN,
         InitiateAction(chip)
  PROVE  /\ chip' \in [pc : Places, act : Actions] /\ mState' \in States
         /\ timer' \in BOOLEAN /\ elapsed' \in BOOLEAN
         /\ noTimer' \in BOOLEAN /\ sync' \in BOOLEAN
<1>0. /\ {"idle", "state", "notify"} \subseteq Places /\ Idle \in [pc : Places, act : Actions]
      /\ chip.act \in Actions /\ \A a \in Actions : Initiated(a) \in States
  BY DEF Places, Idle, Actions, States, Initiated
<1>1. CASE StartTimer(chip)
  BY <1>0, <1>1 DEF StartTimer
<1>2. CASE SetState(chip)
  BY <1>0, <1>2 DEF SetState, timerVars
<1>3. CASE Notify(chip)
  BY <1>0, <1>3 DEF Notify, timerVars
<1> QED BY <1>1, <1>2, <1>3 DEF InitiateAction

(* Receiving leaves a shorter queue of events.                             *)
LEMMA ReceiveType ==
  ASSUME TypeOK, NEW kind, Receive(kind)
  PROVE  /\ queue' \in Seq(Events) /\ Len(queue') <= QueueLength
         /\ queue' = Tail(queue) /\ queue # <<>> /\ Head(queue) = queue[1]
         /\ Head(queue) \in Events /\ Head(queue).kind = kind /\ app.pc = "idle"
         /\ Len(queue) \in Nat \ {0} /\ Len(queue') = Len(queue) - 1
         /\ \A i \in 1 .. Len(queue) - 1 : queue'[i] = queue[i + 1]
<1>1. queue \in Seq(Events) /\ Len(queue) <= QueueLength /\ QueueLength \in Nat
  BY LockAssumption DEF TypeOK
<1> QED BY <1>1, TailElements DEF Receive

(* The events of the buttons fit in the queue.                             *)
LEMMA ButtonEventsType ==
  ASSUME TypeOK, NEW d \in SUBSET {"lock", "function"}
  PROVE  ButtonEvents(queue, d) \in Seq(Events) /\ Len(ButtonEvents(queue, d)) <= QueueLength
<1> DEFINE first == IF "lock" \in d THEN Post(queue, Event("lock")) ELSE queue
           last  == [Event("function") EXCEPT !.held = "function" \in d]
<1>0. ("function" \in d) \in BOOLEAN
  OBVIOUS
<1>1. Event("lock") \in Events /\ last \in Events
  BY <1>0 DEF Event, Events
<1>2. first \in Seq(Events) /\ Len(first) <= QueueLength
  BY <1>1, PostElements DEF TypeOK
<1> QED BY <1>1, <1>2, PostElements DEF ButtonEvents

(* Every step of the application task keeps the types.                     *)
LEMMA TypeApp ==
  ASSUME TypeOK, AppStep PROVE TypeOK'
<1>0. Idle \in [pc : Places, act : Actions] /\ Places \subseteq AppPlaces
  BY DEF Idle, Places, AppPlaces, Actions
<1>1. CASE LockActionEventHandler
  <2>1. queue' \in Seq(Events) /\ Len(queue') <= QueueLength
    BY <1>1, ReceiveType DEF LockActionEventHandler
  <2>2. app' \in [pc : AppPlaces, act : Actions]
    BY <1>1 DEF LockActionEventHandler, AppPlaces, Actions
  <2> QED BY <1>1, <2>1, <2>2
             DEF TypeOK, LockActionEventHandler, boltVars, timerVars, homeVars, fnVars, fnTimers
<1>2. CASE CompleteMovement
  <2>1. queue' \in Seq(Events) /\ Len(queue') <= QueueLength
    BY <1>2, ReceiveType DEF CompleteMovement
  <2>2. app' \in [pc : AppPlaces, act : Actions]
    BY <1>2 DEF TypeOK, CompleteMovement, AppPlaces, Actions
  <2>3. mState' \in States
    <3>1. ASSUME IsActionInProgress
          PROVE  (CHOOSE a \in Actions : mState = Initiated(a)) \in Actions
      BY <3>1 DEF IsActionInProgress
    <3>2. \A a \in Actions : Completed(a) \in States
      BY DEF Actions, States, Completed
    <3> QED BY <1>2, <3>1, <3>2 DEF TypeOK, CompleteMovement
  <2> QED BY <1>2, <2>1, <2>2, <2>3 DEF TypeOK, CompleteMovement, timerVars, homeVars,
                                       fnVars, fnTimers
<1>3. CASE UpdateClusterState
  <2>1. app' \in [pc : AppPlaces, act : Actions]
    BY <1>0, <1>3 DEF TypeOK, UpdateClusterState, AppPlaces
  <2>2. lambdas' \in Seq({Locked, Unlocked})
    <3> DEFINE value == IF IsUnlocked THEN Unlocked ELSE Locked
    <3>1. value \in {Locked, Unlocked} /\ lambdas \in Seq({Locked, Unlocked})
      BY DEF TypeOK
    <3>2. Append(lambdas, value) \in Seq({Locked, Unlocked})
      BY <3>1, AppendProperties
    <3> QED BY <1>3, <3>1, <3>2 DEF UpdateClusterState
  <2> QED BY <1>3, <2>1, <2>2
             DEF TypeOK, UpdateClusterState, boltVars, timerVars, fnVars, fnTimers
<1>4. CASE ClearSync
  BY <1>0, <1>4 DEF TypeOK, ClearSync, timerVars, homeVars, fnVars, fnTimers
<1>5. CASE FunctionHandler
  <2>1. queue' \in Seq(Events) /\ Len(queue') <= QueueLength
    BY <1>5, ReceiveType DEF FunctionHandler
  <2>2. /\ fn' \in Functions
        /\ fnActive' \in BOOLEAN /\ fnTimer' \in BOOLEAN /\ noFnTimer' \in BOOLEAN
    BY <1>5 DEF TypeOK, FunctionHandler, StartFnTimer, CancelFnTimer, Functions, fnTimers
  <2> QED BY <1>5, <2>1, <2>2 DEF TypeOK, FunctionHandler, boltVars, timerVars, homeVars
<1>6. CASE FunctionTimerEventHandler
  <2>1. queue' \in Seq(Events) /\ Len(queue') <= QueueLength
    BY <1>6, ReceiveType DEF FunctionTimerEventHandler
  <2>2. /\ fn' \in Functions
        /\ fnActive' \in BOOLEAN /\ fnTimer' \in BOOLEAN /\ noFnTimer' \in BOOLEAN
        /\ resetDue' \in BOOLEAN
    BY <1>6 DEF TypeOK, FunctionTimerEventHandler, StartFnTimer, NextFunction, fnVars,
                fnTimers, Functions
  <2> QED BY <1>6, <2>1, <2>2
             DEF TypeOK, FunctionTimerEventHandler, boltVars, timerVars, homeVars
<1>7. CASE AppDecides
  <2>1. app' \in [pc : AppPlaces, act : Actions]
    BY <1>7, DecideType DEF TypeOK, AppDecides, AppPlaces, Places
  <2> QED BY <1>7, <2>1
             DEF TypeOK, AppDecides, boltVars, timerVars, homeVars, fnVars, fnTimers
<1>8. CASE AppInitiates
  <2>1. /\ app' \in [pc : AppPlaces, act : Actions] /\ mState' \in States
        /\ timer' \in BOOLEAN /\ elapsed' \in BOOLEAN
        /\ noTimer' \in BOOLEAN /\ sync' \in BOOLEAN
    BY <1>0, <1>8, InitiateType DEF TypeOK, AppInitiates
  <2> QED BY <1>8, <2>1 DEF TypeOK, AppInitiates, homeVars, fnVars, fnTimers
<1> QED BY <1>1, <1>2, <1>3, <1>4, <1>5, <1>6, <1>7, <1>8 DEF AppStep

(* So does every step of the others.                                       *)
LEMMA TypeOthers ==
  ASSUME TypeOK,
         ChipStep \/ UserStep \/ MovementTimerExpires \/ FunctionTimerExpires \/ Restart
  PROVE  TypeOK'
<1>1. CASE ChipInitiates
  <2>1. /\ chip' \in [pc : Places, act : Actions] /\ mState' \in States
        /\ timer' \in BOOLEAN /\ elapsed' \in BOOLEAN
        /\ noTimer' \in BOOLEAN /\ sync' \in BOOLEAN
    BY <1>1, InitiateTypeChip DEF TypeOK, ChipInitiates
  <2> QED BY <1>1, <2>1 DEF TypeOK, ChipInitiates, homeVars, fnVars, fnTimers
<1>2. CASE RunLambda
  <2>1. /\ lambdas' \in Seq({Locked, Unlocked}) /\ attr' \in {Locked, Unlocked}
    BY <1>2, HeadTailProperties DEF TypeOK, RunLambda
  <2>2. chip' \in [pc : Places, act : Actions]
    BY <1>2, DecideType DEF RunLambda, Places, Actions
  <2> QED BY <1>2, <2>1, <2>2 DEF TypeOK, RunLambda, boltVars, timerVars, fnVars, fnTimers
<1>3. ASSUME NEW d \in SUBSET {"lock", "function"}, PollGPIO(d) PROVE TypeOK'
  <2>1. queue' \in Seq(Events) /\ Len(queue') <= QueueLength
    BY <1>3, ButtonEventsType DEF PollGPIO
  <2> QED BY <1>3, <2>1 DEF TypeOK, PollGPIO, boltVars, timerVars, homeVars, fnVars, fnTimers
<1>4. ASSUME NEW a \in Actions, Command(a) PROVE TypeOK'
  <2>1. chip' \in [pc : Places, act : Actions]
    BY <1>4, DecideType DEF Command, Places
  <2> QED BY <1>4, <2>1 DEF TypeOK, Command, boltVars, timerVars, homeVars, fnVars, fnTimers
<1>5. CASE MovementTimerExpires
  <2>1. Event("movement") \in Events
    BY DEF Event, Events
  <2>2. queue' \in Seq(Events) /\ Len(queue') <= QueueLength
    BY <1>5, <2>1, PostElements DEF TypeOK, MovementTimerExpires
  <2> QED BY <1>5, <2>2 DEF TypeOK, MovementTimerExpires, homeVars, fnVars, fnTimers
<1>6. CASE FunctionTimerExpires
  <2>1. ("function" \in down) \in BOOLEAN
    OBVIOUS
  <2>2. [kind |-> "fnTimer", held |-> "function" \in down] \in Events
    BY <2>1 DEF Events
  <2>3. queue' \in Seq(Events) /\ Len(queue') <= QueueLength
    BY <1>6, <2>2, PostElements DEF TypeOK, FunctionTimerExpires
  <2> QED BY <1>6, <2>3 DEF TypeOK, FunctionTimerExpires, boltVars, timerVars, homeVars
<1>7. CASE Restart
  <2>1. /\ <<>> \in Seq(Events) /\ Len(<<>>) = 0 /\ 0 <= QueueLength
        /\ <<Locked>> \in Seq({Locked, Unlocked})
    BY LockAssumption
  <2> QED BY <1>7, <2>1
             DEF TypeOK, Functions, Restart, Start, Idle, Actions, States, Places, AppPlaces
<1> QED BY <1>1, <1>2, <1>3, <1>4, <1>5, <1>6, <1>7 DEF ChipStep, UserStep

(* So does every step.                                                     *)
LEMMA TypeStep ==
  ASSUME TypeOK, [Next]_vars PROVE TypeOK'
<1>1. CASE UNCHANGED vars
  BY <1>1 DEF TypeOK, vars
<1> QED BY <1>1, TypeApp, TypeOthers DEF Next

(* Every variable keeps its type and the queue its length, whatever the    *)
(* buttons, the commands and the timers do.                                *)
THEOREM LockTypes == Spec => []TypeOK
BY TypeInit, TypeStep, PTL DEF Spec
-----------------------------------------------------------------------------
(* The movement.  An expiry in the queue speaks of the movement that is in *)
(* progress because nothing can be initiated from the start of the timer   *)
(* to the handling of its expiry; the two tasks can only both be at work   *)
(* on the same action, before either has let the timer run out.            *)
Working(its) == its.pc \in {"start", "state", "notify"}
Opposite(a) == IF a = "LOCK" THEN "UNLOCK" ELSE "LOCK"

NoMovementIn(q) == \A i \in 1 .. Len(q) : q[i].kind # "movement"
OneMovementIn(q) ==
  \A i, j \in 1 .. Len(q) :
    q[i].kind = "movement" /\ q[j].kind = "movement" => i = j

(* A task is at work only while no expiry is queued, on an action that was *)
(* possible and is not yet complete.                                       *)
WorkIsAccepted(its) ==
  Working(its) =>
    /\ NoMovementIn(queue)
    /\ mState \in {Completed(Opposite(its.act)), Initiated(its.act)}

(* The timer runs for a movement, or for a task about to begin one.        *)
TimerRunsForAction ==
  timer => /\ NoMovementIn(queue)
           /\ IsActionInProgress \/ app.pc = "state" \/ chip.pc = "state"

(* The one expiry that is queued is that of the movement in progress.      *)
ExpiryIsOfMovement ==
  \/ NoMovementIn(queue)
  \/ OneMovementIn(queue) /\ IsActionInProgress /\ elapsed

MoveInv == /\ WorkIsAccepted(app) /\ WorkIsAccepted(chip)
           /\ TimerRunsForAction /\ ExpiryIsOfMovement

(* Receiving an event adds no expiry, and takes the one there is.          *)
LEMMA ReceiveMovements ==
  ASSUME TypeOK, NEW kind, Receive(kind)
  PROVE  /\ NoMovementIn(queue) => NoMovementIn(queue') /\ kind # "movement"
         /\ OneMovementIn(queue) => OneMovementIn(queue')
         /\ OneMovementIn(queue) /\ kind = "movement" => NoMovementIn(queue')
<1>1. /\ queue[1].kind = kind /\ Len(queue) \in Nat \ {0}
      /\ Len(queue') = Len(queue) - 1
      /\ \A i \in 1 .. Len(queue) - 1 : queue'[i] = queue[i + 1]
  BY ReceiveType
<1>2. /\ 1 \in 1 .. Len(queue)
      /\ \A i \in 1 .. Len(queue') : i + 1 \in 1 .. Len(queue) /\ queue'[i] = queue[i + 1]
  BY <1>1
<1>3. NoMovementIn(queue) => NoMovementIn(queue') /\ kind # "movement"
  BY <1>1, <1>2 DEF NoMovementIn
<1>4. ASSUME OneMovementIn(queue) PROVE OneMovementIn(queue')
  <2> SUFFICES ASSUME NEW i \in 1 .. Len(queue'), NEW j \in 1 .. Len(queue'),
                      queue'[i].kind = "movement", queue'[j].kind = "movement"
               PROVE  i = j
    BY DEF OneMovementIn
  <2>1. i + 1 = j + 1
    BY <1>2, <1>4 DEF OneMovementIn
  <2> QED BY <2>1
<1>5. ASSUME OneMovementIn(queue), kind = "movement" PROVE NoMovementIn(queue')
  <2> SUFFICES ASSUME NEW i \in 1 .. Len(queue'), queue'[i].kind = "movement"
               PROVE  FALSE
    BY DEF NoMovementIn
  <2>1. i + 1 = 1
    BY <1>1, <1>2, <1>5 DEF OneMovementIn
  <2> QED BY <2>1
<1> QED BY <1>3, <1>4, <1>5

(* Posting another event leaves the expiries as they are.                  *)
LEMMA PostMovements ==
  ASSUME NEW q \in Seq(Events), NEW e \in Events, Len(q) <= QueueLength
  PROVE  /\ e.kind # "movement" /\ NoMovementIn(q) => NoMovementIn(Post(q, e))
         /\ e.kind # "movement" /\ OneMovementIn(q) => OneMovementIn(Post(q, e))
         /\ NoMovementIn(q) => OneMovementIn(Post(q, e))
<1> DEFINE p == Post(q, e)
<1>1. Len(q) \in Nat
  BY LenProperties
<1>2. CASE p = q
  BY <1>2 DEF NoMovementIn, OneMovementIn
<1>3. CASE p # q
  <2>1. /\ Len(p) = Len(q) + 1 /\ p[Len(q) + 1] = e
        /\ \A i \in 1 .. Len(q) : p[i] = q[i]
    BY <1>3, PostElements
  <2> HIDE DEF p
  <2>2. \A i \in 1 .. Len(p) : i = Len(q) + 1 \/ i \in 1 .. Len(q)
    BY <1>1, <2>1
  <2>3. ASSUME NoMovementIn(q)
        PROVE  OneMovementIn(p) /\ (e.kind # "movement" => NoMovementIn(p))
    BY <2>1, <2>2, <2>3 DEF NoMovementIn, OneMovementIn
  <2>4. ASSUME OneMovementIn(q), e.kind # "movement" PROVE OneMovementIn(p)
    BY <2>1, <2>2, <2>4 DEF OneMovementIn
  <2> QED BY <2>3, <2>4 DEF p
<1> QED BY <1>2, <1>3

(* A change of the buttons adds no expiry.                                 *)
LEMMA ButtonMovements ==
  ASSUME TypeOK, NEW d \in SUBSET {"lock", "function"}
  PROVE  /\ NoMovementIn(queue) => NoMovementIn(ButtonEvents(queue, d))
         /\ OneMovementIn(queue) => OneMovementIn(ButtonEvents(queue, d))
<1> DEFINE first == IF "lock" \in d THEN Post(queue, Event("lock")) ELSE queue
           last  == [Event("function") EXCEPT !.held = "function" \in d]
<1>0. ("function" \in d) \in BOOLEAN
  OBVIOUS
<1>1. /\ Event("lock") \in Events /\ Event("lock").kind # "movement"
      /\ last \in Events /\ last.kind # "movement"
  BY <1>0 DEF Event, Events
<1>2. queue \in Seq(Events) /\ Len(queue) <= QueueLength
  BY DEF TypeOK
<1>3. /\ first \in Seq(Events) /\ Len(first) <= QueueLength
      /\ NoMovementIn(queue) => NoMovementIn(first)
      /\ OneMovementIn(queue) => OneMovementIn(first)
  BY <1>1, <1>2, PostElements, PostMovements
<1>4. ButtonEvents(queue, d) = Post(first, last)
  BY DEF ButtonEvents
<1> HIDE DEF first, last
<1> QED BY <1>1, <1>3, <1>4, PostMovements

(* A step that leaves the bolt alone: a task may give up its place or      *)
(* accept an action that is possible.                                      *)
Goes(its, next) ==
  \/ next = its
  \/ its.pc # "state" /\ ~ Working(next)
  \/ /\ its.pc # "state" /\ next.pc = "start"
     /\ next.act \in Actions /\ Accepts(next.act)

LEMMA MoveBoltAlone ==
  ASSUME MoveInv, UNCHANGED <<mState, timer, elapsed>>,
         NoMovementIn(queue) => NoMovementIn(queue'),
         OneMovementIn(queue) => OneMovementIn(queue'),
         Goes(app, app'), Goes(chip, chip')
  PROVE  MoveInv'
<1>1. ASSUME NEW a \in Actions, Accepts(a)
      PROVE  mState = Completed(Opposite(a)) /\ ~ IsActionInProgress
  BY <1>1, BoltStates DEF Accepts, Opposite, IsActionInProgress, Actions
<1>2. ~ IsActionInProgress => NoMovementIn(queue)
  BY DEF MoveInv, ExpiryIsOfMovement
<1>3. WorkIsAccepted(app)' /\ WorkIsAccepted(chip)'
  BY <1>1, <1>2 DEF MoveInv, WorkIsAccepted, Goes, Working
<1>4. TimerRunsForAction'
  BY DEF MoveInv, TimerRunsForAction, Goes, IsActionInProgress
<1>5. ExpiryIsOfMovement'
  BY DEF MoveInv, ExpiryIsOfMovement, IsActionInProgress
<1> QED BY <1>3, <1>4, <1>5 DEF MoveInv

(* The steps of InitiateAction, in either task.                            *)
LEMMA MoveApp ==
  ASSUME TypeOK, MoveInv, AppInitiates PROVE MoveInv'
<1>0. /\ app.act \in Actions /\ chip.act \in Actions /\ queue' = queue
      /\ chip' = chip /\ InitiateAction(app)
  BY DEF TypeOK, AppInitiates
<1>1. CASE StartTimer(app)
  <2>1. Working(app) /\ NoMovementIn(queue) /\ app'.pc = "state" /\ app'.act = app.act
    BY <1>1 DEF StartTimer, Working, MoveInv, WorkIsAccepted, TypeOK
  <2> QED BY <1>0, <1>1, <2>1
             DEF StartTimer, MoveInv, WorkIsAccepted, TimerRunsForAction, ExpiryIsOfMovement
<1>2. CASE SetState(app)
  <2>1. /\ Working(app) /\ NoMovementIn(queue)
        /\ app'.pc = "notify" /\ app'.act = app.act /\ mState' = Initiated(app.act)
        /\ mState \in {Completed(Opposite(app.act)), Initiated(app.act)}
    BY <1>2 DEF SetState, Working, MoveInv, WorkIsAccepted, TypeOK
  <2>2. Working(chip) => chip.act = app.act
    BY <1>0, <2>1, BoltStates DEF MoveInv, WorkIsAccepted, Opposite, Actions
  <2>3. WorkIsAccepted(app)' /\ WorkIsAccepted(chip)'
    BY <1>0, <2>1, <2>2 DEF WorkIsAccepted, Working
  <2>4. IsActionInProgress'
    BY <1>0, <2>1 DEF IsActionInProgress
  <2> QED BY <1>0, <2>1, <2>3, <2>4 DEF MoveInv, TimerRunsForAction, ExpiryIsOfMovement
<1>3. CASE Notify(app)
  <2>1. Goes(app, app') /\ Goes(chip, chip') /\ UNCHANGED <<mState, timer, elapsed>>
    BY <1>0, <1>3 DEF Notify, timerVars, Goes, Working, Idle
  <2> QED BY <1>0, <2>1, MoveBoltAlone
<1> QED BY <1>0, <1>1, <1>2, <1>3 DEF InitiateAction

(* The same steps in the Matter task.                                      *)
LEMMA MoveChip ==
  ASSUME TypeOK, MoveInv, ChipInitiates PROVE MoveInv'
<1>0. /\ chip.act \in Actions /\ app.act \in Actions /\ queue' = queue
      /\ app' = app /\ InitiateAction(chip)
  BY DEF TypeOK, ChipInitiates
<1>1. CASE StartTimer(chip)
  <2>1. Working(chip) /\ NoMovementIn(queue) /\ chip'.pc = "state" /\ chip'.act = chip.act
    BY <1>1 DEF StartTimer, Working, MoveInv, WorkIsAccepted, TypeOK
  <2> QED BY <1>0, <1>1, <2>1
             DEF StartTimer, MoveInv, WorkIsAccepted, TimerRunsForAction, ExpiryIsOfMovement
<1>2. CASE SetState(chip)
  <2>1. /\ Working(chip) /\ NoMovementIn(queue)
        /\ chip'.pc = "notify" /\ chip'.act = chip.act /\ mState' = Initiated(chip.act)
        /\ mState \in {Completed(Opposite(chip.act)), Initiated(chip.act)}
    BY <1>2 DEF SetState, Working, MoveInv, WorkIsAccepted, TypeOK
  <2>2. Working(app) => app.act = chip.act
    BY <1>0, <2>1, BoltStates DEF MoveInv, WorkIsAccepted, Opposite, Actions
  <2>3. WorkIsAccepted(app)' /\ WorkIsAccepted(chip)'
    BY <1>0, <2>1, <2>2 DEF WorkIsAccepted, Working
  <2>4. IsActionInProgress'
    BY <1>0, <2>1 DEF IsActionInProgress
  <2> QED BY <1>0, <2>1, <2>3, <2>4 DEF MoveInv, TimerRunsForAction, ExpiryIsOfMovement
<1>3. CASE Notify(chip)
  <2>1. Goes(chip, chip') /\ Goes(app, app') /\ UNCHANGED <<mState, timer, elapsed>>
    BY <1>0, <1>3 DEF Notify, timerVars, Goes, Working, Idle
  <2> QED BY <1>0, <2>1, MoveBoltAlone
<1> QED BY <1>0, <1>1, <1>2, <1>3 DEF InitiateAction

(* Deciding on an action is such a step of a task.                         *)
LEMMA DecideGoes ==
  ASSUME NEW its, its.pc # "state", NEW a \in Actions
  PROVE  Goes(its, Decide(a))
BY DEF Goes, Decide, Idle, Working

(* The expiry is handled: no other is queued, and nobody is at work.       *)
LEMMA MoveComplete ==
  ASSUME TypeOK, MoveInv, CompleteMovement
  PROVE  MoveInv' /\ IsActionInProgress /\ elapsed
<1>1. /\ Receive("movement") /\ UNCHANGED <<timer, elapsed, chip>>
      /\ ~ Working(app')
  BY DEF CompleteMovement, timerVars, Working, Receive, TypeOK
<1>2. ~ NoMovementIn(queue)
  BY <1>1, ReceiveMovements
<1>3. OneMovementIn(queue) /\ IsActionInProgress /\ elapsed
  BY <1>2 DEF MoveInv, ExpiryIsOfMovement
<1>4. NoMovementIn(queue')
  BY <1>1, <1>3, ReceiveMovements
<1>5. ~ Working(app) /\ ~ Working(chip) /\ ~ timer
  BY <1>2 DEF MoveInv, WorkIsAccepted, TimerRunsForAction
<1> QED BY <1>1, <1>3, <1>4, <1>5
           DEF MoveInv, WorkIsAccepted, TimerRunsForAction, ExpiryIsOfMovement, Working

(* The expiry of the timer is queued as the only one.                      *)
LEMMA MoveExpires ==
  ASSUME TypeOK, MoveInv, MovementTimerExpires PROVE MoveInv'
<1>1. /\ timer /\ ~ timer' /\ elapsed' /\ UNCHANGED <<mState, app, chip>>
      /\ queue' = Post(queue, Event("movement"))
      /\ ~ Working(app) /\ ~ Working(chip)
  BY DEF MovementTimerExpires, Prompt, Working
<1>2. NoMovementIn(queue) /\ IsActionInProgress
  BY <1>1 DEF MoveInv, TimerRunsForAction, Working
<1>3. Event("movement") \in Events
  BY DEF Event, Events
<1>4. OneMovementIn(queue')
  BY <1>1, <1>2, <1>3, PostMovements DEF TypeOK
<1>5. IsActionInProgress'
  BY <1>1, <1>2 DEF IsActionInProgress
<1> QED BY <1>1, <1>4, <1>5
           DEF MoveInv, WorkIsAccepted, TimerRunsForAction, ExpiryIsOfMovement, Working

(* Nothing is under way, and nothing queued, after a start.                *)
LEMMA MoveInit ==
  ASSUME Init PROVE MoveInv
<1>1. Len(<<>>) = 0
  OBVIOUS
<1> QED BY <1>1 DEF Init, Start, Idle, MoveInv, WorkIsAccepted, TimerRunsForAction,
                    ExpiryIsOfMovement, NoMovementIn, Working

(* Nor after a factory reset.                                              *)
LEMMA MoveRestart ==
  ASSUME Restart PROVE MoveInv'
<1>1. Len(<<>>) = 0
  OBVIOUS
<1> QED BY <1>1 DEF Restart, Start, Idle, MoveInv, WorkIsAccepted, TimerRunsForAction,
                    ExpiryIsOfMovement, NoMovementIn, Working

(* The handlers and the lambdas that leave the bolt alone.                 *)
LEMMA MoveStill ==
  ASSUME TypeOK, MoveInv,
         \/ LockActionEventHandler \/ UpdateClusterState \/ ClearSync
         \/ FunctionHandler \/ FunctionTimerEventHandler \/ AppDecides
         \/ RunLambda \/ UserStep \/ FunctionTimerExpires
  PROVE  MoveInv' /\ UNCHANGED mState
<1>0. ASSUME UNCHANGED <<mState, timer, elapsed>>, Goes(app, app'), Goes(chip, chip'),
             \/ queue' = queue
             \/ \E kind : Receive(kind)
      PROVE  MoveInv' /\ UNCHANGED mState
  BY <1>0, ReceiveMovements, MoveBoltAlone
<1>1. CASE LockActionEventHandler
  BY <1>0, <1>1 DEF LockActionEventHandler, Receive, boltVars, timerVars, Goes, Working
<1>2. CASE UpdateClusterState
  BY <1>0, <1>2 DEF UpdateClusterState, boltVars, timerVars, Goes, Working, Idle, TypeOK
<1>3. CASE ClearSync
  BY <1>0, <1>3 DEF ClearSync, timerVars, Goes, Working, Idle
<1>4. CASE FunctionHandler
  BY <1>0, <1>4 DEF FunctionHandler, boltVars, timerVars, Goes
<1>5. CASE FunctionTimerEventHandler
  BY <1>0, <1>5 DEF FunctionTimerEventHandler, boltVars, timerVars, Goes
<1>6. CASE AppDecides
  <2>1. app.act \in Actions /\ app.pc = "decide"
    BY <1>6 DEF AppDecides, TypeOK
  <2>2. Goes(app, app') /\ Goes(chip, chip')
    BY <1>6, <2>1, DecideGoes DEF AppDecides, Goes
  <2> QED BY <1>0, <1>6, <2>2 DEF AppDecides, boltVars, timerVars
<1>7. CASE RunLambda
  <2>1. Goes(app, app') /\ Goes(chip, chip')
    BY <1>7, DecideGoes DEF RunLambda, Goes, Actions
  <2> QED BY <1>0, <1>7, <2>1 DEF RunLambda, boltVars, timerVars
<1>8. ASSUME NEW d \in SUBSET {"lock", "function"}, PollGPIO(d)
      PROVE  MoveInv' /\ UNCHANGED mState
  <2>1. /\ UNCHANGED <<mState, timer, elapsed, app, chip>>
        /\ queue' = ButtonEvents(queue, d)
    BY <1>8 DEF PollGPIO, boltVars, timerVars
  <2> QED BY <2>1, ButtonMovements, MoveBoltAlone DEF Goes
<1>9. ASSUME NEW a \in Actions, Command(a) PROVE MoveInv' /\ UNCHANGED mState
  <2>1. Goes(app, app') /\ Goes(chip, chip')
    BY <1>9, DecideGoes DEF Command, Goes
  <2> QED BY <1>0, <1>9, <2>1 DEF Command, boltVars, timerVars
<1>10. CASE FunctionTimerExpires
  <2> DEFINE e == [kind |-> "fnTimer", held |-> "function" \in down]
  <2>0. ("function" \in down) \in BOOLEAN
    OBVIOUS
  <2>1. e \in Events /\ e.kind # "movement"
    BY <2>0 DEF Events
  <2>2. /\ UNCHANGED <<mState, timer, elapsed, app, chip>> /\ queue' = Post(queue, e)
    BY <1>10 DEF FunctionTimerExpires, boltVars, timerVars
  <2> HIDE DEF e
  <2>3. /\ NoMovementIn(queue) => NoMovementIn(queue')
        /\ OneMovementIn(queue) => OneMovementIn(queue')
    BY <2>1, <2>2, PostMovements DEF TypeOK
  <2> QED BY <2>2, <2>3, MoveBoltAlone DEF Goes
<1> QED BY <1>1, <1>2, <1>3, <1>4, <1>5, <1>6, <1>7, <1>8, <1>9, <1>10 DEF UserStep

(* The movement invariant is inductive.                                    *)
LEMMA MoveStep ==
  ASSUME TypeOK, MoveInv, [Next]_vars PROVE MoveInv'
<1>1. CASE UNCHANGED vars
  BY <1>1 DEF vars, MoveInv, WorkIsAccepted, TimerRunsForAction, ExpiryIsOfMovement,
              IsActionInProgress
<1> QED BY <1>1, MoveApp, MoveChip, MoveComplete, MoveExpires, MoveRestart, MoveStill
           DEF Next, AppStep, ChipStep

(* What ends a movement: the handling of its expiry, or a restart.         *)
LEMMA MovementEnds ==
  ASSUME TypeOK, MoveInv, [Next]_vars, IsActionInProgress, ~ IsActionInProgress'
  PROVE  elapsed \/ resetDue
<1>1. CASE UNCHANGED mState
  BY <1>1 DEF IsActionInProgress
<1>2. CASE CompleteMovement
  BY <1>2, MoveComplete
<1>3. CASE AppInitiates \/ ChipInitiates
  <2>1. app.act \in Actions /\ chip.act \in Actions
    BY DEF TypeOK
  <2> QED BY <1>3, <2>1 DEF AppInitiates, ChipInitiates, InitiateAction, StartTimer,
                           SetState, Notify, IsActionInProgress
<1>4. CASE Restart
  BY <1>4 DEF Restart
<1>5. CASE MovementTimerExpires
  BY <1>1, <1>5 DEF MovementTimerExpires
<1>6. UNCHANGED vars => UNCHANGED mState
  BY DEF vars
<1> QED BY <1>1, <1>2, <1>3, <1>4, <1>5, <1>6, MoveStill DEF Next, AppStep, ChipStep

(* The bolt is taken to have arrived only when the time of its movement is *)
(* over, for every length of the queue and however the two tasks that      *)
(* initiate actions interleave.                                            *)
THEOREM MovementsTakeTheirTime == Spec => MovementTakesItsTime
<1>1. Spec => [](TypeOK /\ MoveInv)
  BY TypeInit, TypeStep, MoveInit, MoveStep, PTL DEF Spec
<1>2. TypeOK /\ MoveInv /\ [Next]_vars
        => [IsActionInProgress /\ ~ IsActionInProgress' => elapsed \/ resetDue]_vars
  BY MovementEnds
<1> QED BY <1>1, <1>2, PTL DEF Spec, MovementTakesItsTime
-----------------------------------------------------------------------------
(* The time of a movement is counted from before the bolt's state says it  *)
(* moves, by whichever task: it has a timer that runs or has expired, or   *)
(* the last start of the timer failed.                                     *)
Timed == timer \/ elapsed \/ noTimer
TimedBefore == IsActionInProgress \/ app.pc = "state" \/ chip.pc = "state" => Timed

(* A step that begins no movement and brings no task between the start of  *)
(* the timer and the state.                                                *)
LEMMA TimedAlone ==
  ASSUME TimedBefore, UNCHANGED timerVars, IsActionInProgress' => IsActionInProgress,
         app'.pc = "state" => app.pc = "state", chip'.pc = "state" => chip.pc = "state"
  PROVE  TimedBefore'
BY DEF TimedBefore, Timed, timerVars

(* The steps of InitiateAction: the timer is started, or known not to be,  *)
(* before the state is set.                                                *)
LEMMA TimedInitiates ==
  ASSUME TypeOK, TimedBefore, AppInitiates \/ ChipInitiates PROVE TimedBefore'
<1>1. CASE AppInitiates
  <2>1. CASE StartTimer(app)
    BY <2>1 DEF StartTimer, TimedBefore, Timed
  <2>2. CASE SetState(app)
    BY <2>2 DEF SetState, TimedBefore, Timed, timerVars
  <2>3. CASE Notify(app)
    BY <1>1, <2>3, TimedAlone DEF AppInitiates, Notify, Idle, IsActionInProgress
  <2> QED BY <1>1, <2>1, <2>2, <2>3 DEF AppInitiates, InitiateAction
<1>2. CASE ChipInitiates
  <2>1. CASE StartTimer(chip)
    BY <2>1 DEF StartTimer, TimedBefore, Timed
  <2>2. CASE SetState(chip)
    BY <2>2 DEF SetState, TimedBefore, Timed, timerVars
  <2>3. CASE Notify(chip)
    BY <1>2, <2>3, TimedAlone DEF ChipInitiates, Notify, Idle, IsActionInProgress
  <2> QED BY <1>2, <2>1, <2>2, <2>3 DEF ChipInitiates, InitiateAction
<1> QED BY <1>1, <1>2

(* Every other step is such a step, an expiry, or a restart.               *)
LEMMA TimedStep ==
  ASSUME TypeOK, MoveInv, TimedBefore, [Next]_vars PROVE TimedBefore'
<1>1. CASE MovementTimerExpires
  BY <1>1 DEF MovementTimerExpires, TimedBefore, Timed
<1>2. CASE Restart
  BY <1>2, BoltStates DEF Restart, Start, Idle, TimedBefore, IsActionInProgress, Actions
<1>3. CASE CompleteMovement
  <2>1. /\ UNCHANGED <<timerVars, chip>> /\ app'.pc = "update" /\ IsActionInProgress
    BY <1>3, MoveComplete DEF CompleteMovement, TypeOK
  <2> QED BY <2>1, TimedAlone
<1>4. ASSUME UNCHANGED <<timerVars, mState>>, app'.pc = "state" => app.pc = "state",
             chip'.pc = "state" => chip.pc = "state"
      PROVE  TimedBefore'
  BY <1>4, TimedAlone DEF IsActionInProgress
<1>5. \A a : Decide(a).pc # "state"
  BY DEF Decide, Idle
<1>6. CASE LockActionEventHandler \/ UpdateClusterState \/ ClearSync \/ AppDecides
  BY <1>4, <1>5, <1>6 DEF LockActionEventHandler, UpdateClusterState, ClearSync, AppDecides,
                          boltVars, Idle, TypeOK
<1>7. CASE FunctionHandler \/ FunctionTimerEventHandler \/ FunctionTimerExpires
  BY <1>4, <1>7 DEF FunctionHandler, FunctionTimerEventHandler, FunctionTimerExpires, boltVars
<1>8. CASE RunLambda \/ UserStep
  BY <1>4, <1>5, <1>8 DEF RunLambda, UserStep, PollGPIO, Command, boltVars
<1>9. CASE UNCHANGED vars
  BY <1>4, <1>9 DEF vars, timerVars
<1> QED BY <1>1, <1>2, <1>3, <1>6, <1>7, <1>8, <1>9, TimedInitiates
        DEF Next, AppStep, ChipStep

(* A bolt that moves has a timer that runs or has expired, unless the last *)
(* start of the timer failed: whatever else happens between the two tasks  *)
(* that share the timer, none of them leaves the other without it.         *)
THEOREM MovementsAreTimed == Spec => [](MovementTimed \/ noTimer)
<1>1. Init => TimedBefore
  BY BoltStates DEF Init, Start, Idle, TimedBefore, IsActionInProgress, Actions
<1>2. TimedBefore => MovementTimed \/ noTimer
  BY DEF TimedBefore, Timed, MovementTimed
<1> QED BY <1>1, <1>2, TypeInit, TypeStep, MoveInit, MoveStep, TimedStep, PTL DEF Spec
-----------------------------------------------------------------------------
(* The function button.  What its handlers have not yet seen is in the     *)
(* queue, in order: a timeout that found the button up has the release     *)
(* before it, or comes when nothing is selected any more.                  *)
LastIsRelease(q, i) ==
  \E j \in 1 .. i - 1 :
    /\ q[j].kind = "function" /\ ~ q[j].held
    /\ \A k \in j + 1 .. i - 1 : q[k].kind # "function"

NoButtonEvent(q, i) == \A k \in 1 .. i - 1 : q[k].kind # "function"
NoSelection == fn = "None" \/ ~ fnActive

(* The events before the i-th leave nothing selected.                      *)
Released(q, i) == LastIsRelease(q, i) \/ (NoButtonEvent(q, i) /\ NoSelection)

TimeoutsReleased(q) ==
  \A i \in 1 .. Len(q) : q[i].kind = "fnTimer" /\ ~ q[i].held => Released(q, i)

EndReleased(q) == Released(q, Len(q) + 1)

(* Until a reset is due the timer's flag says whether a function is        *)
(* selected, unless its timer did not start, and the timer runs for a      *)
(* selection only.                                                         *)
Selecting ==
  ~ resetDue => /\ fnActive => fn # "None"
                /\ fnTimer => fnActive
                /\ fnActive \/ fn = "None" \/ noFnTimer

ButtonInv == /\ TimeoutsReleased(queue)
             /\ "function" \notin down => EndReleased(queue)
             /\ Selecting

(* Receiving moves a release to the front, and takes effect there.         *)
LEMMA ReceiveReleased ==
  ASSUME TypeOK, NEW kind, Receive(kind), NEW i \in 2 .. Len(queue) + 1,
         Released(queue, i),
         kind # "function" /\ NoSelection => NoSelection',
         kind = "function" /\ ~ Head(queue).held => NoSelection'
  PROVE  Released(queue, i - 1)'
<1>1. /\ queue[1] = Head(queue) /\ Head(queue).kind = kind /\ Len(queue) \in Nat \ {0}
      /\ \A k \in 1 .. Len(queue) - 1 : queue'[k] = queue[k + 1]
  BY ReceiveType
<1>2. i \in Nat /\ 1 \in 1 .. i - 1
  BY <1>1
<1>3. \A k \in 1 .. i - 1 - 1 : k + 1 \in 1 .. i - 1 /\ queue'[k] = queue[k + 1]
  BY <1>1, <1>2
<1>4. CASE NoButtonEvent(queue, i) /\ NoSelection
  <2>1. kind # "function" /\ NoButtonEvent(queue', i - 1)
    BY <1>1, <1>2, <1>3, <1>4 DEF NoButtonEvent
  <2> QED BY <1>4, <2>1 DEF Released
<1>5. CASE LastIsRelease(queue, i)
  <2>1. PICK j \in 1 .. i - 1 :
          /\ queue[j].kind = "function" /\ ~ queue[j].held
          /\ \A k \in j + 1 .. i - 1 : queue[k].kind # "function"
    BY <1>5 DEF LastIsRelease
  <2>2. CASE j = 1
    <3>1. NoButtonEvent(queue', i - 1)
      BY <1>2, <1>3, <2>1, <2>2 DEF NoButtonEvent
    <3> QED BY <1>1, <2>1, <2>2, <3>1 DEF Released
  <2>3. CASE j # 1
    <3>1. j - 1 \in 1 .. i - 1 - 1 /\ queue'[j - 1] = queue[j]
      BY <1>2, <1>3, <2>3
    <3>2. \A k \in (j - 1) + 1 .. i - 1 - 1 : queue'[k].kind # "function"
      <4> SUFFICES ASSUME NEW k \in (j - 1) + 1 .. i - 1 - 1
                   PROVE  queue'[k].kind # "function"
        OBVIOUS
      <4>1. k \in 1 .. i - 1 - 1 /\ k + 1 \in j + 1 .. i - 1
        BY <1>2
      <4> QED BY <1>3, <2>1, <4>1
    <3>3. LastIsRelease(queue', i - 1)
      BY <2>1, <3>1, <3>2 DEF LastIsRelease
    <3> QED BY <3>3 DEF Released
  <2> QED BY <2>2, <2>3
<1> QED BY <1>4, <1>5 DEF Released

(* A handler that cancels the selection on a release, and selects nothing  *)
(* anew without a press, keeps what is known of the queue.                 *)
LEMMA ButtonReceive ==
  ASSUME TypeOK, ButtonInv, NEW kind, Receive(kind), UNCHANGED down,
         kind # "function" /\ NoSelection => NoSelection',
         kind = "function" /\ ~ Head(queue).held => NoSelection'
  PROVE  /\ TimeoutsReleased(queue)'
         /\ "function" \notin down' => EndReleased(queue)'
<1>1. /\ Len(queue) \in Nat \ {0} /\ Len(queue') = Len(queue) - 1
      /\ \A k \in 1 .. Len(queue) - 1 : queue'[k] = queue[k + 1]
  BY ReceiveType
<1>2. ASSUME NEW i \in 1 .. Len(queue'), queue'[i].kind = "fnTimer", ~ queue'[i].held
      PROVE  Released(queue, i)'
  <2>1. i + 1 \in 2 .. Len(queue) + 1 /\ i + 1 \in 1 .. Len(queue) /\ (i + 1) - 1 = i
    BY <1>1
  <2>2. Released(queue, i + 1)
    BY <1>1, <1>2, <2>1 DEF ButtonInv, TimeoutsReleased
  <2>3. Released(queue, (i + 1) - 1)'
    BY <2>1, <2>2, ReceiveReleased
  <2> QED BY <2>1, <2>3
<1>3. ASSUME "function" \notin down' PROVE EndReleased(queue)'
  <2>1. PICK n \in 2 .. Len(queue) + 1 : n = Len(queue) + 1
    BY <1>1
  <2>2. Released(queue, n)
    BY <1>3, <2>1 DEF ButtonInv, EndReleased
  <2>3. Released(queue, n - 1)'
    BY <2>2, ReceiveReleased
  <2>4. n - 1 = Len(queue') + 1
    BY <1>1, <2>1
  <2> QED BY <2>3, <2>4 DEF EndReleased
<1> QED BY <1>2, <1>3 DEF TimeoutsReleased

(* Posting changes nothing for the events before; a release goes last.     *)
LEMMA PostReleased ==
  ASSUME NEW q \in Seq(Events), Len(q) <= QueueLength, NEW e \in Events
  PROVE  /\ TimeoutsReleased(q) /\ (e.kind # "fnTimer" \/ e.held \/ EndReleased(q))
              => TimeoutsReleased(Post(q, e))
         /\ EndReleased(q) /\ e.kind # "function" => EndReleased(Post(q, e))
         /\ e.kind = "function" /\ ~ e.held /\ Len(q) < QueueLength
              => EndReleased(Post(q, e))
<1> DEFINE p == Post(q, e)
           n == Len(q)
<1>1. n \in Nat
  BY LenProperties
<1>2. CASE p = q
  BY <1>2, PostElements
<1>3. CASE p # q
  <2>1. /\ Len(p) = n + 1 /\ p[n + 1] = e /\ \A k \in 1 .. n : p[k] = q[k]
    BY <1>3, PostElements
  <2> HIDE DEF p, n
  <2>2. ASSUME NEW i \in 1 .. n + 1, Released(q, i) PROVE Released(p, i)
    <3>1. \A k \in 1 .. i - 1 : p[k] = q[k]
      BY <1>1, <2>1
    <3>2. NoButtonEvent(q, i) => NoButtonEvent(p, i)
      BY <3>1 DEF NoButtonEvent
    <3>3. ASSUME LastIsRelease(q, i) PROVE LastIsRelease(p, i)
      <4>1. PICK j \in 1 .. i - 1 :
              /\ q[j].kind = "function" /\ ~ q[j].held
              /\ \A k \in j + 1 .. i - 1 : q[k].kind # "function"
        BY <3>3 DEF LastIsRelease
      <4>2. \A k \in j + 1 .. i - 1 : k \in 1 .. i - 1
        BY <1>1
      <4> QED BY <3>1, <4>1, <4>2 DEF LastIsRelease
    <3> QED BY <2>2, <3>2, <3>3 DEF Released
  <2>3. ASSUME TimeoutsReleased(q), e.kind # "fnTimer" \/ e.held \/ EndReleased(q)
        PROVE  TimeoutsReleased(p)
    <3> SUFFICES ASSUME NEW i \in 1 .. Len(p), p[i].kind = "fnTimer", ~ p[i].held
                 PROVE  Released(p, i)
      BY DEF TimeoutsReleased
    <3>1. i \in 1 .. n + 1 /\ (i = n + 1 \/ i \in 1 .. n)
      BY <1>1, <2>1
    <3>2. Released(q, i)
      BY <2>1, <2>3, <3>1 DEF TimeoutsReleased, EndReleased, n
    <3> QED BY <2>2, <3>1, <3>2
  <2>4. ASSUME EndReleased(q), e.kind # "function" PROVE EndReleased(p)
    <3>1. PICK m \in 1 .. n + 1, l \in Nat : m = n + 1 /\ l = m + 1 /\ l = Len(p) + 1
      BY <1>1, <2>1
    <3>2. Released(p, m)
      BY <2>2, <2>4, <3>1 DEF EndReleased, n
    <3>3. /\ \A k \in 1 .. l - 1 : k = m \/ k \in 1 .. m - 1
          /\ p[m].kind # "function" /\ m \in Nat
      BY <1>1, <2>1, <2>4, <3>1
    <3>4. NoButtonEvent(p, m) => NoButtonEvent(p, l)
      BY <3>3 DEF NoButtonEvent
    <3>5. ASSUME LastIsRelease(p, m) PROVE LastIsRelease(p, l)
      <4>1. PICK j \in 1 .. m - 1 :
              /\ p[j].kind = "function" /\ ~ p[j].held
              /\ \A k \in j + 1 .. m - 1 : p[k].kind # "function"
        BY <3>5 DEF LastIsRelease
      <4>2. j \in 1 .. l - 1
        BY <3>1, <3>3, <4>1
      <4>3. \A k \in j + 1 .. l - 1 : k = m \/ k \in j + 1 .. m - 1
        BY <3>1, <3>3, <4>1
      <4>4. \A k \in j + 1 .. l - 1 : p[k].kind # "function"
        BY <3>3, <4>1, <4>3
      <4> QED BY <4>1, <4>2, <4>4 DEF LastIsRelease
    <3>6. Released(p, l)
      BY <3>2, <3>4, <3>5 DEF Released
    <3> QED BY <3>1, <3>6 DEF EndReleased
  <2>5. ASSUME e.kind = "function", ~ e.held PROVE EndReleased(p)
    <3>1. /\ Len(p) + 1 = n + 2 /\ n + 1 \in 1 .. n + 2 - 1
          /\ \A k \in n + 1 + 1 .. n + 2 - 1 : FALSE
      BY <1>1, <2>1
    <3>2. LastIsRelease(p, n + 2)
      BY <2>1, <2>5, <3>1 DEF LastIsRelease
    <3> QED BY <3>1, <3>2 DEF EndReleased, Released
  <2> QED BY <2>3, <2>4, <2>5 DEF p
<1> QED BY <1>2, <1>3

(* The events of a change of the buttons say what is down now, and there   *)
(* is room for them.                                                       *)
LEMMA ButtonPoll ==
  ASSUME TypeOK, ButtonInv, NEW d \in SUBSET {"lock", "function"}, PollGPIO(d)
  PROVE  ButtonInv'
<1> DEFINE first == IF "lock" \in d THEN Post(queue, Event("lock")) ELSE queue
           last  == [Event("function") EXCEPT !.held = "function" \in d]
<1>0. ("function" \in d) \in BOOLEAN /\ UNCHANGED fnVars /\ down' = d
  BY DEF PollGPIO
<1>1. /\ Event("lock") \in Events /\ Event("lock").kind = "lock"
      /\ last \in Events /\ last.kind = "function" /\ last.held = ("function" \in d)
  BY <1>0 DEF Event, Events
<1>2. /\ queue \in Seq(Events) /\ Len(queue) \in Nat
      /\ Len(queue) + 2 + Spare <= QueueLength /\ QueueLength \in Nat /\ Spare \in Nat
  BY LockAssumption, LenProperties DEF TypeOK, PollGPIO
<1>3. /\ first \in Seq(Events) /\ Len(first) < QueueLength /\ TimeoutsReleased(first)
  <2>1. CASE "lock" \in d
    <3>1. first = Post(queue, Event("lock")) /\ Len(queue) <= QueueLength
      BY <1>2, <2>1
    <3> HIDE DEF first
    <3>2. Len(first) = Len(queue) \/ Len(first) = Len(queue) + 1
      BY <1>1, <1>2, <3>1, PostElements
    <3>3. first \in Seq(Events) /\ TimeoutsReleased(first)
      BY <1>1, <1>2, <3>1, PostElements, PostReleased DEF ButtonInv
    <3> QED BY <1>2, <3>2, <3>3
  <2>2. CASE "lock" \notin d
    BY <1>2, <2>2 DEF ButtonInv
  <2> QED BY <2>1, <2>2
<1>4. queue' = Post(first, last)
  BY DEF PollGPIO, ButtonEvents
<1> HIDE DEF first, last
<1>5. TimeoutsReleased(Post(first, last))
  BY <1>1, <1>2, <1>3, PostReleased
<1>6. ASSUME "function" \notin d PROVE EndReleased(Post(first, last))
  <2>1. ~ last.held
    BY <1>1, <1>6, Zenon
  <2>2. Len(first) \in Nat
    BY <1>3, LenProperties
  <2>3. Len(first) <= QueueLength
    BY <1>2, <1>3, <2>2
  <2> QED BY <1>1, <1>3, <2>1, <2>3, PostReleased
<1>7. TimeoutsReleased(queue)' /\ ("function" \notin down' => EndReleased(queue)')
  BY <1>0, <1>4, <1>5, <1>6
     DEF TimeoutsReleased, EndReleased, Released, NoSelection, fnVars, fnTimers
<1>8. Selecting'
  BY <1>0 DEF ButtonInv, Selecting, fnVars, fnTimers
<1> QED BY <1>7, <1>8 DEF ButtonInv

(* A timeout that finds the button up comes after the release.             *)
LEMMA ButtonTimeout ==
  ASSUME TypeOK, ButtonInv, FunctionTimerExpires PROVE ButtonInv'
<1> DEFINE e == [kind |-> "fnTimer", held |-> "function" \in down]
<1>0. /\ ("function" \in down) \in BOOLEAN
      /\ UNCHANGED <<down, fn, fnActive, noFnTimer, resetDue>>
      /\ ~ fnTimer' /\ queue' = Post(queue, e)
  BY DEF FunctionTimerExpires
<1>1. e \in Events /\ e.kind = "fnTimer" /\ e.held = ("function" \in down)
  BY <1>0 DEF Events
<1>2. queue \in Seq(Events) /\ Len(queue) <= QueueLength
  BY DEF TypeOK
<1> HIDE DEF e
<1>3. TimeoutsReleased(Post(queue, e))
  BY <1>1, <1>2, PostReleased DEF ButtonInv
<1>4. "function" \notin down => EndReleased(Post(queue, e))
  BY <1>1, <1>2, PostReleased DEF ButtonInv
<1>5. TimeoutsReleased(queue)' /\ ("function" \notin down' => EndReleased(queue)')
  BY <1>0, <1>3, <1>4 DEF TimeoutsReleased, EndReleased, Released, NoSelection
<1>6. Selecting'
  BY <1>0 DEF ButtonInv, Selecting
<1> QED BY <1>5, <1>6 DEF ButtonInv

(* The expiry of the movement changes nothing for the button.              *)
LEMMA ButtonExpiry ==
  ASSUME TypeOK, ButtonInv, MovementTimerExpires PROVE ButtonInv'
<1>0. UNCHANGED <<down, fnVars>> /\ queue' = Post(queue, Event("movement"))
  BY DEF MovementTimerExpires
<1>1. /\ Event("movement") \in Events /\ Event("movement").kind = "movement"
      /\ queue \in Seq(Events) /\ Len(queue) <= QueueLength
  BY DEF Event, Events, TypeOK
<1>2. /\ TimeoutsReleased(Post(queue, Event("movement")))
      /\ "function" \notin down => EndReleased(Post(queue, Event("movement")))
  BY <1>1, PostReleased DEF ButtonInv
<1>3. TimeoutsReleased(queue)' /\ ("function" \notin down' => EndReleased(queue)')
  BY <1>0, <1>2 DEF TimeoutsReleased, EndReleased, Released, NoSelection, fnVars, fnTimers
<1>4. Selecting'
  BY <1>0 DEF ButtonInv, Selecting, fnVars, fnTimers
<1> QED BY <1>3, <1>4 DEF ButtonInv

(* The handlers of the application task.                                   *)
LEMMA ButtonHandled ==
  ASSUME TypeOK, ButtonInv,
         \/ LockActionEventHandler \/ CompleteMovement
         \/ FunctionHandler \/ FunctionTimerEventHandler
  PROVE  ButtonInv'
<1>0. ASSUME Selecting', NEW kind, Receive(kind), UNCHANGED down,
             kind # "function" /\ NoSelection => NoSelection',
             kind = "function" /\ ~ Head(queue).held => NoSelection'
      PROVE  ButtonInv'
  BY <1>0, ButtonReceive DEF ButtonInv
<1>1. CASE LockActionEventHandler
  <2>1. Receive("lock") /\ UNCHANGED <<down, fn, fnActive, fnTimer, noFnTimer, resetDue>>
    BY <1>1 DEF LockActionEventHandler, fnVars, fnTimers
  <2>2. Selecting' /\ (NoSelection => NoSelection')
    BY <2>1 DEF ButtonInv, Selecting, NoSelection
  <2> QED BY <1>0, <2>1, <2>2
<1>2. CASE CompleteMovement
  <2>1. Receive("movement") /\ UNCHANGED <<down, fn, fnActive, fnTimer, noFnTimer, resetDue>>
    BY <1>2 DEF CompleteMovement, fnVars, fnTimers
  <2>2. Selecting' /\ (NoSelection => NoSelection')
    BY <2>1 DEF ButtonInv, Selecting, NoSelection
  <2> QED BY <1>0, <2>1, <2>2
<1>3. CASE FunctionHandler
  <2>1. Receive("function") /\ UNCHANGED <<down, resetDue>>
    BY <1>3 DEF FunctionHandler
  <2>2. Selecting'
    <3>1. CASE StartFnTimer /\ ~ fnActive /\ fn' = "StartBleAdv"
      BY <2>1, <3>1 DEF StartFnTimer, ButtonInv, Selecting
    <3>2. CASE CancelFnTimer /\ fn' = "None"
      BY <3>2 DEF CancelFnTimer, Selecting
    <3>3. CASE UNCHANGED <<fn, fnTimers>>
      BY <2>1, <3>3 DEF ButtonInv, Selecting, fnTimers
    <3> QED BY <1>3, <3>1, <3>2, <3>3 DEF FunctionHandler
  <2>3. ~ Head(queue).held => NoSelection'
    BY <1>3 DEF FunctionHandler, CancelFnTimer, NoSelection, fnTimers
  <2> QED BY <1>0, <2>1, <2>2, <2>3
<1>4. CASE FunctionTimerEventHandler
  <2>1. Receive("fnTimer") /\ UNCHANGED down
    BY <1>4 DEF FunctionTimerEventHandler
  <2>2. Selecting' /\ (NoSelection => NoSelection')
    BY <1>4 DEF FunctionTimerEventHandler, StartFnTimer, NextFunction, ButtonInv,
                Selecting, NoSelection, TypeOK, fnVars, fnTimers
  <2> QED BY <1>0, <2>1, <2>2
<1> QED BY <1>1, <1>2, <1>3, <1>4

(* No button is down and no function selected at the start.                *)
LEMMA ButtonInit ==
  ASSUME Init PROVE ButtonInv
<1>1. Len(<<>>) = 0 /\ \A k \in 1 .. 0 + 1 - 1 : FALSE
  OBVIOUS
<1>2. EndReleased(<<>>)
  BY <1>1 DEF Init, Start, EndReleased, Released, NoButtonEvent, NoSelection
<1> QED BY <1>1, <1>2 DEF Init, Start, ButtonInv, TimeoutsReleased, Selecting

(* Nor after a factory reset.                                              *)
LEMMA ButtonRestart ==
  ASSUME Restart PROVE ButtonInv'
<1>1. Len(<<>>) = 0 /\ \A k \in 1 .. 0 + 1 - 1 : FALSE
  OBVIOUS
<1>2. EndReleased(queue)'
  BY <1>1 DEF Restart, Start, EndReleased, Released, NoButtonEvent, NoSelection
<1>3. TimeoutsReleased(queue)' /\ Selecting'
  BY <1>1 DEF Restart, Start, TimeoutsReleased, Selecting
<1> QED BY <1>2, <1>3 DEF ButtonInv

(* The button invariant is inductive.                                      *)
LEMMA ButtonStep ==
  ASSUME TypeOK, ButtonInv, [Next]_vars PROVE ButtonInv'
<1>0. ASSUME UNCHANGED <<queue, down, fn, fnActive, fnTimer, noFnTimer, resetDue>>
      PROVE  ButtonInv'
  BY <1>0 DEF ButtonInv, TimeoutsReleased, EndReleased, Released, NoSelection, Selecting
<1>1. CASE UNCHANGED vars
  BY <1>0, <1>1 DEF vars
<1>2. CASE UpdateClusterState \/ ClearSync \/ AppDecides \/ AppInitiates
  BY <1>0, <1>2 DEF UpdateClusterState, ClearSync, AppDecides, AppInitiates, fnVars, fnTimers
<1>3. CASE ChipStep
  BY <1>0, <1>3 DEF ChipStep, ChipInitiates, RunLambda, fnVars, fnTimers
<1>4. CASE \E a \in Actions : Command(a)
  BY <1>0, <1>4 DEF Command, fnVars, fnTimers
<1>5. CASE \E d \in SUBSET {"lock", "function"} : PollGPIO(d)
  BY <1>5, ButtonPoll
<1> QED BY <1>1, <1>2, <1>3, <1>4, <1>5, ButtonHandled, ButtonTimeout, ButtonExpiry,
           ButtonRestart
        DEF Next, AppStep, UserStep

(* It holds throughout, with the types.                                    *)
LEMMA ButtonInvariant == Spec => [](TypeOK /\ ButtonInv)
BY TypeInit, TypeStep, ButtonInit, ButtonStep, PTL DEF Spec

(* With the button up and every event handled no timer runs and nothing is *)
(* selected, unless the first timer of a selection failed to start: for    *)
(* any presses, releases, timeouts and other failures of the timer, and    *)
(* every length of the queue.                                              *)
THEOREM SelectionsEnd == Spec => []SelectionEnds
<1>1. ASSUME ButtonInv PROVE SelectionEnds
  <2> SUFFICES ASSUME queue = <<>>, "function" \notin down, ~ resetDue
               PROVE  ~ fnActive /\ ~ fnTimer /\ (fn = "None" \/ noFnTimer)
    BY DEF SelectionEnds, ButtonSettled
  <2>1. Released(queue, Len(queue) + 1) /\ \A j \in 1 .. Len(queue) + 1 - 1 : FALSE
    BY <1>1 DEF ButtonInv, EndReleased
  <2>2. NoSelection
    BY <2>1 DEF Released, LastIsRelease
  <2> QED BY <1>1, <2>2 DEF ButtonInv, Selecting, NoSelection
<1> QED BY <1>1, ButtonInvariant, PTL

(* A factory reset is scheduled only by a timeout that found the button    *)
(* down, whatever other presses, releases and timeouts are queued.         *)
THEOREM ResetsAreHeld == Spec => ResetOnlyHeld
<1>1. ASSUME TypeOK, ButtonInv, [Next]_vars, resetDue', ~ resetDue
      PROVE  Head(queue).held
  <2>1. FunctionTimerEventHandler
    BY <1>1 DEF vars, Next, AppStep, ChipStep, UserStep, LockActionEventHandler,
                CompleteMovement, UpdateClusterState, ClearSync, FunctionHandler,
                AppDecides, AppInitiates, ChipInitiates, RunLambda, PollGPIO, Command,
                Restart, MovementTimerExpires, FunctionTimerExpires, fnVars, fnTimers
  <2>2. Receive("fnTimer") /\ fnActive /\ fn = "FactoryReset"
    BY <1>1, <2>1 DEF FunctionTimerEventHandler, fnVars, fnTimers
  <2>3. queue[1] = Head(queue) /\ queue[1].kind = "fnTimer" /\ 1 \in 1 .. Len(queue)
    BY <1>1, <2>2, ReceiveType
  <2>4. ~ Released(queue, 1)
    BY <2>2 DEF Released, LastIsRelease, NoSelection
  <2> QED BY <1>1, <2>3, <2>4 DEF ButtonInv, TimeoutsReleased
<1>2. TypeOK /\ ButtonInv /\ [Next]_vars
        => [resetDue' /\ ~ resetDue => Head(queue).held]_vars
  BY <1>1
<1> QED BY <1>2, ButtonInvariant, PTL DEF Spec, ResetOnlyHeld
-----------------------------------------------------------------------------
(* The cluster.  While no controller sends commands only the application   *)
(* task initiates actions: the lambda that a task runs speaks of the place *)
(* where the bolt rested last, and that is never a wish to move it.        *)
Rested == IF mState \in {"UnlockingCompleted", "LockingInitiated"} THEN Unlocked ELSE Locked

(* The flag is set for the whole of a movement and until it is looked at.  *)
SyncIsSet == (IsActionInProgress /\ app.pc # "notify") \/ app.pc = "update" => sync

(* The bolt rests until the movement begins and after it is complete.      *)
RestsBetween ==
  /\ app.pc \in {"start", "state"} => mState = Completed(Opposite(app.act))
  /\ app.pc \in {"update", "clear"} => ~ IsActionInProgress

(* There is at most one lambda, and none when a movement ends.             *)
LambdaIsOfRest ==
  /\ lambdas = <<>> \/ lambdas = <<Rested>>
  /\ app.pc = "update" \/ ~ NoMovementIn(queue) => lambdas = <<>>

(* The attribute is right, or is going to be set.                          *)
AttributeIsOfRest == lambdas = <<>> /\ app.pc # "update" => attr = Rested

ClusterInv ==
  ~ commands => /\ chip = Idle /\ SyncIsSet /\ RestsBetween
                /\ LambdaIsOfRest /\ AttributeIsOfRest

(* The steps below assume that no controller sends commands.               *)
ButtonsOnly == ~ commands /\ ClusterInv

(* The lambda that runs wishes for what is there, and is turned down.      *)
LEMMA LambdaIsNoWish ==
  ASSUME NEW v \in {Locked, Unlocked}, v = Rested, mState \in States
  PROVE  Decide(IF v = Locked THEN "LOCK" ELSE "UNLOCK") = Idle
<1>1. ~ Accepts(IF v = Locked THEN "LOCK" ELSE "UNLOCK")
  BY BoltStates DEF Accepts, Rested, Locked, Unlocked, States
<1> QED BY <1>1 DEF Decide

(* Nothing of the cluster changes.                                         *)
LEMMA ClusterAlone ==
  ASSUME TypeOK, ButtonsOnly, UNCHANGED <<commands, mState, sync, chip, lambdas, attr>>,
         \/ UNCHANGED app
         \/ /\ app.pc \in {"idle", "decide"} /\ app'.pc \in {"idle", "decide", "start"}
            /\ app'.pc = "start" => app'.act \in Actions /\ Accepts(app'.act),
         NoMovementIn(queue) => NoMovementIn(queue')
  PROVE  ClusterInv'
<1>0. Rested' = Rested /\ (IsActionInProgress' <=> IsActionInProgress)
  BY DEF Rested, IsActionInProgress
<1>1. ASSUME NEW a \in Actions, Accepts(a) PROVE mState = Completed(Opposite(a))
  BY <1>1 DEF Accepts, Opposite
<1>2. RestsBetween'
  BY <1>0, <1>1 DEF ButtonsOnly, ClusterInv, RestsBetween
<1>3. SyncIsSet'
  BY <1>0 DEF ButtonsOnly, ClusterInv, SyncIsSet
<1>4. LambdaIsOfRest' /\ AttributeIsOfRest'
  BY <1>0 DEF ButtonsOnly, ClusterInv, LambdaIsOfRest, AttributeIsOfRest
<1> QED BY <1>2, <1>3, <1>4 DEF ButtonsOnly, ClusterInv

(* The application task initiates an action: it says so in the flag.       *)
LEMMA ClusterInitiates ==
  ASSUME TypeOK, ButtonsOnly, MoveInv, AppInitiates PROVE ClusterInv'
<1>0. /\ UNCHANGED <<commands, chip, queue, lambdas, attr>>
      /\ app.act \in Actions /\ mState \in States /\ InitiateAction(app)
  BY DEF TypeOK, AppInitiates, homeVars
<1>1. CASE StartTimer(app)
  <2>1. /\ app.pc = "start" /\ app'.pc = "state" /\ app'.act = app.act
        /\ UNCHANGED <<mState, sync>>
    BY <1>1 DEF StartTimer, TypeOK
  <2> QED BY <1>0, <2>1 DEF ButtonsOnly, ClusterInv, SyncIsSet, RestsBetween, LambdaIsOfRest,
                            AttributeIsOfRest, Rested, IsActionInProgress
<1>2. CASE SetState(app)
  <2>1. /\ app.pc = "state" /\ app'.pc = "notify" /\ mState' = Initiated(app.act)
        /\ mState = Completed(Opposite(app.act)) /\ sync' = sync
    BY <1>2 DEF SetState, TypeOK, ButtonsOnly, ClusterInv, RestsBetween
  <2>2. Rested' = Rested
    BY <1>0, <2>1, BoltStates DEF Rested, Opposite, Actions
  <2> QED BY <1>0, <2>1, <2>2 DEF ButtonsOnly, ClusterInv, SyncIsSet, RestsBetween,
                                  LambdaIsOfRest, AttributeIsOfRest
<1>3. CASE Notify(app)
  <2>1. app.pc = "notify" /\ app'.pc = "idle" /\ sync' /\ UNCHANGED mState
    BY <1>3 DEF Notify, Idle
  <2> QED BY <1>0, <2>1 DEF ButtonsOnly, ClusterInv, SyncIsSet, RestsBetween, LambdaIsOfRest,
                            AttributeIsOfRest, Rested, IsActionInProgress
<1> QED BY <1>0, <1>1, <1>2, <1>3 DEF InitiateAction

(* A movement ends: no lambda of an earlier one is left to contradict it.  *)
LEMMA ClusterCompletes ==
  ASSUME TypeOK, ButtonsOnly, MoveInv, CompleteMovement PROVE ClusterInv'
<1>1. /\ Receive("movement") /\ UNCHANGED <<commands, sync, chip, lambdas, attr>>
      /\ app.pc = "idle" /\ IsActionInProgress
  BY MoveComplete DEF CompleteMovement, homeVars, Receive
<1>2. ~ NoMovementIn(queue)
  BY <1>1, ReceiveMovements
<1>3. lambdas = <<>> /\ sync
  BY <1>1, <1>2 DEF ButtonsOnly, ClusterInv, LambdaIsOfRest, SyncIsSet
<1>4. app'.pc = "update"
  BY <1>1 DEF CompleteMovement, TypeOK
<1>5. ~ IsActionInProgress'
  <2>1. PICK a \in Actions : mState' = Completed(a)
    <3>1. (CHOOSE a \in Actions : mState = Initiated(a)) \in Actions
      BY <1>1 DEF IsActionInProgress
    <3> QED BY <1>1, <3>1 DEF CompleteMovement
  <2> QED BY <2>1, BoltStates DEF IsActionInProgress, Actions
<1> QED BY <1>1, <1>3, <1>4, <1>5 DEF ButtonsOnly, ClusterInv, SyncIsSet, RestsBetween,
                                     LambdaIsOfRest, AttributeIsOfRest

(* The lambda that is scheduled says where the bolt is.                    *)
LEMMA ClusterUpdates ==
  ASSUME TypeOK, ButtonsOnly, MoveInv, UpdateClusterState PROVE ClusterInv'
<1>0. /\ app.pc = "update" /\ UNCHANGED <<commands, mState, sync, chip, queue, attr>>
      /\ sync /\ lambdas = <<>> /\ ~ IsActionInProgress
      /\ lambdas' = Append(lambdas, IF IsUnlocked THEN Unlocked ELSE Locked)
      /\ app'.pc = "clear"
  BY DEF UpdateClusterState, boltVars, timerVars, ButtonsOnly, ClusterInv, SyncIsSet,
         LambdaIsOfRest, RestsBetween, TypeOK
<1>1. Rested = IF IsUnlocked THEN Unlocked ELSE Locked
  BY <1>0, BoltStates DEF Rested, IsUnlocked, IsActionInProgress, TypeOK, States, Actions
<1>2. lambdas' = <<Rested>> /\ Rested' = Rested
  BY <1>0, <1>1 DEF Rested
<1>3. NoMovementIn(queue)
  BY <1>0 DEF MoveInv, ExpiryIsOfMovement
<1>4. ~ IsActionInProgress'
  BY <1>0 DEF IsActionInProgress
<1>5. lambdas' # <<>>
  BY <1>2
<1> QED BY <1>0, <1>2, <1>3, <1>4, <1>5
        DEF ButtonsOnly, ClusterInv, SyncIsSet, RestsBetween, LambdaIsOfRest, AttributeIsOfRest

(* The flag is cleared while the bolt rests.                               *)
LEMMA ClusterClears ==
  ASSUME TypeOK, ButtonsOnly, ClearSync PROVE ClusterInv'
<1>0. /\ app.pc = "clear" /\ app'.pc = "idle"
      /\ UNCHANGED <<commands, mState, chip, queue, lambdas, attr>>
  BY DEF ClearSync, homeVars, Idle
<1> QED BY <1>0 DEF ButtonsOnly, ClusterInv, SyncIsSet, RestsBetween, LambdaIsOfRest,
                    AttributeIsOfRest, Rested, IsActionInProgress

(* The lambda runs: the attribute says where the bolt rested.              *)
LEMMA ClusterLambda ==
  ASSUME TypeOK, ButtonsOnly, RunLambda PROVE ClusterInv'
<1>0. /\ lambdas = <<Rested>> /\ chip = Idle /\ app.pc # "update"
      /\ UNCHANGED <<commands, mState, sync, app, queue>>
      /\ attr' = Head(lambdas) /\ lambdas' = Tail(lambdas)
      /\ chip' = Decide(IF Head(lambdas) = Locked THEN "LOCK" ELSE "UNLOCK")
  BY DEF RunLambda, boltVars, timerVars, ButtonsOnly, ClusterInv, LambdaIsOfRest
<1>1. Head(lambdas) = Rested /\ Tail(lambdas) = <<>> /\ Rested \in {Locked, Unlocked}
  BY <1>0 DEF Rested
<1>2. chip' = Idle
  BY <1>0, <1>1, LambdaIsNoWish DEF TypeOK
<1>3. Rested' = Rested /\ (IsActionInProgress' <=> IsActionInProgress)
  BY <1>0 DEF Rested, IsActionInProgress
<1> QED BY <1>0, <1>1, <1>2, <1>3 DEF ButtonsOnly, ClusterInv, SyncIsSet, RestsBetween,
                                     LambdaIsOfRest, AttributeIsOfRest

(* The timer expires when no lambda is left.                               *)
LEMMA ClusterExpires ==
  ASSUME TypeOK, ButtonsOnly, MovementTimerExpires PROVE ClusterInv'
<1>0. /\ lambdas = <<>> /\ UNCHANGED <<commands, mState, sync, app, chip, lambdas, attr>>
  BY DEF MovementTimerExpires, Prompt, homeVars
<1> QED BY <1>0 DEF ButtonsOnly, ClusterInv, SyncIsSet, RestsBetween, LambdaIsOfRest,
                    AttributeIsOfRest, Rested, IsActionInProgress

(* At the start, and after a reset, the first lambda is scheduled.         *)
LEMMA ClusterStarts ==
  /\ Init => ClusterInv
  /\ Restart => ClusterInv'
<1>1. Len(<<>>) = 0 /\ <<Locked>> # <<>>
  OBVIOUS
<1>2. ASSUME Init PROVE ClusterInv
  BY <1>1, <1>2, BoltStates
     DEF Init, Start, Idle, ClusterInv, SyncIsSet, RestsBetween, LambdaIsOfRest,
         AttributeIsOfRest, Rested, IsActionInProgress, NoMovementIn, Actions
<1>3. ASSUME Restart PROVE ClusterInv'
  BY <1>1, <1>3, BoltStates
     DEF Restart, Start, Idle, ClusterInv, SyncIsSet, RestsBetween, LambdaIsOfRest,
         AttributeIsOfRest, Rested, IsActionInProgress, NoMovementIn, Actions
<1> QED BY <1>2, <1>3

(* The handlers, buttons and timers that leave the cluster alone.          *)
LEMMA ClusterStill ==
  ASSUME TypeOK, ButtonsOnly,
         \/ LockActionEventHandler \/ FunctionHandler \/ FunctionTimerEventHandler
         \/ AppDecides \/ FunctionTimerExpires
         \/ \E d \in SUBSET {"lock", "function"} : PollGPIO(d)
  PROVE  ClusterInv'
<1>0. ASSUME NEW kind, Receive(kind)
      PROVE  (NoMovementIn(queue) => NoMovementIn(queue')) /\ app.pc = "idle"
  BY <1>0, ReceiveMovements, ReceiveType
<1>1. CASE LockActionEventHandler
  BY <1>0, <1>1, ClusterAlone DEF LockActionEventHandler, boltVars, timerVars, homeVars
<1>2. CASE FunctionHandler
  BY <1>0, <1>2, ClusterAlone DEF FunctionHandler, boltVars, timerVars, homeVars
<1>3. CASE FunctionTimerEventHandler
  BY <1>0, <1>3, ClusterAlone DEF FunctionTimerEventHandler, boltVars, timerVars, homeVars
<1>4. CASE AppDecides
  <2>1. /\ app.pc = "decide" /\ app.act \in Actions /\ app' = Decide(app.act)
        /\ UNCHANGED <<commands, mState, sync, chip, queue, lambdas, attr>>
    BY <1>4 DEF AppDecides, boltVars, timerVars, homeVars, TypeOK
  <2>2. /\ app'.pc \in {"idle", "start"}
        /\ app'.pc = "start" => app'.act \in Actions /\ Accepts(app'.act)
    BY <2>1 DEF Decide, Idle
  <2> QED BY <2>1, <2>2, ClusterAlone
<1>5. CASE FunctionTimerExpires
  <2> DEFINE e == [kind |-> "fnTimer", held |-> "function" \in down]
  <2>0. ("function" \in down) \in BOOLEAN
    OBVIOUS
  <2>1. e \in Events /\ e.kind # "movement"
    BY <2>0 DEF Events
  <2>2. /\ UNCHANGED <<commands, mState, sync, app, chip, lambdas, attr>>
        /\ queue' = Post(queue, e)
    BY <1>5 DEF FunctionTimerExpires, boltVars, timerVars, homeVars
  <2> HIDE DEF e
  <2>3. NoMovementIn(queue) => NoMovementIn(queue')
    BY <2>1, <2>2, PostMovements DEF TypeOK
  <2> QED BY <2>2, <2>3, ClusterAlone
<1>6. ASSUME NEW d \in SUBSET {"lock", "function"}, PollGPIO(d) PROVE ClusterInv'
  <2>1. /\ UNCHANGED <<commands, mState, sync, app, chip, lambdas, attr>>
        /\ queue' = ButtonEvents(queue, d)
    BY <1>6 DEF PollGPIO, boltVars, timerVars, homeVars
  <2> QED BY <2>1, ButtonMovements, ClusterAlone
<1> QED BY <1>1, <1>2, <1>3, <1>4, <1>5, <1>6

(* No step decides otherwise on the commands, and none comes.              *)
LEMMA CommandsStay ==
  ASSUME [Next]_vars PROVE commands' = commands
BY DEF vars, Next, AppStep, ChipStep, UserStep, LockActionEventHandler, CompleteMovement,
       UpdateClusterState, ClearSync, FunctionHandler, FunctionTimerEventHandler, AppDecides,
       AppInitiates, ChipInitiates, RunLambda, PollGPIO, Command, Restart,
       MovementTimerExpires, FunctionTimerExpires

(* The cluster's invariant is inductive, on top of that of the movement.   *)
LEMMA ClusterStep ==
  ASSUME TypeOK, MoveInv, ClusterInv, [Next]_vars PROVE ClusterInv'
<1>1. CASE commands
  BY <1>1, CommandsStay DEF ClusterInv
<1>2. CASE ~ commands
  <2>0. ButtonsOnly
    BY <1>2 DEF ButtonsOnly
  <2>1. CASE UNCHANGED vars
    BY <2>0, <2>1, ClusterAlone DEF vars
  <2>2. CASE ChipInitiates
    BY <2>0, <2>2 DEF ButtonsOnly, ClusterInv, ChipInitiates, InitiateAction, StartTimer,
                      SetState, Notify, Idle
  <2>3. ~ \E a \in Actions : Command(a)
    BY <1>2 DEF Command
  <2> QED BY <2>0, <2>1, <2>2, <2>3, ClusterInitiates, ClusterCompletes, ClusterUpdates,
             ClusterClears, ClusterLambda, ClusterExpires, ClusterStarts, ClusterStill
          DEF Next, AppStep, ChipStep, UserStep
<1> QED BY <1>1, <1>2

(* When the bolt rests and nothing is under way the cluster says where it  *)
(* is, as long as the button alone moves it: whatever the length of the    *)
(* queue and however the two tasks, the timers and a reset interleave.     *)
THEOREM ButtonsKeepTheCluster == Spec => []ButtonsKeepAttribute
<1>1. Spec => [](TypeOK /\ MoveInv /\ ClusterInv)
  BY TypeInit, TypeStep, MoveInit, MoveStep, ClusterStarts, ClusterStep, PTL DEF Spec
<1>2. ASSUME TypeOK, ClusterInv PROVE ButtonsKeepAttribute
  <2> SUFFICES ASSUME ~ commands, AtRest PROVE attr = IF IsUnlocked THEN Unlocked ELSE Locked
    BY DEF ButtonsKeepAttribute, AttributeAgrees
  <2>1. attr = Rested /\ ~ IsActionInProgress
    BY <1>2 DEF ClusterInv, AttributeIsOfRest, AtRest
  <2> QED BY <1>2, <2>1, BoltStates
             DEF Rested, IsUnlocked, IsActionInProgress, TypeOK, States, Actions
<1> QED BY <1>1, <1>2, PTL
=============================================================================
