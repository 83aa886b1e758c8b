-------------------------------- MODULE Lock --------------------------------
(***************************************************************************)
(* The door lock application: BoltLockManager (the bolt and its movement   *)
(* timer) and AppTask (the event queue, the two buttons, the cluster).     *)
(*                                                                         *)
(* Actors: the application task, which handles one event of its queue at a *)
(* time; the Matter task, which calls InitiateAction for commands and for  *)
(* changes of the LockState attribute and runs the lambdas; the FreeRTOS   *)
(* timer daemon; the user.  The two tasks share the lock manager without a *)
(* mutex and can preempt each other between any two of its statements that *)
(* touch shared state.  Auto re-lock, which no code switches on, is left   *)
(* out.                                                                    *)
(***************************************************************************)
EXTENDS Integers, Sequences, FiniteSets

CONSTANTS
  QueueLength, \* APP_EVENT_QUEUE_SIZE
  Spare        \* places of the queue that a change of the buttons leaves

ASSUME LockAssumption == QueueLength \in Nat /\ Spare \in Nat

VARIABLES
  commands, \* whether Matter controllers send commands in this behaviour
  mState,   \* of the lock manager
  timer,    \* sLockTimer is active
  elapsed,  \* ghost: sLockTimer has expired since it was last started
  noTimer,  \* ghost: the last start of sLockTimer failed
  sync,     \* mSyncClusterToButtonAction
  app,      \* where the application task is
  chip,     \* where the Matter task is
  queue,    \* sAppEventQueue
  lambdas,  \* scheduled lambdas: the values they set
  attr,     \* the LockState attribute
  down,     \* the buttons held down, as last polled
  fn,       \* mFunction
  fnActive, \* mFunctionTimerActive
  fnTimer,  \* the Matter timer behind it runs
  noFnTimer, \* ghost: a selection was begun whose timer did not start
  resetDue  \* a factory reset has been scheduled

vars == <<commands, mState, timer, elapsed, noTimer, sync, app, chip, queue,
          lambdas, attr, down, fn, fnActive, fnTimer, noFnTimer, resetDue>>

timerVars == <<timer, elapsed, noTimer>>
boltVars  == <<mState, timerVars, sync>>
fnTimers  == <<fnActive, fnTimer, noFnTimer>>
fnVars    == <<fn, fnTimers, resetDue>>
homeVars == <<lambdas, attr>>

Locked   == "Locked"
Unlocked == "Unlocked"
Null     == "Null"
Actions  == {"LOCK", "UNLOCK"}
Idle     == [pc |-> "idle", act |-> "LOCK"]

Initiated(a) == IF a = "LOCK" THEN "LockingInitiated" ELSE "UnlockingInitiated"
Completed(a) == IF a = "LOCK" THEN "LockingCompleted" ELSE "UnlockingCompleted"

IsActionInProgress == mState \in {Initiated(a) : a \in Actions}
IsUnlocked == mState = "UnlockingCompleted"

(* AppTask::PostEvent: an event that finds the queue full is lost.         *)
Post(q, e) == IF Len(q) < QueueLength THEN Append(q, e) ELSE q

Event(kind) == [kind |-> kind, held |-> FALSE]
-----------------------------------------------------------------------------
(* BoltLockManager::InitiateAction, by either task.  its is the task's     *)
(* place; at most one of them is at each step, but both can be inside.     *)

(* Fault: an action is accepted while the bolt still moves.                *)
AcceptsAnyTime(a) == mState # Completed(a)

(* An action is accepted only when the opposite one is complete.           *)
Accepts(a) == mState = Completed(IF a = "LOCK" THEN "UNLOCK" ELSE "LOCK")

Decide(a) == IF Accepts(a) THEN [pc |-> "start", act |-> a] ELSE Idle

(* StartTimer cancels a timer that is active and starts it anew.  The      *)
(* daemon's command queue may stay full for the 100 ticks that the start   *)
(* waits: the failure is logged, and InitiateAction goes on without timer. *)
(* When the cancellation has failed as well the old timer still runs, as   *)
(* after a start.                                                          *)
StartTimer(its) ==
  /\ its.pc = "start"
  /\ its' = [its EXCEPT !.pc = "state"]
  /\ timer' \in BOOLEAN /\ noTimer' = ~ timer'
  /\ elapsed' = FALSE
  /\ UNCHANGED <<mState, sync>>

SetState(its) ==
  /\ its.pc = "state"
  /\ its' = [its EXCEPT !.pc = "notify"]
  /\ mState' = Initiated(its.act)
  /\ UNCHANGED <<timerVars, sync>>

(* Fault: the flag is set for locking only.                                *)
NotifyLocking(its) ==
  /\ its.pc = "notify"
  /\ its' = Idle
  /\ sync' = (sync \/ its.act = "LOCK")
  /\ UNCHANGED <<mState, timerVars>>

(* AppTask::ActionInitiated.  Every caller passes the actor 0, which is    *)
(* also kEventType_Button.                                                 *)
Notify(its) ==
  /\ its.pc = "notify"
  /\ its' = Idle
  /\ sync' = TRUE
  /\ UNCHANGED <<mState, timerVars>>

InitiateAction(its) == StartTimer(its) \/ SetState(its) \/ Notify(its)

AppInitiates ==
  /\ InitiateAction(app)
  /\ UNCHANGED <<commands, chip, queue, homeVars, down, fnVars>>

ChipInitiates ==
  /\ InitiateAction(chip)
  /\ UNCHANGED <<commands, app, queue, homeVars, down, fnVars>>
-----------------------------------------------------------------------------
(* AppTaskMain: the next event of the queue, when the last one is done.    *)
Receive(kind) ==
  /\ app.pc = "idle" /\ queue # <<>> /\ Head(queue).kind = kind
  /\ queue' = Tail(queue)

(* LockActionEventHandler for the button: the action is chosen from the    *)
(* state, which can change before InitiateAction looks at it.              *)
LockActionEventHandler ==
  /\ Receive("lock")
  /\ app' = [pc |-> "decide", act |-> IF IsUnlocked THEN "LOCK" ELSE "UNLOCK"]
  /\ UNCHANGED <<commands, boltVars, chip, homeVars, down, fnVars>>

(* Fault: only a movement that locks is completed.                         *)
CompleteLocking ==
  /\ Receive("movement")
  /\ IF mState = Initiated("LOCK")
       THEN mState' = Completed("LOCK") /\ app' = [app EXCEPT !.pc = "update"]
       ELSE UNCHANGED <<mState, app>>
  /\ UNCHANGED <<commands, timerVars, sync, chip, homeVars, down, fnVars>>

(* ActuatorMovementTimerEventHandler: the movement is complete; what was   *)
(* not in progress is left alone.                                          *)
CompleteMovement ==
  /\ Receive("movement")
  /\ IF IsActionInProgress
       THEN /\ mState' = Completed(CHOOSE a \in Actions : mState = Initiated(a))
            /\ app' = [app EXCEPT !.pc = "update"]
       ELSE UNCHANGED <<mState, app>>
  /\ UNCHANGED <<commands, timerVars, sync, chip, homeVars, down, fnVars>>

(* AppTask::ActionCompleted: a lambda is scheduled that will set the state *)
(* of now in the cluster, then the flag is cleared.  The flag and the      *)
(* state are two reads.  One step at the second of them, or at the first   *)
(* when the flag is FALSE, shows every outcome: only this task clears the  *)
(* flag, so one that was TRUE at the first read is TRUE at the second.     *)
UpdateClusterState ==
  /\ app.pc = "update"
  /\ IF sync
       THEN /\ lambdas' = Append(lambdas, IF IsUnlocked THEN Unlocked ELSE Locked)
            /\ app' = [app EXCEPT !.pc = "clear"]
       ELSE app' = Idle /\ UNCHANGED lambdas
  /\ UNCHANGED <<commands, boltVars, chip, queue, attr, down, fnVars>>

(* The choice of the button and the decision are two reads of the state.   *)
AppDecides ==
  /\ app.pc = "decide"
  /\ app' = Decide(app.act)
  /\ UNCHANGED <<commands, boltVars, chip, queue, homeVars, down, fnVars>>

ClearSync ==
  /\ app.pc = "clear"
  /\ sync' = FALSE
  /\ app' = Idle
  /\ UNCHANGED <<commands, mState, timerVars, chip, queue, homeVars, down, fnVars>>
-----------------------------------------------------------------------------
(* The Matter task.  A command with a valid PIN:                           *)
(* emberAfPluginDoorLockOnDoorLockCommand and ...UnlockCommand.            *)
Command(a) ==
  /\ commands /\ chip.pc = "idle"
  /\ chip' = Decide(a)
  /\ UNCHANGED <<commands, boltVars, app, queue, homeVars, down, fnVars>>

(* A lambda sets the attribute, and MatterPostAttributeChangeCallback      *)
(* takes that for a wish.                                                  *)
RunLambda ==
  /\ chip.pc = "idle" /\ lambdas # <<>>
  /\ attr' = Head(lambdas) /\ lambdas' = Tail(lambdas)
  /\ chip' = Decide(IF Head(lambdas) = Locked THEN "LOCK" ELSE "UNLOCK")
  /\ UNCHANGED <<commands, boltVars, app, queue, down, fnVars>>

(* Nobody is held up for the whole time of a movement with an action half  *)
(* initiated or completed, or a lambda not run.                            *)
Prompt == chip.pc = "idle" /\ app.pc \in {"idle", "decide"} /\ lambdas = <<>>

(* BoltLockManager::TimerEventHandler in the timer daemon.                 *)
MovementTimerExpires ==
  /\ timer /\ Prompt
  /\ timer' = FALSE /\ elapsed' = TRUE
  /\ queue' = Post(queue, Event("movement"))
  /\ UNCHANGED <<commands, mState, noTimer, sync, app, chip, homeVars, down, fnVars>>
-----------------------------------------------------------------------------
(* The buttons.  IO_PollGPIO calls back for every button when any of them  *)
(* has changed; ButtonEventHandler posts the lock button when it is down   *)
(* and the function button always.                                         *)
ButtonEvents(q, d) ==
  LET fnEvent == [Event("function") EXCEPT !.held = "function" \in d]
  IN  Post(IF "lock" \in d THEN Post(q, Event("lock")) ELSE q, fnEvent)

PollGPIO(d) ==
  /\ d # down
  /\ Len(queue) + 2 + Spare <= QueueLength
  /\ down' = d
  /\ queue' = ButtonEvents(queue, d)
  /\ UNCHANGED <<commands, boltVars, app, chip, homeVars, fnVars>>

(* AppTask::StartTimer and CancelTimer of the function button.  When the   *)
(* system layer has no timer to give the failure is logged, the flag stays *)
(* as it was, and the callers go on to select the function.                *)
StartFnTimer ==
  \/ fnTimer' = TRUE /\ fnActive' = TRUE /\ UNCHANGED noFnTimer
  \/ fnTimer' = FALSE /\ UNCHANGED fnActive /\ noFnTimer' = (noFnTimer \/ ~ fnActive)

CancelFnTimer == fnTimer' = FALSE /\ fnActive' = FALSE /\ UNCHANGED noFnTimer

(* Fault: a release is looked at only before the first timeout.            *)
FunctionHandlerEarly ==
  /\ Receive("function")
  /\ LET pressed == Head(queue).held IN
     \/ /\ pressed /\ ~ fnActive /\ fn = "None"
        /\ StartFnTimer /\ fn' = "StartBleAdv"
     \/ /\ ~ pressed /\ fnActive /\ fn = "StartBleAdv"
        /\ CancelFnTimer /\ fn' = "None"
     \/ /\ IF pressed THEN fnActive \/ fn # "None" ELSE ~ fnActive \/ fn # "StartBleAdv"
        /\ UNCHANGED <<fn, fnTimers>>
  /\ UNCHANGED <<commands, boltVars, app, chip, homeVars, down, resetDue>>

(* FunctionHandler: a press starts the selection, a release carries out    *)
(* what is selected, or cancels the factory reset.                         *)
FunctionHandler ==
  /\ Receive("function")
  /\ LET pressed == Head(queue).held IN
     \/ /\ pressed /\ ~ fnActive /\ fn = "None"
        /\ StartFnTimer /\ fn' = "StartBleAdv"
     \/ /\ ~ pressed /\ fnActive /\ fn # "None"
        /\ CancelFnTimer /\ fn' = "None"
     \/ /\ IF pressed THEN fnActive \/ fn # "None" ELSE ~ fnActive \/ fn = "None"
        /\ UNCHANGED <<fn, fnTimers>>
  /\ UNCHANGED <<commands, boltVars, app, chip, homeVars, down, resetDue>>

(* AppTask::TimerEventHandler in the Matter task.  held, a ghost, says     *)
(* whether the button was down when the timer expired.                     *)
FunctionTimerExpires ==
  /\ fnTimer /\ chip.pc = "idle"
  /\ fnTimer' = FALSE
  /\ queue' = Post(queue, [kind |-> "fnTimer", held |-> "function" \in down])
  /\ UNCHANGED <<commands, boltVars, app, chip, homeVars, down, fn, fnActive,
                 noFnTimer, resetDue>>

(* Fault: the functions follow each other as in their enumeration.         *)
NextEnumerator(f) == IF f = "StartBleAdv" THEN "Invalid" ELSE "FactoryReset"

NextFunction(f) == IF f = "StartBleAdv" THEN "SoftwareUpdate" ELSE "FactoryReset"

(* FunctionTimerEventHandler: the next function is selected, and after the *)
(* last the factory reset is scheduled.                                    *)
FunctionTimerEventHandler ==
  /\ Receive("fnTimer")
  /\ \/ /\ fnActive /\ fn \in {"StartBleAdv", "SoftwareUpdate"}
        /\ StartFnTimer /\ fn' = NextFunction(fn) /\ UNCHANGED resetDue
     \/ /\ fnActive /\ fn = "FactoryReset"
        /\ fn' = "None" /\ resetDue' = TRUE /\ UNCHANGED fnTimers
     \/ /\ ~ fnActive \/ fn = "None"
        /\ UNCHANGED fnVars
  /\ UNCHANGED <<commands, boltVars, app, chip, homeVars, down>>
-----------------------------------------------------------------------------
(* BoltLockManager::Init and AppTask::Init.                                *)
Start ==
  [mState |-> "LockingCompleted", queue |-> <<>>, lambdas |-> <<Locked>>,
   attr |-> Null, fn |-> "None"]

Init ==
  /\ commands \in BOOLEAN
  /\ mState = Start.mState /\ sync = FALSE
  /\ timer = FALSE /\ elapsed = FALSE /\ noTimer = FALSE
  /\ app = Idle /\ chip = Idle /\ queue = Start.queue
  /\ lambdas = Start.lambdas /\ attr = Start.attr /\ down = {}
  /\ fn = Start.fn /\ fnActive = FALSE /\ fnTimer = FALSE /\ noFnTimer = FALSE
  /\ resetDue = FALSE

(* The factory reset restarts the device.                                  *)
Restart ==
  /\ resetDue
  /\ mState' = Start.mState /\ sync' = FALSE
  /\ timer' = FALSE /\ elapsed' = FALSE /\ noTimer' = FALSE
  /\ app' = Idle /\ chip' = Idle /\ queue' = Start.queue
  /\ lambdas' = Start.lambdas /\ attr' = Start.attr /\ down' = {}
  /\ fn' = Start.fn /\ fnActive' = FALSE /\ fnTimer' = FALSE /\ noFnTimer' = FALSE
  /\ resetDue' = FALSE
  /\ UNCHANGED commands

AppStep == \/ LockActionEventHandler \/ CompleteMovement \/ UpdateClusterState
           \/ ClearSync \/ FunctionHandler \/ FunctionTimerEventHandler
           \/ AppDecides \/ AppInitiates

ChipStep == ChipInitiates \/ RunLambda

UserStep == \/ \E d \in SUBSET {"lock", "function"} : PollGPIO(d)
            \/ \E a \in Actions : Command(a)

Next == \/ AppStep \/ ChipStep \/ UserStep \/ Restart
        \/ MovementTimerExpires \/ FunctionTimerExpires

(* Neither task is starved, the Matter task takes its events in order, and *)
(* a movement timer that was started expires.  Nothing makes a start       *)
(* succeed.                                                                *)
Fairness ==
  /\ WF_vars(AppStep) /\ WF_vars(ChipInitiates)
  /\ SF_vars(RunLambda) /\ SF_vars(MovementTimerExpires)

Spec == Init /\ [][Next]_vars
FairSpec == Spec /\ Fairness
-----------------------------------------------------------------------------
States    == {"LockingInitiated", "UnlockingInitiated",
              "LockingCompleted", "UnlockingCompleted"}
Places    == {"idle", "start", "state", "notify"}
AppPlaces == Places \cup {"decide", "update", "clear"}
Events    == [kind : {"lock", "function", "fnTimer", "movement"}, held : BOOLEAN]
Functions == {"None", "StartBleAdv", "SoftwareUpdate", "FactoryReset"}

(* Every variable holds a value of its type, and the queue fits.           *)
TypeOK ==
  /\ commands \in BOOLEAN /\ mState \in States
  /\ timer \in BOOLEAN /\ elapsed \in BOOLEAN /\ noTimer \in BOOLEAN
  /\ sync \in BOOLEAN
  /\ app \in [pc : AppPlaces, act : Actions]
  /\ chip \in [pc : Places, act : Actions]
  /\ queue \in Seq(Events) /\ Len(queue) <= QueueLength
  /\ lambdas \in Seq({Locked, Unlocked}) /\ attr \in {Null, Locked, Unlocked}
  /\ down \subseteq {"lock", "function"}
  /\ fn \in Functions
  /\ fnActive \in BOOLEAN /\ fnTimer \in BOOLEAN /\ noFnTimer \in BOOLEAN
  /\ resetDue \in BOOLEAN

(* The bolt is taken to have arrived only when the time of its movement is *)
(* over: no event of an earlier movement, and no second task that          *)
(* initiates an action, ends or restarts it early.                         *)
MovementTakesItsTime ==
  [][IsActionInProgress /\ ~ IsActionInProgress' => elapsed \/ resetDue]_vars

(* Every movement that was initiated is completed, although two tasks      *)
(* share the one timer and its expiry travels through a queue, unless the  *)
(* start of its timer failed.                                              *)
ActionsComplete == IsActionInProgress ~> ~ IsActionInProgress \/ noTimer

(* "Since the timer started successfully, update the state"                *)
(* (BoltLockManager.cpp:251): a bolt that moves has a timer that runs or   *)
(* has expired.  Only a start that fails leaves it without one, and then   *)
(* nothing ends the movement.                                              *)
MovementTimed == IsActionInProgress => timer \/ elapsed

(* A factory reset is scheduled only when the button was down at the last  *)
(* of its timeouts: events of earlier selections that are still queued     *)
(* when the button is released, or pressed again, do not add up to one.    *)
ResetOnlyHeld ==
  [][resetDue' /\ ~ resetDue => Head(queue).held]_vars

(* With the button up and every event handled no timer runs and nothing is *)
(* selected, so that the next press starts from the beginning, unless the  *)
(* start of a selection's first timer failed: then the function stays      *)
(* selected, and neither a press nor a release has an effect any more.     *)
ButtonSettled == /\ queue = <<>> /\ app.pc = "idle"
                 /\ "function" \notin down /\ ~ resetDue

SelectionEnds ==
  ButtonSettled => /\ ~ fnActive /\ ~ fnTimer
                   /\ fn = "None" \/ noFnTimer

(* When the bolt rests and nothing is under way the cluster says where it  *)
(* is.                                                                     *)
AtRest == /\ ~ IsActionInProgress /\ app.pc = "idle" /\ chip.pc = "idle"
          /\ lambdas = <<>>

AttributeAgrees == AtRest => attr = IF IsUnlocked THEN Unlocked ELSE Locked

(* ... as long as the button alone moves it: a lambda that is taken for a  *)
(* wish does not undo a later action, whose own update is not lost.        *)
ButtonsKeepAttribute == ~ commands => AttributeAgrees
=============================================================================
