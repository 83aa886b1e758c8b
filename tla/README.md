# TLA+ verification of QMatter

QMatter is Qorvo's SDK for Matter devices on the QPG6105: applications in C++
(`Applications/Matter`), a glue layer to the Matter SDK (`qvCHIP`), a BLE and an
802.15.4 stack, and the base they share: an event scheduler on FreeRTOS, NVM, the
hardware layer. The Matter SDK, Cordio, OpenThread, FreeRTOS and what is in ROM are
not in the tree.

This directory models the parts that carry the program's own logic and where
several actors meet: the event scheduler, the key-value store and the flash log under
it, the lock application, and the links of a BLE peripheral. TLC checks the models on
small instances. For every instance TLAPS proves the safety properties and the refinement of
the scheduler and of the key-value store, the safety properties of the lock, the queue of BLE links,
and, of the flash log, that its tables are those of the flash and lead to the newest record, and its refinement. Paths below are
relative to `src/Components/Qorvo/` unless they start with `Applications/`.

## Inventory

| Component | State it keeps | Operations | Interacts through | Hard |
|---|---|---|---|---|
| gpSched, the scheduler (`OS/gpSched`) | time-ordered event list, free list, interrupt queue, the ES timer, the task's notification | schedule (us, seconds, deferred), unschedule, clear, query, the event loop | two mutexes, FreeRTOS notification, timer daemon, radio interrupts | wake-ups, wrap-around, distant events, deferral |
| radio interrupts (`HAL_PLATFORM/.../hal.c`) | raised and masked sources | handlers, `hal_HandleRadioInterrupt` | the event loop | raised while masked |
| qvCHIP KVS (`Matter/qvCHIP/src/qvCHIP_KVS.c`) | head and data elements in NVM | put, get, delete, erase, consistency check | gpNvm, one mutex | resets, failed writes, shared indices |
| gpNvm (`BaseUtils/gpNvm`) | sectors of records in flash; in RAM the sector map, lookup tables, counts, extremes of sequence numbers | write, read, remove, erase, boot; relocation by calls and by scheduled events | flash, gpSched, the key-value store | resets inside anything, compaction when space or names are short, numbers that start over |
| door lock (`Applications/Matter/lock`) | bolt state, movement timer, event queue, selected function, cluster attribute | InitiateAction, event handlers, commands | two tasks, FreeRTOS timers, lambdas | shared state without a mutex |
| other Matter applications | light level, valve, switch | as the lock | as the lock | less state than the lock |
| qvIO (`BSP/qvIO`) | LED blinking events, polled buttons | LedSet, LedBlink, PollGPIO | gpSched | an event executed while it is cancelled |
| gpUtils lists, circular buffers | pointers, counts | append, insert, remove | callers' locks | pointer surgery, shared free list |
| BLE peripheral links (`BleApplication`: gpBleConnectionQueue, gpBlePeripheralConnectionStm, BleModule, cordioAppFramework) | a state per link, the queue of links that want to advertise, connection ids, bonds, advertising | open, close and unbind requests, kick and pop, handlers of the host stack's messages | zero-delay events, messages of the Cordio host stack | events and messages that are stale when they run, ids that are used again |
| BLE controller (`BleController`) | procedures, data queues, activities | LLCP procedures, HCI | ROM code, radio | collisions, timeouts; much is in ROM |
| 802.15.4 MAC (`802_15_4`) | raw-mode requests | transmit, receive, scan | radio, OpenThread | confirm matching |
| bootloader, upgrade, OTA (`Bootloader`) | image areas, progress | download, verify, copy | flash, resets | reset in the middle of a copy |
| sleep (`gpSched_patch.c`, `hal_SleepFreeRTOS.c`) | a disable counter, the next wake-up | the decision to sleep | gpSched | decision used after it is stale |
| logging, reset, serial, drivers | registers | | | hardware behaviour not in the tree |

What makes each of them correct:

* **gpSched**: every event asked for is executed exactly once, not before its time
  and not long after it; elements of the pool are neither lost nor doubled; the task
  never sleeps with work and no wake-up under way.
* **KVS**: a map of whole values; a call that fails or is cut off by a reset changes
  nothing, or takes effect; a key's data belongs to no other key; what
  interrupted calls leave is collected.
* **Lock**: an accepted action completes, not before its time; the cluster says where
  the bolt is; a factory reset needs the button held.
* **gpNvm**: the last completed write of a token is read, across relocation, the
  numbers' starting over and resets; there is always a free sector to relocate into.
* **BLE links**: the first link of the queue and only it advertises, every link
  queued gets its turn and an outcome, a connection and a bond belong to one link.

## Modules

| Module | Models | Extends / uses |
|---|---|---|
| `SchedTime` | 32-bit times and their modular comparisons, with half the range as a constant | Integers |
| `Sched` | `gpSched_integration_calls_patch.c`, `gpSched_il.c` (FreeRTOS), the interrupt handling of `hal.c` that the loop uses | SchedTime, refines SchedAbs |
| `SchedAbs` | what the scheduler promises: a bag of requests, each executed once in a window of time | |
| `MCSched` | instances of `Sched` | Sched |
| `SeqLemmas` | lemmas about sequences (insert, remove, reverse, injectivity, occurrences of a value) | TLAPS |
| `SchedProofs` | theorems about `Sched`: types, pool, wake-ups, times, assertions, its refinement of `SchedAbs` | Sched, SeqLemmas |
| `Kvs` | `qvCHIP_KVS.c` on atomic NVM writes | refines KvsAbs |
| `KvsAbs` | what the store promises: a map and at most one call in progress | |
| `MCKvs` | instances of `Kvs`: the uses of the store | Kvs |
| `KvsProofs` | theorems about `Kvs`, its refinement of `KvsAbs` included | Kvs, SeqLemmas |
| `Lock` | `BoltLockManager.cpp`, `AppTask.cpp`, `ZclCallbacks.cpp` of the lock, button polling of `qvIO.c` | |
| `LockProofs` | theorems about `Lock` | Lock, SeqLemmas |
| `NvmSeq` | the sequence numbers of `gpNvm_RW_Kx_SubpagedFlash_v2.c` and the comparison of two that may have started over | Integers |
| `Nvm` | the sector log of `gpNvm_RW_Kx_SubpagedFlash_v2.c` | NvmSeq, refines NvmAbs |
| `NvmAbs` | what gpNvm promises: a value per token that only a call changes, at most once | |
| `MCNvm` | instances of `Nvm`: the uses of the log | Nvm |
| `NvmDataProofs` | theorems about `NvmSeq` and lemmas on the operators of `Nvm`: the order of the numbers, sums, the walk over the pool, the table made along it | Nvm |
| `NvmProofs` | theorems about `Nvm`: types, names, the tables, removals | NvmDataProofs |
| `NvmPromiseProofs` | theorems about `Nvm`: what is read, its refinement of `NvmAbs` | NvmProofs |
| `BleStm` | `gpBlePeripheralConnectionStm.c` as a table: state, event, configuration, next state, calls | |
| `BleLinks` | all links with `gpBleConnectionQueue.c`, `BleModule_Peripheral.c`, the Cordio framework and the host stack's device manager as used | BleStm |
| `MCBle` | instances of `BleLinks`: the uses of the links | BleLinks |
| `BleProofs` | theorems about `BleLinks`: types, the queue of links, whose connection is whose, turns to advertise | BleLinks, SeqLemmas |

Definitions that start their comment with *Fault:* are not part of the models. They
are plausible mistakes in the code, each used to confirm that a property notices it.

### Sched and the code

| Variable | Code |
|---|---|
| `now` | the 1 us timebase; `2 * Half` stands for 2^32 |
| `list`, `free`, `ev` | `gpSched_EventList`, `gpSched_EventFree`, the elements of `gpSched_EventArray` |
| `cur`, `pc`, `inLoop`, `timerSet`, `wait` | locals of `Sched_Main` and `gpSched_Main_Body` |
| `es` | the scheduler's absolute event in the ES hardware |
| `notified` | the task's notification bit |
| `raised`, `masked` | interrupt sources: with an interrupt not yet handled; masked by their handler |
| `isrQ`, `pend` | `gpSched_EventQueue`; `gpSched_DeferredEvent` calls in the daemon's queue |
| `query` | a caller of `gpSched_GetRemainingTimeArgInSecAndUs` between unlock and read |
| `ev[e].left`, `isrQ[i].age`, `lag` | ghosts: time left of the delay asked for; time since a call; how long the task has been runnable |

The actors are the gpSched task, any other task calling the API (a callback that is being executed is one),
interrupt handlers, the timer daemon, the hardware and the clock. A critical
section under the `EventList` mutex is one action; the task's loop is cut wherever
another actor can run in between: after the wait, between handling and unmasking
interrupts, around the execution of an event, between the two halves of the loop's
condition, between reading the clock and arming the timer. An interrupt preempts
every task, so raising a source and its handler are one step.

A distant event keeps its remaining seconds in the element (`rem`); one unit of the
model's clock stands for a second there and `Interval` for the code's interval.
The elements' free list is FIFO as in the code (its order decides nothing else).

### Kvs and the code

`heads` and `datas` are the NVM elements of the two types by index, `op` the
operation that holds `qvCHIP_KvsMutex` and its place in the function. A value is a
version and a number of data elements. Each gpNvm write or removal is one action
and atomic; `Reset` can come between any two. gpNvm is external: removal of a token
that is not there fails (`gpNvm_RW_Kx_SubpagedFlash_v2.c`), and iteration skips removed tokens.

`AddHeadElement` with a NULL hash zeroes the hash and then copies from NULL
(`qvCHIP_KVS.c:387-389`): undefined behaviour, modelled as a choice between the zero
hash and another (`Zero`, `Junk`) in every use that has removals, except where a check
has to recognise the mark: then it can only be zero, see *Observations*.

### Lock and the code

`app` and `chip` say where the application task and the Matter task are inside
`InitiateAction`, `ActionCompleted` and the handlers; a step is one read or write of
what they share (`mState`, the timer, `mSyncClusterToButtonAction`). `queue` is
`sAppEventQueue`, `lambdas` what `UpdateClusterState` has scheduled, `attr` the
`LockState` attribute, `fn`, `fnActive`, `fnTimer` the function button's selection.
`IO_PollGPIO` calls back for all buttons when one changes, so one change posts up
to two events. Every caller of `InitiateAction` passes the actor 0, which equals
`kEventType_Button`, so the flag is set for every action.

### Nvm and the code

| Variable | Code |
|---|---|
| `flash` | the physical sectors: two headers (one per page) with the logical number and the erase-pending mark, and the records of two pages; `ok` is false for a record that a reset cut short |
| `mem.phys`, `locked`, `inactive` | `Nvm_SectorLut_t`: physical sector, write lock, `InactiveSum` |
| `mem.lut`, `unique` | the lookup table of all tokens, removed ones included; `Nvm_Pool_NumberOfUniqueTokens` |
| `mem.seqs`, `last` | the extremes of the sequence numbers; `Nvm_Pool_LastAllocatedPhySector` |
| `events` | the scheduled relocation and defragmentation |
| `stack` | the calls in progress: `Nvm_Write`, `Nvm_Pool_Record_Add`, `Nvm_LogSector_RelocateActiveData`, `Nvm_Reset`, `gpNvm_ErasePool`, innermost first |

A step is what happens between two changes of the flash: a header, a record, the erasure
of a sector. `ResetBetween` may come before any step, `ResetInStore` and `ResetInCopy`
leave the record cut short. Relocation can be nested in a write (urgent
defragmentation, clean-up of names) or run as an event, and ends in `Nvm_Reset` when it
has erased an extreme of the numbers or dropped a token, so the frames form a stack.
`use.cached` says whether `gpNvm_Init` built the table of all tokens (it does on K8E);
without it every call makes its own table from the flash (`Fresh`).

`NvmSeq` is independent of the rest: `Unmask` turns the 15-bit number of a record into
one that can be compared, from the four extremes that `Register` maintains and
`ExtremesOf` recomputes. The refinement compares what the tables say with `Stored`, which
finds the newest record by arithmetic modulo 2^15 (`NotOlder`) over the flash alone.

### BleLinks and the code

`BleStm!Table` holds the transitions of `gpBlePeripheralConnectionStm_SendEvent` for every
configuration, each with what its exit, transition and entry actions call. In `BleLinks` a
step is one handler run by the scheduler's task: a zero-delay event (`RunEvent`), a
message of the host stack (`HandleInd`), a request of the application. A handler is a
function from the modules' state to the new one with what it has scheduled (`sched`)
and sent (`inds`); `m` is that state:

| Field | Code |
|---|---|
| `state`, `queue` | the state machine's state of each link; the advertising queue |
| `connId`, `lastNew` | `BleModule_ConnIdList`, `BleModule_LastReceivedNew` |
| `rec`, `dbHdl` | the records of the device database; `appConnCb_t.dbHdl` |
| `known`, `bondable`, `advRuns`, `advDirected` | connections counted by the framework; `appSlaveCb`'s bondable flag, advertising state and type |
| `ccb`, `adv`, `pairing` | the device manager's connections, its advertising state, pairings in progress |

What the controller and the devices do (answer a command, time out, connect, pair, encrypt,
disconnect) are steps of their own, so that messages wait while the application asks for
something else. `DirectAdvertise` and the rest of the host stack are modelled from
`dm_adv_leg.c` and `dm_conn*.c`, which are in the tree. A reset is not modelled: the
stack starts once, as in the code.

## Runs

| Run | Instance | Asks | Distinct states |
|---|---|---|---|
| `SchedTasks` | 4 elements, delays 0 and 1, up to 3 events outstanding, cancellation and queries, clock of 10 ticks starting anywhere | pool conserved, list sorted across the wrap, no assertion fails, no wake-up or interrupt lost, timer armed in time, nothing early | 514 000 |
| `SchedPromise` | 3 elements, delay 0 directly and through interrupts, a distant event of 3 seconds in intervals of 2, queue of 2 | the refinement of `SchedAbs`, by which no interval is lost; overdue time bounded, every queued event has its daemon call | 320 000 |
| `SchedLive` | 3 elements, direct and deferred events, cancellation, radio interrupts, fairness | every event is executed once the callers fall silent | 827 000 |
| `KvsUse` | 2 keys, 2 versions, five uses (below) | the refinement of `KvsAbs`, references consistent, one head per key, assertions hold, checks collect and complete | 415 000 |
| `KvsEnds` | resets anywhere, any mark, fairness | every operation ends, the check's loop included | 57 000 |
| `KvsShrink` | a value that fits the head stored over one that does not | *violated*: reads with the old tail | |
| `LockApp` | queue of 6 places, both buttons, commands or none, fairness | movements complete and take their time, resets need the button held, selection ends, the button alone keeps the attribute right; timers may fail to start | 406 000 |
| `LockSync` | the same with commands | *violated*: an update of the attribute is lost | |
| `NvmLog` | 3 tokens, 2 values, 3 to 5 sectors of two pages with one or two records, eight uses (below) | the refinement of `NvmAbs`, the tables and the extremes of the numbers agree with the flash, names and space are counted, no assertion fails, relocation ends | 237 000 |
| `NvmStale` | the table of all tokens kept, removals | *violated*: a removal is dropped while an old value remains | |
| `BleLinks` | 2 links, 2 connections, 2 devices, five uses (below), fairness | the queue never stalls, turns are kept, connections and bonds belong to their links, everybody who waits gets an outcome | 100 000 |
| `BleTwo` | links are closed while they wait | *violated*: two links advertise | |

**Uses of the store** (`MCKvs`): `StoreUse` stores one or two data elements over each
other with room; `FullUse` runs out of indices in the middle of stores and has failing
writes; `ResetUse` resets in stores of new keys and in removals; `RecoverUse` resets in
stores of new keys and in checks, which collect the rest; `MarkedUse` resets in
removals of values that fit in the head, and checks complete them. They are separate
because the code is not right in every combination. The combinations left out are a
short value over a long one (`KvsShrink`), a reset in an overwriting store, and a reset in
a removal with data elements followed by a check (both under *Observations*).

**Uses of the log** (`MCNvm`): `FullUse` and `RemoveUse` fill three sectors, so that urgent
defragmentation runs in most writes; `SmallUse` has a sector more; `NamesUse` has
fewer names than tokens; `WrapUse` starts in the last quarter of the numbers, which start
over during it and spread until the oldest records are relocated; `DropUse`
has old values in other sectors than their removals; `EraseUse` erases the pool; `CrashUse`
has two resets, one of them during the boot that mends what the other left. Removals with
the table of all tokens kept are `NvmStale`'s use. In the eight uses of `NvmLog` the numbers stay
comparable (`NumbersComparable`): no use starts with the oldest number just below the last quarter, where two writes
in a row make them incomparable, see *Observations*.

**Uses of the links** (`MCBle`): `NewUse` has new devices on both links; `BondUse` a bonded
link that reconnects by itself; `AbortUse` closes links while they advertise and lets
unknown devices connect; `AnyUse` has two bonded links, either device on either link, and
requests in every state; `DirectUse` directed advertising in every mode and two devices
that pair at once. `InTurn`, `OwnBond` and `Answered` name the uses they are about
(`Patient`, `Orderly`, `Undirected`): outside of them the code does not keep
them, see *Findings* and *Observations*. `HeadServed` and `TypeOK` hold in all.

**Bounds.** `Half` is 5 or 6: with delays up to 2 and a lag of 1 every comparison of
two times in the list, including those across the wrap, occurs; the clock starts at every value.
`MaxLag = 1` lets a tick pass anywhere in the task's loop and before a daemon call.
`MaxPending` bounds the callers, not the scheduler: three listed events are the least
with an order of non-neighbours. One element more than `MaxPending` is the pool's
documented slack for the event being executed. Two keys and up to five indices let
every index be shared, freed and taken again by the other key. In `LockApp` a queue of
six with two places spare holds two changes of the buttons and both timers' events.
A page of two units holds a record with a value or two removals, so that best fit, waste
and a new sector all decide a write; two pages are as many as it takes for a record's
place to differ from its sector; 32 numbers are the fewest for which quarters, halves
and the spread differ by more than one. Four to six calls fill three sectors
twice over. Two links are the least with a queue behind its head, and every hazard
of the queue is between the head and one other; two connections let an id be freed and
taken by the other device while messages about it wait.

**Assumptions on the environment**, each named in its module: `DelaysFit` in `Sched` (callers stay
below half the range, which the comment in `Sched_RescheduleEvent` asks for);
`MayTick` (a runnable gpSched task blocks again, and the daemon makes its calls,
within `MaxLag`); `MayPut` in `Kvs` (what callers store); `Spare` and `Prompt` in `Lock`
(room in the queue for the timers' events; nobody is held up for the two seconds of a
movement with an action half done). Timers of the lock need not start: what holds only for those that do
says so (`noTimer`, `noFnTimer`). In `Nvm`, one caller at a time and one pool: calls and
events do not overlap. In `BleLinks`, a device connects on a freed connection id only once the
messages about that id have been handled (`Connects`): handlers are faster than the air. Links are
configured bondable, and a device that pairs asks for a bond and has none (`Pairs`): pairing without the bond flag, which
leaves no record, and a bonded device that pairs again on its encrypted connection (`app_slave.c`, lines 811-819)
are left out.

**Fairness.** `Sched`: the gpSched task and the timer daemon are FreeRTOS tasks that
are never suspended and have no unbounded competitor above them (weak fairness of
each), the ES timer fires, time passes. Callers, interrupts and the radio are not fair;
`EventsComplete` is about behaviours in which they eventually fall silent, since
callers that never stop can keep unscheduling. `Kvs`: the task holding the mutex
goes on. `Lock`: both tasks go on, the Matter task takes its events in order and a
movement timer that was started expires; nothing makes a start succeed (strong fairness of `RunLambda` and `MovementTimerExpires`, as
their guards are disabled by steps in between, while in the code neither a queue position nor
time is lost by those). `BleLinks`: events and messages that wait are handled (`Handlers`,
weak fairness of `RunEvent` and `HandleInd` with their guards written out), the controller
answers commands, and undirected and directed advertising time out (`advDuration`, the
1.28 s of the standard): weak fairness of each. Devices and the application owe nothing.

## Proofs

The modules with theorems prove, for any number of elements and callbacks, any range of the
clock, any length of the queues, any keys, versions and indices, any number of links, connections and devices
in any use, any range of sequence numbers, and any number and size of sectors, tokens and values of the log (*Hypotheses* says what is
asked of delays and uses):

| Theorem | Property | Argument |
|---|---|---|
| `TypeCorrect` | `TypeOK` | inductive as it stands, given lemmas on `InsertAt`, `RemoveAt` and `Reverse` |
| `NoLostWakeUp` | `WakeUpPending` | `WakeInv`, below |
| `NoLostInterrupt` | `InterruptsServed` | a conjunct of `WakeInv` |
| `PoolIsConserved` | `PoolConserved` | inductive together with the types: each action moves one element between the lists and the task's hands |
| `DeferralsAreServed` | `DeferralsServed` | by itself, when `PendLength >= QueueLength` |
| `ListIsSorted` | `ListSorted` | `TimeInv`, below |
| `DelaysAreKept` | deadline and intervals to come never stand for less than is left of the delay (`DueIsKept`) | `TimeInv` |
| `OverdueIsBounded` | `OverdueBounded` | `TimeInv` |
| `WakesUpInTime` | `WakeUpInTime` | `TimeInv` |
| `RunsNeverEarly` | `NeverEarly` | `TimeInv` |
| `NoAssertionFires` | `NoAssertion` of `Sched` | `AssertInv`: `TimeInv`, and no more outstanding than `MaxPending` |
| `SchedulerKeepsPromise` | `Promise` of `Sched`: it implements `SchedAbs` | `LateInv`, below, and the bag of requests by counts |
| `KvsTypeCorrect` | `TypeOK` of `Kvs` | `TypeInv`: the place fits the operation, and the indices gathered fit the value |
| `KeysHaveOneHead` | `OneHeadPerKey` | `HeadInv`, below |
| `ChecksClear` | `CheckClears` | what is left to remove is what nothing refers to |
| `ElementsStayConsistent` | `ElementsConsistent` | `ItsOwnInv`, below |
| `ChecksAssertNothing` | `NoAssertion` of `Kvs` | `ItsOwnInv` |
| `ChecksCompleteRemovals` | `RemovalsCompleted` | `ItsOwnInv`, and no head has the mark once the marks are gone through |
| `StoreKeepsPromise` | `Promise` of `Kvs`: it implements `KvsAbs` | `KeepInv`, below |
| `LockTypes` | `TypeOK` of `Lock` | inductive as it stands |
| `MovementsTakeTheirTime` | `MovementTakesItsTime` | `MoveInv`, below |
| `MovementsAreTimed` | `MovementTimed`, unless the last start of the timer failed | `MoveInv`, and who may stop the timer (`TimedBefore`) |
| `ResetsAreHeld` | `ResetOnlyHeld` | `ButtonInv`, below |
| `SelectionsEnd` | `SelectionEnds`: the button at rest has no timer and, unless the first timer of a selection failed to start, nothing selected | `ButtonInv` |
| `ButtonsKeepTheCluster` | `ButtonsKeepAttribute` | `ClusterInv`, below |
| `QueueNeverStalls` | `HeadServed` of `BleLinks` | `TurnInv`, below |
| `LinksTyped` | `Typed` of `BleLinks`, and nobody is in the queue twice | `TurnInv` |
| `BondsStayApart` | `OwnBond` of `BleLinks` | `BondInv`: `TurnInv` and `OwnInv`, below |
| `LinksTakeTurns` | `InTurn` of `BleLinks` | `FairInv`: `BondInv` and `LineInv`, below |
| `NewerAsTheFlashSays` | `Unmask` orders two records as `NotOlder` does | distances from the start of the window, below |
| `NextIsNewest`, `OldestIsFound` | what `NextSeq`, `LowestSeq` and `OldestSec` return | the same distances |
| `KeptAsRecomputed` | `Register` agrees with `ExtremesOf` | least and greatest element of a set with one more |
| `SpreadIsSharp` | one number further apart, and the order is wrong | the counterexample |
| `OrderIsRight` | `Unmask` orders as `NotOlder` exactly when the numbers are `Comparable` | where the halves and quarters put two numbers |
| `NvmInvariant` | `IInv`: stack, tables and flash fit | inductive, below |
| `NvmTypes` | `TypeOK` of `Nvm` | `IInv` |
| `NvmNames` | `NamesBounded` | `IInv` |
| `NvmTablesLoad` | the assertions of loading the tables never fail | `IInv` |
| `NvmDrops` | `DropsAreLast` | `IInv` and `Plain`, below |
| `NvmReads` | `ReadsStored`, while `NumbersComparable` | `OrdInv`, below |
| `NvmExtremes` | `ExtremesKept`, while `NumbersComparable` | `OrdInv` |
| `NvmKeepsPromise` | `Promise` of `Nvm`: it implements `NvmAbs`, for `Sure` uses and while `NumbersComparable` | `AbsInv`, below |

`WakeUpPending` is not inductive: whether the timer runs when the task blocks was
decided several steps before. `WakeInv` adds: what is raised is masked; a raised or
masked source has the task awake or notified; while `timerSet` holds, the timer is
armed or has fired and left a notification; a task that leaves the loop with an event
listed has the timer set or is notified; a task that waits without a notification
with an event listed has the timer armed. Each names the moment at which an
interleaving could break the chain.

`TimeInv` replaces the modular times by *leads*: how far the deadline of a waiting event lies
ahead of the clock, as a signed number. Every waiting event lies in a window: overdue by no
more than `MaxLag` plus what the task has been held up now (`lag`), and ahead by less than
half the range minus `2 * MaxLag`. In that window the comparisons of the code are those of the
leads (`OrderOfTimes`), wherever the clock wraps, so the list is in the order of leads; a tick
lowers all of them by one. The lower end of the window is the hard one: while the task is
blocked only the timer keeps events from becoming overdue, so the invariant also says that a
timer that is set follows the first deadline by no more than `MaxLag`
(`SetInTime`), that the distance read before arming is no longer than the first lead plus `lag`
(`ArmsInTime`), and that a blocked task with an event listed has the timer set. What is executed is due
(`ExecutesDue`), and what is left of a delay is covered by the lead and the intervals
to come. The properties of time are readings of this invariant.

`SchedulerKeepsPromise` adds the converse bound on delays (`NotLate`: the lead is not much more
than what is left of the delay, or the abstract deadline could pass while the event still
waits), and maps a state to the bag of requests that are listed, queued or in the task's hands. Bags are compared
by counts: each action says how often every request occurs in each of the three
places before and after (`ListsRequest`, `UnlistsRequest`, `QueueTail`, `QueueAppend`), from which it
is a `Request`, `Cancel`, `Run`, `Finish`, a tick or a stutter. Unlinking an event, the deferral by the daemon and the
next interval of a distant event are stutters: the request changes its place and is never missed or doubled.

`HeadInv` says why the index chosen at the start of `qvCHIP_KvsPut` may still be used
at its end: while a store is in progress the only head of its key is the one
it is going to write. `ItsOwnInv` follows the data elements: those that live heads name
exist and are named once, by one head; those that the operation in progress holds are apart
from all of them, except from the value it replaces, of which it keeps a prefix; a removal has taken those before its
place; only a reset leaves a mark. `KeepInv` adds that the pieces written so far are those of the new value, that
there is room for the rest where a store is not allowed to fail half way, and that until the step at which a
call takes effect the key reads as before it. That step is the head element for a store and a
removal's mark.

`MoveInv` says why an expiry in the queue is that of the movement in progress although
two tasks share the timer: a task is at work on an action only while no expiry is
queued, both can be at work only on the same one, the timer runs only for a movement or
a task about to begin it, and a queued expiry is the only one and has the bolt moving.
`ButtonInv` follows the releases through the queue: a timeout that found the button up
either has the last release before it in the queue, or comes when nothing is selected
any more; it needs the room in the queue that `PollGPIO` assumes. Neither property is
inductive: what a handler finds was decided by events posted several steps earlier.

`ClusterInv` is about a lock that no controller commands: then only the application task
initiates actions, the flag is set for a whole movement and until it is looked at, and
there is at most one lambda, which speaks of the place where the bolt rested last; as that place is
where the bolt is or comes from, `RunLambda` never takes it for a wish to move, and none is left over when the next movement ends.

`TurnInv` of `BleProofs` says whose turn it is. `HeadServed` alone is not inductive: a pop
brings a link to the head of which nothing is known. `TurnInv` adds that every link behind
the head waits, that the head waits, advertises or is about to stop, that nobody is in the queue
twice (or the link that a removal takes out would still be in it), and the types. The proof goes in two layers: each
operation of the queue (`Added`, `Dropped`, `Popped`) and each callback keeps `ServedBy`
with the kicks it lists; each row of the table then falls under a few kinds (it joins, pops,
leaves or does not touch the queue); `Follows` composes them in the order of the code, and
each handler is a composition of `SendEvent`s. It holds for every configuration of the
links, in every use, including those of `BleTwo`: the queue may run ahead, but never stops.

`OwnInv` of `BleProofs` is about a state and the messages under way, which handlers see steps
later. A link that holds a connection (`HeldBy`) is the only one, the database handle of that connection is nobody
else's, the connection has begun and either is not over or its end is still to be reported, and the link is on the side of new
devices as long as its device has no record or pairs. The hard parts are that an id is used again, and that
a bond goes to `lastNew`: `InOrderOf` says that a `ConnOpen` is the last message about its id, `LastNewHere` that
the link a `PairInd` will find is the one that holds its connection and that has no record yet, and `PairsHere` that this stays
so until `PairCmpl` is handled. Most of what a handler does is `Calm`: it leaves connections, handles and pairings alone, and
only the rows of the table that cross from one side to the other (`SideRow`) need an argument of their own.
The theorem is about uses without directed advertising and in which devices do not pair while another new one is
connected, which is what `OwnBond` says; in others the code does not keep it (*Observations*).

`LineInv` adds to both of them what the host stack still owes the link whose turn it is. The
queue pops when a link that advertises gets its outcome, and an outcome does not name a link: it is given to the one that
advertises, or that has the device's record, by the time it is handled. `InTurn` fails as soon as an outcome comes twice, or reaches a link that waits. `InLine` is the part about
the queue: a link that waits or advertises has a place, and what is listed is at most one kick, only while nobody
advertises. `OneOutcome` says that at most one `AdvStop` or `ConnOpen` is
under way, only when the controller has stopped, and that while one is under way or the
controller advertises some link advertises. `AllExpected` is about a `ConnOpen`: its device is that of the link that
advertises, or of no link by the time it is handled (its bond was not valid, and an end handled earlier drops it);
otherwise the module would tell a link that waits. `AllKept` is about ends: a connection known to the module and recorded
for a link is held by that link, so `ConnClose` reaches nobody who waits; the exception is
a device that connected while its link was about to be told that advertising had stopped.
`Strangers` says that a device that pairs is in no record, and has not
connected again on another id before the end of the connection on which it pairs is handled. A handler takes its message's part of this away
and restores it for the messages that wait (`HandleIndLine`); the controller's and the devices'
steps add a message (`ReportedFair`, `StrangersJoined`). The theorem is about
`Patient` uses, which is what `InTurn` says: `BleTwo` shows a use that is not, and the code does not keep turns there.

`NvmDataProofs` is, first, about a set of records whose numbers lie in a window, from any start `b` on
and possibly across the wrap. `UnmaskKeepsDistance` is its centre: if the window begins
in the upper quarter, records on both sides of the wrap make `Wrapping` true, and if not, the
window does not reach the wrap; either way unmasked numbers are as far apart as their
places in the window. The window may be `MaxSpread + 1` wide, one more than what
`Nvm_Pool_SeqNum_EvaluateSpread` lets pass without asking for relocation, and no wider
(`SpreadIsSharp`). `OrderIsRight` gives up the window: the comparison is right for exactly the sets
that are `Comparable`, no two numbers more than half the range apart, or all of them in the quarters
next to the wrap. `KeptAsRecomputed` needs that the new number is not one of the pool's, which `NextIsNewest`
gives. The rest is what recursive functions and folds of `Nvm` return: a walk over the pool is a
sequence of places without doubles (`Walks`), a table made along it has one item for each token,
at its newest record (`Lists`), and units used in a page add up. Each is an induction over the
place in the walk or the length of a page, carried out on a set of naturals without a least element,
as an induction theorem with an operator for the hypothesis is out of the provers' reach.

`IInv` of `NvmProofs` says which calls can be in progress (`Stands` has a disjunct for each shape of the
stack, from a single write to a record that is added by a relocation within a write) and what flash and tables owe each
other in each. While a call goes by the tables, `Kept`: no erase is announced; the map leads to the
sound sectors, except the one being opened (`TidyIn`); the table has one item for each token in
the pool, at a record of that token, and a reference count that is not too low (`ListsIn`); and names are counted. A relocation adds `Moves`: of the
items it has gone through, none is left in its sector, so that the erase that ends it takes
no last record away. A boot goes by the flash alone, so `Boots` says what a reset may leave: an announced erase is
finished before anything else is read, and a salvaged sector has the good records of the broken one in their order, as far
as the copy got, so that one more reset in the middle of it finds the same. None of the properties is inductive: that the table has room for a
token (`NamesBounded`) was decided when the write began, relocations and resets ago. With it the assertions of loading hold
for every instance. `NvmDrops` is about uses in which every call makes its table, where `Moves`
keeps reference counts exact until the items are handled, and about uses without removals, for which `Plain`
says that the flash has no removal records; in the remaining one the code does not keep it (`NvmStale`).

`OrdInv` of `NvmPromiseProofs` adds the order of the records. `Distinct`: two records of the flash with one number are the
same, a record and its salvaged copy. `OrderIn`: the extremes in RAM are those a walk would find, and no item leads
to a record that is older than another one of its token. It holds while the stack `Settles`, when no boot or erase is between
tables and flash; at the end of a boot the table is made from the flash by the same comparison. A new record is
numbered after all others (`NextIsNewest`), an erased sector had only records that a newer one supersedes or that were copied.
Both need that the comparison is right at every step, so the theorem has `[]NumbersComparable` as a hypothesis.

`NvmKeepsPromise` maps every step to one of `NvmAbs` or to none: a call begins (`Starts`), takes effect (`Takes`) with the
one write that stores its record or with the first mark of an erase, returns (`Ends`), is
cut off by a reset (`Cuts`), and all else `Stays`: relocation, opening a sector, salvage, loading. What has to be shown is
that what is stored does not change there, and that takes `AbsInv`. `DropIn`: an item that a relocation has passed and that
still leads to its sector is a removal, and no other sector has a record of its token, so that the erase of the sector at the
end changes nothing; and while a record is copied, it is the newest of its token. `WipeIn`: an erase of the pool
has marked the sectors it has passed, and once it erases, every sector with anything in it is marked, so that a reset in the
middle leaves an erase that a boot finishes. A copy has the newest number (`NextIsNewest`) and the value of the
one it is made from (`StoreValue`); a record cut short is not read; a salvaged sector has the records of the broken one.

**Hypotheses.** Every theorem assumes the named assumption on the types of its module's constants
(`SchedAssumption` and `HalfAssumption`, `KvsAssumption`, `LockAssumption`, `BleAssumption`, `SeqAssumption`,
`NvmAssumption`: a value is shorter than a page, and a log starts with one or two tokens that it has names for). Beyond
those:

* `DelaysFit` (`Sched`, theorems about time): delays plus two busy periods stay below half the
  range. It is what the comment in `Sched_RescheduleEvent` asks of callers; the code's
  range is 2^31 us, about 35 minutes, and `gpSched_ScheduleEventInSeconds` cuts longer delays into intervals below
  that. It leaves out `GP_SCHED_EVENT_TIME_NOW`, for which the code's own assertion fails, see *Observations*.
* `PoolSuffices` (`NoAssertionFires`, `SchedulerKeepsPromise`): callers leave one element for the event being executed;
  without it an assertion stops the system.
* `PendLength >= QueueLength` (`DeferralsAreServed`): 10 (`FreeRTOSConfig.h`,
  `configTIMER_QUEUE_LENGTH`) against 5 (`gpSched_il.c`, `SCHED_EVENT_QUEUE_LENGTH`).
* `[]NumbersComparable` (`NvmReads`, `NvmExtremes`, `NvmKeepsPromise`): the exact condition under which the code's
  comparison is right (`OrderIsRight`). The code does not guarantee it, see *Observations*. The uses of
  `NvmLog` meet it, `WrapUse` with numbers that start over.
* `Sure` (`NvmKeepsPromise`): a use makes its table for every call or has no removals (`NvmStale` shows why), and it
  has one reset at most where the pool is erased, as a second one can leave a pool that is erased in part, see
  *Observations*. Without erases there may be any number of resets. Every use of `NvmLog` is sure.
* `SafeRemovals` (`Kvs`, data elements): removals are interrupted by resets only where values
  fit in the head, or where nothing else goes wrong and nobody checks. `SafeStores` (`StoreKeepsPromise`):
  values with data elements are overwritten only with room, and without failures, resets and
  short values. `MarksZero` (`ChecksCompleteRemovals`): the undefined copy leaves zeroes. The code
  breaks the properties outside of these (`KvsShrink`, *Observations*). `KvsTypeCorrect`,
  `KeysHaveOneHead` and `ChecksClear` need none of them.

TLC evaluates the first two for its instances of `Sched` and those of `Kvs` for every use of the passing
runs (`MCAssumption`, `MCKvsAssumption`), so no theorem is about nothing. `SeqLemmas` holds the facts about sequences
that the steps cite.

**Checked by TLC only.** Of `Nvm`: that there is always a sector to relocate into (the part of `NoAssertion`
that is about space) and that relocation ends (`RelocationsEnd`), both of which
depend on how full a use is; and that space is counted (`SpaceCounted`). The bounds in the `TypeOK` of `BleLinks`, which only hold for the
uses checked (`LinksTyped` proves the types). Out of
the prover's reach: liveness under fairness (`EventsComplete`, `OperationsEnd`, `ActionsComplete`,
`Answered`), ENABLED, and induction theorems with an operator for the hypothesis.

## Findings

The four violated runs with their quotes are in `PROJECT.json`. In short:

* `KvsShrink`: indices of the old data elements survive a store of a short value.
* `LockSync`: clearing `mSyncClusterToButtonAction` after scheduling the update loses
  the flag that another task has set meanwhile.
* `NvmStale`: the number of sectors that hold a token is counted when a table is made and
  never updated; on K8E the table of all tokens lives as long as the program, so relocation
  drops a removal while an older value is in another sector, and the value is back after the
  next `Nvm_Reset`.
* `BleTwo`: a link closed while it waits leaves its kick behind; asked for again it has two,
  and the second one ends in popping the link that advertises.

Observations without a run:

* `gpSched_ScheduleEvent(GP_SCHED_EVENT_TIME_NOW, ...)` fails the assertion at line 170 of
  `gpSched_integration_calls_patch.c` whenever another event is listed, although
  lines 139 to 156 compute a time for it.
* `gpSched_GetRemainingTimeArgInSecAndUs` reads the element at line 487 after it has released
  the list: the answer can be that of another event that took the element.
* A store over an existing value writes into data elements that the old head still refers
  to (`qvCHIP_KVS.c:1036`): a reset in between leaves a mix of the two values.
* After a reset in a removal with data elements the check's own removal stops at the first
  element that is gone (`qvCHIP_KVS.c:713`), and the scan that follows asserts (line 923).
* `qvCHIP_KvsGet` zeroes `offsetBytes` before it computes the number of bytes read from it
  (`qvCHIP_KVS.c:655`); the header says that offsets are not implemented.
* `Sched_ReleaseEvent` takes the free list's FreeRTOS mutex with interrupts disabled
  (`gpSched_integration_calls_patch.c:124`); `Sched` gives those critical sections no duration.
* With a full interrupt queue `gpSched_ScheduleEventDeferred` drops the event and tells
  nobody (`gpSched_il.c:277`).
* While a distant event is between two intervals (`gpSched_integration_calls_patch.c`, lines 782 to 790),
  `gpSched_ExistsEventArg` returns false for it and `gpSched_UnscheduleEventArg` does not find it.
* If the copy from NULL at `qvCHIP_KVS.c:389` leaves anything but zeroes, the check never
  completes the removal that was marked so.
* Nothing in the repository calls `qvCHIP_KvsConsistencyCheck`: without it, data elements
  that an interrupted store leaves keep their indices.
* In the lock a start of the movement timer that fails is only logged (`BoltLockManager.cpp:274`), and the bolt is
  set moving all the same (line 252; line 251 says "Since the timer started successfully"): nothing ends the movement, and
  every later action is refused. When the function button's timer does not start (`AppTask.cpp:479`)
  its callers select the function without it (line 410), and no press or release changes that any more. Both failures
  are branches of the model (`StartTimer`, `StartFnTimer`); `ActionsComplete` and `SelectionEnds` hold but for them, which
  `MovementsAreTimed` and `SelectionsEnd` prove to be the only way into these states.
* In the lock, a change of one button while `SW4` is held is a second press of `SW4`; a
  full event queue loses the end of a movement, after which every action is refused; a
  Matter task that runs a lambda later than the next movement moves the bolt back.
* gpNvm: with no sector free, two resets can leave two broken sectors, and every boot then
  fails the assertion at line 1022. Urgent defragmentation takes the first sector with anything
  to reclaim, not the one with the most (lines 1627-1634). In `Nvm_Pool_ReclaimNamespaceSpace`
  the sector to skip is not reset between tokens. A write that fails after line 4471 leaves
  the count of tokens one too high until the next reset. Scheduled relocation and
  defragmentation take neither of the two mutexes of `gpNvm_NvmProtect.c`, which differ for
  the two interfaces.
* gpNvm: the event that keeps the numbers of records within a quarter of their range (line 1406, delay 0) is not waited
  for. With the oldest number at 24575, one below what line 1321 takes for the last quarter, and the newest at 32766,
  a write takes 32767 and schedules the event, and a second one before it runs takes 0: the numbers then do not count as
  wrapping, and the newest record counts as older than that at 24575 (`SpreadIsSharp` proves it for every range of
  numbers). Until the oldest records are gone a table made from the flash leads to the old value. The copies of a
  relocation take numbers too, so an event that runs at once can still be late.
* gpNvm: the erase of a pool marks its sectors one by one (`Nvm_Pool_SetErasePending`, lines 4876-4894) before it erases them. A reset
  before the last mark leaves some sectors unmarked; the boot finds a mark and erases the pool from the first sector on
  (lines 4864-4874, 4939-4955) without marking the others; a second reset after the marked ones are gone leaves the
  records of the others, and nothing says that an erase was under way. The pool is then erased in part, which is why `EraseUse` has
  one reset.
* BLE: an unknown device that connects to a link that reconnects is not dropped, although
  `BleModule_Peripheral.c:1811` says so: nothing closes the connection, and as it counts in
  `appNumConns`, later advertising can be refused without a message. A link that aborts its
  reconnection while its own device connects waits for ever for `DM_ADV_STOP_IND`, and the
  queue with it. `AppAdvStop` has no effect while advertising is being started, nor
  has a start while it is being stopped. With two new devices connected at once the bond goes to the
  link of the one that connected last. With `EncryptedOnly`, a close in
  `BondedConnectedNoSecurity` makes the link idle while its connection still closes.
  Without it that state takes any event at all for security established. A waiting link
  whose queue entry was popped for another one waits for ever.

## Not modelled

Auto re-lock (nothing calls `EnableAutoRelock`), users, credentials and LEDs of the
lock; the TERMINATE signal and idle callbacks of the scheduler; failing reads and removals, hashing
and offset reads of the KVS; in gpNvm broken sectors and verification failures, several pools,
redundant sectors, iteration by mask, the element interface's tags and mutexes (a header and an erasure are atomic,
a record is whole or cut short); in BLE the resolution of private addresses (`app_slave.c`,
lines 368-385 and 596-670), the delayed security request (it changes no state here), parameters,
services and several advertising sets; everything whose row in `PROJECT.json` says
`not_modelled`, with the reason there.

The modules map a small part of the tree's lines, and must: most of the lines are register
headers (`gpHal_kx_regprop.h` and its like: over 100 000), generated tables per product
(`gen/`), headers, vendored code (mbedtls, Cordio), and drivers whose effect is in hardware. What
carries the program's own protocol logic is a few tens of thousands of lines.

## Plan

In order of what matters to the system:

1. *Done*: `Sched` with `SchedAbs`, its proofs; `Kvs` with `KvsAbs`; `Lock`, its proofs;
   `Nvm` with `NvmAbs`; `BleLinks` on `BleStm`, its proofs.
2. The LLCP procedure queue with its collisions and response timeout; the BLE deferral task.
3. `LinkList`: the pointers of `gpUtils_LL`, refining the sequences of `Sched`; the
   circular buffer of `gpUtils_CircB` against a sequence; the LED of `qvIO` on `SchedAbs`.
4. The upgrade of the image across resets; the sleep decision; the power-cycle counter on `Kvs`.

The runs are kept to one per question; a new module takes its questions into a run of
its own.
