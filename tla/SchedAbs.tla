------------------------------ MODULE SchedAbs ------------------------------
(***************************************************************************)
(* What gpSched promises to its callers, without list, pool, timer, queue  *)
(* or task: every request is executed exactly once unless it is cancelled, *)
(* one callback at a time, not before its delay has elapsed and not more   *)
(* than MaxLate later.                                                     *)
(***************************************************************************)
EXTENDS Integers, Bags

CONSTANTS
  Callbacks, Args,
  Delays,    \* delays that callers ask for
  MaxLate,   \* how late the latest execution is
  Cancels,   \* callers may cancel
  None       \* no callback is running

VARIABLES
  pending,   \* bag of requests; left counts down to their execution
  running    \* callback being executed

absVars == <<pending, running>>

Requests == [cb : Callbacks, arg : Args, left : Int]

AbsInit == pending = EmptyBag /\ running = None

Request(cb, arg, d) ==
  /\ pending' = pending (+) SetToBag({[cb |-> cb, arg |-> arg, left |-> d]})
  /\ UNCHANGED running

Run(r) ==
  /\ running = None
  /\ r.left <= 0
  /\ pending' = pending (-) SetToBag({r})
  /\ running' = <<r.cb, r.arg>>

Finish ==
  /\ running # None
  /\ running' = None
  /\ UNCHANGED pending

(* One request or, by gpSched_Clear, many.                                 *)
Cancel ==
  /\ Cancels
  /\ pending' \sqsubseteq pending
  /\ UNCHANGED running

Aged(r) == [r EXCEPT !.left = @ - 1]

AbsTick ==
  /\ \A r \in DOMAIN pending : r.left > - MaxLate
  /\ pending' = [q \in {Aged(r) : r \in DOMAIN pending} |->
                   pending[[q EXCEPT !.left = @ + 1]]]
  /\ UNCHANGED running

AbsNext ==
  \/ \E cb \in Callbacks, arg \in Args, d \in Delays : Request(cb, arg, d)
  \/ \E r \in DOMAIN pending : Run(r)
  \/ Finish
  \/ Cancel
  \/ AbsTick

AbsSpec == AbsInit /\ [][AbsNext]_absVars
=============================================================================
