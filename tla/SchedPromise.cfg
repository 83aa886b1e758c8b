SPECIFICATION Spec
CONSTANTS
  e1 = e1
  e2 = e2
  e3 = e3
  e4 = e4
  c1 = c1
  c2 = c2
  a1 = a1
  Elem = {e1, e2, e3}
  NoElem = NoElem
  Callbacks = {c1}
  Args = {NoArg}
  NoArg = NoArg
  Half = 6
  RelTimes = {0}
  Seconds = {3}
  Interval = 2
  QueueLength = 2
  PendLength = 2
  MaxLag = 1
  MaxPending = 2
  Cancels = FALSE
  MaxQueries = 0
SYMMETRY MCSymmetry
INVARIANTS OverdueBounded DeferralsServed
PROPERTIES Promise
