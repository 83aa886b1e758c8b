SPECIFICATION Spec
CONSTANTS
  e1 = e1
  e2 = e2
  e3 = e3
  e4 = e4
  c1 = c1
  c2 = c2
  a1 = a1
  Elem = {e1, e2, e3, e4}
  NoElem = NoElem
  Callbacks = {c1}
  Args = {NoArg}
  NoArg = NoArg
  Half = 5
  RelTimes = {0, 1}
  Seconds = {}
  Interval = 2
  QueueLength = 0
  PendLength = 0
  MaxLag = 1
  MaxPending = 3
  Cancels = TRUE
  MaxQueries = 1
SYMMETRY MCSymmetry
INVARIANTS TypeOK PoolConserved ListSorted NoAssertion WakeUpPending WakeUpInTime InterruptsServed
PROPERTIES NeverEarly
