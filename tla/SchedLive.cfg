SPECIFICATION MCFairSpec
CONSTANTS
  e1 = e1
  e2 = e2
  e3 = e3
  e4 = e4
  c1 = c1
  c2 = c2
  a1 = a1
  Elem = {e1, e2, e3}
  NoElem = NoElem
  Callbacks = {c1}
  Args = {NoArg}
  NoArg = NoArg
  Half = 5
  RelTimes = {1}
  Seconds = {}
  Interval = 2
  QueueLength = 1
  PendLength = 1
  MaxLag = 1
  MaxPending = 2
  Cancels = TRUE
  MaxQueries = 0
PROPERTIES EventsComplete
CHECK_DEADLOCK FALSE
