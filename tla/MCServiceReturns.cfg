\* A crash once the run has stopped, or the budget has expired.
CONSTANTS
  None = None
  w1 = w1
  s1 = s1
  e1 = e1
  e2 = e2
  Writes <- MCNone
  Submits <- MCNone
  Execs <- MCOneExec
  Recoverable = TRUE
  MaxSubmissions = 1
  MaxCrashes = 1
  MaxFaults = 0
SPECIFICATION Spec
PROPERTY ServiceReturns
CHECK_DEADLOCK FALSE
