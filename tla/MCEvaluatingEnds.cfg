\* A session that is closed, and a crash before its run has finished.
CONSTANTS
  None = None
  w1 = w1
  s1 = s1
  e1 = e1
  e2 = e2
  Writes <- MCNone
  Submits <- MCNone
  Execs <- MCOneExec
  Recoverable = TRUE
  MaxSubmissions = 1
  MaxCrashes = 1
  MaxFaults = 0
SPECIFICATION Spec
PROPERTY EvaluatingEnds
CHECK_DEADLOCK FALSE
