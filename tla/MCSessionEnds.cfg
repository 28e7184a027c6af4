\* Who ends a recoverable session: a write, a command that may submit, and one
\* failure of a checkpoint, a request or the container; no crash.
CONSTANTS
  None = None
  w1 = w1
  s1 = s1
  e1 = e1
  e2 = e2
  Writes <- MCWrites
  Submits <- MCNone
  Execs <- MCOneExec
  Recoverable = TRUE
  MaxSubmissions = 1
  MaxCrashes = 0
  MaxFaults = 1
SPECIFICATION Spec
PROPERTIES SessionEnds WorkEnds
CHECK_DEADLOCK FALSE
