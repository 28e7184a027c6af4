\* A session without checkpoints, with two commands whose collectors overlap
\* and one crash, after which it can only be interrupted.
CONSTANTS
  None = None
  w1 = w1
  s1 = s1
  e1 = e1
  e2 = e2
  Writes <- MCWrites
  Submits <- MCNone
  Execs <- MCExecs
  Recoverable = FALSE
  MaxSubmissions = 1
  MaxCrashes = 1
  MaxFaults = 0
SPECIFICATION Spec
PROPERTIES SessionEnds
CHECK_DEADLOCK FALSE
