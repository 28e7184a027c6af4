\* A recoverable session: a command, a write, a submission and one from the
\* command itself, one crash and one fault, so that every retry has a first
\* attempt to repeat and every thread can be cut off between its steps.
CONSTANTS
  None = None
  w1 = w1
  s1 = s1
  e1 = e1
  e2 = e2
  Writes <- MCWrites
  Submits <- MCSubmits
  Execs <- MCOneExec
  Recoverable = TRUE
  MaxSubmissions = 2
  MaxCrashes = 1
  MaxFaults = 1
SPECIFICATION Spec
INVARIANTS
  TypeOK AckedWriteSurvives EffectsOnce OneReceiptPerKey SelectionJudged
  CollectorNeverRefused VisibleIsSaved SnapshotMatchesRecord RolledBackLeavesNothing ResultStable
CHECK_DEADLOCK FALSE
