\* Two repetitions under one lease, new or already replaced once; the scheduler
\* is started twice, a collector once, and one process dies.
CONSTANTS
  Schedule <- MCSchedule
  Concurrency = 2
  Remote = FALSE
  Workers <- MCWorkers
  Pasts <- MCPasts
  MaxRuns = 2
  MaxCollects = 1
  MaxCrashes = 1
SPECIFICATION Spec
INVARIANTS OneOwner EvidenceKept
PROPERTIES FinishedStays BatchEnds
CHECK_DEADLOCK FALSE
