\* A remote condition with one slot: a replacement that was cut off, an explicit
\* collection, and the replacement once more.
CONSTANTS
  Schedule <- MCOneSlot
  Concurrency = 1
  Remote = TRUE
  Workers <- MCWorkers
  Pasts <- MCPasts
  MaxRuns = 2
  MaxCollects = 1
  MaxCrashes = 1
SPECIFICATION Spec
PROPERTIES FinishedNotReplaced
CHECK_DEADLOCK FALSE
