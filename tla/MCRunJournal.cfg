\* Four events, so that a torn line, its recovery and a repeated number fit;
\* two crashes, so that a salvage can be cut off itself, and one failed write.
CONSTANTS
  None = None
  Keys = {k1}
  Contents = {c1}
  MaxEvents = 4
  MaxOpinions = 1
  MaxCrashes = 2
  MaxFaults = 1
SPECIFICATION Spec
INVARIANTS TypeOK EvidenceKept SealBindsJournal PublishedIsJournalled NumbersNotReused
PROPERTIES ImplementsLog TailArchived
CHECK_DEADLOCK FALSE
