SPECIFICATION Spec
CONSTANTS
    Tries = 2
    MaxSessions = 2
    Configs <- MCConfigs
    Resumes <- MCResumes
    Exits = {"none", "overloaded", "other"}
    MaxSubs = 1
    MaxStarts = 2
    MaxFaults = 1
    MaxCrashes = 1
CHECK_DEADLOCK FALSE
INVARIANTS CreationHonest TracesKept SettlementFinal ReceiptCurrent
PROPERTIES AttemptEnds
