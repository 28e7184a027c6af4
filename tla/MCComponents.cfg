\* Two connections and three calls under a limit of one token; two attempts of a
\* tool and two failing docker commands; three process numbers and four starts;
\* two attempts at four logins; three session files and three launches.
CONSTANTS
  None = None
  Threads = {t1, t2}
  Limit <- GatewayLimit
  MaxRequests = 2
  Replies <- GatewayReplies
  MaxCalls = 3
  MaxUnrecorded = 1
  Plans <- MCPlans
  Raw <- MCRaw
  Capacity <- MCCapacity
  MaxAttempts = 2
  Markers = {"transient", "permanent", "crash"}
  MaxFaults = 2
  Pids = {1, 2, 3}
  Owner = 1
  Stopper = 0
  MaxStarts = 4
  Attempts = {"a", "b"}
  MaxLogins = 4
  MaxFiles = 3
  MaxLaunches = 3
SPECIFICATION Spec
INVARIANTS VerdictsHold ExecutionHolds
PROPERTY InferenceHolds
CHECK_DEADLOCK FALSE
