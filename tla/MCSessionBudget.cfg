\* One session: solve until 1, settle for 1, operations that ask for 2 or for no
\* limit; a request handler and a process check.
CONSTANTS
  None = None
  SolveDeadline = 1
  SettlementSeconds = 1
  CommandSeconds = None
  Requests = {2, None}
  Callers = {handler, check}
  MaxTime = 4
SPECIFICATION Spec
INVARIANTS TypeOK
PROPERTIES ImplementsLadder NoRenewal PollsHonest Expires
CHECK_DEADLOCK FALSE
