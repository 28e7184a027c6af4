---------------------------- MODULE SessionBudget ----------------------------
(***************************************************************************)
(* The budget of one session (benchmarking/execution/budgets.py, class     *)
(* SessionBudget): a solve deadline that never moves, at most one active   *)
(* operation with an optional deadline of its own, and a settlement        *)
(* allowance counted from the later of the two.                            *)
(*                                                                         *)
(* The object has no lock.  The threads that begin and end operations (the *)
(* request handlers with their collectors, and process checks) and the     *)
(* thread that polls the phase interleave between any two accesses of its  *)
(* fields, so each access is an action of its own.  A read of the clock is *)
(* placed anywhere between the accesses before and after it.               *)
(***************************************************************************)
EXTENDS Integers

CONSTANTS
  SolveDeadline,      \* solve_deadline
  SettlementSeconds,  \* limits.settlement_seconds
  CommandSeconds,     \* limits.command_seconds, or None for no cap
  Requests,           \* the timeouts callers ask for, None among them
  Callers,            \* threads that begin and end operations
  MaxTime,            \* bound on the clock
  None                \* Python's None

ASSUME BudgetAssumption ==
  /\ None \notin Int
  /\ SolveDeadline \in Nat \ {0}
  /\ SettlementSeconds \in Nat
  /\ CommandSeconds \in (Nat \ {0}) \cup {None}
  /\ Requests \subseteq (Nat \ {0}) \cup {None}
  /\ MaxTime \in Nat

VARIABLES
  now,                \* clock()
  operationDeadline,  \* operation_deadline
  operationEnded,     \* operation_ended
  operationActive,    \* operation_active
  caller,             \* caller -> where it is, and the time of its last access
  reader,             \* the polling thread: where it is, the time it read and
                      \* whether a method of another ran beside its read
  told,               \* the phase the last poll returned, or "error"
  astray              \* history: two operations began at once, or the solve
                      \* deadline passed within the checks of one

fields == <<operationDeadline, operationEnded, operationActive>>
vars == <<now, fields, caller, reader, told, astray>>

Phases == {"solving", "draining", "settling", "expired"}
BeginSteps == {"asked", "claimed", "dated", "cleared"}
EndSteps == {"ending", "bounded", "unbounded", "recorded", "forgotten"}
ReadSteps == {"active", "limit", "compare", "settle", "unknown", "end", "deadline", "ended"}

TypeOK ==
  /\ now \in Nat
  /\ operationDeadline \in Nat \cup {None}
  /\ operationEnded \in Nat \cup {None}
  /\ operationActive \in BOOLEAN
  /\ caller \in [Callers -> [pc: {"idle", "working"} \cup BeginSteps \cup EndSteps, since: Nat]]
  /\ reader \in [pc: {"idle"} \cup ReadSteps, at: Nat, raced: BOOLEAN]
  /\ told \in Phases \cup {"error"}
  /\ astray \in BOOLEAN

-----------------------------------------------------------------------------
Larger(a, b) == IF a >= b THEN a ELSE b
Smaller(a, b) == IF a <= b THEN a ELSE b

\* command_timeout: the smaller of the finite allowances, None without any.
CommandTimeout(requested) ==
  IF requested = None THEN CommandSeconds
  ELSE IF CommandSeconds = None THEN requested
  ELSE Smaller(requested, CommandSeconds)

Init ==
  /\ now = 0
  /\ operationDeadline = None /\ operationEnded = None /\ operationActive = FALSE
  /\ caller = [c \in Callers |-> [pc |-> "idle", since |-> 0]]
  /\ reader = [pc |-> "idle", at |-> 0, raced |-> FALSE]
  /\ told = "solving"
  /\ astray = FALSE

-----------------------------------------------------------------------------
(* A method of a caller: each step is one access of a field.               *)

\* The places from which the next access reads the clock too.
Timing == {"claimed", "bounded", "unbounded"}

Moves(c, from, to) ==
  /\ caller[c].pc = from
  /\ caller' = [caller EXCEPT ![c] = [pc |-> to, since |-> IF to \in Timing THEN now ELSE 0]]
  /\ reader' = [reader EXCEPT !.raced = reader.pc # "idle"]
  /\ UNCHANGED <<now, told>>

\* What clock() may return between the last access and the next.
Since(c) == caller[c].since .. now

\* An operation occupies the budget from its checks until its end is recorded.
Busy(c) == caller[c].pc \in {"claimed", "dated", "cleared", "working", "ending", "bounded", "unbounded"}
Engaged(c) == Busy(c) \/ caller[c].pc \in {"recorded", "forgotten"}

\* begin_operation: the phase is solving, or it raises TimeoutError.
Ask(c) ==
  /\ now < SolveDeadline
  /\ Moves(c, "idle", "asked")
  /\ UNCHANGED <<fields, astray>>

\* Mutant: begin_operation without its check for an active operation.
ClaimAnyway(c) ==
  /\ Moves(c, "asked", "claimed")
  /\ UNCHANGED <<fields, astray>>

\* No operation is active, or it raises RuntimeError.
Claim(c) ==
  /\ Moves(c, "asked", IF operationActive THEN "idle" ELSE "claimed")
  /\ astray' = (astray \/ (~operationActive /\ (now >= SolveDeadline \/ \E d \in Callers \ {c}: Engaged(d))))
  /\ UNCHANGED fields

SetDeadline(c) ==
  /\ Moves(c, "claimed", "dated")
  /\ \E requested \in Requests, clock \in Since(c):
       operationDeadline' = IF CommandTimeout(requested) = None THEN None
                            ELSE clock + CommandTimeout(requested)
  /\ UNCHANGED <<operationEnded, operationActive, astray>>

ClearEnded(c) ==
  /\ Moves(c, "dated", "cleared")
  /\ operationEnded' = None
  /\ UNCHANGED <<operationDeadline, operationActive, astray>>

Activate(c) ==
  /\ Moves(c, "cleared", "working")
  /\ operationActive' = TRUE
  /\ UNCHANGED <<operationDeadline, operationEnded, astray>>

\* end_operation: nothing to do when another caller ended the operation.
Finish(c) ==
  /\ Moves(c, "working", IF operationActive THEN "ending" ELSE "idle")
  /\ UNCHANGED <<fields, astray>>

TestDeadline(c) ==
  /\ Moves(c, "ending", IF operationDeadline # None THEN "bounded" ELSE "unbounded")
  /\ UNCHANGED <<fields, astray>>

\* Mutant: an operation ends whenever its end is noticed.
RecordObserved(c) ==
  /\ \E pc \in {"bounded", "unbounded"}: Moves(c, pc, "recorded")
  /\ operationEnded' \in Since(c)
  /\ UNCHANGED <<operationDeadline, operationActive, astray>>

\* Mutant: the time left is recorded in place of the time of the end.
RecordRemainder(c) ==
  /\ \E pc \in {"bounded", "unbounded"}: Moves(c, pc, "recorded")
  /\ \E clock \in Since(c):
       operationEnded' = IF operationDeadline = None THEN clock ELSE operationDeadline - clock
  /\ UNCHANGED <<operationDeadline, operationActive, astray>>

\* An operation found late ended at its own deadline.  min() raises a
\* TypeError when another caller has cleared that since the test.
Record(c) ==
  /\ \/ /\ Moves(c, "unbounded", "recorded") /\ operationEnded' \in Since(c)
     \/ /\ operationDeadline # None /\ Moves(c, "bounded", "recorded")
        /\ \E clock \in Since(c): operationEnded' = Smaller(clock, operationDeadline)
     \/ operationDeadline = None /\ Moves(c, "bounded", "idle") /\ UNCHANGED operationEnded
  /\ UNCHANGED <<operationDeadline, operationActive, astray>>

Forget(c) ==
  /\ Moves(c, "recorded", "forgotten")
  /\ operationDeadline' = None
  /\ UNCHANGED <<operationEnded, operationActive, astray>>

Release(c) ==
  /\ Moves(c, "forgotten", "idle")
  /\ operationActive' = FALSE
  /\ UNCHANGED <<operationDeadline, operationEnded, astray>>

-----------------------------------------------------------------------------
(* A poll of phase, and in it of settlement_deadline, access by access.    *)

Reads(from, to) ==
  /\ reader.pc = from /\ reader' = [reader EXCEPT !.pc = to]
  /\ UNCHANGED <<now, fields, caller, told, astray>>
Tells(from, phase) ==
  /\ reader.pc = from /\ reader' = [pc |-> "idle", at |-> 0, raced |-> FALSE]
  /\ told' = phase
  /\ UNCHANGED <<now, fields, caller, astray>>

\* The clock is read once; before the solve deadline nothing else is.
Poll ==
  /\ reader.pc = "idle"
  /\ IF now < SolveDeadline THEN told' = "solving" /\ UNCHANGED reader
     ELSE /\ reader' = [pc |-> "active", at |-> now,
                        raced |-> \E c \in Callers: caller[c].pc \notin {"idle", "working"}]
          /\ UNCHANGED told
  /\ UNCHANGED <<now, fields, caller, astray>>

PollActive == Reads("active", IF operationActive THEN "limit" ELSE "settle")
PollLimit == IF operationDeadline = None THEN Tells("limit", "draining") ELSE Reads("limit", "compare")

\* Mutant: an operation past its deadline still drains.
PollCompareStuck == Tells("compare", "draining")

\* A number is not comparable with the None of an operation that ended since.
PollCompare ==
  IF operationDeadline = None THEN Tells("compare", "error")
  ELSE IF reader.at < operationDeadline THEN Tells("compare", "draining")
  ELSE Reads("compare", "settle")

\* settlement_deadline is None while an operation may run without limit.
PollSettlement ==
  \/ Reads("settle", IF operationActive THEN "unknown" ELSE "end")
  \/ IF operationDeadline = None THEN Tells("unknown", "error") ELSE Reads("unknown", "end")
PollEnd == Reads("end", IF operationDeadline # None THEN "deadline" ELSE "ended")

EndOrDeadline(end) == IF end = None THEN SolveDeadline ELSE end
\* Mutant: a short operation's end stands in for the solve deadline.
AllowanceEarly(end) == EndOrDeadline(end) + SettlementSeconds
Allowance(end) == Larger(SolveDeadline, EndOrDeadline(end)) + SettlementSeconds
Decide ==
  \E field \in {"deadline", "ended"}:
    LET end == IF field = "deadline" THEN operationDeadline ELSE operationEnded IN
    Tells(field, IF reader.at < Allowance(end) THEN "settling" ELSE "expired")

-----------------------------------------------------------------------------
\* time.monotonic() advances.
Tick ==
  /\ now < MaxTime
  /\ now' = now + 1
  /\ UNCHANGED <<fields, caller, reader, told, astray>>

Begins(c) == Claim(c) \/ SetDeadline(c) \/ ClearEnded(c) \/ Activate(c)
Ends(c) == TestDeadline(c) \/ Record(c) \/ Forget(c) \/ Release(c)
Polls == PollActive \/ PollLimit \/ PollCompare \/ PollSettlement \/ PollEnd \/ Decide

Next ==
  \/ \E c \in Callers: Ask(c) \/ Begins(c) \/ Finish(c) \/ Ends(c)
  \/ Poll \/ Polls
  \/ Tick

\* The clock and the threads go on; nothing obliges an operation to end.
Spec ==
  /\ Init /\ [][Next]_vars
  /\ WF_vars(Tick) /\ WF_vars(Poll \/ Polls)
  /\ \A c \in Callers: WF_vars(Begins(c) \/ Ends(c))

-----------------------------------------------------------------------------
(* What the budget stands for.  An operation holds it from the moment its  *)
(* checks have passed until the moment its end is on record.               *)

Active == \E c \in Callers: Busy(c)
SettlementDeadline ==
  IF Active /\ operationDeadline = None THEN None
  ELSE Allowance(IF Active THEN operationDeadline ELSE operationEnded)
PhaseAt(t) ==
  IF t < SolveDeadline THEN "solving"
  ELSE IF Active /\ (operationDeadline = None \/ t < operationDeadline) THEN "draining"
  ELSE IF t < SettlementDeadline THEN "settling"
  ELSE "expired"
Phase == PhaseAt(now)

Ladder == INSTANCE BudgetPhases WITH phase <- Phase, active <- Active

\* What the budget stands for climbs the phase ladder: no step of a method, no
\* completed and no late operation lets a session fall back to an earlier
\* phase, and no operation starts out of turn.  That holds until two operations
\* have begun at once or one has begun across the solve deadline.
ImplementsLadder == Ladder!Init /\ [][astray' \/ Ladder!Next]_<<Phase, Active>>

\* Once solving is over a known settlement deadline is never pushed back and
\* never forgotten ("neither polls nor completed work renew a budget",
\* budgets.py:51), whichever step of a method is taken; with the same exception.
NoRenewal ==
  [][Phase # "solving" /\ SettlementDeadline # None /\ ~astray' =>
       SettlementDeadline' # None /\ SettlementDeadline' <= SettlementDeadline]_vars

\* Whatever runs beside it, no poll tells of an expiry before the allowance
\* after the solve deadline is used up; and one that no method runs beside tells
\* the phase the session was in when it read the clock, so it never fails, and
\* leaves the last operation its allowance in full (budgets.py:77-91).
Told == reader.pc # "idle" /\ reader'.pc = "idle"
PollsHonest ==
  [][Told =>
       /\ told' = "expired" => reader.at >= SolveDeadline + SettlementSeconds
       /\ ~reader.raced /\ ~astray => told' = PhaseAt(reader.at)]_vars

\* A poll tells of the expiry at last, unless an unlimited operation keeps it
\* from doing so (or ends too late for its settlement to fit below MaxTime).
Expires ==
  \/ <>(told = "expired")
  \/ <>[](operationActive /\ operationDeadline = None)
  \/ <>[](Allowance(IF operationDeadline # None THEN operationDeadline ELSE operationEnded) > MaxTime)
=============================================================================
