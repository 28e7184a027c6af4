------------------------- MODULE SessionBudgetProofs -------------------------
(***************************************************************************)
(* Proofs about SessionBudget for every deadline, allowance, set of        *)
(* requested timeouts and set of threads: what a poll may tell, and that   *)
(* what the budget stands for is never renewed and climbs the phase ladder *)
(* of BudgetPhases, until two operations begin at once or one begins       *)
(* across the solve deadline.                                              *)
(***************************************************************************)
EXTENDS SessionBudget, TLAPS

\* No operation but the one of c holds the fields.
Single == \A c, d \in Callers: Engaged(c) /\ Engaged(d) => c = d

\* The fields while nobody holds them, and while c does, at each of its steps.
AtRest ==
  /\ ~operationActive /\ operationDeadline = None
  /\ operationEnded # None => operationEnded <= now
Held(c) ==
  LET pc == caller[c].pc IN
  /\ operationActive <=> pc \notin {"claimed", "dated", "cleared"}
  /\ pc \in {"claimed", "unbounded", "forgotten"} => operationDeadline = None
  /\ pc = "bounded" => operationDeadline # None
  /\ pc \in {"cleared", "working", "ending", "bounded", "unbounded"} => operationEnded = None
  /\ pc \in {"recorded", "forgotten"} => operationEnded # None /\ operationEnded <= now
Consistent ==
  /\ (\A c \in Callers: ~Engaged(c)) => AtRest
  /\ \A c \in Callers: Engaged(c) => Held(c)

\* No access is of the future.
Clocks ==
  /\ \A c \in Callers: caller[c].since <= now
  /\ reader.pc # "idle" => SolveDeadline <= reader.at /\ reader.at <= now

\* What a poll that no method runs beside has found out about the fields.
Calm == \A c \in Callers: caller[c].pc \in {"idle", "working"}
Passed == operationDeadline # None /\ operationDeadline <= reader.at
Found ==
  /\ Calm
  /\ reader.pc = "limit" => operationActive
  /\ reader.pc = "compare" => operationActive /\ operationDeadline # None
  /\ reader.pc \in {"settle", "end"} => (operationActive => Passed)
  /\ reader.pc \in {"unknown", "deadline"} => operationActive /\ Passed
  /\ reader.pc = "ended" => ~operationActive

BudgetInv ==
  /\ TypeOK /\ Clocks
  /\ ~astray => Single /\ Consistent
  /\ ~astray /\ reader.pc # "idle" /\ ~reader.raced => Found

\* The timeout begin_operation computes is a positive number or None.
LEMMA CommandTimeoutType ==
  ASSUME NEW requested \in Requests
  PROVE  CommandTimeout(requested) \in Nat \cup {None}
BY BudgetAssumption DEF CommandTimeout, Smaller

\* A step of a method moves its own caller only.
LEMMA MovesStep ==
  ASSUME TypeOK, NEW c \in Callers, NEW from, NEW to, Moves(c, from, to),
         to \in {"idle", "working"} \cup BeginSteps \cup EndSteps
  PROVE  /\ caller' \in [Callers -> [pc: {"idle", "working"} \cup BeginSteps \cup EndSteps, since: Nat]]
         /\ caller[c].pc = from /\ caller'[c].pc = to
         /\ caller'[c].since \in {0, now}
         /\ \A d \in Callers \ {c}: caller'[d] = caller[d]
         /\ reader' = [reader EXCEPT !.raced = reader.pc # "idle"]
         /\ now' = now /\ told' = told
BY DEF TypeOK, Moves

\* The types, over any step.
LEMMA TypeStep == ASSUME TypeOK, [Next]_vars PROVE TypeOK'
<1> USE BudgetAssumption
<1>1. ASSUME NEW c \in Callers, Ask(c) \/ Begins(c) \/ Finish(c) \/ Ends(c)
      PROVE  TypeOK'
  <2>1. ASSUME NEW from, NEW to, Moves(c, from, to),
               to \in {"idle", "working"} \cup BeginSteps \cup EndSteps
        PROVE  /\ now' \in Nat /\ told' \in Phases \cup {"error"}
               /\ caller' \in [Callers -> [pc: {"idle", "working"} \cup BeginSteps \cup EndSteps, since: Nat]]
               /\ reader' \in [pc: {"idle"} \cup ReadSteps, at: Nat, raced: BOOLEAN]
    <3>1. (reader.pc # "idle") \in BOOLEAN
      OBVIOUS
    <3>2. reader' = [reader EXCEPT !.raced = reader.pc # "idle"]
      BY <2>1, MovesStep
    <3>3. reader' \in [pc: {"idle"} \cup ReadSteps, at: Nat, raced: BOOLEAN]
      BY <3>1, <3>2 DEF TypeOK
    <3>4. QED
      BY <2>1, <3>3, MovesStep DEF TypeOK
  <2>2. ASSUME NEW t, t \in Since(c) PROVE t \in Nat
    BY <2>2 DEF TypeOK, Since
  <2>3. CASE Ask(c)
    BY <2>1, <2>3 DEF Ask, TypeOK, fields, BeginSteps
  <2>4. CASE Claim(c)
    BY <2>1, <2>4 DEF Claim, TypeOK, fields, BeginSteps
  <2>5. CASE SetDeadline(c)
    <3>1. PICK requested \in Requests, clock \in Since(c):
            operationDeadline' = IF CommandTimeout(requested) = None THEN None
                                 ELSE clock + CommandTimeout(requested)
      BY <2>5 DEF SetDeadline
    <3>2. operationDeadline' \in Nat \cup {None}
      BY <3>1, <2>2, CommandTimeoutType
    <3>3. QED
      BY <2>1, <2>5, <3>2 DEF SetDeadline, TypeOK, BeginSteps
  <2>6. CASE ClearEnded(c)
    BY <2>1, <2>6 DEF ClearEnded, TypeOK, BeginSteps
  <2>7. CASE Activate(c)
    BY <2>1, <2>7 DEF Activate, TypeOK
  <2>8. CASE Finish(c)
    BY <2>1, <2>8 DEF Finish, TypeOK, fields, EndSteps
  <2>9. CASE TestDeadline(c)
    BY <2>1, <2>9 DEF TestDeadline, TypeOK, fields, EndSteps
  <2>10. CASE Record(c)
    <3>1. operationEnded' \in Nat \cup {None}
      BY <2>10, <2>2 DEF Record, TypeOK, Smaller
    <3>2. QED
      BY <2>1, <2>10, <3>1 DEF Record, TypeOK, EndSteps
  <2>11. CASE Forget(c)
    BY <2>1, <2>11 DEF Forget, TypeOK, EndSteps
  <2>12. CASE Release(c)
    BY <2>1, <2>12 DEF Release, TypeOK
  <2>13. QED
    BY <1>1, <2>3, <2>4, <2>5, <2>6, <2>7, <2>8, <2>9, <2>10, <2>11, <2>12 DEF Begins, Ends
<1>2. CASE Poll \/ Polls
  <2>1. ASSUME NEW from, NEW to \in ReadSteps, Reads(from, to) PROVE TypeOK'
    BY <2>1 DEF TypeOK, Reads, fields
  <2>2. ASSUME NEW from, NEW phase \in Phases \cup {"error"}, Tells(from, phase) PROVE TypeOK'
    BY <2>2 DEF TypeOK, Tells, fields
  <2>3. CASE Poll
    <3>1. (\E c \in Callers: caller[c].pc \notin {"idle", "working"}) \in BOOLEAN
      OBVIOUS
    <3>2. now < SolveDeadline => TypeOK'
      BY <2>3 DEF Poll, TypeOK, fields, Phases
    <3>3. reader' = [pc |-> "active", at |-> now,
                     raced |-> \E c \in Callers: caller[c].pc \notin {"idle", "working"}]
          => reader' \in [pc: {"idle"} \cup ReadSteps, at: Nat, raced: BOOLEAN]
      BY <3>1 DEF TypeOK, ReadSteps
    <3>4. QED
      BY <2>3, <3>2, <3>3 DEF Poll, TypeOK, fields
  <2>4. CASE PollActive
    BY <2>1, <2>4 DEF PollActive, ReadSteps
  <2>5. CASE PollLimit
    BY <2>1, <2>2, <2>5 DEF PollLimit, ReadSteps, Phases
  <2>6. CASE PollCompare
    BY <2>1, <2>2, <2>6 DEF PollCompare, ReadSteps, Phases
  <2>7. CASE PollSettlement
    BY <2>1, <2>2, <2>7 DEF PollSettlement, ReadSteps
  <2>8. CASE PollEnd
    BY <2>1, <2>8 DEF PollEnd, ReadSteps
  <2>9. CASE Decide
    BY <2>2, <2>9 DEF Decide, Phases
  <2>10. QED
    BY <1>2, <2>3, <2>4, <2>5, <2>6, <2>7, <2>8, <2>9 DEF Polls
<1>3. CASE Tick
  BY <1>3 DEF Tick, TypeOK, fields
<1>4. CASE UNCHANGED vars
  BY <1>4 DEF vars, TypeOK, fields
<1>5. QED
  BY <1>1, <1>2, <1>3, <1>4 DEF Next

-----------------------------------------------------------------------------
\* A step of the one caller that holds the fields, or is about to, keeps them
\* consistent if it leaves them as they should be there.
LEMMA HolderStep ==
  ASSUME TypeOK, NEW c \in Callers, NEW from, NEW to, Moves(c, from, to),
         to \in {"idle", "working"} \cup BeginSteps \cup EndSteps,
         \A d \in Callers \ {c}: ~Engaged(d),
         Engaged(c)' => Held(c)', ~Engaged(c)' => AtRest'
  PROVE  Single' /\ Consistent'
<1>1. \A d \in Callers \ {c}: ~Engaged(d)'
  BY MovesStep DEF Engaged, Busy
<1>2. QED
  BY <1>1 DEF Single, Consistent

\* So does a step of a caller that holds nothing and leaves the fields alone.
LEMMA OutsiderStep ==
  ASSUME TypeOK, NEW c \in Callers, NEW from \in {"idle", "asked"}, NEW to \in {"idle", "asked"},
         Moves(c, from, to), UNCHANGED fields, Single, Consistent
  PROVE  Single' /\ Consistent'
<1>1. \A d \in Callers: (Engaged(d)' <=> Engaged(d)) /\ (Engaged(d) => caller'[d] = caller[d]) /\ now' = now
  BY MovesStep DEF Engaged, Busy, BeginSteps
<1>2. Single'
  BY <1>1 DEF Single
<1>3. AtRest => AtRest'
  BY <1>1 DEF AtRest, fields
<1>4. \A d \in Callers: Engaged(d) /\ Held(d) => Held(d)'
  BY <1>1 DEF Held, fields
<1>5. QED
  BY <1>1, <1>2, <1>3, <1>4 DEF Consistent

LEMMA FieldsStep ==
  ASSUME BudgetInv, [Next]_vars, ~astray'
  PROVE  Single' /\ Consistent'
<1> USE BudgetAssumption
<1>0. TypeOK /\ Clocks
  BY DEF BudgetInv
<1>1. ASSUME NEW c \in Callers, Ask(c) \/ Begins(c) \/ Finish(c) \/ Ends(c)
      PROVE  Single' /\ Consistent'
  <2>1. ~astray
    BY <1>1 DEF Ask, Begins, Finish, Ends, Claim, SetDeadline, ClearEnded, Activate, TestDeadline, Record,
                Forget, Release
  <2>2. Single /\ Consistent
    BY <2>1 DEF BudgetInv
  <2>3. Engaged(c) => (\A d \in Callers \ {c}: ~Engaged(d)) /\ Held(c)
    BY <2>2 DEF Single, Consistent
  <2>4. operationActive => \E d \in Callers: Engaged(d)
    BY <2>2 DEF Consistent, AtRest
  <2>5. CASE Ask(c)
    BY <1>0, <2>2, <2>5, OutsiderStep DEF Ask
  <2>6. CASE Claim(c) /\ operationActive
    BY <1>0, <2>2, <2>6, OutsiderStep DEF Claim
  <2>7. CASE Claim(c) /\ ~operationActive
    <3>1. Moves(c, "asked", "claimed") /\ UNCHANGED fields
      BY <2>7 DEF Claim
    <3>2. \A d \in Callers \ {c}: ~Engaged(d)
      BY <2>7 DEF Claim
    <3>3. caller[c].pc = "asked" /\ caller'[c].pc = "claimed" /\ now' = now
      BY <1>0, <3>1, MovesStep DEF BeginSteps
    <3>4. AtRest
      BY <2>2, <3>2, <3>3 DEF Consistent, Engaged, Busy
    <3>5. Engaged(c)' /\ Held(c)'
      BY <3>1, <3>3, <3>4 DEF Engaged, Busy, Held, AtRest, fields
    <3>6. QED
      BY <1>0, <3>1, <3>2, <3>5, HolderStep DEF BeginSteps
  <2>8. CASE SetDeadline(c)
    <3>1. Moves(c, "claimed", "dated") /\ UNCHANGED <<operationEnded, operationActive>>
      BY <2>8 DEF SetDeadline
    <3>2. caller[c].pc = "claimed" /\ caller'[c].pc = "dated"
      BY <1>0, <3>1, MovesStep DEF BeginSteps
    <3>3. Engaged(c) /\ Engaged(c)'
      BY <3>2 DEF Engaged, Busy
    <3>4. Held(c)'
      BY <2>3, <3>1, <3>2, <3>3 DEF Held
    <3>5. QED
      BY <1>0, <2>3, <3>1, <3>3, <3>4, HolderStep DEF BeginSteps
  <2>9. CASE ClearEnded(c)
    <3>1. Moves(c, "dated", "cleared") /\ operationEnded' = None /\ UNCHANGED operationActive
      BY <2>9 DEF ClearEnded
    <3>2. caller[c].pc = "dated" /\ caller'[c].pc = "cleared"
      BY <1>0, <3>1, MovesStep DEF BeginSteps
    <3>3. Engaged(c) /\ Engaged(c)'
      BY <3>2 DEF Engaged, Busy
    <3>4. Held(c)'
      BY <2>3, <3>1, <3>2, <3>3 DEF Held
    <3>5. QED
      BY <1>0, <2>3, <3>1, <3>3, <3>4, HolderStep DEF BeginSteps
  <2>10. CASE Activate(c)
    <3>1. Moves(c, "cleared", "working") /\ operationActive' = TRUE /\ UNCHANGED <<operationDeadline, operationEnded>>
      BY <2>10 DEF Activate
    <3>2. caller[c].pc = "cleared" /\ caller'[c].pc = "working"
      BY <1>0, <3>1, MovesStep
    <3>3. Engaged(c) /\ Engaged(c)'
      BY <3>2 DEF Engaged, Busy
    <3>4. Held(c)'
      BY <2>3, <3>1, <3>2, <3>3 DEF Held
    <3>5. QED
      BY <1>0, <2>3, <3>1, <3>3, <3>4, HolderStep
  <2>11. CASE Finish(c)
    <3>1. caller[c].pc = "working"
      BY <2>11 DEF Finish, Moves
    <3>2. operationActive /\ operationEnded = None /\ Engaged(c)
      BY <2>3, <3>1 DEF Held, Engaged, Busy
    <3>3. Moves(c, "working", "ending") /\ UNCHANGED fields
      BY <2>11, <3>2 DEF Finish
    <3>4. caller'[c].pc = "ending"
      BY <1>0, <3>3, MovesStep DEF EndSteps
    <3>5. Engaged(c)' /\ Held(c)'
      BY <3>2, <3>3, <3>4 DEF Engaged, Busy, Held, fields
    <3>6. QED
      BY <1>0, <2>3, <3>2, <3>3, <3>5, HolderStep DEF EndSteps
  <2>12. CASE TestDeadline(c)
    <3> DEFINE to == IF operationDeadline # None THEN "bounded" ELSE "unbounded"
    <3>1. Moves(c, "ending", to) /\ UNCHANGED fields
      BY <2>12 DEF TestDeadline
    <3>2. to \in EndSteps
      BY DEF EndSteps
    <3>3. caller[c].pc = "ending" /\ caller'[c].pc = to
      BY <1>0, <3>1, <3>2, MovesStep
    <3>4. Engaged(c) /\ Engaged(c)'
      BY <3>3 DEF Engaged, Busy
    <3>5. Held(c)'
      BY <2>3, <3>1, <3>3, <3>4 DEF Held, fields
    <3>6. QED
      BY <1>0, <2>3, <3>1, <3>2, <3>4, <3>5, HolderStep
  <2>13. CASE Record(c)
    <3>1. caller[c].pc \in {"bounded", "unbounded"} /\ Engaged(c)
      BY <2>13 DEF Record, Moves, Engaged, Busy
    <3>2. /\ operationActive
          /\ caller[c].pc = "bounded" <=> operationDeadline # None
      BY <2>3, <3>1 DEF Held
    <3>3. PICK from \in {"bounded", "unbounded"}: Moves(c, from, "recorded")
      BY <2>13, <3>2 DEF Record, Moves
    <3>4. /\ operationEnded' \in Nat /\ operationEnded' <= now
          /\ UNCHANGED <<operationDeadline, operationActive>>
      BY <1>0, <2>13, <3>2 DEF Record, Since, Smaller, TypeOK, Moves
    <3>5. caller'[c].pc = "recorded" /\ now' = now
      BY <1>0, <3>3, MovesStep DEF EndSteps
    <3>6. Engaged(c)' /\ Held(c)'
      BY <3>2, <3>4, <3>5 DEF Engaged, Busy, Held
    <3>7. QED
      BY <1>0, <2>3, <3>1, <3>3, <3>6, HolderStep DEF EndSteps
  <2>14. CASE Forget(c)
    <3>1. Moves(c, "recorded", "forgotten") /\ operationDeadline' = None /\ UNCHANGED <<operationEnded, operationActive>>
      BY <2>14 DEF Forget
    <3>2. caller[c].pc = "recorded" /\ caller'[c].pc = "forgotten" /\ now' = now
      BY <1>0, <3>1, MovesStep DEF EndSteps
    <3>3. Engaged(c) /\ Engaged(c)'
      BY <3>2 DEF Engaged, Busy
    <3>4. Held(c)'
      BY <2>3, <3>1, <3>2, <3>3 DEF Held
    <3>5. QED
      BY <1>0, <2>3, <3>1, <3>3, <3>4, HolderStep DEF EndSteps
  <2>15. CASE Release(c)
    <3>1. Moves(c, "forgotten", "idle") /\ operationActive' = FALSE /\ UNCHANGED <<operationDeadline, operationEnded>>
      BY <2>15 DEF Release
    <3>2. caller[c].pc = "forgotten" /\ caller'[c].pc = "idle" /\ now' = now
      BY <1>0, <3>1, MovesStep
    <3>3. Engaged(c) /\ ~Engaged(c)'
      BY <3>2 DEF Engaged, Busy
    <3>4. AtRest'
      BY <2>3, <3>1, <3>2, <3>3 DEF Held, AtRest
    <3>5. QED
      BY <1>0, <2>3, <3>1, <3>3, <3>4, HolderStep
  <2>16. QED
    BY <1>1, <2>5, <2>6, <2>7, <2>8, <2>9, <2>10, <2>11, <2>12, <2>13, <2>14, <2>15 DEF Begins, Ends
<1>2. CASE UNCHANGED <<fields, caller, astray>> /\ now' \in {now, now + 1}
  <2>1. Single /\ Consistent
    BY <1>2 DEF BudgetInv
  <2>2. \A d \in Callers: Engaged(d)' <=> Engaged(d)
    BY <1>2 DEF Engaged, Busy
  <2>3. operationEnded \in Nat \cup {None} /\ now \in Nat
    BY <1>0 DEF TypeOK
  <2>4. AtRest => AtRest'
    BY <1>2, <2>3 DEF AtRest, fields
  <2>5. \A d \in Callers: Held(d) => Held(d)'
    BY <1>2, <2>3 DEF Held, fields
  <2>6. QED
    BY <1>2, <2>1, <2>2, <2>4, <2>5 DEF Single, Consistent
<1>3. Poll \/ Polls \/ Tick \/ UNCHANGED vars => UNCHANGED <<fields, caller, astray>> /\ now' \in {now, now + 1}
  BY DEF Poll, Polls, PollActive, PollLimit, PollCompare, PollSettlement, PollEnd, Decide, Reads, Tells, Tick, vars
<1>4. QED
  BY <1>1, <1>2, <1>3 DEF Next

\* Every step of a method moves its caller from a place to a place.
LEMMA MethodMoves ==
  ASSUME NEW c \in Callers, Ask(c) \/ Begins(c) \/ Finish(c) \/ Ends(c)
  PROVE  \E from, to \in {"idle", "working"} \cup BeginSteps \cup EndSteps: Moves(c, from, to)
BY DEF Ask, Begins, Finish, Ends, Claim, SetDeadline, ClearEnded, Activate, TestDeadline, Record, Forget,
       Release, BeginSteps, EndSteps

LEMMA ClocksStep == ASSUME TypeOK, Clocks, [Next]_vars PROVE Clocks'
<1> USE BudgetAssumption
<1>1. ASSUME NEW c \in Callers, Ask(c) \/ Begins(c) \/ Finish(c) \/ Ends(c)
      PROVE  Clocks'
  <2>1. PICK from, to \in {"idle", "working"} \cup BeginSteps \cup EndSteps: Moves(c, from, to)
    BY <1>1, MethodMoves
  <2>2. /\ \A d \in Callers \ {c}: caller'[d] = caller[d]
        /\ caller'[c].since \in {0, now} /\ now' = now
        /\ reader' = [reader EXCEPT !.raced = reader.pc # "idle"]
    BY <2>1, MovesStep
  <2>3. now \in Nat /\ reader'.pc = reader.pc /\ reader'.at = reader.at
    BY <2>2 DEF TypeOK
  <2>4. QED
    BY <2>2, <2>3 DEF Clocks
<1>2. ASSUME UNCHANGED <<now, caller>>, reader'.pc # "idle" => reader'.at = reader.at /\ reader.pc # "idle"
      PROVE  Clocks'
  BY <1>2 DEF Clocks
<1>3. CASE Poll
  BY <1>3 DEF Poll, Clocks, TypeOK
<1>4. CASE Polls
  <2>1. ASSUME NEW from \in ReadSteps, NEW to, Reads(from, to) PROVE Clocks'
    BY <1>2, <2>1 DEF Reads, TypeOK, ReadSteps
  <2>2. ASSUME NEW from, NEW phase, Tells(from, phase) PROVE Clocks'
    BY <1>2, <2>2 DEF Tells
  <2>3. QED
    BY <1>4, <2>1, <2>2
    DEF Polls, PollActive, PollLimit, PollCompare, PollSettlement, PollEnd, Decide, ReadSteps
<1>5. CASE Tick
  BY <1>5 DEF Tick, Clocks, TypeOK
<1>6. CASE UNCHANGED vars
  BY <1>2, <1>6 DEF vars
<1>7. QED
  BY <1>1, <1>3, <1>4, <1>5, <1>6 DEF Next

\* With no method under way the fields say who holds them.
LEMMA CalmFields ==
  ASSUME Consistent, Calm
  PROVE  /\ operationActive <=> Active
         /\ operationDeadline # None => operationActive
<1>1. ASSUME NEW c \in Callers, Engaged(c) PROVE operationActive /\ Active
  <2>1. caller[c].pc = "working"
    BY <1>1 DEF Calm, Engaged, Busy
  <2>2. QED
    BY <1>1, <2>1 DEF Consistent, Held, Active, Busy
<1>2. CASE \A c \in Callers: ~Engaged(c)
  BY <1>2 DEF Consistent, AtRest, Active, Engaged
<1>3. QED
  BY <1>1, <1>2

\* What a poll that nothing runs beside has found out stays true.
LEMMA FoundStep ==
  ASSUME BudgetInv, [Next]_vars, ~astray', reader'.pc # "idle", ~reader'.raced
  PROVE  Found'
<1> USE BudgetAssumption
<1>1. ASSUME NEW c \in Callers, Ask(c) \/ Begins(c) \/ Finish(c) \/ Ends(c)
      PROVE  FALSE
  <2>1. PICK from, to \in {"idle", "working"} \cup BeginSteps \cup EndSteps: Moves(c, from, to)
    BY <1>1, MethodMoves
  <2>2. reader' = [reader EXCEPT !.raced = reader.pc # "idle"]
    BY <2>1, MovesStep DEF BudgetInv
  <2>3. reader'.pc = reader.pc /\ reader'.raced = (reader.pc # "idle")
    BY <2>2 DEF BudgetInv, TypeOK
  <2>4. QED
    BY <2>3
<1>2. CASE Poll
  <2>1. CASE now < SolveDeadline
    BY <1>2, <2>1 DEF Poll
  <2>2. CASE ~(now < SolveDeadline)
    <3>1. reader'.pc = "active" /\ Calm /\ caller' = caller
      BY <1>2, <2>2 DEF Poll, Calm
    <3>2. QED
      BY <3>1 DEF Found, Calm
  <2>3. QED
    BY <2>1, <2>2
<1>3. ASSUME Found, Consistent, Polls PROVE Found'
  <2>1. UNCHANGED <<fields, caller>> /\ reader'.at = reader.at
    BY <1>3 DEF Polls, PollActive, PollLimit, PollCompare, PollSettlement, PollEnd, Decide, Reads, Tells,
                BudgetInv, TypeOK
  <2>2. Calm' /\ (Passed' <=> Passed)
    BY <1>3, <2>1 DEF Found, Calm, Passed, fields
  <2>3. operationDeadline # None => operationActive
    BY <1>3, CalmFields DEF Found
  <2>4. ASSUME NEW from, NEW phase, Tells(from, phase) PROVE FALSE
    BY <2>4 DEF Tells
  <2>5. ASSUME NEW from, NEW to, Reads(from, to) PROVE reader.pc = from /\ reader'.pc = to
    BY <2>5 DEF Reads, BudgetInv, TypeOK
  <2>6. CASE PollActive
    BY <2>1, <2>2, <2>5, <2>6, <1>3 DEF PollActive, Found, fields
  <2>7. CASE PollLimit
    BY <2>1, <2>2, <2>4, <2>5, <2>7, <1>3 DEF PollLimit, Found, fields
  <2>8. CASE PollCompare
    <3>1. reader.pc = "compare" /\ reader'.pc = "settle" /\ operationDeadline # None
          /\ ~(reader.at < operationDeadline)
      BY <2>4, <2>5, <2>8 DEF PollCompare
    <3>2. reader.at \in Nat /\ operationDeadline \in Nat
      BY <3>1 DEF BudgetInv, TypeOK
    <3>3. Passed
      BY <3>1, <3>2 DEF Passed
    <3>4. QED
      BY <2>2, <3>1, <3>3 DEF Found
  <2>9. CASE PollSettlement
    BY <2>1, <2>2, <2>4, <2>5, <2>9, <1>3 DEF PollSettlement, Found, fields
  <2>10. CASE PollEnd
    BY <2>1, <2>2, <2>3, <2>5, <2>10, <1>3 DEF PollEnd, Found, fields, Passed
  <2>11. CASE Decide
    BY <2>4, <2>11 DEF Decide
  <2>12. QED
    BY <1>3, <2>6, <2>7, <2>8, <2>9, <2>10, <2>11 DEF Polls
<1>4. CASE Polls
  <2>1. ~astray /\ reader.pc # "idle" /\ reader'.raced = reader.raced
    BY <1>4 DEF Polls, PollActive, PollLimit, PollCompare, PollSettlement, PollEnd, Decide, Reads, Tells,
                BudgetInv, TypeOK
  <2>2. QED
    BY <1>3, <1>4, <2>1 DEF BudgetInv
<1>5. CASE Tick \/ UNCHANGED vars
  <2>1. UNCHANGED <<fields, caller, reader, astray>>
    BY <1>5 DEF Tick, vars
  <2>2. Found
    BY <2>1 DEF BudgetInv
  <2>3. QED
    BY <2>1, <2>2 DEF Found, Calm, Passed, fields
<1>6. QED
  BY <1>1, <1>2, <1>4, <1>5 DEF Next

\* The inductive invariant behind every theorem below: who holds the fields,
\* what they are at every step of a method, and what a poll has found out.
THEOREM BudgetInvariant == Spec => []BudgetInv
<1>1. Init => BudgetInv
  <2> SUFFICES ASSUME Init PROVE BudgetInv
    OBVIOUS
  <2>1. TypeOK
    <3>1. 0 \in Nat /\ None \in Nat \cup {None}
      OBVIOUS
    <3>2. caller \in [Callers -> [pc: {"idle", "working"} \cup BeginSteps \cup EndSteps, since: Nat]]
      BY <3>1 DEF Init
    <3>3. QED
      BY <3>1, <3>2 DEF Init, TypeOK, Phases
  <2>2. \A c \in Callers: caller[c].pc = "idle" /\ caller[c].since = 0
    BY DEF Init
  <2>3. reader.pc = "idle" /\ now = 0
    BY DEF Init
  <2>4. \A c \in Callers: ~Engaged(c)
    BY <2>2 DEF Engaged, Busy
  <2>5. Clocks
    BY <2>2, <2>3 DEF Clocks
  <2>6. Single /\ Consistent
    BY <2>4 DEF Init, Single, Consistent, AtRest
  <2>7. QED
    BY <2>1, <2>3, <2>5, <2>6 DEF BudgetInv
<1>2. BudgetInv /\ [Next]_vars => BudgetInv'
  BY TypeStep, ClocksStep, FieldsStep, FoundStep DEF BudgetInv
<1>3. QED
  BY <1>1, <1>2, PTL DEF Spec

\* The fields of a budget keep their types.
THEOREM BudgetTypeOK == Spec => []TypeOK
<1>1. BudgetInv => TypeOK
  BY DEF BudgetInv
<1>2. QED
  BY <1>1, BudgetInvariant, PTL

-----------------------------------------------------------------------------
\* Whatever runs beside it, no poll tells of an expiry before the allowance
\* after the solve deadline is used up; and one that nothing runs beside tells
\* the phase the session was in when it read the clock.
THEOREM BudgetPollsHonest == Spec => PollsHonest
<1> USE BudgetAssumption
<1>1. ASSUME BudgetInv, [Next]_vars, Told
      PROVE  /\ told' = "expired" => reader.at >= SolveDeadline + SettlementSeconds
             /\ ~reader.raced /\ ~astray => told' = PhaseAt(reader.at)
  <2>1. /\ TypeOK /\ reader.at \in Nat /\ SolveDeadline <= reader.at
        /\ operationDeadline \in Nat \cup {None} /\ operationEnded \in Nat \cup {None}
    BY <1>1 DEF Told, BudgetInv, Clocks, TypeOK
  <2>2. ASSUME ~reader.raced, ~astray
        PROVE  /\ Found /\ (Active <=> operationActive)
               /\ PhaseAt(reader.at) =
                    IF operationActive /\ (operationDeadline = None \/ reader.at < operationDeadline)
                    THEN "draining"
                    ELSE IF reader.at < Allowance(IF operationActive THEN operationDeadline ELSE operationEnded)
                    THEN "settling" ELSE "expired"
    <3>1. Found /\ Consistent
      BY <1>1, <2>2 DEF Told, BudgetInv
    <3>2. Active <=> operationActive
      BY <3>1, CalmFields DEF Found
    <3>3. ~(reader.at < SolveDeadline)
      BY <2>1
    <3>4. QED
      BY <3>1, <3>2, <3>3 DEF PhaseAt, SettlementDeadline
  <2>3. ASSUME NEW from, NEW phase, Tells(from, phase) PROVE reader.pc = from /\ told' = phase
    BY <2>3 DEF Tells
  <2>4. ASSUME NEW from, NEW to \in ReadSteps, Reads(from, to) PROVE FALSE
    BY <1>1, <2>1, <2>4 DEF Reads, Told, TypeOK, ReadSteps
  <2>5. ASSUME NEW c \in Callers, Ask(c) \/ Begins(c) \/ Finish(c) \/ Ends(c)
        PROVE  FALSE
    <3>1. PICK from, to \in {"idle", "working"} \cup BeginSteps \cup EndSteps: Moves(c, from, to)
      BY <2>5, MethodMoves
    <3>2. reader' = [reader EXCEPT !.raced = reader.pc # "idle"]
      BY <2>1, <3>1, MovesStep
    <3>3. reader'.pc = reader.pc
      BY <2>1, <3>2 DEF TypeOK
    <3>4. QED
      BY <1>1, <3>3 DEF Told
  <2>6. CASE PollLimit
    <3>1. reader.pc = "limit" /\ told' = "draining" /\ operationDeadline = None
      BY <2>3, <2>4, <2>6 DEF PollLimit, ReadSteps
    <3>2. QED
      BY <2>2, <3>1 DEF Found
  <2>7. CASE PollCompare
    <3>1. /\ reader.pc = "compare"
          /\ \/ told' = "error" /\ operationDeadline = None
             \/ told' = "draining" /\ operationDeadline # None /\ reader.at < operationDeadline
      BY <2>3, <2>4, <2>7 DEF PollCompare, ReadSteps
    <3>2. QED
      BY <2>2, <3>1 DEF Found
  <2>8. CASE PollSettlement
    <3>1. reader.pc = "unknown" /\ told' = "error" /\ operationDeadline = None
      BY <2>3, <2>4, <2>8 DEF PollSettlement, ReadSteps
    <3>2. QED
      BY <2>2, <3>1 DEF Found, Passed
  <2>9. CASE Decide
    <3>1. PICK field \in {"deadline", "ended"}:
            LET end == IF field = "deadline" THEN operationDeadline ELSE operationEnded IN
            Tells(field, IF reader.at < Allowance(end) THEN "settling" ELSE "expired")
      BY <2>9 DEF Decide
    <3> DEFINE end == IF field = "deadline" THEN operationDeadline ELSE operationEnded
    <3>2. reader.pc = field /\ told' = IF reader.at < Allowance(end) THEN "settling" ELSE "expired"
      BY <2>3, <3>1
    <3>3. end \in Nat \cup {None}
      BY <2>1
    <3>4. Allowance(end) \in Nat /\ Allowance(end) >= SolveDeadline + SettlementSeconds
      BY <3>3 DEF Allowance, EndOrDeadline, Larger
    <3>5. told' = "expired" => reader.at >= SolveDeadline + SettlementSeconds
      <4> HIDE DEF end
      <4>1. QED
        BY <2>1, <3>2, <3>4
    <3>6. ASSUME ~reader.raced, ~astray
          PROVE  told' = PhaseAt(reader.at)
      <4>1. /\ field = "deadline" => operationActive /\ Passed
            /\ field = "ended" => ~operationActive
        BY <2>2, <3>2, <3>6 DEF Found
      <4>2. operationActive => operationDeadline # None /\ ~(reader.at < operationDeadline)
        BY <2>1, <4>1 DEF Passed
      <4>3. end = IF operationActive THEN operationDeadline ELSE operationEnded
        BY <4>1
      <4>4. QED
        BY <2>2, <3>2, <3>6, <4>2, <4>3
    <3>7. QED
      BY <3>5, <3>6
  <2>10. CASE PollActive
    BY <2>4, <2>10 DEF PollActive, ReadSteps
  <2>11. CASE PollEnd
    BY <2>4, <2>11 DEF PollEnd, ReadSteps
  <2>12. CASE Poll \/ Tick \/ UNCHANGED vars
    BY <1>1, <2>12 DEF Poll, Tick, vars, Told
  <2>13. QED
    BY <1>1, <2>5, <2>6, <2>7, <2>8, <2>9, <2>10, <2>11, <2>12 DEF Next, Polls
<1>2. BudgetInv /\ [Next]_vars =>
        [Told =>
           /\ told' = "expired" => reader.at >= SolveDeadline + SettlementSeconds
           /\ ~reader.raced /\ ~astray => told' = PhaseAt(reader.at)]_vars
  BY <1>1
<1>3. QED
  BY <1>2, BudgetInvariant, PTL DEF Spec, PollsHonest

-----------------------------------------------------------------------------
(* What a step does to what the budget stands for.                         *)

Steady ==
  /\ now' = now /\ (Active' <=> Active)
  /\ Active => operationDeadline' = operationDeadline
  /\ ~Active => operationEnded' = operationEnded
Started == now' = now /\ now < SolveDeadline /\ ~Active /\ Active'
Dated == now' = now /\ Active /\ Active' /\ operationDeadline = None /\ operationDeadline' \in Nat \cup {None}
Ended ==
  /\ now' = now /\ Active /\ ~Active'
  /\ operationEnded' \in Nat
  /\ operationDeadline # None => operationEnded' <= operationDeadline
Elapsed == now' = now + 1 /\ (Active' <=> Active) /\ UNCHANGED fields

LEMMA StepKinds ==
  ASSUME BudgetInv, [Next]_vars, ~astray'
  PROVE  Steady \/ Started \/ Dated \/ Ended \/ Elapsed
<1>0. TypeOK /\ TypeOK'
  BY TypeStep DEF BudgetInv
<1>1. ASSUME NEW c \in Callers, Ask(c) \/ Begins(c) \/ Finish(c) \/ Ends(c)
      PROVE  Steady \/ Started \/ Dated \/ Ended
  <2>1. ~astray
    BY <1>1 DEF Ask, Begins, Finish, Ends, Claim, SetDeadline, ClearEnded, Activate, TestDeadline, Record,
                Forget, Release
  <2>2. Single /\ Consistent
    BY <2>1 DEF BudgetInv
  <2>3. PICK from, to \in {"idle", "working"} \cup BeginSteps \cup EndSteps: Moves(c, from, to)
    BY <1>1, MethodMoves
  <2>4. /\ caller[c].pc = from /\ caller'[c].pc = to /\ now' = now
        /\ \A d \in Callers \ {c}: caller'[d] = caller[d]
    BY <1>0, <2>3, MovesStep
  <2>5. ASSUME NEW f, NEW g, Moves(c, f, g) PROVE caller[c].pc = f /\ caller'[c].pc = g
    BY <1>0, <2>5 DEF Moves, TypeOK
  <2>6. (Busy(c)' <=> Busy(c)) => (Active' <=> Active)
    BY <2>4 DEF Active, Busy
  <2>7. Engaged(c) => (Active <=> Busy(c)) /\ (Active' <=> Busy(c)')
    BY <2>2, <2>4 DEF Single, Active, Engaged, Busy
  <2>8. Engaged(c) => Held(c)
    BY <2>2 DEF Consistent
  <2>9. CASE Ask(c)
    BY <2>4, <2>5, <2>6, <2>9 DEF Ask, Busy, Steady, fields
  <2>10. CASE Claim(c) /\ operationActive
    <3>1. Moves(c, "asked", "idle") /\ UNCHANGED fields
      BY <2>10 DEF Claim
    <3>2. QED
      BY <2>4, <2>5, <2>6, <3>1 DEF Busy, Steady, fields
  <2>11. CASE Claim(c) /\ ~operationActive
    <3>1. Moves(c, "asked", "claimed")
      BY <2>11 DEF Claim
    <3>2. ~(now >= SolveDeadline) /\ \A d \in Callers \ {c}: ~Engaged(d)
      BY <2>11 DEF Claim
    <3>3. now < SolveDeadline
      BY <1>0, <3>2, BudgetAssumption DEF TypeOK
    <3>4. ~Active /\ Active'
      BY <2>5, <3>1, <3>2 DEF Active, Engaged, Busy
    <3>5. QED
      BY <2>4, <3>3, <3>4 DEF Started
  <2>12. CASE SetDeadline(c)
    <3>1. caller[c].pc = "claimed" /\ caller'[c].pc = "dated"
      BY <2>5, <2>12 DEF SetDeadline
    <3>2. operationDeadline = None /\ Active /\ Active'
      BY <2>7, <2>8, <3>1 DEF Held, Engaged, Busy
    <3>3. QED
      BY <1>0, <2>4, <3>2 DEF Dated, TypeOK
  <2>13. CASE ClearEnded(c)
    <3>1. caller[c].pc = "dated" /\ caller'[c].pc = "cleared" /\ operationDeadline' = operationDeadline
      BY <2>5, <2>13 DEF ClearEnded
    <3>2. QED
      BY <2>4, <2>7, <3>1 DEF Engaged, Busy, Steady
  <2>14. CASE Activate(c)
    <3>1. caller[c].pc = "cleared" /\ caller'[c].pc = "working" /\ operationDeadline' = operationDeadline
      BY <2>5, <2>14 DEF Activate
    <3>2. QED
      BY <2>4, <2>7, <3>1 DEF Engaged, Busy, Steady
  <2>15. CASE Finish(c)
    <3>1. caller[c].pc = "working"
      BY <2>15 DEF Finish, Moves
    <3>2. operationActive
      BY <2>8, <3>1 DEF Held, Engaged, Busy
    <3>3. caller'[c].pc = "ending" /\ UNCHANGED fields
      BY <2>5, <2>15, <3>2 DEF Finish
    <3>4. QED
      BY <2>4, <2>7, <3>1, <3>3 DEF Engaged, Busy, Steady, fields
  <2>16. CASE TestDeadline(c)
    <3>1. caller[c].pc = "ending" /\ caller'[c].pc \in {"bounded", "unbounded"} /\ UNCHANGED fields
      BY <2>5, <2>16 DEF TestDeadline
    <3>2. QED
      BY <2>4, <2>7, <3>1 DEF Engaged, Busy, Steady, fields
  <2>17. CASE Record(c)
    <3>1. caller[c].pc \in {"bounded", "unbounded"} /\ Engaged(c)
      BY <2>17 DEF Record, Moves, Engaged, Busy
    <3>2. caller[c].pc = "bounded" <=> operationDeadline # None
      BY <2>8, <3>1 DEF Held
    <3>3. caller'[c].pc = "recorded"
      BY <2>5, <2>17, <3>2 DEF Record, Moves
    <3>4. Active /\ ~Active'
      BY <2>7, <3>1, <3>3 DEF Engaged, Busy
    <3>5. operationEnded' \in Nat /\ (operationDeadline # None => operationEnded' <= operationDeadline)
      BY <1>0, <2>17, <3>2 DEF Record, Since, Smaller, TypeOK, Moves
    <3>6. QED
      BY <2>4, <3>4, <3>5 DEF Ended
  <2>18. CASE Forget(c)
    <3>1. caller[c].pc = "recorded" /\ caller'[c].pc = "forgotten" /\ operationEnded' = operationEnded
      BY <2>5, <2>18 DEF Forget
    <3>2. QED
      BY <2>4, <2>7, <3>1 DEF Engaged, Busy, Steady
  <2>19. CASE Release(c)
    <3>1. caller[c].pc = "forgotten" /\ caller'[c].pc = "idle" /\ operationEnded' = operationEnded
      BY <2>5, <2>19 DEF Release
    <3>2. QED
      BY <2>4, <2>7, <3>1 DEF Engaged, Busy, Steady
  <2>20. QED
    BY <1>1, <2>9, <2>10, <2>11, <2>12, <2>13, <2>14, <2>15, <2>16, <2>17, <2>18, <2>19 DEF Begins, Ends
<1>2. CASE Poll \/ Polls \/ UNCHANGED vars
  <2>1. UNCHANGED <<now, fields, caller>>
    BY <1>2 DEF Poll, Polls, PollActive, PollLimit, PollCompare, PollSettlement, PollEnd, Decide, Reads, Tells, vars
  <2>2. QED
    BY <2>1 DEF Steady, Active, Busy, fields
<1>3. CASE Tick
  BY <1>3 DEF Tick, Elapsed, Active, Busy, fields
<1>4. QED
  BY <1>1, <1>2, <1>3 DEF Next

\* Once solving is over no step moves a known settlement deadline later, and
\* none forgets it.
LEMMA SettlementStep ==
  ASSUME TypeOK, Steady \/ Started \/ Dated \/ Ended \/ Elapsed, ~(now < SolveDeadline), SettlementDeadline # None
  PROVE  SettlementDeadline' # None /\ SettlementDeadline' <= SettlementDeadline
<1> USE BudgetAssumption
<1>1. SettlementDeadline \in Nat
  BY DEF TypeOK, SettlementDeadline, Allowance, EndOrDeadline, Larger
<1>2. CASE Steady
  BY <1>1, <1>2 DEF Steady, SettlementDeadline
<1>3. CASE Started \/ Dated
  BY <1>3 DEF Started, Dated, SettlementDeadline
<1>4. CASE Ended
  <2>1. operationDeadline \in Nat /\ operationEnded' \in Nat /\ operationEnded' <= operationDeadline
    BY <1>4 DEF Ended, SettlementDeadline, TypeOK
  <2>2. SettlementDeadline = Allowance(operationDeadline) /\ SettlementDeadline' = Allowance(operationEnded')
    BY <1>4, <2>1 DEF Ended, SettlementDeadline, Allowance, EndOrDeadline
  <2>3. operationDeadline # None /\ operationEnded' # None
    BY <2>1
  <2>4. Allowance(operationEnded') \in Nat /\ Allowance(operationEnded') <= Allowance(operationDeadline)
    <3>1. \A end \in Nat: end # None => Allowance(end) = Larger(SolveDeadline, end) + SettlementSeconds
      BY DEF Allowance, EndOrDeadline
    <3>2. \A a, b \in Nat: a <= b => /\ Larger(SolveDeadline, a) \in Nat /\ Larger(SolveDeadline, b) \in Nat
                                     /\ Larger(SolveDeadline, a) <= Larger(SolveDeadline, b)
      BY DEF Larger
    <3>3. QED
      BY <2>1, <2>3, <3>1, <3>2
  <2>5. QED
    BY <2>2, <2>4
<1>5. CASE Elapsed
  BY <1>1, <1>5 DEF Elapsed, SettlementDeadline, fields, Allowance, EndOrDeadline
<1>6. QED
  BY <1>2, <1>3, <1>4, <1>5

\* "Neither polls nor completed work renew a budget", at any step of a method.
THEOREM BudgetNoRenewal == Spec => NoRenewal
<1>1. BudgetInv /\ [Next]_vars =>
        [Phase # "solving" /\ SettlementDeadline # None /\ ~astray' =>
           SettlementDeadline' # None /\ SettlementDeadline' <= SettlementDeadline]_vars
  BY StepKinds, SettlementStep DEF BudgetInv, Phase, PhaseAt
<1>2. QED
  BY <1>1, BudgetInvariant, PTL DEF Spec, NoRenewal

-----------------------------------------------------------------------------
LEMMA PhaseType == Phase \in Ladder!Phases
BY DEF Phase, PhaseAt, Ladder!Phases

LEMMA RankValues ==
  /\ Ladder!Rank["solving"] = 0
  /\ Ladder!Rank["draining"] = 1
  /\ Ladder!Rank["settling"] = 2
  /\ Ladder!Rank["expired"] = 3
BY DEF Ladder!Rank, Ladder!Phases

\* The end of an operation leaves the session no earlier on the ladder, and
\* never draining.
LEMMA EndStep ==
  ASSUME TypeOK, Ended
  PROVE  /\ Phase' # "draining"
         /\ Ladder!Rank[Phase'] >= Ladder!Rank[Phase]
<1> USE BudgetAssumption
<1>1. Phase' # "draining"
  BY DEF Ended, Phase, PhaseAt
<1>2. CASE now < SolveDeadline
  <2>1. Phase = "solving" /\ Phase' = "solving"
    BY <1>2 DEF Ended, Phase, PhaseAt
  <2>2. QED
    BY <2>1, RankValues
<1>3. CASE ~(now < SolveDeadline) /\ (operationDeadline = None \/ now < operationDeadline)
  <2>1. Phase = "draining" /\ Phase' \in {"settling", "expired"}
    BY <1>3 DEF Ended, Phase, PhaseAt
  <2>2. QED
    BY <2>1, RankValues
<1>4. CASE ~(now < SolveDeadline) /\ ~(operationDeadline = None \/ now < operationDeadline)
  <2>1. operationDeadline \in Nat /\ operationEnded' \in Nat /\ operationEnded' # None
    BY <1>4 DEF Ended, TypeOK
  <2>2. SettlementDeadline \in Nat /\ SettlementDeadline' \in Nat
    <3>1. \A end \in Nat: Allowance(end) \in Nat
      BY DEF Allowance, EndOrDeadline, Larger
    <3>2. SettlementDeadline = Allowance(operationDeadline) /\ SettlementDeadline' = Allowance(operationEnded')
      BY <1>4, <2>1 DEF Ended, SettlementDeadline, Allowance, EndOrDeadline
    <3>3. QED
      BY <2>1, <3>1, <3>2
  <2>3. SettlementDeadline' <= SettlementDeadline
    BY <1>4, <2>2, SettlementStep
  <2>4. /\ Phase = IF now < SettlementDeadline THEN "settling" ELSE "expired"
        /\ Phase' = IF now < SettlementDeadline' THEN "settling" ELSE "expired"
    BY <1>4 DEF Ended, Phase, PhaseAt
  <2>5. now \in Nat
    BY DEF TypeOK
  <2>6. QED
    BY <2>2, <2>3, <2>4, <2>5, RankValues
<1>5. QED
  BY <1>1, <1>2, <1>3, <1>4, RankValues

\* Time alone leaves the session no earlier on the ladder, and makes it drain
\* only while an operation is active.
LEMMA TickStep ==
  ASSUME TypeOK, Elapsed
  PROVE  /\ Phase' = "draining" => Active
         /\ Phase' # Phase => Ladder!Rank[Phase'] > Ladder!Rank[Phase]
<1> USE BudgetAssumption
<1>1. SettlementDeadline' = SettlementDeadline
  BY DEF Elapsed, SettlementDeadline, fields, Allowance, EndOrDeadline
<1>2. Phase' = "draining" => Active
  BY DEF Elapsed, Phase, PhaseAt
<1> DEFINE drains == Active /\ (operationDeadline = None \/ now < operationDeadline)
           drains1 == Active /\ (operationDeadline = None \/ now + 1 < operationDeadline)
<1>3. /\ Phase = IF now < SolveDeadline THEN "solving" ELSE IF drains THEN "draining"
                 ELSE IF now < SettlementDeadline THEN "settling" ELSE "expired"
      /\ Phase' = IF now + 1 < SolveDeadline THEN "solving" ELSE IF drains1 THEN "draining"
                  ELSE IF now + 1 < SettlementDeadline THEN "settling" ELSE "expired"
  BY <1>1 DEF Elapsed, Phase, PhaseAt, fields
<1>4. drains1 => drains
  BY DEF TypeOK
<1>5. now \in Nat /\ (~drains => SettlementDeadline \in Nat)
  BY DEF TypeOK, SettlementDeadline, Allowance, EndOrDeadline, Larger
<1>6. Phase' # Phase => Ladder!Rank[Phase'] > Ladder!Rank[Phase]
  <2> HIDE DEF drains, drains1
  <2>1. QED
    BY <1>3, <1>4, <1>5, RankValues
<1>7. QED
  BY <1>2, <1>6

\* What the budget stands for climbs the phase ladder, whatever steps of its
\* methods interleave, until two operations begin at once or one begins across
\* the solve deadline.
THEOREM BudgetImplementsLadder == Spec => ImplementsLadder
<1> USE BudgetAssumption
<1>1. Init => Ladder!Init
  BY DEF Init, Ladder!Init, Phase, PhaseAt, Active, Busy
<1>2. ASSUME BudgetInv, [Next]_vars, ~astray'
      PROVE  [Ladder!Next]_<<Phase, Active>>
  <2>1. TypeOK /\ TypeOK'
    BY <1>2, TypeStep DEF BudgetInv
  <2>2. Active \in BOOLEAN /\ Active' \in BOOLEAN
    BY DEF Active
  <2>3. Phase' \in Ladder!Phases
    BY DEF Phase, PhaseAt, Ladder!Phases
  <2>4. CASE Steady
    <3>1. (SettlementDeadline' = SettlementDeadline) /\ Active' = Active
      BY <2>2, <2>4 DEF Steady, SettlementDeadline, Allowance, EndOrDeadline
    <3>2. Phase' = Phase
      BY <2>4, <3>1 DEF Steady, Phase, PhaseAt
    <3>3. QED
      BY <3>1, <3>2
  <2>5. CASE Started
    <3>1. Phase = "solving" /\ Phase' = "solving"
      BY <2>5 DEF Started, Phase, PhaseAt
    <3>2. QED
      <4>1. Phase' \in Ladder!Phases /\ Ladder!Rank[Phase'] >= Ladder!Rank[Phase]
        BY <2>3, <3>1, RankValues
      <4>2. Ladder!Begin
        BY <2>5, <3>1, <4>1 DEF Started, Ladder!Begin
      <4>3. QED
        BY <4>2 DEF Ladder!Next
  <2>6. CASE Dated
    <3>1. Phase = IF now < SolveDeadline THEN "solving" ELSE "draining"
      BY <2>6 DEF Dated, Phase, PhaseAt
    <3>2. now < SolveDeadline => Phase' = "solving"
      BY <2>6 DEF Dated, Phase, PhaseAt
    <3>3. ~(now < SolveDeadline) => Phase' \in {"draining", "settling", "expired"}
      BY <2>6 DEF Dated, Phase, PhaseAt
    <3>4. Active' = Active
      BY <2>2, <2>6 DEF Dated
    <3>5. CASE Phase' = Phase
      BY <3>4, <3>5
    <3>6. CASE Phase' # Phase
      <4>1. Ladder!Rank[Phase'] > Ladder!Rank[Phase] /\ Phase' # "draining"
        BY <3>1, <3>2, <3>3, <3>6, RankValues
      <4>2. QED
        BY <2>3, <3>4, <4>1 DEF Ladder!Advance, Ladder!Next
    <3>7. QED
      BY <3>5, <3>6
  <2>7. CASE Ended
    BY <2>1, <2>2, <2>3, <2>7, EndStep DEF Ended, Ladder!End, Ladder!Next
  <2>8. CASE Elapsed
    <3>1. Active' = Active
      BY <2>2, <2>8 DEF Elapsed
    <3>2. QED
      BY <2>1, <2>3, <2>8, <3>1, TickStep DEF Ladder!Advance, Ladder!Next
  <2>9. QED
    BY <1>2, <2>4, <2>5, <2>6, <2>7, <2>8, StepKinds
<1>3. BudgetInv /\ [Next]_vars => [astray' \/ Ladder!Next]_<<Phase, Active>>
  BY <1>2
<1>4. QED
  BY <1>1, <1>3, BudgetInvariant, PTL DEF Spec, ImplementsLadder
=============================================================================
