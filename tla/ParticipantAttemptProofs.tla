----------------------- MODULE ParticipantAttemptProofs -----------------------
(***************************************************************************)
(* Proofs about a participant's attempt and the creation of its session,   *)
(* for every setting, number of continuations, retries and crashes; and,   *)
(* for every stream of its CLI, about the failure that is read from it;    *)
(* about what a call is recorded to have used; and about the task that he  *)
(* is handed.                                                              *)
(***************************************************************************)
EXTENDS ParticipantAttempt, Integers, SequenceTheorems, WellFoundedInduction, TLAPS

CONSTANT None  \* no code, no failure, no count

Cli == INSTANCE HarnessFailures
Spending == INSTANCE UsageAccounting

SessionRecords == [replied : BOOLEAN, refused : BOOLEAN, attached : BOOLEAN,
                   abandoned : BOOLEAN, thread : {"starting", "running", "ended"}]

\* The key has one session at most, and the handler works on that one, in a
\* living service.
OneSession ==
    /\ Len(sessions) <= 1
    /\ handler.pc # "idle" => up /\ handler.try \in 1..Tries /\ handler.sid \in Sids

\* The gate: who attached was not abandoned, who was refused never attaches.
Gated == \A s \in Sids :
    /\ sessions[s].replied => sessions[s].attached
    /\ sessions[s].refused =>
         /\ ~sessions[s].attached
         /\ sessions[s].abandoned \/ sessions[s].thread # "starting"
    /\ handler.pc \in {"waiting", "attached"} => ~sessions[s].refused
    /\ handler.pc = "attached" => sessions[s].attached
    /\ handler.pc = "refused" =>
         ~sessions[s].attached /\ (sessions[s].abandoned \/ sessions[s].thread # "starting")

CreationInv == CreationTypeOK /\ OneSession /\ Gated

SolveRecords ==
    [closing : BOOLEAN, expired : BOOLEAN, late : BOOLEAN, exec : BOOLEAN, runner : BOOLEAN,
     subs : 0..MaxSubs, listed : 0..MaxSubs, posted : 0..MaxSubs,
     interrupted : BOOLEAN, reported : BOOLEAN, judged : 0..MaxSubs]
RecRecords ==
    [exists : BOOLEAN, created : 0..MaxSessions, launches : 0..MaxLaunches,
     phase : {"none", "running", "ready", "waiting", "finalizing", "suspended"},
     resumes : [Kinds -> Nat], capacity : BOOLEAN]
TraceRecords == [cur : 0..MaxLaunches, old : [1..MaxLaunches -> 0..MaxLaunches]]
JrRecords == [exists : BOOLEAN, closed : BOOLEAN, error : BOOLEAN, receipt : 0..MaxSubs,
              drain : {"none", "set", "passed"}]
OutRecords == [analysis : {"none", "partial", "done"}, observation : {"none", "partial", "done"},
               result : 0..MaxSubs]
FileTypes ==
    /\ rec \in RecRecords /\ trace \in TraceRecords /\ jr \in JrRecords
    /\ pending \in {"none", "set", "passed"} /\ out \in OutRecords

Pcs == {"idle", "open", "create", "creating", "status", "archive", "remaining", "launch", "spawn",
        "exec", "exited", "plan", "wait", "complete", "suspend", "settle", "drain", "poll", "close",
        "confirm", "mark", "collect", "export", "exporting", "observe", "return", "recover",
        "recovered"}
Locals == [pc : Pcs, err : Errors, tries : Nat, wait : Nat, primary : {"none", "timeout", "error"}]
Counters == [starts : 0..MaxStarts, faults : Nat, crashes : Nat]
ActorTypes ==
    /\ config \in Configs /\ solve \in SolveRecords /\ run \in Locals /\ used \in Counters
    /\ cli \in BOOLEAN

\* Each runner launches once, and once more for each continuation it saved.
Before == {"open", "create", "creating", "status", "archive", "remaining", "launch"}
Budget == used.starts + rec.resumes["capacity"] + rec.resumes["network"]
Counted ==
    /\ \A k \in Kinds : rec.resumes[k] <= Resumes[k]
    /\ run.pc \in {"plan", "wait"} => Kind \in Kinds
    /\ run.pc = "wait" => rec.resumes[Kind] < Resumes[Kind]
    /\ rec.launches <= Budget
    /\ run.pc \in Before => rec.launches < Budget

Traced ==
    /\ started \subseteq 1..rec.launches
    /\ trace.cur \in {0, rec.launches} /\ (trace.cur # 0 => trace.cur \in started)
    /\ \A n \in 1..MaxLaunches : /\ trace.old[n] \in {0, n}
                                 /\ trace.old[n] = n => n \in started
    /\ \A n \in started : trace.cur = n <=> trace.old[n] # n
    /\ run.pc \in {"remaining", "launch", "spawn"} => trace.cur = 0
    /\ run.pc = "spawn" => rec.launches \notin started /\ rec.launches # 0

Launchings == {"archive", "remaining", "launch", "spawn", "exec", "exited", "plan", "wait",
               "complete", "suspend"}
Final ==
    /\ cli => run.pc \in {"exec", "idle"}
    /\ jr.closed => jr.exists
    /\ jr.exists => rec.phase = "finalizing" /\ ~cli /\ run.pc \notin Launchings
    /\ run.pc \in {"settle", "recovered"} => rec.phase = "finalizing"
    /\ run.pc \in {"drain", "poll", "close", "confirm", "mark"} => jr.exists /\ ~jr.closed

\* The record lists no submission before the journal does, and every one made
\* over HTTP; the report judges the last of the journal.
Ending ==
    /\ solve.posted <= solve.listed /\ solve.listed <= solve.subs
    /\ solve.reported => ~solve.exec /\ solve.judged = solve.subs

\* Nobody submits over HTTP while a runner settles.
Receipted == jr.receipt \in solve.posted..solve.subs
Judged ==
    /\ run.pc \in {"close", "mark"} /\ ~jr.error => Receipted
    /\ jr.closed /\ ~jr.error => Receipted

AttemptInv ==
    /\ CreationInv /\ FileTypes /\ ActorTypes
    /\ Counted /\ Traced /\ Final /\ Ending /\ Judged

-----------------------------------------------------------------------------
(* The creation of the session                                             *)

LEMMA SidsRange ==
    ASSUME CreationTypeOK
    PROVE Len(sessions) \in Nat /\ Sids = 1..Len(sessions)
                             /\ \A s \in Sids : sessions[s] \in SessionRecords
<1>1. sessions \in Seq(SessionRecords)
  BY DEF CreationTypeOK, SessionRecords
<1> QED BY <1>1 DEF Sids

\* One session's record changes.
LEMMA RecordChanges ==
    ASSUME CreationTypeOK, NEW s \in Sids, NEW r \in SessionRecords,
           sessions' = [sessions EXCEPT ![s] = r]
    PROVE /\ sessions' \in Seq(SessionRecords) /\ Len(sessions') = Len(sessions)
          /\ Sids' = Sids /\ sessions'[s] = r
          /\ \A t \in Sids : t # s => sessions'[t] = sessions[t]
<1>1. sessions \in Seq(SessionRecords)
  BY DEF CreationTypeOK, SessionRecords
<1> QED BY <1>1, ExceptSeq DEF Sids

LEMMA CreateKeeps == ASSUME CreationInv, NEW i \in 1..Tries, Create(i) PROVE CreationInv'
<1> USE DEF CreationInv
<1>1. /\ Len(sessions) \in Nat /\ Sids = 1..Len(sessions) /\ up /\ handler.pc = "idle"
      /\ up' = up /\ Tries \in Nat \ {0} /\ MaxSessions \in Nat \ {0}
  BY SidsRange, CreationAssumption DEF Create
<1>2. CASE Sids # {}
  <2>1. UNCHANGED <<sessions, handler>> /\ request' = [request EXCEPT ![i] = Replayed]
    BY <1>2 DEF Create, Match
  <2>2. CreationTypeOK'
    BY <1>1, <2>1 DEF CreationTypeOK, Replayed
  <2> QED BY <1>1, <2>1, <2>2 DEF OneSession, Gated, Sids
<1>3. CASE Sids = {}
  <2>1. /\ sessions' = Append(sessions, NewSession) /\ request' = [request EXCEPT ![i] = "handled"]
        /\ handler' = [pc |-> "waiting", try |-> i, sid |-> Len(sessions) + 1]
    BY <1>3 DEF Create, Match
  <2>2. Len(sessions) = 0
    BY <1>1, <1>3
  <2>3. NewSession \in SessionRecords
    BY DEF NewSession, SessionRecords
  <2>4. /\ sessions' \in Seq(SessionRecords) /\ Len(sessions') = 1 /\ sessions'[1] = NewSession
        /\ Sids' = {1}
    <3>1. sessions \in Seq(SessionRecords)
      BY DEF CreationTypeOK, SessionRecords
    <3>2. /\ sessions' \in Seq(SessionRecords) /\ Len(sessions') = 1 /\ sessions'[1] = NewSession
      BY <2>1, <2>2, <2>3, <3>1, AppendProperties
    <3> QED BY <3>2 DEF Sids
  <2>5. CreationTypeOK'
    BY <1>1, <2>1, <2>2, <2>4 DEF CreationTypeOK, SessionRecords
  <2>6. OneSession'
    BY <1>1, <2>1, <2>2, <2>4 DEF OneSession
  <2>7. Gated'
    BY <2>1, <2>4 DEF Gated, NewSession
  <2> QED BY <2>5, <2>6, <2>7
<1> QED BY <1>2, <1>3

LEMMA AttachKeeps ==
    ASSUME CreationInv, NEW s \in Sids, Attach(s) \/ StartupFails(s),
           UNCHANGED <<up, request, handler>>
    PROVE CreationInv'
<1> USE DEF CreationInv
<1>1. sessions[s] \in SessionRecords /\ sessions[s].thread = "starting"
  BY SidsRange DEF Attach, StartupFails
<1>2. PICK r \in SessionRecords :
        /\ sessions' = [sessions EXCEPT ![s] = r]
        /\ r.replied = sessions[s].replied /\ r.refused = sessions[s].refused
        /\ r.abandoned = sessions[s].abandoned /\ r.thread # "starting"
        /\ sessions[s].attached => r.attached
        /\ r.attached => sessions[s].attached \/ ~sessions[s].abandoned
  <2>1. CASE sessions' = [sessions EXCEPT ![s].thread = "ended"]
    <3> DEFINE r == [sessions[s] EXCEPT !.thread = "ended"]
    <3>1. r \in SessionRecords /\ sessions' = [sessions EXCEPT ![s] = r]
      BY <1>1, <2>1 DEF SessionRecords
    <3> QED BY <1>1, <3>1 DEF SessionRecords
  <2>2. CASE ~sessions[s].abandoned
             /\ sessions' = [sessions EXCEPT ![s].attached = TRUE, ![s].thread = "running"]
    <3> DEFINE r == [sessions[s] EXCEPT !.attached = TRUE, !.thread = "running"]
    <3>1. sessions' = [sessions EXCEPT ![s] = r]
      BY <2>2, SidsRange
    <3>2. r \in SessionRecords
      BY <1>1 DEF SessionRecords
    <3> QED BY <1>1, <2>2, <3>1, <3>2 DEF SessionRecords
  <2> QED BY <2>1, <2>2 DEF Attach, StartupFails
<1>3. /\ sessions' \in Seq(SessionRecords) /\ Len(sessions') = Len(sessions)
      /\ Sids' = Sids /\ sessions'[s] = r
      /\ \A t \in Sids : t # s => sessions'[t] = sessions[t]
  BY <1>2, RecordChanges
<1>4. CreationTypeOK'
  BY <1>3 DEF CreationTypeOK, SessionRecords
<1>5. OneSession'
  BY <1>3 DEF OneSession
<1>6. Gated'
  BY <1>1, <1>2, <1>3 DEF Gated
<1> QED BY <1>4, <1>5, <1>6

\* The handler acts on the one session.
LEMMA HandlerActs ==
    ASSUME CreationInv, NEW s \in Sids, s = handler.sid, NEW r \in SessionRecords,
           handler.pc # "idle", sessions' = [sessions EXCEPT ![s] = r], up' = up,
           request' \in [1..Tries -> {"none", "queued", "handled", "created", "failed"}],
           \/ handler' = Idle
           \/ \E pc \in {"attached", "refused"} : handler' = [handler EXCEPT !.pc = pc],
           r.attached = sessions[s].attached, r.thread = sessions[s].thread,
           r.replied => r.attached,
           r.refused => ~r.attached /\ (r.abandoned \/ r.thread # "starting"),
           handler'.pc = "attached" => ~r.refused /\ r.attached,
           handler'.pc = "refused" => ~r.attached /\ (r.abandoned \/ r.thread # "starting")
    PROVE CreationInv'
<1> USE DEF CreationInv
<1>1. /\ sessions' \in Seq(SessionRecords) /\ Len(sessions') = Len(sessions)
      /\ Sids' = Sids /\ sessions'[s] = r
      /\ \A t \in Sids : t # s => sessions'[t] = sessions[t]
  BY RecordChanges
<1>2. \A t \in Sids : t = s
  BY SidsRange DEF OneSession
<1>3. handler' = Idle \/ (/\ handler'.pc \in {"attached", "refused"} /\ up
                         /\ handler'.try = handler.try /\ handler'.sid = handler.sid)
  BY DEF CreationTypeOK, OneSession
<1>4. handler' \in [pc : {"idle", "waiting", "attached", "refused"}, try : 0..Tries, sid : 0..MaxSessions]
  <2>1. Idle \in [pc : {"idle", "waiting", "attached", "refused"}, try : 0..Tries, sid : 0..MaxSessions]
    BY CreationAssumption DEF Idle
  <2> QED BY <2>1 DEF CreationTypeOK
<1>5. CreationTypeOK'
  BY <1>1, <1>4 DEF CreationTypeOK, SessionRecords
<1>6. OneSession'
  BY <1>1, <1>3 DEF OneSession, Idle
<1>7. Gated'
  BY <1>1, <1>2, <1>3 DEF Gated, Idle
<1> QED BY <1>5, <1>6, <1>7

LEMMA HandlerKeeps == ASSUME CreationInv, AwaitReady \/ Refuse \/ Reply PROVE CreationInv'
<1> USE DEF CreationInv
<1>1. handler.pc # "idle" /\ up' = up
  BY DEF AwaitReady, Refuse, Reply
<1>2. PICK s \in Sids : s = handler.sid
  BY <1>1 DEF OneSession
<1>3. sessions[s] \in SessionRecords
  BY SidsRange
<1>4. CASE AwaitReady
  <2> DEFINE r == [sessions[s] EXCEPT !.abandoned = ~sessions[s].attached]
             pc == IF sessions[s].attached THEN "attached" ELSE "refused"
  <2>1. /\ handler.pc = "waiting" /\ request' = request
        /\ handler' = [handler EXCEPT !.pc = pc]
    BY <1>2, <1>4 DEF AwaitReady
  <2>2. sessions' = [sessions EXCEPT ![s] = r]
    BY <1>2, <1>4 DEF AwaitReady
  <2>3. /\ r \in SessionRecords /\ r.attached = sessions[s].attached
        /\ r.thread = sessions[s].thread /\ r.replied = sessions[s].replied
        /\ r.refused = sessions[s].refused /\ r.abandoned = ~sessions[s].attached
    BY <1>3 DEF SessionRecords
  <2> HIDE DEF r
  <2>4. handler'.pc = pc
    BY <2>1 DEF CreationTypeOK
  <2> QED BY <1>1, <1>2, <2>1, <2>2, <2>3, <2>4, HandlerActs DEF Gated, CreationTypeOK
<1>5. CASE Refuse
  <2> DEFINE r == [sessions[s] EXCEPT !.refused = TRUE]
  <2>1. /\ handler.pc = "refused" /\ request' = [request EXCEPT ![handler.try] = "failed"]
        /\ handler' = Idle /\ sessions' = [sessions EXCEPT ![s] = r]
    BY <1>2, <1>5 DEF Refuse
  <2>2. /\ r \in SessionRecords /\ r.attached = sessions[s].attached
        /\ r.thread = sessions[s].thread /\ r.replied = sessions[s].replied
        /\ r.abandoned = sessions[s].abandoned
    BY <1>3 DEF SessionRecords
  <2> HIDE DEF r
  <2> QED BY <1>1, <1>2, <2>1, <2>2, HandlerActs DEF Gated, CreationTypeOK, Idle
<1>6. CASE Reply
  <2> DEFINE r == [sessions[s] EXCEPT !.replied = TRUE]
  <2>1. /\ handler.pc = "attached" /\ request' = [request EXCEPT ![handler.try] = "created"]
        /\ handler' = Idle /\ sessions' = [sessions EXCEPT ![s] = r]
    BY <1>2, <1>6 DEF Reply
  <2>2. /\ r \in SessionRecords /\ r.attached = sessions[s].attached
        /\ r.thread = sessions[s].thread /\ r.refused = sessions[s].refused
        /\ r.abandoned = sessions[s].abandoned
    BY <1>3 DEF SessionRecords
  <2> HIDE DEF r
  <2> QED BY <1>1, <1>2, <2>1, <2>2, HandlerActs DEF Gated, CreationTypeOK, Idle
<1> QED BY <1>4, <1>5, <1>6

LEMMA CreationStepKeeps == ASSUME CreationInv, CreationNext PROVE CreationInv'
BY CreateKeeps, AttachKeeps, HandlerKeeps DEF CreationNext, Handle, EvaluatorThread

\* A death or a restart of the service: every thread ends or goes on.
LEMMA RestartKeeps ==
    ASSUME CreationInv, up' \in BOOLEAN,
           handler' = Idle \/ (handler' = handler /\ handler.pc = "idle"),
           request' \in [1..Tries -> {"none", "queued", "handled", "created", "failed"}],
           sessions' \in [Sids -> SessionRecords],
           \A s \in Sids : /\ sessions'[s].replied = sessions[s].replied
                          /\ sessions'[s].refused = sessions[s].refused
                          /\ sessions'[s].attached = sessions[s].attached
                          /\ sessions'[s].thread # "starting"
    PROVE CreationInv' /\ Sids' = Sids
<1> USE DEF CreationInv
<1>1. Len(sessions) \in Nat /\ Sids = 1..Len(sessions)
  BY SidsRange
<1>2. sessions' \in [1..Len(sessions) -> SessionRecords]
  BY <1>1
<1>3. sessions' \in Seq(SessionRecords) /\ Len(sessions') = Len(sessions) /\ Sids' = Sids
  <2>1. DOMAIN sessions' = 1..Len(sessions) /\ sessions' \in Seq(SessionRecords)
    BY <1>1, <1>2
  <2>2. Len(sessions') = Len(sessions)
    BY <1>1, <2>1
  <2> QED BY <1>1, <2>1, <2>2 DEF Sids
<1>5. Idle \in [pc : {"idle", "waiting", "attached", "refused"}, try : 0..Tries, sid : 0..MaxSessions]
  BY CreationAssumption DEF Idle
<1>6. CreationTypeOK'
  BY <1>3, <1>5 DEF CreationTypeOK, SessionRecords
<1>7. OneSession' /\ Gated'
  BY <1>3 DEF OneSession, Gated, Idle
<1> QED BY <1>3, <1>6, <1>7

-----------------------------------------------------------------------------
(* What most steps leave alone                                             *)

LEMMA ConfigTyped ==
    ASSUME ActorTypes
    PROVE config \in [resume : BOOLEAN, recoverable : BOOLEAN, bounded : BOOLEAN]
BY AttemptAssumption DEF ActorTypes

LEMMA CreationRests ==
    ASSUME CreationInv, UNCHANGED <<up, sessions, handler>>,
           request' \in [1..Tries -> {"none", "queued", "handled", "created", "failed"}]
    PROVE CreationInv' /\ Sids' = Sids /\ (Attached' <=> Attached)
BY DEF CreationInv, CreationTypeOK, OneSession, Gated, Sids, Attached

\* The session goes on while the runner, its files and the CLI rest, but for
\* their clocks.
LEMMA SessionGoesOn ==
    ASSUME AttemptInv, UNCHANGED <<config, rec, trace, out, run, cli, started>>,
           used' \in Counters, used'.starts = used.starts,
           jr' = jr \/ jr' = [jr EXCEPT !.drain = "passed"],
           pending' \in {"none", "set", "passed"},
           CreationInv', Ending', solve' \in SolveRecords,
           solve.subs <= solve'.subs, cli \/ solve'.posted = solve.posted
    PROVE AttemptInv'
<1> USE DEF AttemptInv
<1>1. /\ jr'.exists = jr.exists /\ jr'.closed = jr.closed /\ jr'.error = jr.error
      /\ jr'.receipt = jr.receipt /\ jr' \in JrRecords
  BY DEF FileTypes, JrRecords
<1>2. FileTypes' /\ ActorTypes'
  BY <1>1 DEF FileTypes, ActorTypes
<1>3. Counted' /\ Traced' /\ Final'
  BY <1>1 DEF Counted, Traced, Final, Budget, Kind
<1>4. Judged'
  <2>1. solve.subs \in Int /\ solve'.subs \in Int /\ solve.posted \in Int
    BY AttemptAssumption DEF ActorTypes, SolveRecords
  <2>2. Receipted /\ ~cli => Receipted'
    BY <1>1, <2>1 DEF Receipted
  <2>3. ~cli \/ (~jr.closed /\ run.pc \notin {"close", "mark"})
    BY DEF Final
  <2> QED BY <1>1, <2>2, <2>3 DEF Judged
<1> QED BY <1>2, <1>3, <1>4

\* A step of the runner that launches nothing and settles nothing.
LEMMA RunnerGoesOn ==
    ASSUME AttemptInv, UNCHANGED <<config, up, sessions, handler, solve, trace, jr, started>>,
           request' \in [1..Tries -> {"none", "queued", "handled", "created", "failed"}],
           cli' = cli \/ cli' = FALSE,
           pending' \in {"none", "set", "passed"}, out' \in OutRecords,
           run' \in Locals, used' \in Counters, used.starts <= used'.starts,
           rec' \in RecRecords, rec'.launches = rec.launches, rec'.resumes = rec.resumes,
           jr.exists => rec'.phase = "finalizing",
           run'.pc \in Before =>
               run.pc \in Before \/ (used'.starts = used.starts + 1 /\ run.pc = "idle"),
           run'.pc \in {"plan", "wait"} => Kind' \in Kinds,
           run'.pc = "wait" => rec.resumes[Kind'] < Resumes[Kind'],
           run'.pc \in {"remaining", "launch"} => run.pc \in {"remaining", "launch"},
           run'.pc \in Launchings => ~jr.exists,
           run'.pc \in {"settle", "recovered"} => rec'.phase = "finalizing",
           run'.pc \in {"drain", "poll"} => run.pc \in {"drain", "poll"},
           run'.pc \notin {"spawn", "close", "confirm", "mark"},
           cli' => run'.pc = "idle"
    PROVE AttemptInv'
<1> USE DEF AttemptInv
<1>1. CreationInv' /\ Ending'
  BY CreationRests DEF Ending
<1>2. FileTypes' /\ ActorTypes'
  BY DEF FileTypes, ActorTypes
<1>3. Counted'
  <2>1. /\ rec.launches \in Nat /\ used.starts \in Nat /\ used'.starts \in Nat
        /\ rec.resumes["capacity"] \in Nat /\ rec.resumes["network"] \in Nat
    BY DEF FileTypes, RecRecords, Kinds, ActorTypes, Counters
  <2> QED BY <2>1 DEF Counted, Budget, Before
<1>4. Traced'
  BY DEF Traced
<1>5. Final'
  BY DEF Final, Launchings
<1>6. Judged'
  BY DEF Judged, Receipted
<1> QED BY <1>1, <1>2, <1>3, <1>4, <1>5, <1>6

\* A step of the settlement: nobody launches any more.
LEMMA SettlementGoesOn ==
    ASSUME AttemptInv, UNCHANGED <<config, up, sessions, request, handler, rec, trace, pending, out, cli, started>>,
           run.pc \in {"settle", "drain", "poll", "close", "confirm", "mark"},
           run' \in Locals, used' \in Counters, used'.starts = used.starts,
           solve' \in SolveRecords, Ending', jr' \in JrRecords,
           jr'.exists,
           run'.pc \in {"drain", "poll", "close", "confirm", "mark", "collect", "idle"},
           run'.pc \in {"drain", "poll", "close", "confirm", "mark"} => ~jr'.closed,
           Judged'
    PROVE AttemptInv'
<1> USE DEF AttemptInv
<1>1. CreationInv'
  BY CreationRests DEF CreationInv, CreationTypeOK
<1>2. FileTypes' /\ ActorTypes'
  BY DEF FileTypes, ActorTypes
<1>3. Counted'
  BY DEF Counted, Budget, Before
<1>4. Traced'
  BY DEF Traced
<1>5. Final'
  BY DEF Final, Launchings
<1> QED BY <1>1, <1>2, <1>3, <1>4, <1>5

-----------------------------------------------------------------------------
(* The session, its service and the clocks                                 *)

\* The numbers of the submissions can be compared.
LEMMA SubmissionsCount ==
    ASSUME AttemptInv
    PROVE /\ solve \in SolveRecords /\ MaxSubs \in Nat
          /\ solve.subs \in Int /\ solve.listed \in Int /\ solve.posted \in Int
          /\ solve.posted <= solve.listed /\ solve.listed <= solve.subs
BY AttemptAssumption DEF AttemptInv, ActorTypes, SolveRecords, Ending

\* The rest of the session's steps leave the runner and its files alone.
LEMMA SolveGoesOn ==
    ASSUME AttemptInv, SolveStep, Ending', solve' \in SolveRecords,
           solve.subs <= solve'.subs, cli \/ solve'.posted = solve.posted
    PROVE AttemptInv'
<1>1. CreationInv'
  BY CreationRests DEF SolveStep, AttemptInv, CreationInv, CreationTypeOK
<1> QED BY <1>1, SessionGoesOn DEF SolveStep, fileVars, AttemptInv, ActorTypes, FileTypes

LEMMA AgentSubmitsKeeps == ASSUME AttemptInv, AgentSubmits PROVE AttemptInv'
<1>1. /\ cli /\ State = "active" /\ solve.subs < MaxSubs /\ SolveStep
      /\ solve' = [solve EXCEPT !.subs = @ + 1, !.listed = solve.subs + 1, !.posted = solve.subs + 1]
  BY DEF AgentSubmits
<1>2. ~solve.reported /\ solve.subs + 1 \in 0..MaxSubs
  BY <1>1, SubmissionsCount DEF State, SolveRecords
<1>3. /\ solve' \in SolveRecords /\ ~solve'.reported
      /\ solve'.subs = solve.subs + 1 /\ solve'.listed = solve.subs + 1 /\ solve'.posted = solve.subs + 1
  BY <1>1, <1>2, SubmissionsCount DEF SolveRecords
<1>4. Ending' /\ solve.subs <= solve'.subs
  BY <1>3, SubmissionsCount DEF Ending
<1> QED BY <1>1, <1>3, <1>4, SolveGoesOn

LEMMA HelperSubmitsKeeps == ASSUME AttemptInv, HelperSubmits PROVE AttemptInv'
<1>1. /\ solve.exec /\ solve.subs < MaxSubs
      /\ solve' = [solve EXCEPT !.subs = @ + 1] /\ SolveStep
  BY DEF HelperSubmits
<1>2. solve.subs + 1 \in 0..MaxSubs /\ ~solve.reported
  BY <1>1, SubmissionsCount DEF SolveRecords, AttemptInv, Ending
<1>3. /\ solve' \in SolveRecords /\ ~solve'.reported
      /\ solve'.subs = solve.subs + 1 /\ solve'.listed = solve.listed /\ solve'.posted = solve.posted
  BY <1>1, <1>2, SubmissionsCount DEF SolveRecords
<1>4. Ending' /\ solve.subs <= solve'.subs
  BY <1>3, SubmissionsCount DEF Ending
<1> QED BY <1>1, <1>3, <1>4, SolveGoesOn

LEMMA SolveEndsKeeps ==
    ASSUME AttemptInv,
           AgentExecutes \/ AgentCloses \/ ExecutionEnds \/ DeadlinePasses \/ Expires \/ Evaluates
    PROVE AttemptInv'
<1>1. /\ SolveStep
      /\ \/ solve' = [solve EXCEPT !.exec = TRUE] /\ State = "active"
         \/ solve' \in {[solve EXCEPT !.closing = TRUE], [solve EXCEPT !.exec = FALSE],
                        [solve EXCEPT !.late = TRUE], [solve EXCEPT !.expired = TRUE]}
         \/ /\ ~solve.exec
            /\ solve' = [solve EXCEPT !.reported = TRUE, !.judged = solve.subs, !.listed = solve.subs]
  BY DEF AgentExecutes, AgentCloses, ExecutionEnds, DeadlinePasses, Expires, Evaluates, Remaining
<1>2. CASE solve' = [solve EXCEPT !.exec = TRUE] /\ State = "active"
  <2>1. ~solve.reported
    BY <1>2, SubmissionsCount DEF State, SolveRecords
  <2>2. /\ solve' \in SolveRecords /\ ~solve'.reported
        /\ solve'.subs = solve.subs /\ solve'.listed = solve.listed /\ solve'.posted = solve.posted
    BY <1>2, <2>1, SubmissionsCount DEF SolveRecords
  <2> QED BY <1>1, <2>2, SubmissionsCount, SolveGoesOn DEF Ending
<1>3. CASE solve' \in {[solve EXCEPT !.closing = TRUE], [solve EXCEPT !.exec = FALSE],
                       [solve EXCEPT !.late = TRUE], [solve EXCEPT !.expired = TRUE]}
  <2>1. /\ solve' \in SolveRecords /\ solve'.reported = solve.reported
        /\ solve'.judged = solve.judged /\ (solve'.exec => solve.exec)
        /\ solve'.subs = solve.subs /\ solve'.listed = solve.listed /\ solve'.posted = solve.posted
    BY <1>3, SubmissionsCount DEF SolveRecords
  <2>2. Ending'
    BY <2>1 DEF AttemptInv, Ending
  <2> QED BY <1>1, <2>1, <2>2, SubmissionsCount, SolveGoesOn
<1>4. CASE /\ ~solve.exec
           /\ solve' = [solve EXCEPT !.reported = TRUE, !.judged = solve.subs, !.listed = solve.subs]
  <2>1. /\ solve' \in SolveRecords /\ solve'.judged = solve.subs /\ ~solve'.exec
        /\ solve'.subs = solve.subs /\ solve'.listed = solve.subs /\ solve'.posted = solve.posted
    BY <1>4, SubmissionsCount DEF SolveRecords
  <2> QED BY <1>1, <2>1, SubmissionsCount, SolveGoesOn DEF Ending
<1> QED BY <1>1, <1>2, <1>3, <1>4

LEMMA CreationKeeps == ASSUME AttemptInv, Creation PROVE AttemptInv'
<1>1. CreationInv' /\ UNCHANGED <<config, solve, fileVars, run, cli, used, started>>
  BY CreationStepKeeps DEF Creation, AttemptInv
<1>2. Ending'
  BY <1>1 DEF AttemptInv, Ending
<1> QED BY <1>1, <1>2, SubmissionsCount, SessionGoesOn DEF fileVars, AttemptInv, ActorTypes, FileTypes

LEMMA ServiceDiesKeeps == ASSUME AttemptInv, ServiceDies PROVE AttemptInv'
<1> USE DEF AttemptInv
<1>1. /\ CreationDies /\ UNCHANGED <<config, solve, fileVars, run, cli, started>>
      /\ used' = [used EXCEPT !.crashes = @ + 1]
  BY DEF ServiceDies
<1>2. used' \in Counters /\ used'.starts = used.starts
  BY <1>1 DEF ActorTypes, Counters
<1>3. \A s \in Sids : sessions[s] \in SessionRecords
  BY SidsRange DEF CreationInv
<1>4. /\ sessions' \in [Sids -> SessionRecords]
      /\ \A s \in Sids : /\ sessions'[s].replied = sessions[s].replied
                         /\ sessions'[s].refused = sessions[s].refused
                         /\ sessions'[s].attached = sessions[s].attached
                         /\ sessions'[s].thread # "starting"
  BY <1>1, <1>3 DEF CreationDies, SessionRecords
<1>5. request' \in [1..Tries -> {"none", "queued", "handled", "created", "failed"}]
      /\ up' \in BOOLEAN /\ handler' = Idle
  BY <1>1 DEF CreationDies
<1>6. CreationInv' /\ Sids' = Sids
  BY <1>4, <1>5, RestartKeeps
<1>8. Ending'
  BY <1>1 DEF Ending
<1> QED BY <1>1, <1>2, <1>6, <1>8, SubmissionsCount, SessionGoesOn DEF fileVars, ActorTypes, FileTypes

LEMMA ServiceRestartsKeeps == ASSUME AttemptInv, ServiceRestarts PROVE AttemptInv'
<1> USE DEF AttemptInv
<1> DEFINE restored == config.recoverable /\ Attached /\ ~solve.closing /\ ~solve.reported
           thread == IF restored THEN "running" ELSE "ended"
           interrupted == ~solve.reported /\ ~restored /\ Sids # {}
<1>1. /\ ~up /\ up' = TRUE /\ UNCHANGED <<config, request, handler, fileVars, run, cli, used, started>>
      /\ sessions' = [s \in Sids |-> [sessions[s] EXCEPT !.thread = thread]]
      /\ solve' = [solve EXCEPT !.exec = FALSE, !.listed = solve.subs, !.interrupted = interrupted]
      /\ ~(restored /\ solve.expired)
  BY DEF ServiceRestarts
<1>2. handler.pc = "idle"
  BY <1>1 DEF CreationInv, OneSession
<1>3. \A s \in Sids : sessions[s] \in SessionRecords
  BY SidsRange DEF CreationInv
<1>4. /\ sessions' \in [Sids -> SessionRecords]
      /\ \A s \in Sids : /\ sessions'[s].replied = sessions[s].replied
                         /\ sessions'[s].refused = sessions[s].refused
                         /\ sessions'[s].attached = sessions[s].attached
                         /\ sessions'[s].thread # "starting"
  <2>1. thread \in {"running", "ended"}
    OBVIOUS
  <2> HIDE DEF thread
  <2> QED BY <1>1, <1>3, <2>1 DEF SessionRecords
<1>5. CreationInv' /\ Sids' = Sids
  BY <1>1, <1>2, <1>4, RestartKeeps DEF CreationInv, CreationTypeOK
<1>6. /\ solve' \in SolveRecords /\ ~solve'.exec /\ solve'.subs = solve.subs
      /\ solve'.judged = solve.judged /\ solve'.reported = solve.reported
      /\ solve'.listed = solve.subs /\ solve'.posted = solve.posted
  <2>1. interrupted \in BOOLEAN
    OBVIOUS
  <2> HIDE DEF interrupted
  <2> QED BY <1>1, <2>1, SubmissionsCount DEF SolveRecords
<1>7. Ending' /\ solve.subs <= solve'.subs
  BY <1>6, SubmissionsCount DEF Ending
<1> QED BY <1>1, <1>5, <1>6, <1>7, SessionGoesOn DEF fileVars, ActorTypes, FileTypes

LEMMA TimeKeeps == ASSUME AttemptInv, DrainDeadline \/ PendingDeadline PROVE AttemptInv'
<1> USE DEF AttemptInv
<1>1. CreationInv' /\ Ending'
  BY CreationRests DEF DrainDeadline, PendingDeadline, KeepAllButFiles, Quiet, Rest, Ending,
    CreationInv, CreationTypeOK
<1> QED BY <1>1, SubmissionsCount, SessionGoesOn DEF DrainDeadline, PendingDeadline, KeepAllButFiles, Quiet, Rest,
     ActorTypes, FileTypes

-----------------------------------------------------------------------------
(* The runner, up to the settlement                                        *)

LEMMA RunnerTyped ==
    ASSUME AttemptInv
    PROVE /\ run \in Locals /\ used \in Counters /\ rec \in RecRecords /\ out \in OutRecords
          /\ pending \in {"none", "set", "passed"} /\ Local \in Locals /\ trace \in TraceRecords
          /\ cli \in BOOLEAN /\ jr \in JrRecords /\ solve \in SolveRecords
          /\ request \in [1..Tries -> {"none", "queued", "handled", "created", "failed"}]
BY DEF AttemptInv, FileTypes, ActorTypes, CreationInv, CreationTypeOK, Local, Locals, Pcs, Errors

\* A failed call counts as a fault, or as none when the service is down.
LEMMA CallCounts ==
    ASSUME AttemptInv, Call \/ CallFails
    PROVE used' \in Counters /\ used'.starts = used.starts
BY RunnerTyped DEF Call, CallFails, Counters

\* The runner raises, returns or dies: the next one finds the files.
LEMMA RunnerEnds ==
    ASSUME AttemptInv, run' = Local, UNCHANGED <<config, up, sessions, handler, solve, trace, jr, started>>,
           request' \in [1..Tries -> {"none", "queued", "handled", "created", "failed"}],
           cli' = cli \/ cli' = FALSE, pending' \in {"none", "set", "passed"}, out' \in OutRecords,
           used' \in Counters, used'.starts = used.starts, rec' = rec
    PROVE AttemptInv'
<1>1. run'.pc = "idle" /\ run' \in Locals
  BY RunnerTyped DEF Local
<1>2. used.starts <= used'.starts
  BY RunnerTyped DEF Counters
<1>3. jr.exists => rec'.phase = "finalizing"
  BY DEF AttemptInv, Final
<1>4. rec' \in RecRecords /\ rec'.launches = rec.launches /\ rec'.resumes = rec.resumes
  BY RunnerTyped
<1> QED BY <1>1, <1>2, <1>3, <1>4, RunnerGoesOn DEF Before, Launchings

\* The runner turns to a step that neither launches nor settles.
Turns == {"open", "create", "creating", "status", "collect", "export", "exporting", "observe",
          "return", "recover", "suspend"}
LEMMA RunnerTurns ==
    ASSUME AttemptInv, UNCHANGED <<config, up, sessions, handler, solve, trace, jr, cli, started>>,
           request' \in [1..Tries -> {"none", "queued", "handled", "created", "failed"}],
           run' \in Locals, run'.pc \in Turns, ~cli,
           pending' \in {"none", "set", "passed"}, out' \in OutRecords,
           used' \in Counters, used.starts <= used'.starts,
           rec' \in RecRecords, rec'.launches = rec.launches, rec'.resumes = rec.resumes,
           rec'.phase = rec.phase,
           run'.pc \in Before =>
               run.pc \in Before \/ (used'.starts = used.starts + 1 /\ run.pc = "idle"),
           run'.pc = "suspend" => ~jr.exists
    PROVE AttemptInv'
BY RunnerGoesOn DEF AttemptInv, Final, Before, Launchings, Turns

LEMMA StartKeeps == ASSUME AttemptInv, Start PROVE AttemptInv'
<1>1. /\ run.pc = "idle" /\ ~cli /\ KeepAll /\ used.starts < MaxStarts
      /\ used' = [used EXCEPT !.starts = @ + 1]
      /\ run' \in {[run EXCEPT !.pc = "open"], [run EXCEPT !.pc = "recover"]}
  BY DEF Start, At, Goto
<1>2. used' \in Counters /\ used'.starts = used.starts + 1 /\ used.starts \in Nat
  BY <1>1, RunnerTyped, AttemptAssumption DEF Counters
<1>3. run' \in Locals /\ run'.pc \in {"open", "recover"}
  BY <1>1, RunnerTyped DEF Locals, Pcs
<1> QED BY <1>1, <1>2, <1>3, RunnerTyped, RunnerTurns
     DEF KeepAll, Quiet, Rest, fileVars, Turns

LEMMA OpenKeeps == ASSUME AttemptInv, Open PROVE AttemptInv'
<1>1. /\ run.pc = "open" /\ Quiet /\ rec' = [rec EXCEPT !.exists = TRUE]
      /\ UNCHANGED <<trace, jr, pending, out, cli, used, started>>
      /\ run' \in {[run EXCEPT !.pc = "create"], [run EXCEPT !.pc = "status"]}
  BY DEF Open, At, Goto
<1>2. /\ rec' \in RecRecords /\ rec'.launches = rec.launches /\ rec'.resumes = rec.resumes
      /\ rec'.phase = rec.phase
  BY <1>1, RunnerTyped DEF RecRecords
<1>3. run' \in Locals /\ run'.pc \in {"create", "status"}
  BY <1>1, RunnerTyped DEF Locals, Pcs
<1>4. ~cli /\ used.starts <= used.starts
  BY <1>1, RunnerTyped DEF AttemptInv, Final, Counters
<1> QED BY <1>1, <1>2, <1>3, <1>4, RunnerTyped, RunnerTurns DEF Quiet, Rest, Turns, Before

LEMMA CreateSendKeeps == ASSUME AttemptInv, CreateSend PROVE AttemptInv'
<1>1. PICK i \in 1..Tries :
        /\ request' = [request EXCEPT ![i] = "queued"]
        /\ run' = [run EXCEPT !.pc = "creating", !.tries = @ + 1, !.wait = i]
  BY DEF CreateSend
<1>2. /\ run.pc = "create"
      /\ UNCHANGED <<config, up, sessions, handler, solve, fileVars, cli, used, started>>
  BY DEF CreateSend, At
<1>3. run' \in Locals /\ run'.pc = "creating"
  <2>1. run.tries + 1 \in Nat /\ i \in Nat /\ "creating" \in Pcs
    BY RunnerTyped, CreationAssumption DEF Locals, Pcs
  <2>2. run' = [run EXCEPT !.pc = "creating", !.tries = run.tries + 1, !.wait = i]
    BY <1>1
  <2> QED BY <2>1, <2>2, RunnerTyped DEF Locals
<1>4. request' \in [1..Tries -> {"none", "queued", "handled", "created", "failed"}]
  BY <1>1, RunnerTyped
<1>5. ~cli /\ used.starts <= used.starts
  BY <1>2, RunnerTyped DEF AttemptInv, Final, Counters
<1> QED BY <1>2, <1>3, <1>4, <1>5, RunnerTyped, RunnerTurns DEF fileVars, Turns, Before

LEMMA CreateReceiveKeeps == ASSUME AttemptInv, CreateReceive PROVE AttemptInv'
<1>1. /\ run.pc = "creating"
      /\ request' = [i \in 1..Tries |-> IF Free(i) THEN "none" ELSE request[i]]
      /\ UNCHANGED <<config, up, sessions, handler, solve, trace, jr, pending, out, cli, used, started>>
  BY DEF CreateReceive, At
<1>2. request' \in [1..Tries -> {"none", "queued", "handled", "created", "failed"}]
  BY <1>1, RunnerTyped
<1>3. ~cli /\ used.starts <= used.starts
  BY <1>1, RunnerTyped DEF AttemptInv, Final, Counters
<1>4. CASE run' = Local /\ rec' = rec
  BY <1>1, <1>2, <1>4, RunnerTyped, RunnerEnds
<1>5. CASE rec' = [rec EXCEPT !.created = Len(sessions)] /\ run' = [Local EXCEPT !.pc = "status"]
  <2>1. Len(sessions) \in 0..MaxSessions
    BY SidsRange DEF AttemptInv, CreationInv, CreationTypeOK
  <2>2. /\ rec' \in RecRecords /\ rec'.launches = rec.launches /\ rec'.resumes = rec.resumes
        /\ rec'.phase = rec.phase
    BY <1>5, <2>1, RunnerTyped DEF RecRecords
  <2>3. run' \in Locals /\ run'.pc = "status"
    BY <1>5, RunnerTyped DEF Locals, Pcs
  <2> QED BY <1>1, <1>2, <1>3, <2>2, <2>3, RunnerTyped, RunnerTurns DEF Turns, Before
<1> QED BY <1>4, <1>5 DEF CreateReceive, Raises, Ends

LEMMA CreateLostKeeps == ASSUME AttemptInv, CreateLost PROVE AttemptInv'
<1>1. run.pc \in {"create", "creating"} /\ KeepAll /\ used' \in Counters /\ used'.starts = used.starts
  BY RunnerTyped, CallCounts DEF CreateLost, At
<1>2. \/ run' = Local
      \/ \E n \in {run.tries, run.tries + 1} : run' = [run EXCEPT !.pc = "create", !.tries = n]
  BY DEF CreateLost, Raises, Ends
<1>3. ~cli /\ used.starts <= used.starts
  BY <1>1, RunnerTyped DEF AttemptInv, Final, Counters
<1>4. CASE run' = Local
  BY <1>1, <1>4, RunnerTyped, RunnerEnds DEF KeepAll, Quiet, Rest, fileVars
<1>5. CASE \E n \in {run.tries, run.tries + 1} : run' = [run EXCEPT !.pc = "create", !.tries = n]
  <2>0. PICK n \in {run.tries, run.tries + 1} : run' = [run EXCEPT !.pc = "create", !.tries = n]
    BY <1>5
  <2>1. run' \in Locals /\ run'.pc = "create"
    <3>1. n \in Nat /\ "create" \in Pcs
      BY RunnerTyped DEF Locals, Pcs
    <3> QED BY <2>0, <3>1, RunnerTyped DEF Locals
  <2> QED BY <1>1, <1>3, <2>1, RunnerTyped, RunnerTurns DEF KeepAll, Quiet, Rest, fileVars, Turns, Before
<1> QED BY <1>2, <1>4, <1>5

LEMMA EndsKeep ==
    ASSUME AttemptInv, StatusFails \/ Suspend \/ Return \/ RunnerDies \/ OrphanEnds
    PROVE AttemptInv'
<1>1. CASE StatusFails \/ Suspend \/ Return
  <2>1. run' = Local /\ KeepAll /\ used' \in Counters /\ used'.starts = used.starts
    BY <1>1, RunnerTyped, CallCounts DEF StatusFails, Suspend, Return, Raises, Ends
  <2> QED BY <2>1, RunnerTyped, RunnerEnds DEF KeepAll, Quiet, Rest, fileVars
<1>2. CASE RunnerDies
  <2>1. used' \in Counters /\ used'.starts = used.starts
    BY <1>2, RunnerTyped DEF RunnerDies, Counters
  <2> QED BY <1>2, <2>1, RunnerTyped, RunnerEnds DEF RunnerDies, KeepAll, Quiet, Rest, fileVars
<1>3. CASE OrphanEnds
  <2>1. run.pc = "idle" /\ used.starts <= used.starts
    BY <1>3, RunnerTyped DEF OrphanEnds, At, Counters
  <2> QED BY <1>3, <2>1, RunnerTyped, RunnerGoesOn
       DEF OrphanEnds, Quiet, Rest, fileVars, Launchings, Before, AttemptInv, Final
<1> QED BY <1>1, <1>2, <1>3

LEMMA ReadStatusKeeps == ASSUME AttemptInv, ReadStatus PROVE AttemptInv'
<1>1. /\ run.pc = "status" /\ Quiet /\ used' = used
      /\ UNCHANGED <<trace, jr, pending, out, cli, started>>
  BY DEF ReadStatus, At, Call
<1>2. ~cli /\ used.starts <= used.starts
  BY <1>1, RunnerTyped DEF AttemptInv, Final, Counters
<1>3. CASE run' = Local /\ rec' = rec
  BY <1>1, <1>3, RunnerTyped, RunnerEnds DEF Quiet, Rest
<1>4. CASE run' = [run EXCEPT !.pc = "collect"] /\ rec' = rec
  <2>1. run' \in Locals /\ run'.pc = "collect"
    BY <1>4, RunnerTyped DEF Locals, Pcs
  <2> QED BY <1>1, <1>2, <1>4, <2>1, RunnerTyped, RunnerTurns DEF Quiet, Rest, Turns, Before
<1>5. CASE /\ run' = [run EXCEPT !.pc = "settle"]
           /\ rec' = [rec EXCEPT !.phase = "finalizing"] \/ (rec' = rec /\ rec.phase = "finalizing")
  <2>1. run' \in Locals /\ run'.pc = "settle"
    BY <1>5, RunnerTyped DEF Locals, Pcs
  <2>2. /\ rec' \in RecRecords /\ rec'.launches = rec.launches /\ rec'.resumes = rec.resumes
        /\ rec'.phase = "finalizing"
    BY <1>5, RunnerTyped DEF RecRecords
  <2> QED BY <1>1, <1>2, <2>1, <2>2, RunnerTyped, RunnerGoesOn DEF Quiet, Rest, Before, Launchings
<1>6. CASE run' = [run EXCEPT !.pc = "archive"] /\ rec' = rec /\ rec.phase # "finalizing"
  <2>1. run' \in Locals /\ run'.pc = "archive"
    BY <1>6, RunnerTyped DEF Locals, Pcs
  <2>2. ~jr.exists
    BY <1>6 DEF AttemptInv, Final
  <2> QED BY <1>1, <1>2, <1>6, <2>1, <2>2, RunnerTyped, RunnerGoesOn DEF Quiet, Rest, Before, Launchings
<1> QED BY <1>3, <1>4, <1>5, <1>6 DEF ReadStatus, Goto, Raises, Ends

-----------------------------------------------------------------------------
(* Launching the CLI, its exit and the continuations                       *)

\* A step of the launching part that leaves the session and the settlement.
LEMMA LaunchGoesOn ==
    ASSUME AttemptInv, run.pc \in Launchings,
           UNCHANGED <<config, up, sessions, request, handler, solve, jr, pending, out, used>>,
           rec' \in RecRecords, trace' \in TraceRecords, run' \in Locals, cli' \in BOOLEAN,
           run'.pc \in Launchings, cli' => run'.pc = "exec",
           Counted', Traced'
    PROVE AttemptInv'
<1> USE DEF AttemptInv
<1>1. CreationInv' /\ Ending'
  BY CreationRests DEF Ending, CreationInv, CreationTypeOK
<1>2. FileTypes' /\ ActorTypes'
  BY DEF FileTypes, ActorTypes
<1>3. Final'
  BY DEF Final, Launchings
<1>4. Judged'
  BY DEF Judged, Receipted, Final, Launchings
<1> QED BY <1>1, <1>2, <1>3, <1>4

LEMMA ArchiveTracesKeeps == ASSUME AttemptInv, ArchiveTraces PROVE AttemptInv'
<1>1. /\ run.pc = "archive" /\ run' = [run EXCEPT !.pc = "remaining"] /\ Quiet
      /\ UNCHANGED <<rec, jr, pending, out, cli, used, started>>
      /\ trace' = IF trace.cur # 0
                  THEN [cur |-> 0, old |-> [trace.old EXCEPT ![rec.launches] = trace.cur]] ELSE trace
  BY DEF ArchiveTraces, At, Goto
<1>2. run' \in Locals /\ run'.pc = "remaining" /\ ~cli
  BY <1>1, RunnerTyped DEF Locals, Pcs, AttemptInv, Final
<1>9. run.pc \in Launchings /\ run'.pc \in Launchings /\ cli' \in BOOLEAN /\ ~cli'
  BY <1>1, <1>2, RunnerTyped DEF Launchings
<1>3. Counted'
  BY <1>1, <1>2, RunnerTyped DEF AttemptInv, Counted, Budget, Before, Quiet, Rest
<1>4. /\ trace.cur \in {0, rec.launches} /\ (trace.cur # 0 => trace.cur \in 1..MaxLaunches)
      /\ trace.cur \in 0..MaxLaunches /\ trace.old \in [1..MaxLaunches -> 0..MaxLaunches]
  BY RunnerTyped DEF AttemptInv, Traced, FileTypes, TraceRecords, RecRecords
<1>5. trace' \in TraceRecords /\ Traced'
  <2>1. CASE trace.cur = 0
    <3>1. trace' = trace
      BY <1>1, <2>1
    <3> QED BY <1>1, <1>2, <2>1, <3>1 DEF AttemptInv, Traced, FileTypes
  <2>2. CASE trace.cur # 0
    <3>0. MaxLaunches \in Nat
      BY AttemptAssumption DEF MaxLaunches, Kinds
    <3>1. /\ trace.cur = rec.launches /\ rec.launches \in 1..MaxLaunches
          /\ trace'.cur = 0 /\ trace'.old = [trace.old EXCEPT ![rec.launches] = rec.launches]
          /\ trace' = [cur |-> 0, old |-> trace'.old]
      BY <1>1, <1>4, <2>2
    <3>2. trace'.old \in [1..MaxLaunches -> 0..MaxLaunches]
      BY <1>4, <3>0, <3>1
    <3>3. trace' \in TraceRecords
      BY <3>0, <3>1, <3>2 DEF TraceRecords
    <3>4. rec.launches \in started /\ started \subseteq 1..rec.launches
      BY <2>2, <3>1 DEF AttemptInv, Traced
    <3>5. started \subseteq 1..MaxLaunches /\ rec.launches \in Nat /\ rec.launches <= MaxLaunches
      BY <3>0, <3>1, <3>4
    <3>6. \A n \in 1..MaxLaunches :
            trace'.old[n] = IF n = rec.launches THEN rec.launches ELSE trace.old[n]
      BY <1>4, <3>1
    <3>7. \A n \in started : trace'.old[n] = n
      BY <2>2, <3>1, <3>5, <3>6 DEF AttemptInv, Traced
    <3>8. \A n \in 1..MaxLaunches : /\ trace'.old[n] \in {0, n}
                                    /\ trace'.old[n] = n => n \in started
      BY <3>4, <3>6 DEF AttemptInv, Traced
    <3>9. \A n \in started : n # 0
      BY <3>4
    <3>10. UNCHANGED <<rec, started>> /\ trace'.cur = 0 /\ run'.pc = "remaining"
      BY <1>1, <1>2, <3>1
    <3> QED BY <3>3, <3>4, <3>7, <3>8, <3>9, <3>10 DEF Traced
  <2> QED BY <2>1, <2>2
<1> QED BY <1>1, <1>2, <1>3, <1>5, <1>9, RunnerTyped, LaunchGoesOn DEF Quiet, Rest

LEMMA ReadRemainingKeeps == ASSUME AttemptInv, ReadRemaining PROVE AttemptInv'
<1>1. run.pc = "remaining" /\ KeepAll /\ used' \in Counters /\ used'.starts = used.starts
  BY RunnerTyped, CallCounts DEF ReadRemaining, At
<1>2. /\ ~cli /\ used.starts <= used'.starts /\ ~jr.exists
      /\ (jr.exists => rec.phase = "finalizing")
  BY <1>1, RunnerTyped DEF AttemptInv, Final, Counters, Launchings
<1>3. run' \in {[run EXCEPT !.pc = "launch"], [run EXCEPT !.pc = "complete", !.err = "timeout"],
                [run EXCEPT !.pc = "complete", !.err = "call"]}
  BY DEF ReadRemaining, Goto
<1>4. run' \in Locals /\ run'.pc \in {"launch", "complete"}
  BY <1>3, RunnerTyped DEF Locals, Pcs, Errors
<1> QED BY <1>1, <1>2, <1>4, RunnerTyped, RunnerGoesOn
     DEF KeepAll, Quiet, Rest, fileVars, Before

\* The launches saved so far leave room for one more.
LEMMA LaunchesFit ==
    ASSUME AttemptInv PROVE Budget \in 0..MaxLaunches /\ rec.launches \in 0..MaxLaunches
<1>1. /\ Resumes.capacity = Resumes["capacity"] /\ Resumes.network = Resumes["network"]
      /\ Resumes["capacity"] \in Nat /\ Resumes["network"] \in Nat /\ MaxStarts \in Nat
  BY AttemptAssumption DEF Kinds
<1>2. /\ rec.resumes["capacity"] \in 0..Resumes["capacity"]
      /\ rec.resumes["network"] \in 0..Resumes["network"]
      /\ used.starts \in 0..MaxStarts /\ rec.launches \in 0..MaxLaunches
  BY <1>1, RunnerTyped DEF AttemptInv, Counted, Kinds, RecRecords, Counters
<1> QED BY <1>1, <1>2 DEF Budget, MaxLaunches

LEMMA BeginLaunchKeeps == ASSUME AttemptInv, BeginLaunch PROVE AttemptInv'
<1>1. /\ run.pc = "launch" /\ run' = [run EXCEPT !.pc = "spawn", !.err = "none"] /\ Quiet
      /\ UNCHANGED <<trace, jr, pending, out, cli, used, started>>
      /\ rec' = [rec EXCEPT !.launches = rec.launches + 1, !.phase = "running"]
  BY DEF BeginLaunch, At
<1>2. run' \in Locals /\ run'.pc = "spawn" /\ ~cli
  BY <1>1, RunnerTyped DEF Locals, Pcs, Errors, AttemptInv, Final
<1>3. rec.launches < Budget /\ rec.launches \in Nat /\ Budget \in Nat
      /\ rec.launches + 1 \in 0..MaxLaunches
  <2>1. Budget \in Nat /\ Budget <= MaxLaunches /\ rec.launches \in Nat /\ MaxLaunches \in Nat
    <3>1. MaxLaunches \in Nat
      BY AttemptAssumption DEF MaxLaunches, Kinds
    <3> QED BY <3>1, LaunchesFit
  <2>2. rec.launches < Budget
    BY <1>1 DEF AttemptInv, Counted, Before
  <2> QED BY <2>1, <2>2
<1>4. /\ rec' \in RecRecords /\ rec'.launches = rec.launches + 1 /\ rec'.resumes = rec.resumes
  BY <1>1, <1>3, RunnerTyped DEF RecRecords
<1>5. Counted'
  <2>1. Budget' = Budget
    BY <1>1, <1>4 DEF Budget
  <2> QED BY <1>1, <1>2, <1>3, <1>4, <2>1 DEF AttemptInv, Counted, Before
<1>6. Traced'
  <2>1. trace.cur = 0 /\ started \subseteq 1..rec.launches
    BY <1>1 DEF AttemptInv, Traced
  <2>2. /\ started \subseteq 1..rec'.launches /\ rec'.launches \notin started
        /\ rec'.launches # 0
    BY <1>3, <1>4, <2>1
  <2> QED BY <1>1, <1>2, <2>1, <2>2 DEF AttemptInv, Traced
<1>7. /\ run.pc \in Launchings /\ run'.pc \in Launchings /\ cli' \in BOOLEAN /\ ~cli'
      /\ trace' \in TraceRecords
  BY <1>1, <1>2, RunnerTyped DEF Launchings
<1> QED BY <1>1, <1>2, <1>4, <1>5, <1>6, <1>7, LaunchGoesOn DEF Quiet, Rest

LEMMA SpawnKeeps == ASSUME AttemptInv, Spawn PROVE AttemptInv'
<1>1. /\ run.pc = "spawn" /\ run' = [run EXCEPT !.pc = "exec"] /\ Quiet /\ cli' = TRUE
      /\ UNCHANGED <<rec, jr, pending, out, used>>
      /\ trace' = [trace EXCEPT !.cur = rec.launches] /\ started' = started \cup {rec.launches}
  BY DEF Spawn, At, Goto
<1>2. run' \in Locals /\ run'.pc = "exec"
  BY <1>1, RunnerTyped DEF Locals, Pcs
<1>3. /\ trace' \in TraceRecords /\ trace'.cur = rec.launches /\ trace'.old = trace.old
      /\ rec.launches \in Nat /\ rec.launches \in 0..MaxLaunches
  BY <1>1, RunnerTyped DEF AttemptInv, FileTypes, TraceRecords, RecRecords
<1>4. Counted'
  BY <1>1, <1>2 DEF AttemptInv, Counted, Budget, Before
<1>5. Traced'
  <2>1. rec.launches \notin started /\ rec.launches # 0 /\ started \subseteq 1..rec.launches
    BY <1>1 DEF AttemptInv, Traced
  <2>2. trace.old[rec.launches] # rec.launches /\ rec.launches \in 1..MaxLaunches
    BY <1>3, <2>1 DEF AttemptInv, Traced
  <2>3. \A n \in started : n # rec.launches /\ trace.old[n] = n
    BY <1>1, <2>1 DEF AttemptInv, Traced
  <2> QED BY <1>1, <1>2, <1>3, <2>1, <2>2, <2>3 DEF AttemptInv, Traced
<1> QED BY <1>1, <1>2, <1>3, <1>4, <1>5, RunnerTyped, LaunchGoesOn DEF Quiet, Rest, Launchings

LEMMA ExecEndsKeeps == ASSUME AttemptInv, ExecEnds \/ ExecStopped PROVE AttemptInv'
<1>1. /\ run.pc = "exec" /\ cli' = FALSE /\ Quiet /\ UNCHANGED <<fileVars, started>>
      /\ used' \in Counters /\ used'.starts = used.starts
  BY RunnerTyped, CallCounts DEF ExecEnds, ExecStopped, ExecOver, At
<1>2. /\ used.starts <= used'.starts /\ ~jr.exists
  BY <1>1, RunnerTyped DEF AttemptInv, Final, Counters, Launchings
<1>3. \/ \E e \in Exits : run' = [run EXCEPT !.pc = "exited", !.err = e]
      \/ run' = [run EXCEPT !.pc = "exited", !.err = "timeout"]
      \/ run' = [run EXCEPT !.pc = "complete", !.err = "call"]
  BY DEF ExecEnds, ExecStopped
<1>4. PICK e \in Errors, pc \in {"exited", "complete"} : run' = [run EXCEPT !.pc = pc, !.err = e]
  BY <1>3, AttemptAssumption DEF Errors
<1>5. run' \in Locals /\ run'.pc \in {"exited", "complete"}
  BY <1>4, RunnerTyped DEF Locals, Pcs
<1> QED BY <1>1, <1>2, <1>5, RunnerTyped, RunnerGoesOn DEF Quiet, Rest, fileVars, Before

LEMMA ExitedKeeps == ASSUME AttemptInv, Exited PROVE AttemptInv'
<1>1. /\ run.pc = "exited" /\ Quiet /\ UNCHANGED <<trace, jr, pending, out, cli, used, started>>
  BY DEF Exited, At
<1>2. ~cli /\ used.starts <= used'.starts /\ ~jr.exists
  BY <1>1, RunnerTyped DEF AttemptInv, Final, Counters, Launchings
<1>3. CASE /\ Kind \in Kinds /\ run' = [run EXCEPT !.pc = "plan"]
           /\ rec' = [rec EXCEPT !.capacity = @ \/ Kind = "capacity"]
  <2>1. PICK c \in BOOLEAN : rec' = [rec EXCEPT !.capacity = c]
    <3>1. (rec.capacity \/ Kind = "capacity") \in BOOLEAN
      OBVIOUS
    <3> QED BY <1>3, <3>1
  <2>2. rec' \in RecRecords /\ rec'.launches = rec.launches /\ rec'.resumes = rec.resumes
    BY <2>1, RunnerTyped DEF RecRecords
  <2>3. run' \in Locals /\ run'.pc = "plan" /\ run'.err = run.err
    BY <1>3, RunnerTyped DEF Locals, Pcs
  <2>4. Kind' \in Kinds
    BY <1>1, <1>3, <2>3 DEF Kind, Quiet, Rest
  <2> QED BY <1>1, <1>2, <2>2, <2>3, <2>4, RunnerTyped, RunnerGoesOn DEF Quiet, Rest, Before
<1>4. CASE run' = [run EXCEPT !.pc = "complete"] /\ rec' = rec
  <2>1. run' \in Locals /\ run'.pc = "complete"
    BY <1>4, RunnerTyped DEF Locals, Pcs
  <2> QED BY <1>1, <1>2, <1>4, <2>1, RunnerTyped, RunnerGoesOn DEF Quiet, Rest, Before
<1> QED BY <1>3, <1>4 DEF Exited, Goto

LEMMA PlanResumeKeeps == ASSUME AttemptInv, PlanResume PROVE AttemptInv'
<1>1. /\ run.pc = "plan" /\ Quiet /\ UNCHANGED <<trace, jr, pending, out, cli, started>>
      /\ used' \in Counters /\ used'.starts = used.starts
  BY RunnerTyped, CallCounts DEF PlanResume, At
<1>2. ~cli /\ used.starts <= used'.starts /\ ~jr.exists /\ Kind \in Kinds
  BY <1>1, RunnerTyped DEF AttemptInv, Final, Counters, Launchings, Counted
<1>3. CASE /\ run' = [run EXCEPT !.pc = "wait"] /\ rec' = [rec EXCEPT !.phase = "waiting"]
           /\ rec.resumes[Kind] < Resumes[Kind]
  <2>1. rec' \in RecRecords /\ rec'.launches = rec.launches /\ rec'.resumes = rec.resumes
    BY <1>3, RunnerTyped DEF RecRecords
  <2>2. run' \in Locals /\ run'.pc = "wait" /\ run'.err = run.err
    BY <1>3, RunnerTyped DEF Locals, Pcs
  <2>3. Kind' = Kind
    BY <1>1, <2>2 DEF Kind, Quiet, Rest
  <2> QED BY <1>1, <1>2, <1>3, <2>1, <2>2, <2>3, RunnerTyped, RunnerGoesOn DEF Quiet, Rest, Before
<1>4. CASE /\ rec' = rec
           /\ run' \in {[run EXCEPT !.pc = "complete"], [run EXCEPT !.pc = "complete", !.err = "call"]}
  <2>1. run' \in Locals /\ run'.pc = "complete"
    BY <1>4, RunnerTyped DEF Locals, Pcs, Errors
  <2> QED BY <1>1, <1>2, <1>4, <2>1, RunnerTyped, RunnerGoesOn DEF Quiet, Rest, Before
<1> QED BY <1>3, <1>4 DEF PlanResume, Goto

LEMMA WaitEndsKeeps == ASSUME AttemptInv, WaitEnds PROVE AttemptInv'
<1>1. /\ run.pc = "wait" /\ Quiet /\ UNCHANGED <<trace, jr, pending, out, cli, started>>
      /\ used' \in Counters /\ used'.starts = used.starts
  BY RunnerTyped, CallCounts DEF WaitEnds, At
<1>2. /\ ~cli /\ used.starts <= used'.starts /\ ~jr.exists
      /\ Kind \in Kinds /\ rec.resumes[Kind] < Resumes[Kind]
  BY <1>1, RunnerTyped DEF AttemptInv, Final, Counters, Launchings, Counted
<1>3. CASE /\ run' = [run EXCEPT !.pc = "archive"] /\ used' = used
           /\ rec' = [rec EXCEPT !.phase = "ready", !.resumes[Kind] = @ + 1]
  <2>1. PICK k \in Kinds : k = Kind
    BY <1>2
  <2>2. rec.resumes \in [Kinds -> Nat] /\ rec.launches \in Nat /\ used.starts \in Nat
    BY RunnerTyped DEF RecRecords, Counters
  <2>3. [rec.resumes EXCEPT ![k] = @ + 1] \in [Kinds -> Nat]
    BY <2>2
  <2>4. /\ rec' \in RecRecords /\ rec'.launches = rec.launches
        /\ rec'.resumes = [rec.resumes EXCEPT ![k] = @ + 1]
    <3> DEFINE resumes == [rec.resumes EXCEPT ![k] = @ + 1]
    <3>1. rec' = [rec EXCEPT !.phase = "ready", !.resumes = resumes]
      BY <1>3, <2>1, RunnerTyped DEF RecRecords
    <3>2. resumes \in [Kinds -> Nat]
      BY <2>3
    <3> HIDE DEF resumes
    <3>3. rec' \in RecRecords /\ rec'.launches = rec.launches /\ rec'.resumes = resumes
      BY <3>1, <3>2, RunnerTyped DEF RecRecords
    <3> QED BY <3>3 DEF resumes
  <2>5. run' \in Locals /\ run'.pc = "archive"
    BY <1>3, RunnerTyped DEF Locals, Pcs
  <2>6. Counted'
    <3>1. \A j \in Kinds : rec'.resumes[j] <= Resumes[j]
      BY <1>2, <2>1, <2>2, <2>4, AttemptAssumption DEF AttemptInv, Counted
    <3>2. rec.launches <= Budget /\ Budget \in Nat /\ Budget' = Budget + 1
      BY <1>3, <2>2, <2>4 DEF AttemptInv, Counted, Budget, Kinds
    <3> QED BY <2>2, <2>4, <2>5, <3>1, <3>2 DEF Counted
  <2>7. Traced'
    BY <1>1, <2>4, <2>5 DEF AttemptInv, Traced
  <2>8. /\ run.pc \in Launchings /\ run'.pc \in Launchings /\ cli' \in BOOLEAN /\ ~cli'
        /\ trace' \in TraceRecords
    BY <1>1, <1>2, <2>5, RunnerTyped DEF Launchings
  <2> QED BY <1>1, <1>3, <2>4, <2>5, <2>6, <2>7, <2>8, LaunchGoesOn DEF Quiet, Rest
<1>4. CASE /\ rec' = rec
           /\ run' \in {[run EXCEPT !.pc = "complete"], [run EXCEPT !.pc = "complete", !.err = "call"]}
  <2>1. run' \in Locals /\ run'.pc = "complete"
    BY <1>4, RunnerTyped DEF Locals, Pcs, Errors
  <2> QED BY <1>1, <1>2, <1>4, <2>1, RunnerTyped, RunnerGoesOn DEF Quiet, Rest, Before
<1> QED BY <1>3, <1>4 DEF WaitEnds, Goto, Call

LEMMA CompleteKeeps == ASSUME AttemptInv, Complete PROVE AttemptInv'
<1>1. /\ run.pc = "complete" /\ Quiet /\ UNCHANGED <<trace, jr, pending, out, cli, used, started>>
      /\ \/ rec' = [rec EXCEPT !.phase = "suspended"] /\ run' = [Local EXCEPT !.pc = "suspend"]
         \/ rec' = [rec EXCEPT !.phase = "finalizing"] /\ run' = [Local EXCEPT !.pc = "settle"]
  BY DEF Complete, At
<1>2. ~cli /\ used.starts <= used'.starts /\ ~jr.exists
  BY <1>1, RunnerTyped DEF AttemptInv, Final, Counters, Launchings
<1>3. /\ rec' \in RecRecords /\ rec'.launches = rec.launches /\ rec'.resumes = rec.resumes
      /\ run' \in Locals
      /\ run'.pc = "suspend" \/ (run'.pc = "settle" /\ rec'.phase = "finalizing")
  BY <1>1, RunnerTyped DEF RecRecords, Locals, Pcs
<1> QED BY <1>1, <1>2, <1>3, RunnerTyped, RunnerGoesOn DEF Quiet, Rest, Before

-----------------------------------------------------------------------------
(* Settlement and collection                                               *)

LEMMA SettleKeeps == ASSUME AttemptInv, Settle PROVE AttemptInv'
<1>1. /\ run.pc = "settle" /\ Quiet /\ UNCHANGED <<rec, trace, pending, out, cli, used, started>>
      /\ jr' = [jr EXCEPT !.exists = TRUE, !.closed = FALSE, !.error = FALSE]
      /\ run' = [run EXCEPT !.pc = "drain", !.primary = "none"]
  BY DEF Settle, At
<1>2. jr' \in JrRecords /\ jr'.exists /\ ~jr'.closed
  BY <1>1, RunnerTyped DEF JrRecords
<1>3. run' \in Locals /\ run'.pc = "drain"
  BY <1>1, RunnerTyped DEF Locals, Pcs
<1>4. Judged' /\ Ending'
  BY <1>1, <1>2, <1>3 DEF Judged, Ending, Quiet, AttemptInv
<1> QED BY <1>1, <1>2, <1>3, <1>4, RunnerTyped, SettlementGoesOn DEF Quiet, Rest

\* Where the session rests, so does how it may end.
LEMMA EndingRests == ASSUME AttemptInv, Quiet PROVE Ending'
BY DEF AttemptInv, Ending, Quiet

\* What the session lists is a receipt for the settlement to record.
LEMMA ReceiptRead ==
    ASSUME AttemptInv, Quiet, jr.exists, ~jr.closed, jr' = [jr EXCEPT !.receipt = solve.listed]
    PROVE jr' \in JrRecords /\ jr'.exists /\ ~jr'.closed /\ Receipted'
<1>1. solve' = solve
  BY DEF Quiet
<1>2. jr' \in JrRecords /\ jr'.exists /\ ~jr'.closed /\ jr'.receipt = solve.listed
  BY RunnerTyped DEF JrRecords, SolveRecords
<1> QED BY <1>1, <1>2, SubmissionsCount DEF Receipted

LEMMA DrainReadsKeeps == ASSUME AttemptInv, DrainReads PROVE AttemptInv'
<1>1. /\ run.pc = "drain" /\ Quiet /\ UNCHANGED <<rec, trace, pending, out, cli, started>>
      /\ used' \in Counters /\ used'.starts = used.starts /\ jr.exists /\ ~jr.closed
  BY RunnerTyped, CallCounts DEF DrainReads, At, AttemptInv, Final
<1>2. solve.listed \in 0..MaxSubs
  BY RunnerTyped DEF SolveRecords
<1>5. CASE \E p \in {"mark", "close"} : Drained(p)
  <2>1. PICK p \in {"mark", "close"} : Drained(p)
    BY <1>5
  <2>2. jr' \in JrRecords /\ jr'.exists /\ ~jr'.closed /\ Receipted'
    BY <1>1, <2>1, ReceiptRead DEF Drained
  <2>3. run' \in Locals /\ run'.pc = p
    BY <2>1, RunnerTyped DEF Drained, Goto, Locals, Pcs
  <2>4. Judged'
    BY <2>2 DEF Judged
  <2> QED BY <1>1, <2>2, <2>3, <2>4, EndingRests, RunnerTyped, SettlementGoesOn
       DEF Quiet, Rest
<1>7. CASE /\ run' = [run EXCEPT !.pc = "poll"]
           /\ \E d \in {"none", "set", "passed"} : jr' = [jr EXCEPT !.receipt = solve.listed, !.drain = d]
  <2>1. jr' \in JrRecords /\ jr'.exists /\ ~jr'.closed
    BY <1>1, <1>2, <1>7, RunnerTyped DEF JrRecords
  <2>2. run' \in Locals /\ run'.pc = "poll"
    BY <1>7, RunnerTyped DEF Locals, Pcs
  <2>3. Judged'
    BY <1>1, <1>7, <2>1, <2>2 DEF Judged
  <2> QED BY <1>1, <1>7, <2>1, <2>2, <2>3, EndingRests, RunnerTyped, SettlementGoesOn
       DEF Quiet, Rest
<1>8. CASE /\ run' = [run EXCEPT !.pc = "close", !.primary = "error"]
           /\ jr' = [jr EXCEPT !.error = TRUE]
  <2>1. jr' \in JrRecords /\ jr'.exists /\ ~jr'.closed /\ jr'.error
    BY <1>1, <1>8, RunnerTyped DEF JrRecords
  <2>2. run' \in Locals /\ run'.pc = "close"
    BY <1>8, RunnerTyped DEF Locals, Pcs
  <2>3. Judged'
    BY <1>1, <1>8, <2>1, <2>2 DEF Judged
  <2> QED BY <1>1, <1>8, <2>1, <2>2, <2>3, EndingRests, RunnerTyped, SettlementGoesOn
       DEF Quiet, Rest
<1>9. jr.drain \in {"none", "set", "passed"}
  BY RunnerTyped DEF JrRecords
<1>10. CASE /\ run' = [run EXCEPT !.pc = "poll"]
            /\ jr' = [jr EXCEPT !.receipt = solve.listed,
                                !.drain = IF ~config.bounded THEN "none" ELSE IF @ = "none" THEN "set" ELSE @]
  BY <1>7, <1>9, <1>10
<1> QED BY <1>5, <1>8, <1>10 DEF DrainReads, Goto

LEMMA DrainPollsKeeps == ASSUME AttemptInv, DrainPolls PROVE AttemptInv'
<1>1. /\ run.pc = "poll" /\ Quiet /\ UNCHANGED <<rec, trace, pending, out, cli, started>>
      /\ used' \in Counters /\ used'.starts = used.starts /\ jr.exists /\ ~jr.closed
  BY RunnerTyped, CallCounts DEF DrainPolls, At, AttemptInv, Final
<1>2. CASE jr' = jr /\ run' = [run EXCEPT !.pc = "drain"]
  <2>1. run' \in Locals /\ run'.pc = "drain"
    BY <1>2, RunnerTyped DEF Locals, Pcs
  <2>2. Judged'
    BY <1>1, <1>2, <2>1 DEF Judged
  <2> QED BY <1>1, <1>2, <2>1, <2>2, EndingRests, RunnerTyped, SettlementGoesOn
       DEF Quiet, Rest
<1>3. CASE /\ jr' = [jr EXCEPT !.error = TRUE]
           /\ run' \in {[run EXCEPT !.pc = "close", !.primary = "timeout"],
                        [run EXCEPT !.pc = "close", !.primary = "error"]}
  <2>1. run' \in Locals /\ run'.pc = "close"
    BY <1>3, RunnerTyped DEF Locals, Pcs
  <2>2. jr' \in JrRecords /\ jr'.exists /\ ~jr'.closed /\ jr'.error
    BY <1>1, <1>3, RunnerTyped DEF JrRecords
  <2>3. Judged'
    BY <2>1, <2>2 DEF Judged
  <2> QED BY <1>1, <2>1, <2>2, <2>3, EndingRests, RunnerTyped, SettlementGoesOn
       DEF Quiet, Rest
<1> QED BY <1>2, <1>3 DEF DrainPolls, Goto

LEMMA CloseKeeps == ASSUME AttemptInv, Close PROVE AttemptInv'
<1>1. /\ run.pc = "close" /\ Rest /\ UNCHANGED <<rec, trace, pending, out, cli, started>>
      /\ used' \in Counters /\ used'.starts = used.starts /\ jr.exists /\ ~jr.closed
  BY RunnerTyped, CallCounts DEF Close, At, AttemptInv, Final
<1>2. ASSUME State = "active", solve' = [solve EXCEPT !.closing = TRUE]
      PROVE /\ solve' \in SolveRecords /\ Ending' /\ (Receipted /\ jr'.receipt = jr.receipt => Receipted')
  <2>1. /\ solve' \in SolveRecords /\ solve'.reported = solve.reported /\ solve'.exec = solve.exec
        /\ solve'.subs = solve.subs /\ solve'.listed = solve.listed /\ solve'.posted = solve.posted
        /\ solve'.judged = solve.judged
    BY <1>2, RunnerTyped DEF SolveRecords
  <2> QED BY <2>1 DEF AttemptInv, Ending, Receipted
<1>3. CASE /\ State = "active" /\ solve' = [solve EXCEPT !.closing = TRUE]
           /\ run' = [run EXCEPT !.pc = "mark"] /\ jr' = jr
  <2>1. run' \in Locals /\ run'.pc = "mark"
    BY <1>3, RunnerTyped DEF Locals, Pcs
  <2>2. Judged'
    BY <1>1, <1>2, <1>3, <2>1 DEF AttemptInv, Judged
  <2> QED BY <1>1, <1>2, <1>3, <2>1, <2>2, RunnerTyped, SettlementGoesOn DEF Rest
<1>4. CASE run' = [run EXCEPT !.pc = "confirm"] /\ jr' = jr /\ solve' = solve
  <2>1. run' \in Locals /\ run'.pc = "confirm"
    BY <1>4, RunnerTyped DEF Locals, Pcs
  <2>2. Judged'
    BY <1>1, <1>4, <2>1 DEF Judged
  <2> QED BY <1>1, <1>4, <2>1, <2>2, EndingRests, RunnerTyped, SettlementGoesOn
       DEF Quiet, Rest
<1>5. CASE /\ solve' = solve \/ (State = "active" /\ solve' = [solve EXCEPT !.closing = TRUE])
           /\ jr' = [jr EXCEPT !.error = TRUE] /\ run' = Local
  <2>1. solve' \in SolveRecords /\ Ending'
    BY <1>1, <1>2, <1>5, EndingRests, RunnerTyped DEF Quiet
  <2>2. jr' \in JrRecords /\ jr'.exists /\ ~jr'.closed
    BY <1>1, <1>5, RunnerTyped DEF JrRecords
  <2>3. run' \in Locals /\ run'.pc = "idle"
    BY <1>5, RunnerTyped DEF Local
  <2>4. Judged'
    BY <2>2, <2>3 DEF Judged
  <2> QED BY <1>1, <2>1, <2>2, <2>3, <2>4, RunnerTyped, SettlementGoesOn DEF Rest
<1> QED BY <1>3, <1>4, <1>5 DEF Close, Goto, Raises, Ends

LEMMA ConfirmKeeps == ASSUME AttemptInv, Confirm PROVE AttemptInv'
<1>1. /\ run.pc = "confirm" /\ Quiet /\ UNCHANGED <<rec, trace, pending, out, cli, started>>
      /\ used' \in Counters /\ used'.starts = used.starts /\ jr.exists /\ ~jr.closed
  BY RunnerTyped, CallCounts DEF Confirm, At, AttemptInv, Final
<1>2. CASE jr' = [jr EXCEPT !.receipt = solve.listed] /\ run' = [run EXCEPT !.pc = "mark"]
  <2>1. run' \in Locals /\ run'.pc = "mark"
    BY <1>2, RunnerTyped DEF Locals, Pcs
  <2>2. jr' \in JrRecords /\ jr'.exists /\ ~jr'.closed /\ Receipted'
    BY <1>1, <1>2, ReceiptRead
  <2>3. Judged'
    BY <2>2 DEF Judged
  <2> QED BY <1>1, <2>1, <2>2, <2>3, EndingRests, RunnerTyped, SettlementGoesOn DEF Quiet, Rest
<1>3. CASE jr' = [jr EXCEPT !.error = TRUE] /\ run' = Local
  <2>1. jr' \in JrRecords /\ jr'.exists /\ ~jr'.closed
    BY <1>1, <1>3, RunnerTyped DEF JrRecords
  <2>2. run' \in Locals /\ run'.pc = "idle"
    BY <1>3, RunnerTyped DEF Local
  <2>3. Judged'
    BY <2>1, <2>2 DEF Judged
  <2> QED BY <1>1, <1>3, <2>1, <2>2, <2>3, EndingRests, RunnerTyped, SettlementGoesOn DEF Quiet, Rest
<1> QED BY <1>2, <1>3 DEF Confirm, Goto, Raises, Ends

LEMMA MarkClosedKeeps == ASSUME AttemptInv, MarkClosed PROVE AttemptInv'
<1>1. /\ run.pc = "mark" /\ Quiet /\ UNCHANGED <<rec, trace, pending, out, cli, used, started>>
      /\ jr' = [jr EXCEPT !.closed = TRUE] /\ jr.exists
      /\ run' \in {Local, [Local EXCEPT !.pc = "collect"]}
  BY DEF MarkClosed, At, Raises, Ends, AttemptInv, Final
<1>2. run' \in Locals /\ run'.pc \in {"idle", "collect"}
  BY <1>1, RunnerTyped DEF Locals, Pcs, Local
<1>3. jr' \in JrRecords /\ jr'.exists /\ jr'.error = jr.error /\ jr'.receipt = jr.receipt
  BY <1>1, RunnerTyped DEF JrRecords
<1>4. Judged'
  BY <1>1, <1>2, <1>3 DEF AttemptInv, Judged, Receipted, Quiet
<1> QED BY <1>1, <1>2, <1>3, <1>4, EndingRests, RunnerTyped, SettlementGoesOn
     DEF Quiet, Rest

LEMMA WaitResultKeeps == ASSUME AttemptInv, WaitResult PROVE AttemptInv'
<1>1. /\ run.pc = "collect" /\ Quiet /\ UNCHANGED <<rec, trace, jr, out, cli, started>>
      /\ used' \in Counters /\ used'.starts = used.starts
  BY RunnerTyped, CallCounts DEF WaitResult, At
<1>2. ~cli /\ used.starts <= used'.starts
  BY <1>1, RunnerTyped DEF AttemptInv, Final, Counters
<1>3. pending' \in {"none", "set", "passed"}
  BY RunnerTyped DEF WaitResult, Deadline
<1>4. CASE run' = Local
  BY <1>1, <1>3, <1>4, RunnerTyped, RunnerEnds DEF Quiet, Rest
<1>5. CASE run' \in {run, [run EXCEPT !.pc = "export"]}
  <2>1. run' \in Locals /\ run'.pc \in {"collect", "export"}
    BY <1>1, <1>5, RunnerTyped DEF Locals, Pcs
  <2> QED BY <1>1, <1>2, <1>3, <2>1, RunnerTyped, RunnerTurns DEF Quiet, Rest, Turns, Before
<1> QED BY <1>4, <1>5 DEF WaitResult, Goto, Raises, Ends

LEMMA ExportStartsKeeps == ASSUME AttemptInv, ExportStarts PROVE AttemptInv'
<1>1. /\ run.pc = "export" /\ Quiet /\ UNCHANGED <<rec, trace, jr, pending, cli, used, started>>
  BY DEF ExportStarts, At
<1>2. ~cli /\ used.starts <= used'.starts
  BY <1>1, RunnerTyped DEF AttemptInv, Final, Counters
<1>3. solve.judged \in 0..MaxSubs
  BY RunnerTyped DEF SolveRecords
<1>4. out' \in OutRecords
  BY <1>3, RunnerTyped DEF ExportStarts, OutRecords
<1>5. CASE run' = Local
  BY <1>1, <1>4, <1>5, RunnerTyped, RunnerEnds DEF Quiet, Rest
<1>6. CASE run' \in {[run EXCEPT !.pc = "exporting"], [run EXCEPT !.pc = "observe"]}
  <2>1. run' \in Locals /\ run'.pc \in {"exporting", "observe"}
    BY <1>6, RunnerTyped DEF Locals, Pcs
  <2> QED BY <1>1, <1>2, <1>4, <2>1, RunnerTyped, RunnerTurns DEF Quiet, Rest, Turns, Before
<1> QED BY <1>5, <1>6 DEF ExportStarts, Goto, Raises, Ends

LEMMA ExportEndsKeeps == ASSUME AttemptInv, ExportEnds PROVE AttemptInv'
<1>1. /\ run.pc = "exporting" /\ Quiet /\ UNCHANGED <<rec, trace, jr, pending, cli, used, started>>
      /\ out' = [out EXCEPT !.analysis = "done"] /\ run' = [run EXCEPT !.pc = "observe"]
  BY DEF ExportEnds, At, Goto
<1>2. ~cli /\ used.starts <= used'.starts
  BY <1>1, RunnerTyped DEF AttemptInv, Final, Counters
<1>3. out' \in OutRecords /\ run' \in Locals /\ run'.pc = "observe"
  BY <1>1, RunnerTyped DEF OutRecords, Locals, Pcs
<1> QED BY <1>1, <1>2, <1>3, RunnerTyped, RunnerTurns DEF Quiet, Rest, Turns, Before

LEMMA ObserveKeeps == ASSUME AttemptInv, Observe PROVE AttemptInv'
<1>1. /\ run.pc = "observe" /\ Quiet /\ UNCHANGED <<rec, trace, jr, pending, cli, started>>
      /\ used' \in Counters /\ used'.starts = used.starts
  BY RunnerTyped, CallCounts DEF Observe, At
<1>2. ~cli /\ used.starts <= used'.starts
  BY <1>1, RunnerTyped DEF AttemptInv, Final, Counters
<1>3. out' \in OutRecords
  BY RunnerTyped DEF Observe, OutRecords
<1>4. CASE run' = Local
  BY <1>1, <1>3, <1>4, RunnerTyped, RunnerEnds DEF Quiet, Rest
<1>5. CASE run' = [run EXCEPT !.pc = "return"]
  <2>1. run' \in Locals /\ run'.pc = "return"
    BY <1>5, RunnerTyped DEF Locals, Pcs
  <2> QED BY <1>1, <1>2, <1>3, <2>1, RunnerTyped, RunnerTurns DEF Quiet, Rest, Turns, Before
<1> QED BY <1>4, <1>5 DEF Observe, Goto, Raises, Ends

LEMMA RecoverKeeps == ASSUME AttemptInv, Recover PROVE AttemptInv'
<1>1. /\ run.pc = "recover" /\ Quiet /\ UNCHANGED <<trace, jr, pending, out, cli, started>>
      /\ used' \in Counters /\ used'.starts = used.starts
  BY RunnerTyped, CallCounts DEF Recover, At
<1>2. ~cli /\ used.starts <= used'.starts
  BY <1>1, RunnerTyped DEF AttemptInv, Final, Counters
<1>3. CASE run' = Local /\ rec' = rec
  BY <1>1, <1>3, RunnerTyped, RunnerEnds DEF Quiet, Rest
<1>4. CASE rec' = [rec EXCEPT !.phase = "finalizing"] /\ run' = [run EXCEPT !.pc = "recovered"]
  <2>1. /\ rec' \in RecRecords /\ rec'.launches = rec.launches /\ rec'.resumes = rec.resumes
        /\ rec'.phase = "finalizing"
    BY <1>4, RunnerTyped DEF RecRecords
  <2>2. run' \in Locals /\ run'.pc = "recovered"
    BY <1>4, RunnerTyped DEF Locals, Pcs
  <2> QED BY <1>1, <1>2, <2>1, <2>2, RunnerTyped, RunnerGoesOn DEF Quiet, Rest, Before, Launchings
<1> QED BY <1>3, <1>4 DEF Recover, Goto, Raises, Ends

LEMMA RecoveredKeeps == ASSUME AttemptInv, Recovered PROVE AttemptInv'
<1>1. run.pc = "recovered" /\ KeepAll /\ used' \in Counters /\ used'.starts = used.starts
  BY RunnerTyped, CallCounts DEF Recovered, At
<1>2. ~cli /\ used.starts <= used'.starts /\ rec.phase = "finalizing"
  BY <1>1, RunnerTyped DEF AttemptInv, Final, Counters
<1>3. CASE run' = Local
  BY <1>1, <1>3, RunnerTyped, RunnerEnds DEF KeepAll, Quiet, Rest, fileVars
<1>4. CASE run' \in {[run EXCEPT !.pc = "settle"], [run EXCEPT !.pc = "collect"]}
  <2>1. run' \in Locals /\ run'.pc \in {"settle", "collect"}
    BY <1>4, RunnerTyped DEF Locals, Pcs
  <2> QED BY <1>1, <1>2, <2>1, RunnerTyped, RunnerGoesOn
       DEF KeepAll, Quiet, Rest, fileVars, Before, Launchings
<1> QED BY <1>3, <1>4 DEF Recovered, Goto, Raises, Ends

-----------------------------------------------------------------------------

LEMMA AttemptStarts == ASSUME Init PROVE AttemptInv
<1> USE CreationAssumption, AttemptAssumption
<1>1. CreationInv
  <2>1. sessions = <<>> /\ Len(sessions) = 0 /\ Sids = {} /\ handler = Idle
    BY DEF Init, CreationInit, Sids
  <2>2. Idle \in [pc : {"idle", "waiting", "attached", "refused"}, try : 0..Tries, sid : 0..MaxSessions]
    BY DEF Idle
  <2>3. sessions \in Seq(SessionRecords)
    BY <2>1
  <2>4. CreationTypeOK
    BY <2>1, <2>2, <2>3 DEF Init, CreationInit, CreationTypeOK, SessionRecords
  <2> QED BY <2>1, <2>4 DEF CreationInv, OneSession, Gated, Idle
<1>2. MaxLaunches \in Nat /\ MaxSubs \in Nat /\ MaxStarts \in Nat /\ MaxSessions \in Nat
  BY DEF MaxLaunches, Kinds
<1>3. FileTypes
  <2>1. /\ [k \in Kinds |-> 0] \in [Kinds -> Nat]
        /\ [n \in 1..MaxLaunches |-> 0] \in [1..MaxLaunches -> 0..MaxLaunches]
    BY <1>2
  <2> QED BY <1>2, <2>1 DEF Init, FileTypes, RecRecords, TraceRecords, JrRecords, OutRecords
<1>4. ActorTypes
  <2>1. solve \in SolveRecords /\ used \in Counters
    BY <1>2 DEF Init, SolveRecords, Counters
  <2>2. run \in Locals
    BY DEF Init, Locals, Pcs, Errors, Local
  <2> QED BY <2>1, <2>2 DEF Init, ActorTypes
<1>5. Counted
  BY DEF Init, Counted, Local, Budget, Kinds, Before
<1>6. Traced /\ Final /\ Ending /\ Judged
  BY <1>2 DEF Init, Traced, Final, Ending, Judged, Local, Launchings
<1> QED BY <1>1, <1>3, <1>4, <1>5, <1>6 DEF AttemptInv

LEMMA AttemptRests == ASSUME AttemptInv, UNCHANGED vars PROVE AttemptInv'
<1>1. UNCHANGED <<config, up, sessions, request, handler, solve, rec, trace, jr, pending, out, run,
                  cli, used, started>>
  BY DEF vars, serviceVars, fileVars
<1>2. CreationInv' /\ Sids' = Sids /\ (Attached' <=> Attached)
  BY <1>1, RunnerTyped, CreationRests DEF AttemptInv
<1> QED BY <1>1, <1>2 DEF AttemptInv, FileTypes, ActorTypes, Counted, Budget, Kind, Before, Traced,
     Final, Ending, Judged, Receipted

LEMMA LaunchingKeeps == ASSUME AttemptInv, Launching PROVE AttemptInv'
BY OpenKeeps, CreateSendKeeps, CreateReceiveKeeps, CreateLostKeeps, ReadStatusKeeps, EndsKeep,
   ArchiveTracesKeeps, ReadRemainingKeeps, BeginLaunchKeeps, SpawnKeeps, ExecEndsKeeps, ExitedKeeps,
   PlanResumeKeeps, WaitEndsKeeps, CompleteKeeps
   DEF Launching

LEMMA SettlingKeeps == ASSUME AttemptInv, Settling PROVE AttemptInv'
BY SettleKeeps, DrainReadsKeeps, DrainPollsKeeps, CloseKeeps, ConfirmKeeps, MarkClosedKeeps,
   WaitResultKeeps, ExportStartsKeeps, ExportEndsKeeps, ObserveKeeps, EndsKeep, RecoverKeeps,
   RecoveredKeeps
   DEF Settling

LEMMA AttemptStepKeeps == ASSUME AttemptInv, [Next]_vars PROVE AttemptInv'
<1>1. CASE Runner
  BY <1>1, LaunchingKeeps, SettlingKeeps DEF Runner
<1>2. CASE Time \/ Session
  BY <1>2, TimeKeeps, SolveEndsKeeps DEF Time, Session
<1>3. CASE Start \/ ExecEnds \/ Creation \/ RunnerDies \/ OrphanEnds
  BY <1>3, StartKeeps, ExecEndsKeeps, CreationKeeps, EndsKeep
<1>4. CASE AgentSubmits \/ AgentExecutes \/ AgentCloses \/ HelperSubmits
  BY <1>4, AgentSubmitsKeeps, SolveEndsKeeps, HelperSubmitsKeeps
<1>5. CASE ServiceDies \/ ServiceRestarts
  BY <1>5, ServiceDiesKeeps, ServiceRestartsKeeps
<1> QED BY <1>1, <1>2, <1>3, <1>4, <1>5, AttemptRests DEF Next

(* The inductive invariant of an attempt, its files, its CLI, the session  *)
(* and the session's creation holds of every behaviour, whichever steps    *)
(* fail and whichever process dies (runner.py, settlement.py, recovery.py, *)
(* evidence.py, controller.py).                                            *)
THEOREM AttemptInvariant == Spec => []AttemptInv
<1>1. Init => AttemptInv
  BY AttemptStarts
<1>2. AttemptInv /\ [Next]_vars => AttemptInv'
  BY AttemptStepKeeps
<1> QED BY <1>1, <1>2, PTL DEF Spec

(* The files of the attempt and the locals of its runner keep their types; *)
(* in particular no more launches are numbered than the runners and their  *)
(* continuations account for (runner.py:138-145).                          *)
THEOREM AttemptTypeOK == Spec => []TypeOK
<1>1. AttemptInv => TypeOK
  BY RunnerTyped DEF AttemptInv, TypeOK, CreationInv, FileTypes, ActorTypes, SolveRecords,
     RecRecords, TraceRecords, JrRecords, OutRecords, Locals
<1> QED BY <1>1, AttemptInvariant, PTL

(* However often the creation request is repeated and whenever the service *)
(* dies, the key has one session at most; a refused session is never       *)
(* attached and a confirmed one was (controller.py:76-88, 324-328;         *)
(* supervisor.py:82-88, 114-121).                                          *)
THEOREM CreationStaysHonest == Spec => []CreationHonest
<1>1. AttemptInv => CreationHonest
  BY DEF AttemptInv, CreationInv, OneSession, Gated, CreationHonest
<1> QED BY <1>1, AttemptInvariant, PTL

(* The files named for a launch hold that launch's output, after any       *)
(* continuation and any restart of the runner (runner.py:138-145,          *)
(* evidence.py:63-84).                                                     *)
THEOREM EveryTraceKept == Spec => []TracesKept
<1>1. AttemptInv => TracesKept
  BY DEF AttemptInv, Traced, TracesKept
<1> QED BY <1>1, AttemptInvariant, PTL

(* Once settlement has begun no runner launches the CLI again, whichever   *)
(* step failed or died since (runner.py:102-113, 207-214;                  *)
(* settlement.py:24).                                                      *)
THEOREM SettlementStaysFinal == Spec => []SettlementFinal
<1>1. AttemptInv => SettlementFinal
  BY DEF AttemptInv, Final, Launchings, SettlementFinal
<1> QED BY <1>1, AttemptInvariant, PTL

(* The receipt that settlement records with a clean close is no older than *)
(* the last submission over HTTP and no newer than the candidate that is   *)
(* judged (settlement.py:24-116).                                          *)
THEOREM RecordedReceiptCurrent == Spec => []ReceiptCurrent
<1>1. AttemptInv => ReceiptCurrent
  BY DEF AttemptInv, Judged, Receipted, Ending, ReceiptCurrent
<1> QED BY <1>1, AttemptInvariant, PTL

-----------------------------------------------------------------------------
(* Why a CLI ended                                                         *)

LEMMA LeastNatural ==
    ASSUME NEW U, U \subseteq Nat, U # {} PROVE \E n \in U : \A m \in U : n <= m
<1>1. PICK R : R = OpToRel(<, Nat)
  OBVIOUS
<1>2. \A n, m \in Nat : n < m => <<n, m>> \in R
  BY <1>1 DEF OpToRel
<1>3. IsWellFoundedOn(R, Nat)
  BY <1>1, NatLessThanWellFounded
<1>4. PICK n \in U : \A m \in U : ~(<<m, n>> \in R)
  BY <1>3, WFMin
<1>5. \A m \in U : ~(m < n)
  BY <1>2, <1>4
<1> QED BY <1>5

LEMMA NatSetInduction ==
    ASSUME NEW U, 0 \in U, \A n \in Nat : n \in U => n + 1 \in U
    PROVE Nat \subseteq U
<1>1. SUFFICES ASSUME Nat \ U # {} PROVE FALSE
  OBVIOUS
<1>2. PICK n \in Nat \ U : \A m \in Nat \ U : n <= m
  <2>1. PICK V : V = Nat \ U
    OBVIOUS
  <2> QED BY <1>1, <2>1, LeastNatural
<1>3. n # 0 /\ n - 1 \in Nat /\ n - 1 \notin Nat \ U
  BY <1>2
<1> QED BY <1>2, <1>3

\* What a CLI tells of itself, and what its adapter may say of its end.
CliEvents ==
  [type : STRING, is_error : BOOLEAN, code : STRING \cup {None}, message : STRING, tool : STRING,
   text : STRING, subtype : STRING, failed : BOOLEAN,
   attribution : [source : STRING, code : STRING \cup {None}, reason : STRING,
                  denied : BOOLEAN, retryable : BOOLEAN]]
Categories == {"quota", "authentication", "rate_limit", "network", "overloaded",
               "budget", "configuration", "crash", "unknown"}
Failures == [category : Categories, retryable : BOOLEAN, stop : BOOLEAN]
\* No failure and no category is taken for an absent one.
FailuresPresent == None \notin Categories \cup Failures

\* What a verdict says of the codes it was drawn from.
VerdictOf(v, codes, tool, exit) ==
  /\ v = None <=> exit = 0 /\ codes = {} /\ tool = None
  /\ v # None /\ v.retryable =>
       /\ exit >= 0 /\ tool = None /\ codes = {v.category}
       /\ v.category \in {"network", "rate_limit", "overloaded"}
  /\ \A c \in {"quota", "authentication"} : c \in codes => v # None /\ v.stop

LEMMA FailureIs ==
    ASSUME NEW c \in Categories, FailuresPresent
    PROVE /\ Cli!failure(c) \in Failures /\ Cli!failure(c) # None
          /\ Cli!failure(c).category = c
          /\ Cli!failure(c).retryable = (c \in {"network", "rate_limit", "overloaded"})
          /\ Cli!failure(c).stop = (c \in {"quota", "authentication", "configuration"})
<1>1. Cli!failure(c) \in Failures
  BY DEF Cli!failure, Failures, Categories
<1>2. Cli!failure(c) # None
  BY <1>1 DEF FailuresPresent
<1> QED BY <1>1, <1>2 DEF Cli!failure

LEMMA LeadingIs ==
    ASSUME NEW codes, codes \cap Cli!Final # {}
    PROVE /\ Cli!Leading(codes) \in codes /\ Cli!Leading(codes) \in Cli!Final
          /\ "quota" \in codes => Cli!Leading(codes) = "quota"
          /\ "authentication" \in codes => Cli!Leading(codes) \in {"quota", "authentication"}
BY DEF Cli!Leading, Cli!Final

LEMMA ClassificationIs ==
    ASSUME NEW codes, NEW tool \in {None, "configuration", "unknown"}, NEW exit \in Int, FailuresPresent
    PROVE VerdictOf(Cli!classify_evidence(codes, tool, exit, FALSE), codes, tool, exit)
<1>1. PICK v : v = Cli!classify_evidence(codes, tool, exit, FALSE)
  OBVIOUS
<1>2. CASE codes \cap Cli!Final # {}
  <2>1. PICK c : c = Cli!Leading(codes)
    OBVIOUS
  <2>2. /\ c \in codes /\ c \in {"quota", "authentication", "rate_limit", "network"}
        /\ "quota" \in codes => c = "quota"
        /\ "authentication" \in codes => c \in {"quota", "authentication"}
    BY <1>2, <2>1, LeadingIs DEF Cli!Final
  <2>3. PICK f : f = Cli!failure(c)
    OBVIOUS
  <2>4. /\ f \in Failures /\ f.category = c
        /\ f.stop = (c \in {"quota", "authentication", "configuration"})
    BY <2>2, <2>3, FailureIs DEF Categories
  <2>5. v = [f EXCEPT !.retryable = @ /\ tool = None /\ exit >= 0 /\ codes = {c}]
    BY <1>1, <1>2, <2>1, <2>3 DEF Cli!classify_evidence, Cli!Unmixed
  <2>6. /\ v \in Failures /\ v.category = c /\ v.stop = f.stop
        /\ v.retryable => f.retryable /\ tool = None /\ exit >= 0 /\ codes = {c}
    BY ONLY <2>4, <2>5 DEF Failures
  <2>7. v # None
    BY <2>6 DEF FailuresPresent
  <2>8. f.retryable => c \in {"network", "rate_limit", "overloaded"}
    BY <2>2, <2>3, FailureIs DEF Categories
  <2> QED BY <1>1, <2>2, <2>4, <2>6, <2>7, <2>8 DEF VerdictOf
<1>3. CASE codes \cap Cli!Final = {}
  <2>1. "quota" \notin codes /\ "authentication" \notin codes
    BY <1>3 DEF Cli!Final
  <2>2. CASE tool # None
    <3>1. v = Cli!failure(tool)
      BY <1>1, <1>3, <2>2 DEF Cli!classify_evidence
    <3>2. tool \in {"configuration", "unknown"}
      BY <2>2
    <3>3. v # None /\ ~v.retryable
      BY <3>1, <3>2, FailureIs DEF Categories
    <3> QED BY <1>1, <2>1, <2>2, <3>3 DEF VerdictOf
  <2>3. CASE tool = None /\ exit < 0
    <3>1. v = Cli!failure("crash")
      BY <1>1, <1>3, <2>3 DEF Cli!classify_evidence
    <3>2. v # None /\ ~v.retryable
      BY <3>1, FailureIs DEF Categories
    <3>3. exit # 0
      BY <2>3
    <3> QED BY <1>1, <2>1, <3>2, <3>3 DEF VerdictOf
  <2>4. CASE tool = None /\ exit >= 0 /\ codes = {"overloaded"}
    <3>1. v = Cli!failure("overloaded")
      BY <1>1, <1>3, <2>4 DEF Cli!classify_evidence, Cli!Unmixed
    <3>2. v # None /\ v.category = "overloaded"
      BY <3>1, FailureIs DEF Categories
    <3> QED BY <1>1, <2>1, <2>4, <3>2 DEF VerdictOf
  <2>5. CASE tool = None /\ exit >= 0 /\ codes # {"overloaded"} /\ (exit # 0 \/ codes # {})
    <3>1. v = Cli!failure("unknown")
      BY <1>1, <1>3, <2>5 DEF Cli!classify_evidence, Cli!Unmixed
    <3>2. v # None /\ ~v.retryable
      BY <3>1, FailureIs DEF Categories
    <3> QED BY <1>1, <2>1, <2>5, <3>2 DEF VerdictOf
  <2>6. CASE tool = None /\ exit = 0 /\ codes = {}
    <3>1. v = None
      BY <1>1, <1>3, <2>6 DEF Cli!classify_evidence, Cli!Unmixed
    <3>2. \A c \in {"quota", "authentication"} : c \notin codes
      BY <2>1
    <3>3. (v = None <=> exit = 0 /\ codes = {} /\ tool = None) /\ ~(v # None)
      BY <2>6, <3>1
    <3> QED BY <1>1, <3>2, <3>3 DEF VerdictOf
  <2>7. exit < 0 \/ exit >= 0
    OBVIOUS
  <2> QED BY <2>2, <2>3, <2>4, <2>5, <2>6, <2>7, Zenon
<1> QED BY <1>2, <1>3

LEMMA EarnedBy ==
    ASSUME NEW v, NEW codes, NEW told, NEW exit \in Int, VerdictOf(v, codes, None, exit),
           \A c \in {"network", "rate_limit", "overloaded"} : codes = {c} => told = codes
    PROVE Cli!Earned(v, told, exit)
<1>1. exit # 0 => v # None
  BY DEF VerdictOf
<1>2. v # None /\ v.retryable => exit >= 0 /\ told = {v.category}
  BY DEF VerdictOf
<1> QED BY <1>1, <1>2 DEF Cli!Earned

LEMMA DshIsHonest ==
    ASSUME NEW tape, NEW exit \in Int, FailuresPresent PROVE Cli!DshEarned(tape, exit)
<1>1. PICK told : told = Cli!Told(tape)
  OBVIOUS
<1>2. PICK codes : codes = Cli!structured_errors(told) \cup {Cli!CodeOf(e) : e \in Cli!Ended(told)}
  OBVIOUS
<1>3. codes = {Cli!CodeOf(e) : e \in {e \in told : Cli!IsError(e) \/ (e.type = "turn_end" /\ e.code # None)}}
  BY <1>2 DEF Cli!structured_errors, Cli!Ended
<1>4. VerdictOf(Cli!DshFailure(tape, exit), codes, None, exit)
  BY <1>1, <1>2, ClassificationIs DEF Cli!DshFailure
<1>5. Cli!Earned(Cli!DshFailure(tape, exit), codes, exit)
  BY <1>4, EarnedBy
<1> QED BY <1>1, <1>3, <1>5 DEF Cli!DshEarned

LEMMA KimiIsHonest ==
    ASSUME NEW tape, NEW exit \in Int, FailuresPresent PROVE Cli!KimiEarned(tape, exit)
<1>1. PICK errors, lines :
        /\ errors = {Cli!CodeOf(e) : e \in {e \in Cli!Told(tape) : e.type = "error"}}
        /\ lines = {Cli!CodeOf(e) : e \in {e \in Cli!Told(tape) : e.type = "line"}}
  OBVIOUS
<1>2. PICK v : v = Cli!KimiFailure(errors, lines, exit)
  OBVIOUS
<1>3. CASE exit = 0
  <2>1. v = Cli!classify_evidence(errors, None, exit, FALSE)
    BY <1>2, <1>3 DEF Cli!KimiFailure
  <2>2. Cli!Earned(v, errors, exit)
    BY <2>1, ClassificationIs, EarnedBy
  <2>3. errors \cup (IF exit = 0 THEN {} ELSE lines) = errors
    BY <1>3
  <2> QED BY <1>1, <1>2, <2>2, <2>3 DEF Cli!KimiEarned
<1>4. CASE exit # 0
  <2>1. PICK codes : codes = errors \cup {IF l = "unset" THEN Cli!Other ELSE l : l \in lines}
    OBVIOUS
  <2>2. PICK w : w = Cli!classify_evidence(codes, None, exit, FALSE)
    OBVIOUS
  <2>3. v = IF "unset" \in lines /\ w.category = "unknown" THEN Cli!failure("configuration") ELSE w
    BY <1>2, <1>4, <2>1, <2>2 DEF Cli!KimiFailure
  <2>4. VerdictOf(w, codes, None, exit)
    BY <2>2, ClassificationIs
  <2>5. \A c \in {"network", "rate_limit", "overloaded"} : codes = {c} => errors \cup lines = codes
    <3>1. TAKE c \in {"network", "rate_limit", "overloaded"}
    <3>2. HAVE codes = {c}
    <3>3. Cli!Other \notin codes
      BY <3>2 DEF Cli!Other
    <3>4. "unset" \notin lines
      BY <2>1, <3>3
    <3>5. {IF l = "unset" THEN Cli!Other ELSE l : l \in lines} = lines
      BY <3>4
    <3> QED BY <2>1, <3>5
  <2>6. Cli!Earned(w, errors \cup lines, exit)
    BY <2>4, <2>5, EarnedBy
  <2>7. Cli!Earned(Cli!failure("configuration"), errors \cup lines, exit)
    <3>1. Cli!failure("configuration") # None /\ ~Cli!failure("configuration").retryable
      BY FailureIs DEF Categories
    <3> QED BY <3>1 DEF Cli!Earned
  <2>8. Cli!Earned(v, errors \cup lines, exit)
    BY <2>3, <2>6, <2>7
  <2>9. errors \cup (IF exit = 0 THEN {} ELSE lines) = errors \cup lines
    BY <1>4
  <2> QED BY <1>1, <1>2, <2>8, <2>9 DEF Cli!KimiEarned
<1> QED BY <1>3, <1>4

\* What ZCode's own attribution makes of an event.
LEMMA NormalizedIs ==
    ASSUME NEW e \in CliEvents
    PROVE /\ Cli!Normalized(e).type = e.type
          /\ Cli!IsError(Cli!Normalized(e)) = Cli!IsError(e)
          /\ e.type = "turn.failed" => Cli!Normalized(e).code = Cli!Attributed(e)
<1>1. CASE e.type = "turn.failed"
  <2>1. Cli!Normalized(e) = [e EXCEPT !.code = Cli!Attributed(e)]
    BY <1>1 DEF Cli!Normalized
  <2>2. /\ Cli!Normalized(e).type = e.type /\ Cli!Normalized(e).code = Cli!Attributed(e)
        /\ Cli!Normalized(e).is_error = e.is_error
    BY <2>1 DEF CliEvents
  <2> QED BY <2>2 DEF Cli!IsError
<1>2. CASE e.type # "turn.failed"
  BY <1>2 DEF Cli!Normalized
<1> QED BY <1>1, <1>2

LEMMA ZcodeIsHonest ==
    ASSUME NEW tape \in Seq(CliEvents), NEW exit \in Int, FailuresPresent
    PROVE Cli!ZcodeEarned(tape, exit)
<1>1. PICK told, v : told = Cli!Told(tape) /\ v = Cli!ZcodeFailure(tape, exit)
  OBVIOUS
<1>2. told \subseteq CliEvents
  BY <1>1 DEF Cli!Told
<1>3. PICK errors, known :
        /\ errors = Cli!structured_errors({Cli!Normalized(e) : e \in told})
        /\ known = {Cli!CodeOf(Cli!Normalized(e)) : e \in {e \in told : Cli!IsError(e)}}
  OBVIOUS
<1>4. errors = known
  <2>1. \A e \in told : Cli!IsError(Cli!Normalized(e)) = Cli!IsError(e)
    BY <1>2, NormalizedIs
  <2> QED BY <1>3, <2>1 DEF Cli!structured_errors
<1>5. PICK codes : /\ codes = known \/ codes = known \cup {Cli!Other}
                   /\ v = Cli!classify_evidence(codes, None, exit, FALSE)
  BY <1>1, <1>3, <1>4 DEF Cli!ZcodeFailure
<1>6. VerdictOf(v, codes, None, exit)
  BY <1>5, ClassificationIs
<1>7. \A c \in {"network", "rate_limit", "overloaded"} : codes = {c} => known = codes
  BY <1>5 DEF Cli!Other
<1>8. Cli!Earned(v, known, exit)
  BY <1>6, <1>7, EarnedBy
<1>9. ASSUME NEW e \in told, e.type = "turn.failed", e.attribution.source = "provider",
             e.attribution.code = "quota"
      PROVE ~v.retryable
  <2>1. PICK a : a = e.attribution
    OBVIOUS
  <2>2. Cli!Attributed(e) = Cli!provider_code(a, e.code)
    BY <1>9, <2>1 DEF Cli!Attributed
  <2>3. Cli!provider_code(a, e.code) \in {"quota", "authentication"}
    BY <1>9, <2>1 DEF Cli!provider_code, FailuresPresent, Categories
  <2>4. Cli!Normalized(e).code \in {"quota", "authentication"}
    BY <1>2, <1>9, <2>2, <2>3, NormalizedIs
  <2>5. Cli!CodeOf(Cli!Normalized(e)) \in {"quota", "authentication"}
    BY <2>4 DEF FailuresPresent, Categories, Cli!CodeOf
  <2>6. Cli!IsError(e)
    BY <1>9 DEF Cli!IsError
  <2>7. PICK c \in {"quota", "authentication"} : c \in codes
    BY <1>3, <1>5, <2>5, <2>6
  <2>8. v # None
    BY <1>6, <2>7 DEF VerdictOf
  <2>9. \A k \in {"network", "rate_limit", "overloaded"} : codes # {k}
    BY <2>7
  <2> QED BY <1>6, <2>8, <2>9 DEF VerdictOf
<1> QED BY <1>1, <1>3, <1>8, <1>9 DEF Cli!ZcodeEarned

LEMMA ClaudeIsHonest ==
    ASSUME NEW tape, NEW exit \in Int, FailuresPresent PROVE Cli!ClaudeEarned(tape, exit)
<1>1. PICK v, errors, marked :
        /\ v = Cli!ClaudeFailure(tape, exit)
        /\ errors = {e \in Cli!Told(tape) : Cli!IsError(e)}
        /\ marked = {tape[i] : i \in Cli!Marked(tape)}
  OBVIOUS
<1>2. PICK others : others = {e \in errors : ~(e.type = "result" /\ e.text \in {m.text : m \in marked})}
  OBVIOUS
<1>3. CASE Cli!Recovered(tape, exit)
  <2>1. v = Cli!classify_evidence({Cli!CodeOf(e) : e \in errors}, None, exit, FALSE)
    BY <1>1, <1>3 DEF Cli!ClaudeFailure, Cli!structured_errors
  <2>2. Cli!Earned(v, {Cli!CodeOf(e) : e \in errors}, exit)
    BY <2>1, ClassificationIs, EarnedBy
  <2> QED BY <1>1, <1>3, <2>2 DEF Cli!ClaudeEarned
<1>4. CASE ~Cli!Recovered(tape, exit)
  <2>1. PICK heard, codes, told :
          /\ heard = {tape[i] : i \in {k \in DOMAIN tape : ~Cli!Repeats(tape, k)}}
          /\ codes = {tape[i].code : i \in Cli!Marked(tape)} \cup Cli!structured_errors(heard)
          /\ told = {e.code : e \in marked} \cup {Cli!CodeOf(e) : e \in others}
    OBVIOUS
  <2>2. VerdictOf(v, codes, None, exit)
    <3>1. v = Cli!classify_evidence(codes, None, exit, FALSE)
      BY <1>1, <1>4, <2>1 DEF Cli!ClaudeFailure
    <3> QED BY <3>1, ClassificationIs
  <2>3. {tape[i].code : i \in Cli!Marked(tape)} = {e.code : e \in marked}
    BY <1>1
  <2>4. others \subseteq heard
    <3>1. SUFFICES ASSUME NEW e \in others PROVE e \in heard
      OBVIOUS
    <3>2. PICK i \in DOMAIN tape : e = tape[i]
      BY <1>1, <1>2 DEF Cli!Told
    <3>3. ASSUME Cli!Repeats(tape, i) PROVE FALSE
      <4>1. i \in Cli!Results(tape)
        BY <3>3 DEF Cli!Repeats, Cli!Newest
      <4>2. PICK k \in Cli!Marked(tape) : tape[i].text = tape[k].text
        BY <3>3 DEF Cli!Repeats, Cli!Newest
      <4>3. e.type = "result"
        BY <3>2, <4>1 DEF Cli!Results
      <4>4. e.text \in {m.text : m \in marked}
        BY <1>1, <3>2, <4>2
      <4> QED BY <1>2, <4>3, <4>4
    <3> QED BY <2>1, <3>2, <3>3
  <2>5. told \subseteq codes
    BY <1>1, <1>2, <2>1, <2>3, <2>4 DEF Cli!structured_errors
  <2>6. marked = {} => codes \subseteq told
    <3>1. SUFFICES ASSUME marked = {} PROVE codes \subseteq told
      OBVIOUS
    <3>2. others = errors
      BY <1>2, <3>1
    <3>3. heard \subseteq Cli!Told(tape)
      BY <2>1 DEF Cli!Told
    <3>4. Cli!structured_errors(heard) \subseteq {Cli!CodeOf(e) : e \in errors}
      BY <1>1, <3>3 DEF Cli!structured_errors
    <3> QED BY <2>1, <2>3, <3>2, <3>4
  <2>7. marked # {} => told # {}
    BY <2>1
  <2>8. \A c \in {"network", "rate_limit", "overloaded"} : codes = {c} => told = codes
    <3>1. TAKE c \in {"network", "rate_limit", "overloaded"}
    <3>2. HAVE codes = {c}
    <3> QED BY <2>5, <2>6, <2>7, <3>2
  <2>9. Cli!Earned(v, told, exit)
    BY <2>2, <2>8, EarnedBy
  <2>10. /\ others = {e \in errors : ~(e.type = "result" /\ e.text \in {m.text : m \in marked})}
         /\ told = {e.code : e \in marked} \cup {Cli!CodeOf(e) : e \in others}
    BY <1>2, <2>1
  <2> QED BY <1>1, <1>4, <2>9, <2>10 DEF Cli!ClaudeEarned
<1> QED BY <1>3, <1>4

\* The turn that b opened still goes on after n events.
Turn(s, b, n) == s[b].type = "turn.started" /\ \A k \in (b + 1) .. n : ~Cli!Boundary(s[k])
Opened(s, n) == \E b \in 1 .. n : Turn(s, b, n)
Pending(s, n) == {i \in 1 .. n : Cli!Reconnects(s[i]) /\ \E b \in 1 .. (i - 1) : Turn(s, b, n)}
Forgiven(s, n, exit) ==
  {i \in 1 .. n : Cli!Reconnects(s[i]) /\
     \E b \in 1 .. (i - 1) : \E c \in (i + 1) .. n : Turn(s, b, c - 1) /\ Cli!Settled(s[c], TRUE, exit)}
Told(s, n) == {i \in 1 .. n : Cli!IsError(s[i])}
Stands(s, n, exit) == Told(s, n) \ (Pending(s, n) \cup Forgiven(s, n, exit))
CodesOf(s, I) == {Cli!NativeCode(s[i]) : i \in I}

LEMMA SettledIsBoundary ==
    ASSUME NEW e, NEW exit, Cli!Settled(e, TRUE, exit) PROVE Cli!Boundary(e)
BY DEF Cli!Settled, Cli!Boundary

LEMMA ReconnectIs ==
    ASSUME NEW e, Cli!Reconnects(e)
    PROVE Cli!IsError(e) /\ ~Cli!Boundary(e)
BY DEF Cli!Reconnects, Cli!IsError, Cli!Boundary

LEMMA PendingIsNotForgiven ==
    ASSUME NEW s, NEW n \in Nat, NEW exit, NEW i \in Pending(s, n), i \in Forgiven(s, n, exit)
    PROVE FALSE
<1>1. i \in 1 .. n
  BY DEF Pending
<1>2. PICK b \in 1 .. (i - 1) : Turn(s, b, n)
  BY DEF Pending
<1>3. PICK c \in (i + 1) .. n : Cli!Settled(s[c], TRUE, exit)
  BY DEF Forgiven
<1>4. Cli!Boundary(s[c])
  BY <1>3, SettledIsBoundary
<1>5. c \in (b + 1) .. n
  BY <1>1, <1>2, <1>3
<1> QED BY <1>2, <1>4, <1>5 DEF Turn

LEMMA TurnGoesOn ==
    ASSUME NEW s, NEW n \in Nat, NEW b \in 1 .. n
    PROVE Turn(s, b, n + 1) <=> Turn(s, b, n) /\ ~Cli!Boundary(s[n + 1])
<1>1. (b + 1) .. (n + 1) = ((b + 1) .. n) \cup {n + 1}
  OBVIOUS
<1> QED BY <1>1 DEF Turn

LEMMA AtABoundary ==
    ASSUME NEW s, NEW n \in Nat, Cli!Boundary(s[n + 1])
    PROVE /\ Pending(s, n + 1) = {}
          /\ Opened(s, n + 1) <=> s[n + 1].type = "turn.started"
<1>1. \A b \in 1 .. n : ~Turn(s, b, n + 1)
  BY TurnGoesOn
<1>2. Pending(s, n + 1) = {}
  <2>1. SUFFICES ASSUME NEW i \in Pending(s, n + 1) PROVE FALSE
    OBVIOUS
  <2>2. i \in 1 .. (n + 1)
    BY DEF Pending
  <2>3. PICK b \in 1 .. (i - 1) : Turn(s, b, n + 1)
    BY DEF Pending
  <2>4. b \in 1 .. n
    BY <2>2, <2>3
  <2> QED BY <1>1, <2>3, <2>4
<1>3. Opened(s, n + 1) <=> Turn(s, n + 1, n + 1)
  <2>1. 1 .. (n + 1) = (1 .. n) \cup {n + 1}
    OBVIOUS
  <2> QED BY <1>1, <2>1 DEF Opened
<1>4. (n + 1 + 1) .. (n + 1) = {}
  OBVIOUS
<1>5. Turn(s, n + 1, n + 1) <=> s[n + 1].type = "turn.started"
  BY <1>4 DEF Turn
<1> QED BY <1>2, <1>3, <1>5

LEMMA WithinATurn ==
    ASSUME NEW s, NEW n \in Nat, ~Cli!Boundary(s[n + 1])
    PROVE /\ Opened(s, n + 1) <=> Opened(s, n)
          /\ \A i \in 1 .. n : i \in Pending(s, n + 1) <=> i \in Pending(s, n)
          /\ n + 1 \in Pending(s, n + 1) <=> Cli!Reconnects(s[n + 1]) /\ Opened(s, n)
<1>1. \A b \in 1 .. n : Turn(s, b, n + 1) <=> Turn(s, b, n)
  BY TurnGoesOn
<1>2. ~Turn(s, n + 1, n + 1)
  BY DEF Turn, Cli!Boundary
<1>3. Opened(s, n + 1) <=> Opened(s, n)
  <2>1. 1 .. (n + 1) = (1 .. n) \cup {n + 1}
    OBVIOUS
  <2> QED BY <1>1, <1>2, <2>1 DEF Opened
<1>4. ASSUME NEW i \in 1 .. n PROVE i \in Pending(s, n + 1) <=> i \in Pending(s, n)
  <2>1. 1 .. (i - 1) \subseteq 1 .. n /\ i \in 1 .. (n + 1)
    OBVIOUS
  <2> QED BY <1>1, <2>1 DEF Pending
<1>5. n + 1 \in Pending(s, n + 1) <=> Cli!Reconnects(s[n + 1]) /\ Opened(s, n)
  <2>1. n + 1 \in 1 .. (n + 1) /\ n + 1 - 1 = n
    OBVIOUS
  <2> QED BY <1>1, <2>1 DEF Pending, Opened
<1> QED BY <1>3, <1>4, <1>5

LEMMA ForgivenNext ==
    ASSUME NEW s, NEW n \in Nat, NEW exit
    PROVE /\ n + 1 \notin Forgiven(s, n + 1, exit)
          /\ \A i \in 1 .. n : i \in Forgiven(s, n + 1, exit) <=>
               \/ i \in Forgiven(s, n, exit)
               \/ i \in Pending(s, n) /\ Cli!Settled(s[n + 1], TRUE, exit)
<1>1. n + 1 \notin Forgiven(s, n + 1, exit)
  <2>1. (n + 1 + 1) .. (n + 1) = {}
    OBVIOUS
  <2> QED BY <2>1 DEF Forgiven
<1>2. ASSUME NEW i \in 1 .. n
      PROVE i \in Forgiven(s, n + 1, exit) <=>
               \/ i \in Forgiven(s, n, exit)
               \/ i \in Pending(s, n) /\ Cli!Settled(s[n + 1], TRUE, exit)
  <2>1. (i + 1) .. (n + 1) = ((i + 1) .. n) \cup {n + 1} /\ n + 1 - 1 = n /\ i \in 1 .. (n + 1)
    OBVIOUS
  <2>2. ASSUME NEW b \in 1 .. (i - 1)
        PROVE (\E c \in (i + 1) .. (n + 1) : Turn(s, b, c - 1) /\ Cli!Settled(s[c], TRUE, exit))
              <=> \/ \E c \in (i + 1) .. n : Turn(s, b, c - 1) /\ Cli!Settled(s[c], TRUE, exit)
                  \/ Turn(s, b, n) /\ Cli!Settled(s[n + 1], TRUE, exit)
    <3>1. PICK m : m = n + 1
      OBVIOUS
    <3>2. (i + 1) .. m = ((i + 1) .. n) \cup {m} /\ m - 1 = n
      BY <2>1, <3>1
    <3> QED BY ONLY <3>1, <3>2
  <2> QED BY <2>1, <2>2 DEF Forgiven, Pending
<1> QED BY <1>1, <1>2

LEMMA CountedAtBoundary ==
    ASSUME NEW s, NEW n \in Nat, NEW exit, Cli!Boundary(s[n + 1])
    PROVE Stands(s, n + 1, exit) =
            Stands(s, n, exit) \cup (IF Cli!Settled(s[n + 1], TRUE, exit) THEN {} ELSE Pending(s, n))
              \cup (IF Cli!IsError(s[n + 1]) THEN {n + 1} ELSE {})
<1>1. PICK m, e : m = n + 1 /\ e = s[n + 1]
  OBVIOUS
<1>2. 1 .. m = (1 .. n) \cup {m} /\ m \notin 1 .. n
  BY <1>1
<1>3. Pending(s, m) = {}
  BY <1>1, AtABoundary
<1>4. /\ m \notin Forgiven(s, m, exit)
      /\ \A i \in 1 .. n : i \in Forgiven(s, m, exit) <=>
               \/ i \in Forgiven(s, n, exit)
               \/ i \in Pending(s, n) /\ Cli!Settled(e, TRUE, exit)
  BY <1>1, ForgivenNext
<1>5. \A i \in Pending(s, n) : i \in 1 .. n /\ Cli!IsError(s[i]) /\ i \notin Forgiven(s, n, exit)
  BY PendingIsNotForgiven, ReconnectIs DEF Pending
<1>6. \A i \in 1 .. n : i \in Stands(s, m, exit) <=>
        \/ i \in Stands(s, n, exit)
        \/ i \in Pending(s, n) /\ ~Cli!Settled(e, TRUE, exit)
  BY <1>2, <1>3, <1>4, <1>5 DEF Stands, Told
<1>7. m \in Stands(s, m, exit) <=> Cli!IsError(e)
  BY <1>1, <1>2, <1>3, <1>4 DEF Stands, Told
<1>8. Stands(s, m, exit) \subseteq 1 .. m /\ Stands(s, n, exit) \subseteq 1 .. n /\ Pending(s, n) \subseteq 1 .. n
  BY DEF Stands, Told, Pending
<1>9. Stands(s, m, exit) =
            Stands(s, n, exit) \cup (IF Cli!Settled(e, TRUE, exit) THEN {} ELSE Pending(s, n))
              \cup (IF Cli!IsError(e) THEN {m} ELSE {})
  BY ONLY <1>2, <1>6, <1>7, <1>8
<1> QED BY <1>1, <1>9

LEMMA CountedWithin ==
    ASSUME NEW s, NEW n \in Nat, NEW exit, ~Cli!Boundary(s[n + 1])
    PROVE LET waits == Cli!Reconnects(s[n + 1]) /\ Opened(s, n) IN
          /\ Stands(s, n + 1, exit) =
               Stands(s, n, exit) \cup (IF Cli!IsError(s[n + 1]) /\ ~waits THEN {n + 1} ELSE {})
          /\ Pending(s, n + 1) = Pending(s, n) \cup (IF waits THEN {n + 1} ELSE {})
<1>1. PICK m, e : m = n + 1 /\ e = s[n + 1]
  OBVIOUS
<1>2. 1 .. m = (1 .. n) \cup {m} /\ m \notin 1 .. n
  BY <1>1
<1>3. /\ \A i \in 1 .. n : i \in Pending(s, m) <=> i \in Pending(s, n)
      /\ m \in Pending(s, m) <=> Cli!Reconnects(e) /\ Opened(s, n)
  BY <1>1, WithinATurn
<1>4. /\ m \notin Forgiven(s, m, exit)
      /\ \A i \in 1 .. n : i \in Forgiven(s, m, exit) <=> i \in Forgiven(s, n, exit)
  BY <1>1, ForgivenNext, SettledIsBoundary
<1>5. /\ Pending(s, m) \subseteq 1 .. m /\ Pending(s, n) \subseteq 1 .. n
      /\ Stands(s, m, exit) \subseteq 1 .. m /\ Stands(s, n, exit) \subseteq 1 .. n
  BY DEF Stands, Told, Pending
<1>6. \A i \in 1 .. n : i \in Stands(s, m, exit) <=> i \in Stands(s, n, exit)
  BY <1>2, <1>3, <1>4 DEF Stands, Told
<1>7. m \in Stands(s, m, exit) <=> Cli!IsError(e) /\ ~(Cli!Reconnects(e) /\ Opened(s, n))
  BY <1>1, <1>2, <1>3, <1>4 DEF Stands, Told
<1>8. Stands(s, m, exit) = Stands(s, n, exit)
        \cup (IF Cli!IsError(e) /\ ~(Cli!Reconnects(e) /\ Opened(s, n)) THEN {m} ELSE {})
  BY ONLY <1>2, <1>5, <1>6, <1>7
<1>9. Pending(s, m) = Pending(s, n) \cup (IF Cli!Reconnects(e) /\ Opened(s, n) THEN {m} ELSE {})
  BY ONLY <1>2, <1>3, <1>5
<1> QED BY <1>1, <1>8, <1>9

LEMMA CodesAdd ==
    ASSUME NEW s, NEW I, NEW J
    PROVE CodesOf(s, I \cup J) = CodesOf(s, I) \cup CodesOf(s, J)
BY DEF CodesOf

LEMMA CodesOfOne ==
    ASSUME NEW s
    PROVE /\ \A i : CodesOf(s, {i}) = {Cli!NativeCode(s[i])}
          /\ CodesOf(s, {}) = {}
BY DEF CodesOf

\* The tools whose last call did not succeed.
Faults(s, n) ==
  {i \in 1 .. n : Cli!Status(s[i]) /\ s[i].type # "tool.completed" /\
     \A k \in (i + 1) .. n : ~(Cli!Status(s[k]) /\ s[k].tool = s[i].tool)}
ToolsOf(s, n) == {s[i].tool : i \in Faults(s, n)}

LEMMA ToolsNext ==
    ASSUME NEW s, NEW n \in Nat
    PROVE LET e == s[n + 1] IN
          /\ ~Cli!Status(e) => ToolsOf(s, n + 1) = ToolsOf(s, n)
          /\ Cli!Status(e) => ToolsOf(s, n + 1) =
               (ToolsOf(s, n) \ {e.tool}) \cup (IF e.type = "tool.completed" THEN {} ELSE {e.tool})
<1>1. PICK m, e : m = n + 1 /\ e = s[m]
  OBVIOUS
<1>2. 1 .. m = (1 .. n) \cup {m} /\ m \notin 1 .. n /\ (m + 1) .. m = {} /\ m \in Nat
  BY <1>1
<1>3. \A i \in 1 .. n : (i + 1) .. m = ((i + 1) .. n) \cup {m}
  BY <1>1
<1>4. \A i \in 1 .. n : i \in Faults(s, m) <=> i \in Faults(s, n) /\ ~(Cli!Status(e) /\ e.tool = s[i].tool)
  BY <1>1, <1>2, <1>3 DEF Faults
<1>5. m \in Faults(s, m) <=> Cli!Status(e) /\ e.type # "tool.completed"
  BY <1>1, <1>2 DEF Faults
<1>6. Faults(s, m) \subseteq 1 .. m /\ Faults(s, n) \subseteq 1 .. n
  BY DEF Faults
<1>7. Faults(s, m) = {i \in Faults(s, n) : ~(Cli!Status(e) /\ e.tool = s[i].tool)}
                       \cup (IF Cli!Status(e) /\ e.type # "tool.completed" THEN {m} ELSE {})
  BY ONLY <1>2, <1>4, <1>5, <1>6
<1>8. ~Cli!Status(e) => ToolsOf(s, m) = ToolsOf(s, n)
  BY <1>7 DEF ToolsOf
<1>9. Cli!Status(e) => ToolsOf(s, m) =
        (ToolsOf(s, n) \ {e.tool}) \cup (IF e.type = "tool.completed" THEN {} ELSE {e.tool})
  BY <1>1, <1>7 DEF ToolsOf
<1> QED BY <1>1, <1>8, <1>9

\* What the reader of a Codex stream holds.
Readers(K, T) ==
  [codes : SUBSET K, reconnects : SUBSET K, in_turn : BOOLEAN, broken : SUBSET T, denied : SUBSET T]

LEMMA StepIs ==
    ASSUME NEW K, NEW T, NEW r \in Readers(K, T), NEW e, NEW exit,
           Cli!NativeCode(e) \in K, e.tool \in T
    PROVE LET step == Cli!CodexStep(r, e, exit)
              waits == Cli!Reconnects(e) /\ r.in_turn
              code == {Cli!NativeCode(e)}
          IN
          /\ step \in Readers(K, T)
          /\ Cli!Boundary(e) =>
               /\ step.codes = r.codes \cup (IF Cli!Settled(e, r.in_turn, exit) THEN {} ELSE r.reconnects)
                                 \cup (IF Cli!IsError(e) THEN code ELSE {})
               /\ step.reconnects = {}
               /\ step.in_turn = (e.type = "turn.started")
          /\ ~Cli!Boundary(e) =>
               /\ step.codes = r.codes \cup (IF Cli!IsError(e) /\ ~waits THEN code ELSE {})
               /\ step.reconnects = r.reconnects \cup (IF waits THEN code ELSE {})
               /\ step.in_turn = r.in_turn
          /\ ~Cli!Status(e) => step.broken \cup step.denied = r.broken \cup r.denied
          /\ Cli!Status(e) => step.broken \cup step.denied =
               ((r.broken \cup r.denied) \ {e.tool}) \cup (IF e.type = "tool.completed" THEN {} ELSE {e.tool})
<1>1. PICK a, t, step, code :
        /\ a = Cli!AtBoundary(r, e, exit) /\ t = Cli!ToolStatus(a, e)
        /\ step = Cli!ErrorEvent(t, e) /\ code = Cli!NativeCode(e)
  OBVIOUS
<1>2. step = Cli!CodexStep(r, e, exit)
  BY <1>1 DEF Cli!CodexStep
<1>3. /\ a \in Readers(K, T) /\ a.broken = r.broken /\ a.denied = r.denied
      /\ Cli!Boundary(e) =>
           /\ a.codes = r.codes \cup (IF Cli!Settled(e, r.in_turn, exit) THEN {} ELSE r.reconnects)
           /\ a.reconnects = {} /\ a.in_turn = (e.type = "turn.started")
      /\ ~Cli!Boundary(e) => a = r
  <2>1. CASE Cli!Boundary(e)
    <3>1. a = [r EXCEPT !.codes = IF Cli!Settled(e, r.in_turn, exit) THEN @ ELSE @ \cup r.reconnects,
                        !.reconnects = {}, !.in_turn = e.type = "turn.started"]
      BY <1>1, <2>1 DEF Cli!AtBoundary
    <3> QED BY <2>1, <3>1 DEF Readers
  <2>2. CASE ~Cli!Boundary(e)
    BY <1>1, <2>2 DEF Cli!AtBoundary
  <2> QED BY <2>1, <2>2
<1>4. /\ t \in Readers(K, T)
      /\ t.codes = a.codes /\ t.reconnects = a.reconnects /\ t.in_turn = a.in_turn
      /\ ~Cli!Status(e) => t = a
      /\ Cli!Status(e) => t.broken \cup t.denied =
           ((a.broken \cup a.denied) \ {e.tool}) \cup (IF e.type = "tool.completed" THEN {} ELSE {e.tool})
  <2>1. CASE e.type = "tool.completed"
    <3>1. t = [a EXCEPT !.broken = @ \ {e.tool}, !.denied = @ \ {e.tool}]
      BY <1>1, <2>1 DEF Cli!ToolStatus
    <3> QED BY <1>3, <2>1, <3>1 DEF Readers, Cli!Status
  <2>2. CASE e.type = "tool.failed"
    <3>1. t = [a EXCEPT !.broken = @ \cup {e.tool}, !.denied = @ \ {e.tool}]
      BY <1>1, <2>2 DEF Cli!ToolStatus
    <3> QED BY <1>3, <2>2, <3>1 DEF Readers, Cli!Status
  <2>3. CASE e.type = "tool.denied"
    <3>1. t = [a EXCEPT !.denied = @ \cup {e.tool}, !.broken = @ \ {e.tool}]
      BY <1>1, <2>3 DEF Cli!ToolStatus
    <3> QED BY <1>3, <2>3, <3>1 DEF Readers, Cli!Status
  <2>4. CASE ~Cli!Status(e)
    BY <1>1, <1>3, <2>4 DEF Cli!ToolStatus, Cli!Status
  <2> QED BY <2>1, <2>2, <2>3, <2>4 DEF Cli!Status
<1>5. /\ step \in Readers(K, T)
      /\ step.broken = t.broken /\ step.denied = t.denied /\ step.in_turn = t.in_turn
      /\ step.codes = t.codes \cup (IF Cli!IsError(e) /\ ~(Cli!Reconnects(e) /\ t.in_turn) THEN {code} ELSE {})
      /\ step.reconnects = t.reconnects \cup (IF Cli!Reconnects(e) /\ t.in_turn THEN {code} ELSE {})
  <2>1. CASE ~Cli!IsError(e)
    <3>1. step = t /\ ~Cli!Reconnects(e)
      BY <1>1, <2>1, ReconnectIs DEF Cli!ErrorEvent
    <3> QED BY <1>4, <2>1, <3>1
  <2>2. CASE Cli!IsError(e) /\ t.in_turn /\ Cli!Reconnects(e)
    <3>1. step = [t EXCEPT !.reconnects = @ \cup {code}]
      BY <1>1, <2>2 DEF Cli!ErrorEvent
    <3>2. /\ step \in Readers(K, T)
          /\ step.broken = t.broken /\ step.denied = t.denied /\ step.in_turn = t.in_turn
          /\ step.reconnects = t.reconnects \cup {code} /\ step.codes = t.codes
      BY <1>1, <1>4, <3>1 DEF Readers
    <3> QED BY <2>2, <3>2
  <2>3. CASE Cli!IsError(e) /\ ~(t.in_turn /\ Cli!Reconnects(e))
    <3>1. step = [t EXCEPT !.codes = @ \cup {code}]
      BY <1>1, <2>3 DEF Cli!ErrorEvent
    <3>2. /\ step \in Readers(K, T)
          /\ step.broken = t.broken /\ step.denied = t.denied /\ step.in_turn = t.in_turn
          /\ step.codes = t.codes \cup {code} /\ step.reconnects = t.reconnects
      BY <1>1, <1>4, <3>1 DEF Readers
    <3> QED BY <2>3, <3>2
  <2> QED BY <2>1, <2>2, <2>3
<1>6. Cli!Boundary(e) =>
        /\ step.codes = r.codes \cup (IF Cli!Settled(e, r.in_turn, exit) THEN {} ELSE r.reconnects)
                          \cup (IF Cli!IsError(e) THEN {code} ELSE {})
        /\ step.reconnects = {} /\ step.in_turn = (e.type = "turn.started")
  <2>1. Cli!Boundary(e) => ~Cli!Reconnects(e)
    BY ReconnectIs
  <2> QED BY <1>3, <1>4, <1>5, <2>1
<1>7. ~Cli!Boundary(e) =>
        /\ step.codes = r.codes \cup (IF Cli!IsError(e) /\ ~(Cli!Reconnects(e) /\ r.in_turn) THEN {code} ELSE {})
        /\ step.reconnects = r.reconnects \cup (IF Cli!Reconnects(e) /\ r.in_turn THEN {code} ELSE {})
        /\ step.in_turn = r.in_turn
  BY <1>3, <1>4, <1>5
<1>8. /\ ~Cli!Status(e) => step.broken \cup step.denied = r.broken \cup r.denied
      /\ Cli!Status(e) => step.broken \cup step.denied =
           ((r.broken \cup r.denied) \ {e.tool}) \cup (IF e.type = "tool.completed" THEN {} ELSE {e.tool})
  BY <1>3, <1>4, <1>5
<1> QED BY <1>1, <1>2, <1>5, <1>6, <1>7, <1>8

HearsTo(f, s, exit) ==
  f = [i \in 0 .. Len(s) |-> IF i = 0 THEN Cli!CodexStart ELSE Cli!CodexStep(f[i - 1], s[i], exit)]

\* A reader's states after each of the first n events.
Reads(F, s, n, V, exit) ==
  /\ F \in [0 .. n -> V] /\ F[0] = Cli!CodexStart
  /\ \A i \in 1 .. n : F[i] = Cli!CodexStep(F[i - 1], s[i], exit)

LEMMA HeardIs ==
    ASSUME NEW s, Len(s) \in Nat, NEW exit, NEW K, NEW T,
           \A i \in 1 .. Len(s) : Cli!NativeCode(s[i]) \in K /\ s[i].tool \in T
    PROVE /\ \A i \in 0 .. Len(s) : Cli!Heard(s, exit)[i] \in Readers(K, T)
          /\ Cli!Heard(s, exit)[0] = Cli!CodexStart
          /\ \A i \in 1 .. Len(s) : Cli!Heard(s, exit)[i] = Cli!CodexStep(Cli!Heard(s, exit)[i - 1], s[i], exit)
<1>1. PICK N, V : N = Len(s) /\ V = Readers(K, T)
  OBVIOUS
<1>2. \A i \in 1 .. N, q \in V : Cli!CodexStep(q, s[i], exit) \in V
  BY <1>1, StepIs
<1>3. PICK F : Reads(F, s, N, V, exit)
  <2>1. PICK U : U = {n \in Nat : n <= N => \E f : Reads(f, s, n, V, exit)}
    OBVIOUS
  <2>2. 0 \in U
    <3>1. PICK f : f = [i \in {0} |-> Cli!CodexStart]
      OBVIOUS
    <3>2. Cli!CodexStart \in V /\ 0 .. 0 = {0} /\ 1 .. 0 = {}
      BY <1>1 DEF Cli!CodexStart, Readers
    <3>3. Reads(f, s, 0, V, exit)
      BY <3>1, <3>2 DEF Reads
    <3> QED BY <2>1, <3>3
  <2>3. ASSUME NEW n \in Nat, n \in U PROVE n + 1 \in U
    <3>1. SUFFICES ASSUME n + 1 <= N PROVE \E f : Reads(f, s, n + 1, V, exit)
      BY <2>1
    <3>2. PICK f : Reads(f, s, n, V, exit)
      BY <1>1, <2>1, <2>3, <3>1
    <3>3. PICK m : m = n + 1
      OBVIOUS
    <3>4. /\ m \in 1 .. N /\ m - 1 = n /\ 0 .. m = (0 .. n) \cup {m} /\ 1 .. m = (1 .. n) \cup {m}
          /\ m \notin 0 .. n /\ n \in 0 .. n /\ 0 \in 0 .. n
          /\ \A i \in 1 .. n : i \in 0 .. n /\ i - 1 \in 0 .. n
      BY <1>1, <3>1, <3>3
    <3>5. PICK g : g = [i \in 0 .. m |-> IF i = m THEN Cli!CodexStep(f[n], s[m], exit) ELSE f[i]]
      OBVIOUS
    <3>6. Cli!CodexStep(f[n], s[m], exit) \in V
      BY <1>2, <3>2, <3>4 DEF Reads
    <3>7. g \in [0 .. m -> V]
      BY <3>2, <3>4, <3>5, <3>6 DEF Reads
    <3>8. g[m] = Cli!CodexStep(f[n], s[m], exit) /\ \A i \in 0 .. n : g[i] = f[i]
      BY <3>4, <3>5
    <3>9. \A i \in 1 .. m : g[i] = Cli!CodexStep(g[i - 1], s[i], exit)
      BY <3>2, <3>4, <3>8 DEF Reads
    <3>10. Reads(g, s, m, V, exit)
      BY <3>2, <3>4, <3>7, <3>8, <3>9 DEF Reads
    <3> QED BY <3>3, <3>10
  <2>4. Nat \subseteq U
    BY <2>2, <2>3, NatSetInduction
  <2> QED BY <1>1, <2>1, <2>4
<1>4. ASSUME NEW i \in 0 .. N
      PROVE F[i] = IF i = 0 THEN Cli!CodexStart ELSE Cli!CodexStep(F[i - 1], s[i], exit)
  <2>1. CASE i = 0
    BY <1>3, <2>1 DEF Reads
  <2>2. CASE i # 0
    <3>1. i \in 1 .. N
      BY <1>1, <2>2
    <3> QED BY <1>3, <2>2, <3>1 DEF Reads
  <2> QED BY <2>1, <2>2
<1>5. HearsTo(F, s, exit)
  BY <1>1, <1>3, <1>4 DEF HearsTo, Reads
<1>6. PICK H : H = CHOOSE f : HearsTo(f, s, exit)
  OBVIOUS
<1>7. HearsTo(H, s, exit)
  BY <1>5, <1>6
<1>8. H = Cli!Heard(s, exit)
  BY <1>6 DEF HearsTo, Cli!Heard
<1>9. /\ H[0] = Cli!CodexStart
      /\ \A i \in 1 .. N : H[i] = Cli!CodexStep(H[i - 1], s[i], exit)
  <2>1. \A i \in 0 .. N : H[i] = IF i = 0 THEN Cli!CodexStart ELSE Cli!CodexStep(H[i - 1], s[i], exit)
    BY <1>1, <1>7 DEF HearsTo
  <2>2. N \in Nat /\ 0 \in 0 .. N /\ \A i \in 1 .. N : i \in 0 .. N /\ i # 0
    BY <1>1
  <2> QED BY <2>1, <2>2
<1>10. PICK U : U = {i \in Nat : i <= N => H[i] \in V}
  OBVIOUS
<1>11. 0 \in U
  <2>1. Cli!CodexStart \in V
    BY <1>1 DEF Cli!CodexStart, Readers
  <2> QED BY <1>9, <1>10, <2>1
<1>12. ASSUME NEW i \in Nat, i \in U PROVE i + 1 \in U
  <2>1. SUFFICES ASSUME i + 1 <= N PROVE H[i + 1] \in V
    BY <1>10
  <2>2. i + 1 \in 1 .. N /\ i + 1 - 1 = i /\ i <= N
    BY <1>1, <2>1
  <2>3. H[i] \in V
    BY <1>10, <1>12, <2>2
  <2> QED BY <1>2, <1>9, <2>2, <2>3
<1>13. Nat \subseteq U
  BY <1>11, <1>12, NatSetInduction
<1>14. \A i \in 0 .. N : H[i] \in V
  BY <1>1, <1>10, <1>13
<1> QED BY <1>1, <1>8, <1>9, <1>14

\* The reader of a stream holds what the events so far say.
Follows(r, s, n, exit) ==
  /\ r.codes = CodesOf(s, Stands(s, n, exit))
  /\ r.reconnects = CodesOf(s, Pending(s, n))
  /\ r.in_turn <=> Opened(s, n)
  /\ r.broken \cup r.denied = ToolsOf(s, n)

LEMMA FollowsAtFirst ==
    ASSUME NEW s, NEW exit PROVE Follows(Cli!CodexStart, s, 0, exit)
<1>1. 1 .. 0 = {}
  OBVIOUS
<1>2. Stands(s, 0, exit) = {} /\ Pending(s, 0) = {} /\ ~Opened(s, 0) /\ Faults(s, 0) = {}
  BY <1>1 DEF Stands, Told, Pending, Opened, Faults
<1> QED BY <1>2 DEF Follows, CodesOf, ToolsOf, Cli!CodexStart

LEMMA FollowsOn ==
    ASSUME NEW s, NEW n \in Nat, NEW exit, NEW K, NEW T, NEW r \in Readers(K, T),
           Cli!NativeCode(s[n + 1]) \in K, s[n + 1].tool \in T, Follows(r, s, n, exit)
    PROVE Follows(Cli!CodexStep(r, s[n + 1], exit), s, n + 1, exit)
<1>1. PICK m, e, step : m = n + 1 /\ e = s[m] /\ step = Cli!CodexStep(r, e, exit)
  OBVIOUS
<1>2. PICK code : code = {Cli!NativeCode(e)}
  OBVIOUS
<1>3. code = CodesOf(s, {m}) /\ CodesOf(s, {}) = {}
  BY <1>1, <1>2, CodesOfOne
<1>4. /\ Cli!Boundary(e) =>
           /\ step.codes = r.codes \cup (IF Cli!Settled(e, r.in_turn, exit) THEN {} ELSE r.reconnects)
                             \cup (IF Cli!IsError(e) THEN code ELSE {})
           /\ step.reconnects = {}
           /\ step.in_turn = (e.type = "turn.started")
      /\ ~Cli!Boundary(e) =>
           /\ step.codes = r.codes \cup (IF Cli!IsError(e) /\ ~(Cli!Reconnects(e) /\ r.in_turn) THEN code ELSE {})
           /\ step.reconnects = r.reconnects \cup (IF Cli!Reconnects(e) /\ r.in_turn THEN code ELSE {})
           /\ step.in_turn = r.in_turn
      /\ ~Cli!Status(e) => step.broken \cup step.denied = r.broken \cup r.denied
      /\ Cli!Status(e) => step.broken \cup step.denied =
           ((r.broken \cup r.denied) \ {e.tool}) \cup (IF e.type = "tool.completed" THEN {} ELSE {e.tool})
  <2>1. Cli!NativeCode(e) \in K /\ e.tool \in T
    BY <1>1
  <2> QED BY <1>1, <1>2, <2>1, StepIs
<1>5. step.broken \cup step.denied = ToolsOf(s, m)
  <2>1. /\ ~Cli!Status(e) => ToolsOf(s, m) = ToolsOf(s, n)
        /\ Cli!Status(e) => ToolsOf(s, m) =
             (ToolsOf(s, n) \ {e.tool}) \cup (IF e.type = "tool.completed" THEN {} ELSE {e.tool})
    BY <1>1, ToolsNext
  <2>2. r.broken \cup r.denied = ToolsOf(s, n)
    BY DEF Follows
  <2> QED BY <1>4, <2>1, <2>2
<1>6. CASE Cli!Boundary(e)
  <2>1. Pending(s, m) = {} /\ (Opened(s, m) <=> e.type = "turn.started")
    BY <1>1, <1>6, AtABoundary
  <2>2. PICK left : left = IF Cli!Settled(e, TRUE, exit) THEN {} ELSE Pending(s, n)
    OBVIOUS
  <2>3. PICK told : told = IF Cli!IsError(e) THEN {m} ELSE {}
    OBVIOUS
  <2>4. Stands(s, m, exit) = Stands(s, n, exit) \cup left \cup told
    BY <1>1, <1>6, <2>2, <2>3, CountedAtBoundary
  <2>5. CodesOf(s, Stands(s, m, exit)) = CodesOf(s, Stands(s, n, exit)) \cup CodesOf(s, left) \cup CodesOf(s, told)
    <3>1. PICK old, base : old = Stands(s, n, exit) /\ base = old \cup left
      OBVIOUS
    <3>2. CodesOf(s, base) = CodesOf(s, old) \cup CodesOf(s, left)
      BY <3>1, CodesAdd
    <3>3. CodesOf(s, base \cup told) = CodesOf(s, base) \cup CodesOf(s, told)
      BY CodesAdd
    <3> QED BY <2>4, <3>1, <3>2, <3>3
  <2>6. CodesOf(s, told) = IF Cli!IsError(e) THEN code ELSE {}
    BY <1>3, <2>3
  <2>7. CodesOf(s, left) = IF Cli!Settled(e, r.in_turn, exit) THEN {} ELSE r.reconnects
    <3>1. CASE r.in_turn
      <4>1. Cli!Settled(e, r.in_turn, exit) <=> Cli!Settled(e, TRUE, exit)
        BY <3>1 DEF Cli!Settled
      <4> QED BY <1>3, <2>2, <4>1 DEF Follows
    <3>2. CASE ~r.in_turn
      <4>1. Pending(s, n) = {}
        <5>1. \A b \in 1 .. n : ~Turn(s, b, n)
          BY <3>2 DEF Follows, Opened
        <5>2. \A i \in 1 .. n : 1 .. (i - 1) \subseteq 1 .. n
          OBVIOUS
        <5> QED BY <5>1, <5>2 DEF Pending
      <4>2. ~Cli!Settled(e, r.in_turn, exit)
        BY <3>2 DEF Cli!Settled
      <4> QED BY <1>3, <2>2, <4>1, <4>2 DEF Follows
    <3> QED BY <3>1, <3>2
  <2>8. step.codes = CodesOf(s, Stands(s, m, exit))
    <3>1. r.codes = CodesOf(s, Stands(s, n, exit))
      BY DEF Follows
    <3> QED BY <1>4, <1>6, <2>5, <2>6, <2>7, <3>1
  <2>9. step.reconnects = CodesOf(s, Pending(s, m)) /\ (step.in_turn <=> Opened(s, m))
    BY <1>3, <1>4, <1>6, <2>1
  <2> QED BY <1>1, <1>5, <2>8, <2>9 DEF Follows
<1>7. CASE ~Cli!Boundary(e)
  <2>1. PICK waits \in BOOLEAN : waits <=> Cli!Reconnects(e) /\ Opened(s, n)
    OBVIOUS
  <2>2. waits <=> Cli!Reconnects(e) /\ r.in_turn
    BY <2>1 DEF Follows
  <2>3. PICK told, held : /\ told = IF Cli!IsError(e) /\ ~waits THEN {m} ELSE {}
                          /\ held = IF waits THEN {m} ELSE {}
    OBVIOUS
  <2>4. /\ Stands(s, m, exit) = Stands(s, n, exit) \cup told
        /\ Pending(s, m) = Pending(s, n) \cup held
    BY <1>1, <1>7, <2>1, <2>3, CountedWithin
  <2>5. /\ CodesOf(s, Stands(s, m, exit)) = CodesOf(s, Stands(s, n, exit)) \cup CodesOf(s, told)
        /\ CodesOf(s, Pending(s, m)) = CodesOf(s, Pending(s, n)) \cup CodesOf(s, held)
    BY <2>4, CodesAdd
  <2>6. /\ CodesOf(s, told) = IF Cli!IsError(e) /\ ~waits THEN code ELSE {}
        /\ CodesOf(s, held) = IF waits THEN code ELSE {}
    BY <1>3, <2>3
  <2>7. Opened(s, m) <=> Opened(s, n)
    BY <1>1, <1>7, WithinATurn
  <2>8. /\ r.codes = CodesOf(s, Stands(s, n, exit)) /\ r.reconnects = CodesOf(s, Pending(s, n))
        /\ r.in_turn <=> Opened(s, n)
    BY DEF Follows
  <2>9. step.codes = CodesOf(s, Stands(s, m, exit))
    BY <1>4, <1>7, <2>2, <2>5, <2>6, <2>8
  <2>10. step.reconnects = CodesOf(s, Pending(s, m))
    BY <1>4, <1>7, <2>2, <2>5, <2>6, <2>8
  <2>11. step.in_turn <=> Opened(s, m)
    BY <1>4, <1>7, <2>7, <2>8
  <2> QED BY <1>1, <1>5, <2>9, <2>10, <2>11 DEF Follows
<1> QED BY <1>6, <1>7

\* What stands at the end, and which tools are broken, as the property states it.
LEMMA StandingIs ==
    ASSUME NEW s, NEW exit, Len(s) \in Nat
    PROVE /\ Cli!Standing(s, exit) = Stands(s, Len(s), exit) \cup Pending(s, Len(s))
          /\ Cli!Broken(s) = Faults(s, Len(s))
<1>1. PICK n : n = Len(s)
  OBVIOUS
<1>2. ASSUME NEW i \in 1 .. n
      PROVE Cli!Excused(s, i, exit) <=> i \in Forgiven(s, n, exit)
  BY <1>1 DEF Cli!Excused, Cli!SettledLater, Forgiven, Turn
<1>3. Cli!Standing(s, exit) = Told(s, n) \ Forgiven(s, n, exit)
  BY <1>1, <1>2 DEF Cli!Standing, Told
<1>4. \A i \in Pending(s, n) : i \in Told(s, n) /\ i \notin Forgiven(s, n, exit)
  BY <1>1, PendingIsNotForgiven, ReconnectIs DEF Pending, Told
<1>5. Cli!Broken(s) = Faults(s, n)
  BY <1>1 DEF Cli!Broken, Faults
<1> QED BY <1>1, <1>3, <1>4, <1>5 DEF Stands

LEMMA CodexIsHonest ==
    ASSUME NEW tape \in Seq(CliEvents), NEW exit \in Int, FailuresPresent
    PROVE Cli!CodexHonest(tape, exit)
<1>1. PICK N, K, T : /\ N = Len(tape) /\ K = {Cli!NativeCode(tape[i]) : i \in 1 .. N}
                     /\ T = {tape[i].tool : i \in 1 .. N}
  OBVIOUS
<1>2. N \in Nat /\ \A i \in 1 .. N : Cli!NativeCode(tape[i]) \in K /\ tape[i].tool \in T
  BY <1>1
<1>3. PICK H : H = Cli!Heard(tape, exit)
  OBVIOUS
<1>4. /\ \A i \in 0 .. N : H[i] \in Readers(K, T)
      /\ H[0] = Cli!CodexStart
      /\ \A i \in 1 .. N : H[i] = Cli!CodexStep(H[i - 1], tape[i], exit)
  BY <1>1, <1>2, <1>3, HeardIs
<1>5. PICK U : U = {i \in Nat : i <= N => Follows(H[i], tape, i, exit)}
  OBVIOUS
<1>6. 0 \in U
  BY <1>4, <1>5, FollowsAtFirst
<1>7. ASSUME NEW i \in Nat, i \in U PROVE i + 1 \in U
  <2>1. SUFFICES ASSUME i + 1 <= N PROVE Follows(H[i + 1], tape, i + 1, exit)
    BY <1>5
  <2>2. i + 1 \in 1 .. N /\ i + 1 - 1 = i /\ i <= N /\ i \in 0 .. N
    BY <1>2, <2>1
  <2>3. Follows(H[i], tape, i, exit) /\ H[i] \in Readers(K, T)
    BY <1>4, <1>5, <1>7, <2>2
  <2>4. H[i + 1] = Cli!CodexStep(H[i], tape[i + 1], exit)
    BY <1>4, <2>2
  <2>5. Cli!NativeCode(tape[i + 1]) \in K /\ tape[i + 1].tool \in T
    BY <1>2, <2>2
  <2> QED BY <2>3, <2>4, <2>5, FollowsOn
<1>8. Nat \subseteq U
  BY <1>6, <1>7, NatSetInduction
<1>9. PICK r : r = H[N]
  OBVIOUS
<1>10. Follows(r, tape, N, exit)
  BY <1>2, <1>5, <1>8, <1>9
<1>11. PICK standing, codes, tool, v :
         /\ standing = {Cli!NativeCode(tape[i]) : i \in Cli!Standing(tape, exit)}
         /\ codes = r.codes \cup r.reconnects /\ tool = Cli!ToolFailure(r)
         /\ v = Cli!CodexFailure(tape, exit)
  OBVIOUS
<1>12. codes = standing
  <2>1. PICK counted, open : counted = Stands(tape, N, exit) /\ open = Pending(tape, N)
    OBVIOUS
  <2>2. CodesOf(tape, counted \cup open) = CodesOf(tape, counted) \cup CodesOf(tape, open)
    BY CodesAdd
  <2>3. Cli!Standing(tape, exit) = counted \cup open
    BY <1>1, <1>2, <2>1, StandingIs
  <2>4. standing = CodesOf(tape, counted \cup open)
    BY <1>11, <2>3 DEF CodesOf
  <2> QED BY <1>10, <1>11, <2>1, <2>2, <2>4 DEF Follows
<1>13. tool \in {None, "configuration", "unknown"} /\ (tool = None <=> Cli!Broken(tape) = {})
  <2>1. r.broken \cup r.denied = {} <=> Cli!Broken(tape) = {}
    <3>1. Cli!Broken(tape) = Faults(tape, N)
      BY <1>1, <1>2, StandingIs
    <3>2. r.broken \cup r.denied = ToolsOf(tape, N)
      BY <1>10 DEF Follows
    <3> QED BY <3>1, <3>2 DEF ToolsOf
  <2>2. None # "configuration" /\ None # "unknown"
    BY DEF FailuresPresent, Categories
  <2> QED BY <1>11, <2>1, <2>2 DEF Cli!ToolFailure
<1>14. v = Cli!classify_evidence(codes, tool, exit, FALSE)
  BY <1>1, <1>3, <1>9, <1>11 DEF Cli!CodexFailure
<1>15. VerdictOf(v, standing, tool, exit)
  BY <1>12, <1>13, <1>14, ClassificationIs
<1>16. v = None <=> exit = 0 /\ standing = {} /\ Cli!Broken(tape) = {}
  BY <1>13, <1>15 DEF VerdictOf
<1>17. v # None /\ v.retryable => exit >= 0 /\ Cli!Broken(tape) = {} /\ standing = {v.category}
  BY <1>13, <1>15 DEF VerdictOf
<1>18. \A c \in {"quota", "authentication"} : c \in standing => v # None /\ v.stop
  BY <1>15 DEF VerdictOf
<1> QED BY <1>11, <1>16, <1>17, <1>18 DEF Cli!CodexHonest

\* A participant's CLI that ended, with all it told.
EndsOfClis == [harness : {"codex", "claude", "zcode", "kimi", "dsh"}, events : Seq(CliEvents), exit : Int]

\* For streams of any length and each of the five CLIs: a failed exit is always
\* reported, and a retry is earned by one known cause of all the CLI told. Of
\* Codex, an error that the end of its own turn did not settle, or a tool whose
\* last call failed, is reported whatever the exit, and a refused login or an
\* exhausted quota stops the attempt (harness_failure of each adapter and
\* classify_evidence, harnesses/).
THEOREM HarnessIsHonest ==
    ASSUME FailuresPresent
    PROVE \A end \in EndsOfClis : Cli!HarnessHonest(end)
<1>1. TAKE end \in EndsOfClis
<1>2. end.events \in Seq(CliEvents) /\ end.exit \in Int
  BY DEF EndsOfClis
<1>3. CASE end.harness = "codex"
  BY <1>2, <1>3, CodexIsHonest DEF Cli!HarnessHonest
<1>4. CASE end.harness = "claude"
  BY <1>2, <1>4, ClaudeIsHonest DEF Cli!HarnessHonest
<1>5. CASE end.harness = "zcode"
  BY <1>2, <1>5, ZcodeIsHonest DEF Cli!HarnessHonest
<1>6. CASE end.harness = "kimi"
  BY <1>2, <1>6, KimiIsHonest DEF Cli!HarnessHonest
<1>7. CASE end.harness = "dsh"
  BY <1>2, <1>7, DshIsHonest DEF Cli!HarnessHonest
<1>8. end.harness \in {"codex", "claude", "zcode", "kimi", "dsh"}
  BY DEF EndsOfClis
<1> QED BY <1>3, <1>4, <1>5, <1>6, <1>7, <1>8

-----------------------------------------------------------------------------
(* What a call is recorded to have used                                    *)

\* No count is taken for an absent one.
CountsPresent == None \notin Int
Counts == Int \cup {None}

LEMMA NumberIs ==
    ASSUME NEW n \in Counts, CountsPresent
    PROVE /\ Spending!number(n) \in Nat \cup {None}
          /\ Spending!number(n) # None => Spending!number(n) = n /\ n \in Nat
          /\ n \in Nat => Spending!number(n) = n
BY DEF Spending!number, Counts, CountsPresent

\* For all counts a CLI reports and every price: the parts of an input that is
\* recorded add up to it, no amount is priced without all of them, and what is
\* recorded of a count that was reported is that count (request_record and
\* _calculate_token_cost, results/usage.py).
THEOREM RecordIsHonest ==
    ASSUME CountsPresent
    PROVE \A reported \in [Spending!Fields -> Counts] : \A cost, pricing :
            Spending!RecordHonest(reported, cost, pricing)
<1>1. SUFFICES ASSUME NEW reported \in [Spending!Fields -> Counts], NEW cost, NEW pricing
               PROVE Spending!RecordHonest(reported, cost, pricing)
  OBVIOUS
<1>2. PICK told : told = [f \in Spending!Fields |-> Spending!number(reported[f])]
  OBVIOUS
<1>3. /\ told \in [Spending!Fields -> Nat \cup {None}]
      /\ \A f \in Spending!Fields : told[f] = Spending!number(reported[f])
      /\ \A f \in Spending!Fields : told[f] # None => told[f] = reported[f]
  BY <1>1, <1>2, NumberIs
<1>4. PICK i, u, c : i = told.input /\ u = told.uncached /\ c = told.cached
  OBVIOUS
<1>5. i \in Nat \cup {None} /\ u \in Nat \cup {None} /\ c \in Nat \cup {None}
  BY <1>3, <1>4 DEF Spending!Fields
<1>6. PICK input : input = IF i = None /\ u # None /\ c # None THEN u + c ELSE i
  OBVIOUS
<1>7. PICK uncached : uncached = IF u = None /\ input # None /\ c # None THEN Spending!number(input - c)
                                 ELSE IF u # None /\ c # None /\ u + c # input THEN None ELSE u
  OBVIOUS
<1>8. PICK r, t : /\ r = Spending!request_record("a", None, "request", reported, cost)
                  /\ t = [told EXCEPT !.input = input, !.uncached = uncached]
  OBVIOUS
<1>9. r.tokens = t /\ r.model = None /\ r.scope = "request"
  BY <1>2, <1>4, <1>6, <1>7, <1>8 DEF Spending!request_record
<1>10. /\ t.input = input /\ t.uncached = uncached /\ t.cached = c /\ t.output = told.output
       /\ \A f \in Spending!Fields : f \notin {"input", "uncached"} => t[f] = told[f]
  BY <1>3, <1>4, <1>8 DEF Spending!Fields
<1>11. /\ input \in Nat \cup {None} /\ (i # None => input = i)
       /\ u # None /\ c # None => input # None
  BY <1>5, <1>6 DEF CountsPresent
<1>12. input # None /\ c # None => input - c \in Counts
  BY <1>5, <1>11 DEF Counts
<1>13. u # None => uncached \in {u, None}
  BY <1>7
<1>14. input # None /\ uncached # None /\ c # None => input = uncached + c
  <2>1. SUFFICES ASSUME input # None, uncached # None, c # None PROVE input = uncached + c
    OBVIOUS
  <2>2. CASE u = None
    <3>1. uncached = Spending!number(input - c)
      BY <1>7, <2>1, <2>2
    <3>2. uncached = input - c
      BY <1>12, <2>1, <3>1, NumberIs
    <3> QED BY <1>5, <1>11, <2>1, <3>2
  <2>3. CASE u # None
    BY <1>7, <2>1, <2>3
  <2> QED BY <2>2, <2>3
<1>15. uncached # None /\ c # None => input # None
  BY <1>7, <1>11
<1>16. PICK price : price = Spending!calculate_token_cost(r, pricing, "m")
  OBVIOUS
<1>17. price # None => uncached # None /\ c # None /\ told.output # None
  <2>1. \A f \in {"uncached", "cached", "output"} : price # None => r.tokens[f] # None
    BY <1>16 DEF Spending!calculate_token_cost
  <2> QED BY <1>9, <1>10, <2>1
<1>18. price # None => \A f \in Spending!Fields : t[f] # None
  BY <1>10, <1>15, <1>17 DEF Spending!Fields
<1>19. ASSUME NEW f \in Spending!Fields, Spending!number(reported[f]) # None, t[f] # None
       PROVE t[f] = reported[f]
  <2>1. told[f] # None /\ told[f] = reported[f]
    BY <1>3, <1>19
  <2>2. t[f] = told[f]
    BY <1>4, <1>10, <1>11, <1>13, <1>19, <2>1 DEF Spending!Fields
  <2> QED BY <2>1, <2>2
<1> QED BY <1>8, <1>9, <1>10, <1>14, <1>16, <1>18, <1>19 DEF Spending!RecordHonest

-----------------------------------------------------------------------------
(* The task a participant is handed, for every Dataset and declaration: it  *)
(* is whole or refused, and bound to the content it was published with      *)

CONSTANT parse_evaluation
Data == INSTANCE TaskDatasets

\* Declarations whose paths are sequences of names, and files that are not None.
DeclaredPaths(d, Names) ==
  /\ \A r \in DOMAIN d.inputs : d.inputs[r].path \in Seq(Names)
  /\ \A r \in DOMAIN d.private : d.private[r].path \in Seq(Names)

\* The roles of the files a solver is given, and of those the evaluator derives.
GivenRoles(d) == DOMAIN d.inputs \ {"evaluation"}
DerivedRoles(d) == {r \in DOMAIN d.private : d.private[r].derived # {}}

WholeFiles(files) == \A x \in DOMAIN files : files[x] # None

\* What a solver is given of a task, path by path.
GivenOver(d, files, t, seen) ==
  /\ Data!solver_inputs(t) = GivenRoles(d)
  /\ Data!Published(t)
  /\ DOMAIN seen = {d.inputs[r].path : r \in GivenRoles(d)}
  /\ \A r \in GivenRoles(d) : t.contents[r] = files[d.inputs[r].source] /\ seen[d.inputs[r].path] = t.contents[r]

\* What a contract compares of a loaded task: the places of its inputs, what is
\* derived, and the content of every other asset; and the roles these have.
Compared(d, t, c, assets, derived) ==
  /\ DOMAIN c.paths = DOMAIN d.inputs /\ \A r \in DOMAIN d.inputs : c.paths[r] = d.inputs[r].path
  /\ DOMAIN c.derivations = derived
  /\ DOMAIN c.inputs = DOMAIN assets \ derived /\ \A r \in DOMAIN assets \ derived : c.inputs[r] = assets[r]
  /\ \A r \in DOMAIN d.inputs : r \in DOMAIN assets \ derived /\ assets[r] = t.contents[r]
  /\ "evaluation" \in DOMAIN assets \ derived <=> t.evaluation # None
  /\ t.evaluation # None => assets["evaluation"] = t.evaluation

LEMMA OverlapsItself ==
    ASSUME NEW Names, NEW p \in Seq(Names) PROVE Data!Overlap(p, p)
<1>1. Len(p) \in Nat
  OBVIOUS
<1> QED BY <1>1 DEF Data!Overlap, Data!IsPrefix

\* A task that was loaded, and what its declaration says of its roles.
LEMMA LoadedTask ==
    ASSUME NEW d, NEW files, NEW t, t = Data!load_task(d, files), t # Data!Refused
    PROVE  /\ Data!Declared(d) /\ Data!Authentic(d, files)
           /\ t.declared = d
           /\ t.contents = [r \in Data!Roles(d) |-> files[Data!Entry(d, r).source]]
           /\ t.evaluation = IF "evaluation" \in DOMAIN d.inputs THEN t.contents["evaluation"] ELSE d.evaluation
           /\ t.evaluation # None =>
                Data!PlanBound(parse_evaluation[t.evaluation], t.contents,
                               IF d.constraints = None THEN {} ELSE {"constraints"})
<1> DEFINE contents == [r \in Data!Roles(d) |-> files[Data!Entry(d, r).source]]
           evaluation == IF "evaluation" \in DOMAIN d.inputs THEN contents["evaluation"] ELSE d.evaluation
           inline == IF d.constraints = None THEN {} ELSE {"constraints"}
           task == [declared |-> d, contents |-> contents, evaluation |-> evaluation]
<1>1. Data!load_task(d, files) =
        IF ~(Data!Declared(d) /\ Data!Authentic(d, files)) THEN Data!Refused
        ELSE IF evaluation # None /\ ~Data!PlanBound(parse_evaluation[evaluation], contents, inline)
        THEN Data!Refused ELSE task
  BY DEF Data!load_task
<1>2. task.declared = d /\ task.contents = contents /\ task.evaluation = evaluation
  OBVIOUS
<1> HIDE DEF task, evaluation, contents, inline
<1>3. /\ Data!Declared(d) /\ Data!Authentic(d, files)
      /\ evaluation # None => Data!PlanBound(parse_evaluation[evaluation], contents, inline)
      /\ t = task
  BY <1>1
<1> QED BY <1>2, <1>3 DEF evaluation, contents, inline

LEMMA DeclaredApart ==
    ASSUME NEW d, Data!Declared(d)
    PROVE  /\ Data!Roles(d) = DOMAIN d.inputs \cup DOMAIN d.private
           /\ \A r \in DOMAIN d.inputs : Data!Entry(d, r) = d.inputs[r] /\ d.inputs[r].derived = {} /\ r \notin DOMAIN d.private
           /\ \A r \in DOMAIN d.private : Data!Entry(d, r) = d.private[r] /\ r \notin {"constraints", "evaluation"}
           /\ \A r, s \in Data!Roles(d) : r # s => ~Data!Overlap(Data!Entry(d, r).path, Data!Entry(d, s).path)
           /\ "evaluation" \in DOMAIN d.inputs => d.evaluation = None
           /\ "constraints" \in DOMAIN d.inputs => d.constraints = None
<1>1. DOMAIN d.private \cap (DOMAIN d.inputs \cup {"netlist", "constraints", "evaluation"}) = {}
  BY DEF Data!Declared
<1>2. (d.constraints # None) # ("constraints" \in DOMAIN d.inputs)
  BY DEF Data!Declared
<1>3. "constraints" \in DOMAIN d.inputs => d.constraints = None
  BY <1>2
<1>4. /\ \A r \in DOMAIN d.inputs : d.inputs[r].derived = {}
      /\ "evaluation" \in DOMAIN d.inputs => d.evaluation = None
      /\ \A r, s \in Data!Roles(d) : r # s => ~Data!Overlap(Data!Entry(d, r).path, Data!Entry(d, s).path)
  BY DEF Data!Declared
<1> QED BY <1>1, <1>3, <1>4 DEF Data!Roles, Data!Entry

LEMMA Handed ==
    ASSUME NEW d, NEW files, NEW Names, DeclaredPaths(d, Names),
           NEW t, t = Data!load_task(d, files), t # Data!Refused,
           NEW seen, seen = Data!materialize(t)
    PROVE  GivenOver(d, files, t, seen)
<1>0. PICK given : given = GivenRoles(d)
  OBVIOUS
<1>1. /\ Data!Declared(d) /\ t.declared = d
      /\ t.contents = [r \in Data!Roles(d) |-> files[Data!Entry(d, r).source]]
  BY LoadedTask
<1>2. /\ Data!Roles(d) = DOMAIN d.inputs \cup DOMAIN d.private
      /\ \A r \in DOMAIN d.inputs : Data!Entry(d, r) = d.inputs[r]
      /\ \A r, s \in Data!Roles(d) : r # s => ~Data!Overlap(Data!Entry(d, r).path, Data!Entry(d, s).path)
  BY <1>1, DeclaredApart
<1>3. Data!solver_inputs(t) = given /\ given \subseteq DOMAIN d.inputs
  BY <1>0, <1>1 DEF Data!solver_inputs, GivenRoles
<1>4. \A r \in given : t.contents[r] = files[d.inputs[r].source]
  BY <1>1, <1>2, <1>3
<1>5. Data!Published(t)
  BY <1>1, <1>2, <1>3 DEF Data!Published
<1>6. seen = [p \in {t.declared.inputs[r].path : r \in Data!solver_inputs(t)} |->
                t.contents[CHOOSE r \in Data!solver_inputs(t) : t.declared.inputs[r].path = p]]
  BY <1>5 DEF Data!materialize
<1>7. ASSUME NEW r \in given PROVE seen[d.inputs[r].path] = t.contents[r]
  <2>1. ASSUME NEW s \in given, d.inputs[s].path = d.inputs[r].path PROVE s = r
    <3>1. Data!Overlap(d.inputs[s].path, d.inputs[r].path)
      BY <1>3, <2>1, OverlapsItself DEF DeclaredPaths
    <3> QED BY <1>2, <1>3, <2>1, <3>1
  <2>2. PICK p : p = d.inputs[r].path
    OBVIOUS
  <2>3. \A s \in Data!solver_inputs(t) : t.declared.inputs[s].path = p => s = r
    BY <1>1, <1>3, <2>1, <2>2
  <2>4. r \in Data!solver_inputs(t) /\ t.declared.inputs[r].path = p
    BY <1>1, <1>3, <2>2
  <2>5. (CHOOSE s \in Data!solver_inputs(t) : t.declared.inputs[s].path = p) = r
    BY <2>3, <2>4
  <2>6. p \in {t.declared.inputs[s].path : s \in Data!solver_inputs(t)}
    BY ONLY <2>4
  <2>7. seen[p] = t.contents[CHOOSE s \in Data!solver_inputs(t) : t.declared.inputs[s].path = p]
    BY <1>6, <2>6
  <2> QED BY <2>2, <2>5, <2>7
<1>8. DOMAIN seen = {d.inputs[r].path : r \in given}
  BY <1>1, <1>3, <1>6
<1> QED BY <1>0, <1>3, <1>4, <1>5, <1>7, <1>8 DEF GivenOver

\* A solver finds just what it is told of, each file with the bytes that were
\* declared, and nothing of the evaluator or at a place of its; and the plan
\* finds all it refers to, as it was when its results were frozen.
THEOREM TaskLoadedWhole ==
    ASSUME NEW d, NEW files, NEW Names, DeclaredPaths(d, Names)
    PROVE  Data!LoadedWhole(d, files)
<1>1. SUFFICES ASSUME Data!load_task(d, files) # Data!Refused PROVE Data!LoadedWhole(d, files)
  BY DEF Data!LoadedWhole
<1>0. PICK t, seen : t = Data!load_task(d, files) /\ seen = Data!materialize(t)
  OBVIOUS
<1> DEFINE told == {Data!solver_description(t)[r] : r \in DOMAIN Data!solver_description(t)}
           given == GivenRoles(d)
           inline == IF d.constraints = None THEN {} ELSE {"constraints"}
<1>2. /\ Data!Declared(d) /\ Data!Authentic(d, files)
      /\ t.declared = d
      /\ t.contents = [r \in Data!Roles(d) |-> files[Data!Entry(d, r).source]]
      /\ t.evaluation # None => Data!PlanBound(parse_evaluation[t.evaluation], t.contents, inline)
  BY <1>0, <1>1, LoadedTask
<1>3. /\ Data!Roles(d) = DOMAIN d.inputs \cup DOMAIN d.private
      /\ \A r \in DOMAIN d.inputs : Data!Entry(d, r) = d.inputs[r] /\ d.inputs[r].derived = {} /\ r \notin DOMAIN d.private
      /\ \A r \in DOMAIN d.private : Data!Entry(d, r) = d.private[r] /\ r \notin {"constraints", "evaluation"}
      /\ \A r, s \in Data!Roles(d) : r # s => ~Data!Overlap(Data!Entry(d, r).path, Data!Entry(d, s).path)
      /\ "constraints" \in DOMAIN d.inputs => d.constraints = None
      /\ given \subseteq DOMAIN d.inputs /\ \A r \in given : r # "evaluation"
  BY <1>2, DeclaredApart DEF GivenRoles
<1> HIDE DEF given
<1>14. GivenOver(d, files, t, seen)
  BY <1>0, <1>1, Handed
<1>4. /\ Data!solver_inputs(t) = given
      /\ Data!Published(t)
      /\ DOMAIN seen = {d.inputs[r].path : r \in given}
      /\ \A r \in given : t.contents[r] = files[d.inputs[r].source] /\ seen[d.inputs[r].path] = t.contents[r]
  BY <1>14 DEF GivenOver, given
<1>5. DOMAIN seen = told
  <2>1. Data!solver_description(t) = [r \in Data!solver_inputs(t) |-> t.declared.inputs[r].path]
    BY DEF Data!solver_description
  <2>2. DOMAIN Data!solver_description(t) = given
    BY <1>4, <2>1
  <2>3. \A r \in given : Data!solver_description(t)[r] = d.inputs[r].path
    BY <1>2, <1>4, <2>1
  <2> QED BY <1>4, <2>2, <2>3
<1>6. ASSUME NEW r \in given PROVE seen[d.inputs[r].path] = d.inputs[r].sha
  <2>1. files[d.inputs[r].source] = d.inputs[r].sha
    BY <1>2, <1>3 DEF Data!Authentic
  <2> QED BY <1>4, <2>1
<1>7. ASSUME NEW r \in DOMAIN d.private \cup ({"evaluation"} \cap DOMAIN d.inputs), NEW p \in DOMAIN seen
      PROVE ~Data!Overlap(p, Data!Entry(d, r).path)
  <2>1. PICK s \in given : p = Data!Entry(d, s).path
    BY <1>3, <1>4
  <2> QED BY <1>3, <2>1
<1>8. ASSUME t.evaluation # None
      PROVE  LET plan == parse_evaluation[t.evaluation] IN
             /\ \A ref \in plan.external : Len(ref) = 2 => ref[2] \in DOMAIN Data!input_assets(t)
             /\ \A r \in DOMAIN plan.frozen : Data!input_assets(t)[r] = plan.frozen[r]
  <2> DEFINE plan == parse_evaluation[t.evaluation]
  <2>1. /\ plan.external \subseteq {<<"candidate">>, <<"task">>, <<"input", "evaluation">>}
                                    \cup {<<"input", r>> : r \in DOMAIN t.contents \cup inline}
        /\ \A r \in DOMAIN plan.frozen : r \in DOMAIN t.contents /\ t.contents[r] = plan.frozen[r]
    BY <1>2, <1>8 DEF Data!PlanBound
  <2> HIDE DEF plan
  <2>2. Data!Inline(t) = inline \cup {"evaluation"}
    BY <1>2, <1>8 DEF Data!Inline
  <2>3. Data!input_assets(t) = [r \in DOMAIN t.contents \cup Data!Inline(t) |->
           IF r = "constraints" /\ t.declared.constraints # None THEN t.declared.constraints
           ELSE IF r \in DOMAIN t.contents THEN t.contents[r] ELSE t.evaluation]
    BY DEF Data!input_assets
  <2>4. \A r \in DOMAIN t.contents : r = "constraints" => t.declared.constraints = None
    BY <1>2, <1>3
  <2>5. ASSUME NEW ref \in plan.external, Len(ref) = 2 PROVE ref[2] \in DOMAIN Data!input_assets(t)
    <3>1. DOMAIN Data!input_assets(t) = DOMAIN t.contents \cup inline \cup {"evaluation"}
      BY <2>2, <2>3
    <3>2. Len(<<"candidate">>) = 1 /\ Len(<<"task">>) = 1
      OBVIOUS
    <3>3. ref = <<"input", "evaluation">> \/ \E r \in DOMAIN t.contents \cup inline : ref = <<"input", r>>
      BY <2>1, <2>5, <3>2
    <3>4. ref[2] = "evaluation" \/ ref[2] \in DOMAIN t.contents \cup inline
      BY <3>3
    <3> QED BY <3>1, <3>4
  <2>6. \A r \in DOMAIN plan.frozen : Data!input_assets(t)[r] = plan.frozen[r]
    BY <2>1, <2>3, <2>4
  <2> QED BY <2>5, <2>6 DEF plan
<1>9. Data!LoadedWhole(d, files) <=>
        (t # Data!Refused =>
           /\ Data!Published(t) /\ DOMAIN seen = told
           /\ \A r \in Data!solver_inputs(t) : seen[d.inputs[r].path] = d.inputs[r].sha
           /\ \A r \in DOMAIN d.private \cup ({"evaluation"} \cap DOMAIN d.inputs) :
                \A p \in DOMAIN seen : ~Data!Overlap(p, Data!Entry(d, r).path)
           /\ t.evaluation # None =>
                LET plan == parse_evaluation[t.evaluation] IN
                /\ \A ref \in plan.external : Len(ref) = 2 => ref[2] \in DOMAIN Data!input_assets(t)
                /\ \A r \in DOMAIN plan.frozen : Data!input_assets(t)[r] = plan.frozen[r])
  BY <1>0 DEF Data!LoadedWhole
<1> HIDE DEF told, inline
<1>10. \A r \in Data!solver_inputs(t) : seen[d.inputs[r].path] = d.inputs[r].sha
  BY <1>4, <1>6
<1> QED BY <1>4, <1>5, <1>7, <1>8, <1>9, <1>10

LEMMA Contracted ==
    ASSUME NEW d, NEW files, WholeFiles(files),
           NEW t, t = Data!load_task(d, files), t # Data!Refused,
           NEW c, c = Data!task_contract(t), NEW assets, assets = Data!input_assets(t),
           NEW derived, derived = DerivedRoles(d)
    PROVE  Compared(d, t, c, assets, derived)
<1> DEFINE held == {r \in DOMAIN t.declared.private : t.declared.private[r].derived # {}}
<1>1. /\ Data!Declared(d) /\ Data!Authentic(d, files)
      /\ t.declared = d
      /\ t.contents = [r \in Data!Roles(d) |-> files[Data!Entry(d, r).source]]
      /\ t.evaluation = IF "evaluation" \in DOMAIN d.inputs THEN t.contents["evaluation"] ELSE d.evaluation
  BY LoadedTask
<1>2. /\ Data!Roles(d) = DOMAIN d.inputs \cup DOMAIN d.private
      /\ derived \subseteq DOMAIN d.private
      /\ \A r \in DOMAIN d.inputs : r \notin DOMAIN d.private
      /\ \A r \in DOMAIN d.private : r \notin {"constraints", "evaluation"}
      /\ "constraints" \in DOMAIN d.inputs => d.constraints = None
  BY <1>1, DeclaredApart DEF DerivedRoles
<1>4. c = [output |-> t.declared.output,
           paths |-> [r \in DOMAIN t.declared.inputs |-> t.declared.inputs[r].path],
           derivations |-> [r \in held |-> t.declared.private[r].derived],
           inputs |-> [r \in DOMAIN Data!input_assets(t) \ held |-> Data!input_assets(t)[r]]]
  BY DEF Data!task_contract
<1>5. /\ c.paths = [r \in DOMAIN t.declared.inputs |-> t.declared.inputs[r].path]
      /\ c.derivations = [r \in held |-> t.declared.private[r].derived]
      /\ c.inputs = [r \in DOMAIN assets \ held |-> assets[r]]
  BY <1>4
<1>6. held = derived
  BY <1>1 DEF DerivedRoles
<1> HIDE DEF held
<1>7. /\ DOMAIN c.paths = DOMAIN d.inputs /\ \A r \in DOMAIN d.inputs : c.paths[r] = d.inputs[r].path
      /\ DOMAIN c.derivations = derived
      /\ DOMAIN c.inputs = DOMAIN assets \ derived /\ \A r \in DOMAIN assets \ derived : c.inputs[r] = assets[r]
  BY <1>1, <1>5, <1>6
<1>8. assets = [r \in DOMAIN t.contents \cup Data!Inline(t) |->
                  IF r = "constraints" /\ t.declared.constraints # None THEN t.declared.constraints
                  ELSE IF r \in DOMAIN t.contents THEN t.contents[r] ELSE t.evaluation]
  BY DEF Data!input_assets
<1>9. DOMAIN t.contents = DOMAIN d.inputs \cup DOMAIN d.private
  BY <1>1, <1>2
<1>10. \A r \in DOMAIN d.inputs : r \in DOMAIN assets \ derived /\ assets[r] = t.contents[r]
  BY <1>1, <1>2, <1>8, <1>9
<1>11. "evaluation" \in DOMAIN d.inputs => t.evaluation # None
  <2>1. ASSUME "evaluation" \in DOMAIN d.inputs PROVE t.evaluation # None
    <3>1. t.evaluation = files[Data!Entry(d, "evaluation").source]
      BY <1>1, <1>2, <2>1
    <3>2. Data!Entry(d, "evaluation").source \in DOMAIN files
      BY <1>1, <1>2, <2>1 DEF Data!Authentic
    <3> QED BY <3>1, <3>2 DEF WholeFiles
  <2> QED BY <2>1
<1>12. "evaluation" \notin DOMAIN d.private
  BY <1>2
<1>13. "evaluation" \in Data!Inline(t) <=> t.evaluation # None
  BY DEF Data!Inline
<1>14. "evaluation" \in DOMAIN assets \ derived <=> t.evaluation # None
  <2>1. DOMAIN assets = DOMAIN d.inputs \cup DOMAIN d.private \cup Data!Inline(t)
    BY <1>8, <1>9
  <2> QED BY <1>2, <1>11, <1>12, <1>13, <2>1
<1>15. ASSUME t.evaluation # None PROVE assets["evaluation"] = t.evaluation
  <2>1. assets["evaluation"] = IF "evaluation" \in DOMAIN t.contents THEN t.contents["evaluation"] ELSE t.evaluation
    BY <1>8, <1>13, <1>15
  <2> QED BY <1>1, <1>9, <1>12, <2>1
<1> QED BY <1>7, <1>10, <1>14, <1>15 DEF Compared

\* Tasks of one contract are the same for the solver, byte for byte and place
\* for place, and for the evaluator but for what it derives, whichever files
\* they were loaded from.
THEOREM TaskContractBinds ==
    ASSUME NEW d, NEW files, NEW e, NEW others, NEW Names, DeclaredPaths(d, Names), DeclaredPaths(e, Names),
           WholeFiles(files), WholeFiles(others)
    PROVE  Data!ContractBinds(d, files, e, others)
<1>0. PICK t, u, c : t = Data!load_task(d, files) /\ u = Data!load_task(e, others) /\ c = Data!task_contract(t)
  OBVIOUS
<1>1. SUFFICES ASSUME t # Data!Refused, u # Data!Refused, c = Data!task_contract(u)
               PROVE  /\ Data!materialize(t) = Data!materialize(u) /\ Data!solver_description(t) = Data!solver_description(u)
                      /\ t.evaluation = u.evaluation
                      /\ \A r \in DOMAIN Data!input_assets(t) \ DerivedRoles(d) :
                           Data!input_assets(u)[r] = Data!input_assets(t)[r]
  BY <1>0 DEF Data!ContractBinds, DerivedRoles
<1>2. PICK a, b, one, two : /\ a = Data!input_assets(t) /\ b = Data!input_assets(u)
                            /\ one = DerivedRoles(d) /\ two = DerivedRoles(e)
  OBVIOUS
<1>3. Compared(d, t, c, a, one)
  BY <1>0, <1>1, <1>2, Contracted
<1>4. Compared(e, u, c, b, two)
  BY <1>0, <1>1, <1>2, Contracted
<1>5. /\ DOMAIN d.inputs = DOMAIN e.inputs
      /\ \A r \in DOMAIN d.inputs : d.inputs[r].path = e.inputs[r].path /\ t.contents[r] = u.contents[r]
  BY <1>3, <1>4 DEF Compared
<1>6. t.declared = d /\ u.declared = e
  BY <1>0, <1>1, LoadedTask
<1>7. PICK S : S = GivenRoles(d) /\ S = GivenRoles(e) /\ S \subseteq DOMAIN d.inputs
  BY <1>5 DEF GivenRoles
<1>8. Data!solver_inputs(t) = S /\ Data!solver_inputs(u) = S
  BY <1>6, <1>7 DEF Data!solver_inputs, GivenRoles
<1>9. Data!solver_description(t) = Data!solver_description(u)
  <2>1. /\ Data!solver_description(t) = [r \in S |-> t.declared.inputs[r].path]
        /\ Data!solver_description(u) = [r \in S |-> u.declared.inputs[r].path]
    BY <1>8 DEF Data!solver_description
  <2>2. \A r \in S : t.declared.inputs[r].path = u.declared.inputs[r].path
    BY <1>5, <1>6, <1>7
  <2> QED BY <2>1, <2>2
<1>10. Data!materialize(t) = Data!materialize(u)
  <2>1. PICK x, y : x = Data!materialize(t) /\ y = Data!materialize(u)
    OBVIOUS
  <2>2. GivenOver(d, files, t, x)
    BY <1>0, <1>1, <2>1, Handed
  <2>3. GivenOver(e, others, u, y)
    BY <1>0, <1>1, <2>1, Handed
  <2>4. /\ DOMAIN x = {d.inputs[r].path : r \in S} /\ \A r \in S : x[d.inputs[r].path] = t.contents[r]
        /\ DOMAIN y = {e.inputs[r].path : r \in S} /\ \A r \in S : y[e.inputs[r].path] = u.contents[r]
    BY <1>7, <2>2, <2>3 DEF GivenOver
  <2>6. \A r \in S : d.inputs[r].path = e.inputs[r].path /\ t.contents[r] = u.contents[r]
    BY <1>5, <1>7
  <2>7. DOMAIN x = DOMAIN y
    BY <2>4, <2>6
  <2>8. ASSUME NEW p \in DOMAIN x PROVE x[p] = y[p]
    <3>1. PICK r \in S : p = d.inputs[r].path
      BY <2>4
    <3> QED BY <2>4, <2>6, <3>1
  <2>9. Data!Published(t) /\ Data!Published(u)
    BY <2>2, <2>3 DEF GivenOver
  <2>5. x = [p \in DOMAIN x |-> x[p]] /\ y = [p \in DOMAIN y |-> y[p]]
    BY <2>1, <2>9 DEF Data!materialize
  <2> QED BY <2>1, <2>5, <2>7, <2>8
<1>11. t.evaluation = u.evaluation
  BY <1>3, <1>4 DEF Compared
<1>12. \A r \in DOMAIN a \ one : b[r] = a[r]
  BY <1>3, <1>4 DEF Compared
<1> QED BY <1>2, <1>9, <1>10, <1>11, <1>12
=============================================================================
