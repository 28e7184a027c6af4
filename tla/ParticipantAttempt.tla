-------------------------- MODULE ParticipantAttempt --------------------------
(***************************************************************************)
(* One attempt of a participant: the runner (runner.py, settlement.py,     *)
(* recovery.py, evidence.py) that creates a session, launches the native   *)
(* CLI, continues it after provider failures, settles the session and      *)
(* exports its result, with the files it leaves for the next runner        *)
(* (state.py); the CLI; and the session it works in, composed with its     *)
(* creation (SessionCreation).                                             *)
(*                                                                         *)
(* A step is one file write or one HTTP call with its retries; a call may  *)
(* fail with or without its effect.  Runner and service may die between    *)
(* any two steps.  A runner starts again only when the CLI of the last one *)
(* is gone, for the CLI holds the slot's lease (see BatchScheduler).       *)
(***************************************************************************)
EXTENDS SessionCreation

CONSTANTS Configs,      \* settings: resume, recoverable, bounded (booleans)
          Resumes,      \* [capacity, network]: the automatic continuations
          Exits,        \* how the native CLI may exit by itself
          MaxSubs,      \* bounds: accepted submissions,
          MaxStarts,    \* runners of the attempt,
          MaxFaults,    \* calls that fail while the service is up,
          MaxCrashes    \* deaths of runner and service

MaxLaunches == MaxStarts + Resumes.capacity + Resumes.network

VARIABLES config,   \* the frozen settings
          solve,    \* the session's record and workspace; subs counts the journal's
                    \* submissions, listed is the record's last, posted (history) the
                    \* last one made over HTTP
          rec,      \* .private/recovery.json
          trace,    \* harness.jsonl and launch-N-harness.jsonl
          jr,       \* finalization.json
          pending,  \* the evaluation deadline of collection.json
          out,      \* analysis/ and observation/
          run,      \* the runner's program counter and locals
          cli,      \* the native process lives
          outcome,  \* how the last runner ended
          used,     \* counts of starts, faults and crashes
          started   \* history: launches whose CLI was started

serviceVars == <<up, sessions, request, handler, solve>>
fileVars == <<rec, trace, jr, pending, out>>
vars == <<config, serviceVars, fileVars, run, cli, outcome, used, started>>

Kinds == {"capacity", "network"}
Errors == {"none", "overloaded", "rate_limited", "network", "signalled", "configuration",
           "other", "timeout", "call"}

ASSUME AttemptAssumption ==
    /\ Configs \subseteq [resume : BOOLEAN, recoverable : BOOLEAN, bounded : BOOLEAN]
    /\ Resumes \in [Kinds -> Nat] /\ Exits \subseteq Errors \ {"timeout", "call"}
    /\ {MaxSubs, MaxStarts, MaxFaults, MaxCrashes} \subseteq Nat

TypeOK ==
    /\ CreationTypeOK
    /\ config \in Configs
    /\ solve \in [closing : BOOLEAN, expired : BOOLEAN, late : BOOLEAN, exec : BOOLEAN, runner : BOOLEAN,
                  subs : 0..MaxSubs, listed : 0..MaxSubs, posted : 0..MaxSubs,
                  interrupted : BOOLEAN, reported : BOOLEAN, judged : 0..MaxSubs]
    /\ rec \in [exists : BOOLEAN, created : 0..MaxSessions, launches : 0..MaxLaunches,
                phase : {"none", "running", "ready", "waiting", "finalizing", "suspended"},
                resumes : [Kinds -> Nat], capacity : BOOLEAN]
    /\ trace \in [cur : 0..MaxLaunches, old : [1..MaxLaunches -> 0..MaxLaunches]]
    /\ jr \in [exists : BOOLEAN, closed : BOOLEAN, error : BOOLEAN, receipt : 0..MaxSubs, drain : {"none", "set", "passed"}]
    /\ pending \in {"none", "set", "passed"}
    /\ out \in [analysis : {"none", "partial", "done"}, observation : {"none", "partial", "done"}, result : 0..MaxSubs]
    /\ run.err \in Errors /\ run.primary \in {"none", "timeout", "error"} /\ cli \in BOOLEAN

Local == [pc |-> "idle", err |-> "none", tries |-> 0, wait |-> 0, primary |-> "none"]

Init == /\ CreationInit
        /\ config \in Configs
        /\ solve = [closing |-> FALSE, expired |-> FALSE, late |-> FALSE, exec |-> FALSE, runner |-> FALSE,
                    subs |-> 0, listed |-> 0, posted |-> 0, interrupted |-> FALSE, reported |-> FALSE, judged |-> 0]
        /\ rec = [exists |-> FALSE, created |-> 0, launches |-> 0, phase |-> "none",
                  resumes |-> [k \in Kinds |-> 0], capacity |-> FALSE]
        /\ trace = [cur |-> 0, old |-> [n \in 1..MaxLaunches |-> 0]]
        /\ jr = [exists |-> FALSE, closed |-> FALSE, error |-> FALSE, receipt |-> 0, drain |-> "none"]
        /\ pending = "none"
        /\ out = [analysis |-> "none", observation |-> "none", result |-> 0]
        /\ run = Local /\ cli = FALSE /\ outcome = "none"
        /\ used = [starts |-> 0, faults |-> 0, crashes |-> 0]
        /\ started = {}

-----------------------------------------------------------------------------
(* The session as the service reports it; solve.late: the deadline passed. *)

Attached == \E s \in Sids : sessions[s].replied
Alive == \E s \in Sids : sessions[s].thread = "running"

State == IF solve.reported THEN "complete"
         ELSE IF solve.interrupted /\ ~solve.closing THEN "error"
         ELSE IF solve.closing \/ solve.expired THEN "evaluating"
         ELSE "active"

Terminal == State \in {"complete", "error"}
Remaining == State = "active" /\ ~solve.late

Solving == up /\ Attached /\ Alive

SolveStep == UNCHANGED <<config, up, sessions, request, handler, fileVars, run, cli, outcome, used, started>>

\* The native CLI works through its scoped token.  A submission over HTTP is
\* listed in the record before its reply.
AgentSubmits == /\ cli /\ Solving /\ State = "active" /\ ~solve.exec /\ solve.subs < MaxSubs
                /\ solve' = [solve EXCEPT !.subs = @ + 1, !.listed = solve.subs + 1, !.posted = solve.subs + 1]
                /\ SolveStep

AgentExecutes == /\ cli /\ Solving /\ Remaining /\ ~solve.exec
                 /\ solve' = [solve EXCEPT !.exec = TRUE]
                 /\ SolveStep

AgentCloses == /\ cli /\ Solving /\ State = "active"
               /\ solve' = [solve EXCEPT !.closing = TRUE]
               /\ SolveStep

\* A command may submit from inside the container until it ends, even when
\* the session is closing.  The record lists that only when the session
\* completes or the service restarts.
HelperSubmits == /\ Solving /\ solve.exec /\ solve.subs < MaxSubs
                 /\ solve' = [solve EXCEPT !.subs = @ + 1]
                 /\ SolveStep

ExecutionEnds == /\ Solving /\ solve.exec
                 /\ solve' = [solve EXCEPT !.exec = FALSE]
                 /\ SolveStep

DeadlinePasses == /\ Attached /\ ~solve.late
                  /\ solve' = [solve EXCEPT !.late = TRUE]
                  /\ SolveStep

Expires == /\ Solving /\ solve.late /\ ~solve.exec /\ State = "active"
           /\ solve' = [solve EXCEPT !.expired = TRUE]
           /\ SolveStep

\* The worker stops, the selected candidate is judged, and the report and what
\* the journal holds are saved.
Evaluates == /\ Solving /\ ~solve.exec /\ State = "evaluating"
             /\ solve' = [solve EXCEPT !.reported = TRUE, !.judged = solve.subs, !.listed = solve.subs]
             /\ SolveStep

ServiceDies ==
    /\ up /\ used.crashes < MaxCrashes
    /\ CreationDies
    /\ used' = [used EXCEPT !.crashes = @ + 1]
    /\ UNCHANGED <<config, solve, fileVars, run, cli, outcome, started>>

(* An open session is restored from its checkpoint, its command rolled     *)
(* back; otherwise it is interrupted.  A session that expired before the   *)
(* crash cannot be restored and keeps the service down (SessionService).   *)
ServiceRestarts ==
    LET restored == config.recoverable /\ Attached /\ ~solve.closing /\ ~solve.reported IN
    /\ ~up /\ ~(restored /\ solve.expired)
    /\ up' = TRUE
    /\ sessions' = [s \in Sids |-> [sessions[s] EXCEPT !.thread = IF restored THEN "running" ELSE "ended"]]
    /\ solve' = [solve EXCEPT !.exec = FALSE, !.listed = solve.subs,
                              !.interrupted = ~solve.reported /\ ~restored /\ Sids # {}]
    /\ UNCHANGED <<config, request, handler, fileVars, run, cli, outcome, used, started>>

-----------------------------------------------------------------------------
(* The runner.  Goto names the next step; Call is an HTTP call that works, *)
(* CallFails one whose attempts are used up.                               *)

Goto(p) == run' = [run EXCEPT !.pc = p]
At(p) == run.pc = p
Call == up /\ UNCHANGED used
CallFails == IF up THEN used.faults < MaxFaults /\ used' = [used EXCEPT !.faults = @ + 1]
                   ELSE UNCHANGED used

Ends(o) == run' = Local /\ outcome' = o
Raises == Ends("raised")

Rest == UNCHANGED <<config, up, sessions, request, handler>>
Quiet == Rest /\ UNCHANGED solve
KeepAll == Quiet /\ UNCHANGED <<fileVars, cli, started>>
KeepAllButFiles == Quiet /\ UNCHANGED <<run, cli, outcome, used, started>>

Start ==
    /\ At("idle") /\ ~cli /\ outcome # "finished" /\ used.starts < MaxStarts
    /\ \/ Goto("open")
       \/ rec.created # 0 /\ Goto("recover")
    /\ used' = [used EXCEPT !.starts = @ + 1]
    /\ outcome' = "none"
    /\ KeepAll

\* ParticipantAttempt.open: conditions and the creation key are durable
\* before the session is asked for.
Open ==
    /\ At("open")
    /\ rec' = [rec EXCEPT !.exists = TRUE]
    /\ Goto(IF rec.created = 0 THEN "create" ELSE "status")
    /\ Quiet /\ UNCHANGED <<trace, jr, pending, out, cli, outcome, used, started>>

\* The same key goes with every request.
Free(i) == request[i] \in {"none", "created", "failed"}

CreateSend ==
    /\ At("create") /\ up
    /\ \E i \in 1..Tries :
          /\ Free(i)
          /\ request' = [request EXCEPT ![i] = "queued"]
          /\ run' = [run EXCEPT !.pc = "creating", !.tries = @ + 1, !.wait = i]
    /\ UNCHANGED <<config, up, sessions, handler, solve, fileVars, cli, outcome, used, started>>

CreateReceive ==
    /\ At("creating")
    /\ \/ /\ request[run.wait] = "created"
          /\ rec' = [rec EXCEPT !.created = Len(sessions)]
          /\ run' = [Local EXCEPT !.pc = "status"] /\ UNCHANGED outcome
       \/ request[run.wait] = "failed" /\ Raises /\ UNCHANGED rec
    /\ request' = [i \in 1..Tries |-> IF Free(i) THEN "none" ELSE request[i]]
    /\ UNCHANGED <<config, up, sessions, handler, solve, trace, jr, pending, out, cli, used, started>>

\* The connection fails; the request may still be in the service.
CreateLost ==
    /\ (At("create") /\ ~up) \/ At("creating")
    /\ IF up /\ At("creating") /\ request[run.wait] # "none" THEN CallFails ELSE UNCHANGED used
    /\ LET tried == IF At("create") THEN run.tries + 1 ELSE run.tries IN
       IF tried < Tries
       THEN run' = [run EXCEPT !.pc = "create", !.tries = tried] /\ UNCHANGED outcome
       ELSE Raises
    /\ KeepAll

\* run_participant reads the session before it does anything.
LaunchesAgain == rec.launches = 0 \/ config.resume

ReadStatusAgain ==
    /\ At("status") /\ Call
    /\ \/ State # "active" /\ Goto("collect") /\ UNCHANGED <<rec, outcome>>
       \/ /\ State = "active" /\ ~Remaining
          /\ rec' = [rec EXCEPT !.phase = "finalizing"] /\ Goto("settle") /\ UNCHANGED outcome
       \/ Remaining /\ LaunchesAgain /\ Goto("archive") /\ UNCHANGED <<rec, outcome>>
       \/ Remaining /\ rec.launches # 0 /\ Raises /\ UNCHANGED rec
    /\ Quiet /\ UNCHANGED <<trace, jr, pending, out, cli, started>>

ReadStatus ==
    /\ At("status") /\ Call
    /\ \/ State # "active" /\ Goto("collect") /\ UNCHANGED <<rec, outcome>>
       \/ State = "active" /\ rec.phase = "finalizing" /\ Goto("settle") /\ UNCHANGED <<rec, outcome>>
       \/ /\ State = "active" /\ rec.phase # "finalizing" /\ ~Remaining
          /\ rec' = [rec EXCEPT !.phase = "finalizing"] /\ Goto("settle") /\ UNCHANGED outcome
       \/ /\ Remaining /\ rec.phase # "finalizing" /\ LaunchesAgain
          /\ Goto("archive") /\ UNCHANGED <<rec, outcome>>
       \* continuation is not enabled, or no native conversation was kept
       \/ Remaining /\ rec.phase # "finalizing" /\ rec.launches # 0 /\ Raises /\ UNCHANGED rec
    /\ Quiet /\ UNCHANGED <<trace, jr, pending, out, cli, started>>

\* The files of the last launch get its number before they are reopened.
ArchiveContinued ==
    /\ At("archive")
    /\ trace' = IF rec.phase = "ready" /\ trace.cur # 0
                THEN [cur |-> 0, old |-> [trace.old EXCEPT ![rec.launches] = trace.cur]] ELSE trace
    /\ Goto("remaining")
    /\ Quiet /\ UNCHANGED <<rec, jr, pending, out, cli, outcome, used, started>>

ArchiveTraces ==
    /\ At("archive")
    /\ trace' = IF trace.cur # 0
                THEN [cur |-> 0, old |-> [trace.old EXCEPT ![rec.launches] = trace.cur]] ELSE trace
    /\ Goto("remaining")
    /\ Quiet /\ UNCHANGED <<rec, jr, pending, out, cli, outcome, used, started>>

ReadRemaining ==
    /\ At("remaining")
    /\ \/ Call /\ Remaining /\ Goto("launch")
       \/ Call /\ ~Remaining /\ run' = [run EXCEPT !.pc = "complete", !.err = "timeout"]
       \/ CallFails /\ run' = [run EXCEPT !.pc = "complete", !.err = "call"]
    /\ UNCHANGED outcome /\ KeepAll

BeginLaunch ==
    /\ At("launch")
    /\ rec' = [rec EXCEPT !.launches = @ + 1, !.phase = "running"]
    /\ run' = [run EXCEPT !.pc = "spawn", !.err = "none"]
    /\ Quiet /\ UNCHANGED <<trace, jr, pending, out, cli, outcome, used, started>>

Spawn ==
    /\ At("spawn")
    /\ cli' = TRUE
    /\ trace' = [trace EXCEPT !.cur = rec.launches]
    /\ started' = started \cup {rec.launches}
    /\ Goto("exec")
    /\ Quiet /\ UNCHANGED <<rec, jr, pending, out, outcome, used>>

ExecOver == Quiet /\ UNCHANGED <<fileVars, outcome, started>>

\* The CLI exits by itself, with some evidence.
ExecEnds ==
    /\ At("exec") /\ cli' = FALSE
    /\ \E e \in Exits : run' = [run EXCEPT !.pc = "exited", !.err = e]
    /\ UNCHANGED used /\ ExecOver

\* Past the deadline it is stopped: the session left its solving phases, or
\* the question whether it did failed.
ExecStopped ==
    /\ At("exec") /\ cli' = FALSE /\ solve.late
    /\ \/ Call /\ State # "active" /\ run' = [run EXCEPT !.pc = "exited", !.err = "timeout"]
       \/ CallFails /\ run' = [run EXCEPT !.pc = "complete", !.err = "call"]
    /\ ExecOver

\* What kind of continuation the failure allows, if any.
Kind == IF run.err \in {"overloaded"} \cup (IF config.resume THEN {"rate_limited"} ELSE {})
        THEN "capacity"
        ELSE IF run.err = "network" /\ config.resume THEN "network" ELSE "none"

Exited ==
    /\ At("exited")
    /\ IF Kind \in Kinds /\ Resumes[Kind] > 0
       THEN rec' = [rec EXCEPT !.capacity = @ \/ Kind = "capacity"] /\ Goto("plan")
       ELSE UNCHANGED rec /\ Goto("complete")
    /\ Quiet /\ UNCHANGED <<trace, jr, pending, out, cli, outcome, used, started>>

\* The decision is durable before the wait; history may be missing.
PlanResume ==
    /\ At("plan")
    /\ \/ rec.resumes[Kind] >= Resumes[Kind] /\ Goto("complete") /\ UNCHANGED <<rec, used>>
       \/ /\ rec.resumes[Kind] < Resumes[Kind] /\ Call
          /\ \/ Remaining /\ rec' = [rec EXCEPT !.phase = "waiting"] /\ Goto("wait")
             \/ Goto("complete") /\ UNCHANGED rec
       \/ /\ rec.resumes[Kind] < Resumes[Kind] /\ CallFails
          /\ run' = [run EXCEPT !.pc = "complete", !.err = "call"] /\ UNCHANGED rec
    /\ Quiet /\ UNCHANGED <<trace, jr, pending, out, cli, outcome, started>>

WaitEnds ==
    /\ At("wait")
    /\ \/ /\ Call /\ Remaining
          /\ rec' = [rec EXCEPT !.phase = "ready", !.resumes[Kind] = @ + 1] /\ Goto("archive")
       \/ Call /\ Goto("complete") /\ UNCHANGED rec
       \/ CallFails /\ run' = [run EXCEPT !.pc = "complete", !.err = "call"] /\ UNCHANGED rec
    /\ Quiet /\ UNCHANGED <<trace, jr, pending, out, cli, outcome, started>>

\* An interrupted attempt keeps its session when continuation is enabled;
\* a lost service call counts as a transient network failure.
Suspends == /\ config.resume /\ run.err \notin {"none", "timeout", "configuration"}
            /\ ~rec.capacity \/ run.err \in {"network", "rate_limited", "signalled", "call"}

Complete ==
    /\ At("complete")
    /\ rec' = [rec EXCEPT !.phase = IF Suspends THEN "suspended" ELSE "finalizing"]
    /\ run' = [Local EXCEPT !.pc = IF Suspends THEN "suspend" ELSE "settle"]
    /\ Quiet /\ UNCHANGED <<trace, jr, pending, out, cli, outcome, used, started>>

Suspend ==
    /\ At("suspend")
    /\ (Call /\ Ends("suspended")) \/ (CallFails /\ Raises)
    /\ KeepAll

-----------------------------------------------------------------------------
(* Settlement: drain the running command, close, collect the verdict.      *)

Settle ==
    /\ At("settle")
    /\ jr' = [jr EXCEPT !.exists = TRUE, !.closed = FALSE, !.error = FALSE]
    /\ run' = [run EXCEPT !.pc = "drain", !.primary = "none"]
    /\ Quiet /\ UNCHANGED <<rec, trace, pending, out, cli, outcome, used, started>>

\* Mutant: only the receipt of a session that is still open is recorded.
DrainedOpen(p) == /\ Goto(p)
                  /\ jr' = IF State = "active" THEN [jr EXCEPT !.receipt = solve.listed] ELSE jr

Drained(p) == Goto(p) /\ jr' = [jr EXCEPT !.receipt = solve.listed]

\* A session that is not active needs no close; one with a command waits
\* for it until the deadline frozen when it was first seen.
DrainReads ==
    /\ At("drain")
    /\ \/ Call /\ State # "active" /\ Drained("mark")
       \/ Call /\ State = "active" /\ ~solve.exec /\ Drained("close")
       \/ /\ Call /\ State = "active" /\ solve.exec
          /\ jr' = [jr EXCEPT !.receipt = solve.listed,
                              !.drain = IF ~config.bounded THEN "none" ELSE IF @ = "none" THEN "set" ELSE @]
          /\ Goto("poll")
       \/ /\ CallFails /\ jr' = [jr EXCEPT !.error = TRUE]
          /\ run' = [run EXCEPT !.pc = "close", !.primary = "error"]
    /\ Quiet /\ UNCHANGED <<rec, trace, pending, out, cli, outcome, started>>

DrainDeadline ==
    /\ jr.drain = "set"
    /\ jr' = [jr EXCEPT !.drain = "passed"]
    /\ KeepAllButFiles /\ UNCHANGED <<rec, trace, pending, out>>

\* Poll the command to its end and read the session again; or give up at the
\* deadline.
DrainPolls ==
    /\ At("poll")
    /\ \/ /\ Call /\ ~solve.exec /\ Goto("drain") /\ UNCHANGED jr
       \/ /\ jr.drain = "passed" /\ jr' = [jr EXCEPT !.error = TRUE]
          /\ run' = [run EXCEPT !.pc = "close", !.primary = "timeout"] /\ UNCHANGED used
       \/ /\ CallFails /\ jr' = [jr EXCEPT !.error = TRUE]
          /\ run' = [run EXCEPT !.pc = "close", !.primary = "error"]
    /\ Quiet /\ UNCHANGED <<rec, trace, pending, out, cli, outcome, started>>

\* The close, sent whatever the drain came to.  It works, fails before or
\* after its effect, or finds the session closed: then a status read must
\* confirm it.
Close ==
    /\ At("close")
    /\ \/ /\ Call /\ State = "active"
          /\ solve' = [solve EXCEPT !.closing = TRUE]
          /\ Goto("mark") /\ UNCHANGED <<jr, outcome>>
       \/ Call /\ State # "active" /\ Goto("confirm") /\ UNCHANGED <<solve, jr, outcome>>
       \/ /\ CallFails
          /\ solve' \in {solve} \cup (IF up /\ State = "active" THEN {[solve EXCEPT !.closing = TRUE]} ELSE {})
          /\ jr' = [jr EXCEPT !.error = TRUE] /\ Raises
    /\ Rest /\ UNCHANGED <<rec, trace, pending, out, cli, started>>

Confirm ==
    /\ At("confirm")
    /\ \/ /\ Call /\ jr' = [jr EXCEPT !.receipt = solve.listed]
          /\ Goto("mark") /\ UNCHANGED outcome
       \/ CallFails /\ jr' = [jr EXCEPT !.error = TRUE] /\ Raises
    /\ Quiet /\ UNCHANGED <<rec, trace, pending, out, cli, started>>

\* Only a drain that timed out goes on to collect.
MarkClosed ==
    /\ At("mark")
    /\ jr' = [jr EXCEPT !.closed = TRUE]
    /\ IF run.primary = "error" THEN Raises ELSE run' = [Local EXCEPT !.pc = "collect"] /\ UNCHANGED outcome
    /\ Quiet /\ UNCHANGED <<rec, trace, pending, out, cli, used, started>>

PendingDeadline ==
    /\ pending = "set"
    /\ pending' = "passed"
    /\ KeepAllButFiles /\ UNCHANGED <<rec, trace, jr, out>>

DeadlineRenewed == IF ~config.bounded THEN "none" ELSE "set"

\* wait_result keeps the first deadline it saw, over restarts too.
Deadline == IF ~config.bounded THEN "none" ELSE IF pending = "none" THEN "set" ELSE pending

WaitResult ==
    /\ At("collect")
    /\ \/ Call /\ Terminal /\ Goto("export") /\ UNCHANGED <<pending, outcome>>
       \/ /\ Call /\ ~Terminal /\ pending' = Deadline
          /\ IF Deadline = "passed" THEN Raises ELSE UNCHANGED <<run, outcome>>
       \/ CallFails /\ Raises /\ UNCHANGED pending
    /\ Quiet /\ UNCHANGED <<rec, trace, jr, out, cli, started>>

\* An export without its manifest is set aside and made again; a complete
\* one must still be what the service reports.
ExportStarts ==
    /\ At("export")
    /\ IF out.analysis # "done"
       THEN /\ out' = [out EXCEPT !.analysis = "partial", !.result = solve.judged]
            /\ Goto("exporting") /\ UNCHANGED outcome
       ELSE /\ IF out.result = solve.judged THEN Goto("observe") /\ UNCHANGED outcome ELSE Raises
            /\ UNCHANGED out
    /\ Quiet /\ UNCHANGED <<rec, trace, jr, pending, cli, used, started>>

ExportEnds ==
    /\ At("exporting")
    /\ out' = [out EXCEPT !.analysis = "done"] /\ Goto("observe")
    /\ Quiet /\ UNCHANGED <<rec, trace, jr, pending, cli, outcome, used, started>>

Observe ==
    /\ At("observe")
    /\ \/ out.observation = "done" /\ Goto("return") /\ UNCHANGED <<out, outcome, used>>
       \/ /\ out.observation # "done" /\ Call /\ Goto("return") /\ UNCHANGED outcome
          /\ out' = [out EXCEPT !.observation = "done"]
       \/ /\ out.observation # "done" /\ CallFails /\ Raises
          /\ out' = [out EXCEPT !.observation = "partial"]
    /\ Quiet /\ UNCHANGED <<rec, trace, jr, pending, cli, started>>

Return == At("return") /\ Ends("finished") /\ UNCHANGED used /\ KeepAll

\* recover_participant: --collect-only, no launch.
Recover ==
    /\ At("recover")
    /\ \/ Call /\ rec' = [rec EXCEPT !.phase = "finalizing"] /\ Goto("recovered") /\ UNCHANGED outcome
       \/ CallFails /\ Raises /\ UNCHANGED rec
    /\ Quiet /\ UNCHANGED <<trace, jr, pending, out, cli, started>>

Recovered ==
    /\ At("recovered")
    /\ \/ Call /\ Goto(IF State = "active" THEN "settle" ELSE "collect") /\ UNCHANGED outcome
       \/ CallFails /\ Raises
    /\ KeepAll

StatusFails == At("status") /\ CallFails /\ Raises /\ KeepAll

-----------------------------------------------------------------------------

RunnerDies ==
    /\ ~At("idle") /\ used.crashes < MaxCrashes
    /\ used' = [used EXCEPT !.crashes = @ + 1]
    /\ run' = Local /\ outcome' = "raised"
    /\ KeepAll

\* A CLI whose runner died ends by itself.
OrphanEnds == /\ At("idle") /\ cli /\ cli' = FALSE
              /\ Quiet /\ UNCHANGED <<fileVars, run, outcome, used, started>>

Launching == Open \/ CreateSend \/ CreateReceive \/ CreateLost \/ ReadStatus \/ StatusFails \/ ArchiveTraces
             \/ ReadRemaining \/ BeginLaunch \/ Spawn \/ ExecStopped \/ Exited \/ PlanResume \/ WaitEnds
             \/ Complete \/ Suspend

Settling == Settle \/ DrainReads \/ DrainPolls \/ Close \/ Confirm \/ MarkClosed \/ WaitResult
            \/ ExportStarts \/ ExportEnds \/ Observe \/ Return \/ Recover \/ Recovered

Runner == Launching \/ Settling

Creation == CreationNext /\ UNCHANGED <<config, solve, fileVars, run, cli, outcome, used, started>>

Time == DeadlinePasses \/ DrainDeadline \/ PendingDeadline

Session == ExecutionEnds \/ Expires \/ Evaluates

Next == \/ Start \/ Runner \/ ExecEnds \/ Creation \/ Time \/ Session
        \/ AgentSubmits \/ AgentExecutes \/ AgentCloses \/ HelperSubmits \/ OrphanEnds
        \/ ServiceDies \/ ServiceRestarts \/ RunnerDies

(* The runner, the service's threads and the clock go on.  Nobody has to   *)
(* restart anything, and no CLI has to exit before it is stopped.  A       *)
(* command ends when its limit or the session's close cancels it, and an   *)
(* evaluation has an end, only if the settings bound it.                   *)
Spec == /\ Init /\ [][Next]_vars
        /\ WF_vars(Runner) /\ WF_vars(Creation)
        /\ WF_vars(DeadlinePasses) /\ WF_vars(DrainDeadline) /\ WF_vars(PendingDeadline)
        /\ WF_vars((config.bounded \/ solve.closing) /\ ExecutionEnds)
        /\ WF_vars(Expires) /\ WF_vars(config.bounded /\ Evaluates)

-----------------------------------------------------------------------------
(* The files named for a launch hold that launch's output: no continuation *)
(* and no restart of the runner overwrites or misnames what an earlier     *)
(* launch of the CLI left (runner.py:138-145, evidence.py:63-84).                *)
TracesKept ==
    /\ \A n \in started : (trace.cur = n) # (trace.old[n] = n)
    /\ \A n \in 1..MaxLaunches : trace.old[n] \in {0, n}
    /\ trace.cur \in {0, rec.launches}

(* Once settlement has begun no runner launches the CLI again, whichever   *)
(* step failed or died since (runner.py:102-113, 207-214; settlement.py:24).   *)
SettlementFinal == jr.exists => /\ ~cli
                                /\ run.pc \notin {"archive", "remaining", "launch", "spawn", "exec"}

(* When settlement records a session as closed, without error, the receipt *)
(* it records is no older than the last submission over HTTP and no newer  *)
(* than the candidate that is judged: the two differ only by what a        *)
(* command submitted from inside the container (settlement.py:24-116,      *)
(* views.py:51).                                                           *)
ReceiptCurrent == jr.closed /\ ~jr.error /\ solve.reported => jr.receipt \in solve.posted..solve.judged

(* Every runner ends, unless the settings bound neither commands nor       *)
(* evaluation and it waits for one of them: for a command, in the CLI or   *)
(* in settlement, or for a verdict (participant_timeout, participant_expiry, *)
(* settlement.py:63, wait_result).                                         *)
Stuck == ~config.bounded /\ (solve.exec \/ State = "evaluating")

AttemptEnds == ~At("idle") ~> (At("idle") \/ Stuck)
=============================================================================
