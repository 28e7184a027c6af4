----------------------------- MODULE ToolExecution -----------------------------
(* One EDA job in containers: an attempt creates a container, loads the inputs, *)
(* runs the tool, kills what it left behind, collects the declared outputs and  *)
(* removes the container; an attempt that ended in a recoverable way is         *)
(* repeated in a fresh one. The caller may cancel, or its deadline pass, at any *)
(* time, and each docker command may fail.                                      *)
EXTENDS Integers, Sequences, FiniteSets, SequencesExt

CONSTANTS
  MaxAttempts,  \* of the retry policy
  Markers,      \* diagnostics a log may hold
  MaxFaults     \* bound on failing docker commands

VARIABLES
  at,           \* where run_with_retries is
  attempt,      \* number of the attempt
  cancelled, late,
  containers,   \* attempts whose container exists
  running,      \* tool processes are alive in the container
  result,       \* of this attempt: [code, reason, evidence, log, produced, client]
  signalled,    \* the last docker rm died of a signal
  removals,     \* docker rm calls for this container
  history,      \* [evidence, failure, retryable] of the judged attempts
  retained,     \* attempts whose evidence is kept for the answer
  answer,       \* the termination, or "none"
  faults

toolVars == <<at, attempt, cancelled, late, containers, running, result, signalled,
              removals, history, retained, answer, faults>>

Codes == {"zero", "positive", "crash"}   \* crash: minus the number of a fatal signal
\* client says that the docker client of the tool may still be there.
Blank == [code |-> "none", reason |-> FALSE, evidence |-> {}, log |-> {},
          produced |-> FALSE, client |-> FALSE]
Init ==
  /\ at = "ready" /\ attempt = 0
  /\ cancelled = FALSE /\ late = FALSE
  /\ containers = {} /\ running = FALSE
  /\ result = Blank /\ signalled = FALSE /\ removals = 0
  /\ history = << >> /\ retained = {} /\ answer = "none" /\ faults = 0

Interrupted == IF cancelled THEN "cancelled" ELSE "deadline"
Fault == faults < MaxFaults /\ faults' = faults + 1
Failing(evidence) == [result EXCEPT !.reason = TRUE, !.evidence = @ \cup {evidence}]

\* wait_for_retry, with and without a delay, looks at both before it goes on.
Proceed ==
  /\ at \in {"ready", "backoff"}
  /\ IF cancelled \/ late
     THEN at' = "done" /\ answer' = Interrupted /\ UNCHANGED <<attempt, result, removals>>
     ELSE /\ UNCHANGED answer
          /\ IF at = "backoff" THEN at' = "ready" /\ UNCHANGED <<attempt, result, removals>>
             ELSE at' = "create" /\ attempt' = attempt + 1 /\ result' = Blank /\ removals' = 0
  /\ UNCHANGED <<cancelled, late, containers, running, signalled, history, retained, faults>>

\* A cancelled attempt creates no container; a failing create raises, and nobody
\* learns the name of what it may have created.
Create ==
  /\ at = "create"
  /\ \/ /\ cancelled /\ at' = "judge" /\ result' = Failing("execution_error")
        /\ UNCHANGED <<containers, faults>>
     \/ /\ ~cancelled /\ at' = "load" /\ containers' = containers \cup {attempt}
        /\ UNCHANGED <<result, faults>>
     \/ /\ ~cancelled /\ Fault /\ at' = "raised" /\ UNCHANGED result
        /\ containers' \in {containers, containers \cup {attempt}}
  /\ UNCHANGED <<attempt, cancelled, late, running, signalled, removals, history, retained, answer>>
Load ==
  /\ at = "load"
  /\ \/ /\ at' = "run" /\ running' = TRUE /\ UNCHANGED faults
        /\ result' = [result EXCEPT !.client = TRUE]
     \/ Fault /\ at' = "remove" /\ result' = Failing("execution_error") /\ UNCHANGED running
  /\ UNCHANGED <<attempt, cancelled, late, containers, signalled, removals, history, retained, answer>>

\* The tool exits, and may leave workers behind.
Exit ==
  /\ at = "run"
  /\ \E code \in Codes, log \in SUBSET Markers:
       result' = [result EXCEPT !.code = code, !.log = log, !.reason = code # "zero",
                                !.client = FALSE]
  /\ \E left \in BOOLEAN: running' = left
  /\ at' = "drain"
  /\ UNCHANGED <<attempt, cancelled, late, containers, signalled, removals, history, retained, answer, faults>>
\* wait_for_tool gives up: the tool goes on running for now.
GiveUp ==
  /\ at = "run" /\ (cancelled \/ late)
  /\ result' = Failing("execution_error") /\ at' = "drain"
  /\ UNCHANGED <<attempt, cancelled, late, containers, running, signalled, removals, history, retained, answer, faults>>
\* One pass over the processes kills those it lists, before anything is read; one
\* that is started during the pass lives on. The output of a tool that was given
\* up is taken from its client then.
Drain ==
  /\ at = "drain"
  /\ \/ /\ at' = "collect" /\ running' \in {FALSE, running} /\ UNCHANGED faults
        /\ \E log \in SUBSET Markers:
             result' = IF result.client THEN [result EXCEPT !.log = log, !.client = FALSE] ELSE result
     \/ Fault /\ at' = "remove" /\ result' = Failing("execution_error") /\ UNCHANGED running
  /\ UNCHANGED <<attempt, cancelled, late, containers, signalled, removals, history, retained, answer>>
Collect ==
  /\ at = "collect"
  /\ \/ /\ result' = [result EXCEPT !.produced = TRUE]
        /\ UNCHANGED faults
     \/ result' = Failing("missing") /\ UNCHANGED faults
     \/ Fault /\ result' = Failing("execution_error")
  /\ at' = "remove"
  /\ UNCHANGED <<attempt, cancelled, late, containers, running, signalled, removals, history, retained, answer>>

\* docker rm -f. A client that fails may have removed the container all the
\* same: the daemon goes on, or a competing shutdown was faster.
RemoveContainer ==
  /\ at = "remove"
  /\ removals' = removals + 1
  /\ \/ at' = "judge" /\ containers' = containers \ {attempt} /\ UNCHANGED <<result, signalled, faults>>
     \/ /\ Fault /\ at' = "inspect" /\ signalled' \in BOOLEAN
        /\ containers' \in {containers, containers \ {attempt}} /\ UNCHANGED result
     \* It cannot be run, or does not return in time.
     \/ /\ Fault /\ at' = "judge" /\ result' = Failing("cleanup_error")
        /\ containers' \in {containers, containers \ {attempt}} /\ UNCHANGED signalled
  /\ running' = (running /\ attempt \in containers')
  /\ UNCHANGED <<attempt, cancelled, late, history, retained, answer>>
\* docker ps: gone is as good as removed; a second rm only after a signal.
Inspect ==
  /\ at = "inspect"
  /\ \/ attempt \notin containers /\ at' = "judge" /\ UNCHANGED <<result, faults>>
     \/ /\ attempt \in containers /\ UNCHANGED faults
        /\ IF signalled /\ removals < 2 THEN at' = "remove" /\ UNCHANGED result
           ELSE at' = "judge" /\ result' = Failing("cleanup_error")
     \/ Fault /\ at' = "judge" /\ result' = Failing("cleanup_error")
  /\ UNCHANGED <<attempt, cancelled, late, containers, running, signalled, removals, history, retained, answer>>
\* The client of a tool that was given up does not end after its kill: an
\* exception, and what the removal reported is gone.
ClientHangs ==
  /\ at = "judge" /\ result.client
  /\ Fault /\ at' = "raised"
  /\ UNCHANGED <<attempt, cancelled, late, containers, running, result, signalled, removals, history, retained, answer>>

\* What the logs say, and whether it may be repeated.
Diagnosis(log) ==
  IF log \cap {"license_error", "transient", "permanent"} # {} THEN "license_unavailable"
  ELSE IF "crash" \in log THEN "native_crash" ELSE "none"
Recoverable(r) ==
  CASE Diagnosis(r.log) = "license_unavailable" -> "transient" \in r.log /\ "permanent" \notin r.log
    [] Diagnosis(r.log) = "native_crash" -> TRUE
    [] Diagnosis(r.log) = "none" -> r.code = "crash"
Failed(r) == r.reason \/ r.code # "zero"
\* A mutant repeats whatever the logs allow.
RetryableLogs(r) == Failed(r) /\ Recoverable(r)
Retryable(r) == Failed(r) /\ "cleanup_error" \notin r.evidence /\ Recoverable(r)

Conclude(r) ==
  /\ history' = Append(history, [evidence |-> r.evidence, failure |-> Diagnosis(r.log), retryable |-> Retryable(r)])
  /\ result' = r
  /\ IF ~Retryable(r) THEN at' = "done" /\ UNCHANGED retained
                           /\ answer' = IF Failed(r) THEN "non_retryable" ELSE "completed"
     ELSE IF attempt = MaxAttempts THEN at' = "done" /\ answer' = "exhausted" /\ UNCHANGED retained
     ELSE at' = "backoff" /\ retained' = retained \cup {attempt} /\ UNCHANGED answer
Judge ==
  /\ at = "judge" /\ Conclude(result)
  /\ UNCHANGED <<attempt, cancelled, late, containers, running, signalled, removals, faults>>
\* An exception of the first attempt is the caller's; a later one is a failure
\* that says nothing else.
Unexplained == [Blank EXCEPT !.reason = TRUE, !.evidence = {"execution_error"}]
Raised ==
  /\ at = "raised"
  /\ IF history = << >>
     THEN at' = "done" /\ answer' = "raised" /\ UNCHANGED <<history, result, retained>>
     ELSE Conclude(Unexplained)
  /\ UNCHANGED <<attempt, cancelled, late, containers, running, signalled, removals, faults>>

Cancel == at # "done" /\ ~cancelled /\ cancelled' = TRUE
          /\ UNCHANGED <<at, attempt, late, containers, running, result, signalled, removals, history, retained, answer, faults>>
Expire == at # "done" /\ ~late /\ late' = TRUE
          /\ UNCHANGED <<at, attempt, cancelled, containers, running, result, signalled, removals, history, retained, answer, faults>>

Next ==
  \/ Proceed \/ Create \/ Load \/ Exit \/ GiveUp \/ Drain \/ Collect \/ RemoveContainer
  \/ Inspect \/ ClientHangs \/ Judge \/ Raised \/ Cancel \/ Expire

\* An attempt finds a fresh workspace: no container of an earlier one is left,
\* and nothing of it still runs, whatever its removal reported.
FreshWorkspace ==
  at \in {"load", "run", "drain", "collect"} => containers = {attempt}
\* A job that is reported complete exited with zero, has every output, and left
\* no container; nothing is repeated that a licence denies for good, and what
\* the failed attempts showed goes with every answer.
HonestAnswer ==
  /\ answer = "completed" =>
       result.code = "zero" /\ result.produced /\ containers = {} /\ ~running
  /\ \A i \in 1..Len(history): i < attempt =>
       history[i].retryable /\ "cleanup_error" \notin history[i].evidence
  /\ answer # "none" => 1..(attempt - 1) \subseteq retained
\* A container that is left over is told, unless its attempt raised.
LeftoversTold ==
  answer \notin {"none", "raised"} /\ containers # {} =>
    "cleanup_error" \in result.evidence \/ result = Unexplained
ToolRunHolds == FreshWorkspace /\ HonestAnswer /\ LeftoversTold
=============================================================================
