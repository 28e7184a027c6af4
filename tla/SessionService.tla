---------------------------- MODULE SessionService ----------------------------
(***************************************************************************)
(* One session of the local HTTP service, from its first committed         *)
(* checkpoint to its result, through crashes and restarts of the service.  *)
(*                                                                         *)
(* Four kinds of thread meet here.  HTTP handlers run one at a time under  *)
(* the controller's lock (service/controller.py).  The evaluator thread    *)
(* serves the control socket, stops the solver and judges its candidate    *)
(* (execution/workspace/docker.py, service/session.py).  A collector per   *)
(* execution waits for a command (service/supervisor.py), and a checkpoint *)
(* job archives the workspace without the lock (service/checkpoints.py).   *)
(*                                                                         *)
(* Three records outlive the process: http.json (`saved'), the workspace   *)
(* checkpoint with the record frozen for it (`snapshot'), and the run      *)
(* directory, that is its journal of accepted submissions and run.json.    *)
(***************************************************************************)
EXTENDS Naturals, Sequences, FiniteSets

CONSTANTS
  Writes,          \* idempotency keys of file writes
  Submits,         \* idempotency keys of HTTP submissions
  Execs,           \* idempotency keys of executions, one command each
  Recoverable,     \* the service keeps workspace checkpoints
  MaxSubmissions,  \* bound on the journal
  MaxCrashes,      \* bound on service crashes
  MaxFaults,       \* bound on transport, checkpoint, container and run failures
  None

Keys == Writes \cup Submits \cup Execs

\* What changes the workspace: writes and commands.
Effects == Writes \cup Execs

ASSUME ServiceAssumption ==
  /\ Writes \cap Execs = {} /\ Submits \cap (Writes \cup Execs) = {}
  /\ None \notin Keys \cup {"close", "passed", "failed", "error", "no_submission"}
  /\ "close" \notin Keys
  /\ Recoverable \in BOOLEAN
  /\ MaxSubmissions \in Nat /\ MaxCrashes \in Nat /\ MaxFaults \in Nat

VARIABLES
  saved,      \* http.json
  snapshot,   \* checkpoint.json and its archive: workspace bytes and record
  journal,    \* the keys of the accepted submissions, in order (None: no key)
  run,        \* run.json: phase, candidate (a sequence number), outcome
  up,         \* the service process runs
  data,       \* the session record the handlers mutate
  handler,    \* the request whose handler holds the lock between two steps
  workspace,  \* "none" (not attached), "live" or "dead"
  files,      \* how often each effect took place in the workspace
  worker,     \* the evaluator thread
  closeSent,  \* handle.close_sent
  remoteClosed, \* protocol.remote_closed
  collector,  \* the collector of each execution
  cancelled,  \* executions with a cancel marker
  job,        \* the checkpoint job
  phase,      \* budget.phase
  acked,      \* keys some client may have seen acknowledged
  told,       \* the judged result some client may have seen
  crashes, faults

durable == <<saved, snapshot, journal, run>>
session == <<workspace, worker, closeSent, remoteClosed>>
history == <<acked, told, crashes, faults>>
vars == <<durable, up, data, handler, session, files, collector, cancelled,
          job, phase, history>>

-----------------------------------------------------------------------------
Outcomes == {"passed", "failed", "error", "no_submission"}

ExecStates == {"none", "running", "complete", "error", "rolledback"}

SessionRecords ==
  [requests : SUBSET Keys, submissions : SUBSET Nat, executions : [Execs -> ExecStates],
   closing : BOOLEAN, interrupted : BOOLEAN, checkpointError : BOOLEAN,
   report : Outcomes \cup {None}]

Idle == [stage |-> "idle", key |-> None, frozen |-> None, archive |-> None]

CollectorStages == {"none", "running", "worked", "exited", "waiting", "leaving", "done"}

NewRecord ==
  [requests |-> {}, submissions |-> {}, executions |-> [e \in Execs |-> "none"],
   closing |-> FALSE, interrupted |-> FALSE, checkpointError |-> FALSE, report |-> None]

NoFiles == [x \in Effects |-> 0]

\* x takes place once more.
Applied(x) == [files EXCEPT ![x] = @ + 1]

Latest(d) == CHOOSE n \in d.submissions : \A m \in d.submissions : m <= n

Running(d) == {e \in Execs : d.executions[e] = "running"}

\* budget.operation_active: some command has not been collected yet.
OperationActive == \E e \in Execs : collector[e] \in {"running", "worked"}

Budget == INSTANCE BudgetPhases WITH active <- OperationActive

\* Executions registered with the supervisor.
Registered == {e \in Execs : collector[e] \notin {"none", "done"}}

Busy == job.stage # "idle"

\* Mutant: an interruption overrides the report, submission or not.
StatusInterruptedWins(d) ==
  IF d.report # None THEN IF d.report = "error" \/ d.interrupted THEN "error" ELSE "complete"
  ELSE IF d.interrupted /\ ~d.closing THEN "error"
  ELSE IF d.closing \/ workspace = "dead" THEN "evaluating"
  ELSE "active"

\* views.status: the coarse state of a session.
Status(d) ==
  IF d.report # None
    THEN IF d.report = "error" \/ (d.interrupted /\ d.submissions = {})
           THEN "error" ELSE "complete"
  ELSE IF d.interrupted /\ ~d.closing THEN "error"
  ELSE IF d.closing \/ workspace = "dead" THEN "evaluating"
  ELSE "active"

\* Mutant: submissions without a key are given a reply all the same.
AcceptKeyless(d, entries) ==
  [d EXCEPT !.submissions = @ \cup entries,
            !.requests = @ \cup {journal[i] : i \in entries}]

\* accept_event for each of a set of journal entries: receipts and replies.
Accept(d, entries) ==
  [d EXCEPT !.submissions = @ \cup entries,
            !.requests = @ \cup ({journal[i] : i \in entries} \ {None})]

EntriesOf(key) == {i \in DOMAIN journal : journal[i] = key}

\* What a checkpoint commits: a write's reply, or an execution's result.
Commit(d, key) ==
  IF key \in Writes THEN [d EXCEPT !.requests = @ \cup {key}]
  ELSE [d EXCEPT !.executions[key] = "complete"]

Init ==
  /\ saved = NewRecord /\ data = NewRecord
  /\ snapshot = [files |-> NoFiles, state |-> NewRecord]
  /\ journal = <<>>
  /\ run = [phase |-> "running", candidate |-> 0, outcome |-> None]
  /\ up = TRUE /\ handler = None
  /\ workspace = "live" /\ files = NoFiles /\ worker = "serving"
  /\ closeSent = FALSE /\ remoteClosed = FALSE
  /\ collector = [e \in Execs |-> "none"] /\ cancelled = {}
  /\ job = Idle
  /\ phase = "solving"
  /\ acked = {} /\ told = None /\ crashes = 0 /\ faults = 0

-----------------------------------------------------------------------------
\* The controller's lock is free.
Free == up /\ handler = None

\* mutate and _active: what a new write, submission or execution needs.
Admitted(key) ==
  /\ Free /\ key \notin data.requests
  /\ ~data.checkpointError /\ ~Busy
  /\ Status(data) = "active" /\ workspace = "live"
  /\ Running(data) = {}

Fault == faults < MaxFaults /\ faults' = faults + 1

\* CheckpointJobs.start: freeze the record as it will be once committed.
StartJob(key) ==
  job' = [stage |-> "archiving", key |-> key, frozen |-> Commit(data, key), archive |-> None]

\* Mutant: the write is acknowledged before its checkpoint.
WriteAckedEarly(w) ==
  /\ Admitted(w) /\ phase = "solving"
  /\ files' = Applied(w)
  /\ StartJob(w)
  /\ acked' = acked \cup {w}
  /\ UNCHANGED <<data, saved>>
  /\ UNCHANGED <<snapshot, journal, run, up, handler, session, collector, cancelled, phase,
                 told, crashes, faults>>

\* _write_file: a recoverable write answers 202 until its checkpoint commits.
Write(w) ==
  /\ Admitted(w) /\ phase = "solving"
  /\ files' = Applied(w)
  /\ IF Recoverable
       THEN StartJob(w) /\ UNCHANGED <<data, saved, acked>>
       ELSE /\ data' = Commit(data, w) /\ saved' = data' /\ acked' = acked \cup {w}
            /\ UNCHANGED job
  /\ UNCHANGED <<snapshot, journal, run, up, handler, session, collector, cancelled, phase,
                 told, crashes, faults>>

\* workspace.write: the transport gives up after the file was replaced, so
\* the handler answers with an error and remembers nothing.
WriteUnconfirmed(w) ==
  /\ Admitted(w) /\ phase = "solving"
  /\ Fault
  /\ files' = Applied(w)
  /\ UNCHANGED <<durable, up, data, handler, session, collector, cancelled, job, phase,
                 acked, told, crashes>>

\* Mutant: the supervisor starts a command while a checkpoint runs.
ExecuteWhileBusy(e) ==
  /\ Free /\ e \notin data.requests
  /\ ~data.checkpointError
  /\ Status(data) = "active" /\ workspace = "live"
  /\ Running(data) = {}
  /\ collector' = [collector EXCEPT ![e] = "running"]
  /\ Budget!Begin
  /\ data' = [data EXCEPT !.executions[e] = "running"]
  /\ handler' = e
  /\ UNCHANGED <<durable, up, session, files, cancelled, job, history>>

\* Mutant: an execution is started again although its reply is known.
ExecuteAgain(e) ==
  /\ Free /\ ~data.checkpointError /\ ~Busy
  /\ Status(data) = "active" /\ workspace = "live" /\ Running(data) = {}
  /\ collector' = [collector EXCEPT ![e] = "running"]
  /\ Budget!Begin
  /\ data' = [data EXCEPT !.executions[e] = "running"]
  /\ handler' = e
  /\ UNCHANGED <<durable, up, session, files, cancelled, job, history>>

\* _execute: the command runs before the handler saves its receipt.
Execute(e) ==
  /\ Admitted(e)
  /\ collector' = [collector EXCEPT ![e] = "running"]
  /\ Budget!Begin
  /\ data' = [data EXCEPT !.executions[e] = "running"]
  /\ handler' = e
  /\ UNCHANGED <<durable, up, session, files, cancelled, job, history>>

\* Mutant: a replayed key is accepted as a new submission.
DispatchWithoutReplay(key) ==
  /\ worker = "serving" /\ workspace = "live" /\ phase # "expired"
  /\ Len(journal) < MaxSubmissions
  /\ journal' = Append(journal, key)

\* SessionProtocol.dispatch, action submit: a known key gets its receipt, a
\* new one freezes the output and is journalled before it is published.
Dispatch(key) ==
  /\ worker = "serving" /\ workspace = "live" /\ phase # "expired"
  /\ IF key # None /\ \E i \in DOMAIN journal : journal[i] = key
       THEN UNCHANGED journal
       ELSE /\ Len(journal) < MaxSubmissions
            /\ journal' = Append(journal, key)

\* _submit over the control socket; the handler holds the lock meanwhile.
Submit(s) ==
  /\ Admitted(s)
  /\ Dispatch(s)
  /\ handler' = s
  /\ UNCHANGED <<saved, snapshot, run, up, data, session, files, collector, cancelled, job,
                 phase, history>>

\* The transport fails after the submission was journalled: an error reply.
SubmitUnconfirmed(s) ==
  /\ Admitted(s)
  /\ Dispatch(s)
  /\ Fault
  /\ UNCHANGED <<saved, snapshot, run, up, data, handler, session, files, collector, cancelled,
                 job, phase, acked, told, crashes>>

\* The submit helper inside the container, run by a command.
HelperSubmit ==
  /\ up /\ OperationActive
  /\ Dispatch(None)
  /\ UNCHANGED <<saved, snapshot, run, up, data, handler, session, files, collector, cancelled,
                 job, phase, history>>

\* _send_close_once, with the transport working.
SendClose ==
  IF closeSent THEN UNCHANGED session
  ELSE /\ closeSent' = TRUE /\ remoteClosed' = TRUE
       /\ UNCHANGED <<workspace, worker>>

\* close_session: cancel the running command, or close at once.
CloseSession(d) ==
  IF Running(d) # {}
    THEN /\ cancelled' = cancelled \cup Running(d)
         /\ UNCHANGED session
    ELSE /\ SendClose
         /\ UNCHANGED cancelled

\* mutate, operation close: also taken after a checkpoint failed.  A client
\* that has its reply does not close again.
Closable ==
  /\ Free /\ "close" \notin acked
  /\ data.checkpointError \/ Status(data) = "active"
  /\ workspace = "live"

\* _close: with a checkpoint job running, its end closes the session.
Close ==
  /\ Closable
  /\ data' = [data EXCEPT !.closing = TRUE]
  /\ IF Busy THEN UNCHANGED <<session, cancelled>> ELSE CloseSession(data)
  /\ handler' = "close"
  /\ UNCHANGED <<durable, up, files, collector, job, phase, history>>

\* _close whose control request fails: closing is set but never saved here.
CloseUnsent ==
  /\ Closable
  /\ ~Busy /\ Running(data) = {} /\ ~closeSent
  /\ Fault
  /\ data' = [data EXCEPT !.closing = TRUE]
  /\ UNCHANGED <<durable, up, handler, session, files, collector, cancelled, job, phase,
                 acked, told, crashes>>

\* _cancel of one execution: a live one gets its marker, and the reply is
\* remembered with the whole record.
Cancel(e) ==
  /\ Free /\ data.executions[e] # "none"
  /\ data.checkpointError \/ Status(data) = "active"
  /\ cancelled' = IF workspace = "live" /\ e \in Registered THEN cancelled \cup {e} ELSE cancelled
  /\ saved' = data
  /\ UNCHANGED <<snapshot, journal, run, up, data, handler, session, files, collector, job, phase,
                 history>>

\* Mutant: the reply leaves before the record is saved.
RespondUnsaved ==
  /\ up /\ handler # None
  /\ data' = CASE handler \in Submits -> Accept(data, EntriesOf(handler))
               [] handler \in Execs -> [data EXCEPT !.requests = @ \cup {handler}]
               [] OTHER -> data
  /\ acked' = acked \cup {handler}
  /\ handler' = None
  /\ UNCHANGED <<saved, snapshot, journal, run, up, session, files, collector, cancelled, job,
                 phase, told, crashes, faults>>

\* The handler remembers its reply, saves the record and answers.
Respond ==
  /\ up /\ handler # None
  /\ data' = CASE handler \in Submits -> Accept(data, EntriesOf(handler))
               [] handler \in Execs -> [data EXCEPT !.requests = @ \cup {handler}]
               [] OTHER -> data
  /\ saved' = data'
  /\ acked' = acked \cup {handler}
  /\ handler' = None
  /\ UNCHANGED <<snapshot, journal, run, up, session, files, collector, cancelled, job, phase,
                 told, crashes, faults>>

-----------------------------------------------------------------------------
\* workspace.checkpoint: the archive is read without the lock.
JobArchive ==
  /\ job.stage = "archiving" /\ workspace = "live" /\ phase # "expired"
  /\ job' = [job EXCEPT !.stage = "archived", !.archive = files]
  /\ UNCHANGED <<durable, up, data, handler, session, files, collector, cancelled, phase, history>>

\* The archive cannot be read: the workspace went away, or a failure.
JobFail ==
  /\ job.stage \in {"archiving", "archived"}
  /\ IF workspace = "live" /\ phase # "expired" THEN Fault ELSE UNCHANGED faults
  /\ job' = [job EXCEPT !.stage = "failed"]
  /\ UNCHANGED <<durable, up, data, handler, session, files, collector, cancelled, phase,
                 acked, told, crashes>>

\* Mutant: the manifest describes the record at the time it is written.
JobManifestCurrent ==
  /\ job.stage = "archived"
  /\ snapshot' = [files |-> job.archive, state |-> data]
  /\ job' = [job EXCEPT !.stage = "committed"]
  /\ UNCHANGED <<saved, journal, run, up, data, handler, session, files, collector, cancelled,
                 phase, history>>

\* ServiceState.checkpoint: the manifest replaces archive and record at once.
JobManifest ==
  /\ job.stage = "archived"
  /\ snapshot' = [files |-> job.archive, state |-> job.frozen]
  /\ job' = [job EXCEPT !.stage = "committed"]
  /\ UNCHANGED <<saved, journal, run, up, data, handler, session, files, collector, cancelled,
                 phase, history>>

\* The job commits its result to the live record, or records its failure.
JobCommit ==
  /\ Free /\ job.stage \in {"committed", "failed"}
  /\ data' = IF job.stage = "committed" THEN Commit(data, job.key)
             ELSE [data EXCEPT !.interrupted = TRUE, !.checkpointError = TRUE]
  /\ saved' = data'
  /\ acked' = IF job.stage = "committed" /\ job.key \in Writes THEN acked \cup {job.key}
              ELSE acked
  /\ job' = [job EXCEPT !.stage = "finishing"]
  /\ UNCHANGED <<snapshot, journal, run, up, handler, session, files, collector, cancelled,
                 phase, told, crashes, faults>>

\* Mutant: the end of a job forgets a close that came while it ran.
JobFinishSilently ==
  /\ Free /\ job.stage = "finishing"
  /\ job' = Idle
  /\ UNCHANGED <<durable, up, data, handler, session, files, collector, cancelled, phase, history>>

\* _checkpoint_finished, then the job's done event.
JobFinish ==
  /\ Free /\ job.stage = "finishing"
  /\ job' = Idle
  /\ IF data.closing /\ workspace = "live" THEN CloseSession(data)
     ELSE UNCHANGED <<session, cancelled>>
  /\ UNCHANGED <<durable, up, data, handler, files, collector, phase, history>>

-----------------------------------------------------------------------------
\* Each process started for a command changes the workspace as it runs.
ExecutionWorks(e) ==
  /\ collector[e] = "running" /\ workspace = "live"
  /\ files' = Applied(e)
  /\ collector' = [collector EXCEPT ![e] = "worked"]
  /\ UNCHANGED <<durable, up, data, handler, session, cancelled, job, phase, history>>

\* collect: the command ended, by itself, cancelled or with its container,
\* and budget.end_operation was called.
ExecutionExits(e) ==
  /\ collector[e] \in {"running", "worked"}
  /\ collector' = [collector EXCEPT ![e] = "exited"]
  /\ Budget!End
  /\ UNCHANGED <<durable, up, data, handler, session, files, cancelled, job, history>>

\* completed: commit the result with a checkpoint, or directly without one.
\* A job in progress would raise, leaving the execution running for good.
CollectorCompletes(e) ==
  /\ Free /\ collector[e] = "exited"
  /\ collector' = [collector EXCEPT
                     ![e] = IF Recoverable /\ ~Busy THEN "waiting" ELSE "leaving"]
  /\ IF Recoverable
       THEN /\ IF Busy THEN UNCHANGED job ELSE StartJob(e)
            /\ UNCHANGED <<data, saved>>
       ELSE /\ data' = Commit(data, e) /\ saved' = data'
            /\ UNCHANGED job
  /\ UNCHANGED <<snapshot, journal, run, up, handler, session, files, cancelled, phase, history>>

\* Mutant: a failed checkpoint leaves the execution as it was.
CollectorIgnoresFailure(e) ==
  /\ Free /\ collector[e] = "waiting"
  /\ job.key # e
  /\ UNCHANGED <<data, saved>>
  /\ collector' = [collector EXCEPT ![e] = "leaving"]
  /\ UNCHANGED <<snapshot, journal, run, up, handler, session, files, cancelled, job, phase,
                 history>>

\* completed, after the job: a failed checkpoint turns the result to error.
CollectorObserves(e) ==
  /\ Free /\ collector[e] = "waiting"
  /\ job.key # e
  /\ data' = IF data.checkpointError THEN [data EXCEPT !.executions[e] = "error"] ELSE data
  /\ saved' = data'
  /\ collector' = [collector EXCEPT ![e] = "leaving"]
  /\ UNCHANGED <<snapshot, journal, run, up, handler, session, files, cancelled, job, phase,
                 history>>

\* Mutant: the collector leaves a deferred close to somebody else.
CollectorJustLeaves(e) ==
  /\ collector[e] = "leaving"
  /\ collector' = [collector EXCEPT ![e] = "done"]
  /\ UNCHANGED <<durable, up, data, handler, session, files, cancelled, job, phase, history>>

\* The last registered collector carries out a deferred close; this runs
\* under the supervisor's lock, not the controller's.
CollectorLeaves(e) ==
  /\ collector[e] = "leaving"
  /\ collector' = [collector EXCEPT ![e] = "done"]
  /\ IF data.closing /\ workspace = "live" /\ Registered = {e} THEN SendClose
     ELSE UNCHANGED session
  /\ UNCHANGED <<durable, up, data, handler, files, cancelled, job, phase, history>>

-----------------------------------------------------------------------------
\* The control loop ends: closed, expired, or (a fault) the container died.
WorkerStops ==
  /\ worker = "serving" /\ up
  /\ IF remoteClosed \/ phase = "expired" THEN UNCHANGED faults ELSE Fault
  /\ worker' = "stopped" /\ workspace' = "dead"
  /\ UNCHANGED <<durable, up, data, handler, files, closeSent, remoteClosed, collector, cancelled,
                 job, phase, acked, told, crashes>>

\* run_session saves what was stopped before it judges anything.
SaveStopped ==
  /\ worker = "stopped"
  /\ run' = [run EXCEPT !.phase = "stopped", !.candidate = Len(journal)]
  /\ worker' = "selected"
  /\ UNCHANGED <<saved, snapshot, journal, up, data, handler, workspace, closeSent, remoteClosed,
                 files, collector, cancelled, job, phase, history>>

\* The evaluation phase is entered only with a candidate.
StartEvaluation ==
  /\ worker = "selected" /\ run.candidate # 0
  /\ run' = [run EXCEPT !.phase = "evaluating"]
  /\ worker' = "judging"
  /\ UNCHANGED <<saved, snapshot, journal, up, data, handler, workspace, closeSent, remoteClosed,
                 files, collector, cancelled, job, phase, history>>

\* recorder.finish: the journal is sealed and the report bound to it.
FinishRun(outcome) ==
  /\ \/ worker = "judging" /\ outcome \in {"passed", "failed", "error"}
     \/ worker = "selected" /\ run.candidate = 0 /\ outcome \in {"no_submission", "error"}
  /\ run' = [run EXCEPT !.phase = "finished", !.outcome = outcome]
  /\ worker' = "reporting"
  /\ UNCHANGED <<saved, snapshot, journal, up, data, handler, workspace, closeSent, remoteClosed,
                 files, collector, cancelled, job, phase, history>>

\* What a client polling the result may have been told by now.
Tell(d) ==
  told' = IF Status(d) = "complete" /\ d.submissions # {}
            THEN [submission |-> Latest(d), outcome |-> d.report] ELSE told

\* Mutant: the report arrives without the receipts of helper submissions.
CompletedWithoutJournal ==
  /\ Free /\ worker = "reporting"
  /\ data' = [data EXCEPT !.report = run.outcome]
  /\ saved' = data'
  /\ worker' = "gone"
  /\ Tell(data')
  /\ UNCHANGED <<snapshot, journal, run, up, handler, workspace, closeSent, remoteClosed, files,
                 collector, cancelled, job, phase, acked, crashes, faults>>

\* completed: the report and every journalled submission, in one save.
Completed ==
  /\ Free /\ worker = "reporting"
  /\ data' = Accept([data EXCEPT !.report = run.outcome], DOMAIN journal)
  /\ saved' = data'
  /\ worker' = "gone"
  /\ Tell(data')
  /\ UNCHANGED <<snapshot, journal, run, up, handler, workspace, closeSent, remoteClosed, files,
                 collector, cancelled, job, phase, acked, crashes, faults>>

\* An exception after the workspace was attached ends in on_error.
RunFails ==
  /\ worker \in {"stopped", "selected", "judging"}
  /\ Fault
  /\ worker' = "failing"
  /\ UNCHANGED <<durable, up, data, handler, workspace, closeSent, remoteClosed, files, collector,
                 cancelled, job, phase, acked, told, crashes>>

\* failed
Failed ==
  /\ Free /\ worker = "failing"
  /\ data' = [data EXCEPT !.interrupted = TRUE]
  /\ saved' = data'
  /\ worker' = "gone"
  /\ UNCHANGED <<snapshot, journal, run, up, handler, workspace, closeSent, remoteClosed, files,
                 collector, cancelled, job, phase, history>>

-----------------------------------------------------------------------------
\* The service process dies: its threads, its memory and, by the time of the
\* next start, its container.
Crash ==
  /\ up /\ crashes < MaxCrashes
  /\ crashes' = crashes + 1
  /\ up' = FALSE /\ data' = saved /\ handler' = None
  /\ workspace' = "none" /\ files' = NoFiles /\ worker' = "gone"
  /\ closeSent' = FALSE /\ remoteClosed' = FALSE
  /\ collector' = [e \in Execs |-> "none"] /\ cancelled' = {}
  /\ job' = Idle
  /\ phase' = IF phase = "draining" THEN "settling" ELSE phase
  /\ UNCHANGED <<durable, acked, told, faults>>

\* Mutant: whatever http.json calls running is rolled back, committed or not.
RolledBackIfRunning(e) == saved.executions[e] = "running"

\* A command past the checkpoint has no committed effects.
RolledBack(e) ==
  /\ saved.executions[e] # "none"
  /\ snapshot.state.executions[e] \in {"none", "running"}

\* _reconcile with a checkpoint: its record, and the receipts of executions.
Restored ==
  [snapshot.state EXCEPT
     !.executions = [e \in Execs |-> IF RolledBack(e) THEN "rolledback" ELSE @[e]],
     !.requests = @ \cup (saved.requests \cap Execs),
     !.interrupted = FALSE]

\* _reconcile without one: nothing that ran can be said to have succeeded.
Interrupted ==
  [saved EXCEPT
     !.executions = [e \in Execs |-> IF @[e] = "running" THEN "error" ELSE @[e]],
     !.interrupted = TRUE]

Finished == run.phase = "finished"

Resumable == Recoverable /\ ~Finished /\ ~saved.closing

\* _reconcile: the durable report, else the checkpoint, else an interruption;
\* and in every case the submissions of the journal.
Reconciled ==
  Accept(IF Finished THEN [saved EXCEPT !.report = run.outcome]
         ELSE IF Resumable THEN Restored ELSE Interrupted,
         DOMAIN journal)

\* A start that needs no workspace: the session only answers queries.
RestartClosed ==
  /\ ~up /\ ~Resumable
  /\ up' = TRUE
  /\ data' = Reconciled /\ saved' = data'
  /\ Tell(data')
  /\ UNCHANGED <<snapshot, journal, run, handler, session, files, collector, cancelled, job, phase,
                 acked, crashes, faults>>

\* run_session with resume: only a run still in phase running, and restore
\* only before the settlement deadline.
CanResume == run.phase = "running" /\ phase # "expired"

\* _start_session with resume, up to the checkpoint of the resumed session.
RestartResumes ==
  /\ ~up /\ Resumable /\ CanResume
  /\ up' = TRUE
  /\ data' = Reconciled /\ saved' = data'
  /\ workspace' = "live" /\ worker' = "serving" /\ files' = snapshot.files
  /\ snapshot' = [snapshot EXCEPT !.state = data']
  /\ UNCHANGED <<journal, run, handler, closeSent, remoteClosed, collector, cancelled, job, phase,
                 history>>

\* The session cannot be resumed, so the service does not start at all.
RestartRefused ==
  /\ ~up /\ Resumable
  /\ IF CanResume THEN Fault ELSE UNCHANGED faults
  /\ saved' = [Reconciled EXCEPT !.interrupted = TRUE] /\ data' = saved'
  /\ UNCHANGED <<snapshot, journal, run, up, handler, session, files, collector, cancelled, job,
                 phase, acked, told, crashes>>

\* Time passes, as BudgetPhases says, while a deadline can still matter: once
\* the workspace is gone nothing reads the budget.
Advance ==
  /\ workspace # "dead"
  /\ UNCHANGED <<durable, up, data, handler, session, files, collector, cancelled, job, history>>
  /\ Budget!Advance

-----------------------------------------------------------------------------
Handler ==
  \/ \E w \in Writes : Write(w) \/ WriteUnconfirmed(w)
  \/ \E s \in Submits : Submit(s) \/ SubmitUnconfirmed(s)
  \/ \E e \in Execs : Execute(e) \/ Cancel(e)
  \/ Close \/ CloseUnsent
  \/ Respond

Job == JobArchive \/ JobFail \/ JobManifest \/ JobCommit \/ JobFinish

Execution(e) ==
  \/ ExecutionWorks(e) \/ ExecutionExits(e)
  \/ CollectorCompletes(e) \/ CollectorObserves(e) \/ CollectorLeaves(e)

Worker ==
  \/ WorkerStops \/ SaveStopped \/ StartEvaluation \/ RunFails
  \/ \E outcome \in Outcomes : FinishRun(outcome)
  \/ Completed \/ Failed

Restart == RestartClosed \/ RestartResumes \/ RestartRefused

Next ==
  \/ Handler \/ HelperSubmit
  \/ Job
  \/ \E e \in Execs : Execution(e)
  \/ Worker
  \/ Crash \/ Restart
  \/ Advance

\* The threads run; a cancelled command, or one whose container is gone, is
\* collected; somebody restarts the service.  Nothing else is promised: no
\* client acts, no command ends by itself and no deadline passes.
Fairness ==
  /\ WF_vars(Respond)
  /\ WF_vars(Job /\ UNCHANGED faults)
  /\ \A e \in Execs :
       /\ WF_vars(ExecutionExits(e) /\ (e \in cancelled \/ workspace = "dead"))
       /\ WF_vars(CollectorCompletes(e) \/ CollectorObserves(e) \/ CollectorLeaves(e))
  /\ WF_vars(Worker /\ UNCHANGED faults)
  /\ WF_vars(Restart /\ UNCHANGED faults)

Spec == Init /\ [][Next]_vars /\ Fairness

-----------------------------------------------------------------------------
Workspaces == [Effects -> Nat]

Snapshots == [files : Workspaces, state : SessionRecords]

\* Every variable keeps its type.
TypeOK ==
  /\ saved \in SessionRecords /\ data \in SessionRecords
  /\ snapshot \in Snapshots
  /\ journal \in Seq(Submits \cup {None})
  /\ run \in [phase : {"running", "stopped", "evaluating", "finished"}, candidate : Nat,
              outcome : Outcomes \cup {None}]
  /\ up \in BOOLEAN
  /\ handler \in Submits \cup Execs \cup {"close", None}
  /\ workspace \in {"none", "live", "dead"}
  /\ files \in Workspaces
  /\ worker \in {"serving", "stopped", "selected", "judging", "reporting", "failing", "gone"}
  /\ closeSent \in BOOLEAN /\ remoteClosed \in BOOLEAN
  /\ collector \in [Execs -> CollectorStages]
  /\ cancelled \subseteq Execs
  /\ job \in [stage : {"idle", "archiving", "archived", "committed", "failed", "finishing"},
              key : Effects \cup {None}, frozen : SessionRecords \cup {None},
              archive : Workspaces \cup {None}]
  /\ phase \in Budget!Phases
  /\ acked \subseteq Keys \cup {"close"}
  /\ told \in [submission : Nat, outcome : Outcomes] \cup {None}
  /\ crashes \in Nat /\ faults \in Nat

\* A write acknowledged to some client is in the checkpoint with its reply,
\* and is there again, reply and effect, in every life of the session.
AckedWriteSurvives ==
  Recoverable =>
    \A w \in acked \cap Writes :
      /\ snapshot.files[w] > 0 /\ w \in snapshot.state.requests
      /\ up => w \in data.requests
      /\ workspace = "live" => files[w] > 0

\* Retries, crashes and rollbacks never repeat an effect on the workspace,
\* unless a transport failure hid from the service that it took place.
EffectsOnce ==
  faults = 0 =>
    \A x \in Effects : files[x] <= 1 /\ snapshot.files[x] <= 1

\* A submission key has one journal entry however often it is sent, and an
\* acknowledged one keeps its receipt across restarts.
OneReceiptPerKey ==
  /\ \A i, j \in DOMAIN journal : journal[i] = journal[j] => i = j \/ journal[i] = None
  /\ \A s \in acked \cap Submits :
       \E i \in DOMAIN journal : journal[i] = s /\ (up => i \in data.submissions)

\* The result a client reads was judged on the submission the record calls
\* last, the last one accepted, wherever it came from.
SelectionJudged ==
  up /\ data.report # None =>
    /\ data.submissions = DOMAIN journal
    /\ run.candidate = Len(journal)

\* A collector that has to commit an execution never finds another job in
\* the way: CheckpointJobs.start would raise and the command never end.
CollectorNeverRefused ==
  Recoverable /\ Busy => \A e \in Execs : collector[e] # "exited"

\* What a client can see between two requests is what a restart would read.
VisibleIsSaved == up /\ handler = None /\ faults = 0 => saved = data

\* The archive and the record of a checkpoint agree: no reply without its
\* write, and no effect of a command the record does not call complete.
SnapshotMatchesRecord ==
  Recoverable =>
    /\ \A w \in snapshot.state.requests \cap Writes : snapshot.files[w] > 0
    /\ \A e \in Execs :
         snapshot.files[e] > 0 => snapshot.state.executions[e] = "complete"

\* A command reported as rolled back left nothing in the workspace.
RolledBackLeavesNothing ==
  \A e \in Execs :
    up /\ data.executions[e] = "rolledback" => files[e] = 0 /\ snapshot.files[e] = 0

\* A result told to a client, for an accepted submission, stays that result:
\* no late checkpoint failure, crash or restart takes it back.
ResultStable ==
  up /\ told # None =>
    /\ Status(data) = "complete"
    /\ data.report = told.outcome /\ Latest(data) = told.submission

Terminal == up /\ Status(data) \in {"complete", "error"}

\* A session that was closed, or whose budget expired, gets a terminal state
\* whoever sends the close: handler, checkpoint job or collector.
SessionEnds ==
  (up /\ (data.closing \/ phase = "expired")) ~> (Terminal \/ crashes > 0 \/ faults > 0)

\* A cancelled command leaves `running', even when its checkpoint fails.
CancelledExecutionEnds ==
  \A e \in Execs : (e \in cancelled) ~> (~up \/ data.executions[e] # "running")
\* A checkpoint job ends, so that a busy workspace becomes usable again.
JobEnds == Busy ~> ~Busy
\* Nothing that keeps the workspace busy does so for ever: neither a cancelled
\* command nor a checkpoint job, whatever fails meanwhile.
WorkEnds == CancelledExecutionEnds /\ JobEnds

\* docs/architecture.md: "Status progresses from `active` to `evaluating`,
\* then `complete` or `error`", also when the service was restarted on the way.
EvaluatingEnds == (up /\ Status(data) = "evaluating") ~> (Terminal \/ ~up)

\* docs/architecture.md: "Queries remain available until the creation
\* response's `retained_until`", so a service that is restarted serves again.
ServiceReturns == ~up ~> up
=============================================================================
