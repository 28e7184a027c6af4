# A verification development for ICLayout-Bench

ICLayout-Bench runs AI agents on IC layout tasks. A local HTTP service creates
a session per task, gives the solver an isolated container, accepts writes,
commands and submissions, and judges the last submission once the session is
closed or its budget is spent. A batch coordinator runs many participants
against it, and an archive keeps what they produced. This directory holds TLA+
models of the parts whose correctness depends on the order of events, the TLC
configurations that check them and proofs for TLAPS. Paths below are relative
to `src/benchmarking/` unless they start with `docs/`.

## Inventory

| Part | State it keeps | Operations | What is hard, and what makes it correct |
|---|---|---|---|
| Session budget (`execution/budgets.py`) | solve deadline, the active operation and its deadline | begin and end an operation, read the phase | threads read and write its fields without a lock; a budget is not renewed and its settlement allowance is kept |
| Session controller and state (`service/controller.py`, `state.py`, `views.py`) | the session record, its replies by idempotency key, `http.json` | write, submit, execute, cancel, close, queries, start-up reconciliation | handlers share the record with three kinds of thread; a crash can fall between any two steps |
| Checkpoint jobs (`service/checkpoints.py`, `execution/workspace/access.py`) | one running job, `checkpoint.json` with its archive | start, archive, commit, fail | archive, frozen record and live record must agree, also when a restart combines them |
| Supervision (`service/supervisor.py`) | one handle per session, one collector per command | start, attach, execute, cancel, close, deferred close | three parties can be responsible for sending the close |
| Session run (`service/session.py`, `execution/workspace/docker.py`, `protocol.py`) | the container, the control socket, `run.json` | submit, close, stop, select, judge, finish, resume | submissions arrive from HTTP and from inside the container; the judged one must be the recorded one |
| Run journal (`evidence/journal.py`, `archive.py`) | append-only events, the report bound to them | append, resume, finish | torn last line, crash between the last event and the report |
| Session start-up (`service/supervisor.py`, `controller.py`) | readiness, creation keys | create, attach, give up, answer | timeout against attachment, crash against creation, one session per key |
| Batch scheduling and case lifecycle (`participants/batch/`, `attempt/storage.py`, `worker.py`) | plan, slots, workers, leases, `result.json` of each case, replacement journal | plan, prepare, dispatch, adopt, observe, collect, replace | workers outlive a dead scheduler; renames are not atomic together; a Dataset changes after it was planned with |
| Participant attempt (`participants/attempt/`, `client.py`) | recovery record, traces, finalization, exports | create, launch, continue, settle, collect | late answers, lost replies, expiry; settlement is final |
| Harness adapters (`participants/harnesses/`, `results/usage.py`) | private homes, logins, sessions | classify failures, count usage, find the session, write the login back | event orders of five CLIs; concurrent refreshes of one login |
| Inference gateway (`execution/inference/`) | token and request counters, events | admit, deny, forward, read the reply, stop | counters shared by threads; a torn stream is not an answer |
| Evaluation and scoring (`evaluation/`) | results of the jobs of a plan | plan, order, batch, judge, score | agreement of verdicts, errors beside rejections, zero and missing anchors |
| EDA backends (`eda/`, `evaluation/measurements/`, `execution/_scripts/wait_process_tree.py`) | none: reports, netlists, layouts and traces in, a verdict or values out | DRC, LVS, extraction, geometry, simulation, measurement | a truncated, stale or foreign report; a sample exactly on a threshold |
| Tool processes (`execution/tools/`, `execution/process.py`) | containers, process trees, leases | run, retry, stop, clean up | forking while being stopped, reused pids |
| Result archive (`results/`) | objects, tables, outbox, retention manifests | import, deliver, compact | several files change where only each rename is atomic |
| Result verification and packages (`results/verification.py`, `package.py`, `transfer.py`) | none | check a frozen run, export, pack, unpack | every reference between report, journal, archive and evaluation must be the run's own |
| Tasks and datasets (`tasks/`) | none | select cases, load a task, publish its inputs, compare contracts | a stale index, inputs that hide each other or the evaluator's |

Interaction: the controller holds one lock around every handler. The evaluator
thread, the collectors and the checkpoint jobs take that lock only to publish
(`completed`, `failed`, `commit`). Handlers talk to the container through a
control socket and to the supervisor by method calls. Handlers, collectors,
process checks and the evaluator thread all use the budget, which has no lock of
its own. Between processes everything goes through files that are replaced
atomically (`http.json`, `checkpoint.json`, `run.json`) and the journal.

A participant attempt creates its session over HTTP, launches a CLI in it,
and settles and collects it; a batch runs attempts as worker processes that
share its leases. The session's evaluation runs the jobs of the task's plan
through backends, each in a container or a supervised process tree. Collected
results are exported, queued in an outbox, imported and compacted.

## Modules

| Module | What it is |
|---|---|
| `BudgetPhases` | abstract specification of a budget: phases climb a ladder, operations start only while solving |
| `SessionBudget` | `execution/budgets.py` with a clock, its threads interleaving access by access; what it stands for refines `BudgetPhases` |
| `SessionService` | one session through handlers, threads, crashes and restarts; uses `BudgetPhases` for its deadlines |
| `AppendLog` | abstract specification of run evidence: a numbered log that only grows, until it is sealed |
| `RunJournal` | `evidence/journal.py` and the solver's protocol on it; refines `AppendLog` |
| `SessionCreation` | a creation key, the startup gate and the workspace's attachment |
| `ParticipantAttempt` | the runner of an attempt, its CLI, its files and its session; extends `SessionCreation` |
| `BatchScheduler` | one condition: case records and directories, leases, workers, schedulers, collector, replacement |
| `BatchPlans` | what a batch's conditions, cases, directories and Datasets are |
| `TaskDatasets` | published selections, task loading, solver inputs and contracts |
| `Retention` | compaction of nested archives with a shared pool |
| `ResultArchive` | outbox, imports and deliveries beside a compaction; extends `Retention` |
| `InferenceGateway` | the gateway's threads, budgets, denials, deadline and stop |
| `WireSemantics` | what a reply or an event stream of a provider means |
| `EvaluationPlans` | legal plans, job order and batches |
| `EvaluationRun` | jobs, results, cancellation, verdicts and score of one plan |
| `ScoreQuality` | the quality of a measurement under each normalisation |
| `ToolExecution` | one job's containers, attempts, evidence and clean-up |
| `ProcessTree` | stopping a process tree that forks, exits and is reparented |
| `HarnessFailures` | the failure each adapter makes of its CLI's events |
| `UsageAccounting` | tokens and costs of calls, launches and attempts |
| `CredentialSync` | one login shared by attempts |
| `NativeSessions` | which native session an adapter resumes |
| `FrozenRun` | the checks a finished run must pass |
| `ResultPackage` | export of evaluation artifacts, packing and unpacking |
| `NativeReports` | the verdicts drawn from PVS, Calibre, Quantus, StarRC, Assura, IC Validator and layout editors, and the process wrapper |
| `OpenChecks` | KLayout DRC with waivers and LVS, Netgen and Magic, KPEX |
| `LayoutGeometry` | GDS stream records and geometric constraints |
| `SimulatorResults` | logs and files of ngspice, HSPICE and Spectre, calibration, command lines |
| `ExtractedNetlists` | logical lines, port binding and device cards of extracted netlists |
| `Waveforms` | measurements on sampled traces, sweeps and transfer functions |
| `ComponentMachines` | the gateway, an evaluation, a tool's run, a process tree, a shared login and a CLI's conversation side by side, with the assumptions on their constants |
| `MCSessionService`, `MCBatchScheduler`, `MCParticipantAttempt`, `MCResultArchive` | instances for TLC; `SessionBudget` and `RunJournal` are checked as they are |
| `MCComponents`, `MCSubjects` | one instance of all the remaining components, and the values of the pure ones; extend `ComponentMachines` |
| `SessionBudgetProofs`, `SessionServiceProofs`, `RunJournalProofs`, `BatchSchedulerProofs`, `ParticipantAttemptProofs`, `ResultArchiveProofs`, `ComponentProofs`, `EvaluationProofs` | theorems and proofs |

### SessionBudget

| Variable | Code |
|---|---|
| `now` | `time.monotonic()` |
| `operationDeadline`, `operationEnded`, `operationActive` | the fields of those names |
| `caller` | each thread that begins and ends operations: a request handler with its collector, a process check |
| `reader` | a thread that polls `phase`: the next access, the time it read, and whether a method of another ran beside it (`raced`) |
| `told` | the phase the last poll returned, or that it raised |
| `astray` | history: two operations began at once, or one began across the solve deadline |

`budgets.py:50-91` takes no lock, so each access of a field is an action, in the
order of the code: `Ask` and `Claim` are the two checks of `begin_operation`,
`SetDeadline`, `ClearEnded` and `Activate` its assignments; `Finish`,
`TestDeadline`, `Record`, `Forget` and `Release` are `end_operation`; `Poll` to
`Decide` are `phase` and, in it, `settlement_deadline`. A reading of the clock
falls anywhere between the accesses around it (`Since`). Configured limits and
`snapshot`, which only formats what it reads, are not modelled.

The fields are inconsistent in the middle of a method, so the properties are
about what they stand for: `Phase` and `SettlementDeadline` take an operation for
active from the moment its checks passed to the moment its end is recorded. That
view refines the ladder and is never renewed, and a poll that no method ran
beside tells it. What the code does not promise, and the model reaches:

- two threads may both pass the check of `operation_active`, and a thread may
  pass the check of the phase before the solve deadline and start after it;
  from then on (`astray`) the ladder may be left and the deadline be moved;
- a poll beside a method may tell `settling` and a later one `draining`, may
  raise (`operation_deadline` is None by the time it is compared or added to,
  lines 81-91), or tell `expired` because it tested the deadline before line 74
  and read it after; but never before the allowance after the solve deadline;
- `end_operation` raises if another thread ended the operation between its test
  of the deadline and `min` (lines 72-73).

### SessionService

The model starts after the first checkpoint of a session was committed, with
the container attached and the evaluator thread serving.

| Variable | Code |
|---|---|
| `saved`, `data` | `http.json` and the record in memory: replies (`requests`), `submissions`, `executions`, `closing`, `interrupted`, `checkpoint_error`, the report |
| `snapshot` | `checkpoint.json`: the workspace archive and the record frozen for it |
| `journal`, `run` | accepted submissions in the run's journal, and `run.json` |
| `handler` | the request that holds the controller's lock between its effect and its reply |
| `files` | how often each write or command took effect in the workspace |
| `worker` | the evaluator thread, from serving the socket to having reported |
| `collector`, `cancelled` | a collector thread per execution, and its cancel marker |
| `job` | the checkpoint job: archiving, archived, committed or failed, finishing |
| `closeSent`, `remoteClosed` | `handle.close_sent`, `protocol.remote_closed` |
| `phase` | what `budget.phase()` says |
| `acked`, `told` | history: replies, and a judged result, that clients may have seen |

A handler is one action when no other thread can see it half done. Handlers
whose effect is visible before the lock is released take two: `Execute`,
`Submit` and `Close` set `handler`, and `Respond` saves the record and answers.
A checkpoint job takes its five steps (`JobArchive`, `JobManifest`, `JobCommit`
and `JobFinish`, or `JobFail`) while handlers run between them. The evaluator
thread's steps are the saves of `run.json` (`SaveStopped`, `StartEvaluation`,
`FinishRun`, with an error before a candidate is judged, too) and its two
callbacks (`Completed`, `Failed`). A dispatched command first takes effect, as
often as it is dispatched, and then exits (`ExecutionWorks`, `ExecutionExits`): nothing in
`access.py:58-68` keeps a command from running twice but that `Execute` replays
the record. `Cancel` saves the record with its reply. `Crash` loses
everything but the four files; `Reconciled` is `ServiceState._reconcile`, and a
restart either only answers (`RestartClosed`), resumes (`RestartResumes`) or
raises (`RestartRefused`).

Abstractions, each of which keeps the control flow:

- content is a counter per effect. A write or a command is present in the
  workspace, an archive or not, and whether it happened twice can be seen;
- the journal is the sequence of keys of accepted submissions, `None` for those
  made by the helper inside the container;
- the budget is the ladder of `BudgetPhases`, with the collector of a command as
  its active operation; the wall-clock copy of the deadline in the session
  record is equated with phase `solving`. Only handlers begin operations here,
  under the controller's lock, so no two begin at once; what a poll may tell
  beside the end of an operation, or an operation begun across the deadline, is
  left to `SessionBudget`;
- terminal states of an execution other than `rolledback` and the error of a
  failed checkpoint are one state, `complete`;
- a client that received the reply of a close does not close again;
- time stops mattering once the workspace is gone (`Advance`).

Left out: authentication and retention of sessions, file reads and paging
(creation is `SessionCreation`), process checks (which begin operations of their own)
and benchmark feedback inside the container, and the
building of the container.

### RunJournal

`SessionService` takes the journal of a run for a sequence that survives
crashes. `RunJournal` is that sequence in detail, and the reason it may be taken
for one.

| Variable | Code |
|---|---|
| `lines`, `tail` | the complete lines of `events.jsonl`, and what follows the last newline |
| `artifacts` | the files under `artifacts/`, torn tails included |
| `report` | `run.json`: its phase, and the journal its identity was computed from |
| `recorder`, `error`, `sequence` | the `RunRecorder`: where it is between resume and finish, `error`, `_sequence` |
| `submissions`, `checks`, `results`, `opinions` | `SessionProtocol.submissions`, `feedback_sequence`, `process_feedback`, `benchmark_feedback` |
| `dispatching` | the request between its first durable step and its event |
| `told` | history: receipts a client may have seen |

One action is one durable step. A submission and an opinion are archived
(`Freeze`) before their event is written (`Submit`, `Opinion`); a check writes
its number (`CheckRequest`) before any tool runs and its result afterwards;
`Save` and the two steps of `finish` replace `run.json`. `Note` stands for every
event that nothing is rebuilt from, those of gateway threads among them, so it
also falls between the steps of a request. A write that fails or is cut off by
the process's end leaves nothing, part of its line, or all of it
(`PartlyWritten`); after a failure the recorder refuses to write (`error`).
A line written behind a torn one would merge with it: `Garbage`. Resuming
archives the tail, cuts it off and records that, and may crash at each step.

Abstractions: receipts are kept under the sequence number of their event, which
is their order; contents are model values; a failed write of an artifact has the
effect of a failed event that left nothing; the candidate a check froze and
what its tools found are left out; times are left out, so a request may miss
its deadline at any point. An event is durable or not as a whole once the
process is gone, because `event` syncs the file before it returns.

### SessionCreation and ParticipantAttempt

| Variable | Code |
|---|---|
| `sessions`, `request`, `handler` | the service's sessions with their readiness gate; the HTTP requests of the one creation key; the handler that holds the runtime lock |
| `solve` | the session's journal, record and workspace: submissions (`subs`), the last one the record lists (`listed`) and the last one made over HTTP (`posted`), running command, closing, verdict |
| `rec`, `trace`, `jr`, `pending`, `out` | `.private/recovery.json`; `harness.jsonl` and its numbered predecessors; `finalization.json`; the evaluation deadline of `collection.json`; the exports |
| `run`, `cli` | the runner's program counter and locals; the native process |
| `started` | history: launches whose CLI started |

A step is one file write or one HTTP call with its retries, and a call may fail
with or without its effect. Runner and service may die between any two steps. A
CLI that outlives its runner holds the slot's lease, so the next runner waits
for it. A receipt is `status['last_submission']` (`settlement.py:45`, `views.py:51`):
a submission made inside the container is in it only when the session has
completed or the service has restarted (`controller.py:364-370`,
`state.py:179-184`). Abstractions: one creation key, without the capacity check; the
redaction of outputs, the preparation of the CLI's home and the consistency
checks of a created session are left out; a failing first checkpoint and the
recovery retention of failed checkpoints are left to `SessionService`, and so
is a service restart on an expired session (`service_returns`).

### BatchScheduler and BatchPlans

| Variable | Code |
|---|---|
| `rec`, `dir`, `staging`, `txn`, `exported` | per slot: `result.json`, `.runtime`, `.replacing`, `.replacement.json`, the verified export |
| `svc` | the slot's local service is alive and owns the store, or its remote session is open |
| `proc`, `sched` | each worker with its CLI, or the collector; the scheduler with its queue, its owned and its watched slots |
| `made`, `spoiled` | history: attempts started; slots blocked after they had finished |

Each rename, save and lock is a step. An observer reads the record before it
looks for the process, so one that suspends in between raises (`WorkerRaises`,
`coordinator.py:164-176`). `spoiled` marks the one exception the code
allows: a record read before its lease was free, finished by an orphan in
between and then overwritten as blocked (`runner.py:199-228`). Left out: the
cooldown after capacity failures, the order of block targets, detaching, the
status view and the uncertain creation of a remote session.

`BatchPlans` is about values, not steps: the conditions a list of configuration
files expands to, the cases a name selects, the directory a repeated batch goes
on in, and the binding of conditions to Datasets that may have changed since
they were planned. A request that names a remote endpoint binds no Dataset and
is left out, and so is a change between the comparison of the index and the
reading of the case file right after it (`plan.py:204-215`), whose effect is
that the identity records the later file. A case file can therefore change
unnoticed only in that window. `TaskDatasets` takes a digest for the
content it is of; the contract leaves out hours and status, as the code does.

### Retention and ResultArchive

| Variable | Code |
|---|---|
| `present`, `bytes` | originals on disk and what they hold |
| `pool`, `linked`, `rotten`, `manifest` | compressed objects, the archives' hard links, objects that rotted, committed manifests |
| `compaction` | the compaction of each archive, between two file operations |
| `outbox`, `objects`, `runs`, `history`, `rows`, `scheduled` | pending jobs, content-addressed objects, the tables |
| `importer`, `queued` | each importing process; history: terminal cases that were queued |

Abstractions: reading a file is one step; the check that an archive is terminal
and the check of its records are left out; there is one pool; a damaged file
keeps its size, and at most one thing is damaged; `again` is the export of a new
evaluation of the same run and `other` conflicts with its identity; a database
transaction is one step, since SQLite serialises them. Imports and compactions
are composed without faults and, with one, separately.

### InferenceGateway, EvaluationRun, ToolExecution, ProcessTree

The gateway's threads take `lock` where the code takes it and count a denial
outside it, as the code does (`gateway.py:156`). `stop` sets the flag, takes the
deadline away, closes the connection upstream and the listener, and waits two
seconds for the lock; a request that was still being recorded is `unrecorded`,
and a lock not given up is `shutdown_incomplete`. An evaluation's jobs run in batches of the backends'
capacity, any of them may be cancelled, fail, crash or return what a backend may
not return, and the verdicts are derived from what is recorded. A tool's run is
attempted up to `MaxAttempts` times; the container's creation, the run, the log,
the removal and the collection may each fail (`faults`). What drains a container
is one pass over `/proc` that signals what it lists (`docker.py:30-37`): a process
forked during the pass may run on beside the collection (`Drain`), and no
property says that outputs are read from a quiet container. A process tree is stopped by
repeated readings of the process table, while every member may fork, exit,
orphan its children and have its pid reused; signals go through pidfds, and one
reading of the table is taken as atomic.

### The adapters

`HarnessFailures` and `UsageAccounting` read streams of events that grow one by
one; `CredentialSync` and `NativeSessions` are machines. Assumed of the CLIs,
and marked external: they refresh their own copy of a login, announce and write
their session in any order or not at all, and open further sessions only once
their own can be read. A login the user makes between the comparison and the
replacement of the source may be lost, for the user takes no lock
(`credentials.py:105-111`); the model allows and names it (`unlocked`). Left
out: times, off-peak prices, cache writes and reasoning tokens.

### The backends

What a tool writes is external, as the code reads it: complete, truncated,
contradictory or of another cell. The modules say what the code makes of it.

- `NativeReports`: PVS DRC does not name its cell in the log the code reads, so
  a foreign report of it is excluded. A mismatch of PVS or Assura ends in
  "error" where `grep` in its run script fails first, and Calibre rows that were
  not compared count as failed. The wrapper kills the descendants of a snapshot.
- `OpenChecks`: a layout's artifact check precedes KLayout's comparison; of
  KPEX's output the code checks ports, nodes and counts, not connectivity. Each
  cell or pin is in at most one compared pair.
- `LayoutGeometry`: squares on a grid of 5 by 4; rounding of halves is left out.
- `Waveforms`: exact arithmetic in twelfths; rounding and overflow of floating
  point are left out, as are converter spectra, RMS, differences of means,
  frequency ratios, fractional thresholds and AC responses.
- `SimulatorResults`: an unrequested measure that fails makes an ngspice run an
  error; a PSF line that is no number is skipped and noticed by the length of
  the series.
- `ExtractedNetlists`: names are compared in one case, and a card has at most
  one defect.

## Checks

| Run | Instance | Shows |
|---|---|---|
| `session_budget` | deadline 1, allowance 1, commands of 2 and no limit, two threads and a poll, clock to 4 (0.8 million states) | the properties below |
| `service_crashes` | recoverable; a write, a submission, a command; 2 journal entries, 1 crash, 1 failure (1.5 million states) | the invariants below |
| `session_ends` | recoverable; a write and a command; 1 failure, no crash | a closed or expired session ends, commands and jobs end |
| `session_plain` | no checkpoints; a write and two commands; 1 crash | it ends with a deferred close and overlapping collectors |
| `evaluating_ends` | recoverable; a command, 1 crash | violated: first finding |
| `service_returns` | recoverable; a command, 1 crash | violated: second finding |
| `run_journal` | 4 events, 1 key, 1 content, 1 opinion, 2 crashes, 1 failed write (0.8 million states) | the journal refines `AppendLog`, and the properties below |
| `batch` | 1 task, 2 repetitions under one lease, new or replaced once; 2 schedulers, 3 workers, 1 collector, 1 death | one owner per case, no attempt lost, finished cases stay, schedulers end (0.3 million states) |
| `finished_replaced` | 1 remote slot; 2 schedulers, 1 collector, 1 death | violated: third finding |
| `attempt` | 2 settings, with limits and without; 2 tries per call, 1 submission, 2 runners, 1 failing call, 1 death of runner or service, 1 continuation for capacity (0.8 million states) | one session per key, traces, settlement, receipts, termination |
| `archive` | 4 files in 2 nested archives, 3 exports of one run, 2 importers, 1 damaged file or object | evidence stays readable, the archive whole, results immutable |
| `components` | below (2 million states) | the verdicts, the executions and the inference of the remaining components |

The properties of `session_budget`:

- `ImplementsLadder`: what the budget stands for refines `BudgetPhases`;
- `NoRenewal`: its settlement deadline is neither pushed back nor forgotten;
- `PollsHonest`: no poll tells of an expiry too early, and one that nothing ran
  beside tells the phase of the moment it read the clock;
- `Expires`: a poll tells of the expiry at last, unless an unlimited command
  holds it off (or the clock's bound does).

The first two hold until the budget went astray.

The invariants of `service_crashes`:

- `AckedWriteSurvives`: an acknowledged write is in the checkpoint with its
  reply, and in every later life of the session;
- `EffectsOnce`: retries, crashes and rollbacks never repeat an effect, though
  every dispatch of a command has it;
- `OneReceiptPerKey`: a submission key is journalled once and its receipt kept;
- `SelectionJudged`: what was judged is the last accepted submission, and the
  record lists all of them;
- `CollectorNeverRefused`: a collector never finds another job in its way;
- `VisibleIsSaved`: between two requests memory and `http.json` agree;
- `SnapshotMatchesRecord`: archive and frozen record of a checkpoint agree;
- `RolledBackLeavesNothing`: a rolled back command left no effect;
- `ResultStable`: a result that was read is never withdrawn.

The properties of `run_journal`:

- `EvidenceKept`: every receipt that was seen has its event, and every content
  an event names is archived;
- `SealBindsJournal`: the finished report names the journal as it stays, and a
  journal that says it is finished is never continued;
- `PublishedIsJournalled`: what the protocol answers from is what it would
  rebuild;
- `NumbersNotReused`: receipts, checks and opinions count on across restarts;
- `ImplementsLog`: the refinement of `AppendLog`;
- `TailArchived`: a torn tail leaves the journal only into the archive.

The properties of `batch`, `attempt` and `archive`:

- `OneOwner`: no two processes work on one slot, the dead scheduler's workers
  and their CLIs included, and no slot changes hands while one works on its task;
- `EvidenceKept` (of `BatchScheduler`): every attempt ever started is in the
  runtime, half moved, among the replaced ones or exported;
- `FinishedStays`, `BatchEnds`: a finished case stays so but for `spoiled`, and
  every scheduler ends unless some CLI, or some session to be collected, is
  `Endless`;
- `CreationHonest`: a key never gets two sessions, a refused one is never
  attached, a confirmed one was;
- `TracesKept`: the files named for a launch hold that launch's output;
- `SettlementFinal`: after settlement began nothing is launched, whoever died;
- `ReceiptCurrent`: the receipt of a settled session is no older than the last
  submission over HTTP and no newer than the judged candidate. It may be older
  than that by what a command submitted from inside the container;
- `AttemptEnds`: every runner ends, but where the settings bound neither
  commands nor evaluation and it waits for one of them (`Stuck`): a command
  without a limit, or a session that reports `evaluating` for ever (first
  finding);
- `EvidenceReadable`: whatever a compaction leaves half done, each original can
  be read, from its own archive and from the one around it;
- `ArchiveWhole`: references resolve, results are complete, and a queued export
  is in the outbox or imported;
- `ResultsImmutable`: no import changes an earlier one.

`components` holds the machines `InferenceGateway`, `EvaluationRun`,
`ToolExecution`, `ProcessTree`, `CredentialSync` and `NativeSessions`, one per
behaviour (`focus`), and the pure functions of the other modules over a
`subject`: a history, report, stream, trace, netlist, layout, package, task or
batch that grows or is altered step by step. Its three properties are
conjunctions, each part of which its module states and explains:

- `VerdictsHold`: quality is monotone and anchored (`ScoreQuality`);
  a layout passes or fails only by what its checker concluded of it
  (`NativeReports`, `OpenChecks`, `LayoutGeometry`, `ExtractedNetlists`); values
  are measured on whole samples (`Waveforms`, `SimulatorResults`); a report that
  is accepted, exported or transferred is the one of its run (`FrozenRun`,
  `ResultPackage`); a batch runs the published cases it was planned with, whole
  and in their place (`TaskDatasets`, `BatchPlans`);
- `ExecutionHolds`: the verdicts and the score of a report agree and performance
  is gated (`EvaluationRun`), leftovers of a tool are told and its answer is of its last
  attempt (`ToolExecution`), only the family is signalled and what survives was
  lost between two readings (`ProcessTree`), a login is replaced only along its
  own refreshes (`CredentialSync`), and a resumed launch continues its own
  conversation (`NativeSessions`);
- `InferenceHolds`: a torn stream is noticed (`WireSemantics`), budgets bind and
  the report is quiet after a clean stop (`InferenceGateway`), and no CLI's error
  or token is lost or counted twice (`HarnessFailures`, `UsageAccounting`).

`VerdictConsistent` excuses `Mixed` metrics: a metric measured out of bounds
under one condition and not at all under another is an error, not a rejection,
although the comment at `evaluation/runner.py:248-251` lets rejections prevail;
`tests/unit/test_evaluate.py:813` expects the code's order.

Bounds. In `session_budget` one thread holds the operation while the other begins
or ends beside it; a command of 2 ends before or after the solve deadline, and
its end is noticed in time or late; four ticks are enough for its settlement.
In the session's runs one key of each kind is enough for every pairwise race, because a
session admits one write, command or submission at a time (`Admitted` demands
no running command and no job): a second key of a kind can only start where the
first one is done. The one place where commands overlap, collectors on their
way out, has two commands in `session_plain`. Two journal entries let a helper
submission follow or precede an HTTP one. With one crash and one failure each
thread is cut off between any two of its steps. In `run_journal` four events
are a check, its torn successor, the record of the recovery and the check that
must not take the same number; the second crash can cut off the salvage of the
first one's tail. In `batch` two repetitions share a lease, the second scheduler
meets the first one's workers, and a third worker replaces a dead one; another
task would take another lease. In `attempt` the second runner recovers from each
step of the first, and one failing call with two tries is both a lost and a
repeated request; one submission, over HTTP or from inside the container, is
listed at once or late. In `archive` two nested and two outer files are one of each
kind compaction distinguishes. In `components` there are two gateway threads
with three calls, seven plans (three of them illegal), two attempts of a tool
with two faults, three pids with four starts, two attempts sharing a login with
four logins, three native sessions and launches; subjects are as long as the
longest pattern the code looks for, with one more piece.

Deadlock is not checked: a session, a runner or an archive that has ended, and
a service that refuses to start, stops.

Fairness. A thread that can take a step takes it (weak fairness on `Respond`,
on the checkpoint job, on each collector, on the evaluator), a command ends if
it was cancelled or its container is gone (`docker exec` returns then), and
somebody restarts a service that died. Nothing is assumed of clients, of
commands that were not cancelled or of the clock, and failures are never fair.
`session_budget` assumes that the clock advances, that polls go on and that a
method that was called returns; nobody has to end an operation. `batch` is fair
to the scheduler's and the workers' steps, but to none that waits for a CLI or for
a session: `command_seconds` is null by default, `settlement.py:63` and
`wait_result` may poll without a deadline, and an orphaned CLI is stopped by none
(`process.py:125-143`). `BatchEnds` has as its premise, therefore, that each of
these waits is over again and again (`Endless`); nobody has to start a
scheduler. `attempt` is fair to the runner, the service's threads and the
deadlines; commands end and evaluations are bounded only where the settings say
so, or where the close of the session cancelled the command; nobody has to
restart anything and no CLI has to exit by itself. `run_journal`,
`archive` and `components` state safety only.

Three properties are stated from the documentation and violated:

1. `EvaluatingEnds`. docs/architecture.md says a session goes from `evaluating`
   to `complete` or `error`. A session closed before a crash that precedes its
   result is not resumed (`state.py:137`), is marked interrupted, and
   `views.status` shows interrupted and closing as `evaluating` for good.
2. `ServiceReturns`. docs/architecture.md keeps queries available until
   `retained_until`. A crash after the run stopped but before it finished, or
   after the budget expired, of a session that was not closed leaves a record
   that reconciliation wants resumed and `run_session` refuses
   (`session.py:47`); the constructor raises, at every restart.
3. `FinishedNotReplaced`. docs/running.md says finished cases cannot be
   replaced. A replacement that died after its journal was saved is repeated
   without reading the record again (`replacement.py:24-31`); a collection in
   between may have finished the case, whose result is then moved away.

Met while modelling, without a run of their own:

- `branch_resistors` (`ngspice.py:29-44`) looks for a continuation only in the
  next physical line, so behind a comment or a blank line a `+` line continues
  the generated card instead;
- repeating an interrupted compaction of a changed original overwrites the
  committed record of it in the manifest;
- registering an experiment reads, changes and writes its schedule, which two
  processes on PostgreSQL may do at once;
- an outbox job that is rewritten while it is retried is unlinked;
- a process forked between the last reading of the table and the signal survives
  an answer of "stopped" (`TreeHolds` names it `lost`);
- two records of one call that contradict each other are merged field by field
  (`results/usage.py:168-171`);
- `pack` counts the size of files without the manifest and `unpack` with it
  (`transfer.py:92`, `:128`);
- groups `a` and `a/low` of two configurations with one stem are distinct but
  nested directories; their case directories stay apart (`ConditionsApart`);
- nothing in the repository calls `verify_frozen_run` or
  `verify_service_result`; `FrozenRun` states what they promise their callers.

## Proofs

Everything is proved for all values of the constants, from the assumptions
named in the models: `BudgetAssumption`, `ServiceAssumption`, `BatchAssumption`,
`CreationAssumption`, `AttemptAssumption`, `FilesAssumption`,
`ArchiveAssumption`, `GatewayAssumption`, `PlansAssumption`, `LoginAssumption`,
`TreeAssumption` and `QualityAssumption`. They say that keys, names and markers
are distinct (`QualityAssumption`: that no fraction is the marker of a missing
one), that the bounds are numbers and that what one constant names is in another; of the
gateway, that a configured limit is positive (`inference/config.py:38-43`) and
no reply is recorded as pending; of a declared plan, that its jobs are a list of
records with names (whether it is accepted is the model's); of a process tree, that the numbers of
processes are finite and orphans go to a process outside it.
`RunJournalProofs` needs no assumption on its constants. A theorem about a
function of data (a log, an index, a declaration) has hypotheses instead, named
beside it, that say what shape the data has. TLC evaluates each of
them in the run of its module.

- `SessionBudgetProofs`: type correctness, `PollsHonest`, `NoRenewal` and the
  refinement `ImplementsLadder`, for any number of threads. The inductive
  invariant `BudgetInv` says what each field is at each step of the one method
  that holds the budget (`Held`) and while none does (`AtRest`), that no access
  is of the future (`Clocks`), and what a poll that no method runs beside has
  found out so far (`Found`). `StepKinds` sorts the accesses by what they do to
  the view: most leave it alone (`Steady`), one starts an operation, one gives it
  its deadline, one records its end. The two refinement results follow from that.
- `SessionServiceProofs`: `ServiceTypeOK`. Types alone are not inductive: the
  result told to a client is `Latest` of the record's submissions, which is a
  number only because every record, in memory or on disk, lists entries of the
  journal (`Projected`); and a manifest is well formed because a running job
  has a record and, once read, an archive (`JobShaped`). From the same
  invariant and three more: `OneReceiptForEveryKey` (a key's receipts are
  entries of the journal, and the handler that writes one has looked first),
  `LastSubmissionJudged` (whoever reads the journal to finish reads all of it),
  `ToldResultStays` (what a client was told is below what every record lists)
  and `VisibleStateIsSaved` (each handler saves before it lets go of the lock;
  the exceptions are the transport failures the property names).
  Its second part is about the workspace. `AckedWritesSurvive` is a chain:
  acknowledged writes are in each of the three records (`AckedKept`), none of
  which is ahead of the checkpoint (`RecordsBehind`), whose archive holds them
  and is no newer than the live workspace (`SnapshotPresent`), and a running job
  can replace it only by a checkpoint with at least the same writes
  (`JobAhead`). Most steps change none of this (`Framed`, `FramedAckedInv`); a
  write, the job's steps and a resuming restart have their own steps. A dead
  process has no job (`NoJobDown`), which the restarts need. The second
  invariant, `ExecutionInv`, says who may be at work at one time: a command, a
  write and a checkpoint job exclude one another, `http.json` lags behind by the
  command just started at most, and what a command did to the workspace is in
  the record, and in the record frozen for an archive that has it. It gives
  `CollectorAlwaysAccepted`, `RollbackIsClean` and `CheckpointConsistent`;
  `EffectsTakePlaceOnce` counts effects from it (`OnceInv`). For commands it
  rests on `ReplyInv`: a command that any record knows has its reply in that
  record, or is the one the handler is about to answer, and a command that was
  started and has not worked has left nothing in the workspace. So `Execute`
  is never admitted for it again, and whoever dropped that check would run it
  twice.
- `RunJournalProofs`: `JournalTypeOK`, `EvidenceIsKept`, `SealIsBound` and the
  refinement `JournalImplementsLog`. The invariant says that a recorder which
  may write counts the journal's lines and has no torn tail before it
  (`InStep`), and that a journal whose last event is `finished` has no recorder
  that may write (`Sealing`). `WriteGrows` and `GrowthKeeps` draw from it what
  every write does to the journal, whole or cut off; the steps cite them through
  `RecordKeeps` and `CutOffKeeps`. `TornTailArchived` adds what a salvage that
  was cut off has put aside (`Salvaged`); `ProtocolIsJournalled` and
  `NumbersStayUnique` add that a recorder's counters are those of the journal's
  events (`Counting`), which a new event raises by one.
  Its last part is about what a batch is made of: all of `InputsBound` but the
  loading of tasks. `SelectionIsPublished` is proved for every index (its cases
  are a finite set, and no stale row stands in it), `BatchAsPlanned` for every
  pair of states of the Datasets, when it was planned and when it is prepared
  (`ConditionsRead`, `IndexRows`), `CasesAsNamed` for every request,
  `ReusesLatest` for every history of records (`Histories`), and
  `ConditionsKeptApart` as long as no task has the name of the timestamp a new
  batch is given. A selection is put in order by the numbers of its
  rows (`SortedByNumber`), so that it is the same however they were listed; that a
  list read from its end says the same (`TurnedOf`, `ReadBackwards`) makes
  the results independent of the order in which a directory is read.
- `BatchSchedulerProofs`: `EveryCaseHasOneOwner`, for any schedule, set of
  workers and number of deaths. The invariant, `LeaseInvariant`, says who holds
  the lease of a task: the scheduler and the workers it waits for, the workers
  and CLIs that outlived their scheduler, or one collector. `LocalEvidenceKept`
  and `LocalFinishedStays` follow from what is on the disk while a slot is
  replaced: it is frozen until the last rename, and no name is used twice. They
  are stated for `Remote = FALSE`: with a remote condition the code does
  replace a finished case, which is the finding of `finished_replaced`.
- `ParticipantAttemptProofs`, about `ParticipantAttempt` and the
  `SessionCreation` within it: `CreationStaysHonest`, `EveryTraceKept`,
  `SettlementStaysFinal` and `RecordedReceiptCurrent`. The invariant
  (`AttemptInvariant`) ties the runner's place to the files of the attempt, to
  the CLI that may have outlived it and to the session it was given.
  `HarnessIsHonest` and `RecordIsHonest` are about what the adapters make of a
  CLI's end, parts of `InferenceHolds`. `VerdictOf` says what a verdict tells of
  the codes it was drawn from, and is what `classify_evidence` gives for every
  set of codes. For Codex the reader of the stream is followed event by event
  (`Follows`): its pending errors are those of a turn still open (`Pending`), it
  has dropped those that the end of their own turn settled (`Forgiven`) and
  counts all others, and its tools are those whose last call failed (`Faults`).
  Both assume that `None` is no category, failure or count (`FailuresPresent`,
  `CountsPresent`), which the run `components` evaluates.
  `TaskLoadedWhole` and `TaskContractBinds` are about the task a participant is
  handed: for every declaration and content of the files it names
  (`DeclaredPaths`), what the solver is given and what the evaluator keeps are
  those files whole (`WholeFiles`), so that two tasks of one contract agree in
  each.
- `ResultArchiveProofs`, about `Retention` and `ResultArchive` side by side
  (`ArchiveSpec`: every step is one of a compaction or one of an importer; the
  instance of `archive` restricts it to three scopes and starts two of them
  where a compaction of the nested archive has led). `EvidenceStaysReadable`:
  a manifest, and the draft of one, names objects that hold the last bytes or
  the original ones (`Recording`), a draft goes beyond the manifest it replaces
  (`Drafting`), originals are removed only under a manifest whose objects were
  decoded (`Checked`), the nested archive accounts for each of its files
  (`NestedWhole`), and the manifest that decides about a file that is gone has
  a sound object of it (`Secured`). `ArchiveStaysWhole` uses the former where an
  importer reads (`DeclaredReadable`). Both are proved for at most one fault
  (`SingleFault`, the bound of the run, too): with two TLC finds a file that was
  damaged after the inner compaction staged it and before the outer one
  recorded it, and an object that rots before the inner one commits. That is
  what a store without a second copy cannot promise, and the code does not.
  `ResultsNeverChange` needs no bound on the faults. `AcceptedRunsAreBound` is
  about `FrozenRun`, checked within `VerdictsHold`: what `verify_frozen_run`
  compares one by one (the journal's last submission with its archived bytes, the
  inputs of the evaluation with the frozen plan, a check's report with its
  candidate) makes one chain from the task to the score.
  Three more are about functions of `ResultPackage` and `SimulatorResults`.
  `DamageIsNoticed` assumes that the package sent can be unpacked and
  says that no other list of members does so under its manifest (`Believed`).
  `LogIsConclusive` follows from the fact that a log says the same whichever
  way its lines are read (`SaysSame`), and that an event cut off with its end
  leaves a measure without a value and without its failure. For
  `CalibrationIsNearest`, the nearest of the candidates within the bounds is the
  least of some distances (`LeastNatural`); candidates have numbers as names and
  whole numbers as values (`CandidatesOf`).
- `ComponentProofs`, about the machines of `ComponentMachines`, which share no
  state.
  `ToolRunSound`: what the tool's container left is in its history until the
  removal is known to have happened, and an answer belongs to the last attempt.
  `ConversationContinues`: the session an adapter resumes is one that its own
  launch announced or wrote, and nothing else wrote meanwhile.
  `GatewaySound`, from `BudgetRespected`, `ExhaustionAnnounced` and
  `StopIsQuiet`: the requests and tokens in the report are those of the calls
  (`Recursion` unfolds the sums), the lock belongs to one thread at a time, and a
  thread that outlives `stop` is one the report names.
  `LoginSound`: every login has an earlier one as its parent, so that the chain
  of parents ends and what an attempt refreshed can be told from what it was
  given.
  `TreeSound`: a process the code has to find is known by its number and start,
  or it is newer than the last reading of the table and has such a parent. Were
  there others, the one that started first would have a parent that is none of
  them. The same argument shows that what is signalled descends from the root.
  `NatSetInduction` and `Recursion` carry it: induction over the numbers as a
  fact about sets of them, and from it the values of a recursive function whose
  calls lead downwards in some rank (sums, ancestors, descendants).
- `EvaluationProofs`: `EvaluationSound` states that verdicts agree and
  performance is gated for every declared plan. `OrderComplete` says that an
  accepted order has each declared job once, behind what it depends on, and
  `ClosureStays` that a set closed under the edges holds all that is reached from
  within. The invariant (`EvaluationInvariant`) counts: the results are those of
  the first jobs of the order, and a job passes, or is run, only behind jobs that
  passed; so a job that passed has ancestors that did (`AncestorsPassed`), which
  the rules of a post-layout plan lead back to the gates (`MeasuredBehindGates`).
  That every job has a result at the end (`DoneIsComplete`) is what the agreement
  of the verdicts needs. `ExecutionSound` puts the machines together and states
  `ExecutionHolds`.
  `QualityIsOrdered` and `TruncationIsNoticed` are about two functions whose
  properties the run `components` checks within `VerdictsHold` and
  `InferenceHolds`. The first: each normalization is a fraction of two sums, and
  what is proved of it is an inequality between products (`Full` says that the
  anchor's is 1, a lemma for each normalization the rest). The second: the values
  of `Reading`, a recursive function over the events of a stream, exist
  (`ReadOn`, `ReadingIs`), are those of the part that was read (`PartRead`), and
  after a final event stay as they are or turn bad (`NothingFollows`).
  Three of the open-source checks follow: `NetgenIsConclusive`
  and `MagicIsConclusive` assume that the records of a comparison are a list and
  count devices (`RecordsRead`); the first record that decides is found by its
  place, and that none does is the same from either end. `ExtractionIsBound`
  assumes that the binding was written with the database, of what the database
  was made from (`WrittenBinding`), and that the declared substrate is a net of
  the circuit.

The instances' invariants were checked by TLC before they were proved.

Model-checked only:

- liveness (`Expires`, `SessionEnds`, `WorkEnds`, `BatchEnds`, `AttemptEnds`):
  the prover has no rule for fairness, which speaks of `ENABLED`;
- `VerdictsHold` of `components` as a whole. Proved of it are the order of
  quality, the binding of an accepted run, every part of `InputsBound`, the
  verdicts of Netgen, Magic and the extraction, the logs of ngspice and HSPICE,
  the calibration and the damaged package. Checked only: rule decks with waivers,
  KLayout's comparison, GDS streams and geometry, extracted netlists, waveforms,
  Spectre's samples, native reports, what a package and an export contain. Most
  are folds or recursive functions over netlists, samples and geometry; what
  they compute for every input is an induction over data;
- `InferenceHolds` beside `GatewayHolds`, the truncation of streams, the
  failures read from CLIs and the record of a call, which are proved: the sums
  of `UsageAccounting` are folds over the calls.

## Not modelled, and what could follow

- The HTTP server, its parsing and authentication, the launching of services
  and containers, image preparation: input and output over third-party software.
- Rule decks, command files and configuration files that backends and adapters
  render: their meaning is the external tool's.
- OpenAccess import and export, substrate extraction, converter spectra, AC
  response measurements: numerical or geometric code whose errors are of
  precision, which these models leave out.
- Queries, tables, comparisons and the web views over results; readers of
  archived evidence; download of Datasets and rendering of documents: they keep
  no state and promise nothing beyond their output's form.

Theorems worth proving next: `AttemptsAddUp` and `SpentOnce` of
`UsageAccounting`, whose sums are folds, for call lists of any length;
`ExportFaithful` of `ResultPackage` for any set of references.
