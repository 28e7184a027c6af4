------------------------- MODULE SessionServiceProofs -------------------------
(***************************************************************************)
(* Proofs about SessionService for every set of keys and every bound. Its  *)
(* variables keep their types, a submission key has one receipt, and the   *)
(* result belongs to the last submission and never changes once it was     *)
(* told. A write acknowledged by a recoverable session survives: its       *)
(* effect and its reply are in the checkpoint before the client is told,   *)
(* and whatever a later life reads back holds both again. Commands, writes *)
(* and checkpoint jobs exclude one another, a rolled-back command leaves   *)
(* nothing behind, archive and record of a checkpoint agree, and no effect *)
(* takes place twice.                                                      *)
(***************************************************************************)
EXTENDS SessionService, TLAPS

-----------------------------------------------------------------------------
\* What the operators on session records return.

LEMMA AcceptType ==
  ASSUME NEW d \in SessionRecords, NEW entries \in SUBSET (DOMAIN journal),
         journal \in Seq(Submits \cup {None})
  PROVE  /\ Accept(d, entries) \in SessionRecords
         /\ Accept(d, entries).submissions = d.submissions \cup entries
         /\ Accept(d, entries).requests \cap Writes = d.requests \cap Writes
         /\ Accept(d, entries).report = d.report
<1> DEFINE keys == {journal[i] : i \in entries} \ {None}
<1>1. keys \subseteq Submits
  OBVIOUS
<1>2. entries \subseteq Nat
  OBVIOUS
<1>3. Accept(d, entries) = [d EXCEPT !.submissions = @ \cup entries, !.requests = @ \cup keys]
  BY DEF Accept
<1> HIDE DEF keys
<1>4. Accept(d, entries).requests = d.requests \cup keys
  BY <1>3 DEF SessionRecords
<1>5. Accept(d, entries) \in SessionRecords
  BY <1>1, <1>2, <1>3 DEF SessionRecords, Keys
<1>6. keys \cap Writes = {}
  BY <1>1, ServiceAssumption
<1>7. QED
  BY <1>3, <1>4, <1>5, <1>6 DEF SessionRecords

LEMMA CommitType ==
  ASSUME NEW d \in SessionRecords, NEW key \in Effects
  PROVE  /\ Commit(d, key) \in SessionRecords
         /\ Commit(d, key).submissions = d.submissions
         /\ Commit(d, key).requests = IF key \in Writes THEN d.requests \cup {key} ELSE d.requests
BY DEF Commit, SessionRecords, Effects, Keys, ExecStates

\* The updates of single fields that the actions make.
LEMMA FlagType ==
  ASSUME NEW d \in SessionRecords,
         NEW u \in {[d EXCEPT !.closing = TRUE], [d EXCEPT !.interrupted = TRUE],
                    [d EXCEPT !.interrupted = TRUE, !.checkpointError = TRUE]}
  PROVE  u \in SessionRecords /\ u.submissions = d.submissions /\ u.requests = d.requests
BY DEF SessionRecords

LEMMA ExecutionType ==
  ASSUME NEW d \in SessionRecords, NEW e \in Execs, NEW x \in ExecStates
  PROVE  LET u == [d EXCEPT !.executions[e] = x]
         IN  u \in SessionRecords /\ u.submissions = d.submissions /\ u.requests = d.requests
BY DEF SessionRecords

LEMMA RequestType ==
  ASSUME NEW d \in SessionRecords, NEW k \in Keys
  PROVE  LET u == [d EXCEPT !.requests = @ \cup {k}]
         IN  /\ u \in SessionRecords /\ u.submissions = d.submissions
             /\ u.requests = d.requests \cup {k}
BY DEF SessionRecords

LEMMA RestoredType ==
  ASSUME saved \in SessionRecords, snapshot \in Snapshots
  PROVE  /\ Restored \in SessionRecords
         /\ Restored.submissions = snapshot.state.submissions
         /\ Restored.requests \cap Writes = snapshot.state.requests \cap Writes
<1> DEFINE executions ==
      [e \in Execs |-> IF RolledBack(e) THEN "rolledback" ELSE snapshot.state.executions[e]]
<1>1. snapshot.state \in SessionRecords
  BY DEF Snapshots
<1>2. executions \in [Execs -> ExecStates]
  BY <1>1 DEF SessionRecords, ExecStates
<1>3. Restored = [snapshot.state EXCEPT !.executions = executions,
                    !.requests = @ \cup (saved.requests \cap Execs), !.interrupted = FALSE]
  BY <1>1 DEF Restored, SessionRecords
<1> HIDE DEF executions
<1>4. QED
  BY <1>1, <1>2, <1>3, ServiceAssumption DEF SessionRecords, Keys

LEMMA InterruptedType ==
  ASSUME saved \in SessionRecords
  PROVE  /\ Interrupted \in SessionRecords
         /\ Interrupted.submissions = saved.submissions
         /\ Interrupted.requests = saved.requests
<1> DEFINE executions ==
      [e \in Execs |-> IF saved.executions[e] = "running" THEN "error" ELSE saved.executions[e]]
<1>1. executions \in [Execs -> ExecStates]
  BY DEF SessionRecords, ExecStates
<1>2. Interrupted = [saved EXCEPT !.executions = executions, !.interrupted = TRUE]
  BY DEF Interrupted, SessionRecords
<1> HIDE DEF executions
<1>3. QED
  BY <1>1, <1>2 DEF SessionRecords

-----------------------------------------------------------------------------
\* Every record lists submissions of the journal only.
Projected ==
  /\ data.submissions \subseteq DOMAIN journal
  /\ saved.submissions \subseteq DOMAIN journal
  /\ snapshot.state.submissions \subseteq DOMAIN journal
  /\ job.stage # "idle" => job.frozen.submissions \subseteq DOMAIN journal

\* A job that runs has its record, and its archive once it is read.
JobShaped ==
  /\ job.stage # "idle" => job.key \in Effects /\ job.frozen \in SessionRecords
  /\ job.stage = "archived" => job.archive \in Workspaces

TypeInv == TypeOK /\ Projected /\ JobShaped

\* None is neither a record nor an outcome.
LEMMA NoneIsNoRecord == None \notin Outcomes
BY ServiceAssumption DEF Outcomes

LEMMA InitTypeInv == Init => TypeInv
<1> SUFFICES ASSUME Init PROVE TypeInv
  OBVIOUS
<1> USE DEF Init
<1>1. NewRecord \in SessionRecords /\ NewRecord.submissions = {}
  BY DEF NewRecord, SessionRecords, ExecStates
<1>2. NoFiles \in Workspaces
  BY DEF NoFiles, Workspaces
<1>3. TypeOK
  <2>1. /\ saved \in SessionRecords /\ data \in SessionRecords
        /\ snapshot \in Snapshots /\ files \in Workspaces
    BY <1>1, <1>2 DEF Snapshots
  <2>2. /\ journal \in Seq(Submits \cup {None})
        /\ run \in [phase : {"running", "stopped", "evaluating", "finished"}, candidate : Nat,
                    outcome : Outcomes \cup {None}]
    OBVIOUS
  <2>3. job \in [stage : {"idle", "archiving", "archived", "committed", "failed", "finishing"},
                 key : Effects \cup {None}, frozen : SessionRecords \cup {None},
                 archive : Workspaces \cup {None}]
    BY DEF Idle
  <2>4. collector \in [Execs -> CollectorStages] /\ cancelled \subseteq Execs
    BY DEF CollectorStages
  <2>5. /\ phase \in Budget!Phases /\ acked \subseteq Keys \cup {"close"}
        /\ told \in [submission : Nat, outcome : Outcomes] \cup {None}
        /\ crashes \in Nat /\ faults \in Nat
    BY DEF Budget!Phases
  <2>6. /\ up \in BOOLEAN /\ handler \in Submits \cup Execs \cup {"close", None}
        /\ workspace \in {"none", "live", "dead"}
        /\ worker \in {"serving", "stopped", "selected", "judging", "reporting", "failing", "gone"}
        /\ closeSent \in BOOLEAN /\ remoteClosed \in BOOLEAN
    OBVIOUS
  <2>7. QED
    BY <2>1, <2>2, <2>3, <2>4, <2>5, <2>6 DEF TypeOK
<1>4. Projected /\ JobShaped
  BY <1>1 DEF Projected, JobShaped, Idle
<1>5. QED
  BY <1>3, <1>4 DEF TypeInv

\* An effect applied to the workspace, and a job started for one.
LEMMA AppliedType ==
  ASSUME files \in Workspaces, NEW x \in Effects
  PROVE  /\ Applied(x) \in Workspaces
         /\ Applied(x)[x] > 0
         /\ \A y \in Effects : Applied(x)[y] >= files[y]
BY DEF Applied, Workspaces

LEMMA StartJobType ==
  ASSUME data \in SessionRecords, data.submissions \subseteq DOMAIN journal,
         NEW key \in Effects, StartJob(key)
  PROVE  /\ job' \in [stage : {"idle", "archiving", "archived", "committed", "failed", "finishing"},
                      key : Effects \cup {None}, frozen : SessionRecords \cup {None},
                      archive : Workspaces \cup {None}]
         /\ job'.stage = "archiving" /\ job'.key = key
         /\ job'.frozen = Commit(data, key) /\ job'.frozen \in SessionRecords
         /\ job'.frozen.submissions = data.submissions
BY CommitType DEF StartJob

\* The most recent submission of a record that lists the whole journal.
LEMMA LatestType ==
  ASSUME NEW d \in SessionRecords, journal \in Seq(Submits \cup {None}),
         d.submissions = DOMAIN journal, d.submissions # {}
  PROVE  Latest(d) \in Nat /\ Latest(d) = Len(journal)
<1>1. Len(journal) \in d.submissions /\ \A m \in d.submissions : m <= Len(journal)
  OBVIOUS
<1>2. Latest(d) \in d.submissions /\ \A m \in d.submissions : m <= Latest(d)
  BY <1>1 DEF Latest
<1>3. QED
  BY <1>1, <1>2

LEMMA TellType ==
  ASSUME NEW d \in SessionRecords, journal \in Seq(Submits \cup {None}),
         d.submissions = DOMAIN journal,
         told \in [submission : Nat, outcome : Outcomes] \cup {None}, Tell(d)
  PROVE  told' \in [submission : Nat, outcome : Outcomes] \cup {None}
<1>1. CASE Status(d) = "complete" /\ d.submissions # {}
  <2>1. d.report \in Outcomes
    BY <1>1 DEF Status, SessionRecords
  <2>2. Latest(d) \in Nat
    BY <1>1, LatestType
  <2>3. told' = [submission |-> Latest(d), outcome |-> d.report]
    BY <1>1 DEF Tell
  <2>4. QED
    BY <2>1, <2>2, <2>3
<1>2. CASE ~(Status(d) = "complete" /\ d.submissions # {})
  BY <1>2 DEF Tell
<1>3. QED
  BY <1>1, <1>2

\* A dispatch only ever adds to the journal.
LEMMA DispatchType ==
  ASSUME journal \in Seq(Submits \cup {None}), NEW key \in Submits \cup {None}, Dispatch(key)
  PROVE  /\ journal' \in Seq(Submits \cup {None})
         /\ DOMAIN journal \subseteq DOMAIN journal'
<1>1. CASE journal' = Append(journal, key)
  BY <1>1
<1>2. CASE UNCHANGED journal
  BY <1>2
<1>3. QED
  BY <1>1, <1>2 DEF Dispatch

\* What a handler's answer makes of the record.
LEMMA RespondType ==
  ASSUME TypeOK, Respond
  PROVE  /\ data' \in SessionRecords /\ saved' = data'
         /\ data'.submissions \subseteq data.submissions \cup DOMAIN journal
         /\ data'.requests \cap Writes = data.requests \cap Writes
<1> USE DEF TypeOK
<1>1. CASE handler \in Submits
  <2>1. data' = Accept(data, EntriesOf(handler)) /\ saved' = data'
    BY <1>1, ServiceAssumption DEF Respond
  <2>2. EntriesOf(handler) \subseteq DOMAIN journal
    BY DEF EntriesOf
  <2>3. QED
    BY <2>1, <2>2, AcceptType
<1>2. CASE handler \in Execs
  <2>1. data' = [data EXCEPT !.requests = @ \cup {handler}] /\ saved' = data'
    BY <1>2, ServiceAssumption DEF Respond
  <2>2. /\ data' \in SessionRecords /\ data'.submissions = data.submissions
        /\ data'.requests = data.requests \cup {handler}
    BY <1>2, <2>1, RequestType DEF Keys
  <2>3. QED
    BY <1>2, <2>1, <2>2, ServiceAssumption
<1>3. CASE handler = "close"
  BY <1>3, ServiceAssumption DEF Respond, Keys
<1>4. QED
  BY <1>1, <1>2, <1>3 DEF Respond

-----------------------------------------------------------------------------
\* Every action keeps the type invariant: the handlers, ...
LEMMA HandlerTypeInv ==
  ASSUME TypeInv, Handler
  PROVE  TypeInv'
<1> USE DEF TypeInv, TypeOK, Projected, JobShaped
<1>1. ASSUME NEW w \in Writes, Write(w) PROVE TypeInv'
  <2>1. w \in Effects
    BY DEF Effects
  <2>2. CASE Recoverable
    BY <1>1, <2>1, <2>2, AppliedType, StartJobType DEF Write, session, history
  <2>3. CASE ~Recoverable
    <3>1. /\ data' \in SessionRecords /\ data'.submissions = data.submissions
          /\ saved' = data'
      BY <1>1, <2>1, <2>3, CommitType DEF Write
    <3>2. files' \in Workspaces /\ acked' \subseteq Keys \cup {"close"}
      BY <1>1, <2>1, <2>3, AppliedType DEF Write, Keys
    <3>3. QED
      BY <1>1, <2>3, <3>1, <3>2 DEF Write, session
  <2>4. QED
    BY <2>2, <2>3
<1>2. ASSUME NEW w \in Writes, WriteUnconfirmed(w) PROVE TypeInv'
  BY <1>2, AppliedType DEF WriteUnconfirmed, Effects, durable, session, Fault
<1>4. ASSUME NEW s \in Submits, Submit(s) PROVE TypeInv'
  BY <1>4, DispatchType DEF Submit, session, history
<1>5. ASSUME NEW s \in Submits, SubmitUnconfirmed(s) PROVE TypeInv'
  BY <1>5, DispatchType DEF SubmitUnconfirmed, session, Fault
<1>6. ASSUME NEW e \in Execs, Execute(e) PROVE TypeInv'
  <2>1. data' \in SessionRecords /\ data'.submissions = data.submissions
    <3>1. data' = [data EXCEPT !.executions[e] = "running"]
      BY <1>6 DEF Execute
    <3>2. QED
      BY <3>1, ExecutionType DEF ExecStates
  <2>2. collector' \in [Execs -> CollectorStages]
    BY <1>6 DEF Execute, CollectorStages
  <2>3. phase' \in Budget!Phases
    BY <1>6 DEF Execute, Budget!Begin
  <2>4. QED
    BY <1>6, <2>1, <2>2, <2>3 DEF Execute, durable, session, history
<1>7. ASSUME NEW e \in Execs, Cancel(e) PROVE TypeInv'
  BY <1>7 DEF Cancel, durable, session, history
<1>8. ASSUME CloseSession(data)
      PROVE  /\ cancelled' \subseteq Execs
             /\ workspace' = workspace /\ worker' = worker
             /\ closeSent' \in BOOLEAN /\ remoteClosed' \in BOOLEAN
  BY <1>8 DEF CloseSession, SendClose, session, Running
<1>9. CASE Close
  <2>1. data' \in SessionRecords /\ data'.submissions = data.submissions
    <3>1. data' = [data EXCEPT !.closing = TRUE]
      BY <1>9 DEF Close
    <3>2. QED
      BY <3>1, FlagType
  <2>2. /\ cancelled' \subseteq Execs
        /\ workspace' = workspace /\ worker' = worker
        /\ closeSent' \in BOOLEAN /\ remoteClosed' \in BOOLEAN
    BY <1>9, <1>8 DEF Close, session
  <2>3. QED
    BY <1>9, <2>1, <2>2 DEF Close, durable, history
<1>10. CASE CloseUnsent
  <2>1. data' \in SessionRecords /\ data'.submissions = data.submissions
    <3>1. data' = [data EXCEPT !.closing = TRUE]
      BY <1>10 DEF CloseUnsent
    <3>2. QED
      BY <3>1, FlagType
  <2>2. QED
    BY <1>10, <2>1 DEF CloseUnsent, durable, session, Fault
<1>11. CASE Respond
  <2>1. data' \in SessionRecords /\ data'.submissions \subseteq DOMAIN journal
    BY <1>11, RespondType
  <2>2. acked' \subseteq Keys \cup {"close"}
    BY <1>11 DEF Respond, Keys
  <2>3. QED
    BY <1>11, <2>1, <2>2, RespondType DEF Respond, session
<1>12. QED
  BY <1>1, <1>2, <1>4, <1>5, <1>6, <1>7, <1>9, <1>10, <1>11, Handler DEF Handler

\* ... the in-container helper and the checkpoint job, ...
LEMMA HelperTypeInv ==
  ASSUME TypeInv, HelperSubmit
  PROVE  TypeInv'
<1> USE DEF TypeInv, TypeOK, Projected, JobShaped
<1>1. /\ journal' \in Seq(Submits \cup {None})
      /\ DOMAIN journal \subseteq DOMAIN journal'
  BY DispatchType DEF HelperSubmit
<1>2. QED
  BY <1>1 DEF HelperSubmit, session, history

LEMMA JobTypeInv ==
  ASSUME TypeInv, Job
  PROVE  TypeInv'
<1> USE DEF TypeInv, TypeOK, Projected, JobShaped
<1>1. CASE JobArchive
  <2>1. job' \in [stage : {"idle", "archiving", "archived", "committed", "failed", "finishing"},
                 key : Effects \cup {None}, frozen : SessionRecords \cup {None},
                 archive : Workspaces \cup {None}]
    BY <1>1 DEF JobArchive
  <2>2. job'.archive \in Workspaces /\ job'.frozen = job.frozen /\ job'.key = job.key
    BY <1>1 DEF JobArchive
  <2>3. QED
    BY <1>1, <2>1, <2>2 DEF JobArchive, durable, session, history
<1>2. CASE JobFail
  <2>1. /\ job' = [job EXCEPT !.stage = "failed"] /\ job.stage # "idle"
        /\ UNCHANGED <<durable, up, data, handler, session, files, collector, cancelled, phase,
                       acked, told, crashes>>
        /\ faults' \in Nat
    BY <1>2 DEF JobFail, Fault
  <2>2. /\ job' \in [stage : {"idle", "archiving", "archived", "committed", "failed", "finishing"},
                    key : Effects \cup {None}, frozen : SessionRecords \cup {None},
                    archive : Workspaces \cup {None}]
        /\ job'.stage = "failed" /\ job'.key = job.key /\ job'.frozen = job.frozen
    BY <2>1
  <2>3. QED
    BY <2>1, <2>2 DEF durable, session
<1>3. CASE JobManifest
  <2>1. snapshot' \in Snapshots /\ snapshot'.state.submissions \subseteq DOMAIN journal
    BY <1>3, ServiceAssumption DEF JobManifest, Snapshots
  <2>2. QED
    BY <1>3, <2>1 DEF JobManifest, session, history
<1>4. CASE JobCommit
  <2>1. data' \in SessionRecords /\ data'.submissions = data.submissions
    <3>1. CASE job.stage = "committed"
      BY <1>4, <3>1, CommitType DEF JobCommit
    <3>2. CASE job.stage = "failed"
      <4>1. data' = [data EXCEPT !.interrupted = TRUE, !.checkpointError = TRUE]
        BY <1>4, <3>2 DEF JobCommit
      <4>2. QED
        BY <4>1, FlagType
    <3>3. QED
      BY <1>4, <3>1, <3>2 DEF JobCommit
  <2>2. acked' \subseteq Keys \cup {"close"}
    BY <1>4 DEF JobCommit, Keys
  <2>3. QED
    BY <1>4, <2>1, <2>2 DEF JobCommit, session
<1>5. CASE JobFinish
  <2>1. /\ cancelled' \subseteq Execs
        /\ workspace' = workspace /\ worker' = worker
        /\ closeSent' \in BOOLEAN /\ remoteClosed' \in BOOLEAN
    BY <1>5 DEF JobFinish, CloseSession, SendClose, session, Running
  <2>2. QED
    BY <1>5, <2>1 DEF JobFinish, Idle, durable, history
<1>6. QED
  BY <1>1, <1>2, <1>3, <1>4, <1>5, Job DEF Job

\* ... the commands and their collectors, ...
LEMMA ExecutionTypeInv ==
  ASSUME TypeInv, NEW e \in Execs, Execution(e)
  PROVE  TypeInv'
<1> USE DEF TypeInv, TypeOK, Projected, JobShaped
<1>1. CASE ExecutionWorks(e)
  <2>1. collector' \in [Execs -> CollectorStages] /\ files' \in Workspaces
    BY <1>1, AppliedType DEF ExecutionWorks, CollectorStages, Effects
  <2>2. QED
    BY <1>1, <2>1 DEF ExecutionWorks, durable, session, history
<1>2. CASE ExecutionExits(e)
  <2>1. collector' \in [Execs -> CollectorStages] /\ phase' \in Budget!Phases
    BY <1>2 DEF ExecutionExits, CollectorStages, Budget!End
  <2>2. QED
    BY <1>2, <2>1 DEF ExecutionExits, durable, session, history
<1>3. CASE CollectorCompletes(e)
  <2>1. collector' \in [Execs -> CollectorStages] /\ e \in Effects
    BY <1>3 DEF CollectorCompletes, CollectorStages, Effects
  <2>2. CASE Recoverable /\ Busy
    BY <1>3, <2>1, <2>2 DEF CollectorCompletes, session, history
  <2>3. CASE Recoverable /\ ~Busy
    BY <1>3, <2>1, <2>3, StartJobType DEF CollectorCompletes, session, history
  <2>4. CASE ~Recoverable
    <3>1. data' = Commit(data, e) /\ saved' = data' /\ job' = job
      BY <1>3, <2>4 DEF CollectorCompletes
    <3>2. data' \in SessionRecords /\ data'.submissions = data.submissions
      BY <2>1, <3>1, CommitType
    <3>3. QED
      BY <1>3, <2>1, <2>4, <3>1, <3>2 DEF CollectorCompletes, session, history
  <2>5. QED
    BY <2>2, <2>3, <2>4
<1>4. CASE CollectorObserves(e)
  <2>1. /\ data' \in SessionRecords /\ data'.submissions = data.submissions
        /\ saved' = data'
    <3>1. /\ saved' = data'
          /\ data' = data \/ data' = [data EXCEPT !.executions[e] = "error"]
      BY <1>4 DEF CollectorObserves
    <3>2. CASE data' = [data EXCEPT !.executions[e] = "error"]
      BY <3>1, <3>2, ExecutionType DEF ExecStates
    <3>3. QED
      BY <3>1, <3>2
  <2>2. collector' \in [Execs -> CollectorStages]
    BY <1>4 DEF CollectorObserves, CollectorStages
  <2>3. QED
    BY <1>4, <2>1, <2>2 DEF CollectorObserves, session, history
<1>5. CASE CollectorLeaves(e)
  <2>1. collector' \in [Execs -> CollectorStages]
    BY <1>5 DEF CollectorLeaves, CollectorStages
  <2>2. /\ workspace' = workspace /\ worker' = worker
        /\ closeSent' \in BOOLEAN /\ remoteClosed' \in BOOLEAN
    BY <1>5 DEF CollectorLeaves, SendClose, session
  <2>3. QED
    BY <1>5, <2>1, <2>2 DEF CollectorLeaves, durable, history
<1>6. QED
  BY <1>1, <1>2, <1>3, <1>4, <1>5 DEF Execution

\* ... the evaluator thread, ...
LEMMA WorkerTypeInv ==
  ASSUME TypeInv, Worker
  PROVE  TypeInv'
<1> USE DEF TypeInv, TypeOK, Projected, JobShaped
<1>1. CASE WorkerStops
  BY <1>1 DEF WorkerStops, durable, Fault
<1>2. CASE SaveStopped
  <2>1. run' \in [phase : {"running", "stopped", "evaluating", "finished"}, candidate : Nat,
                  outcome : Outcomes \cup {None}]
    <3>1. Len(journal) \in Nat
      OBVIOUS
    <3>2. QED
      BY <1>2, <3>1 DEF SaveStopped
  <2>2. QED
    BY <1>2, <2>1 DEF SaveStopped, history
<1>3. CASE StartEvaluation
  BY <1>3 DEF StartEvaluation, history
<1>4. CASE RunFails
  BY <1>4 DEF RunFails, durable, Fault
<1>5. ASSUME NEW outcome \in Outcomes, FinishRun(outcome) PROVE TypeInv'
  <2>1. run' \in [phase : {"running", "stopped", "evaluating", "finished"}, candidate : Nat,
                  outcome : Outcomes \cup {None}]
    BY <1>5 DEF FinishRun
  <2>2. QED
    BY <1>5, <2>1 DEF FinishRun, history
<1>6. CASE Completed
  <2> DEFINE reported == [data EXCEPT !.report = run.outcome]
  <2>1. reported \in SessionRecords /\ reported.submissions = data.submissions
    BY DEF SessionRecords
  <2>2. data' = Accept(reported, DOMAIN journal) /\ saved' = data'
    BY <1>6 DEF Completed
  <2> HIDE DEF reported
  <2>3. data' \in SessionRecords /\ data'.submissions = DOMAIN journal
    <3>1. data.submissions \subseteq DOMAIN journal
      OBVIOUS
    <3>2. /\ Accept(reported, DOMAIN journal) \in SessionRecords
          /\ Accept(reported, DOMAIN journal).submissions
               = reported.submissions \cup DOMAIN journal
      BY <2>1, AcceptType
    <3>3. QED
      BY <2>1, <2>2, <3>1, <3>2
  <2>4. told' \in [submission : Nat, outcome : Outcomes] \cup {None}
    BY <1>6, <2>3, TellType DEF Completed
  <2>5. QED
    BY <1>6, <2>2, <2>3, <2>4 DEF Completed
<1>7. CASE Failed
  <2>1. /\ data' \in SessionRecords /\ data'.submissions = data.submissions
        /\ saved' = data'
    <3>1. data' = [data EXCEPT !.interrupted = TRUE] /\ saved' = data'
      BY <1>7 DEF Failed
    <3>2. QED
      BY <3>1, FlagType
  <2>2. QED
    BY <1>7, <2>1 DEF Failed, history
<1>8. QED
  BY <1>1, <1>2, <1>3, <1>4, <1>5, <1>6, <1>7, Worker DEF Worker

\* What a restart reads back.
LEMMA ReconciledType ==
  ASSUME TypeInv
  PROVE  /\ Reconciled \in SessionRecords
         /\ Reconciled.submissions = DOMAIN journal
         /\ Reconciled.requests \cap Writes =
              IF ~Finished /\ Resumable THEN snapshot.state.requests \cap Writes
              ELSE saved.requests \cap Writes
<1> USE DEF TypeInv, TypeOK, Projected
<1> DEFINE base == IF Finished THEN [saved EXCEPT !.report = run.outcome]
                   ELSE IF Resumable THEN Restored ELSE Interrupted
<1>1. Reconciled = Accept(base, DOMAIN journal)
  BY DEF Reconciled
<1>2. /\ base \in SessionRecords /\ base.submissions \subseteq DOMAIN journal
      /\ base.requests \cap Writes =
           IF ~Finished /\ Resumable THEN snapshot.state.requests \cap Writes
           ELSE saved.requests \cap Writes
  <2>1. CASE Finished
    <3>1. base = [saved EXCEPT !.report = run.outcome]
      BY <2>1
    <3>2. QED
      BY <2>1, <3>1 DEF SessionRecords
  <2>2. CASE ~Finished /\ Resumable
    BY <2>2, RestoredType
  <2>3. CASE ~Finished /\ ~Resumable
    BY <2>3, InterruptedType
  <2>4. QED
    BY <2>1, <2>2, <2>3
<1> HIDE DEF base
<1>3. /\ Accept(base, DOMAIN journal) \in SessionRecords
      /\ Accept(base, DOMAIN journal).submissions = base.submissions \cup DOMAIN journal
      /\ Accept(base, DOMAIN journal).requests \cap Writes = base.requests \cap Writes
  BY <1>2, AcceptType
<1>4. QED
  BY <1>1, <1>2, <1>3

\* ... and the crash, the restart and the clock.
LEMMA LifeTypeInv ==
  ASSUME TypeInv, Crash \/ Restart \/ Advance
  PROVE  TypeInv'
<1> USE DEF TypeInv, TypeOK, Projected, JobShaped
<1>1. CASE Crash
  <2>1. files' \in Workspaces /\ collector' \in [Execs -> CollectorStages]
    BY <1>1 DEF Crash, NoFiles, Workspaces, CollectorStages
  <2>2. phase' \in Budget!Phases
    BY <1>1 DEF Crash, Budget!Phases
  <2>3. job' \in [stage : {"idle", "archiving", "archived", "committed", "failed", "finishing"},
                 key : Effects \cup {None}, frozen : SessionRecords \cup {None},
                 archive : Workspaces \cup {None}] /\ job'.stage = "idle"
    BY <1>1 DEF Crash, Idle
  <2>4. UNCHANGED durable /\ data' = saved
    BY <1>1 DEF Crash
  <2>5. Projected' /\ JobShaped'
    BY <2>3, <2>4 DEF durable
  <2>6. /\ up' \in BOOLEAN /\ handler' \in Submits \cup Execs \cup {"close", None}
        /\ workspace' \in {"none", "live", "dead"}
        /\ worker' \in {"serving", "stopped", "selected", "judging", "reporting", "failing",
                       "gone"}
        /\ closeSent' \in BOOLEAN /\ remoteClosed' \in BOOLEAN /\ cancelled' \subseteq Execs
    BY <1>1 DEF Crash
  <2>7. /\ acked' = acked /\ told' = told /\ faults' = faults /\ crashes' \in Nat
    BY <1>1 DEF Crash
  <2>8. TypeOK'
    BY <2>1, <2>2, <2>3, <2>4, <2>6, <2>7 DEF durable
  <2>9. QED
    BY <2>5, <2>8
<1>2. CASE RestartClosed
  <2>1. data' = Reconciled /\ saved' = Reconciled
    BY <1>2 DEF RestartClosed
  <2>2. told' \in [submission : Nat, outcome : Outcomes] \cup {None}
    BY <1>2, <2>1, ReconciledType, TellType DEF RestartClosed
  <2>3. QED
    BY <1>2, <2>1, <2>2, ReconciledType DEF RestartClosed, session
<1>3. CASE RestartResumes
  <2>1. data' = Reconciled /\ saved' = Reconciled
    BY <1>3 DEF RestartResumes
  <2>2. snapshot' \in Snapshots /\ snapshot'.state = Reconciled /\ files' \in Workspaces
    BY <1>3, <2>1, ReconciledType DEF RestartResumes, Snapshots
  <2>3. QED
    BY <1>3, <2>1, <2>2, ReconciledType DEF RestartResumes, history
<1>4. CASE RestartRefused
  <2>1. data' = [Reconciled EXCEPT !.interrupted = TRUE] /\ saved' = data'
    BY <1>4 DEF RestartRefused
  <2>2. data' \in SessionRecords /\ data'.submissions = DOMAIN journal
    BY <2>1, ReconciledType DEF SessionRecords
  <2>3. QED
    BY <1>4, <2>1, <2>2 DEF RestartRefused, session, Fault
<1>5. CASE Advance
  BY <1>5 DEF Advance, Budget!Advance, durable, session, history
<1>6. QED
  BY <1>1, <1>2, <1>3, <1>4, <1>5 DEF Restart

LEMMA StepTypeInv == TypeInv /\ [Next]_vars => TypeInv'
<1> SUFFICES ASSUME TypeInv, [Next]_vars PROVE TypeInv'
  OBVIOUS
<1>1. CASE UNCHANGED vars
  BY <1>1 DEF vars, durable, session, history, TypeInv, TypeOK, Projected, JobShaped
<1>2. CASE Next
  BY <1>2, HandlerTypeInv, HelperTypeInv, JobTypeInv, ExecutionTypeInv, WorkerTypeInv,
     LifeTypeInv DEF Next
<1>3. QED
  BY <1>1, <1>2

THEOREM ServiceTypeInv == Spec => []TypeInv
BY InitTypeInv, StepTypeInv, PTL DEF Spec

\* The variables of the service keep their types, whatever the sets of keys.
THEOREM ServiceTypeOK == Spec => []TypeOK
<1>1. TypeInv => TypeOK
  BY DEF TypeInv
<1>2. QED
  BY <1>1, ServiceTypeInv, PTL

-----------------------------------------------------------------------------
\* The journal lists a key once, and every acknowledged one.
KeysUnique ==
  \A i, j \in DOMAIN journal : journal[i] = journal[j] => i = j \/ journal[i] = None

Journalled ==
  /\ handler \in Submits => \E i \in DOMAIN journal : journal[i] = handler
  /\ \A s \in acked \cap Submits :
       \E i \in DOMAIN journal : journal[i] = s /\ (up => i \in data.submissions)

\* run.json is as far as the evaluator thread that writes it, ...
RunFollowsWorker ==
  /\ worker \in {"serving", "stopped"} => run.phase = "running"
  /\ worker = "selected" => run.phase = "stopped"
  /\ worker = "judging" => run.phase = "evaluating"
  /\ worker = "reporting" => run.phase = "finished"

\* ... the candidate it names once it was selected is the last submission, ...
Selected == run.phase # "running" => run.candidate = Len(journal)

\* ... and a record with a report has the report and all submissions of a
\* finished run, ...
Backed(d) ==
  d.report # None => Finished /\ d.report = run.outcome /\ d.submissions = DOMAIN journal

Reported ==
  /\ Backed(data) /\ Backed(saved) /\ Backed(snapshot.state)
  /\ Busy => Backed(job.frozen)

\* ... which is what clients were told, and what every later life reports.
ToldFinished ==
  told # None =>
    /\ Finished /\ journal # <<>>
    /\ told = [submission |-> Len(journal), outcome |-> run.outcome]
    /\ told.outcome # "error"
    /\ up => data.report = run.outcome

ResultInv ==
  TypeInv /\ KeysUnique /\ Journalled /\ RunFollowsWorker /\ Selected /\ Reported /\ ToldFinished


\* A record keeps its report and loses no submission.
Continues(c, d) == c.report = d.report /\ d.submissions \subseteq c.submissions

\* Most steps neither write run.json nor tell a result: the evaluator at most
\* ends, the journal at most grows by a dispatch, and records continue others.
Routine ==
  /\ UNCHANGED <<run, told>>
  /\ worker' \in {worker, "failing", "gone"} \/ (worker = "serving" /\ worker' = "stopped")
  /\ UNCHANGED journal \/ \E key \in Submits \cup {None} : Dispatch(key)
  /\ handler' \in Submits => handler' = handler \/ Dispatch(handler')
  /\ \A s \in acked' \cap Submits :
       s \in acked \/ (s = handler /\ EntriesOf(s) \subseteq data'.submissions)
  /\ up' => up /\ Continues(data', data)
  /\ Continues(data', data) \/ Continues(data', saved)
  /\ Continues(saved', data) \/ Continues(saved', saved)
  /\ snapshot'.state \in {snapshot.state} \cup (IF Busy THEN {job.frozen} ELSE {})
  /\ Busy' => (Busy /\ job'.frozen = job.frozen) \/ Continues(job'.frozen, data)

\* A dispatch keeps what the journal lists and adds its key at most once.
LEMMA DispatchKeys ==
  ASSUME TypeInv, KeysUnique, NEW key \in Submits \cup {None}, Dispatch(key)
  PROVE  /\ KeysUnique'
         /\ \A i \in DOMAIN journal : i \in DOMAIN journal' /\ journal'[i] = journal[i]
         /\ key # None => \E i \in DOMAIN journal' : journal'[i] = key
         /\ worker = "serving"
<1> USE DEF TypeInv, TypeOK, KeysUnique, Dispatch
<1>1. CASE key # None /\ \E i \in DOMAIN journal : journal[i] = key
  BY <1>1
<1>2. CASE /\ journal' = Append(journal, key)
           /\ ~(key # None /\ \E i \in DOMAIN journal : journal[i] = key)
  <2>1. /\ DOMAIN journal' = DOMAIN journal \cup {Len(journal) + 1}
        /\ Len(journal) + 1 \notin DOMAIN journal
        /\ \A i \in DOMAIN journal : journal'[i] = journal[i]
        /\ journal'[Len(journal) + 1] = key
    BY <1>2
  <2>2. QED
    BY <1>2, <2>1
<1>3. QED
  BY <1>1, <1>2

\* Whatever a routine step is, receipts and result stay what they were.
LEMMA RoutineJournal ==
  ASSUME ResultInv, Routine
  PROVE  /\ KeysUnique' /\ Journalled'
         /\ UNCHANGED journal \/ worker = "serving"
<1> USE DEF ResultInv
<1>1. /\ KeysUnique'
      /\ \A i \in DOMAIN journal : i \in DOMAIN journal' /\ journal'[i] = journal[i]
      /\ UNCHANGED journal \/ worker = "serving"
  <2>1. CASE UNCHANGED journal
    BY <2>1 DEF KeysUnique
  <2>2. CASE \E key \in Submits \cup {None} : Dispatch(key)
    BY <2>2, DispatchKeys
  <2>3. QED
    BY <2>1, <2>2 DEF Routine
<1>2. handler' \in Submits => \E i \in DOMAIN journal' : journal'[i] = handler'
  <2>1. CASE handler' = handler
    BY <2>1, <1>1 DEF Journalled
  <2>2. CASE handler' \in Submits /\ Dispatch(handler')
    <3>1. handler' # None
      BY <2>2, ServiceAssumption DEF Keys
    <3>2. QED
      BY <2>2, <3>1, DispatchKeys
  <2>3. QED
    BY <2>1, <2>2 DEF Routine
<1>3. ASSUME NEW s \in acked' \cap Submits
      PROVE  \E i \in DOMAIN journal' : journal'[i] = s /\ (up' => i \in data'.submissions)
  <2>1. CASE s \in acked
    <3>1. PICK i \in DOMAIN journal : journal[i] = s /\ (up => i \in data.submissions)
      BY <2>1 DEF Journalled
    <3>2. QED
      BY <3>1, <1>1 DEF Routine, Continues
  <2>2. CASE s = handler /\ EntriesOf(s) \subseteq data'.submissions
    <3>1. PICK i \in DOMAIN journal : journal[i] = s
      BY <2>2 DEF Journalled
    <3>2. i \in EntriesOf(s)
      BY <3>1 DEF EntriesOf
    <3>3. QED
      BY <2>2, <3>1, <3>2, <1>1
  <2>3. QED
    BY <2>1, <2>2 DEF Routine
<1>4. QED
  BY <1>1, <1>2, <1>3 DEF Journalled

LEMMA RoutineResultInv ==
  ASSUME ResultInv, TypeInv', Routine
  PROVE  ResultInv'
<1> USE DEF ResultInv
<1>1. KeysUnique' /\ Journalled' /\ (UNCHANGED journal \/ worker = "serving")
  BY RoutineJournal
<1>2. RunFollowsWorker'
  BY DEF Routine, RunFollowsWorker
<1>3. Finished => UNCHANGED journal /\ Finished'
  BY <1>1 DEF Routine, RunFollowsWorker, Finished
<1>4. Selected'
  BY <1>1, <1>2 DEF Routine, Selected, RunFollowsWorker
<1>5. Reported'
  <2>1. /\ data'.submissions \subseteq DOMAIN journal'
        /\ saved'.submissions \subseteq DOMAIN journal'
        /\ snapshot'.state.submissions \subseteq DOMAIN journal'
        /\ Busy' => job'.frozen.submissions \subseteq DOMAIN journal'
    BY DEF TypeInv, Projected, Busy
  <2>2. Backed(data)'
    BY <1>3, <2>1 DEF Routine, Reported, Backed, Continues
  <2>3. Backed(saved)'
    BY <1>3, <2>1 DEF Routine, Reported, Backed, Continues
  <2>4. Backed(snapshot.state)'
    BY <1>3, <2>1 DEF Routine, Reported, Backed
  <2>5. Busy' => Backed(job.frozen)'
    BY <1>3, <2>1 DEF Routine, Reported, Backed, Continues
  <2>6. QED
    BY <2>2, <2>3, <2>4, <2>5 DEF Reported
<1>6. ToldFinished'
  BY <1>3 DEF Routine, ToldFinished, Continues, Finished
<1>7. QED
  BY <1>1, <1>2, <1>4, <1>5, <1>6

\* The routine steps: the handlers and the in-container helper, ...
LEMMA HandlerRoutine ==
  ASSUME ResultInv, Handler \/ HelperSubmit
  PROVE  Routine
<1> USE DEF ResultInv, TypeInv, TypeOK, Routine, Continues, Busy
<1>1. ASSUME NEW w \in Writes, Write(w) PROVE Routine
  <2>1. w \in Effects /\ w \notin Submits
    BY ServiceAssumption DEF Effects
  <2>2. CASE Recoverable
    <3>1. Continues(job'.frozen, data)
      BY <1>1, <2>1, <2>2, CommitType, StartJobType DEF Write, StartJob, Commit, SessionRecords
    <3>2. QED
      BY <1>1, <2>1, <2>2, <3>1 DEF Write, session, Admitted, Free
  <2>3. CASE ~Recoverable
    <3>1. Continues(data', data) /\ saved' = data'
      BY <1>1, <2>1, <2>3 DEF Write, Commit, SessionRecords
    <3>2. QED
      BY <1>1, <2>1, <2>3, <3>1 DEF Write, session, Admitted, Free
  <2>4. QED
    BY <2>2, <2>3
<1>2. ASSUME NEW w \in Writes, WriteUnconfirmed(w) PROVE Routine
  BY <1>2 DEF WriteUnconfirmed, Admitted, Free, durable, session
<1>3. ASSUME NEW s \in Submits, Submit(s) \/ SubmitUnconfirmed(s) PROVE Routine
  BY <1>3 DEF Submit, SubmitUnconfirmed, Admitted, Free, session, history
<1>4. ASSUME NEW e \in Execs, Execute(e) PROVE Routine
  <2>1. Continues(data', data)
    BY <1>4 DEF Execute, SessionRecords
  <2>2. e \notin Submits
    BY ServiceAssumption
  <2>3. QED
    BY <1>4, <2>1, <2>2 DEF Execute, Admitted, Free, durable, session, history
<1>5. ASSUME NEW e \in Execs, Cancel(e) PROVE Routine
  BY <1>5 DEF Cancel, Free, durable, session, history
<1>6. CASE Close
  <2>1. Continues(data', data)
    BY <1>6 DEF Close, SessionRecords
  <2>2. worker' = worker
    BY <1>6 DEF Close, CloseSession, SendClose, session
  <2>3. "close" \notin Submits
    BY ServiceAssumption DEF Keys
  <2>4. QED
    BY <1>6, <2>1, <2>2, <2>3 DEF Close, Closable, Free, durable, history
<1>7. CASE CloseUnsent
  <2>1. Continues(data', data)
    BY <1>7 DEF CloseUnsent, SessionRecords
  <2>2. QED
    BY <1>7, <2>1 DEF CloseUnsent, Closable, Free, durable, session
<1>8. CASE Respond
  <2>1. /\ Continues(data', data)
        /\ handler \in Submits => EntriesOf(handler) \subseteq data'.submissions
    <3>1. CASE handler \in Submits
      <4>1. data' = Accept(data, EntriesOf(handler))
        BY <1>8, <3>1, ServiceAssumption DEF Respond
      <4>2. EntriesOf(handler) \subseteq DOMAIN journal
        BY DEF EntriesOf
      <4>3. QED
        BY <4>1, <4>2, AcceptType
    <3>2. CASE handler \notin Submits
      BY <1>8, <3>2 DEF Respond, SessionRecords
    <3>3. QED
      BY <3>1, <3>2
  <2>2. None \notin Submits
    BY ServiceAssumption DEF Keys
  <2>3. QED
    BY <1>8, <2>1, <2>2 DEF Respond, session
<1>9. CASE HelperSubmit
  BY <1>9 DEF HelperSubmit, session, history
<1>10. QED
  BY <1>1, <1>2, <1>3, <1>4, <1>5, <1>6, <1>7, <1>8, <1>9 DEF Handler

\* ... the checkpoint job and the collectors, ...
LEMMA JobRoutine ==
  ASSUME ResultInv, Job
  PROVE  Routine
<1> USE DEF ResultInv, TypeInv, TypeOK, Routine, Continues, Busy
<1>1. CASE JobArchive \/ JobFail
  <2>1. /\ job'.stage # "idle" => job.stage # "idle" /\ job'.frozen = job.frozen
        /\ UNCHANGED <<durable, up, data, handler, session, acked, told>>
    BY <1>1 DEF JobArchive, JobFail, history
  <2>2. QED
    BY <2>1 DEF durable, session
<1>2. CASE JobManifest
  BY <1>2 DEF JobManifest, session, history
<1>3. CASE JobCommit
  <2>1. Continues(data', data)
    <3>1. CASE job.stage = "committed"
      <4>1. data' = Commit(data, job.key) /\ job.key \in Effects
        BY <1>3, <3>1 DEF JobCommit, JobShaped
      <4>2. QED
        BY <4>1 DEF Commit, SessionRecords
    <3>2. CASE job.stage # "committed"
      BY <1>3, <3>2 DEF JobCommit, SessionRecords
    <3>3. QED
      BY <3>1, <3>2
  <2>2. acked' \cap Submits = acked \cap Submits
    BY <1>3, ServiceAssumption DEF JobCommit
  <2>3. QED
    BY <1>3, <2>1, <2>2 DEF JobCommit, Free, session
<1>4. CASE JobFinish
  <2>1. worker' = worker
    BY <1>4 DEF JobFinish, CloseSession, SendClose, session
  <2>2. QED
    BY <1>4, <2>1 DEF JobFinish, Free, Idle, durable, history
<1>5. QED
  BY <1>1, <1>2, <1>3, <1>4 DEF Job

LEMMA ExecutionRoutine ==
  ASSUME ResultInv, NEW e \in Execs, Execution(e)
  PROVE  Routine
<1> USE DEF ResultInv, TypeInv, TypeOK, Routine, Continues, Busy
<1>0. e \in Effects /\ e \notin Writes
  BY ServiceAssumption DEF Effects
<1>1. CASE ExecutionWorks(e) \/ ExecutionExits(e)
  BY <1>1 DEF ExecutionWorks, ExecutionExits, durable, session, history
<1>2. CASE CollectorCompletes(e)
  <2>1. CASE Recoverable /\ ~Busy
    <3>1. Continues(job'.frozen, data)
      BY <1>0, <1>2, <2>1, CommitType, StartJobType
         DEF CollectorCompletes, StartJob, Commit, SessionRecords
    <3>2. QED
      BY <1>2, <2>1, <3>1 DEF CollectorCompletes, Free, session, history
  <2>2. CASE Recoverable /\ Busy
    BY <1>2, <2>2 DEF CollectorCompletes, Free, session, history
  <2>3. CASE ~Recoverable
    <3>1. Continues(data', data) /\ saved' = data'
      BY <1>0, <1>2, <2>3 DEF CollectorCompletes, Commit, SessionRecords
    <3>2. QED
      BY <1>2, <2>3, <3>1 DEF CollectorCompletes, Free, session, history
  <2>4. QED
    BY <2>1, <2>2, <2>3
<1>3. CASE CollectorObserves(e)
  <2>1. Continues(data', data) /\ saved' = data'
    BY <1>3 DEF CollectorObserves, SessionRecords
  <2>2. QED
    BY <1>3, <2>1 DEF CollectorObserves, Free, session, history
<1>4. CASE CollectorLeaves(e)
  <2>1. worker' = worker
    BY <1>4 DEF CollectorLeaves, SendClose, session
  <2>2. QED
    BY <1>4, <2>1 DEF CollectorLeaves, durable, history
<1>5. QED
  BY <1>1, <1>2, <1>3, <1>4 DEF Execution

\* ... the end of the evaluator thread, crashes and time.
LEMMA OtherRoutine ==
  ASSUME ResultInv, WorkerStops \/ RunFails \/ Failed \/ Crash \/ Advance \/ UNCHANGED vars
  PROVE  Routine
<1> USE DEF ResultInv, TypeInv, TypeOK, Routine, Continues, Busy
<1>1. CASE WorkerStops \/ RunFails
  BY <1>1 DEF WorkerStops, RunFails, durable
<1>2. CASE Failed
  <2>1. Continues(data', data) /\ saved' = data'
    BY <1>2 DEF Failed, SessionRecords
  <2>2. QED
    BY <1>2, <2>1 DEF Failed, Free, history
<1>3. CASE Crash
  <2>1. None \notin Submits
    BY ServiceAssumption DEF Keys
  <2>2. QED
    BY <1>3, <2>1 DEF Crash, Idle, durable
<1>4. CASE Advance \/ UNCHANGED vars
  BY <1>4 DEF Advance, vars, durable, session, history
<1>5. QED
  BY <1>1, <1>2, <1>3, <1>4

\* The steps that write run.json: the candidate is taken when no submission
\* can follow, and judged as it was taken.
LEMMA RunResultInv ==
  ASSUME ResultInv, TypeInv',
         SaveStopped \/ StartEvaluation \/ \E outcome \in Outcomes : FinishRun(outcome)
  PROVE  ResultInv'
<1> USE DEF ResultInv
<1>1. /\ UNCHANGED <<saved, snapshot, journal, up, data, handler, job, acked, told>>
      /\ ~Finished
  BY DEF SaveStopped, StartEvaluation, FinishRun, RunFollowsWorker, Finished, history
<1>2. KeysUnique' /\ Journalled'
  BY <1>1 DEF KeysUnique, Journalled
<1>3. RunFollowsWorker' /\ Selected'
  BY DEF SaveStopped, StartEvaluation, FinishRun, RunFollowsWorker, Selected, TypeInv, TypeOK
<1>4. Reported'
  BY <1>1 DEF Reported, Backed, Busy
<1>5. ToldFinished'
  BY <1>1 DEF ToldFinished
<1>6. QED
  BY <1>2, <1>3, <1>4, <1>5

\* What may be told of a record that lists the whole journal of its run.
LEMMA TellFinished ==
  ASSUME TypeInv, NEW d \in SessionRecords, Backed(d), d.submissions = DOMAIN journal, Tell(d)
  PROVE  \/ told' = told
         \/ /\ Finished /\ journal # <<>>
            /\ told' = [submission |-> Len(journal), outcome |-> run.outcome]
            /\ told'.outcome # "error" /\ d.report = run.outcome
<1>1. CASE Status(d) = "complete" /\ d.submissions # {}
  <2>1. d.report # None /\ d.report # "error"
    BY <1>1 DEF Status
  <2>2. Latest(d) = Len(journal)
    BY <1>1, LatestType DEF TypeInv, TypeOK
  <2>3. told' = [submission |-> Latest(d), outcome |-> d.report]
    BY <1>1 DEF Tell
  <2>4. QED
    BY <1>1, <2>1, <2>2, <2>3 DEF Backed
<1>2. CASE ~(Status(d) = "complete" /\ d.submissions # {})
  BY <1>2 DEF Tell
<1>3. QED
  BY <1>1, <1>2

\* The report reaches the record together with the whole journal.
LEMMA CompletedResultInv ==
  ASSUME ResultInv, TypeInv', Completed
  PROVE  ResultInv'
<1> USE DEF ResultInv
<1> DEFINE reported == [data EXCEPT !.report = run.outcome]
<1>1. reported \in SessionRecords /\ reported.submissions = data.submissions
  BY DEF SessionRecords, TypeInv, TypeOK
<1>2. reported.report = run.outcome
  BY DEF SessionRecords, TypeInv, TypeOK
<1>3. data' = Accept(reported, DOMAIN journal) /\ saved' = data'
  BY DEF Completed
<1> HIDE DEF reported
<1>4. /\ data' \in SessionRecords /\ data'.report = run.outcome
      /\ data'.submissions = DOMAIN journal
  <2>1. journal \in Seq(Submits \cup {None}) /\ data.submissions \subseteq DOMAIN journal
    BY DEF TypeInv, TypeOK, Projected
  <2>2. /\ Accept(reported, DOMAIN journal) \in SessionRecords
        /\ Accept(reported, DOMAIN journal).submissions = reported.submissions \cup DOMAIN journal
        /\ Accept(reported, DOMAIN journal).report = reported.report
    BY <1>1, <2>1, AcceptType
  <2>3. QED
    BY <1>1, <1>2, <1>3, <2>1, <2>2
<1>5. /\ UNCHANGED <<snapshot, journal, run, up, handler, job, acked>>
      /\ Finished /\ Tell(data') /\ worker' = "gone" /\ up
  BY DEF Completed, RunFollowsWorker, Finished, Free
<1>6. KeysUnique' /\ Journalled'
  BY <1>4, <1>5, ServiceAssumption DEF KeysUnique, Journalled
<1>7. RunFollowsWorker' /\ Selected'
  BY <1>5 DEF RunFollowsWorker, Selected
<1>8. Reported'
  BY <1>3, <1>4, <1>5 DEF Reported, Backed, Busy, Finished
<1>9. ToldFinished'
  <2>1. Backed(data')
    BY <1>4, <1>5 DEF Backed
  <2>2. QED
    BY <1>4, <1>5, <2>1, TellFinished DEF ToldFinished, Finished
<1>10. QED
  BY <1>6, <1>7, <1>8, <1>9

\* What a restart reads back: the report of a finished run, and no other.
LEMMA ReconciledBacked ==
  ASSUME ResultInv
  PROVE  /\ Reconciled \in SessionRecords /\ Reconciled.submissions = DOMAIN journal
         /\ Reconciled.report = IF Finished THEN run.outcome ELSE None
<1> USE DEF ResultInv
<1>1. TypeOK /\ Projected
  BY DEF TypeInv
<1>2. saved \in SessionRecords /\ snapshot.state \in SessionRecords /\ snapshot \in Snapshots
  BY <1>1 DEF TypeOK, Snapshots
<1> DEFINE base == IF Finished THEN [saved EXCEPT !.report = run.outcome]
                   ELSE IF Resumable THEN Restored ELSE Interrupted
<1>3. /\ base \in SessionRecords
      /\ base.report = IF Finished THEN run.outcome ELSE None
  <2>1. CASE Finished
    BY <1>1, <1>2, <2>1 DEF SessionRecords, TypeOK
  <2>2. CASE ~Finished /\ Resumable
    BY <1>2, <2>2, RestoredType DEF Restored, SessionRecords, Reported, Backed
  <2>3. CASE ~Finished /\ ~Resumable
    BY <1>2, <2>3, InterruptedType DEF Interrupted, SessionRecords, Reported, Backed
  <2>4. QED
    BY <2>1, <2>2, <2>3
<1>4. Reconciled = Accept(base, DOMAIN journal)
  BY DEF Reconciled
<1> HIDE DEF base
<1>5. Reconciled.report = base.report
  BY <1>1, <1>3, <1>4, AcceptType DEF TypeOK
<1>6. QED
  BY <1>1, <1>3, <1>5, ReconciledType DEF TypeInv

LEMMA RestartResultInv ==
  ASSUME ResultInv, TypeInv', Restart
  PROVE  ResultInv'
<1> USE DEF ResultInv
<1>1. /\ data' \in SessionRecords /\ data'.submissions = DOMAIN journal /\ saved' = data'
      /\ data'.report = IF Finished THEN run.outcome ELSE None
  <2>1. CASE RestartClosed \/ RestartResumes
    BY <2>1, ReconciledBacked DEF RestartClosed, RestartResumes
  <2>2. CASE RestartRefused
    BY <2>2, ReconciledBacked DEF RestartRefused, SessionRecords
  <2>3. QED
    BY <2>1, <2>2 DEF Restart
<1>2. UNCHANGED <<journal, run, handler, job, acked>> /\ ~up
  BY DEF Restart, RestartClosed, RestartResumes, RestartRefused, history
<1>3. KeysUnique' /\ Journalled'
  BY <1>1, <1>2 DEF KeysUnique, Journalled
<1>4. RunFollowsWorker' /\ Selected'
  BY <1>2 DEF Restart, RestartClosed, RestartResumes, RestartRefused, CanResume, session,
     RunFollowsWorker, Selected
<1>5. Reported'
  <2>1. snapshot'.state = snapshot.state \/ snapshot'.state = data'
    BY DEF Restart, RestartClosed, RestartResumes, RestartRefused, TypeInv, TypeOK, Snapshots
  <2>2. Backed(data)' /\ Backed(saved)'
    BY <1>1, <1>2 DEF Backed, Finished
  <2>3. Backed(snapshot.state)'
    BY <1>1, <1>2, <2>1 DEF Reported, Backed, Finished
  <2>4. QED
    BY <1>2, <2>2, <2>3 DEF Reported, Backed, Busy, Finished
<1>6. ToldFinished'
  <2>1. CASE RestartClosed
    <3>1. Tell(data') /\ Backed(data')
      BY <1>1, <2>1 DEF RestartClosed, Backed
    <3>2. QED
      BY <1>1, <1>2, <3>1, TellFinished DEF ToldFinished, Finished
  <2>2. CASE RestartResumes \/ RestartRefused
    BY <1>2, <2>2 DEF RestartResumes, RestartRefused, Resumable, ToldFinished, Finished, history
  <2>3. QED
    BY <2>1, <2>2 DEF Restart
<1>7. QED
  BY <1>3, <1>4, <1>5, <1>6

LEMMA InitResultInv == Init => ResultInv
<1> SUFFICES ASSUME Init PROVE ResultInv
  OBVIOUS
<1>1. KeysUnique /\ Journalled
  BY ServiceAssumption DEF Init, KeysUnique, Journalled, Keys
<1>2. Reported
  BY DEF Init, Reported, Backed, NewRecord, Idle, Busy
<1>3. RunFollowsWorker /\ Selected /\ ToldFinished
  BY DEF Init, RunFollowsWorker, Selected, ToldFinished
<1>4. QED
  BY <1>1, <1>2, <1>3, InitTypeInv DEF ResultInv

LEMMA StepResultInv == ResultInv /\ [Next]_vars => ResultInv'
<1> SUFFICES ASSUME ResultInv, [Next]_vars PROVE ResultInv'
  OBVIOUS
<1>1. TypeInv'
  BY StepTypeInv DEF ResultInv
<1>2. CASE Handler \/ HelperSubmit \/ Job \/ (\E e \in Execs : Execution(e))
  BY <1>1, <1>2, HandlerRoutine, JobRoutine, ExecutionRoutine, RoutineResultInv
<1>3. CASE Worker
  BY <1>1, <1>3, OtherRoutine, RoutineResultInv, RunResultInv, CompletedResultInv DEF Worker
<1>4. CASE Crash \/ Advance \/ UNCHANGED vars
  BY <1>1, <1>4, OtherRoutine, RoutineResultInv
<1>5. CASE Restart
  BY <1>1, <1>5, RestartResultInv
<1>6. QED
  BY <1>2, <1>3, <1>4, <1>5 DEF Next

\* The journal, run.json, the records and what clients were told agree in
\* every life of the session.
THEOREM ResultInvariant == Spec => []ResultInv
BY InitResultInv, StepResultInv, PTL DEF Spec

\* A key that is sent again, before or after a restart, gets the receipt it
\* had: dispatch looks in the journal, and a restart reads all of it back.
THEOREM OneReceiptForEveryKey == Spec => []OneReceiptPerKey
<1>1. ResultInv => OneReceiptPerKey
  BY DEF ResultInv, KeysUnique, Journalled, OneReceiptPerKey
<1>2. QED
  BY <1>1, ResultInvariant, PTL

\* The candidate that was judged is the last submission of the record that
\* carries its report.
THEOREM LastSubmissionJudged == Spec => []SelectionJudged
<1>1. ResultInv => SelectionJudged
  BY DEF ResultInv, Reported, Backed, Selected, Finished, SelectionJudged
<1>2. QED
  BY <1>1, ResultInvariant, PTL

\* A result that a client was told is what every later life of the service
\* tells: run.json is finished, and a start reads report and journal from it.
THEOREM ToldResultStays == Spec => []ResultStable
<1>1. ASSUME ResultInv PROVE ResultStable
  <2>1. SUFFICES ASSUME up, told # None
                 PROVE  /\ Status(data) = "complete"
                        /\ data.report = told.outcome /\ Latest(data) = told.submission
    BY DEF ResultStable
  <2>2. /\ data.report = told.outcome /\ data.report # "error" /\ data.report # None
        /\ told.submission = Len(journal) /\ journal # <<>>
    BY <1>1, <2>1, NoneIsNoRecord DEF ResultInv, ToldFinished, TypeInv, TypeOK
  <2>3. data.submissions = DOMAIN journal /\ data.submissions # {}
    <3>1. DOMAIN journal = 1 .. Len(journal) /\ Len(journal) # 0
      BY <1>1, <2>2 DEF ResultInv, TypeInv, TypeOK
    <3>2. Len(journal) \in Nat /\ Len(journal) \in 1 .. Len(journal)
      BY <1>1, <3>1 DEF ResultInv, TypeInv, TypeOK
    <3>3. QED
      BY <1>1, <2>2, <3>1, <3>2 DEF ResultInv, Reported, Backed
  <2>4. Latest(data) = Len(journal)
    BY <1>1, <2>3, LatestType DEF ResultInv, TypeInv, TypeOK
  <2>5. QED
    BY <2>2, <2>3, <2>4 DEF Status
<1>2. QED
  BY <1>1, ResultInvariant, PTL

-----------------------------------------------------------------------------
\* Every step saves the record it changes before the controller's lock is
\* free again; only a fault, once counted, can leave a change unsaved.
LEMMA StepVisible == TypeInv /\ VisibleIsSaved /\ [Next]_vars => VisibleIsSaved'
<1> SUFFICES ASSUME TypeInv, VisibleIsSaved, [Next]_vars PROVE VisibleIsSaved'
  OBVIOUS
<1> DEFINE Kept == UNCHANGED <<saved, data, handler, up>> /\ (faults' = 0 => faults = 0)
           Held == handler' # None \/ ~up'
           Faulted == faults' # 0
           Stored == saved' = data'
<1>1. Kept \/ Held \/ Faulted \/ Stored => VisibleIsSaved'
  BY DEF VisibleIsSaved
<1>2. Fault => Faulted
  BY DEF Fault, TypeInv, TypeOK
<1>3. CASE Handler
  <2>1. ASSUME NEW w \in Writes, Write(w) PROVE Kept \/ Stored
    BY <2>1 DEF Write, Admitted, Free
  <2>2. ASSUME NEW w \in Writes, WriteUnconfirmed(w) PROVE Faulted
    BY <1>2, <2>2 DEF WriteUnconfirmed
  <2>3. ASSUME NEW s \in Submits, Submit(s) \/ SubmitUnconfirmed(s) PROVE Held \/ Faulted
    BY <1>2, <2>3, ServiceAssumption DEF Submit, SubmitUnconfirmed, Keys
  <2>4. ASSUME NEW e \in Execs, Execute(e) \/ Cancel(e) PROVE Held \/ Stored
    BY <2>4, ServiceAssumption DEF Execute, Cancel, Keys
  <2>5. CASE Close \/ CloseUnsent
    BY <1>1, <1>2, <2>5, ServiceAssumption DEF Close, CloseUnsent
  <2>6. CASE Respond
    BY <1>1, <2>6 DEF Respond
  <2>7. QED
    BY <1>1, <1>3, <2>1, <2>2, <2>3, <2>4, <2>5, <2>6 DEF Handler
<1>4. CASE HelperSubmit \/ Advance \/ UNCHANGED vars
  BY <1>1, <1>4 DEF HelperSubmit, Advance, vars, durable, history
<1>5. CASE Job
  <2>1. JobArchive \/ JobManifest \/ JobFinish => Kept
    BY DEF JobArchive, JobManifest, JobFinish, durable, history
  <2>2. JobFail => Kept \/ Faulted
    BY <1>2 DEF JobFail, durable
  <2>3. JobCommit => Stored
    BY DEF JobCommit
  <2>4. QED
    BY <1>1, <1>5, <2>1, <2>2, <2>3 DEF Job
<1>6. ASSUME NEW e \in Execs, Execution(e) PROVE VisibleIsSaved'
  BY <1>1, <1>6 DEF Execution, ExecutionWorks, ExecutionExits, CollectorCompletes,
     CollectorObserves, CollectorLeaves, durable, history
<1>7. CASE Worker
  <2>1. WorkerStops \/ RunFails => Kept \/ Faulted
    BY <1>2 DEF WorkerStops, RunFails, durable
  <2>2. SaveStopped \/ StartEvaluation \/ (\E outcome \in Outcomes : FinishRun(outcome)) => Kept
    BY DEF SaveStopped, StartEvaluation, FinishRun, history
  <2>3. Completed \/ Failed => Stored
    BY DEF Completed, Failed
  <2>4. QED
    BY <1>1, <1>7, <2>1, <2>2, <2>3 DEF Worker
<1>8. CASE Crash \/ Restart
  BY <1>1, <1>8 DEF Crash, Restart, RestartClosed, RestartResumes, RestartRefused
<1>9. QED
  BY <1>3, <1>4, <1>5, <1>6, <1>7, <1>8 DEF Next

\* Between two requests, and as long as nothing failed, a client sees what is
\* in http.json: what it saw is what a restart reads.
THEOREM VisibleStateIsSaved == Spec => []VisibleIsSaved
<1>1. Init => VisibleIsSaved
  BY DEF Init, VisibleIsSaved
<1>2. QED
  BY <1>1, ServiceTypeInv, StepVisible, PTL DEF Spec

-----------------------------------------------------------------------------
(* Acknowledged writes                                                     *)

\* The writes a record has a reply for, and whether a workspace holds them.
WritesOf(d) == d.requests \cap Writes
WritesPresent(d, f) == \A w \in WritesOf(d) : f[w] > 0

\* Each record knows the acknowledged writes, ...
AckedKept ==
  /\ acked \cap Writes \subseteq WritesOf(data)
  /\ acked \cap Writes \subseteq WritesOf(saved)
  /\ acked \cap Writes \subseteq WritesOf(snapshot.state)

\* ... none is ahead of the checkpoint, ...
RecordsBehind ==
  /\ WritesOf(data) \subseteq WritesOf(snapshot.state)
  /\ WritesOf(saved) \subseteq WritesOf(snapshot.state)

\* ... whose archive is no newer than the workspace, ...
SnapshotPresent ==
  /\ WritesPresent(snapshot.state, snapshot.files)
  /\ workspace = "live" => \A w \in Writes : snapshot.files[w] > 0 => files[w] > 0

\* ... and a job in progress can only replace it by a checkpoint with more.
JobAhead ==
  /\ job.stage \in {"archiving", "archived"} =>
       /\ WritesOf(data) \cup ({job.key} \cap Writes) \subseteq WritesOf(job.frozen)
       /\ workspace = "live" => WritesPresent(job.frozen, files)
  /\ job.stage = "archived" =>
       /\ WritesPresent(job.frozen, job.archive)
       /\ workspace = "live" => \A w \in Writes : job.archive[w] > 0 => files[w] > 0
  /\ job.stage = "committed" /\ job.key \in Writes => job.key \in WritesOf(snapshot.state)

AckedInv == AckedKept /\ RecordsBehind /\ SnapshotPresent /\ JobAhead

\* A checkpoint job does not outlive its process.
NoJobDown == ~up => job.stage = "idle"

Inv == TypeInv /\ NoJobDown /\ AckedInv

-----------------------------------------------------------------------------
\* The checkpoint stays, the workspace loses no write, and a record keeps its
\* writes or takes over those of another one.
Framed ==
  /\ UNCHANGED snapshot
  /\ WritesOf(data') \in {WritesOf(data), WritesOf(saved), WritesOf(snapshot.state)}
  /\ WritesOf(saved') \in {WritesOf(data), WritesOf(saved), WritesOf(snapshot.state)}
  /\ acked' \cap Writes = acked \cap Writes
  /\ \/ UNCHANGED job /\ WritesOf(data') = WritesOf(data)
     \/ job'.stage \in {"idle", "failed", "finishing"}
  /\ workspace' = "live" =>
       workspace = "live" /\ \A w \in Writes : files[w] > 0 => files'[w] > 0

LEMMA FramedAckedInv ==
  ASSUME AckedInv, Framed
  PROVE  AckedInv'
<1> USE DEF AckedInv, Framed
<1>1. AckedKept'
  BY DEF AckedKept, RecordsBehind, WritesOf
<1>2. RecordsBehind'
  BY DEF RecordsBehind, WritesOf
<1>3. SnapshotPresent'
  BY DEF SnapshotPresent, WritesPresent, WritesOf
<1>4. JobAhead'
  <2>1. CASE UNCHANGED job /\ WritesOf(data') = WritesOf(data)
    BY <2>1 DEF JobAhead, WritesPresent, WritesOf
  <2>2. CASE job'.stage \in {"idle", "failed", "finishing"}
    BY <2>2 DEF JobAhead
  <2>3. QED
    BY <2>1, <2>2
<1>5. QED
  BY <1>1, <1>2, <1>3, <1>4

LEMMA InitAckedInv == Init => AckedInv
<1> SUFFICES ASSUME Init PROVE AckedInv
  OBVIOUS
<1>1. WritesOf(NewRecord) = {}
  BY DEF WritesOf, NewRecord
<1>2. /\ data = NewRecord /\ saved = NewRecord /\ snapshot.state = NewRecord
      /\ snapshot.files = files /\ acked = {} /\ job.stage = "idle"
  BY DEF Init, Idle
<1>3. QED
  BY <1>1, <1>2 DEF AckedInv, AckedKept, RecordsBehind, SnapshotPresent, JobAhead, WritesPresent

-----------------------------------------------------------------------------
\* A job starts from a workspace that holds every write of the record, and
\* freezes at least the writes of that record.
LEMMA StartJobAckedInv ==
  ASSUME Inv, Recoverable, NEW key \in Effects, StartJob(key), ~Busy,
         UNCHANGED <<data, saved, snapshot, acked, workspace>>,
         \A w \in Writes : files[w] > 0 => files'[w] > 0,
         key \in Writes => files'[key] > 0
  PROVE  AckedInv'
<1> USE DEF Inv, TypeInv, TypeOK, AckedInv
<1>1. /\ job'.stage = "archiving" /\ job'.key = key
      /\ WritesOf(job'.frozen) = WritesOf(data) \cup ({key} \cap Writes)
  <2>1. job'.stage = "archiving" /\ job'.key = key /\ job'.frozen = Commit(data, key)
    BY DEF StartJob
  <2>2. Commit(data, key).requests
          = IF key \in Writes THEN data.requests \cup {key} ELSE data.requests
    BY CommitType
  <2>3. QED
    BY <2>1, <2>2 DEF WritesOf
<1>2. AckedKept' /\ RecordsBehind'
  BY DEF AckedKept, RecordsBehind, WritesOf
<1>3. SnapshotPresent'
  BY DEF SnapshotPresent, WritesPresent, WritesOf
<1>4. workspace = "live" => \A w \in WritesOf(data) : files'[w] > 0
  BY DEF RecordsBehind, SnapshotPresent, WritesPresent, WritesOf
<1>5. JobAhead'
  BY <1>1, <1>4 DEF JobAhead, WritesPresent, WritesOf
<1>6. QED
  BY <1>2, <1>3, <1>5

LEMMA HandlerAckedInv ==
  ASSUME Inv, Recoverable, Handler
  PROVE  AckedInv'
<1> USE DEF Inv, TypeInv, TypeOK
<1>1. ASSUME NEW w \in Writes, Write(w) PROVE AckedInv'
  <2>1. w \in Effects
    BY DEF Effects
  <2>2. /\ files' = Applied(w) /\ StartJob(w) /\ ~Busy
        /\ UNCHANGED <<data, saved, snapshot, acked, workspace>>
    BY <1>1 DEF Write, Admitted, session
  <2>3. /\ \A x \in Writes : files[x] > 0 => files'[x] > 0
        /\ files'[w] > 0
    BY <2>1, <2>2, AppliedType DEF Effects, Workspaces
  <2>4. QED
    BY <2>1, <2>2, <2>3, StartJobAckedInv
<1>2. ASSUME NEW w \in Writes, WriteUnconfirmed(w) PROVE AckedInv'
  <2>1. w \in Effects /\ files' = Applied(w)
    BY <1>2 DEF WriteUnconfirmed, Effects
  <2>2. \A x \in Writes : files[x] > 0 => files'[x] > 0
    BY <2>1, AppliedType DEF Effects, Workspaces
  <2>3. Framed
    BY <1>2, <2>2 DEF WriteUnconfirmed, Framed, durable, session
  <2>4. QED
    BY <2>3, FramedAckedInv
<1>3. ASSUME NEW s \in Submits, Submit(s) PROVE AckedInv'
  <2>1. Framed
    BY <1>3 DEF Submit, Framed, session, history
  <2>2. QED
    BY <2>1, FramedAckedInv
<1>4. ASSUME NEW s \in Submits, SubmitUnconfirmed(s) PROVE AckedInv'
  <2>1. Framed
    BY <1>4 DEF SubmitUnconfirmed, Framed, session
  <2>2. QED
    BY <2>1, FramedAckedInv
<1>5. ASSUME NEW e \in Execs, Execute(e) PROVE AckedInv'
  <2>1. data'.requests = data.requests
    BY <1>5 DEF Execute, SessionRecords
  <2>2. Framed
    BY <1>5, <2>1 DEF Execute, Framed, WritesOf, durable, session, history
  <2>3. QED
    BY <2>2, FramedAckedInv
<1>6. ASSUME NEW e \in Execs, Cancel(e) PROVE AckedInv'
  <2>1. Framed
    BY <1>6 DEF Cancel, Framed, durable, session, history
  <2>2. QED
    BY <2>1, FramedAckedInv
<1>7. CASE Close
  <2>1. data'.requests = data.requests
    BY <1>7 DEF Close, SessionRecords
  <2>2. workspace' = workspace
    BY <1>7 DEF Close, CloseSession, SendClose, session
  <2>3. Framed
    BY <1>7, <2>1, <2>2 DEF Close, Framed, WritesOf, durable, history
  <2>4. QED
    BY <2>3, FramedAckedInv
<1>8. CASE CloseUnsent
  <2>1. data'.requests = data.requests
    BY <1>8 DEF CloseUnsent, SessionRecords
  <2>2. Framed
    BY <1>8, <2>1 DEF CloseUnsent, Framed, WritesOf, durable, session
  <2>3. QED
    BY <2>2, FramedAckedInv
<1>9. CASE Respond
  <2>1. WritesOf(data') = WritesOf(data) /\ saved' = data'
    BY <1>9, RespondType DEF WritesOf
  <2>2. handler \notin Writes
    BY <1>9, ServiceAssumption DEF Respond, Keys
  <2>3. acked' \cap Writes = acked \cap Writes
    BY <1>9, <2>2 DEF Respond
  <2>4. Framed
    BY <1>9, <2>1, <2>3 DEF Respond, Framed, session
  <2>5. QED
    BY <2>4, FramedAckedInv
<1>10. QED
  BY <1>1, <1>2, <1>3, <1>4, <1>5, <1>6, <1>7, <1>8, <1>9 DEF Handler

LEMMA HelperAckedInv ==
  ASSUME Inv, HelperSubmit
  PROVE  AckedInv'
<1>1. Framed
  BY DEF HelperSubmit, Framed, session, history
<1>2. QED
  BY <1>1, FramedAckedInv DEF Inv

LEMMA JobAckedInv ==
  ASSUME Inv, Recoverable, Job
  PROVE  AckedInv'
<1> USE DEF Inv, TypeInv, TypeOK
<1>1. CASE JobArchive
  <2>1. /\ job.stage = "archiving" /\ workspace = "live"
        /\ job'.stage = "archived" /\ job'.archive = files /\ job'.frozen = job.frozen
        /\ UNCHANGED <<data, saved, snapshot, acked, workspace, files>>
    BY <1>1 DEF JobArchive, durable, session, history
  <2>2. JobAhead'
    BY <2>1 DEF AckedInv, JobAhead, WritesPresent, WritesOf
  <2>3. QED
    BY <2>1, <2>2 DEF AckedInv, AckedKept, RecordsBehind, SnapshotPresent, WritesPresent, WritesOf
<1>2. CASE JobFail
  <2>1. Framed
    BY <1>2 DEF JobFail, Framed, durable, session
  <2>2. QED
    BY <2>1, FramedAckedInv
<1>3. CASE JobManifest
  <2>1. /\ job.stage = "archived" /\ job'.stage = "committed" /\ job'.key = job.key
        /\ snapshot'.state = job.frozen /\ snapshot'.files = job.archive
        /\ UNCHANGED <<data, saved, acked, workspace, files>>
    BY <1>3 DEF JobManifest, session, history
  <2>2. AckedKept'
    BY <2>1 DEF AckedInv, AckedKept, JobAhead, WritesOf
  <2>3. RecordsBehind'
    BY <2>1 DEF AckedInv, RecordsBehind, JobAhead, WritesOf
  <2>4. SnapshotPresent'
    BY <2>1 DEF AckedInv, SnapshotPresent, JobAhead, WritesPresent, WritesOf
  <2>5. JobAhead'
    BY <2>1 DEF AckedInv, JobAhead, WritesOf
  <2>6. QED
    BY <2>2, <2>3, <2>4, <2>5 DEF AckedInv
<1>4. CASE JobCommit
  <2>1. /\ UNCHANGED <<snapshot, workspace, files>>
        /\ job'.stage = "finishing" /\ saved' = data'
    BY <1>4 DEF JobCommit, session
  <2>2. WritesOf(data') =
          WritesOf(data) \cup (IF job.stage = "committed" THEN {job.key} \cap Writes ELSE {})
    <3>1. CASE job.stage = "committed"
      <4>1. data' = Commit(data, job.key) /\ job.key \in Effects
        BY <1>4, <3>1 DEF JobCommit, JobShaped
      <4>2. Commit(data, job.key).requests
              = IF job.key \in Writes THEN data.requests \cup {job.key} ELSE data.requests
        BY <4>1, CommitType
      <4>3. QED
        BY <3>1, <4>1, <4>2 DEF WritesOf
    <3>2. CASE job.stage = "failed"
      BY <1>4, <3>2 DEF JobCommit, WritesOf, SessionRecords
    <3>3. QED
      BY <1>4, <3>1, <3>2 DEF JobCommit
  <2>3. acked' \cap Writes \subseteq
          (acked \cap Writes) \cup (IF job.stage = "committed" THEN {job.key} \cap Writes ELSE {})
    BY <1>4 DEF JobCommit
  <2>4. job.stage = "committed" => {job.key} \cap Writes \subseteq WritesOf(snapshot.state)
    BY DEF AckedInv, JobAhead
  <2>5. AckedKept'
    BY <2>1, <2>2, <2>3, <2>4 DEF AckedInv, AckedKept, WritesOf
  <2>6. RecordsBehind'
    BY <2>1, <2>2, <2>4 DEF AckedInv, RecordsBehind, WritesOf
  <2>7. SnapshotPresent' /\ JobAhead'
    BY <2>1 DEF AckedInv, SnapshotPresent, JobAhead, WritesPresent, WritesOf
  <2>8. QED
    BY <2>5, <2>6, <2>7 DEF AckedInv
<1>5. CASE JobFinish
  <2>1. Framed
    BY <1>5 DEF JobFinish, CloseSession, SendClose, Framed, Idle, durable, session, history
  <2>2. QED
    BY <2>1, FramedAckedInv
<1>6. QED
  BY <1>1, <1>2, <1>3, <1>4, <1>5 DEF Job
LEMMA ExecutionAckedInv ==
  ASSUME Inv, Recoverable, NEW e \in Execs, Execution(e)
  PROVE  AckedInv'
<1> USE DEF Inv, TypeInv, TypeOK
<1>1. CASE ExecutionWorks(e)
  <2>1. \A x \in Writes : files[x] > 0 => files'[x] > 0
    BY <1>1, AppliedType DEF ExecutionWorks, Effects, Workspaces
  <2>2. Framed
    BY <1>1, <2>1 DEF ExecutionWorks, Framed, durable, session, history
  <2>3. QED
    BY <2>2, FramedAckedInv
<1>2. CASE ExecutionExits(e)
  <2>1. Framed
    BY <1>2 DEF ExecutionExits, Framed, durable, session, history
  <2>2. QED
    BY <2>1, FramedAckedInv
<1>3. CASE CollectorCompletes(e)
  <2>1. CASE Busy
    <3>1. Framed
      BY <1>3, <2>1 DEF CollectorCompletes, Framed, session, history
    <3>2. QED
      BY <3>1, FramedAckedInv
  <2>2. CASE ~Busy
    <3>1. e \in Effects /\ e \notin Writes
      BY ServiceAssumption DEF Effects
    <3>2. /\ StartJob(e)
          /\ UNCHANGED <<data, saved, snapshot, acked, workspace, files>>
      BY <1>3, <2>2 DEF CollectorCompletes, session, history
    <3>3. QED
      BY <2>2, <3>1, <3>2, StartJobAckedInv
  <2>3. QED
    BY <2>1, <2>2
<1>4. CASE CollectorObserves(e)
  <2>1. data'.requests = data.requests /\ saved' = data'
    BY <1>4 DEF CollectorObserves, SessionRecords
  <2>2. Framed
    BY <1>4, <2>1 DEF CollectorObserves, Framed, WritesOf, session, history
  <2>3. QED
    BY <2>2, FramedAckedInv
<1>5. CASE CollectorLeaves(e)
  <2>1. workspace' = workspace
    BY <1>5 DEF CollectorLeaves, SendClose, session
  <2>2. Framed
    BY <1>5, <2>1 DEF CollectorLeaves, Framed, durable, history
  <2>3. QED
    BY <2>2, FramedAckedInv
<1>6. QED
  BY <1>1, <1>2, <1>3, <1>4, <1>5 DEF Execution

LEMMA WorkerAckedInv ==
  ASSUME Inv, Recoverable, Worker
  PROVE  AckedInv'
<1> USE DEF Inv, TypeInv, TypeOK
<1>1. CASE Completed
  <2> DEFINE reported == [data EXCEPT !.report = run.outcome]
  <2>1. reported \in SessionRecords /\ reported.requests = data.requests
    BY DEF SessionRecords
  <2>2. data' = Accept(reported, DOMAIN journal) /\ saved' = data'
    BY <1>1 DEF Completed
  <2> HIDE DEF reported
  <2>3. WritesOf(data') = WritesOf(data)
    BY <2>1, <2>2, AcceptType DEF WritesOf
  <2>4. Framed
    BY <1>1, <2>2, <2>3 DEF Completed, Framed
  <2>5. QED
    BY <2>4, FramedAckedInv
<1>2. CASE Failed
  <2>1. data'.requests = data.requests /\ saved' = data'
    BY <1>2 DEF Failed, SessionRecords
  <2>2. Framed
    BY <1>2, <2>1 DEF Failed, Framed, WritesOf, history
  <2>3. QED
    BY <2>2, FramedAckedInv
<1>3. CASE WorkerStops \/ RunFails
  <2>1. Framed
    BY <1>3 DEF WorkerStops, RunFails, Framed, durable
  <2>2. QED
    BY <2>1, FramedAckedInv
<1>4. CASE SaveStopped \/ StartEvaluation \/ \E outcome \in Outcomes : FinishRun(outcome)
  <2>1. Framed
    BY <1>4 DEF SaveStopped, StartEvaluation, FinishRun, Framed, history
  <2>2. QED
    BY <2>1, FramedAckedInv
<1>5. QED
  BY <1>1, <1>2, <1>3, <1>4 DEF Worker

-----------------------------------------------------------------------------
\* A crash falls back on http.json, and a restart on http.json or, when the
\* session is resumed, on the checkpoint, workspace and record.
LEMMA LifeAckedInv ==
  ASSUME Inv, Recoverable, Crash \/ Restart \/ Advance
  PROVE  AckedInv'
<1> USE DEF Inv
<1>0. ~up => job.stage = "idle"
  BY DEF NoJobDown
<1>1. CASE Crash
  <2>1. Framed
    BY <1>1 DEF Crash, Framed, Idle, durable
  <2>2. QED
    BY <2>1, FramedAckedInv
<1>2. WritesOf(Reconciled) =
        IF ~Finished /\ Resumable THEN WritesOf(snapshot.state) ELSE WritesOf(saved)
  BY ReconciledType DEF WritesOf
<1>3. CASE RestartClosed
  <2>1. WritesOf(data') = WritesOf(saved) /\ saved' = data'
    BY <1>2, <1>3 DEF RestartClosed
  <2>2. Framed
    BY <1>0, <1>3, <2>1 DEF RestartClosed, Framed, session
  <2>3. QED
    BY <2>2, FramedAckedInv
<1>4. CASE RestartRefused
  <2>1. /\ [Reconciled EXCEPT !.interrupted = TRUE].requests = Reconciled.requests
        /\ Resumable => ~Finished
    BY ReconciledType DEF SessionRecords, Resumable
  <2>2. WritesOf(data') = WritesOf(snapshot.state) /\ saved' = data'
    BY <1>2, <1>4, <2>1 DEF RestartRefused, WritesOf
  <2>3. Framed
    BY <1>0, <1>4, <2>2 DEF RestartRefused, Framed, session
  <2>4. QED
    BY <2>3, FramedAckedInv
<1>5. CASE RestartResumes
  <2>1. /\ WritesOf(data') = WritesOf(snapshot.state) /\ saved' = data'
        /\ snapshot'.state = data' /\ snapshot'.files = snapshot.files
        /\ files' = snapshot.files /\ UNCHANGED <<acked, job>>
    BY <1>2, <1>5 DEF RestartResumes, Resumable, TypeInv, TypeOK, Snapshots, history
  <2>2. AckedKept' /\ RecordsBehind'
    BY <2>1 DEF AckedInv, AckedKept, RecordsBehind, WritesOf
  <2>3. SnapshotPresent'
    BY <2>1 DEF AckedInv, SnapshotPresent, WritesPresent, WritesOf
  <2>4. JobAhead'
    BY <1>0, <1>5, <2>1 DEF RestartResumes, JobAhead
  <2>5. QED
    BY <2>2, <2>3, <2>4 DEF AckedInv
<1>6. CASE Advance
  <2>1. Framed
    BY <1>6 DEF Advance, Framed, durable, session, history
  <2>2. QED
    BY <2>1, FramedAckedInv
<1>7. QED
  BY <1>1, <1>3, <1>4, <1>5, <1>6 DEF Restart

LEMMA StepNoJobDown == NoJobDown /\ Next => NoJobDown'
<1> SUFFICES ASSUME NoJobDown, Next PROVE NoJobDown'
  OBVIOUS
<1> USE DEF NoJobDown
<1>1. CASE Handler
  <2>1. ASSUME NEW w \in Writes, Write(w) \/ WriteUnconfirmed(w) PROVE NoJobDown'
    BY <2>1 DEF Write, WriteUnconfirmed, Admitted, Free, StartJob
  <2>2. ASSUME NEW s \in Submits, Submit(s) \/ SubmitUnconfirmed(s) PROVE NoJobDown'
    BY <2>2 DEF Submit, SubmitUnconfirmed
  <2>3. ASSUME NEW e \in Execs, Execute(e) \/ Cancel(e) PROVE NoJobDown'
    BY <2>3 DEF Execute, Cancel
  <2>4. CASE Close \/ CloseUnsent \/ Respond
    BY <2>4 DEF Close, CloseUnsent, Respond
  <2>5. QED
    BY <1>1, <2>1, <2>2, <2>3, <2>4 DEF Handler
<1>2. CASE HelperSubmit
  BY <1>2 DEF HelperSubmit
<1>3. CASE Job
  BY <1>3 DEF Job, JobArchive, JobFail, JobManifest, JobCommit, JobFinish, Idle, Free
<1>4. ASSUME NEW e \in Execs, Execution(e) PROVE NoJobDown'
  BY <1>4 DEF Execution, ExecutionWorks, ExecutionExits, CollectorCompletes,
     CollectorObserves, CollectorLeaves, Free, StartJob
<1>5. CASE Worker
  BY <1>5 DEF Worker, WorkerStops, SaveStopped, StartEvaluation, RunFails, FinishRun,
     Completed, Failed
<1>6. CASE Crash
  BY <1>6 DEF Crash, Idle
<1>7. CASE Restart
  BY <1>7 DEF Restart, RestartClosed, RestartResumes, RestartRefused
<1>8. CASE Advance
  BY <1>8 DEF Advance
<1>9. QED
  BY <1>1, <1>2, <1>3, <1>4, <1>5, <1>6, <1>7, <1>8 DEF Next

LEMMA StepInv == Recoverable /\ Inv /\ [Next]_vars => Inv'
<1> SUFFICES ASSUME Recoverable, Inv, [Next]_vars PROVE Inv'
  OBVIOUS
<1>1. TypeInv'
  BY StepTypeInv DEF Inv
<1>2. CASE Next
  <2>1. AckedInv'
    BY <1>2, HandlerAckedInv, JobAckedInv, ExecutionAckedInv, WorkerAckedInv, LifeAckedInv,
       HelperAckedInv DEF Next
  <2>2. NoJobDown'
    BY <1>2, StepNoJobDown DEF Inv
  <2>3. QED
    BY <1>1, <2>1, <2>2 DEF Inv
<1>3. CASE UNCHANGED vars
  <2>1. Framed
    BY <1>3 DEF Framed, vars, durable, session, history
  <2>2. NoJobDown'
    BY <1>3 DEF Inv, NoJobDown, vars
  <2>3. QED
    BY <1>1, <2>1, <2>2, FramedAckedInv DEF Inv
<1>4. QED
  BY <1>2, <1>3

-----------------------------------------------------------------------------
\* A recoverable session keeps every record no further than its checkpoint,
\* and its checkpoint no further than its workspace.
THEOREM DurabilityInvariant ==
  ASSUME Recoverable
  PROVE  Spec => []Inv
<1>1. Init => Inv
  BY InitTypeInv, InitAckedInv DEF Inv, NoJobDown, Init
<1>2. Inv /\ [Next]_vars => Inv'
  BY StepInv
<1>3. QED
  BY <1>1, <1>2, PTL DEF Spec

\* Once a client was told that its write took place, the checkpoint holds its
\* effect and its reply, and so does every later life of the session.
THEOREM AckedWritesSurvive == Spec => []AckedWriteSurvives
<1>1. Inv => AckedWriteSurvives
  BY DEF Inv, AckedInv, AckedKept, SnapshotPresent, WritesPresent, WritesOf, AckedWriteSurvives
<1>2. ~Recoverable => AckedWriteSurvives
  BY DEF AckedWriteSurvives
<1>3. CASE Recoverable
  BY <1>1, <1>3, DurabilityInvariant, PTL
<1>4. CASE ~Recoverable
  BY <1>2, <1>4, PTL
<1>5. QED
  BY <1>3, <1>4

-----------------------------------------------------------------------------
(* Executions, rollbacks and checkpoints                                   *)

\* A command whose collector has not asked for its checkpoint yet.
Executing(e) == collector[e] \in {"running", "worked", "exited"}

\* A job that has not told the live record its result yet.
Pending == job.stage \in {"archiving", "archived", "committed", "failed"}

\* Nothing of a process that died is left, ...
DownInv ==
  ~up => /\ workspace = "none" /\ files = NoFiles /\ handler = None /\ job.stage = "idle"
         /\ \A e \in Execs : collector[e] = "none"

\* ... commands run one at a time, each with a collector and with a record
\* that no failed checkpoint has touched, ...
OneRunning ==
  /\ \A e, f \in Running(data) : e = f
  /\ \A e, f \in Running(saved) : e = f

CollectorRuns ==
  \A e \in Execs : Executing(e) => data.executions[e] = "running" /\ ~data.checkpointError

\* ... and a checkpoint job has no command beside it but the one it commits,
\* whose collector waits for it, ...
JobAlone ==
  /\ Busy => /\ Running(data) \subseteq {job.key}
             /\ job.key \in Execs => collector[job.key] = "waiting"
  /\ Pending => /\ ~data.checkpointError
                /\ job.frozen.executions = Commit(data, job.key).executions
                /\ job.key \in Execs => data.executions[job.key] = "running"

\* ... so that no checkpoint holds a running command, ...
Settled == Running(snapshot.state) = {} /\ (Busy => Running(job.frozen) = {})

\* ... and http.json lags behind by the command just started, at most.
SavedBehind ==
  IF handler \in Execs
    THEN ~Busy /\ data.executions = [saved.executions EXCEPT ![handler] = "running"]
    ELSE saved.executions = data.executions

\* What a command did to the workspace is in the record, and what the archive
\* has of it is in the record frozen for it.
CommandsRecorded ==
  /\ workspace = "live" /\ ~data.checkpointError =>
       \A e \in Execs : files[e] > 0 => data.executions[e] \in {"running", "complete"}
  /\ job.stage = "archiving" /\ workspace = "live" =>
       \A e \in Execs : files[e] > 0 => job.frozen.executions[e] = "complete"
  /\ job.stage = "archived" =>
       \A e \in Execs : job.archive[e] > 0 => job.frozen.executions[e] = "complete"
  /\ \A e \in Execs : snapshot.files[e] > 0 => snapshot.state.executions[e] = "complete"

RolledBackClean ==
  \A e \in Execs :
    /\ data.executions[e] = "rolledback" => files[e] = 0 /\ snapshot.files[e] = 0
    /\ saved.executions[e] = "rolledback" => snapshot.files[e] = 0

Exclusion == DownInv /\ OneRunning /\ CollectorRuns /\ JobAlone /\ Settled

Recorded == SavedBehind /\ CommandsRecorded /\ RolledBackClean

ExecutionInv == TypeInv /\ Exclusion /\ Recorded

-----------------------------------------------------------------------------
\* Steps that neither start nor end a command, a write or a job: what commands
\* did and what the records say of them stays.
Quiet ==
  /\ data'.executions = data.executions /\ data'.checkpointError = data.checkpointError
  /\ data.requests \subseteq data'.requests
  /\ \/ saved'.executions = data.executions /\ handler' \notin Execs
     \/ /\ saved'.executions = saved.executions
        /\ handler' = handler \/ (handler \notin Execs /\ handler' \notin Execs)
  /\ UNCHANGED <<snapshot, files, up>>
  /\ UNCHANGED job \/ (~Pending /\ job'.stage = "idle")
  /\ \A e \in Execs :
       collector'[e] = collector[e] \/ (up /\ collector[e] = "leaving" /\ collector'[e] = "done")
  /\ workspace' \in {workspace, "dead"}
  /\ ~up => UNCHANGED <<workspace, handler, job>>
  /\ faults' = 0 => faults = 0

LEMMA QuietExecutionInv ==
  ASSUME ExecutionInv, TypeInv', Quiet
  PROVE  ExecutionInv'
<1> USE DEF ExecutionInv, Exclusion, Recorded
<1>1. DownInv'
  BY DEF Quiet, DownInv
<1>2. OneRunning'
  <2>1. Running(saved) \subseteq Running(data)
    BY DEF SavedBehind, Running, TypeInv, TypeOK, SessionRecords
  <2>2. Running(data)' = Running(data) /\ Running(saved)' \subseteq Running(data)
    BY <2>1 DEF Quiet, Running
  <2>3. QED
    BY <2>2 DEF OneRunning
<1>3. CollectorRuns'
  BY DEF Quiet, CollectorRuns, Executing
<1>4. JobAlone'
  <2>1. CASE job'.stage = "idle"
    BY <2>1 DEF JobAlone, Busy, Pending
  <2>2. CASE UNCHANGED job
    <3>1. Busy' = Busy /\ Pending' = Pending
      BY <2>2 DEF Busy, Pending
    <3>2. Running(data)' = Running(data)
      BY DEF Quiet, Running
    <3>3. Commit(data', job.key).executions = Commit(data, job.key).executions
      BY DEF Quiet, Commit, TypeInv, TypeOK, SessionRecords
    <3>4. collector[job.key] = "waiting" /\ job.key \in Execs => collector'[job.key] = "waiting"
      BY DEF Quiet
    <3>5. QED
      BY <2>2, <3>1, <3>2, <3>3, <3>4 DEF JobAlone, Quiet
  <2>3. QED
    BY <2>1, <2>2 DEF Quiet
<1>5. Settled'
  BY DEF Quiet, Settled, Busy, Running
<1>6. SavedBehind'
  BY DEF Quiet, SavedBehind, Busy
<1>7. CommandsRecorded'
  BY DEF Quiet, CommandsRecorded
<1>8. RolledBackClean'
  BY DEF Quiet, RolledBackClean
<1>9. QED
  BY <1>1, <1>2, <1>3, <1>4, <1>5, <1>6, <1>7, <1>8

LEMMA HandlerQuiet ==
  ASSUME ExecutionInv,
         \/ \E s \in Submits : Submit(s) \/ SubmitUnconfirmed(s)
         \/ \E e \in Execs : Cancel(e)
         \/ Close \/ CloseUnsent \/ Respond \/ HelperSubmit
  PROVE  Quiet
<1> USE DEF ExecutionInv, TypeInv, TypeOK, Quiet
<1>1. ASSUME NEW s \in Submits, Submit(s) \/ SubmitUnconfirmed(s) PROVE Quiet
  <2>1. s \notin Execs /\ None \notin Execs
    BY ServiceAssumption DEF Keys
  <2>2. up /\ handler = None
    BY <1>1 DEF Submit, SubmitUnconfirmed, Admitted, Free
  <2>3. UNCHANGED <<saved, snapshot, up, data, workspace, files, collector, job>>
    BY <1>1 DEF Submit, SubmitUnconfirmed, session
  <2>4. (handler' = s \/ handler' = handler) /\ (faults' = 0 => faults = 0)
    BY <1>1 DEF Submit, SubmitUnconfirmed, history, Fault
  <2>5. QED
    BY <2>1, <2>2, <2>3, <2>4
<1>2. ASSUME NEW e \in Execs, Cancel(e) PROVE Quiet
  BY <1>2, ServiceAssumption DEF Cancel, Free, Keys, session, history
<1>3. CASE Close
  <2>1. /\ data'.executions = data.executions /\ data'.checkpointError = data.checkpointError
        /\ data'.requests = data.requests
    BY <1>3 DEF Close, SessionRecords
  <2>2. workspace' = workspace
    BY <1>3 DEF Close, CloseSession, SendClose, session
  <2>3. up /\ handler \notin Execs /\ handler' \notin Execs
    BY <1>3, ServiceAssumption DEF Close, Closable, Free, Keys
  <2>4. QED
    BY <1>3, <2>1, <2>2, <2>3 DEF Close, durable, history
<1>4. CASE CloseUnsent
  <2>1. /\ data'.executions = data.executions /\ data'.checkpointError = data.checkpointError
        /\ data'.requests = data.requests
    BY <1>4 DEF CloseUnsent, SessionRecords
  <2>2. up
    BY <1>4 DEF CloseUnsent, Closable, Free
  <2>3. QED
    BY <1>4, <2>1, <2>2 DEF CloseUnsent, durable, session, Fault
<1>5. CASE Respond
  <2>1. /\ data'.executions = data.executions /\ data'.checkpointError = data.checkpointError
        /\ data.requests \subseteq data'.requests
    <3>1. CASE handler \in Submits
      BY <1>5, <3>1, ServiceAssumption DEF Respond, Accept, SessionRecords
    <3>2. CASE handler \in Execs
      BY <1>5, <3>2, ServiceAssumption DEF Respond, SessionRecords
    <3>3. CASE handler \notin Submits /\ handler \notin Execs
      BY <1>5, <3>3 DEF Respond
    <3>4. QED
      BY <3>1, <3>2, <3>3
  <2>2. None \notin Execs
    BY ServiceAssumption DEF Keys
  <2>3. QED
    BY <1>5, <2>1, <2>2 DEF Respond, session
<1>6. CASE HelperSubmit
  BY <1>6 DEF HelperSubmit, session, history
<1>7. QED
  BY <1>1, <1>2, <1>3, <1>4, <1>5, <1>6

LEMMA OtherQuiet ==
  ASSUME ExecutionInv,
         \/ JobFinish \/ \E e \in Execs : CollectorLeaves(e)
         \/ Worker \/ Advance \/ UNCHANGED vars
  PROVE  Quiet
<1> USE DEF ExecutionInv, TypeInv, TypeOK, Quiet
<1>1. CASE JobFinish
  <2>1. workspace' = workspace
    BY <1>1 DEF JobFinish, CloseSession, SendClose, session
  <2>2. QED
    BY <1>1, <2>1 DEF JobFinish, Free, Idle, Pending, durable, history
<1>2. ASSUME NEW e \in Execs, CollectorLeaves(e) PROVE Quiet
  <2>1. workspace' = workspace
    BY <1>2 DEF CollectorLeaves, SendClose, session
  <2>2. up
    BY <1>2 DEF CollectorLeaves, Exclusion, DownInv
  <2>3. QED
    BY <1>2, <2>1, <2>2 DEF CollectorLeaves, durable, history
<1>3. CASE WorkerStops \/ RunFails
  BY <1>3 DEF WorkerStops, RunFails, durable, Fault
<1>4. CASE SaveStopped \/ StartEvaluation \/ \E outcome \in Outcomes : FinishRun(outcome)
  BY <1>4 DEF SaveStopped, StartEvaluation, FinishRun, history
<1>5. CASE Completed \/ Failed
  <2>1. /\ data'.executions = data.executions /\ data'.checkpointError = data.checkpointError
        /\ data.requests \subseteq data'.requests /\ saved' = data'
    <3>1. CASE Completed
      BY <3>1 DEF Completed, Accept, SessionRecords
    <3>2. CASE Failed
      BY <3>2 DEF Failed, SessionRecords
    <3>3. QED
      BY <1>5, <3>1, <3>2
  <2>2. up /\ handler = None /\ None \notin Execs
    BY <1>5, ServiceAssumption DEF Completed, Failed, Free, Keys
  <2>3. QED
    BY <1>5, <2>1, <2>2 DEF Completed, Failed, history
<1>6. CASE Advance \/ UNCHANGED vars
  BY <1>6 DEF Advance, vars, durable, session, history
<1>7. QED
  BY <1>1, <1>2, <1>3, <1>4, <1>5, <1>6 DEF Worker

-----------------------------------------------------------------------------
\* What a commit makes of the commands of a record.
LEMMA CommitExecutions ==
  ASSUME NEW d \in SessionRecords, NEW key \in Effects
  PROVE  /\ Commit(d, key).checkpointError = d.checkpointError
         /\ Commit(d, key).report = d.report
         /\ \A e \in Execs :
              Commit(d, key).executions[e] =
                IF e = key /\ key \notin Writes THEN "complete" ELSE d.executions[e]
         /\ key \in Writes => Commit(d, key).executions = d.executions
BY DEF Commit, SessionRecords, Effects

\* A job that starts beside no other command freezes a record in which every
\* effect of the workspace is committed.
LEMMA StartJobExecutionInv ==
  ASSUME ExecutionInv, NEW key \in Effects, StartJob(key), ~Busy, up, handler = None,
         UNCHANGED <<data, saved, snapshot, up, handler, workspace>>,
         Running(data) \subseteq {key}, ~data.checkpointError,
         key \in Execs => /\ data.executions[key] = "running" /\ collector'[key] = "waiting"
                          /\ \A e \in Execs \ {key} : collector'[e] = collector[e],
         key \in Writes => UNCHANGED collector,
         \A e \in Execs : files'[e] = files[e]
  PROVE  Exclusion' /\ Recorded'
<1> USE DEF ExecutionInv, Exclusion, Recorded
<1>0. /\ data \in SessionRecords /\ saved \in SessionRecords
      /\ (key \in Writes) # (key \in Execs)
  BY ServiceAssumption DEF TypeInv, TypeOK, Effects
<1>1. /\ job'.stage = "archiving" /\ job'.key = key /\ job'.frozen = Commit(data, key)
  BY DEF StartJob
<1>2. DownInv' /\ OneRunning'
  BY DEF DownInv, OneRunning, Running
<1>3. CollectorRuns'
  BY <1>0 DEF CollectorRuns, Executing
<1>4. \A e \in Execs : job'.frozen.executions[e] =
                         IF e = key THEN "complete" ELSE data.executions[e]
  BY <1>0, <1>1, CommitExecutions
<1>5. JobAlone'
  BY <1>0, <1>1 DEF JobAlone, Pending, Busy, Running
<1>6. Settled'
  BY <1>4 DEF Settled, Running
<1>7. SavedBehind'
  BY ServiceAssumption DEF SavedBehind, Keys
<1>8. CommandsRecorded'
  BY <1>1, <1>4 DEF CommandsRecorded, Running
<1>9. RolledBackClean'
  BY DEF RolledBackClean
<1>10. QED
  BY <1>2, <1>3, <1>5, <1>6, <1>7, <1>8, <1>9

\* A write, whose checkpoint may start at once, and the start of a command.
LEMMA AdmittedExecutionInv ==
  ASSUME ExecutionInv, TypeInv',
         \/ \E w \in Writes : Write(w) \/ WriteUnconfirmed(w)
         \/ \E e \in Execs : Execute(e)
  PROVE  ExecutionInv'
<1> USE DEF ExecutionInv, Exclusion, Recorded
<1>1. ASSUME NEW w \in Writes, Write(w) \/ WriteUnconfirmed(w) PROVE ExecutionInv'
  <2>1. /\ up /\ handler = None /\ ~Busy /\ Running(data) = {} /\ ~data.checkpointError
        /\ UNCHANGED <<snapshot, up, handler, workspace, collector>>
        /\ faults' = 0 => faults = 0
    BY <1>1 DEF Write, WriteUnconfirmed, Admitted, Free, Fault, session, durable, TypeInv, TypeOK
  <2>2. w \in Effects /\ w \notin Execs
    BY ServiceAssumption DEF Effects
  <2>3. \A e \in Execs : files'[e] = files[e]
    BY <1>1, <2>2 DEF Write, WriteUnconfirmed, Applied, Effects, TypeInv, TypeOK, Workspaces
  <2>4. CASE Write(w) /\ Recoverable
    BY <2>1, <2>2, <2>3, <2>4, StartJobExecutionInv DEF Write
  <2>5. CASE (Write(w) /\ ~Recoverable) \/ WriteUnconfirmed(w)
    <3>1. /\ data'.executions = data.executions /\ data'.checkpointError = data.checkpointError
          /\ saved'.executions = data'.executions /\ UNCHANGED job
      <4>1. data \in SessionRecords
        BY DEF TypeInv, TypeOK
      <4>2. CASE Write(w) /\ ~Recoverable
        BY <2>2, <4>1, <4>2, CommitExecutions DEF Write
      <4>3. CASE WriteUnconfirmed(w)
        BY <2>1, <4>3, ServiceAssumption DEF WriteUnconfirmed, durable, SavedBehind, Keys
      <4>4. QED
        BY <2>5, <4>2, <4>3
    <3>2. Running(data)' = {} /\ Running(saved)' = {}
      BY <2>1, <3>1 DEF Running
    <3>3. Exclusion'
      BY <2>1, <3>1, <3>2 DEF DownInv, OneRunning, CollectorRuns, Executing, JobAlone, Busy,
         Pending, Settled, Running
    <3>4. SavedBehind'
      BY <2>1, <3>1, ServiceAssumption DEF SavedBehind, Keys
    <3>5. CommandsRecorded' /\ RolledBackClean'
      BY <2>1, <2>3, <3>1 DEF CommandsRecorded, RolledBackClean, Busy, SavedBehind
    <3>6. QED
      BY <3>3, <3>4, <3>5
  <2>6. QED
    BY <1>1, <2>4, <2>5
<1>2. ASSUME NEW e \in Execs, Execute(e) PROVE ExecutionInv'
  <2>1. /\ up /\ handler = None /\ ~Busy /\ Running(data) = {} /\ ~data.checkpointError
        /\ UNCHANGED <<saved, snapshot, up, workspace, files, job>> /\ handler' = e
    BY <1>2 DEF Execute, Admitted, Free, session, durable
  <2>2. /\ data'.executions = [data.executions EXCEPT ![e] = "running"]
        /\ data'.checkpointError = data.checkpointError
        /\ \A f \in Execs : data'.executions[f] = IF f = e THEN "running" ELSE data.executions[f]
    BY <1>2 DEF Execute, TypeInv, TypeOK, SessionRecords
  <2>3. \A f \in Execs : collector'[f] = IF f = e THEN "running" ELSE collector[f]
    BY <1>2 DEF Execute, TypeInv, TypeOK
  <2>4. Running(data)' = {e} /\ saved.executions = data.executions
    BY <2>1, <2>2, ServiceAssumption DEF Running, SavedBehind, Keys
  <2>5. DownInv' /\ OneRunning' /\ Settled'
    BY <2>1, <2>4 DEF DownInv, OneRunning, Settled, Busy, Running
  <2>6. CollectorRuns'
    BY <2>1, <2>2, <2>3 DEF CollectorRuns, Executing
  <2>7. JobAlone'
    BY <2>1 DEF JobAlone, Busy, Pending
  <2>8. SavedBehind'
    BY <2>1, <2>2, <2>4 DEF SavedBehind, Busy
  <2>9. CommandsRecorded' /\ RolledBackClean'
    BY <2>1, <2>2 DEF CommandsRecorded, RolledBackClean, Busy
  <2>10. QED
    BY <2>5, <2>6, <2>7, <2>8, <2>9
<1>3. QED
  BY <1>1, <1>2

\* The checkpoint job: the archive is of a workspace at rest, and replaces the
\* checkpoint together with the record that was frozen for it.
LEMMA JobExecutionInv ==
  ASSUME ExecutionInv, TypeInv', JobArchive \/ JobFail \/ JobManifest \/ JobCommit
  PROVE  ExecutionInv'
<1> USE DEF ExecutionInv, Exclusion, Recorded
<1>1. up /\ UNCHANGED <<up, handler, workspace, files, collector>>
  BY DEF JobArchive, JobFail, JobManifest, JobCommit, DownInv, session, history
<1>2. DownInv'
  BY <1>1 DEF DownInv
<1>3. CASE JobArchive \/ JobFail
  <2>1. /\ UNCHANGED <<data, saved, snapshot>> /\ Pending /\ Busy
        /\ job'.key = job.key /\ job'.frozen = job.frozen
        /\ \/ /\ job.stage = "archiving" /\ workspace = "live"
              /\ job'.stage = "archived" /\ job'.archive = files
           \/ job'.stage = "failed"
    BY <1>3 DEF JobArchive, JobFail, Pending, Busy, durable, TypeInv, TypeOK
  <2>2. OneRunning' /\ CollectorRuns' /\ Settled' /\ SavedBehind' /\ RolledBackClean'
    BY <1>1, <2>1 DEF OneRunning, CollectorRuns, Executing, Settled, SavedBehind, RolledBackClean,
       Running, Busy
  <2>3. JobAlone'
    BY <1>1, <2>1 DEF JobAlone, Busy, Pending, Running
  <2>4. CommandsRecorded'
    BY <1>1, <2>1 DEF CommandsRecorded
  <2>5. QED
    BY <1>2, <2>2, <2>3, <2>4
<1>4. CASE JobManifest
  <2>1. /\ UNCHANGED <<data, saved>> /\ Pending /\ Busy /\ job.stage = "archived"
        /\ snapshot'.state = job.frozen /\ snapshot'.files = job.archive
        /\ job'.key = job.key /\ job'.frozen = job.frozen /\ job'.stage = "committed"
    BY <1>4 DEF JobManifest, Pending, Busy, TypeInv, TypeOK
  <2>2. OneRunning' /\ CollectorRuns' /\ Settled' /\ SavedBehind'
    BY <1>1, <2>1 DEF OneRunning, CollectorRuns, Executing, Settled, SavedBehind, Running, Busy
  <2>3. JobAlone'
    BY <1>1, <2>1 DEF JobAlone, Busy, Pending, Running
  <2>4. CommandsRecorded'
    BY <1>1, <2>1 DEF CommandsRecorded
  <2>5. \A e \in Execs : job.frozen.executions[e] = "complete" =>
                          data.executions[e] \in {"running", "complete"}
    <3>1. job.key \in Effects /\ data \in SessionRecords
      BY <2>1 DEF TypeInv, TypeOK, JobShaped, Busy
    <3>2. QED
      BY <2>1, <3>1, CommitExecutions DEF JobAlone, Effects
  <2>6. saved.executions = data.executions
    BY <2>1 DEF SavedBehind
  <2>7. \A e \in Execs : job.archive[e] \in Nat
    BY <2>1 DEF TypeInv, JobShaped, Workspaces, Effects
  <2>8. RolledBackClean'
    BY <1>1, <2>1, <2>5, <2>6, <2>7 DEF RolledBackClean, CommandsRecorded
  <2>9. QED
    BY <1>2, <2>2, <2>3, <2>4, <2>8
<1>5. CASE JobCommit
  <2>1. /\ UNCHANGED snapshot /\ Pending /\ Busy /\ handler \notin Execs
        /\ saved' = data' /\ job'.key = job.key /\ job'.frozen = job.frozen
        /\ job'.stage = "finishing"
    BY <1>5, ServiceAssumption DEF JobCommit, Free, Pending, Busy, Keys, TypeInv, TypeOK
  <2>2. job.key \in Effects /\ data \in SessionRecords
    BY <2>1 DEF TypeInv, TypeOK, JobShaped, Busy
  <2>3. /\ \A e \in Execs : data'.executions[e] \in {data.executions[e], "complete"}
        /\ \/ ~data'.checkpointError /\ data'.executions = job.frozen.executions
           \/ data'.checkpointError
    <3>1. CASE job.stage = "committed"
      <4>1. data' = Commit(data, job.key)
        BY <1>5, <3>1 DEF JobCommit
      <4>2. QED
        BY <2>1, <2>2, <4>1, CommitExecutions DEF JobAlone
    <3>2. CASE job.stage = "failed"
      <4>1. data' = [data EXCEPT !.interrupted = TRUE, !.checkpointError = TRUE]
        BY <1>5, <3>2 DEF JobCommit
      <4>2. QED
        BY <2>2, <4>1 DEF SessionRecords
    <3>3. QED
      BY <1>5, <3>1, <3>2 DEF JobCommit
  <2>4. Running(data)' \subseteq Running(data) /\ Running(saved)' = Running(data)'
    BY <2>1, <2>3 DEF Running
  <2>5. \A e \in Execs : ~Executing(e)
    BY <2>1 DEF CollectorRuns, JobAlone, Executing, Running
  <2>6. OneRunning' /\ CollectorRuns' /\ Settled' /\ JobAlone'
    BY <1>1, <2>1, <2>4, <2>5 DEF OneRunning, CollectorRuns, Executing, Settled, JobAlone, Running,
       Busy, Pending
  <2>7. SavedBehind'
    BY <1>1, <2>1 DEF SavedBehind
  <2>8. \A e \in Execs : data.executions[e] = "running" => job.frozen.executions[e] = "complete"
    BY <2>1, <2>2, CommitExecutions, ServiceAssumption DEF JobAlone, Running
  <2>9. \A e \in Execs : data.executions[e] = "complete" => job.frozen.executions[e] = "complete"
    BY <2>1, <2>2, CommitExecutions DEF JobAlone
  <2>10. CommandsRecorded'
    BY <1>1, <2>1, <2>3, <2>8, <2>9 DEF CommandsRecorded, JobAlone
  <2>11. RolledBackClean'
    BY <1>1, <2>1, <2>3 DEF RolledBackClean
  <2>12. QED
    BY <1>2, <2>6, <2>7, <2>10, <2>11
<1>6. QED
  BY <1>3, <1>4, <1>5

\* A command and its collector.
LEMMA CollectorExecutionInv ==
  ASSUME ExecutionInv, TypeInv', NEW e \in Execs,
         \/ ExecutionWorks(e) \/ ExecutionExits(e)
         \/ CollectorCompletes(e) \/ CollectorObserves(e)
  PROVE  ExecutionInv'
<1> USE DEF ExecutionInv, Exclusion, Recorded
<1>0. up /\ UNCHANGED <<snapshot, up, handler, workspace>>
  BY DEF ExecutionWorks, ExecutionExits, CollectorCompletes, CollectorObserves, DownInv, session,
     history, durable
<1>1. CASE ExecutionWorks(e)
  <2>1. /\ UNCHANGED <<data, saved, job>> /\ Executing(e)
        /\ \A f \in Execs \ {e} : files'[f] = files[f]
        /\ collector'[e] = "worked" /\ \A f \in Execs \ {e} : collector'[f] = collector[f]
    BY <1>1 DEF ExecutionWorks, Executing, Applied, Effects, durable, session, history, TypeInv,
       TypeOK, Workspaces
  <2>2. data.executions[e] = "running" /\ ~Busy
    BY <1>1, <2>1 DEF CollectorRuns, ExecutionWorks, JobAlone, Executing, Running
  <2>3. Exclusion' /\ SavedBehind'
    BY <1>0, <2>1 DEF DownInv, OneRunning, CollectorRuns, Executing, JobAlone, Settled, SavedBehind,
       Running, Busy, Pending
  <2>4. CommandsRecorded' /\ RolledBackClean'
    BY <1>0, <2>1, <2>2 DEF CommandsRecorded, RolledBackClean, Busy
  <2>5. QED
    BY <2>3, <2>4
<1>2. CASE ExecutionExits(e)
  <2>1. /\ UNCHANGED <<data, saved, files, job>> /\ Executing(e)
        /\ collector'[e] = "exited" /\ \A f \in Execs \ {e} : collector'[f] = collector[f]
    BY <1>2 DEF ExecutionExits, Executing, durable, session, history, TypeInv, TypeOK
  <2>2. Exclusion'
    BY <1>0, <2>1 DEF DownInv, OneRunning, CollectorRuns, Executing, JobAlone, Settled, Running,
       Busy, Pending
  <2>3. Recorded'
    BY <1>0, <2>1 DEF CommandsRecorded, RolledBackClean, SavedBehind, Busy
  <2>4. QED
    BY <2>2, <2>3
<1>3. CASE CollectorCompletes(e)
  <2>1. /\ Executing(e) /\ data.executions[e] = "running" /\ ~data.checkpointError
        /\ UNCHANGED files /\ handler = None /\ None \notin Execs
        /\ \A f \in Execs \ {e} : collector'[f] = collector[f]
    BY <1>3, ServiceAssumption DEF CollectorCompletes, CollectorRuns, Executing, Free, Keys, TypeInv,
       TypeOK
  <2>2. ~Busy /\ Running(data) \subseteq {e}
    BY <1>3, <2>1 DEF CollectorCompletes, JobAlone, OneRunning, Running
  <2>3. e \in Effects /\ e \notin Writes
    BY ServiceAssumption DEF Effects
  <2>4. CASE Recoverable
    <3>1. /\ StartJob(e) /\ UNCHANGED <<data, saved>> /\ collector'[e] = "waiting"
      BY <1>3, <2>2, <2>4 DEF CollectorCompletes, TypeInv, TypeOK
    <3>2. QED
      BY <1>0, <2>1, <2>2, <2>3, <3>1, StartJobExecutionInv
  <2>5. CASE ~Recoverable
    <3>1. /\ data' = Commit(data, e) /\ saved' = data' /\ UNCHANGED job
          /\ collector'[e] = "leaving"
      BY <1>3, <2>5 DEF CollectorCompletes, TypeInv, TypeOK
    <3>2. /\ data'.checkpointError = data.checkpointError
          /\ \A f \in Execs : data'.executions[f] = IF f = e THEN "complete" ELSE data.executions[f]
      BY <2>3, <3>1, CommitExecutions DEF TypeInv, TypeOK
    <3>3. Running(data)' = {} /\ Running(saved)' = {}
      BY <2>2, <3>1, <3>2 DEF Running
    <3>4. \A f \in Execs : Executing(f) => f = e
      BY <2>2 DEF CollectorRuns, Executing, Running
    <3>5. Exclusion'
      BY <1>0, <2>1, <2>2, <3>1, <3>3, <3>4 DEF DownInv, OneRunning, CollectorRuns, Executing,
         JobAlone, Busy, Pending, Settled, Running
    <3>6. Recorded'
      BY <1>0, <2>1, <2>2, <3>1, <3>2 DEF SavedBehind, CommandsRecorded, RolledBackClean, Busy
    <3>7. QED
      BY <3>5, <3>6
  <2>6. QED
    BY <2>4, <2>5
<1>4. CASE CollectorObserves(e)
  <2>1. /\ UNCHANGED <<files, job>> /\ handler = None /\ None \notin Execs /\ saved' = data'
        /\ collector[e] = "waiting" /\ job.key # e /\ collector'[e] = "leaving"
        /\ \A f \in Execs \ {e} : collector'[f] = collector[f]
    BY <1>4, ServiceAssumption DEF CollectorObserves, Free, Keys, TypeInv, TypeOK
  <2>2. /\ data'.checkpointError = data.checkpointError
        /\ data' # data => data.checkpointError
        /\ \A f \in Execs : data'.executions[f] \in
             {data.executions[f]} \cup (IF f = e THEN {"error"} ELSE {})
    BY <1>4 DEF CollectorObserves, TypeInv, TypeOK, SessionRecords
  <2>3. Running(data)' \subseteq Running(data) /\ Running(saved)' = Running(data)'
    BY <2>1, <2>2 DEF Running
  <2>4. DownInv' /\ OneRunning' /\ CollectorRuns' /\ Settled'
    BY <1>0, <2>1, <2>2, <2>3 DEF DownInv, OneRunning, CollectorRuns, Executing, Settled, Running,
       Busy
  <2>5. JobAlone'
    BY <2>1, <2>2, <2>3 DEF JobAlone, Busy, Pending
  <2>6. Recorded'
    BY <1>0, <2>1, <2>2 DEF SavedBehind, CommandsRecorded, RolledBackClean
  <2>7. QED
    BY <2>4, <2>5, <2>6
<1>5. QED
  BY <1>1, <1>2, <1>3, <1>4

\* What a restart says of the commands: those past the checkpoint are rolled
\* back, and those that ran without one ended in an error.
LEMMA ReconciledExecutions ==
  ASSUME ExecutionInv
  PROVE  \A e \in Execs :
           Reconciled.executions[e] =
             IF Finished THEN saved.executions[e]
             ELSE IF Resumable
                    THEN IF RolledBack(e) THEN "rolledback" ELSE snapshot.state.executions[e]
                    ELSE IF saved.executions[e] = "running" THEN "error" ELSE saved.executions[e]
<1>1. /\ saved \in SessionRecords /\ snapshot.state \in SessionRecords /\ snapshot \in Snapshots
  BY DEF ExecutionInv, TypeInv, TypeOK, Snapshots
<1> DEFINE base == IF Finished THEN [saved EXCEPT !.report = run.outcome]
                   ELSE IF Resumable THEN Restored ELSE Interrupted
<1>2. base \in SessionRecords
  <2>1. CASE Finished
    BY <1>1, <2>1 DEF SessionRecords, ExecutionInv, TypeInv, TypeOK
  <2>2. CASE ~Finished
    BY <1>1, <2>2, RestoredType, InterruptedType
  <2>3. QED
    BY <2>1, <2>2
<1>3. Reconciled = Accept(base, DOMAIN journal)
  BY DEF Reconciled
<1>4. Reconciled.executions = base.executions
  <2> HIDE DEF base
  <2>1. QED
    BY <1>2, <1>3 DEF Accept, SessionRecords
<1>5. CASE Finished
  BY <1>1, <1>4, <1>5 DEF SessionRecords
<1>6. CASE ~Finished /\ Resumable
  BY <1>1, <1>4, <1>6 DEF Restored, SessionRecords
<1>7. CASE ~Finished /\ ~Resumable
  BY <1>1, <1>4, <1>7 DEF Interrupted, SessionRecords
<1>8. QED
  BY <1>5, <1>6, <1>7

\* A process that dies and one that starts.
LEMMA LifeExecutionInv ==
  ASSUME ExecutionInv, TypeInv', Crash \/ Restart
  PROVE  ExecutionInv'
<1> USE DEF ExecutionInv, Exclusion, Recorded
<1>0. None \notin Execs /\ (\A e \in Execs : NoFiles[e] = 0)
  BY ServiceAssumption DEF Keys, NoFiles, Effects
<1>1. CASE Crash
  <2>1. /\ data' = saved /\ handler' = None /\ UNCHANGED <<saved, snapshot>>
        /\ workspace' = "none" /\ files' = NoFiles /\ job'.stage = "idle" /\ ~up'
        /\ \A e \in Execs : collector'[e] = "none"
    BY <1>1 DEF Crash, Idle, durable
  <2>2. Exclusion'
    BY <2>1 DEF DownInv, OneRunning, CollectorRuns, Executing, JobAlone, Busy, Pending, Settled,
       Running
  <2>3. Recorded'
    BY <1>0, <2>1 DEF SavedBehind, CommandsRecorded, RolledBackClean, Busy
  <2>4. QED
    BY <2>2, <2>3
<1>2. CASE Restart
  <2>1. /\ ~up /\ handler = None /\ workspace = "none" /\ files = NoFiles /\ job.stage = "idle"
        /\ \A e \in Execs : collector[e] = "none"
        /\ UNCHANGED <<handler, collector, job>> /\ saved' = data'
    BY <1>2 DEF Restart, RestartClosed, RestartResumes, RestartRefused, DownInv
  <2>2. data'.executions = Reconciled.executions
    BY <1>2, ReconciledType DEF Restart, RestartClosed, RestartResumes, RestartRefused,
       SessionRecords
  <2>3. \/ /\ UNCHANGED <<snapshot, files>> /\ workspace' = "none"
        \/ /\ RestartResumes /\ snapshot'.state = data' /\ snapshot'.files = snapshot.files
           /\ files' = snapshot.files /\ workspace' = "live" /\ Resumable /\ ~Finished
    BY <1>2, <2>1 DEF Restart, RestartClosed, RestartResumes, RestartRefused, session, Resumable,
       TypeInv, TypeOK, Snapshots
  <2>4. /\ \A e \in Execs : data'.executions[e] = "running" =>
             Finished /\ saved.executions[e] = "running"
        /\ \A e \in Execs : data'.executions[e] = "rolledback" => snapshot.files[e] = 0
    <3>1. ASSUME NEW e \in Execs, data'.executions[e] = "running"
          PROVE  Finished /\ saved.executions[e] = "running"
      BY <2>2, <3>1, ReconciledExecutions DEF Settled, Running
    <3>2. ASSUME NEW e \in Execs, data'.executions[e] = "rolledback" PROVE snapshot.files[e] = 0
      <4>1. snapshot.files[e] \in Nat
        BY DEF TypeInv, TypeOK, Snapshots, Workspaces, Effects
      <4>2. CASE saved.executions[e] = "rolledback"
        BY <4>2 DEF RolledBackClean
      <4>3. CASE snapshot.state.executions[e] # "complete"
        BY <4>1, <4>3 DEF CommandsRecorded
      <4>4. QED
        BY <2>2, <3>2, <4>2, <4>3, ReconciledExecutions DEF RolledBack
    <3>3. QED
      BY <3>1, <3>2
  <2>5. DownInv' /\ CollectorRuns' /\ JobAlone' /\ SavedBehind'
    BY <1>0, <1>2, <2>1 DEF DownInv, CollectorRuns, Executing, JobAlone, SavedBehind, Busy, Pending,
       Restart, RestartClosed, RestartResumes, RestartRefused, session
  <2>6. OneRunning'
    BY <2>1, <2>4 DEF OneRunning, Running
  <2>7. Settled'
    BY <2>1, <2>3, <2>4 DEF Settled, Running, Busy
  <2>8. CommandsRecorded'
    <3>1. RestartResumes =>
            \A e \in Execs : snapshot.files[e] > 0 => data'.executions[e] = "complete"
      BY <2>2, <2>3, ReconciledExecutions DEF CommandsRecorded, RolledBack, RestartResumes, Resumable
    <3>2. QED
      BY <2>1, <2>3, <3>1 DEF CommandsRecorded
  <2>9. RolledBackClean'
    BY <1>0, <2>1, <2>3, <2>4 DEF RolledBackClean
  <2>10. QED
    BY <2>5, <2>6, <2>7, <2>8, <2>9
<1>3. QED
  BY <1>1, <1>2

LEMMA InitExecutionInv == Init => ExecutionInv
<1> SUFFICES ASSUME Init PROVE ExecutionInv
  OBVIOUS
<1> USE DEF Init
<1>1. /\ \A e \in Execs : NewRecord.executions[e] = "none" /\ NoFiles[e] = 0
      /\ None \notin Execs
  BY ServiceAssumption DEF NewRecord, NoFiles, Effects, Keys
<1>2. Exclusion
  BY <1>1 DEF Exclusion, DownInv, OneRunning, CollectorRuns, Executing, JobAlone, Busy, Pending,
     Settled, Running, Idle
<1>3. Recorded
  BY <1>1 DEF Recorded, SavedBehind, CommandsRecorded, RolledBackClean, Idle
<1>4. QED
  BY <1>2, <1>3, InitTypeInv DEF ExecutionInv

LEMMA StepExecutionInv == ExecutionInv /\ [Next]_vars => ExecutionInv'
<1> SUFFICES ASSUME ExecutionInv, [Next]_vars PROVE ExecutionInv'
  OBVIOUS
<1>1. TypeInv'
  BY StepTypeInv DEF ExecutionInv
<1>2. CASE Handler \/ HelperSubmit
  BY <1>1, <1>2, HandlerQuiet, QuietExecutionInv, AdmittedExecutionInv DEF Handler
<1>3. CASE Job
  BY <1>1, <1>3, OtherQuiet, QuietExecutionInv, JobExecutionInv DEF Job
<1>4. ASSUME NEW e \in Execs, Execution(e) PROVE ExecutionInv'
  BY <1>1, <1>4, OtherQuiet, QuietExecutionInv, CollectorExecutionInv DEF Execution
<1>5. CASE Worker \/ Advance \/ UNCHANGED vars
  BY <1>1, <1>5, OtherQuiet, QuietExecutionInv
<1>6. CASE Crash \/ Restart
  BY <1>1, <1>6, LifeExecutionInv
<1>7. QED
  BY <1>2, <1>3, <1>4, <1>5, <1>6 DEF Next

\* Commands, writes and checkpoint jobs exclude one another, and each record
\* says of every command what its workspace holds of it.
THEOREM ExecutionInvariant == Spec => []ExecutionInv
BY InitExecutionInv, StepExecutionInv, PTL DEF Spec

\* A collector that has a result to commit finds no job in its way.
THEOREM CollectorAlwaysAccepted == Spec => []CollectorNeverRefused
<1>1. ExecutionInv => CollectorNeverRefused
  BY DEF ExecutionInv, Exclusion, CollectorRuns, JobAlone, Executing, Running, CollectorNeverRefused
<1>2. QED
  BY <1>1, ExecutionInvariant, PTL

\* A command reported as rolled back has no effect in the workspace, nor in
\* the checkpoint that a later restart puts there.
THEOREM RollbackIsClean == Spec => []RolledBackLeavesNothing
<1>1. ExecutionInv => RolledBackLeavesNothing
  BY DEF ExecutionInv, Recorded, RolledBackClean, RolledBackLeavesNothing
<1>2. QED
  BY <1>1, ExecutionInvariant, PTL

\* The record of a checkpoint has a reply for no write its archive lacks, and
\* calls every command complete that its archive has an effect of.
THEOREM CheckpointConsistent == Spec => []SnapshotMatchesRecord
<1>1. ExecutionInv /\ (Recoverable => Inv) => SnapshotMatchesRecord
  BY DEF ExecutionInv, Recorded, CommandsRecorded, Inv, AckedInv, SnapshotPresent, WritesPresent,
     WritesOf, SnapshotMatchesRecord
<1>2. CASE Recoverable
  BY <1>1, <1>2, ExecutionInvariant, DurabilityInvariant, PTL
<1>3. CASE ~Recoverable
  BY <1>1, <1>3, ExecutionInvariant, PTL
<1>4. QED
  BY <1>2, <1>3

-----------------------------------------------------------------------------
(* Replies to executions                                                   *)

\* A record that knows a command has a reply for its key, but for those whose
\* handler is still at work.
Replied(d, pending) ==
  \A e \in Execs : d.executions[e] # "none" => e \in d.requests \cup pending

RepliesKnown ==
  /\ Replied(data, {handler}) /\ Replied(saved, {}) /\ Replied(snapshot.state, {})
  /\ Busy => Replied(job.frozen, {})

\* A collector is started with a record of its command, and a command that has
\* not worked yet finds nothing of an earlier run of it in the workspace.
Fresh ==
  /\ \A e \in Execs : collector[e] # "none" => data.executions[e] # "none"
  /\ workspace = "live" => \A e \in Execs : collector[e] = "running" => files[e] = 0

ReplyInv == RepliesKnown /\ Fresh

\* A command is admitted only when the record does not know it, ...
LEMMA HandlerReplyInv ==
  ASSUME ExecutionInv, ReplyInv, Handler \/ HelperSubmit
  PROVE  ReplyInv'
<1> USE DEF ExecutionInv, TypeInv, TypeOK, ReplyInv
<1>0. None \notin Execs /\ "close" \notin Execs
  BY ServiceAssumption DEF Keys
<1>1. Free => Replied(data, {})
  BY <1>0 DEF Free, RepliesKnown, Replied
<1>2. ASSUME NEW w \in Writes, Write(w) PROVE ReplyInv'
  <2>1. /\ Free /\ w \in Effects /\ w \notin Execs /\ ~Busy
        /\ UNCHANGED <<snapshot, handler, workspace, collector>>
    BY <1>2, ServiceAssumption DEF Write, Admitted, Effects, session
  <2>2. /\ Commit(data, w).executions = data.executions
        /\ Commit(data, w).requests = data.requests \cup {w}
    BY <1>2, <2>1, CommitType, CommitExecutions
  <2>3. Replied(Commit(data, w), {})
    BY <1>1, <2>1, <2>2 DEF Replied
  <2>4. \A e \in Execs : files'[e] = files[e]
    BY <1>2, <2>1 DEF Write, Applied, Effects, Workspaces
  <2>5. CASE Recoverable
    <3>1. job'.frozen = Commit(data, w) /\ UNCHANGED <<data, saved>>
      BY <1>2, <2>5 DEF Write, StartJob
    <3>2. QED
      BY <2>1, <2>3, <2>4, <3>1 DEF RepliesKnown, Fresh
  <2>6. CASE ~Recoverable
    <3>1. data' = Commit(data, w) /\ saved' = data' /\ UNCHANGED job
      BY <1>2, <2>6 DEF Write
    <3>2. Replied(data', {handler})
      BY <2>3, <3>1 DEF Replied
    <3>3. QED
      BY <2>1, <2>2, <2>3, <2>4, <3>1, <3>2 DEF RepliesKnown, Fresh, Busy
  <2>7. QED
    BY <2>5, <2>6
<1>3. ASSUME NEW w \in Writes, WriteUnconfirmed(w) PROVE ReplyInv'
  <2>1. \A e \in Execs : files'[e] = files[e]
    BY <1>3, ServiceAssumption DEF WriteUnconfirmed, Applied, Effects, Workspaces
  <2>2. QED
    BY <1>3, <2>1 DEF WriteUnconfirmed, RepliesKnown, Fresh, Busy, durable, session
<1>4. ASSUME NEW s \in Submits, Submit(s) \/ SubmitUnconfirmed(s) PROVE ReplyInv'
  <2>1. /\ Free /\ UNCHANGED <<saved, snapshot, data, workspace, files, collector, job>>
    BY <1>4 DEF Submit, SubmitUnconfirmed, Admitted, session
  <2>2. Replied(data, {handler'})
    BY <1>1, <2>1 DEF Replied
  <2>3. QED
    BY <2>1, <2>2 DEF RepliesKnown, Fresh, Busy
<1>5. ASSUME NEW e \in Execs, Execute(e) PROVE ReplyInv'
  <2>1. /\ Free /\ e \notin data.requests /\ ~data.checkpointError /\ handler' = e
        /\ workspace = "live"
        /\ UNCHANGED <<saved, snapshot, workspace, files, job>>
    BY <1>5 DEF Execute, Admitted, durable, session
  <2>2. /\ data'.requests = data.requests
        /\ \A f \in Execs : data'.executions[f] = IF f = e THEN "running" ELSE data.executions[f]
        /\ \A f \in Execs : collector'[f] = IF f = e THEN "running" ELSE collector[f]
    BY <1>5 DEF Execute, SessionRecords
  <2>3. Replied(data', {handler'})
    BY <1>1, <2>1, <2>2 DEF Replied
  <2>4. files[e] = 0
    <3>1. data.executions[e] = "none"
      BY <1>1, <2>1 DEF Replied
    <3>2. files[e] \in Nat
      BY DEF Workspaces, Effects
    <3>3. QED
      BY <2>1, <3>1, <3>2 DEF Recorded, CommandsRecorded
  <2>5. QED
    BY <2>1, <2>2, <2>3, <2>4 DEF RepliesKnown, Fresh, Busy
<1>6. ASSUME NEW e \in Execs, Cancel(e) PROVE ReplyInv'
  BY <1>1, <1>6 DEF Cancel, RepliesKnown, Fresh, Busy, session, history
<1>7. CASE Close \/ CloseUnsent
  <2>1. /\ Free /\ data'.executions = data.executions /\ data'.requests = data.requests
        /\ workspace' = workspace
        /\ UNCHANGED <<saved, snapshot, files, collector, job>>
    BY <1>7 DEF Close, CloseUnsent, Closable, CloseSession, SendClose, durable, session,
       SessionRecords
  <2>2. Replied(data', {handler'})
    BY <1>1, <2>1 DEF Replied
  <2>3. QED
    BY <2>1, <2>2 DEF RepliesKnown, Fresh, Busy
<1>8. CASE Respond
  <2>1. /\ data'.executions = data.executions
        /\ data.requests \cup ({handler} \cap Execs) \subseteq data'.requests
        /\ saved' = data' /\ UNCHANGED <<snapshot, workspace, files, collector, job>>
    <3>1. /\ saved' = data' /\ UNCHANGED <<snapshot, workspace, files, collector, job>>
      BY <1>8 DEF Respond, session
    <3>2. CASE handler \in Submits
      BY <1>8, <3>1, <3>2, ServiceAssumption DEF Respond, Accept, SessionRecords
    <3>3. CASE handler \in Execs
      BY <1>8, <3>1, <3>3, ServiceAssumption DEF Respond, SessionRecords
    <3>4. CASE handler \notin Submits /\ handler \notin Execs
      BY <1>8, <3>1, <3>4 DEF Respond
    <3>5. QED
      BY <3>2, <3>3, <3>4
  <2>2. Replied(data', {})
    BY <2>1 DEF RepliesKnown, Replied
  <2>3. Replied(data', {handler'})
    BY <2>2 DEF Replied
  <2>4. QED
    BY <2>1, <2>2, <2>3 DEF RepliesKnown, Fresh, Busy
<1>9. CASE HelperSubmit
  BY <1>9 DEF HelperSubmit, RepliesKnown, Fresh, Busy, session
<1>10. QED
  BY <1>2, <1>3, <1>4, <1>5, <1>6, <1>7, <1>8, <1>9 DEF Handler

\* ... a checkpoint job commits what its record already knew, ...
LEMMA JobReplyInv ==
  ASSUME ExecutionInv, ReplyInv, Job
  PROVE  ReplyInv'
<1> USE DEF ExecutionInv, TypeInv, TypeOK, ReplyInv
<1>0. Free => Replied(data, {})
  BY ServiceAssumption DEF Free, Keys, RepliesKnown, Replied
<1>1. CASE JobArchive \/ JobFail
  <2>1. /\ Busy /\ job'.frozen = job.frozen
        /\ UNCHANGED <<data, saved, snapshot, handler, workspace, files, collector>>
    BY <1>1 DEF JobArchive, JobFail, Busy, durable, session
  <2>2. QED
    BY <2>1 DEF RepliesKnown, Fresh
<1>2. CASE JobManifest
  <2>1. /\ Busy /\ job'.frozen = job.frozen /\ snapshot'.state = job.frozen
        /\ UNCHANGED <<data, saved, handler, workspace, files, collector>>
    BY <1>2 DEF JobManifest, Busy, session
  <2>2. QED
    BY <2>1 DEF RepliesKnown, Fresh
<1>3. CASE JobCommit
  <2>1. /\ Free /\ Busy /\ Pending /\ saved' = data' /\ job'.frozen = job.frozen
        /\ UNCHANGED <<snapshot, handler, workspace, files, collector>>
    BY <1>3 DEF JobCommit, Busy, Pending, session
  <2>2. /\ data'.requests \in {data.requests, data.requests \cup ({job.key} \cap Writes)}
        /\ \A e \in Execs : data'.executions[e] = "none" <=> data.executions[e] = "none"
    <3>1. CASE job.stage = "committed"
      <4>1. data' = Commit(data, job.key) /\ job.key \in Effects
        BY <1>3, <2>1, <3>1 DEF JobCommit, JobShaped, Pending
      <4>2. job.key \in Execs => data.executions[job.key] = "running"
        BY <2>1 DEF Exclusion, JobAlone
      <4>3. /\ data'.requests
                  = IF job.key \in Writes THEN data.requests \cup {job.key} ELSE data.requests
            /\ \A e \in Execs : data'.executions[e] =
                 IF e = job.key /\ job.key \notin Writes THEN "complete" ELSE data.executions[e]
        <5>1. data \in SessionRecords
          OBVIOUS
        <5>2. QED
          BY ONLY <4>1, <5>1, CommitType, CommitExecutions
      <4>4. QED
        BY <4>2, <4>3
    <3>2. CASE job.stage # "committed"
      BY <1>3, <3>2 DEF JobCommit, SessionRecords
    <3>3. QED
      BY <3>1, <3>2
  <2>3. Replied(data', {})
    BY ONLY <1>0, <2>1, <2>2 DEF Replied
  <2>4. Replied(data', {handler'})
    BY ONLY <2>3 DEF Replied
  <2>5. RepliesKnown'
    BY <2>1, <2>3, <2>4 DEF RepliesKnown
  <2>6. Fresh'
    BY <2>1, <2>2 DEF Fresh
  <2>7. QED
    BY <2>5, <2>6
<1>4. CASE JobFinish
  <2>1. /\ ~Busy' /\ workspace' = workspace
        /\ UNCHANGED <<data, saved, snapshot, handler, files, collector>>
    BY <1>4 DEF JobFinish, CloseSession, SendClose, Idle, Busy, durable, session
  <2>2. QED
    BY <2>1 DEF RepliesKnown, Fresh
<1>5. QED
  BY <1>1, <1>2, <1>3, <1>4 DEF Job

\* ... and so does a collector, whose command works once.
LEMMA ExecutionReplyInv ==
  ASSUME ExecutionInv, ReplyInv, NEW e \in Execs, Execution(e)
  PROVE  ReplyInv'
<1> USE DEF ExecutionInv, TypeInv, TypeOK, ReplyInv
<1>0. /\ Free => Replied(data, {})
      /\ e \in Effects /\ e \notin Writes
  BY ServiceAssumption DEF Free, Keys, RepliesKnown, Replied, Effects
<1>1. CASE ExecutionWorks(e)
  <2>1. /\ \A f \in Execs : collector'[f] = IF f = e THEN "worked" ELSE collector[f]
        /\ \A f \in Execs \ {e} : files'[f] = files[f]
        /\ collector[e] # "none"
        /\ UNCHANGED <<data, saved, snapshot, handler, workspace, job>>
    BY <1>1 DEF ExecutionWorks, Applied, Effects, Workspaces, durable, session
  <2>2. QED
    BY <2>1 DEF RepliesKnown, Fresh, Busy
<1>2. CASE ExecutionExits(e) \/ CollectorLeaves(e)
  <2>1. /\ \A f \in Execs : collector'[f] = collector[f] \/ (f = e /\ collector[f] # "none"
                                                         /\ collector'[f] # "running")
        /\ workspace' = workspace
        /\ UNCHANGED <<data, saved, snapshot, handler, files, job>>
    BY <1>2 DEF ExecutionExits, CollectorLeaves, SendClose, durable, session
  <2>2. QED
    BY <2>1 DEF RepliesKnown, Fresh, Busy
<1>3. CASE CollectorCompletes(e) \/ CollectorObserves(e)
  <2>1. /\ Free /\ collector[e] # "none" /\ data.executions[e] # "none"
        /\ \A f \in Execs : collector'[f] = collector[f] \/ (f = e /\ collector'[f] # "running")
        /\ UNCHANGED <<snapshot, handler, workspace, files>>
    BY <1>3 DEF CollectorCompletes, CollectorObserves, Fresh, session
  <2>2. /\ Commit(data, e).requests = data.requests
        /\ \A f \in Execs :
             Commit(data, e).executions[f] = IF f = e THEN "complete" ELSE data.executions[f]
    <3>1. data \in SessionRecords
      OBVIOUS
    <3>2. QED
      BY ONLY <1>0, <3>1, CommitType, CommitExecutions
  <2>3. /\ UNCHANGED job \/ job'.frozen = Commit(data, e)
        /\ \/ UNCHANGED <<data, saved>>
           \/ /\ saved' = data' /\ data'.requests = data.requests
              /\ \A f \in Execs : data'.executions[f] = data.executions[f]
                                  \/ (f = e /\ data'.executions[f] # "none")
    <3>1. CASE CollectorCompletes(e)
      BY <2>2, <3>1 DEF CollectorCompletes, StartJob
    <3>2. CASE CollectorObserves(e)
      BY <3>2 DEF CollectorObserves, SessionRecords
    <3>3. QED
      BY <1>3, <3>1, <3>2
  <2>4. Replied(data, {}) /\ Replied(Commit(data, e), {})
    BY <1>0, <2>1, <2>2 DEF Replied
  <2>5. /\ Replied(data', {handler}) /\ Replied(saved', {})
        /\ \A f \in Execs : data.executions[f] # "none" => data'.executions[f] # "none"
    BY <2>1, <2>3, <2>4 DEF Replied, RepliesKnown
  <2>6. Busy' => Replied(job'.frozen, {})
    BY <2>3, <2>4 DEF RepliesKnown, Busy
  <2>7. QED
    BY <2>1, <2>5, <2>6 DEF RepliesKnown, Fresh
<1>4. QED
  BY <1>1, <1>2, <1>3 DEF Execution

LEMMA WorkerReplyInv ==
  ASSUME ExecutionInv, ReplyInv, Worker \/ Advance \/ UNCHANGED vars
  PROVE  ReplyInv'
<1> USE DEF ExecutionInv, TypeInv, TypeOK, ReplyInv
<1>1. CASE Completed \/ Failed
  <2>1. /\ Free /\ saved' = data' /\ data'.executions = data.executions
        /\ data.requests \subseteq data'.requests
        /\ UNCHANGED <<snapshot, handler, workspace, files, collector, job>>
    <3>1. CASE Completed
      BY <3>1 DEF Completed, Accept, SessionRecords
    <3>2. CASE Failed
      BY <3>2 DEF Failed, SessionRecords
    <3>3. QED
      BY <1>1, <3>1, <3>2
  <2>2. Replied(data', {}) /\ Replied(data', {handler})
    BY <2>1, ServiceAssumption DEF Free, Keys, RepliesKnown, Replied
  <2>3. QED
    BY <2>1, <2>2 DEF RepliesKnown, Fresh, Busy
<1>2. CASE WorkerStops \/ RunFails
  BY <1>2 DEF WorkerStops, RunFails, RepliesKnown, Fresh, Busy, durable
<1>3. CASE SaveStopped \/ StartEvaluation \/ \E outcome \in Outcomes : FinishRun(outcome)
  BY <1>3 DEF SaveStopped, StartEvaluation, FinishRun, RepliesKnown, Fresh, Busy
<1>4. CASE Advance \/ UNCHANGED vars
  BY <1>4 DEF Advance, vars, RepliesKnown, Fresh, Busy, durable, session
<1>5. QED
  BY <1>1, <1>2, <1>3, <1>4 DEF Worker

\* A restart adds the receipts of the executions http.json knows to the record
\* of the checkpoint.
LEMMA ReconciledReplied ==
  ASSUME TypeInv, RepliesKnown
  PROVE  Replied(Reconciled, {})
<1> USE DEF TypeInv, TypeOK
<1> DEFINE base == IF Finished THEN [saved EXCEPT !.report = run.outcome]
                   ELSE IF Resumable THEN Restored ELSE Interrupted
<1>1. Replied(base, {})
  <2>1. CASE Finished
    <3>1. base = [saved EXCEPT !.report = run.outcome]
      BY <2>1
    <3>2. base.executions = saved.executions /\ base.requests = saved.requests
      BY <3>1 DEF SessionRecords
    <3>3. QED
      BY <3>2 DEF RepliesKnown, Replied
  <2>2. CASE ~Finished /\ Resumable
    <3>1. base = Restored
      BY <2>2
    <3>2. /\ Restored.requests = snapshot.state.requests \cup (saved.requests \cap Execs)
          /\ \A e \in Execs : Restored.executions[e]
               = IF RolledBack(e) THEN "rolledback" ELSE snapshot.state.executions[e]
      BY DEF Restored, Snapshots, SessionRecords
    <3>3. QED
      BY <3>1, <3>2 DEF RepliesKnown, Replied, RolledBack
  <2>3. CASE ~Finished /\ ~Resumable
    <3>1. base = Interrupted
      BY <2>3
    <3>2. /\ Interrupted.requests = saved.requests
          /\ \A e \in Execs : Interrupted.executions[e]
               = IF saved.executions[e] = "running" THEN "error" ELSE saved.executions[e]
      BY DEF Interrupted, SessionRecords
    <3>3. QED
      BY <3>1, <3>2 DEF RepliesKnown, Replied
  <2>4. QED
    BY <2>1, <2>2, <2>3
<1>2. base \in SessionRecords
  BY RestoredType, InterruptedType DEF SessionRecords
<1>3. Reconciled = Accept(base, DOMAIN journal)
  BY DEF Reconciled
<1> HIDE DEF base
<1>4. /\ Reconciled.executions = base.executions
      /\ base.requests \subseteq Reconciled.requests
  BY <1>2, <1>3 DEF Accept, SessionRecords
<1>5. QED
  BY <1>1, <1>4 DEF Replied

LEMMA LifeReplyInv ==
  ASSUME ExecutionInv, ReplyInv, Crash \/ Restart
  PROVE  ReplyInv'
<1> USE DEF ExecutionInv, TypeInv, TypeOK, ReplyInv
<1>1. CASE Crash
  <2>1. /\ data' = saved /\ saved' = saved /\ snapshot' = snapshot /\ ~Busy'
        /\ workspace' # "live" /\ \A e \in Execs : collector'[e] = "none"
    BY <1>1 DEF Crash, Idle, Busy, durable
  <2>2. Replied(data', {handler'})
    BY <2>1 DEF RepliesKnown, Replied
  <2>3. QED
    BY <2>1, <2>2 DEF RepliesKnown, Fresh
<1>2. CASE Restart
  <2>1. /\ ~Busy /\ UNCHANGED <<job, collector>> /\ \A e \in Execs : collector[e] = "none"
        /\ saved' = data' /\ snapshot'.state \in {snapshot.state, data'}
    BY <1>2 DEF Restart, RestartClosed, RestartResumes, RestartRefused, Exclusion, DownInv, Busy,
       Snapshots
  <2>2. /\ data'.executions = Reconciled.executions
        /\ data'.requests = Reconciled.requests
    BY <1>2, ReconciledType DEF Restart, RestartClosed, RestartResumes, RestartRefused,
       SessionRecords
  <2>3. Replied(data', {}) /\ Replied(data', {handler'})
    BY <2>2, ReconciledReplied DEF Replied
  <2>4. QED
    BY <2>1, <2>3 DEF RepliesKnown, Fresh, Busy
<1>3. QED
  BY <1>1, <1>2

LEMMA StepReplyInv == ExecutionInv /\ ReplyInv /\ [Next]_vars => ReplyInv'
BY HandlerReplyInv, JobReplyInv, ExecutionReplyInv, WorkerReplyInv, LifeReplyInv DEF Next

LEMMA InitReplyInv == Init => ReplyInv
<1>1. \A e \in Execs : NewRecord.executions[e] = "none"
  BY DEF NewRecord
<1>2. QED
  BY <1>1 DEF Init, ReplyInv, RepliesKnown, Replied, Fresh, Busy, Idle

-----------------------------------------------------------------------------
\* As long as nothing failed, a write that took place is in the record or is
\* about to be, and one that is in an archive is in the record beside it, ...
WritesRecorded ==
  /\ workspace = "live" /\ ~data.checkpointError =>
       \A w \in Writes : files[w] > 0 => w \in data.requests \/ (Pending /\ job.key = w)
  /\ job.stage = "archiving" /\ workspace = "live" =>
       \A w \in Writes : files[w] > 0 => w \in job.frozen.requests
  /\ job.stage = "archived" =>
       \A w \in Writes : job.archive[w] > 0 => w \in job.frozen.requests
  /\ \A w \in Writes : snapshot.files[w] > 0 => w \in snapshot.state.requests

\* ... so that no workspace has an effect twice.
AtMostOnce ==
  \A x \in Effects :
    /\ files[x] <= 1 /\ snapshot.files[x] <= 1
    /\ job.stage = "archived" => job.archive[x] <= 1

OnceInv == faults = 0 => WritesRecorded /\ AtMostOnce

LEMMA QuietOnceInv ==
  ASSUME OnceInv, Quiet
  PROVE  OnceInv'
<1> SUFFICES ASSUME WritesRecorded, AtMostOnce PROVE WritesRecorded' /\ AtMostOnce'
  BY DEF OnceInv, Quiet
<1>1. WritesRecorded'
  <2>1. CASE UNCHANGED job
    BY <2>1 DEF Quiet, WritesRecorded, Pending
  <2>2. CASE ~Pending /\ job'.stage = "idle"
    BY <2>2 DEF Quiet, WritesRecorded, Pending
  <2>3. QED
    BY <2>1, <2>2 DEF Quiet
<1>2. AtMostOnce'
  BY DEF Quiet, AtMostOnce
<1>3. QED
  BY <1>1, <1>2

\* A write and a command take place where they have not yet, a retry of an
\* unconfirmed write only after a fault.
LEMMA AdmittedOnceInv ==
  ASSUME ExecutionInv, ReplyInv, OnceInv,
         \/ \E w \in Writes : Write(w) \/ WriteUnconfirmed(w)
         \/ \E e \in Execs : Execute(e) \/ ExecutionWorks(e) \/ ExecutionExits(e)
  PROVE  OnceInv'
<1> USE DEF ExecutionInv, TypeInv, TypeOK, Exclusion
<1>1. ASSUME NEW w \in Writes, Write(w) PROVE OnceInv'
  <2> SUFFICES ASSUME WritesRecorded, AtMostOnce PROVE WritesRecorded' /\ AtMostOnce'
    BY <1>1 DEF OnceInv, Write
  <2>1. /\ workspace = "live" /\ ~data.checkpointError /\ ~Pending /\ w \notin data.requests
        /\ w \in Effects /\ UNCHANGED <<workspace, snapshot>>
    BY <1>1 DEF Write, Admitted, Busy, Pending, Effects, session
  <2>2. \A x \in Effects : files'[x] = IF x = w THEN files[x] + 1 ELSE files[x]
    BY <1>1, <2>1 DEF Write, Applied, Workspaces
  <2>3. files[w] = 0
    <3>1. files[w] \in Nat
      BY <2>1 DEF Workspaces
    <3>2. QED
      BY <2>1, <3>1 DEF WritesRecorded
  <2>4. \A x \in Writes : files'[x] > 0 => x \in data.requests \cup {w}
    BY <2>1, <2>2 DEF WritesRecorded, Effects
  <2>5. CASE Recoverable
    <3>1. /\ job'.stage = "archiving" /\ job'.key = w /\ job'.frozen = Commit(data, w)
          /\ UNCHANGED data
      BY <1>1, <2>5 DEF Write, StartJob
    <3>2. job'.frozen.requests = data.requests \cup {w}
      BY <2>1, <3>1, CommitType
    <3>3. QED
      BY <2>1, <2>2, <2>3, <2>4, <3>1, <3>2 DEF WritesRecorded, AtMostOnce, Pending
  <2>6. CASE ~Recoverable
    <3>1. UNCHANGED job /\ data' = Commit(data, w)
      BY <1>1, <2>6 DEF Write
    <3>2. data'.requests = data.requests \cup {w}
      BY <2>1, <3>1, CommitType
    <3>3. QED
      BY <2>1, <2>2, <2>3, <2>4, <3>1, <3>2 DEF WritesRecorded, AtMostOnce, Pending
  <2>7. QED
    BY <2>5, <2>6
<1>2. ASSUME NEW w \in Writes, WriteUnconfirmed(w) PROVE OnceInv'
  BY <1>2 DEF WriteUnconfirmed, Fault, OnceInv
<1>3. ASSUME NEW e \in Execs, Execute(e) \/ ExecutionExits(e) PROVE OnceInv'
  <2>1. /\ UNCHANGED <<snapshot, files, workspace, job, faults>>
        /\ data'.requests = data.requests /\ data'.checkpointError = data.checkpointError
    BY <1>3 DEF Execute, ExecutionExits, durable, session, history, SessionRecords
  <2>2. QED
    BY <2>1 DEF OnceInv, WritesRecorded, AtMostOnce, Pending
<1>4. ASSUME NEW e \in Execs, ExecutionWorks(e) PROVE OnceInv'
  <2>1. /\ UNCHANGED <<snapshot, workspace, job, data, faults>> /\ files[e] = 0
        /\ e \in Effects /\ e \notin Writes
    BY <1>4, ServiceAssumption DEF ExecutionWorks, ReplyInv, Fresh, durable, session, history,
       Effects
  <2>2. \A x \in Effects : files'[x] = IF x = e THEN 1 ELSE files[x]
    BY <1>4, <2>1 DEF ExecutionWorks, Applied, Workspaces
  <2>3. QED
    BY <2>1, <2>2 DEF OnceInv, WritesRecorded, AtMostOnce, Pending, Effects
<1>5. QED
  BY <1>1, <1>2, <1>3, <1>4

\* A job archives each effect with its reply, and tells the record of it.
LEMMA JobOnceInv ==
  ASSUME ExecutionInv, OnceInv,
         \/ JobArchive \/ JobFail \/ JobManifest \/ JobCommit
         \/ \E e \in Execs : CollectorCompletes(e) \/ CollectorObserves(e)
  PROVE  OnceInv'
<1> USE DEF ExecutionInv, TypeInv, TypeOK, Exclusion
<1> SUFFICES ASSUME WritesRecorded, AtMostOnce PROVE WritesRecorded' /\ AtMostOnce'
  BY DEF OnceInv, JobArchive, JobFail, JobManifest, JobCommit, CollectorCompletes, CollectorObserves,
     Fault, history
<1>1. UNCHANGED <<files, workspace>>
  BY DEF JobArchive, JobFail, JobManifest, JobCommit, CollectorCompletes, CollectorObserves, session
<1>2. CASE JobArchive
  <2>1. /\ job.stage = "archiving" /\ workspace = "live" /\ UNCHANGED <<data, snapshot>>
        /\ job' = [job EXCEPT !.stage = "archived", !.archive = files]
    BY <1>2 DEF JobArchive, durable
  <2>2. /\ job'.stage = "archived" /\ job'.archive = files /\ job'.frozen = job.frozen
        /\ job'.key = job.key
    BY <2>1
  <2>3. QED
    BY <1>1, <2>1, <2>2 DEF WritesRecorded, AtMostOnce, Pending
<1>3. CASE JobFail
  <2>1. /\ Pending /\ UNCHANGED <<data, snapshot>> /\ job' = [job EXCEPT !.stage = "failed"]
    BY <1>3 DEF JobFail, Pending, durable
  <2>2. job'.stage = "failed" /\ job'.key = job.key
    BY <2>1
  <2>3. QED
    BY <1>1, <2>1, <2>2 DEF WritesRecorded, AtMostOnce, Pending
<1>4. CASE JobManifest
  <2>1. /\ job.stage = "archived" /\ UNCHANGED data
        /\ snapshot'.files = job.archive /\ snapshot'.state = job.frozen
        /\ job' = [job EXCEPT !.stage = "committed"]
    BY <1>4 DEF JobManifest
  <2>2. job'.stage = "committed" /\ job'.key = job.key
    BY <2>1
  <2>3. QED
    BY <1>1, <2>1, <2>2 DEF WritesRecorded, AtMostOnce, Pending
<1>5. CASE JobCommit
  <2>1. /\ Pending /\ UNCHANGED snapshot /\ job' = [job EXCEPT !.stage = "finishing"]
    BY <1>5 DEF JobCommit, Pending
  <2>2. job'.stage = "finishing"
    BY <2>1
  <2>3. \/ data'.checkpointError
        \/ data.requests \cup ({job.key} \cap Writes) \subseteq data'.requests
    <3>1. job.key \in Effects
      BY <2>1 DEF Pending, JobShaped
    <3>2. CASE job.stage = "committed"
      <4>1. data' = Commit(data, job.key)
        BY <1>5, <3>2 DEF JobCommit
      <4>2. Commit(data, job.key).requests
              = IF job.key \in Writes THEN data.requests \cup {job.key} ELSE data.requests
        BY <3>1, CommitType
      <4>3. QED
        BY <4>1, <4>2
    <3>3. CASE job.stage = "failed"
      BY <1>5, <3>3 DEF JobCommit, SessionRecords
    <3>4. QED
      BY <1>5, <3>2, <3>3 DEF JobCommit
  <2>4. ~data.checkpointError
    BY <2>1 DEF JobAlone
  <2>5. QED
    BY <1>1, <2>1, <2>2, <2>3, <2>4 DEF WritesRecorded, AtMostOnce, Pending
<1>6. ASSUME NEW e \in Execs, CollectorCompletes(e) PROVE WritesRecorded' /\ AtMostOnce'
  <2>1. e \in Effects /\ e \notin Writes /\ ~data.checkpointError /\ UNCHANGED snapshot
    BY <1>6, ServiceAssumption DEF Effects, CollectorCompletes, CollectorRuns, Executing
  <2>2. Commit(data, e).requests = data.requests /\ ~Commit(data, e).checkpointError
    <3>1. Commit(data, e).requests = data.requests
      BY <2>1, CommitType
    <3>2. Commit(data, e).checkpointError = data.checkpointError
      BY <2>1, CommitExecutions
    <3>3. QED
      BY <2>1, <3>1, <3>2
  <2>3. CASE Recoverable /\ ~Busy
    <3>1. /\ job'.stage = "archiving" /\ job'.frozen = Commit(data, e) /\ UNCHANGED data
          /\ ~Pending
      BY <1>6, <2>3 DEF CollectorCompletes, StartJob, Busy, Pending
    <3>2. QED
      BY <1>1, <2>1, <2>2, <3>1 DEF WritesRecorded, AtMostOnce, Pending
  <2>4. CASE ~(Recoverable /\ ~Busy)
    <3>1. UNCHANGED job /\ data' \in {data, Commit(data, e)}
      BY <1>6, <2>4 DEF CollectorCompletes
    <3>2. QED
      BY <1>1, <2>1, <2>2, <3>1 DEF WritesRecorded, AtMostOnce, Pending
  <2>5. QED
    BY <2>3, <2>4
<1>7. ASSUME NEW e \in Execs, CollectorObserves(e) PROVE WritesRecorded' /\ AtMostOnce'
  <2>1. /\ UNCHANGED <<job, snapshot>> /\ data'.requests = data.requests
        /\ data'.checkpointError = data.checkpointError
    BY <1>7 DEF CollectorObserves, SessionRecords
  <2>2. QED
    BY <1>1, <2>1 DEF WritesRecorded, AtMostOnce, Pending
<1>8. QED
  BY <1>2, <1>3, <1>4, <1>5, <1>6, <1>7

\* A resumed session starts from the checkpoint, effects and replies alike.
LEMMA LifeOnceInv ==
  ASSUME ExecutionInv, OnceInv, Crash \/ Restart
  PROVE  OnceInv'
<1> USE DEF ExecutionInv, TypeInv, TypeOK, Exclusion
<1> SUFFICES ASSUME WritesRecorded, AtMostOnce PROVE WritesRecorded' /\ AtMostOnce'
  BY DEF OnceInv, Crash, Restart, RestartClosed, RestartResumes, RestartRefused, Fault, history
<1>0. \A x \in Effects : NoFiles[x] = 0
  BY DEF NoFiles
<1>1. CASE Crash
  BY <1>0, <1>1 DEF Crash, Idle, WritesRecorded, AtMostOnce, durable
<1>2. CASE RestartResumes
  <2>1. /\ data' = Reconciled /\ snapshot'.state = data' /\ snapshot'.files = snapshot.files
        /\ files' = snapshot.files /\ UNCHANGED job /\ job.stage = "idle"
        /\ ~Finished /\ Resumable
    BY <1>2 DEF RestartResumes, Resumable, DownInv, Snapshots
  <2>2. snapshot.state.requests \cap Writes \subseteq data'.requests
    BY <2>1, ReconciledType
  <2>3. QED
    BY <2>1, <2>2 DEF WritesRecorded, AtMostOnce
<1>3. CASE RestartClosed \/ RestartRefused
  <2>1. /\ UNCHANGED <<snapshot, files, workspace, job>>
        /\ workspace = "none" /\ job.stage = "idle"
    BY <1>3 DEF RestartClosed, RestartRefused, DownInv, session
  <2>2. QED
    BY <2>1 DEF WritesRecorded, AtMostOnce
<1>4. QED
  BY <1>1, <1>2, <1>3 DEF Restart

LEMMA StepOnceInv == ExecutionInv /\ ReplyInv /\ OnceInv /\ [Next]_vars => OnceInv'
<1> SUFFICES ASSUME ExecutionInv, ReplyInv, OnceInv, [Next]_vars PROVE OnceInv'
  OBVIOUS
<1>1. CASE Handler \/ HelperSubmit
  BY <1>1, HandlerQuiet, QuietOnceInv, AdmittedOnceInv DEF Handler
<1>2. CASE Job
  BY <1>2, OtherQuiet, QuietOnceInv, JobOnceInv DEF Job
<1>3. ASSUME NEW e \in Execs, Execution(e) PROVE OnceInv'
  BY <1>3, OtherQuiet, QuietOnceInv, AdmittedOnceInv, JobOnceInv DEF Execution
<1>4. CASE Worker \/ Advance \/ UNCHANGED vars
  BY <1>4, OtherQuiet, QuietOnceInv
<1>5. CASE Crash \/ Restart
  BY <1>5, LifeOnceInv
<1>6. QED
  BY <1>1, <1>2, <1>3, <1>4, <1>5 DEF Next

\* Neither a retried key nor a restart repeats an effect on the workspace, as
\* long as no fault hid from the service that it took place.
THEOREM EffectsTakePlaceOnce == Spec => []EffectsOnce
<1>1. Init => OnceInv
  <2>1. \A x \in Effects : NoFiles[x] = 0
    BY DEF NoFiles
  <2>2. Writes \subseteq Effects
    BY DEF Effects
  <2>3. QED
    BY <2>1, <2>2 DEF Init, OnceInv, WritesRecorded, AtMostOnce, Idle
<1>2. ExecutionInv /\ OnceInv => EffectsOnce
  BY DEF OnceInv, AtMostOnce, EffectsOnce
<1>3. QED
  BY <1>1, <1>2, ExecutionInvariant, InitReplyInv, StepReplyInv, StepOnceInv, PTL DEF Spec
=============================================================================
