------------------------------- MODULE FrozenRun -------------------------------
(* What the acceptance of a finished run establishes: its report, its journal, *)
(* its evaluation and the copies in its archive are held against the task,     *)
(* the agent and the framework that were frozen before it started.             *)
EXTENDS Integers, Sequences

CONSTANT None

\* Files are known by their digests; an archive maps a digest to the digest of
\* the bytes that are really there, so an intact one is a fixed point.
Intact(archive, ref) == ref \in DOMAIN archive /\ archive[ref] = ref
Within(small, large) == \A k \in DOMAIN small: k \in DOMAIN large /\ small[k] = large[k]

\* recover_submissions: the journal's last accepted candidate, each one intact.
Accepted(run) == {i \in DOMAIN run.journal.submissions: run.journal.submissions[i].accepted}
Latest(run) == {i \in Accepted(run): \A k \in Accepted(run): k <= i}
LastAccepted(run) == run.journal.submissions[CHOOSE i \in Latest(run): TRUE]
Recovered(run) ==
  [intact |-> \A i \in Accepted(run):
                LET s == run.journal.submissions[i] IN
                Intact(run.archive, s.candidate) /\ s.receipt = s.candidate,
   candidate |-> IF Accepted(run) = {} THEN None ELSE LastAccepted(run).candidate]

\* ---- The conditions the run was started under.
KindMatches(report, agent) ==
  IF agent.inference = None THEN report.kind = "offline"
  ELSE report.kind \in {"offline", agent.kind}
Conditions(report, frozen) ==
  /\ report.phase = "finished"
  /\ report.conditions = frozen.conditions
  /\ KindMatches(report, frozen.agent)
Budgeted(report, frozen) ==
  \A k \in DOMAIN frozen.agent.budget:
    /\ k \in DOMAIN report.budget
    /\ report.budget[k] = IF k = "wall" /\ frozen.hours # None THEN frozen.hours ELSE frozen.agent.budget[k]
InferenceBound(report, agent) ==
  IF agent.inference = None THEN report.inference = None
  ELSE /\ report.inference # None
       /\ report.inference.profile = agent.inference.profile
       /\ report.inference.kind = report.kind
       /\ report.inference.model = agent.inference.model

\* ---- The evaluation and what it read.
Declared(frozen, report, reference) ==
  CASE reference = "candidate" -> report.candidate
    [] reference = "task" -> frozen.description
    [] OTHER -> IF reference \in DOMAIN frozen.inputs THEN frozen.inputs[reference] ELSE None
EvaluationInputs(run, frozen) ==
  LET plan == frozen.inputs["evaluation"]
      inputs == run.evaluation.inputs
  IN /\ Intact(frozen.archive, plan) /\ plan \in DOMAIN frozen.plans
     /\ run.evaluation.plan = plan /\ Intact(run.archive, plan)
     /\ DOMAIN inputs = frozen.plans[plan]
     /\ \A r \in DOMAIN inputs:
          /\ Declared(frozen, run.report, r) # None /\ inputs[r] = Declared(frozen, run.report, r)
          /\ Intact(run.archive, inputs[r])
EvaluationBound(run, frozen) ==
  run.report.evaluation # None =>
    /\ run.report.evaluation = run.evaluation.digest
    /\ Within(run.evaluation.engine, frozen.implementation)
    /\ run.evaluation.task = frozen.conditions.task /\ run.evaluation.backends = frozen.backends
    /\ run.evaluation.witnessed = frozen.witnessed
    /\ EvaluationInputs(run, frozen)

\* ---- The checks the agent asked for while it worked.
CheckBound(run, frozen, i) ==
  LET check == run.report.process[i] IN
  /\ check.sequence = i
  /\ check.candidate # None => Intact(run.archive, check.candidate)
  /\ check.report = None => check.copy = None
  /\ check.report # None =>
       /\ Intact(run.archive, check.report) /\ check.copy = check.report
       /\ LET evaluated == run.opened[check.report] IN
          /\ evaluated.task = frozen.conditions.task /\ evaluated.backends = frozen.backends
          /\ Within(evaluated.engine, frozen.implementation)
          /\ check.candidate # None /\ evaluated.candidate = check.candidate
          /\ check.verdict = evaluated.verdict
ProcessBound(run, frozen) ==
  IF "process" \notin frozen.capabilities THEN run.report.process = None
  ELSE /\ run.report.process # None
       /\ \A i \in DOMAIN run.report.process: CheckBound(run, frozen, i)

\* ---- The opinions it gave on the benchmark, by their receipts in the journal.
FeedbackBound(run, frozen) ==
  LET receipts == run.journal.feedback IN
  /\ run.report.events = run.journal.digest
  /\ IF "feedback" \notin frozen.capabilities THEN run.report.feedback = None /\ receipts = << >>
     ELSE /\ run.report.feedback = receipts
          /\ \A i \in DOMAIN receipts:
               /\ receipts[i].sequence = i /\ receipts[i].task = frozen.conditions.task
               /\ receipts[i].elapsed < run.report.budget.wall
               /\ Intact(run.archive, receipts[i].content)

verify_frozen_run(run, frozen) ==
  /\ Conditions(run.report, frozen)
  /\ Within(run.report.implementation, frozen.implementation)
  /\ Intact(frozen.archive, frozen.description)
  /\ Budgeted(run.report, frozen)
  /\ run.report.files = frozen.files /\ run.report.inputs = frozen.inputs
  /\ InferenceBound(run.report, frozen.agent)
  /\ run.report.events = run.journal.digest
  /\ Recovered(run).intact /\ Recovered(run).candidate = run.report.candidate
  /\ EvaluationBound(run, frozen)
  /\ ProcessBound(run, frozen)
  /\ FeedbackBound(run, frozen)

\* The result the service returned, held against the run it is about.
verify_service_result(run, result, frozen) ==
  LET report == run.report IN
  /\ result.outcome = report.outcome /\ result.score = report.score
  /\ result.limits = frozen.limits /\ result.tool = frozen.conditions.image
  /\ report.conditions.image = frozen.conditions.image /\ report.files = frozen.files
  /\ Recovered(run).intact /\ Recovered(run).candidate = report.candidate
  /\ report.candidate # None => report.candidate = result.candidate
  /\ report.evaluation # None =>
       /\ report.evaluation = run.evaluation.digest
       /\ run.evaluation.plan = frozen.inputs["evaluation"]
       /\ run.evaluation.backends = frozen.backends
       /\ \A r \in DOMAIN run.evaluation.inputs \ {"candidate"}:
            run.evaluation.inputs[r] = Declared(frozen, report, r)
       /\ run.evaluation.score = result.score

-----------------------------------------------------------------------------
\* An accepted run's chain has no gap: the bytes that were evaluated are those
\* of the last submission the journal committed, read with the frozen plan, the
\* frozen inputs and a frozen evaluator; and each check's verdict is one of the
\* candidate it stands beside. This relates files no single test of the
\* verification puts out of step with each other.
Bytes(archive, ref) == IF ref \in DOMAIN archive THEN archive[ref] ELSE None
Chained(run, frozen) ==
  /\ run.report.evaluation # None =>
       /\ Bytes(run.archive, run.evaluation.plan) = Bytes(frozen.archive, frozen.inputs["evaluation"])
       /\ \A r \in DOMAIN run.evaluation.inputs:
            Bytes(run.archive, run.evaluation.inputs[r]) =
              IF r = "candidate" THEN LastAccepted(run).receipt
              ELSE IF r = "task" THEN frozen.description ELSE frozen.inputs[r]
       /\ \A n \in DOMAIN run.evaluation.engine: run.evaluation.engine[n] = frozen.implementation[n]
  /\ run.report.process # None =>
       \A i \in DOMAIN run.report.process:
         LET check == run.report.process[i] IN
         check.report # None =>
           /\ run.opened[Bytes(run.archive, check.report)].candidate = Bytes(run.archive, check.candidate)
           /\ run.opened[Bytes(run.archive, check.report)].verdict = check.verdict
\* And the score a service returned is that of the evaluation of the candidate
\* it names, for the same run.
Returned(run, result, frozen) ==
  run.report.evaluation # None =>
    /\ result.score = run.evaluation.score
    /\ run.report.candidate # None => result.candidate = Recovered(run).candidate
RunBound(run, result, frozen) ==
  /\ verify_frozen_run(run, frozen) => Chained(run, frozen)
  /\ verify_service_result(run, result, frozen) => Returned(run, result, frozen)
=============================================================================
