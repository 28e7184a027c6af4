----------------------------- MODULE EvaluationRun -----------------------------
(* The evaluation of one candidate: the jobs of an accepted plan run in order, *)
(* neighbours of one backend together, until a result is in for each; the      *)
(* report draws the outcome, the physical verdict and the score from them.     *)
EXTENDS EvaluationPlans

CONSTANTS
  Plans,       \* declarations to evaluate
  Raw(_, _),   \* what a backend may return for a job of a plan
  Capacity     \* [backend -> jobs it runs at a time]

VARIABLES
  plan,        \* the parsed plan
  results,     \* [id -> [status, measured]] of the jobs that have a result
  batch,       \* [position -> result or None] of the jobs under way
  cancelled, late

evaluationVars == <<plan, results, batch, cancelled, late>>

EmptyMap == [x \in {} |-> None]
Init ==
  /\ \E p \in Plans: Accepted(p) /\ plan = Parsed(p)
  /\ results = EmptyMap /\ batch = EmptyMap
  /\ cancelled = FALSE /\ late = FALSE

Position == Cardinality(DOMAIN results) + 1
Done == Position > Len(plan.jobs)
Passed(id) == id \in DOMAIN results /\ results[id].status = "passed"
Ready(j) == \A d \in j.requires: Passed(d)
Conclude(status) == [status |-> status, measured |-> None]
Recorded(found) ==
  [id \in DOMAIN results \cup DOMAIN found |->
     IF id \in DOMAIN results THEN results[id] ELSE found[id]]

\* A job behind one that did not pass gets no tool run.
Block ==
  /\ ~Done /\ batch = EmptyMap
  /\ LET j == plan.jobs[Position] IN
       ~Ready(j) /\ results' = Recorded([id \in {j.id} |-> Conclude("blocked")])
  /\ UNCHANGED <<plan, batch, cancelled, late>>

\* The longest run of ready neighbours on one backend, within its capacity.
Together(last) ==
  \A k \in Position..last:
    Ready(plan.jobs[k]) /\ plan.jobs[k].backend = plan.jobs[Position].backend
Batches ==
  {last \in Position..Len(plan.jobs):
     Together(last) /\ last - Position < Capacity[plan.jobs[Position].backend]}
Start ==
  /\ ~Done /\ batch = EmptyMap /\ Batches # {}
  /\ LET last == CHOOSE k \in Batches: \A n \in Batches: n <= k
     IN batch' = [k \in Position..last |-> None]
  /\ UNCHANGED <<plan, results, cancelled, late>>

\* _validate_result: anything a backend may not return is an evaluator error.
Validated(raw) ==
  IF \/ raw.status \notin {"passed", "failed", "error"}
     \/ raw.status = "passed" /\ ~raw.outputs
     \/ raw.status # "passed" /\ (raw.outputs \/ raw.measured # None \/ ~raw.reason)
     \/ ~raw.evidence
  THEN Conclude("error")
  ELSE [status |-> raw.status, measured |-> raw.measured]
RunJob(k) ==
  /\ k \in DOMAIN batch /\ batch[k] = None
  /\ \E raw \in Raw(plan, plan.jobs[k]):
       batch' = [batch EXCEPT ![k] =
         IF late \/ cancelled THEN Conclude("error") ELSE Validated(raw)]
  /\ UNCHANGED <<plan, results, cancelled, late>>
Archive ==
  /\ batch # EmptyMap /\ \A k \in DOMAIN batch: batch[k] # None
  /\ results' = Recorded([id \in {plan.jobs[k].id: k \in DOMAIN batch} |->
                            batch[CHOOSE k \in DOMAIN batch: plan.jobs[k].id = id]])
  /\ batch' = EmptyMap
  /\ UNCHANGED <<plan, cancelled, late>>
Cancel == ~Done /\ ~cancelled /\ cancelled' = TRUE /\ UNCHANGED <<plan, results, batch, late>>
Expire == ~Done /\ ~late /\ late' = TRUE /\ UNCHANGED <<plan, results, batch, cancelled>>

Next == Block \/ Start \/ (\E k \in DOMAIN batch: RunJob(k)) \/ Archive \/ Cancel \/ Expire

\* The report. An observation is the measurement of one job against the bounds.
Metrics == ToSet(plan.metrics)
Statuses == {results[id].status: id \in DOMAIN results}
Within(m, value) == (m.lower # None => value >= m.lower) /\ (m.upper # None => value <= m.upper)
Observation(m, k) ==
  LET r == results[m.observations[k]] IN
  IF r.status # "passed" THEN "blocked"
  ELSE IF r.measured = None \/ r.measured.unit # m.unit THEN "error"
  ELSE IF Within(m, r.measured.value) THEN "passed" ELSE "failed"
Observations(m) == {Observation(m, k): k \in 1..Len(m.observations)}
MetricStatus(m) ==
  IF "error" \in Observations(m) THEN "error"
  ELSE IF "blocked" \in Observations(m) THEN "blocked"
  ELSE IF "failed" \in Observations(m) THEN "failed"
  ELSE "passed"

GateStatuses == {results[j.id].status: j \in GateJobs(plan.jobs, Gates \cup {"constraint"})}
PhysicalValid ==
  IF plan.mode = "characterization" THEN "none"
  ELSE IF "failed" \in GateStatuses THEN "no"
  ELSE IF GateStatuses \subseteq {"passed"} THEN "yes" ELSE "none"
AllStatuses == Statuses \cup {MetricStatus(m): m \in Metrics}
FirstOutcome ==
  IF "failed" \in AllStatuses THEN "failed"
  ELSE IF "error" \in AllStatuses THEN "error"
  ELSE IF "blocked" \in AllStatuses THEN "incomplete" ELSE "passed"

\* The score: a rejection is zero before anything unknown makes it unknown.
\* A mutant asks what is unknown first.
JobStateUnknownFirst ==
  IF Statuses \cap {"error", "blocked"} # {} THEN "none"
  ELSE IF "failed" \in Statuses THEN "zero" ELSE "one"
JobState ==
  IF "failed" \in Statuses THEN "zero"
  ELSE IF Statuses \subseteq {"passed"} THEN "one" ELSE "none"
AllObservations == UNION {Observations(m): m \in Metrics}
Value(m, k) == results[m.observations[k]].measured.value
Qualities(m) == {relative_quality(m, Value(m, k), m.baseline[k]): k \in 1..Len(m.baseline)}
Worst(qs) == CHOOSE q \in qs: \A p \in qs: AtMost(q, p)
AreaQuality(m) == Fraction(m.target, Value(m, 1))
Scored == {m \in Metrics: m.area \/ m.baseline # << >>}
Weighted == {[weight |-> m.weight, quality |-> Credited(IF m.area THEN AreaQuality(m) ELSE Worst(Qualities(m)))]:
               m \in Scored}
score_layout ==
  IF JobState = "zero" \/ "failed" \in AllObservations THEN "zero"
  ELSE IF \/ JobState = "none" \/ ~(AllObservations \subseteq {"passed"})
          \/ \E m \in Scored: IF m.area THEN Value(m, 1) <= 0 ELSE None \in Qualities(m)
       THEN "none"
  ELSE WeightedGeometric(Weighted)
Score == IF plan.scored THEN score_layout ELSE "none"

ScoringError == plan.scored /\ Score = "none"
Outcome == IF ScoringError THEN "error" ELSE FirstOutcome
TaskSuccess ==
  IF plan.mode # "post_layout" \/ ScoringError THEN "none"
  ELSE IF PhysicalValid = "no" \/ FirstOutcome = "failed" THEN "no"
  ELSE IF FirstOutcome = "passed" THEN "yes" ELSE "none"

\* A completed check that rejected the candidate, or a measurement out of bounds.
Rejected == "failed" \in Statuses \cup AllObservations
\* A metric one of whose conditions is out of bounds while another is unknown.
Mixed == \E m \in Metrics: "failed" \in Observations(m) /\ MetricStatus(m) # "failed"

\* The verdicts of a report agree, whichever job failed, crashed, was cancelled
\* or measured nonsense: what is rejected scores zero and is never lost behind
\* an error elsewhere (but for Mixed metrics), what scores more passed all of it,
\* and what nobody rejected is never called failed.
VerdictConsistent ==
  Done =>
    /\ plan.scored /\ Rejected => Score = "zero"
    /\ Rejected /\ ~Mixed => Outcome = "failed"
    /\ Outcome = "failed" => Rejected /\ TaskSuccess # "yes"
    /\ PhysicalValid = "no" => Outcome = "failed"
    /\ \/ Score \in {"partial", "full"}
       \/ TaskSuccess = "yes" \/ Outcome = "passed"
       => /\ Statuses = {"passed"} /\ AllObservations \subseteq {"passed"}
          /\ plan.mode # "characterization" => PhysicalValid = "yes"
\* Whatever performance is measured after layout was measured on a candidate
\* that passed its artifact, DRC and LVS checks.
GatedPerformance ==
  plan.mode = "post_layout" =>
    \A m \in Performance(plan): \A k \in 1..Len(m.observations):
      Passed(m.observations[k]) => \A g \in GateJobs(plan.jobs, Gates): Passed(g.id)
=============================================================================
