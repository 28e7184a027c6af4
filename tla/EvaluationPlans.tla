---------------------------- MODULE EvaluationPlans ----------------------------
(* Which evaluation plans are accepted, and in which order their jobs run. A   *)
(* plan is [mode, jobs, metrics, scored]; a job names the references it reads, *)
(* "candidate" or a producer's id, and the jobs it requires besides. Spelling, *)
(* units, digests and the rationale texts of the declaration are left out.     *)
EXTENDS ScoreQuality, SequencesExt

JobIds(jobs) == {jobs[i].id: i \in 1..Len(jobs)}
JobOf(jobs, id) == CHOOSE j \in ToSet(jobs): j.id = id
Producers(jobs, id) == JobOf(jobs, id).inputs \cap JobIds(jobs)
Dependencies(jobs, id) == JobOf(jobs, id).requires \cup Producers(jobs, id)

\* The jobs with these ids, in the order of the declaration.
Picked(jobs, ids) ==
  LET picked[i \in 0..Len(jobs)] ==
        IF i = 0 THEN << >>
        ELSE picked[i - 1] \o IF jobs[i].id \in ids THEN <<jobs[i]>> ELSE << >>
  IN picked[Len(jobs)]

\* Rounds of ready jobs; a job that is never ready is on a cycle, or behind one.
ReadyAfter(jobs, before) ==
  {id \in JobIds(jobs) \ before: Dependencies(jobs, id) \subseteq before}
OrderJobs(jobs) ==
  LET round[n \in 0..Len(jobs)] ==
        IF n = 0 THEN << >>
        ELSE round[n - 1] \o Picked(jobs, ReadyAfter(jobs, JobIds(round[n - 1])))
  IN round[Len(jobs)]
Acyclic(jobs) == JobIds(OrderJobs(jobs)) = JobIds(jobs)

\* Everything a job depends on along the edges: a function from a job to a set.
Closure(edges) ==
  LET reach[n \in 0..Cardinality(DOMAIN edges)] ==
        IF n = 0 THEN edges
        ELSE [id \in DOMAIN edges |-> edges[id] \cup UNION {reach[n - 1][d]: d \in edges[id]}]
  IN reach[Cardinality(DOMAIN edges)]
Ancestors(jobs) == Closure([id \in JobIds(jobs) |-> Dependencies(jobs, id)])
DataAncestors(jobs) == Closure([id \in JobIds(jobs) |-> Producers(jobs, id)])

Gates == {"artifact", "drc", "lvs"}
GateJobs(jobs, gates) == {j \in ToSet(jobs): j.gate \in gates}
Performance(plan) == {m \in ToSet(plan.metrics): m.category = "performance"}
\* Jobs that a post-layout metric is computed from, and what feeds a simulation.
Lineage(jobs, id) == DataAncestors(jobs)[id] \cup {id}
Simulations(jobs, id) == {s \in Lineage(jobs, id): JobOf(jobs, s).stage = "simulate"}
FedByCandidate(jobs, s) ==
  \E x \in DataAncestors(jobs)[s]:
    JobOf(jobs, x).stage = "extract" /\ "candidate" \in JobOf(jobs, x).inputs

ExtractionGated(jobs) ==
  \A j \in ToSet(jobs): j.stage = "extract" =>
    {g.id: g \in GateJobs(jobs, Gates)} \subseteq Ancestors(jobs)[j.id]

ValidMode(plan) ==
  LET jobs == plan.jobs IN
  /\ plan.mode # "characterization" =>
       \A gate \in Gates: \E j \in ToSet(jobs):
         GateJobs(jobs, {gate}) = {j} /\ "candidate" \in j.inputs
  /\ plan.mode = "post_layout" =>
       /\ \A j \in ToSet(jobs): j.stage = "simulate" => Producers(jobs, j.id) # {}
       /\ ExtractionGated(jobs)
       /\ Performance(plan) # {}
       /\ \A m \in Performance(plan): \A k \in 1..Len(m.observations):
            /\ Simulations(jobs, m.observations[k]) # {}
            /\ \A s \in Simulations(jobs, m.observations[k]): FedByCandidate(jobs, s)

\* The area comes from the one constraint check of the candidate.
ValidScoring(plan) ==
  LET jobs == plan.jobs
      constraint == {j \in ToSet(jobs): j.gate = "constraint" /\ "candidate" \in j.inputs}
      areas == {m \in ToSet(plan.metrics): m.area}
  IN IF plan.scored
     THEN /\ plan.mode = "post_layout"
          /\ \E j \in constraint, m \in areas:
               /\ constraint = {j} /\ areas = {m}
               /\ m.category = "physical" /\ m.direction = "minimize"
               /\ m.observations = <<j.id>>
          /\ \E m \in ToSet(plan.metrics): m.baseline # << >> /\ m.weight > 0
     ELSE \A m \in ToSet(plan.metrics): m.baseline = << >>

\* Observations are measured, or checked for a physical metric; a baseline pairs
\* them one to one and only performance has one.
ValidMetric(jobs, m) ==
  /\ m.observations # << >> /\ IsInjective(m.observations)
  /\ \A k \in 1..Len(m.observations):
       /\ m.observations[k] \in JobIds(jobs)
       /\ \/ JobOf(jobs, m.observations[k]).stage \in {"simulate", "measure"}
          \/ JobOf(jobs, m.observations[k]).stage = "check" /\ m.category = "physical"
  /\ m.lower # None /\ m.upper # None => m.lower <= m.upper
  /\ m.direction = "target" /\ m.baseline = << >> => m.lower # None /\ m.upper # None
  /\ m.baseline # << >> =>
       /\ m.category = "performance" /\ Len(m.baseline) = Len(m.observations)
       /\ LegalMetric(m)
       /\ m.target # None => /\ m.lower # None => m.lower <= m.target
                             /\ m.upper # None => m.target <= m.upper

\* Some jobs, no two of one id.
ValidJobs(jobs) ==
  jobs # << >> /\ \A i, k \in 1..Len(jobs): jobs[i].id = jobs[k].id => i = k

\* parse_evaluation: an accepted plan, its jobs in order with all they depend on.
Accepted(plan) ==
  /\ ValidJobs(plan.jobs) /\ Acyclic(plan.jobs)
  /\ \A m \in ToSet(plan.metrics): ValidMetric(plan.jobs, m)
  /\ ValidMode(plan) /\ ValidScoring(plan)
Parsed(plan) ==
  [plan EXCEPT !.jobs = [i \in DOMAIN plan.jobs |->
    LET j == OrderJobs(plan.jobs)[i] IN [j EXCEPT !.requires = Dependencies(plan.jobs, j.id)]]]
=============================================================================
