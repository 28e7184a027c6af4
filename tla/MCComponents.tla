----------------------------- MODULE MCComponents -----------------------------
(* The components beside the session, each on its own: a behaviour is about    *)
(* one of them, a machine from its initial states or a subject of MCSubjects,  *)
(* and the others rest.                                                        *)
EXTENDS MCSubjects

\* ---- The gateway.
GatewayReplies ==
  {[kind |-> "answer", outcome |-> "completed", usage |-> [input |-> 1]],
   [kind |-> "answer", outcome |-> "completed", usage |-> None],
   [kind |-> "answer", outcome |-> "malformed", usage |-> None],
   [kind |-> "rejected", outcome |-> "none", usage |-> None],
   [kind |-> "broken", outcome |-> "none", usage |-> None]}
GatewayLimit == [input |-> 1]

\* ---- The evaluation of a candidate.
MCJob(id, stage, gate, inputs, requires) ==
  [id |-> id, stage |-> stage, gate |-> gate, inputs |-> inputs, requires |-> requires,
   backend |-> IF stage = "simulate" THEN "spectre" ELSE "checks"]
Artifact == MCJob("artifact", "check", "artifact", {"candidate"}, {})
DRC == MCJob("drc", "check", "drc", {"candidate"}, {})
LVS == MCJob("lvs", "check", "lvs", {"candidate"}, {"artifact"})
Constraint == MCJob("constraint", "check", "constraint", {"candidate"}, {})
Extract(requires) == MCJob("extract", "extract", None, {"candidate"}, requires)
Simulate(id) == MCJob(id, "simulate", None, {"extract"}, {})
MCMetric(category, observations, upper, baseline, area) ==
  [category |-> category, observations |-> observations, unit |-> "V", lower |-> None, upper |-> upper,
   direction |-> "minimize", baseline |-> baseline, area |-> area, weight |-> 1,
   normalization |-> IF baseline = << >> THEN None ELSE "degradation",
   scale |-> IF baseline = << >> THEN None ELSE 1,
   target |-> IF area THEN 2 ELSE None]
Corners == MCMetric("performance", <<"sim1", "sim2">>, 2, << >>, FALSE)
Paired  == MCMetric("performance", <<"sim1", "sim2">>, 2, <<1, 1>>, FALSE)
Area    == MCMetric("physical", <<"constraint">>, None, << >>, TRUE)
MCPlan(mode, scored, jobs, metrics) == [mode |-> mode, scored |-> scored, jobs |-> jobs, metrics |-> metrics]
\* The jobs are declared in another order than they run in. The last three are
\* refused: an extraction before two of its gates, a cycle, a missing gate.
Layout(requires) ==
  <<Simulate("sim1"), Extract(requires), LVS, Artifact, DRC, Simulate("sim2")>>
MCPlans ==
  {MCPlan("post_layout", TRUE, Layout({"drc", "lvs"}) \o <<Constraint>>, <<Paired, Area>>),
   MCPlan("post_layout", FALSE, Layout({"drc", "lvs"}), <<Corners>>),
   MCPlan("physical", FALSE, <<LVS, DRC, Artifact, Constraint>>, <<[Area EXCEPT !.upper = 2]>>),
   MCPlan("characterization", FALSE, <<MCJob("sim1", "simulate", None, {"candidate"}, {})>>,
          <<[Corners EXCEPT !.observations = <<"sim1">>]>>),
   MCPlan("post_layout", FALSE, Layout({"lvs"}), <<Corners>>),
   MCPlan("post_layout", FALSE, <<Artifact, [LVS EXCEPT !.requires = {"drc"}], [DRC EXCEPT !.requires = {"lvs"}],
                                  Extract({"drc", "lvs"}), Simulate("sim1")>>, <<Corners>>),
   MCPlan("physical", FALSE, <<LVS, Artifact>>, << >>)}
\* Accepted and rejected results, and some no backend may return.
MCRaw(p, j) ==
  LET raw(status, reason, outputs, measured) ==
        [status |-> status, reason |-> reason, outputs |-> outputs, evidence |-> TRUE, measured |-> measured]
      values == IF \E i \in 1..Len(p.metrics): j.id \in {p.metrics[i].observations[k]: k \in 1..Len(p.metrics[i].observations)}
                THEN {[unit |-> "V", value |-> v]: v \in {0, 2, 3}} \cup {[unit |-> "A", value |-> 1], None}
                ELSE {None}
  IN {raw("passed", FALSE, TRUE, v): v \in values}
     \cup {raw("failed", TRUE, FALSE, None), raw("failed", FALSE, FALSE, None),
           raw("passed", FALSE, FALSE, None)}
MCCapacity == [checks |-> 1, spectre |-> 2]

\* ---- One at a time.
Machines == {"gateway", "evaluation", "tool", "tree", "credentials", "conversation"}
Init ==
  /\ focus \in Foci \cup Machines
  /\ Gateway!Init /\ Evaluation!Init /\ Tool!Init /\ Tree!Init /\ Login!Init /\ Talk!Init
  /\ focus # "evaluation" => plan.mode = "characterization"
  /\ focus # "conversation" => harness = "codex"
  /\ \/ SubjectInit
     \/ focus \in Machines /\ subject = None

evaluation == <<plan, results, batch, abandoned, overdue>>
gateway == <<lock, thread, events, denied, deniedEvents, limitReached, expired, stopped, stop, calls, unrecorded>>
tool == <<at, attempt, cancelled, late, containers, alive, result, signalled, removals, history, retained, answer, faults>>
tree == <<table, starts, stopAt, known, interrupted, reached>>
login == <<source, target, seed, synced, step, sourceLock, read, parent, unlocked, wronged>>
talk == <<harness, files, started, launches, working, first, resumed>>

Next ==
  /\ UNCHANGED focus
  /\ \/ focus = "gateway" /\ Gateway!Next /\ UNCHANGED <<subject, evaluation, tool, tree, login, talk>>
     \/ focus = "evaluation" /\ Evaluation!Next /\ UNCHANGED <<subject, gateway, tool, tree, login, talk>>
     \/ focus = "tool" /\ Tool!Next /\ UNCHANGED <<subject, gateway, evaluation, tree, login, talk>>
     \/ focus = "tree" /\ Tree!Next /\ UNCHANGED <<subject, gateway, evaluation, tool, login, talk>>
     \/ focus = "credentials" /\ Login!Next /\ UNCHANGED <<subject, gateway, evaluation, tool, tree, talk>>
     \/ focus = "conversation" /\ Talk!Next /\ UNCHANGED <<subject, gateway, evaluation, tool, tree, login>>
     \/ SubjectNext /\ UNCHANGED <<gateway, evaluation, tool, tree, login, talk>>

vars == <<focus, subject, gateway, evaluation, tool, tree, login, talk>>
Spec == Init /\ [][Next]_vars

\* No torn connection is taken for an answer and no error or token of a CLI is
\* lost, and the gateway keeps to its budgets while its threads race with each
\* other and with stop().
InferenceHolds == []TruncationNoticed /\ []AdaptersHold /\ Gateway!GatewayHolds
\* The results and qualities of a report follow from what the tools concluded of
\* the layout and of whole samples, and a report that is accepted or sent on is
\* the one of its run, made of the cases that were planned.
VerdictsHold ==
  ChecksConclude /\ MeasurementsSound /\ QualityOrdered /\ EvidenceBound /\ InputsBound
=============================================================================
