--------------------------- MODULE ComponentMachines ---------------------------
(* The state machines beside the session: the gateway to the model, the        *)
(* evaluation of a candidate, the run of a tool, the end of a process tree, a  *)
(* login that attempts share and the conversation of a CLI. They share no      *)
(* state.                                                                      *)
EXTENDS Integers, Sequences, FiniteSets

CONSTANTS
  None,
  Threads, Limit, MaxRequests, Replies, MaxCalls, MaxUnrecorded,  \* gateway
  Plans, Raw(_, _), Capacity,                                     \* evaluation
  MaxAttempts, Markers, MaxFaults,                                \* tool
  Pids, Owner, Stopper, MaxStarts,                                \* tree
  Attempts, MaxLogins,                                            \* login
  MaxFiles, MaxLaunches                                           \* conversation

Denials == {"session_stopped", "concurrent_request", "request_too_large", "invalid_request",
            "wall_time_budget_exhausted", "request_budget_exhausted", "token_budget_exhausted"}

\* What the configuration of a gateway (inference/config.py) and its wire adapter
\* promise: limits are positive, token counts are numbers, and no adapter calls
\* a reply pending.
GatewayConfigured ==
  /\ None \notin Threads \cup Denials /\ MaxRequests \in Int
  /\ \A f \in DOMAIN Limit : Limit[f] \in Int /\ Limit[f] > 0
  /\ \A r \in Replies : r.outcome # "pending"
  /\ \A r \in Replies, f \in DOMAIN Limit :
       r.usage # None /\ r.usage[f] # None => r.usage[f] \in Int
ASSUME GatewayAssumption == GatewayConfigured

\* What a declaration of an evaluation is made of, before it is accepted.
DeclaredJobs ==
  [id: STRING, stage: {"check", "extract", "simulate", "measure"},
   gate: {"artifact", "drc", "lvs", "constraint", None},
   inputs: SUBSET STRING, requires: SUBSET STRING, backend: STRING]
PlansDeclared ==
  \A p \in Plans: DOMAIN p = {"mode", "scored", "jobs", "metrics"} /\ p.jobs \in Seq(DeclaredJobs)
ASSUME PlansAssumption == PlansDeclared

\* No quality of a measurement is taken for an absent one.
FractionsPresent == None \notin [n: Int, d: Int]
ASSUME QualityAssumption == FractionsPresent

\* Nobody's name and no credential is taken for an absent one.
NoNone == None \notin Attempts \cup Nat
ASSUME LoginAssumption == NoNone

\* The numbers are finite, and orphans are handed to none of the tree's own.
PidsKnown == IsFiniteSet(Pids) /\ Owner \in Pids /\ Stopper \notin Pids
ASSUME TreeAssumption == PidsKnown

VARIABLES
  lock, thread, events, denied, deniedEvents, limitReached, expired,
  stopped, stop, calls, unrecorded,
  plan, results, batch, abandoned, overdue,
  at, attempt, cancelled, late, containers, alive, result, signalled,
  removals, history, retained, answer, faults,
  table, starts, stopAt, known, interrupted, reached,
  source, target, seed, synced, step, sourceLock, read, parent, unlocked, wronged,
  harness, files, started, launches, working, first, resumed

Gateway == INSTANCE InferenceGateway
Evaluation == INSTANCE EvaluationRun WITH cancelled <- abandoned, late <- overdue
Tool == INSTANCE ToolExecution WITH running <- alive
Tree == INSTANCE ProcessTree
Login == INSTANCE CredentialSync WITH lock <- sourceLock, status <- synced
Talk == INSTANCE NativeSessions WITH running <- working

GatewaySpec == Gateway!Init /\ [][Gateway!Next]_Gateway!gatewayVars
EvaluationSpec == Evaluation!Init /\ [][Evaluation!Next]_Evaluation!evaluationVars
ToolSpec == Tool!Init /\ [][Tool!Next]_Tool!toolVars
TreeSpec == Tree!Init /\ [][Tree!Next]_Tree!treeVars
LoginSpec == Login!Init /\ [][Login!Next]_Login!credentialVars
TalkSpec == Talk!Init /\ [][Talk!Next]_Talk!sessionVars

\* What a tool's containers and a coordinator's processes leave behind is known.
\* No attempt's login or conversation is replaced by another's. The verdicts of
\* an evaluation agree, and performance is measured behind the gates only.
ExecutionHolds ==
  /\ Tool!ToolRunHolds /\ Tree!TreeHolds /\ Login!CredentialsHold /\ Talk!OneConversation
  /\ Evaluation!VerdictConsistent /\ Evaluation!GatedPerformance
=============================================================================
