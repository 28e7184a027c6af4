--------------------------- MODULE SessionCreation ---------------------------
(***************************************************************************)
(* POST /sessions: the handler that registers a session under its creation *)
(* key and provisions it (controller.py), the evaluator thread that        *)
(* attaches the workspace, and the gate that decides which of the two wins *)
(* the race between attachment and the startup timeout (supervisor.py).    *)
(*                                                                         *)
(* One key is modelled, the one a participant's attempt keeps: `request'   *)
(* holds its HTTP requests, a retry being a second one while the first may *)
(* still be in the handler.  The capacity check only concerns other keys   *)
(* and is left out.                                                        *)
(***************************************************************************)
EXTENDS Naturals, Sequences

CONSTANTS Tries,        \* requests of one client call (http_attempts)
          MaxSessions   \* bound on the sessions of the service

ASSUME CreationAssumption == Tries \in Nat \ {0} /\ MaxSessions \in Nat \ {0}

VARIABLES up,        \* the service process runs
          sessions,  \* the sessions of the root, in order of creation
          request,   \* each request: none, queued, handled, created, failed
          handler    \* the one handler that holds the runtime lock

creationVars == <<up, sessions, request, handler>>

Sids == DOMAIN sessions

Idle == [pc |-> "idle", try |-> 0, sid |-> 0]

(* replied: http.json holds the creation response; refused: startup failed *)
(* or timed out; thread, attached and abandoned only exist in memory.      *)
NewSession == [replied |-> FALSE, refused |-> FALSE, thread |-> "starting",
               attached |-> FALSE, abandoned |-> FALSE]

CreationTypeOK ==
    /\ up \in BOOLEAN
    /\ sessions \in Seq([replied : BOOLEAN, refused : BOOLEAN, attached : BOOLEAN,
                         abandoned : BOOLEAN, thread : {"starting", "running", "ended"}])
    /\ Len(sessions) <= MaxSessions
    /\ request \in [1..Tries -> {"none", "queued", "handled", "created", "failed"}]
    /\ handler \in [pc : {"idle", "waiting", "attached", "refused"}, try : 0..Tries, sid : 0..MaxSessions]

CreationInit == /\ up = TRUE
                /\ sessions = <<>>
                /\ request = [i \in 1..Tries |-> "none"]
                /\ handler = Idle

\* A recorded session answers for its key, whatever became of it.
Replayed == IF sessions[1].replied THEN "created" ELSE "failed"

MatchReplied == {s \in Sids : sessions[s].replied}

Match == Sids

\* The handler takes the lock: a known key is replayed, a new one is saved
\* before any provisioning starts.
Create(i) ==
    /\ up /\ handler.pc = "idle" /\ request[i] = "queued"
    /\ IF Match # {}
       THEN /\ request' = [request EXCEPT ![i] = Replayed]
            /\ UNCHANGED <<sessions, handler>>
       ELSE /\ Len(sessions) < MaxSessions
            /\ sessions' = Append(sessions, NewSession)
            /\ handler' = [pc |-> "waiting", try |-> i, sid |-> Len(sessions) + 1]
            /\ request' = [request EXCEPT ![i] = "handled"]
    /\ UNCHANGED up

\* The evaluator thread has built the workspace; under the gate it gives up
\* if the handler has, and attaches otherwise.
Attach(s) ==
    /\ sessions[s].thread = "starting"
    /\ sessions' = IF sessions[s].abandoned
                   THEN [sessions EXCEPT ![s].thread = "ended"]
                   ELSE [sessions EXCEPT ![s].attached = TRUE, ![s].thread = "running"]

\* Container, image or resources fail before the workspace is attached.
StartupFails(s) ==
    /\ sessions[s].thread = "starting"
    /\ sessions' = [sessions EXCEPT ![s].thread = "ended"]

\* await_ready returns, signalled or timed out; under the gate it reads
\* whether the workspace is attached and abandons the run if it is not.
AwaitReady ==
    /\ handler.pc = "waiting"
    /\ LET attached == sessions[handler.sid].attached IN
       /\ handler' = [handler EXCEPT !.pc = IF attached THEN "attached" ELSE "refused"]
       /\ sessions' = [sessions EXCEPT ![handler.sid].abandoned = ~attached]
    /\ UNCHANGED <<up, request>>

Refuse ==
    /\ handler.pc = "refused"
    /\ sessions' = [sessions EXCEPT ![handler.sid].refused = TRUE]
    /\ request' = [request EXCEPT ![handler.try] = "failed"]
    /\ handler' = Idle
    /\ UNCHANGED up

Reply ==
    /\ handler.pc = "attached"
    /\ sessions' = [sessions EXCEPT ![handler.sid].replied = TRUE]
    /\ request' = [request EXCEPT ![handler.try] = "created"]
    /\ handler' = Idle
    /\ UNCHANGED up

EvaluatorThread == \E s \in Sids : Attach(s) \/ StartupFails(s)

Handle == up /\ (AwaitReady \/ Refuse \/ Reply \/ \E i \in 1..Tries : Create(i))

CreationNext == \/ Handle
                \/ up /\ EvaluatorThread /\ UNCHANGED <<up, request, handler>>

\* The process dies with its threads and connections; what is left is on
\* disk.
CreationDies ==
    /\ up' = FALSE
    /\ handler' = Idle
    /\ request' = [i \in 1..Tries |-> "none"]
    /\ sessions' = [s \in Sids |-> [sessions[s] EXCEPT !.thread = "ended", !.abandoned = FALSE]]

-----------------------------------------------------------------------------
(* One creation key never gets a second session, however often a lost      *)
(* reply is repeated and whenever the service dies between registering,    *)
(* attaching and answering; a session whose startup was refused is never   *)
(* attached, and one whose creation was confirmed was                      *)
(* (controller.py:76-88, 324-328; supervisor.py:82-88, 114-121).           *)
CreationHonest ==
    /\ Len(sessions) <= 1
    /\ \A s \in Sids : /\ sessions[s].refused => ~sessions[s].attached
                       /\ sessions[s].replied => sessions[s].attached
=============================================================================
