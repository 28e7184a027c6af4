----------------------------- MODULE NativeSessions -----------------------------
(* The conversation a CLI keeps in the attempt's private home, and how the     *)
(* runner finds it again after a crash or a failed launch: each adapter names  *)
(* the session to resume, or refuses to launch rather than begin another.      *)
EXTENDS Integers, Sequences, FiniteSets

CONSTANTS None, MaxFiles, MaxLaunches

VARIABLES
  harness,   \* the adapter of the attempt
  files,     \* the sessions on disk: [id, here, side, legible]
  started,   \* sessions the CLI announced on its output, in order
  launches,  \* launches the runner recorded
  running,   \* the session the running CLI works in, None when none runs
  first,     \* the conversation of the first launch
  resumed    \* conversations a later launch continued

sessionVars == <<harness, files, started, launches, running, first, resumed>>

Init ==
  /\ harness \in {"codex", "claude", "kimi", "dsh", "zcode"}
  /\ files = {} /\ started = << >> /\ launches = 0
  /\ running = None /\ first = None /\ resumed = {}

Ids == {f.id: f \in files}
Frozen == 1   \* the identity the runner chose for the first session

\* A main session of this attempt's own workspace, by what its header says, and
\* the only one of its kind.
Own(f) == f.here /\ ~f.side /\ f.legible
\* Mutant: the latest session is taken for the only one.
OnlyLatest(S) == IF S = {} THEN None ELSE CHOOSE i \in {f.id: f \in S}: \A f \in S: f.id <= i
Only(S) == IF Cardinality(S) = 1 THEN (CHOOSE f \in S: TRUE).id ELSE None
OnlyOwn(S) == IF \A f \in S: Own(f) THEN Only(S) ELSE None

\* Codex knows its session by the first it announced, Claude Code by the identity
\* it was given, Kimi and DSH by being the only one of this workspace, and ZCode
\* by being the only one there is.
CodexSession ==
  IF started = << >> THEN None ELSE Only({f \in files: f.id = Head(started) /\ f.here /\ f.legible})
ClaudeSession == OnlyOwn({f \in files: f.id = Frozen})
WorkspaceSession == Only({f \in files: Own(f)})
ZcodeSession == OnlyOwn({f \in files: ~f.side})
session_id ==
  CASE harness = "codex" -> CodexSession
    [] harness = "claude" -> ClaudeSession
    [] harness \in {"kimi", "dsh"} -> WorkspaceSession
    [] harness = "zcode" -> ZcodeSession

\* The first launch starts a conversation; a later one continues it or is refused.
Launch ==
  /\ running = None /\ launches < MaxLaunches
  /\ launches' = launches + 1
  /\ IF launches = 0
     THEN running' = Frozen /\ first' = Frozen /\ UNCHANGED resumed
     ELSE session_id # None /\ running' = session_id /\ resumed' = resumed \cup {session_id} /\ UNCHANGED first
  /\ UNCHANGED <<harness, files, started>>

\* The CLI announces and writes its session, or dies before either; it opens
\* subagents, and another main session where it branches, once its own is
\* written: while the first was torn, a second one would be taken for it.
Announce ==
  /\ running # None /\ started' = Append(started, running)
  /\ Len(started) < MaxLaunches
  /\ UNCHANGED <<harness, files, launches, running, first, resumed>>
Write(legible) ==
  /\ running # None /\ running \notin Ids
  /\ files' = files \cup {[id |-> running, here |-> TRUE, side |-> FALSE, legible |-> legible]}
  /\ UNCHANGED <<harness, started, launches, running, first, resumed>>
\* A torn first line is written out when the CLI goes on.
Repair ==
  /\ \E f \in files: f.id = running /\ ~f.legible
  /\ files' = {IF f.id = running THEN [f EXCEPT !.legible = TRUE] ELSE f: f \in files}
  /\ UNCHANGED <<harness, started, launches, running, first, resumed>>
Open(here, side) ==
  /\ \E f \in files: f.id = running /\ f.legible
  /\ Cardinality(files) < MaxFiles
  /\ files' = files \cup {[id |-> 1 + Cardinality(files), here |-> here, side |-> side, legible |-> TRUE]}
  /\ UNCHANGED <<harness, started, launches, running, first, resumed>>
Ends ==
  /\ running # None /\ running' = None
  /\ UNCHANGED <<harness, files, started, launches, first, resumed>>

Next ==
  \/ Launch \/ Announce \/ Repair \/ Ends
  \/ \E b \in BOOLEAN: Write(b)
  \/ \E here, side \in BOOLEAN: Open(here, side)

\* Whatever the CLI left behind when it died (nothing, a torn header, subagents,
\* a second main session, sessions of another directory), every later launch
\* continues the conversation of the first or is refused.
OneConversation == resumed \subseteq {first}
=============================================================================
