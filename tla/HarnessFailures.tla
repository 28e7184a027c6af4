---------------------------- MODULE HarnessFailures ----------------------------
(* Why a participant's CLI ended: each adapter reads the CLI's own event       *)
(* stream, turns its errors into codes of one vocabulary, and                  *)
(* classify_evidence draws one failure from them. The runner continues the     *)
(* attempt by itself only if that failure is retryable.                        *)
EXTENDS Integers, Sequences

CONSTANT None

\* A code stands for its category: the vocabulary maps several codes to one.
\* Other is a code the vocabulary lacks, or an error without any.
Other == "other"
Final == {"quota", "authentication", "rate_limit", "network"}
Vocabulary == Final \cup {"overloaded"}

failure(category) ==
  [category |-> category,
   retryable |-> category \in {"network", "rate_limit", "overloaded"},
   stop |-> category \in {"quota", "authentication", "configuration"}]

\* The first category of Final that occurs decides; after a signal, a failed
\* tool call or among other errors nothing is retried.
Unmixed(codes, c) == codes = {c}
Leading(codes) ==
  IF "quota" \in codes THEN "quota"
  ELSE IF "authentication" \in codes THEN "authentication"
  ELSE IF "rate_limit" \in codes THEN "rate_limit" ELSE "network"
classify_evidence(codes, tool, exit, timed_out) ==
  IF timed_out THEN failure("budget")
  ELSE IF codes \cap Final # {} THEN
    LET c == Leading(codes) IN
    [failure(c) EXCEPT !.retryable = @ /\ tool = None /\ exit >= 0 /\ Unmixed(codes, c)]
  ELSE IF tool # None THEN failure(tool)
  ELSE IF exit < 0 THEN failure("crash")
  ELSE IF Unmixed(codes, "overloaded") THEN failure("overloaded")
  ELSE IF exit # 0 \/ codes # {} THEN failure("unknown")
  ELSE None

IsError(e) == e.type \in {"error", "turn.failed"} \/ e.is_error
Told(events) == {events[i]: i \in DOMAIN events}
CodeOf(e) == IF e.code = None THEN Other ELSE e.code
structured_errors(told) == {CodeOf(e): e \in {e \in told: IsError(e)}}

\* Codex reports its own reconnect attempts as errors. Those of a turn are
\* dropped when that turn completes and the CLI succeeds, or when it fails for
\* capacity alone; every other error counts, and the last status of each tool.
\* An event's code is None when its message is all there is.
NativeCode(e) ==
  IF e.code # None THEN e.code
  ELSE IF e.type \notin {"error", "turn.failed"} THEN Other
  ELSE CASE e.message = "capacity" -> "overloaded"
         [] e.message = "unauthorized" -> "authentication"
         [] OTHER -> Other
Reconnects(e) ==
  /\ e.type = "error" /\ ~e.is_error
  /\ \/ e.code = "network"
     \/ e.code = None /\ e.message = "reconnecting"
     \/ NativeCode(e) = "overloaded"
CodexStart == [codes |-> {}, reconnects |-> {}, in_turn |-> FALSE, broken |-> {}, denied |-> {}]
Boundary(e) == e.type \in {"thread.started", "turn.started", "turn.failed", "turn.completed"}
Settled(e, in_turn, exit) ==
  /\ in_turn
  /\ \/ e.type = "turn.completed" /\ exit = 0
     \/ e.type = "turn.failed" /\ exit > 0 /\ NativeCode(e) = "overloaded"
AtBoundary(s, e, exit) ==
  IF ~Boundary(e) THEN s
  ELSE [s EXCEPT !.codes = IF Settled(e, s.in_turn, exit) THEN @ ELSE @ \cup s.reconnects,
                 !.reconnects = {}, !.in_turn = e.type = "turn.started"]
ToolStatus(s, e) ==
  CASE e.type = "tool.completed" -> [s EXCEPT !.broken = @ \ {e.tool}, !.denied = @ \ {e.tool}]
    [] e.type = "tool.failed" -> [s EXCEPT !.broken = @ \cup {e.tool}, !.denied = @ \ {e.tool}]
    [] e.type = "tool.denied" -> [s EXCEPT !.denied = @ \cup {e.tool}, !.broken = @ \ {e.tool}]
    [] OTHER -> s
ErrorEvent(s, e) ==
  IF ~IsError(e) THEN s
  ELSE IF s.in_turn /\ Reconnects(e) THEN [s EXCEPT !.reconnects = @ \cup {NativeCode(e)}]
  ELSE [s EXCEPT !.codes = @ \cup {NativeCode(e)}]
CodexStep(s, e, exit) == ErrorEvent(ToolStatus(AtBoundary(s, e, exit), e), e)
Heard(events, exit) ==
  LET heard[n \in 0 .. Len(events)] ==
        IF n = 0 THEN CodexStart ELSE CodexStep(heard[n - 1], events[n], exit)
  IN heard
ToolFailure(s) == IF s.denied # {} THEN "configuration" ELSE IF s.broken # {} THEN "unknown" ELSE None
CodexFailure(events, exit) ==
  LET s == Heard(events, exit)[Len(events)] IN
  classify_evidence(s.codes \cup s.reconnects, ToolFailure(s), exit, FALSE)

\* Claude Code marks the assistant message of an error and repeats its text in
\* the closing result. Errors before a successful result were recovered.
Newest(places) == {i \in places: \A k \in places: k <= i}
Results(events) == {i \in DOMAIN events: events[i].type = "result"}
Marked(events) == {i \in DOMAIN events: events[i].type = "assistant" /\ events[i].code # None}
Recovered(events, exit) == exit = 0 /\ \E i \in Newest(Results(events)): ~events[i].is_error
Repeats(events, i) ==
  /\ i \in Newest(Results(events)) /\ events[i].subtype = "success" /\ events[i].is_error
  /\ \E k \in Newest(Marked(events)): events[i].text = events[k].text
ClaudeFailure(events, exit) ==
  IF Recovered(events, exit) THEN classify_evidence(structured_errors(Told(events)), None, exit, FALSE)
  ELSE classify_evidence({events[i].code: i \in Marked(events)}
                         \cup structured_errors({events[i]: i \in {k \in DOMAIN events: ~Repeats(events, k)}}),
                         None, exit, FALSE)

\* ZCode attributes a failed turn to its provider or the network. A rate limit
\* the provider gave no code for may be an exhausted quota: it is retried only
\* when the attribution says so.
provider_code(a, fallback) ==
  LET code == IF a.code # None THEN a.code ELSE fallback IN
  IF a.reason = "auth_failed" /\ a.denied THEN "authentication"
  ELSE IF code = "quota" THEN code
  ELSE IF a.code = None /\ a.retryable /\ a.reason \in {"rate_limited", "overloaded"}
       THEN IF a.reason = "rate_limited" THEN "rate_limit" ELSE "overloaded"
  ELSE code
Attributed(e) ==
  LET a == e.attribution IN
  CASE a.source = "provider" -> provider_code(a, e.code)
    [] a.source = "network" /\ a.retryable /\ a.reason = "timeout" -> "network"
    [] OTHER -> e.code
Normalized(e) == IF e.type = "turn.failed" THEN [e EXCEPT !.code = Attributed(e)] ELSE e
ZcodeFailure(events, exit) ==
  LET errors == structured_errors({Normalized(e): e \in Told(events)})
      failed == \E e \in Told(events): e.type = "result" /\ e.failed
      noted == \E e \in Told(events): e.type \in {"error", "turn.failed"}
  IN classify_evidence(IF failed /\ ~noted THEN errors \cup {Other} ELSE errors, None, exit, FALSE)

\* Kimi Code prints its error when it fails; a missing credential is a matter
\* of configuration unless another error is known.
KimiFailure(errors, lines, exit) ==
  LET verdict == classify_evidence(errors \cup {IF l = "unset" THEN Other ELSE l: l \in lines}, None, exit, FALSE)
  IN IF exit = 0 THEN classify_evidence(errors, None, exit, FALSE)
     ELSE IF "unset" \in lines /\ verdict.category = "unknown" THEN failure("configuration")
     ELSE verdict

\* DSH ends each turn with its reason.
Ended(told) == {e \in told: e.type = "turn_end" /\ e.code # None}
DshFailure(events, exit) ==
  classify_evidence(structured_errors(Told(events)) \cup {CodeOf(e): e \in Ended(Told(events))}, None, exit, FALSE)

\* Which turn an event belongs to: errors of a turn are settled by the end of
\* that turn and by no later one.
SettledLater(events, i, exit) ==
  \E s \in 1..(i - 1): \E c \in (i + 1)..Len(events):
    /\ events[s].type = "turn.started" /\ Settled(events[c], TRUE, exit)
    /\ \A k \in (s + 1)..(c - 1): ~Boundary(events[k])
Excused(events, i, exit) == Reconnects(events[i]) /\ SettledLater(events, i, exit)
Standing(events, exit) ==
  {i \in 1..Len(events): IsError(events[i]) /\ ~Excused(events, i, exit)}
Status(e) == e.type \in {"tool.completed", "tool.failed", "tool.denied"}
Broken(events) ==
  {i \in 1..Len(events): Status(events[i]) /\ events[i].type # "tool.completed" /\
     \A k \in (i + 1)..Len(events): ~(Status(events[k]) /\ events[k].tool = events[i].tool)}

\* A run of Codex goes unreported only if each error was settled within its own
\* turn and each tool's last call succeeded; it is continued by itself only if
\* what stands is of one kind the vocabulary knows and no tool is broken.
\* Whatever else happened, a refused login or an exhausted quota is reported.
CodexHonest(events, exit) ==
  LET verdict == CodexFailure(events, exit)
      standing == {NativeCode(events[i]): i \in Standing(events, exit)}
  IN /\ verdict = None <=> exit = 0 /\ standing = {} /\ Broken(events) = {}
     /\ verdict # None /\ verdict.retryable =>
          exit >= 0 /\ Broken(events) = {} /\ standing = {verdict.category}
     /\ \A c \in {"quota", "authentication"}:
          c \in standing => verdict # None /\ verdict.stop

\* A continuation is earned by one known cause of all that was reported, and a
\* failed exit is always reported; the result that repeats a marked error of
\* Claude Code hides no other, and a quota ZCode's provider names is never
\* retried.
Earned(verdict, codes, exit) ==
  /\ exit # 0 => verdict # None
  /\ verdict # None /\ verdict.retryable => exit >= 0 /\ codes = {verdict.category}
ClaudeEarned(events, exit) ==
  LET marked == {events[i]: i \in Marked(events)}
      errors == {e \in Told(events): IsError(e)}
      others == {e \in errors: ~(e.type = "result" /\ e.text \in {m.text: m \in marked})}
  IN Earned(ClaudeFailure(events, exit),
            IF Recovered(events, exit) THEN {CodeOf(e): e \in errors}
            ELSE {e.code: e \in marked} \cup {CodeOf(e): e \in others}, exit)
ZcodeEarned(events, exit) ==
  LET errors == {e \in Told(events): IsError(e)} IN
  /\ Earned(ZcodeFailure(events, exit), {CodeOf(Normalized(e)): e \in errors}, exit)
  /\ \A e \in errors: e.type = "turn.failed" /\ e.attribution.source = "provider" /\ e.attribution.code = "quota"
                     => ~ZcodeFailure(events, exit).retryable
KimiEarned(events, exit) ==
  LET codes(type) == {CodeOf(e): e \in {e \in Told(events): e.type = type}} IN
  Earned(KimiFailure(codes("error"), codes("line"), exit),
         codes("error") \cup (IF exit = 0 THEN {} ELSE codes("line")), exit)
DshEarned(events, exit) ==
  Earned(DshFailure(events, exit),
         {CodeOf(e): e \in {e \in Told(events): IsError(e) \/ (e.type = "turn_end" /\ e.code # None)}}, exit)
HarnessHonest(s) ==
  CASE s.harness = "codex" -> CodexHonest(s.events, s.exit)
    [] s.harness = "claude" -> ClaudeEarned(s.events, s.exit)
    [] s.harness = "zcode" -> ZcodeEarned(s.events, s.exit)
    [] s.harness = "kimi" -> KimiEarned(s.events, s.exit)
    [] s.harness = "dsh" -> DshEarned(s.events, s.exit)
=============================================================================
