---------------------------- MODULE WireSemantics ----------------------------
(* What an inference reply means: the two wire families read a stream of       *)
(* server-sent events, or one JSON document, and answer with an outcome and    *)
(* the usage the provider reported. An exception of the adapter is the outcome *)
(* "malformed". Texts, codes and content blocks are left out.                  *)
EXTENDS Integers, Sequences

CONSTANT None

\* A reply is [api, media, stream, cut]; cut says that its last frame is torn.

Verdict(outcome, usage) == [outcome |-> outcome, usage |-> usage]
Malformed == Verdict("malformed", None)

\* A counter is a number, missing (None) or invalid. A missing one stays
\* missing; an invalid one makes the whole reply malformed.
Invalid == -1
BadUsage(usage) == usage # None /\ \E f \in DOMAIN usage: usage[f] = Invalid
normalize_usage(outcome, usage) ==
  IF BadUsage(usage) THEN Malformed ELSE Verdict(outcome, usage)

\* Messages: one message starts, is changed by deltas and stops. A delta
\* replaces the fields it carries; an error event ends the stream.
Merged(old, new) ==
  CASE new = None -> old
    [] old = None /\ new # None -> new
    [] OTHER -> [f \in DOMAIN old |-> IF new[f] = None THEN old[f] ELSE new[f]]
Unread == [type |-> "none", reason |-> None, usage |-> None, stopped |-> FALSE, bad |-> FALSE]
Broken(read) == [read EXCEPT !.bad = TRUE]

MessagesEvent(read, e) ==
  LET absent == read.type = "none" IN
  IF read.bad \/ e.type = "ping" THEN read
  ELSE IF read.stopped THEN Broken(read)
  ELSE CASE e.type = "error" -> [read EXCEPT !.type = "error", !.stopped = TRUE]
         [] e.type = "message_start" ->
              IF absent THEN [read EXCEPT !.type = "message", !.reason = e.reason, !.usage = e.usage]
              ELSE Broken(read)
         [] e.type = "message_delta" ->
              IF absent THEN Broken(read)
              ELSE [read EXCEPT !.reason = IF e.reason = None THEN @ ELSE e.reason,
                                !.usage = Merged(@, e.usage)]
         [] e.type = "message_stop" -> IF absent THEN Broken(read) ELSE [read EXCEPT !.stopped = TRUE]
         [] OTHER -> read

MessagesReason ==
  [end_turn |-> "completed", max_tokens |-> "budget_truncated",
   refusal |-> "content_filtered", other |-> "incomplete_error"]
\* Cached input counts as input, when the reply counts input at all.
WithCache(usage) ==
  IF usage = None \/ BadUsage(usage) \/ usage.input = None \/ usage.cached = None THEN usage
  ELSE [usage EXCEPT !.input = @ + usage.cached]

\* What is read of a stream after each of its events.
Reading(stream) ==
  LET read[n \in 0 .. Len(stream)] ==
        IF n = 0 THEN Unread ELSE MessagesEvent(read[n - 1], stream[n])
  IN read
MessagesSemantics(r) ==
  LET read == Reading(r.stream)[Len(r.stream)]
      stopped == r.media = "json" \/ read.stopped
  IN CASE read.bad \/ ~stopped \/ read.type = "none" -> Malformed
       [] ~read.bad /\ stopped /\ read.type = "error" -> Verdict("service_error", None)
       [] ~read.bad /\ stopped /\ read.type = "message" ->
            IF read.reason = None THEN Malformed
            ELSE normalize_usage(MessagesReason[read.reason], WithCache(read.usage))

\* Responses: exactly one terminal event, and it is the last one; its type must
\* agree with the status of the response it carries.
Terminal(e) == e.type \in {"completed", "failed", "incomplete", "error"}
OneEnding(stream) ==
  stream # << >> /\ \A i \in 1 .. Len(stream): Terminal(stream[i]) <=> i = Len(stream)

ResponseOutcome(e) ==
  CASE e.status = "failed" \/ e.failed -> "service_error"
    [] e.status = "completed" /\ ~e.failed -> "completed"
    [] e.status = "incomplete" /\ ~e.failed ->
         IF e.reason \in {"max_tokens", "refusal"} THEN MessagesReason[e.reason] ELSE "incomplete_error"
    [] OTHER -> "malformed"
ResponsesSemantics(r) ==
  LET final == IF r.media = "json" THEN r.stream[1] ELSE r.stream[Len(r.stream)]
      answer == IF ResponseOutcome(final) = "malformed" THEN Malformed
                ELSE normalize_usage(ResponseOutcome(final), final.usage)
  IN CASE r.media = "json" -> answer
       [] r.media = "stream" /\ ~OneEnding(r.stream) -> Malformed
       [] r.media = "stream" /\ OneEnding(r.stream) ->
            IF final.type = "error" THEN Verdict("service_error", None)
            ELSE IF final.type # final.status THEN Malformed ELSE answer

response_semantics(r) ==
  IF r.cut THEN Malformed
  ELSE IF r.api = "messages" THEN MessagesSemantics(r) ELSE ResponsesSemantics(r)

\* A connection that breaks off is never taken for an answer: of a stream that
\* has a verdict no shorter part has one, unless only keep-alives are missing.
TruncationNoticed(reply) ==
  reply.media = "stream" /\ response_semantics(reply) # Malformed =>
    \A n \in 0..(Len(reply.stream) - 1):
      \/ response_semantics([reply EXCEPT !.stream = SubSeq(@, 1, n)]) = Malformed
      \/ \A k \in (n + 1)..Len(reply.stream): reply.stream[k].type = "ping"
=============================================================================
