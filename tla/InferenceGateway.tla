--------------------------- MODULE InferenceGateway ---------------------------
(* The gateway through which a harness in a session reaches its model. Two     *)
(* threads may serve connections, one request at a time is forwarded, and what *)
(* it used is known only when the reply is in. Denials are counted without the *)
(* lock. Stopping the session races with both.                                 *)
EXTENDS Integers, Sequences, FiniteSets, FiniteSetsExt

CONSTANTS
  Threads,       \* the slots of the server
  Limit,         \* [field of the usage -> allowed tokens]
  MaxRequests,
  Replies,       \* what the transport may bring: [kind, outcome, usage]
  MaxCalls,      \* bound on connections
  MaxUnrecorded, \* bound on events the recorder fails to write
  None

VARIABLES
  lock,          \* the thread that holds _lock, or None
  thread,        \* [at, reason, seen] of each thread; seen is what it read before a write
  events,        \* [outcome, usage] of the forwarded requests
  denied,        \* the counter
  deniedEvents,  \* [reason, sequence] in the order of the list
  limitReached,
  expired,       \* the deadline has passed, or was set to zero
  stopped,
  stop,          \* how far stop() is: "no", "flagged", "expired", "closed", "clean", "incomplete"
  calls, unrecorded

gatewayVars == <<lock, thread, events, denied, deniedEvents, limitReached, expired,
                 stopped, stop, calls, unrecorded>>

Resting == [at |-> "idle", reason |-> None, seen |-> 0]
Init ==
  /\ lock = None
  /\ thread = [t \in Threads |-> Resting]
  /\ events = << >> /\ denied = 0 /\ deniedEvents = << >>
  /\ limitReached = FALSE /\ expired = FALSE
  /\ stopped = FALSE /\ stop = "no"
  /\ calls = 0 /\ unrecorded = 0

At(t, where) == thread[t].at = where
Goto(t, where) == thread' = [thread EXCEPT ![t].at = where]
Release(t) == lock' = IF lock = t THEN None ELSE lock
\* A request of thread t ends, and with it what it holds.
Leave(t) == thread' = [thread EXCEPT ![t] = Resting] /\ Release(t)

\* Known usage is a lower bound: a reply without counters cannot take back what
\* others have used.
Observed(f) == {i \in 1..Len(events): events[i].usage # None /\ events[i].usage[f] # None}
Known(f) == MapThenSumSet(LAMBDA i: events[i].usage[f], Observed(f))
TokenBudgetReached == \E f \in DOMAIN Limit: Known(f) >= Limit[f]

\* A connection is served while the server accepts and a slot is free.
Connect(t) ==
  /\ stop \notin {"closed", "clean", "incomplete"}
  /\ At(t, "idle") /\ calls < MaxCalls
  /\ Goto(t, "arrived") /\ calls' = calls + 1
  /\ UNCHANGED <<lock, events, denied, deniedEvents, limitReached, expired, stopped, stop, unrecorded>>

\* _deny reads the counter, stores it and takes a number, and appends: three
\* steps, which another denial may come between.
Deny(t, why) == thread' = [thread EXCEPT ![t] = [at |-> "denying", reason |-> why, seen |-> denied]]
CountDenial(t) ==
  /\ At(t, "denying")
  /\ denied' = thread[t].seen + 1
  /\ thread' = [thread EXCEPT ![t].at = "numbered", ![t].seen = Len(deniedEvents) + 1]
  /\ UNCHANGED <<lock, events, deniedEvents, limitReached, expired, stopped, stop, calls, unrecorded>>
ListDenial(t) ==
  /\ At(t, "numbered")
  /\ deniedEvents' = Append(deniedEvents, [reason |-> thread[t].reason, sequence |-> thread[t].seen])
  /\ Leave(t)
  /\ UNCHANGED <<events, denied, limitReached, expired, stopped, stop, calls, unrecorded>>

\* The first check of the flag and the attempt to get the lock.
Arrive(t) ==
  /\ At(t, "arrived")
  /\ \/ stopped /\ Deny(t, "session_stopped") /\ UNCHANGED lock
     \/ ~stopped /\ lock # None /\ Deny(t, "concurrent_request") /\ UNCHANGED lock
     \/ ~stopped /\ lock = None /\ lock' = t /\ Goto(t, "locked")
  /\ UNCHANGED <<events, denied, deniedEvents, limitReached, expired, stopped, stop, calls, unrecorded>>
\* The second check, under the lock.
Recheck(t) ==
  /\ At(t, "locked")
  /\ IF stopped THEN Deny(t, "session_stopped") ELSE Goto(t, "checked")
  /\ UNCHANGED <<lock, events, denied, deniedEvents, limitReached, expired, stopped, stop, calls, unrecorded>>

\* The budgets, in the order the code asks them, after the size of the body and
\* before its form; None if there is room.
Refusal ==
  IF expired THEN "wall_time_budget_exhausted"
  ELSE IF Len(events) >= MaxRequests THEN "request_budget_exhausted"
  ELSE IF TokenBudgetReached THEN "token_budget_exhausted"
  ELSE None
Refuse(t) ==
  /\ At(t, "checked")
  /\ \/ Deny(t, "request_too_large") /\ UNCHANGED limitReached
     \/ Refusal # None /\ Deny(t, Refusal) /\ limitReached' = TRUE
     \/ Refusal = None /\ Deny(t, "invalid_request") /\ UNCHANGED limitReached
  /\ UNCHANGED <<lock, events, denied, deniedEvents, expired, stopped, stop, calls, unrecorded>>
Forwarded == Append(events, [outcome |-> "pending", usage |-> None])
Forward(t) ==
  /\ At(t, "checked") /\ Refusal = None
  /\ events' = Forwarded
  /\ Goto(t, "waiting")
  /\ UNCHANGED <<lock, denied, deniedEvents, limitReached, expired, stopped, stop, calls, unrecorded>>
\* The recorder cannot write the request, or archive the reply: the event stays
\* pending and the thread leaves with the exception.
Unrecorded(t) ==
  /\ unrecorded < MaxUnrecorded
  /\ \/ At(t, "checked") /\ Refusal = None /\ events' = Forwarded
     \/ At(t, "waiting") /\ UNCHANGED events
  /\ Leave(t) /\ unrecorded' = unrecorded + 1
  /\ UNCHANGED <<denied, deniedEvents, limitReached, expired, stopped, stop, calls>>

\* A reply that is late counts as cancelled, whatever it says.
Outcome(r) ==
  CASE expired -> "cancelled"
    [] ~expired /\ (r.kind = "broken" \/ r.outcome = "malformed") -> "protocol_or_transport_error"
    [] ~expired /\ r.kind = "rejected" -> "http_error"
    [] OTHER -> r.outcome
Usage(r) == IF expired \/ r.kind # "answer" THEN None ELSE r.usage
Answer(t) ==
  /\ At(t, "waiting")
  /\ \E r \in Replies:
       events' = [events EXCEPT ![Len(events)] = [outcome |-> Outcome(r), usage |-> Usage(r)]]
  /\ limitReached' = (limitReached \/ TokenBudgetReached')
  /\ Leave(t)
  /\ UNCHANGED <<denied, deniedEvents, expired, stopped, stop, calls, unrecorded>>

Expire ==
  /\ ~expired /\ expired' = TRUE
  /\ UNCHANGED <<lock, thread, events, denied, deniedEvents, limitReached, stopped, stop, calls, unrecorded>>

\* stop(): the flag, the deadline, the server, and at last the lock of the
\* request that may still be under way, which it waits for two seconds.
StopFlag ==
  /\ stop = "no" /\ stop' = "flagged" /\ stopped' = TRUE
  /\ UNCHANGED <<lock, thread, events, denied, deniedEvents, limitReached, expired, calls, unrecorded>>
StopDeadline ==
  /\ stop = "flagged" /\ stop' = "expired" /\ expired' = TRUE
  /\ UNCHANGED <<lock, thread, events, denied, deniedEvents, limitReached, stopped, calls, unrecorded>>
StopServer ==
  /\ stop = "expired" /\ stop' = "closed"
  /\ UNCHANGED <<lock, thread, events, denied, deniedEvents, limitReached, expired, stopped, calls, unrecorded>>
\* A mutant does not wait for the request's owner.
StopWithoutJoin ==
  /\ stop = "closed" /\ stop' = "clean"
  /\ UNCHANGED <<lock, thread, events, denied, deniedEvents, limitReached, expired, stopped, calls, unrecorded>>
StopJoin ==
  /\ stop = "closed" /\ stop' = IF lock = None THEN "clean" ELSE "incomplete"
  /\ UNCHANGED <<lock, thread, events, denied, deniedEvents, limitReached, expired, stopped, calls, unrecorded>>

Next ==
  \/ \E t \in Threads:
       \/ Connect(t) \/ Arrive(t) \/ Recheck(t) \/ Refuse(t) \/ Forward(t)
       \/ Unrecorded(t) \/ Answer(t) \/ CountDenial(t) \/ ListDenial(t)
  \/ Expire \/ StopFlag \/ StopDeadline \/ StopServer \/ StopJoin

\* summary(): what the report says of the requests.
InfrastructureError ==
  \/ stop = "incomplete"
  \/ \E i \in 1..Len(events): events[i].outcome \notin
       {"completed", "budget_truncated", "content_filtered", "cancelled"}

\* A request is forwarded only with room in every budget, as far as usage is
\* known, with no other in flight, and never once stop() has returned in order.
Pending == {i \in 1..Len(events): events[i].outcome = "pending"}
ForwardedWithinBudget ==
  [][Len(events') > Len(events) =>
       /\ Len(events) < MaxRequests /\ \A f \in DOMAIN Limit: Known(f) < Limit[f]
       /\ Cardinality(Pending) <= unrecorded
       /\ stop # "clean"]_gatewayVars
\* An exhausted token budget is announced as soon as the lock is free.
LimitAnnounced == lock = None /\ TokenBudgetReached => limitReached
\* What the report read after an orderly stop stays true: no request is still
\* pending but the unrecorded ones, and no event or verdict changes any more.
QuietAfterStop ==
  /\ [](stop = "clean" => Cardinality(Pending) <= unrecorded)
  /\ [][stop = "clean" => events' = events /\ limitReached' = limitReached]_gatewayVars
GatewayHolds == ForwardedWithinBudget /\ []LimitAnnounced /\ QuietAfterStop
=============================================================================
