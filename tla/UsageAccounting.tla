---------------------------- MODULE UsageAccounting ----------------------------
(* What a participant spent: each adapter draws one record per model call from *)
(* its CLI's native files, and summarize_usage adds up each call once. Counts  *)
(* and costs are whole numbers here; times and prices by the hour are left out.*)
EXTENDS Integers, Sequences, FiniteSets, SequencesExt, FiniteSetsExt

CONSTANT None

Fields == {"input", "uncached", "cached", "output"}
Unknown == [f \in Fields |-> None]

\* A record knows what was reported, and what follows from it: the input is the
\* sum of its parts. Parts that contradict the sum are not believed.
number(n) == IF n = None \/ n < 0 THEN None ELSE n
request_record(id, model, scope, reported, cost) ==
  LET told == [f \in Fields |-> number(reported[f])]
      parts == told.uncached # None /\ told.cached # None
      input == IF told.input = None /\ parts THEN told.uncached + told.cached ELSE told.input
      uncached == IF told.uncached = None /\ input # None /\ told.cached # None
                  THEN number(input - told.cached)
                  ELSE IF parts /\ told.uncached + told.cached # input THEN None
                  ELSE told.uncached
  IN [id |-> id, model |-> model, scope |-> scope, cost |-> number(cost),
      tokens |-> [told EXCEPT !.input = input, !.uncached = uncached]]

Combined(old, new) == IF new = None THEN old ELSE new
Merge(old, new) ==
  [new EXCEPT !.cost = Combined(old.cost, @), !.model = Combined(old.model, @),
              !.tokens = [f \in Fields |-> Combined(old.tokens[f], @[f])]]
\* The records of one call are one: the later one adds what it knows.
\* Mutant: a request that is reported again is counted again.
UniqueRepeated(requests) == {requests[i]: i \in DOMAIN requests}
Unique(requests) ==
  LET ids == {requests[i].id: i \in DOMAIN requests}
      of(id) == SelectSeq(requests, LAMBDA r: r.id = id)
  IN {FoldLeft(Merge, Head(of(id)), Tail(of(id))): id \in ids}

\* A price applies to the models it names, and to nothing that is not known:
\* [rates, models, threshold, long], where threshold None is a flat price.
Rates(pricing, r) ==
  IF pricing.threshold # None /\ r.tokens.input > pricing.threshold THEN pricing.long ELSE pricing.rates
calculate_token_cost(r, pricing, configured) ==
  LET model == IF r.model = None THEN configured ELSE r.model
      priced == {"uncached", "cached", "output"}
  IN IF \/ pricing = None
        \/ model \notin pricing.models \cup {configured}
        \/ pricing.threshold # None /\ (r.scope # "request" \/ r.tokens.input = None)
        \/ \E f \in priced: r.tokens[f] = None
     THEN None
     ELSE MapThenSumSet(LAMBDA f: r.tokens[f] * Rates(pricing, r)[f], priced)

\* The sum of what is known of the amounts, one for each record.
Total(amounts) ==
  LET known == {r \in DOMAIN amounts: amounts[r] # None} IN
  IF known = {} THEN None ELSE MapThenSumSet(LAMBDA r: amounts[r], known)

\* The cost a provider reported comes first, unless the price says otherwise.
Costed(r, pricing, configured) ==
  IF r.cost # None /\ (pricing = None \/ pricing.reported) THEN r.cost
  ELSE calculate_token_cost(r, pricing, configured)
Currency(r, pricing) ==
  IF pricing = None \/ (r.cost # None /\ pricing.reported) THEN "USD" ELSE pricing.currency
summarize_usage(requests, reported, pricing, configured) ==
  LET calls == Unique(requests)
      cost(r) == Costed(r, pricing, configured)
      currencies == {Currency(r, pricing): r \in {r \in calls: cost(r) # None}}
      use_reported == reported # None /\ (pricing = None \/ pricing.reported)
  IN [tokens |-> [f \in Fields |-> Total([r \in calls |-> r.tokens[f]])],
      cost |-> IF use_reported THEN reported
               ELSE IF Cardinality(currencies) = 1 THEN Total([r \in calls |-> cost(r)]) ELSE None,
      currency |-> IF ~use_reported /\ Cardinality(currencies) = 1
                   THEN CHOOSE c \in currencies: TRUE ELSE "USD",
      missing |-> [f \in Fields |-> Cardinality({r \in calls: r.tokens[f] = None})],
      count |-> Cardinality(calls)]

\* Several attempts, each with the prices of its time.
AddKnown(values) ==
  LET known == SelectSeq(values, LAMBDA v: v # None) IN
  IF known = << >> THEN None ELSE FoldLeft(LAMBDA a, b: a + b, 0, known)
combine_usage(parts) ==
  LET costed == SelectSeq(parts, LAMBDA p: p.cost # None)
      currencies == {costed[i].currency: i \in DOMAIN costed}
      all(of(_)) == [i \in DOMAIN parts |-> of(parts[i])]
  IN [tokens |-> [f \in Fields |-> AddKnown(all(LAMBDA p: p.tokens[f]))],
      cost |-> IF Cardinality(currencies) = 1 THEN AddKnown(all(LAMBDA p: p.cost)) ELSE None,
      currency |-> IF Cardinality(currencies) = 1 THEN CHOOSE c \in currencies: TRUE ELSE None,
      missing |-> [f \in Fields |-> AddKnown(all(LAMBDA p: p.missing[f]))],
      count |-> AddKnown(all(LAMBDA p: p.count))]

-----------------------------------------------------------------------------
(* The adapters. n tokens in and n out stand for a call's usage; None is a     *)
(* call whose usage is not known.                                              *)
Spent(n) == IF n = None THEN [Unknown EXCEPT !.cached = 0]
            ELSE [input |-> n, uncached |-> None, cached |-> 0, output |-> n]
Call(id, n) == request_record(id, None, "request", Spent(n), None)
Session(id, n) == request_record(id, None, "session", Spent(n), None)
Numbered(events) == [i \in 1..Len(events) |-> <<i, events[i]>>]

\* Codex: precise records of each response, or else counters that repeat the
\* last call with the running total; without either the turns of the output.
Counted(events) ==
  LET counts == SelectSeq(Numbered(events), LAMBDA p: p[2].type = "count")
      fresh(k) == k = 1 \/ counts[k][2].total # counts[k - 1][2].total
      kept == SelectSeq([k \in 1..Len(counts) |-> <<k>> \o counts[k]], LAMBDA p: fresh(p[1]))
  IN [k \in 1..Len(kept) |-> Call(kept[k][2], kept[k][3].last)]
CodexUsage(events, output) ==
  LET precise == SelectSeq(events, LAMBDA e: e.type = "record")
      native == IF precise # << >> THEN [i \in DOMAIN precise |-> Call(precise[i].id, precise[i].last)] ELSE Counted(events)
  IN IF native # << >> THEN native ELSE [i \in DOMAIN output |-> Session(i, output[i])]

\* Claude Code: the last result of each session carries the session's total,
\* also of the calls made before it was resumed; a result that broke off and
\* carries none does not replace it. Else one record for each message.
ClaudeUsage(results, messages) ==
  LET kept == SelectSeq(results, LAMBDA e: ~(e.broken /\ e.total = None))
      latest(s) == Last(SelectSeq(kept, LAMBDA e: e.session = s))
      sessions == {kept[i].session: i \in DOMAIN kept}
  IN IF sessions # {} THEN [i \in 1..Cardinality(sessions) |->
                              LET s == SetToSeq(sessions)[i] IN Session(s, latest(s).total)]
     ELSE [i \in DOMAIN messages |-> Call(messages[i].id, messages[i].n)]

\* Kimi Code: a request is in flight until its usage is recorded; those still in
\* flight at the end are calls of unknown usage.
KimiUsage(events) ==
  LET used == SelectSeq(Numbered(events), LAMBDA p: p[2].type = "usage")
      open(who) == \E i \in DOMAIN events:
        /\ events[i].type = "request" /\ events[i].who = who
        /\ \A k \in (i + 1)..Len(events): ~(events[k].type = "usage" /\ events[k].who = who)
      waiting == {who \in {events[i].who: i \in DOMAIN events}: open(who)}
  IN [i \in DOMAIN used |-> Call(<<"call", used[i][1]>>, used[i][2].n)]
     \o [i \in 1..Cardinality(waiting) |-> Call(<<"pending", SetToSeq(waiting)[i]>>, None)]

\* ZCode: a request has one record per attempt, in whichever file.
ZcodeUsage(events) == [i \in DOMAIN events |-> Call(<<events[i].request, events[i].attempt>>, events[i].n)]

\* DSH: a message's own usage, or the last of the snapshots in its stream; an
\* attempt that never reached the provider is no call.
DshUsage(events) ==
  LET calls == SelectSeq(Numbered(events), LAMBDA p: ~p[2].unreached)
      n(e) == IF e.n # None THEN e.n ELSE IF e.stream = << >> THEN None ELSE Last(e.stream)
  IN [i \in DOMAIN calls |-> Call(calls[i][1], n(calls[i][2]))]

-----------------------------------------------------------------------------
\* What a CLI writes about the calls <<session or agent, tokens>> it made.
Sum(calls) == FoldLeft(LAMBDA a, c: a + c[2], 0, calls)
Of(calls, s) == SelectSeq(calls, LAMBDA c: c[1] = s)
\* The counters of Codex, each repeated as often as `again' says.
CodexCounters(calls, again) ==
  LET shown(i) == [type |-> "count", last |-> calls[i][2], total |-> Sum(SubSeq(calls, 1, i))]
  IN FlattenSeq([i \in DOMAIN calls |-> [k \in 1..again[i] |-> shown(i)]])
\* Each call of Claude Code ends with a result; `broken' ones carry no total.
ClaudeResults(calls, broken) ==
  [i \in DOMAIN calls |->
     [session |-> calls[i][1], broken |-> i \in broken,
      total |-> IF i \in broken THEN None ELSE Sum(Of(SubSeq(calls, 1, i), calls[i][1]))]]
KimiWire(calls, open) ==
  FlattenSeq([i \in DOMAIN calls |->
                <<[type |-> "request", who |-> calls[i][1], n |-> None],
                  [type |-> "usage", who |-> calls[i][1], n |-> calls[i][2]]>>])
  \o [i \in 1..Cardinality(open) |-> [type |-> "request", who |-> SetToSeq(open)[i], n |-> None]]

\* Repeated counters, restored sessions, snapshots and records of one call in
\* two files are counted once, and a call that never answered is known to be
\* unknown: the summary is what the CLI spent.
SpentOnce(calls, again, broken, open) ==
  LET total(requests) == summarize_usage(requests, None, None, "m").tokens.output
      known == IF calls = << >> THEN None ELSE Sum(calls)
      whole == {s \in {calls[i][1]: i \in DOMAIN calls}:
                  \A i \in DOMAIN calls: calls[i][1] = s /\ i \in broken =>
                    \E k \in i..Len(calls): calls[k][1] = s /\ k \notin broken}
      zcode == [i \in DOMAIN calls |-> [request |-> i, attempt |-> 1, n |-> calls[i][2]]]
      dsh == [i \in DOMAIN calls |-> [n |-> None, stream |-> <<0, calls[i][2]>>, unreached |-> FALSE]]
  IN /\ total(CodexUsage(CodexCounters(calls, again), << >>)) = known
     /\ whole = {calls[i][1]: i \in DOMAIN calls} =>
          total(ClaudeUsage(ClaudeResults(calls, broken), << >>)) = known
     /\ LET kimi == summarize_usage(KimiUsage(KimiWire(calls, open)), None, None, "m") IN
          kimi.tokens.output = known /\ kimi.missing.output = Cardinality(open)
     /\ total(ZcodeUsage(zcode \o zcode)) = known
     /\ total(DshUsage(dsh \o <<[n |-> None, stream |-> << >>, unreached |-> TRUE]>>)) = known

\* The parts of a record's input add up, and nothing unknown is priced or taken
\* for zero.
RecordHonest(reported, cost, pricing) ==
  LET r == request_record("a", None, "request", reported, cost)
      t == r.tokens
      price == calculate_token_cost(r, pricing, "m")
  IN /\ t.input # None /\ t.uncached # None /\ t.cached # None => t.input = t.uncached + t.cached
     /\ price # None => \A f \in Fields: t[f] # None
     /\ \A f \in Fields: number(reported[f]) # None /\ t[f] # None => t[f] = reported[f]
\* The attempts of a run add up to the run, and each call counts once, with what
\* was told of it last.
AttemptsAddUp(one, two, pricing) ==
  LET s(rs) == summarize_usage(rs, None, pricing, "m")
      apart == one \o [i \in DOMAIN two |-> [two[i] EXCEPT !.id = <<"second", @[2]>>]]
      both == combine_usage(<<s(one), s(two)>>)
      latest(f) == {i \in DOMAIN one: one[i].tokens[f] # None /\
                      \A k \in (i + 1)..Len(one): one[k].id = one[i].id => one[k].tokens[f] = None}
  IN /\ both.tokens = s(apart).tokens /\ both.missing = s(apart).missing /\ both.count = s(apart).count
     /\ s(apart).cost # None => both.cost = s(apart).cost
     /\ s(one).count = Cardinality({one[i].id: i \in DOMAIN one})
     /\ \A f \in Fields: s(one).tokens[f] = IF latest(f) = {} THEN None
                                            ELSE MapThenSumSet(LAMBDA i: one[i].tokens[f], latest(f))
=============================================================================
