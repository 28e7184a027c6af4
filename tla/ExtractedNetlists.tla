--------------------------- MODULE ExtractedNetlists ---------------------------
(* A netlist as an extractor writes it: physical lines, joined to the cards    *)
(* they belong to, whose devices are judged and left as they are while the     *)
(* ports of the top circuit are put in their declared order. A word is a pair: *)
(* the first of a card its kind and name, a parameter its name and value.      *)
EXTENDS Integers, Sequences, FiniteSets, SequencesExt, FiniteSetsExt

CONSTANTS None, Wrapped \* the subcircuits that stand for transistors

\* ---- Cards: a continuation belongs to the last card, comments between them
\* or not; after a blank line, to the comment it follows. `at' are line numbers.
Joined(line, kind, i) == [kind |-> kind, words |-> line.words, at |-> <<i>>]
Continue(s, line, i) ==
  LET n == Len(s.lines)
      target == IF s.current # 0 THEN s.current ELSE IF n > 0 /\ s.lines[n].kind = "comment" THEN n ELSE 0
  IN IF target = 0 THEN [s EXCEPT !.ok = FALSE]
     ELSE [s EXCEPT !.lines[target].words = @ \o line.words, !.lines[target].at = Append(@, i)]
logical_lines(physical) ==
  LET Read(s, i) ==
        LET line == physical[i] IN
        IF ~s.ok THEN s
        ELSE CASE line.kind = "blank" -> [s EXCEPT !.current = 0]
               [] line.kind = "comment" -> [s EXCEPT !.lines = Append(@, Joined(line, "comment", i))]
               [] line.kind = "+" -> Continue(s, line, i)
               [] line.kind = "card" -> [s EXCEPT !.lines = Append(@, Joined(line, "card", i)), !.current = Len(s.lines) + 1]
      s == FoldLeft(Read, [ok |-> TRUE, lines |-> << >>, current |-> 0], [i \in DOMAIN physical |-> i])
  IN IF s.ok THEN s.lines ELSE None

\* ---- Devices. A card with an unreadable value is no verdict on the layout.
Kind(card) == card.words[1][1]
Parameters(words) == [n \in {w[1]: w \in ToSet(words)} |-> words[Max({i \in DOMAIN words: words[i][1] = n})][2]]
positive_parameters(words, required, nonnegative) ==
  LET params == Parameters(words) IN
  IF ~(required \subseteq DOMAIN params) THEN "rejected"
  ELSE IF \E n \in required: params[n] = None THEN "error"
  ELSE IF \E n \in required: params[n] < 0 \/ (n \notin nonnegative /\ params[n] = 0) THEN "rejected"
  ELSE "device"
After(words, n) == SubSeq(words, n, Len(words))
IsMos(card) == Kind(card) = "m" \/ (Kind(card) = "x" /\ Len(card.words) >= 7 /\ card.words[6] \in Wrapped)
Resistor(words) ==
  IF Len(words) < 4 THEN "error"
  ELSE IF words[4][1] # "number" THEN positive_parameters(After(words, 5), {"l", "w"}, {})
  ELSE IF words[4][2] < 0 THEN "rejected"
  ELSE IF \E w \in ToSet(After(words, 5)): w[1] \in {"segl", "segw"} THEN "error"
  ELSE "plain"
Judge(card, junctions) ==
  LET words == card.words IN
  IF card.kind = "comment" \/ Kind(card) = ".subckt" THEN "plain"
  ELSE IF IsMos(card) THEN IF Len(words) < 7 THEN "error"
                            ELSE positive_parameters(After(words, 7), {"l", "w"} \cup junctions, junctions)
  ELSE IF Kind(card) = "q" THEN IF Len(words) < 6 THEN "error"
                                   ELSE positive_parameters(After(words, 6), {"area", "m"} \cap DOMAIN Parameters(After(words, 6)), {})
  ELSE IF Kind(card) = "r" THEN Resistor(words)
  ELSE "plain"

\* ---- The interface: only the header's own lines are written anew.
Header(top, ports) == <<<<".subckt", None>>, <<top, None>>>> \o ports
HeadersOf(lines, top) ==
  SelectSeq(lines, LAMBDA l: l.kind = "card" /\ Kind(l) = ".subckt" /\ Len(l.words) > 1 /\ l.words[2][1] = top)
Replaced(physical, headers, top, ports) ==
  LET own == After(headers[1].words, 3)
      kept == SelectSeq([i \in DOMAIN physical |-> i], LAMBDA i: i \notin ToSet(After(headers[1].at, 2)))
  IN IF Len(headers) # 1 \/ Len(own) # Len(ports) \/ ToSet(own) # ToSet(ports) THEN None
     ELSE [k \in DOMAIN kept |-> IF kept[k] = headers[1].at[1] THEN [kind |-> "card", words |-> Header(top, ports)]
                                 ELSE physical[kept[k]]]
bind_ports(physical, top, ports) == Replaced(physical, HeadersOf(logical_lines(physical), top), top, ports)
Verdict(lines, judged, bound) ==
  LET wrong == SelectSeq(judged, LAMBDA j: j \in {"error", "rejected"})
      kinds == {Kind(l): l \in {x \in ToSet(lines): x.kind = "card"}}
      out(status) == [status |-> status, lines |-> << >>]
  IN IF lines = None THEN out("error")
     ELSE IF wrong # << >> THEN out(wrong[1])
     ELSE IF "device" \notin ToSet(judged) \/ ~({"r", "c"} \subseteq kinds) THEN out("rejected")
     ELSE IF bound = None THEN out("rejected")
     ELSE [status |-> "bound", lines |-> bound]
bind_extracted_netlist(physical, top, ports, junctions) ==
  LET lines == logical_lines(physical) IN
  Verdict(lines, [i \in DOMAIN lines |-> Judge(lines[i], junctions)], bind_ports(physical, top, ports))

-----------------------------------------------------------------------------
\* However the extractor wraps and comments its lines, a netlist that is bound
\* reads as it did but for its header: no line is taken for another card's when
\* the header's lines are gone. Its devices are those the layout has, none of
\* them without extent, behind the declared ports; and binding it again changes
\* nothing.
ReadsAs(before, after, top, ports) ==
  LET is(l) == l.kind = "card" /\ Kind(l) = ".subckt" IN
  /\ after # None /\ Len(after) = Len(before)
  /\ \A i \in DOMAIN before:
       /\ after[i].kind = before[i].kind
       /\ after[i].words = IF is(before[i]) THEN Header(top, ports) ELSE before[i].words
       /\ ~is(before[i]) => Len(after[i].at) = Len(before[i].at)
  /\ \E i \in DOMAIN before: is(before[i]) /\ ToSet(After(before[i].words, 3)) = ToSet(ports)
  /\ \A i \in DOMAIN before: IsMos(before[i]) /\ before[i].kind = "card" => \A n \in {"l", "w"}: Parameters(before[i].words)[n] > 0
NetlistKept(physical, top, ports, junctions) ==
  LET bind(p) == bind_extracted_netlist(p, top, ports, junctions)
      Kept(v) == v.status = "bound" =>
                   /\ ReadsAs(logical_lines(physical), logical_lines(v.lines), top, ports)
                   /\ bind(v.lines) = v
  IN Kept(bind(physical))
\* A card is its own line and every continuation after it up to the next card
\* or blank line, and no line's words are dropped: what cannot be joined is not
\* taken for a shorter netlist.
CardsWhole(physical) ==
  LET lines == logical_lines(physical)
      until(i) == {k \in DOMAIN physical: k > i /\ physical[k].kind = "+" /\
                     \A m \in (i + 1)..(k - 1): physical[m].kind \notin {"card", "blank"}}
      number(s) == FoldLeft(LAMBDA n, l: n + Len(l.words), 0, s)
  IN lines # None =>
       /\ \A l \in ToSet(lines): l.kind = "card" => ToSet(l.at) = {l.at[1]} \cup until(l.at[1])
       /\ number(lines) = number(physical)
=============================================================================
