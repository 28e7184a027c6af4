------------------------------ MODULE ProcessTree ------------------------------
(* Stopping a coordinator and everything it started. The stopper reads the     *)
(* process table again and again while processes fork, exit, lose their        *)
(* parents and leave their numbers to strangers. A process is its number and   *)
(* the time of its start; one reading of the table is one step.                *)
EXTENDS Integers, FiniteSets

CONSTANTS
  Pids,
  Owner,       \* the number of the coordinator
  Stopper,     \* the number the orphans are handed to
  MaxStarts    \* bound on processes ever started

VARIABLES
  table,       \* [pid -> [start, parent, kin, fresh, lost, doomed] or Free]
  starts,      \* processes started so far
  stopAt,      \* where stop_process_tree is
  known,       \* [pid -> start] of the processes captured
  interrupted, \* numbers that got SIGINT
  reached      \* signalled processes: were they of the family?

treeVars == <<table, starts, stopAt, known, interrupted, reached>>

\* kin: descends from the coordinator. fresh: the table was not read since it
\* started. lost: its parent was gone before the table was read. The code knows
\* none of these. doomed: SIGKILL is under way.
Process(start, parent, kin, lost) ==
  [start |-> start, parent |-> parent, kin |-> kin, fresh |-> TRUE, lost |-> lost, doomed |-> FALSE]
Free == Process(0, Stopper, FALSE, FALSE)
Used == {p \in Pids: table[p] # Free}

Init ==
  /\ table = [p \in Pids |-> IF p = Owner THEN Process(1, Stopper, TRUE, FALSE) ELSE Free]
  /\ starts = 1 /\ stopAt = "begin"
  /\ known = [p \in {} |-> 0] /\ interrupted = {} /\ reached = {}

Running == stopAt \notin {"stopped", "not_running", "timed_out"}
\* A process of the tree forks, or someone else's takes a free number.
Fork(p, q) ==
  /\ Running /\ p \in Used /\ q \notin Used /\ starts < MaxStarts
  /\ ~table[p].doomed
  /\ starts' = starts + 1
  /\ table' = [table EXCEPT ![q] = Process(starts', p, table[p].kin, table[p].lost)]
  /\ UNCHANGED <<stopAt, known, interrupted, reached>>
Stranger(q) ==
  /\ Running /\ q \notin Used /\ starts < MaxStarts
  /\ starts' = starts + 1
  /\ table' = [table EXCEPT ![q] = Process(starts', Stopper, FALSE, FALSE)]
  /\ UNCHANGED <<stopAt, known, interrupted, reached>>
\* In the table: the processes and whoever descends from them.
Descendants(owners) ==
  LET grow[n \in 0..Cardinality(Pids)] ==
        IF n = 0 THEN owners
        ELSE grow[n - 1] \cup {p \in Used: table[p].parent \in grow[n - 1]}
  IN grow[Cardinality(Pids)]
\* A process ends, by itself or because of a signal; its children get another
\* parent, and the youngest of them cannot be traced any more.
Exit(p) ==
  /\ Running /\ p \in Used
  /\ LET children == {q \in Used: table[q].parent = p}
         lost == Descendants({q \in children: table[q].fresh})
     IN table' = [q \in Pids |->
          IF q = p THEN Free
          ELSE [table[q] EXCEPT !.parent = IF q \in children THEN Stopper ELSE @,
                                !.lost = @ \/ q \in lost]]
  /\ UNCHANGED <<starts, stopAt, known, interrupted, reached>>

\* The owners that are still the same processes, and their descendants.
Same(p) == p \in Used /\ table[p].start = known[p]
Owners == {p \in DOMAIN known: Same(p)}
Captured(owners) ==
  LET found == Descendants(owners) IN
  [p \in DOMAIN known \cup found |-> IF p \in found THEN table[p].start ELSE known[p]]
Read == table' = [p \in Pids |-> IF p \in Used THEN [table[p] EXCEPT !.fresh = FALSE] ELSE Free]

OwnerSame == Owner \in Used /\ table[Owner].start = 1
\* process_start of the coordinator, and the first reading.
Begin ==
  /\ stopAt = "begin"
  /\ IF ~OwnerSame THEN stopAt' = "not_running" /\ UNCHANGED <<table, known>>
     ELSE /\ stopAt' = "term" /\ Read
          /\ known' = [p \in Descendants({Owner}) |-> table[p].start]
  /\ UNCHANGED <<starts, interrupted, reached>>

\* _signal looks at the identity of the process it holds a descriptor of.
Reach(ps) == reached' = reached \cup {table[p].kin: p \in {x \in ps: Same(x)}}
Term ==
  /\ stopAt = "term" /\ stopAt' = "scan"
  /\ Reach({Owner})
  /\ UNCHANGED <<table, starts, known, interrupted>>
Scan ==
  /\ stopAt = "scan" /\ stopAt' = "look"
  /\ known' = Captured(Owners) /\ Read
  /\ UNCHANGED <<starts, interrupted, reached>>
\* Nobody is left; or the coordinator is gone and its children are interrupted;
\* or the grace period is over and all of them are killed.
Live == {p \in DOMAIN known: Same(p)}
Look ==
  /\ stopAt = "look"
  /\ IF Live = {} THEN stopAt' = "wait" /\ UNCHANGED <<interrupted, reached>>
     ELSE /\ stopAt' \in {"scan", "kill"}
          /\ IF OwnerSame THEN UNCHANGED <<interrupted, reached>>
             ELSE Reach(Live \ interrupted) /\ interrupted' = interrupted \cup Live
  /\ UNCHANGED <<table, starts, known>>
Kill ==
  /\ stopAt = "kill" /\ stopAt' = "wait"
  /\ Reach(Live)
  /\ table' = [p \in Pids |-> IF p \in Live THEN [table[p] EXCEPT !.doomed = TRUE] ELSE table[p]]
  /\ UNCHANGED <<starts, known, interrupted>>
Wait ==
  /\ stopAt = "wait"
  /\ stopAt' = IF Live = {} THEN "stopped" ELSE "timed_out"
  /\ UNCHANGED <<table, starts, known, interrupted, reached>>

Next ==
  \/ \E p, q \in Pids: Fork(p, q)
  \/ \E p \in Pids: Stranger(p) \/ Exit(p)
  \/ Begin \/ Term \/ Scan \/ Look \/ Kill \/ Wait

\* Only processes of the family get a signal, whoever has their numbers by now;
\* and once the tree is reported stopped, what is left of the family started and
\* lost its parent between two readings of the table, or descends from such.
FamilyOnly == reached \subseteq {TRUE}
SurvivorsLost ==
  stopAt = "stopped" => \A p \in Used: table[p].kin => table[p].lost
TreeHolds == FamilyOnly /\ SurvivorsLost
=============================================================================
