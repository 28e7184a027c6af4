------------------------------ MODULE TaskDatasets ------------------------------
(* Published cases and the tasks they declare: which cases a selection names,  *)
(* what of a task a solver is given, and when two tasks are the same.          *)
(* Paths are sequences of names, and a digest is the content it is of.         *)
EXTENDS Integers, Sequences, FiniteSets, SequencesExt

CONSTANTS None, parse_evaluation   \* [content -> the plan it is], of the plans

Refused == None

\* ---- The index of a Dataset and its case files.
\* data: [cases: path -> case, pdks: process -> content]; a path is <<process,
\* collection, case>>. case: [id, in_core, order, eligible, version].
process_manifest(path) == Head(path)
CoreMembership(case) == case.in_core \in BOOLEAN /\ (case.in_core => case.eligible)
RowCurrent(data, row) ==
  /\ row.path \in DOMAIN data.cases
  /\ LET case == data.cases[row.path] IN
     /\ CoreMembership(case) /\ row.in_core = case.in_core
     /\ row.order = case.order
     /\ row.version = case.version
     /\ row.id = case.id
  /\ row.pdk = process_manifest(row.path)
  /\ row.pdk \in DOMAIN data.pdks /\ row.pdkVersion = data.pdks[row.pdk]

InCore(row) == row.in_core = TRUE
Ordered(rows) == \E r \in rows: r.order # None
\* The members of a set in the order of their numbers.
Sorted(S, number) ==
  [k \in 1..Cardinality(S) |-> CHOOSE x \in S: Cardinality({y \in S: number[y] < number[x]}) = k - 1]
select_core(rows) ==
  LET places == {i \in DOMAIN rows: InCore(rows[i])}
      core == {rows[i]: i \in places}
      kept == Sorted(places, [i \in places |-> i])
  IN IF \/ \E i \in DOMAIN rows: rows[i].order # None /\ (~InCore(rows[i]) \/ rows[i].order < 1)
        \/ Ordered(core) /\ \E i, j \in places: rows[i].order = None \/ (i # j /\ rows[i].order = rows[j].order)
     THEN Refused
     ELSE IF Ordered(core) THEN Sorted(core, [r \in core |-> r.order]) ELSE [k \in DOMAIN kept |-> rows[kept[k]]]

\* The rows of the selection, in its order; each names the case file it was checked against.
native_cases(data, index, name) ==
  LET selected == IF name = "core" THEN select_core(index) ELSE index IN
  IF \/ \E i, j \in DOMAIN index: i # j /\ index[i].id = index[j].id
     \/ \E i \in DOMAIN index: ~RowCurrent(data, index[i])
     \/ select_core(index) = Refused \/ selected = << >>
  THEN Refused ELSE selected

\* A case by its full ID, or by the name of its directory if one case has it.
Ids(data) == {data.cases[p].id: p \in DOMAIN data.cases}
case(data, name) ==
  LET exact == {p \in DOMAIN data.cases: data.cases[p].id = name}
      named == {p \in DOMAIN data.cases: p[3] = name}
      found == IF exact # {} THEN exact ELSE named
  IN IF Cardinality(Ids(data)) = Cardinality(DOMAIN data.cases) /\ Cardinality(found) = 1
     THEN CHOOSE p \in found: TRUE ELSE Refused

\* ---- A task, as it is declared and loaded.
\* d: [inputs, private: role -> [path, source, sha, derived], evaluation and
\* constraints: inline content or None, output, hours]; files: source -> content.
Roles(d) == DOMAIN d.inputs \cup DOMAIN d.private
Entry(d, r) == IF r \in DOMAIN d.inputs THEN d.inputs[r] ELSE d.private[r]
Overlap(p, q) == IsPrefix(p, q) \/ IsPrefix(q, p)
Declared(d) ==
  /\ "netlist" \in DOMAIN d.inputs
  /\ ~(d.evaluation # None /\ "evaluation" \in DOMAIN d.inputs)
  /\ (d.constraints # None) # ("constraints" \in DOMAIN d.inputs)
  /\ DOMAIN d.private \cap (DOMAIN d.inputs \cup {"netlist", "constraints", "evaluation"}) = {}
  /\ \A r \in DOMAIN d.inputs: d.inputs[r].derived = {}
  /\ \A r \in DOMAIN d.private: d.private[r].derived \subseteq DOMAIN d.inputs
  /\ \A r, s \in Roles(d): r # s => ~Overlap(Entry(d, r).path, Entry(d, s).path)
Authentic(d, files) ==
  \A r \in Roles(d):
    LET e == Entry(d, r) IN e.source \in DOMAIN files /\ (e.derived # {} \/ files[e.source] = e.sha)
\* What the plan may refer to; only files can be frozen.
PlanBound(plan, contents, inline) ==
  /\ plan.external \subseteq {<<"candidate">>, <<"task">>, <<"input", "evaluation">>}
                             \cup {<<"input", r>>: r \in DOMAIN contents \cup inline}
  /\ \A r \in DOMAIN plan.frozen: r \in DOMAIN contents /\ contents[r] = plan.frozen[r]
load_task(d, files) ==
  IF ~(Declared(d) /\ Authentic(d, files)) THEN Refused
  ELSE LET contents == [r \in Roles(d) |-> files[Entry(d, r).source]]
           evaluation == IF "evaluation" \in DOMAIN d.inputs THEN contents["evaluation"] ELSE d.evaluation
           inline == IF d.constraints = None THEN {} ELSE {"constraints"}
       IN IF evaluation # None /\ ~PlanBound(parse_evaluation[evaluation], contents, inline) THEN Refused
          ELSE [declared |-> d, contents |-> contents, evaluation |-> evaluation]

solver_inputs(t) == DOMAIN t.declared.inputs \ {"evaluation"}
solver_description(t) == [r \in solver_inputs(t) |-> t.declared.inputs[r].path]
\* The files have a place each, none below or in the way of another's.
Published(t) ==
  \A r, s \in solver_inputs(t): r # s => ~Overlap(t.declared.inputs[r].path, t.declared.inputs[s].path)
materialize(t) ==
  LET at(r) == t.declared.inputs[r].path IN
  IF ~Published(t) THEN Refused
  ELSE [p \in {at(r): r \in solver_inputs(t)} |-> t.contents[CHOOSE r \in solver_inputs(t): at(r) = p]]
Inline(t) ==
  (IF t.declared.constraints = None THEN {} ELSE {"constraints"}) \cup (IF t.evaluation = None THEN {} ELSE {"evaluation"})
input_assets(t) ==
  [r \in DOMAIN t.contents \cup Inline(t) |->
     IF r = "constraints" /\ t.declared.constraints # None THEN t.declared.constraints
     ELSE IF r \in DOMAIN t.contents THEN t.contents[r] ELSE t.evaluation]

\* What is compared of a canonical and a prepared task: neither where the files
\* come from nor the bytes of derived inputs.
task_contract(t) ==
  LET derived == {r \in DOMAIN t.declared.private: t.declared.private[r].derived # {}} IN
  [output |-> t.declared.output,
   paths |-> [r \in DOMAIN t.declared.inputs |-> t.declared.inputs[r].path],
   derivations |-> [r \in derived |-> t.declared.private[r].derived],
   inputs |-> [r \in DOMAIN input_assets(t) \ derived |-> input_assets(t)[r]]]

-----------------------------------------------------------------------------
\* A selection is the published one: the cases that say so themselves, in the
\* order they give and not that of the index, each once; a stale row outside the
\* selection is noticed too. dataset.py:29-104.
SelectionPublished(data, index) ==
  LET core == native_cases(data, index, "core") IN
  core # Refused =>
    /\ native_cases(data, index, "all") # Refused
    /\ {core[i].path: i \in DOMAIN core} = {p \in {index[i].path: i \in DOMAIN index}: data.cases[p].in_core}
    /\ \A i, j \in DOMAIN core:
         i < j => /\ core[i].id # core[j].id /\ core[i].path # core[j].path
                  /\ Ordered(ToSet(core)) => data.cases[core[i].path].order < data.cases[core[j].path].order
    /\ Ordered(ToSet(core)) => native_cases(data, Reverse(index), "core") = core
    /\ \A i \in DOMAIN core: case(data, core[i].id) \in {core[i].path, Refused}

\* A solver finds just what it is told of, with the declared bytes, and nothing
\* of the evaluator; the plan finds all it refers to, as it was when its
\* pre-layout results were frozen. contract.py:60-171, 223-333.
LoadedWhole(d, files) ==
  LET t == load_task(d, files) IN
  t # Refused =>
    LET seen == materialize(t)
        told == {solver_description(t)[r]: r \in DOMAIN solver_description(t)}
    IN /\ Published(t) /\ DOMAIN seen = told
       /\ \A r \in solver_inputs(t): seen[d.inputs[r].path] = d.inputs[r].sha
       /\ \A r \in DOMAIN d.private \cup ({"evaluation"} \cap DOMAIN d.inputs): \A p \in DOMAIN seen: ~Overlap(p, Entry(d, r).path)
       /\ t.evaluation # None =>
            LET plan == parse_evaluation[t.evaluation] IN
            /\ \A ref \in plan.external: Len(ref) = 2 => ref[2] \in DOMAIN input_assets(t)
            /\ \A r \in DOMAIN plan.frozen: input_assets(t)[r] = plan.frozen[r]

\* Tasks of one contract are the same for the solver, and for the evaluator but
\* for what it derives, whichever files they were loaded from. contract.py:359-374.
ContractBinds(d, files, e, others) ==
  LET t == load_task(d, files)
      u == load_task(e, others)
      derived == {r \in DOMAIN d.private: d.private[r].derived # {}}
  IN t # Refused /\ u # Refused /\ task_contract(t) = task_contract(u) =>
       /\ materialize(t) = materialize(u) /\ solver_description(t) = solver_description(u)
       /\ t.evaluation = u.evaluation
       /\ \A r \in DOMAIN input_assets(t) \ derived: input_assets(u)[r] = input_assets(t)[r]
=============================================================================
