------------------------------- MODULE BatchPlans -------------------------------
(* What a batch runs and where: the conditions its configurations expand to,   *)
(* the cases each selects, the Dataset they are bound to when the batch is     *)
(* prepared, and the history of a case that a later batch goes on with.        *)
(* IDs are sequences of the parts between their dots.                          *)
EXTENDS Integers, Sequences, FiniteSets, SequencesExt

CONSTANT None

D == INSTANCE TaskDatasets WITH parse_evaluation <- << >>
Refused == D!Refused
Once(s) == Cardinality(ToSet(s)) = Len(s)

\* ---- The cases a request names, of those the condition has.
Matches(tasks, name) ==
  IF name \in ToSet(tasks) THEN {name} ELSE {t \in ToSet(tasks): <<Last(t)>> = name}
select_cases(tasks, names) ==
  LET one(i) == CHOOSE t \in Matches(tasks, names[i]): TRUE
      new == {i \in DOMAIN names: \A j \in 1..(i - 1): one(j) # one(i)}
      kept == D!Sorted(new, [i \in new |-> i])
  IN IF \E i \in DOMAIN names: Cardinality(Matches(tasks, names[i])) # 1 THEN Refused
     ELSE [k \in DOMAIN kept |-> one(kept[k])]

\* ---- One condition per effort of each file, and its output group.
Condition(config, effort) ==
  [tasks |-> config.tasks,
   group |-> IF Len(config.efforts) > 1 THEN <<config.stem, effort>> ELSE <<config.stem>>]
plan_conditions(configs) ==
  LET rows == [p \in UNION {{<<i, e>>: e \in DOMAIN configs[i].efforts}: i \in DOMAIN configs} |->
                 Condition(configs[p[1]], configs[p[1]].efforts[p[2]])]
  IN IF /\ \A i \in DOMAIN configs: Once(configs[i].efforts) /\ Once(configs[i].tasks)
        /\ \A p, q \in DOMAIN rows: p # q => rows[p].group # rows[q].group
     THEN rows ELSE Refused

\* ---- The directory of each case: a new one, or the latest there is.
\* records: [task, dir]; a history is <<component of the task, name>>, and names
\* that are no timestamp are 0. directories: those that exist.
Recorded(records, task) == {i \in DOMAIN records: records[i].task = task}
Placed(r) == Len(r.dir) = 2 /\ Head(r.dir) = r.task /\ Last(r.dir) # 0
\* The first of the latest of its records, unless there is a directory later still.
Latest(records, task) ==
  LET of == {i \in Recorded(records, task): Placed(records[i])}
      rank(i) == records[i].dir[2]
  IN IF of = {} THEN None
     ELSE records[CHOOSE i \in of: \A j \in of: rank(j) < rank(i) \/ (rank(j) = rank(i) /\ i <= j)].dir
Known(records, directories, task) ==
  LET latest == Latest(records, task)
      later == {d \in directories: Head(d) = task /\ d[2] # 0 /\ (latest = None \/ d[2] > latest[2])}
  IN IF later = {} THEN latest ELSE CHOOSE d \in later: \A e \in later: e[2] <= d[2]
case_outputs(records, directories, tasks, now, reuse) ==
  LET known(t) == IF reuse THEN Known(records, directories, t) ELSE None
      misplaced(t) == \E i \in Recorded(records, t): ~Placed(records[i])
  IN IF reuse /\ \E t \in tasks: known(t) = None /\ misplaced(t) THEN Refused
     ELSE [t \in tasks |-> IF known(t) = None THEN <<t, now>> ELSE known(t)]

\* ---- The cases of a Dataset: as they are when the batch is planned, and again
\* when it is prepared. datasets: source -> [data, index, commit, local].
\* c: [source, spec, tasks, offline]; spec names a selection of the index, or is None.
RowIds(rows) == [i \in DOMAIN rows |-> rows[i].id]
task_selection(c, datasets) ==
  IF c.spec = None THEN [c EXCEPT !.spec = [name |-> None, index |-> << >>]]
  ELSE LET rows == D!native_cases(datasets[c.source].data, datasets[c.source].index, c.spec)
           tasks == IF c.tasks = None THEN RowIds(rows) ELSE c.tasks
       IN IF rows = Refused THEN Refused
          ELSE IF ~(ToSet(tasks) \subseteq ToSet(RowIds(rows))) THEN Refused
          ELSE [c EXCEPT !.spec = [name |-> c.spec, index |-> rows], !.tasks = tasks]

\* Mutant: the index is trusted to be as it was.
IndexTrusted(p, datasets) == TRUE
IndexKept(p, datasets) ==
  p.spec.name # None =>
    D!native_cases(datasets[p.source].data, datasets[p.source].index, p.spec.name) = p.spec.index
Config(p, datasets, name) ==
  IF p.spec.name = None THEN D!case(datasets[p.source].data, name)
  ELSE (CHOOSE row \in ToSet(p.spec.index): row.id = name).path
Use(p, datasets, name) ==
  [name |-> name, path |-> Config(p, datasets, name),
   selection |-> [source |-> p.source, offline |-> p.offline, selected |-> p.spec.name,
                  revision |-> IF datasets[p.source].local THEN None ELSE datasets[p.source].commit]]
prepare_batch(plans, datasets) ==
  LET uses == UNION {{Use(plans[i], datasets, n): n \in ToSet(plans[i].tasks)}: i \in DOMAIN plans} IN
  IF \E i \in DOMAIN plans: ~IndexKept(plans[i], datasets) THEN Refused
  ELSE IF \E u \in uses: u.path = Refused \/ \E v \in uses: v.name = u.name /\ v # u THEN Refused
  ELSE [n \in {u.name: u \in uses} |->
          LET u == CHOOSE u \in uses: u.name = n
              set == datasets[u.selection.source]
          IN [selection |-> u.selection, path |-> u.path, version |-> set.data.cases[u.path].version,
              pdk |-> set.data.pdks[D!process_manifest(u.path)]]]

-----------------------------------------------------------------------------
\* A name stands for the one configured case it can mean; no case is run twice,
\* and none that was not asked for. plan.py:142-154.
CaseSelected(tasks, names) ==
  LET chosen == select_cases(tasks, names) IN
  chosen # Refused =>
    /\ Once(chosen) /\ ToSet(chosen) \subseteq ToSet(tasks)
    /\ \A n \in ToSet(names): \E t \in ToSet(chosen):
         t = n \/ \A u \in ToSet(tasks): (<<Last(u)>> = n) = (u = t)
    /\ \A t \in ToSet(chosen): t \in ToSet(names) \/ <<Last(t)>> \in ToSet(names)

\* No two conditions write into the same case directory, nor one below another's,
\* whatever files, efforts and cases they have in common. plan.py:127-139, 174-182.
ConditionsApart(configs, now) ==
  LET rows == plan_conditions(configs)
      dirs(i) == {rows[i].group \o <<t, now>>: t \in ToSet(rows[i].tasks)}
  IN rows # Refused =>
       \A i, j \in DOMAIN rows: \A d \in dirs(i), e \in dirs(j): <<i, d>> # <<j, e>> => ~IsPrefix(d, e)

\* A batch goes on with the latest history of each case, never with that of
\* another or an earlier one, in whatever order records are discovered; it
\* begins a new one only where there is none at all. plan.py:74-119.
ReuseLatest(records, directories, tasks, now) ==
  LET paths == case_outputs(records, directories, tasks, now, TRUE)
      history(t) == {d \in directories: Head(d) = t /\ d[2] # 0}
  IN /\ case_outputs(Reverse(records), directories, tasks, now, TRUE) = paths
     /\ paths = Refused <=> \E t \in tasks: history(t) = {} /\ Recorded(records, t) # {}
     /\ paths # Refused =>
          \A t \in tasks: IF history(t) = {} THEN paths[t] = <<t, now>>
                          ELSE paths[t] \in history(t) /\ \A d \in history(t): d[2] <= paths[t][2]

\* What is prepared is what was planned, though the Dataset may have changed in
\* between: each case of each condition comes from that condition's Dataset and
\* is the one the index named then, or, without one, the case of that name.
\* plan.py:189-226, config.py:78-118.
PreparedAsPlanned(conditions, planned, current) ==
  LET plans == [i \in DOMAIN conditions |-> task_selection(conditions[i], planned)] IN
  (\A i \in DOMAIN plans: plans[i] # Refused) =>
    LET batch == prepare_batch(plans, current) IN
    batch # Refused =>
      \A i \in DOMAIN plans: \A n \in ToSet(plans[i].tasks):
        LET c == conditions[i]
            p == batch[n]
            set == current[c.source]
        IN /\ p.selection.source = c.source
           /\ ~set.local => p.selection.revision = set.commit
           /\ p.version = set.data.cases[p.path].version
           /\ c.spec # None =>
                /\ planned[c.source].data.cases[p.path].id = n
                /\ p.version = planned[c.source].data.cases[p.path].version
                /\ p.pdk = planned[c.source].data.pdks[D!process_manifest(p.path)]
           /\ c.spec = None => set.data.cases[p.path].id = n \/ p.path[3] = n
=============================================================================
