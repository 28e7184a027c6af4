------------------------ MODULE BatchSchedulerProofs ------------------------
(***************************************************************************)
(* Proofs about the batch scheduler, for every schedule, set of workers,   *)
(* concurrency and number of crashes.                                      *)
(*                                                                         *)
(* The first part is about the lease.  LeaseInv says who may hold the task *)
(* of a slot: while a scheduler owns a task, only the workers it waits for *)
(* do (Leased), the slots in its queue have no worker (Waiting), a worker  *)
(* it merely watches is dead once the task is its own (Orphaned), and a    *)
(* collector shares no task with anyone (CollectorAlone).                  *)
(***************************************************************************)
EXTENDS BatchScheduler, FiniteSetTheorems, TLAPS

Stages == {"journal", "stage", "move", "renew", "unlink"}
Doing == {"spawned", "fed", "named", "begun", "solving",
          "summed", "saved", "export", "exported", "committed"}
Tasks == {Task(s): s \in Slots}

ProcRecords ==
  [pc: {"off", "exited", "failed", "pick"} \cup Doing, slot: Slots, native: BOOLEAN,
   outcome: {"none", "finished", "suspended"}, stop: BOOLEAN, todo: SUBSET Slots]
SchedRecords ==
  [pc: {"off", "admit", "init", "loop", "peeked", "ours", "closing"} \cup Stages,
   mode: {"fresh", "resume", "replace"}, todo: SUBSET Tasks, owned: SUBSET Tasks,
   queue: Seq(Slots), by: [Slots -> Workers \cup {0}], watched: SUBSET Slots,
   blocked: BOOLEAN]
ActorTypes == proc \in [Procs -> ProcRecords] /\ sched \in SchedRecords

\* A worker never collects, a collector never solves, and a CLI runs only
\* below a worker that waits for it or has died.
Roles ==
  /\ \A w \in Workers:
       proc[w].pc # "pick" /\ (proc[w].native => proc[w].pc \in {"solving", "failed"})
  /\ ~proc[Collector].native
  /\ proc[Collector].pc \in {"off", "pick", "summed", "saved", "export", "exported", "committed"}

\* The process a scheduler waits for keeps its slot, dead or alive.
AskedFor ==
  /\ \A s \in Slots: sched.by[s] # 0 => proc[sched.by[s]].slot = s
  /\ \A s \in sched.watched: sched.by[s] # 0

QueueReady ==
  /\ sched.pc \in Stages \cup {"peeked", "ours"} => sched.queue # <<>>
  /\ sched.pc = "ours" => Task(Head(sched.queue)) \in sched.owned

\* The queue names a slot once, and none that has a worker.
Ready(q, by) == \A i \in 1..Len(q):
  by[q[i]] = 0 /\ \A j \in 1..Len(q): q[i] = q[j] => i = j
Waiting == sched.pc \in {"init", "loop", "peeked", "ours"} => Ready(sched.queue, sched.by)

\* Until the loop begins, a scheduler has no worker but those it adopts.
Adopting ==
  /\ sched.pc = "admit" => \A s \in Slots: sched.by[s] # 0 => s \in sched.watched
  /\ sched.pc = "admit" /\ sched.mode = "replace" => sched.watched = {}
  /\ sched.pc \in Stages => \A s \in Slots: sched.by[s] = 0

Leased ==
  sched.pc # "closing" => \A w \in Workers:
    WorksOn(w) /\ Task(proc[w].slot) \in sched.owned => sched.by[proc[w].slot] = w

Orphaned == \A s \in sched.watched, w \in Workers:
  Task(s) \in sched.owned /\ sched.by[s] = w => ~WorksOn(w)

Collecting ==
  proc[Collector].todo \cup (IF At(Collector, "pick") THEN {} ELSE {proc[Collector].slot})
CollectorAlone == Working(Collector) => \A s \in Collecting:
  /\ Task(s) \notin sched.owned
  /\ \A w \in Workers: WorksOn(w) => Task(proc[w].slot) # Task(s)

Exclusive == \A v, w \in Workers:
  v # w /\ WorksOn(v) /\ WorksOn(w) => proc[v].slot # proc[w].slot

LeaseInv ==
  /\ ActorTypes /\ Roles /\ AskedFor /\ QueueReady /\ Waiting /\ Adopting
  /\ Leased /\ Orphaned /\ CollectorAlone /\ Exclusive

----------------------------------------------------------------------------
(* The constants *)

LEMMA IdleTyped == Idle \in ProcRecords /\ Schedule[1] \in Slots
<1>1. Schedule[1] \in Slots
  BY BatchAssumption
<1> QED BY <1>1 DEF Idle, ProcRecords

LEMMA NoSchedTyped == NoSched \in SchedRecords
<1>1. [s \in Slots |-> 0] \in [Slots -> Workers \cup {0}]
  OBVIOUS
<1> QED BY <1>1 DEF NoSched, SchedRecords

LEMMA CollectorApart == Collector \notin Workers
BY BatchAssumption DEF Collector

----------------------------------------------------------------------------
(* What most steps do to the lease                                         *)

\* A step of one process: it takes on no case it did not have, and it keeps
\* its slot unless nobody waits for it.
Steps(w) ==
  /\ proc' \in [Procs -> ProcRecords] /\ sched' = sched
  /\ \A v \in Procs: v # w => proc'[v] = proc[v]
  /\ Roles'
  /\ w # Collector =>
       /\ WorksOn(w)' => WorksOn(w)
       /\ \/ proc'[w].slot = proc[w].slot
          \/ ~WorksOn(w)' /\ \A s \in Slots: sched.by[s] # w
  /\ w = Collector =>
       /\ Working(Collector)' => Working(Collector)
       /\ Collecting' \subseteq Collecting \/ ~Working(Collector)'

\* No step of a process disturbs the lease, as long as it does that much.
LEMMA StepsKeep ==
  ASSUME LeaseInv, NEW w \in Procs, Steps(w)
  PROVE LeaseInv'
<1> USE DEF LeaseInv
<1>1. ActorTypes' /\ Roles'
  BY DEF ActorTypes, Steps
<1>2. AskedFor'
  BY CollectorApart DEF Steps, AskedFor, ActorTypes, SchedRecords, Procs, Collector
<1>3. QueueReady' /\ Waiting' /\ Adopting'
  BY DEF Steps, QueueReady, Waiting, Adopting, Tasks, Task
<1>4. \A v \in Workers: WorksOn(v)' => WorksOn(v) /\ proc'[v].slot = proc[v].slot
  BY CollectorApart DEF Steps, WorksOn, Working, At, Procs, Collector
<1>5. Leased'
  BY <1>4 DEF Steps, Leased
<1>6. Orphaned'
  BY <1>4 DEF Steps, Orphaned, ActorTypes, SchedRecords
<1>7. CollectorAlone'
  <2>1. CASE w = Collector
    BY <1>4, <2>1 DEF Steps, CollectorAlone
  <2>2. CASE w # Collector
    <3>1. proc'[Collector] = proc[Collector]
      BY <2>2 DEF Steps, Procs
    <3> QED BY <1>4, <3>1 DEF Steps, CollectorAlone, Collecting, Working, At
  <2> QED BY <2>1, <2>2
<1>8. Exclusive'
  BY <1>4 DEF Exclusive
<1> QED BY <1>1, <1>2, <1>3, <1>5, <1>6, <1>7, <1>8

\* The lease is free of a scheduler that ends, whatever leaves with it.
LEMMA LetGoKeeps ==
  ASSUME LeaseInv, sched' = NoSched, proc' \in [Procs -> ProcRecords],
         \A w \in Procs: proc'[w] = proc[w] \/ proc'[w] = Idle
  PROVE LeaseInv'
<1> USE DEF LeaseInv
<1>1. ActorTypes'
  BY NoSchedTyped DEF ActorTypes
<1>2. Roles'
  BY DEF Roles, Idle, Procs
<1>3. /\ AskedFor' /\ QueueReady' /\ Waiting' /\ Adopting' /\ Leased' /\ Orphaned'
  BY DEF NoSched, AskedFor, QueueReady, Waiting, Adopting, Leased, Orphaned, Stages
<1>4. \A v \in Workers: WorksOn(v)' => WorksOn(v) /\ proc'[v].slot = proc[v].slot
  BY CollectorApart DEF WorksOn, Working, At, Procs, Idle
<1>5. Working(Collector)' => proc'[Collector] = proc[Collector]
  BY DEF Working, Procs, Idle
<1>6. CollectorAlone'
  BY <1>4, <1>5 DEF CollectorAlone, Collecting, Working, At, NoSched
<1>7. Exclusive'
  BY <1>4 DEF Exclusive
<1> QED BY <1>1, <1>2, <1>3, <1>6, <1>7

----------------------------------------------------------------------------
(* The steps of one process                                                *)

\* A process that is at work goes on to another place, with the same slot.
LEMMA GoesOn ==
  ASSUME LeaseInv, NEW w \in Procs, Working(w), ~At(w, "pick"), sched' = sched,
         proc' \in [Procs -> ProcRecords],
         \A v \in Procs: v # w => proc'[v] = proc[v],
         proc'[w].slot = proc[w].slot, proc'[w].todo = proc[w].todo,
         w # Collector => proc'[w].pc # "pick" /\ (proc'[w].native => proc'[w].pc = "solving"),
         w = Collector =>
           /\ ~proc'[w].native
           /\ proc'[w].pc \in {"pick", "summed", "saved", "export", "exported", "committed"}
  PROVE Steps(w)
<1>1. Roles'
  <2>1. \A v \in Workers: proc'[v].pc # "pick"
                         /\ (proc'[v].native => proc'[v].pc \in {"solving", "failed"})
    BY CollectorApart DEF LeaseInv, Roles, Procs
  <2>2. ~proc'[Collector].native
    BY DEF LeaseInv, Roles, Procs
  <2>3. proc'[Collector].pc
          \in {"off", "pick", "summed", "saved", "export", "exported", "committed"}
    BY DEF LeaseInv, Roles, Procs
  <2> QED BY <2>1, <2>2, <2>3 DEF Roles
<1>2. Collecting' \subseteq Collecting \/ w # Collector
  BY DEF Collecting, At
<1>3. w # Collector => (WorksOn(w)' => WorksOn(w))
  BY DEF WorksOn
<1>4. w = Collector => (Working(Collector)' => Working(Collector))
  OBVIOUS
<1> QED BY <1>1, <1>2, <1>3, <1>4 DEF Steps

\* A process that dies or returns: it waits to be noticed or is forgotten.
LEMMA Leaves ==
  ASSUME LeaseInv, NEW w \in Procs, Working(w), sched' = sched,
         NEW pc \in {"exited", "failed"}, pc = "exited" => ~proc[w].native,
         proc' = [proc EXCEPT ![w] = Gone(w, pc)], w = Collector => pc = "failed"
  PROVE Steps(w)
<1> USE DEF LeaseInv
<1>1. proc' \in [Procs -> ProcRecords]
  <2>1. [proc[w] EXCEPT !.pc = pc] \in ProcRecords
    BY DEF ActorTypes, ProcRecords
  <2>2. Gone(w, pc) \in ProcRecords
    BY <2>1, IdleTyped DEF Gone
  <2> QED BY <2>2 DEF ActorTypes
<1>2. proc[w] \in ProcRecords
  BY DEF ActorTypes
<1>3. CASE w = Collector
  <2>1. proc'[w] = Idle
    BY <1>3 DEF Gone, ActorTypes
  <2>2. Roles'
    BY <1>3, <2>1, CollectorApart DEF Roles, Procs, Idle, ActorTypes
  <2> QED BY <1>1, <1>3, <2>1, <2>2 DEF Steps, Working, Idle, ActorTypes
<1>4. CASE w # Collector /\ (w = sched.by[proc[w].slot] \/ proc[w].native)
  <2>1. proc'[w] = [proc[w] EXCEPT !.pc = pc]
    BY <1>4 DEF Gone, ActorTypes
  <2>2. proc'[w].native = proc[w].native /\ proc'[w].pc = pc /\ proc'[w].slot = proc[w].slot
    BY <1>2, <2>1 DEF ProcRecords
  <2>3. Roles'
    BY <1>4, <2>2 DEF Roles, Procs, ActorTypes
  <2>4. WorksOn(w)
    BY <1>4 DEF WorksOn
  <2> QED BY <1>1, <1>4, <2>2, <2>3, <2>4 DEF Steps, ActorTypes
<1>5. CASE w # Collector /\ ~(w = sched.by[proc[w].slot] \/ proc[w].native)
  <2>1. proc'[w] = Idle
    BY <1>5 DEF Gone, ActorTypes
  <2>2. Roles'
    BY <1>5, <2>1 DEF Roles, Procs, Idle, ActorTypes
  <2>3. \A s \in Slots: sched.by[s] # w
    BY <1>5, CollectorApart DEF AskedFor, Procs, Collector
  <2>4. ~WorksOn(w)'
    BY <1>5, <2>1 DEF WorksOn, Working, Idle
  <2> QED BY <1>1, <1>5, <2>2, <2>3, <2>4 DEF Steps, ActorTypes
<1> QED BY <1>3, <1>4, <1>5

LEMMA FeedSteps == ASSUME LeaseInv, NEW w \in Procs, Feed(w) PROVE Steps(w)
<1> USE DEF LeaseInv
<1>1. w # Collector /\ Working(w) /\ ~proc[w].native /\ proc[w].slot \in Slots
  BY DEF Feed, At, Roles, Working, Procs, ActorTypes, ProcRecords
<1>2. CASE sched.by[proc[w].slot] = w
  BY <1>1, <1>2, GoesOn DEF Feed, At, Move, ActorTypes, ProcRecords, Doing
<1>3. CASE sched.by[proc[w].slot] # w
  <2>1. proc' = [proc EXCEPT ![w] = Idle]
    BY <1>3 DEF Feed
  <2>2. \A s \in Slots: sched.by[s] # w
    BY <1>1, <1>3, CollectorApart DEF AskedFor, Procs, Collector
  <2>3. Roles'
    BY <1>1, <2>1 DEF Roles, Procs, Idle, ActorTypes
  <2> QED BY <1>1, <2>1, <2>2, <2>3, IdleTyped DEF Feed, Steps, WorksOn, Working, Idle, ActorTypes
<1> QED BY <1>2, <1>3

LEMMA NameOwnerSteps == ASSUME LeaseInv, NEW w \in Procs, NameOwner(w) PROVE Steps(w)
BY GoesOn DEF NameOwner, LeaseInv, Roles, Procs, At, Move, Working, ActorTypes, ProcRecords, Doing

LEMMA BeginSteps == ASSUME LeaseInv, NEW w \in Procs, Begin(w) PROVE Steps(w)
<1> USE DEF LeaseInv
<1>1. PICK pc \in {"committed", "export", "begun"}: proc' = [proc EXCEPT ![w].pc = pc]
  BY DEF Begin, Move
<1>2. w # Collector /\ Working(w) /\ ~proc[w].native /\ sched' = sched
  BY DEF Begin, At, Roles, Working, Procs, ActorTypes, ProcRecords
<1> QED BY <1>1, <1>2, GoesOn DEF Begin, At, ActorTypes, ProcRecords, Doing

LEMMA LaunchSteps == ASSUME LeaseInv, NEW w \in Procs, Launch(w) PROVE Steps(w)
BY GoesOn DEF Launch, LeaseInv, Roles, Procs, At, Working, ActorTypes, ProcRecords, Doing

LEMMA SummariseSteps ==
  ASSUME LeaseInv, NEW w \in Procs, NEW o \in {"finished", "suspended"}, NEW stop \in BOOLEAN,
         Summarise(w, o, stop)
  PROVE Steps(w)
<1>1. /\ w # Collector /\ Working(w) /\ ~At(w, "pick") /\ sched' = sched
      /\ proc' = [proc EXCEPT ![w] =
                    [@ EXCEPT !.pc = "summed", !.outcome = o, !.stop = stop]]
  BY DEF Summarise, LeaseInv, Roles, At, Working
<1>2. /\ proc[w] \in ProcRecords /\ ~proc[w].native
  BY DEF Summarise, LeaseInv, ActorTypes
<1>3. [proc[w] EXCEPT !.pc = "summed", !.outcome = o, !.stop = stop] \in ProcRecords
  BY <1>2 DEF ProcRecords, Doing
<1> QED BY <1>1, <1>2, <1>3, GoesOn DEF LeaseInv, ActorTypes, ProcRecords

LEMMA SaveSummarySteps == ASSUME LeaseInv, NEW w \in Procs, SaveSummary(w) PROVE Steps(w)
BY GoesOn DEF SaveSummary, LeaseInv, Roles, Procs, At, Move, Working, ActorTypes, ProcRecords, Doing

LEMMA ExportSteps == ASSUME LeaseInv, NEW w \in Procs, Export(w) PROVE Steps(w)
BY GoesOn DEF Export, LeaseInv, Roles, Procs, At, Move, Working, ActorTypes, ProcRecords, Doing

LEMMA CommitSteps == ASSUME LeaseInv, NEW w \in Procs, Commit(w) PROVE Steps(w)
BY GoesOn DEF Commit, LeaseInv, Roles, Procs, At, Move, Working, ActorTypes, ProcRecords, Doing

LEMMA ExitsSteps ==
  ASSUME LeaseInv, NEW w \in Procs, Working(w), ~At(w, "pick"), ~proc[w].native,
         sched' = sched, Exits(w)
  PROVE Steps(w)
<1>1. CASE w = Collector
  BY <1>1, GoesOn DEF Exits, LeaseInv, ActorTypes, ProcRecords
<1>2. CASE w # Collector
  BY <1>2, Leaves DEF Exits
<1> QED BY <1>1, <1>2

LEMMA RecordSummarySteps == ASSUME LeaseInv, NEW w \in Procs, RecordSummary(w) PROVE Steps(w)
<1>1. Working(w) /\ ~At(w, "pick") /\ ~proc[w].native /\ sched' = sched
  BY DEF RecordSummary, LeaseInv, Roles, Procs, At, Working
<1>2. CASE proc[w].outcome = "finished"
  BY <1>1, <1>2, GoesOn DEF RecordSummary, LeaseInv, Move, ActorTypes, ProcRecords, Doing
<1>3. CASE proc[w].outcome # "finished"
  BY <1>1, <1>3, ExitsSteps DEF RecordSummary
<1> QED BY <1>2, <1>3

LEMMA CleanSteps == ASSUME LeaseInv, NEW w \in Procs, Clean(w) PROVE Steps(w)
<1>1. Working(w) /\ ~At(w, "pick") /\ ~proc[w].native /\ sched' = sched
  BY DEF Clean, LeaseInv, Roles, Procs, At, Working
<1> QED BY <1>1, ExitsSteps DEF Clean

LEMMA ProcStepSteps == ASSUME LeaseInv, NEW w \in Procs, ProcStep(w) PROVE Steps(w)
<1>1. ASSUME NEW o \in {"finished", "suspended"}, NEW stop \in BOOLEAN, Summarise(w, o, stop)
      PROVE Steps(w)
  BY <1>1, SummariseSteps
<1> QED BY <1>1, FeedSteps, NameOwnerSteps, BeginSteps, LaunchSteps, SaveSummarySteps,
     RecordSummarySteps, ExportSteps, CommitSteps, CleanSteps DEF ProcStep

LEMMA NativeEndsSteps == ASSUME LeaseInv, NEW w \in Procs, NativeEnds(w) PROVE Steps(w)
<1> USE DEF LeaseInv
<1>1. w # Collector /\ proc[w].native /\ w \in Workers /\ WorksOn(w)
  BY DEF NativeEnds, Roles, WorksOn, Procs
<1>2. CASE Working(w) \/ \E s \in Slots: sched.by[s] = w
  <2>1. proc' = [proc EXCEPT ![w].native = FALSE]
    BY <1>2 DEF NativeEnds
  <2>2. Roles'
    BY <1>1, <2>1 DEF Roles, Procs, ActorTypes, ProcRecords
  <2>3. proc' \in [Procs -> ProcRecords] /\ proc'[w].slot = proc[w].slot
    BY <2>1 DEF ActorTypes, ProcRecords
  <2>4. \A v \in Procs: v # w => proc'[v] = proc[v]
    BY <2>1 DEF ActorTypes
  <2> QED BY <1>1, <2>2, <2>3, <2>4 DEF NativeEnds, Steps
<1>3. CASE ~(Working(w) \/ \E s \in Slots: sched.by[s] = w)
  <2>1. proc' = [proc EXCEPT ![w] = Idle]
    BY <1>3 DEF NativeEnds
  <2>2. Roles'
    BY <1>1, <2>1 DEF Roles, Procs, Idle, ActorTypes
  <2> QED BY <1>1, <1>3, <2>1, <2>2, IdleTyped
       DEF NativeEnds, Steps, WorksOn, Working, Idle, ActorTypes
<1> QED BY <1>2, <1>3

LEMMA ProcDiesSteps == ASSUME LeaseInv, NEW w \in Procs, ProcDies(w) PROVE Steps(w)
BY Leaves DEF ProcDies

\* A collector goes through the cases it found; it leaves or takes the next.
LEMMA CollectorStepSteps == ASSUME LeaseInv, CollectorStep PROVE Steps(Collector)
<1> USE DEF LeaseInv
<1>1. Collector \in Procs /\ At(Collector, "pick") /\ sched' = sched
  BY DEF CollectorStep, Collect, CollectEnds, Procs
<1>2. PICK r \in ProcRecords:
        /\ proc' = [proc EXCEPT ![Collector] = r] /\ ~r.native
        /\ \/ /\ r.pc \in {"pick", "summed", "export", "committed"}
              /\ r.todo \subseteq proc[Collector].todo
              /\ r.pc # "pick" => r.slot \in proc[Collector].todo
           \/ r.pc = "off"
  <2>1. CASE CollectEnds
    BY <2>1, IdleTyped DEF CollectEnds, Idle
  <2>2. ASSUME NEW s \in Slots, Collect(s) PROVE \E r \in ProcRecords:
          /\ proc' = [proc EXCEPT ![Collector] = r] /\ ~r.native
          /\ \/ /\ r.pc \in {"pick", "summed", "export", "committed"}
                /\ r.todo \subseteq proc[Collector].todo
                /\ r.pc # "pick" => r.slot \in proc[Collector].todo
             \/ r.pc = "off"
    <3>1. s \in proc[Collector].todo /\ proc[Collector] \in ProcRecords
      BY <1>1, <2>2 DEF Collect, First, ActorTypes
    <3> DEFINE taken == [proc[Collector] EXCEPT !.pc = Entry(s), !.slot = s, !.todo = Others(s),
                                                !.outcome = "finished", !.stop = FALSE]
               passed == [proc[Collector] EXCEPT !.todo = Others(s)]
    <3>2. \/ proc' = [proc EXCEPT ![Collector] = taken]
          \/ proc' = [proc EXCEPT ![Collector] = passed]
          \/ proc' = [proc EXCEPT ![Collector] = Idle]
      BY <2>2 DEF Collect
    <3>3. /\ taken \in ProcRecords /\ taken.slot = s /\ taken.todo \subseteq proc[Collector].todo
          /\ taken.native = proc[Collector].native
          /\ taken.pc \in {"summed", "export", "committed"}
      BY <3>1 DEF ProcRecords, Doing, Entry, Others
    <3>4. /\ passed \in ProcRecords /\ passed.todo \subseteq proc[Collector].todo
          /\ passed.native = proc[Collector].native /\ passed.pc = proc[Collector].pc
      BY <3>1 DEF ProcRecords, Others
    <3>5. Idle \in ProcRecords /\ ~Idle.native /\ Idle.pc = "off"
      BY IdleTyped DEF Idle
    <3> HIDE DEF taken, passed
    <3>6. ~proc[Collector].native /\ proc[Collector].pc = "pick"
      BY <1>1 DEF Roles, At
    <3> QED BY <3>1, <3>2, <3>3, <3>4, <3>5, <3>6
  <2> QED BY <2>1, <2>2 DEF CollectorStep
<1>3. /\ proc' \in [Procs -> ProcRecords] /\ proc'[Collector] = r
      /\ \A v \in Procs: v # Collector => proc'[v] = proc[v]
  BY <1>1, <1>2 DEF ActorTypes
<1>4. Roles'
  <2>1. \A v \in Workers: proc'[v] = proc[v]
    BY <1>3, CollectorApart DEF Procs
  <2> QED BY <1>2, <1>3, <2>1 DEF Roles
<1>5. Working(Collector)
  BY <1>1 DEF Working, At
<1>6. Collecting' \subseteq Collecting \/ ~Working(Collector)'
  <2>1. CASE r.pc = "off"
    BY <1>3, <2>1 DEF Working
  <2>2. CASE r.pc # "off" /\ r.pc # "pick"
    BY <1>2, <1>3, <2>2 DEF Collecting, At
  <2>3. CASE r.pc = "pick"
    BY <1>2, <1>3, <2>3 DEF Collecting, At
  <2> QED BY <2>1, <2>2, <2>3
<1> QED BY <1>1, <1>3, <1>4, <1>5, <1>6 DEF Steps

----------------------------------------------------------------------------
(* The queue                                                               *)

LEMMA ReadyTail ==
  ASSUME NEW q \in Seq(Slots), q # <<>>, NEW by, Ready(q, by)
  PROVE /\ Tail(q) \in Seq(Slots) /\ Head(q) \in Slots /\ by[Head(q)] = 0
        /\ Ready(Tail(q), by)
        /\ \A i \in 1..Len(Tail(q)): Tail(q)[i] # Head(q)
<1>1. /\ Len(q) \in Nat \ {0} /\ Head(q) = q[1] /\ Len(Tail(q)) = Len(q) - 1
      /\ Tail(q) \in Seq(Slots) /\ \A i \in 1..Len(Tail(q)): Tail(q)[i] = q[i + 1]
  OBVIOUS
<1> QED BY <1>1 DEF Ready

LEMMA ReadyRotates ==
  ASSUME NEW q \in Seq(Slots), q # <<>>, NEW by, Ready(q, by)
  PROVE /\ Append(Tail(q), Head(q)) \in Seq(Slots)
        /\ Ready(Append(Tail(q), Head(q)), by)
<1> DEFINE r == Append(Tail(q), Head(q))
<1>1. /\ Tail(q) \in Seq(Slots) /\ Head(q) \in Slots /\ by[Head(q)] = 0
      /\ Ready(Tail(q), by)
      /\ \A i \in 1..Len(Tail(q)): Tail(q)[i] # Head(q)
  BY ReadyTail
<1>2. /\ r \in Seq(Slots) /\ Len(Tail(q)) \in Nat /\ Len(r) = Len(Tail(q)) + 1
      /\ r[Len(r)] = Head(q) /\ \A i \in 1..Len(Tail(q)): r[i] = Tail(q)[i]
  BY <1>1
<1>3. \A i \in 1..Len(r): i = Len(r) \/ i \in 1..Len(Tail(q))
  BY <1>2
<1> HIDE DEF r
<1>4. Ready(r, by)
  BY <1>1, <1>2, <1>3 DEF Ready
<1> QED BY <1>2, <1>4 DEF r

\* Every slot, in the order of the schedule, while nobody has a worker.
LEMMA ScheduleReady ==
  ASSUME NEW by, \A s \in Slots: by[s] = 0
  PROVE Schedule \in Seq(Slots) /\ Schedule # <<>> /\ Ready(Schedule, by)
<1>1. \A i \in 1..Len(Schedule): Schedule[i] \in Slots
  BY BatchAssumption
<1> QED BY <1>1, BatchAssumption DEF Ready

LEMMA SlotsFinite == IsFiniteSet(Slots)
<1>1. Slots = {Schedule[i]: i \in 1..Len(Schedule)}
  BY BatchAssumption DEF Slots, ToSet
<1>2. IsFiniteSet(1..Len(Schedule))
  BY BatchAssumption, FS_Interval
<1>3. Schedule \in Surjection(1..Len(Schedule), Slots)
  BY <1>1, BatchAssumption DEF Surjection
<1> QED BY <1>2, <1>3, FS_Surjection

LEMMA DispatchedReady ==
  ASSUME NEW S \in SUBSET Slots, NEW q \in Dispatched(S), NEW by, \A s \in S: by[s] = 0
  PROVE q \in Seq(Slots) /\ (S # {} => q # <<>>) /\ Ready(q, by)
<1>1. IsFiniteSet(S)
  BY SlotsFinite, FS_Subset
<1>2. Cardinality(S) \in Nat /\ (S # {} => Cardinality(S) # 0)
  BY <1>1, FS_CardinalityType, FS_EmptySet
<1>3. q \in [1..Cardinality(S) -> S]
  BY DEF Dispatched
<1>4. q \in Seq(Slots) /\ Len(q) = Cardinality(S)
  BY <1>2, <1>3
<1>5. \A i, j \in 1..Cardinality(S): i < j => q[i] # q[j]
  BY DEF Dispatched
<1>6. \A i, j \in 1..Cardinality(S): q[i] = q[j] => i = j
  <2> TAKE i, j \in 1..Cardinality(S)
  <2>1. i < j \/ j < i \/ i = j
    BY <1>2
  <2> QED BY <1>5, <2>1
<1> QED BY <1>2, <1>3, <1>4, <1>6 DEF Ready

----------------------------------------------------------------------------
(* The steps of the scheduler that leave the processes alone               *)

\* A scheduler that keeps its workers may take a lease that is free.
LEMMA PlansKeep ==
  ASSUME LeaseInv, proc' = proc, sched' \in SchedRecords,
         sched'.by = sched.by, sched'.watched = sched.watched,
         sched.pc # "closing",
         \/ sched'.owned = sched.owned
         \/ \E t \in Tasks: Free(t) /\ sched'.owned = sched.owned \cup {t}
  PROVE /\ ActorTypes' /\ Roles' /\ AskedFor' /\ Leased' /\ Orphaned'
        /\ CollectorAlone' /\ Exclusive'
<1> USE DEF LeaseInv
<1>1. ActorTypes' /\ Roles' /\ AskedFor' /\ Exclusive'
  BY DEF ActorTypes, Roles, AskedFor, Exclusive, WorksOn, Working, At
<1>2. CASE sched'.owned = sched.owned
  <2>1. Leased'
    BY <1>2 DEF Leased, WorksOn, Working, At
  <2>2. Orphaned'
    BY <1>2 DEF Orphaned, WorksOn, Working, At
  <2>3. CollectorAlone'
    BY <1>2 DEF CollectorAlone, Collecting, WorksOn, Working, At
  <2> QED BY <1>1, <2>1, <2>2, <2>3
<1>3. ASSUME NEW t \in Tasks, Free(t), sched'.owned = sched.owned \cup {t}
      PROVE Leased' /\ Orphaned' /\ CollectorAlone'
  <2>1. ~Working(Collector) /\ \A w \in Workers: WorksOn(w) => Task(proc[w].slot) # t
    BY <1>3, CollectorApart DEF Free, Has, WorksOn, Procs
  <2>2. Leased'
    BY <1>3, <2>1 DEF Leased, WorksOn, Working, At
  <2>3. \A s \in Slots: sched.by[s] # 0 => sched.by[s] \in Workers /\ proc[sched.by[s]].slot = s
    BY DEF AskedFor, ActorTypes, SchedRecords
  <2>4. Orphaned'
    BY <1>3, <2>1, <2>3, BatchAssumption
    DEF Orphaned, WorksOn, Working, At, ActorTypes, SchedRecords
  <2> QED BY <2>1, <2>2, <2>4 DEF CollectorAlone, Working
<1> QED BY <1>1, <1>2, <1>3

\* A resuming scheduler adopts the workers it finds, and owns nothing yet.
LEMMA StartKeeps ==
  ASSUME LeaseInv, NEW mode \in {"fresh", "resume", "replace"}, Start(mode) PROVE LeaseInv'
<1> USE DEF LeaseInv
<1> DEFINE active == IF mode = "resume" THEN Active ELSE {}
           by == [s \in Slots |-> IF s \in active THEN CHOOSE w \in LiveWorker(s): TRUE ELSE 0]
<1>1. /\ proc' = proc
      /\ sched' = [NoSched EXCEPT !.pc = "admit", !.mode = mode, !.todo = {Task(s): s \in Slots},
                                  !.watched = active, !.by = by]
  BY DEF Start, disk
<1>2. active \subseteq Slots
  BY DEF Active
<1>3. \A s \in Slots: s \in active => by[s] \in Workers /\ proc[by[s]].slot = s
  <2> TAKE s \in Slots
  <2> HAVE s \in active
  <2>1. LiveWorker(s) # {}
    BY DEF Active
  <2>2. by[s] \in LiveWorker(s)
    BY <2>1
  <2> QED BY <2>2 DEF LiveWorker, Named
<1>4. by \in [Slots -> Workers \cup {0}] /\ \A s \in Slots: s \notin active => by[s] = 0
  BY <1>3
<1> HIDE DEF by, active
<1>5. sched' \in SchedRecords
  BY <1>1, <1>2, <1>4, NoSchedTyped DEF SchedRecords, Tasks
<1>6. /\ sched'.pc = "admit" /\ sched'.owned = {} /\ sched'.watched = active
      /\ sched'.by = by /\ sched'.mode = mode
  BY <1>1 DEF NoSched
<1>7. ActorTypes' /\ Roles' /\ Exclusive'
  BY <1>1, <1>5 DEF ActorTypes, Roles, Exclusive, WorksOn, Working, At
<1>8. AskedFor' /\ QueueReady' /\ Waiting'
  BY <1>1, <1>2, <1>3, <1>4, <1>6, BatchAssumption DEF AskedFor, QueueReady, Waiting, Stages
<1>9. mode = "replace" => active = {}
  BY DEF active
<1>10. Adopting'
  BY <1>4, <1>6, <1>9 DEF Adopting, Stages
<1>11. Leased' /\ Orphaned' /\ CollectorAlone'
  BY <1>1, <1>6 DEF Leased, Orphaned, CollectorAlone, Collecting, WorksOn, Working, At
<1> QED BY <1>7, <1>8, <1>10, <1>11

LEMMA AdmitTaskKeeps == ASSUME LeaseInv, NEW t \in Tasks, AdmitTask(t) PROVE LeaseInv'
<1> USE DEF LeaseInv
<1>1. /\ sched.pc = "admit" /\ proc' = proc /\ sched \in SchedRecords
      /\ sched' = [sched EXCEPT !.todo = @ \ {t}, !.owned = IF Free(t) THEN @ \cup {t} ELSE @]
  BY DEF AdmitTask, ActorTypes, disk
<1>2. /\ sched'.pc = sched.pc /\ sched'.by = sched.by /\ sched'.watched = sched.watched
      /\ sched'.mode = sched.mode /\ sched'.queue = sched.queue /\ sched' \in SchedRecords
      /\ sched'.owned = IF Free(t) THEN sched.owned \cup {t} ELSE sched.owned
  BY <1>1 DEF SchedRecords
<1>3. QueueReady' /\ Waiting' /\ Adopting'
  BY <1>1, <1>2 DEF QueueReady, Waiting, Adopting, Stages
<1> QED BY <1>1, <1>2, <1>3, PlansKeep

LEMMA AdmittedKeeps == ASSUME LeaseInv, Admitted PROVE LeaseInv'
<1> USE DEF LeaseInv
<1>1. PICK q \in Dispatched(Slots \ sched.watched):
        sched' = [sched EXCEPT !.pc = IF sched.mode = "replace" THEN "journal" ELSE "init",
                               !.queue = q]
  BY DEF Admitted
<1>2. sched.pc = "admit" /\ proc' = proc /\ sched \in SchedRecords
  BY DEF Admitted, ActorTypes, disk
<1>3. /\ sched'.by = sched.by /\ sched'.watched = sched.watched /\ sched'.owned = sched.owned
      /\ sched'.queue = q
      /\ sched'.pc = IF sched.mode = "replace" THEN "journal" ELSE "init"
  BY <1>1, <1>2 DEF SchedRecords
<1>4. \A s \in Slots \ sched.watched: sched.by[s] = 0
  BY <1>2 DEF Adopting
<1>5. q \in Seq(Slots) /\ (Slots \ sched.watched # {} => q # <<>>) /\ Ready(q, sched.by)
  BY <1>4, DispatchedReady
<1>6. sched' \in SchedRecords
  BY <1>1, <1>2, <1>5 DEF SchedRecords, Stages
<1>7. sched.mode = "replace" => sched.watched = {}
  BY <1>2 DEF Adopting
<1>8. QueueReady' /\ Waiting' /\ Adopting'
  BY <1>3, <1>4, <1>5, <1>7, IdleTyped DEF QueueReady, Waiting, Adopting, Stages
<1> QED BY <1>2, <1>3, <1>6, <1>8, PlansKeep

\* The scheduler goes on to another place with the queue it had.
LEMMA GotoKeeps ==
  ASSUME LeaseInv, proc' = proc, NEW pc, Goto(pc),
         \/ sched.pc \in Stages /\ pc \in Stages
         \/ sched.pc \in {"init", "loop"} /\ pc = "loop"
         \/ sched.pc = "loop" /\ pc = "peeked" /\ sched.queue # <<>>
  PROVE LeaseInv'
<1> USE DEF LeaseInv
<1>1. sched' = [sched EXCEPT !.pc = pc] /\ sched \in SchedRecords
  BY DEF Goto, ActorTypes
<1>2. /\ sched'.by = sched.by /\ sched'.watched = sched.watched /\ sched'.owned = sched.owned
      /\ sched'.queue = sched.queue /\ sched'.pc = pc /\ sched' \in SchedRecords
  BY <1>1 DEF SchedRecords, Stages
<1>3. QueueReady' /\ Waiting' /\ Adopting'
  BY <1>2 DEF QueueReady, Waiting, Adopting, Stages
<1>4. sched.pc # "closing"
  BY DEF Stages
<1> QED BY <1>2, <1>3, <1>4, PlansKeep

LEMMA ReplaceKeeps ==
  ASSUME LeaseInv,
         ReplaceJournals \/ ReplaceStages \/ ReplaceMoves \/ ReplacePlaces \/ ReplaceRenews
  PROVE LeaseInv'
<1>1. proc' = proc
  BY DEF ReplaceJournals, ReplaceStages, ReplaceMoves, ReplacePlaces, ReplaceRenews
<1>2. CASE ReplaceMoves
  <2>1. Steps(Collector)
    BY <1>2 DEF ReplaceMoves, Steps, LeaseInv, ActorTypes, Roles, Collecting, Working, At
  <2> QED BY <2>1, StepsKeep DEF Procs
<1>3. CASE ~ReplaceMoves
  <2>1. \E pc \in Stages: sched.pc \in Stages /\ Goto(pc)
    BY <1>3 DEF ReplaceJournals, ReplaceStages, ReplacePlaces, ReplaceRenews, Stages
  <2> QED BY <1>1, <2>1, GotoKeeps
<1> QED BY <1>2, <1>3

LEMMA ReplaceUnlinksKeeps == ASSUME LeaseInv, ReplaceUnlinks PROVE LeaseInv'
<1> USE DEF LeaseInv
<1> DEFINE last == Len(sched.queue) = 1
<1>1. /\ proc' = proc /\ sched.pc = "unlink" /\ sched \in SchedRecords
      /\ sched' = [sched EXCEPT !.pc = IF last THEN "loop" ELSE "journal",
                                !.queue = IF last THEN Schedule ELSE Tail(@)]
  BY DEF ReplaceUnlinks, ActorTypes
<1>2. sched.queue \in Seq(Slots) /\ sched.queue # <<>> /\ \A s \in Slots: sched.by[s] = 0
  BY <1>1 DEF QueueReady, Adopting, Stages, SchedRecords
<1>3. /\ Schedule \in Seq(Slots) /\ Schedule # <<>> /\ Ready(Schedule, sched.by)
  BY <1>2, ScheduleReady
<1>4. Tail(sched.queue) \in Seq(Slots) /\ (~last => Tail(sched.queue) # <<>>)
  <2>1. Len(sched.queue) \in Nat \ {0} /\ Len(Tail(sched.queue)) = Len(sched.queue) - 1
    BY <1>2
  <2>2. ~last => Len(Tail(sched.queue)) # 0
    BY <2>1
  <2>3. ~last => Tail(sched.queue) # <<>>
    BY <2>2
  <2>4. Tail(sched.queue) \in Seq(Slots)
    BY <1>2
  <2> QED BY <2>3, <2>4
<1>5. /\ sched'.by = sched.by /\ sched'.watched = sched.watched /\ sched'.owned = sched.owned
      /\ sched'.pc = (IF last THEN "loop" ELSE "journal")
      /\ sched'.queue = (IF last THEN Schedule ELSE Tail(sched.queue))
  BY <1>1 DEF SchedRecords
<1>6. sched' \in SchedRecords
  BY <1>1, <1>3, <1>4 DEF SchedRecords, Stages
<1>7. QueueReady' /\ Waiting' /\ Adopting'
  BY <1>2, <1>3, <1>4, <1>5 DEF QueueReady, Waiting, Adopting, Stages
<1> QED BY <1>1, <1>5, <1>6, <1>7, PlansKeep

\* The slot at the head of the queue is dealt with without a worker.
LEMMA NextTurns ==
  ASSUME LeaseInv, Decided \/ Turn
  PROVE /\ sched.queue \in Seq(Slots) /\ sched.queue # <<>> /\ Next_ \in Slots
        /\ sched.pc \in {"loop", "ours"} /\ sched.by[Next_] = 0
        /\ Tail(sched.queue) \in Seq(Slots) /\ Ready(Tail(sched.queue), sched.by)
        /\ \A i \in 1..Len(Tail(sched.queue)): Tail(sched.queue)[i] # Next_
        /\ Decided => Task(Next_) \in sched.owned
<1> USE DEF LeaseInv
<1>1. sched.queue \in Seq(Slots) /\ sched.queue # <<>> /\ sched.pc \in {"loop", "ours"}
  BY DEF Decided, Turn, QueueReady, ActorTypes, SchedRecords
<1>2. Ready(sched.queue, sched.by)
  BY <1>1 DEF Waiting
<1>3. Decided => Task(Next_) \in sched.owned
  BY DEF Decided, Owned, QueueReady, Next_
<1> QED BY <1>1, <1>2, <1>3, ReadyTail DEF Next_

LEMMA PassKeeps == ASSUME LeaseInv, Skip \/ Block PROVE LeaseInv'
<1> USE DEF LeaseInv
<1>1. proc' = proc /\ (Decided \/ Turn) /\ sched \in SchedRecords
  BY DEF Skip, Block, ActorTypes
<1>2. PICK b \in BOOLEAN:
        sched' = [sched EXCEPT !.pc = "loop", !.queue = Tail(sched.queue), !.blocked = b]
  <2>1. CASE Skip
    <3>1. sched' = [sched EXCEPT !.queue = Tail(@), !.blocked = @ \/ rec[Next_].stop]
      BY <2>1 DEF Skip
    <3>2. sched.pc = "loop"
      BY <2>1 DEF Skip, Turn
    <3>3. (sched.blocked \/ rec[Next_].stop) \in BOOLEAN
      OBVIOUS
    <3> QED BY <1>1, <3>1, <3>2, <3>3 DEF SchedRecords
  <2>2. CASE Block
    <3>1. sched' = [sched EXCEPT !.pc = "loop", !.queue = Tail(@)]
      BY <2>2 DEF Block
    <3> QED BY <1>1, <3>1 DEF SchedRecords
  <2> QED BY <2>1, <2>2
<1>3. /\ Tail(sched.queue) \in Seq(Slots) /\ Ready(Tail(sched.queue), sched.by)
      /\ sched.pc \in {"loop", "ours"}
  BY <1>1, NextTurns
<1>4. /\ sched' \in SchedRecords /\ sched'.by = sched.by /\ sched'.watched = sched.watched
      /\ sched'.owned = sched.owned /\ sched'.queue = Tail(sched.queue) /\ sched'.pc = "loop"
  BY <1>1, <1>2, <1>3 DEF SchedRecords
<1>5. QueueReady' /\ Waiting' /\ Adopting'
  BY <1>3, <1>4 DEF QueueReady, Waiting, Adopting, Stages
<1> QED BY <1>1, <1>3, <1>4, <1>5, PlansKeep

LEMMA DeferKeeps == ASSUME LeaseInv, Defer PROVE LeaseInv'
<1> USE DEF LeaseInv
<1> DEFINE q == Append(Tail(sched.queue), Head(sched.queue))
<1>1. /\ proc' = proc /\ sched \in SchedRecords /\ sched.pc = "peeked"
      /\ sched' = [sched EXCEPT !.pc = "loop", !.queue = q]
  BY DEF Defer, ActorTypes, disk
<1>2. sched.queue \in Seq(Slots) /\ sched.queue # <<>> /\ Ready(sched.queue, sched.by)
  BY <1>1 DEF QueueReady, Waiting, SchedRecords
<1>3. q \in Seq(Slots) /\ Ready(q, sched.by)
  BY <1>2, ReadyRotates
<1> HIDE DEF q
<1>4. /\ sched' \in SchedRecords /\ sched'.by = sched.by /\ sched'.watched = sched.watched
      /\ sched'.owned = sched.owned /\ sched'.queue = q /\ sched'.pc = "loop"
  BY <1>1, <1>3 DEF SchedRecords
<1>5. QueueReady' /\ Waiting' /\ Adopting'
  BY <1>3, <1>4 DEF QueueReady, Waiting, Adopting, Stages
<1> QED BY <1>1, <1>4, <1>5, PlansKeep

LEMMA TakeLeaseKeeps == ASSUME LeaseInv, TakeLease PROVE LeaseInv'
<1> USE DEF LeaseInv
<1>1. /\ proc' = proc /\ sched \in SchedRecords /\ sched.pc = "peeked" /\ Free(Task(Next_))
      /\ sched' = [sched EXCEPT !.pc = "ours", !.owned = @ \cup {Task(Next_)}]
  BY DEF TakeLease, ActorTypes, disk
<1>2. sched.queue \in Seq(Slots) /\ sched.queue # <<>> /\ Next_ \in Slots
  BY <1>1 DEF QueueReady, SchedRecords, Next_
<1>3. /\ sched' \in SchedRecords /\ sched'.by = sched.by /\ sched'.watched = sched.watched
      /\ sched'.owned = sched.owned \cup {Task(Next_)} /\ sched'.queue = sched.queue
      /\ sched'.pc = "ours" /\ Task(Next_) \in Tasks
  BY <1>1, <1>2 DEF SchedRecords, Tasks
<1>4. QueueReady' /\ Waiting' /\ Adopting'
  BY <1>1, <1>2, <1>3 DEF QueueReady, Waiting, Adopting, Stages, Next_
<1> QED BY <1>1, <1>3, <1>4, PlansKeep

----------------------------------------------------------------------------
(* The steps of the scheduler that begin or end its wait for a worker      *)

LEMMA DispatchKeeps == ASSUME LeaseInv, NEW w \in Workers, Dispatch(w) PROVE LeaseInv'
<1> USE DEF LeaseInv
<1> DEFINE spawned == [Idle EXCEPT !.pc = "spawned", !.slot = Next_]
<1>1. /\ sched' = [sched EXCEPT !.pc = "loop", !.queue = Tail(sched.queue), !.by[Next_] = w]
      /\ proc' = [proc EXCEPT ![w] = spawned] /\ Decided
      /\ proc[w] = Idle /\ \A s \in Slots: sched.by[s] # w
      /\ sched \in SchedRecords /\ w \in Procs /\ w # Collector /\ w # 0
  BY BatchAssumption DEF Dispatch, Spare, Idling, ActorTypes, Procs, Collector
<1>2. /\ Next_ \in Slots /\ sched.by[Next_] = 0 /\ Tail(sched.queue) \in Seq(Slots)
      /\ Ready(Tail(sched.queue), sched.by) /\ Task(Next_) \in sched.owned
      /\ \A i \in 1..Len(Tail(sched.queue)): Tail(sched.queue)[i] # Next_
      /\ sched.pc \in {"loop", "ours"}
  BY <1>1, NextTurns
<1>3. /\ spawned \in ProcRecords /\ spawned.pc = "spawned" /\ spawned.slot = Next_
      /\ ~spawned.native
  BY <1>2, IdleTyped DEF Idle, ProcRecords, Doing
<1> HIDE DEF spawned
<1>4. /\ proc' \in [Procs -> ProcRecords] /\ proc'[w] = spawned
      /\ \A v \in Procs: v # w => proc'[v] = proc[v]
  BY <1>1, <1>3 DEF ActorTypes
<1>5. /\ sched' \in SchedRecords /\ sched'.watched = sched.watched /\ sched'.owned = sched.owned
      /\ sched'.pc = "loop" /\ sched'.queue = Tail(sched.queue)
      /\ sched'.by = [sched.by EXCEPT ![Next_] = w]
  BY <1>1, <1>2 DEF SchedRecords
<1>6. \A s \in Slots: sched'.by[s] = IF s = Next_ THEN w ELSE sched.by[s]
  BY <1>2, <1>5 DEF SchedRecords, ActorTypes
<1>7. ActorTypes' /\ QueueReady'
  BY <1>4, <1>5 DEF ActorTypes, QueueReady, Stages
<1>8. Roles'
  BY <1>1, <1>3, <1>4, CollectorApart DEF Roles, Procs
<1>9. AskedFor'
  <2> SUFFICES ASSUME NEW s \in Slots, sched'.by[s] # 0 PROVE proc'[sched'.by[s]].slot = s
    BY <1>1, <1>5, <1>6 DEF AskedFor, SchedRecords
  <2>1. CASE s = Next_
    BY <1>3, <1>4, <1>6, <2>1
  <2>2. CASE s # Next_
    BY <1>1, <1>4, <1>6, <2>2 DEF AskedFor, ActorTypes, SchedRecords, Procs
  <2> QED BY <2>1, <2>2
<1>10. Waiting'
  <2>1. \A i \in 1..Len(Tail(sched.queue)): Tail(sched.queue)[i] \in Slots
    BY <1>2
  <2> QED BY <1>2, <1>5, <1>6, <2>1 DEF Waiting, Ready
<1>11. Adopting'
  BY <1>5 DEF Adopting, Stages
<1>12. \A v \in Workers: v # w => /\ WorksOn(v)' <=> WorksOn(v)
                                  /\ proc'[v].slot = proc[v].slot /\ proc[v].slot \in Slots
  BY <1>4, CollectorApart DEF WorksOn, Working, At, Procs, ActorTypes, ProcRecords
\* Nobody works on the slot that is dispatched.
<1>13. \A v \in Workers: WorksOn(v) => proc[v].slot # Next_
  BY <1>2, BatchAssumption DEF Leased
<1>14. Leased'
  BY <1>2, <1>3, <1>4, <1>5, <1>6, <1>12, <1>13 DEF Leased
<1>15. Orphaned'
  <2>1. \A s \in sched.watched: s \in Slots /\ s # Next_
    BY <1>1, <1>2 DEF AskedFor, SchedRecords
  <2> QED BY <1>1, <1>5, <1>6, <1>12, <2>1 DEF Orphaned
<1>16. CollectorAlone'
  <2>1. proc'[Collector] = proc[Collector] /\ Collecting' = Collecting
    BY <1>1, <1>4 DEF Procs, Collecting, At
  <2> QED BY <1>2, <1>3, <1>4, <1>5, <1>12, <2>1 DEF CollectorAlone, Working
<1>17. Exclusive'
  BY <1>3, <1>4, <1>12, <1>13 DEF Exclusive
<1> QED BY <1>7, <1>8, <1>9, <1>10, <1>11, <1>14, <1>15, <1>16, <1>17

\* The scheduler no longer waits for the workers of the slots in S.
Dropped(S) == [s \in Slots |-> IF s \in S THEN 0 ELSE sched.by[s]]

\* A worker that is not waited for any more holds no lease, unless one of the
\* scheduler's workers failed and nothing is dispatched again.
LEMMA DropKeeps ==
  ASSUME LeaseInv, NEW S \in SUBSET Slots, NEW s \in S, sched.by[s] # 0,
         NEW pc \in {"loop", "closing"}, NEW b \in BOOLEAN, sched.pc = "loop",
         NEW watched \in SUBSET sched.watched, S \cap watched = {},
         sched' = [sched EXCEPT !.pc = pc, !.by = Dropped(S), !.watched = watched, !.blocked = b],
         proc' = proc \/ (proc' = Tidied(sched.by[s]) /\ ~Working(sched.by[s])),
         pc = "loop" => \A r \in S: Task(r) \in sched.owned => ~WorksOn(sched.by[r])
  PROVE LeaseInv'
<1> USE DEF LeaseInv
<1> DEFINE w == sched.by[s]
<1>1. sched \in SchedRecords /\ w \in Workers /\ w \in Procs /\ w # Collector /\ proc[w].slot = s
  BY CollectorApart DEF ActorTypes, SchedRecords, AskedFor, Procs
<1>2. Dropped(S) \in [Slots -> Workers \cup {0}]
  BY <1>1 DEF Dropped, SchedRecords
<1>3. /\ sched'.pc = pc /\ sched'.watched = watched /\ sched'.owned = sched.owned
      /\ sched'.queue = sched.queue /\ sched'.by = Dropped(S)
  BY <1>1 DEF SchedRecords
<1>4. sched' \in SchedRecords
  BY <1>1, <1>2 DEF SchedRecords
<1>5. \A v \in Procs: proc'[v] = proc[v] \/ (v = w /\ proc'[v] = Idle /\ ~Working(w) /\ ~proc[w].native)
  BY DEF Tidied, ActorTypes
<1>6. ActorTypes'
  <2>1. proc' \in [Procs -> ProcRecords]
    BY <1>5, IdleTyped DEF ActorTypes, Tidied
  <2> QED BY <1>4, <2>1 DEF ActorTypes
<1>7. Roles'
  <2>1. proc'[Collector] = proc[Collector]
    BY <1>1, <1>5 DEF Procs
  <2> QED BY <1>5, <2>1 DEF Roles, Procs, Idle
<1>8. \A v \in Workers: /\ WorksOn(v)' <=> WorksOn(v)
                        /\ WorksOn(v) => proc'[v].slot = proc[v].slot
  BY <1>1, <1>5 DEF WorksOn, Working, At, Procs, Idle
<1>9. \A r \in Slots: sched'.by[r] = IF r \in S THEN 0 ELSE sched.by[r]
  BY <1>3 DEF Dropped
<1>10. AskedFor'
  <2>1. \A r \in Slots: sched.by[r] # 0 => sched.by[r] \in Procs /\ proc[sched.by[r]].slot = r
    BY DEF AskedFor, ActorTypes, SchedRecords, Procs
  <2>2. ASSUME NEW r \in Slots, sched'.by[r] # 0 PROVE proc'[sched'.by[r]].slot = r
    <3>1. sched'.by[r] = sched.by[r] /\ r # s
      BY <1>9, <2>2
    <3> QED BY <1>1, <1>5, <2>1, <2>2, <3>1
  <2>3. \A r \in watched: sched'.by[r] # 0
    BY <1>1, <1>9 DEF AskedFor, SchedRecords
  <2> QED BY <1>3, <2>2, <2>3 DEF AskedFor
<1>11. QueueReady'
  BY <1>3 DEF QueueReady, Stages
<1>12. Waiting'
  <2>1. \A i \in 1..Len(sched.queue): sched.queue[i] \in Slots
    BY <1>1 DEF SchedRecords
  <2> QED BY <1>3, <1>9, <2>1 DEF Waiting, Ready
<1>13. Adopting'
  BY <1>3 DEF Adopting, Stages
<1>14. Leased'
  <2> SUFFICES ASSUME pc = "loop", NEW v \in Workers, WorksOn(v), Task(proc[v].slot) \in sched.owned
               PROVE sched'.by[proc[v].slot] = v
    BY <1>3, <1>8 DEF Leased
  <2>1. sched.by[proc[v].slot] = v /\ proc[v].slot \in Slots
    BY CollectorApart DEF Leased, ActorTypes, ProcRecords, Procs
  <2> QED BY <1>9, <2>1
<1>15. Orphaned'
  <2>1. \A r \in watched: r \in sched.watched /\ sched'.by[r] = sched.by[r]
    BY <1>1, <1>9 DEF SchedRecords
  <2> QED BY <1>3, <1>8, <2>1 DEF Orphaned
<1>16. CollectorAlone'
  <2>1. proc'[Collector] = proc[Collector] /\ Collecting' = Collecting
    BY <1>1, <1>5 DEF Procs, Collecting, At
  <2> QED BY <1>3, <1>8, <2>1 DEF CollectorAlone, Working
<1>17. Exclusive'
  BY <1>8 DEF Exclusive
<1> QED BY <1>6, <1>7, <1>10, <1>11, <1>12, <1>13, <1>14, <1>15, <1>16, <1>17

LEMMA ReturnsKeep == ASSUME LeaseInv, Returns PROVE LeaseInv'
<1> USE DEF LeaseInv
<1>1. PICK s \in Slots: WorkerReturns(s) \/ ObserverReturns(s) \/ WorkerRaises(s)
  BY DEF Returns
<1> DEFINE w == sched.by[s]
<1>2. sched \in SchedRecords /\ sched.watched \subseteq Slots
  BY DEF ActorTypes, SchedRecords
<1>3. ASSUME Completed(s)
      PROVE \E b \in BOOLEAN: sched' = [sched EXCEPT !.pc = "loop", !.by = Dropped({s}),
                                          !.watched = sched.watched \ {s}, !.blocked = b]
            \/ sched.pc # "loop"
  <2>1. sched' = [sched EXCEPT !.by[s] = 0, !.watched = @ \ {s}, !.blocked = @ \/ rec[s].stop]
    BY <1>3 DEF Completed
  <2>2. [sched.by EXCEPT ![s] = 0] = Dropped({s})
    BY <1>2 DEF Dropped, SchedRecords
  <2>3. (sched.blocked \/ rec[s].stop) \in BOOLEAN
    OBVIOUS
  <2> QED BY <1>2, <2>1, <2>2, <2>3 DEF SchedRecords
<1>4. CASE WorkerReturns(s)
  <2>1. w # 0 /\ sched.pc = "loop" /\ proc[w].pc = "exited" /\ proc' = Tidied(w) /\ Completed(s)
    BY <1>4 DEF WorkerReturns, Pending
  <2>2. w \in Workers
    BY <1>2, <2>1 DEF SchedRecords
  <2>3. ~Working(w) /\ ~WorksOn(w)
    BY <2>1, <2>2 DEF Roles, WorksOn, Working
  <2>4. PICK b \in BOOLEAN: sched' = [sched EXCEPT !.pc = "loop", !.by = Dropped({s}),
                                          !.watched = sched.watched \ {s}, !.blocked = b]
    BY <1>3, <2>1
  <2>5. \A r \in {s}: Task(r) \in sched.owned => ~WorksOn(sched.by[r])
    BY <2>3
  <2>6. {s} \in SUBSET Slots /\ s \in {s} /\ {s} \cap (sched.watched \ {s}) = {}
        /\ sched.watched \ {s} \in SUBSET sched.watched
    OBVIOUS
  <2> QED BY <2>1, <2>3, <2>4, <2>5, <2>6, DropKeeps
<1>5. CASE ObserverReturns(s)
  <2>1. sched.pc = "loop" /\ s \in sched.watched /\ Completed(s) /\ w # 0
    BY <1>5 DEF ObserverReturns, AskedFor
  <2>2. w \in Workers
    BY <1>2, <2>1 DEF SchedRecords
  <2>3. Task(s) \in sched.owned => ~WorksOn(w)
    BY <2>1, <2>2 DEF Orphaned
  <2>4. PICK b \in BOOLEAN: sched' = [sched EXCEPT !.pc = "loop", !.by = Dropped({s}),
                                          !.watched = sched.watched \ {s}, !.blocked = b]
    BY <1>3, <2>1
  <2>5. \A r \in {s}: Task(r) \in sched.owned => ~WorksOn(sched.by[r])
    BY <2>3
  <2>6. {s} \in SUBSET Slots /\ s \in {s} /\ {s} \cap (sched.watched \ {s}) = {}
        /\ sched.watched \ {s} \in SUBSET sched.watched
    OBVIOUS
  <2>7. proc' = proc \/ (proc' = Tidied(w) /\ ~Working(w))
    BY <1>5 DEF ObserverReturns
  <2> QED BY <2>1, <2>4, <2>5, <2>6, <2>7, DropKeeps
<1>6. CASE WorkerRaises(s)
  <2>1. /\ sched.pc = "loop" /\ w # 0 /\ proc' = Tidied(w)
        /\ sched' = [sched EXCEPT !.pc = "closing", !.watched = {},
             !.by = [r \in Slots |-> IF r = s \/ r \in sched.watched THEN 0 ELSE sched.by[r]]]
    BY <1>6 DEF WorkerRaises, Pending
  <2>2. ~Working(w)
    BY <1>6 DEF WorkerRaises, Working
  <2>3. [r \in Slots |-> IF r = s \/ r \in sched.watched THEN 0 ELSE sched.by[r]]
          = Dropped({s} \cup sched.watched)
    BY DEF Dropped
  <2>4. sched' = [sched EXCEPT !.pc = "closing", !.by = Dropped({s} \cup sched.watched),
                               !.watched = {}, !.blocked = sched.blocked]
    BY <1>2, <2>1, <2>3 DEF SchedRecords
  <2>5. sched.blocked \in BOOLEAN
    BY <1>2 DEF SchedRecords
  <2>6. /\ {s} \cup sched.watched \in SUBSET Slots /\ s \in {s} \cup sched.watched
        /\ ({s} \cup sched.watched) \cap {} = {} /\ {} \in SUBSET sched.watched
    BY <1>2
  <2> QED BY <2>1, <2>2, <2>4, <2>5, <2>6, DropKeeps
<1> QED BY <1>1, <1>4, <1>5, <1>6

----------------------------------------------------------------------------
(* The lease, in every state                                               *)

LEMMA EndKeeps ==
  ASSUME LeaseInv, Ended \/ SchedulerDies \/ StopBatch \/ \E t \in Tasks: Refuse(t)
  PROVE LeaseInv'
<1> USE DEF LeaseInv
<1>1. sched' = NoSched
  BY DEF Ended, SchedulerDies, StopBatch, Refuse
<1>2. /\ proc' \in [Procs -> ProcRecords]
      /\ \A w \in Procs: proc'[w] = proc[w] \/ proc'[w] = Idle
  <2>1. CASE Ended \/ SchedulerDies
    <3>1. proc' = [w \in Procs |-> IF proc[w].pc \in {"exited", "failed"} /\ ~proc[w].native
                                   THEN Idle ELSE proc[w]]
      BY <2>1 DEF Ended, SchedulerDies
    <3> QED BY <3>1, IdleTyped DEF ActorTypes
  <2>2. CASE StopBatch
    <3>1. proc' = [w \in Procs |->
            IF Named(w, proc[w].slot) \/ (proc[w].pc \in {"exited", "failed"} /\ ~proc[w].native)
            THEN Idle ELSE proc[w]]
      BY <2>2 DEF StopBatch
    <3> QED BY <3>1, IdleTyped DEF ActorTypes
  <2>3. CASE \E t \in Tasks: Refuse(t)
    BY <2>3 DEF Refuse, ActorTypes
  <2> QED BY <2>1, <2>2, <2>3
<1> QED BY <1>1, <1>2, LetGoKeeps

\* A collector starts on the cases whose lease nobody holds.
LEMMA StartCollectKeeps == ASSUME LeaseInv, StartCollect PROVE LeaseInv'
<1> USE DEF LeaseInv
<1>1. PICK found \in SUBSET Slots:
        /\ proc[Collector] = Idle /\ sched' = sched /\ \A s \in found: Free(Task(s))
        /\ proc' = [proc EXCEPT ![Collector].pc = "pick", ![Collector].todo = found]
  BY DEF StartCollect
<1>2. /\ proc'[Collector] = [Idle EXCEPT !.pc = "pick", !.todo = found]
      /\ \A v \in Procs: v # Collector => proc'[v] = proc[v]
      /\ proc' \in [Procs -> ProcRecords]
  BY <1>1, IdleTyped DEF ActorTypes, Procs, ProcRecords, Idle
<1>3. \A v \in Workers: proc'[v] = proc[v] /\ (WorksOn(v)' <=> WorksOn(v))
  BY <1>2, CollectorApart DEF Procs, WorksOn, Working, At
<1>4. proc'[Collector].pc = "pick" /\ proc'[Collector].todo = found /\ ~proc'[Collector].native
  BY <1>2 DEF Idle
<1>5. ActorTypes' /\ Roles'
  BY <1>1, <1>2, <1>3, <1>4 DEF ActorTypes, Roles
<1>6. AskedFor'
  <2>1. \A s \in Slots: sched.by[s] # 0 => sched.by[s] \in Workers
    BY DEF ActorTypes, SchedRecords
  <2> QED BY <1>1, <1>3, <2>1 DEF AskedFor
<1>7. QueueReady' /\ Waiting' /\ Adopting'
  BY <1>1 DEF QueueReady, Waiting, Adopting, Tasks, Task
<1>8. Leased' /\ Orphaned' /\ Exclusive'
  BY <1>1, <1>3 DEF Leased, Orphaned, Exclusive, ActorTypes, SchedRecords
<1>9. CollectorAlone'
  <2>1. Collecting' = found
    BY <1>4 DEF Collecting, At
  <2>2. \A s \in found: /\ Task(s) \notin sched.owned
                        /\ \A w \in Workers: WorksOn(w) => Task(proc[w].slot) # Task(s)
    BY <1>1, CollectorApart DEF Free, Has, WorksOn, Procs
  <2> QED BY <1>1, <1>3, <2>1, <2>2 DEF CollectorAlone
<1> QED BY <1>5, <1>6, <1>7, <1>8, <1>9

LEMMA ActorsRest ==
  ASSUME LeaseInv, proc' = proc, sched' = sched PROVE LeaseInv'
<1>1. Steps(Collector)
  BY DEF Steps, LeaseInv, ActorTypes, Roles, Collecting, Working, At
<1> QED BY <1>1, StepsKeep DEF Procs

LEMMA SchedulerStepKeeps == ASSUME LeaseInv, SchedulerStep PROVE LeaseInv'
<1>1. ASSUME NEW t \in Tasks, AdmitTask(t) \/ Refuse(t) PROVE LeaseInv'
  BY <1>1, AdmitTaskKeeps, EndKeeps
<1>2. CASE Initialized
  BY <1>2, GotoKeeps DEF Initialized, Goto, disk
<1>3. CASE \E s \in Slots: InitializeNew(s)
  BY <1>3, ActorsRest DEF InitializeNew
<1>4. CASE Peek
  BY <1>4, GotoKeeps DEF Peek, Turn, disk
<1>5. CASE \E w \in Workers: Dispatch(w)
  BY <1>5, DispatchKeeps
<1> QED BY <1>1, <1>2, <1>3, <1>4, <1>5, AdmittedKeeps, ReplaceKeeps, ReplaceUnlinksKeeps,
     PassKeeps, DeferKeeps, TakeLeaseKeeps, EndKeeps DEF SchedulerStep, Tasks

\* The lease is held as LeaseInv says in every state.
THEOREM LeaseInvariant == Spec => []LeaseInv
<1>1. Init => LeaseInv
  <2> SUFFICES ASSUME Init PROVE LeaseInv
    OBVIOUS
  <2>1. proc = [w \in Procs |-> Idle] /\ sched = NoSched
    BY DEF Init
  <2>2. ActorTypes
    BY <2>1, IdleTyped, NoSchedTyped DEF ActorTypes
  <2>3. \A w \in Procs: proc[w] = Idle
    BY <2>1
  <2>4. Roles /\ \A w \in Procs: ~WorksOn(w)
    BY <2>3 DEF Roles, WorksOn, Working, Idle, Procs, Collector, At
  <2>5. AskedFor /\ QueueReady /\ Waiting /\ Adopting
    BY <2>1 DEF AskedFor, QueueReady, Waiting, Adopting, NoSched, Stages
  <2>6. ~Working(Collector)
    BY <2>3 DEF Working, Idle, Procs
  <2> QED BY <2>2, <2>4, <2>5, <2>6
       DEF LeaseInv, Leased, Orphaned, CollectorAlone, Exclusive, Procs
<1>2. LeaseInv /\ [Next]_vars => LeaseInv'
  <2> SUFFICES ASSUME LeaseInv, [Next]_vars PROVE LeaseInv'
    OBVIOUS
  <2>1. ASSUME NEW mode \in {"fresh", "resume", "replace"}, Start(mode) PROVE LeaseInv'
    BY <2>1, StartKeeps
  <2>2. ASSUME NEW w \in Procs, ProcStep(w) \/ NativeEnds(w) \/ ProcDies(w) PROVE LeaseInv'
    BY <2>2, ProcStepSteps, NativeEndsSteps, ProcDiesSteps, StepsKeep
  <2>3. CASE CollectorStep
    BY <2>3, CollectorStepSteps, StepsKeep DEF Procs
  <2>4. CASE \E s \in Slots: ServiceDies(s)
    BY <2>4, ActorsRest DEF ServiceDies
  <2>5. CASE UNCHANGED vars
    BY <2>5, ActorsRest DEF vars
  <2> QED BY <2>1, <2>2, <2>3, <2>4, <2>5, SchedulerStepKeeps, ReturnsKeep, StartCollectKeeps,
       EndKeeps DEF Next
<1> QED BY <1>1, <1>2, PTL DEF Spec

LEMMA OwnerAlone == ASSUME LeaseInv PROVE OneOwner
<1> USE DEF LeaseInv
<1>1. WorksOn(Collector) => \A w \in Workers: WorksOn(w) => proc[w].slot # proc[Collector].slot
  BY DEF CollectorAlone, Collecting, WorksOn
<1>2. \A v, w \in Procs: v # w /\ WorksOn(v) /\ WorksOn(w) => proc[v].slot # proc[w].slot
  BY <1>1 DEF Exclusive, Procs
<1>3. WorksOn(Collector) => Task(proc[Collector].slot) \notin sched.owned
  BY DEF CollectorAlone, Collecting, WorksOn
<1>4. sched.pc \in {"journal", "stage", "move", "renew", "unlink", "ours"} =>
        \A w \in Procs: WorksOn(w) =>
          Task(proc[w].slot) \notin sched.owned \/ sched.by[proc[w].slot] = w
  BY <1>3 DEF Leased, Procs
<1> QED BY <1>2, <1>4 DEF OneOwner

\* No two processes work on one slot, dead schedulers and dead workers
\* included, and a slot is replaced, created or blocked only while nobody
\* works on its task.
THEOREM EveryCaseHasOneOwner == Spec => []OneOwner
BY LeaseInvariant, OwnerAlone, PTL

----------------------------------------------------------------------------
(* The second part is about what the directories hold, in a condition that *)
(* runs locally.  A slot that is replaced is frozen from its admission to  *)
(* the last rename: it is not finished, and nobody can collect or continue *)
(* it (TxnFrozen, Planned).  The name of a replaced attempt is never given *)
(* twice, so a repeated command knows what it has moved (Numbering,        *)
(* Placing).  A process finds its slot in the state it left it (Busy), and *)
(* what ever started is exported when its slot is finished, or else still  *)
(* in its directories (Recorded).                                          *)

DirRecords == [there: BOOLEAN, saved: {"none", "finished", "suspended"}, live: Nat,
               kept: SUBSET [name: Nat, live: Nat]]
DiskTypes ==
  /\ rec \in [Slots -> [state: States, summary: BOOLEAN, stop: BOOLEAN]]
  /\ dir \in [Slots -> DirRecords] /\ staging \in [Slots -> DirRecords]
  /\ txn \in [Slots -> [name: Nat, prev: States \cup {"none"}]]
  /\ exported \in [Slots -> SUBSET Nat] /\ svc \in [Slots -> BOOLEAN]
  /\ made \in [Slots -> Nat] /\ spoiled \subseteq Slots

\* Nobody works on the slot, and nobody can, short of a dispatch.
Frozen(s) ==
  /\ rec[s].state \notin {"absent", "bare", "finished"} /\ dir[s].saved # "finished"
  /\ ~svc[s] /\ \A w \in Procs: WorksOn(w) => proc[w].slot # s

Queued == {sched.queue[i]: i \in 1..Len(sched.queue)}

TxnFrozen == \A s \in Slots: txn[s] # NoTxn => Frozen(s)
Planned ==
  /\ \A s \in Slots: sched.pc = "admit" /\ Task(s) \notin sched.todo =>
       IF sched.mode = "replace" THEN Frozen(s) ELSE txn[s] = NoTxn
  /\ sched.pc \in Stages =>
       /\ \A s \in Queued: Frozen(s)
       /\ \A s \in Slots: txn[s] # NoTxn => s \in Queued
  /\ sched.pc \in {"init", "loop", "peeked", "ours", "closing"} =>
       \A s \in Slots: txn[s] = NoTxn

Kept(s) == dir[s].kept \cup staging[s].kept
Unplaced(s) == txn[s].name = 1 + Cardinality(Kept(s))
Numbered(s) ==
  /\ IsFiniteSet(Kept(s)) /\ \A e \in Kept(s): e.name <= Cardinality(Kept(s))
  /\ staging[s].there \/ staging[s] = NoDir
  /\ txn[s] = NoTxn => staging[s] = NoDir
  /\ txn[s] # NoTxn => Unplaced(s) \/ (Placed(s) /\ staging[s] = NoDir)
Numbering == \A s \in Slots: Numbered(s)
Placing ==
  /\ sched.pc \in Stages \ {"journal"} => txn[Replacing] # NoTxn
  /\ sched.pc = "move" => Unplaced(Replacing)
  /\ sched.pc \in {"renew", "unlink"} => staging[Replacing] = NoDir

InCase == {"begun", "solving", "summed", "saved", "export", "exported"}
Finds(w, s) ==
  /\ proc[w].pc \in InCase => rec[s].state # "finished"
  /\ At(w, "exported") /\ s \notin spoiled => 1..made[s] \subseteq exported[s]
  /\ At(w, "committed") => rec[s].state = "finished"
Busy == \A w \in Procs: Finds(w, proc[w].slot)

Holds(s) ==
  IF rec[s].state = "finished" THEN 1..made[s] \subseteq exported[s]
  ELSE 1..made[s] \subseteq Held(dir[s]) \cup Held(staging[s])
Recorded == \A s \in Slots \ spoiled: Holds(s)

DiskInv ==
  /\ DiskTypes /\ TxnFrozen /\ Planned /\ Numbering /\ Placing /\ Busy /\ Recorded

----------------------------------------------------------------------------
(* What most steps leave alone                                             *)

LEMMA NoDirTyped == NoDir \in DirRecords /\ Fresh \in DirRecords
BY DEF NoDir, Fresh, DirRecords

\* No process takes on a case it did not have, or goes on in one.
Narrows ==
  /\ \A v \in Procs: WorksOn(v)' => WorksOn(v) /\ proc'[v].slot = proc[v].slot
  /\ \A v \in Procs: proc'[v].pc \in InCase \cup {"committed"} =>
       proc'[v].pc = proc[v].pc /\ proc'[v].slot = proc[v].slot

\* The cases stay as they are, but for services that end.
CasesRest ==
  /\ UNCHANGED <<rec, dir, staging, txn, exported, made, spoiled>>
  /\ svc' \in [Slots -> BOOLEAN] /\ \A s \in Slots: svc'[s] => svc[s]

LEMMA FrozenStays ==
  ASSUME Narrows, CasesRest, NEW s \in Slots, Frozen(s) PROVE Frozen(s)'
BY DEF Narrows, CasesRest, Frozen

\* When processes only end and cases rest, what the scheduler plans is all
\* there is to look at.
LEMMA CasesRestKeep ==
  ASSUME DiskInv, ActorTypes, Narrows, CasesRest
  PROVE /\ DiskTypes' /\ TxnFrozen' /\ Numbering' /\ Busy' /\ Recorded'
        /\ sched' = sched => Planned' /\ Placing'
        /\ sched' = NoSched => Planned' /\ Placing'
<1> USE DEF DiskInv
<1>1. DiskTypes'
  BY DEF DiskTypes, CasesRest
<1>2. TxnFrozen'
  BY FrozenStays DEF TxnFrozen, CasesRest
<1>3. Numbering'
  BY DEF Numbering, Numbered, Kept, Unplaced, Placed, CasesRest
<1>4. Busy'
  BY DEF Busy, Finds, Narrows, CasesRest, At, InCase
<1>5. Recorded'
  BY DEF Recorded, Holds, Held, CasesRest
<1>6. ASSUME sched' = sched PROVE Planned' /\ Placing'
  <2>1. Queued' = Queued /\ (sched.pc \in Stages => Queued \subseteq Slots)
    BY <1>6 DEF Queued, ActorTypes, SchedRecords
  <2>2. Planned'
    BY <1>6, <2>1, FrozenStays DEF Planned, CasesRest
  <2>3. Placing'
    BY <1>6 DEF Placing, CasesRest, Replacing, Unplaced, Kept
  <2> QED BY <2>2, <2>3
<1>7. ASSUME sched' = NoSched PROVE Planned' /\ Placing'
  BY <1>7 DEF Planned, Placing, NoSched, Stages
<1> QED BY <1>1, <1>2, <1>3, <1>4, <1>5, <1>6, <1>7

\* A process that works on a slot touches no other, and so nothing that is
\* frozen: it answers for what it finds and for the record of its slot.
LEMMA TendsKeep ==
  ASSUME LeaseInv, DiskInv, NEW w \in Procs, WorksOn(w), NEW s, s = proc[w].slot,
         sched' = sched, UNCHANGED <<staging, txn, spoiled>>, DiskTypes',
         \A v \in Procs: v # w => proc'[v] = proc[v],
         \/ proc'[w].slot = s /\ Finds(w, s)'
         \/ ~WorksOn(w)',
         \A r \in Slots: r # s =>
           /\ rec'[r] = rec[r] /\ dir'[r] = dir[r] /\ exported'[r] = exported[r]
           /\ svc'[r] = svc[r] /\ made'[r] = made[r],
         dir'[s].kept = dir[s].kept \/ dir'[s].kept = {},
         s \notin spoiled /\ Holds(s) => Holds(s)'
  PROVE DiskInv'
<1> USE DEF DiskInv
<1>1. s \in Slots /\ ~Frozen(s)
  BY DEF Frozen, LeaseInv, ActorTypes, ProcRecords
<1>2. \A v \in Procs: v # w => (WorksOn(v)' <=> WorksOn(v)) /\ proc'[v].slot = proc[v].slot
  BY DEF WorksOn, Working, At
<1>3. \A r \in Slots: Frozen(r) => Frozen(r)'
  BY <1>1, <1>2 DEF Frozen
<1>4. TxnFrozen' /\ txn[s] = NoTxn
  BY <1>1, <1>3 DEF TxnFrozen
<1>5. Queued' = Queued /\ Queued \subseteq Slots
  BY DEF Queued, LeaseInv, ActorTypes, SchedRecords
<1>6. Planned'
  BY <1>3, <1>5 DEF Planned
<1>7. staging[s] = NoDir
  BY <1>1, <1>4 DEF Numbering, Numbered
<1>8. Kept(s)' = Kept(s) \/ Kept(s)' = {}
  BY <1>7 DEF Kept, NoDir
<1>9. \A r \in Slots: r # s => Kept(r)' = Kept(r) /\ dir'[r] = dir[r]
  BY DEF Kept
<1>10. Numbering'
  <2>1. Numbered(s)'
    BY <1>1, <1>4, <1>7, <1>8, FS_EmptySet DEF Numbering, Numbered
  <2>2. ASSUME NEW r \in Slots, r # s PROVE Numbered(r)'
    BY <1>9, <2>2 DEF Numbering, Numbered, Unplaced, Placed
  <2> QED BY <2>1, <2>2 DEF Numbering
<1>11. Placing'
  <2>1. sched.pc \in Stages \ {"journal"} => Replacing \in Slots /\ Replacing # s
    BY <1>4 DEF Placing, Replacing, LeaseInv, ActorTypes, SchedRecords, QueueReady
  <2> QED BY <1>9, <2>1 DEF Placing, Unplaced, Stages, Replacing
<1>12. Busy'
  <2>1. ASSUME NEW v \in Procs, v # w, proc[v].pc \in InCase \cup {"committed"}
        PROVE proc[v].slot # s /\ proc[v].slot \in Slots
    <3>1. WorksOn(v)
      BY <2>1 DEF WorksOn, Working, At, InCase
    <3>2. OneOwner
      BY OwnerAlone
    <3> QED BY <2>1, <3>1, <3>2 DEF OneOwner, LeaseInv, ActorTypes, ProcRecords
  <2>2. ASSUME NEW v \in Procs, v # w PROVE Finds(v, proc[v].slot)'
    BY <2>1, <2>2 DEF Busy, Finds, At, InCase
  <2>3. Finds(w, proc[w].slot)'
    BY DEF Finds, WorksOn, Working, At, InCase
  <2> QED BY <2>2, <2>3 DEF Busy
<1>13. Recorded'
  <2>1. ASSUME NEW r \in Slots, r # s, Holds(r) PROVE Holds(r)'
    BY <2>1 DEF Holds
  <2> QED BY <2>1 DEF Recorded
<1> QED BY <1>4, <1>6, <1>10, <1>11, <1>12, <1>13

----------------------------------------------------------------------------
(* The steps of one process, and its case                                  *)

LEMMA AtWork ==
  ASSUME LeaseInv, DiskInv, NEW w \in Procs
  PROVE /\ proc[w] \in ProcRecords /\ proc[w].slot \in Slots
        /\ rec[proc[w].slot] \in [state: States, summary: BOOLEAN, stop: BOOLEAN]
        /\ dir[proc[w].slot] \in DirRecords /\ Finds(w, proc[w].slot)
        /\ proc[w].pc \in Doing => WorksOn(w)
BY DEF LeaseInv, ActorTypes, ProcRecords, DiskInv, DiskTypes, Busy, WorksOn, Working, At, Doing

LEMMA ProcessesNarrow ==
  ASSUME LeaseInv, DiskInv, Narrows, UNCHANGED disk, sched' = sched PROVE DiskInv'
<1>1. CasesRest
  BY DEF CasesRest, disk, DiskInv, DiskTypes
<1> QED BY <1>1, CasesRestKeep DEF DiskInv, LeaseInv

\* One process ends, waits or goes on where it is at no case yet.
LEMMA ProcessNarrows ==
  ASSUME LeaseInv, DiskInv, NEW w \in Procs, NEW r, UNCHANGED disk, sched' = sched,
         proc' = [proc EXCEPT ![w] = r],
         WorksOn(w)' => WorksOn(w) /\ r.slot = proc[w].slot,
         r.pc \notin InCase \cup {"committed"} \/ (r.pc = proc[w].pc /\ r.slot = proc[w].slot)
  PROVE DiskInv'
<1>1. proc'[w] = r /\ \A v \in Procs: v # w => proc'[v] = proc[v]
  BY DEF LeaseInv, ActorTypes
<1>2. \A v \in Procs: v # w => (WorksOn(v)' <=> WorksOn(v))
  BY <1>1 DEF WorksOn, Working, At
<1>3. Narrows
  BY <1>1, <1>2 DEF Narrows
<1> QED BY <1>3, ProcessesNarrow

LEMMA GoneNarrows ==
  ASSUME LeaseInv, DiskInv, NEW w \in Procs, Working(w), NEW pc \in {"exited", "failed"},
         w # Collector => WorksOn(w), UNCHANGED disk, sched' = sched,
         proc' = [proc EXCEPT ![w] = Gone(w, pc)]
  PROVE DiskInv'
<1>1. proc[w] \in ProcRecords
  BY AtWork
<1>2. \/ /\ w # Collector /\ Gone(w, pc).slot = proc[w].slot /\ Gone(w, pc).pc = pc
      \/ Gone(w, pc) = Idle
  BY <1>1 DEF Gone, ProcRecords
<1>3. Gone(w, pc).pc \notin InCase \cup {"committed"}
  BY <1>2 DEF Idle, InCase
<1>4. Gone(w, pc) = Idle => ~WorksOn(w)'
  BY DEF WorksOn, Working, Idle, At, LeaseInv, ActorTypes
<1> QED BY <1>2, <1>3, <1>4, ProcessNarrows

LEMMA FeedKeeps == ASSUME LeaseInv, DiskInv, NEW w \in Procs, Feed(w) PROVE DiskInv'
<1>1. proc[w] \in ProcRecords /\ proc[w].pc = "spawned" /\ WorksOn(w)
  BY AtWork DEF Feed, At, Doing
<1>2. CASE proc' = [proc EXCEPT ![w].pc = "fed"]
  <2>1. proc' = [proc EXCEPT ![w] = [proc[w] EXCEPT !.pc = "fed"]]
    BY <1>2
  <2>2. [proc[w] EXCEPT !.pc = "fed"].pc = "fed" /\ [proc[w] EXCEPT !.pc = "fed"].slot = proc[w].slot
    BY <1>1 DEF ProcRecords
  <2> QED BY <1>1, <2>1, <2>2, ProcessNarrows DEF Feed, InCase
<1>3. CASE proc' = [proc EXCEPT ![w] = Idle]
  <2>1. ~WorksOn(w)'
    BY <1>3 DEF WorksOn, Working, Idle, LeaseInv, ActorTypes
  <2> QED BY <1>3, <2>1, ProcessNarrows DEF Feed, InCase, Idle
<1> QED BY <1>2, <1>3 DEF Feed, Move

LEMMA NameOwnerKeeps == ASSUME LeaseInv, DiskInv, NEW w \in Procs, NameOwner(w) PROVE DiskInv'
<1>1. proc[w] \in ProcRecords /\ WorksOn(w)
  BY AtWork DEF NameOwner, At, Doing
<1>2. proc' = [proc EXCEPT ![w] = [proc[w] EXCEPT !.pc = "named"]]
  BY DEF NameOwner, Move
<1>3. [proc[w] EXCEPT !.pc = "named"].pc = "named" /\ [proc[w] EXCEPT !.pc = "named"].slot = proc[w].slot
  BY <1>1 DEF ProcRecords
<1> QED BY <1>1, <1>2, <1>3, ProcessNarrows DEF NameOwner, InCase

LEMMA BeginKeeps == ASSUME LeaseInv, DiskInv, NEW w \in Procs, Begin(w) PROVE DiskInv'
<1>0. PICK s \in Slots: s = proc[w].slot
  BY AtWork
<1>1. /\ proc[w] \in ProcRecords /\ s \in Slots /\ WorksOn(w) /\ DiskTypes
      /\ rec[s] \in [state: States, summary: BOOLEAN, stop: BOOLEAN] /\ dir[s] \in DirRecords
  BY <1>0, AtWork DEF Begin, At, Doing, DiskInv
<1>2. /\ UNCHANGED <<staging, txn, spoiled, exported, svc, made>> /\ sched' = sched
  BY <1>0 DEF Begin
<1>3. CASE Terminal(s)
  <2> DEFINE pc == IF rec[s].state = "finished" THEN "committed" ELSE "export"
  <2>1. proc' = [proc EXCEPT ![w].pc = pc] /\ UNCHANGED <<rec, dir>>
    BY <1>0, <1>3 DEF Begin, Move
  <2>2. /\ proc'[w].pc = pc /\ proc'[w].slot = s /\ \A v \in Procs: v # w => proc'[v] = proc[v]
    BY <1>0, <1>1, <2>1 DEF ProcRecords, LeaseInv, ActorTypes
  <2>3. Finds(w, s)' /\ (Holds(s) => Holds(s)') /\ DiskTypes'
    BY <1>1, <1>2, <2>1, <2>2 DEF Finds, At, InCase, Holds, DiskTypes
  <2> QED BY <1>0, <1>1, <1>2, <2>1, <2>2, <2>3, TendsKeep
<1>4. CASE ~Terminal(s)
  <2>1. /\ proc' = [proc EXCEPT ![w].pc = "begun"]
        /\ rec' = [rec EXCEPT ![s].state = "running"]
        /\ dir' = [dir EXCEPT ![s].there = TRUE]
    BY <1>0, <1>4 DEF Begin, Move
  <2>2. /\ proc'[w].pc = "begun" /\ proc'[w].slot = s
        /\ \A v \in Procs: v # w => proc'[v] = proc[v]
    BY <1>0, <1>1, <2>1 DEF ProcRecords, LeaseInv, ActorTypes
  <2>3. rec' \in [Slots -> [state: States, summary: BOOLEAN, stop: BOOLEAN]]
    BY <1>1, <2>1 DEF DiskTypes, States
  <2>4. dir' \in [Slots -> DirRecords]
    BY <1>1, <2>1 DEF DiskTypes, DirRecords
  <2>5. DiskTypes'
    BY <1>1, <1>2, <2>3, <2>4 DEF DiskTypes
  <2>6. rec'[s].state = "running" /\ dir'[s].kept = dir[s].kept /\ dir'[s].live = dir[s].live
    BY <1>1, <2>1 DEF DiskTypes, DirRecords
  <2>7. \A r \in Slots: r # s => rec'[r] = rec[r] /\ dir'[r] = dir[r]
    BY <1>1, <2>1 DEF DiskTypes
  <2>8. rec[s].state # "finished"
    BY <1>4 DEF Terminal
  <2>9. Finds(w, s)' /\ (Holds(s) => Holds(s)')
    BY <1>2, <2>2, <2>6, <2>8 DEF Finds, At, InCase, Holds, Held
  <2> QED BY <1>0, <1>1, <1>2, <2>2, <2>5, <2>6, <2>7, <2>9, TendsKeep
<1> QED BY <1>3, <1>4

LEMMA LaunchKeeps == ASSUME LeaseInv, DiskInv, NEW w \in Procs, Launch(w) PROVE DiskInv'
<1>0. PICK s \in Slots: s = proc[w].slot
  BY AtWork
<1>1. /\ proc[w] \in ProcRecords /\ s \in Slots /\ WorksOn(w) /\ DiskTypes
      /\ dir[s] \in DirRecords /\ rec[s].state # "finished"
  BY <1>0, AtWork DEF Launch, At, Doing, DiskInv, Finds, InCase
<1>2. /\ UNCHANGED <<staging, txn, spoiled, exported, rec>> /\ sched' = sched
      /\ proc' = [proc EXCEPT ![w].pc = "solving", ![w].native = TRUE]
      /\ svc' = [svc EXCEPT ![s] = TRUE]
  BY <1>0 DEF Launch
<1>3. /\ proc'[w].pc = "solving" /\ proc'[w].slot = s
      /\ \A v \in Procs: v # w => proc'[v] = proc[v]
  BY <1>0, <1>1, <1>2 DEF ProcRecords, LeaseInv, ActorTypes
<1>4. Finds(w, s)'
  BY <1>1, <1>2, <1>3 DEF Finds, At
<1>5. svc' \in [Slots -> BOOLEAN] /\ \A r \in Slots: r # s => svc'[r] = svc[r]
  BY <1>1, <1>2 DEF DiskTypes
<1>6. CASE dir[s].live # 0
  <2>1. UNCHANGED <<dir, made>>
    BY <1>0, <1>6 DEF Launch
  <2> QED BY <1>0, <1>1, <1>2, <1>3, <1>4, <1>5, <2>1, TendsKeep DEF Holds, DiskTypes
<1>7. CASE dir[s].live = 0
  <2>1. made' = [made EXCEPT ![s] = @ + 1] /\ dir' = [dir EXCEPT ![s].live = made[s] + 1]
    BY <1>0, <1>7 DEF Launch
  <2>2. made' \in [Slots -> Nat] /\ made'[s] = made[s] + 1 /\ made[s] \in Nat
    BY <1>1, <2>1 DEF DiskTypes
  <2>3. dir' \in [Slots -> DirRecords]
    <3>1. made[s] + 1 \in Nat
      BY <2>2
    <3>2. [dir[s] EXCEPT !.live = made[s] + 1] \in DirRecords
      BY <1>1, <3>1 DEF DirRecords
    <3> QED BY <1>1, <2>1, <3>2 DEF DiskTypes
  <2>4. dir'[s].kept = dir[s].kept /\ dir'[s].live = made[s] + 1
    BY <1>1, <2>1 DEF DiskTypes, DirRecords
  <2>5. \A r \in Slots: r # s => made'[r] = made[r] /\ dir'[r] = dir[r]
    BY <1>1, <2>1 DEF DiskTypes
  <2>6. DiskTypes'
    BY <1>1, <1>2, <1>5, <2>2, <2>3 DEF DiskTypes
  <2>7. ASSUME Holds(s) PROVE Holds(s)'
    <3>1. 1..made[s] \subseteq Held(dir[s]) \cup Held(staging[s])
      BY <1>1, <2>7 DEF Holds
    <3>2. \A n \in 1..made[s]: n # 0
      BY <2>2
    <3>3. 1..made[s] \subseteq Held(dir[s])' \cup Held(staging[s])'
      BY <1>2, <1>7, <2>4, <3>1, <3>2 DEF Held
    <3>4. made[s] + 1 \in Held(dir[s])'
      BY <2>4 DEF Held
    <3>5. \A n \in 1..made'[s]: n \in 1..made[s] \/ n = made[s] + 1
      BY <2>2
    <3>6. rec'[s].state # "finished"
      BY <1>1, <1>2
    <3>7. 1..made'[s] \subseteq Held(dir[s])' \cup Held(staging[s])'
      BY <3>3, <3>4, <3>5
    <3> QED BY <3>6, <3>7 DEF Holds
  <2>8. \A r \in Slots: r # s =>
          /\ rec'[r] = rec[r] /\ dir'[r] = dir[r] /\ exported'[r] = exported[r]
          /\ svc'[r] = svc[r] /\ made'[r] = made[r]
    BY <1>2, <1>5, <2>5
  <2> QED BY <1>0, <1>1, <1>2, <1>3, <1>4, <2>4, <2>6, <2>7, <2>8, TendsKeep
<1> QED BY <1>6, <1>7

LEMMA SummariseKeeps ==
  ASSUME LeaseInv, DiskInv, NEW w \in Procs, NEW o \in {"finished", "suspended"},
         NEW stop \in BOOLEAN, Summarise(w, o, stop)
  PROVE DiskInv'
<1>0. PICK s \in Slots: s = proc[w].slot
  BY AtWork
<1>1. /\ proc[w] \in ProcRecords /\ s \in Slots /\ WorksOn(w) /\ DiskTypes
      /\ rec[s].state # "finished"
  BY <1>0, AtWork DEF Summarise, At, Doing, DiskInv, Finds, InCase
<1>2. /\ UNCHANGED <<staging, txn, spoiled, exported, rec, dir, made>> /\ sched' = sched
      /\ proc' = [proc EXCEPT ![w].pc = "summed", ![w].outcome = o, ![w].stop = stop]
      /\ svc' = [svc EXCEPT ![s] = @ /\ o = "suspended"]
  BY <1>0 DEF Summarise
<1>3. /\ proc'[w].pc = "summed" /\ proc'[w].slot = s
      /\ \A v \in Procs: v # w => proc'[v] = proc[v]
  BY <1>0, <1>1, <1>2 DEF ProcRecords, LeaseInv, ActorTypes
<1>4. Finds(w, s)' /\ (Holds(s) => Holds(s)')
  BY <1>1, <1>2, <1>3 DEF Finds, At, Holds
<1>5. svc' \in [Slots -> BOOLEAN] /\ \A r \in Slots: r # s => svc'[r] = svc[r]
  BY <1>1, <1>2 DEF DiskTypes
<1>6. DiskTypes'
  BY <1>1, <1>2, <1>5 DEF DiskTypes
<1> QED BY <1>0, <1>1, <1>2, <1>3, <1>4, <1>5, <1>6, TendsKeep

LEMMA SaveSummaryKeeps == ASSUME LeaseInv, DiskInv, NEW w \in Procs, SaveSummary(w) PROVE DiskInv'
<1>0. PICK s \in Slots: s = proc[w].slot
  BY AtWork
<1>1. /\ proc[w] \in ProcRecords /\ s \in Slots /\ WorksOn(w) /\ DiskTypes
      /\ dir[s] \in DirRecords /\ rec[s].state # "finished"
  BY <1>0, AtWork DEF SaveSummary, At, Doing, DiskInv, Finds, InCase
<1>2. /\ UNCHANGED <<staging, txn, spoiled, exported, rec, svc, made>> /\ sched' = sched
      /\ proc' = [proc EXCEPT ![w].pc = "saved"]
      /\ dir' = [dir EXCEPT ![s].saved = proc[w].outcome, ![s].there = TRUE]
  BY <1>0 DEF SaveSummary, Move
<1>3. /\ proc'[w].pc = "saved" /\ proc'[w].slot = s
      /\ \A v \in Procs: v # w => proc'[v] = proc[v]
  BY <1>0, <1>1, <1>2 DEF ProcRecords, LeaseInv, ActorTypes
<1>4. dir' \in [Slots -> DirRecords] /\ \A r \in Slots: r # s => dir'[r] = dir[r]
  BY <1>1, <1>2 DEF DiskTypes, DirRecords, ProcRecords
<1>5. dir'[s].kept = dir[s].kept /\ dir'[s].live = dir[s].live
  BY <1>1, <1>2 DEF DiskTypes, DirRecords
<1>6. Finds(w, s)' /\ (Holds(s) => Holds(s)')
  BY <1>1, <1>2, <1>3, <1>5 DEF Finds, At, Holds, Held
<1>7. DiskTypes'
  BY <1>1, <1>2, <1>4 DEF DiskTypes
<1> QED BY <1>0, <1>1, <1>2, <1>3, <1>4, <1>5, <1>6, <1>7, TendsKeep

\* A process that leaves its case: nobody finds it at work, or it looks for
\* the next one.
LEMMA ExitsLeaves ==
  ASSUME LeaseInv, NEW w \in Procs, Exits(w), proc[w] \in ProcRecords, ~proc[w].native
  PROVE ~WorksOn(w)' /\ \A v \in Procs: v # w => proc'[v] = proc[v]
<1>1. CASE w = Collector
  BY <1>1 DEF Exits, WorksOn, At, LeaseInv, ActorTypes, ProcRecords
<1>2. CASE w # Collector
  <2>1. Gone(w, "exited").pc \in {"off", "exited"} /\ ~Gone(w, "exited").native
    BY DEF Gone, Idle, ProcRecords
  <2> QED BY <1>2, <2>1 DEF Exits, WorksOn, Working, LeaseInv, ActorTypes
<1> QED BY <1>1, <1>2

LEMMA RecordSummaryKeeps ==
  ASSUME LeaseInv, DiskInv, NEW w \in Procs, RecordSummary(w) PROVE DiskInv'
<1>0. PICK s \in Slots: s = proc[w].slot
  BY AtWork
<1> DEFINE state == IF proc[w].outcome = "finished" THEN "finalizing" ELSE "suspended"
<1>1. /\ proc[w] \in ProcRecords /\ s \in Slots /\ WorksOn(w) /\ DiskTypes
      /\ rec[s].state # "finished" /\ ~proc[w].native
  BY <1>0, AtWork DEF RecordSummary, At, Doing, DiskInv, Finds, InCase, LeaseInv, Roles, Procs
<1>2. /\ UNCHANGED <<staging, txn, spoiled, exported, dir, svc, made>> /\ sched' = sched
      /\ rec' = [rec EXCEPT ![s] = [summary |-> TRUE, stop |-> proc[w].stop, state |-> state]]
  BY <1>0 DEF RecordSummary
<1>3. /\ rec' \in [Slots -> [state: States, summary: BOOLEAN, stop: BOOLEAN]]
      /\ \A r \in Slots: r # s => rec'[r] = rec[r]
      /\ rec'[s].state = state
  BY <1>1, <1>2 DEF DiskTypes, ProcRecords, States
<1>4. DiskTypes' /\ (Holds(s) => Holds(s)')
  BY <1>1, <1>2, <1>3 DEF DiskTypes, Holds
<1>5. /\ \A v \in Procs: v # w => proc'[v] = proc[v]
      /\ (proc'[w].pc = "export" /\ proc'[w].slot = s) \/ ~WorksOn(w)'
  <2>1. CASE proc[w].outcome = "finished"
    BY <1>0, <1>1, <2>1 DEF RecordSummary, Move, ProcRecords, LeaseInv, ActorTypes
  <2>2. CASE proc[w].outcome # "finished"
    BY <1>1, <2>2, ExitsLeaves DEF RecordSummary
  <2> QED BY <2>1, <2>2
<1>6. (proc'[w].slot = s /\ Finds(w, s)') \/ ~WorksOn(w)'
  BY <1>3, <1>5 DEF Finds, At
<1> QED BY <1>0, <1>1, <1>2, <1>3, <1>4, <1>5, <1>6, TendsKeep

LEMMA ExportKeeps == ASSUME LeaseInv, DiskInv, NEW w \in Procs, Export(w) PROVE DiskInv'
<1>0. PICK s \in Slots: s = proc[w].slot
  BY AtWork
<1> DEFINE attempts == ({dir[s].live} \cup {e.live: e \in dir[s].kept}) \ {0}
<1>1. /\ proc[w] \in ProcRecords /\ s \in Slots /\ WorksOn(w) /\ DiskTypes
      /\ dir[s] \in DirRecords /\ rec[s].state # "finished"
  BY <1>0, AtWork DEF Export, At, Doing, DiskInv, Finds, InCase
<1>2. /\ UNCHANGED <<staging, txn, spoiled, dir, made>> /\ sched' = sched
      /\ proc' = [proc EXCEPT ![w].pc = "exported"]
      /\ svc' = [svc EXCEPT ![s] = FALSE]
      /\ exported' = [exported EXCEPT ![s] = attempts]
      /\ rec' = [rec EXCEPT ![s].state = "finalizing", ![s].summary = TRUE]
  BY <1>0 DEF Export, Move
<1>3. /\ proc'[w].pc = "exported" /\ proc'[w].slot = s
      /\ \A v \in Procs: v # w => proc'[v] = proc[v]
  BY <1>0, <1>1, <1>2 DEF ProcRecords, LeaseInv, ActorTypes
<1>4. attempts \subseteq Nat
  BY <1>1 DEF DirRecords
<1>5. /\ exported' \in [Slots -> SUBSET Nat] /\ exported'[s] = attempts
      /\ \A r \in Slots: r # s => exported'[r] = exported[r]
  BY <1>1, <1>2, <1>4 DEF DiskTypes
<1>6. /\ rec' \in [Slots -> [state: States, summary: BOOLEAN, stop: BOOLEAN]]
      /\ \A r \in Slots: r # s => rec'[r] = rec[r]
      /\ rec'[s].state = "finalizing"
  BY <1>1, <1>2 DEF DiskTypes, States
<1>7. svc' \in [Slots -> BOOLEAN] /\ \A r \in Slots: r # s => svc'[r] = svc[r]
  BY <1>1, <1>2 DEF DiskTypes
<1>8. DiskTypes' /\ (Holds(s) => Holds(s)')
  BY <1>1, <1>2, <1>5, <1>6, <1>7 DEF DiskTypes, Holds
\* Nothing waits to be placed, so the export has all attempts.
<1>9. s \notin spoiled => 1..made[s] \subseteq attempts
  <2>1. staging[s] = NoDir
    <3>1. ~Frozen(s)
      BY <1>0, <1>1 DEF Frozen
    <3> QED BY <1>1, <3>1 DEF DiskInv, TxnFrozen, Numbering, Numbered
  <2>2. Held(staging[s]) = {0}
    BY <2>1 DEF Held, NoDir
  <2>3. s \notin spoiled => 1..made[s] \subseteq Held(dir[s]) \cup {0}
    BY <1>1, <2>2 DEF DiskInv, Recorded, Holds
  <2>4. \A n \in 1..made[s]: n # 0
    BY <1>1 DEF DiskTypes
  <2> QED BY <2>3, <2>4 DEF Held
<1>10. Finds(w, s)'
  BY <1>2, <1>3, <1>5, <1>6, <1>9 DEF Finds, At
<1>11. \A r \in Slots: r # s =>
        /\ rec'[r] = rec[r] /\ dir'[r] = dir[r] /\ exported'[r] = exported[r]
        /\ svc'[r] = svc[r] /\ made'[r] = made[r]
  BY <1>2, <1>5, <1>6, <1>7
<1> QED BY <1>0, <1>1, <1>2, <1>3, <1>8, <1>10, <1>11, TendsKeep

LEMMA CommitKeeps == ASSUME LeaseInv, DiskInv, NEW w \in Procs, Commit(w) PROVE DiskInv'
<1>0. PICK s \in Slots: s = proc[w].slot
  BY AtWork
<1>1. /\ proc[w] \in ProcRecords /\ s \in Slots /\ WorksOn(w) /\ DiskTypes
      /\ s \notin spoiled => 1..made[s] \subseteq exported[s]
  BY <1>0, AtWork DEF Commit, At, Doing, DiskInv, Finds
<1>2. /\ UNCHANGED <<staging, txn, spoiled, dir, made, svc, exported>> /\ sched' = sched
      /\ proc' = [proc EXCEPT ![w].pc = "committed"]
      /\ rec' = [rec EXCEPT ![s].state = "finished"]
  BY <1>0 DEF Commit, Move
<1>3. /\ proc'[w].pc = "committed" /\ proc'[w].slot = s
      /\ \A v \in Procs: v # w => proc'[v] = proc[v]
  BY <1>0, <1>1, <1>2 DEF ProcRecords, LeaseInv, ActorTypes
<1>4. /\ rec' \in [Slots -> [state: States, summary: BOOLEAN, stop: BOOLEAN]]
      /\ \A r \in Slots: r # s => rec'[r] = rec[r]
      /\ rec'[s].state = "finished"
  BY <1>1, <1>2 DEF DiskTypes, States
<1>5. DiskTypes' /\ Finds(w, s)'
  BY <1>1, <1>2, <1>3, <1>4 DEF DiskTypes, Finds, At, InCase
<1>6. s \notin spoiled => Holds(s)'
  BY <1>1, <1>2, <1>4 DEF Holds
<1> QED BY <1>0, <1>1, <1>2, <1>3, <1>4, <1>5, <1>6, TendsKeep

LEMMA CleanKeeps == ASSUME LeaseInv, DiskInv, NEW w \in Procs, Clean(w) PROVE DiskInv'
<1>0. PICK s \in Slots: s = proc[w].slot
  BY AtWork
<1>1. /\ proc[w] \in ProcRecords /\ s \in Slots /\ WorksOn(w) /\ DiskTypes
      /\ rec[s].state = "finished" /\ ~proc[w].native
  BY <1>0, AtWork DEF Clean, At, Doing, DiskInv, Finds, InCase, LeaseInv, Roles, Procs
<1>2. /\ UNCHANGED <<staging, txn, spoiled, rec, made, exported>> /\ sched' = sched
      /\ dir' = [dir EXCEPT ![s] = NoDir] /\ svc' = [svc EXCEPT ![s] = FALSE]
  BY <1>0 DEF Clean, Released
<1>3. ~WorksOn(w)' /\ \A v \in Procs: v # w => proc'[v] = proc[v]
  BY <1>1, ExitsLeaves DEF Clean
<1>4. /\ dir' \in [Slots -> DirRecords] /\ dir'[s].kept = {}
      /\ \A r \in Slots: r # s => dir'[r] = dir[r]
  BY <1>1, <1>2, NoDirTyped DEF DiskTypes, NoDir
<1>5. svc' \in [Slots -> BOOLEAN] /\ \A r \in Slots: r # s => svc'[r] = svc[r]
  BY <1>1, <1>2 DEF DiskTypes
<1>6. DiskTypes' /\ (Holds(s) => Holds(s)')
  BY <1>1, <1>2, <1>4, <1>5 DEF DiskTypes, Holds
<1>7. \A r \in Slots: r # s =>
        /\ rec'[r] = rec[r] /\ dir'[r] = dir[r] /\ exported'[r] = exported[r]
        /\ svc'[r] = svc[r] /\ made'[r] = made[r]
  BY <1>2, <1>4, <1>5
<1>8. (proc'[w].slot = s /\ Finds(w, s)') \/ ~WorksOn(w)'
  BY <1>3
<1>9. dir'[s].kept = dir[s].kept \/ dir'[s].kept = {}
  BY <1>4
<1> QED BY <1>0, <1>1, <1>2, <1>3, <1>6, <1>7, <1>8, <1>9, TendsKeep

LEMMA NativeEndsKeeps == ASSUME LeaseInv, DiskInv, NEW w \in Procs, NativeEnds(w) PROVE DiskInv'
<1>1. proc[w] \in ProcRecords /\ WorksOn(w) /\ UNCHANGED disk /\ sched' = sched
  BY AtWork DEF NativeEnds, WorksOn, LeaseInv, Roles
<1>2. CASE proc' = [proc EXCEPT ![w] = [@ EXCEPT !.native = FALSE]]
  <2>1. /\ [proc[w] EXCEPT !.native = FALSE].slot = proc[w].slot
        /\ [proc[w] EXCEPT !.native = FALSE].pc = proc[w].pc
    BY <1>1 DEF ProcRecords
  <2> QED BY <1>1, <1>2, <2>1, ProcessNarrows
<1>3. CASE proc' = [proc EXCEPT ![w] = Idle]
  <2>1. ~WorksOn(w)'
    BY <1>3 DEF WorksOn, Working, Idle, LeaseInv, ActorTypes
  <2> QED BY <1>1, <1>3, <2>1, ProcessNarrows DEF InCase, Idle
<1> QED BY <1>2, <1>3 DEF NativeEnds

LEMMA ProcDiesKeeps == ASSUME LeaseInv, DiskInv, NEW w \in Procs, ProcDies(w) PROVE DiskInv'
BY GoneNarrows DEF ProcDies, WorksOn

LEMMA ProcStepKeeps == ASSUME LeaseInv, DiskInv, NEW w \in Procs, ProcStep(w) PROVE DiskInv'
<1>1. ASSUME NEW o \in {"finished", "suspended"}, NEW stop \in BOOLEAN, Summarise(w, o, stop)
      PROVE DiskInv'
  BY <1>1, SummariseKeeps
<1> QED BY <1>1, FeedKeeps, NameOwnerKeeps, BeginKeeps, LaunchKeeps, SaveSummaryKeeps,
     RecordSummaryKeeps, ExportKeeps, CommitKeeps, CleanKeeps DEF ProcStep

\* A collector takes no slot that is frozen: a local service that is gone has
\* nothing to collect.
LEMMA CollectKeeps ==
  ASSUME Remote = FALSE, LeaseInv, DiskInv, NEW s \in Slots, Collect(s) PROVE DiskInv'
<1> DEFINE taken == [proc[Collector] EXCEPT !.pc = Entry(s), !.slot = s, !.todo = Others(s),
                                            !.outcome = "finished", !.stop = FALSE]
           passed == [proc[Collector] EXCEPT !.todo = Others(s)]
<1>1. /\ Collector \in Procs /\ proc[Collector] \in ProcRecords /\ ~WorksOn(Collector)
      /\ UNCHANGED disk /\ sched' = sched /\ proc[Collector].pc = "pick"
  BY AtWork DEF Collect, WorksOn, At, Procs, LeaseInv, ActorTypes
<1>2. CASE Terminal(s) \/ (dir[s].live # 0 /\ (Remote \/ svc[s]))
  <2>1. proc' = [proc EXCEPT ![Collector] = taken]
    BY <1>2 DEF Collect
  <2>2. taken.pc = Entry(s) /\ taken.slot = s
    BY <1>1 DEF ProcRecords
  <2> HIDE DEF taken
  <2>3. /\ proc'[Collector].pc = Entry(s) /\ proc'[Collector].slot = s
        /\ \A v \in Procs: v # Collector => proc'[v] = proc[v]
    BY <1>1, <2>1, <2>2 DEF LeaseInv, ActorTypes
  <2>4. ~Frozen(s)
    BY <1>2 DEF Frozen, Terminal
  <2>5. \A v \in Procs: v # Collector => (WorksOn(v)' <=> WorksOn(v))
    BY <2>3 DEF WorksOn, Working, At
  <2>6. \A r \in Slots: Frozen(r) => Frozen(r)'
    BY <1>1, <2>3, <2>4, <2>5 DEF Frozen, disk
  <2>7. Finds(Collector, s)'
    BY <1>1, <2>3 DEF Finds, At, Entry, InCase, disk
  <2>8. Busy'
    BY <1>1, <2>3, <2>7 DEF DiskInv, Busy, Finds, At, disk
  <2>9. TxnFrozen' /\ DiskTypes' /\ Numbering' /\ Recorded' /\ Placing'
    BY <1>1, <2>6 DEF disk, DiskInv, TxnFrozen, DiskTypes, Numbering, Numbered, Kept, Unplaced,
      Placed, Recorded, Holds, Held, Placing, Replacing
  <2>10. Queued' = Queued /\ Queued \subseteq Slots
    BY <1>1 DEF Queued, LeaseInv, ActorTypes, SchedRecords
  <2>11. Planned'
    BY <1>1, <2>6, <2>10 DEF disk, DiskInv, Planned
  <2> QED BY <2>8, <2>9, <2>11 DEF DiskInv
<1>3. CASE proc' = [proc EXCEPT ![Collector] = passed]
  <2>1. passed.pc = "pick" /\ passed.slot = proc[Collector].slot
    BY <1>1 DEF ProcRecords
  <2> HIDE DEF passed
  <2>2. ~WorksOn(Collector)'
    BY <1>1, <1>3, <2>1 DEF WorksOn, At, LeaseInv, ActorTypes
  <2> QED BY <1>1, <1>3, <2>1, <2>2, ProcessNarrows DEF InCase
<1>4. CASE proc' = [proc EXCEPT ![Collector] = Idle]
  <2>1. ~WorksOn(Collector)'
    BY <1>1, <1>4 DEF WorksOn, Working, Idle, LeaseInv, ActorTypes
  <2> QED BY <1>1, <1>4, <2>1, ProcessNarrows DEF InCase, Idle
<1> QED BY <1>2, <1>3, <1>4 DEF Collect

LEMMA CollectorStepKeeps ==
  ASSUME Remote = FALSE, LeaseInv, DiskInv, CollectorStep PROVE DiskInv'
<1>1. CASE CollectEnds
  <2>1. ~WorksOn(Collector)' /\ Collector \in Procs
    BY <1>1 DEF CollectEnds, WorksOn, Working, Idle, LeaseInv, ActorTypes, Procs
  <2> QED BY <1>1, <2>1, ProcessNarrows DEF CollectEnds, InCase, Idle
<1> QED BY <1>1, CollectKeeps DEF CollectorStep

----------------------------------------------------------------------------
(* The steps of the scheduler, and the cases                               *)

\* While a scheduler creates or dispatches cases, none is being replaced.
Calm == {"init", "loop", "peeked", "ours", "closing"}
LEMMA CalmStays ==
  ASSUME Planned, sched.pc \in Calm, sched'.pc \in Calm, txn' = txn
  PROVE /\ \A s \in Slots: txn[s] = NoTxn
        /\ Planned' /\ Placing' /\ TxnFrozen'
<1>1. \A s \in Slots: txn[s] = NoTxn
  BY DEF Planned, Calm
<1> QED BY <1>1 DEF Planned, Placing, TxnFrozen, Calm, Stages

\* The scheduler only makes plans.
LEMMA PlanMade ==
  ASSUME LeaseInv, DiskInv, proc' = proc, UNCHANGED disk
  PROVE /\ Planned' /\ Placing' => DiskInv'
        /\ \A s \in Slots: Frozen(s)' <=> Frozen(s)
<1>1. Narrows
  BY DEF Narrows, WorksOn, Working, At
<1>2. CasesRest
  BY DEF CasesRest, disk, DiskInv, DiskTypes
<1>3. \A s \in Slots: Frozen(s)' <=> Frozen(s)
  BY DEF Frozen, disk, WorksOn, Working, At
<1> QED BY <1>1, <1>2, <1>3, CasesRestKeep DEF DiskInv, LeaseInv

LEMMA StartPlans ==
  ASSUME LeaseInv, DiskInv, NEW mode \in {"fresh", "resume", "replace"}, Start(mode)
  PROVE DiskInv'
<1>1. sched'.pc = "admit" /\ sched'.todo = Tasks /\ proc' = proc /\ UNCHANGED disk
  BY DEF Start, NoSched, Tasks, disk
<1>2. Planned' /\ Placing'
  BY <1>1 DEF Planned, Placing, Stages, Tasks
<1> QED BY <1>1, <1>2, PlanMade

\* Every slot of an admitted task may be replaced, or waits for nothing.
LEMMA AdmitTaskPlans == ASSUME LeaseInv, DiskInv, NEW t \in Tasks, AdmitTask(t) PROVE DiskInv'
<1> USE DEF LeaseInv, DiskInv
<1>1. /\ sched.pc = "admit" /\ proc' = proc /\ sched \in SchedRecords /\ UNCHANGED disk
      /\ sched' = [sched EXCEPT !.todo = @ \ {t}, !.owned = IF Free(t) THEN @ \cup {t} ELSE @]
      /\ Free(t) \/ Observable(t)
      /\ \A s \in Slots: Task(s) = t => Admissible(s)
  BY DEF AdmitTask, ActorTypes, disk
<1>2. /\ sched'.pc = "admit" /\ sched'.mode = sched.mode /\ sched'.todo = sched.todo \ {t}
  BY <1>1 DEF SchedRecords
<1>3. ASSUME NEW s \in Slots, Task(s) = t, sched.mode = "replace" PROVE Frozen(s)
  <2>1. rec[s].state \notin {"absent", "bare"} /\ Replaceable(s)
    BY <1>1, <1>3 DEF Admissible
  <2>2. CASE txn[s] # NoTxn
    BY <2>2 DEF TxnFrozen
  <2>3. CASE txn[s] = NoTxn
    <3>1. /\ ~svc[s] /\ rec[s].state \in {"pending", "blocked", "suspended"}
          /\ dir[s].saved # "finished"
      BY <2>1, <2>3 DEF Replaceable
    <3>2. Free(t)
      BY <1>1, <1>3 DEF Observable
    <3>3. \A w \in Procs: WorksOn(w) => proc[w].slot # s
      BY <1>3, <3>2 DEF Free, Has, WorksOn
    <3> QED BY <3>1, <3>3 DEF Frozen
  <2> QED BY <2>2, <2>3
<1>4. ASSUME NEW s \in Slots, Task(s) = t, sched.mode # "replace" PROVE txn[s] = NoTxn
  <2>1. sched.mode \in {"fresh", "resume"}
    BY <1>1, <1>4 DEF SchedRecords
  <2> QED BY <1>1, <1>4, <2>1 DEF Admissible
<1>5. \A s \in Slots: Frozen(s)' <=> Frozen(s)
  BY <1>1, PlanMade
<1>6. ASSUME NEW s \in Slots, Task(s) \notin sched'.todo
      PROVE IF sched.mode = "replace" THEN Frozen(s)' ELSE txn'[s] = NoTxn
  <2>1. Task(s) = t \/ Task(s) \notin sched.todo
    BY <1>2, <1>6
  <2> QED BY <1>1, <1>3, <1>4, <1>5, <2>1 DEF Planned, disk
<1>7. Planned' /\ Placing'
  BY <1>2, <1>6 DEF Planned, Placing, Stages
<1> QED BY <1>1, <1>7, PlanMade

LEMMA DispatchedCovers ==
  ASSUME NEW S \in SUBSET Slots, NEW q \in Dispatched(S)
  PROVE {q[i]: i \in 1..Len(q)} = S
<1>1. IsFiniteSet(S)
  BY SlotsFinite, FS_Subset
<1> DEFINE n == Cardinality(S)
<1>2. n \in Nat /\ q \in [1..n -> S]
  BY <1>1, FS_CardinalityType DEF Dispatched
<1>3. \A i, j \in 1..n: i < j => q[i] # q[j]
  BY DEF Dispatched
<1>4. q \in Injection(1..n, S)
  <2>1. \A i, j \in 1..n: q[i] = q[j] => i = j
    <3> TAKE i, j \in 1..n
    <3>1. i < j \/ j < i \/ i = j
      BY <1>2
    <3> QED BY <1>3, <3>1
  <2> QED BY <1>2, <2>1 DEF Injection, IsInjective
<1>5. Cardinality(1..n) = n
  BY <1>2, FS_Interval
<1>6. q \in Surjection(1..n, S)
  BY <1>1, <1>4, <1>5, FS_Injection
<1>7. Len(q) = n
  BY <1>2
<1> QED BY <1>2, <1>6, <1>7 DEF Surjection

LEMMA AdmittedPlans == ASSUME LeaseInv, DiskInv, Admitted PROVE DiskInv'
<1> USE DEF LeaseInv, DiskInv
<1>1. PICK q \in Dispatched(Slots \ sched.watched):
        sched' = [sched EXCEPT !.pc = IF sched.mode = "replace" THEN "journal" ELSE "init",
                               !.queue = q]
  BY DEF Admitted
<1>2. /\ sched.pc = "admit" /\ proc' = proc /\ sched \in SchedRecords /\ UNCHANGED disk
      /\ sched.todo = {}
  BY DEF Admitted, ActorTypes, disk
<1>3. /\ sched'.queue = q
      /\ sched'.pc = IF sched.mode = "replace" THEN "journal" ELSE "init"
  BY <1>1, <1>2 DEF SchedRecords
<1>4. \A s \in Slots: IF sched.mode = "replace" THEN Frozen(s)' ELSE txn'[s] = NoTxn
  BY <1>2, PlanMade DEF Planned, disk
<1>5. sched.mode = "replace" => Queued' = Slots
  <2>1. sched.mode = "replace" => Slots \ sched.watched = Slots
    BY <1>2 DEF Adopting
  <2> QED BY <1>3, <2>1, DispatchedCovers DEF Queued
<1>6. Planned' /\ Placing'
  BY <1>3, <1>4, <1>5 DEF Planned, Placing, Stages
<1> QED BY <1>2, <1>6, PlanMade

LEMMA LoopPlans ==
  ASSUME LeaseInv, DiskInv, Initialized \/ Peek \/ Defer \/ TakeLease PROVE DiskInv'
<1>1. /\ sched.pc \in Calm /\ proc' = proc /\ UNCHANGED disk
      /\ sched' \in {[sched EXCEPT !.pc = "loop"], [sched EXCEPT !.pc = "peeked"],
           [sched EXCEPT !.pc = "loop", !.queue = Append(Tail(@), Head(@))],
           [sched EXCEPT !.pc = "ours", !.owned = @ \cup {Task(Next_)}]}
  BY DEF Initialized, Peek, Turn, Goto, Defer, TakeLease, Calm, disk
<1>2. sched'.pc \in Calm
  BY <1>1 DEF LeaseInv, ActorTypes, SchedRecords, Calm
<1>3. Planned' /\ Placing'
  BY <1>1, <1>2, CalmStays DEF DiskInv, disk
<1> QED BY <1>1, <1>3, PlanMade

----------------------------------------------------------------------------
(* Replacement                                                             *)

LEMMA ReplacingFrozen ==
  ASSUME LeaseInv, DiskInv, sched.pc \in Stages
  PROVE /\ sched.queue \in Seq(Slots) /\ sched.queue # <<>> /\ sched \in SchedRecords
        /\ Replacing \in Slots /\ Frozen(Replacing) /\ Queued \subseteq Slots
<1>1. /\ sched.queue \in Seq(Slots) /\ sched.queue # <<>> /\ sched \in SchedRecords
  BY DEF LeaseInv, ActorTypes, SchedRecords, QueueReady
<1>2. Replacing \in Slots /\ Queued \subseteq Slots /\ Replacing \in Queued
  BY <1>1 DEF Replacing, Queued
<1> QED BY <1>1, <1>2 DEF DiskInv, Planned

\* A step of the replacement of one slot, which nobody works on.
LEMMA ReplaceTouches ==
  ASSUME LeaseInv, DiskInv, sched.pc \in Stages, NEW s, s = Replacing, proc' = proc,
         UNCHANGED <<exported, svc, made, spoiled>>, DiskTypes',
         \A r \in Slots: r # s => /\ rec'[r] = rec[r] /\ dir'[r] = dir[r]
                                  /\ staging'[r] = staging[r] /\ txn'[r] = txn[r],
         rec'[s].state \notin {"absent", "bare", "finished"}, dir'[s].saved # "finished",
         Numbered(s)', Holds(s) => Holds(s)'
  PROVE /\ DiskTypes' /\ TxnFrozen' /\ Numbering' /\ Busy' /\ Recorded'
        /\ \A r \in Slots: Frozen(r) => Frozen(r)'
        /\ sched'.pc \in Stages /\ sched'.queue = sched.queue => Planned'
<1> USE DEF DiskInv
<1>1. s \in Slots /\ Frozen(s) /\ Queued \subseteq Slots /\ s \in Queued
  BY ReplacingFrozen DEF Replacing, Queued
<1>2. \A v \in Procs: WorksOn(v)' <=> WorksOn(v)
  BY DEF WorksOn, Working, At
<1>3. \A r \in Slots: Frozen(r) => Frozen(r)'
  BY <1>1, <1>2 DEF Frozen
<1>4. TxnFrozen'
  BY <1>1, <1>3 DEF TxnFrozen
<1>5. Numbering'
  <2>1. ASSUME NEW r \in Slots, r # s PROVE Numbered(r)'
    BY <2>1 DEF Numbering, Numbered, Kept, Unplaced, Placed
  <2> QED BY <2>1 DEF Numbering
<1>6. Busy'
  <2>1. ASSUME NEW v \in Procs PROVE Finds(v, proc[v].slot)'
    <3>1. CASE proc[v].slot = s
      <4>1. ~WorksOn(v)
        BY <1>1, <3>1 DEF Frozen
      <4> QED BY <4>1 DEF Finds, WorksOn, Working, At, InCase
    <3>2. CASE proc[v].slot # s
      <4>1. proc[v].slot \in Slots
        BY DEF LeaseInv, ActorTypes, ProcRecords
      <4> QED BY <3>2, <4>1 DEF Busy, Finds, At
    <3> QED BY <3>1, <3>2
  <2> QED BY <2>1 DEF Busy
<1>7. Recorded'
  <2>1. ASSUME NEW r \in Slots, r # s, Holds(r) PROVE Holds(r)'
    BY <2>1 DEF Holds
  <2> QED BY <2>1 DEF Recorded
<1>8. ASSUME sched'.pc \in Stages, sched'.queue = sched.queue PROVE Planned'
  <2>1. Queued' = Queued
    BY <1>8 DEF Queued
  <2>2. \A r \in Slots: txn'[r] # NoTxn => r \in Queued
    BY <1>1 DEF Planned
  <2> QED BY <1>1, <1>3, <1>8, <2>1, <2>2 DEF Planned, Stages
<1> QED BY <1>3, <1>4, <1>5, <1>6, <1>7, <1>8

LEMMA ReplaceJournalsKeeps == ASSUME LeaseInv, DiskInv, ReplaceJournals PROVE DiskInv'
<1>0. PICK s \in Slots: s = Replacing
  BY ReplacingFrozen DEF ReplaceJournals, Stages
<1> DEFINE entry == [name |-> 1 + Cardinality(dir[s].kept), prev |-> rec[s].state]
<1>1. /\ sched.pc = "journal" /\ proc' = proc /\ sched' = [sched EXCEPT !.pc = "stage"]
      /\ UNCHANGED <<rec, dir, staging, exported, svc, made, spoiled>>
      /\ txn' = [txn EXCEPT ![s] = IF @ = NoTxn THEN entry ELSE @]
  BY <1>0 DEF ReplaceJournals, Goto
<1>2. /\ sched.pc \in Stages /\ sched'.pc = "stage" /\ sched'.queue = sched.queue
      /\ Frozen(s) /\ DiskTypes /\ Numbered(s)
  BY <1>0, <1>1, ReplacingFrozen DEF Stages, SchedRecords, DiskInv, Numbering
<1>3. /\ txn'[s] = IF txn[s] = NoTxn THEN entry ELSE txn[s]
      /\ \A r \in Slots: r # s => txn'[r] = txn[r]
  BY <1>1, <1>2 DEF DiskTypes
<1>4. txn[s] = NoTxn => staging[s] = NoDir /\ Kept(s) = dir[s].kept
  BY <1>2 DEF Numbered, Kept, NoDir
<1>5. Cardinality(Kept(s)) \in Nat
  BY <1>2, FS_CardinalityType DEF Numbered
<1>6. txn[s] = NoTxn => entry \in [name: Nat, prev: States \cup {"none"}]
                        /\ entry.name = 1 + Cardinality(Kept(s)) /\ entry # NoTxn
  BY <1>2, <1>4, <1>5 DEF DiskTypes, NoTxn
<1> HIDE DEF entry
<1>7. DiskTypes' /\ txn'[s] # NoTxn
  BY <1>1, <1>2, <1>3, <1>6 DEF DiskTypes
<1>8. Numbered(s)' /\ (Holds(s) => Holds(s)')
  <2>1. Kept(s)' = Kept(s)
    BY <1>1 DEF Kept
  <2>2. CASE txn[s] = NoTxn
    BY <1>1, <1>2, <1>3, <1>4, <1>6, <2>1, <2>2 DEF Numbered, Unplaced, Holds
  <2>3. CASE txn[s] # NoTxn
    BY <1>1, <1>2, <1>3, <2>1, <2>3 DEF Numbered, Unplaced, Placed, Holds
  <2> QED BY <2>2, <2>3
<1>9. Placing'
  BY <1>0, <1>2, <1>7 DEF Placing, Replacing, Stages
<1>10. rec'[s].state \notin {"absent", "bare", "finished"} /\ dir'[s].saved # "finished"
  BY <1>1, <1>2 DEF Frozen
<1> QED BY <1>0, <1>1, <1>2, <1>3, <1>7, <1>8, <1>9, <1>10, ReplaceTouches DEF DiskInv, Stages

LEMMA ReplaceStagesKeeps == ASSUME LeaseInv, DiskInv, ReplaceStages PROVE DiskInv'
<1>0. PICK s \in Slots: s = Replacing
  BY ReplacingFrozen DEF ReplaceStages, Stages
<1> DEFINE pc == IF Placed(s) THEN "renew" ELSE "move"
           moves == ~Placed(s) /\ dir[s].there /\ ~staging[s].there
<1>1. /\ sched.pc = "stage" /\ proc' = proc /\ sched' = [sched EXCEPT !.pc = pc]
      /\ UNCHANGED <<rec, txn, exported, svc, made, spoiled>>
      /\ moves => staging' = [staging EXCEPT ![s] = dir[s]] /\ dir' = [dir EXCEPT ![s] = NoDir]
      /\ ~moves => UNCHANGED <<dir, staging>>
  BY <1>0 DEF ReplaceStages, Goto
<1>2. /\ sched.pc \in Stages /\ sched'.pc = pc /\ sched'.queue = sched.queue
      /\ Frozen(s) /\ DiskTypes /\ Numbered(s) /\ txn[s] # NoTxn
  BY <1>0, <1>1, ReplacingFrozen DEF Stages, SchedRecords, DiskInv, Numbering, Placing
<1>3. Cardinality(Kept(s)) \in Nat
  BY <1>2, FS_CardinalityType DEF Numbered
<1>4. Unplaced(s) => ~Placed(s)
  <2> SUFFICES ASSUME Unplaced(s), NEW e \in dir[s].kept, e.name = txn[s].name PROVE FALSE
    BY DEF Placed
  <2>1. e.name <= Cardinality(Kept(s))
    BY <1>2 DEF Numbered, Kept
  <2> QED BY <1>3, <2>1 DEF Unplaced
<1>5. IF Placed(s) THEN staging[s] = NoDir ELSE Unplaced(s)
  BY <1>2, <1>4 DEF Numbered
<1>6. DiskTypes' /\ \A r \in Slots: r # s => dir'[r] = dir[r] /\ staging'[r] = staging[r]
  BY <1>1, <1>2, NoDirTyped DEF DiskTypes
<1>7. rec'[s].state \notin {"absent", "bare", "finished"} /\ dir'[s].saved # "finished"
  BY <1>1, <1>2 DEF Frozen, DiskTypes, NoDir
<1>8. /\ Kept(s)' = Kept(s)
      /\ Held(dir[s]) \cup Held(staging[s]) \subseteq Held(dir[s])' \cup Held(staging[s])'
      /\ staging'[s].there \/ staging'[s] = NoDir
      /\ Placed(s) => dir' = dir /\ staging' = staging
  <2>1. CASE moves
    <3>1. dir'[s] = NoDir /\ staging'[s] = dir[s]
      BY <1>1, <1>2, <2>1 DEF DiskTypes
    <3>2. staging[s] = NoDir
      BY <1>2, <2>1 DEF Numbered
    <3> QED BY <2>1, <3>1, <3>2 DEF Kept, Held, NoDir
  <2>2. CASE ~moves
    BY <1>1, <1>2, <2>2 DEF Numbered, Kept
  <2> QED BY <2>1, <2>2
<1>9. Numbered(s)' /\ (Holds(s) => Holds(s)')
  <2>1. Unplaced(s)' <=> Unplaced(s)
    BY <1>1, <1>8 DEF Unplaced
  <2>2. Placed(s) => Placed(s)'
    BY <1>1, <1>8 DEF Placed
  <2>3. Numbered(s)'
    BY <1>1, <1>2, <1>5, <1>8, <2>1, <2>2 DEF Numbered
  <2>4. Holds(s) => Holds(s)'
    BY <1>1, <1>2, <1>8 DEF Holds, Frozen
  <2> QED BY <2>3, <2>4
<1>10. Placing'
  BY <1>0, <1>1, <1>2, <1>5, <1>8 DEF Placing, Replacing, Unplaced
<1> QED BY <1>0, <1>1, <1>2, <1>6, <1>7, <1>9, <1>10, ReplaceTouches DEF DiskInv, Stages

\* Attempts that are moved in or out leave a directory.
LEMMA DirMoves ==
  ASSUME NEW d \in DirRecords, NEW K \in SUBSET [name: Nat, live: Nat]
  PROVE [d EXCEPT !.there = TRUE, !.kept = K] \in DirRecords /\ [d EXCEPT !.kept = K] \in DirRecords
BY DEF DirRecords

LEMMA ReplaceMovesKeeps == ASSUME LeaseInv, DiskInv, ReplaceMoves PROVE DiskInv'
<1>0. PICK s \in Slots: s = Replacing
  BY ReplacingFrozen DEF ReplaceMoves, Stages
<1>1. PICK e \in staging[s].kept:
        /\ dir' = [dir EXCEPT ![s].there = TRUE, ![s].kept = @ \cup {e}]
        /\ staging' = [staging EXCEPT ![s].kept = @ \ {e}]
  BY <1>0 DEF ReplaceMoves
<1>2. /\ sched.pc = "move" /\ sched' = sched /\ proc' = proc
      /\ UNCHANGED <<rec, txn, exported, svc, made, spoiled>>
  BY DEF ReplaceMoves
<1>3. /\ sched.pc \in Stages /\ Frozen(s) /\ DiskTypes /\ Numbered(s) /\ Unplaced(s)
      /\ txn[s] # NoTxn
  BY <1>0, <1>2, ReplacingFrozen DEF Stages, DiskInv, Numbering, Placing
<1>4. dir[s] \in DirRecords /\ staging[s] \in DirRecords /\ staging[s].there
  BY <1>1, <1>3 DEF DiskTypes, Numbered, NoDir
<1>5. e \in [name: Nat, live: Nat]
  BY <1>4 DEF DirRecords
<1>6. /\ dir'[s] = [dir[s] EXCEPT !.there = TRUE, !.kept = dir[s].kept \cup {e}]
      /\ staging'[s] = [staging[s] EXCEPT !.kept = staging[s].kept \ {e}]
      /\ \A r \in Slots: r # s => dir'[r] = dir[r] /\ staging'[r] = staging[r]
  BY <1>1, <1>3 DEF DiskTypes, DirRecords
<1>7. /\ dir'[s].kept = dir[s].kept \cup {e} /\ dir'[s].live = dir[s].live
      /\ dir'[s].saved = dir[s].saved /\ staging'[s].there
      /\ staging'[s].kept = staging[s].kept \ {e} /\ staging'[s].live = staging[s].live
  BY <1>4, <1>6 DEF DirRecords
<1>8. DiskTypes'
  <2>1. /\ dir[s].kept \cup {e} \in SUBSET [name: Nat, live: Nat]
        /\ staging[s].kept \ {e} \in SUBSET [name: Nat, live: Nat]
    BY <1>4, <1>5 DEF DirRecords
  <2>2. dir'[s] \in DirRecords /\ staging'[s] \in DirRecords
    <3>1. [dir[s] EXCEPT !.there = TRUE, !.kept = dir[s].kept \cup {e}] \in DirRecords
      BY <1>4, <2>1, DirMoves
    <3>2. [staging[s] EXCEPT !.kept = staging[s].kept \ {e}] \in DirRecords
      BY <1>4, <2>1, DirMoves
    <3> QED BY <1>6, <3>1, <3>2
  <2>3. dir' \in [Slots -> DirRecords] /\ staging' \in [Slots -> DirRecords]
    BY <1>1, <1>3, <1>6, <2>2 DEF DiskTypes
  <2> QED BY <1>2, <1>3, <2>3 DEF DiskTypes
<1>9. Kept(s)' = Kept(s) /\ Held(dir[s])' \cup Held(staging[s])' = Held(dir[s]) \cup Held(staging[s])
  BY <1>7 DEF Kept, Held
<1>10. Numbered(s)' /\ Unplaced(s)'
  BY <1>2, <1>3, <1>7, <1>9 DEF Numbered, Unplaced
<1>11. Holds(s) => Holds(s)'
  BY <1>2, <1>3, <1>9 DEF Holds, Frozen
<1>12. rec'[s].state \notin {"absent", "bare", "finished"} /\ dir'[s].saved # "finished"
  BY <1>2, <1>3, <1>7 DEF Frozen
<1>13. Placing'
  BY <1>0, <1>2, <1>3, <1>10 DEF Placing, Replacing
<1> QED BY <1>0, <1>2, <1>3, <1>6, <1>8, <1>10, <1>11, <1>12, <1>13, ReplaceTouches DEF DiskInv

LEMMA ReplacePlacesKeeps == ASSUME LeaseInv, DiskInv, ReplacePlaces PROVE DiskInv'
<1>0. PICK s \in Slots: s = Replacing
  BY ReplacingFrozen DEF ReplacePlaces, Stages
<1> DEFINE entry == [name |-> txn[s].name, live |-> staging[s].live]
<1>1. /\ dir' = [dir EXCEPT ![s].there = TRUE, ![s].kept = @ \cup {entry}]
      /\ staging' = [staging EXCEPT ![s] = NoDir] /\ staging[s].kept = {}
      /\ sched.pc = "move" /\ sched' = [sched EXCEPT !.pc = "renew"] /\ proc' = proc
      /\ UNCHANGED <<rec, txn, exported, svc, made, spoiled>>
  BY <1>0 DEF ReplacePlaces, Goto
<1>2. /\ sched.pc \in Stages /\ Frozen(s) /\ DiskTypes /\ Numbered(s) /\ Unplaced(s)
      /\ txn[s] # NoTxn /\ sched'.pc = "renew" /\ sched'.queue = sched.queue
  BY <1>0, <1>1, ReplacingFrozen DEF Stages, SchedRecords, DiskInv, Numbering, Placing
<1>3. /\ dir[s] \in DirRecords /\ staging[s] \in DirRecords /\ txn[s].name \in Nat
  BY <1>2 DEF DiskTypes
<1>4. entry \in [name: Nat, live: Nat] /\ entry.name = txn[s].name /\ entry.live = staging[s].live
  BY <1>3 DEF DirRecords
<1> HIDE DEF entry
<1>5. /\ dir'[s] = [dir[s] EXCEPT !.there = TRUE, !.kept = dir[s].kept \cup {entry}]
      /\ staging'[s] = NoDir
      /\ \A r \in Slots: r # s => dir'[r] = dir[r] /\ staging'[r] = staging[r]
  BY <1>1, <1>2 DEF DiskTypes, DirRecords
<1>6. /\ dir'[s].kept = dir[s].kept \cup {entry} /\ dir'[s].live = dir[s].live
      /\ dir'[s].saved = dir[s].saved
  BY <1>3, <1>5 DEF DirRecords
<1>7. DiskTypes'
  <2>1. dir[s].kept \cup {entry} \in SUBSET [name: Nat, live: Nat]
    BY <1>3, <1>4 DEF DirRecords
  <2>2. dir'[s] \in DirRecords
    <3>1. [dir[s] EXCEPT !.there = TRUE, !.kept = dir[s].kept \cup {entry}] \in DirRecords
      BY <1>3, <2>1, DirMoves
    <3> QED BY <1>5, <3>1
  <2>3. dir' \in [Slots -> DirRecords] /\ staging' \in [Slots -> DirRecords]
    BY <1>1, <1>2, <1>5, <2>2, NoDirTyped DEF DiskTypes
  <2> QED BY <1>1, <1>2, <2>3 DEF DiskTypes
<1>8. Kept(s) = dir[s].kept /\ Kept(s)' = Kept(s) \cup {entry}
  <2>1. staging'[s].kept = {}
    BY <1>5 DEF NoDir
  <2> QED BY <1>1, <1>6, <2>1 DEF Kept
<1>9. IsFiniteSet(Kept(s)) /\ Cardinality(Kept(s)) \in Nat
  BY <1>2, FS_CardinalityType DEF Numbered
<1>10. entry \notin Kept(s)
  BY <1>2, <1>4, <1>9 DEF Numbered, Unplaced
<1>11. IsFiniteSet(Kept(s)') /\ Cardinality(Kept(s)') = Cardinality(Kept(s)) + 1
  <2>1. /\ IsFiniteSet(Kept(s) \cup {entry})
        /\ Cardinality(Kept(s) \cup {entry}) = Cardinality(Kept(s)) + 1
    BY <1>9, <1>10, FS_AddElement
  <2> QED BY <1>8, <2>1
<1>12. \A e \in Kept(s)': e.name <= Cardinality(Kept(s)')
  <2> SUFFICES ASSUME NEW e \in Kept(s)' PROVE e.name <= Cardinality(Kept(s)')
    OBVIOUS
  <2>1. CASE e \in Kept(s)
    <3>1. e.name \in Nat
      BY <1>3, <1>8, <2>1 DEF DirRecords
    <3> QED BY <1>2, <1>9, <1>11, <2>1, <3>1 DEF Numbered
  <2>2. CASE e = entry
    BY <1>2, <1>4, <1>9, <1>11, <2>2 DEF Unplaced
  <2> QED BY <1>8, <2>1, <2>2
<1>13. Placed(s)'
  BY <1>1, <1>4, <1>6 DEF Placed
<1>14. Numbered(s)'
  BY <1>5, <1>11, <1>12, <1>13 DEF Numbered
<1>15. Holds(s) => Holds(s)'
  <2>1. Held(dir[s]) \cup Held(staging[s]) \subseteq Held(dir[s])' \cup Held(staging[s])'
    BY <1>1, <1>4, <1>6 DEF Held
  <2> QED BY <1>1, <1>2, <2>1 DEF Holds, Frozen
<1>16. rec'[s].state \notin {"absent", "bare", "finished"} /\ dir'[s].saved # "finished"
  BY <1>1, <1>2, <1>6 DEF Frozen
<1>17. Placing'
  BY <1>0, <1>1, <1>2, <1>5 DEF Placing, Replacing
<1> QED BY <1>0, <1>1, <1>2, <1>5, <1>7, <1>14, <1>15, <1>16, <1>17, ReplaceTouches
     DEF DiskInv, Stages

LEMMA ReplaceRenewsKeeps == ASSUME LeaseInv, DiskInv, ReplaceRenews PROVE DiskInv'
<1>0. PICK s \in Slots: s = Replacing
  BY ReplacingFrozen DEF ReplaceRenews, Stages
<1> DEFINE new == [state |-> "pending", summary |-> FALSE, stop |-> FALSE]
<1>1. /\ rec' = [rec EXCEPT ![s] = new]
      /\ sched.pc = "renew" /\ sched' = [sched EXCEPT !.pc = "unlink"] /\ proc' = proc
      /\ UNCHANGED <<dir, staging, txn, exported, svc, made, spoiled>>
  BY <1>0 DEF ReplaceRenews, Goto
<1>2. /\ sched.pc \in Stages /\ Frozen(s) /\ DiskTypes /\ Numbered(s) /\ staging[s] = NoDir
      /\ txn[s] # NoTxn /\ sched'.pc = "unlink" /\ sched'.queue = sched.queue
  BY <1>0, <1>1, ReplacingFrozen DEF Stages, SchedRecords, DiskInv, Numbering, Placing
<1>3. new \in [state: States, summary: BOOLEAN, stop: BOOLEAN] /\ new.state = "pending"
  BY DEF States
<1> HIDE DEF new
<1>4. /\ DiskTypes' /\ rec'[s] = new /\ \A r \in Slots: r # s => rec'[r] = rec[r]
  BY <1>1, <1>2, <1>3 DEF DiskTypes
<1>5. Numbered(s)' /\ (Holds(s) => Holds(s)')
  BY <1>1, <1>2, <1>3, <1>4 DEF Numbered, Kept, Unplaced, Placed, Holds, Frozen
<1>6. rec'[s].state \notin {"absent", "bare", "finished"} /\ dir'[s].saved # "finished"
  BY <1>1, <1>2, <1>3, <1>4 DEF Frozen
<1>7. Placing'
  BY <1>0, <1>1, <1>2 DEF Placing, Replacing
<1> QED BY <1>0, <1>1, <1>2, <1>4, <1>5, <1>6, <1>7, ReplaceTouches DEF DiskInv, Stages

LEMMA ReplaceUnlinksKeepsDisk == ASSUME LeaseInv, DiskInv, ReplaceUnlinks PROVE DiskInv'
<1>0. PICK s \in Slots: s = Replacing
  BY ReplacingFrozen DEF ReplaceUnlinks, Stages
<1> DEFINE last == Len(sched.queue) = 1
<1>1. /\ txn' = [txn EXCEPT ![s] = NoTxn] /\ sched.pc = "unlink" /\ proc' = proc
      /\ sched' = [sched EXCEPT !.pc = IF last THEN "loop" ELSE "journal",
                                !.queue = IF last THEN Schedule ELSE Tail(@)]
      /\ UNCHANGED <<rec, dir, staging, exported, svc, made, spoiled>>
  BY <1>0 DEF ReplaceUnlinks
<1>2. /\ sched.pc \in Stages /\ Frozen(s) /\ DiskTypes /\ Numbered(s) /\ staging[s] = NoDir
      /\ sched.queue \in Seq(Slots) /\ sched.queue # <<>> /\ sched \in SchedRecords
      /\ Queued \subseteq Slots /\ Planned
  BY <1>0, <1>1, ReplacingFrozen DEF Stages, DiskInv, Numbering, Placing
<1>3. /\ sched'.pc = (IF last THEN "loop" ELSE "journal")
      /\ sched'.queue = (IF last THEN Schedule ELSE Tail(sched.queue))
  BY <1>1, <1>2 DEF SchedRecords
<1>4. NoTxn \in [name: Nat, prev: States \cup {"none"}]
  BY DEF NoTxn
<1>5. DiskTypes' /\ txn'[s] = NoTxn /\ \A r \in Slots: r # s => txn'[r] = txn[r]
  BY <1>1, <1>2, <1>4 DEF DiskTypes
<1>6. Numbered(s)' /\ (Holds(s) => Holds(s)')
  BY <1>1, <1>2, <1>5 DEF Numbered, Kept, Holds
<1>7. rec'[s].state \notin {"absent", "bare", "finished"} /\ dir'[s].saved # "finished"
  BY <1>1, <1>2 DEF Frozen
<1>8. /\ DiskTypes' /\ TxnFrozen' /\ Numbering' /\ Busy' /\ Recorded'
      /\ \A r \in Slots: Frozen(r) => Frozen(r)'
  BY <1>0, <1>1, <1>2, <1>5, <1>6, <1>7, ReplaceTouches
<1>9. \A r \in Slots: txn'[r] # NoTxn =>
        r # s /\ \E i \in 1..Len(sched.queue): sched.queue[i] = r
  BY <1>2, <1>5 DEF Planned, Queued
<1>10. /\ sched.queue[1] = s /\ Len(sched.queue) \in Nat \ {0}
       /\ Len(Tail(sched.queue)) = Len(sched.queue) - 1
       /\ \A i \in 1..Len(Tail(sched.queue)): Tail(sched.queue)[i] = sched.queue[i + 1]
  BY <1>0, <1>2 DEF Replacing
<1>11. CASE last
  <2>1. \A r \in Slots: txn'[r] = NoTxn
    BY <1>9, <1>10, <1>11
  <2>2. Planned' /\ Placing'
    BY <1>3, <1>11, <2>1 DEF Planned, Placing, Stages
  <2> QED BY <1>8, <2>2 DEF DiskInv
<1>12. CASE ~last
  <2>1. Queued' = {Tail(sched.queue)[i]: i \in 1..Len(Tail(sched.queue))}
    BY <1>3, <1>12 DEF Queued
  <2>2. ASSUME NEW r \in Queued' PROVE Frozen(r)'
    <3>1. PICK i \in 1..Len(Tail(sched.queue)): r = Tail(sched.queue)[i]
      BY <2>1, <2>2
    <3>2. i + 1 \in 1..Len(sched.queue) /\ r = sched.queue[i + 1]
      BY <1>10, <3>1
    <3>3. r \in Queued
      BY <3>2 DEF Queued
    <3> QED BY <1>2, <1>8, <3>3 DEF Planned
  <2>3. ASSUME NEW r \in Slots, txn'[r] # NoTxn PROVE r \in Queued'
    <3>1. PICK i \in 1..Len(sched.queue): sched.queue[i] = r /\ i # 1
      BY <1>9, <1>10, <2>3
    <3>2. i - 1 \in 1..Len(Tail(sched.queue)) /\ Tail(sched.queue)[i - 1] = r
      BY <1>10, <3>1
    <3> QED BY <2>1, <3>2
  <2>4. sched'.pc = "journal"
    BY <1>3, <1>12
  <2>5. Planned' /\ Placing'
    BY <2>2, <2>3, <2>4 DEF Planned, Placing, Stages
  <2> QED BY <1>8, <2>5 DEF DiskInv
<1> QED BY <1>11, <1>12

----------------------------------------------------------------------------
(* The loop, and the ends                                                  *)

LEMMA InitializeNewKeeps ==
  ASSUME LeaseInv, DiskInv, NEW s \in Slots, InitializeNew(s) PROVE DiskInv'
<1> DEFINE next == IF rec[s].state = "absent" THEN "bare" ELSE "pending"
<1>1. /\ sched.pc = "init" /\ sched' = sched /\ proc' = proc
      /\ rec[s].state \in {"absent", "bare"} /\ rec' = [rec EXCEPT ![s].state = next]
      /\ UNCHANGED <<dir, staging, txn, exported, svc, made, spoiled>> /\ DiskTypes
  BY DEF InitializeNew, First, NewSlots, DiskInv
<1>2. next \in States \ {"finished"}
  BY DEF States
<1> HIDE DEF next
<1>3. /\ rec'[s] = [rec[s] EXCEPT !.state = next] /\ DiskTypes'
      /\ \A r \in Slots: r # s => rec'[r] = rec[r]
  BY <1>1, <1>2 DEF DiskTypes
<1>4. rec'[s].state # "finished" /\ rec[s].state # "finished"
  BY <1>1, <1>2, <1>3 DEF DiskTypes
<1>5. Planned' /\ Placing' /\ TxnFrozen'
  BY <1>1, CalmStays DEF DiskInv, Calm
<1>6. Numbering'
  BY <1>1 DEF DiskInv, Numbering, Numbered, Kept, Unplaced, Placed
<1>7. Busy'
  <2>1. ASSUME NEW v \in Procs PROVE Finds(v, proc[v].slot)'
    <3>1. Finds(v, proc[v].slot) /\ proc[v].slot \in Slots
      BY AtWork
    <3> QED BY <1>1, <1>3, <1>4, <3>1 DEF Finds, At
  <2> QED BY <2>1 DEF Busy
<1>8. Recorded'
  <2>1. ASSUME NEW r \in Slots, Holds(r) PROVE Holds(r)'
    BY <1>1, <1>3, <1>4, <2>1 DEF Holds, Held
  <2> QED BY <1>1, <2>1 DEF DiskInv, Recorded
<1> QED BY <1>3, <1>5, <1>6, <1>7, <1>8 DEF DiskInv

LEMMA SkipKeeps == ASSUME LeaseInv, DiskInv, Skip PROVE DiskInv'
<1>1. /\ sched.pc = "loop" /\ sched'.pc = "loop" /\ proc' = proc /\ DiskTypes
      /\ UNCHANGED <<rec, staging, txn, exported, made, spoiled>>
  BY DEF Skip, Turn, LeaseInv, ActorTypes, SchedRecords, DiskInv
<1>2. PICK s \in Slots: s = Next_ /\ rec[s].state = "finished"
  BY NextTurns DEF Skip, Done
<1>3. \/ UNCHANGED <<dir, svc>>
      \/ dir' = [dir EXCEPT ![s] = NoDir] /\ svc' = [svc EXCEPT ![s] = FALSE]
  BY <1>2 DEF Skip, Released
<1>4. DiskTypes' /\ \A r \in Slots: dir'[r] = dir[r] \/ (r = s /\ dir'[r] = NoDir)
  BY <1>1, <1>3, NoDirTyped DEF DiskTypes
<1>5. (\A r \in Slots: txn[r] = NoTxn) /\ Planned' /\ Placing' /\ TxnFrozen'
  BY <1>1, CalmStays DEF DiskInv, Calm
<1>6. Numbering'
  <2>1. ASSUME NEW r \in Slots PROVE Numbered(r)'
    <3>1. Numbered(r) /\ staging[r] = NoDir
      BY <1>5 DEF DiskInv, Numbering, Numbered
    <3>2. Kept(r)' = Kept(r) \/ Kept(r)' = {}
      BY <1>1, <1>4, <3>1 DEF Kept, NoDir
    <3>3. txn'[r] = NoTxn /\ staging'[r] = NoDir
      BY <1>1, <1>5, <3>1
    <3> QED BY <3>1, <3>2, <3>3, FS_EmptySet DEF Numbered
  <2> QED BY <2>1 DEF Numbering
<1>7. Busy'
  BY <1>1 DEF DiskInv, Busy, Finds, At
<1>8. Recorded'
  BY <1>1, <1>2, <1>4 DEF DiskInv, Recorded, Holds, Held
<1> QED BY <1>4, <1>5, <1>6, <1>7, <1>8 DEF DiskInv

\* Nobody works on a slot whose task the scheduler owns and that it turns to.
LEMMA NextIsFree ==
  ASSUME LeaseInv, Decided PROVE \A w \in Procs: WorksOn(w) => proc[w].slot # Next_
<1>1. /\ Task(Next_) \in sched.owned /\ Next_ \in Slots /\ sched.by[Next_] = 0
      /\ sched.pc \in {"loop", "ours"}
  BY NextTurns
<1>2. \A w \in Workers: WorksOn(w) => proc[w].slot # Next_
  BY <1>1, CollectorApart, BatchAssumption DEF LeaseInv, Leased
<1>3. WorksOn(Collector) => proc[Collector].slot # Next_
  BY <1>1 DEF LeaseInv, CollectorAlone, Collecting, WorksOn
<1> QED BY <1>2, <1>3 DEF Procs

LEMMA BlockKeeps == ASSUME LeaseInv, DiskInv, Block PROVE DiskInv'
<1>1. /\ sched.pc \in Calm /\ sched'.pc = "loop" /\ proc' = proc /\ DiskTypes
      /\ UNCHANGED <<dir, staging, txn, exported, svc, made>> /\ Decided
  BY DEF Block, Decided, Turn, Calm, LeaseInv, ActorTypes, SchedRecords, DiskInv
<1> DEFINE mark == [state |-> "blocked", summary |-> TRUE, stop |-> FALSE]
<1>2. PICK s \in Slots: /\ s = Next_ /\ rec' = [rec EXCEPT ![s] = mark]
        /\ spoiled' = IF rec[s].state = "finished" THEN spoiled \cup {s} ELSE spoiled
  BY NextTurns DEF Block
<1>3. mark \in [state: States, summary: BOOLEAN, stop: BOOLEAN] /\ mark.state = "blocked"
  BY DEF States
<1> HIDE DEF mark
<1>4. DiskTypes' /\ rec'[s] = mark /\ \A r \in Slots: r # s => rec'[r] = rec[r]
  BY <1>1, <1>2, <1>3 DEF DiskTypes
<1>5. Planned' /\ Placing' /\ TxnFrozen'
  BY <1>1, CalmStays DEF DiskInv, Calm
<1>6. Numbering'
  BY <1>1 DEF DiskInv, Numbering, Numbered, Kept, Unplaced, Placed
<1>7. Busy'
  <2>1. ASSUME NEW v \in Procs PROVE Finds(v, proc[v].slot)'
    <3>1. Finds(v, proc[v].slot) /\ proc[v].slot \in Slots
      BY AtWork
    <3>2. proc[v].pc \in InCase \cup {"committed"} => proc[v].slot # s
      BY <1>1, <1>2, NextIsFree DEF WorksOn, Working, At, InCase
    <3>3. \A r \in Slots: r # s => (r \in spoiled' <=> r \in spoiled)
      BY <1>2
    <3> QED BY <1>1, <1>4, <3>1, <3>2, <3>3 DEF Finds, At, InCase
  <2> QED BY <2>1 DEF Busy
<1>8. Recorded'
  <2>1. ASSUME NEW r \in Slots \ spoiled' PROVE Holds(r)'
    <3>1. r \notin spoiled /\ Holds(r)
      BY <1>2, <2>1 DEF DiskInv, Recorded
    <3>2. r = s => rec[s].state # "finished"
      BY <1>2, <2>1
    <3> QED BY <1>1, <1>3, <1>4, <3>1, <3>2 DEF Holds, Held
  <2> QED BY <2>1 DEF Recorded
<1> QED BY <1>4, <1>5, <1>6, <1>7, <1>8 DEF DiskInv

LEMMA DispatchKeepsDisk ==
  ASSUME LeaseInv, DiskInv, NEW w \in Workers, Dispatch(w) PROVE DiskInv'
<1> DEFINE spawned == [Idle EXCEPT !.pc = "spawned", !.slot = Next_]
<1>1. /\ sched.pc \in Calm /\ sched'.pc = "loop" /\ DiskTypes /\ w \in Procs
      /\ UNCHANGED <<rec, staging, txn, exported, svc, made, spoiled>> /\ Decided
      /\ proc' = [proc EXCEPT ![w] = spawned]
  BY DEF Dispatch, Decided, Turn, Calm, LeaseInv, ActorTypes, SchedRecords, DiskInv, Procs
<1>2. PICK s \in Slots: s = Next_ /\ dir' = [dir EXCEPT ![s].there = TRUE]
  BY <1>1, NextTurns DEF Dispatch
<1>3. spawned.pc = "spawned"
  BY DEF Idle
<1> HIDE DEF spawned
<1>4. proc'[w].pc = "spawned" /\ \A v \in Procs: v # w => proc'[v] = proc[v]
  BY <1>1, <1>3 DEF LeaseInv, ActorTypes
<1>5. \A r \in Slots: dir'[r].kept = dir[r].kept /\ dir'[r].live = dir[r].live
  BY <1>1, <1>2 DEF DiskTypes, DirRecords
<1>6. DiskTypes'
  <2>1. [dir[s] EXCEPT !.there = TRUE] \in DirRecords
    <3>1. dir[s] \in DirRecords
      BY <1>1 DEF DiskTypes
    <3> QED BY <3>1 DEF DirRecords
  <2>2. dir' \in [Slots -> DirRecords]
    BY <1>1, <1>2, <2>1 DEF DiskTypes
  <2> QED BY <1>1, <2>2 DEF DiskTypes
<1>7. Planned' /\ Placing' /\ TxnFrozen'
  BY <1>1, CalmStays DEF DiskInv, Calm
<1>8. Numbering'
  BY <1>1, <1>5 DEF DiskInv, Numbering, Numbered, Kept, Unplaced, Placed
<1>9. Busy'
  <2>1. ASSUME NEW v \in Procs PROVE Finds(v, proc[v].slot)'
    BY <1>1, <1>4 DEF DiskInv, Busy, Finds, At, InCase
  <2> QED BY <2>1 DEF Busy
<1>10. Recorded'
  BY <1>1, <1>5 DEF DiskInv, Recorded, Holds, Held
<1> QED BY <1>6, <1>7, <1>8, <1>9, <1>10 DEF DiskInv

\* Processes that nobody waits for any more are forgotten.
LEMMA ForgetNarrows ==
  ASSUME LeaseInv, \A v \in Procs: proc'[v] = proc[v] \/ proc'[v] = Idle
  PROVE Narrows
<1>1. ASSUME NEW v \in Procs, proc'[v] = proc[v] PROVE WorksOn(v)' <=> WorksOn(v)
  BY <1>1 DEF WorksOn, Working, At
<1>2. ASSUME NEW v \in Procs, proc'[v] = Idle
      PROVE ~WorksOn(v)' /\ proc'[v].pc \notin InCase \cup {"committed"}
  BY <1>2 DEF WorksOn, Working, At, Idle, InCase
<1> QED BY <1>1, <1>2 DEF Narrows

LEMMA ReturnsKeepDisk == ASSUME LeaseInv, DiskInv, Returns PROVE DiskInv'
<1>1. PICK s \in Slots: WorkerReturns(s) \/ ObserverReturns(s) \/ WorkerRaises(s)
  BY DEF Returns
<1>2. /\ sched.pc = "loop" /\ UNCHANGED disk /\ sched \in SchedRecords
      /\ proc' = proc \/ proc' = Tidied(sched.by[s])
  BY <1>1 DEF WorkerReturns, ObserverReturns, WorkerRaises, LeaseInv, ActorTypes
<1>3. sched'.pc \in {"loop", "closing"}
  BY <1>1, <1>2 DEF WorkerReturns, ObserverReturns, WorkerRaises, Completed, SchedRecords
<1>4. Narrows
  <2>1. \A v \in Procs: proc'[v] = proc[v] \/ proc'[v] = Idle
    BY <1>2 DEF Tidied, LeaseInv, ActorTypes
  <2> QED BY <2>1, ForgetNarrows
<1>5. CasesRest
  BY <1>2 DEF CasesRest, disk, DiskInv, DiskTypes
<1>6. Planned' /\ Placing'
  BY <1>2, <1>3, CalmStays DEF Calm, DiskInv, disk
<1> QED BY <1>4, <1>5, <1>6, CasesRestKeep DEF DiskInv, LeaseInv

LEMMA EndKeepsDisk ==
  ASSUME LeaseInv, DiskInv, Ended \/ SchedulerDies \/ StopBatch \/ \E t \in Tasks: Refuse(t)
  PROVE DiskInv'
<1>1. sched' = NoSched /\ UNCHANGED <<rec, dir, staging, txn, exported, made, spoiled>>
  BY DEF Ended, SchedulerDies, StopBatch, Refuse, disk
<1>2. \A v \in Procs: proc'[v] = proc[v] \/ proc'[v] = Idle
  BY DEF Ended, SchedulerDies, StopBatch, Refuse
<1>3. svc' = svc \/ svc' = [s \in Slots |-> Remote /\ svc[s]]
  BY DEF Ended, SchedulerDies, StopBatch, Refuse, disk
<1>4. CasesRest
  <2>1. svc \in [Slots -> BOOLEAN] /\ Remote \in BOOLEAN
    BY BatchAssumption DEF DiskInv, DiskTypes
  <2>2. svc' \in [Slots -> BOOLEAN] /\ \A s \in Slots: svc'[s] => svc[s]
    BY <1>3, <2>1
  <2> QED BY <1>1, <2>2 DEF CasesRest
<1> QED BY <1>1, <1>2, <1>4, ForgetNarrows, CasesRestKeep DEF DiskInv, LeaseInv

LEMMA StartCollectKeepsDisk == ASSUME LeaseInv, DiskInv, StartCollect PROVE DiskInv'
<1>1. PICK found \in SUBSET Slots:
        /\ proc[Collector] = Idle /\ sched' = sched /\ UNCHANGED disk
        /\ proc' = [proc EXCEPT ![Collector].pc = "pick", ![Collector].todo = found]
  BY DEF StartCollect, disk
<1>2. /\ proc'[Collector].pc = "pick" /\ Collector \in Procs
      /\ \A v \in Procs: v # Collector => proc'[v] = proc[v]
  BY <1>1 DEF LeaseInv, ActorTypes, Procs, ProcRecords, Idle
<1>3. ~WorksOn(Collector)' /\ \A v \in Procs: v # Collector => (WorksOn(v)' <=> WorksOn(v))
  BY <1>2 DEF WorksOn, Working, At
<1>4. Narrows
  BY <1>2, <1>3 DEF Narrows, InCase
<1> QED BY <1>1, <1>4, ProcessesNarrow

LEMMA ServiceDiesKeeps ==
  ASSUME LeaseInv, DiskInv, NEW s \in Slots, ServiceDies(s) PROVE DiskInv'
<1>1. Narrows /\ sched' = sched
  BY DEF Narrows, WorksOn, Working, At, ServiceDies
<1>2. CasesRest
  BY DEF ServiceDies, CasesRest, DiskInv, DiskTypes
<1> QED BY <1>1, <1>2, CasesRestKeep DEF DiskInv, LeaseInv

LEMMA SchedulerStepKeepsDisk == ASSUME LeaseInv, DiskInv, SchedulerStep PROVE DiskInv'
<1>1. ASSUME NEW t \in Tasks, AdmitTask(t) \/ Refuse(t) PROVE DiskInv'
  BY <1>1, AdmitTaskPlans, EndKeepsDisk
<1>2. CASE \E s \in Slots: InitializeNew(s)
  BY <1>2, InitializeNewKeeps
<1>3. CASE \E w \in Workers: Dispatch(w)
  BY <1>3, DispatchKeepsDisk
<1> QED BY <1>1, <1>2, <1>3, AdmittedPlans, LoopPlans, ReplaceJournalsKeeps, ReplaceStagesKeeps,
     ReplaceMovesKeeps, ReplacePlacesKeeps, ReplaceRenewsKeeps, ReplaceUnlinksKeepsDisk,
     SkipKeeps, BlockKeeps, EndKeepsDisk DEF SchedulerStep, Tasks

----------------------------------------------------------------------------
(* The cases, in every state                                               *)

LEMMA DiskStarts == ASSUME Init PROVE DiskInv
<1>1. PICK n \in Pasts:
        /\ rec = [s \in Slots |-> [state |-> IF n = 0 THEN "absent" ELSE "suspended",
                                   summary |-> n # 0, stop |-> FALSE]]
        /\ dir = [s \in Slots |-> IF n = 0 THEN NoDir ELSE
             [there |-> TRUE, saved |-> "suspended", live |-> n,
              kept |-> {[name |-> i, live |-> i]: i \in 1..n - 1}]]
        /\ made = [s \in Slots |-> n]
  BY DEF Init
<1>2. n \in Nat
  BY BatchAssumption
<1>3. /\ staging = [s \in Slots |-> NoDir] /\ txn = [s \in Slots |-> NoTxn]
      /\ exported = [s \in Slots |-> {}] /\ svc = [s \in Slots |-> FALSE] /\ spoiled = {}
      /\ proc = [w \in Procs |-> Idle] /\ sched = NoSched
  BY DEF Init
<1> DEFINE old == {[name |-> i, live |-> i]: i \in 1..n - 1}
<1>4. old \in SUBSET [name: Nat, live: Nat]
  BY <1>2
<1>5. DiskTypes
  <2>1. [there |-> TRUE, saved |-> "suspended", live |-> n, kept |-> old] \in DirRecords
    BY <1>2, <1>4 DEF DirRecords
  <2>2. dir \in [Slots -> DirRecords] /\ staging \in [Slots -> DirRecords]
    BY <1>1, <1>3, <2>1, NoDirTyped
  <2> QED BY <1>1, <1>2, <1>3, <2>2 DEF DiskTypes, States, NoTxn
<1>6. TxnFrozen /\ Planned /\ Placing
  BY <1>3 DEF TxnFrozen, Planned, Placing, NoSched, Stages
<1>7. IsFiniteSet(old) /\ \A e \in old: e.name <= Cardinality(old)
  <2>1. CASE n = 0
    <3>1. old = {}
      BY <2>1
    <3> QED BY <3>1, FS_EmptySet
  <2>2. CASE n # 0
    <3> DEFINE f == [i \in 1..n - 1 |-> [name |-> i, live |-> i]]
    <3>1. n - 1 \in Nat /\ IsFiniteSet(1..n - 1) /\ Cardinality(1..n - 1) = n - 1
      BY <1>2, <2>2, FS_Interval
    <3>2. f \in Surjection(1..n - 1, old)
      BY DEF Surjection
    <3>3. f \in Injection(1..n - 1, old)
      <4>1. \A i, j \in 1..n - 1: f[i] = f[j] => i = j
        BY DEF f
      <4> QED BY <4>1 DEF Injection, IsInjective
    <3> HIDE DEF f
    <3>4. IsFiniteSet(old)
      BY <3>1, <3>2, FS_Surjection
    <3>5. n - 1 <= Cardinality(old) /\ Cardinality(old) \in Nat
      BY <3>1, <3>3, <3>4, FS_Injection, FS_CardinalityType
    <3>6. ASSUME NEW e \in old PROVE e.name <= Cardinality(old)
      <4>1. PICK i \in 1..n - 1: e.name = i
        OBVIOUS
      <4> HIDE DEF old
      <4> QED BY <1>2, <3>5, <4>1
    <3> QED BY <3>4, <3>6
  <2> QED BY <2>1, <2>2
<1>8. \A s \in Slots: Kept(s) = {} \/ Kept(s) = old
  BY <1>1, <1>3 DEF Kept, NoDir
<1>9. Numbering
  BY <1>3, <1>7, <1>8, FS_EmptySet DEF Numbering, Numbered
<1>10. Busy
  BY <1>3 DEF Busy, Finds, Idle, At, InCase
<1>11. Recorded
  <2>1. ASSUME NEW s \in Slots PROVE Holds(s)
    <3>1. rec[s].state # "finished" /\ made[s] = n
      BY <1>1
    <3>2. CASE n = 0
      <4>1. 1..made[s] = {}
        BY <3>1, <3>2
      <4> QED BY <3>1, <4>1 DEF Holds
    <3>3. CASE n # 0
      <4>1. dir[s].live = n /\ dir[s].kept = old
        BY <1>1, <3>3
      <4>2. ASSUME NEW i \in 1..n PROVE i \in Held(dir[s])
        <5>1. i = n \/ i \in 1..n - 1
          BY <1>2
        <5>2. i \in 1..n - 1 => [name |-> i, live |-> i] \in dir[s].kept
          BY <4>1
        <5> QED BY <4>1, <5>1, <5>2 DEF Held
      <4> QED BY <3>1, <4>2 DEF Holds
    <3> QED BY <3>2, <3>3
  <2> QED BY <2>1 DEF Recorded
<1> QED BY <1>5, <1>6, <1>9, <1>10, <1>11 DEF DiskInv

\* What the directories of a local condition hold, in every state.
THEOREM LocalDiskInvariant == ASSUME Remote = FALSE PROVE Spec => [](LeaseInv /\ DiskInv)
<1>1. Init => DiskInv
  BY DiskStarts
<1>2. LeaseInv /\ DiskInv /\ [Next]_vars => DiskInv'
  <2> SUFFICES ASSUME LeaseInv, DiskInv, [Next]_vars PROVE DiskInv'
    OBVIOUS
  <2>1. ASSUME NEW mode \in {"fresh", "resume", "replace"}, Start(mode) PROVE DiskInv'
    BY <2>1, StartPlans
  <2>2. ASSUME NEW w \in Procs, ProcStep(w) \/ NativeEnds(w) \/ ProcDies(w) PROVE DiskInv'
    BY <2>2, ProcStepKeeps, NativeEndsKeeps, ProcDiesKeeps
  <2>3. CASE \E s \in Slots: ServiceDies(s)
    BY <2>3, ServiceDiesKeeps
  <2>4. CASE UNCHANGED vars
    <3>1. Narrows
      BY <2>4 DEF vars, Narrows, WorksOn, Working, At
    <3> QED BY <2>4, <3>1, ProcessesNarrow DEF vars
  <2>5. CASE CollectorStep
    BY <2>5, CollectorStepKeeps
  <2> QED BY <2>1, <2>2, <2>3, <2>4, <2>5, SchedulerStepKeepsDisk, ReturnsKeepDisk,
       StartCollectKeepsDisk, EndKeepsDisk DEF Next
<1> QED BY <1>1, <1>2, LeaseInvariant, PTL DEF Spec

\* The variables keep their types in a local condition.
THEOREM LocalTypeOK == ASSUME Remote = FALSE PROVE Spec => []TypeOK
<1>1. ASSUME DiskTypes PROVE \A s \in Slots: /\ DirType(dir[s]) /\ DirType(staging[s])
                                              /\ exported[s] \subseteq Nat
  <2>1. \A d \in DirRecords: DirType(d)
    BY DEF DirRecords, DirType
  <2> QED BY <1>1, <2>1 DEF DiskTypes
<1>2. ASSUME ActorTypes PROVE /\ \A w \in Procs: proc[w].slot \in Slots /\ proc[w].todo \subseteq Slots
                              /\ ToSet(sched.queue) \subseteq Slots /\ sched.watched \subseteq Slots
                              /\ sched.by \in [Slots -> Workers \cup {0}]
  <2>1. sched.queue \in Seq(Slots)
    BY <1>2 DEF ActorTypes, SchedRecords
  <2>2. ToSet(sched.queue) \subseteq Slots
    BY <2>1 DEF ToSet
  <2> QED BY <1>2, <2>2 DEF ActorTypes, SchedRecords, ProcRecords
<1>3. LeaseInv /\ DiskInv => TypeOK
  BY <1>1, <1>2 DEF LeaseInv, DiskInv, DiskTypes, TypeOK
<1> QED BY <1>3, LocalDiskInvariant, PTL

\* In a local condition no attempt is lost, whatever dies in the middle of a
\* replacement: each one that ever started is in the runtime, in the half
\* moved directory, among the replaced ones or in the verified export.  (In a
\* remote condition TLC finds that a finished case can be replaced.)
THEOREM LocalEvidenceKept == ASSUME Remote = FALSE PROVE Spec => []EvidenceKept
<1>1. DiskInv => EvidenceKept
  BY DEF DiskInv, Recorded, Holds, EvidenceKept
<1> QED BY <1>1, LocalDiskInvariant, PTL

LEMMA FinishedOnce ==
  ASSUME LeaseInv, DiskInv, [Next]_vars, NEW s \in Slots,
         rec[s].state = "finished", rec'[s].state # "finished"
  PROVE s \in spoiled'
<1>1. DiskTypes
  BY DEF DiskInv
<1>2. CASE rec' = rec
  BY <1>2
<1>3. ASSUME NEW r \in Slots, InitializeNew(r) PROVE FALSE
  BY <1>1, <1>3 DEF InitializeNew, First, NewSlots, DiskTypes
<1>4. CASE ReplaceRenews
  <2>1. Replacing \in Slots /\ Frozen(Replacing)
    BY <1>4, ReplacingFrozen DEF ReplaceRenews, Stages
  <2> QED BY <1>1, <1>4, <2>1 DEF ReplaceRenews, Frozen, DiskTypes
<1>5. CASE Block
  <2>1. rec' = [rec EXCEPT ![Next_] = [state |-> "blocked", summary |-> TRUE, stop |-> FALSE]]
    BY <1>5 DEF Block
  <2>2. s = Next_
    BY <1>1, <2>1 DEF DiskTypes
  <2> QED BY <1>5, <2>2 DEF Block
<1>6. ASSUME NEW w \in Procs, Begin(w) \/ RecordSummary(w) \/ Export(w) \/ Commit(w)
      PROVE FALSE
  <2>0. PICK r \in Slots: r = proc[w].slot /\ Finds(w, r)
    BY AtWork
  <2>1. ASSUME NEW x, rec' = [rec EXCEPT ![r] = x], s = r => rec[s].state # "finished" \/ x.state = "finished"
        PROVE FALSE
    BY <1>1, <2>1 DEF DiskTypes
  <2>2. CASE Begin(w)
    <3>1. rec' = [rec EXCEPT ![r] = [rec[r] EXCEPT !.state = "running"]] /\ ~Terminal(r)
      BY <1>2, <2>0, <2>2 DEF Begin
    <3> QED BY <2>1, <3>1 DEF Terminal
  <2>3. CASE RecordSummary(w) \/ Export(w)
    <3>1. rec[r].state # "finished"
      BY <2>0, <2>3 DEF RecordSummary, Export, Finds, At, InCase
    <3>2. \E x: rec' = [rec EXCEPT ![r] = x]
      BY <2>0, <2>3 DEF RecordSummary, Export
    <3> QED BY <2>1, <3>1, <3>2
  <2>4. CASE Commit(w)
    <3>1. rec' = [rec EXCEPT ![r] = [rec[r] EXCEPT !.state = "finished"]]
      BY <2>0, <2>4 DEF Commit
    <3> QED BY <1>1, <3>1 DEF DiskTypes
  <2> QED BY <1>6, <2>2, <2>3, <2>4
<1>7. CASE rec' # rec
  <2>1. ~UNCHANGED vars
    BY <1>7 DEF vars, disk
  <2>2. \/ SchedulerStep \/ \E w \in Procs: ProcStep(w)
    BY <1>7, <2>1 DEF Next, Start, Returns, WorkerReturns, ObserverReturns, WorkerRaises, NativeEnds,
      ProcDies, StartCollect, CollectorStep, CollectEnds, Collect, SchedulerDies, StopBatch,
      ServiceDies, disk
  <2>3. CASE SchedulerStep
    BY <1>3, <1>4, <1>5, <1>7, <2>3 DEF SchedulerStep, AdmitTask, Refuse, Admitted, Initialized,
      ReplaceJournals, ReplaceStages, ReplaceMoves, ReplacePlaces, ReplaceUnlinks, Skip, Peek,
      Defer, TakeLease, Ended, Dispatch, disk
  <2>4. ASSUME NEW w \in Procs, ProcStep(w) PROVE FALSE
    BY <1>6, <1>7, <2>4 DEF ProcStep, Feed, NameOwner, Launch, Summarise, SaveSummary, Clean, disk
  <2> QED BY <2>2, <2>3, <2>4
<1> QED BY <1>2, <1>7

\* In a local condition a finished case stays finished, whoever restarts,
\* replaces or collects.  The one exception is a slot whose record was read
\* before its lease was free and that is then blocked (spoiled).
THEOREM LocalFinishedStays == ASSUME Remote = FALSE PROVE Spec => FinishedStays
<1> DEFINE Stays == \A s \in Slots:
             rec[s].state = "finished" /\ rec'[s].state # "finished" => s \in spoiled'
<1>1. LeaseInv /\ DiskInv /\ [Next]_vars => [Stays]_vars
  BY FinishedOnce
<1> QED BY <1>1, LocalDiskInvariant, PTL DEF Spec, FinishedStays
=============================================================================
