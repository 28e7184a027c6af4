--------------------------- MODULE BatchScheduler ---------------------------
(***************************************************************************)
(* One condition of an experiment: the directory of each case (storage.py, *)
(* attempt/worker.py, replacement.py), the lease that the repetitions of a *)
(* task share, and the processes that work on the cases: a scheduler, the  *)
(* workers it spawns, the native CLI and the local service of each worker, *)
(* and an explicit collector.  Every process may die at any step, and a    *)
(* worker, its CLI and its service outlive the scheduler.                  *)
(***************************************************************************)
EXTENDS Integers, FiniteSets, Sequences, SequencesExt

CONSTANTS
  Schedule,      \* the slots <<task, repetition>> in dispatch order
  Concurrency,   \* row["concurrency"]
  Remote,        \* the cases run on a remote endpoint
  Workers,       \* identities of worker processes
  Pasts,         \* attempts each case may have behind it, all but the last replaced
  MaxRuns,       \* bound: schedulers started
  MaxCollects,   \* bound: collectors started
  MaxCrashes     \* bound: processes that die

Slots == ToSet(Schedule)
Task(s) == s[1]
First(s, S) == s \in S /\ \A i, j \in DOMAIN Schedule:
  Schedule[i] = s /\ Schedule[j] \in S => i <= j
Collector == 0
Procs == Workers \cup {Collector}

\* The slots of S, in dispatch order.
Dispatched(S) == {q \in [1..Cardinality(S) -> S]:
  \A i, j \in 1..Cardinality(S): i < j => q[i] # q[j] /\ First(q[i], {q[i], q[j]})}

\* A plan has a slot, and names no slot twice.
ASSUME BatchAssumption ==
  /\ Schedule \in Seq(Slots) /\ Schedule # <<>>
  /\ \A i, j \in 1..Len(Schedule): Schedule[i] = Schedule[j] => i = j
  /\ Workers \subseteq Nat \ {0} /\ IsFiniteSet(Workers)
  /\ Concurrency \in Nat \ {0}
  /\ Remote \in BOOLEAN /\ Pasts \cup {MaxRuns, MaxCollects, MaxCrashes} \subseteq Nat

VARIABLES
  rec,       \* slot -> its result.json
  dir,       \* slot -> its .runtime
  staging,   \* slot -> its .replacing
  txn,       \* slot -> its .replacement.json
  exported,  \* slot -> the attempts in its verified export
  svc,       \* slot -> its local service is alive and owns the store, or its
             \* remote session is open
  made,      \* slot -> attempts ever started
  spoiled,   \* the slots that were blocked after they had finished
  proc,      \* process -> a worker with its CLI, or the collector
  sched,     \* the scheduler that holds the scheduler lease
  used       \* the bounds that were consumed

disk == <<rec, dir, staging, txn, exported, svc, made, spoiled>>
vars == <<disk, proc, sched, used>>

NoDir == [there |-> FALSE, saved |-> "none", live |-> 0, kept |-> {}]
Fresh == [NoDir EXCEPT !.there = TRUE]
NoTxn == [name |-> 0, prev |-> "none"]
Idle == [pc |-> "off", slot |-> Schedule[1], native |-> FALSE,
         outcome |-> "none", stop |-> FALSE, todo |-> {}]
NoSched == [pc |-> "off", mode |-> "fresh", todo |-> {}, owned |-> {}, queue |-> <<>>,
            by |-> [s \in Slots |-> 0], watched |-> {}, blocked |-> FALSE]

\* A new condition, or one whose cases were suspended and their services stopped.
Init ==
  /\ \E n \in Pasts:
       /\ rec = [s \in Slots |-> [state |-> IF n = 0 THEN "absent" ELSE "suspended",
                                  summary |-> n # 0, stop |-> FALSE]]
       /\ dir = [s \in Slots |-> IF n = 0 THEN NoDir ELSE
            [there |-> TRUE, saved |-> "suspended", live |-> n,
             kept |-> {[name |-> i, live |-> i]: i \in 1..n - 1}]]
       /\ made = [s \in Slots |-> n]
  /\ staging = [s \in Slots |-> NoDir]
  /\ txn = [s \in Slots |-> NoTxn]
  /\ exported = [s \in Slots |-> {}]
  /\ svc = [s \in Slots |-> FALSE]
  /\ spoiled = {}
  /\ proc = [w \in Procs |-> Idle]
  /\ sched = NoSched
  /\ used = [runs |-> 0, collects |-> 0, crashes |-> 0]

Use(field, bound) == used[field] < bound /\ used' = [used EXCEPT ![field] = @ + 1]

----------------------------------------------------------------------------
(* Leases.  A worker and its CLI inherit the scheduler's open file: the    *)
(* lease of a task is free when the last process that has it open is gone. *)

Working(w) == proc[w].pc \notin {"off", "exited", "failed"}
\* mutant: the CLI does not inherit the lease of its worker
HasWorker(w, t) == IF w = Collector THEN Working(w)
                   ELSE Task(proc[w].slot) = t /\ Working(w)

Has(w, t) == IF w = Collector THEN Working(w)
             ELSE Task(proc[w].slot) = t /\ (Working(w) \/ proc[w].native)

Free(t) == t \notin sched.owned /\ \A w \in Procs: ~Has(w, t)

\* live_worker: worker.json names a live process; its scheduler is dead.
Named(w, s) == w # Collector /\ Working(w) /\ proc[w].slot = s
               /\ proc[w].pc \notin {"spawned", "fed"}
LiveWorker(s) == {w \in Workers: Named(w, s)}
Unfinished(s) == rec[s].state \in {"pending", "running", "finalizing"}
Active == {s \in Slots: Unfinished(s) /\ LiveWorker(s) # {}}

\* What an interrupted or finished solve left: the summary finish_case takes.
Terminal(s) == rec[s].state = "finished" \/ dir[s].saved = "finished"

\* A process that nobody waits for leaves nothing but, perhaps, its CLI.
Gone(w, pc) == IF w # Collector /\ (w = sched.by[proc[w].slot] \/ proc[w].native)
               THEN [proc[w] EXCEPT !.pc = pc] ELSE Idle

----------------------------------------------------------------------------
(* The scheduler: admission                                                *)

\* live_slots refuses a slot whose owner it can neither verify nor exclude.
Verifiable == \A s \in Slots: Unfinished(s) /\ s \notin Active =>
  \/ rec[s].state = "pending" /\ \E a \in Active: Task(a) = Task(s)
  \/ Free(Task(s))

Start(mode) ==
  /\ sched.pc = "off"
  /\ Use("runs", MaxRuns)
  /\ mode # "fresh" => \E s \in Slots: rec[s].state # "absent"
  /\ mode = "resume" => Verifiable
  /\ LET active == IF mode = "resume" THEN Active ELSE {} IN
     sched' = [NoSched EXCEPT !.pc = "admit", !.mode = mode,
       !.todo = {Task(s): s \in Slots}, !.watched = active,
       !.by = [s \in Slots |-> IF s \in active THEN CHOOSE w \in LiveWorker(s): TRUE ELSE 0]]
  /\ UNCHANGED <<disk, proc>>

\* validate_replacement: an ended session; lease_replacement: a free store.
\* A recorded transaction is accepted as it stands.
Replaceable(s) ==
  \/ txn[s] # NoTxn /\ (Remote \/ ~svc[s])
  \/ /\ ~svc[s]
     /\ rec[s].state \in {"pending", "blocked", "suspended"} /\ dir[s].saved # "finished"

Admissible(s) ==
  CASE sched.mode = "replace" -> rec[s].state \notin {"absent", "bare"} /\ Replaceable(s)
    [] sched.mode = "resume" -> txn[s] = NoTxn /\ rec[s].state # "bare"
    [] sched.mode = "fresh" -> txn[s] = NoTxn /\ rec[s].state \in {"absent", "bare", "finished"}

\* A lease in other hands is accepted when every slot is observed or terminal.
Observable(t) == LET S == {s \in Slots: Task(s) = t} IN
  /\ sched.mode = "resume"
  /\ \A s \in S: s \in sched.watched \/ rec[s].state \in {"finished", "pending"}
  /\ \/ \E s \in S: s \in sched.watched
     \/ \A s \in S: rec[s].state = "finished"

AdmitTask(t) ==
  /\ sched.pc = "admit" /\ t \in sched.todo
  /\ Free(t) \/ Observable(t)
  /\ \A s \in Slots: Task(s) = t => Admissible(s)
  /\ sched' = [sched EXCEPT !.todo = @ \ {t}, !.owned = IF Free(t) THEN @ \cup {t} ELSE @]
  /\ UNCHANGED <<disk, proc, used>>

Refuse(t) ==
  /\ sched.pc = "admit" /\ t \in sched.todo
  /\ ~(Free(t) \/ Observable(t)) \/ \E s \in Slots: Task(s) = t /\ ~Admissible(s)
  /\ sched' = NoSched
  /\ UNCHANGED <<disk, proc, used>>

Admitted ==
  /\ sched.pc = "admit" /\ sched.todo = {}
  /\ \E q \in Dispatched(Slots \ sched.watched):
       sched' = [sched EXCEPT !.pc = IF sched.mode = "replace" THEN "journal" ELSE "init",
                              !.queue = q]
  /\ UNCHANGED <<disk, proc, used>>

NewSlots == {s \in Slots: rec[s].state \in {"absent", "bare"}}

\* CaseRecord.initialize of one new slot: the directory, then the manifest.
InitializeNew(s) ==
  /\ sched.pc = "init" /\ First(s, NewSlots)
  /\ rec' = [rec EXCEPT ![s].state = IF @ = "absent" THEN "bare" ELSE "pending"]
  /\ UNCHANGED <<dir, staging, txn, exported, svc, made, proc, sched, used, spoiled>>

Initialized ==
  /\ sched.pc = "init" /\ NewSlots = {}
  /\ sched' = [sched EXCEPT !.pc = "loop"]
  /\ UNCHANGED <<disk, proc, used>>

----------------------------------------------------------------------------
(* The scheduler: replacement, one slot after the other, by renames that a *)
(* repeated command completes.                                             *)

Replacing == Head(sched.queue)
Goto(pc) == sched' = [sched EXCEPT !.pc = pc]
Placed(s) == \E e \in dir[s].kept: e.name = txn[s].name

ReplaceJournals == LET s == Replacing IN
  /\ sched.pc = "journal" /\ Goto("stage")
  /\ txn' = [txn EXCEPT ![s] =
       IF @ = NoTxn THEN [name |-> 1 + Cardinality(dir[s].kept), prev |-> rec[s].state] ELSE @]
  /\ UNCHANGED <<rec, dir, staging, exported, svc, made, proc, used, spoiled>>

\* mutant: a runtime is staged again although an older one still waits
ReplaceStagesAgain == LET s == Replacing IN
  /\ sched.pc = "stage" /\ Goto(IF Placed(s) THEN "renew" ELSE "move")
  /\ IF Placed(s) \/ ~dir[s].there THEN UNCHANGED <<dir, staging>>
     ELSE /\ staging' = [staging EXCEPT ![s] = dir[s]]
          /\ dir' = [dir EXCEPT ![s] = NoDir]
  /\ UNCHANGED <<rec, txn, exported, svc, made, proc, used, spoiled>>

ReplaceStages == LET s == Replacing
                     moves == dir[s].there /\ ~staging[s].there IN
  /\ sched.pc = "stage" /\ Goto(IF Placed(s) THEN "renew" ELSE "move")
  /\ IF Placed(s) \/ ~moves THEN UNCHANGED <<dir, staging>>
     ELSE /\ staging' = [staging EXCEPT ![s] = dir[s]]
          /\ dir' = [dir EXCEPT ![s] = NoDir]
  /\ UNCHANGED <<rec, txn, exported, svc, made, proc, used, spoiled>>

ReplaceMoves == LET s == Replacing IN
  /\ sched.pc = "move" /\ staging[s].kept # {}
  /\ \E e \in staging[s].kept:
       /\ dir' = [dir EXCEPT ![s].there = TRUE, ![s].kept = @ \cup {e}]
       /\ staging' = [staging EXCEPT ![s].kept = @ \ {e}]
  /\ UNCHANGED <<rec, txn, exported, svc, made, proc, sched, used, spoiled>>

ReplacePlaces == LET s == Replacing IN
  /\ sched.pc = "move" /\ staging[s].kept = {} /\ Goto("renew")
  /\ dir' = [dir EXCEPT ![s].there = TRUE,
                        ![s].kept = @ \cup {[name |-> txn[s].name, live |-> staging[s].live]}]
  /\ staging' = [staging EXCEPT ![s] = NoDir]
  /\ UNCHANGED <<rec, txn, exported, svc, made, proc, used, spoiled>>

ReplaceRenews == LET s == Replacing IN
  /\ sched.pc = "renew" /\ Goto("unlink")
  /\ rec' = [rec EXCEPT ![s] = [state |-> "pending", summary |-> FALSE, stop |-> FALSE]]
  /\ UNCHANGED <<dir, staging, txn, exported, svc, made, proc, used, spoiled>>

ReplaceUnlinks == LET s == Replacing
                      last == Len(sched.queue) = 1 IN
  /\ sched.pc = "unlink"
  /\ txn' = [txn EXCEPT ![s] = NoTxn]
  /\ sched' = [sched EXCEPT !.pc = IF last THEN "loop" ELSE "journal",
                            !.queue = IF last THEN Schedule ELSE Tail(@)]
  /\ UNCHANGED <<rec, dir, staging, exported, svc, made, proc, used, spoiled>>

----------------------------------------------------------------------------
(* The scheduler: the loop                                                 *)

Pending == {s \in Slots: sched.by[s] # 0}
Turn == sched.pc = "loop" /\ sched.queue # <<>> /\ Cardinality(Pending) < Concurrency
Next_ == Head(sched.queue)
Owned == Task(Next_) \in sched.owned
Done(s) == rec[s].state = "finished" /\ rec[s].summary
Committed(s) == rec[s].summary /\ rec[s].state \in {"finished", "suspended", "blocked"}
Released(s) == [dir EXCEPT ![s] = NoDir]

Skip ==
  /\ Turn /\ Done(Next_)
  /\ sched' = [sched EXCEPT !.queue = Tail(@), !.blocked = @ \/ rec[Next_].stop]
  /\ IF Owned THEN dir' = Released(Next_) /\ svc' = [svc EXCEPT ![Next_] = FALSE]
     ELSE UNCHANGED <<dir, svc>>
  /\ UNCHANGED <<rec, staging, txn, exported, made, proc, used, spoiled>>

\* The record is read first; an unowned lease is tried after it.
Peek ==
  /\ Turn /\ ~Done(Next_) /\ ~Owned
  /\ Goto("peeked")
  /\ UNCHANGED <<disk, proc, used>>

Defer ==
  /\ sched.pc = "peeked" /\ ~Free(Task(Next_))
  /\ sched' = [sched EXCEPT !.pc = "loop", !.queue = Append(Tail(@), Head(@))]
  /\ UNCHANGED <<disk, proc, used>>

TakeLease ==
  /\ sched.pc = "peeked" /\ Free(Task(Next_))
  /\ sched' = [sched EXCEPT !.pc = "ours", !.owned = @ \cup {Task(Next_)}]
  /\ UNCHANGED <<disk, proc, used>>

Decided == \/ Turn /\ ~Done(Next_) /\ Owned
           \/ sched.pc = "ours"

Block ==
  /\ Decided /\ sched.blocked
  /\ rec' = [rec EXCEPT ![Next_] = [state |-> "blocked", summary |-> TRUE, stop |-> FALSE]]
  /\ spoiled' = IF rec[Next_].state = "finished" THEN spoiled \cup {Next_} ELSE spoiled
  /\ sched' = [sched EXCEPT !.pc = "loop", !.queue = Tail(@)]
  /\ UNCHANGED <<dir, staging, txn, exported, svc, made, proc, used>>

Idling == {w \in Workers: proc[w] = Idle /\ \A s \in Slots: sched.by[s] # w}
Spare(w) == w \in Idling /\ \A v \in Idling: w <= v

Dispatch(w) ==
  /\ Decided /\ ~sched.blocked /\ Spare(w)
  /\ sched' = [sched EXCEPT !.pc = "loop", !.queue = Tail(@), !.by[Next_] = w]
  /\ proc' = [proc EXCEPT ![w] = [Idle EXCEPT !.pc = "spawned", !.slot = Next_]]
  /\ dir' = [dir EXCEPT ![Next_].there = TRUE]
  /\ UNCHANGED <<rec, staging, txn, exported, svc, made, used, spoiled>>

\* A completed summary may block the shared resource it failed on.
Completed(s) ==
  sched' = [sched EXCEPT !.by[s] = 0, !.watched = @ \ {s}, !.blocked = @ \/ rec[s].stop]

Tidied(w) == [proc EXCEPT ![w] = IF @.native THEN @ ELSE Idle]

\* supervise_slot returns, or raises when the worker failed.
WorkerReturns(s) == LET w == sched.by[s] IN
  /\ sched.pc = "loop" /\ s \in Pending \ sched.watched
  /\ proc[w].pc = "exited" /\ Completed(s)
  /\ proc' = Tidied(w)
  /\ UNCHANGED <<disk, used>>

\* observe_worker: a committed state, whether or not the process is gone.
ObserverReturns(s) == LET w == sched.by[s] IN
  /\ sched.pc = "loop" /\ s \in sched.watched
  /\ Committed(s)
  /\ Completed(s)
  /\ proc' = IF Working(w) THEN proc ELSE Tidied(w)
  /\ UNCHANGED <<disk, used>>

\* One failed worker ends the whole batch, after the others have returned.  An
\* observer reads the record, then the process, and once that is gone accepts
\* a finished case only: one suspended in between raises too.
WorkerRaises(s) == LET w == sched.by[s] IN
  /\ sched.pc = "loop" /\ s \in Pending
  /\ IF s \in sched.watched
     THEN ~Working(w) /\ rec[s].state # "finished"
     ELSE proc[w].pc = "failed"
  /\ sched' = [sched EXCEPT !.pc = "closing", !.watched = {},
                 !.by = [r \in Slots |-> IF r = s \/ r \in sched.watched THEN 0 ELSE @[r]]]
  /\ proc' = Tidied(w)
  /\ UNCHANGED <<disk, used>>

Ended ==
  /\ \/ sched.pc = "loop" /\ sched.queue = <<>> /\ Pending = {}
     \/ sched.pc = "closing" /\ \A s \in Pending: ~Working(sched.by[s])
  /\ sched' = NoSched
  /\ proc' = [w \in Procs |-> IF proc[w].pc \in {"exited", "failed"} /\ ~proc[w].native
                              THEN Idle ELSE proc[w]]
  /\ UNCHANGED <<disk, used>>

----------------------------------------------------------------------------
(* A worker, and the steps it shares with the collector                    *)

At(w, pc) == proc[w].pc = pc
Move(w, pc) == proc' = [proc EXCEPT ![w].pc = pc]

Exits(w) == proc' = [proc EXCEPT ![w] =
  IF w = Collector THEN [proc[w] EXCEPT !.pc = "pick"] ELSE Gone(w, "exited")]

\* mutant: the pipe of a dead scheduler stays open
FeedWaits(w) == LET s == proc[w].slot IN
  /\ At(w, "spawned") /\ sched.by[s] = w /\ Move(w, "fed")
  /\ UNCHANGED <<disk, sched, used>>

\* The launch inputs come over a pipe: without a scheduler there is only EOF.
Feed(w) == LET s == proc[w].slot IN
  /\ At(w, "spawned")
  /\ IF sched.by[s] = w THEN Move(w, "fed") ELSE proc' = [proc EXCEPT ![w] = Idle]
  /\ UNCHANGED <<disk, sched, used>>

\* worker.json names the process and its scheduler.
NameOwner(w) ==
  /\ At(w, "fed") /\ Move(w, "named")
  /\ UNCHANGED <<disk, sched, used>>

\* mutant: a worker begins without looking for a terminal summary
BeginAnyway(w) == LET s == proc[w].slot IN
  /\ At(w, "named") /\ Move(w, "begun")
  /\ rec' = [rec EXCEPT ![s].state = "running"]
  /\ dir' = [dir EXCEPT ![s].there = TRUE]
  /\ UNCHANGED <<staging, txn, exported, svc, made, sched, used, spoiled>>

Begin(w) == LET s == proc[w].slot IN
  /\ At(w, "named")
  /\ IF Terminal(s)
     THEN Move(w, IF rec[s].state = "finished" THEN "committed" ELSE "export")
          /\ UNCHANGED <<rec, dir>>
     ELSE /\ Move(w, "begun")
          /\ rec' = [rec EXCEPT ![s].state = "running"]
          /\ dir' = [dir EXCEPT ![s].there = TRUE]
  /\ UNCHANGED <<staging, txn, exported, svc, made, sched, used, spoiled>>

\* The service is launched or reused, the attempt opened or continued.
Launch(w) == LET s == proc[w].slot IN
  /\ At(w, "begun")
  /\ proc' = [proc EXCEPT ![w].pc = "solving", ![w].native = TRUE]
  /\ svc' = [svc EXCEPT ![s] = TRUE]
  /\ IF dir[s].live # 0 THEN UNCHANGED <<dir, made>>
     ELSE /\ made' = [made EXCEPT ![s] = @ + 1]
          /\ dir' = [dir EXCEPT ![s].live = made[s] + 1]
  /\ UNCHANGED <<rec, staging, txn, exported, sched, used, spoiled>>

NativeEnds(w) ==
  /\ proc[w].native
  /\ proc' = [proc EXCEPT ![w] = IF Working(w) \/ \E s \in Slots: sched.by[s] = w
                                 THEN [@ EXCEPT !.native = FALSE] ELSE Idle]
  /\ UNCHANGED <<disk, sched, used>>

\* run_one returned or raised; a suspended session keeps its service.
Summarise(w, outcome, stop) == LET s == proc[w].slot IN
  /\ At(w, "solving") /\ ~proc[w].native
  /\ proc' = [proc EXCEPT ![w].pc = "summed", ![w].outcome = outcome, ![w].stop = stop]
  /\ svc' = [svc EXCEPT ![s] = @ /\ outcome = "suspended"]
  /\ UNCHANGED <<rec, dir, staging, txn, exported, made, sched, used, spoiled>>

\* record_summary: the runtime's summary first, then the manifest.
SaveSummary(w) == LET s == proc[w].slot IN
  /\ At(w, "summed") /\ Move(w, "saved")
  /\ dir' = [dir EXCEPT ![s].saved = proc[w].outcome, ![s].there = TRUE]
  /\ UNCHANGED <<rec, staging, txn, exported, svc, made, sched, used, spoiled>>

RecordSummary(w) == LET s == proc[w].slot IN
  /\ At(w, "saved")
  /\ rec' = [rec EXCEPT ![s] = [summary |-> TRUE, stop |-> proc[w].stop,
       state |-> IF proc[w].outcome = "finished" THEN "finalizing" ELSE "suspended"]]
  /\ IF proc[w].outcome = "finished" THEN Move(w, "export") ELSE Exits(w)
  /\ UNCHANGED <<dir, staging, txn, exported, svc, made, sched, used, spoiled>>

\* _finish_case: the service is stopped, and all attempts are exported.
Export(w) == LET s == proc[w].slot IN
  /\ At(w, "export") /\ Move(w, "exported")
  /\ svc' = [svc EXCEPT ![s] = FALSE]
  /\ exported' = [exported EXCEPT ![s] =
       ({dir[s].live} \cup {e.live: e \in dir[s].kept}) \ {0}]
  /\ rec' = [rec EXCEPT ![s].state = "finalizing", ![s].summary = TRUE]
  /\ UNCHANGED <<dir, staging, txn, made, sched, used, spoiled>>

Commit(w) == LET s == proc[w].slot IN
  /\ At(w, "exported") /\ Move(w, "committed")
  /\ rec' = [rec EXCEPT ![s].state = "finished"]
  /\ UNCHANGED <<dir, staging, txn, exported, svc, made, sched, used, spoiled>>

Clean(w) == LET s == proc[w].slot IN
  /\ At(w, "committed") /\ Exits(w)
  /\ dir' = Released(s)
  /\ svc' = [svc EXCEPT ![s] = FALSE]
  /\ UNCHANGED <<rec, staging, txn, exported, made, sched, used, spoiled>>

----------------------------------------------------------------------------
(* The collector: every recorded case, without starting anything.          *)

StartCollect ==
  /\ proc[Collector] = Idle /\ Use("collects", MaxCollects)
  /\ LET found == {s \in Slots: rec[s].state \notin {"absent", "bare"}} IN
     /\ found # {} /\ \A s \in found: Free(Task(s))
     /\ proc' = [proc EXCEPT ![Collector].pc = "pick", ![Collector].todo = found]
  /\ UNCHANGED <<disk, sched>>

\* A terminal case is finished, an unstarted one skipped, the others are
\* collected from their service.  A local one that is gone ends the collector.
Entry(s) == IF rec[s].state = "finished" THEN "committed"
            ELSE IF Terminal(s) THEN "export" ELSE "summed"
Others(s) == proc[Collector].todo \ {s}

Collect(s) ==
  /\ At(Collector, "pick") /\ First(s, proc[Collector].todo)
  /\ proc' = [proc EXCEPT ![Collector] =
       IF Terminal(s) \/ (dir[s].live # 0 /\ (Remote \/ svc[s]))
       THEN [@ EXCEPT !.pc = Entry(s), !.slot = s, !.todo = Others(s),
                      !.outcome = "finished", !.stop = FALSE]
       ELSE IF dir[s].live = 0 THEN [@ EXCEPT !.todo = Others(s)] ELSE Idle]
  /\ UNCHANGED <<disk, sched, used>>

CollectEnds ==
  /\ At(Collector, "pick") /\ proc[Collector].todo = {}
  /\ proc' = [proc EXCEPT ![Collector] = Idle]
  /\ UNCHANGED <<disk, sched, used>>

----------------------------------------------------------------------------
(* Deaths                                                                  *)

\* A signal, os._exit or a crash: workers and their CLIs go on.
SchedulerDies ==
  /\ sched.pc # "off" /\ Use("crashes", MaxCrashes)
  /\ sched' = NoSched
  /\ proc' = [w \in Procs |-> IF proc[w].pc \in {"exited", "failed"} /\ ~proc[w].native
                              THEN Idle ELSE proc[w]]
  /\ UNCHANGED disk

\* The process dies, or an exception leaves it: the CLI may go on.
ProcDies(w) ==
  /\ Working(w) /\ Use("crashes", MaxCrashes)
  /\ proc' = [proc EXCEPT ![w] = Gone(w, "failed")]
  /\ UNCHANGED <<disk, sched>>

ServiceDies(s) ==
  /\ svc[s] /\ Use("crashes", MaxCrashes)
  /\ svc' = [svc EXCEPT ![s] = FALSE]
  /\ UNCHANGED <<rec, dir, staging, txn, exported, made, proc, sched, spoiled>>

\* stop_batch: the running scheduler, named workers with their trees, services.
StopBatch ==
  /\ Use("crashes", MaxCrashes)
  /\ sched' = NoSched
  /\ proc' = [w \in Procs |->
       IF Named(w, proc[w].slot) \/ (proc[w].pc \in {"exited", "failed"} /\ ~proc[w].native)
       THEN Idle ELSE proc[w]]
  /\ svc' = [s \in Slots |-> Remote /\ svc[s]]
  /\ UNCHANGED <<rec, dir, staging, txn, exported, made, spoiled>>

----------------------------------------------------------------------------
Returns ==
  \E s \in Slots: WorkerReturns(s) \/ ObserverReturns(s) \/ WorkerRaises(s)

SchedulerStep ==
  \/ \E t \in {Task(s): s \in Slots}: AdmitTask(t) \/ Refuse(t)
  \/ Admitted \/ Initialized \/ \E s \in Slots: InitializeNew(s)
  \/ ReplaceJournals \/ ReplaceStages \/ ReplaceMoves \/ ReplacePlaces
  \/ ReplaceRenews \/ ReplaceUnlinks
  \/ Skip \/ Peek \/ Defer \/ TakeLease \/ Block \/ Ended
  \/ \E w \in Workers: Dispatch(w)

ProcStep(w) ==
  \/ Feed(w) \/ NameOwner(w) \/ Begin(w) \/ Launch(w)
  \/ \E o \in {"finished", "suspended"}, stop \in BOOLEAN: Summarise(w, o, stop)
  \/ SaveSummary(w) \/ RecordSummary(w) \/ Export(w) \/ Commit(w) \/ Clean(w)

CollectorStep == CollectEnds \/ \E s \in Slots: Collect(s)

\* A session to be collected is settled, and its evaluation waited for, first.
Awaits(s) ==
  /\ At(Collector, "pick") /\ First(s, proc[Collector].todo)
  /\ ~Terminal(s) /\ dir[s].live # 0 /\ (Remote \/ svc[s])

\* What no deadline need end: a CLI, which a null command limit leaves unbounded
\* and the death of its worker leaves running, and a session that is settled
\* and evaluated.
Endless(w) ==
  \/ proc[w].native \/ At(w, "solving")
  \/ w = Collector /\ \E s \in Slots: Awaits(s)

Next ==
  \/ \E mode \in {"fresh", "resume", "replace"}: Start(mode)
  \/ SchedulerStep \/ Returns
  \/ \E w \in Procs: ProcStep(w) \/ NativeEnds(w) \/ ProcDies(w)
  \/ StartCollect \/ CollectorStep
  \/ SchedulerDies \/ StopBatch
  \/ \E s \in Slots: ServiceDies(s)

\* Threads and processes that can step do, as long as they wait for no CLI and
\* no session.  Nobody has to start anything.
Fairness ==
  /\ WF_vars(SchedulerStep) /\ WF_vars(Returns)
  /\ WF_vars(CollectorStep /\ ~Endless(Collector))
  /\ \A w \in Procs: WF_vars(ProcStep(w) /\ ~Endless(w))

Spec == Init /\ [][Next]_vars /\ Fairness

----------------------------------------------------------------------------
(* Properties                                                              *)

States == {"absent", "bare", "pending", "running", "finalizing",
           "suspended", "blocked", "finished"}
DirType(d) ==
  /\ d.there \in BOOLEAN /\ d.saved \in {"none", "finished", "suspended"}
  /\ d.live \in Nat /\ d.kept \subseteq [name: Nat, live: Nat]

\* The variables keep their types.
TypeOK ==
  /\ rec \in [Slots -> [state: States, summary: BOOLEAN, stop: BOOLEAN]]
  /\ \A s \in Slots: DirType(dir[s]) /\ DirType(staging[s]) /\ exported[s] \subseteq Nat
  /\ txn \in [Slots -> [name: Nat, prev: States \cup {"none"}]]
  /\ svc \in [Slots -> BOOLEAN] /\ made \in [Slots -> Nat]
  /\ \A w \in Procs: proc[w].slot \in Slots /\ proc[w].todo \subseteq Slots
  /\ ToSet(sched.queue) \subseteq Slots /\ sched.watched \subseteq Slots
  /\ sched.by \in [Slots -> Workers \cup {0}]

\* The lease that workers and CLIs inherit leaves each case one owner: no two
\* processes work on one slot, dead schedulers and dead workers included, and
\* a slot is replaced, created or blocked only while nobody works on its task.
WorksOn(w) == IF w = Collector THEN Working(w) /\ ~At(w, "pick")
              ELSE Working(w) \/ proc[w].native
OneOwner ==
  /\ \A v, w \in Procs: v # w /\ WorksOn(v) /\ WorksOn(w) => proc[v].slot # proc[w].slot
  /\ sched.pc \in {"journal", "stage", "move", "renew", "unlink", "ours"} =>
       \A w \in Procs: WorksOn(w) => Task(proc[w].slot) \notin sched.owned \/ sched.by[proc[w].slot] = w

\* No attempt is lost: each one that ever started is in the runtime, in the
\* half moved directory, among the replaced ones or in the verified export.
Held(d) == {d.live} \cup {e.live: e \in d.kept}
EvidenceKept == \A s \in Slots \ spoiled:
  1..made[s] \subseteq Held(dir[s]) \cup Held(staging[s]) \cup exported[s]

\* A finished case stays finished.  The one exception is a slot whose record
\* was read before its lease was free and that is then blocked.
FinishedStays == [][\A s \in Slots:
  rec[s].state = "finished" /\ rec'[s].state # "finished" => s \in spoiled']_vars

\* Every scheduler ends, however many orphans it has to adopt or wait for,
\* unless some CLI runs, or some session stays unsettled, for ever.
BatchEnds ==
  (\A w \in Procs: []<>~Endless(w)) => (sched.pc # "off" ~> sched.pc = "off")

\* "Finished cases cannot be replaced" (docs/running.md:907).
FinishedNotReplaced == [][\A s \in Slots:
  rec[s].state = "finished" => rec'[s].state # "pending"]_vars
=============================================================================
