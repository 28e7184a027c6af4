-------------------------- MODULE MCBatchScheduler --------------------------
(* One task with two repetitions, which share its lease.                   *)
EXTENDS BatchScheduler
MCSchedule == <<<<"t", 1>>, <<"t", 2>>>>
MCOneSlot == <<<<"t", 1>>>>
MCPasts == {0, 2}
MCNew == {0}
MCWorkers == {1, 2, 3}
=============================================================================
