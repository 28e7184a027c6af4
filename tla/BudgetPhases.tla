---------------------------- MODULE BudgetPhases ----------------------------
(***************************************************************************)
(* What a session budget promises its callers, with no clock in it: the    *)
(* phase only moves forward along solving, draining, settling, expired; an *)
(* operation starts only while solving and only when none is active; and a *)
(* session drains only for an operation that was already active.           *)
(*                                                                         *)
(* SessionBudget implements this with deadlines; SessionService relies on  *)
(* it without looking at a clock.                                          *)
(***************************************************************************)
EXTENDS Naturals

VARIABLES phase,    \* the phase a caller observes
          active    \* an operation holds the budget

ladder == <<phase, active>>

Phases == {"solving", "draining", "settling", "expired"}

Rank == [p \in Phases |->
           CASE p = "solving"  -> 0
             [] p = "draining" -> 1
             [] p = "settling" -> 2
             [] p = "expired"  -> 3]

Init == phase = "solving" /\ active = FALSE

\* An operation begins; the clock may pass the solve deadline meanwhile.
Begin ==
  /\ phase = "solving" /\ ~active
  /\ active'
  /\ phase' \in Phases /\ Rank[phase'] >= Rank[phase]

\* The operation ends; a drained session goes on to settle.
End ==
  /\ active
  /\ active' = FALSE
  /\ phase' \in Phases \ {"draining"} /\ Rank[phase'] >= Rank[phase]

\* Time passes.
Advance ==
  /\ phase' \in Phases /\ Rank[phase'] > Rank[phase]
  /\ phase' = "draining" => active
  /\ UNCHANGED active

Next == Begin \/ End \/ Advance

Spec == Init /\ [][Next]_ladder
=============================================================================
