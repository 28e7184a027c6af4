------------------------------ MODULE AppendLog ------------------------------
(***************************************************************************)
(* What run evidence promises whoever reads it: a log that only ever grows *)
(* at its end, one numbered entry at a time, until it is sealed, and that  *)
(* does not change after that.                                             *)
(***************************************************************************)
EXTENDS Naturals, Sequences

VARIABLES log,    \* entries, each with its number in the field `sequence'
          sealed

content == <<log, sealed>>

Init == log = <<>> /\ sealed = FALSE

\* One entry, numbered by its place.
Extend ==
  /\ ~sealed
  /\ Len(log') = Len(log) + 1
  /\ \A i \in 1 .. Len(log) : log'[i] = log[i]
  /\ log'[Len(log')].sequence = Len(log')
  /\ UNCHANGED sealed

Seal == sealed' = TRUE /\ UNCHANGED log

Next == Extend \/ Seal

Spec == Init /\ [][Next]_content
=============================================================================
