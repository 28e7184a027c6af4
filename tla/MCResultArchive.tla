--------------------------- MODULE MCResultArchive ---------------------------
(* A behaviour is about a nested archive and its parent, or about an export   *)
(* and its importers, the nested archive having been compacted before.        *)
EXTENDS ResultArchive, TLC

CONSTANTS gds, trace, wave, log, candidate, text, samples,
          first, again, other, run, eval1, eval2, id1, id2

MCFiles == {gds, trace, wave, log}
MCOriginal == [f \in MCFiles |-> CASE f = gds -> candidate [] f = trace -> text
                                   [] f \in {wave, log} -> samples]
MCSources == {first, again, other}
MCRunOf == [s \in MCSources |-> run]
MCEvaluationOf == [s \in MCSources |-> IF s = again THEN eval2 ELSE eval1]
MCIdentityOf == [s \in MCSources |-> IF s = other THEN id2 ELSE id1]

Symmetry == Permutations(Importers)

VARIABLE scope

Compacted ==
  /\ present = Files \ Nested /\ bytes = Original
  /\ pool = {samples} /\ rotten = {}
  /\ linked = [a \in Archives |-> IF a = "inner" THEN pool ELSE {}]
  /\ manifest = [a \in Archives |-> IF a = "inner"
       THEN [EmptyManifest EXCEPT !.files[wave] = samples, !.files[log] = samples]
       ELSE EmptyManifest]
  /\ compaction = [a \in Archives |-> Idle]
  /\ sealed = {"inner"} /\ unpinned = FALSE
  /\ http = FALSE /\ observed = TRUE
  /\ faults = 0

\* "nested": compactions with faults; "beside": imports while the export is
\* compacted; "damaged": imports of an export that is damaged between them.
Init ==
  /\ scope \in {"nested", "beside", "damaged"}
  /\ IF scope = "nested" THEN RetentionInit ELSE Compacted
  /\ ArchiveInit

Compacts ==
  /\ RetentionNext
  /\ scope # "nested" => compaction'["inner"] = Idle
  /\ scope = "beside" => faults' = 0
  /\ scope = "damaged" => compaction'["outer"] = Idle
  /\ UNCHANGED archiveVars

Imports ==
  /\ scope # "nested"
  /\ ArchiveNext
  /\ scope = "beside" => \A p \in Importers : importer'[p].source # other
  /\ UNCHANGED retentionVars

Next == (Compacts \/ Imports) /\ UNCHANGED scope

Spec == Init /\ [][Next]_<<vars, scope>>
=============================================================================
