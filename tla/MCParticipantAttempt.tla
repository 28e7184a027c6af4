------------------------- MODULE MCParticipantAttempt -------------------------
(* Settings of two batches: with continuation and deadlines on a           *)
(* recoverable service, and with neither.                                  *)
EXTENDS ParticipantAttempt

MCConfigs == {[resume |-> TRUE, recoverable |-> TRUE, bounded |-> TRUE],
              [resume |-> FALSE, recoverable |-> FALSE, bounded |-> FALSE]}

MCResumes == [capacity |-> 1, network |-> 0]
=============================================================================
