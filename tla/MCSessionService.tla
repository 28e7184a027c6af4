--------------------------- MODULE MCSessionService ---------------------------
(* One session with one or two commands, a write and a submission.           *)
EXTENDS SessionService

CONSTANTS w1, s1, e1, e2

MCWrites == {w1}
MCSubmits == {s1}
MCExecs == {e1, e2}
MCOneExec == {e1}
MCNone == {}
=============================================================================
