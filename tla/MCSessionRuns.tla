-------------------------- MODULE MCSessionRuns --------------------------
(***************************************************************************)
(* Model checking of SessionRuns: two tasks and a message of one session.  *)
(***************************************************************************)
EXTENDS SessionRuns, TLC

CONSTANTS t1, t2, m1

TwoTasks == {t1, t2}
OneMessage == {m1}

RunSymmetry == Permutations(TwoTasks)
=============================================================================
