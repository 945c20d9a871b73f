--------------------------- MODULE MCDispatcher ---------------------------
(***************************************************************************)
(* Values for the constants of Dispatcher that a cfg cannot write, for the *)
(* dispatcher together with its queue view and its clients.                *)
(***************************************************************************)
EXTENDS TaskApi

CONSTANTS s1, s2

TwoSessions == {s1, s2}
OneSession == {s1}

SessionSymmetry == Permutations({s1, s2})
=============================================================================
