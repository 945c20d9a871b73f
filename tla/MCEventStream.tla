--------------------------- MODULE MCEventStream ---------------------------
(***************************************************************************)
(* Model checking of EventStream.  Ids are numbers, so nothing is          *)
(* symmetric and a cfg gives every constant.                               *)
(***************************************************************************)
EXTENDS EventStream
=============================================================================
