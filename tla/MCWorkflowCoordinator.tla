----------------------- MODULE MCWorkflowCoordinator -----------------------
(***************************************************************************)
(* Model checking of WorkflowCoordinator with its clients: every graph of  *)
(* NumSteps steps is an initial state, so the constants are numbers and a  *)
(* cfg gives them.                                                         *)
(***************************************************************************)
EXTENDS WorkflowApi
=============================================================================
