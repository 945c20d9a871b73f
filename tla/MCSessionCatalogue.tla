------------------------- MODULE MCSessionCatalogue -------------------------
(* Constant values for the run of SessionCatalogue, with its clients.      *)
EXTENDS SessionApi

CONSTANTS s1, w1, k1, v1

MCSessions == {s1}
MCWorkflows == {w1}
MCKeys == {k1}
MCValues == {v1}

=============================================================================
