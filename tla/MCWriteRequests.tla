--------------------------- MODULE MCWriteRequests ---------------------------
(* A small instance of WriteRequests for TLC. *)
EXTENDS WriteRequests

CONSTANTS e1, e2, x, y

MCEnv == {e1, e2}
MCKey == {x, y}
=============================================================================
