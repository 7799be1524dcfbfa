------------------------------ MODULE MCSession ------------------------------
(* Two clients, so that one waits for the server to be done with the other.  *)
EXTENDS Session

CONSTANTS c1, c2

MCClient == {c1, c2}
=============================================================================
