----------------------------- MODULE MCReadyGate -----------------------------
(* A small instance of ReadyGate: four draw values, a sequence of three     *)
(* draws in which every threshold of the set opens the gate on a different  *)
(* set of cycles.                                                           *)
EXTENDS ReadyGate, TLC

MCDraws == (0 :> 2) @@ (1 :> 0) @@ (2 :> 3)
=============================================================================
