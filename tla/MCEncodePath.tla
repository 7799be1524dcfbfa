---------------------------- MODULE MCEncodePath ----------------------------
(* Small instances of EncodePath: sizes, bounds and faults come from the     *)
(* configurations; NoLine and NoBeat are model values.                       *)
EXTENDS EncodePath

AllFaults == FaultKinds
NoFaults  == {}
=============================================================================
