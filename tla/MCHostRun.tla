------------------------------ MODULE MCHostRun ------------------------------
(* Small instances of HostRun: NoLine, NoBeat and NoFile are model values.   *)
EXTENDS HostRun

AllFaults     == FaultKinds
AllHostFaults == {"write", "patience"}
=============================================================================
