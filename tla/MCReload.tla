------------------------------ MODULE MCReload ------------------------------
(* Small instances of Reload: depths, guests, Probe and NoDepth are model    *)
(* values.                                                                   *)
EXTENDS Reload

CONSTANTS b8, b12

ThreeRuns == <<b8, b12, b8>>
TwoRuns   == <<b8, b12>>
AllFaults == FaultKinds
=============================================================================
