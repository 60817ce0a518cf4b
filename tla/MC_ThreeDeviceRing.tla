------------------------- MODULE MC_ThreeDeviceRing -------------------------
(* The environments of the run of ThreeDeviceRing:                         *)
(* a driver that never fails, failures that leave the waits to their       *)
(* timeouts, and every failure.                                            *)
EXTENDS ThreeDeviceRing

NoFaults == {}
Timeouts == FaultKinds \ {"acquire error"}
AllFaults == FaultKinds
Environments == {NoFaults, Timeouts, AllFaults}
=============================================================================
