------------------------- MODULE MC_SameOrderLocks --------------------------
(* The environments of the run of SameOrderLocks:                          *)
(* a driver that never fails, failures that leave the waits to their       *)
(* timeouts, and every failure.                                            *)
EXTENDS SameOrderLocks

NoFaults == {}
Timeouts == FaultKinds \ {"acquire error"}
AllFaults == FaultKinds
Environments == {NoFaults, Timeouts, AllFaults}
Acquisitions == {{"acquire error"}}
=============================================================================
