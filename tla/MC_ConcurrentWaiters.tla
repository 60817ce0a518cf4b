------------------------ MODULE MC_ConcurrentWaiters ------------------------
(* The environments of the run of ConcurrentWaiters:                       *)
(* a driver that never fails, failures that leave the waits to their       *)
(* timeouts, and every failure.                                            *)
EXTENDS ConcurrentWaiters

NoFaults == {}
Timeouts == FaultKinds \ {"acquire error"}
AllFaults == FaultKinds
Healthy == {NoFaults}
Environments == {NoFaults, Timeouts, AllFaults}
=============================================================================
