------------------------ MODULE MC_ReverseOrderLocks ------------------------
(* The environments of the run of ReverseOrderLocks: every subset of the   *)
(* faults, so that the run covers every value of its one constant.  The    *)
(* other run takes the driver that never fails.                            *)
EXTENDS ReverseOrderLocks

NoFaults == {}
Healthy == {NoFaults}
Environments == SUBSET FaultKinds
=============================================================================
