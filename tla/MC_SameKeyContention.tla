------------------------ MODULE MC_SameKeyContention ------------------------
(* The environments of the run of SameKeyContention:                       *)
(* a driver that never fails, failures that leave the waits to their       *)
(* timeouts, and every failure.                                            *)
EXTENDS SameKeyContention, Functions

NoFaults == {}
Timeouts == FaultKinds \ {"acquire error"}
AllFaults == FaultKinds
Environments == {NoFaults, Timeouts, AllFaults}

\* Counting the wins one by one is adding up the counters.
ASSUME TotalIsTheSum ==
  \A counts \in [Contender -> 0 .. Rounds] :
    Total(counts) = FoldFunction(+, 0, counts)
=============================================================================
