---------------------------- MODULE MC_PingPong -----------------------------
(* The scenarios of the run of PingPong: experiment 01, which flushes and  *)
(* fails on a mismatch, and 08 and 13, which count the mismatches with and *)
(* without Flush; each with a driver that never fails, with failures that  *)
(* leave a wait to its timeout, and with every failure.                    *)
EXTENDS PingPong

NoFaults == {}
Timeouts == FaultKinds \ {"acquire error"}

AllScenarios ==
  {s \in [flushes : BOOLEAN, mismatchFails : BOOLEAN,
          faults : {NoFaults, Timeouts, FaultKinds}] :
     s.mismatchFails => s.flushes}
=============================================================================
