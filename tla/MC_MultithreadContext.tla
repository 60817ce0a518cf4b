----------------------- MODULE MC_MultithreadContext ------------------------
(* The constants of the run of MultithreadContext: two workers, protected  *)
(* and unprotected, without faults and with each of them.  The counter     *)
(* wraps at 4, which two workers reach in two iterations.                  *)
EXTENDS MultithreadContext

CONSTANTS w1, w2

TwoWorkers == {w1, w2}
Considered ==
  [protected : BOOLEAN, faults : {{}, {"exception"}, FaultKinds}]
=============================================================================
