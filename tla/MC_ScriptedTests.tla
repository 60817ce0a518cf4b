-------------------------- MODULE MC_ScriptedTests --------------------------
(* What the run of ScriptedTests considers: every test on every driver,    *)
(* calls that fail, hasty time-outs, and with the conforming drivers the   *)
(* time-outs at the end of the range of a DWORD, here 0 .. 9.              *)
EXTENDS ScriptedTests

Considered ==
  [test : Test, driver : Conforming \cup Deviation, timeout : {3},
   prompt : BOOLEAN, callsFail : BOOLEAN]
  \cup [test : Test, driver : Conforming, timeout : {0, 8, MaxDword},
        prompt : {TRUE}, callsFail : {FALSE}]
=============================================================================
