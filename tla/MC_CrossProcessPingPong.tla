---------------------- MODULE MC_CrossProcessPingPong -----------------------
(* The environments of the run of CrossProcessPingPong: nothing fails, the *)
(* child dies but every call works, everything but failing calls, all.     *)
EXTENDS CrossProcessPingPong

Environments ==
  {{}, {"timeout", "kill"}, FaultKinds \ {"call error"}, FaultKinds}
=============================================================================
