------------------------- MODULE MultithreadContext -------------------------
(***************************************************************************)
(* Experiment 09: several workers share one immediate context, each of     *)
(* them writing its own texture frame by frame (UpdateSubresource, Flush). *)
(* With SetMultithreadProtected(TRUE) the context lets one call in at a    *)
(* time; without it the calls overlap, and what an overlapped write leaves *)
(* in a texture is undefined.  One test asserts that the protected run is  *)
(* sound, the other only observes the unprotected one.                     *)
(***************************************************************************)
EXTENDS Integers, FiniteSets

CONSTANTS
  Workers,      \* options.workers threads
  Iterations,   \* options.iterations
  DwordSize,    \* completed and workers * iterations are 32-bit numbers
  Settings      \* protected or not, and what may fail

ASSUME WorkersAssumption == IsFiniteSet(Workers) /\ Workers # {}
ASSUME IterationsAssumption == Iterations \in Nat \ {0}
ASSUME DwordSizeAssumption == DwordSize \in Nat \ {0}

FaultKinds == {"exception", "map error", "create error"}
ASSUME SettingsAssumption ==
  Settings \subseteq [protected : BOOLEAN, faults : SUBSET FaultKinds]

VARIABLES
  setting,      \* what runs; it never changes
  pc,           \* where each worker is
  iteration,    \* its loop counter
  overlapped,   \* workers whose call in progress ran beside another one
  texture,      \* the frame each texture holds, or Damaged
  completed,    \* the atomic counter
  failed,       \* FailureState::failed
  main,         \* where the test is, at the end its verdict
  mismatched    \* textures found not to hold the last frame

vars == <<setting, pc, iteration, overlapped, texture, completed, failed,
          main, mismatched>>
observation == <<main, mismatched>>

Damaged == -2
Blank == -1
InCall == {"updating", "flushing"}
Callers == {w \in Workers : pc[w] \in InCall}
LastFrame == Iterations - 1

\* MakeFrame: each worker has a texture of its own, so the iteration will do.
Frame(w) == iteration[w]
Verdict == {"pass", "fail"}

Init ==
  /\ setting \in Settings
  /\ pc = [w \in Workers |-> "start"]
  /\ iteration = [w \in Workers |-> 0]
  /\ overlapped = {}
  /\ texture = [w \in Workers |-> Blank]
  /\ completed = 0
  /\ failed = FALSE
  /\ main = "join"
  /\ mismatched = {}

-----------------------------------------------------------------------------
(* A worker.                                                               *)

Goto(w, label) == pc' = [pc EXCEPT ![w] = label]

\* startGate.arrive_and_wait(): the last one to arrive opens the gate.
Arrive(w) ==
  /\ pc[w] = "start"
  /\ pc' = IF \A v \in Workers \ {w} : pc[v] = "gate"
           THEN [v \in Workers |-> "loop"] ELSE [pc EXCEPT ![w] = "gate"]
  /\ UNCHANGED <<setting, iteration, overlapped, texture, completed, failed,
                 observation>>

EnterLoop(w) ==
  /\ pc[w] = "loop"
  /\ Goto(w, IF iteration[w] < Iterations /\ ~failed THEN "frame" ELSE "done")
  /\ UNCHANGED <<setting, iteration, overlapped, texture, completed, failed,
                 observation>>

\* Mutant of BeginCall: the context is never protected.
BeginCallUnprotected(w, from, to) ==
  /\ pc[w] = from
  /\ Goto(w, to)
  /\ overlapped' = overlapped
       \cup (IF Callers = {} THEN {} ELSE Callers \cup {w})
  /\ UNCHANGED <<setting, iteration, texture, completed, failed, observation>>

\* A call enters the context, alone if it is protected.
BeginCall(w, from, to) ==
  /\ pc[w] = from
  /\ setting.protected => Callers = {}
  /\ Goto(w, to)
  /\ overlapped' = overlapped
       \cup (IF Callers = {} THEN {} ELSE Callers \cup {w})
  /\ UNCHANGED <<setting, iteration, texture, completed, failed, observation>>

\* MakeFrame, then UpdateSubresource.
BeginUpdate(w) == BeginCall(w, "frame", "updating")

EndUpdate(w) ==
  /\ pc[w] = "updating"
  /\ \/ texture' = [texture EXCEPT ![w] = Frame(w)]
     \/ /\ w \in overlapped
        /\ \E found \in {texture[w], Damaged} :
             texture' = [texture EXCEPT ![w] = found]
  /\ Goto(w, "flush")
  /\ overlapped' = overlapped \ {w}
  /\ UNCHANGED <<setting, iteration, completed, failed, observation>>

BeginFlush(w) == BeginCall(w, "flush", "flushing")

\* An overlapped Flush may still damage what was queued.
EndFlush(w) ==
  /\ pc[w] = "flushing"
  /\ \/ UNCHANGED texture
     \/ w \in overlapped /\ texture' = [texture EXCEPT ![w] = Damaged]
  /\ Goto(w, "count")
  /\ overlapped' = overlapped \ {w}
  /\ UNCHANGED <<setting, iteration, completed, failed, observation>>

\* Mutant of Count: a load and a store instead of fetch_add; the second worker
\* to store loses the other's count.
CountSometimesLost(w) ==
  /\ pc[w] = "count"
  /\ completed' \in {completed, (completed + 1) % DwordSize}
  /\ iteration' = [iteration EXCEPT ![w] = @ + 1]
  /\ Goto(w, "loop")
  /\ UNCHANGED <<setting, overlapped, texture, failed, observation>>

\* completed.fetch_add(1)
Count(w) ==
  /\ pc[w] = "count"
  /\ completed' = (completed + 1) % DwordSize
  /\ iteration' = [iteration EXCEPT ![w] = @ + 1]
  /\ Goto(w, "loop")
  /\ UNCHANGED <<setting, overlapped, texture, failed, observation>>

\* MakeFrame runs out of memory; the worker records it and ends.
Catch(w) ==
  /\ pc[w] = "frame"
  /\ "exception" \in setting.faults
  /\ failed' = TRUE
  /\ Goto(w, "done")
  /\ UNCHANGED <<setting, iteration, overlapped, texture, completed,
                 observation>>

WorkerStep(w) ==
  \/ Arrive(w) \/ EnterLoop(w) \/ BeginUpdate(w) \/ EndUpdate(w)
  \/ BeginFlush(w) \/ EndFlush(w) \/ Count(w) \/ Catch(w)

-----------------------------------------------------------------------------
(* The test.                                                               *)

\* The workers are joined; a recorded failure ends the observation.
Join ==
  /\ main = "join"
  /\ \A w \in Workers : pc[w] = "done"
  /\ main' = IF failed THEN "report" ELSE "validate"
  /\ UNCHANGED <<setting, pc, iteration, overlapped, texture, completed,
                 failed, mismatched>>

\* Every texture is copied, mapped and compared with its worker's last frame; a
\* Map that fails counts as a mismatch.
HoldsLastFrame(w) == texture[w] = LastFrame

Validate ==
  /\ main = "validate"
  /\ \E unmapped \in SUBSET Workers :
       /\ unmapped = {} \/ "map error" \in setting.faults
       /\ mismatched' = unmapped \cup {w \in Workers : ~HoldsLastFrame(w)}
  /\ main' = "report"
  /\ UNCHANGED <<setting, pc, iteration, overlapped, texture, completed,
                 failed>>

\* CreateTexture2D(staging) throws.
CreateFails ==
  /\ main = "validate"
  /\ "create error" \in setting.faults
  /\ main' = "fail"
  /\ UNCHANGED <<setting, pc, iteration, overlapped, texture, completed,
                 failed, mismatched>>

\* Mutant of BaselineHolds: the failure record is printed, not asserted on.
CountsHold ==
  /\ completed = (Cardinality(Workers) * Iterations) % DwordSize
  /\ mismatched = {}

\* RunProtectedBaseline asserts; both sides of the comparison wrap.
BaselineHolds ==
  /\ ~failed
  /\ completed = (Cardinality(Workers) * Iterations) % DwordSize
  /\ mismatched = {}

\* RunUnprotectedObservation only prints.
Report ==
  /\ main = "report"
  /\ main' = IF ~setting.protected \/ BaselineHolds THEN "pass" ELSE "fail"
  /\ UNCHANGED <<setting, pc, iteration, overlapped, texture, completed,
                 failed, mismatched>>

MainStep == Join \/ Validate \/ CreateFails \/ Report

Finished == main \in Verdict /\ UNCHANGED vars

Next == (\E w \in Workers : WorkerStep(w)) \/ MainStep \/ Finished

Spec == Init /\ [][Next]_vars

\* Every thread is scheduled.
FairSpec ==
  Spec /\ WF_vars(MainStep) /\ \A w \in Workers : WF_vars(WorkerStep(w))

-----------------------------------------------------------------------------
(* Properties.                                                             *)

\* The types of the state.
TypeOK ==
  /\ setting \in Settings
  /\ pc \in [Workers -> {"start", "gate", "loop", "frame", "flush", "count",
                         "done"} \cup InCall]
  /\ iteration \in [Workers -> 0 .. Iterations]
  /\ overlapped \subseteq Callers
  /\ texture \in [Workers -> {Damaged, Blank} \cup 0 .. LastFrame]
  /\ completed \in 0 .. (DwordSize - 1)
  /\ failed \in BOOLEAN
  /\ main \in {"join", "validate", "report"} \cup Verdict
  /\ mismatched \subseteq Workers

\* With a protected context a texture found wrong is a Map that failed: however
\* the workers interleave, none of them loses or damages another one's frame.
MismatchHasCause ==
  setting.protected /\ mismatched # {} => "map error" \in setting.faults

\* When the baseline passes, every worker did all its frames and its texture
\* holds the last one, although the counter may have wrapped.
PassMeansIntact ==
  setting.protected /\ main = "pass" =>
    \A w \in Workers : iteration[w] = Iterations /\ texture[w] = LastFrame

\* Both tests end; the baseline passes when nothing fails, the observation
\* whatever its textures hold.
AlwaysEnds ==
  /\ <>(main \in Verdict)
  /\ setting.faults = {} => <>(main = "pass")
=============================================================================
