-------------------------- MODULE ThreeDeviceRing ---------------------------
(***************************************************************************)
(* The key ring of experiment 03.  Stage s of N (three in the experiment:  *)
(* devices A, B and C) has its own device and thread and runs RunStage:    *)
(*                                                                         *)
(*   AcquireSync(s), validate what stage s-1 wrote, write and flush its    *)
(*   own signature, ReleaseSync(s+1 modulo N)                              *)
(*                                                                         *)
(* once per frame.  After its loop stage 0 takes one more turn, validates  *)
(* the last signature of the last stage, and leaves the key at 0.          *)
(*                                                                         *)
(* The shared flag failure.failed is read twice in a turn, before the      *)
(* validation and before the write, and any stage may set it between the   *)
(* two, since a stage that times out does so while another owns the mutex. *)
(***************************************************************************)
EXTENDS Integers, KeyedMutex

CONSTANTS
  N,            \* stages in the ring
  Iterations,   \* options.iterations
  FaultSets     \* the environments to consider, each a subset of FaultKinds

FaultKinds == {"timeout", "acquire error", "release error", "exception",
               "map error"}

ASSUME NAssumption == N \in Nat /\ N >= 2
ASSUME IterationsAssumption == Iterations \in Nat \ {0}
ASSUME FaultSetsAssumption == FaultSets \subseteq SUBSET FaultKinds

VARIABLES
  faults,    \* what the environment may do wrong; it never changes
  mutex,     \* the keyed mutex of the shared texture
  pc,        \* where each stage is
  frame,     \* the loop counter of each stage
  failed,    \* failure.failed
  texture,   \* the signature the shared texture holds
  verdict    \* "running" until the three threads are joined

vars == <<faults, mutex, pc, frame, failed, texture, verdict>>

Stage == 0 .. (N - 1)
\* Mutant of Successor (mutants stand before the definition they replace):
\* no modulo.
SuccessorUnwrapped(s) == s + 1

Successor(s) == IF s = N - 1 THEN 0 ELSE s + 1
Predecessor(s) == IF s = 0 THEN N - 1 ELSE s - 1

\* MakeSignature: the pixels differ for any two different frames or stages.
Signature(f, s) == [frame |-> f, stage |-> s]
Blank == [frame |-> -1, stage |-> -1]

Init ==
  /\ faults \in FaultSets
  /\ mutex = FreshMutex
  /\ pc = [s \in Stage |-> "gate"]
  /\ frame = [s \in Stage |-> 0]
  /\ failed = FALSE
  /\ texture = Blank
  /\ verdict = "running"

Goto(s, label) == pc' = [pc EXCEPT ![s] = label]

\* Where a stage goes when RunStage returns, early or not: device A still
\* takes its final turn.
AfterStage(s) == IF s = 0 THEN "final acquire" ELSE "done"

-----------------------------------------------------------------------------
\* startGate.arrive_and_wait()
StartTogether ==
  /\ \A s \in Stage : pc[s] = "gate"
  /\ pc' = [s \in Stage |-> "loop"]
  /\ UNCHANGED <<faults, mutex, frame, failed, texture, verdict>>

\* Mutant of EnterTurn: <= in the loop condition.
EnterTurnOnceMore(s) ==
  /\ pc[s] = "loop" /\ frame[s] <= Iterations
  /\ Goto(s, "acquire")
  /\ UNCHANGED <<faults, mutex, frame, failed, texture, verdict>>

EnterTurn(s) ==
  /\ pc[s] = "loop" /\ frame[s] < Iterations
  /\ Goto(s, "acquire")
  /\ UNCHANGED <<faults, mutex, frame, failed, texture, verdict>>

LeaveLoop(s) ==
  /\ pc[s] = "loop" /\ frame[s] >= Iterations
  /\ Goto(s, AfterStage(s))
  /\ UNCHANGED <<faults, mutex, frame, failed, texture, verdict>>

AcquireSucceeds(s) ==
  /\ \/ pc[s] = "acquire" /\ Goto(s, "check")
     \/ pc[s] = "final acquire" /\ Goto(s, "final check")
  /\ CanAcquire(mutex, s)
  /\ mutex' = AcquiredBy(mutex, s)
  /\ UNCHANGED <<faults, frame, failed, texture, verdict>>

\* Mutants of AcquireFails: the stage leaves without a word; it waits again.
AcquireFailsSilently(s) ==
  /\ \/ pc[s] = "acquire" /\ Goto(s, AfterStage(s))
     \/ pc[s] = "final acquire" /\ Goto(s, "done")
  /\ "timeout" \in faults /\ ~CanAcquire(mutex, s)
  /\ UNCHANGED <<faults, mutex, frame, failed, texture, verdict>>

AcquireFailsAndRetries(s) ==
  /\ pc[s] \in {"acquire", "final acquire"}
  /\ "timeout" \in faults /\ ~CanAcquire(mutex, s)
  /\ UNCHANGED vars

\* WAIT_TIMEOUT or another result that is not S_OK.  An interface that still
\* owns the mutex, because its ReleaseSync failed, cannot acquire it again.
AcquireFails(s) ==
  /\ \/ pc[s] = "acquire" /\ Goto(s, AfterStage(s))
     \/ pc[s] = "final acquire" /\ Goto(s, "done")
  /\ \/ "timeout" \in faults /\ ~CanAcquire(mutex, s)
     \/ "acquire error" \in faults
  /\ failed' = TRUE
  /\ UNCHANGED <<faults, mutex, frame, texture, verdict>>

\* Mutant of Check: the flag is not read.
CheckUnconditionally(s) ==
  /\ \/ pc[s] = "check" /\ Goto(s, IF s = 0 /\ frame[s] = 0 THEN "decide"
                                   ELSE "validate")
     \/ pc[s] = "final check" /\ Goto(s, "final validate")
  /\ UNCHANGED <<faults, mutex, frame, failed, texture, verdict>>

\* The first read of failure.failed; the very first frame of stage 0 has no
\* input to validate.
Check(s) ==
  /\ \/ /\ pc[s] = "check"
        /\ Goto(s, IF ~failed /\ (s = 0 => frame[s] # 0)
                   THEN "validate" ELSE "decide")
     \/ /\ pc[s] = "final check"
        /\ Goto(s, IF failed THEN "final release" ELSE "final validate")
  /\ UNCHANGED <<faults, mutex, frame, failed, texture, verdict>>

\* What ValidateSignature compares the texture with.
Expected(s) ==
  IF pc[s] = "final validate" THEN Signature(Iterations - 1, N - 1)
  ELSE Signature(IF s = 0 THEN frame[s] - 1 ELSE frame[s], Predecessor(s))

\* The validation passes; or Map fails or the texture holds something else,
\* which fails the test but does not end the turn.
Validate(s) ==
  /\ \/ pc[s] = "validate" /\ Goto(s, "decide")
     \/ pc[s] = "final validate" /\ Goto(s, "final release")
  /\ \/ texture = Expected(s) /\ UNCHANGED failed
     \/ (texture # Expected(s) \/ "map error" \in faults) /\ failed' = TRUE
  /\ UNCHANGED <<faults, mutex, frame, texture, verdict>>

\* The second read of failure.failed.
DecideWrite(s) ==
  /\ pc[s] = "decide"
  /\ Goto(s, IF failed THEN "release" ELSE "write")
  /\ UNCHANGED <<faults, mutex, frame, failed, texture, verdict>>

\* UpdateSubresource and Flush.
WriteSignature(s) ==
  /\ pc[s] = "write"
  /\ texture' = Signature(frame[s], s)
  /\ Goto(s, "release")
  /\ UNCHANGED <<faults, mutex, frame, failed, verdict>>

ReleaseSucceeds(s) ==
  /\ \/ /\ pc[s] = "release"
        /\ mutex' = ReleasedWith(mutex, Successor(s))
        /\ frame' = [frame EXCEPT ![s] = @ + 1]
        /\ Goto(s, "loop")
     \/ /\ pc[s] = "final release"
        /\ mutex' = ReleasedWith(mutex, 0)
        /\ Goto(s, "done")
        /\ UNCHANGED frame
  /\ CanRelease(mutex, s)
  /\ UNCHANGED <<faults, failed, texture, verdict>>

ReleaseFails(s) ==
  /\ \/ pc[s] = "release" /\ Goto(s, AfterStage(s))
     \/ pc[s] = "final release" /\ Goto(s, "done")
  /\ "release error" \in faults \/ ~CanRelease(mutex, s)
  /\ failed' = TRUE
  /\ UNCHANGED <<faults, mutex, frame, texture, verdict>>

\* An exception (no memory for a signature) leaves RunStage and, on device A,
\* skips the final turn; ReleaseSync is never called.
Throw(s) ==
  /\ "exception" \in faults
  /\ pc[s] \in {"validate", "write", "final validate"}
  /\ failed' = TRUE
  /\ Goto(s, "done")
  /\ UNCHANGED <<faults, mutex, frame, texture, verdict>>

\* The threads are joined and a recorded failure FAILs the test.
Join ==
  /\ \A s \in Stage : pc[s] = "done"
  /\ verdict = "running"
  /\ verdict' = IF failed THEN "fail" ELSE "pass"
  /\ UNCHANGED <<faults, mutex, pc, frame, failed, texture>>

Finished ==
  /\ verdict # "running"
  /\ UNCHANGED vars

StageStep(s) ==
  \/ EnterTurn(s) \/ LeaveLoop(s)
  \/ AcquireSucceeds(s) \/ AcquireFails(s)
  \/ Check(s) \/ Validate(s) \/ DecideWrite(s) \/ WriteSignature(s)
  \/ ReleaseSucceeds(s) \/ ReleaseFails(s)
  \/ Throw(s)

Next == StartTogether \/ (\E s \in Stage : StageStep(s)) \/ Join \/ Finished

Spec == Init /\ [][Next]_vars

\* The scheduler runs every thread that can run.
FairSpec ==
  /\ Spec
  /\ WF_vars(StartTogether) /\ (\A s \in Stage : WF_vars(StageStep(s)))
  /\ WF_vars(Join)

-----------------------------------------------------------------------------
\* The program points between a successful AcquireSync and its ReleaseSync.
Region == {"check", "validate", "decide", "write", "release",
           "final check", "final validate", "final release"}

Signatures == [frame : 0 .. (Iterations - 1), stage : Stage]

\* The types of the state.
TypeOK ==
  /\ mutex \in Mutexes(Stage, Stage)
  /\ pc \in [Stage -> {"gate", "loop", "acquire", "final acquire", "done"}
                        \cup Region]
  /\ frame \in [Stage -> 0 .. Iterations]
  /\ failed \in BOOLEAN
  /\ texture \in Signatures \cup {Blank}
  /\ verdict \in {"running", "pass", "fail"}

\* The ring hands the texture round in stage order, one turn at a time, as
\* the abstract token ring does.
Ring == INSTANCE TokenRing WITH
          turn <- mutex.key, holder <- mutex.owner, passed <- frame
TakesTurns == Ring!Spec

\* A stage that validates finds exactly what its predecessor wrote in the
\* same round.  A stage may have failed in the meantime, even one whose
\* failure made an earlier stage skip its write: that stage is then never
\* believed, so the mismatch report always means a lost or misplaced write.
NoFalseMismatch ==
  \A s \in Stage :
    pc[s] \in {"validate", "final validate"} => texture = Expected(s)

\* The test passes only after every stage ran every frame, the last stage's
\* last signature is in the texture, and the mutex is back in its first
\* state, free with key 0.
PassMeansFullRing ==
  verdict = "pass" =>
    /\ \A s \in Stage : frame[s] = Iterations
    /\ texture = Signature(Iterations - 1, N - 1)
    /\ mutex = FreshMutex

\* Every execution ends with a verdict, also when a stage has left the ring
\* and the others wait for a key it will never release.  When nothing fails
\* the ring completes without ever needing a timeout.
AlwaysEnds ==
  /\ "timeout" \in faults => <>(verdict # "running")
  /\ faults = {} => <>(verdict = "pass")
=============================================================================
