------------------------ MODULE CrossProcessPingPong ------------------------
(***************************************************************************)
(* Experiment 06: the ping-pong of two processes.  The parent creates the  *)
(* shared texture and spawns the child; then both take turns:              *)
(*                                                                         *)
(*   parent: AcquireSync(0), verify the child's signature of the frame     *)
(*           before, write its own, Flush, ReleaseSync(1)                  *)
(*   child:  AcquireSync(1), verify the parent's signature, write its own, *)
(*           Flush, ReleaseSync(0)                                         *)
(*                                                                         *)
(* The parent takes one final turn that only verifies, waits for the child *)
(* and judges by what it saw itself and by the child's exit code: the two  *)
(* share no flag, only the texture and its mutex.                          *)
(*                                                                         *)
(* The child may end anywhere: by a failed call, an exception or because   *)
(* somebody kills it.  A process that dies owning the mutex abandons it.   *)
(***************************************************************************)
EXTENDS Integers, KeyedMutex

CONSTANTS
  Iterations,   \* options.iterations, passed on to the child
  FaultSets     \* the environments to consider, each a subset of FaultKinds

FaultKinds == {"timeout", "call error", "map error", "exception", "kill"}

ASSUME IterationsAssumption == Iterations \in Nat \ {0}
ASSUME FaultSetsAssumption == FaultSets \subseteq SUBSET FaultKinds

VARIABLES
  faults,           \* what the environment may do wrong; it never changes
  mutex,            \* the keyed mutex of the shared texture
  texture,          \* the signature in the shared texture
  pc,               \* where each process is, at the end its result
  frame,            \* the loop counter of each process
  failure,          \* the parent recorded a failure
  validationFailed  \* the child's local flag

vars == <<faults, mutex, texture, pc, frame, failure, validationFailed>>
notes == <<failure, validationFailed>>

\* The processes, numbered by the key each of them acquires.
Parent == 0
Child == 1
Process == {Parent, Child}

Blank == [frame |-> -1, stage |-> Child]
Signature(p, f) == [frame |-> f, stage |-> p]

\* What a process expects to find in its turn, and the key it leaves.  In its
\* last turn the parent only takes the child's final signature back.
FinalTurn(p) == p = Parent /\ frame[p] = Iterations
Expected(p) ==
  IF p = Parent THEN Signature(Child, frame[Parent] - 1)
                ELSE Signature(Parent, frame[Child])
\* Mutant of ReleaseKey: the parent hands the key to the child once more.
ReleaseKeyOnceMore(p) == IF p = Child THEN 0 ELSE 1

ReleaseKey(p) == IF p = Child \/ FinalTurn(p) THEN 0 ELSE 1

\* The child's exit codes, and the verdicts of the test.
ExitCode == {"success", "setup failed", "acquire failed", "validation failed",
             "release failed", "killed"}
Verdict == {"pass", "fail"}
ChildRuns == pc[Child] \notin ExitCode

\* The program points between a successful AcquireSync and its ReleaseSync.
Region == {"validate", "write", "release"}

\* SpawnChild: the child is on its way before the parent's first turn.
Spawned == [p \in Process |-> IF p = Parent THEN "acquire" ELSE "setup"]

Init ==
  /\ faults \in FaultSets
  /\ mutex = FreshMutex
  /\ texture = Blank
  /\ pc = Spawned
  /\ frame = [p \in Process |-> 0]
  /\ failure = FALSE /\ validationFailed = FALSE

Goto(p, label) == pc' = [pc EXCEPT ![p] = label]

AbandonedBy(p) ==
  IF mutex.owner = p THEN [mutex EXCEPT !.abandoned = TRUE] ELSE mutex

\* The child process is gone; what it owned stays owned and is abandoned.
Exit(code) ==
  /\ Goto(Child, code)
  /\ mutex' = AbandonedBy(Child)

\* A call of p failed: the parent records it and leaves the protocol, the child
\* returns from RunChild with the exit code of the call.
Fails(p, code) ==
  IF p = Parent
  THEN failure' = TRUE /\ Goto(Parent, "wait") /\ UNCHANGED mutex
  ELSE Exit(code) /\ UNCHANGED failure

-----------------------------------------------------------------------------
(* A turn, the same for both processes.                                    *)

\* The child has found the adapter, its device and the texture; or not.
ChildSetup ==
  /\ pc[Child] = "setup"
  /\ Goto(Child, "acquire")
  /\ UNCHANGED <<faults, mutex, texture, frame, notes>>

ChildSetupFails ==
  /\ pc[Child] = "setup"
  /\ "call error" \in faults
  /\ Exit("setup failed")
  /\ UNCHANGED <<faults, texture, frame, notes>>

AfterAcquire(p) ==
  IF p = Parent /\ frame[p] = 0 THEN "write" ELSE "validate"

\* Mutant of AcquireSucceeds: the result is tested with SUCCEEDED, which
\* WAIT_ABANDONED passes.
AcquireAbandoned(p) ==
  /\ pc[p] = "acquire"
  /\ CanAcquire(mutex, p) \/ mutex.abandoned
  /\ mutex' = AcquiredBy(mutex, p)
  /\ Goto(p, AfterAcquire(p))
  /\ UNCHANGED <<faults, texture, frame, notes>>

AcquireSucceeds(p) ==
  /\ pc[p] = "acquire"
  /\ CanAcquire(mutex, p)
  /\ mutex' = AcquiredBy(mutex, p)
  /\ Goto(p, AfterAcquire(p))
  /\ UNCHANGED <<faults, texture, frame, notes>>

\* Mutant of AcquireFails: the call is repeated.
AcquireFailsAndRetries(p) ==
  /\ pc[p] = "acquire"
  /\ "timeout" \in faults /\ ~CanAcquire(mutex, p)
  /\ UNCHANGED vars

\* WAIT_TIMEOUT, WAIT_ABANDONED or an error: everything but S_OK fails.
AcquireFails(p) ==
  /\ pc[p] = "acquire"
  /\ \/ "timeout" \in faults /\ ~CanAcquire(mutex, p)
     \/ "call error" \in faults
     \/ mutex.abandoned
  /\ Fails(p, "acquire failed")
  /\ UNCHANGED <<faults, texture, frame, validationFailed>>

AfterValidate(p) == IF FinalTurn(p) THEN "release" ELSE "write"

\* A mismatch, or a failed Map, is noted; the turn goes on all the same.
NoteMismatch(p) ==
  /\ failure' = (failure \/ p = Parent)
  /\ validationFailed' = (validationFailed \/ p = Child)

Validate(p) ==
  /\ pc[p] = "validate"
  /\ \/ texture = Expected(p) /\ UNCHANGED notes
     \/ texture # Expected(p) /\ NoteMismatch(p)
     \/ "map error" \in faults /\ NoteMismatch(p)
  /\ Goto(p, AfterValidate(p))
  /\ UNCHANGED <<faults, mutex, texture, frame>>

\* Mutant of WriteSignature: a process that noted a mismatch skips its write.
WriteUnlessMismatch(p) ==
  /\ pc[p] = "write"
  /\ texture' = IF IF p = Parent THEN failure ELSE validationFailed
                THEN texture ELSE Signature(p, frame[p])
  /\ Goto(p, "release")
  /\ UNCHANGED <<faults, mutex, frame, notes>>

\* UpdateSubresource and Flush.
WriteSignature(p) ==
  /\ pc[p] = "write"
  /\ texture' = Signature(p, frame[p])
  /\ Goto(p, "release")
  /\ UNCHANGED <<faults, mutex, frame, notes>>

AfterRelease(p) ==
  CASE FinalTurn(p) -> "wait"
    [] p = Child /\ frame[p] + 1 = Iterations -> "return"
    [] OTHER -> "acquire"

ReleaseSucceeds(p) ==
  /\ pc[p] = "release"
  /\ CanRelease(mutex, p)
  /\ mutex' = ReleasedWith(mutex, ReleaseKey(p))
  /\ frame' = IF FinalTurn(p) THEN frame ELSE [frame EXCEPT ![p] = @ + 1]
  /\ Goto(p, AfterRelease(p))
  /\ UNCHANGED <<faults, texture, notes>>

ReleaseFails(p) ==
  /\ pc[p] = "release"
  /\ "call error" \in faults \/ ~CanRelease(mutex, p)
  /\ Fails(p, "release failed")
  /\ UNCHANGED <<faults, texture, frame, validationFailed>>

ChildReturns ==
  /\ pc[Child] = "return"
  /\ Exit(IF validationFailed THEN "validation failed" ELSE "success")
  /\ UNCHANGED <<faults, texture, frame, notes>>

\* Building a signature runs out of memory: the child's catch returns the
\* setup code, the parent's stack is unwound.  The mutex stays owned.
Throw(p) ==
  /\ "exception" \in faults
  /\ pc[p] \in {"validate", "write"}
  /\ IF p = Child
     THEN Exit("setup failed")
     ELSE Goto(Parent, "unwind") /\ UNCHANGED mutex
  /\ UNCHANGED <<faults, texture, frame, notes>>

\* Somebody kills the child, wherever it is.
ChildKilled ==
  /\ "kill" \in faults
  /\ ChildRuns
  /\ Exit("killed")
  /\ UNCHANGED <<faults, texture, frame, notes>>

-----------------------------------------------------------------------------
(* The parent after the protocol: child.Wait and ~ChildProcess.            *)

WaitSucceeds ==
  /\ pc[Parent] = "wait"
  /\ ~ChildRuns
  /\ Goto(Parent, IF failure \/ pc[Child] # "success" THEN "fail" ELSE "pass")
  /\ UNCHANGED <<faults, mutex, texture, frame, notes>>

\* The wait expires, or the call fails: Wait throws.
WaitFails ==
  /\ pc[Parent] = "wait"
  /\ \/ "timeout" \in faults /\ ChildRuns
     \/ "call error" \in faults
  /\ Goto(Parent, "unwind")
  /\ UNCHANGED <<faults, mutex, texture, frame, notes>>

\* Mutant of Unwind: no destructor terminates the child.
UnwindAndForgetChild ==
  /\ pc[Parent] = "unwind"
  /\ Goto(Parent, "fail")
  /\ UNCHANGED <<faults, mutex, texture, frame, notes>>

\* The exception leaves RunExperiment: ~ChildProcess terminates a child that is
\* still active, and GoogleTest reports the failure.  The destructor ignores
\* calls of its own that fail, and then the child goes on.
Unwind ==
  /\ pc[Parent] = "unwind"
  /\ \/ /\ ChildRuns
        /\ pc' = [pc EXCEPT ![Parent] = "fail", ![Child] = "killed"]
        /\ mutex' = AbandonedBy(Child)
     \/ /\ ~ChildRuns \/ "call error" \in faults
        /\ Goto(Parent, "fail")
        /\ UNCHANGED mutex
  /\ UNCHANGED <<faults, texture, frame, notes>>

Finished == pc[Parent] \in Verdict /\ UNCHANGED vars

ProcessStep(p) ==
  \/ AcquireSucceeds(p) \/ AcquireFails(p)
  \/ Validate(p) \/ WriteSignature(p)
  \/ ReleaseSucceeds(p) \/ ReleaseFails(p)
  \/ Throw(p)

ParentStep == ProcessStep(Parent) \/ WaitSucceeds \/ WaitFails \/ Unwind
ChildStep ==
  ProcessStep(Child) \/ ChildSetup \/ ChildSetupFails \/ ChildReturns

Next == ParentStep \/ ChildStep \/ ChildKilled \/ Finished

Spec == Init /\ [][Next]_vars

\* Both processes are scheduled; nobody has to kill the child.
FairSpec == Spec /\ WF_vars(ParentStep) /\ WF_vars(ChildStep)

-----------------------------------------------------------------------------
(* Properties.                                                             *)

\* The types of the state.
TypeOK ==
  /\ faults \in SUBSET FaultKinds
  /\ mutex \in Mutexes(Process, {0, 1})
  /\ texture \in [frame : -1 .. (Iterations - 1), stage : Process]
  /\ pc \in [Process -> {"setup", "acquire", "return", "wait", "unwind"}
                        \cup Region \cup ExitCode \cup Verdict]
  /\ frame \in [Process -> 0 .. Iterations]
  /\ failure \in BOOLEAN /\ validationFailed \in BOOLEAN

\* The two processes take strictly alternating turns, as the abstract token
\* ring does, wherever one of them stops, fails or dies.
Ring == INSTANCE TokenRing WITH
          N <- 2, turn <- mutex.key, holder <- mutex.owner, passed <- frame
TakesTurns == Ring!Spec

\* A process that verifies finds the signature its peer wrote in the turn
\* before, whatever failed earlier: neither process reports a mismatch that is
\* not a failed Map.
VerifiersFindPeer ==
  \A p \in Process : pc[p] = "validate" => texture = Expected(p)

\* A verdict is given only when no child process is left, also after a wait
\* that expired or an exception, unless the clean-up itself fails; and a pass
\* only for what both processes completed: every frame went there and back, the
\* child left its loop without a mismatch and exited by itself, and the mutex
\* is as it was created.
VerdictIsEarned ==
  /\ pc[Parent] \in Verdict => ~ChildRuns \/ "call error" \in faults
  /\ pc[Parent] = "pass" =>
       /\ \A p \in Process : frame[p] = Iterations
       /\ ~validationFailed /\ pc[Child] = "success"
       /\ mutex = FreshMutex

\* Once the child died in its turn the texture is never read or written again:
\* WAIT_ABANDONED is no S_OK.
AbandonedIsLeftAlone ==
  [][mutex.abandoned => /\ texture' = texture
                        /\ pc'[Parent] \notin Region]_vars

\* Whatever happens to the child, the test ends when waits are finite; when
\* nothing fails it passes.
AlwaysEnds ==
  /\ "timeout" \in faults => <>(pc[Parent] \in Verdict)
  /\ faults = {} => <>(pc[Parent] = "pass")
=============================================================================
