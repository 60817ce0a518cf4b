------------------------------ MODULE PingPong ------------------------------
(***************************************************************************)
(* The two-device ping-pong of experiments 01, 08 and 13.  A producer      *)
(* thread and a consumer thread, each with its own device, hand a shared   *)
(* texture back and forth with a keyed mutex:                              *)
(*                                                                         *)
(*   producer: AcquireSync(0), write the frame, [Flush], ReleaseSync(1)    *)
(*   consumer: AcquireSync(1), copy, map and validate,   ReleaseSync(0)    *)
(*                                                                         *)
(* The three experiments run this loop with different parameters: 01       *)
(* always flushes and a mismatch fails the test; 08 and 13 count matches   *)
(* and mismatches and run with and without Flush.                          *)
(*                                                                         *)
(* A frame is its number: the signature, distinct for a frame and the one  *)
(* before it, is abstracted to it.  A write is queued in the producer's    *)
(* immediate context until Flush, or the driver on its own, submits it.    *)
(***************************************************************************)
EXTENDS Integers, KeyedMutex

CONSTANTS
  Iterations,   \* options.iterations
  Scenarios     \* the variants of the test and its environment to consider

FaultKinds == {"timeout", "acquire error", "release error", "exception",
               "map error"}

ASSUME IterationsAssumption == Iterations \in Nat \ {0}
ASSUME ScenariosAssumption ==
  Scenarios \subseteq [flushes : BOOLEAN, mismatchFails : BOOLEAN,
                       faults : SUBSET FaultKinds]

VARIABLES
  scenario,    \* the variant that runs; it never changes
  mutex,       \* the keyed mutex of the shared texture
  pc,          \* where each thread is
  frame,       \* the loop counter of each thread
  failed,      \* state.failed
  texture,     \* the last frame the GPU wrote to the shared texture
  queued,      \* the frame whose write the producer's context still queues
  staged,      \* what the consumer last copied to its staging texture
  matches, mismatches,
  verdict      \* "running" until both threads are joined

vars == <<scenario, mutex, pc, frame, failed, texture, queued, staged,
          matches, mismatches, verdict>>
gpu == <<texture, queued, staged>>
counts == <<matches, mismatches>>

\* flushAfterUpdate; whether a mismatch fails the test (01) or is counted (08,
\* 13); and what the environment may do wrong.
Flushes == scenario.flushes
MismatchFails == scenario.mismatchFails
Faults == scenario.faults

\* The two threads, numbered by the key each of them acquires.
Producer == 0
Consumer == 1
Thread == {Producer, Consumer}

\* Mutant of ReleaseKey (mutants stand before the definition they replace): the
\* key is the one the thread itself asks for.
ReleaseKeyKept(t) == t

ReleaseKey(t) == 1 - t
AcquireKey(t) == t

NoFrame == -1
Frame == 0 .. (Iterations - 1)

\* The program points at which a thread is between a successful AcquireSync
\* and its ReleaseSync.
Region == {"write", "flush", "copy", "validate", "release"}

Init ==
  /\ scenario \in Scenarios
  /\ mutex = FreshMutex
  /\ pc = [t \in Thread |-> "loop"]
  /\ frame = [t \in Thread |-> 0]
  /\ failed = FALSE
  /\ texture = NoFrame
  /\ queued = NoFrame
  /\ staged = NoFrame
  /\ matches = 0
  /\ mismatches = 0
  /\ verdict = "running"

Goto(t, label) == pc' = [pc EXCEPT ![t] = label]

\* state.Fail(...) followed by leaving the loop.
FailAndStop(t) ==
  /\ failed' = TRUE
  /\ Goto(t, "done")

-----------------------------------------------------------------------------
(* The loop both threads run.                                              *)

\* Mutant of EnterTurn: <= in the loop condition.
EnterTurnOnceMore(t) ==
  /\ pc[t] = "loop"
  /\ frame[t] <= Iterations /\ ~failed
  /\ Goto(t, "acquire")
  /\ UNCHANGED <<scenario, mutex, frame, failed, gpu, counts, verdict>>

\* for (frame < iterations && !state.failed.load(); ...)
EnterTurn(t) ==
  /\ pc[t] = "loop"
  /\ frame[t] < Iterations /\ ~failed
  /\ Goto(t, "acquire")
  /\ UNCHANGED <<scenario, mutex, frame, failed, gpu, counts, verdict>>

LeaveLoop(t) ==
  /\ pc[t] = "loop"
  /\ frame[t] >= Iterations \/ failed
  /\ Goto(t, "done")
  /\ UNCHANGED <<scenario, mutex, frame, failed, gpu, counts, verdict>>

AcquireSucceeds(t) ==
  /\ pc[t] = "acquire"
  /\ CanAcquire(mutex, AcquireKey(t))
  /\ mutex' = AcquiredBy(mutex, t)
  /\ Goto(t, IF t = Producer THEN "write" ELSE "copy")
  /\ UNCHANGED <<scenario, frame, failed, gpu, counts, verdict>>

\* Mutants of AcquireFails: the thread ends without a word; it waits again.
AcquireFailsSilently(t) ==
  /\ pc[t] = "acquire"
  /\ "timeout" \in Faults /\ ~CanAcquire(mutex, AcquireKey(t))
  /\ Goto(t, "done")
  /\ UNCHANGED <<scenario, mutex, frame, failed, gpu, counts, verdict>>

AcquireFailsAndRetries(t) ==
  /\ pc[t] = "acquire"
  /\ "timeout" \in Faults /\ ~CanAcquire(mutex, AcquireKey(t))
  /\ UNCHANGED vars

\* Acquire returned WAIT_TIMEOUT, or any other result that is not S_OK.
AcquireFails(t) ==
  /\ pc[t] = "acquire"
  /\ \/ "timeout" \in Faults /\ ~CanAcquire(mutex, AcquireKey(t))
     \/ "acquire error" \in Faults
  /\ FailAndStop(t)
  /\ UNCHANGED <<scenario, mutex, frame, gpu, counts, verdict>>

ReleaseSucceeds(t) ==
  /\ pc[t] = "release"
  /\ CanRelease(mutex, t)
  /\ mutex' = ReleasedWith(mutex, ReleaseKey(t))
  /\ frame' = [frame EXCEPT ![t] = @ + 1]
  /\ Goto(t, "loop")
  /\ UNCHANGED <<scenario, failed, gpu, counts, verdict>>

ReleaseFails(t) ==
  /\ pc[t] = "release"
  /\ "release error" \in Faults \/ ~CanRelease(mutex, t)
  /\ FailAndStop(t)
  /\ UNCHANGED <<scenario, mutex, frame, gpu, counts, verdict>>

\* An exception inside the turn (out of memory while the expected frame is
\* built, a failed Map while drawing) is caught outside the loop: the thread
\* ends and ReleaseSync is never called.
Throw(t) ==
  /\ "exception" \in Faults
  /\ pc[t] \in {"write", "validate"}
  /\ FailAndStop(t)
  /\ UNCHANGED <<scenario, mutex, frame, gpu, counts, verdict>>

-----------------------------------------------------------------------------
(* The producer's turn.                                                    *)

Write ==
  /\ pc[Producer] = "write"
  /\ queued' = frame[Producer]
  /\ Goto(Producer, "flush")
  /\ UNCHANGED <<scenario, mutex, frame, failed, texture, staged, counts,
                 verdict>>

\* Everything queued reaches the texture, in order: the last write wins.
SubmitQueue ==
  /\ texture' = IF queued = NoFrame THEN texture ELSE queued
  /\ queued' = NoFrame

\* Mutant of Flush: the call is missing.
FlushForgotten ==
  /\ pc[Producer] = "flush"
  /\ Goto(Producer, "release")
  /\ UNCHANGED <<scenario, mutex, frame, failed, gpu, counts, verdict>>

Flush ==
  /\ pc[Producer] = "flush"
  /\ IF Flushes THEN SubmitQueue ELSE UNCHANGED <<texture, queued>>
  /\ Goto(Producer, "release")
  /\ UNCHANGED <<scenario, mutex, frame, failed, staged, counts, verdict>>

\* The driver submits queued commands whenever it likes.
DriverSubmits ==
  /\ queued # NoFrame
  /\ SubmitQueue
  /\ UNCHANGED <<scenario, mutex, pc, frame, failed, staged, counts, verdict>>

-----------------------------------------------------------------------------
(* The consumer's turn.                                                    *)

CopyAndMap ==
  /\ pc[Consumer] = "copy"
  /\ staged' = texture
  /\ Goto(Consumer, "validate")
  /\ UNCHANGED <<scenario, mutex, frame, failed, texture, queued, counts,
                 verdict>>

\* A failed Map fails the test, but the key is still handed back.
MapFails ==
  /\ pc[Consumer] = "copy"
  /\ "map error" \in Faults
  /\ failed' = TRUE
  /\ Goto(Consumer, "release")
  /\ UNCHANGED <<scenario, mutex, frame, gpu, counts, verdict>>

ValidateMatch ==
  /\ pc[Consumer] = "validate"
  /\ staged = frame[Consumer]
  /\ matches' = matches + 1
  /\ Goto(Consumer, "release")
  /\ UNCHANGED <<scenario, mutex, frame, failed, gpu, mismatches, verdict>>

ValidateMismatch ==
  /\ pc[Consumer] = "validate"
  /\ staged # frame[Consumer]
  /\ mismatches' = mismatches + 1
  /\ failed' = (failed \/ MismatchFails)
  /\ Goto(Consumer, "release")
  /\ UNCHANGED <<scenario, mutex, frame, gpu, matches, verdict>>

-----------------------------------------------------------------------------
\* Both threads joined: FAIL() when a failure was recorded, and with Flush
\* the mismatches are expected to be 0.
Join ==
  /\ \A t \in Thread : pc[t] = "done"
  /\ verdict = "running"
  /\ verdict' = IF failed \/ (Flushes /\ mismatches # 0) THEN "fail" ELSE "pass"
  /\ UNCHANGED <<scenario, mutex, pc, frame, failed, gpu, counts>>

\* The test is over.  A write still queued may land later.
Finished ==
  /\ verdict # "running"
  /\ UNCHANGED vars

ThreadStep(t) ==
  \/ EnterTurn(t) \/ LeaveLoop(t)
  \/ AcquireSucceeds(t) \/ AcquireFails(t)
  \/ ReleaseSucceeds(t) \/ ReleaseFails(t)
  \/ Throw(t)

ProducerStep == ThreadStep(Producer) \/ Write \/ Flush

ConsumerStep ==
  \/ ThreadStep(Consumer)
  \/ CopyAndMap \/ MapFails \/ ValidateMatch \/ ValidateMismatch

Next == ProducerStep \/ ConsumerStep \/ DriverSubmits \/ Join \/ Finished

Spec == Init /\ [][Next]_vars

\* Threads that can run do run, and the main thread gets to its joins.  The
\* driver owes nothing: Flush is the only promise that a write is submitted.
FairSpec ==
  /\ Spec
  /\ WF_vars(ProducerStep) /\ WF_vars(ConsumerStep) /\ WF_vars(Join)

-----------------------------------------------------------------------------
(* Properties.                                                             *)

\* The types of the state.
TypeOK ==
  /\ mutex \in Mutexes(Thread, {0, 1})
  /\ pc \in [Thread -> {"loop", "acquire", "done"} \cup Region]
  /\ frame \in [Thread -> 0 .. Iterations]
  /\ failed \in BOOLEAN
  /\ texture \in Frame \cup {NoFrame}
  /\ queued \in Frame \cup {NoFrame}
  /\ staged \in Frame \cup {NoFrame}
  /\ matches \in Nat /\ mismatches \in Nat
  /\ verdict \in {"running", "pass", "fail"}

\* The two threads take strictly alternating turns, as the abstract token
\* ring does, up to the point where one of them keeps the mutex for ever.
Ring == INSTANCE TokenRing WITH
          N <- 2, turn <- mutex.key, holder <- mutex.owner, passed <- frame
TakesTurns == Ring!Spec

\* With Flush no frame is ever seen stale, torn between two turns or early:
\* the baseline of the experiments, which no timeout, error or exception in
\* either thread may turn into a mismatch.
FlushedFramesMatch == Flushes => mismatches = 0

\* With Flush the GPU writes the texture only while the producer owns it; a
\* queued write never lands during the consumer's turn.
WritesStayInTurn ==
  [][Flushes /\ texture' # texture => mutex.owner = Producer]_vars

\* The test passes only when every frame was transferred and looked at and the
\* mutex is back in its first state: no early exit of a thread goes unnoticed,
\* not even one that ended in its turn and kept the mutex.
PassMeansEveryFrame ==
  verdict = "pass" =>
    /\ \A t \in Thread : frame[t] = Iterations
    /\ matches + mismatches = Iterations
    /\ mutex.owner = NoOwner /\ mutex.key = 0

\* Every execution ends with a verdict: whatever the peer did, the finite
\* timeouts let both threads leave their waits.  When nothing fails no wait
\* needs its timeout and the test passes.
AlwaysEnds ==
  /\ "timeout" \in Faults => <>(verdict # "running")
  /\ Faults = {} => <>(verdict = "pass")
=============================================================================
