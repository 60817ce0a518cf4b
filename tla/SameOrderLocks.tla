--------------------------- MODULE SameOrderLocks ---------------------------
(***************************************************************************)
(* Experiment 10, same order: each participant repeatedly acquires the     *)
(* keyed mutex of texture A, then that of texture B, and releases B, then  *)
(* A, always with key 0.  There are two participants in the experiment,    *)
(* and any number N of them here.                                          *)
(*                                                                         *)
(* A participant remembers in heldA and heldB (here the set held) what its *)
(* clean-up has to release.  The clean-up follows the try block, so a      *)
(* break out of it, on a failed call, skips the clean-up; only a caught    *)
(* exception and the normal end of the block get there.                    *)
(***************************************************************************)
EXTENDS Integers, KeyedMutex

CONSTANTS
  N,          \* participants
  Rounds,     \* options.rounds
  FaultSets   \* the environments to consider, each a subset of FaultKinds

FaultKinds == {"timeout", "acquire error", "release error", "exception"}

ASSUME NAssumption == N \in Nat \ {0}
ASSUME RoundsAssumption == Rounds \in Nat \ {0}
ASSUME FaultSetsAssumption == FaultSets \subseteq SUBSET FaultKinds

VARIABLES
  faults,     \* what the environment may do wrong; it never changes
  mutex,      \* the keyed mutexes of A and B
  pc,         \* where each participant is
  held,       \* what heldA and heldB of each participant say
  round,      \* the loop counter of each participant
  completed,  \* completedRounds
  failed,     \* failure.failed
  verdict     \* "running" until the participants are joined

vars == <<faults, mutex, pc, held, round, completed, failed, verdict>>
loops == <<round, completed, verdict>>

Participant == 0 .. (N - 1)
Mutex == {"A", "B"}

\* The program points of AcquireSync and ReleaseSync, and what follows them.
AcquireAt(m) == IF m = "A" THEN "acquire A" ELSE "acquire B"
ReleaseAt(m) == IF m = "A" THEN "release A" ELSE "release B"
AfterAcquire(m) == IF m = "A" THEN "acquire B" ELSE "release B"
AfterRelease(m) == IF m = "A" THEN "cleanup" ELSE "release A"

Init ==
  /\ faults \in FaultSets
  /\ mutex = [m \in Mutex |-> FreshMutex]
  /\ pc = [p \in Participant |-> "loop"]
  /\ held = [p \in Participant |-> {}]
  /\ round = [p \in Participant |-> 0]
  /\ completed = [p \in Participant |-> 0]
  /\ failed = FALSE
  /\ verdict = "running"

Goto(p, label) == pc' = [pc EXCEPT ![p] = label]
Hold(p, m) == held' = [held EXCEPT ![p] = @ \cup {m}]
Forget(p, m) == held' = [held EXCEPT ![p] = @ \ {m}]

-----------------------------------------------------------------------------
\* Mutant of EnterRound (mutants stand before the definition they replace): <=
\* in the loop condition.
EnterRoundOnceMore(p) ==
  /\ pc[p] = "loop"
  /\ round[p] <= Rounds /\ ~failed
  /\ Goto(p, "acquire A")
  /\ UNCHANGED <<faults, mutex, held, failed, loops>>

EnterRound(p) ==
  /\ pc[p] = "loop"
  /\ round[p] < Rounds /\ ~failed
  /\ Goto(p, "acquire A")
  /\ UNCHANGED <<faults, mutex, held, failed, loops>>

LeaveLoop(p) ==
  /\ pc[p] = "loop"
  /\ round[p] >= Rounds \/ failed
  /\ Goto(p, "done")
  /\ UNCHANGED <<faults, mutex, held, failed, loops>>

AcquireSucceeds(p, m) ==
  /\ pc[p] = AcquireAt(m)
  /\ CanAcquire(mutex[m], 0)
  /\ mutex' = [mutex EXCEPT ![m] = AcquiredBy(@, p)]
  /\ Hold(p, m)
  /\ Goto(p, AfterAcquire(m))
  /\ UNCHANGED <<faults, failed, loops>>

\* Mutant of AcquireFails: the participant waits again.
AcquireFailsAndRetries(p, m) ==
  /\ pc[p] = AcquireAt(m)
  /\ "timeout" \in faults /\ ~CanAcquire(mutex[m], 0)
  /\ UNCHANGED vars

AcquireFails(p, m) ==
  /\ pc[p] = AcquireAt(m)
  /\ \/ "timeout" \in faults /\ ~CanAcquire(mutex[m], 0)
     \/ "acquire error" \in faults
  /\ Goto(p, "failing")
  /\ UNCHANGED <<faults, mutex, held, failed, loops>>

\* Mutant of ReleaseSucceeds: heldX is not cleared.
ReleaseAndStillHold(p, m) ==
  /\ pc[p] = ReleaseAt(m)
  /\ CanRelease(mutex[m], p)
  /\ mutex' = [mutex EXCEPT ![m] = ReleasedWith(@, 0)]
  /\ completed' = IF m = "A" THEN [completed EXCEPT ![p] = @ + 1] ELSE completed
  /\ Goto(p, AfterRelease(m))
  /\ UNCHANGED <<faults, held, round, failed, verdict>>

ReleaseSucceeds(p, m) ==
  /\ pc[p] = ReleaseAt(m)
  /\ CanRelease(mutex[m], p)
  /\ mutex' = [mutex EXCEPT ![m] = ReleasedWith(@, 0)]
  /\ Forget(p, m)
  /\ completed' = IF m = "A" THEN [completed EXCEPT ![p] = @ + 1] ELSE completed
  /\ Goto(p, AfterRelease(m))
  /\ UNCHANGED <<faults, round, failed, verdict>>

\* Mutant of ReleaseFails: the result is not looked at.
ReleaseFailsUnnoticed(p, m) ==
  /\ pc[p] = ReleaseAt(m)
  /\ "release error" \in faults
  /\ Forget(p, m)
  /\ completed' = IF m = "A" THEN [completed EXCEPT ![p] = @ + 1] ELSE completed
  /\ Goto(p, AfterRelease(m))
  /\ UNCHANGED <<faults, mutex, round, failed, verdict>>

\* heldX is cleared before the result is looked at.
ReleaseFails(p, m) ==
  /\ pc[p] = ReleaseAt(m)
  /\ "release error" \in faults
  /\ Forget(p, m)
  /\ Goto(p, "failing")
  /\ UNCHANGED <<faults, mutex, failed, loops>>

\* Mutant of GiveUp: continue instead of Fail and break.
GiveUpRoundOnly(p) ==
  /\ pc[p] = "failing"
  /\ round' = [round EXCEPT ![p] = @ + 1]
  /\ Goto(p, "loop")
  /\ UNCHANGED <<faults, mutex, held, completed, failed, verdict>>

\* failure.Fail(...); break
GiveUp(p) ==
  /\ pc[p] = "failing"
  /\ failed' = TRUE
  /\ Goto(p, "done")
  /\ UNCHANGED <<faults, mutex, held, loops>>

\* Building the failure message throws: the handler records the exception.
Catch(p) ==
  /\ pc[p] = "failing"
  /\ "exception" \in faults
  /\ failed' = TRUE
  /\ Goto(p, "cleanup")
  /\ UNCHANGED <<faults, mutex, held, loops>>

\* B before A, whatever ReleaseSync returns.
CleanUp(p, m) ==
  /\ pc[p] = "cleanup"
  /\ m \in held[p] /\ (m = "A" => "B" \notin held[p])
  /\ \/ /\ CanRelease(mutex[m], p)
        /\ mutex' = [mutex EXCEPT ![m] = ReleasedWith(@, 0)]
     \/ "release error" \in faults /\ UNCHANGED mutex
  /\ Forget(p, m)
  /\ UNCHANGED <<faults, pc, failed, loops>>

NextRound(p) ==
  /\ pc[p] = "cleanup"
  /\ held[p] = {}
  /\ round' = [round EXCEPT ![p] = @ + 1]
  /\ Goto(p, "loop")
  /\ UNCHANGED <<faults, mutex, held, completed, failed, verdict>>

ParticipantStep(p) ==
  \/ EnterRound(p) \/ LeaveLoop(p)
  \/ \E m \in Mutex : \/ AcquireSucceeds(p, m) \/ AcquireFails(p, m)
                      \/ ReleaseSucceeds(p, m) \/ ReleaseFails(p, m)
                      \/ CleanUp(p, m)
  \/ GiveUp(p) \/ Catch(p) \/ NextRound(p)

\* After the joins: FAIL() on a recorded failure, then the round counts.
Join ==
  /\ \A p \in Participant : pc[p] = "done"
  /\ verdict = "running"
  /\ verdict' = IF ~failed /\ \A p \in Participant : completed[p] = Rounds
                THEN "pass" ELSE "fail"
  /\ UNCHANGED <<faults, mutex, pc, held, round, completed, failed>>

Finished ==
  /\ verdict # "running"
  /\ UNCHANGED vars

Next == (\E p \in Participant : ParticipantStep(p)) \/ Join \/ Finished

Spec == Init /\ [][Next]_vars

\* Every thread that can run does; which waiter gets a released mutex is left
\* open, so a participant may play all its rounds before another one starts.
FairSpec ==
  /\ Spec
  /\ (\A p \in Participant : WF_vars(ParticipantStep(p)))
  /\ WF_vars(Join)

-----------------------------------------------------------------------------
\* The types of the state.
TypeOK ==
  /\ mutex \in [Mutex -> Mutexes(Participant, {0})]
  /\ pc \in [Participant -> {"loop", "acquire A", "acquire B", "release B",
                             "release A", "failing", "cleanup", "done"}]
  /\ held \in [Participant -> SUBSET Mutex]
  /\ round \in [Participant -> 0 .. Rounds]
  /\ completed \in [Participant -> 0 .. Rounds]
  /\ failed \in BOOLEAN
  /\ verdict \in {"running", "pass", "fail"}

Owns(p, m) == mutex[m].owner = p

\* heldA and heldB never claim a mutex that another participant owns, so the
\* clean-up can only ever release what its own participant acquired.
HeldIsOwned == \A p \in Participant : \A m \in held[p] : Owns(p, m)

\* The locks are taken in one order: whatever has failed before, nobody
\* waits for A while owning a mutex, so no two participants can each wait
\* for what the other one owns.
NoCircularWait ==
  \A p, q \in Participant : \A m, n \in Mutex :
    ~(/\ pc[p] = AcquireAt(m) /\ Owns(q, m)
      /\ pc[q] = AcquireAt(n) /\ Owns(p, n))

\* A pass means that every participant played every round and both mutexes
\* are as they were created.
PassMeansCleanEnd ==
  verdict = "pass" =>
    /\ \A m \in Mutex : mutex[m] = FreshMutex
    /\ \A p \in Participant : completed[p] = Rounds

\* A participant that has left its loop owns neither mutex.
HeldIsGivenBack ==
  \A p \in Participant : pc[p] = "done" => \A m \in Mutex : ~Owns(p, m)

\* Every execution ends with a verdict.  Without any fault the test passes and
\* no wait needs its timeout: one lock order is enough to exclude deadlock.
AlwaysEnds ==
  /\ "timeout" \in faults => <>(verdict # "running")
  /\ faults = {} => <>(verdict = "pass")
=============================================================================
