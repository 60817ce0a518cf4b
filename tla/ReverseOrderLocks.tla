------------------------- MODULE ReverseOrderLocks --------------------------
(***************************************************************************)
(* Experiment 10, reverse order: participant 0 acquires A then B while     *)
(* participant 1 acquires B then A.  A barrier makes sure that both hold   *)
(* their first mutex before either asks for its second one, so the two     *)
(* waits form a circle, which only a timeout breaks.  After the joins the  *)
(* main thread checks the results and recovers both mutexes in the order   *)
(* A, B.                                                                   *)
(*                                                                         *)
(* Nothing holds the participants together after the second AcquireSync,   *)
(* and their two timeouts need not expire together.                        *)
(***************************************************************************)
EXTENDS Integers, FiniteSets, KeyedMutex

CONSTANT FaultSets   \* the environments to consider, subsets of FaultKinds

FaultKinds == {"acquire-error", "release-error"}

ASSUME FaultSetsAssumption == FaultSets \subseteq SUBSET FaultKinds

VARIABLES
  faults,     \* what the environment may do wrong; it never changes
  mutex,      \* the keyed mutexes of A and B
  pc,         \* where each participant is
  held,       \* what heldA and heldB of each participant say
  firstAcquire, secondAcquire,   \* results of the participants
  mpc,        \* where the main thread is
  broken      \* the expectations of the test that did not hold

vars == <<faults, mutex, pc, held, firstAcquire, secondAcquire, mpc, broken>>
results == <<firstAcquire, secondAcquire>>

Participant == {0, 1}
Mutex == {"A", "B"}

First(p) == IF p = 0 THEN "A" ELSE "B"
Second(p) == IF p = 0 THEN "B" ELSE "A"

\* The interfaces: the opener's for participant 1, the owner's for
\* participant 0 and, after the joins, the main thread.
Interface(p) == p
MainInterface == 0

Init ==
  /\ faults \in FaultSets
  /\ mutex = [m \in Mutex |-> FreshMutex]
  /\ pc = [p \in Participant |-> "first"]
  /\ held = [p \in Participant |-> {}]
  /\ firstAcquire = [p \in Participant |-> "unexpected"]
  /\ secondAcquire = [p \in Participant |-> "unexpected"]
  /\ mpc = "join"
  /\ broken = {}

Goto(p, label) == pc' = [pc EXCEPT ![p] = label]

\* What AcquireSync(0, timeoutMs) on m through interface i may return, and
\* the mutexes afterwards.
AcquireSync(i, m, result) ==
  \/ /\ result = "ok"
     /\ CanAcquire(mutex[m], 0)
     /\ mutex' = [mutex EXCEPT ![m] = AcquiredBy(@, i)]
  \/ result = "timeout" /\ ~CanAcquire(mutex[m], 0) /\ UNCHANGED mutex
  \/ result = "error" /\ "acquire-error" \in faults /\ UNCHANGED mutex

ReleaseSync(i, m, result) ==
  \/ /\ result = "ok"
     /\ CanRelease(mutex[m], i)
     /\ mutex' = [mutex EXCEPT ![m] = ReleasedWith(@, 0)]
  \/ /\ result = "error"
     /\ "release-error" \in faults \/ ~CanRelease(mutex[m], i)
     /\ UNCHANGED mutex

Result == {"ok", "timeout", "error"}

-----------------------------------------------------------------------------
(* A participant.  A failed first acquisition does not stop it.            *)

AcquireFirst(p) ==
  /\ pc[p] = "first"
  /\ \E r \in Result :
       /\ AcquireSync(Interface(p), First(p), r)
       /\ firstAcquire' = [firstAcquire EXCEPT ![p] = r]
       /\ held' = [held EXCEPT ![p] = IF r = "ok" THEN {First(p)} ELSE {}]
  /\ Goto(p, "gate")
  /\ UNCHANGED <<faults, secondAcquire, mpc, broken>>

\* Mutant of FirstLocksHeld: no barrier.
PassTheGateAlone ==
  /\ \E p \in Participant : pc[p] = "gate" /\ Goto(p, "second")
  /\ UNCHANGED <<faults, mutex, held, results, mpc, broken>>

\* firstLocksHeld.arrive_and_wait()
FirstLocksHeld ==
  /\ \A p \in Participant : pc[p] = "gate"
  /\ pc' = [p \in Participant |-> "second"]
  /\ UNCHANGED <<faults, mutex, held, results, mpc, broken>>

\* Mutant of AcquireSecond: it waits again after a timeout.
AcquireSecondAndRetry(p) ==
  \/ /\ pc[p] = "second"
     /\ AcquireSync(Interface(p), Second(p), "ok")
     /\ secondAcquire' = [secondAcquire EXCEPT ![p] = "ok"]
     /\ held' = [held EXCEPT ![p] = @ \cup {Second(p)}]
     /\ Goto(p, "release")
     /\ UNCHANGED <<faults, firstAcquire, mpc, broken>>
  \/ pc[p] = "second" /\ AcquireSync(Interface(p), Second(p), "timeout")
     /\ UNCHANGED vars

AcquireSecond(p) ==
  /\ pc[p] = "second"
  /\ \E r \in Result :
       /\ AcquireSync(Interface(p), Second(p), r)
       /\ secondAcquire' = [secondAcquire EXCEPT ![p] = r]
       /\ held' = [held EXCEPT ![p] = IF r = "ok" THEN @ \cup {Second(p)} ELSE @]
  /\ Goto(p, "release")
  /\ UNCHANGED <<faults, firstAcquire, mpc, broken>>

\* Whatever is held is released, the second mutex before the first, and no
\* result of ReleaseSync is looked at.
Release(p) ==
  /\ pc[p] = "release"
  /\ \E m \in held[p], r \in Result :
       /\ m = First(p) => Second(p) \notin held[p]
       /\ ReleaseSync(Interface(p), m, r)
       /\ held' = [held EXCEPT ![p] = @ \ {m}]
  /\ UNCHANGED <<faults, pc, results, mpc, broken>>

\* Mutant of Finish: not everything need be released.
FinishEarly(p) ==
  /\ pc[p] = "release"
  /\ Goto(p, "done")
  /\ UNCHANGED <<faults, mutex, held, results, mpc, broken>>

Finish(p) ==
  /\ pc[p] = "release"
  /\ held[p] = {}
  /\ Goto(p, "done")
  /\ UNCHANGED <<faults, mutex, held, results, mpc, broken>>

ParticipantStep(p) ==
  AcquireFirst(p) \/ AcquireSecond(p) \/ Release(p) \/ Finish(p)

-----------------------------------------------------------------------------
(* The main thread.  An ASSERT that fails ends it; an EXPECT does not.     *)

\* The joins and the four checks of the participants' results.
Join ==
  /\ mpc = "join"
  /\ \A p \in Participant : pc[p] = "done"
  /\ IF \A p \in Participant : firstAcquire[p] = "ok"
     THEN /\ mpc' = "recover-A"
          /\ broken' = IF \A p \in Participant : secondAcquire[p] = "timeout"
                       THEN broken ELSE broken \cup {"both-time-out"}
     ELSE mpc' = "end" /\ broken' = broken \cup {"first-locks"}
  /\ UNCHANGED <<faults, mutex, pc, held, results>>

Recover(m) ==
  /\ mpc = IF m = "A" THEN "recover-A" ELSE "recover-B"
  /\ \E r \in Result :
       /\ AcquireSync(MainInterface, m, r)
       /\ IF r = "ok"
          THEN /\ mpc' = IF m = "A" THEN "recover-B" ELSE "release-B"
               /\ UNCHANGED broken
          ELSE mpc' = "end" /\ broken' = broken \cup {"recovery"}
  /\ UNCHANGED <<faults, pc, held, results>>

ReleaseRecovered(m) ==
  /\ mpc = IF m = "A" THEN "release-A" ELSE "release-B"
  /\ \E r \in Result :
       /\ ReleaseSync(MainInterface, m, r)
       /\ broken' = IF r = "ok" THEN broken ELSE broken \cup {"release"}
  /\ mpc' = IF m = "B" THEN "release-A" ELSE "end"
  /\ UNCHANGED <<faults, pc, held, results>>

Finished ==
  /\ mpc = "end"
  /\ UNCHANGED vars

MainStep == Join \/ \E m \in Mutex : Recover(m) \/ ReleaseRecovered(m)

Next ==
  \/ \E p \in Participant : ParticipantStep(p)
  \/ FirstLocksHeld \/ MainStep \/ Finished

Spec == Init /\ [][Next]_vars

\* Every thread that can run does, and a wait that cannot be satisfied ends
\* by its timeout, which is taken to be finite (the parser accepts INFINITE,
\* with which nothing ends the circle).
FairSpec ==
  /\ Spec
  /\ WF_vars(FirstLocksHeld) /\ WF_vars(MainStep)
  /\ \A p \in Participant : WF_vars(ParticipantStep(p))

-----------------------------------------------------------------------------
\* The types of the state.
TypeOK ==
  /\ mutex \in [Mutex -> Mutexes({0, 1}, {0})]
  /\ pc \in [Participant -> {"first", "gate", "second", "release", "done"}]
  /\ held \in [Participant -> SUBSET Mutex]
  /\ firstAcquire \in [Participant -> Result \cup {"unexpected"}]
  /\ secondAcquire \in [Participant -> Result \cup {"unexpected"}]
  /\ mpc \in {"join", "recover-A", "recover-B", "release-B", "release-A", "end"}
  /\ broken \subseteq {"first-locks", "both-time-out", "recovery", "release"}

\* The circle of waits is real: when both first locks are held, the first
\* second acquisition to return cannot have succeeded, so one of the
\* participants always gives up.
SomeoneGivesUp ==
  (\A p \in Participant : firstAcquire[p] = "ok")
    => \E p \in Participant : secondAcquire[p] # "ok"

\* As long as ReleaseSync does what it should, the main thread finds both
\* mutexes free when it starts its recovery, whichever of the waits timed
\* out: no participant leaves with a mutex, and none is still waiting.
RecoveryNeverWaits ==
  "release-error" \notin faults =>
    /\ mpc = "recover-A" => \A m \in Mutex : CanAcquire(mutex[m], 0)
    /\ mpc = "recover-B" => CanAcquire(mutex["B"], 0)

\* Both second acquisitions time out.
BothTimeOut == "both-time-out" \notin broken

\* The circle never holds for ever: every execution ends.
AlwaysEnds == <>(mpc = "end")
=============================================================================
