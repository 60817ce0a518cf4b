------------------------- MODULE ConcurrentWaiters --------------------------
(***************************************************************************)
(* Experiment 07, concurrent waiters: one device, one IDXGIKeyedMutex      *)
(* interface, and all threads use it.  The controller, which owns the      *)
(* mutex at first, releases it with key 1 once per round and waits for     *)
(* key 0; several waiters poll for key 1, count themselves and give key 0  *)
(* back.                                                                   *)
(*                                                                         *)
(* The mutex knows its owner by interface only, so it cannot tell the      *)
(* threads apart: which thread is in its turn is visible in cpc and pc     *)
(* alone.  A driver may accept concurrent AcquireSync calls on the one     *)
(* interface or reject them with DXGI_ERROR_INVALID_CALL, which is the     *)
(* fault "rejected call".                                                  *)
(***************************************************************************)
EXTENDS Integers, FiniteSets, KeyedMutex, Tally

CONSTANTS
  Waiters,     \* options.waiters
  Rounds,      \* options.rounds
  FaultSets    \* the environments to consider, each a subset of FaultKinds

FaultKinds == {"controller timeout", "acquire error", "release error",
               "exception", "rejected call"}

ASSUME WaitersAssumption == Waiters \in Nat \ {0}
ASSUME RoundsAssumption == Rounds \in Nat \ {0}
ASSUME FaultSetsAssumption == FaultSets \subseteq SUBSET FaultKinds

VARIABLES
  faults,      \* what the environment may do wrong; it never changes
  mutex,       \* the keyed mutex
  cpc,         \* where the controller is
  owns,        \* controllerOwns
  round,       \* the controller's loop counter
  pc,          \* where each waiter is
  stop,        \* the flag that ends the waiters' polling
  active,      \* active
  overlap,     \* overlap
  completed,   \* completed
  wins,        \* wins[index]
  message,     \* what FailureState recorded first: "none", a "rejected"
               \* concurrent call, or a "failure"
  verdict      \* "running" until the waiters are joined

vars == <<faults, mutex, cpc, owns, round, pc, stop, active, overlap,
          completed, wins, message, verdict>>
controls == <<cpc, owns, round, stop, verdict>>
tallies == <<active, overlap, completed, wins>>

Waiter == 1 .. Waiters

\* The one interface, whichever thread uses it.
Interface == 0

Init ==
  /\ faults \in FaultSets
  /\ mutex = AcquiredBy(FreshMutex, Interface)
  /\ cpc = "loop" /\ owns = TRUE /\ round = 0
  /\ pc = [w \in Waiter |-> "loop"]
  /\ stop = FALSE
  /\ active = 0 /\ overlap = FALSE /\ completed = 0
  /\ wins = [w \in Waiter |-> 0]
  /\ message = "none"
  /\ verdict = "running"

Goto(w, label) == pc' = [pc EXCEPT ![w] = label]

\* failure.failed, and FailureState::Fail and ::Unsupported: the first call
\* wins.
Failed == message # "none"
Fail(kind) == message' = IF Failed THEN message ELSE kind

\* Some thread other than self is inside AcquireSync.
OtherCaller(self) ==
  \/ self # Interface /\ cpc = "acquire"
  \/ \E w \in Waiter \ {self} : pc[w] = "acquire"

MayReject(self) ==
  "rejected call" \in faults /\ (OtherCaller(self) \/ mutex.owner = Interface)

-----------------------------------------------------------------------------
(* A waiter.                                                               *)

\* while (!stop.load() && !failure.failed.load())
Poll(w) ==
  /\ pc[w] = "loop"
  /\ Goto(w, IF stop \/ Failed THEN "done" ELSE "acquire")
  /\ UNCHANGED <<faults, mutex, controls, tallies, message>>

\* Mutant of AcquireSucceeds (mutants stand before the definition they
\* replace): SUCCEEDED(acquire), which WAIT_TIMEOUT passes.
AcquireSucceedsOnTimeout(w) ==
  /\ pc[w] = "acquire"
  /\ mutex' = IF CanAcquire(mutex, 1) THEN AcquiredBy(mutex, Interface) ELSE mutex
  /\ Goto(w, "enter")
  /\ UNCHANGED <<faults, controls, tallies, message>>

AcquireSucceeds(w) ==
  /\ pc[w] = "acquire"
  /\ CanAcquire(mutex, 1)
  /\ mutex' = AcquiredBy(mutex, Interface)
  /\ Goto(w, "enter")
  /\ UNCHANGED <<faults, controls, tallies, message>>

\* WAIT_TIMEOUT after pollTimeoutMs: continue.
AcquireTimesOut(w) ==
  /\ pc[w] = "acquire"
  /\ ~CanAcquire(mutex, 1)
  /\ Goto(w, "loop")
  /\ UNCHANGED <<faults, mutex, controls, tallies, message>>

AcquireRejected(w) ==
  /\ pc[w] = "acquire"
  /\ MayReject(w)
  /\ Fail("rejected")
  /\ Goto(w, "done")
  /\ UNCHANGED <<faults, mutex, controls, tallies>>

AcquireFails(w) ==
  /\ pc[w] = "acquire"
  /\ "acquire error" \in faults
  /\ Fail("failure")
  /\ Goto(w, "done")
  /\ UNCHANGED <<faults, mutex, controls, tallies>>

\* The message for a rejected or failed call cannot be built.
AcquireThrows(w) ==
  /\ pc[w] = "acquire"
  /\ "exception" \in faults
  /\ MayReject(w) \/ "acquire error" \in faults
  /\ Goto(w, "record")
  /\ UNCHANGED <<faults, mutex, controls, tallies, message>>

\* active.fetch_add(1)
Enter(w) ==
  /\ pc[w] = "enter"
  /\ active' = active + 1
  /\ IF active # 0 THEN overlap' = TRUE /\ Fail("failure")
                   ELSE UNCHANGED <<overlap, message>>
  /\ Goto(w, "count")
  /\ UNCHANGED <<faults, mutex, controls, completed, wins>>

\* The failure message of an overlap cannot be built, and the waiter does not
\* yet know that it was counted.
EnterThrows(w) ==
  /\ pc[w] = "enter"
  /\ "exception" \in faults /\ active # 0
  /\ active' = active + 1
  /\ overlap' = TRUE
  /\ Goto(w, "unwind")
  /\ UNCHANGED <<faults, mutex, controls, completed, wins, message>>

\* The handler gives the key back, without a look at what ReleaseSync returns.
GiveBack(w) ==
  /\ pc[w] = "unwind"
  /\ \/ CanRelease(mutex, Interface) /\ mutex' = ReleasedWith(mutex, 0)
     \/ "release error" \in faults /\ UNCHANGED mutex
  /\ Goto(w, "record")
  /\ UNCHANGED <<faults, controls, tallies, message>>

RecordException(w) ==
  /\ pc[w] = "record"
  /\ Fail("failure")
  /\ Goto(w, "done")
  /\ UNCHANGED <<faults, mutex, controls, tallies>>

\* wins[index].fetch_add(1); completed.fetch_add(1)
Count(w) ==
  /\ pc[w] = "count"
  /\ wins' = [wins EXCEPT ![w] = @ + 1]
  /\ completed' = completed + 1
  /\ Goto(w, "release")
  /\ UNCHANGED <<faults, mutex, controls, active, overlap, message>>

\* ReleaseSync(0).  Its result is looked at only after the waiter has left.
Release(w) ==
  /\ pc[w] = "release"
  /\ \/ /\ CanRelease(mutex, Interface)
        /\ mutex' = ReleasedWith(mutex, 0)
        /\ Goto(w, "leave")
     \/ /\ "release error" \in faults \/ ~CanRelease(mutex, Interface)
        /\ Goto(w, "leave failing")
        /\ UNCHANGED mutex
  /\ UNCHANGED <<faults, controls, tallies, message>>

\* Mutant of Leave: a failed release returns before the fetch_sub.
LeaveUncountedOnFailure(w) ==
  /\ \/ pc[w] = "leave" /\ Goto(w, "loop") /\ active' = active - 1
     \/ pc[w] = "leave failing" /\ Goto(w, "record") /\ UNCHANGED active
  /\ UNCHANGED <<faults, mutex, controls, overlap, completed, wins, message>>

\* active.fetch_sub(1)
Leave(w) ==
  /\ \/ pc[w] = "leave" /\ Goto(w, "loop")
     \/ pc[w] = "leave failing" /\ Goto(w, "record")
  /\ active' = active - 1
  /\ UNCHANGED <<faults, mutex, controls, overlap, completed, wins, message>>

WaiterStep(w) ==
  \/ Poll(w)
  \/ AcquireSucceeds(w) \/ AcquireTimesOut(w)
  \/ AcquireRejected(w) \/ AcquireFails(w) \/ AcquireThrows(w)
  \/ Enter(w) \/ EnterThrows(w) \/ Count(w) \/ Release(w) \/ Leave(w)
  \/ GiveBack(w) \/ RecordException(w)

-----------------------------------------------------------------------------
(* The controller.                                                         *)

NextRound ==
  /\ cpc = "loop"
  /\ cpc' = IF round < Rounds /\ ~Failed THEN "release" ELSE "stop"
  /\ UNCHANGED <<faults, mutex, owns, round, pc, stop, tallies, message,
                 verdict>>

HandOut ==
  /\ cpc = "release"
  /\ owns' = FALSE
  /\ \/ /\ CanRelease(mutex, Interface)
        /\ mutex' = ReleasedWith(mutex, 1)
        /\ cpc' = "acquire"
        /\ UNCHANGED message
     \/ /\ "release error" \in faults \/ ~CanRelease(mutex, Interface)
        /\ Fail("failure")
        /\ cpc' = "stop"
        /\ UNCHANGED mutex
  /\ UNCHANGED <<faults, round, pc, stop, tallies, verdict>>

TakeBack ==
  /\ cpc = "acquire"
  /\ CanAcquire(mutex, 0)
  /\ mutex' = AcquiredBy(mutex, Interface)
  /\ owns' = TRUE
  /\ round' = round + 1
  /\ cpc' = "loop"
  /\ UNCHANGED <<faults, pc, stop, tallies, message, verdict>>

\* Mutant of TakeBackFails: the controller stops without a word.
TakeBackFailsSilently ==
  /\ cpc = "acquire"
  /\ "controller timeout" \in faults /\ ~CanAcquire(mutex, 0)
  /\ cpc' = "stop"
  /\ UNCHANGED <<faults, mutex, owns, round, pc, stop, tallies, message,
                 verdict>>

\* A timeout, a rejection or another error: the controller does not tell
\* them apart.
TakeBackFails ==
  /\ cpc = "acquire"
  /\ \/ "controller timeout" \in faults /\ ~CanAcquire(mutex, 0)
     \/ "acquire error" \in faults
     \/ MayReject(Interface)
  /\ Fail("failure")
  /\ cpc' = "stop"
  /\ UNCHANGED <<faults, mutex, owns, round, pc, stop, tallies, verdict>>

\* Mutant of StopWaiters: the waiters are not told.
StopNobody ==
  /\ cpc = "stop"
  /\ cpc' = "join"
  /\ UNCHANGED <<faults, mutex, owns, round, pc, stop, tallies, message,
                 verdict>>

StopWaiters ==
  /\ cpc = "stop"
  /\ stop' = TRUE
  /\ cpc' = "join"
  /\ UNCHANGED <<faults, mutex, owns, round, pc, tallies, message, verdict>>

\* After the joins, ReleaseSync(0) of a controller that owns; its result is
\* not looked at.
Join ==
  /\ cpc = "join"
  /\ \A w \in Waiter : pc[w] = "done"
  /\ cpc' = "report"
  /\ \/ owns /\ CanRelease(mutex, Interface) /\ mutex' = ReleasedWith(mutex, 0)
     \/ owns /\ "release error" \in faults /\ UNCHANGED mutex
     \/ ~owns /\ UNCHANGED mutex
  /\ UNCHANGED <<faults, owns, round, pc, stop, tallies, message, verdict>>

\* EXPECT_EQ(completed, rounds), EXPECT_FALSE(overlap), EXPECT_EQ(active, 0)
CountsAgree == completed = Rounds /\ ~overlap /\ active = 0

Report ==
  /\ cpc = "report"
  /\ verdict' = CASE message = "failure" -> "fail"
                  [] message = "rejected" -> "observed"
                  [] message = "none" /\ CountsAgree -> "pass"
                  [] message = "none" /\ ~CountsAgree -> "counts differ"
  /\ cpc' = "end"
  /\ UNCHANGED <<faults, mutex, owns, round, pc, stop, tallies, message>>

Finished ==
  /\ cpc = "end"
  /\ UNCHANGED vars

ControllerStep ==
  \/ NextRound \/ HandOut \/ TakeBack \/ TakeBackFails
  \/ StopWaiters \/ Join \/ Report

Next == ControllerStep \/ (\E w \in Waiter : WaiterStep(w)) \/ Finished

Spec == Init /\ [][Next]_vars

\* Every thread that can run does, and pollTimeoutMs is finite (the parser
\* accepts INFINITE too, with which a waiter would miss the stop flag).
FairSpec ==
  /\ Spec
  /\ WF_vars(ControllerStep) /\ \A w \in Waiter : WF_vars(WaiterStep(w))

-----------------------------------------------------------------------------
\* The types of the state.
TypeOK ==
  /\ mutex \in Mutexes({Interface}, {0, 1})
  /\ cpc \in {"loop", "release", "acquire", "stop", "join", "report", "end"}
  /\ owns \in BOOLEAN /\ stop \in BOOLEAN /\ overlap \in BOOLEAN
  /\ round \in 0 .. Rounds
  /\ pc \in [Waiter -> {"loop", "acquire", "enter", "unwind", "record",
                        "count", "release", "leave", "leave failing", "done"}]
  /\ active \in 0 .. Waiters /\ completed \in Nat
  /\ wins \in [Waiter -> Nat]
  /\ message \in {"none", "rejected", "failure"}
  /\ verdict \in {"running", "fail", "observed", "pass", "counts differ"}

\* The waiters between a successful AcquireSync and their ReleaseSync.
Inside == {w \in Waiter : pc[w] \in {"enter", "count", "release", "unwind"}}

\* Although one interface serves all threads, at most one of them is in its
\* turn: a second waiter or the controller never acquires before the first
\* one has released, whatever the driver accepts or rejects.
OneThreadInTurn ==
  Cardinality(Inside) + (IF owns THEN 1 ELSE 0) <= 1

\* The counters tell the truth whatever failed meanwhile.  Whenever the
\* controller owns there is one completion for each round it has played, and
\* the waiters' own counters add up to the total.  active counts the waiters
\* that are inside or about to leave; only a waiter that threw on an overlap
\* is never taken off again, so it can be too high, never too low.
CountersAreAccurate ==
  LET counted == {w \in Waiter :
                    pc[w] \in {"count", "release", "leave", "leave failing"}}
  IN  /\ owns /\ cpc = "loop" /\ ~overlap => completed = round
      /\ completed = Total(wins)
      /\ Cardinality(counted) <= active
      /\ ~overlap => active = Cardinality(counted)

\* When nothing is recorded, all the counters the test compares agree.
AssertionsHold == verdict # "counts differ"

\* The overlap detector never fires.
NoOverlapSeen == ~overlap

\* Every execution ends with a verdict, also when every call is rejected.
\* When no call fails the false overlap of a waiter that has released but not
\* yet left is the only thing that can keep the probe from passing.
AlwaysEnds ==
  /\ "controller timeout" \in faults => <>(verdict # "running")
  /\ faults = {} => <>(verdict = "pass" \/ overlap)
=============================================================================
