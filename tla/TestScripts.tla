---------------------------- MODULE TestScripts -----------------------------
(***************************************************************************)
(* The tests of experiments 02, 05, 07, 11, 12 and 14 as scripts: what     *)
(* each thread or process calls, in which order, under which condition on  *)
(* earlier results, and which results the test accepts.  ScriptedTests     *)
(* runs them.                                                              *)
(***************************************************************************)
EXTENDS Naturals, Sequences

CONSTANT Iterations   \* options.iterations of experiment 05

ASSUME IterationsAssumption == Iterations \in Nat \ {0}

\* Who calls: the test itself, two threads of it, a child process.
Main == "main"
Child == "child"
Actor == {Main, "A", "B", Child}

\* The caller of a keyed-mutex function: one interface of the resource, the one
\* of a second device, the first one but called by thread B, another one opened
\* by the same device, the child's.
First == 1
Second == 2
FirstFromB == 3
SecondOpen == 4
InChild == 5
Callers == {First, Second, FirstFromB, SecondOpen, InChild}

Result == {"S_OK", "WAIT_TIMEOUT", "WAIT_ABANDONED", "INVALID_CALL", "E_FAIL",
           "E_UNEXPECTED"}
\* FAILED(result); E_UNEXPECTED is what a result variable starts with.
Failure == {"INVALID_CALL", "E_FAIL", "E_UNEXPECTED"}

-----------------------------------------------------------------------------
(* A call: what it does, the variable its result goes to, the results that *)
(* pass, whether another one ends the script (ASSERT_..., return), and the *)
(* conditions under which it is made.                                      *)

Call(op, i, k) ==
  [op |-> op, by |-> i, key |-> k, into |-> "nothing", expect |-> {"S_OK"},
   fatal |-> TRUE, when |-> {}]
Do(op) == Call(op, First, 0)
Acquire(i, k) == Call("acquire", i, k)
Release(i, k) == Call("release", i, k)
Into(name, c) == [c EXCEPT !.into = name]
Returns(c, results) == [c EXCEPT !.expect = results]
Expect(c) == [c EXCEPT !.fatal = FALSE]
Tolerate(c) == Returns(c, Result)

\* Semaphores, condition variables with their flag, and checks name a variable.
Signal(name) == Into(name, Do("signal"))
Wait(name) == Into(name, Do("wait"))
Await(name) == Into(name, Do("await"))
Check(name, results) == Into(name, Returns(Do("check"), results))

\* A reference of the resource is given up.
Drop(ref) == Into(ref, Do("drop"))

\* if (name == S_OK) { calls } and its counterpart.
Only(calls, condition) ==
  [j \in DOMAIN calls |-> [calls[j] EXCEPT !.when = @ \cup {condition}]]
If(name, calls) == Only(calls, [name |-> name, ok |-> TRUE])
Unless(name, calls) == Only(calls, [name |-> name, ok |-> FALSE])

\* A barrier of the threads A and B, arrive_and_wait.
Barrier(name, me, peer) == <<Signal(name[me]), Wait(name[peer])>>

\* Mutant of RunProcess: the parent goes on at once.
RunProcessUnwaited == <<Do("start")>>

\* Start and join the threads; spawn the child and wait for it.
RunThreads == <<Do("start"), Do("join")>>
RunProcess == <<Do("start"), Do("wait-for-child")>>

-----------------------------------------------------------------------------
(* Experiment 02.                                                          *)

\* AcquireSync with a key that was not released times out.
WrongKeys == <<Expect(Returns(Acquire(Second, 1), {"WAIT_TIMEOUT"}))>>

KeyStateMachine ==
  <<Expect(Returns(Acquire(Second, 7), {"WAIT_TIMEOUT"})),
    Acquire(First, 0),
    Expect(Returns(Acquire(Second, 1), {"WAIT_TIMEOUT"})),
    Release(First, 42)>>
  \o WrongKeys \o
  <<Acquire(Second, 42),
    Expect(Returns(Release(First, 0), Failure)),
    Release(Second, 0),
    Acquire(First, 0),
    Expect(Release(First, 0))>>

-----------------------------------------------------------------------------
(* Experiments 05 and 12: the child that dies.                             *)

\* WriteSignature with its Flush.
Write == <<Do("update"), Do("flush")>>

\* A child returns from RunChild with another exit code at the first call that
\* fails; the result of its last call stands for the exit code.
ChildCalls(calls) ==
  [j \in 1 .. Len(calls) + 1 |->
     Into("exit", IF j = 1 THEN Do("set-up") ELSE calls[j - 1])]

\* Experiment 05, one abandoned owner per iteration.
AbruptOwner == ChildCalls(<<Acquire(InChild, 0), Do("terminate")>>)

\* Mutant of AbandonmentRound: the result is tested with SUCCEEDED.
AbandonmentRoundSucceeded ==
  <<Do("create")>> \o RunProcess
  \o <<Into("acquire", Tolerate(Acquire(First, 0)))>>
  \o If("acquire", <<Tolerate(Release(First, 0))>>)
  \o <<Check("acquire", Result \ Failure)>>

AbandonmentRound ==
  <<Do("create")>> \o RunProcess
  \o <<Into("acquire", Tolerate(Acquire(First, 0)))>>
  \o If("acquire", <<Tolerate(Release(First, 0))>>)
  \o <<Check("acquire", {"WAIT_ABANDONED"})>>

FreshResource ==
  <<Do("create"), Acquire(First, 0), Release(First, 9),
    Acquire(Second, 9), Release(Second, 0)>>

\* The loop over options.iterations.
Repeat(n, calls) ==
  [j \in 1 .. n * Len(calls) |-> calls[((j - 1) % Len(calls)) + 1]]

OwnerAbandonment == Repeat(Iterations, AbandonmentRound) \o FreshResource

\* Experiment 12.
Phase == {"before-acquire", "after-acquire", "after-write", "after-flush",
          "after-release"}

FailingChild(phase) ==
  LET acquire == <<Acquire(InChild, 0)>>
      die == <<Do("terminate")>>
  IN ChildCalls(
       CASE phase = "before-acquire" -> die
         [] phase = "after-acquire" -> acquire \o die
         [] phase = "after-write" -> acquire \o <<Do("update")>> \o die
         [] phase = "after-flush" -> acquire \o Write \o die
         [] phase = "after-release" -> acquire \o Write \o <<Release(InChild, 1)>>)

\* VerifyHealthyHandoff, on a fresh resource.
HealthyHandoff ==
  <<Do("create"), Acquire(First, 0)>> \o Write
  \o <<Release(First, 1), Acquire(Second, 1), Do("read"), Release(Second, 0)>>

\* Mutant of Recover: the result of AcquireSync(0) is tested with SUCCEEDED and
\* the old resource is used for the hand-over.
RecoverInPlace ==
  <<Returns(Acquire(First, 0), {"S_OK", "WAIT_ABANDONED"})>> \o Write
  \o <<Expect(Release(First, 1))>> \o HealthyHandoff

\* WAIT_ABANDONED: the resource is not looked at but discarded.
Recover ==
  <<Expect(Returns(Acquire(First, 0), {"WAIT_ABANDONED"}))>> \o HealthyHandoff

FailureInjection(phase) ==
  RunProcess
  \o CASE phase = "before-acquire" ->
            <<Acquire(First, 0), Release(First, 0)>> \o HealthyHandoff
       [] phase = "after-release" ->
            <<Acquire(First, 1), Do("read"), Release(First, 0)>>
       [] OTHER -> Recover

-----------------------------------------------------------------------------
(* Experiment 07: two threads, one interface.                              *)

\* Mutant of HandoffA: it tells B only of an acquisition that succeeded.
HandoffASilent ==
  <<Into("acquireA", Tolerate(Acquire(First, 0)))>>
  \o If("acquireA",
       <<Signal("acquired"), Wait("readyForAcquire"), Wait("allowRelease"),
         Into("releaseA", Tolerate(Release(First, 1))), Wait("attemptFinished")>>)

HandoffA ==
  <<Into("acquireA", Tolerate(Acquire(First, 0))), Signal("acquired")>>
  \o If("acquireA",
       <<Wait("readyForAcquire"), Wait("allowRelease"),
         Into("releaseA", Tolerate(Release(First, 1))), Wait("attemptFinished")>>
       \o Unless("acquireB",
            <<Into("recoveryAcquireA", Tolerate(Acquire(First, 1)))>>
            \o If("recoveryAcquireA",
                 <<Into("recoveryReleaseA", Tolerate(Release(First, 0)))>>)))

HandoffB ==
  <<Wait("acquired")>>
  \o If("acquireA",
       <<Signal("readyForAcquire"), Signal("allowRelease"),
         Into("acquireB", Tolerate(Acquire(FirstFromB, 1)))>>
       \o If("acquireB", <<Into("releaseB", Tolerate(Release(FirstFromB, 0)))>>)
       \o <<Signal("attemptFinished")>>)

CrossThreadHandoff ==
  RunThreads
  \o <<Expect(Check("acquireA", {"S_OK"})), Expect(Check("releaseA", {"S_OK"})),
       Check("acquireB", {"S_OK"} \cup Failure)>>
  \o If("acquireB", <<Expect(Check("releaseB", {"S_OK"}))>>)
  \o Unless("acquireB", <<Expect(Check("recoveryAcquireA", {"S_OK"})),
                          Expect(Check("recoveryReleaseA", {"S_OK"}))>>)

\* The condition variable is waited for with a predicate, that is, until the
\* flag is set, whichever comes first, the wait or the notification.
MigrationA ==
  <<Into("acquireA", Tolerate(Acquire(First, 0))), Signal("acquired"),
    Await("migrationAttempted")>>
  \o If("acquireA", Unless("releaseB",
       <<Into("cleanupA", Tolerate(Release(First, 1)))>>))

MigrationB ==
  <<Await("acquired")>>
  \o If("acquireA", <<Into("releaseB", Tolerate(Release(FirstFromB, 1)))>>)
  \o <<Signal("migrationAttempted")>>

OwnershipMigration ==
  RunThreads
  \o <<Into("acquireAfter", Tolerate(Acquire(First, 1)))>>
  \o If("acquireAfter", <<Into("releaseAfter", Tolerate(Release(First, 0)))>>)
  \o <<Check("acquireA", {"S_OK"}), Check("releaseB", {"S_OK"} \cup Failure)>>
  \o If("releaseB", <<Expect(Check("cleanupA", {"E_UNEXPECTED"}))>>)
  \o Unless("releaseB", <<Expect(Check("cleanupA", {"S_OK"}))>>)
  \o <<Expect(Check("acquireAfter", {"S_OK"})),
       Expect(Check("releaseAfter", {"S_OK"}))>>

-----------------------------------------------------------------------------
(* Experiment 11: two interfaces opened by one device.                     *)

Identity == <<Acquire(First, 0), Expect(Release(First, 0))>>

\* What the threads A and B call their results and their barriers.
AcquireResult == [A |-> "acquireA", B |-> "acquireB"]
ReleaseResult == [A |-> "releaseA", B |-> "releaseB"]
StartGate == [A |-> "startGateA", B |-> "startGateB"]
AttemptsFinished == [A |-> "attemptsFinishedA", B |-> "attemptsFinishedB"]

Attempt(me, peer, i) ==
  Barrier(StartGate, me, peer)
  \o <<Into(AcquireResult[me], Tolerate(Acquire(i, 0)))>>
  \o If(AcquireResult[me], <<Do("enter")>>)
  \o Barrier(AttemptsFinished, me, peer)
  \o If(AcquireResult[me],
       <<Into(ReleaseResult[me], Tolerate(Release(i, 0))), Do("leave")>>)

ConcurrentAcquire ==
  RunThreads
  \o If("acquireA", <<Expect(Check("releaseA", {"S_OK"}))>>)
  \o If("acquireB", <<Expect(Check("releaseB", {"S_OK"}))>>)
  \o <<Expect(Do("check-owners")),
       Acquire(First, 0), Expect(Release(First, 0))>>

CrossRelease ==
  <<Acquire(First, 0),
    Into("crossRelease", Tolerate(Release(SecondOpen, 1)))>>
  \o Unless("crossRelease", <<Release(First, 1)>>)
  \o <<Acquire(SecondOpen, 1), Expect(Release(SecondOpen, 0))>>

-----------------------------------------------------------------------------
(* Experiment 14: handles and references.                                  *)

\* The comparison of what was read comes last; the data cannot change before.
HandleClosed ==
  <<Do("close-handle"), Acquire(First, 0)>> \o Write
  \o <<Release(First, 1),
       Acquire(Second, 1), Expect(Do("read")), Release(Second, 0),
       Acquire(First, 0), Release(First, 1)>>

CreatorDestroyed ==
  <<Acquire(First, 0)>> \o Write
  \o <<Release(First, 1), Do("close-handle"), Drop("creator"),
       Acquire(Second, 1), Expect(Do("read")), Release(Second, 0)>>

LastReference ==
  <<Do("close-handle"), Acquire(Second, 0), Release(Second, 0),
    Drop("creator"), Acquire(Second, 0), Release(Second, 0),
    Drop("opened"),
    Expect(Returns(Do("reopen"), Failure)),
    Do("create"), Acquire(Second, 0), Expect(Release(Second, 0))>>

-----------------------------------------------------------------------------
Test == {"key-state-machine", "abandonment", "handoff", "migration",
         "identity", "concurrent-acquire", "cross-release", "handle-closed",
         "creator-destroyed", "last-reference"} \cup Phase

Script == [test \in Test |-> [a \in Actor |->
    CASE a = Main ->
           (CASE test = "key-state-machine" -> KeyStateMachine
              [] test = "abandonment" -> OwnerAbandonment
              [] test = "handoff" -> CrossThreadHandoff
              [] test = "migration" -> OwnershipMigration
              [] test = "identity" -> Identity
              [] test = "concurrent-acquire" -> ConcurrentAcquire
              [] test = "cross-release" -> CrossRelease
              [] test = "handle-closed" -> HandleClosed
              [] test = "creator-destroyed" -> CreatorDestroyed
              [] test = "last-reference" -> LastReference
              [] test \in Phase -> FailureInjection(test))
      [] a = Child /\ test = "abandonment" -> AbruptOwner
      [] a = Child /\ test \in Phase -> FailingChild(test)
      [] a = "A" /\ test = "handoff" -> HandoffA
      [] a = "B" /\ test = "handoff" -> HandoffB
      [] a = "A" /\ test = "migration" -> MigrationA
      [] a = "B" /\ test = "migration" -> MigrationB
      [] a = "A" /\ test = "concurrent-acquire" -> Attempt("A", "B", First)
      [] a = "B" /\ test = "concurrent-acquire" -> Attempt("B", "A", SecondOpen)
      [] OTHER -> <<>>]]
=============================================================================
