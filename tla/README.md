# TLA+ specifications of the keyed-mutex experiments

This directory keeps the formal model of the experiments in this repository: fourteen C++ programs
that each drive one or two shared Direct3D 11 textures, guarded by DXGI keyed mutexes, from several
threads, devices or processes, and assert what came out. The specifications are written from
`experiments/*/main.cpp` and `src/d3d11_test_support.cpp`; Direct3D and DXGI themselves are modelled
only through how these programs use them.

1. [The system](#1-the-system) – inventory of parts, state, interactions and hazards
2. [Modules](#2-modules) – which module models what, and how it corresponds to the code
3. [What TLC checks](#3-what-tlc-checks) – runs, bounds, fairness
4. [What is proved](#4-what-is-proved)
5. [Where code and statement disagree](#5-where-code-and-statement-disagree)
6. [What is abstracted or left out](#6-what-is-abstracted-or-left-out)
7. [Plan](#7-plan)

## 1. The system

A shared texture carries a keyed mutex. `AcquireSync(k, timeout)` waits until the mutex is free *and*
its key is `k`; `ReleaseSync(k)` by the owner frees it and sets the key the next owner must ask for. The
key is the whole protocol: who runs next is decided by the key that was released, and a thread that never
releases, or releases the wrong key, stops everybody who waits. Every wait therefore has a timeout, every
program records only the first failure, and the verdict is formed after the joins.

| Part | State | Operations | Interacts through |
|---|---|---|---|
| Keyed mutex (external) | owner, key, abandonment | AcquireSync, ReleaseSync | every other part |
| 01, 08, 13 ping-pong | loop counters, failure flag, match counters, command queue, shared and staging texture | producer turn, consumer turn, Flush, validation, join | keys 0 and 1, the texture |
| 02 key state machine | one mutex, one thread | a fixed script of good and bad calls | – |
| 03 three-device ring | loop counters, failure flag, signature in the texture | stage turn, final turn of A, join | keys 0, 1, 2, a start barrier, the texture |
| 04 same-key contention | announced round, stop, active, overlap, wins, failure flag | controller round, contender turn | keys 0 and 1, five atomics, the texture |
| 05 owner abandonment | a child process that dies as owner | a round per abandoned owner, a fresh resource at the end | mutex, process exit |
| 06 cross-process ping-pong | loop counters of two processes, one failure flag each, exit codes | turns, first failure, bounded wait, `~ChildProcess` | keys, the texture, process exit |
| 07 same-interface threads | one interface, several threads, semaphores and flags | hand-off, migration and waiter probes | one `IDXGIKeyedMutex*` |
| 09 multithread context | one immediate context, a texture per worker, a shared counter, failure flag | update and flush, join, validation | the context |
| 10 lock order | two mutexes, held flags, results | A-then-B, B-then-A, clean-up, recovery | two mutexes, a barrier |
| 11 multiple interfaces | two interfaces of one resource, owner count, overlap flag | simultaneous acquire, release by the other interface | one mutex, two barriers |
| 12 failure injection | a child that ends at one of five points | recovery of the parent, hand-over on a fresh resource | mutex, process exit |
| 14 handle and COM lifetime | an NT handle, two references | close, reopen, drop, use | the shared resource |
| Support library | UniqueHandle, device and texture creation | move, reset, create, open | – |

What is hard about it, and hard to test:

* **Interleavings.** Nothing but the key orders the threads. Counters, flags and the texture are touched
  before, inside and after the owned region, and the order of those few lines decides whether a check can
  raise a false alarm (04 lines 258–261 against 07 lines 336–338).
* **A failure in the middle of a turn.** An exception between AcquireSync and ReleaseSync leaves the mutex
  owned for ever (01, 03, 08, 13); in 04 and 07 the handler gives the key back first and records the failure
  afterwards; in 10 a `break` skips the clean-up.
* **Timeouts racing releases.** A wait can expire just before the key it wanted is released. The waiter
  leaves; the key it should have taken stays, and its peer times out in turn.
* **Stale reads of the failure flag.** It is read at the head of a loop, or between two steps of a turn, and
  may be set by another thread right after.
* **GPU work that outlives the turn.** Without `Flush` the writes queued in a turn reach the texture when the
  driver likes, possibly in the turn of the other device.
* **Circular waits** when two mutexes are taken in opposite orders.
* **Processes that die as owners** (05, 06, 12). The mutex then reports `WAIT_ABANDONED`, which passes the macro `SUCCEEDED`; what
  the surface holds is anybody's guess; and the parent learns of the death only through an exit code and a wait of its own.
* **Calls that overlap** on one immediate context (09), or on one interface (07), which the driver need not allow.
* **Missed signals.** The probes of 07 and 11 synchronise through semaphores, flags and barriers that must be signalled on every
  path, the failing ones too, or a join never returns.
* **32-bit arithmetic.** A time-out of `4294967295` is accepted and means `INFINITE`; `timeoutMs + 5'000` wraps, and then the
  parent waits less than its child; the counter of 09 and the product it is compared with wrap together.
* **A driver that breaks a promise.** Several experiments exist to notice one that does; whether they would is a property of the
  experiment, not of the driver.

`PROJECT.json` lists the hazards at the lines where they bite, with the properties aimed at each.

Correctness, per part:

* *Mutual exclusion by key*: a thread in its turn owns the mutex whatever else failed, and turns are taken in
  the order of the keys.
* *Ping-pong*: with Flush the consumer never sees a stale or torn frame; a pass means every frame was moved.
* *Ring*: a stage that validates always finds what its predecessor wrote in that round, so a reported
  mismatch is a real one; a pass means the whole ring ran and the mutex is back in its first state.
* *Contention*: one win per hand-out, signed for the current round, no false overlap, and counters that agree.
* *Lock order*: the clean-up flags are truthful, one order excludes circular waits, and in the reverse order
  somebody gives up and both mutexes can be recovered.
* *Waiters on one interface*: the interface cannot tell its threads apart, yet only one is in its turn.
* *Two processes*: turns alternate wherever one of the two dies, a process that verifies finds what its peer wrote, nobody touches an
  abandoned texture, and no verdict leaves a child behind.
* *Scripted tests* (02, 05, 07, 11, 12, 14): a pass means that the promise under test was kept, whatever the order of the threads,
  that nobody owns the resource, and that every thread and process is gone; an abandoned surface is discarded.
* *Shared context*: a protected context never loses a frame, and a pass means every last frame is in place.
* *Everywhere*: the program ends, and with a driver that works it passes.

## 2. Modules

```
KeyedMutex ─┬─ PingPong ─────────────── PingPongProofs ─────────────┐
            ├─ ThreeDeviceRing ──────── ThreeDeviceRingProofs ──────┼─► TokenRing (abstract,
            ├─ CrossProcessPingPong ─── CrossProcessPingPongProofs ─┘   implemented by these three)
            ├─ SameKeyContention ────── SameKeyContentionProofs ─┐ both also
            ├─ ConcurrentWaiters ────── ConcurrentWaitersProofs ─┘ extend Tally
            ├─ SameOrderLocks ───────── LockOrderProofs
            ├─ ReverseOrderLocks ────── LockOrderProofs (INSTANCE)
            └─ ScriptedTests ────────── ScriptedTestsProofs
                 └─ extends TestScripts (what the tests of 02, 05, 07, 11, 12 and 14 call)
MultithreadContext ──────────────────── MultithreadContextProofs
```

`MC_X.tla` extends `X` with the environments of its runs; each `MC_X*.cfg` is one run.

**KeyedMutex** – a mutex is a record of owner, key and abandonment, with the four operators
`CanAcquire`, `AcquiredBy`, `CanRelease` and `ReleasedWith`. The owner is an *interface*, not a thread:
a thread that dies in its turn leaves the mutex owned, and threads that share an interface (07) look
alike to it. This is external code; the operators say what experiment 02 asserts about it.

**TokenRing** – the abstract promise. `N` parties, whose `turn` it is, who is `holder`, and how often each
has `passed` the token. A party may take the token in its turn, pass it on, or put it back; it may also stop
at any time. `TokenRing!InOrder` says that the parties before the turn are exactly one lap ahead.

**PingPong** (01, 08, 13) – threads 0 and 1 with the program points `loop`, `acquire`, the owned region and
`done`. `EnterTurn`/`LeaveLoop` are the loop head, `AcquireSucceeds`/`AcquireFails` the wait,
`Write`, `Flush`, `CopyAndMap`, `MapFails`, `ValidateMatch`, `ValidateMismatch` the turn,
`ReleaseSucceeds`/`ReleaseFails` its end, `Throw` the exception that skips it, `FailAndStop` the recorded failure, `Join`
the main thread. `queued`, `texture` and `staged` are where a frame can be; `DriverSubmits` is the driver
executing queued commands at a time of its own. `scenario` selects the
experiment: whether the producer flushes, and whether a mismatch fails the test (01) or is counted (08, 13).

**ThreeDeviceRing** (03) – `N` stages (three in the program), stage `s` acquiring key `s` and releasing
`s + 1 mod N`. The two readings of the failure flag inside a turn are the separate actions `Check` (whether to
validate) and `DecideWrite` (whether to write); the final turn of device A, taken even after an early return of
its stage, has program points of its own.

**CrossProcessPingPong** (06) – processes 0 (the parent) and 1 (the child), which share nothing but the texture and
its mutex. `ProcessStep(p)` is the turn both of them take; the parent's first turn only writes, its last one only
verifies (`FinalTurn`). `ChildSetup` is the child's way to its first turn, while the parent already runs. A failed call is
`Fails`: the parent records it and stops taking turns, the child returns an exit code (`Exit`), and a mutex it owned is
abandoned. `Throw` is an exception in a turn, `ChildKilled` a death anywhere. `WaitSucceeds` and `WaitFails` are `child.Wait`, `Unwind` is
`~ChildProcess`, which terminates a child that still runs, unless its own calls fail.

**SameKeyContention** (04) – controller and `Contenders`. The announcement of the round, the hand-out, the
fetch-and-add, the reading of the announced round, the write with its win, the fetch-and-subtract and the release
are separate actions, because each touches a variable another thread reads. `Unwind`, `GiveBack` and `RecordException` are the handler:
it leaves the region, gives the key back and only then records the exception.

**Tally** – the sum over an array of counters (`totalWins` in 04). It counts the single events behind the counters instead of
folding over them, because a fold is out of the provers' reach and the size of a finite set is not; TLC checks, as the assumption
`TotalIsTheSum` of `MC_SameKeyContention`, that it is the sum.

**SameOrderLocks** (10, same order) – `N` participants; `held` is the pair `heldA`, `heldB`. A failed call
leads to `failing`, where `GiveUp` is `Fail` and `break`, straight out of the loop, and `Catch` is an exception
while the message is built; only the latter and the normal end of the block reach `CleanUp`.

**ReverseOrderLocks** (10, reverse order) – two participants, `FirstLocksHeld` as the barrier, unchecked second
acquisitions, the release of whatever is held, and the main thread's checks and recovery (`Join`, `Recover`,
`ReleaseRecovered`). `broken` is the set of expectations that did not hold.

**ConcurrentWaiters** (07, concurrent waiters) – controller and waiters on one interface, which the driver may
not let them use concurrently; `message` is what was recorded first and decides between `pass`, `fail`
and `observed` (the probe's “unsupported” outcome). `AcquireThrows` and `EnterThrows` are messages that cannot be built, `GiveBack` and
`RecordException` the handler.

**TestScripts** – what the experiments of 02, 05, 07 (hand-off, migration), 11, 12 and 14 call, as data: for each test and each
actor (`Main`, threads `A` and `B`, the `Child` process) a sequence of calls. A call names the interface it goes through, the result variable
(`into`), the results that pass (`expect`), whether another one ends the script (`fatal`: `ASSERT_…` and `return`, against `EXPECT_…`), and
the `when` conditions, the `if`s around it.

**ScriptedTests** runs them: `Judge` is what the test does with a result, and there is one action per kind of call:
`AcquireSync`, `ReleaseSync`, `Update`, `Flush`, `Read`, `Start`, `Join`, `SignalOther`, `WaitForOther`, `Terminate`, `ChildExited`,
`ChildTimesOut`, `CloseHandle`, `Reopen` and so on. `Driver` is a parameter. Two of them conform and differ in
what 07 and 11 leave open (may another thread, or another interface of the same device, act for the owner?); nine deviate, each in one
promise. `Notices` says which deviation each test is there for, and `PassMeansConforming` that a pass rules it out.
`setting.prompt` is scheduling that meets every time-out, `setting.callsFail` calls that fail or throw.

**MultithreadContext** (09) – workers, each with a texture of its own, on one context. A call has a beginning and an end
(`BeginUpdate`, `EndUpdate`, `BeginFlush`, `EndFlush`); a protected context lets one in at a time, on an unprotected one calls overlap, and what an
overlapped call leaves in the worker's texture is open. `completed` wraps like the 32-bit counter it is. `Join`, `Validate` and `Report`
are the test, which asserts (protected) or only prints (unprotected).

Operators marked “Mutant of X” are faulty variants of a definition, each a plausible slip in the code it models.
They are used nowhere; putting one in place of X must violate the property named with it in `PROJECT.json`.

## 3. What TLC checks

`tlc -config X.cfg M` in this directory runs one configuration of module `M`. What the environment may do wrong is a
state variable that is chosen in the initial state and never changes (`faults`, `scenario.faults` in `PingPong`, `setting` in `ScriptedTests` and
`MultithreadContext`):
`timeout`, a wait expires while the key is not available; `acquire error` and `release error`, the call fails;
`exception`, an exception in the middle; `map error`; `controller timeout`, the controller of 04 or 07 gives up;
`rejected call`, the driver of 07 refuses concurrent calls; `call error`, any call of 06 fails; `kill`, somebody kills the child;
`create error`, the staging texture of 09 cannot be created. A fault is possible at every call it concerns, not once.
Unless the table says otherwise, a run therefore covers a driver that never fails, failures in which a wait ends only by success or timeout
(everything but `acquire error`), and every failure, and its liveness properties say for which of them they hold.

| Run | Instance | What it shows |
|---|---|---|
| `MC_PingPong` | 4 frames; with and without Flush, mismatches failing or counted | turns exclude and alternate (implements `TokenRing`), flushed frames match, writes stay in the turn, a pass means every frame and nobody kept the mutex; always ends, and passes when nothing fails |
| `MC_ThreeDeviceRing` | N = 3, 3 rounds | implements `TokenRing`; a stage that validates finds its predecessor's signature; a pass means the full ring; always ends, and passes when nothing fails |
| `MC_SameKeyContention` | 3 contenders, 3 rounds | no false overlap, one win per hand-out for the current round, wrong signatures have a cause, counters agree; always ends, and passes when nothing fails, though a contender may starve |
| `MC_SameOrderLocks` | N = 3, 2 rounds | truthful clean-up flags, no circle of waits, a pass leaves fresh mutexes; always ends, and passes when nothing fails |
| `MC_ReverseOrderLocks` | two participants, every set of faults | the circle is real, someone gives up, the main thread finds both mutexes free; always ends |
| `MC_ConcurrentWaiters` | 3 waiters, 3 rounds | one thread in its turn, completions match rounds, an accurate counter, assertions that hold; always ends, and only a false overlap keeps it from passing when nothing fails |
| `MC_CrossProcessPingPong` | 3 iterations; no faults, time-outs and a killed child, all but failing calls, all | implements `TokenRing`; verifiers find what the peer wrote; an abandoned texture is left alone; verdicts are earned and leave no child behind; always ends, and passes when nothing fails |
| `MC_ScriptedTests` | all 15 tests on all 11 drivers with time-out 3; on the conforming ones also 0, 8 and 9 = `INFINITE` of a DWORD 0..9 with `Grace` 5; 2 iterations of 05 | a pass rules out the deviation under test and leaves nobody owning the resource; abandoned surfaces are discarded; every test ends unless it waits with `INFINITE` for something it counts on to expire, and passes when nothing fails |
| `MC_MultithreadContext` | 2 workers, 2 iterations, counter modulo 4; protected and not; no faults, exceptions, all | protected: a mismatch is a failed `Map`, a pass means every frame of every worker, although the counter wraps; both tests end, and pass when nothing fails |
| `MC_SameOrderLocks_Leak` | N = 2, failing acquisitions | **violated**: see section 5 |
| `MC_ReverseOrderLocks_Timeouts` | nothing fails | **violated**: see section 5 |
| `MC_ConcurrentWaiters_Overlap` | 2 waiters, nothing fails | **violated**: see section 5 |

**Bounds.** `Iterations` and `Rounds` bound the loops, as the programs' own options do; nothing else is unbounded.
Two rounds are the least in which a late thread of one round can meet the next, three the least in which a
thread can be a whole round late; the states of a round differ from those of the next only in the counters. In
`MC_ScriptedTests` the DWORD is 0..9 and the grace of 5000 ms is 5, so that the time-outs cover zero (rejected by the parser), an ordinary one,
one whose sum with the grace wraps to less than itself, and `INFINITE`. In `MC_MultithreadContext` the product of
workers and iterations is just what the counter wraps at: 0 = 0 is then compared. The
invariant `TypeOK` is part of three runs; the other modules define theirs, and for 04, 06, 09, the waiters of 07 and the scripted tests it is proved.
`MC_ReverseOrderLocks` is given every subset of the faults, the one constant of its module, so the run is exhaustive.
Three threads are the least in which two can compete while a third is inside.

**Time.** There are no clocks. A wait that cannot be satisfied may time out at any moment, however short, and a
wait that can be satisfied may be satisfied at any moment; which of several waiters a released key wakes is open.
`AcquireFails` with `timeout` requires that the key is not available at that moment.

**Fairness** is weak fairness of every thread separately and of the main thread, as the operating system's
scheduler gives it: a thread that can continue does. A wait whose key is missing can continue by its timeout, which
is why `AlwaysEnds` is stated for environments with timeouts, and, with a pass, for the one without faults. The driver is owed nothing (`DriverSubmits` is never fair), so
what needs a queued write to arrive needs `Flush`. Nobody is owed a killed child (`ChildKilled`) or a reused handle value
(`ReuseHandleValue`), so no execution is made to end by one. A parent process and its child are scheduled separately, like threads. The environment without faults has no timeouts at all, so its half of `AlwaysEnds`
also shows the absence of deadlock in the protocol itself. In 04 and 07 the poll timeout of a contender or waiter is part of the
normal loop and remains enabled.

This takes the timeouts of 04, 07 (waiters) and 10 to be finite, as their defaults are. Their parsers accept `4294967295` as well, which is
`INFINITE`. For the waits of a controller, and of the participants of the same order, that is the environment without timeouts; a
contender or waiter that polls with it, and the circle of the reverse order, would wait for ever, and no run claims otherwise.
In the scripted tests `INFINITE` is modelled. `MayHang` lists the only executions of the scripted tests that need not end: those given `INFINITE`
as a time-out in which a wait is meant to expire or somebody fails to release; `Hang` is their stuttering, so that it is no deadlock.

## 4. What is proved

With TLAPS, for every value of the constants that satisfies the assumptions of the module (any number of
iterations, stages or participants, any environments):

| Theorem | Statement |
|---|---|
| `PingPongProofs!TypeCorrect, TurnsExclude` | types; a thread in its turn owns the mutex |
| `PingPongProofs!ImplementsRing` | `Spec => Ring!Spec` with `N = 2` |
| `PingPongProofs!ConsumerStaysInStep` | the producer is exactly one turn ahead in the consumer's turn |
| `PingPongProofs!FlushMakesFramesMatch, WritesKeepToTheirTurn` | with Flush there is no mismatch, and no GPU write outside the producer's turn |
| `PingPongProofs!KeptTurnFails` | a thread that ends in its turn, keeping the mutex, is a recorded failure |
| `PingPongProofs!PassIsEarned` | a pass means every frame was transferred and nobody kept the mutex |
| `ThreeDeviceRingProofs!TypeCorrect, TurnsExclude, ImplementsRing` | as above, for `N >= 2` stages |
| `ThreeDeviceRingProofs!MismatchesAreReal` | a stage that validates finds its predecessor's signature |
| `ThreeDeviceRingProofs!PassIsEarned` | a pass means the whole ring ran |
| `LockOrderProofs!TypeCorrect, CleanUpIsSafe, BIsUnderA, NoCircle` | the safety of one lock order, for any number of participants |
| `LockOrderProofs!PassLeavesFreshMutexes` | a pass means that every participant played every round and both mutexes are as they were created |
| `LockOrderProofs!CircleIsReal, RecoveryFindsThemFree` | in the reverse order somebody gives up, and the main thread's recovery never waits |
| `CrossProcessPingPongProofs!TypeCorrect, TurnsExclude, ImplementsRing, CountersInOrder` | as for `PingPong`, wherever a process stops, fails or dies |
| `CrossProcessPingPongProofs!MismatchesAreReal` | a process that verifies finds what its peer wrote in the turn before |
| `CrossProcessPingPongProofs!VerdictsAreEarned` | a verdict leaves no child behind unless the clean-up fails; a pass means both completed every frame |
| `CrossProcessPingPongProofs!AbandonedStaysAlone` | once the child died as owner the texture is neither read nor written |
| `SameKeyContentionProofs!TurnsExclude` | the turns of controller and contenders never overlap, for any number of contenders |
| `SameKeyContentionProofs!RoundsStayApart` | a contender signs for the round being played, however late it wins; key 1 is won at most once per hand-out |
| `SameKeyContentionProofs!NoFalseAlarm` | the overlap detector never fires |
| `SameKeyContentionProofs!SignaturesHaveCauses` | a wrong signature was read only after a contender threw |
| `SameKeyContentionProofs!CountersAgree, TypeCorrect` | with no failure recorded, winners, wins, their sum and `active` agree; types |
| `ConcurrentWaitersProofs!TurnsExclude` | at most one of the threads on the one interface is in its turn, for any number of waiters, whatever the driver rejects |
| `ConcurrentWaitersProofs!CountersTellTheTruth` | completions keep pace with rounds and are the sum of the waiters' counters; `active` is never too low, and exact until an overlap |
| `ConcurrentWaitersProofs!CountersAgree, TypeCorrect` | with nothing recorded the counters agree; types, so `active` stays within the number of waiters |
| `MultithreadContextProofs!TypeCorrect, ProtectedCallsExclude, FrameSafe` | types; protected calls exclude each other, and a worker's texture holds the frame it should |
| `MultithreadContextProofs!MismatchesHaveCauses, PassesAreIntact` | a protected mismatch is a failed `Map`; a passing baseline did all the work |
| `ScriptedTestsProofs!CoreSafe` | types; a test goes on only when what it started is over, or it has failed; a mutex is abandoned only until its test discards the resource |
| `ScriptedTestsProofs!AbandonedIsDiscardedAlways` | while a mutex is abandoned nobody is about to update, flush or read its resource |
| `ScriptedTestsProofs!PassMeansGivenBackAlways` | a test that passes leaves no thread or child behind and the mutex neither owned nor abandoned, on every driver |
| `ScriptedTestsProofs!PassMeansConformingAlways` | a test whose calls all work passes only on a driver that keeps the promise the test is about |
| `ScriptedTestsProofs!TypeCorrect` | the types of the scripted tests (`TypeOK`): every actor is at a place of its script, the mutex has a key that some call releases, at most two owners are counted |
| `ScriptedTestsProofs!OwnersAreCounted` | when both threads of experiment 11 are over, `activeOwners` is 0, whatever the driver answered (`EXPECT_EQ(activeOwners.load(), 0u)`, which so can never fail) |

The argument for the modules that implement the ring goes in layers, each cited by the next.

1. *Region.* `RegionInv` adds to the checked invariant that an owner has the turn (`owner = key`: a mutex is
   acquired only with one's own key) and that a thread in its turn still has a round to play. That is inductive, and gives
   types and exclusion.
2. *Refinement.* Under `RegionInv` every step of a thread is a step of the token ring or leaves it alone: acquiring
   is `Take`, releasing `Pass`, the final release of device A `PutBack`.
3. *Order.* The invariant of the abstract ring (`TokenInv`: only the party in turn holds the token, and the parties before it
   are one lap ahead) is kept by `Take` and `Pass` whatever the ring, and comes back through the refinement mapping: since the loop counters *are* `passed`, a thread in its turn knows every other loop counter. This is
   where the turn order of the code is used, and it needs no invariant about program points.
4. *Data.* `FlushInv` (a queued or staged frame belongs to the turn being played) and `TextureInv` (the texture
   holds the signature of the last completed turn unless a failure was recorded) are inductive relative to 3. `TextureInv`
   has to say when the texture may be out of date (after a failure made a stage skip its write) and why no later stage
   then validates: it reads the failure flag after it acquired.
5. *Verdict.* `CountInv`, `NobodyKeeps` and `PassInv` relate leaving the loop without a failure to having played
   every round and given the mutex back.

For `SameOrderLocks` the inductive invariant is local: for each participant, what the flags say and what it owns is
determined by its program point as long as no failure has occurred, and `HeldIsOwned` otherwise. `NoCircularWait` follows because
a participant that waits for A owns nothing: even after failures, a participant that kept A has left its loop.

`PassLeavesFreshMutexes` adds that the counter of completed rounds never runs ahead of the loop counter (`Counts`, so that a participant
with every round counted has left its loop), that nobody abandons a mutex (`NoneAbandoned`) and that nobody moves after a pass (`PassInv`).

For `ReverseOrderLocks`, `ReverseInv` has four parts of its own. `TruthfulFlags` (what is held is owned) and, without release errors, `OwnedIsHeld` (what
is owned is held, until the joins) give `RecoveryNeverWaits`: a participant that is done holds nothing. `AtTheBarrier` says that nobody is past the
barrier while the other one is in front of it, and `CircleHolds` that a participant which has not made its second acquisition still holds its first mutex, so
that the other one cannot have got it. `SomeoneGivesUp` follows at each second acquisition: the last one to return cannot be the second success.

For `CrossProcessPingPong` layers 1 to 3 are those above (`RegionInv`, `ImplementsRing`, `ChildFollows`); a death in the owned region leaves owner
and key alone, so it maps to a stutter of the ring. `TextureInv` is simpler than in the thread experiments because a process that noted a mismatch still
writes. `EndInv` relates exit codes to what the child did, abandonment to its death, and the parent's place after the protocol to its turns.

For `SameKeyContention`, `OwnInv` says who owns the mutex at which program point and needs no counting. `RoundInv` adds that the
announced round stands still while a contender is inside, `CountInv` that `active` counts exactly the contender between its fetch-and-add and
its fetch-and-subtract, and `SignatureInv` follows the signature from the write to the controller's reading, with the exception as the only way out.
`WinInv` does the counting. `Total(wins)` is the loop counter, plus one while the texture already shows this round's signature; each contender's
`wins` is the number of its entries in `winners`, plus one while that signature is its own. What makes this inductive is `Unsigned`: as long as key 1
has not been handed out, or is still to be won, or its winner has not yet signed, the texture cannot show this round, so a winner never overwrites a
signature of its own round, and nobody counts a second win in it. Two lemmas carry the steps: `TotalGrows` (one counter up by one, the total up by one) and
`AppendWinner`. `EndInv` adds that a controller that leaves its loop without a failure has played every round, after which the texture,
whose round is at most `Rounds - 1`, owes nobody a win.

For `ConcurrentWaiters` the mutex cannot say which thread owns it, because all use one interface. `OwnInv` therefore speaks of program counters: two
waiters in their turn are one, a waiter in its turn has the mutex with key 1 while `controllerOwns` is false, and where it is true the
key is 0. `active` is not determined by the program counters, since a waiter that threw on an overlap is never taken off; `ActiveInv`
encloses it between the waiters surely counted and those that may be, with equality until `overlap` is set. `RoundInv` follows the completions through a
round: with key 1 free the round has not been completed, with key 0 free it has; it holds only until an overlap, because a waiter that threw on an overlap gives
key 0 back without completing (`EnterThrows`, `GiveBack`). `TallyInv` is the sum, and `EndInv` says that an overlap is recorded, or about to be, by a waiter the controller still has to join.

For `MultithreadContext`, `CallInv` (a protected context has at most one call in progress, hence no overlapped one) carries `FrameInv` (what a worker's
texture holds at each of its points), and `MainInv` takes that through join, validation and verdict. The wrapping counter plays no part:
that a worker did all its frames follows from its having left its loop while no failure was recorded.

For `ScriptedTests` the state that matters is how far each actor has come in its script, so the proof starts by computing the scripts:
the lemmas named `…Calls` say of each what its calls are, one by one, and of the abandonment test, whose length depends on `Iterations`, what the call
at each place of each round is. `OpDecides`, `StepMoves`, `MutexEffects` and `ResultsChange` then say once what a step may do, so that the invariants
never look at the twenty-odd actions again. They come in four groups: `Core` is inductive by itself, and each of the others together with it.

1. `Core`, for every test: `NobodyLeft` (the call after a start is the wait for what was started, and passing it needs everybody to be over or the
   test to have failed), `FirstInv` (a test begins alone on a fresh resource) and `AbandonInv`: an abandoned mutex exists only in a test with a child and only
   up to a call of `Main` that has no condition and either discards the resource or accepts nothing but `S_OK`, which an abandoned mutex does not return
   (`DiscardAt`, `TestsDiscard`). No call up to it touches data, so no actor is ever at such a call while the mutex is abandoned (`NobodyTouches`): that is
   `AbandonedIsDiscarded`.
2. `BackInv`, for `PassMeansGivenBack`. All tests but two end with a release that has to succeed (`ReleasesLast`). The migration test knows
   it by the result of its last release (`MigrationInv`). The hand-off gives the mutex back in one of three ways, and `HandoffInv` says which one is owed: whoever
   owns the mutex has noted the acquisition and not yet the release (`Owed`), a note is never older than its call (`Fresh`), and thread A
   reads what B noted only after B is done (`AAfterB`), so that its recovery cannot overlap B's attempt. What the test checks then excludes all three.
3. `WatchInv`, for `PassMeansConforming`. Each deviation has a *wire*, the call at which the test notices it: `Tripped` says that `Main` is past that
   call only if the test has failed. What leads up to the wires are the clues: a driver that forgets keys leaves key 0 (`AloneClues`), one that forgets the dead
   abandons nothing (`NeverAbandoned`), one that abandons the released has done so when the child has exited as it should (`ReleasedClues`), and one
   that ignores the owner has let both threads in when they are joined (`BothInside`). The statement assumes what `PassMeansConforming` does: with failing
   calls a deviating driver could be hidden behind a failure the test accepts.
4. `CountInv`, for `TypeCorrect` and `OwnersAreCounted`. The types of the calls (`CallWith`: which interfaces, keys and names a call can mention)
   come from the scripts, join by join and round by round (`ScriptsFit`), and give the type of the mutex. `ActiveInv` says that `activeOwners`, an unsigned counter, is
   the number of threads that are past their `fetch_add`, not yet past their `fetch_sub`, and whose acquisition succeeded: the second condition of an
   attempt reads the same result as the first, so whoever counts itself in counts itself out, and neither is skipped by a failure.

Only model-checked: liveness (every `AlwaysEnds`) and everything that needs `ENABLED`, which TLAPS does not support; and that `Total` is the sum
(induction over data).

Assumed: the keyed mutex behaves as `KeyedMutex` says, atomic operations and flags are
sequentially consistent (the code uses the default memory order), and the `ASSUME`s on the constants.

## 5. Where code and statement disagree

Three runs state what the repository says and are expected to be violated.

* `MC_ConcurrentWaiters_Overlap`. A waiter of experiment 07 calls `ReleaseSync(0)` (line 336) *before*
  `active.fetch_sub(1)` (line 338). In between, the controller can take and hand out the key, and the next waiter finds `active`
  at 1 and reports an overlap that never happened; line 390 expects none. `CountersAreAccurate` says what does hold.
* `MC_ReverseOrderLocks_Timeouts`. `README.md:325` and lines 308–313 of experiment 10 expect both second acquisitions to
  time out. The participant whose wait expires first releases its first mutex at once, and the other one, still waiting for it,
  may acquire it. `SomeoneGivesUp` is the weaker statement that holds: the circle is real, but only one wait is certain to fail.
* `MC_SameOrderLocks_Leak`. In the same-order case of experiment 10 a failed acquisition of B leaves the loop by
  `break`, past the clean-up that would release A (lines 206–211). What the flags promise holds (`HeldIsOwned`), but
  the mutex stays owned and the peer can only time out.

Four observations have no run of their own:

* `README.md:103` says that all potentially blocking calls of experiment 02 use a finite timeout; its option parser accepts `4294967295`, which is
  `INFINITE` (lines 48–55). `MayHang` is the exception this forces on `AlwaysEnds`.
* The parsers of 04 and 07 accept the same value for the poll timeout (lines 83 and 77), and that of 10 for its timeout (line 70). A contender or waiter
  that polls with it misses the stop flag, so the join never returns; in the reverse order of 10 nothing ends the circle.
* `README.md:91` says that experiment 02 checks that acquiring a key while another device owns the resource times out. The
  check (line 99) asks for key 1, which nobody has released, so it would time out on a free mutex too. `Notices` therefore does not list the driver
  that ignores the owner for this test; experiment 11 does notice it.
* `README.md:404` says that the child of experiment 12 is terminated at five protocol points; after its ReleaseSync it returns normally.

## 6. What is abstracted or left out

* A frame, signature or colour is its number (with the stage or contender that wrote it). Comparing all texels
  is one step that matches exactly when the number does. The programs colour frames modulo 256 or by a hash; a frame stale by a
  multiple of that period would match by accident, which the consumer's distance of at most one turn excludes whenever turns
  alternate.
* The texture is written by a thread's commands as a whole; tearing within one copy is not modelled.
* `FailureState::Fail` is one step: the compare-exchange and the message written under the lock. Every reader of the message comes
  after the joins.
* In 04 and 07 an exception in the controller's own loop leaves `RunExperiment` with joinable threads and ends the process
  (`std::terminate`); there is no state after it to speak about. The same holds when the second of two threads cannot be created while
  the first one runs (07, 10, 11): `ScriptedTests!Throw` stands for the first one.
* In 07 an exception after the turn of a waiter, while the message of its failed release is built, records a failure as that message would.
* The signature of 06 and the frames of 09 repeat modulo 256 too; the proved distance of one turn, and the comparison with the last
  frame only, make the frame number enough.
* On an unprotected context a call can only damage the texture of its own worker, never the process; nothing is asserted about
  those runs but that they end.
* In `ScriptedTests` a texture is written or not. Replacing a resource drops the old one with everything it owned. Comparing what
  was read comes directly after reading it.
* Printing and what only feeds a printed line: wait times, `LongestWinningStreak`, `UpdateMax` of 07 (a compare-exchange loop whose callers all own the
  mutex), `ObserveIdentity` and `ReportIdentity` of 11.
* Creation of devices and textures happens before any thread starts and either succeeds or ends the program, except where a test creates
  a resource in the middle, or a child sets itself up while its parent waits: there it is one step that may fail.

**Not modelled**

* `UniqueHandle`: sequential and a few lines; the moment at which a handle is closed is an action of `ScriptedTests`.
* `HResultText`, adapter names and the other formatting; the command line a parent builds and a child parses (it carries the options
  unchanged), `PackLuid`.
* How an option's text becomes a number; the range of time-outs that is accepted is modelled.
* Which adapter is chosen, and the Direct3D calls that create a device or a texture one by one.
* The lock around the message of `FailureState`, since every reader comes after the joins.
* Build files and CTest registration: no run-time state.

## 7. Plan

Done: the core (`KeyedMutex`, `TokenRing`, `PingPong`, `ThreeDeviceRing`, `SameKeyContention`, `SameOrderLocks`, `ReverseOrderLocks`,
`ConcurrentWaiters`); the two processes of 06 with the refinement and its proofs; the scripted tests of 02, 05, 07, 11, 12 and 14 with drivers that
break promises; the shared context of 09; the proofs of section 4. Every safety property the runs check is proved, that of the reverse order through an
instance of its module.

Left: an abstract specification of a hand-out (one winner per round) that `SameKeyContention` and `ConcurrentWaiters` both implement, as `TokenRing`
is for the rings.
