--------------------------- MODULE ScriptedTests ----------------------------
(***************************************************************************)
(* The experiments that call one resource in a fixed order and judge every *)
(* result: 02 (key state machine), 05 and 12 (a child process dies at a    *)
(* point of the protocol), 07 (hand-off and migration between two threads  *)
(* on one interface), 11 (two interfaces of one resource) and 14 (lifetime *)
(* of handles and references).  TestScripts holds what they call, this     *)
(* module what a call does.                                                *)
(*                                                                         *)
(* What such a test is worth is what it would notice, so the driver is a   *)
(* parameter: one that keeps the promises the experiments rely on, or one  *)
(* that breaks one of them.                                                *)
(***************************************************************************)
EXTENDS KeyedMutex, TestScripts

CONSTANTS
  MaxDword,     \* the largest DWORD, which AcquireSync takes for INFINITE
  Grace,        \* the 5000 ms a parent waits longer than its child
  Settings      \* tests, drivers and environments to consider

\* Two conforming drivers differ in what experiments 07 and 11 ask: the strict
\* one ties ownership to the interface and the thread that acquired, the lenient
\* one to the device.
Conforming == {"strict", "lenient"}
Deviation == {"ignores-keys", "ignores-owner", "forgets-keys",
              "anyone-releases", "forgets-the-dead", "abandons-the-released",
              "dies-with-handle", "dies-with-creator", "outlives-references"}

ASSUME DwordAssumption == MaxDword \in Nat \ {0} /\ Grace \in 1 .. MaxDword
\* prompt: no time-out expires while a thread or process can still move.
ASSUME SettingsAssumption ==
  Settings \subseteq [test : Test, driver : Conforming \cup Deviation,
                      timeout : 0 .. MaxDword, prompt : BOOLEAN,
                      callsFail : BOOLEAN]

VARIABLES
  setting,    \* what runs where; it never changes
  script,     \* the script of each actor; it never changes
  at,         \* the next call of each actor; 0 before it is started
  results,    \* the result variables
  failed,     \* GoogleTest has recorded a failure
  signals,    \* semaphores released, flags set
  active,     \* activeOwners of experiment 11
  overlap,    \* its overlap flag
  mutex,      \* the keyed mutex of the current resource
  texture,    \* its surface holds the signature
  refs,       \* what keeps the resource alive
  stale       \* what the value of the closed handle denotes

vars == <<setting, script, at, results, failed, signals, active, overlap, mutex,
          texture, refs, stale>>
fixed == <<setting, script>>
resource == <<mutex, texture, refs, stale>>
counts == <<active, overlap>>

Names == {"exit", "acquire", "acquireA", "acquireB", "releaseA", "releaseB",
          "recoveryAcquireA", "recoveryReleaseA", "cleanupA", "acquireAfter",
          "releaseAfter", "crossRelease"}
References == {"handle", "creator", "opened"}

Driver == setting.driver
Current(a) == script[a][at[a]]
Over(a) == at[a] \notin DOMAIN script[a]
Ended == Over(Main)
Passed == Ended /\ ~failed
OthersOver == \A a \in Actor \ {Main} : Over(a)

\* ParseOptions: every positive value that fits is accepted, the largest too.
TimeoutAccepted(t) == t \in 1 .. MaxDword
INFINITE == MaxDword

\* timeoutMs + 5'000 is a DWORD.
WaitLimit(t) == (t + Grace) % (MaxDword + 1)

Init ==
  /\ setting \in {s \in Settings : TimeoutAccepted(s.timeout)}
  /\ script = Script[setting.test]
  /\ at = [a \in Actor |-> IF a = Main THEN 1 ELSE 0]
  /\ results = [n \in Names |-> "E_UNEXPECTED"]
  /\ failed = FALSE
  /\ signals = {}
  /\ active = 0 /\ overlap = FALSE
  /\ mutex = FreshMutex
  /\ texture = FALSE
  /\ refs = References
  /\ stale = "nothing-yet"

-----------------------------------------------------------------------------
(* Making a call and judging its result.                                   *)

Holds(condition) == (results[condition.name] = "S_OK") = condition.ok

\* Actor a is at a call of this kind, and its conditions hold.
Calls(a, op) ==
  /\ ~Over(a)
  /\ Current(a).op = op
  /\ \A condition \in Current(a).when : Holds(condition)

Unexpected(a, result) == result \notin Current(a).expect

\* The call of a returned: keep the result, judge it, go on or end the script.
\* An unexpected result of the child shows in its exit code only.
Judge(a, result) ==
  LET c == Current(a) IN
  /\ results' = IF c.into \in Names THEN [results EXCEPT ![c.into] = result]
                                    ELSE results
  /\ failed' = (failed \/ (a # Child /\ Unexpected(a, result)))
  /\ at' = [at EXCEPT ![a] = IF Unexpected(a, result) /\ c.fatal
                             THEN Len(script[a]) + 1 ELSE @ + 1]
  /\ UNCHANGED fixed

\* What the death of its owner's process makes of a mutex.
AfterDeath(m) ==
  CASE m.owner = InChild /\ Driver = "forgets-the-dead" ->
         [m EXCEPT !.owner = NoOwner]
    [] m.owner = InChild /\ Driver # "forgets-the-dead" ->
         [m EXCEPT !.abandoned = TRUE]
    [] OTHER -> [m EXCEPT !.abandoned = (Driver = "abandons-the-released")]

\* The call of a leaves the mutex in state m; if the child returns from its
\* last call the process is gone.
Leave(a, m) ==
  mutex' = IF a = Child /\ at'[Child] > Len(script[Child])
           THEN AfterDeath(m) ELSE m

\* The condition of an if does not hold.
Skip(a) ==
  /\ ~Over(a)
  /\ \E condition \in Current(a).when : ~Holds(condition)
  /\ at' = [at EXCEPT ![a] = @ + 1]
  /\ UNCHANGED <<fixed, results, failed, signals, counts, resource>>

-----------------------------------------------------------------------------
(* The keyed mutex.                                                        *)

Alive ==
  CASE Driver = "dies-with-handle" -> "handle" \in refs
    [] Driver = "dies-with-creator" -> "creator" \in refs
    [] OTHER -> refs # {}

\* What the driver takes the caller i for.
Identified(i) ==
  IF Driver = "lenient" /\ i \in {FirstFromB, SecondOpen} THEN First ELSE i

Free(k) ==
  CASE Driver = "ignores-keys" -> mutex.owner = NoOwner /\ ~mutex.abandoned
    [] Driver = "ignores-owner" -> mutex.key = k /\ ~mutex.abandoned
    [] OTHER -> CanAcquire(mutex, k)

\* Thread B asks through the interface that thread A used to acquire.
Rejected(i) == i = FirstFromB /\ Driver # "lenient" /\ mutex.owner = First

MayRelease(i) == CanRelease(mutex, Identified(i)) \/ Driver = "anyone-releases"

\* AcquireSync, WaitForSingleObject and the like do not return yet.
Blocked(a) ==
  \/ /\ Calls(a, "acquire")
     /\ Alive /\ ~Rejected(Current(a).by) /\ ~mutex.abandoned
     /\ ~Free(Current(a).key)
  \/ (Calls(a, "wait") \/ Calls(a, "await")) /\ Current(a).into \notin signals
  \/ (Calls(a, "join") \/ Calls(a, "wait-for-child")) /\ ~OthersOver

MayExpire(a) ==
  setting.prompt => \A b \in Actor \ {a} : Over(b) \/ Blocked(b)

AcquireSync(a) ==
  /\ Calls(a, "acquire")
  /\ LET c == Current(a) IN
     \/ /\ Alive /\ ~Rejected(c.by) /\ Free(c.key)
        /\ Judge(a, "S_OK")
        /\ Leave(a, AcquiredBy(mutex, Identified(c.by)))
     \/ /\ Blocked(a) /\ MayExpire(a) /\ setting.timeout # INFINITE
        /\ Judge(a, "WAIT_TIMEOUT")
        /\ Leave(a, mutex)
     \/ /\ Alive /\ mutex.abandoned
        /\ Judge(a, "WAIT_ABANDONED")
        /\ Leave(a, mutex)
     \/ /\ Alive /\ Rejected(c.by)
        /\ Judge(a, "INVALID_CALL")
        /\ Leave(a, mutex)
     \/ /\ ~Alive \/ setting.callsFail
        /\ Judge(a, "E_FAIL")
        /\ Leave(a, mutex)
  /\ UNCHANGED <<signals, counts, texture, refs, stale>>

ReleaseSync(a) ==
  /\ Calls(a, "release")
  /\ LET c == Current(a) IN
     \/ /\ Alive /\ MayRelease(c.by)
        /\ Judge(a, "S_OK")
        /\ Leave(a, ReleasedWith(mutex, IF Driver = "forgets-keys"
                                        THEN 0 ELSE c.key))
     \/ /\ Alive /\ ~MayRelease(c.by)
        /\ Judge(a, "INVALID_CALL")
        /\ Leave(a, mutex)
     \/ /\ ~Alive \/ setting.callsFail
        /\ Judge(a, "E_FAIL")
        /\ Leave(a, mutex)
  /\ UNCHANGED <<signals, counts, texture, refs, stale>>

-----------------------------------------------------------------------------
(* The surface.                                                            *)

\* UpdateSubresource queues the write; the driver may submit it at any time.
Update(a) ==
  /\ Calls(a, "update")
  /\ Judge(a, "S_OK")
  /\ texture' \in {texture, TRUE}
  /\ UNCHANGED <<signals, counts, mutex, refs, stale>>

Flush(a) ==
  /\ Calls(a, "flush")
  /\ Judge(a, "S_OK")
  /\ texture' = TRUE
  /\ UNCHANGED <<signals, counts, mutex, refs, stale>>

\* Copy, map and compare; an exception ends the test whatever it expects.
Read(a) ==
  /\ Calls(a, "read")
  /\ Judge(a, IF texture THEN "S_OK" ELSE "E_FAIL")
  /\ UNCHANGED <<signals, counts, resource>>

\* A helper throws and the test is over.  At "start" this is the first thread
\* that cannot be created: if only a later one cannot, std::terminate ends the
\* whole program, which has no verdict to speak of.
Throw(a) ==
  /\ setting.callsFail
  /\ Calls(a, "read") \/ Calls(a, "create") \/ Calls(a, "start")
  /\ failed' = TRUE
  /\ at' = [at EXCEPT ![a] = Len(script[a]) + 1]
  /\ UNCHANGED <<fixed, results, signals, counts, resource>>

-----------------------------------------------------------------------------
(* Threads.                                                                *)

\* Starts the others, for the first time or again.
Start(a) ==
  /\ Calls(a, "start")
  /\ at' = [b \in Actor |-> IF b = Main THEN at[b] + 1 ELSE 1]
  /\ UNCHANGED <<fixed, results, failed, signals, counts, resource>>

Join(a) ==
  /\ Calls(a, "join") /\ OthersOver
  /\ Judge(a, "S_OK")
  /\ UNCHANGED <<signals, counts, resource>>

\* semaphore.release(), flag = true and notify_all
SignalOther(a) ==
  /\ Calls(a, "signal")
  /\ Judge(a, "S_OK")
  /\ signals' = signals \cup {Current(a).into}
  /\ UNCHANGED <<counts, resource>>

\* semaphore.acquire() takes the signal, condition_variable.wait leaves it.
WaitForOther(a) ==
  /\ Calls(a, "wait") \/ Calls(a, "await")
  /\ Current(a).into \in signals
  /\ Judge(a, "S_OK")
  /\ signals' = IF Calls(a, "wait") THEN signals \ {Current(a).into}
                                    ELSE signals
  /\ UNCHANGED <<counts, resource>>

\* activeOwners.fetch_add(1) != 0, activeOwners.fetch_sub(1)
Enter(a) ==
  /\ Calls(a, "enter")
  /\ Judge(a, "S_OK")
  /\ active' = active + 1
  /\ overlap' = (overlap \/ active # 0)
  /\ UNCHANGED <<signals, resource>>

LeaveOwner(a) ==
  /\ Calls(a, "leave")
  /\ Judge(a, "S_OK")
  /\ active' = active - 1
  /\ UNCHANGED <<signals, overlap, resource>>

\* EXPECT_... and ASSERT_... on results that came earlier.
CheckResult(a) ==
  /\ Calls(a, "check")
  /\ LET c == Current(a) IN Judge(a, results[c.into])
  /\ UNCHANGED <<signals, counts, resource>>

CheckOwners(a) ==
  /\ Calls(a, "check-owners")
  /\ Judge(a, IF /\ ~(results["acquireA"] = "S_OK" /\ results["acquireB"] = "S_OK")
                 /\ ~overlap /\ active = 0
              THEN "S_OK" ELSE "E_FAIL")
  /\ UNCHANGED <<signals, counts, resource>>

-----------------------------------------------------------------------------
(* The child process of experiments 05 and 12.                             *)

\* The adapter, the device and the shared texture of the child.
SetUp(a) ==
  /\ Calls(a, "set-up")
  /\ \/ Judge(a, "S_OK")
     \/ setting.callsFail /\ Judge(a, "E_FAIL")
  /\ Leave(a, mutex)
  /\ UNCHANGED <<signals, counts, texture, refs, stale>>

\* TerminateProcess(GetCurrentProcess(), ...); if it fails the child returns.
Terminate(a) ==
  /\ Calls(a, "terminate")
  /\ \/ Judge(a, "S_OK")
     \/ setting.callsFail /\ Judge(a, "E_FAIL")
  /\ Leave(a, mutex)
  /\ UNCHANGED <<signals, counts, texture, refs, stale>>

\* The child is gone, and ASSERT_EQ compares its exit code.
ChildExited(a) ==
  /\ Calls(a, "wait-for-child") /\ OthersOver
  /\ Judge(a, results["exit"])
  /\ UNCHANGED <<signals, counts, resource>>

\* The wait expires: the parent kills the child and throws.
ChildTimesOut(a) ==
  /\ Calls(a, "wait-for-child") /\ ~OthersOver
  /\ ~setting.prompt \/ WaitLimit(setting.timeout) < setting.timeout
  /\ failed' = TRUE
  /\ at' = [b \in Actor |-> Len(script[b]) + 1]
  /\ mutex' = AfterDeath(mutex)
  /\ UNCHANGED <<fixed, results, signals, counts, texture, refs, stale>>

\* The wait fails: the parent throws, and nobody stops the child.
ChildWaitFails(a) ==
  /\ Calls(a, "wait-for-child")
  /\ setting.callsFail
  /\ Judge(a, "E_UNEXPECTED")
  /\ UNCHANGED <<signals, counts, resource>>

-----------------------------------------------------------------------------
(* Handles and references.                                                 *)

\* handle.reset(), or the end of the scope that owns the handle.
CloseHandle(a) ==
  /\ Calls(a, "close-handle")
  /\ Judge(a, "S_OK")
  /\ refs' = refs \ {"handle"}
  /\ stale' = "nothing"
  /\ UNCHANGED <<signals, counts, mutex, texture>>

\* The system gives the value of a closed handle to another kernel object.
ReuseHandleValue ==
  /\ stale = "nothing" /\ ~Ended
  /\ stale' = "another-object"
  /\ UNCHANGED <<fixed, at, results, failed, signals, counts, mutex, texture,
                 refs>>

DropReference(a) ==
  /\ Calls(a, "drop")
  /\ Judge(a, "S_OK")
  /\ refs' = refs \ {Current(a).into}
  /\ UNCHANGED <<signals, counts, mutex, texture, stale>>

\* OpenSharedResource1 with the value of the closed handle.
Reopen(a) ==
  /\ Calls(a, "reopen")
  /\ Judge(a, IF stale = "resource" \/ Driver = "outlives-references"
              THEN "S_OK" ELSE "E_FAIL")
  /\ UNCHANGED <<signals, counts, resource>>

\* A new resource; the old one is dropped, and the new handle may get the value
\* of the closed one.
CreateFresh(a) ==
  /\ Calls(a, "create")
  /\ Judge(a, "S_OK")
  /\ mutex' = FreshMutex
  /\ texture' = FALSE
  /\ refs' = References
  /\ stale' \in {stale} \cup (IF stale = "nothing" THEN {"resource"} ELSE {})
  /\ UNCHANGED <<signals, counts>>

-----------------------------------------------------------------------------
\* Only the test itself starts others and waits for their end.
Step(a) ==
  \/ Skip(a) \/ AcquireSync(a) \/ ReleaseSync(a)
  \/ Update(a) \/ Flush(a) \/ Read(a) \/ Throw(a)
  \/ a = Main /\ (Start(a) \/ Join(a) \/ ChildExited(a) \/ ChildTimesOut(a)
                      \/ ChildWaitFails(a))
  \/ SignalOther(a) \/ WaitForOther(a)
  \/ Enter(a) \/ LeaveOwner(a) \/ CheckResult(a) \/ CheckOwners(a)
  \/ SetUp(a) \/ Terminate(a)
  \/ CloseHandle(a) \/ DropReference(a) \/ Reopen(a) \/ CreateFresh(a)

Finished == Ended /\ UNCHANGED vars

\* A wait with INFINITE that nobody ends.
Hang == setting.timeout = INFINITE /\ Blocked(Main) /\ UNCHANGED vars

Next == (\E a \in Actor : Step(a)) \/ ReuseHandleValue \/ Finished \/ Hang

Spec == Init /\ [][Next]_vars

\* The operating system schedules every thread and process.
FairSpec == Spec /\ \A a \in Actor : WF_vars(Step(a))

-----------------------------------------------------------------------------
(* Properties.                                                             *)

\* The types of the state.
TypeOK ==
  /\ setting \in Settings /\ script = Script[setting.test]
  /\ \A a \in Actor : at[a] \in 0 .. Len(script[a]) + 1
  /\ results \in [Names -> Result]
  /\ failed \in BOOLEAN /\ overlap \in BOOLEAN
  /\ active \in 0 .. 2
  /\ mutex \in Mutexes(Callers, {0, 1, 9, 42})
  /\ texture \in BOOLEAN
  /\ refs \subseteq References
  /\ stale \in {"nothing-yet", "nothing", "another-object", "resource"}

\* What each test is there to notice.  The key state machine is missing one:
\* its acquisition "while owned" asks for key 1, which would time out on a free
\* mutex too, so it passes on a driver that lets a second owner in.
Notices ==
  CASE setting.test = "key-state-machine" ->
         {"ignores-keys", "forgets-keys", "anyone-releases"}
    [] setting.test \in {"abandonment", "after-acquire", "after-write",
                         "after-flush"} -> {"forgets-the-dead"}
    [] setting.test \in {"before-acquire", "after-release"} ->
         {"abandons-the-released"}
    [] setting.test = "concurrent-acquire" -> {"ignores-owner"}
    [] setting.test = "handle-closed" -> {"dies-with-handle"}
    [] setting.test = "creator-destroyed" -> {"dies-with-creator"}
    [] setting.test = "last-reference" -> {"outlives-references"}
    [] OTHER -> {}

\* A test that passes has seen a driver that keeps the promise the test is
\* about, in whatever order its threads ran: no unexpected result is lost
\* between the threads, EXPECT_... and ASSERT_....
PassMeansConforming == Passed /\ ~setting.callsFail => Driver \notin Notices

\* A test that passes has left no thread or process behind and nobody owning
\* the resource, whichever of its threads had to clean up.
PassMeansGivenBack ==
  Passed => OthersOver /\ mutex.owner = NoOwner /\ ~mutex.abandoned

\* Once a process has died owning the resource, nobody is about to write its
\* surface or to look at it: the next such call finds a fresh resource, or is
\* never made.
AbandonedIsDiscarded ==
  mutex.abandoned =>
    \A a \in Actor :
      ~(Calls(a, "update") \/ Calls(a, "flush") \/ Calls(a, "read"))

\* A driver that keeps its promises, scheduling that meets the time-outs, and
\* time-outs that leave the parent its grace.
NothingFails ==
  /\ Driver \in Conforming /\ setting.prompt /\ ~setting.callsFail
  /\ setting.timeout + Grace <= MaxDword

\* INFINITE is accepted as a time-out, and two tests count on a wait that
\* expires.
MayHang ==
  /\ setting.timeout = INFINITE
  /\ \/ setting.test \in {"key-state-machine", "concurrent-acquire"}
     \/ Driver \in Deviation \/ setting.callsFail

\* Every other test ends, whatever fails, and it passes when nothing does: no
\* thread misses a signal, whoever moves first.
AlwaysEnds ==
  /\ MayHang \/ <>Ended
  /\ NothingFails => <>Passed
=============================================================================
