------------------------- MODULE SameKeyContention --------------------------
(***************************************************************************)
(* Same-key contention, experiment 04.  A controller hands key 1 out once  *)
(* per round; several contenders poll for it, and the one that gets it     *)
(* signs the texture with its id and the announced round, counts its win   *)
(* and gives key 0 back.  The controller then checks the signature.        *)
(*                                                                         *)
(* The contenders share atomics with the controller (announcedRound, stop, *)
(* wins, activeContenders, failed), so every atomic access that another    *)
(* thread can observe in between is a step of its own.                     *)
(***************************************************************************)
EXTENDS Integers, Sequences, FiniteSets, KeyedMutex, Tally

CONSTANTS
  Contenders,   \* kContenderCount
  Rounds,       \* options.rounds
  FaultSets     \* the environments to consider, each a subset of FaultKinds

FaultKinds == {"controller timeout", "acquire error", "release error",
               "exception", "map error"}

ASSUME ContendersAssumption == Contenders \in Nat \ {0}
ASSUME RoundsAssumption == Rounds \in Nat \ {0}
ASSUME FaultSetsAssumption == FaultSets \subseteq SUBSET FaultKinds

VARIABLES
  faults,      \* what the environment may do wrong; it never changes
  mutex,       \* the keyed mutex of the shared texture
  cpc,         \* where the controller is
  pc,          \* where each contender is
  round,       \* the controller's loop counter
  announced,   \* announcedRound
  noted,       \* the round each contender has read from announcedRound
  stop,        \* the flag that ends the contenders' polling
  active,      \* activeContenders
  overlap,     \* overlapDetected
  failed,      \* failure.failed
  wins,        \* wins[contenderIndex]
  texture,     \* the signature the shared texture holds
  winners,     \* winnerSequence
  verdict      \* "running" until the contenders are joined

vars == <<faults, mutex, cpc, pc, round, announced, noted, stop, active,
          overlap, failed, wins, texture, winners, verdict>>
controls == <<cpc, round, announced, stop, winners, verdict>>
counters == <<noted, active, overlap, wins, texture>>

Controller == 0
Contender == 1 .. Contenders

Signature(r, c) == [round |-> r, contender |-> c]
Blank == [round |-> -1, contender |-> -1]

\* The controller has made its initial AcquireSync(0); every contender is
\* past the start gate.
Init ==
  /\ faults \in FaultSets
  /\ mutex = AcquiredBy(FreshMutex, Controller)
  /\ cpc = "loop"
  /\ pc = [c \in Contender |-> "loop"]
  /\ round = 0 /\ announced = 0
  /\ noted = [c \in Contender |-> 0]
  /\ stop = FALSE
  /\ active = 0 /\ overlap = FALSE
  /\ failed = FALSE
  /\ wins = [c \in Contender |-> 0]
  /\ texture = Blank
  /\ winners = <<>>
  /\ verdict = "running"

Goto(c, label) == pc' = [pc EXCEPT ![c] = label]

-----------------------------------------------------------------------------
(* A contender.                                                            *)

\* while (!stop.load())
Poll(c) ==
  /\ pc[c] = "loop"
  /\ Goto(c, IF stop THEN "done" ELSE "acquire")
  /\ UNCHANGED <<faults, mutex, failed, controls, counters>>

AcquireSucceeds(c) ==
  /\ pc[c] = "acquire"
  /\ CanAcquire(mutex, 1)
  /\ mutex' = AcquiredBy(mutex, c)
  /\ Goto(c, "enter")
  /\ UNCHANGED <<faults, failed, controls, counters>>

\* WAIT_TIMEOUT after pollTimeoutMs is no failure: continue.
AcquireTimesOut(c) ==
  /\ pc[c] = "acquire"
  /\ ~CanAcquire(mutex, 1)
  /\ Goto(c, "loop")
  /\ UNCHANGED <<faults, mutex, failed, controls, counters>>

AcquireFails(c) ==
  /\ pc[c] = "acquire"
  /\ "acquire error" \in faults
  /\ failed' = TRUE
  /\ Goto(c, "done")
  /\ UNCHANGED <<faults, mutex, controls, counters>>

\* activeContenders.fetch_add(1)
Enter(c) ==
  /\ pc[c] = "enter"
  /\ active' = active + 1
  /\ overlap' = (overlap \/ active # 0)
  /\ failed' = (failed \/ active # 0)
  /\ Goto(c, "note")
  /\ UNCHANGED <<faults, mutex, controls, noted, wins, texture>>

\* announcedRound.load()
NoteRound(c) ==
  /\ pc[c] = "note"
  /\ noted' = [noted EXCEPT ![c] = announced]
  /\ Goto(c, "write")
  /\ UNCHANGED <<faults, mutex, failed, controls, active, overlap, wins,
                 texture>>

\* Mutant of WriteAndCount: the win is not counted.
WriteWithoutCount(c) ==
  /\ pc[c] = "write"
  /\ texture' = Signature(noted[c], c)
  /\ Goto(c, "leave")
  /\ UNCHANGED <<faults, mutex, failed, controls, noted, active, overlap,
                 wins>>

\* WriteSignature (update and flush), then wins[contenderIndex].fetch_add(1).
WriteAndCount(c) ==
  /\ pc[c] = "write"
  /\ texture' = Signature(noted[c], c)
  /\ wins' = [wins EXCEPT ![c] = @ + 1]
  /\ Goto(c, "leave")
  /\ UNCHANGED <<faults, mutex, failed, controls, noted, active, overlap>>

\* Mutant of Leave: the fetch_sub is missing.
LeaveUncounted(c) ==
  /\ pc[c] = "leave"
  /\ Goto(c, "release")
  /\ UNCHANGED <<faults, mutex, failed, controls, counters>>

Leave(c) ==
  /\ pc[c] = "leave"
  /\ active' = active - 1
  /\ Goto(c, "release")
  /\ UNCHANGED <<faults, mutex, failed, controls, noted, overlap, wins,
                 texture>>

\* Mutant of ReleaseSucceeds: the key goes to the next contender.
ReleaseToContenders(c) ==
  /\ pc[c] = "release"
  /\ CanRelease(mutex, c)
  /\ mutex' = ReleasedWith(mutex, 1)
  /\ Goto(c, "loop")
  /\ UNCHANGED <<faults, failed, controls, counters>>

ReleaseSucceeds(c) ==
  /\ pc[c] = "release"
  /\ CanRelease(mutex, c)
  /\ mutex' = ReleasedWith(mutex, 0)
  /\ Goto(c, "loop")
  /\ UNCHANGED <<faults, failed, controls, counters>>

ReleaseFails(c) ==
  /\ pc[c] = "release"
  /\ "release error" \in faults \/ ~CanRelease(mutex, c)
  /\ failed' = TRUE
  /\ Goto(c, "done")
  /\ UNCHANGED <<faults, mutex, controls, counters>>

\* WriteSignature throws.  The handler leaves the region ...
Unwind(c) ==
  /\ pc[c] = "write"
  /\ "exception" \in faults
  /\ active' = active - 1
  /\ Goto(c, "unwind")
  /\ UNCHANGED <<faults, mutex, failed, controls, noted, overlap, wins,
                 texture>>

\* ... gives the key back, without a look at what ReleaseSync returns ...
GiveBack(c) ==
  /\ pc[c] = "unwind"
  /\ \/ CanRelease(mutex, c) /\ mutex' = ReleasedWith(mutex, 0)
     \/ "release error" \in faults /\ UNCHANGED mutex
  /\ Goto(c, "record")
  /\ UNCHANGED <<faults, failed, controls, counters>>

\* ... and only then records the failure.
RecordException(c) ==
  /\ pc[c] = "record"
  /\ failed' = TRUE
  /\ Goto(c, "done")
  /\ UNCHANGED <<faults, mutex, controls, counters>>

ContenderStep(c) ==
  \/ Poll(c)
  \/ AcquireSucceeds(c) \/ AcquireTimesOut(c) \/ AcquireFails(c)
  \/ Enter(c) \/ NoteRound(c) \/ WriteAndCount(c) \/ Leave(c)
  \/ ReleaseSucceeds(c) \/ ReleaseFails(c)
  \/ Unwind(c) \/ GiveBack(c) \/ RecordException(c)

-----------------------------------------------------------------------------
(* The controller.                                                         *)

\* The loop ends after the last round, and on a failure seen at its start.
LeaveLoop ==
  /\ cpc = "loop"
  /\ round >= Rounds \/ failed
  /\ cpc' = "stop"
  /\ UNCHANGED <<faults, mutex, pc, round, announced, stop, failed, winners,
                 verdict, counters>>

\* Mutant of Announce: the store is missing.
AnnounceNothing ==
  /\ cpc = "loop"
  /\ round < Rounds /\ ~failed
  /\ cpc' = "release"
  /\ UNCHANGED <<faults, mutex, pc, round, announced, stop, failed, winners,
                 verdict, counters>>

\* announcedRound.store(round), while no contender can own the mutex.
Announce ==
  /\ cpc = "loop"
  /\ round < Rounds /\ ~failed
  /\ announced' = round
  /\ cpc' = "release"
  /\ UNCHANGED <<faults, mutex, pc, round, stop, failed, winners, verdict,
                 counters>>

HandOut ==
  /\ cpc = "release"
  /\ \/ /\ CanRelease(mutex, Controller)
        /\ mutex' = ReleasedWith(mutex, 1)
        /\ cpc' = "acquire"
        /\ UNCHANGED failed
     \/ /\ "release error" \in faults
        /\ failed' = TRUE
        /\ cpc' = "stop"
        /\ UNCHANGED mutex
  /\ UNCHANGED <<faults, pc, round, announced, stop, winners, verdict,
                 counters>>

\* Mutant of TakeBack: the controller competes for the contenders' key.
TakeBackKeyOne ==
  /\ cpc = "acquire"
  /\ CanAcquire(mutex, 1)
  /\ mutex' = AcquiredBy(mutex, Controller)
  /\ cpc' = "check"
  /\ UNCHANGED <<faults, pc, round, announced, stop, failed, winners, verdict,
                 counters>>

TakeBack ==
  /\ cpc = "acquire"
  /\ CanAcquire(mutex, 0)
  /\ mutex' = AcquiredBy(mutex, Controller)
  /\ cpc' = "check"
  /\ UNCHANGED <<faults, pc, round, announced, stop, failed, winners, verdict,
                 counters>>

TakeBackFails ==
  /\ cpc = "acquire"
  /\ \/ "controller timeout" \in faults /\ ~CanAcquire(mutex, 0)
     \/ "acquire error" \in faults
  /\ failed' = TRUE
  /\ cpc' = "stop"
  /\ UNCHANGED <<faults, mutex, pc, round, announced, stop, winners, verdict,
                 counters>>

\* The second read of failure.failed in a round.
Check ==
  /\ cpc = "check"
  /\ cpc' = IF failed THEN "stop" ELSE "validate"
  /\ UNCHANGED <<faults, mutex, pc, round, announced, stop, failed, winners,
                 verdict, counters>>

\* The texture must carry the round and the id of some contender.
SignatureValid == texture \in {Signature(round, c) : c \in Contender}

Validate ==
  /\ cpc = "validate"
  /\ \/ /\ SignatureValid
        /\ winners' = Append(winners, texture.contender)
        /\ round' = round + 1
        /\ cpc' = "loop"
        /\ UNCHANGED failed
     \/ /\ ~SignatureValid \/ "map error" \in faults
        /\ failed' = TRUE
        /\ cpc' = "stop"
        /\ UNCHANGED <<winners, round>>
  /\ UNCHANGED <<faults, mutex, pc, announced, stop, verdict, counters>>

\* Mutant of StopContenders: the contenders are not told.
StopNobody ==
  /\ cpc = "stop"
  /\ cpc' = "join"
  /\ UNCHANGED <<faults, mutex, pc, round, announced, stop, failed, winners,
                 verdict, counters>>

StopContenders ==
  /\ cpc = "stop"
  /\ stop' = TRUE
  /\ cpc' = "join"
  /\ UNCHANGED <<faults, mutex, pc, round, announced, failed, winners, verdict,
                 counters>>

\* After the joins, the final ReleaseSync(0) of a controller that still owns.
Join ==
  /\ cpc = "join"
  /\ \A c \in Contender : pc[c] = "done"
  /\ cpc' = "report"
  /\ \/ CanRelease(mutex, Controller) /\ mutex' = ReleasedWith(mutex, 0)
                                      /\ UNCHANGED failed
     \/ ~CanRelease(mutex, Controller) /\ UNCHANGED <<mutex, failed>>
     \/ "release error" \in faults /\ mutex.owner = Controller
                                   /\ failed' = TRUE /\ UNCHANGED mutex
  /\ UNCHANGED <<faults, pc, round, announced, stop, winners, verdict,
                 counters>>

WinsOf(c) == Cardinality({i \in DOMAIN winners : winners[i] = c})

\* What the test asserts once no failure was recorded.
CountsAgree ==
  /\ Len(winners) = Rounds
  /\ ~overlap /\ active = 0
  /\ \A c \in Contender : wins[c] = WinsOf(c)
  /\ Total(wins) = Rounds

Report ==
  /\ cpc = "report"
  /\ verdict' = CASE failed -> "fail"
                  [] ~failed /\ CountsAgree -> "pass"
                  [] ~failed /\ ~CountsAgree -> "counts differ"
  /\ cpc' = "end"
  /\ UNCHANGED <<faults, mutex, pc, round, announced, stop, failed, winners,
                 counters>>

Finished ==
  /\ cpc = "end"
  /\ UNCHANGED vars

ControllerStep ==
  \/ LeaveLoop \/ Announce \/ HandOut \/ TakeBack \/ TakeBackFails
  \/ Check \/ Validate \/ StopContenders \/ Join \/ Report

Next == ControllerStep \/ (\E c \in Contender : ContenderStep(c)) \/ Finished

Spec == Init /\ [][Next]_vars

\* Every thread that can run does.  Nothing is assumed about which waiter a
\* released key wakes.  pollTimeoutMs is taken to be finite: a contender that
\* polls with INFINITE, which the parser accepts too, would miss the stop flag.
FairSpec ==
  /\ Spec
  /\ WF_vars(ControllerStep) /\ \A c \in Contender : WF_vars(ContenderStep(c))

-----------------------------------------------------------------------------
\* Between a contender's AcquireSync and its ReleaseSync.
Region == {"enter", "note", "write", "leave", "release", "unwind"}

\* The types of the state.
TypeOK ==
  /\ mutex \in Mutexes(Contender \cup {Controller}, {0, 1})
  /\ cpc \in {"loop", "release", "acquire", "check", "validate", "stop",
              "join", "report", "end"}
  /\ pc \in [Contender -> {"loop", "acquire", "record", "done"} \cup Region]
  /\ round \in 0 .. Rounds /\ announced \in 0 .. (Rounds - 1)
  /\ noted \in [Contender -> 0 .. (Rounds - 1)]
  /\ stop \in BOOLEAN /\ overlap \in BOOLEAN /\ failed \in BOOLEAN
  /\ active \in Nat
  /\ wins \in [Contender -> Nat]
  /\ texture \in [round : 0 .. (Rounds - 1), contender : Contender] \cup {Blank}
  /\ winners \in Seq(Contender) /\ Len(winners) = round
  /\ verdict \in {"running", "fail", "pass", "counts differ"}

\* The overlap detector never raises a false alarm: whatever the contenders
\* and the controller do, no contender finds another one counted as active.
OneContenderInside == ~overlap /\ active <= 1

\* A wrong signature never surprises the controller: it sees one only when a
\* contender threw before signing and has yet to record, or has recorded, its
\* exception.
WrongSignatureHasCause ==
  cpc = "validate" /\ ~SignatureValid
    => failed \/ \E c \in Contender : pc[c] = "record"

\* What a contender has read is what it signs for, the round being played.
SignsForRound == \A c \in Contender : pc[c] = "write" => noted[c] = round

\* Rounds do not mix.  A contender signs for the round that is being played,
\* so a late winner of an earlier round never signs for the wrong one; and key
\* 1 is won at most once per hand-out, however many contenders poll for it.
RoundsDoNotMix ==
  /\ SignsForRound
  /\ Total(wins) <= round + 1
  /\ cpc = "loop" /\ ~failed => Total(wins) = round

\* When no failure is recorded all the counters the test compares agree.
AssertionsHold == verdict # "counts differ"

\* Every execution ends with a verdict, also when all contenders are gone or
\* one of them keeps the mutex.  When nothing fails all rounds are played and
\* the test passes, although any contender may starve.
AlwaysEnds ==
  /\ "controller timeout" \in faults => <>(verdict # "running")
  /\ faults = {} => <>(verdict = "pass")
=============================================================================
