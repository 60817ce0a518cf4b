---------------------- MODULE SameKeyContentionProofs -----------------------
(***************************************************************************)
(* The contention of experiment 04, for any number of contenders and       *)
(* rounds.                                                                 *)
(*                                                                         *)
(* OwnInv says who owns the mutex and with which key, from the program     *)
(* counters; everything else follows from it: RoundInv relates the round   *)
(* announced to the round played, CountInv the active contenders to the    *)
(* program counters, SignatureInv what the controller will read to what    *)
(* the last winner wrote, and WinInv the counted wins to the rounds played *)
(* and to the winners the controller has noted down.                       *)
(***************************************************************************)
EXTENDS SameKeyContention, FiniteSetTheorems, TLAPS

Threads == Contender \cup {Controller}
Labels == {"loop", "acquire", "record", "done"} \cup Region
ControllerLabels == {"loop", "release", "acquire", "check", "validate", "stop",
                     "join", "report", "end"}

LEMMA ThreadIds ==
  /\ Controller \notin Contender /\ NoOwner \notin Threads
  /\ Contender \subseteq Threads /\ Controller \in Threads
BY ContendersAssumption DEF Contender, Controller, NoOwner, Threads

\* A contender between its AcquireSync and its ReleaseSync owns the mutex.
RegionOwnsMutex == \A c \in Contender : pc[c] \in Region => mutex.owner = c

\* The points at which the controller owns the mutex.
ControllerOwnsMutex ==
  cpc \in {"loop", "release", "check", "validate"} => mutex.owner = Controller

\* Only the controller gets the mutex with key 0, only contenders with key 1.
KeyOfOwner ==
  mutex.owner # NoOwner => (mutex.key = 0 <=> mutex.owner = Controller)

OwnInv ==
  /\ mutex \in Mutexes(Threads, {0, 1})
  /\ pc \in [Contender -> Labels]
  /\ cpc \in ControllerLabels
  /\ RegionOwnsMutex /\ ControllerOwnsMutex /\ KeyOfOwner

LEMMA InitOwn ==
  ASSUME Init
  PROVE  OwnInv
<1>1. FreshMutex \in Mutexes(Threads, {0, 1})
  BY DEF FreshMutex, Mutexes
<1>2. /\ mutex \in Mutexes(Threads, {0, 1})
      /\ mutex.owner = Controller /\ mutex.key = 0
  BY <1>1, ThreadIds DEF Init, FreshMutex, AcquiredBy, Mutexes
<1>3. /\ pc \in [Contender -> Labels] /\ cpc = "loop"
      /\ \A c \in Contender : pc[c] = "loop"
  BY DEF Init, Labels
<1> QED
  BY <1>2, <1>3
  DEF OwnInv, RegionOwnsMutex, ControllerOwnsMutex, KeyOfOwner, Region,
      ControllerLabels

LEMMA PcUpdate ==
  ASSUME OwnInv, NEW c \in Contender, NEW l, Goto(c, l)
  PROVE  pc'[c] = l /\ \A d \in Contender : d # c => pc'[d] = pc[d]
BY DEF OwnInv, Goto

\* A contender that does not touch the mutex and enters no turn.
LEMMA MoveKeepsOwn ==
  ASSUME OwnInv, NEW c \in Contender, NEW l \in Labels, Goto(c, l),
         l \in Region => pc[c] \in Region,
         UNCHANGED <<mutex, cpc>>
  PROVE  OwnInv'
<1>1. pc'[c] = l /\ \A d \in Contender : d # c => pc'[d] = pc[d]
  BY PcUpdate
<1>2. pc' \in [Contender -> Labels]
  BY DEF OwnInv, Goto
<1> QED
  BY <1>1, <1>2
  DEF OwnInv, RegionOwnsMutex, ControllerOwnsMutex, KeyOfOwner

\* A contender that gives the key back and leaves its turn.
LEMMA ReleaseKeepsOwn ==
  ASSUME OwnInv, NEW c \in Contender, NEW l \in Labels \ Region, Goto(c, l),
         pc[c] \in Region, mutex' = ReleasedWith(mutex, 0), UNCHANGED cpc
  PROVE  OwnInv'
<1>1. pc'[c] = l /\ \A d \in Contender : d # c => pc'[d] = pc[d]
  BY PcUpdate
<1>2. pc' \in [Contender -> Labels]
  BY DEF OwnInv, Goto
<1>3. mutex' \in Mutexes(Threads, {0, 1}) /\ mutex'.owner = NoOwner
  BY DEF OwnInv, ReleasedWith, Mutexes
<1>4. mutex.owner = c /\ \A d \in Contender : pc'[d] \notin Region
  BY <1>1 DEF OwnInv, RegionOwnsMutex
<1>5. mutex.owner # Controller
  BY <1>4, ThreadIds
<1> QED
  BY <1>2, <1>3, <1>4, <1>5
  DEF OwnInv, RegionOwnsMutex, ControllerOwnsMutex, KeyOfOwner

LEMMA ContenderKeepsOwn ==
  ASSUME OwnInv, NEW c \in Contender, ContenderStep(c)
  PROVE  OwnInv'
<1> USE DEF controls, Labels, Region
<1>1. CASE Poll(c)
  BY <1>1, MoveKeepsOwn DEF Poll
<1>2. CASE AcquireSucceeds(c)
  <2>1. /\ mutex' \in Mutexes(Threads, {0, 1}) /\ mutex'.owner = c
        /\ mutex'.key = 1 /\ mutex.owner = NoOwner /\ cpc' = cpc
    BY <1>2, ThreadIds
    DEF AcquireSucceeds, CanAcquire, OwnInv, AcquiredBy, Mutexes
  <2>2. /\ pc' \in [Contender -> Labels] /\ pc'[c] = "enter"
        /\ \A d \in Contender : d # c => pc'[d] = pc[d]
    BY <1>2 DEF AcquireSucceeds, OwnInv, Goto
  <2>3. \A d \in Contender : pc[d] \notin Region
    BY <2>1, ThreadIds DEF OwnInv, RegionOwnsMutex
  <2> QED
    BY <2>1, <2>2, <2>3, ThreadIds
    DEF OwnInv, RegionOwnsMutex, ControllerOwnsMutex, KeyOfOwner
<1>3. CASE AcquireTimesOut(c)
  BY <1>3, MoveKeepsOwn DEF AcquireTimesOut
<1>4. CASE AcquireFails(c)
  BY <1>4, MoveKeepsOwn DEF AcquireFails
<1>5. CASE Enter(c)
  BY <1>5, MoveKeepsOwn DEF Enter
<1>6. CASE NoteRound(c)
  BY <1>6, MoveKeepsOwn DEF NoteRound
<1>7. CASE WriteAndCount(c)
  BY <1>7, MoveKeepsOwn DEF WriteAndCount
<1>8. CASE Leave(c)
  BY <1>8, MoveKeepsOwn DEF Leave
<1>9. CASE ReleaseSucceeds(c)
  BY <1>9, ReleaseKeepsOwn DEF ReleaseSucceeds
<1>10. CASE ReleaseFails(c)
  BY <1>10, MoveKeepsOwn DEF ReleaseFails
<1>11. CASE Unwind(c)
  BY <1>11, MoveKeepsOwn DEF Unwind
<1>12. CASE GiveBack(c)
  BY <1>12, MoveKeepsOwn, ReleaseKeepsOwn DEF GiveBack
<1>13. CASE RecordException(c)
  BY <1>13, MoveKeepsOwn DEF RecordException
<1> QED
  BY <1>1, <1>2, <1>3, <1>4, <1>5, <1>6, <1>7, <1>8, <1>9, <1>10, <1>11, <1>12,
     <1>13
  DEF ContenderStep

\* A step of the controller that leaves the mutex alone.
LEMMA ControllerMoveKeepsOwn ==
  ASSUME OwnInv, UNCHANGED <<mutex, pc>>,
         cpc' \in {"loop", "release", "check", "validate"} =>
           cpc \in {"loop", "release", "check", "validate"},
         cpc' \in ControllerLabels
  PROVE  OwnInv'
BY DEF OwnInv, RegionOwnsMutex, ControllerOwnsMutex, KeyOfOwner

LEMMA ControllerKeepsOwn ==
  ASSUME OwnInv, ControllerStep
  PROVE  OwnInv'
<1> USE DEF ControllerLabels
<1>1. CASE LeaveLoop
  BY <1>1, ControllerMoveKeepsOwn DEF LeaveLoop
<1>2. CASE Announce
  BY <1>2, ControllerMoveKeepsOwn DEF Announce
<1>3. CASE HandOut
  <2>1. CASE UNCHANGED mutex /\ cpc' = "stop"
    BY <1>3, <2>1, ControllerMoveKeepsOwn DEF HandOut
  <2>2. CASE mutex' = ReleasedWith(mutex, 1) /\ cpc' = "acquire"
    <3>1. /\ mutex' \in Mutexes(Threads, {0, 1}) /\ mutex'.owner = NoOwner
          /\ mutex.owner = Controller /\ UNCHANGED pc
      BY <1>3, <2>2
      DEF HandOut, OwnInv, ControllerOwnsMutex, ReleasedWith, Mutexes
    <3>2. \A c \in Contender : pc[c] \notin Region
      BY <3>1, ThreadIds DEF OwnInv, RegionOwnsMutex
    <3> QED
      BY <2>2, <3>1, <3>2
      DEF OwnInv, RegionOwnsMutex, ControllerOwnsMutex, KeyOfOwner, Region
  <2> QED BY <1>3, <2>1, <2>2 DEF HandOut
<1>4. CASE TakeBack
  <2>1. /\ mutex' \in Mutexes(Threads, {0, 1}) /\ mutex'.owner = Controller
        /\ mutex'.key = 0 /\ mutex.owner = NoOwner
        /\ cpc' = "check" /\ UNCHANGED pc
    BY <1>4, ThreadIds DEF TakeBack, CanAcquire, OwnInv, AcquiredBy, Mutexes
  <2>2. \A c \in Contender : pc[c] \notin Region
    BY <2>1, ThreadIds DEF OwnInv, RegionOwnsMutex
  <2> QED
    BY <2>1, <2>2
    DEF OwnInv, RegionOwnsMutex, ControllerOwnsMutex, KeyOfOwner, Region
<1>5. CASE TakeBackFails
  BY <1>5, ControllerMoveKeepsOwn DEF TakeBackFails
<1>6. CASE Check
  BY <1>6, ControllerMoveKeepsOwn DEF Check
<1>7. CASE Validate
  BY <1>7, ControllerMoveKeepsOwn DEF Validate
<1>8. CASE StopContenders
  BY <1>8, ControllerMoveKeepsOwn DEF StopContenders
<1>9. CASE Join
  <2>1. CASE UNCHANGED mutex
    BY <1>9, <2>1, ControllerMoveKeepsOwn DEF Join
  <2>2. CASE CanRelease(mutex, Controller) /\ mutex' = ReleasedWith(mutex, 0)
    <3>1. mutex' \in Mutexes(Threads, {0, 1}) /\ mutex'.owner = NoOwner
      BY <2>2 DEF OwnInv, ReleasedWith, Mutexes
    <3>2. cpc' = "report" /\ UNCHANGED pc
      BY <1>9 DEF Join
    <3>3. \A c \in Contender : pc[c] \notin Region
      BY <1>9 DEF Join, Region
    <3> QED
      BY <3>1, <3>2, <3>3
      DEF OwnInv, RegionOwnsMutex, ControllerOwnsMutex, KeyOfOwner, Region
  <2> QED BY <1>9, <2>1, <2>2 DEF Join
<1>10. CASE Report
  BY <1>10, ControllerMoveKeepsOwn DEF Report
<1> QED
  BY <1>1, <1>2, <1>3, <1>4, <1>5, <1>6, <1>7, <1>8, <1>9, <1>10
  DEF ControllerStep

LEMMA NextSteps ==
  ASSUME [Next]_vars
  PROVE  \/ ControllerStep \/ \E c \in Contender : ContenderStep(c)
         \/ UNCHANGED vars
BY DEF Next, Finished

\* Who owns the mutex, and with which key, shows in the program counters.
THEOREM OwnSafe == Spec => []OwnInv
<1>1. OwnInv /\ [Next]_vars => OwnInv'
  <2>1. CASE UNCHANGED vars
    BY <2>1
    DEF vars, OwnInv, RegionOwnsMutex, ControllerOwnsMutex, KeyOfOwner
  <2> QED BY <2>1, NextSteps, ControllerKeepsOwn, ContenderKeepsOwn
<1> QED BY InitOwn, <1>1, PTL DEF Spec

\* The turns of contenders and controller never overlap.
THEOREM TurnsExclude == Spec => [](RegionOwnsMutex /\ ControllerOwnsMutex)
BY OwnSafe, PTL DEF OwnInv

-----------------------------------------------------------------------------
(* Rounds.                                                                 *)

\* While a contender can get the mutex, or has it, the round announced is the
\* round played.
RoundInv ==
  /\ round \in 0 .. Rounds /\ announced \in 0 .. (Rounds - 1)
  /\ noted \in [Contender -> 0 .. (Rounds - 1)]
  /\ cpc \in {"release", "acquire", "check", "validate"} => announced = round
  /\ mutex.key = 1 => announced = round
  /\ SignsForRound

\* In its turn a contender has key 1, and the controller is elsewhere.
LEMMA InTurn ==
  ASSUME OwnInv, NEW c \in Contender, pc[c] \in Region
  PROVE  /\ mutex.owner = c /\ mutex.key = 1
         /\ cpc \notin {"loop", "release", "check", "validate"}
         /\ \A d \in Contender : d # c => pc[d] \notin Region
<1>1. mutex.owner = c /\ c # Controller /\ c # NoOwner
  BY ThreadIds DEF OwnInv, RegionOwnsMutex
<1>2. mutex.key \in {0, 1}
  BY DEF OwnInv, Mutexes
<1> QED
  BY <1>1, <1>2 DEF OwnInv, RegionOwnsMutex, ControllerOwnsMutex, KeyOfOwner

\* In its turn the controller has key 0, and no contender is in one.
LEMMA ControllersTurn ==
  ASSUME OwnInv, cpc \in {"loop", "release", "check", "validate"}
  PROVE  /\ mutex.owner = Controller /\ mutex.key = 0
         /\ \A c \in Contender : pc[c] \notin Region
BY ThreadIds
DEF OwnInv, RegionOwnsMutex, ControllerOwnsMutex, KeyOfOwner, NoOwner,
    Controller

LEMMA InitRound ==
  ASSUME Init
  PROVE  RoundInv
<1>1. /\ round = 0 /\ announced = 0 /\ cpc = "loop" /\ mutex.key = 0
      /\ noted = [c \in Contender |-> 0]
      /\ \A c \in Contender : pc[c] = "loop"
  BY DEF Init, FreshMutex, AcquiredBy
<1>2. 0 \in 0 .. Rounds /\ 0 \in 0 .. (Rounds - 1)
  BY RoundsAssumption
<1> QED BY <1>1, <1>2 DEF RoundInv, SignsForRound

\* A contender does not touch the rounds, and never brings key 1 back.
LEMMA ContenderLeavesRounds ==
  ASSUME OwnInv, NEW c \in Contender, ContenderStep(c)
  PROVE  /\ UNCHANGED <<cpc, round, announced, stop, winners, verdict>>
         /\ mutex'.key = 1 => mutex.key = 1
         /\ pc' = [pc EXCEPT ![c] = pc'[c]]
<1>1. UNCHANGED <<cpc, round, announced, stop, winners, verdict>>
  BY DEF ContenderStep, Poll, AcquireSucceeds, AcquireTimesOut, AcquireFails,
         Enter, NoteRound, WriteAndCount, Leave, ReleaseSucceeds, ReleaseFails,
         Unwind, GiveBack, RecordException, controls
<1>2. mutex'.key = 1 => mutex.key = 1
  <2>1. \/ mutex' = mutex \/ mutex' = AcquiredBy(mutex, c)
        \/ mutex' = ReleasedWith(mutex, 0)
    BY DEF ContenderStep, Poll, AcquireSucceeds, AcquireTimesOut, AcquireFails,
           Enter, NoteRound, WriteAndCount, Leave, ReleaseSucceeds,
           ReleaseFails, Unwind, GiveBack, RecordException
  <2> QED
    BY <2>1, ThreadIds DEF OwnInv, AcquiredBy, Mutexes, ReleasedWith
<1>3. pc' = [pc EXCEPT ![c] = pc'[c]]
  BY DEF ContenderStep, Poll, AcquireSucceeds, AcquireTimesOut, AcquireFails,
         Enter, NoteRound, WriteAndCount, Leave, ReleaseSucceeds, ReleaseFails,
         Unwind, GiveBack, RecordException, Goto, OwnInv
<1> QED BY <1>1, <1>2, <1>3

LEMMA ContenderKeepsRound ==
  ASSUME OwnInv, RoundInv, NEW c \in Contender, ContenderStep(c)
  PROVE  RoundInv'
<1>1. /\ UNCHANGED <<cpc, round, announced>>
      /\ mutex'.key = 1 => mutex.key = 1
      /\ \A d \in Contender : d # c => pc'[d] = pc[d]
  BY ContenderLeavesRounds DEF OwnInv
<1>2. CASE NoteRound(c)
  <2>1. pc[c] = "note" /\ noted' = [noted EXCEPT ![c] = announced]
    BY <1>2 DEF NoteRound
  <2>2. announced = round
    BY <2>1, InTurn DEF RoundInv, Region
  <2>3. noted' \in [Contender -> 0 .. (Rounds - 1)]
    BY <2>1 DEF RoundInv
  <2> QED BY <1>1, <2>1, <2>2, <2>3 DEF RoundInv, SignsForRound
<1>3. CASE ~NoteRound(c)
  <2>1. UNCHANGED noted /\ pc'[c] # "write"
    BY <1>3
    DEF ContenderStep, Poll, AcquireSucceeds, AcquireTimesOut, AcquireFails,
        Enter, WriteAndCount, Leave, ReleaseSucceeds, ReleaseFails, Unwind,
        GiveBack, RecordException, Goto, OwnInv, counters
  <2> QED BY <1>1, <2>1 DEF RoundInv, SignsForRound
<1> QED BY <1>2, <1>3

LEMMA ControllerKeepsRound ==
  ASSUME OwnInv, RoundInv, ControllerStep
  PROVE  RoundInv'
<1> USE RoundsAssumption
<1>a. UNCHANGED <<pc, noted>>
  BY DEF ControllerStep, LeaveLoop, Announce, HandOut, TakeBack, TakeBackFails,
         Check, Validate, StopContenders, Join, Report, counters
<1>1. CASE Announce
  <2>1. /\ announced' = round /\ round < Rounds /\ cpc' = "release"
        /\ UNCHANGED <<mutex, round>> /\ cpc = "loop"
    BY <1>1 DEF Announce
  <2>2. mutex.key = 0
    BY <2>1, ControllersTurn
  <2> QED BY <1>a, <2>1, <2>2 DEF RoundInv, SignsForRound
<1>2. CASE HandOut
  <2>1. /\ UNCHANGED <<round, announced>> /\ cpc = "release"
        /\ announced = round /\ cpc' \in {"acquire", "stop"}
    BY <1>2 DEF HandOut, RoundInv
  <2> QED BY <1>a, <2>1 DEF RoundInv, SignsForRound
<1>3. CASE TakeBack
  <2>1. /\ UNCHANGED <<round, announced>> /\ cpc = "acquire"
        /\ announced = round /\ cpc' = "check"
    BY <1>3 DEF TakeBack, RoundInv
  <2> QED BY <1>a, <2>1 DEF RoundInv, SignsForRound
<1>4. CASE Validate
  <2>1. /\ UNCHANGED <<mutex, announced>> /\ cpc = "validate"
        /\ cpc' \in {"loop", "stop"} /\ round' \in {round, round + 1}
    BY <1>4 DEF Validate
  <2>2. /\ mutex.key = 0 /\ \A c \in Contender : pc[c] # "write"
        /\ announced = round
    BY <2>1, ControllersTurn DEF RoundInv, Region
  <2>3. round' \in 0 .. Rounds
    BY <2>1, <2>2 DEF RoundInv
  <2> QED BY <1>a, <2>1, <2>2, <2>3 DEF RoundInv, SignsForRound
<1>5. CASE Join
  <2>1. /\ UNCHANGED <<round, announced>> /\ cpc' = "report"
        /\ mutex' = mutex \/ mutex' = ReleasedWith(mutex, 0)
    BY <1>5 DEF Join
  <2>2. mutex'.key = 1 => mutex.key = 1
    BY <2>1 DEF OwnInv, ReleasedWith, Mutexes
  <2> QED BY <1>a, <2>1, <2>2 DEF RoundInv, SignsForRound
<1>6. CASE LeaveLoop \/ TakeBackFails \/ Check \/ StopContenders \/ Report
  <2>1. /\ UNCHANGED <<mutex, round, announced>>
        /\ cpc' \in {"stop", "join", "end"} \/ cpc = "check"
    BY <1>6 DEF LeaveLoop, TakeBackFails, Check, StopContenders, Report
  <2> QED BY <1>a, <2>1 DEF RoundInv, SignsForRound
<1> QED
  BY <1>1, <1>2, <1>3, <1>4, <1>5, <1>6 DEF ControllerStep

\* Rounds are announced before they are played, and signed for as announced.
THEOREM RoundSafe == Spec => []RoundInv
<1>1. OwnInv /\ RoundInv /\ [Next]_vars => RoundInv'
  <2>1. CASE UNCHANGED vars
    BY <2>1 DEF vars, RoundInv, SignsForRound
  <2> QED BY <2>1, NextSteps, ControllerKeepsRound, ContenderKeepsRound
<1> QED BY InitRound, OwnSafe, <1>1, PTL DEF Spec

-----------------------------------------------------------------------------
(* Counters.                                                               *)

\* The contenders counted in activeContenders.
Counted == {c \in Contender : pc[c] \in {"note", "write", "leave"}}

CountInv == ~overlap /\ active = IF Counted = {} THEN 0 ELSE 1

LEMMA InitCount ==
  ASSUME Init
  PROVE  CountInv
BY DEF Init, CountInv, Counted

LEMMA ContenderKeepsCount ==
  ASSUME OwnInv, CountInv, NEW c \in Contender, ContenderStep(c)
  PROVE  CountInv'
<1>a. \A d \in Contender : d # c => pc'[d] = pc[d]
  BY ContenderLeavesRounds DEF OwnInv
<1>b. ASSUME pc[c] \in Region
      PROVE  /\ Counted \subseteq {c} /\ Counted' \subseteq {c}
  BY <1>a, <1>b, InTurn DEF Counted, Region
<1>1. CASE Enter(c)
  <2>1. pc[c] = "enter" /\ pc'[c] = "note" /\ Counted = {} /\ c \in Counted'
    BY <1>1, <1>b DEF Enter, Goto, OwnInv, Counted, Region
  <2>2. active = 0 /\ active' = 1
    BY <1>1, <2>1 DEF Enter, CountInv
  <2>3. ~overlap'
    BY <1>1, <2>2 DEF Enter, CountInv
  <2> QED BY <2>1, <2>2, <2>3 DEF CountInv
<1>2. CASE Leave(c) \/ Unwind(c)
  <2>1. /\ c \in Counted /\ active' = active - 1 /\ overlap' = overlap
        /\ pc'[c] \in {"release", "unwind"} /\ pc[c] \in Region
    BY <1>2 DEF Leave, Unwind, Goto, OwnInv, Counted, Region
  <2>2. Counted' = {}
    BY <1>b, <2>1 DEF Counted
  <2> QED BY <2>1, <2>2 DEF CountInv
<1>3. CASE ~(Enter(c) \/ Leave(c) \/ Unwind(c))
  <2>1. /\ UNCHANGED <<active, overlap>>
        /\ c \in Counted <=> c \in Counted'
    BY <1>3
    DEF ContenderStep, Poll, AcquireSucceeds, AcquireTimesOut, AcquireFails,
        NoteRound, WriteAndCount, ReleaseSucceeds, ReleaseFails, GiveBack,
        RecordException, Goto, OwnInv, counters, Counted
  <2>2. Counted' = Counted
    BY <1>a, <2>1 DEF Counted
  <2> QED BY <2>1, <2>2 DEF CountInv
<1> QED BY <1>1, <1>2, <1>3

\* The contenders counted are those between their fetch_add and fetch_sub.
THEOREM CountSafe == Spec => []CountInv
<1>1. OwnInv /\ CountInv /\ [Next]_vars => CountInv'
  <2>1. CASE UNCHANGED vars \/ ControllerStep
    <3>1. UNCHANGED <<pc, active, overlap>>
      BY <2>1
      DEF vars, ControllerStep, LeaveLoop, Announce, HandOut, TakeBack,
          TakeBackFails, Check, Validate, StopContenders, Join, Report, counters
    <3> QED BY <3>1 DEF CountInv, Counted
  <2> QED BY <2>1, NextSteps, ContenderKeepsCount
<1> QED BY InitCount, OwnSafe, <1>1, PTL DEF Spec

\* The overlap detector never raises a false alarm.
THEOREM NoFalseAlarm == Spec => []OneContenderInside
<1>1. CountInv => OneContenderInside
  BY DEF CountInv, OneContenderInside
<1> QED BY CountSafe, <1>1, PTL

-----------------------------------------------------------------------------
(* Signatures.                                                             *)

\* The controller will find the signature of this round, or somebody has yet
\* to record an exception, or has recorded it.
Accounted == SignatureValid \/ failed \/ \E c \in Contender : pc[c] = "record"

SignatureInv ==
  /\ \A c \in Contender :
       pc[c] \in {"leave", "release"} => texture = Signature(round, c)
  /\ cpc = "acquire" /\ mutex.key = 0 => Accounted
  /\ cpc \in {"check", "validate"} => Accounted

LEMMA InitSignature ==
  ASSUME Init
  PROVE  SignatureInv
BY DEF Init, SignatureInv

LEMMA ContenderKeepsSignature ==
  ASSUME OwnInv, RoundInv, SignatureInv, NEW c \in Contender, ContenderStep(c)
  PROVE  SignatureInv'
<1>a. /\ UNCHANGED <<cpc, round>>
      /\ \A d \in Contender : d # c => pc'[d] = pc[d]
  BY ContenderLeavesRounds DEF OwnInv
<1>1. CASE WriteAndCount(c)
  <2>1. /\ pc[c] = "write" /\ pc'[c] = "leave" /\ UNCHANGED mutex
        /\ texture' = Signature(round, c)
    BY <1>1 DEF WriteAndCount, Goto, OwnInv, RoundInv, SignsForRound
  <2>2. /\ mutex.key = 1 /\ cpc \notin {"check", "validate"}
        /\ \A d \in Contender : d # c => pc'[d] \notin Region
    BY <1>a, <2>1, InTurn DEF Region
  <2> QED BY <1>a, <2>1, <2>2 DEF SignatureInv, Region, Signature
<1>2. CASE ReleaseSucceeds(c)
  <2>1. pc[c] = "release" /\ pc'[c] = "loop" /\ UNCHANGED <<texture, failed>>
    BY <1>2 DEF ReleaseSucceeds, Goto, OwnInv, counters
  <2>2. texture = Signature(round, c)
    BY <2>1 DEF SignatureInv
  <2>3. SignatureValid'
    BY <1>a, <2>1, <2>2 DEF SignatureValid, Signature
  <2> QED BY <1>a, <2>1, <2>3 DEF SignatureInv, Accounted, Signature
<1>3. CASE GiveBack(c)
  <2>1. pc'[c] = "record" /\ UNCHANGED texture
    BY <1>3 DEF GiveBack, Goto, OwnInv, counters
  <2> QED BY <1>a, <2>1 DEF SignatureInv, Accounted, Signature
<1>4. CASE AcquireFails(c) \/ ReleaseFails(c) \/ RecordException(c)
  <2>1. failed' = TRUE /\ pc'[c] = "done" /\ UNCHANGED texture
    BY <1>4
    DEF AcquireFails, ReleaseFails, RecordException, Goto, OwnInv, counters
  <2> QED BY <1>a, <2>1 DEF SignatureInv, Accounted, Signature
<1>5. CASE AcquireSucceeds(c)
  <2>1. /\ pc'[c] = "enter" /\ mutex'.key = 1 /\ UNCHANGED texture
        /\ mutex.owner = NoOwner
    BY <1>5, ThreadIds
    DEF AcquireSucceeds, CanAcquire, Goto, OwnInv, counters, AcquiredBy,
        Mutexes
  <2>2. cpc \notin {"check", "validate"}
    BY <2>1, ThreadIds DEF OwnInv, ControllerOwnsMutex
  <2> QED BY <1>a, <2>1, <2>2 DEF SignatureInv, Signature
<1>6. CASE Enter(c) \/ NoteRound(c) \/ Leave(c) \/ Unwind(c)
  <2>1. /\ pc[c] \in Region /\ UNCHANGED <<mutex, texture>>
        /\ pc'[c] \in {"note", "write", "release", "unwind"}
        /\ pc'[c] = "release" => pc[c] = "leave"
    BY <1>6 DEF Enter, NoteRound, Leave, Unwind, Goto, OwnInv, Region
  <2>2. mutex.key = 1 /\ cpc \notin {"check", "validate"}
    BY <2>1, InTurn
  <2> QED BY <1>a, <2>1, <2>2 DEF SignatureInv, Signature
<1>7. CASE Poll(c) \/ AcquireTimesOut(c)
  <2>1. /\ UNCHANGED <<mutex, texture, failed>>
        /\ pc[c] \in {"loop", "acquire"} /\ pc'[c] \in {"loop", "acquire", "done"}
    BY <1>7 DEF Poll, AcquireTimesOut, Goto, OwnInv, counters
  <2>2. Accounted => Accounted'
    BY <1>a, <2>1 DEF Accounted, SignatureValid, Signature
  <2> QED BY <1>a, <2>1, <2>2 DEF SignatureInv, Signature
<1> QED
  BY <1>1, <1>2, <1>3, <1>4, <1>5, <1>6, <1>7 DEF ContenderStep

LEMMA ControllerKeepsSignature ==
  ASSUME OwnInv, SignatureInv, ControllerStep
  PROVE  SignatureInv'
<1>a. UNCHANGED <<pc, texture>>
  BY DEF ControllerStep, LeaveLoop, Announce, HandOut, TakeBack, TakeBackFails,
         Check, Validate, StopContenders, Join, Report, counters
<1>1. CASE Validate
  <2>1. cpc = "validate" /\ cpc' \in {"loop", "stop"}
    BY <1>1 DEF Validate
  <2>2. \A c \in Contender : pc[c] \notin Region
    BY <2>1, ControllersTurn
  <2> QED BY <1>a, <2>1, <2>2 DEF SignatureInv, Region
<1>2. CASE HandOut
  <2>1. /\ UNCHANGED round /\ cpc = "release"
        /\ \/ cpc' = "stop"
           \/ cpc' = "acquire" /\ mutex' = ReleasedWith(mutex, 1)
    BY <1>2 DEF HandOut
  <2>2. cpc' = "acquire" => mutex'.key = 1
    BY <2>1 DEF OwnInv, ReleasedWith, Mutexes
  <2> QED BY <1>a, <2>1, <2>2 DEF SignatureInv, Signature
<1>3. CASE TakeBack
  <2>1. /\ UNCHANGED <<round, failed>> /\ cpc = "acquire" /\ mutex.key = 0
        /\ cpc' = "check"
    BY <1>3 DEF TakeBack, CanAcquire
  <2>2. Accounted'
    BY <1>a, <2>1 DEF SignatureInv, Accounted, SignatureValid, Signature
  <2> QED BY <1>a, <2>1, <2>2 DEF SignatureInv, Signature
<1>4. CASE Check
  <2>1. /\ UNCHANGED <<round, failed>> /\ cpc = "check"
        /\ cpc' \in {"stop", "validate"}
    BY <1>4 DEF Check
  <2>2. Accounted'
    BY <1>a, <2>1 DEF SignatureInv, Accounted, SignatureValid, Signature
  <2> QED BY <1>a, <2>1, <2>2 DEF SignatureInv, Signature
<1>5. CASE \/ LeaveLoop \/ Announce \/ TakeBackFails \/ StopContenders
           \/ Join \/ Report
  <2>1. UNCHANGED round /\ cpc' \in {"stop", "release", "join", "report", "end"}
    BY <1>5
    DEF LeaveLoop, Announce, TakeBackFails, StopContenders, Join, Report
  <2> QED BY <1>a, <2>1 DEF SignatureInv, Signature
<1> QED BY <1>1, <1>2, <1>3, <1>4, <1>5 DEF ControllerStep

\* The controller is surprised by a signature only after an exception.
THEOREM SignaturesHaveCauses == Spec => []WrongSignatureHasCause
<1>1. OwnInv /\ RoundInv /\ SignatureInv /\ [Next]_vars => SignatureInv'
  <2>1. CASE UNCHANGED vars
    BY <2>1 DEF vars, SignatureInv, Accounted, SignatureValid, Signature
  <2> QED
    BY <2>1, NextSteps, ControllerKeepsSignature, ContenderKeepsSignature
<1>2. SignatureInv => WrongSignatureHasCause
  BY DEF SignatureInv, Accounted, WrongSignatureHasCause
<1> QED BY InitSignature, OwnSafe, RoundSafe, <1>1, <1>2, PTL DEF Spec

-----------------------------------------------------------------------------
(* Wins.                                                                   *)

\* One counter goes up by one, and so does the total.
LEMMA TotalGrows ==
  ASSUME NEW S, NEW f \in [S -> Nat], NEW x \in S, IsFiniteSet(Events(f)),
         NEW g, g = [f EXCEPT ![x] = @ + 1]
  PROVE  IsFiniteSet(Events(g)) /\ Total(g) = Total(f) + 1
<1> DEFINE e == <<x, f[x] + 1>>
<1>1. \A y \in S : f[y] \in Nat
  OBVIOUS
<1>2. /\ DOMAIN f = S /\ DOMAIN g = S
      /\ \A y \in S : g[y] = IF y = x THEN f[x] + 1 ELSE f[y]
  OBVIOUS
<1>3. 1 .. (f[x] + 1) = (1 .. f[x]) \cup {f[x] + 1}
  BY <1>1
<1>4. e \notin Events(f)
  BY <1>1 DEF Events
<1>5. Events(g) = Events(f) \cup {e}
  <2>1. \A y \in S : {y} \X (1 .. g[y])
                       = ({y} \X (1 .. f[y])) \cup (IF y = x THEN {e} ELSE {})
    BY <1>2, <1>3
  <2> QED BY <1>2, <2>1 DEF Events
<1> HIDE DEF e
<1>6. /\ IsFiniteSet(Events(f) \cup {e})
      /\ Cardinality(Events(f) \cup {e}) = Cardinality(Events(f)) + 1
  BY <1>4, FS_AddElement
<1> QED BY <1>5, <1>6 DEF Total

\* The winner's count in winnerSequence goes up by one, nobody else's does.
LEMMA AppendWinner ==
  ASSUME winners \in Seq(Contender), NEW w \in Contender,
         winners' = Append(winners, w)
  PROVE  \A c \in Contender :
           WinsOf(c)' = WinsOf(c) + IF c = w THEN 1 ELSE 0
<1> TAKE c \in Contender
<1> DEFINE At == {i \in DOMAIN winners : winners[i] = c}
           n == Len(winners) + 1
<1>1. /\ DOMAIN winners = 1 .. Len(winners) /\ Len(winners) \in Nat
      /\ DOMAIN winners' = 1 .. n /\ winners'[n] = w
      /\ \A i \in DOMAIN winners : winners'[i] = winners[i]
  OBVIOUS
<1>2. IsFiniteSet(At) /\ n \notin At
  <2>1. IsFiniteSet(1 .. Len(winners))
    BY <1>1, FS_Interval
  <2> QED BY <1>1, <2>1, FS_Subset
<1>3. {i \in DOMAIN winners' : winners'[i] = c}
        = IF c = w THEN At \cup {n} ELSE At
  BY <1>1
<1>4. WinsOf(c) = Cardinality(At) /\ Cardinality(At) \in Nat
  BY <1>2, FS_CardinalityType DEF WinsOf
<1>5. WinsOf(c)' = Cardinality(IF c = w THEN At \cup {n} ELSE At)
  BY <1>3 DEF WinsOf
<1>6. Cardinality(At \cup {n}) = Cardinality(At) + 1
  BY <1>2, FS_AddElement
<1> HIDE DEF At, n
<1> QED BY <1>4, <1>5, <1>6

LEMMA WinsOfType ==
  ASSUME winners \in Seq(Contender), NEW c \in Contender
  PROVE  WinsOf(c) \in Nat
<1>1. IsFiniteSet(1 .. Len(winners)) /\ DOMAIN winners = 1 .. Len(winners)
  BY FS_Interval
<1> QED BY <1>1, FS_Subset, FS_CardinalityType DEF WinsOf

\* Nobody has signed for the round being played yet: its key was not handed
\* out, or nobody has won it, or its winner has not signed.
Unsigned ==
  \/ cpc \in {"loop", "release"}
  \/ mutex.key = 1 /\ mutex.owner = NoOwner
  \/ \E c \in Contender : pc[c] \in {"enter", "note", "write"}

\* Every win is one of a round that is over, or the one the texture shows.
WinInv ==
  /\ wins \in [Contender -> Nat] /\ IsFiniteSet(Events(wins))
  /\ texture \in [round : 0 .. (Rounds - 1), contender : Contender] \cup {Blank}
  /\ winners \in Seq(Contender)
  /\ Unsigned => ~SignatureValid
  /\ Total(wins) = round + IF SignatureValid THEN 1 ELSE 0
  /\ \A c \in Contender :
       wins[c] = WinsOf(c) + IF texture = Signature(round, c) THEN 1 ELSE 0

LEMMA InitWin ==
  ASSUME Init
  PROVE  WinInv
<1>1. /\ wins \in [Contender -> Nat] /\ \A c \in Contender : wins[c] = 0
      /\ texture = Blank /\ winners = <<>> /\ round = 0
  BY DEF Init
<1>2. Events(wins) = {}
  BY <1>1 DEF Events
<1>3. IsFiniteSet(Events(wins)) /\ Total(wins) = 0
  BY <1>2, FS_EmptySet DEF Total
<1>4. \A c \in Contender : texture # Signature(round, c)
  BY <1>1 DEF Blank, Signature
<1>5. \A c \in Contender : WinsOf(c) = 0
  <2>1. \A c \in Contender : {i \in DOMAIN winners : winners[i] = c} = {}
    BY <1>1
  <2> QED BY <2>1, FS_EmptySet DEF WinsOf
<1>6. winners \in Seq(Contender)
  BY <1>1
<1> QED BY <1>1, <1>3, <1>4, <1>5, <1>6 DEF WinInv, SignatureValid

\* A step that counts no win and ends no round.
LEMMA MoveKeepsWin ==
  ASSUME WinInv, UNCHANGED <<wins, texture, round, winners>>,
         Unsigned' => Unsigned
  PROVE  WinInv'
<1>1. \A c \in Contender : WinsOf(c)' = WinsOf(c)
  BY DEF WinsOf
<1>2. SignatureValid' <=> SignatureValid
  BY DEF SignatureValid, Signature
<1> QED BY <1>1, <1>2 DEF WinInv, Total, Events, Signature

LEMMA ContenderKeepsWin ==
  ASSUME OwnInv, RoundInv, WinInv, NEW c \in Contender, ContenderStep(c)
  PROVE  WinInv'
<1>a. /\ UNCHANGED <<cpc, round, winners>>
      /\ \A d \in Contender : d # c => pc'[d] = pc[d]
  BY ContenderLeavesRounds DEF OwnInv
<1>1. CASE WriteAndCount(c)
  <2>1. /\ pc[c] = "write" /\ pc'[c] = "leave" /\ UNCHANGED mutex
        /\ texture' = Signature(round, c) /\ noted[c] = round
        /\ wins' = [wins EXCEPT ![c] = @ + 1]
    BY <1>1 DEF WriteAndCount, Goto, OwnInv, RoundInv, SignsForRound
  <2>2. ~SignatureValid
    BY <2>1 DEF WinInv, Unsigned
  <2>3. SignatureValid'
    BY <1>a, <2>1 DEF SignatureValid, Signature
  <2>4. ~Unsigned'
    <3>1. /\ mutex'.owner = c /\ cpc' \notin {"loop", "release"}
          /\ \A d \in Contender : d # c => pc'[d] \notin Region
      BY <1>a, <2>1, InTurn DEF Region
    <3> QED BY <2>1, <3>1, ThreadIds DEF Unsigned, Region
  <2>5. /\ wins' \in [Contender -> Nat] /\ IsFiniteSet(Events(wins)')
        /\ Total(wins)' = Total(wins) + 1
    <3>1. IsFiniteSet(Events(wins')) /\ Total(wins') = Total(wins) + 1
      BY <2>1, TotalGrows DEF WinInv
    <3>2. Events(wins)' = Events(wins') /\ Total(wins)' = Total(wins')
      BY DEF Events, Total
    <3> QED BY <2>1, <3>1, <3>2 DEF WinInv
  <2>6. texture' \in [round : 0 .. (Rounds - 1), contender : Contender]
    BY <2>1 DEF RoundInv, Signature
  <2>7. Total(wins) = round
    BY <2>2 DEF WinInv, RoundInv
  <2>8. \A d \in Contender :
          wins'[d] = WinsOf(d)' + IF texture' = Signature(round, d)' THEN 1 ELSE 0
    <3> TAKE d \in Contender
    <3>1. WinsOf(d)' = WinsOf(d)
      BY <1>a DEF WinsOf
    <3>2. texture' = Signature(round, d)' <=> d = c
      BY <1>a, <2>1 DEF Signature
    <3>3. wins[d] = WinsOf(d) + 0
      BY <2>2 DEF WinInv, SignatureValid
    <3>4. wins'[d] = wins[d] + IF d = c THEN 1 ELSE 0
      BY <2>1 DEF WinInv
    <3>5. WinsOf(d) \in Nat
      BY WinsOfType DEF WinInv
    <3> QED BY <3>1, <3>2, <3>3, <3>4, <3>5
  <2>9. Total(wins)' = round' + 1 /\ winners' \in Seq(Contender)
    BY <1>a, <2>5, <2>7 DEF WinInv
  <2> QED BY <2>3, <2>4, <2>5, <2>6, <2>8, <2>9 DEF WinInv
<1>2. CASE ~WriteAndCount(c)
  <2>1. UNCHANGED <<wins, texture>>
    BY <1>2
    DEF ContenderStep, Poll, AcquireSucceeds, AcquireTimesOut, AcquireFails,
        Enter, NoteRound, Leave, ReleaseSucceeds, ReleaseFails, Unwind,
        GiveBack, RecordException, counters
  <2>2. pc'[c] \in {"enter", "note", "write"} => Unsigned
    BY <1>2
    DEF ContenderStep, Poll, AcquireSucceeds, CanAcquire, AcquireTimesOut,
        AcquireFails, Enter, NoteRound, Leave, ReleaseSucceeds, ReleaseFails,
        Unwind, GiveBack, RecordException, Goto, OwnInv, Unsigned
  <2>3. mutex'.key = 1 /\ mutex'.owner = NoOwner => mutex' = mutex
    <3>1. \/ mutex' = mutex \/ mutex' = AcquiredBy(mutex, c)
          \/ mutex' = ReleasedWith(mutex, 0)
      BY DEF ContenderStep, Poll, AcquireSucceeds, AcquireTimesOut,
             AcquireFails, Enter, NoteRound, WriteAndCount, Leave,
             ReleaseSucceeds, ReleaseFails, Unwind, GiveBack, RecordException
    <3>2. /\ AcquiredBy(mutex, c).owner = c /\ c # NoOwner
          /\ ReleasedWith(mutex, 0).key = 0
      BY ThreadIds DEF OwnInv, AcquiredBy, ReleasedWith, Mutexes
    <3> QED BY <3>1, <3>2
  <2>4. Unsigned' => Unsigned
    BY <1>a, <2>2, <2>3 DEF Unsigned
  <2> QED BY <1>a, <2>1, <2>4, MoveKeepsWin
<1> QED BY <1>1, <1>2

LEMMA ControllerKeepsWin ==
  ASSUME OwnInv, RoundInv, WinInv, ControllerStep
  PROVE  WinInv'
<1>a. UNCHANGED <<pc, wins, texture>>
  BY DEF ControllerStep, LeaveLoop, Announce, HandOut, TakeBack, TakeBackFails,
         Check, Validate, StopContenders, Join, Report, counters
<1>1. CASE Validate /\ cpc' = "loop"
  <2>1. /\ SignatureValid /\ round' = round + 1
        /\ winners' = Append(winners, texture.contender)
    BY <1>1 DEF Validate
  <2>2. PICK w \in Contender : texture = Signature(round, w)
    BY <2>1 DEF SignatureValid
  <2>3. texture.round = round /\ texture.contender = w
    BY <2>2 DEF Signature
  <2>4. round \in Nat
    BY RoundsAssumption DEF RoundInv
  <2>5. \A c \in Contender : texture' # Signature(round, c)'
    BY <1>a, <2>1, <2>3, <2>4 DEF Signature
  <2>6. winners' \in Seq(Contender)
    BY <2>1, <2>3 DEF WinInv
  <2>7. \A c \in Contender : WinsOf(c)' = WinsOf(c) + IF c = w THEN 1 ELSE 0
    BY <2>1, <2>3, AppendWinner DEF WinInv
  <2>8. \A c \in Contender : texture = Signature(round, c) <=> c = w
    BY <2>2 DEF Signature
  <2>9. \A c \in Contender : wins'[c] = WinsOf(c)'
    <3>1. \A c \in Contender : wins[c] = WinsOf(c) + IF c = w THEN 1 ELSE 0
      BY <2>8 DEF WinInv
    <3> QED BY <1>a, <2>7, <3>1
  <2>10. Total(wins)' = round' /\ Events(wins)' = Events(wins)
    BY <1>a, <2>1, <2>4 DEF WinInv, Total, Events
  <2>11. \A c \in Contender : wins'[c] = WinsOf(c)' + 0
    BY <1>a, <2>9 DEF WinInv
  <2> QED
    BY <1>a, <2>1, <2>4, <2>5, <2>6, <2>10, <2>11 DEF WinInv, SignatureValid
<1>2. CASE ~(Validate /\ cpc' = "loop")
  <2>1. UNCHANGED <<round, winners>>
    BY <1>2
    DEF ControllerStep, LeaveLoop, Announce, HandOut, TakeBack, TakeBackFails,
        Check, Validate, StopContenders, Join, Report
  <2>2. cpc' \in {"loop", "release"} => cpc = "loop"
    BY <1>2
    DEF ControllerStep, LeaveLoop, Announce, HandOut, TakeBack, TakeBackFails,
        Check, Validate, StopContenders, Join, Report
  <2>3. mutex'.key = 1 /\ mutex'.owner = NoOwner => Unsigned
    <3>1. CASE HandOut
      BY <3>1 DEF HandOut, Unsigned
    <3>2. CASE ~HandOut
      <4>1. \/ mutex' = mutex \/ mutex' = AcquiredBy(mutex, Controller)
            \/ mutex' = ReleasedWith(mutex, 0)
        BY <3>2
        DEF ControllerStep, LeaveLoop, Announce, TakeBack, TakeBackFails,
            Check, Validate, StopContenders, Join, Report
      <4>2. /\ AcquiredBy(mutex, Controller).owner = Controller
            /\ Controller # NoOwner /\ ReleasedWith(mutex, 0).key = 0
        BY ThreadIds DEF OwnInv, AcquiredBy, ReleasedWith, Mutexes
      <4> QED BY <4>1, <4>2 DEF Unsigned
    <3> QED BY <3>1, <3>2
  <2>4. Unsigned' => Unsigned
    BY <1>a, <2>2, <2>3 DEF Unsigned
  <2> QED BY <1>a, <2>1, <2>4, MoveKeepsWin
<1> QED BY <1>1, <1>2

\* Wins, rounds, winners and the signature in the texture go together.
THEOREM WinSafe == Spec => []WinInv
<1>1. OwnInv /\ RoundInv /\ WinInv /\ [Next]_vars => WinInv'
  <2>1. CASE UNCHANGED vars
    BY <2>1, MoveKeepsWin DEF vars, Unsigned
  <2> QED BY <2>1, NextSteps, ControllerKeepsWin, ContenderKeepsWin
<1> QED BY InitWin, OwnSafe, RoundSafe, <1>1, PTL DEF Spec

\* A late winner signs for the round being played, and key 1 is won at most
\* once per hand-out, however many contenders poll for it.
THEOREM RoundsStayApart == Spec => []RoundsDoNotMix
<1>1. RoundInv /\ WinInv => RoundsDoNotMix
  BY RoundsAssumption DEF RoundInv, WinInv, RoundsDoNotMix, Unsigned
<1> QED BY RoundSafe, WinSafe, <1>1, PTL

-----------------------------------------------------------------------------
(* The end of the test.                                                    *)

\* A controller that stops early has seen a failure, and the joined
\* contenders are done.
EndInv ==
  /\ cpc \in {"stop", "join", "report", "end"} /\ ~failed => round = Rounds
  /\ cpc \in {"report", "end"} => \A c \in Contender : pc[c] = "done"
  /\ Len(winners) = round
  /\ verdict \in {"running", "fail", "pass"}
  /\ stop \in BOOLEAN /\ overlap \in BOOLEAN /\ failed \in BOOLEAN

LEMMA InitEnd ==
  ASSUME Init
  PROVE  EndInv
BY DEF Init, EndInv

LEMMA ContenderKeepsEnd ==
  ASSUME OwnInv, EndInv, NEW c \in Contender, ContenderStep(c)
  PROVE  EndInv'
<1>1. UNCHANGED <<cpc, round, stop, winners, verdict>>
  BY ContenderLeavesRounds
<1>2. pc[c] # "done" /\ failed' \in {failed, failed \/ active # 0, TRUE}
      /\ overlap' \in {overlap, overlap \/ active # 0}
  BY DEF ContenderStep, Poll, AcquireSucceeds, AcquireTimesOut, AcquireFails,
         Enter, NoteRound, WriteAndCount, Leave, ReleaseSucceeds, ReleaseFails,
         Unwind, GiveBack, RecordException, counters
<1>3. failed' \in BOOLEAN /\ overlap' \in BOOLEAN /\ (failed => failed')
  BY <1>2 DEF EndInv
<1>4. cpc \notin {"report", "end"}
  BY <1>2 DEF EndInv
<1> QED BY <1>1, <1>3, <1>4 DEF EndInv

LEMMA ControllerKeepsEnd ==
  ASSUME OwnInv, RoundInv, CountInv, WinInv, EndInv, ControllerStep
  PROVE  EndInv'
<1>a. UNCHANGED <<pc, overlap>>
  BY DEF ControllerStep, LeaveLoop, Announce, HandOut, TakeBack, TakeBackFails,
         Check, Validate, StopContenders, Join, Report, counters
<1>1. CASE Report
  <2>1. /\ cpc = "report" /\ cpc' = "end"
        /\ UNCHANGED <<round, stop, failed, winners>>
    BY <1>1 DEF Report
  <2>2. ~failed => CountsAgree
    <3> SUFFICES ASSUME ~failed PROVE CountsAgree
      OBVIOUS
    <3>1. round = Rounds /\ Len(winners) = Rounds
      BY <2>1 DEF EndInv
    <3>2. ~overlap /\ active = 0
      BY <2>1 DEF EndInv, CountInv, Counted
    <3>3. \A c \in Contender : texture # Signature(round, c)
      BY <3>1, RoundsAssumption DEF WinInv, Blank, Signature
    <3>4. ~SignatureValid
      BY <3>3 DEF SignatureValid
    <3>5. Total(wins) = Rounds
      BY <3>1, <3>4, RoundsAssumption DEF WinInv
    <3>6. \A c \in Contender : WinsOf(c) \in Nat
      BY WinsOfType DEF WinInv
    <3>7. \A c \in Contender : wins[c] = WinsOf(c)
      BY <3>3, <3>6 DEF WinInv
    <3> QED BY <3>1, <3>2, <3>5, <3>7 DEF CountsAgree
  <2>3. verdict' \in {"fail", "pass"}
    BY <1>1, <2>2 DEF Report, EndInv
  <2> QED BY <1>a, <2>1, <2>3 DEF EndInv
<1>2. CASE Validate
  <2>1. /\ cpc = "validate" /\ cpc' \in {"loop", "stop"}
        /\ UNCHANGED <<stop, verdict>>
    BY <1>2 DEF Validate
  <2>2. CASE cpc' = "loop"
    <3>1. /\ round' = round + 1 /\ winners' = Append(winners, texture.contender)
          /\ UNCHANGED failed
      BY <1>2, <2>2 DEF Validate
    <3>2. Len(winners') = Len(winners) + 1
      BY <3>1 DEF WinInv
    <3> QED BY <1>a, <2>1, <2>2, <3>1, <3>2 DEF EndInv
  <2>3. CASE cpc' = "stop"
    <3>1. failed' = TRUE /\ UNCHANGED <<round, winners>>
      BY <1>2, <2>3 DEF Validate
    <3> QED BY <1>a, <2>1, <2>3, <3>1 DEF EndInv
  <2> QED BY <2>1, <2>2, <2>3
<1>3. CASE Join
  <2>1. /\ cpc = "join" /\ cpc' = "report"
        /\ \A c \in Contender : pc[c] = "done"
        /\ UNCHANGED <<round, stop, winners, verdict>>
    BY <1>3 DEF Join
  <2>2. CASE UNCHANGED failed
    BY <1>a, <2>1, <2>2 DEF EndInv
  <2>3. CASE failed' = TRUE
    BY <1>a, <2>1, <2>3 DEF EndInv
  <2> QED BY <1>3, <2>2, <2>3 DEF Join
<1>4. CASE LeaveLoop
  <2>1. /\ cpc' = "stop"
        /\ round >= Rounds \/ failed
        /\ UNCHANGED <<round, stop, failed, winners, verdict>>
    BY <1>4 DEF LeaveLoop
  <2>2. ~failed => round = Rounds
    BY <2>1, RoundsAssumption DEF RoundInv
  <2> QED BY <1>a, <2>1, <2>2 DEF EndInv
<1>5. CASE Announce \/ HandOut \/ TakeBack \/ TakeBackFails \/ Check
  <2>1. /\ \/ cpc' \in {"release", "acquire", "check", "validate"}
              /\ UNCHANGED failed
           \/ cpc' = "stop" /\ failed' = TRUE
           \/ cpc' = "stop" /\ failed /\ UNCHANGED failed
        /\ UNCHANGED <<round, stop, winners, verdict>>
    BY <1>5 DEF Announce, HandOut, TakeBack, TakeBackFails, Check
  <2> QED BY <1>a, <2>1 DEF EndInv
<1>6. CASE StopContenders
  <2>1. /\ cpc = "stop" /\ cpc' = "join" /\ stop' = TRUE
        /\ UNCHANGED <<round, failed, winners, verdict>>
    BY <1>6 DEF StopContenders
  <2> QED BY <1>a, <2>1 DEF EndInv
<1> QED BY <1>1, <1>2, <1>3, <1>4, <1>5, <1>6 DEF ControllerStep

\* A test that records no failure has played all its rounds.
THEOREM EndSafe == Spec => []EndInv
<1>1. /\ OwnInv /\ RoundInv /\ CountInv /\ WinInv /\ EndInv /\ [Next]_vars
      => EndInv'
  <2>1. CASE UNCHANGED vars
    BY <2>1 DEF vars, EndInv
  <2> QED BY <2>1, NextSteps, ControllerKeepsEnd, ContenderKeepsEnd
<1> QED
  BY InitEnd, OwnSafe, RoundSafe, CountSafe, WinSafe, <1>1, PTL DEF Spec

\* When no failure is recorded all the counters the test compares agree.
THEOREM CountersAgree == Spec => []AssertionsHold
<1>1. EndInv => AssertionsHold
  BY DEF EndInv, AssertionsHold
<1> QED BY EndSafe, <1>1, PTL

\* The state is well typed; no counter leaves its range.
THEOREM TypeCorrect == Spec => []TypeOK
<1>1. OwnInv /\ RoundInv /\ CountInv /\ WinInv /\ EndInv => TypeOK
  <2> SUFFICES ASSUME OwnInv, RoundInv, CountInv, WinInv, EndInv
               PROVE  TypeOK
    OBVIOUS
  <2>1. /\ mutex \in Mutexes(Threads, {0, 1}) /\ pc \in [Contender -> Labels]
        /\ cpc \in ControllerLabels
    BY DEF OwnInv
  <2>2. /\ active \in Nat /\ wins \in [Contender -> Nat]
        /\ stop \in BOOLEAN /\ overlap \in BOOLEAN /\ failed \in BOOLEAN
        /\ verdict \in {"running", "fail", "pass", "counts differ"}
    BY DEF CountInv, WinInv, EndInv
  <2>3. /\ texture \in [round : 0 .. (Rounds - 1), contender : Contender]
                         \cup {Blank}
        /\ winners \in Seq(Contender) /\ Len(winners) = round
    BY DEF WinInv, EndInv
  <2> QED
    BY <2>1, <2>2, <2>3
    DEF RoundInv, TypeOK, Threads, Labels, ControllerLabels
<1> QED BY OwnSafe, RoundSafe, CountSafe, WinSafe, EndSafe, <1>1, PTL
=============================================================================
