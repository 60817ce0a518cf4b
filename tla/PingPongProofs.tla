--------------------------- MODULE PingPongProofs ---------------------------
(***************************************************************************)
(* The ping-pong of experiments 01, 08 and 13, for every number of frames, *)
(* with and without Flush, and whatever the environment does wrong.        *)
(*                                                                         *)
(* The argument goes in three layers.  RegionInv says who owns the mutex   *)
(* and with which key; it is inductive by itself and makes every step a    *)
(* step of the abstract token ring.  The ring relates the loop counters.   *)
(* FlushInv then follows the frame from the producer's queue through the   *)
(* texture to the consumer's staging copy.                                 *)
(***************************************************************************)
EXTENDS PingPong, TLAPS

\* A thread between its AcquireSync and its ReleaseSync owns the mutex, so
\* the two turns never overlap, whichever of the calls fail.
RegionOwnsMutex == \A t \in Thread : pc[t] \in Region => mutex.owner = t

\* While the consumer looks at the texture for frame f, the producer has
\* completed exactly the turns 0..f: it neither lags nor runs ahead.
ConsumerInStep ==
  pc[Consumer] \in Region => frame[Producer] = frame[Consumer] + 1

\* The mutex is held only in a turn, with the key of its holder.
HolderHasTurn == mutex.owner # NoOwner => mutex.owner = mutex.key

\* A thread past its loop test still has a frame to do.
TurnInBounds ==
  \A t \in Thread : pc[t] \in Region \cup {"acquire"} => frame[t] < Iterations

RegionInv == TypeOK /\ RegionOwnsMutex /\ HolderHasTurn /\ TurnInBounds

LEMMA ThreadIsBinary == Thread = {0, 1}
BY DEF Thread, Producer, Consumer

LEMMA InitRegion ==
  ASSUME Init
  PROVE  RegionInv
<1>1. mutex \in Mutexes(Thread, {0, 1}) /\ mutex.owner = NoOwner
  BY DEF Init, FreshMutex, Mutexes, NoOwner
<1>2. frame \in [Thread -> 0 .. Iterations] /\ \A t \in Thread : frame[t] = 0
  BY IterationsAssumption DEF Init
<1>3. /\ pc \in [Thread -> {"loop", "acquire", "done"} \cup Region]
      /\ \A t \in Thread : pc[t] = "loop"
  BY DEF Init
<1>4. TypeOK
  BY <1>1, <1>2, <1>3 DEF Init, TypeOK
<1> QED
  BY <1>1, <1>3, <1>4
  DEF RegionInv, RegionOwnsMutex, HolderHasTurn, TurnInBounds, Region

\* One thread's step through the loop.
LEMMA ThreadStepKeepsRegion ==
  ASSUME RegionInv, NEW t \in Thread, ThreadStep(t)
  PROVE  RegionInv'
<1> USE ThreadIsBinary, IterationsAssumption
    DEF RegionInv, TypeOK, RegionOwnsMutex, HolderHasTurn, TurnInBounds, Mutexes,
        Region, Frame, gpu, counts, Goto, NoOwner
<1>1. CASE EnterTurn(t)
  BY <1>1 DEF EnterTurn
<1>2. CASE LeaveLoop(t)
  BY <1>2 DEF LeaveLoop
<1>3. CASE AcquireSucceeds(t)
  BY <1>3 DEF AcquireSucceeds, CanAcquire, AcquiredBy, AcquireKey
<1>4. CASE AcquireFails(t)
  BY <1>4 DEF AcquireFails, FailAndStop
<1>5. CASE ReleaseSucceeds(t)
  <2>1. /\ ReleaseKey(t) \in {0, 1}
        /\ mutex' \in Mutexes(Thread, {0, 1})
        /\ mutex'.owner = NoOwner
    <3>1. ReleaseKey(t) \in {0, 1}
      BY DEF ReleaseKey
    <3> QED BY <1>5, <3>1 DEF ReleaseSucceeds, ReleasedWith, Mutexes
  <2>2. \A u \in Thread : pc[u] \in Region => u = t
    BY <1>5 DEF ReleaseSucceeds, CanRelease
  <2>3. /\ frame' \in [Thread -> 0 .. Iterations]
        /\ pc' = [pc EXCEPT ![t] = "loop"]
        /\ \A u \in Thread : u # t => frame'[u] = frame[u]
    BY <1>5 DEF ReleaseSucceeds
  <2> QED BY <1>5, <2>1, <2>2, <2>3 DEF ReleaseSucceeds
<1>6. CASE ReleaseFails(t)
  BY <1>6 DEF ReleaseFails, FailAndStop
<1>7. CASE Throw(t)
  BY <1>7 DEF Throw, FailAndStop
<1> QED BY <1>1, <1>2, <1>3, <1>4, <1>5, <1>6, <1>7 DEF ThreadStep

\* The steps of one thread only, and those of the driver and the main thread.
LEMMA OtherStepKeepsRegion ==
  ASSUME RegionInv,
         \/ Write \/ Flush \/ CopyAndMap \/ MapFails
         \/ ValidateMatch \/ ValidateMismatch
         \/ DriverSubmits \/ Join \/ UNCHANGED vars
  PROVE  RegionInv'
<1> USE ThreadIsBinary, IterationsAssumption
    DEF RegionInv, TypeOK, RegionOwnsMutex, HolderHasTurn, TurnInBounds,
        Region, Frame, NoFrame, gpu, counts, Goto, Producer, Consumer
<1>1. CASE Write
  BY <1>1 DEF Write
<1>2. CASE Flush
  BY <1>2 DEF Flush, SubmitQueue
<1>3. CASE CopyAndMap
  BY <1>3 DEF CopyAndMap
<1>4. CASE MapFails
  BY <1>4 DEF MapFails
<1>5. CASE ValidateMatch
  BY <1>5 DEF ValidateMatch
<1>6. CASE ValidateMismatch
  BY <1>6 DEF ValidateMismatch
<1>7. CASE DriverSubmits
  BY <1>7 DEF DriverSubmits, SubmitQueue
<1>8. CASE Join
  BY <1>8 DEF Join
<1>9. CASE UNCHANGED vars
  BY <1>9 DEF vars
<1> QED BY <1>1, <1>2, <1>3, <1>4, <1>5, <1>6, <1>7, <1>8, <1>9

\* Ownership and counters follow the program points.
THEOREM RegionSafe == Spec => []RegionInv
<1>1. RegionInv /\ [Next]_vars => RegionInv'
  <2> SUFFICES ASSUME RegionInv, [Next]_vars PROVE RegionInv'
    OBVIOUS
  <2> QED
    BY ThreadStepKeepsRegion, OtherStepKeepsRegion, ThreadIsBinary
    DEF Next, ProducerStep, ConsumerStep, Finished, Producer, Consumer
<1> QED BY InitRegion, <1>1, PTL DEF Spec

\* The types of the state, for every number of frames.
THEOREM TypeCorrect == Spec => []TypeOK
BY RegionSafe, PTL DEF RegionInv

\* The two turns never overlap.
THEOREM TurnsExclude == Spec => []RegionOwnsMutex
BY RegionSafe, PTL DEF RegionInv

-----------------------------------------------------------------------------
(* The ping-pong implements the token ring of two parties.                 *)

LEMMA InitIsRingInit == Init => Ring!Init
BY ThreadIsBinary
DEF Init, FreshMutex, NoOwner, Ring!Init, Ring!NoParty, Ring!Party

\* Acquiring takes the token, releasing passes it on, nothing else moves it.
LEMMA ThreadStepIsRingStep ==
  ASSUME RegionInv, NEW t \in Thread, ThreadStep(t)
  PROVE  [Ring!Next]_(Ring!vars)
<1> USE DEF Ring!vars, Ring!Next, Ring!Party, gpu, counts
<1>1. CASE AcquireSucceeds(t)
  <2>1. t \in 0 .. 2 - 1 /\ mutex \in Mutexes(Thread, {0, 1})
    BY ThreadIsBinary DEF RegionInv, TypeOK
  <2>2. Ring!Take(t)
    BY <1>1, <2>1
    DEF AcquireSucceeds, CanAcquire, AcquireKey, NoOwner, Ring!Take,
        Ring!NoParty, AcquiredBy, Mutexes
  <2> QED BY <2>1, <2>2
<1>2. CASE ReleaseSucceeds(t)
  <2>1. /\ t \in 0 .. 2 - 1 /\ mutex \in Mutexes(Thread, {0, 1})
        /\ ReleaseKey(t) \in {0, 1} /\ ReleaseKey(t) = Ring!Successor(t)
    BY ThreadIsBinary DEF RegionInv, TypeOK, ReleaseKey, Ring!Successor
  <2>2. Ring!Pass(t)
    BY <1>2, <2>1
    DEF ReleaseSucceeds, CanRelease, NoOwner, Ring!Pass, Ring!NoParty,
        ReleasedWith, Mutexes
  <2> QED BY <2>1, <2>2
<1>3. CASE EnterTurn(t) \/ LeaveLoop(t)
  BY <1>3 DEF EnterTurn, LeaveLoop
<1>4. CASE AcquireFails(t) \/ ReleaseFails(t) \/ Throw(t)
  BY <1>4 DEF AcquireFails, ReleaseFails, Throw
<1> QED BY <1>1, <1>2, <1>3, <1>4 DEF ThreadStep

\* Every behaviour of the ping-pong, faulty or not, is one of the ring.
THEOREM ImplementsRing == Spec => TakesTurns
<1>1. RegionInv /\ [Next]_vars => [Ring!Next]_(Ring!vars)
  <2> SUFFICES ASSUME RegionInv, [Next]_vars PROVE [Ring!Next]_(Ring!vars)
    OBVIOUS
  <2>1. CASE \E t \in Thread : ThreadStep(t)
    BY <2>1, ThreadStepIsRingStep
  <2>2. CASE \/ Write \/ Flush \/ CopyAndMap \/ MapFails
             \/ ValidateMatch \/ ValidateMismatch
             \/ DriverSubmits \/ Join \/ UNCHANGED vars
    BY <2>2
    DEF Write, Flush, CopyAndMap, MapFails, ValidateMatch, ValidateMismatch,
        DriverSubmits, Join, vars, Ring!vars
  <2> QED
    BY <2>1, <2>2, ThreadIsBinary
    DEF Next, ProducerStep, ConsumerStep, Finished, Producer, Consumer
<1> QED
  BY InitIsRingInit, RegionSafe, <1>1, PTL DEF Spec, TakesTurns, Ring!Spec

\* Only the party whose turn it is holds the token, and the token goes round in
\* order: the invariant of the abstract ring.
TokenInv == Ring!TypeOK /\ Ring!HolderHasTurn /\ Ring!InOrder

LEMMA InitToken ==
  ASSUME Ring!Init
  PROVE  TokenInv
BY DEF Ring!Init, TokenInv, Ring!TypeOK, Ring!HolderHasTurn, Ring!InOrder,
    Ring!Party, Ring!NoParty

LEMMA TakeKeepsToken ==
  ASSUME TokenInv, NEW p \in Ring!Party, Ring!Take(p) \/ Ring!PutBack(p)
  PROVE  TokenInv'
BY DEF Ring!Take, Ring!PutBack, TokenInv, Ring!TypeOK, Ring!HolderHasTurn,
    Ring!InOrder, Ring!Party, Ring!NoParty

\* Passing the token on moves one party from the laggards to the leaders; the
\* last party, by passing it, turns all leaders into laggards again.
LEMMA PassKeepsToken ==
  ASSUME TokenInv, NEW p \in Ring!Party, Ring!Pass(p)
  PROVE  TokenInv'
<1>1. p = mutex.key /\ 1 \in Ring!Party
  BY DEF Ring!Pass, TokenInv, Ring!HolderHasTurn, Ring!NoParty, Ring!Party
<1>2. Ring!TypeOK' /\ Ring!HolderHasTurn'
  BY <1>1
  DEF Ring!Pass, TokenInv, Ring!TypeOK, Ring!HolderHasTurn, Ring!Party,
      Ring!NoParty, Ring!Successor
<1>3. Ring!InOrder'
  <2>1. CASE p = 1
    BY <1>1, <2>1
    DEF Ring!Pass, TokenInv, Ring!TypeOK, Ring!InOrder, Ring!Party,
        Ring!Successor
  <2>2. CASE p # 1
    BY <1>1, <2>2
    DEF Ring!Pass, TokenInv, Ring!TypeOK, Ring!InOrder, Ring!Party,
        Ring!Successor
  <2> QED BY <2>1, <2>2
<1> QED BY <1>2, <1>3 DEF TokenInv

LEMMA TokenStep == TokenInv /\ [Ring!Next]_(Ring!vars) => TokenInv'
<1> SUFFICES ASSUME TokenInv, [Ring!Next]_(Ring!vars) PROVE TokenInv'
  OBVIOUS
<1>1. CASE UNCHANGED Ring!vars
  BY <1>1
  DEF Ring!vars, TokenInv, Ring!TypeOK, Ring!HolderHasTurn, Ring!InOrder
<1>2. CASE Ring!Next
  BY <1>2, TakeKeepsToken, PassKeepsToken DEF Ring!Next
<1> QED BY <1>1, <1>2

\* The loop counters stay within one turn of each other.
THEOREM CountersInOrder == Spec => []Ring!InOrder
<1>1. Spec => []TokenInv
  BY ImplementsRing, InitToken, TokenStep, PTL DEF TakesTurns, Ring!Spec
<1>2. TokenInv => Ring!InOrder
  BY DEF TokenInv
<1> QED BY <1>1, <1>2, PTL

-----------------------------------------------------------------------------
(* With Flush the consumer never sees a wrong frame.                       *)

\* A write is queued only between UpdateSubresource and Flush; from the
\* producer's ReleaseSync to the consumer's the texture holds the frame the
\* producer has just finished.
FlushInv ==
  Flushes =>
    /\ pc[Producer] = "flush" =>
         queued = frame[Producer] \/ (queued = NoFrame /\ texture = frame[Producer])
    /\ pc[Producer] # "flush" => queued = NoFrame
    /\ pc[Producer] = "release" => texture = frame[Producer]
    /\ mutex.key = 1 => texture = frame[Producer] - 1
    /\ pc[Consumer] = "validate" => staged = frame[Consumer]
    /\ mismatches = 0

LEMMA InitFlush ==
  ASSUME Init
  PROVE  FlushInv
BY DEF Init, FlushInv, FreshMutex, Thread, Producer, Consumer

\* While the consumer has the turn, the producer is one frame ahead.
LEMMA ProducerAhead ==
  ASSUME RegionInv, Ring!InOrder, mutex.key = 1
  PROVE  frame[Producer] = frame[Consumer] + 1
BY ThreadIsBinary
DEF Ring!InOrder, Ring!Party, Producer, Consumer, RegionInv, TypeOK

\* The variant of the test does not change while it runs.
LEMMA ThreadStepKeepsScenario ==
  ASSUME NEW t \in Thread, ThreadStep(t)
  PROVE  Flushes' = Flushes
BY DEF ThreadStep, EnterTurn, LeaveLoop, AcquireSucceeds, AcquireFails,
       ReleaseSucceeds, ReleaseFails, Throw, Flushes

LEMMA OtherStepKeepsScenario ==
  ASSUME \/ Write \/ Flush \/ CopyAndMap \/ MapFails
         \/ ValidateMatch \/ ValidateMismatch
         \/ DriverSubmits \/ Join \/ UNCHANGED vars
  PROVE  Flushes' = Flushes
BY DEF Write, Flush, CopyAndMap, MapFails, ValidateMatch, ValidateMismatch,
       DriverSubmits, Join, vars, Flushes

LEMMA ThreadStepKeepsFlush ==
  ASSUME RegionInv, FlushInv, NEW t \in Thread, ThreadStep(t)
  PROVE  FlushInv'
<1> SUFFICES ASSUME Flushes PROVE FlushInv'
  BY ThreadStepKeepsScenario DEF FlushInv
<1> USE ThreadIsBinary
    DEF RegionInv, TypeOK, FlushInv, gpu, counts, Goto, Producer, Consumer
<1>1. CASE EnterTurn(t)
  BY <1>1 DEF EnterTurn
<1>2. CASE LeaveLoop(t)
  BY <1>2 DEF LeaveLoop
<1>3. CASE AcquireSucceeds(t)
  BY <1>3 DEF AcquireSucceeds, AcquiredBy, Mutexes
<1>4. CASE AcquireFails(t)
  BY <1>4 DEF AcquireFails, FailAndStop
<1>5. CASE ReleaseSucceeds(t)
  <2>1. /\ ReleaseKey(t) = 1 - t /\ ReleaseKey(t) \in {0, 1}
        /\ mutex'.key = 1 - t
    <3>1. ReleaseKey(t) = 1 - t /\ ReleaseKey(t) \in {0, 1}
      BY DEF ReleaseKey
    <3> QED BY <1>5, <3>1 DEF ReleaseSucceeds, ReleasedWith, Mutexes
  <2> QED BY <1>5, <2>1 DEF ReleaseSucceeds
<1>6. CASE ReleaseFails(t)
  BY <1>6 DEF ReleaseFails, FailAndStop
<1>7. CASE Throw(t)
  BY <1>7 DEF Throw, FailAndStop
<1> QED BY <1>1, <1>2, <1>3, <1>4, <1>5, <1>6, <1>7 DEF ThreadStep

LEMMA OtherStepKeepsFlush ==
  ASSUME RegionInv, Ring!InOrder, FlushInv,
         \/ Write \/ Flush \/ CopyAndMap \/ MapFails
         \/ ValidateMatch \/ ValidateMismatch
         \/ DriverSubmits \/ Join \/ UNCHANGED vars
  PROVE  FlushInv'
<1> SUFFICES ASSUME Flushes PROVE FlushInv'
  BY OtherStepKeepsScenario DEF FlushInv
<1> USE ThreadIsBinary
    DEF RegionInv, TypeOK, FlushInv, gpu, counts, Goto, Producer, Consumer
<1>1. CASE Write
  <2>1. mutex.key = 0
    BY <1>1 DEF Write, RegionOwnsMutex, HolderHasTurn, Region, NoOwner
  <2> QED BY <1>1, <2>1 DEF Write
<1>2. CASE Flush
  <2>1. mutex.key = 0
    BY <1>2 DEF Flush, RegionOwnsMutex, HolderHasTurn, Region, NoOwner
  <2> QED BY <1>2, <2>1 DEF Flush, SubmitQueue, NoFrame, Frame
<1>3. CASE CopyAndMap
  <2>1. mutex.key = 1
    BY <1>3 DEF CopyAndMap, RegionOwnsMutex, HolderHasTurn, Region, NoOwner
  <2>2. texture = frame[Consumer]
    <3>1. frame[Producer] = frame[Consumer] + 1
      BY <2>1, ProducerAhead
    <3> QED BY <2>1, <3>1
  <2>3. /\ pc'[Producer] = pc[Producer] /\ pc'[Consumer] = "validate"
        /\ staged' = texture
        /\ UNCHANGED <<mutex, frame, texture, queued, mismatches>>
    BY <1>3 DEF CopyAndMap
  <2> QED BY <2>1, <2>2, <2>3
<1>4. CASE MapFails
  <2>1. /\ pc' = [pc EXCEPT ![Consumer] = "release"]
        /\ UNCHANGED <<mutex, frame, texture, queued, staged, mismatches>>
    BY <1>4 DEF MapFails
  <2> QED BY <2>1
<1>5. CASE ValidateMatch
  BY <1>5 DEF ValidateMatch
<1>6. CASE ValidateMismatch
  BY <1>6 DEF ValidateMismatch
<1>7. CASE DriverSubmits
  <2>1. pc[Producer] = "flush" /\ mutex.key = 0
    BY <1>7 DEF DriverSubmits, RegionOwnsMutex, HolderHasTurn, Region, NoOwner
  <2> QED BY <1>7, <2>1 DEF DriverSubmits, SubmitQueue
<1>8. CASE Join
  BY <1>8 DEF Join
<1>9. CASE UNCHANGED vars
  BY <1>9 DEF vars
<1> QED BY <1>1, <1>2, <1>3, <1>4, <1>5, <1>6, <1>7, <1>8, <1>9

\* A frame in flight belongs to the turn that is being played.
THEOREM FlushSafe == Spec => []FlushInv
<1>1. RegionInv /\ Ring!InOrder /\ FlushInv /\ [Next]_vars => FlushInv'
  <2> SUFFICES ASSUME RegionInv, Ring!InOrder, FlushInv, [Next]_vars
               PROVE  FlushInv'
    OBVIOUS
  <2> QED
    BY ThreadStepKeepsFlush, OtherStepKeepsFlush, ThreadIsBinary
    DEF Next, ProducerStep, ConsumerStep, Finished, Producer, Consumer
<1> QED BY InitFlush, RegionSafe, CountersInOrder, <1>1, PTL DEF Spec

\* The producer is exactly one frame ahead during the consumer's turn.
THEOREM ConsumerStaysInStep == Spec => []ConsumerInStep
<1>1. RegionInv /\ Ring!InOrder => ConsumerInStep
  BY ProducerAhead
  DEF RegionInv, RegionOwnsMutex, HolderHasTurn, ConsumerInStep, Thread,
      Consumer, NoOwner
<1> QED BY RegionSafe, CountersInOrder, <1>1, PTL

\* No frame is ever counted as a mismatch when the producer flushes.
THEOREM FlushMakesFramesMatch == Spec => []FlushedFramesMatch
<1>1. FlushInv => FlushedFramesMatch
  BY DEF FlushInv, FlushedFramesMatch
<1> QED BY FlushSafe, <1>1, PTL

\* No queued write reaches the texture outside the producer's turn.
THEOREM WritesKeepToTheirTurn == Spec => WritesStayInTurn
<1>1. RegionInv /\ FlushInv /\ [Next]_vars
        => [Flushes /\ texture' # texture => mutex.owner = Producer]_vars
  <2> SUFFICES ASSUME RegionInv, FlushInv, Next, Flushes, texture' # texture
               PROVE  mutex.owner = Producer
    BY DEF vars
  <2>1. Flush \/ DriverSubmits
    BY DEF Next, ProducerStep, ConsumerStep, ThreadStep, EnterTurn, LeaveLoop,
           AcquireSucceeds, AcquireFails, ReleaseSucceeds, ReleaseFails, Throw,
           Write, CopyAndMap, MapFails, ValidateMatch, ValidateMismatch, Join,
           Finished, vars, gpu, counts
  <2>2. pc[Producer] = "flush"
    BY <2>1 DEF Flush, DriverSubmits, FlushInv
  <2> QED BY <2>2 DEF RegionInv, RegionOwnsMutex, Region, Thread
<1> QED BY RegionSafe, FlushSafe, <1>1, PTL DEF Spec, WritesStayInTurn

-----------------------------------------------------------------------------
(* A pass means that every frame was looked at.                            *)

\* While no failure is recorded a thread ends only after its last frame, and
\* each frame the consumer is through with was counted.
CountInv ==
  /\ ~failed =>
       /\ \A t \in Thread : pc[t] = "done" => frame[t] = Iterations
       /\ matches + mismatches =
            frame[Consumer] + (IF pc[Consumer] = "release" THEN 1 ELSE 0)
  /\ verdict = "pass" => ~failed /\ \A t \in Thread : pc[t] = "done"

LEMMA InitCount ==
  ASSUME Init
  PROVE  CountInv
BY DEF Init, CountInv, Thread, Producer, Consumer

LEMMA ThreadStepKeepsCount ==
  ASSUME RegionInv, CountInv, NEW t \in Thread, ThreadStep(t)
  PROVE  CountInv'
<1> USE ThreadIsBinary, IterationsAssumption
    DEF RegionInv, TypeOK, CountInv, gpu, counts, Goto, Producer, Consumer
<1>1. CASE EnterTurn(t)
  BY <1>1 DEF EnterTurn
<1>2. CASE LeaveLoop(t)
  <2>1. /\ pc' = [pc EXCEPT ![t] = "done"]
        /\ frame[t] = Iterations \/ failed
        /\ UNCHANGED <<frame, failed, matches, mismatches, verdict>>
    BY <1>2 DEF LeaveLoop
  <2> QED BY <1>2, <2>1 DEF LeaveLoop
<1>3. CASE AcquireSucceeds(t)
  BY <1>3 DEF AcquireSucceeds
<1>4. CASE AcquireFails(t)
  BY <1>4 DEF AcquireFails, FailAndStop
<1>5. CASE ReleaseSucceeds(t)
  <2>1. /\ pc[t] = "release" /\ pc' = [pc EXCEPT ![t] = "loop"]
        /\ frame' = [frame EXCEPT ![t] = @ + 1]
        /\ UNCHANGED <<failed, matches, mismatches, verdict>>
    BY <1>5 DEF ReleaseSucceeds
  <2>2. CASE t = 0
    BY <2>1, <2>2
  <2>3. CASE t = 1
    BY <2>1, <2>3
  <2> QED BY <2>2, <2>3
<1>6. CASE ReleaseFails(t)
  BY <1>6 DEF ReleaseFails, FailAndStop
<1>7. CASE Throw(t)
  BY <1>7 DEF Throw, FailAndStop
<1> QED BY <1>1, <1>2, <1>3, <1>4, <1>5, <1>6, <1>7 DEF ThreadStep

LEMMA OtherStepKeepsCount ==
  ASSUME RegionInv, CountInv,
         \/ Write \/ Flush \/ CopyAndMap \/ MapFails
         \/ ValidateMatch \/ ValidateMismatch
         \/ DriverSubmits \/ Join \/ UNCHANGED vars
  PROVE  CountInv'
<1> USE ThreadIsBinary
    DEF RegionInv, TypeOK, CountInv, gpu, counts, Goto, Producer, Consumer
<1>1. CASE Write
  BY <1>1 DEF Write
<1>2. CASE Flush
  BY <1>2 DEF Flush
<1>3. CASE CopyAndMap
  BY <1>3 DEF CopyAndMap
<1>4. CASE MapFails
  BY <1>4 DEF MapFails
<1>5. CASE ValidateMatch
  BY <1>5 DEF ValidateMatch
<1>6. CASE ValidateMismatch
  BY <1>6 DEF ValidateMismatch
<1>7. CASE DriverSubmits
  BY <1>7 DEF DriverSubmits
<1>8. CASE Join
  BY <1>8 DEF Join
<1>9. CASE UNCHANGED vars
  BY <1>9 DEF vars
<1> QED BY <1>1, <1>2, <1>3, <1>4, <1>5, <1>6, <1>7, <1>8, <1>9

\* While no failure is recorded nobody keeps the mutex beyond its turn.
NobodyKeeps ==
  ~failed => \A t \in Thread : mutex.owner = t => pc[t] \in Region

LEMMA ThreadStepKeepsNobody ==
  ASSUME RegionInv, NobodyKeeps, NEW t \in Thread, ThreadStep(t)
  PROVE  NobodyKeeps'
<1> SUFFICES ASSUME ~failed' PROVE NobodyKeeps'
  BY DEF NobodyKeeps
<1>0. /\ mutex \in Mutexes(Thread, {0, 1})
      /\ pc \in [Thread -> {"loop", "acquire", "done"} \cup Region]
  BY DEF RegionInv, TypeOK
<1>1. CASE EnterTurn(t) \/ LeaveLoop(t)
  <2>1. /\ pc[t] = "loop" /\ UNCHANGED <<mutex, failed>>
        /\ \A u \in Thread : u # t => pc'[u] = pc[u]
    BY <1>0, <1>1 DEF EnterTurn, LeaveLoop, Goto
  <2> QED BY <2>1 DEF NobodyKeeps, Region
<1>2. CASE AcquireSucceeds(t)
  <2>1. mutex'.owner = t /\ pc'[t] \in Region
    BY <1>0, <1>2 DEF AcquireSucceeds, Goto, Region, AcquiredBy, Mutexes
  <2> QED BY <2>1 DEF NobodyKeeps
<1>3. CASE ReleaseSucceeds(t)
  <2>1. ReleaseKey(t) \in {0, 1}
    BY ThreadIsBinary DEF ReleaseKey
  <2>2. mutex'.owner = NoOwner
    BY <1>0, <1>3, <2>1 DEF ReleaseSucceeds, ReleasedWith, Mutexes
  <2> QED BY <2>2, ThreadIsBinary DEF NobodyKeeps, NoOwner
<1>4. CASE AcquireFails(t) \/ ReleaseFails(t) \/ Throw(t)
  BY <1>4 DEF AcquireFails, ReleaseFails, Throw, FailAndStop
<1> QED BY <1>1, <1>2, <1>3, <1>4 DEF ThreadStep

LEMMA OtherStepKeepsNobody ==
  ASSUME RegionInv, NobodyKeeps,
         \/ Write \/ Flush \/ CopyAndMap \/ MapFails
         \/ ValidateMatch \/ ValidateMismatch
         \/ DriverSubmits \/ Join \/ UNCHANGED vars
  PROVE  NobodyKeeps'
<1> USE ThreadIsBinary
    DEF RegionInv, TypeOK, NobodyKeeps, Region, Goto, Producer, Consumer
<1>1. CASE Write \/ Flush
  BY <1>1 DEF Write, Flush
<1>2. CASE CopyAndMap \/ MapFails
  BY <1>2 DEF CopyAndMap, MapFails
<1>3. CASE ValidateMatch \/ ValidateMismatch
  BY <1>3 DEF ValidateMatch, ValidateMismatch
<1>4. CASE DriverSubmits \/ Join \/ UNCHANGED vars
  BY <1>4 DEF DriverSubmits, Join, vars
<1> QED BY <1>1, <1>2, <1>3, <1>4

\* A thread that ends in its turn, keeping the mutex, is always a failure.
THEOREM KeptTurnFails == Spec => []NobodyKeeps
<1>1. Init => NobodyKeeps
  BY ThreadIsBinary DEF Init, FreshMutex, NoOwner, NobodyKeeps
<1>2. RegionInv /\ NobodyKeeps /\ [Next]_vars => NobodyKeeps'
  <2> SUFFICES ASSUME RegionInv, NobodyKeeps, [Next]_vars PROVE NobodyKeeps'
    OBVIOUS
  <2> QED
    BY ThreadStepKeepsNobody, OtherStepKeepsNobody, ThreadIsBinary
    DEF Next, ProducerStep, ConsumerStep, Finished, Producer, Consumer
<1> QED BY RegionSafe, <1>1, <1>2, PTL DEF Spec

\* No early exit of either thread ends in a pass.
THEOREM PassIsEarned == Spec => []PassMeansEveryFrame
<1>1. RegionInv /\ CountInv /\ [Next]_vars => CountInv'
  <2> SUFFICES ASSUME RegionInv, CountInv, [Next]_vars PROVE CountInv'
    OBVIOUS
  <2> QED
    BY ThreadStepKeepsCount, OtherStepKeepsCount, ThreadIsBinary
    DEF Next, ProducerStep, ConsumerStep, Finished, Producer, Consumer
<1>2. RegionInv /\ Ring!InOrder /\ CountInv /\ NobodyKeeps
        => PassMeansEveryFrame
  <2> SUFFICES ASSUME RegionInv, Ring!InOrder, CountInv, NobodyKeeps,
                      verdict = "pass"
               PROVE  /\ \A t \in Thread : frame[t] = Iterations
                      /\ matches + mismatches = Iterations
                      /\ mutex.owner = NoOwner /\ mutex.key = 0
    BY DEF PassMeansEveryFrame
  <2>1. /\ ~failed
        /\ \A t \in Thread : pc[t] = "done" /\ frame[t] = Iterations
    BY DEF CountInv
  <2>2. matches + mismatches = Iterations
    BY <2>1 DEF CountInv, RegionInv, TypeOK, Thread, Producer, Consumer
  <2>3. mutex.owner \in Thread \cup {NoOwner} /\ mutex.key \in {0, 1}
    BY DEF RegionInv, TypeOK, Mutexes
  <2>4. mutex.owner = NoOwner
    BY <2>1, <2>3 DEF NobodyKeeps, Region
  <2>5. mutex.key = 0
    <3>1. mutex.key = 1 => frame[Producer] = frame[Consumer] + 1
      BY ProducerAhead
    <3> QED BY <2>1, <2>3, <3>1, IterationsAssumption DEF Thread, Producer, Consumer
  <2> QED BY <2>1, <2>2, <2>4, <2>5
<1> QED
  BY InitCount, RegionSafe, CountersInOrder, KeptTurnFails, <1>1, <1>2, PTL
  DEF Spec
=============================================================================
