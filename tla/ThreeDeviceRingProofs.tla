----------------------- MODULE ThreeDeviceRingProofs ------------------------
(***************************************************************************)
(* The key ring of experiment 03, for every number of stages and frames    *)
(* and whatever the environment does wrong.                                *)
(*                                                                         *)
(* RegionInv says which stage owns the mutex and which key it was given;   *)
(* it makes every step one of the abstract token ring, which relates the   *)
(* loop counters.  TextureInv then says what the texture holds for as long *)
(* as no stage has failed, and what a stage that has started to validate   *)
(* may still rely on after another one has failed.                         *)
(***************************************************************************)
EXTENDS ThreeDeviceRing, TLAPS

\* A stage in its turn owns the mutex, so two turns never overlap, whichever
\* stages have timed out, thrown or kept the mutex.
RegionOwnsMutex == \A s \in Stage : pc[s] \in Region => mutex.owner = s

\* The mutex is held only in a turn, with the key of its holder.
HolderHasTurn == mutex.owner # NoOwner => mutex.owner = mutex.key

FinalTurn == {"final acquire", "final check", "final validate",
              "final release"}
OwnTurn == {"acquire", "check", "validate", "decide", "write", "release"}

\* A stage past its loop test still has a frame to do, and only device A
\* takes the final turn.
TurnInBounds ==
  \A s \in Stage : /\ pc[s] \in OwnTurn => frame[s] < Iterations
                   /\ pc[s] \in FinalTurn => s = 0

RegionInv == TypeOK /\ RegionOwnsMutex /\ HolderHasTurn /\ TurnInBounds

LEMMA StageFacts ==
  /\ Stage \subseteq Nat /\ -1 \notin Stage /\ 0 \in Stage /\ N - 1 \in Stage
  /\ \A s \in Stage : Successor(s) \in Stage /\ Predecessor(s) \in Stage
BY NAssumption DEF Stage, Successor, Predecessor

LEMMA SignatureType ==
  ASSUME NEW s \in Stage, NEW f \in 0 .. Iterations, f < Iterations
  PROVE  Signature(f, s) \in Signatures
BY IterationsAssumption DEF Signature, Signatures

LEMMA InitRegion ==
  ASSUME Init
  PROVE  RegionInv
<1>1. mutex \in Mutexes(Stage, Stage) /\ mutex.owner = NoOwner
  BY StageFacts DEF Init, FreshMutex, Mutexes
<1>2. frame \in [Stage -> 0 .. Iterations]
  BY IterationsAssumption DEF Init
<1>3. /\ pc \in [Stage -> {"gate", "loop", "acquire", "final acquire", "done"}
                            \cup Region]
      /\ \A s \in Stage : pc[s] = "gate"
  BY DEF Init
<1>4. TypeOK
  BY <1>1, <1>2, <1>3 DEF Init, TypeOK
<1> QED
  BY <1>1, <1>3, <1>4
  DEF RegionInv, RegionOwnsMutex, HolderHasTurn, TurnInBounds, Region,
      OwnTurn, FinalTurn

Labels == {"gate", "loop", "acquire", "final acquire", "done"} \cup Region

\* A stage moves on without acquiring or releasing: it must not enter the
\* region, nor start a turn that is not its own.
LEMMA MoveKeepsRegion ==
  ASSUME RegionInv, NEW s \in Stage, NEW l \in Labels,
         pc' = [pc EXCEPT ![s] = l],
         l \in Region => pc[s] \in Region,
         l \in OwnTurn => frame[s] < Iterations,
         l \in FinalTurn => s = 0,
         UNCHANGED <<mutex, frame, verdict>>,
         failed' \in BOOLEAN, texture' \in Signatures \cup {Blank}
  PROVE  RegionInv'
<1>1. /\ pc' \in [Stage -> Labels] /\ pc'[s] = l
      /\ \A r \in Stage : r # s => pc'[r] = pc[r]
  BY DEF RegionInv, TypeOK, Labels
<1>2. TypeOK'
  BY <1>1 DEF RegionInv, TypeOK, Labels
<1>3. RegionOwnsMutex' /\ HolderHasTurn'
  BY <1>1 DEF RegionInv, RegionOwnsMutex, HolderHasTurn
<1>4. TurnInBounds'
  BY <1>1 DEF RegionInv, TurnInBounds
<1> QED BY <1>2, <1>3, <1>4 DEF RegionInv

\* A stage acquires with its own key, either for a frame or for the final turn.
LEMMA AcquireKeepsRegion ==
  ASSUME RegionInv, NEW s \in Stage, AcquireSucceeds(s)
  PROVE  RegionInv'
<1>1. PICK l \in {"check", "final check"} :
        /\ pc' = [pc EXCEPT ![s] = l]
        /\ pc[s] = IF l = "check" THEN "acquire" ELSE "final acquire"
  BY DEF AcquireSucceeds, Goto
<1>2. /\ pc' \in [Stage -> Labels] /\ pc'[s] = l
      /\ \A r \in Stage : r # s => pc'[r] = pc[r]
  BY <1>1 DEF RegionInv, TypeOK, Labels, Region
<1>3. /\ mutex' \in Mutexes(Stage, Stage) /\ mutex'.owner = s /\ mutex'.key = s
      /\ UNCHANGED <<frame, failed, texture, verdict>>
  <2>1. mutex \in Mutexes(Stage, Stage)
    BY DEF RegionInv, TypeOK
  <2>2. /\ mutex' = AcquiredBy(mutex, s) /\ mutex.key = s
        /\ UNCHANGED <<frame, failed, texture, verdict>>
    BY DEF AcquireSucceeds, CanAcquire
  <2>3. /\ AcquiredBy(mutex, s) \in Mutexes(Stage, Stage)
        /\ AcquiredBy(mutex, s).owner = s
        /\ AcquiredBy(mutex, s).key = mutex.key
    BY <2>1 DEF AcquiredBy, Mutexes
  <2> QED BY <2>2, <2>3
<1>4. TypeOK'
  BY <1>2, <1>3 DEF RegionInv, TypeOK, Labels
<1>5. \A r \in Stage : pc[r] \notin Region
  <2>1. mutex.owner = -1
    BY DEF AcquireSucceeds, CanAcquire, NoOwner
  <2>2. \A r \in Stage : r # -1
    BY StageFacts
  <2> QED BY <2>1, <2>2 DEF RegionInv, RegionOwnsMutex
<1>6. RegionOwnsMutex' /\ HolderHasTurn'
  BY <1>2, <1>3, <1>5 DEF RegionOwnsMutex, HolderHasTurn
<1>7. TurnInBounds'
  BY <1>1, <1>2, <1>3 DEF RegionInv, TurnInBounds, OwnTurn, FinalTurn
<1> QED BY <1>4, <1>6, <1>7 DEF RegionInv

LEMMA ReleaseKeepsRegion ==
  ASSUME RegionInv, NEW s \in Stage, ReleaseSucceeds(s)
  PROVE  RegionInv'
<1>1. PICK l \in {"loop", "done"} : pc' = [pc EXCEPT ![s] = l]
  BY DEF ReleaseSucceeds, Goto
<1>2. /\ pc' \in [Stage -> Labels] /\ pc'[s] = l
      /\ \A r \in Stage : r # s => pc'[r] = pc[r]
  BY <1>1 DEF RegionInv, TypeOK, Labels, Region
<1>3. /\ mutex' \in Mutexes(Stage, Stage) /\ mutex'.owner = NoOwner
      /\ UNCHANGED <<failed, texture, verdict>>
  <2>1. mutex \in Mutexes(Stage, Stage)
    BY DEF RegionInv, TypeOK
  <2>2. PICK k \in Stage : mutex' = ReleasedWith(mutex, k)
    BY StageFacts DEF ReleaseSucceeds
  <2>3. UNCHANGED <<failed, texture, verdict>>
    BY DEF ReleaseSucceeds
  <2> QED BY <2>1, <2>2, <2>3 DEF ReleasedWith, Mutexes
<1>4. /\ frame' \in [Stage -> 0 .. Iterations]
      /\ \A r \in Stage : r # s => frame'[r] = frame[r]
  <2>1. frame \in [Stage -> 0 .. Iterations] /\ Iterations \in Nat
    BY IterationsAssumption DEF RegionInv, TypeOK
  <2>2. CASE pc[s] = "release"
    <3>1. frame[s] < Iterations
      BY <2>2 DEF RegionInv, TurnInBounds, OwnTurn
    <3>2. frame' = [frame EXCEPT ![s] = @ + 1]
      BY <2>2 DEF ReleaseSucceeds
    <3> QED BY <2>1, <3>1, <3>2
  <2>3. CASE pc[s] # "release"
    BY <2>1, <2>3 DEF ReleaseSucceeds
  <2> QED BY <2>2, <2>3
<1>5. TypeOK'
  BY <1>2, <1>3, <1>4 DEF RegionInv, TypeOK, Labels
<1>6. RegionOwnsMutex' /\ HolderHasTurn'
  <2>1. \A r \in Stage : r # s => pc[r] \notin Region
    BY DEF ReleaseSucceeds, CanRelease, RegionInv, RegionOwnsMutex
  <2> QED BY <1>1, <1>2, <1>3, <2>1 DEF RegionOwnsMutex, HolderHasTurn, Region
<1>7. TurnInBounds'
  BY <1>1, <1>2, <1>4 DEF RegionInv, TurnInBounds, OwnTurn, FinalTurn
<1> QED BY <1>5, <1>6, <1>7 DEF RegionInv

LEMMA StageStepKeepsRegion ==
  ASSUME RegionInv, NEW s \in Stage, StageStep(s)
  PROVE  RegionInv'
<1>0. /\ TypeOK /\ TurnInBounds
      /\ failed \in BOOLEAN /\ texture \in Signatures \cup {Blank}
  BY DEF RegionInv, TypeOK
<1> USE <1>0, MoveKeepsRegion
    DEF Goto, AfterStage, Labels, Region, OwnTurn, FinalTurn
<1>1. CASE EnterTurn(s)
  BY <1>1 DEF EnterTurn
<1>2. CASE LeaveLoop(s)
  BY <1>2 DEF LeaveLoop
<1>3. CASE AcquireSucceeds(s)
  BY <1>3, AcquireKeepsRegion
<1>4. CASE AcquireFails(s)
  BY <1>4 DEF AcquireFails
<1>5. CASE Check(s)
  BY <1>5 DEF Check, TurnInBounds
<1>6. CASE Validate(s)
  BY <1>6 DEF Validate, TurnInBounds
<1>7. CASE DecideWrite(s)
  BY <1>7 DEF DecideWrite, TurnInBounds
<1>8. CASE WriteSignature(s)
  <2>1. frame[s] \in 0 .. Iterations /\ frame[s] < Iterations
    BY <1>8 DEF WriteSignature, TypeOK, TurnInBounds
  <2>2. Signature(frame[s], s) \in Signatures
    BY <2>1, SignatureType
  <2> QED BY <1>8, <2>1, <2>2 DEF WriteSignature
<1>9. CASE ReleaseSucceeds(s)
  BY <1>9, ReleaseKeepsRegion
<1>10. CASE ReleaseFails(s)
  BY <1>10 DEF ReleaseFails
<1>11. CASE Throw(s)
  BY <1>11 DEF Throw
<1> QED
  BY <1>1, <1>2, <1>3, <1>4, <1>5, <1>6, <1>7, <1>8, <1>9, <1>10, <1>11
  DEF StageStep

LEMMA OtherStepKeepsRegion ==
  ASSUME RegionInv, StartTogether \/ Join \/ UNCHANGED vars
  PROVE  RegionInv'
<1> USE DEF RegionInv, TypeOK, RegionOwnsMutex, HolderHasTurn, TurnInBounds,
            Region, OwnTurn, FinalTurn
<1>1. CASE StartTogether
  BY <1>1 DEF StartTogether
<1>2. CASE Join
  BY <1>2 DEF Join
<1>3. CASE UNCHANGED vars
  BY <1>3 DEF vars
<1> QED BY <1>1, <1>2, <1>3

\* Ownership and counters follow the program points.
THEOREM RegionSafe == Spec => []RegionInv
<1>1. RegionInv /\ [Next]_vars => RegionInv'
  BY StageStepKeepsRegion, OtherStepKeepsRegion DEF Next, Finished
<1> QED BY InitRegion, <1>1, PTL DEF Spec

\* The types of the state, for every number of stages and frames.
THEOREM TypeCorrect == Spec => []TypeOK
BY RegionSafe, PTL DEF RegionInv

\* No two stages are in their turns at the same time.
THEOREM TurnsExclude == Spec => []RegionOwnsMutex
BY RegionSafe, PTL DEF RegionInv

-----------------------------------------------------------------------------
(* The device ring implements the token ring.                              *)

LEMMA InitIsRingInit == Init => Ring!Init
BY DEF Init, FreshMutex, NoOwner, Stage, Ring!Init, Ring!NoParty, Ring!Party

LEMMA StageStepIsRingStep ==
  ASSUME RegionInv, NEW s \in Stage, StageStep(s)
  PROVE  [Ring!Next]_(Ring!vars)
<1>0. s \in Ring!Party /\ mutex \in Mutexes(Stage, Stage)
  BY DEF RegionInv, TypeOK, Stage, Ring!Party
<1>1. CASE AcquireSucceeds(s)
  <2>1. /\ mutex.key = s /\ mutex.owner = NoOwner
        /\ mutex' = AcquiredBy(mutex, s) /\ UNCHANGED frame
    BY <1>1 DEF AcquireSucceeds, CanAcquire
  <2>2. mutex'.owner = s /\ mutex'.key = mutex.key
    BY <1>0, <2>1 DEF AcquiredBy, Mutexes
  <2>3. Ring!Take(s)
    BY <2>1, <2>2 DEF NoOwner, Ring!Take, Ring!NoParty
  <2> QED BY <1>0, <2>3 DEF Ring!Next
<1>2. CASE ReleaseSucceeds(s)
  <2>1. mutex.owner = s /\ Successor(s) \in Stage /\ 0 \in Stage
    BY <1>2, StageFacts DEF ReleaseSucceeds, CanRelease
  <2>2. CASE pc[s] = "release"
    <3>1. /\ mutex' = ReleasedWith(mutex, Successor(s))
          /\ frame' = [frame EXCEPT ![s] = @ + 1]
      BY <1>2, <2>2 DEF ReleaseSucceeds
    <3>2. mutex'.owner = NoOwner /\ mutex'.key = Successor(s)
      BY <1>0, <2>1, <3>1 DEF ReleasedWith, Mutexes
    <3>3. Ring!Pass(s)
      BY <2>1, <3>1, <3>2
      DEF NoOwner, Successor, Ring!Pass, Ring!NoParty, Ring!Successor
    <3> QED BY <1>0, <3>3 DEF Ring!Next
  <2>3. CASE pc[s] = "final release"
    <3>1. /\ mutex' = ReleasedWith(mutex, 0) /\ UNCHANGED frame
          /\ s = 0 /\ mutex.key = 0
      BY <1>2, <2>1, <2>3, StageFacts
      DEF ReleaseSucceeds, RegionInv, TurnInBounds, FinalTurn, HolderHasTurn,
          NoOwner
    <3>2. mutex'.owner = NoOwner /\ mutex'.key = 0
      BY <1>0, <2>1, <3>1 DEF ReleasedWith, Mutexes
    <3>3. Ring!PutBack(s)
      BY <2>1, <3>1, <3>2 DEF NoOwner, Ring!PutBack, Ring!NoParty
    <3> QED BY <1>0, <3>3 DEF Ring!Next
  <2> QED BY <1>2, <2>2, <2>3 DEF ReleaseSucceeds
<1>3. CASE UNCHANGED <<mutex, frame>>
  BY <1>3 DEF Ring!vars
<1> QED
  BY <1>1, <1>2, <1>3
  DEF StageStep, EnterTurn, LeaveLoop, AcquireFails, Check, Validate,
      DecideWrite, WriteSignature, ReleaseFails, Throw

\* Every behaviour of the device ring, faulty or not, is one of the token
\* ring with as many parties.
THEOREM ImplementsRing == Spec => TakesTurns
<1>1. RegionInv /\ [Next]_vars => [Ring!Next]_(Ring!vars)
  <2> SUFFICES ASSUME RegionInv, [Next]_vars PROVE [Ring!Next]_(Ring!vars)
    OBVIOUS
  <2>1. CASE \E s \in Stage : StageStep(s)
    BY <2>1, StageStepIsRingStep
  <2>2. CASE StartTogether \/ Join \/ UNCHANGED vars
    BY <2>2 DEF StartTogether, Join, vars, Ring!vars
  <2> QED BY <2>1, <2>2 DEF Next, Finished
<1> QED
  BY InitIsRingInit, RegionSafe, <1>1, PTL DEF Spec, TakesTurns, Ring!Spec

\* Only the party whose turn it is holds the token, and the token goes round in
\* order: the invariant of the abstract ring.
TokenInv == Ring!TypeOK /\ Ring!HolderHasTurn /\ Ring!InOrder

LEMMA InitToken ==
  ASSUME Ring!Init
  PROVE  TokenInv
BY NAssumption
DEF Ring!Init, TokenInv, Ring!TypeOK, Ring!HolderHasTurn, Ring!InOrder,
    Ring!Party, Ring!NoParty

LEMMA TakeKeepsToken ==
  ASSUME TokenInv, NEW p \in Ring!Party, Ring!Take(p) \/ Ring!PutBack(p)
  PROVE  TokenInv'
BY NAssumption
DEF Ring!Take, Ring!PutBack, TokenInv, Ring!TypeOK, Ring!HolderHasTurn,
    Ring!InOrder, Ring!Party, Ring!NoParty

\* Passing the token on moves one party from the laggards to the leaders; the
\* last party, by passing it, turns all leaders into laggards again.
LEMMA PassKeepsToken ==
  ASSUME TokenInv, NEW p \in Ring!Party, Ring!Pass(p)
  PROVE  TokenInv'
<1>1. p = mutex.key /\ N - 1 \in Ring!Party
  BY NAssumption
  DEF Ring!Pass, TokenInv, Ring!HolderHasTurn, Ring!NoParty, Ring!Party
<1>2. Ring!TypeOK' /\ Ring!HolderHasTurn'
  BY NAssumption, <1>1
  DEF Ring!Pass, TokenInv, Ring!TypeOK, Ring!HolderHasTurn, Ring!Party,
      Ring!NoParty, Ring!Successor
<1>3. Ring!InOrder'
  <2>1. CASE p = N - 1
    BY NAssumption, <1>1, <2>1
    DEF Ring!Pass, TokenInv, Ring!TypeOK, Ring!InOrder, Ring!Party,
        Ring!Successor
  <2>2. CASE p # N - 1
    BY NAssumption, <1>1, <2>2
    DEF Ring!Pass, TokenInv, Ring!TypeOK, Ring!InOrder, Ring!Party,
        Ring!Successor
  <2> QED BY <2>1, <2>2
<1> QED BY <1>2, <1>3 DEF TokenInv

LEMMA TokenStep == TokenInv /\ [Ring!Next]_(Ring!vars) => TokenInv'
<1> SUFFICES ASSUME TokenInv, [Ring!Next]_(Ring!vars) PROVE TokenInv'
  OBVIOUS
<1>1. CASE UNCHANGED Ring!vars
  BY <1>1
  DEF Ring!vars, TokenInv, Ring!TypeOK, Ring!HolderHasTurn, Ring!InOrder
<1>2. CASE Ring!Next
  BY <1>2, TakeKeepsToken, PassKeepsToken DEF Ring!Next
<1> QED BY <1>1, <1>2

\* The loop counters of the stages stay in ring order.
THEOREM CountersInOrder == Spec => []Ring!InOrder
<1>1. Spec => []TokenInv
  BY ImplementsRing, InitToken, TokenStep, PTL DEF TakesTurns, Ring!Spec
<1>2. TokenInv => Ring!InOrder
  BY DEF TokenInv
<1> QED BY <1>1, <1>2, PTL

-----------------------------------------------------------------------------
(* What a stage finds in the texture.                                      *)

\* What the texture holds when stage k is given the key in a ring that has
\* not failed: the last signature of its predecessor.
Handed(k) ==
  IF k = 0 /\ frame[N - 1] = 0 THEN Blank
  ELSE Signature(frame[Predecessor(k)] - 1, Predecessor(k))

TextureInRing ==
  ~failed => texture = IF pc[mutex.key] = "release"
                       THEN Signature(frame[mutex.key], mutex.key)
                       ELSE Handed(mutex.key)

\* While nothing has failed, a stage ends only after its last frame.
EndsComplete ==
  ~failed => \A s \in Stage : pc[s] \in FinalTurn \cup {"done"}
                                => frame[s] = Iterations

TextureInv == TextureInRing /\ EndsComplete /\ NoFalseMismatch

\* The loop counters of the stage that has the turn and its predecessor.
LEMMA TurnOrder ==
  ASSUME RegionInv, Ring!InOrder, NEW s \in Stage, mutex.key = s
  PROVE  /\ s = 0 => frame[s] = frame[N - 1]
         /\ s # 0 => frame[Predecessor(s)] = frame[s] + 1
<1>1. \A r \in Stage : frame[r] = frame[N - 1] + (IF r < s THEN 1 ELSE 0)
  BY DEF Ring!InOrder, Ring!Party, Stage
<1>2. frame \in [Stage -> 0 .. Iterations]
  BY DEF RegionInv, TypeOK
<1>3. CASE s = 0
  BY <1>1, <1>2, <1>3, NAssumption DEF Stage
<1>4. CASE s # 0
  <2>1. /\ Predecessor(s) \in Stage /\ Predecessor(s) < s
        /\ frame[N - 1] \in Nat
    BY <1>2, <1>4, StageFacts, NAssumption DEF Predecessor, Stage
  <2>2. frame[Predecessor(s)] = frame[N - 1] + 1
    BY <1>1, <2>1
  <2>3. frame[s] = frame[N - 1] + 0
    <3>1. s \in Nat /\ ~(s < s)
      BY StageFacts
    <3> QED BY <1>1, <3>1
  <2> QED BY <1>4, <2>1, <2>2, <2>3
<1> QED BY <1>3, <1>4

\* A stage in its turn, before its write, has been handed what it expects.
LEMMA HandedIsExpected ==
  ASSUME RegionInv, Ring!InOrder, TextureInv, ~failed,
         NEW s \in Stage, mutex.key = s, pc[s] # "release"
  PROVE  /\ s # 0 \/ frame[s] # 0
              => texture = Signature(IF s = 0 THEN frame[s] - 1 ELSE frame[s],
                                     Predecessor(s))
         /\ s = 0 /\ frame[s] = Iterations
              => texture = Signature(Iterations - 1, N - 1)
<1>1. /\ texture = Handed(s)
      /\ frame \in [Stage -> 0 .. Iterations] /\ frame[s] \in 0 .. Iterations
  BY DEF TextureInv, TextureInRing, RegionInv, TypeOK
<1>2. CASE s = 0
  <2>1. Predecessor(s) = N - 1 /\ frame[s] = frame[N - 1]
    BY <1>2, TurnOrder DEF Predecessor
  <2>2. frame[s] # 0 => texture = Signature(frame[s] - 1, N - 1)
    BY <1>1, <1>2, <2>1 DEF Handed
  <2>3. Iterations # 0
    BY IterationsAssumption
  <2> QED BY <1>2, <2>1, <2>2, <2>3
<1>3. CASE s # 0
  <2>1. frame[Predecessor(s)] - 1 = frame[s]
    <3>1. frame[Predecessor(s)] = frame[s] + 1
      BY <1>3, TurnOrder
    <3> QED BY <1>1, <3>1
  <2> QED BY <1>1, <1>3, <2>1 DEF Handed
<1> QED BY <1>2, <1>3

LEMMA InitTexture ==
  ASSUME Init
  PROVE  TextureInv
BY StageFacts
DEF Init, TextureInv, TextureInRing, EndsComplete, NoFalseMismatch,
    FreshMutex, Handed, FinalTurn

\* A stage moves to another point outside "release" and, unless something has
\* failed, what it starts to validate is what it expects.
LEMMA MoveKeepsTexture ==
  ASSUME RegionInv, TextureInv, NEW s \in Stage, NEW l \in Labels,
         pc' = [pc EXCEPT ![s] = l],
         UNCHANGED <<frame, texture>>, mutex'.key = mutex.key,
         failed => failed',
         failed' \/ (l # "release" /\ pc[s] # "release"),
         ~failed' /\ l \in FinalTurn \cup {"done"} => frame[s] = Iterations,
         l = "validate" => texture = Signature(IF s = 0 THEN frame[s] - 1
                                               ELSE frame[s], Predecessor(s)),
         l = "final validate" => texture = Signature(Iterations - 1, N - 1)
  PROVE  TextureInv'
<1>1. /\ pc'[s] = l /\ \A r \in Stage : r # s => pc'[r] = pc[r]
      /\ mutex.key \in Stage
  BY DEF RegionInv, TypeOK, Mutexes
<1>2. TextureInRing'
  BY <1>1 DEF TextureInv, TextureInRing, Handed
<1>3. EndsComplete'
  BY <1>1 DEF TextureInv, EndsComplete
<1>4. NoFalseMismatch'
  BY <1>1 DEF TextureInv, NoFalseMismatch, Expected
<1> QED BY <1>2, <1>3, <1>4 DEF TextureInv

LEMMA WriteKeepsTexture ==
  ASSUME RegionInv, TextureInv, NEW s \in Stage, WriteSignature(s)
  PROVE  TextureInv'
<1>1. /\ pc'[s] = "release" /\ \A r \in Stage : r # s => pc'[r] = pc[r]
      /\ texture' = Signature(frame[s], s)
      /\ UNCHANGED <<mutex, frame, failed>>
  BY DEF WriteSignature, Goto, RegionInv, TypeOK
<1>2. mutex.key = s /\ \A r \in Stage : r # s => pc[r] \notin Region
  BY StageFacts
  DEF WriteSignature, RegionInv, RegionOwnsMutex, HolderHasTurn, Region, NoOwner
<1>3. TextureInRing'
  BY <1>1, <1>2 DEF TextureInRing
<1>4. EndsComplete'
  BY <1>1 DEF TextureInv, EndsComplete, FinalTurn
<1>5. NoFalseMismatch'
  BY <1>1, <1>2 DEF NoFalseMismatch, Region
<1> QED BY <1>3, <1>4, <1>5 DEF TextureInv

LEMMA ReleaseKeepsTexture ==
  ASSUME RegionInv, TextureInv, NEW s \in Stage, ReleaseSucceeds(s)
  PROVE  TextureInv'
<1>1. /\ mutex.key = s /\ \A r \in Stage : r # s => pc[r] \notin Region
      /\ mutex \in Mutexes(Stage, Stage)
      /\ UNCHANGED <<failed, texture>>
  BY StageFacts
  DEF ReleaseSucceeds, CanRelease, RegionInv, TypeOK, RegionOwnsMutex,
      HolderHasTurn, NoOwner
<1>2. NoFalseMismatch'
  <2>1. /\ pc'[s] \in {"loop", "done"}
        /\ \A r \in Stage : r # s => pc'[r] = pc[r]
    BY DEF ReleaseSucceeds, Goto, RegionInv, TypeOK
  <2> QED BY <1>1, <2>1 DEF NoFalseMismatch, Region
<1>3. CASE pc[s] = "release"
  <2>1. /\ pc'[s] = "loop" /\ \A r \in Stage : r # s => pc'[r] = pc[r]
        /\ frame'[s] = frame[s] + 1
        /\ \A r \in Stage : r # s => frame'[r] = frame[r]
        /\ mutex' = ReleasedWith(mutex, Successor(s))
    BY <1>3 DEF ReleaseSucceeds, Goto, RegionInv, TypeOK
  <2>2. mutex'.key = Successor(s)
    <3>1. Successor(s) \in Stage
      BY StageFacts
    <3> QED BY <1>1, <2>1, <3>1 DEF ReleasedWith, Mutexes
  <2>3. Predecessor(Successor(s)) = s /\ Successor(s) \in Stage
    BY NAssumption DEF Stage, Predecessor, Successor
  <2>4. TextureInRing'
    <3>1. pc'[Successor(s)] # "release"
      BY <1>1, <2>1, <2>3 DEF Region
    <3>2. /\ frame'[s] - 1 = frame[s] /\ frame'[s] # 0
          /\ Successor(s) = 0 => s = N - 1
      <4>1. frame[s] \in Nat
        <5>1. frame[s] \in 0 .. Iterations
          BY DEF RegionInv, TypeOK
        <5> QED BY <5>1
      <4>2. Successor(s) = 0 => s = N - 1
        <5>1. s \in Nat
          BY StageFacts
        <5> QED BY <5>1 DEF Successor
      <4> QED BY <2>1, <4>1, <4>2
    <3>3. Handed(Successor(s))' = Signature(frame[s], s)
      BY <2>3, <3>2 DEF Handed
    <3> QED BY <1>1, <1>3, <2>2, <3>1, <3>3 DEF TextureInv, TextureInRing
  <2>5. EndsComplete'
    BY <1>1, <2>1 DEF TextureInv, EndsComplete, FinalTurn
  <2> QED BY <1>2, <2>4, <2>5 DEF TextureInv
<1>4. CASE pc[s] = "final release"
  <2>1. /\ pc' = [pc EXCEPT ![s] = "done"] /\ UNCHANGED frame /\ s = 0
        /\ mutex' = ReleasedWith(mutex, 0)
    BY <1>4 DEF ReleaseSucceeds, Goto, RegionInv, TurnInBounds, FinalTurn
  <2>2. mutex'.key = mutex.key
    BY <1>1, <2>1, StageFacts DEF ReleasedWith, Mutexes
  <2>3. ~failed => frame[s] = Iterations
    BY <1>4 DEF TextureInv, EndsComplete, FinalTurn
  <2> QED
    BY <1>1, <1>4, <2>1, <2>2, <2>3, MoveKeepsTexture
    DEF Labels
<1> QED BY <1>3, <1>4 DEF ReleaseSucceeds

\* The two reads of failure.failed: a stage that starts to validate has read
\* it FALSE while it owned the mutex.
LEMMA CheckKeepsTexture ==
  ASSUME RegionInv, Ring!InOrder, TextureInv, NEW s \in Stage, Check(s)
  PROVE  TextureInv'
<1>1. /\ mutex.key = s /\ pc[s] # "release"
      /\ UNCHANGED <<mutex, frame, failed, texture>>
  BY StageFacts
  DEF Check, RegionInv, RegionOwnsMutex, HolderHasTurn, Region, NoOwner
<1>2. PICK l \in {"validate", "decide", "final validate", "final release"} :
        /\ pc' = [pc EXCEPT ![s] = l]
        /\ l = "validate" => ~failed /\ (s # 0 \/ frame[s] # 0)
        /\ l = "final validate" => ~failed
        /\ l \in FinalTurn => pc[s] = "final check"
  BY DEF Check, Goto, FinalTurn
<1>3. ~failed /\ l \in FinalTurn => s = 0 /\ frame[s] = Iterations
  BY <1>2 DEF RegionInv, TurnInBounds, TextureInv, EndsComplete, FinalTurn
<1>4. l = "validate" => texture = Signature(IF s = 0 THEN frame[s] - 1
                                            ELSE frame[s], Predecessor(s))
  BY <1>1, <1>2, HandedIsExpected
<1>5. l = "final validate" => texture = Signature(Iterations - 1, N - 1)
  BY <1>1, <1>2, <1>3, HandedIsExpected DEF FinalTurn
<1>6. l \in Labels /\ l # "release" /\ l # "done"
  BY DEF Labels, Region
<1> QED BY <1>1, <1>2, <1>3, <1>4, <1>5, <1>6, MoveKeepsTexture

LEMMA StageStepKeepsTexture ==
  ASSUME RegionInv, Ring!InOrder, TextureInv, NEW s \in Stage, StageStep(s)
  PROVE  TextureInv'
<1>0. TurnInBounds /\ EndsComplete
  BY DEF RegionInv, TextureInv
<1> USE <1>0 DEF Goto, AfterStage, Labels, Region, FinalTurn
<1>1. CASE EnterTurn(s)
  BY <1>1, MoveKeepsTexture DEF EnterTurn
<1>2. CASE LeaveLoop(s)
  <2>1. frame[s] = Iterations
    <3>1. frame[s] \in 0 .. Iterations /\ frame[s] >= Iterations
      BY <1>2 DEF LeaveLoop, RegionInv, TypeOK
    <3> QED BY <3>1, IterationsAssumption
  <2> QED BY <1>2, <2>1, MoveKeepsTexture DEF LeaveLoop
<1>3. CASE AcquireSucceeds(s)
  <2>1. mutex'.key = mutex.key
    <3>1. mutex \in Mutexes(Stage, Stage) /\ mutex' = AcquiredBy(mutex, s)
      BY <1>3 DEF AcquireSucceeds, RegionInv, TypeOK
    <3> QED BY <3>1 DEF AcquiredBy, Mutexes
  <2> QED BY <1>3, <2>1, MoveKeepsTexture DEF AcquireSucceeds, EndsComplete
<1>4. CASE AcquireFails(s)
  BY <1>4, MoveKeepsTexture DEF AcquireFails
<1>5. CASE Check(s)
  BY <1>5, CheckKeepsTexture
<1>6. CASE Validate(s)
  <2>1. /\ UNCHANGED <<mutex, frame, texture>> /\ (failed => failed')
        /\ mutex'.key = mutex.key
    <3>1. UNCHANGED <<mutex, frame, texture>>
      BY <1>6 DEF Validate
    <3>2. failed' = failed \/ failed' = TRUE
      BY <1>6 DEF Validate
    <3> QED BY <3>1, <3>2
  <2>2. CASE pc[s] = "validate"
    <3>1. pc' = [pc EXCEPT ![s] = "decide"]
      BY <1>6, <2>2 DEF Validate
    <3> QED BY <2>1, <2>2, <3>1, MoveKeepsTexture
  <2>3. CASE pc[s] = "final validate"
    <3>1. /\ pc' = [pc EXCEPT ![s] = "final release"]
          /\ ~failed' => frame[s] = Iterations
      BY <1>6, <2>1, <2>3 DEF Validate, EndsComplete
    <3> QED BY <2>1, <2>3, <3>1, MoveKeepsTexture
  <2> QED BY <1>6, <2>2, <2>3 DEF Validate
<1>7. CASE DecideWrite(s)
  BY <1>7, MoveKeepsTexture DEF DecideWrite
<1>8. CASE WriteSignature(s)
  BY <1>8, WriteKeepsTexture
<1>9. CASE ReleaseSucceeds(s)
  BY <1>9, ReleaseKeepsTexture
<1>10. CASE ReleaseFails(s)
  BY <1>10, MoveKeepsTexture DEF ReleaseFails
<1>11. CASE Throw(s)
  BY <1>11, MoveKeepsTexture DEF Throw
<1> QED
  BY <1>1, <1>2, <1>3, <1>4, <1>5, <1>6, <1>7, <1>8, <1>9, <1>10, <1>11
  DEF StageStep

LEMMA OtherStepKeepsTexture ==
  ASSUME RegionInv, TextureInv, StartTogether \/ Join \/ UNCHANGED vars
  PROVE  TextureInv'
<1> USE DEF TextureInv, TextureInRing, EndsComplete, NoFalseMismatch, Expected,
            Handed, FinalTurn
<1>1. CASE StartTogether
  <2>1. mutex.key \in Stage
    BY DEF RegionInv, TypeOK, Mutexes
  <2> QED BY <1>1, <2>1 DEF StartTogether
<1>2. CASE Join
  BY <1>2 DEF Join
<1>3. CASE UNCHANGED vars
  BY <1>3 DEF vars
<1> QED BY <1>1, <1>2, <1>3

\* The texture holds the last signature unless a failure was recorded.
THEOREM TextureSafe == Spec => []TextureInv
<1>1. RegionInv /\ Ring!InOrder /\ TextureInv /\ [Next]_vars => TextureInv'
  BY StageStepKeepsTexture, OtherStepKeepsTexture DEF Next, Finished
<1> QED BY InitTexture, RegionSafe, CountersInOrder, <1>1, PTL DEF Spec

\* No stage ever reports a mismatch in a ring that hands its writes over.
THEOREM MismatchesAreReal == Spec => []NoFalseMismatch
BY TextureSafe, PTL DEF TextureInv

-----------------------------------------------------------------------------
(* A pass means that the whole ring ran.                                   *)

\* While nothing has failed the mutex is owned only during a turn, and a pass
\* is decided only when no stage is left and nothing has failed.
PassInv ==
  /\ ~mutex.abandoned
  /\ ~failed => \A s \in Stage : mutex.owner = s => pc[s] \in Region
  /\ verdict = "pass" => ~failed /\ \A s \in Stage : pc[s] = "done"

LEMMA InitPass ==
  ASSUME Init
  PROVE  PassInv
BY StageFacts DEF Init, PassInv, FreshMutex, NoOwner

LEMMA StageStepKeepsPass ==
  ASSUME RegionInv, PassInv, NEW s \in Stage, StageStep(s)
  PROVE  PassInv'
<1>0. /\ pc[s] # "done" /\ UNCHANGED verdict /\ verdict # "pass"
      /\ pc \in [Stage -> Labels] /\ mutex \in Mutexes(Stage, Stage)
  BY DEF StageStep, EnterTurn, LeaveLoop, AcquireSucceeds, AcquireFails, Check,
         Validate, DecideWrite, WriteSignature, ReleaseSucceeds, ReleaseFails,
         Throw, PassInv, RegionInv, TypeOK, Labels
<1>1. CASE failed' /\ UNCHANGED mutex
  BY <1>0, <1>1 DEF PassInv
<1>2. CASE AcquireSucceeds(s)
  <2>1. /\ mutex' = AcquiredBy(mutex, s) /\ UNCHANGED failed
        /\ pc' = [pc EXCEPT ![s] = "check"]
             \/ pc' = [pc EXCEPT ![s] = "final check"]
    BY <1>2 DEF AcquireSucceeds, Goto
  <2>2. mutex'.abandoned = mutex.abandoned /\ mutex'.owner = s
    BY <1>0, <2>1 DEF AcquiredBy, Mutexes
  <2>3. pc'[s] \in Region
    BY <1>0, <2>1 DEF Region
  <2> QED BY <1>0, <2>1, <2>2, <2>3 DEF PassInv
<1>3. CASE ReleaseSucceeds(s)
  <2>1. PICK k \in Stage : mutex' = ReleasedWith(mutex, k)
    BY <1>3, StageFacts DEF ReleaseSucceeds
  <2>2. mutex'.abandoned = mutex.abandoned /\ mutex'.owner = NoOwner
    BY <1>0, <2>1 DEF ReleasedWith, Mutexes
  <2> QED BY <1>0, <1>3, <2>2, StageFacts DEF PassInv, ReleaseSucceeds, NoOwner
<1>4. CASE EnterTurn(s) \/ LeaveLoop(s)
  <2>1. /\ pc[s] \notin Region /\ UNCHANGED <<mutex, failed>>
        /\ \A r \in Stage : r # s => pc'[r] = pc[r]
    BY <1>0, <1>4 DEF EnterTurn, LeaveLoop, Goto, Region
  <2> QED BY <1>0, <2>1 DEF PassInv
<1>5. CASE Check(s) \/ Validate(s) \/ DecideWrite(s) \/ WriteSignature(s)
  <2>1. UNCHANGED mutex /\ (~failed' => ~failed)
    <3>1. UNCHANGED mutex /\ (failed' = failed \/ failed' = TRUE)
      BY <1>5 DEF Check, Validate, DecideWrite, WriteSignature
    <3> QED BY <3>1
  <2>2. /\ pc'[s] \in Region
        /\ \A r \in Stage : r # s => pc'[r] = pc[r]
    BY <1>0, <1>5
    DEF Check, Validate, DecideWrite, WriteSignature, Goto, Region
  <2> QED BY <1>0, <2>1, <2>2 DEF PassInv
<1> QED
  BY <1>1, <1>2, <1>3, <1>4, <1>5
  DEF StageStep, AcquireFails, ReleaseFails, Throw

LEMMA OtherStepKeepsPass ==
  ASSUME PassInv, StartTogether \/ Join \/ UNCHANGED vars
  PROVE  PassInv'
<1>1. CASE StartTogether
  BY <1>1, StageFacts DEF StartTogether, PassInv, Region
<1>2. CASE Join
  BY <1>2 DEF Join, PassInv
<1>3. CASE UNCHANGED vars
  BY <1>3 DEF vars, PassInv
<1> QED BY <1>1, <1>2, <1>3

\* After the last frame every stage has the same counter, so the ring is back
\* at key 0 with the last stage's last signature.
LEMMA PassIsFull ==
  ASSUME RegionInv, Ring!InOrder, TextureInv, PassInv, verdict = "pass"
  PROVE  /\ \A s \in Stage : frame[s] = Iterations
         /\ texture = Signature(Iterations - 1, N - 1)
         /\ mutex = FreshMutex
<1>1. /\ ~failed /\ \A s \in Stage : pc[s] = "done"
      /\ mutex.key \in Stage /\ mutex.owner \in Stage \cup {NoOwner}
      /\ mutex \in Mutexes(Stage, Stage)
  BY DEF PassInv, RegionInv, TypeOK, Mutexes
<1>2. \A s \in Stage : frame[s] = Iterations
  BY <1>1 DEF TextureInv, EndsComplete
<1>3. mutex.key = 0
  <2>1. CASE mutex.key # 0
    <3>1. frame[Predecessor(mutex.key)] = frame[mutex.key] + 1
      BY <1>1, <2>1, TurnOrder
    <3>2. Iterations = Iterations + 1
      BY <1>1, <1>2, <3>1, StageFacts
    <3> QED BY <3>2, IterationsAssumption
  <2> QED BY <2>1
<1>4. texture = Signature(Iterations - 1, N - 1)
  BY <1>1, <1>2, <1>3, StageFacts, HandedIsExpected
<1>5. mutex = FreshMutex
  <2>1. mutex.owner = NoOwner /\ mutex.abandoned = FALSE
    BY <1>1 DEF PassInv, Region, Mutexes
  <2> QED BY <1>1, <1>3, <2>1 DEF FreshMutex, Mutexes
<1> QED BY <1>2, <1>4, <1>5

\* A stage that left early, or kept the mutex, never ends in a pass.
THEOREM PassIsEarned == Spec => []PassMeansFullRing
<1>1. RegionInv /\ PassInv /\ [Next]_vars => PassInv'
  BY StageStepKeepsPass, OtherStepKeepsPass DEF Next, Finished
<1>2. RegionInv /\ Ring!InOrder /\ TextureInv /\ PassInv => PassMeansFullRing
  BY PassIsFull DEF PassMeansFullRing
<1> QED
  BY InitPass, RegionSafe, CountersInOrder, TextureSafe, <1>1, <1>2, PTL DEF Spec
=============================================================================
