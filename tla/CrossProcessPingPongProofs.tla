--------------------- MODULE CrossProcessPingPongProofs ---------------------
(***************************************************************************)
(* The ping-pong of two processes of experiment 06, for every number of    *)
(* frames and whatever becomes of the child.                               *)
(*                                                                         *)
(* RegionInv says who owns the mutex; with it every step is one of the     *)
(* token ring, which relates the loop counters.  TextureInv says what the  *)
(* texture holds whenever it changes hands.  Both are silent about a mutex *)
(* whose owner is gone: its key can no longer be acquired, so nobody will  *)
(* ever rely on what its texture holds.  EndInv says what the parent may   *)
(* conclude from the child's exit code.                                    *)
(***************************************************************************)
EXTENDS CrossProcessPingPong, TLAPS

\* A process between its AcquireSync and its ReleaseSync owns the mutex, so
\* the two are never in their turns together, whichever of them dies.
RegionOwnsMutex == \A p \in Process : pc[p] \in Region => mutex.owner = p

\* The mutex is held, also by the dead, with the key of its holder.
HolderHasTurn == mutex.owner # NoOwner => mutex.owner = mutex.key

\* A process that is about to write has a frame left to write.
TurnInBounds ==
  /\ pc[Child] \in Region \cup {"setup", "acquire"} => frame[Child] < Iterations
  /\ pc[Parent] = "write" => frame[Parent] < Iterations

RegionInv == TypeOK /\ RegionOwnsMutex /\ HolderHasTurn /\ TurnInBounds

LEMMA ProcessIsBinary == Process = {0, 1} /\ Parent = 0 /\ Child = 1
BY DEF Process, Parent, Child

LEMMA TwoProcesses ==
  /\ Parent \in Process /\ Child \in Process /\ Parent # Child
  /\ \A p \in Process : p # NoOwner
BY ProcessIsBinary DEF NoOwner

LEMMA InitRegion ==
  ASSUME Init
  PROVE  RegionInv
<1>1. mutex \in Mutexes(Process, {0, 1}) /\ mutex.owner = NoOwner
  BY DEF Init, FreshMutex, Mutexes, NoOwner
<1>2. faults \in SUBSET FaultKinds
  BY FaultSetsAssumption DEF Init
<1>3. /\ texture \in [frame : -1 .. (Iterations - 1), stage : Process]
      /\ frame \in [Process -> 0 .. Iterations]
      /\ \A p \in Process : frame[p] = 0
  BY IterationsAssumption, ProcessIsBinary DEF Init, Blank
<1>4. \A p \in Process : pc[p] \in {"setup", "acquire"}
  BY DEF Init, Spawned
<1>5. pc \in [Process -> {"setup", "acquire", "return", "wait", "unwind"}
                         \cup Region \cup ExitCode \cup Verdict]
  BY DEF Init, Spawned
<1>6. TypeOK
  BY <1>1, <1>2, <1>3, <1>5 DEF Init, TypeOK
<1> QED
  BY <1>1, <1>3, <1>4, <1>6, IterationsAssumption, ProcessIsBinary
  DEF RegionInv, RegionOwnsMutex, HolderHasTurn, TurnInBounds, Region

\* What the death of a process does to the mutex.
LEMMA AbandonedByType ==
  ASSUME NEW p \in Process, mutex \in Mutexes(Process, {0, 1})
  PROVE  /\ AbandonedBy(p) \in Mutexes(Process, {0, 1})
         /\ AbandonedBy(p).owner = mutex.owner
         /\ AbandonedBy(p).key = mutex.key
         /\ AbandonedBy(p).abandoned = (mutex.abandoned \/ mutex.owner = p)
BY DEF AbandonedBy, Mutexes

\* Leaving the turn, or never entering it, with the mutex as it was, or
\* abandoned: what most steps do.
LEMMA LeavingKeepsRegion ==
  ASSUME RegionInv, NEW p \in Process,
         NEW l \in {"acquire", "return", "wait", "unwind"} \cup ExitCode
                   \cup Verdict,
         pc' = [pc EXCEPT ![p] = l],
         l = "acquire" /\ p = Child => frame[p] < Iterations,
         mutex' = mutex \/ mutex' = AbandonedBy(Child),
         UNCHANGED <<faults, texture, frame>>,
         failure' \in BOOLEAN, validationFailed' \in BOOLEAN
  PROVE  RegionInv'
<1> USE ProcessIsBinary
<1>1. /\ mutex' \in Mutexes(Process, {0, 1})
      /\ mutex'.owner = mutex.owner /\ mutex'.key = mutex.key
  BY AbandonedByType DEF RegionInv, TypeOK
<1>2. pc'[p] = l /\ \A q \in Process : q # p => pc'[q] = pc[q]
  BY DEF RegionInv, TypeOK
<1>3. TypeOK'
  BY <1>1 DEF RegionInv, TypeOK
<1>4. l \notin Region /\ l \notin {"setup", "write"}
  BY DEF Region, ExitCode, Verdict
<1>5. RegionOwnsMutex' /\ HolderHasTurn'
  BY <1>1, <1>2, <1>4 DEF RegionInv, RegionOwnsMutex, HolderHasTurn
<1>6. TurnInBounds'
  <2>1. frame' = frame /\ Region' = Region
    BY DEF Region
  <2>2. CASE p = Child
    BY <1>2, <1>4, <2>1, <2>2 DEF RegionInv, TurnInBounds
  <2>3. CASE p = Parent
    BY <1>2, <1>4, <2>1, <2>3 DEF RegionInv, TurnInBounds
  <2> QED BY <2>2, <2>3
<1> QED BY <1>3, <1>5, <1>6 DEF RegionInv

LEMMA ExitKeepsRegion ==
  ASSUME RegionInv, NEW code \in ExitCode, Exit(code),
         UNCHANGED <<faults, texture, frame, notes>>
  PROVE  RegionInv'
BY LeavingKeepsRegion, ProcessIsBinary
DEF Exit, Goto, notes, RegionInv, TypeOK, ExitCode

LEMMA FailsKeepsRegion ==
  ASSUME RegionInv, NEW p \in Process, NEW code \in ExitCode, Fails(p, code),
         UNCHANGED <<faults, texture, frame, validationFailed>>
  PROVE  RegionInv'
<1>1. CASE p = Parent
  BY <1>1, LeavingKeepsRegion, ProcessIsBinary
  DEF Fails, Goto, RegionInv, TypeOK
<1>2. CASE p = Child
  BY <1>2, ExitKeepsRegion, ProcessIsBinary DEF Fails, notes
<1> QED BY <1>1, <1>2, ProcessIsBinary

LEMMA ProcessStepKeepsRegion ==
  ASSUME RegionInv, NEW p \in Process, ProcessStep(p)
  PROVE  RegionInv'
<1> USE ProcessIsBinary, IterationsAssumption
<1>1. CASE AcquireSucceeds(p)
  <2>1. /\ mutex' \in Mutexes(Process, {0, 1}) /\ mutex'.owner = p
        /\ mutex'.key = p /\ mutex.owner = NoOwner
    BY <1>1
    DEF AcquireSucceeds, CanAcquire, RegionInv, TypeOK, AcquiredBy, Mutexes
  <2>2. /\ pc' = [pc EXCEPT ![p] = AfterAcquire(p)]
        /\ AfterAcquire(p) \in Region /\ pc[p] = "acquire"
        /\ AfterAcquire(p) = "write" => p = Parent /\ frame[p] = 0
        /\ UNCHANGED <<faults, texture, frame, failure, validationFailed>>
    BY <1>1 DEF AcquireSucceeds, Goto, AfterAcquire, Region, notes
  <2>3. \A q \in Process : pc[q] \notin Region
    BY <2>1 DEF RegionInv, RegionOwnsMutex, NoOwner
  <2> QED
    BY <2>1, <2>2, <2>3
    DEF RegionInv, TypeOK, RegionOwnsMutex, HolderHasTurn, TurnInBounds
<1>2. CASE AcquireFails(p)
  BY <1>2, FailsKeepsRegion DEF AcquireFails, ExitCode
<1>3. CASE Validate(p)
  <2>1. /\ pc' = [pc EXCEPT ![p] = AfterValidate(p)] /\ pc[p] = "validate"
        /\ AfterValidate(p) \in {"release", "write"}
        /\ AfterValidate(p) = "write" => ~(p = Parent /\ frame[p] = Iterations)
        /\ UNCHANGED <<faults, mutex, texture, frame>>
    BY <1>3 DEF Validate, Goto, AfterValidate, FinalTurn
  <2>2. failure' \in BOOLEAN /\ validationFailed' \in BOOLEAN
    BY <1>3 DEF Validate, NoteMismatch, notes, RegionInv, TypeOK
  <2> QED
    BY <2>1, <2>2
    DEF RegionInv, TypeOK, RegionOwnsMutex, HolderHasTurn, TurnInBounds, Region
<1>4. CASE WriteSignature(p)
  <2>1. /\ pc' = [pc EXCEPT ![p] = "release"] /\ pc[p] = "write"
        /\ texture' = Signature(p, frame[p])
        /\ UNCHANGED <<faults, mutex, frame, failure, validationFailed>>
    BY <1>4 DEF WriteSignature, Goto, notes
  <2>2. frame[p] \in 0 .. (Iterations - 1)
    BY <2>1 DEF RegionInv, TypeOK, TurnInBounds, Region
  <2>3. texture' \in [frame : -1 .. (Iterations - 1), stage : Process]
    BY <2>1, <2>2 DEF Signature
  <2> QED
    BY <2>1, <2>3
    DEF RegionInv, TypeOK, RegionOwnsMutex, HolderHasTurn, TurnInBounds, Region
<1>5. CASE ReleaseSucceeds(p)
  <2>1. ReleaseKey(p) \in {0, 1}
    BY DEF ReleaseKey
  <2>2. /\ mutex' \in Mutexes(Process, {0, 1}) /\ mutex'.owner = NoOwner
        /\ mutex.owner = p
    BY <1>5, <2>1
    DEF ReleaseSucceeds, CanRelease, RegionInv, TypeOK, ReleasedWith, Mutexes
  <2>3. /\ pc' = [pc EXCEPT ![p] = AfterRelease(p)] /\ pc[p] = "release"
        /\ AfterRelease(p) \in {"wait", "return", "acquire"}
        /\ UNCHANGED <<faults, texture, failure, validationFailed>>
    BY <1>5 DEF ReleaseSucceeds, Goto, AfterRelease, notes
  <2>4. /\ frame' \in [Process -> 0 .. Iterations]
        /\ p = Child /\ AfterRelease(p) = "acquire" => frame'[p] < Iterations
        /\ \A q \in Process : q # p => frame'[q] = frame[q]
    <3>1. CASE FinalTurn(p)
      BY <1>5, <3>1 DEF ReleaseSucceeds, FinalTurn, RegionInv, TypeOK
    <3>2. CASE ~FinalTurn(p)
      <4>1. frame[p] \in 0 .. (Iterations - 1)
        BY <2>3, <3>2
        DEF FinalTurn, RegionInv, TypeOK, TurnInBounds, Region
      <4>2. frame' = [frame EXCEPT ![p] = @ + 1]
        BY <1>5, <3>2 DEF ReleaseSucceeds
      <4>3. p = Child /\ AfterRelease(p) = "acquire" => frame[p] + 1 # Iterations
        BY <3>2 DEF AfterRelease
      <4> QED BY <4>1, <4>2, <4>3 DEF RegionInv, TypeOK
    <3> QED BY <3>1, <3>2
  <2>5. \A q \in Process : q # p => pc[q] \notin Region
    BY <2>2 DEF RegionInv, RegionOwnsMutex
  <2>6. pc'[p] = AfterRelease(p) /\ \A q \in Process : q # p => pc'[q] = pc[q]
    BY <2>3 DEF RegionInv, TypeOK
  <2>7. TypeOK'
    BY <2>2, <2>3, <2>4 DEF RegionInv, TypeOK
  <2>8. TurnInBounds'
    BY <2>3, <2>4, <2>6 DEF RegionInv, TurnInBounds, Region
  <2> QED
    BY <2>2, <2>3, <2>5, <2>6, <2>7, <2>8
    DEF RegionInv, RegionOwnsMutex, HolderHasTurn, Region
<1>6. CASE ReleaseFails(p)
  BY <1>6, FailsKeepsRegion DEF ReleaseFails, ExitCode
<1>7. CASE Throw(p)
  <2>1. CASE p = Child
    BY <1>7, <2>1, ExitKeepsRegion DEF Throw, ExitCode
  <2>2. CASE p = Parent
    BY <1>7, <2>2, LeavingKeepsRegion
    DEF Throw, Goto, notes, RegionInv, TypeOK
  <2> QED BY <2>1, <2>2
<1> QED BY <1>1, <1>2, <1>3, <1>4, <1>5, <1>6, <1>7 DEF ProcessStep

\* The steps outside the turns.
OtherStep ==
  \/ ChildSetup \/ ChildSetupFails \/ ChildReturns \/ ChildKilled
  \/ WaitSucceeds \/ WaitFails \/ Unwind \/ UNCHANGED vars

LEMMA NextSteps ==
  ASSUME [Next]_vars
  PROVE  (\E p \in Process : ProcessStep(p)) \/ OtherStep
BY ProcessIsBinary
DEF Next, ParentStep, ChildStep, Finished, OtherStep

LEMMA OtherStepKeepsRegion ==
  ASSUME RegionInv, OtherStep
  PROVE  RegionInv'
<1> USE ProcessIsBinary DEF Goto, notes
<1>1. CASE ChildSetup
  BY <1>1, LeavingKeepsRegion DEF ChildSetup, RegionInv, TypeOK, TurnInBounds
<1>2. CASE ChildSetupFails
  BY <1>2, ExitKeepsRegion DEF ChildSetupFails, ExitCode
<1>3. CASE ChildReturns
  BY <1>3, ExitKeepsRegion DEF ChildReturns, ExitCode
<1>4. CASE ChildKilled
  BY <1>4, ExitKeepsRegion DEF ChildKilled, ExitCode
<1>5. CASE WaitSucceeds
  BY <1>5, LeavingKeepsRegion DEF WaitSucceeds, Verdict, RegionInv, TypeOK
<1>6. CASE WaitFails
  BY <1>6, LeavingKeepsRegion DEF WaitFails, RegionInv, TypeOK
<1>7. CASE Unwind
  <2>1. /\ mutex' = mutex \/ mutex' = AbandonedBy(Child)
        /\ UNCHANGED <<faults, texture, frame, failure, validationFailed>>
        /\ \/ pc' = [pc EXCEPT ![Parent] = "fail"]
           \/ pc' = [pc EXCEPT ![Parent] = "fail", ![Child] = "killed"]
    BY <1>7 DEF Unwind
  <2>2. /\ mutex' \in Mutexes(Process, {0, 1})
        /\ mutex'.owner = mutex.owner /\ mutex'.key = mutex.key
    BY <2>1, AbandonedByType DEF RegionInv, TypeOK
  <2>3. TypeOK'
    BY <2>1, <2>2 DEF RegionInv, TypeOK, ExitCode, Verdict
  <2>4. pc'[Parent] = "fail" /\ pc'[Child] \in {pc[Child], "killed"}
    BY <2>1 DEF RegionInv, TypeOK
  <2> QED
    BY <2>1, <2>2, <2>3, <2>4
    DEF RegionInv, RegionOwnsMutex, HolderHasTurn, TurnInBounds, Region
<1>8. CASE UNCHANGED vars
  BY <1>8
  DEF vars, RegionInv, TypeOK, RegionOwnsMutex, HolderHasTurn, TurnInBounds
<1> QED
  BY <1>1, <1>2, <1>3, <1>4, <1>5, <1>6, <1>7, <1>8 DEF OtherStep

\* An owner has the turn, and a process in its turn owns the mutex.
THEOREM RegionSafe == Spec => []RegionInv
<1>1. RegionInv /\ [Next]_vars => RegionInv'
  BY NextSteps, ProcessStepKeepsRegion, OtherStepKeepsRegion
<1> QED BY InitRegion, <1>1, PTL DEF Spec

\* The types of the state, for every number of frames.
THEOREM TypeCorrect == Spec => []TypeOK
BY RegionSafe, PTL DEF RegionInv

\* The turns of the two processes never overlap.
THEOREM TurnsExclude == Spec => []RegionOwnsMutex
BY RegionSafe, PTL DEF RegionInv

-----------------------------------------------------------------------------
(* The two processes implement the token ring of two parties.              *)

LEMMA InitIsRingInit == Init => Ring!Init
BY ProcessIsBinary
DEF Init, FreshMutex, NoOwner, Ring!Init, Ring!NoParty, Ring!Party

\* The child's death moves neither the token nor the turn.
LEMMA DeathKeepsToken ==
  ASSUME RegionInv, UNCHANGED frame,
         mutex' = mutex \/ mutex' = AbandonedBy(Child)
  PROVE  UNCHANGED Ring!vars
BY ProcessIsBinary, AbandonedByType DEF RegionInv, TypeOK, Ring!vars

LEMMA ProcessStepIsRingStep ==
  ASSUME RegionInv, NEW p \in Process, ProcessStep(p)
  PROVE  [Ring!Next]_(Ring!vars)
<1>1. p \in 0 .. 2 - 1 /\ mutex \in Mutexes(Process, {0, 1})
  BY ProcessIsBinary DEF RegionInv, TypeOK
<1>2. CASE AcquireSucceeds(p)
  <2>1. Ring!Take(p)
    BY <1>1, <1>2
    DEF AcquireSucceeds, CanAcquire, NoOwner, Ring!Take, Ring!NoParty,
        AcquiredBy, Mutexes
  <2> QED BY <1>1, <2>1 DEF Ring!Next, Ring!Party
<1>3. CASE ReleaseSucceeds(p)
  <2>1. /\ ReleaseKey(p) \in {0, 1} /\ mutex.owner = p
        /\ mutex'.owner = NoOwner /\ mutex'.key = ReleaseKey(p)
    <3>1. ReleaseKey(p) \in {0, 1}
      BY DEF ReleaseKey
    <3> QED
      BY <1>1, <1>3, <3>1
      DEF ReleaseSucceeds, CanRelease, ReleasedWith, Mutexes
  <2>2. CASE FinalTurn(p)
    <3>1. mutex.key = 0 /\ ReleaseKey(p) = 0
      BY <2>1, <2>2, ProcessIsBinary
      DEF FinalTurn, ReleaseKey, RegionInv, HolderHasTurn, NoOwner
    <3>2. Ring!PutBack(p)
      BY <1>3, <2>1, <2>2, <3>1
      DEF ReleaseSucceeds, NoOwner, Ring!PutBack, Ring!NoParty
    <3> QED BY <1>1, <3>2 DEF Ring!Next, Ring!Party
  <2>3. CASE ~FinalTurn(p)
    <3>1. ReleaseKey(p) = Ring!Successor(p)
      BY <2>3, ProcessIsBinary DEF ReleaseKey, Ring!Successor
    <3>2. Ring!Pass(p)
      BY <1>3, <2>1, <2>3, <3>1
      DEF ReleaseSucceeds, NoOwner, Ring!Pass, Ring!NoParty
    <3> QED BY <1>1, <3>2 DEF Ring!Next, Ring!Party
  <2> QED BY <2>2, <2>3
<1>4. CASE Validate(p) \/ WriteSignature(p)
  BY <1>4 DEF Validate, WriteSignature, Ring!vars
<1>5. CASE AcquireFails(p) \/ ReleaseFails(p) \/ Throw(p)
  BY <1>5, DeathKeepsToken
  DEF AcquireFails, ReleaseFails, Throw, Fails, Exit
<1> QED BY <1>2, <1>3, <1>4, <1>5 DEF ProcessStep

\* Every behaviour of the two processes, whoever dies, is one of the ring.
THEOREM ImplementsRing == Spec => TakesTurns
<1>1. RegionInv /\ [Next]_vars => [Ring!Next]_(Ring!vars)
  <2> SUFFICES ASSUME RegionInv, [Next]_vars PROVE [Ring!Next]_(Ring!vars)
    OBVIOUS
  <2>1. CASE \E p \in Process : ProcessStep(p)
    BY <2>1, ProcessStepIsRingStep
  <2>2. CASE OtherStep
    BY <2>2, DeathKeepsToken
    DEF OtherStep, ChildSetup, ChildSetupFails, ChildReturns, ChildKilled,
        WaitSucceeds, WaitFails, Unwind, Exit, vars
  <2> QED BY <2>1, <2>2, NextSteps
<1> QED
  BY InitIsRingInit, RegionSafe, <1>1, PTL DEF Spec, TakesTurns, Ring!Spec

\* Only the party whose turn it is holds the token, and the token goes round in
\* order: the invariant of the abstract ring.
TokenInv == Ring!TypeOK /\ Ring!HolderHasTurn /\ Ring!InOrder

LEMMA InitToken ==
  ASSUME Ring!Init
  PROVE  TokenInv
BY DEF Ring!Init, TokenInv, Ring!TypeOK, Ring!HolderHasTurn, Ring!InOrder,
    Ring!Party, Ring!NoParty

LEMMA TakeKeepsToken ==
  ASSUME TokenInv, NEW p \in Ring!Party, Ring!Take(p) \/ Ring!PutBack(p)
  PROVE  TokenInv'
BY DEF Ring!Take, Ring!PutBack, TokenInv, Ring!TypeOK, Ring!HolderHasTurn,
    Ring!InOrder, Ring!Party, Ring!NoParty

\* Passing the token on moves one party from the laggards to the leaders; the
\* last party, by passing it, turns all leaders into laggards again.
LEMMA PassKeepsToken ==
  ASSUME TokenInv, NEW p \in Ring!Party, Ring!Pass(p)
  PROVE  TokenInv'
<1>1. p = mutex.key /\ 1 \in Ring!Party
  BY DEF Ring!Pass, TokenInv, Ring!HolderHasTurn, Ring!NoParty, Ring!Party
<1>2. Ring!TypeOK' /\ Ring!HolderHasTurn'
  BY <1>1
  DEF Ring!Pass, TokenInv, Ring!TypeOK, Ring!HolderHasTurn, Ring!Party,
      Ring!NoParty, Ring!Successor
<1>3. Ring!InOrder'
  <2>1. CASE p = 1
    BY <1>1, <2>1
    DEF Ring!Pass, TokenInv, Ring!TypeOK, Ring!InOrder, Ring!Party,
        Ring!Successor
  <2>2. CASE p # 1
    BY <1>1, <2>2
    DEF Ring!Pass, TokenInv, Ring!TypeOK, Ring!InOrder, Ring!Party,
        Ring!Successor
  <2> QED BY <2>1, <2>2
<1> QED BY <1>2, <1>3 DEF TokenInv

LEMMA TokenStep == TokenInv /\ [Ring!Next]_(Ring!vars) => TokenInv'
<1> SUFFICES ASSUME TokenInv, [Ring!Next]_(Ring!vars) PROVE TokenInv'
  OBVIOUS
<1>1. CASE UNCHANGED Ring!vars
  BY <1>1
  DEF Ring!vars, TokenInv, Ring!TypeOK, Ring!HolderHasTurn, Ring!InOrder
<1>2. CASE Ring!Next
  BY <1>2, TakeKeepsToken, PassKeepsToken DEF Ring!Next
<1> QED BY <1>1, <1>2

\* The parent is ahead by the turn it has passed to the child.
ChildFollows == frame[Parent] = frame[Child] + mutex.key

\* The loop counters of the two processes never drift apart.
THEOREM CountersInOrder == Spec => []ChildFollows
<1>1. Spec => []TokenInv
  BY ImplementsRing, InitToken, TokenStep, PTL DEF TakesTurns, Ring!Spec
<1>2. RegionInv /\ TokenInv => ChildFollows
  <2> SUFFICES ASSUME RegionInv, TokenInv PROVE ChildFollows
    OBVIOUS
  <2>1. mutex.key \in {0, 1} /\ frame[Child] \in Int
    BY ProcessIsBinary DEF RegionInv, TypeOK, Mutexes
  <2>2. frame[0] = frame[1] + (IF 0 < mutex.key THEN 1 ELSE 0)
    BY DEF TokenInv, Ring!InOrder, Ring!Party
  <2> QED BY <2>1, <2>2, ProcessIsBinary DEF ChildFollows
<1> QED BY <1>1, <1>2, RegionSafe, PTL

-----------------------------------------------------------------------------
(* A process that verifies finds what its peer wrote.                      *)

\* What the texture holds when the mutex changes hands: the signature that the
\* peer of the process whose turn it is wrote last.
Handed ==
  IF mutex.key = 1 THEN Signature(Parent, frame[Parent] - 1)
                   ELSE Signature(Child, frame[Child] - 1)

TextureInv ==
  /\ mutex.owner = NoOwner => texture = Handed
  /\ \A p \in Process :
       /\ pc[p] \in {"validate", "write"} => texture = Handed
       /\ pc[p] = "release" =>
            texture = IF FinalTurn(p) THEN Handed ELSE Signature(p, frame[p])

LEMMA InitTexture ==
  ASSUME Init
  PROVE  TextureInv
<1>1. texture = Handed
  BY ProcessIsBinary DEF Init, Blank, FreshMutex, Handed, Signature
<1>2. \A p \in Process : pc[p] \in {"setup", "acquire"}
  BY DEF Init, Spawned
<1> QED BY <1>1, <1>2 DEF TextureInv

\* A step that leaves texture, token and loop counters alone and brings nobody
\* into a turn.
LEMMA LeavingKeepsTexture ==
  ASSUME RegionInv, TextureInv, UNCHANGED <<texture, frame>>,
         mutex' = mutex \/ mutex' = AbandonedBy(Child),
         \A p \in Process : pc'[p] = pc[p] \/ pc'[p] \notin Region
  PROVE  TextureInv'
<1>1. mutex'.owner = mutex.owner /\ mutex'.key = mutex.key
  BY ProcessIsBinary, AbandonedByType DEF RegionInv, TypeOK
<1>2. Handed' = Handed /\ \A p \in Process : FinalTurn(p)' = FinalTurn(p)
  BY <1>1 DEF Handed, FinalTurn, Signature
<1> QED BY <1>1, <1>2 DEF TextureInv, Region, Signature

LEMMA ProcessStepKeepsTexture ==
  ASSUME RegionInv, TextureInv, NEW p \in Process, ProcessStep(p)
  PROVE  TextureInv'
<1> USE ProcessIsBinary
<1>a. /\ mutex \in Mutexes(Process, {0, 1})
      /\ frame \in [Process -> 0 .. Iterations]
      /\ \A q \in Process : pc[q] \in Region => mutex.owner = q
  BY DEF RegionInv, TypeOK, RegionOwnsMutex
<1>1. CASE AcquireSucceeds(p)
  <2>1. /\ mutex'.owner = p /\ mutex'.key = mutex.key /\ mutex.owner = NoOwner
        /\ UNCHANGED <<texture, frame>>
    BY <1>1, <1>a DEF AcquireSucceeds, CanAcquire, AcquiredBy, Mutexes
  <2>2. /\ pc'[p] \in {"validate", "write"}
        /\ \A q \in Process : q # p => pc'[q] = pc[q] /\ pc'[q] \notin Region
    BY <1>1, <1>a, <2>1
    DEF AcquireSucceeds, AfterAcquire, Goto, RegionInv, TypeOK, NoOwner
  <2>3. texture' = Handed'
    BY <2>1 DEF TextureInv, Handed, Signature
  <2> QED BY <2>1, <2>2, <2>3 DEF TextureInv, Region, NoOwner
<1>2. CASE Validate(p)
  <2>1. /\ UNCHANGED <<mutex, texture, frame>>
        /\ texture = Handed /\ mutex.owner = p
        /\ pc'[p] = AfterValidate(p)
        /\ \A q \in Process : q # p => pc'[q] = pc[q] /\ pc'[q] \notin Region
    BY <1>2, <1>a DEF Validate, Goto, RegionInv, TypeOK, TextureInv, Region
  <2>2. Handed' = Handed /\ FinalTurn(p)' = FinalTurn(p)
    BY <2>1 DEF Handed, FinalTurn, Signature
  <2>3. pc'[p] = IF FinalTurn(p) THEN "release" ELSE "write"
    BY <2>1 DEF AfterValidate
  <2> QED BY <1>a, <2>1, <2>2, <2>3 DEF TextureInv, Region, NoOwner
<1>3. CASE WriteSignature(p)
  <2>1. /\ UNCHANGED <<mutex, frame>> /\ mutex.owner = p
        /\ pc[p] = "write" /\ pc'[p] = "release"
        /\ texture' = Signature(p, frame[p])
        /\ \A q \in Process : q # p => pc'[q] = pc[q] /\ pc'[q] \notin Region
    BY <1>3, <1>a DEF WriteSignature, Goto, RegionInv, TypeOK, Region
  <2>2. ~FinalTurn(p)'
    BY <2>1, <1>a DEF RegionInv, TurnInBounds, FinalTurn
  <2> QED BY <2>1, <2>2 DEF TextureInv, Region, NoOwner, Signature
<1>4. CASE ReleaseSucceeds(p)
  <2>1. /\ ReleaseKey(p) \in {0, 1} /\ mutex.owner = p /\ mutex.key = p
        /\ mutex'.owner = NoOwner /\ mutex'.key = ReleaseKey(p)
        /\ texture' = texture
    <3>1. ReleaseKey(p) \in {0, 1}
      BY DEF ReleaseKey
    <3> QED
      BY <1>4, <1>a, <3>1
      DEF ReleaseSucceeds, CanRelease, RegionInv, HolderHasTurn, NoOwner,
          ReleasedWith, Mutexes
  <2>2. \A q \in Process : pc'[q] \notin Region
    BY <1>4, <1>a, <2>1
    DEF ReleaseSucceeds, AfterRelease, Goto, RegionInv, TypeOK, Region
  <2>3. CASE FinalTurn(p)
    <3>1. /\ ReleaseKey(p) = mutex.key /\ frame' = frame /\ texture = Handed
      BY <1>4, <2>1, <2>3
      DEF ReleaseSucceeds, ReleaseKey, FinalTurn, TextureInv
    <3> QED BY <2>1, <2>2, <3>1 DEF TextureInv, Region, Handed, Signature
  <2>4. CASE ~FinalTurn(p)
    <3>1. /\ ReleaseKey(p) = 1 - p /\ frame'[p] = frame[p] + 1
          /\ texture = Signature(p, frame[p])
      BY <1>4, <1>a, <2>4 DEF ReleaseSucceeds, ReleaseKey, TextureInv
    <3>2. texture' = Handed'
      BY <1>a, <2>1, <3>1 DEF Handed, Signature
    <3> QED BY <2>2, <3>2 DEF TextureInv, Region
  <2> QED BY <2>3, <2>4
<1>5. CASE AcquireFails(p) \/ ReleaseFails(p) \/ Throw(p)
  <2>1. /\ UNCHANGED <<texture, frame>>
        /\ mutex' = mutex \/ mutex' = AbandonedBy(Child)
        /\ \E l \in {"wait", "unwind"} \cup ExitCode : pc' = [pc EXCEPT ![p] = l]
    BY <1>5
    DEF AcquireFails, ReleaseFails, Throw, Fails, Exit, Goto, ExitCode
  <2>2. \A q \in Process : pc'[q] = pc[q] \/ pc'[q] \notin Region
    BY <2>1 DEF RegionInv, TypeOK, Region, ExitCode
  <2> QED BY <2>1, <2>2, LeavingKeepsTexture
<1> QED BY <1>1, <1>2, <1>3, <1>4, <1>5 DEF ProcessStep

LEMMA OtherStepKeepsTexture ==
  ASSUME RegionInv, TextureInv, OtherStep
  PROVE  TextureInv'
<1>1. /\ UNCHANGED <<texture, frame>>
      /\ mutex' = mutex \/ mutex' = AbandonedBy(Child)
  BY DEF OtherStep, ChildSetup, ChildSetupFails, ChildReturns, ChildKilled,
         WaitSucceeds, WaitFails, Unwind, Exit, vars
<1>2. \A p \in Process : pc'[p] = pc[p] \/ pc'[p] \notin Region
  BY ProcessIsBinary
  DEF OtherStep, ChildSetup, ChildSetupFails, ChildReturns, ChildKilled,
      WaitSucceeds, WaitFails, Unwind, Exit, Goto, vars, Region, RegionInv,
      TypeOK
<1> QED BY <1>1, <1>2, LeavingKeepsTexture

\* The texture holds what was written in the turn before, or in this one.
THEOREM TextureSafe == Spec => []TextureInv
<1>1. RegionInv /\ TextureInv /\ [Next]_vars => TextureInv'
  BY NextSteps, ProcessStepKeepsTexture, OtherStepKeepsTexture
<1> QED BY InitTexture, RegionSafe, <1>1, PTL DEF Spec

\* Whatever failed before, a process that verifies finds its peer's signature.
THEOREM MismatchesAreReal == Spec => []VerifiersFindPeer
<1>1. RegionInv /\ ChildFollows /\ TextureInv => VerifiersFindPeer
  <2> SUFFICES ASSUME RegionInv, ChildFollows, TextureInv,
                      NEW p \in Process, pc[p] = "validate"
               PROVE  texture = Expected(p)
    BY DEF VerifiersFindPeer
  <2>1. mutex.key = p /\ texture = Handed
    BY ProcessIsBinary
    DEF RegionInv, RegionOwnsMutex, HolderHasTurn, TextureInv, Region, NoOwner
  <2>2. frame \in [Process -> 0 .. Iterations]
    BY DEF RegionInv, TypeOK
  <2> QED
    BY <2>1, <2>2, ProcessIsBinary DEF ChildFollows, Handed, Expected
<1> QED BY <1>1, RegionSafe, CountersInOrder, TextureSafe, PTL

-----------------------------------------------------------------------------
(* What the parent may conclude when it gives its verdict.                 *)

\* Only the child's death abandons the mutex, and nobody gets it back.
OnlyTheDeadAbandon == mutex.abandoned => mutex.owner = Child /\ ~ChildRuns

\* The exit code of the child is true to what it did.
ExitCodeIsTrue ==
  /\ pc[Child] \in {"return", "success"} =>
       frame[Child] = Iterations /\ mutex.owner # Child
  /\ pc[Child] = "success" => ~validationFailed

\* The parent took the last signature back and put key 0.
TookBack ==
  frame[Parent] = Iterations /\ mutex.key = 0 /\ mutex.owner # Parent

ParentKnows ==
  /\ pc[Parent] = "wait" /\ ~failure => TookBack
  /\ pc[Parent] = "pass" => TookBack /\ pc[Child] = "success"
  /\ pc[Parent] \in Verdict => ~ChildRuns \/ "call error" \in faults

EndInv == OnlyTheDeadAbandon /\ ExitCodeIsTrue /\ ParentKnows

LEMMA InitEnd ==
  ASSUME Init
  PROVE  EndInv
<1>1. ~mutex.abandoned /\ pc[Child] = "setup" /\ pc[Parent] = "acquire"
  BY ProcessIsBinary DEF Init, Spawned, FreshMutex
<1> QED
  BY <1>1
  DEF EndInv, OnlyTheDeadAbandon, ExitCodeIsTrue, ParentKnows, Verdict

\* The end of the child, in whatever way.
LEMMA ExitKeepsEnd ==
  ASSUME RegionInv, EndInv, NEW code \in ExitCode, Exit(code), ChildRuns,
         UNCHANGED <<faults, texture, frame, failure, validationFailed>>,
         code = "success" => pc[Child] = "return" /\ ~validationFailed
  PROVE  EndInv'
<1> USE ProcessIsBinary
<1>1. /\ mutex'.owner = mutex.owner /\ mutex'.key = mutex.key
      /\ mutex'.abandoned = (mutex.abandoned \/ mutex.owner = Child)
  BY AbandonedByType DEF Exit, RegionInv, TypeOK
<1>2. pc'[Child] = code /\ pc'[Parent] = pc[Parent]
  BY DEF Exit, Goto, RegionInv, TypeOK
<1>3. ~ChildRuns'
  BY <1>2 DEF ChildRuns, ExitCode
<1>4. TookBack' = TookBack
  BY <1>1 DEF TookBack
<1>5. pc[Child] # "success" /\ code # "return"
  BY DEF ChildRuns, ExitCode
<1> QED
  BY <1>1, <1>2, <1>3, <1>4, <1>5
  DEF EndInv, OnlyTheDeadAbandon, ExitCodeIsTrue, ParentKnows

LEMMA PcUpdate ==
  ASSUME RegionInv, NEW p \in Process, NEW l, pc' = [pc EXCEPT ![p] = l]
  PROVE  pc'[p] = l /\ \A q \in Process : q # p => pc'[q] = pc[q]
BY DEF RegionInv, TypeOK

\* A step of the parent that leaves the child and the mutex alone.
LEMMA ParentMoveKeepsEnd ==
  ASSUME RegionInv, EndInv,
         NEW l \in {"validate", "write", "release", "wait", "unwind", "fail",
                    "pass"},
         pc' = [pc EXCEPT ![Parent] = l],
         UNCHANGED <<faults, mutex, frame, validationFailed>>,
         l = "wait" => failure' = TRUE,
         l = "pass" => TookBack /\ pc[Child] = "success",
         l \in Verdict => ~ChildRuns \/ "call error" \in faults
  PROVE  EndInv'
<1>1. pc'[Parent] = l /\ pc'[Child] = pc[Child]
  BY PcUpdate, TwoProcesses
<1>2. TookBack' = TookBack /\ ChildRuns' = ChildRuns
  BY <1>1 DEF TookBack, ChildRuns, ExitCode
<1> QED
  BY <1>1, <1>2
  DEF EndInv, OnlyTheDeadAbandon, ExitCodeIsTrue, ParentKnows, Verdict

LEMMA ParentTurnKeepsEnd ==
  ASSUME RegionInv, EndInv, ProcessStep(Parent)
  PROVE  EndInv'
<1> USE ProcessIsBinary
<1>a. /\ pc \in [Process -> {"setup", "acquire", "return", "wait", "unwind"}
                            \cup Region \cup ExitCode \cup Verdict]
      /\ mutex \in Mutexes(Process, {0, 1})
      /\ frame \in [Process -> 0 .. Iterations]
  BY DEF RegionInv, TypeOK
<1>1. CASE AcquireSucceeds(Parent)
  <2>1. /\ mutex'.owner = Parent /\ mutex'.abandoned = mutex.abandoned
        /\ ~mutex.abandoned
        /\ UNCHANGED <<faults, frame, failure, validationFailed>>
    BY <1>1, <1>a DEF AcquireSucceeds, CanAcquire, AcquiredBy, Mutexes, notes
  <2>2. pc'[Parent] \in Region /\ pc'[Child] = pc[Child]
    BY <1>1, <1>a DEF AcquireSucceeds, AfterAcquire, Goto, Region
  <2> QED
    BY <2>1, <2>2
    DEF EndInv, OnlyTheDeadAbandon, ExitCodeIsTrue, ParentKnows, Region, Verdict
<1>2. CASE Validate(Parent) \/ WriteSignature(Parent)
  <2>1. /\ UNCHANGED <<faults, mutex, frame, validationFailed>>
        /\ \E l \in {"write", "release"} : pc' = [pc EXCEPT ![Parent] = l]
    <3>1. validationFailed \in BOOLEAN
      BY DEF RegionInv, TypeOK
    <3>2. CASE Validate(Parent)
      <4>1. Parent # Child
        OBVIOUS
      <4>2. validationFailed' = validationFailed
        BY <3>1, <3>2, <4>1 DEF Validate, NoteMismatch, notes
      <4> QED BY <3>2, <4>2 DEF Validate, AfterValidate, Goto
    <3>3. CASE WriteSignature(Parent)
      BY <3>3 DEF WriteSignature, notes, Goto
    <3> QED BY <1>2, <3>2, <3>3
  <2> QED BY <2>1, ParentMoveKeepsEnd DEF Verdict
<1>3. CASE ReleaseSucceeds(Parent)
  <2>1. ReleaseKey(Parent) \in {0, 1}
    BY DEF ReleaseKey
  <2>2. /\ mutex'.owner = NoOwner /\ mutex'.key = ReleaseKey(Parent)
        /\ mutex'.abandoned = mutex.abandoned /\ mutex.owner = Parent
        /\ UNCHANGED <<faults, failure, validationFailed>>
    BY <1>3, <1>a, <2>1
    DEF ReleaseSucceeds, CanRelease, ReleasedWith, Mutexes, notes
  <2>3. /\ pc'[Parent] = IF FinalTurn(Parent) THEN "wait" ELSE "acquire"
        /\ pc'[Child] = pc[Child] /\ frame'[Child] = frame[Child]
        /\ ChildRuns' = ChildRuns
    <3>1. /\ pc' = [pc EXCEPT ![Parent] = AfterRelease(Parent)]
          /\ \/ frame' = frame
             \/ frame' = [frame EXCEPT ![Parent] = @ + 1]
      BY <1>3 DEF ReleaseSucceeds, Goto
    <3>2. AfterRelease(Parent) = IF FinalTurn(Parent) THEN "wait" ELSE "acquire"
      BY TwoProcesses DEF AfterRelease
    <3>3. pc'[Child] = pc[Child] /\ frame'[Child] = frame[Child]
      BY <1>a, <3>1, PcUpdate, TwoProcesses
    <3>4. pc'[Parent] = AfterRelease(Parent)
      BY <3>1, PcUpdate, TwoProcesses
    <3> QED BY <3>2, <3>3, <3>4 DEF ChildRuns, ExitCode
  <2>4. FinalTurn(Parent) => TookBack'
    BY <1>3, <2>2 DEF ReleaseSucceeds, ReleaseKey, FinalTurn, TookBack, NoOwner
  <2>5. OnlyTheDeadAbandon'
    BY <2>2, TwoProcesses DEF EndInv, OnlyTheDeadAbandon
  <2>6. ExitCodeIsTrue'
    BY <2>2, <2>3, TwoProcesses DEF EndInv, ExitCodeIsTrue
  <2>7. ParentKnows'
    BY <2>3, <2>4 DEF ParentKnows, Verdict
  <2> QED BY <2>5, <2>6, <2>7 DEF EndInv
<1>4. CASE AcquireFails(Parent) \/ ReleaseFails(Parent)
  BY <1>4, ParentMoveKeepsEnd
  DEF AcquireFails, ReleaseFails, Fails, Goto, Verdict
<1>5. CASE Throw(Parent)
  <2>1. /\ UNCHANGED <<faults, mutex, frame, validationFailed>>
        /\ pc' = [pc EXCEPT ![Parent] = "unwind"]
    BY <1>5 DEF Throw, Goto, notes
  <2> QED BY <2>1, ParentMoveKeepsEnd DEF Verdict
<1> QED BY <1>1, <1>2, <1>3, <1>4, <1>5 DEF ProcessStep

LEMMA ChildTurnKeepsEnd ==
  ASSUME RegionInv, EndInv, ProcessStep(Child)
  PROVE  EndInv'
<1> USE ProcessIsBinary
<1>a. /\ pc \in [Process -> {"setup", "acquire", "return", "wait", "unwind"}
                            \cup Region \cup ExitCode \cup Verdict]
      /\ mutex \in Mutexes(Process, {0, 1})
      /\ frame \in [Process -> 0 .. Iterations]
  BY DEF RegionInv, TypeOK
<1>b. /\ pc[Child] \in Region \cup {"acquire"}
      /\ ChildRuns /\ pc[Parent] # "pass" /\ ~mutex.abandoned
  <2>1. pc[Child] \in Region \cup {"acquire"}
    BY DEF ProcessStep, AcquireSucceeds, AcquireFails, Validate,
           WriteSignature, ReleaseSucceeds, ReleaseFails, Throw, Region
  <2>2. ChildRuns
    BY <2>1 DEF ChildRuns, ExitCode, Region
  <2> QED
    BY <2>1, <2>2
    DEF EndInv, OnlyTheDeadAbandon, ParentKnows, ChildRuns, ExitCode
<1>1. CASE AcquireSucceeds(Child)
  <2>1. /\ mutex'.owner = Child /\ mutex'.key = mutex.key /\ mutex.key = 1
        /\ mutex'.abandoned = mutex.abandoned
        /\ UNCHANGED <<faults, frame, failure, validationFailed>>
    BY <1>1, <1>a DEF AcquireSucceeds, CanAcquire, AcquiredBy, Mutexes, notes
  <2>2. pc'[Child] \in Region /\ pc'[Parent] = pc[Parent]
    BY <1>1, <1>a DEF AcquireSucceeds, AfterAcquire, Goto, Region
  <2>3. ChildRuns'
    BY <2>2 DEF ChildRuns, ExitCode, Region
  <2> QED
    BY <1>b, <2>1, <2>2, <2>3
    DEF EndInv, OnlyTheDeadAbandon, ExitCodeIsTrue, ParentKnows, TookBack,
        Region
<1>2. CASE Validate(Child) \/ WriteSignature(Child)
  <2>1. /\ UNCHANGED <<faults, mutex, frame, failure>>
        /\ \E l \in {"write", "release"} : pc' = [pc EXCEPT ![Child] = l]
    <3>1. failure \in BOOLEAN
      BY DEF RegionInv, TypeOK
    <3>2. CASE Validate(Child)
      <4>1. Parent # Child
        OBVIOUS
      <4>2. failure' = failure
        BY <3>1, <3>2, <4>1 DEF Validate, NoteMismatch, notes
      <4> QED BY <3>2, <4>2 DEF Validate, AfterValidate, Goto
    <3>3. CASE WriteSignature(Child)
      BY <3>3 DEF WriteSignature, notes, Goto
    <3> QED BY <1>2, <3>2, <3>3
  <2>2. pc'[Parent] = pc[Parent] /\ pc'[Child] \in {"write", "release"}
    BY <1>a, <2>1
  <2>3. ChildRuns'
    BY <2>2 DEF ChildRuns, ExitCode
  <2> QED
    BY <1>b, <2>1, <2>2, <2>3
    DEF EndInv, OnlyTheDeadAbandon, ExitCodeIsTrue, ParentKnows, TookBack
<1>3. CASE ReleaseSucceeds(Child)
  <2>1. /\ mutex'.owner = NoOwner /\ mutex'.key = 0
        /\ mutex'.abandoned = mutex.abandoned
        /\ UNCHANGED <<faults, failure, validationFailed>>
    BY <1>3, <1>a DEF ReleaseSucceeds, ReleaseKey, ReleasedWith, Mutexes, notes
  <2>2. /\ frame' = [frame EXCEPT ![Child] = @ + 1]
        /\ pc' = [pc EXCEPT ![Child] = AfterRelease(Child)]
    BY <1>3 DEF ReleaseSucceeds, FinalTurn, Goto
  <2>3. /\ frame'[Parent] = frame[Parent] /\ frame'[Child] = frame[Child] + 1
        /\ pc'[Parent] = pc[Parent] /\ pc'[Child] = AfterRelease(Child)
    BY <1>a, <2>2
  <2>4. /\ pc'[Child] \in {"return", "acquire"}
        /\ pc'[Child] = "return" => frame'[Child] = Iterations
    BY <2>3 DEF AfterRelease, FinalTurn
  <2>5. ChildRuns'
    BY <2>4 DEF ChildRuns, ExitCode
  <2>6. OnlyTheDeadAbandon'
    BY <1>b, <2>1 DEF OnlyTheDeadAbandon
  <2>7. ExitCodeIsTrue'
    BY <2>1, <2>4, TwoProcesses DEF ExitCodeIsTrue
  <2>8. TookBack => TookBack'
    BY <2>1, <2>3, TwoProcesses DEF TookBack
  <2>9. ParentKnows'
    BY <1>b, <2>1, <2>3, <2>8 DEF EndInv, ParentKnows
  <2> QED BY <2>6, <2>7, <2>9 DEF EndInv
<1>4. CASE AcquireFails(Child) \/ ReleaseFails(Child) \/ Throw(Child)
  <2>1. /\ UNCHANGED <<faults, texture, frame, failure, validationFailed>>
        /\ \E code \in ExitCode \ {"success"} : Exit(code)
    <3>1. Child # Parent
      BY TwoProcesses
    <3>2. CASE AcquireFails(Child)
      BY <3>1, <3>2 DEF AcquireFails, Fails, ExitCode
    <3>3. CASE ReleaseFails(Child)
      BY <3>1, <3>3 DEF ReleaseFails, Fails, ExitCode
    <3>4. CASE Throw(Child)
      BY <3>4 DEF Throw, notes, ExitCode
    <3> QED BY <1>4, <3>2, <3>3, <3>4
  <2> QED BY <1>b, <2>1, ExitKeepsEnd
<1> QED BY <1>1, <1>2, <1>3, <1>4 DEF ProcessStep

LEMMA OtherStepKeepsEnd ==
  ASSUME RegionInv, EndInv, OtherStep
  PROVE  EndInv'
<1> USE ProcessIsBinary
<1>a. pc \in [Process -> {"setup", "acquire", "return", "wait", "unwind"}
                         \cup Region \cup ExitCode \cup Verdict]
  BY DEF RegionInv, TypeOK
<1>1. CASE ChildSetup
  <2>1. /\ UNCHANGED <<faults, mutex, frame, failure, validationFailed>>
        /\ pc[Child] = "setup" /\ pc'[Child] = "acquire"
        /\ pc'[Parent] = pc[Parent]
    BY <1>1, <1>a DEF ChildSetup, Goto, notes
  <2>2. ChildRuns /\ ChildRuns'
    BY <2>1 DEF ChildRuns, ExitCode
  <2> QED
    BY <2>1, <2>2
    DEF EndInv, OnlyTheDeadAbandon, ExitCodeIsTrue, ParentKnows, TookBack
<1>2. CASE ChildSetupFails
  BY <1>2, ExitKeepsEnd DEF ChildSetupFails, ChildRuns, ExitCode, notes
<1>3. CASE ChildReturns
  BY <1>3, ExitKeepsEnd DEF ChildReturns, ChildRuns, ExitCode, notes
<1>4. CASE ChildKilled
  BY <1>4, ExitKeepsEnd DEF ChildKilled, ExitCode, notes
<1>5. CASE WaitSucceeds
  BY <1>5, ParentMoveKeepsEnd
  DEF WaitSucceeds, Goto, notes, Verdict, EndInv, ParentKnows
<1>6. CASE WaitFails
  BY <1>6, ParentMoveKeepsEnd DEF WaitFails, Goto, notes, Verdict
<1>7. CASE Unwind
  <2>1. CASE Goto(Parent, "fail") /\ UNCHANGED mutex
    <3>1. ~ChildRuns \/ "call error" \in faults
      BY <1>7, <1>a, <2>1 DEF Unwind, Goto, ChildRuns, ExitCode
    <3> QED
      BY <1>7, <2>1, <3>1, ParentMoveKeepsEnd DEF Unwind, Goto, notes, Verdict
  <2>2. CASE /\ ChildRuns
             /\ pc' = [pc EXCEPT ![Parent] = "fail", ![Child] = "killed"]
             /\ mutex' = AbandonedBy(Child)
    <3>1. /\ pc'[Parent] = "fail" /\ pc'[Child] = "killed"
          /\ UNCHANGED <<faults, frame, failure, validationFailed>>
      BY <1>7, <1>a, <2>2 DEF Unwind, notes
    <3>2. /\ mutex'.owner = mutex.owner
          /\ mutex'.abandoned = (mutex.abandoned \/ mutex.owner = Child)
      BY <2>2, AbandonedByType DEF RegionInv, TypeOK
    <3>3. ~ChildRuns'
      BY <3>1 DEF ChildRuns, ExitCode
    <3> QED
      BY <3>1, <3>2, <3>3
      DEF EndInv, OnlyTheDeadAbandon, ExitCodeIsTrue, ParentKnows
  <2> QED BY <1>7, <2>1, <2>2 DEF Unwind
<1>8. CASE UNCHANGED vars
  BY <1>8
  DEF vars, EndInv, OnlyTheDeadAbandon, ExitCodeIsTrue, ParentKnows, TookBack,
      ChildRuns
<1> QED
  BY <1>1, <1>2, <1>3, <1>4, <1>5, <1>6, <1>7, <1>8 DEF OtherStep

\* Exit codes and verdicts are true, and only the child abandons the mutex.
THEOREM EndSafe == Spec => []EndInv
<1>1. RegionInv /\ EndInv /\ [Next]_vars => EndInv'
  BY NextSteps, ProcessIsBinary, ParentTurnKeepsEnd, ChildTurnKeepsEnd,
     OtherStepKeepsEnd
<1> QED BY InitEnd, RegionSafe, <1>1, PTL DEF Spec

\* A verdict leaves no child behind, and a pass is earned by both processes.
THEOREM VerdictsAreEarned == Spec => []VerdictIsEarned
<1>1. RegionInv /\ EndInv => VerdictIsEarned
  <2> SUFFICES ASSUME RegionInv, EndInv PROVE VerdictIsEarned
    OBVIOUS
  <2>1. ASSUME pc[Parent] = "pass"
        PROVE  /\ \A p \in Process : frame[p] = Iterations
               /\ ~validationFailed /\ pc[Child] = "success"
               /\ mutex = FreshMutex
    <3>1. /\ frame[Parent] = Iterations /\ frame[Child] = Iterations
          /\ ~validationFailed /\ pc[Child] = "success"
          /\ mutex.key = 0 /\ mutex.owner \notin {Parent, Child}
      BY <2>1 DEF EndInv, ExitCodeIsTrue, ParentKnows, TookBack
    <3>2. mutex \in Mutexes(Process, {0, 1})
      BY ProcessIsBinary DEF RegionInv, TypeOK
    <3>3. mutex.owner = NoOwner /\ mutex.abandoned = FALSE
      BY <3>1, <3>2 DEF EndInv, OnlyTheDeadAbandon, Mutexes, Process
    <3> QED BY <3>1, <3>2, <3>3 DEF Process, Mutexes, FreshMutex
  <2> QED BY <2>1 DEF VerdictIsEarned, EndInv, ParentKnows
<1> QED BY <1>1, RegionSafe, EndSafe, PTL

\* Once the child died in its turn nobody touches the texture any more.
THEOREM AbandonedStaysAlone == Spec => AbandonedIsLeftAlone
<1>1. RegionInv /\ EndInv /\ [Next]_vars =>
        [mutex.abandoned => /\ texture' = texture
                            /\ pc'[Parent] \notin Region]_vars
  <2> SUFFICES ASSUME RegionInv, EndInv, [Next]_vars, mutex.abandoned
               PROVE  texture' = texture /\ pc'[Parent] \notin Region
    OBVIOUS
  <2> USE ProcessIsBinary
  <2>1. /\ mutex.owner = Child /\ ~ChildRuns /\ pc[Parent] \notin Region
        /\ pc[Child] \notin Region \cup {"acquire"}
    BY DEF EndInv, OnlyTheDeadAbandon, RegionInv, RegionOwnsMutex, ChildRuns,
           ExitCode, Region
  <2>2. CASE \E p \in Process : ProcessStep(p)
    <3>1. AcquireFails(Parent)
      BY <2>1, <2>2
      DEF ProcessStep, AcquireSucceeds, CanAcquire, AcquireFails, Validate,
          WriteSignature, ReleaseSucceeds, ReleaseFails, Throw, Region
    <3> QED
      BY <3>1 DEF AcquireFails, Fails, Goto, RegionInv, TypeOK, Region
  <2>3. CASE OtherStep
    BY <2>1, <2>3
    DEF OtherStep, ChildSetup, ChildSetupFails, ChildReturns, ChildKilled,
        WaitSucceeds, WaitFails, Unwind, Exit, Goto, vars, Region, RegionInv,
        TypeOK
  <2> QED BY <2>2, <2>3, NextSteps
<1> QED BY <1>1, RegionSafe, EndSafe, PTL DEF Spec, AbandonedIsLeftAlone
=============================================================================
