---------------------- MODULE ConcurrentWaitersProofs -----------------------
(***************************************************************************)
(* The concurrent waiters of experiment 07, for any number of waiters and  *)
(* rounds and whatever the driver rejects.                                 *)
(*                                                                         *)
(* All threads share one interface, so the mutex does not say which thread *)
(* owns it.  OwnInv recovers that from the program counters; ActiveInv     *)
(* brackets active between the waiters that were surely counted and those  *)
(* that may have been, RoundInv follows the completions through a round,   *)
(* and EndInv says what a controller has seen that stops without a word.   *)
(***************************************************************************)
EXTENDS ConcurrentWaiters, FiniteSetTheorems, TLAPS

\* A waiter between a successful AcquireSync and its ReleaseSync.
Turn == {"enter", "count", "release", "unwind"}

Labels == {"loop", "acquire", "enter", "unwind", "record", "count", "release",
           "leave", "leave failing", "done"}
ControllerLabels == {"loop", "release", "acquire", "stop", "join", "report",
                     "end"}

OneInTurn == \A v, w \in Waiter : pc[v] \in Turn /\ pc[w] \in Turn => v = w

\* A waiter in its turn has got the mutex with key 1, and the controller
\* knows that it does not own it.
TurnHasMutex ==
  \A w \in Waiter :
    pc[w] \in Turn => mutex.owner = Interface /\ mutex.key = 1 /\ ~owns

\* The controller owns the mutex when it believes it does, until its final
\* ReleaseSync.
OwnsIsTrue ==
  /\ owns /\ cpc \notin {"report", "end"}
       => mutex.owner = Interface /\ mutex.key = 0
  /\ cpc \in {"loop", "release"} => owns
  /\ cpc = "acquire" => ~owns

OwnInv ==
  /\ mutex \in Mutexes({Interface}, {0, 1})
  /\ pc \in [Waiter -> Labels] /\ cpc \in ControllerLabels /\ owns \in BOOLEAN
  /\ OneInTurn /\ TurnHasMutex /\ OwnsIsTrue
  /\ cpc \in {"report", "end"} => \A w \in Waiter : pc[w] = "done"

LEMMA InterfaceIsNobody == Interface # NoOwner
BY DEF Interface, NoOwner

LEMMA InitOwn ==
  ASSUME Init
  PROVE  OwnInv
<1>1. FreshMutex \in Mutexes({Interface}, {0, 1})
  BY DEF FreshMutex, Mutexes
<1>2. /\ mutex \in Mutexes({Interface}, {0, 1})
      /\ mutex.owner = Interface /\ mutex.key = 0
  BY <1>1 DEF Init, FreshMutex, AcquiredBy, Mutexes
<1>3. /\ pc \in [Waiter -> Labels] /\ cpc = "loop" /\ owns = TRUE
      /\ \A w \in Waiter : pc[w] = "loop"
  BY DEF Init, Labels
<1> QED
  BY <1>2, <1>3
  DEF OwnInv, OneInTurn, TurnHasMutex, OwnsIsTrue, Turn, ControllerLabels

LEMMA PcUpdate ==
  ASSUME OwnInv, NEW w \in Waiter, NEW l \in Labels, Goto(w, l)
  PROVE  /\ pc' \in [Waiter -> Labels] /\ pc'[w] = l
         /\ \A v \in Waiter : v # w => pc'[v] = pc[v]
BY DEF OwnInv, Goto

\* A waiter that does not touch the mutex and enters no turn.
LEMMA MoveKeepsOwn ==
  ASSUME OwnInv, NEW w \in Waiter, NEW l \in Labels, Goto(w, l),
         l \in Turn => pc[w] \in Turn, pc[w] # "done",
         UNCHANGED <<mutex, cpc, owns>>
  PROVE  OwnInv'
<1>1. /\ pc' \in [Waiter -> Labels] /\ pc'[w] = l
      /\ \A v \in Waiter : v # w => pc'[v] = pc[v]
  BY PcUpdate
<1> QED
  BY <1>1 DEF OwnInv, OneInTurn, TurnHasMutex, OwnsIsTrue

\* A waiter that gives key 0 back and leaves its turn.
LEMMA ReleaseKeepsOwn ==
  ASSUME OwnInv, NEW w \in Waiter, NEW l \in Labels \ Turn, Goto(w, l),
         pc[w] \in Turn, mutex' = ReleasedWith(mutex, 0),
         UNCHANGED <<cpc, owns>>
  PROVE  OwnInv'
<1>1. /\ pc' \in [Waiter -> Labels] /\ pc'[w] = l
      /\ \A v \in Waiter : v # w => pc'[v] = pc[v]
  BY PcUpdate
<1>2. /\ mutex' \in Mutexes({Interface}, {0, 1}) /\ ~owns
      /\ \A v \in Waiter : pc'[v] \notin Turn
  BY <1>1 DEF OwnInv, OneInTurn, TurnHasMutex, ReleasedWith, Mutexes
<1>3. cpc \notin {"report", "end"}
  BY DEF OwnInv, Turn
<1> QED
  BY <1>1, <1>2, <1>3 DEF OwnInv, OneInTurn, TurnHasMutex, OwnsIsTrue

LEMMA WaiterKeepsOwn ==
  ASSUME OwnInv, NEW w \in Waiter, WaiterStep(w)
  PROVE  OwnInv'
<1> USE DEF controls, Labels, Turn
<1>1. CASE Poll(w)
  BY <1>1, MoveKeepsOwn DEF Poll
<1>2. CASE AcquireSucceeds(w)
  <2>1. /\ pc[w] = "acquire" /\ Goto(w, "enter") /\ UNCHANGED <<cpc, owns>>
        /\ mutex.owner = NoOwner /\ mutex.key = 1
        /\ mutex' = AcquiredBy(mutex, Interface)
    BY <1>2 DEF AcquireSucceeds, CanAcquire
  <2>2. /\ mutex' \in Mutexes({Interface}, {0, 1})
        /\ mutex'.owner = Interface /\ mutex'.key = 1
    BY <2>1 DEF OwnInv, AcquiredBy, Mutexes
  <2>3. /\ pc' \in [Waiter -> Labels] /\ pc'[w] = "enter"
        /\ \A v \in Waiter : v # w => pc'[v] = pc[v]
    BY <2>1, PcUpdate
  <2>4. ~owns /\ cpc \notin {"report", "end"}
        /\ \A v \in Waiter : pc[v] \notin Turn
    BY <2>1, InterfaceIsNobody DEF OwnInv, OwnsIsTrue, TurnHasMutex
  <2> QED
    BY <2>1, <2>2, <2>3, <2>4 DEF OwnInv, OneInTurn, TurnHasMutex, OwnsIsTrue
<1>3. CASE AcquireTimesOut(w)
  BY <1>3, MoveKeepsOwn DEF AcquireTimesOut
<1>4. CASE AcquireRejected(w)
  BY <1>4, MoveKeepsOwn DEF AcquireRejected
<1>5. CASE AcquireFails(w)
  BY <1>5, MoveKeepsOwn DEF AcquireFails
<1>6. CASE Enter(w)
  BY <1>6, MoveKeepsOwn DEF Enter
<1>7. CASE EnterThrows(w)
  BY <1>7, MoveKeepsOwn DEF EnterThrows
<1>8. CASE RecordException(w)
  BY <1>8, MoveKeepsOwn DEF RecordException
<1>9. CASE Count(w)
  BY <1>9, MoveKeepsOwn DEF Count
<1>10. CASE Release(w)
  BY <1>10, MoveKeepsOwn, ReleaseKeepsOwn DEF Release
<1>11. CASE Leave(w)
  BY <1>11, MoveKeepsOwn DEF Leave
<1>12. CASE AcquireThrows(w)
  BY <1>12, MoveKeepsOwn DEF AcquireThrows
<1>13. CASE GiveBack(w)
  BY <1>13, MoveKeepsOwn, ReleaseKeepsOwn DEF GiveBack
<1> QED
  BY <1>1, <1>2, <1>3, <1>4, <1>5, <1>6, <1>7, <1>8, <1>9, <1>10, <1>11, <1>12,
     <1>13
  DEF WaiterStep

LEMMA ControllerKeepsOwn ==
  ASSUME OwnInv, ControllerStep
  PROVE  OwnInv'
<1> USE DEF ControllerLabels
<1>a. UNCHANGED pc
  BY DEF ControllerStep, NextRound, HandOut, TakeBack, TakeBackFails,
         StopWaiters, Join, Report
<1>1. CASE HandOut
  <2>1. /\ cpc = "release" /\ owns' = FALSE /\ cpc' \in {"acquire", "stop"}
        /\ mutex' = mutex \/ mutex' = ReleasedWith(mutex, 1)
    BY <1>1 DEF HandOut
  <2>2. mutex' \in Mutexes({Interface}, {0, 1})
    BY <2>1 DEF OwnInv, ReleasedWith, Mutexes
  <2>3. \A w \in Waiter : pc[w] \notin Turn
    BY <2>1 DEF OwnInv, TurnHasMutex, OwnsIsTrue
  <2> QED
    BY <1>a, <2>1, <2>2, <2>3 DEF OwnInv, OneInTurn, TurnHasMutex, OwnsIsTrue
<1>2. CASE TakeBack
  <2>1. /\ cpc = "acquire" /\ cpc' = "loop" /\ owns' = TRUE
        /\ mutex.owner = NoOwner /\ mutex.key = 0
        /\ mutex' = AcquiredBy(mutex, Interface)
    BY <1>2 DEF TakeBack, CanAcquire
  <2>2. /\ mutex' \in Mutexes({Interface}, {0, 1})
        /\ mutex'.owner = Interface /\ mutex'.key = 0
    BY <2>1 DEF OwnInv, AcquiredBy, Mutexes
  <2>3. \A w \in Waiter : pc[w] \notin Turn
    BY <2>1, InterfaceIsNobody DEF OwnInv, TurnHasMutex
  <2> QED
    BY <1>a, <2>1, <2>2, <2>3 DEF OwnInv, OneInTurn, TurnHasMutex, OwnsIsTrue
<1>3. CASE Join
  <2>1. /\ cpc' = "report" /\ UNCHANGED owns
        /\ \A w \in Waiter : pc[w] = "done"
        /\ mutex' = mutex \/ mutex' = ReleasedWith(mutex, 0)
    BY <1>3 DEF Join
  <2>2. mutex' \in Mutexes({Interface}, {0, 1})
    BY <2>1 DEF OwnInv, ReleasedWith, Mutexes
  <2> QED
    BY <1>a, <2>1, <2>2
    DEF OwnInv, OneInTurn, TurnHasMutex, OwnsIsTrue, Turn
<1>4. CASE NextRound \/ TakeBackFails \/ StopWaiters \/ Report
  <2>1. /\ UNCHANGED <<mutex, owns>>
        /\ cpc' \in ControllerLabels \ {"acquire", "report"}
        /\ cpc' \in {"loop", "release"} => cpc = "loop"
        /\ cpc' = "end" => cpc = "report"
        /\ cpc \in {"report", "end"} => cpc' = "end"
    BY <1>4 DEF NextRound, TakeBackFails, StopWaiters, Report
  <2> QED BY <1>a, <2>1 DEF OwnInv, OneInTurn, TurnHasMutex, OwnsIsTrue
<1> QED BY <1>1, <1>2, <1>3, <1>4 DEF ControllerStep

LEMMA NextSteps ==
  ASSUME [Next]_vars
  PROVE  \/ ControllerStep \/ \E w \in Waiter : WaiterStep(w)
         \/ UNCHANGED vars
BY DEF Next, Finished

\* Which thread is in its turn shows in the program counters.
THEOREM OwnSafe == Spec => []OwnInv
<1>1. OwnInv /\ [Next]_vars => OwnInv'
  <2>1. CASE UNCHANGED vars
    BY <2>1 DEF vars, OwnInv, OneInTurn, TurnHasMutex, OwnsIsTrue
  <2> QED BY <2>1, NextSteps, ControllerKeepsOwn, WaiterKeepsOwn
<1> QED BY InitOwn, <1>1, PTL DEF Spec

\* At most one of the threads that share the interface is in its turn.
THEOREM TurnsExclude == Spec => []OneThreadInTurn
<1>1. OwnInv => OneThreadInTurn
  <2> SUFFICES ASSUME OwnInv PROVE OneThreadInTurn
    OBVIOUS
  <2>1. CASE Inside = {}
    BY <2>1, FS_EmptySet DEF OneThreadInTurn
  <2>2. CASE Inside # {}
    <3>1. PICK w \in Waiter : pc[w] \in Turn
      BY <2>2 DEF Inside, Turn
    <3>2. Inside = {w} /\ ~owns
      BY <3>1 DEF OwnInv, OneInTurn, TurnHasMutex, Inside, Turn
    <3>3. Cardinality({w}) = 1
      BY FS_Singleton
    <3> QED BY <3>2, <3>3 DEF OneThreadInTurn
  <2> QED BY <2>1, <2>2
<1> QED BY OwnSafe, <1>1, PTL

-----------------------------------------------------------------------------
(* Counters.                                                               *)

\* The waiters between their fetch_add and fetch_sub ...
Counted ==
  {w \in Waiter : pc[w] \in {"count", "release", "leave", "leave failing"}}

\* ... and those that may still be counted in active: a waiter that threw on
\* an overlap is never taken off again.
MaybeCounted == {w \in Waiter : pc[w] \notin {"loop", "acquire", "enter"}}

ActiveInv ==
  /\ active \in Nat
  /\ Cardinality(Counted) <= active
  /\ active <= Cardinality(MaybeCounted)
  /\ ~overlap => active = Cardinality(Counted)

LEMMA WaitersFinite ==
  ASSUME NEW S \in SUBSET Waiter
  PROVE  IsFiniteSet(S) /\ Cardinality(S) \in 0 .. Waiters
<1>1. IsFiniteSet(Waiter) /\ Cardinality(Waiter) = Waiters
  BY WaitersAssumption, FS_Interval DEF Waiter
<1>2. IsFiniteSet(S) /\ Cardinality(S) <= Cardinality(Waiter)
  BY <1>1, FS_Subset
<1> QED BY <1>1, <1>2, FS_CardinalityType, WaitersAssumption

\* One waiter more, and one waiter less.
LEMMA OneMore ==
  ASSUME NEW S \in SUBSET Waiter, NEW w \in Waiter
  PROVE  /\ w \notin S => Cardinality(S \cup {w}) = Cardinality(S) + 1
         /\ w \in S => Cardinality(S \ {w}) = Cardinality(S) - 1
         /\ Cardinality(S) <= Cardinality(S \cup {w})
         /\ Cardinality(S) \in Nat
<1>1. IsFiniteSet(S) /\ Cardinality(S) \in Nat
  BY WaitersFinite
<1>2. Cardinality(S \cup {w})
        = IF w \in S THEN Cardinality(S) ELSE Cardinality(S) + 1
  BY <1>1, FS_AddElement
<1>3. Cardinality(S \ {w})
        = IF w \in S THEN Cardinality(S) - 1 ELSE Cardinality(S)
  BY <1>1, FS_RemoveElement
<1> QED BY <1>1, <1>2, <1>3

LEMMA InitActive ==
  ASSUME Init
  PROVE  ActiveInv
<1>1. Counted = {} /\ MaybeCounted = {}
  BY DEF Init, Counted, MaybeCounted
<1>2. Cardinality({}) = 0
  BY FS_EmptySet
<1> QED BY <1>1, <1>2 DEF Init, ActiveInv

\* A step of one waiter touches nobody else, nor the controller.
LEMMA WaiterLeavesOthers ==
  ASSUME OwnInv, NEW w \in Waiter, WaiterStep(w)
  PROVE  /\ UNCHANGED <<cpc, owns, round, stop, verdict>>
         /\ pc[w] # "done"
         /\ \A v \in Waiter : v # w => pc'[v] = pc[v]
<1>1. UNCHANGED <<cpc, owns, round, stop, verdict>> /\ pc[w] # "done"
  BY DEF WaiterStep, Poll, AcquireSucceeds, AcquireTimesOut, AcquireRejected,
         AcquireFails, AcquireThrows, Enter, EnterThrows, GiveBack,
         RecordException, Count, Release, Leave, controls
<1>2. \E l : Goto(w, l)
  BY DEF WaiterStep, Poll, AcquireSucceeds, AcquireTimesOut, AcquireRejected,
         AcquireFails, AcquireThrows, Enter, EnterThrows, GiveBack,
         RecordException, Count, Release, Leave
<1>3. \A v \in Waiter : v # w => pc'[v] = pc[v]
  BY <1>2 DEF OwnInv, Goto
<1> QED BY <1>1, <1>3

LEMMA WaiterKeepsActive ==
  ASSUME OwnInv, ActiveInv, NEW w \in Waiter, WaiterStep(w)
  PROVE  ActiveInv'
<1>a. \A v \in Waiter : v # w => pc'[v] = pc[v]
  BY WaiterLeavesOthers
<1>b. /\ Counted \in SUBSET Waiter /\ MaybeCounted \in SUBSET Waiter
  BY DEF Counted, MaybeCounted
<1>c. /\ Cardinality(Counted) \in Nat /\ Cardinality(MaybeCounted) \in Nat
      /\ Cardinality(MaybeCounted) <= Cardinality(MaybeCounted \cup {w})
  BY <1>b, OneMore
<1>1. CASE Enter(w)
  <2>1. /\ pc[w] = "enter" /\ pc'[w] = "count" /\ active' = active + 1
        /\ overlap' = IF active # 0 THEN TRUE ELSE overlap
    BY <1>1 DEF Enter, Goto, OwnInv
  <2>2. /\ Counted' = Counted \cup {w} /\ w \notin Counted
        /\ MaybeCounted' = MaybeCounted \cup {w} /\ w \notin MaybeCounted
    BY <1>a, <2>1 DEF Counted, MaybeCounted
  <2>3. /\ Cardinality(Counted \cup {w}) = Cardinality(Counted) + 1
        /\ Cardinality(MaybeCounted \cup {w}) = Cardinality(MaybeCounted) + 1
    BY <1>b, <2>2, OneMore
  <2>4. ~overlap' => ~overlap /\ active = 0
    BY <2>1
  <2> QED BY <1>c, <2>1, <2>2, <2>3, <2>4 DEF ActiveInv
<1>2. CASE EnterThrows(w)
  <2>1. /\ pc[w] = "enter" /\ pc'[w] = "unwind" /\ active' = active + 1
        /\ overlap' = TRUE
    BY <1>2 DEF EnterThrows, Goto, OwnInv
  <2>2. /\ Counted' = Counted
        /\ MaybeCounted' = MaybeCounted \cup {w} /\ w \notin MaybeCounted
    BY <1>a, <2>1 DEF Counted, MaybeCounted
  <2>3. Cardinality(MaybeCounted \cup {w}) = Cardinality(MaybeCounted) + 1
    BY <1>b, <2>2, OneMore
  <2> QED BY <1>c, <2>1, <2>2, <2>3 DEF ActiveInv
<1>3. CASE Leave(w)
  <2>1. /\ pc[w] \in {"leave", "leave failing"}
        /\ pc'[w] \in {"loop", "record"}
        /\ active' = active - 1 /\ UNCHANGED overlap
    BY <1>3 DEF Leave, Goto, OwnInv
  <2>2. /\ Counted' = Counted \ {w} /\ w \in Counted /\ w \in MaybeCounted
        /\ MaybeCounted' = MaybeCounted \/ MaybeCounted' = MaybeCounted \ {w}
    BY <1>a, <2>1 DEF Counted, MaybeCounted
  <2>3. /\ Cardinality(Counted)' = Cardinality(Counted) - 1
        /\ Cardinality(Counted \ {w}) \in Nat
    BY <1>b, <2>2, OneMore, WaitersFinite
  <2>4. \/ Cardinality(MaybeCounted)' = Cardinality(MaybeCounted)
        \/ Cardinality(MaybeCounted)' = Cardinality(MaybeCounted) - 1
    BY <1>b, <2>2, OneMore
  <2>5. Cardinality(Counted)' \in Nat
    BY <2>2, <2>3
  <2> DEFINE k == Cardinality(Counted)   m == Cardinality(MaybeCounted)
  <2>6. /\ k \in Nat /\ m \in Nat /\ active \in Nat /\ k <= active
        /\ active <= m /\ active' = active - 1
    BY <1>c, <2>1 DEF ActiveInv
  <2> HIDE DEF k, m
  <2>7. k - 1 \in Nat => active - 1 \in Nat /\ k - 1 <= active - 1
    BY <2>6
  <2>8. active' \in Nat /\ Cardinality(Counted)' <= active'
    BY <2>3, <2>5, <2>6, <2>7 DEF k
  <2>9. active' <= Cardinality(MaybeCounted)'
    BY <2>4, <2>6 DEF m
  <2>10. ~overlap' => active' = Cardinality(Counted)'
    BY <2>1, <2>3 DEF ActiveInv
  <2> QED BY <2>8, <2>9, <2>10 DEF ActiveInv
<1>4. CASE ~(Enter(w) \/ EnterThrows(w) \/ Leave(w))
  <2>1. /\ UNCHANGED <<active, overlap>>
        /\ w \in Counted <=> w \in Counted'
        /\ w \in MaybeCounted => w \in MaybeCounted'
    BY <1>4
    DEF WaiterStep, Poll, AcquireSucceeds, AcquireTimesOut, AcquireRejected,
        AcquireFails, AcquireThrows, GiveBack, RecordException, Count, Release,
        Goto, OwnInv, tallies, Counted, MaybeCounted
  <2>2. /\ Counted' = Counted
        /\ \/ MaybeCounted' = MaybeCounted
           \/ MaybeCounted' = MaybeCounted \cup {w}
    BY <1>a, <2>1 DEF Counted, MaybeCounted
  <2>3. /\ Cardinality(Counted)' = Cardinality(Counted)
        /\ \/ Cardinality(MaybeCounted)' = Cardinality(MaybeCounted)
           \/ Cardinality(MaybeCounted)' = Cardinality(MaybeCounted) + 1
    BY <1>b, <2>2, OneMore
  <2> QED BY <1>c, <2>1, <2>3 DEF ActiveInv
<1> QED BY <1>1, <1>2, <1>3, <1>4

\* active brackets the waiters inside; it is exact until an overlap is seen.
THEOREM ActiveSafe == Spec => []ActiveInv
<1>1. OwnInv /\ ActiveInv /\ [Next]_vars => ActiveInv'
  <2>1. CASE UNCHANGED vars \/ ControllerStep
    <3>1. UNCHANGED <<pc, active, overlap>>
      BY <2>1
      DEF vars, ControllerStep, NextRound, HandOut, TakeBack, TakeBackFails,
          StopWaiters, Join, Report, tallies
    <3> QED BY <3>1 DEF ActiveInv, Counted, MaybeCounted
  <2> QED BY <2>1, NextSteps, WaiterKeepsActive
<1> QED BY InitActive, OwnSafe, <1>1, PTL DEF Spec

-----------------------------------------------------------------------------
(* Completions.                                                            *)

\* One counter goes up by one, and so does the total.
LEMMA TotalGrows ==
  ASSUME NEW S, NEW f \in [S -> Nat], NEW x \in S, IsFiniteSet(Events(f)),
         NEW g, g = [f EXCEPT ![x] = @ + 1]
  PROVE  IsFiniteSet(Events(g)) /\ Total(g) = Total(f) + 1
<1> DEFINE e == <<x, f[x] + 1>>
<1>1. \A y \in S : f[y] \in Nat
  OBVIOUS
<1>2. /\ DOMAIN f = S /\ DOMAIN g = S
      /\ \A y \in S : g[y] = IF y = x THEN f[x] + 1 ELSE f[y]
  OBVIOUS
<1>3. 1 .. (f[x] + 1) = (1 .. f[x]) \cup {f[x] + 1}
  BY <1>1
<1>4. e \notin Events(f)
  BY <1>1 DEF Events
<1>5. Events(g) = Events(f) \cup {e}
  <2>1. \A y \in S : {y} \X (1 .. g[y])
                       = ({y} \X (1 .. f[y])) \cup (IF y = x THEN {e} ELSE {})
    BY <1>2, <1>3
  <2> QED BY <1>2, <2>1 DEF Events
<1> HIDE DEF e
<1>6. /\ IsFiniteSet(Events(f) \cup {e})
      /\ Cardinality(Events(f) \cup {e}) = Cardinality(Events(f)) + 1
  BY <1>4, FS_AddElement
<1> QED BY <1>5, <1>6 DEF Total

\* The waiters' own counters add up to the completions.
TallyInv ==
  /\ wins \in [Waiter -> Nat] /\ IsFiniteSet(Events(wins))
  /\ completed \in Nat /\ completed = Total(wins)

THEOREM TallySafe == Spec => []TallyInv
<1>1. Init => TallyInv
  <2> SUFFICES ASSUME Init PROVE TallyInv
    OBVIOUS
  <2>1. wins \in [Waiter -> Nat] /\ completed = 0
    BY DEF Init
  <2>2. Events(wins) = {}
    BY DEF Init, Events
  <2>3. IsFiniteSet(Events(wins)) /\ Total(wins) = 0
    BY <2>2, FS_EmptySet DEF Total
  <2> QED BY <2>1, <2>3 DEF TallyInv
<1>2. TallyInv /\ [Next]_vars => TallyInv'
  <2> SUFFICES ASSUME TallyInv, [Next]_vars PROVE TallyInv'
    OBVIOUS
  <2>1. CASE \E w \in Waiter : Count(w)
    <3>1. PICK w \in Waiter :
            wins' = [wins EXCEPT ![w] = @ + 1] /\ completed' = completed + 1
      BY <2>1 DEF Count
    <3>2. wins' \in [Waiter -> Nat]
      BY <3>1 DEF TallyInv
    <3>3. IsFiniteSet(Events(wins')) /\ Total(wins') = Total(wins) + 1
      BY <3>1, TotalGrows DEF TallyInv
    <3>4. Events(wins)' = Events(wins') /\ Total(wins)' = Total(wins')
      BY DEF Events, Total
    <3> QED BY <3>1, <3>2, <3>3, <3>4 DEF TallyInv
  <2>2. CASE ~\E w \in Waiter : Count(w)
    <3>1. UNCHANGED <<wins, completed>>
      BY <2>2, NextSteps
      DEF vars, tallies, ControllerStep, NextRound, HandOut, TakeBack,
          TakeBackFails, StopWaiters, Join, Report, WaiterStep, Poll,
          AcquireSucceeds, AcquireTimesOut, AcquireRejected, AcquireFails,
          AcquireThrows, Enter, EnterThrows, GiveBack, RecordException,
          Release, Leave
    <3> QED BY <3>1 DEF TallyInv, Total, Events
  <2> QED BY <2>1, <2>2
<1> QED BY <1>1, <1>2, PTL DEF Spec

\* No other waiter completes between the controller's ReleaseSync(1) and its
\* AcquireSync(0): the key tells how far the round has got.
RoundProgress ==
  /\ owns => completed = round
  /\ cpc = "acquire" =>
       /\ mutex.owner = NoOwner /\ mutex.key = 1 => completed = round
       /\ mutex.owner = NoOwner /\ mutex.key = 0 => completed = round + 1
       /\ \A w \in Waiter :
            /\ pc[w] \in {"enter", "count"} => completed = round
            /\ pc[w] = "release" => completed = round + 1

RoundInv ==
  /\ round \in 0 .. Rounds /\ completed \in Nat
  /\ cpc \in {"release", "acquire"} => round < Rounds
  /\ \A w \in Waiter : pc[w] = "unwind" => overlap = TRUE
  /\ ~overlap => RoundProgress

LEMMA InitRound ==
  ASSUME Init
  PROVE  RoundInv
BY RoundsAssumption DEF Init, RoundInv, RoundProgress

LEMMA WaiterKeepsRound ==
  ASSUME OwnInv, RoundInv, NEW w \in Waiter, WaiterStep(w)
  PROVE  RoundInv'
<1>a. /\ UNCHANGED <<cpc, owns, round>>
      /\ \A v \in Waiter : v # w => pc'[v] = pc[v]
  BY WaiterLeavesOthers
<1>1. CASE AcquireSucceeds(w)
  <2>1. /\ pc'[w] = "enter" /\ mutex'.owner = Interface
        /\ mutex.owner = NoOwner /\ mutex.key = 1
        /\ UNCHANGED <<completed, overlap>>
    BY <1>1
    DEF AcquireSucceeds, CanAcquire, Goto, OwnInv, AcquiredBy, Mutexes, tallies
  <2> QED BY <1>a, <2>1, InterfaceIsNobody DEF RoundInv, RoundProgress
<1>2. CASE Enter(w)
  <2>1. /\ pc[w] = "enter" /\ pc'[w] = "count"
        /\ UNCHANGED <<completed, mutex>>
        /\ overlap' \in {overlap, TRUE}
    BY <1>2 DEF Enter, Goto, OwnInv
  <2> QED BY <1>a, <2>1 DEF RoundInv, RoundProgress
<1>3. CASE EnterThrows(w) \/ GiveBack(w)
  <2>1. overlap' = TRUE /\ UNCHANGED completed
    BY <1>3 DEF EnterThrows, GiveBack, RoundInv, tallies
  <2> QED BY <1>a, <2>1 DEF RoundInv
<1>4. CASE Count(w)
  <2>1. /\ pc[w] = "count" /\ pc'[w] = "release"
        /\ completed' = completed + 1 /\ UNCHANGED <<mutex, overlap>>
    BY <1>4 DEF Count, Goto, OwnInv
  <2>2. /\ ~owns /\ mutex.owner = Interface
        /\ \A v \in Waiter : v # w => pc[v] \notin Turn
    BY <2>1 DEF OwnInv, OneInTurn, TurnHasMutex, Turn
  <2>3. completed' \in Nat
    BY <2>1 DEF RoundInv
  <2> QED
    BY <1>a, <2>1, <2>2, <2>3, InterfaceIsNobody
    DEF RoundInv, RoundProgress, Turn
<1>5. CASE Release(w)
  <2>1. /\ pc[w] = "release" /\ pc'[w] \in {"leave", "leave failing"}
        /\ UNCHANGED <<completed, overlap>>
        /\ mutex' = mutex \/ mutex' = ReleasedWith(mutex, 0)
    BY <1>5 DEF Release, Goto, OwnInv, tallies
  <2>2. ~overlap /\ cpc = "acquire" => completed = round + 1
    BY <2>1 DEF RoundInv, RoundProgress
  <2>3. \A v \in Waiter :
          pc'[v] \in {"enter", "count", "release"} => pc'[v] = pc[v]
    BY <1>a, <2>1
  <2>4. CASE UNCHANGED mutex
    BY <1>a, <2>1, <2>3, <2>4 DEF RoundInv, RoundProgress
  <2>5. CASE mutex' = ReleasedWith(mutex, 0)
    <3>1. mutex'.key = 0
      BY <2>5 DEF OwnInv, ReleasedWith, Mutexes
    <3>2. ~overlap => (owns' => completed' = round')
      BY <1>a, <2>1 DEF RoundInv, RoundProgress
    <3>3. mutex'.owner = NoOwner /\ mutex'.key = 1 => completed' = round'
      BY <3>1
    <3>4. ~overlap /\ cpc' = "acquire" => completed' = round' + 1
      BY <1>a, <2>1, <2>2
    <3>5. ~overlap /\ cpc' = "acquire" =>
            \A v \in Waiter :
              /\ pc'[v] \in {"enter", "count"} => completed' = round'
              /\ pc'[v] = "release" => completed' = round' + 1
      BY <1>a, <2>1, <2>3 DEF RoundInv, RoundProgress
    <3> QED
      BY <1>a, <2>1, <3>2, <3>3, <3>4, <3>5 DEF RoundInv, RoundProgress
  <2> QED BY <2>1, <2>4, <2>5
<1>6. CASE \/ Poll(w) \/ AcquireTimesOut(w) \/ AcquireRejected(w)
           \/ AcquireFails(w) \/ AcquireThrows(w) \/ RecordException(w)
           \/ Leave(w)
  <2>1. /\ pc'[w] \notin {"enter", "count", "release", "unwind"}
        /\ UNCHANGED <<completed, overlap, mutex>>
    BY <1>6
    DEF Poll, AcquireTimesOut, AcquireRejected, AcquireFails, AcquireThrows,
        RecordException, Leave, Goto, OwnInv, tallies
  <2> QED BY <1>a, <2>1 DEF RoundInv, RoundProgress
<1> QED BY <1>1, <1>2, <1>3, <1>4, <1>5, <1>6 DEF WaiterStep

LEMMA ControllerKeepsRound ==
  ASSUME OwnInv, RoundInv, ControllerStep
  PROVE  RoundInv'
<1>a. UNCHANGED <<pc, completed, overlap>>
  BY DEF ControllerStep, NextRound, HandOut, TakeBack, TakeBackFails,
         StopWaiters, Join, Report, tallies
<1>1. CASE HandOut
  <2>1. /\ cpc = "release" /\ owns' = FALSE /\ UNCHANGED round
        /\ \/ cpc' = "stop"
           \/ cpc' = "acquire" /\ mutex' = ReleasedWith(mutex, 1)
    BY <1>1 DEF HandOut
  <2>2. /\ ReleasedWith(mutex, 1).key = 1
        /\ owns /\ \A w \in Waiter : pc[w] \notin Turn
    BY <2>1 DEF OwnInv, OwnsIsTrue, TurnHasMutex, ReleasedWith, Mutexes
  <2> QED BY <1>a, <2>1, <2>2 DEF RoundInv, RoundProgress, Turn
<1>2. CASE TakeBack
  <2>1. /\ cpc = "acquire" /\ cpc' = "loop" /\ round' = round + 1
        /\ mutex.owner = NoOwner /\ mutex.key = 0
    BY <1>2 DEF TakeBack, CanAcquire
  <2>2. round' \in 0 .. Rounds
    BY <2>1, RoundsAssumption DEF RoundInv
  <2>3. ~overlap => completed = round'
    BY <2>1 DEF RoundInv, RoundProgress
  <2> QED BY <1>a, <2>1, <2>2, <2>3 DEF RoundInv, RoundProgress
<1>3. CASE NextRound
  <2>1. /\ UNCHANGED <<owns, round>>
        /\ \/ cpc' = "stop"
           \/ cpc' = "release" /\ round < Rounds
    BY <1>3 DEF NextRound
  <2> QED BY <1>a, <2>1 DEF RoundInv, RoundProgress
<1>4. CASE TakeBackFails \/ StopWaiters \/ Join \/ Report
  <2>1. UNCHANGED <<owns, round>> /\ cpc' \in {"stop", "join", "report", "end"}
    BY <1>4 DEF TakeBackFails, StopWaiters, Join, Report
  <2> QED BY <1>a, <2>1 DEF RoundInv, RoundProgress
<1> QED BY <1>1, <1>2, <1>3, <1>4 DEF ControllerStep

\* The completions keep pace with the rounds.
THEOREM RoundSafe == Spec => []RoundInv
<1>1. OwnInv /\ RoundInv /\ [Next]_vars => RoundInv'
  <2>1. CASE UNCHANGED vars
    BY <2>1 DEF vars, RoundInv, RoundProgress
  <2> QED BY <2>1, NextSteps, ControllerKeepsRound, WaiterKeepsRound
<1> QED BY InitRound, OwnSafe, <1>1, PTL DEF Spec

\* Whatever failed meanwhile, the counters tell the truth.
THEOREM CountersTellTheTruth == Spec => []CountersAreAccurate
<1>1. ActiveInv /\ TallyInv /\ RoundInv => CountersAreAccurate
  BY DEF ActiveInv, TallyInv, RoundInv, RoundProgress, CountersAreAccurate,
         Counted
<1> QED BY ActiveSafe, TallySafe, RoundSafe, <1>1, PTL

-----------------------------------------------------------------------------
(* The end of the probe.                                                   *)

\* A controller that stops early, and a waiter that sees an overlap, have
\* recorded it, or the waiter is about to.
EndInv ==
  /\ cpc \in {"stop", "join", "report", "end"} /\ ~Failed
       => owns /\ round = Rounds
  /\ overlap => Failed \/ \E w \in Waiter : pc[w] \in {"unwind", "record"}
  /\ message \in {"none", "rejected", "failure"}
  /\ verdict \in {"running", "fail", "observed", "pass"}
  /\ stop \in BOOLEAN /\ overlap \in BOOLEAN

LEMMA InitEnd ==
  ASSUME Init
  PROVE  EndInv
BY DEF Init, EndInv

\* A failure that is recorded stays recorded.
LEMMA FailRecords ==
  ASSUME NEW kind \in {"rejected", "failure"}, Fail(kind),
         message \in {"none", "rejected", "failure"}
  PROVE  message' \in {"none", "rejected", "failure"} /\ Failed'
BY DEF Fail, Failed

LEMMA WaiterKeepsEnd ==
  ASSUME OwnInv, EndInv, NEW w \in Waiter, WaiterStep(w)
  PROVE  EndInv'
<1>a. /\ UNCHANGED <<cpc, owns, round, stop, verdict>>
      /\ \A v \in Waiter : v # w => pc'[v] = pc[v]
  BY WaiterLeavesOthers
<1>1. CASE EnterThrows(w) \/ GiveBack(w) \/ AcquireThrows(w)
  <2>1. /\ pc'[w] \in {"unwind", "record"} /\ UNCHANGED message
        /\ overlap' \in BOOLEAN
    BY <1>1
    DEF EnterThrows, GiveBack, AcquireThrows, Goto, OwnInv, EndInv, tallies
  <2> QED BY <1>a, <2>1 DEF EndInv, Failed
<1>2. CASE Enter(w) /\ active # 0
  <2>1. overlap' = TRUE /\ Fail("failure")
    BY <1>2 DEF Enter
  <2>2. Failed' /\ message' \in {"none", "rejected", "failure"}
    BY <2>1, FailRecords DEF EndInv
  <2> QED BY <1>a, <2>1, <2>2 DEF EndInv
<1>3. CASE AcquireRejected(w) \/ AcquireFails(w) \/ RecordException(w)
  <2>1. UNCHANGED overlap /\ (Fail("rejected") \/ Fail("failure"))
    BY <1>3 DEF AcquireRejected, AcquireFails, RecordException, tallies
  <2>2. Failed' /\ message' \in {"none", "rejected", "failure"}
    BY <2>1, FailRecords DEF EndInv
  <2> QED BY <1>a, <2>1, <2>2 DEF EndInv
<1>4. CASE \/ Poll(w) \/ AcquireSucceeds(w) \/ AcquireTimesOut(w)
           \/ Enter(w) /\ active = 0
           \/ Count(w) \/ Release(w) \/ Leave(w)
  <2>1. UNCHANGED <<overlap, message>>
        /\ pc[w] \notin {"unwind", "record"}
    BY <1>4
    DEF Poll, AcquireSucceeds, AcquireTimesOut, Enter, Count, Release, Leave,
        tallies
  <2> QED BY <1>a, <2>1 DEF EndInv, Failed
<1> QED BY <1>1, <1>2, <1>3, <1>4 DEF WaiterStep

LEMMA ControllerKeepsEnd ==
  ASSUME OwnInv, ActiveInv, RoundInv, EndInv, ControllerStep
  PROVE  EndInv'
<1>a. UNCHANGED <<pc, overlap>>
  BY DEF ControllerStep, NextRound, HandOut, TakeBack, TakeBackFails,
         StopWaiters, Join, Report, tallies
<1>1. CASE Report
  <2>1. /\ cpc = "report" /\ cpc' = "end"
        /\ UNCHANGED <<owns, round, stop, message>>
    BY <1>1 DEF Report
  <2>2. message = "none" => CountsAgree
    <3> SUFFICES ASSUME message = "none" PROVE CountsAgree
      OBVIOUS
    <3>1. owns /\ round = Rounds /\ \A w \in Waiter : pc[w] = "done"
      BY <2>1 DEF EndInv, OwnInv, Failed
    <3>2. ~overlap
      BY <3>1 DEF EndInv, Failed
    <3>3. completed = Rounds
      BY <3>1, <3>2 DEF RoundInv, RoundProgress
    <3>4. Counted = {}
      BY <3>1 DEF Counted
    <3>5. active = 0
      BY <3>2, <3>4, FS_EmptySet DEF ActiveInv
    <3> QED BY <3>2, <3>3, <3>5 DEF CountsAgree
  <2>3. verdict' \in {"fail", "observed", "pass"}
    BY <1>1, <2>2 DEF Report, EndInv
  <2> QED BY <1>a, <2>1, <2>3 DEF EndInv, Failed
<1>2. CASE NextRound
  <2>1. /\ cpc = "loop" /\ cpc' \in {"release", "stop"}
        /\ cpc' = "stop" => ~(round < Rounds) \/ Failed
        /\ UNCHANGED <<owns, round, stop, message, verdict>>
    BY <1>2 DEF NextRound
  <2>2. cpc' = "stop" /\ ~Failed => owns /\ round = Rounds
    BY <2>1, RoundsAssumption DEF RoundInv, OwnInv, OwnsIsTrue
  <2> QED BY <1>a, <2>1, <2>2 DEF EndInv, Failed
<1>3. CASE HandOut \/ TakeBackFails
  <2>1. CASE cpc' = "acquire" /\ UNCHANGED <<stop, message, verdict>>
    BY <1>a, <2>1 DEF EndInv, Failed
  <2>2. CASE Fail("failure") /\ UNCHANGED <<stop, verdict>>
    <3>1. Failed' /\ message' \in {"none", "rejected", "failure"}
      BY <2>2, FailRecords DEF EndInv
    <3> QED BY <1>a, <2>2, <3>1 DEF EndInv
  <2> QED BY <1>3, <2>1, <2>2 DEF HandOut, TakeBackFails
<1>4. CASE TakeBack
  <2>1. cpc' = "loop" /\ UNCHANGED <<stop, message, verdict>>
    BY <1>4 DEF TakeBack
  <2> QED BY <1>a, <2>1 DEF EndInv, Failed
<1>5. CASE StopWaiters \/ Join
  <2>1. /\ cpc \in {"stop", "join"} /\ cpc' \in {"join", "report"}
        /\ stop' = TRUE \/ UNCHANGED stop
        /\ UNCHANGED <<owns, round, message, verdict>>
    BY <1>5 DEF StopWaiters, Join
  <2>2. stop' \in BOOLEAN
    BY <2>1 DEF EndInv
  <2> QED BY <1>a, <2>1, <2>2 DEF EndInv, Failed
<1> QED BY <1>1, <1>2, <1>3, <1>4, <1>5 DEF ControllerStep

\* A probe that records nothing has played all its rounds and seen no overlap.
THEOREM EndSafe == Spec => []EndInv
<1>1. OwnInv /\ ActiveInv /\ RoundInv /\ EndInv /\ [Next]_vars => EndInv'
  <2>1. CASE UNCHANGED vars
    BY <2>1 DEF vars, EndInv, Failed
  <2> QED BY <2>1, NextSteps, ControllerKeepsEnd, WaiterKeepsEnd
<1> QED BY InitEnd, OwnSafe, ActiveSafe, RoundSafe, <1>1, PTL DEF Spec

\* When nothing is recorded, all the counters the test compares agree.
THEOREM CountersAgree == Spec => []AssertionsHold
<1>1. EndInv => AssertionsHold
  BY DEF EndInv, AssertionsHold
<1> QED BY EndSafe, <1>1, PTL

\* The state is well typed; active never exceeds the number of waiters.
THEOREM TypeCorrect == Spec => []TypeOK
<1>1. OwnInv /\ ActiveInv /\ TallyInv /\ RoundInv /\ EndInv => TypeOK
  <2> SUFFICES ASSUME OwnInv, ActiveInv, TallyInv, RoundInv, EndInv
               PROVE  TypeOK
    OBVIOUS
  <2>1. active \in 0 .. Waiters
    <3>1. Cardinality(MaybeCounted) \in 0 .. Waiters
      BY WaitersFinite DEF MaybeCounted
    <3> QED BY <3>1, WaitersAssumption DEF ActiveInv
  <2>2. /\ message \in {"none", "rejected", "failure"}
        /\ verdict \in {"running", "fail", "observed", "pass", "counts differ"}
        /\ stop \in BOOLEAN /\ overlap \in BOOLEAN
    BY DEF EndInv
  <2>3. round \in 0 .. Rounds /\ completed \in Nat /\ wins \in [Waiter -> Nat]
    BY DEF RoundInv, TallyInv
  <2> QED
    BY <2>1, <2>2, <2>3 DEF OwnInv, TypeOK, Labels, ControllerLabels
<1> QED BY OwnSafe, ActiveSafe, TallySafe, RoundSafe, EndSafe, <1>1, PTL
=============================================================================
