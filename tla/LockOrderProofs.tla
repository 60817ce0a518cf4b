-------------------------- MODULE LockOrderProofs ---------------------------
(***************************************************************************)
(* The two halves of experiment 10: first the same order of the two        *)
(* mutexes, for every number of participants and rounds, then the reverse  *)
(* order. The environment may do whatever the models let it.               *)
(*                                                                         *)
(* Same order: none of the properties is inductive by itself. Local(p)     *)
(* says what a participant holds and owns at each of its program points;   *)
(* the part that carries the argument is that a participant in front of    *)
(* AcquireSync(A) owns nothing, even after others have failed, because a   *)
(* participant that leaves a mutex behind records a failure and never      *)
(* starts another round.                                                   *)
(*                                                                         *)
(* Reverse order: between the barrier and its second acquisition a         *)
(* participant keeps its first mutex, which is the one the other           *)
(* participant asks for; that is what makes one of them give up            *)
(* (CircleHolds).                                                          *)
(***************************************************************************)
EXTENDS SameOrderLocks, TLAPS

OwnsNothing(p) == \A m \in Mutex : ~Owns(p, m)

Local(p) ==
  /\ pc[p] = "acquire A" => held[p] = {} /\ OwnsNothing(p)
  /\ pc[p] = "acquire B" => held[p] = {"A"} /\ ~Owns(p, "B")
  /\ pc[p] = "release B" => held[p] = Mutex
  /\ pc[p] = "release A" => held[p] = {"A"} /\ ~Owns(p, "B")
  /\ pc[p] = "failing" => (Owns(p, "B") => Owns(p, "A"))
  /\ pc[p] \in {"loop", "cleanup", "done"} /\ ~failed
       => held[p] = {} /\ OwnsNothing(p)
  /\ pc[p] = "loop" => held[p] = {}

LockInv == TypeOK /\ HeldIsOwned /\ \A p \in Participant : Local(p)

\* completedRounds never runs ahead of the loop counter by more than the round
\* being finished, and a participant in a round has not played them all.
Counts(p) ==
  /\ pc[p] \notin {"loop", "done"} => round[p] < Rounds
  /\ completed[p] <= round[p] + 1
  /\ pc[p] # "cleanup" => completed[p] <= round[p]

IInv == LockInv /\ \A p \in Participant : Counts(p)

LEMMA InitLock ==
  ASSUME Init
  PROVE  LockInv
<1>1. mutex \in [Mutex -> Mutexes(Participant, {0})]
  BY DEF Init, FreshMutex, Mutexes
<1>2. \A m \in Mutex : mutex[m].owner = NoOwner
  BY DEF Init, FreshMutex
<1>3. TypeOK
  <2>1. 0 \in 0 .. Rounds
    BY RoundsAssumption
  <2>2. /\ round \in [Participant -> 0 .. Rounds]
        /\ completed \in [Participant -> 0 .. Rounds]
    BY <2>1 DEF Init
  <2> QED BY <1>1, <2>2 DEF Init, TypeOK
<1>4. ASSUME NEW p \in Participant PROVE OwnsNothing(p)
  BY <1>2, NAssumption DEF OwnsNothing, Owns, Participant, NoOwner
<1> QED BY <1>3, <1>4 DEF Init, LockInv, HeldIsOwned, Local

\* A participant's step that leaves the mutexes, the flags and its own
\* possessions alone, and goes to a point whose claims it meets.
LEMMA MoveKeepsLock ==
  ASSUME LockInv, NEW p \in Participant, NEW label,
         label \in {"loop", "acquire A", "failing", "done", "cleanup"},
         Goto(p, label), UNCHANGED <<mutex, held>>,
         failed' \in BOOLEAN, failed => failed',
         round' \in [Participant -> 0 .. Rounds],
         UNCHANGED <<completed, verdict>>,
         label = "acquire A" => held[p] = {} /\ OwnsNothing(p),
         label = "failing" => (Owns(p, "B") => Owns(p, "A")),
         label \in {"loop", "cleanup", "done"} /\ ~failed'
           => held[p] = {} /\ OwnsNothing(p),
         label = "loop" => held[p] = {}
  PROVE  LockInv'
<1>1. TypeOK'
  BY DEF LockInv, TypeOK, Goto
<1>2. HeldIsOwned'
  BY DEF LockInv, HeldIsOwned, Owns
<1>3. ASSUME NEW q \in Participant PROVE Local(q)'
  <2>1. CASE q = p
    BY <2>1 DEF LockInv, TypeOK, Goto, Local, OwnsNothing, Owns
  <2>2. CASE q # p
    BY <2>2 DEF LockInv, TypeOK, Goto, Local, OwnsNothing, Owns
  <2> QED BY <2>1, <2>2
<1> QED BY <1>1, <1>2, <1>3 DEF LockInv

LEMMA AcquireKeepsLock ==
  ASSUME LockInv, NEW p \in Participant, NEW m \in Mutex, AcquireSucceeds(p, m)
  PROVE  LockInv'
<1> USE DEF LockInv
<1>1. /\ mutex' \in [Mutex -> Mutexes(Participant, {0})]
      /\ mutex'[m].owner = p
      /\ \A n \in Mutex \ {m} : mutex'[n] = mutex[n]
  <2>1. mutex[m] \in Mutexes(Participant, {0})
    BY DEF TypeOK
  <2>2. mutex' = [mutex EXCEPT ![m] = AcquiredBy(mutex[m], p)]
    BY DEF AcquireSucceeds
  <2>3. /\ AcquiredBy(mutex[m], p) \in Mutexes(Participant, {0})
        /\ AcquiredBy(mutex[m], p).owner = p
    BY <2>1 DEF AcquiredBy, Mutexes
  <2> QED BY <2>2, <2>3 DEF TypeOK
<1>2. \A q \in Participant : ~Owns(q, m)
  BY NAssumption DEF AcquireSucceeds, CanAcquire, Owns, Participant, NoOwner
<1>3. /\ Owns(p, m)'
      /\ \A q \in Participant : \A n \in Mutex : n # m => (Owns(q, n)' <=> Owns(q, n))
      /\ \A q \in Participant : q # p => ~Owns(q, m)'
  BY <1>1 DEF Owns
<1>4. /\ held' \in [Participant -> SUBSET Mutex]
      /\ held'[p] = held[p] \cup {m}
      /\ \A q \in Participant : q # p => held'[q] = held[q]
  BY DEF AcquireSucceeds, Hold, TypeOK
<1>5. /\ pc' = [pc EXCEPT ![p] = AfterAcquire(m)]
      /\ pc[p] = AcquireAt(m)
      /\ UNCHANGED <<failed, round, completed, verdict>>
  BY DEF AcquireSucceeds, Goto, loops
<1>6. TypeOK'
  BY <1>1, <1>4, <1>5 DEF TypeOK, AfterAcquire
<1>7. HeldIsOwned'
  BY <1>2, <1>3, <1>4 DEF HeldIsOwned
<1>8. ASSUME NEW q \in Participant PROVE Local(q)'
  <2>1. CASE q = p
    <3>1. CASE m = "A"
      BY <2>1, <3>1, <1>3, <1>4, <1>5
      DEF Local, OwnsNothing, AcquireAt, AfterAcquire, TypeOK, Mutex
    <3>2. CASE m = "B"
      BY <2>1, <3>2, <1>3, <1>4, <1>5
      DEF Local, OwnsNothing, AcquireAt, AfterAcquire, TypeOK, Mutex
    <3> QED BY <3>1, <3>2 DEF Mutex
  <2>2. CASE q # p
    <3>1. \A n \in Mutex : Owns(q, n)' <=> Owns(q, n)
      BY <2>2, <1>2, <1>3
    <3> QED BY <2>2, <3>1, <1>4, <1>5 DEF Local, OwnsNothing, TypeOK, Mutex
  <2> QED BY <2>1, <2>2
<1> QED BY <1>6, <1>7, <1>8

\* What a successful ReleaseSync does, inside a round or in the clean-up.
LEMMA ReleaseEffect ==
  ASSUME LockInv, NEW p \in Participant, NEW m \in Mutex,
         CanRelease(mutex[m], p),
         mutex' = [mutex EXCEPT ![m] = ReleasedWith(mutex[m], 0)]
  PROVE  /\ mutex' \in [Mutex -> Mutexes(Participant, {0})]
         /\ \A q \in Participant : ~Owns(q, m)'
         /\ \A q \in Participant : \A n \in Mutex :
              n # m \/ q # p => (Owns(q, n)' <=> Owns(q, n))
<1>1. mutex[m] \in Mutexes(Participant, {0})
  BY DEF LockInv, TypeOK
<1>2. /\ ReleasedWith(mutex[m], 0) \in Mutexes(Participant, {0})
      /\ ReleasedWith(mutex[m], 0).owner = NoOwner
  BY <1>1 DEF ReleasedWith, Mutexes
<1>3. /\ mutex' \in [Mutex -> Mutexes(Participant, {0})]
      /\ mutex'[m].owner = NoOwner
      /\ \A n \in Mutex \ {m} : mutex'[n] = mutex[n]
  BY <1>2 DEF LockInv, TypeOK
<1>4. \A q \in Participant : q # NoOwner
  BY NAssumption DEF Participant, NoOwner
<1> QED BY <1>3, <1>4 DEF CanRelease, Owns

LEMMA ReleaseKeepsLock ==
  ASSUME LockInv, NEW p \in Participant, NEW m \in Mutex, ReleaseSucceeds(p, m),
         completed' \in [Participant -> 0 .. Rounds]
  PROVE  LockInv'
<1> USE DEF LockInv
<1>1. /\ mutex' \in [Mutex -> Mutexes(Participant, {0})]
      /\ \A q \in Participant : ~Owns(q, m)'
      /\ \A q \in Participant : \A n \in Mutex :
           n # m \/ q # p => (Owns(q, n)' <=> Owns(q, n))
  BY ReleaseEffect DEF ReleaseSucceeds
<1>2. /\ held' \in [Participant -> SUBSET Mutex]
      /\ held'[p] = held[p] \ {m}
      /\ \A q \in Participant : q # p => held'[q] = held[q]
  BY DEF ReleaseSucceeds, Forget, TypeOK
<1>3. /\ pc' = [pc EXCEPT ![p] = AfterRelease(m)]
      /\ pc[p] = ReleaseAt(m)
      /\ UNCHANGED <<failed, round, verdict>>
  BY DEF ReleaseSucceeds, Goto
<1>4. TypeOK'
  BY <1>1, <1>2, <1>3 DEF TypeOK, AfterRelease
<1>5. HeldIsOwned'
  <2>1. \A q \in Participant : q # p => m \notin held[q]
    BY DEF HeldIsOwned, Owns, ReleaseSucceeds, CanRelease
  <2> QED BY <2>1, <1>1, <1>2 DEF HeldIsOwned, TypeOK
<1>6. ASSUME NEW q \in Participant PROVE Local(q)'
  <2>1. CASE q = p
    <3>1. CASE m = "A"
      <4>1. pc[p] = "release A" /\ pc'[p] = "cleanup"
        BY <3>1, <1>3 DEF ReleaseAt, AfterRelease, TypeOK
      <4>2. held'[p] = {}
        BY <4>1, <3>1, <1>2 DEF Local
      <4>3. OwnsNothing(p)'
        BY <4>1, <3>1, <1>1 DEF Local, OwnsNothing, Mutex
      <4> QED BY <2>1, <4>1, <4>2, <4>3 DEF Local
    <3>2. CASE m = "B"
      <4>1. pc[p] = "release B" /\ pc'[p] = "release A"
        BY <3>2, <1>3 DEF ReleaseAt, AfterRelease, TypeOK
      <4>2. held[p] = Mutex
        BY <4>1 DEF Local
      <4>3. held'[p] = {"A"}
        BY <4>2, <3>2, <1>2 DEF Mutex
      <4> QED BY <2>1, <3>2, <4>1, <4>3, <1>1 DEF Local
    <3> QED BY <3>1, <3>2 DEF Mutex
  <2>2. CASE q # p
    BY <2>2, <1>1, <1>2, <1>3 DEF Local, OwnsNothing, TypeOK, Mutex
  <2> QED BY <2>1, <2>2
<1> QED BY <1>4, <1>5, <1>6

LEMMA CleanUpKeepsLock ==
  ASSUME LockInv, NEW p \in Participant, NEW m \in Mutex, CleanUp(p, m)
  PROVE  LockInv'
<1> USE DEF LockInv
<1>1. /\ pc[p] = "cleanup" /\ m \in held[p] /\ failed
      /\ UNCHANGED <<pc, failed, round, completed, verdict>>
  BY DEF CleanUp, Local, loops, TypeOK
<1>2. /\ held' \in [Participant -> SUBSET Mutex]
      /\ held'[p] = held[p] \ {m}
      /\ \A q \in Participant : q # p => held'[q] = held[q]
  BY DEF CleanUp, Forget, TypeOK
<1>3. /\ mutex' \in [Mutex -> Mutexes(Participant, {0})]
      /\ \A q \in Participant : \A n \in Mutex :
           n # m \/ q # p => (Owns(q, n)' <=> Owns(q, n))
  <2>1. CASE UNCHANGED mutex
    BY <2>1 DEF TypeOK, Owns
  <2>2. CASE /\ CanRelease(mutex[m], p)
             /\ mutex' = [mutex EXCEPT ![m] = ReleasedWith(mutex[m], 0)]
    BY <2>2, ReleaseEffect
  <2> QED BY <2>1, <2>2 DEF CleanUp
<1>4. TypeOK'
  BY <1>1, <1>2, <1>3 DEF TypeOK
<1>5. HeldIsOwned'
  BY <1>2, <1>3 DEF HeldIsOwned, TypeOK
<1>6. ASSUME NEW q \in Participant PROVE Local(q)'
  <2>1. CASE q = p
    BY <2>1, <1>1 DEF Local
  <2>2. CASE q # p
    BY <2>2, <1>1, <1>2, <1>3 DEF Local, OwnsNothing, Mutex
  <2> QED BY <2>1, <2>2
<1> QED BY <1>4, <1>5, <1>6

\* ReleaseFails clears heldX and leaves everything else for GiveUp or Catch.
LEMMA ReleaseFailsKeepsLock ==
  ASSUME LockInv, NEW p \in Participant, NEW m \in Mutex, ReleaseFails(p, m)
  PROVE  LockInv'
<1> USE DEF LockInv
<1>1. /\ pc' = [pc EXCEPT ![p] = "failing"] /\ pc[p] = ReleaseAt(m)
      /\ UNCHANGED <<mutex, failed, round, completed, verdict>>
  BY DEF ReleaseFails, Goto, loops
<1>2. /\ held' \in [Participant -> SUBSET Mutex]
      /\ held'[p] = held[p] \ {m}
      /\ \A q \in Participant : q # p => held'[q] = held[q]
  BY DEF ReleaseFails, Forget, TypeOK
<1>3. TypeOK'
  BY <1>1, <1>2 DEF TypeOK
<1>4. HeldIsOwned'
  BY <1>1, <1>2 DEF HeldIsOwned, Owns, TypeOK
<1>5. Owns(p, "B") => Owns(p, "A")
  BY <1>1 DEF Local, HeldIsOwned, ReleaseAt, Mutex
<1>6. ASSUME NEW q \in Participant PROVE Local(q)'
  <2>1. CASE q = p
    BY <2>1, <1>1, <1>5 DEF Local, Owns, TypeOK
  <2>2. CASE q # p
    BY <2>2, <1>1, <1>2 DEF Local, OwnsNothing, Owns, TypeOK
  <2> QED BY <2>1, <2>2
<1> QED BY <1>3, <1>4, <1>6

\* The loop counters need nothing but the types and the program points.
LEMMA StepKeepsCounts ==
  ASSUME TypeOK, \A p \in Participant : Counts(p), Next
  PROVE  /\ \A p \in Participant : Counts(p)'
         /\ round' \in [Participant -> 0 .. Rounds]
         /\ completed' \in [Participant -> 0 .. Rounds]
<1> DEFINE Claim == /\ \A p \in Participant : Counts(p)'
                    /\ round' \in [Participant -> 0 .. Rounds]
                    /\ completed' \in [Participant -> 0 .. Rounds]
<1>1. /\ Rounds \in Nat
      /\ \A p \in Participant : round[p] \in Nat /\ completed[p] \in Nat
  <2>1. \A p \in Participant : /\ round[p] \in 0 .. Rounds
                               /\ completed[p] \in 0 .. Rounds
    BY DEF TypeOK
  <2> QED BY <2>1, RoundsAssumption
<1>2. ASSUME NEW p \in Participant, NEW label, Goto(p, label),
             UNCHANGED <<round, completed>>, pc[p] # "cleanup",
             label \notin {"loop", "done"} => round[p] < Rounds
      PROVE  Claim
  <2>1. ASSUME NEW q \in Participant PROVE Counts(q)'
    <3>1. CASE q = p
      BY <1>1, <1>2, <3>1 DEF Counts, Goto, TypeOK
    <3>2. CASE q # p
      BY <1>1, <1>2, <3>2 DEF Counts, Goto, TypeOK
    <3> QED BY <3>1, <3>2
  <2> QED BY <2>1, <1>2 DEF TypeOK
<1>3. ASSUME UNCHANGED <<pc, round, completed>>
      PROVE  Claim
  BY <1>3 DEF Counts, TypeOK
<1>4. ASSUME NEW p \in Participant, ReleaseSucceeds(p, "A")
      PROVE  Claim
  <2>1. /\ pc' = [pc EXCEPT ![p] = "cleanup"] /\ pc[p] = "release A"
        /\ UNCHANGED round
        /\ completed' = [completed EXCEPT ![p] = completed[p] + 1]
    BY <1>4 DEF ReleaseSucceeds, ReleaseAt, AfterRelease, Goto
  <2>2. round[p] < Rounds /\ completed[p] <= round[p]
    BY <2>1, <1>1 DEF Counts
  <2>3. completed[p] + 1 \in 0 .. Rounds
    BY <2>2, <1>1
  <2>4. ASSUME NEW q \in Participant PROVE Counts(q)'
    <3>1. CASE q = p
      <4>1. /\ pc'[p] = "cleanup" /\ round'[p] = round[p]
            /\ completed'[p] = completed[p] + 1
        BY <2>1 DEF TypeOK
      <4> QED BY <1>1, <2>2, <3>1, <4>1 DEF Counts
    <3>2. CASE q # p
      BY <1>1, <2>1, <3>2 DEF Counts, TypeOK
    <3> QED BY <3>1, <3>2
  <2> QED BY <2>1, <2>3, <2>4 DEF TypeOK
<1>5. ASSUME NEW p \in Participant, NextRound(p)
      PROVE  Claim
  <2>1. /\ pc' = [pc EXCEPT ![p] = "loop"] /\ pc[p] = "cleanup"
        /\ UNCHANGED completed
        /\ round' = [round EXCEPT ![p] = round[p] + 1]
    BY <1>5 DEF NextRound, Goto
  <2>2. round[p] < Rounds /\ completed[p] <= round[p] + 1
    BY <2>1, <1>1 DEF Counts
  <2>3. round[p] + 1 \in 0 .. Rounds
    BY <2>2, <1>1
  <2>4. ASSUME NEW q \in Participant PROVE Counts(q)'
    <3>1. CASE q = p
      <4>1. /\ pc'[p] = "loop" /\ completed'[p] = completed[p]
            /\ round'[p] = round[p] + 1
        BY <2>1 DEF TypeOK
      <4> QED BY <1>1, <2>2, <3>1, <4>1 DEF Counts
    <3>2. CASE q # p
      BY <1>1, <2>1, <3>2 DEF Counts, TypeOK
    <3> QED BY <3>1, <3>2
  <2> QED BY <2>1, <2>3, <2>4 DEF TypeOK
<1>6. ASSUME NEW p \in Participant, ParticipantStep(p)
      PROVE  Claim
  <2> USE DEF loops
  <2>1. CASE EnterRound(p)
    BY <2>1, <1>2 DEF EnterRound
  <2>2. CASE LeaveLoop(p)
    BY <2>2, <1>2 DEF LeaveLoop
  <2>3. ASSUME NEW m \in Mutex, AcquireSucceeds(p, m) PROVE Claim
    BY <2>3, <1>2 DEF AcquireSucceeds, AcquireAt, Counts
  <2>4. ASSUME NEW m \in Mutex, AcquireFails(p, m) PROVE Claim
    BY <2>4, <1>2 DEF AcquireFails, AcquireAt, Counts
  <2>5. ASSUME NEW m \in Mutex, ReleaseSucceeds(p, m) PROVE Claim
    <3>1. CASE m = "A"
      BY <2>5, <3>1, <1>4
    <3>2. CASE m = "B"
      BY <2>5, <3>2, <1>2 DEF ReleaseSucceeds, ReleaseAt, Counts
    <3> QED BY <3>1, <3>2 DEF Mutex
  <2>6. ASSUME NEW m \in Mutex, ReleaseFails(p, m) PROVE Claim
    BY <2>6, <1>2 DEF ReleaseFails, ReleaseAt, Counts
  <2>7. ASSUME NEW m \in Mutex, CleanUp(p, m) PROVE Claim
    BY <2>7, <1>3 DEF CleanUp
  <2>8. CASE GiveUp(p)
    BY <2>8, <1>2 DEF GiveUp
  <2>9. CASE Catch(p)
    BY <2>9, <1>2 DEF Catch, Counts
  <2>10. CASE NextRound(p)
    BY <2>10, <1>5
  <2> HIDE DEF Claim
  <2> QED
    BY <1>6, <2>1, <2>2, <2>3, <2>4, <2>5, <2>6, <2>7, <2>8, <2>9, <2>10
    DEF ParticipantStep
<1>7. CASE Join \/ Finished
  BY <1>7, <1>3 DEF Join, Finished, vars
<1> QED BY <1>6, <1>7 DEF Next

\* The inductive step of the invariant.
LEMMA StepKeepsLock ==
  ASSUME LockInv, \A p \in Participant : Counts(p), Next
  PROVE  LockInv'
<1>1. /\ round' \in [Participant -> 0 .. Rounds]
      /\ completed' \in [Participant -> 0 .. Rounds]
  BY StepKeepsCounts DEF LockInv
<1>2. ASSUME NEW p \in Participant, ParticipantStep(p)
      PROVE  LockInv'
  <2>1. CASE EnterRound(p)
    <3>1. held[p] = {} /\ OwnsNothing(p)
      BY <2>1 DEF EnterRound, LockInv, Local
    <3> QED
      BY <2>1, <3>1, <1>1, MoveKeepsLock DEF EnterRound, loops, LockInv, TypeOK
  <2>2. CASE LeaveLoop(p)
    <3>1. ~failed => held[p] = {} /\ OwnsNothing(p)
      BY <2>2 DEF LeaveLoop, LockInv, Local
    <3> QED
      BY <2>2, <3>1, <1>1, MoveKeepsLock DEF LeaveLoop, loops, LockInv, TypeOK
  <2>3. ASSUME NEW m \in Mutex, AcquireSucceeds(p, m) PROVE LockInv'
    BY <2>3, AcquireKeepsLock
  <2>4. ASSUME NEW m \in Mutex, AcquireFails(p, m) PROVE LockInv'
    <3>1. ~Owns(p, "B")
      BY <2>4 DEF AcquireFails, AcquireAt, LockInv, Local, OwnsNothing, Mutex
    <3> QED
      BY <2>4, <3>1, <1>1, MoveKeepsLock DEF AcquireFails, loops, LockInv, TypeOK
  <2>5. ASSUME NEW m \in Mutex, ReleaseSucceeds(p, m) PROVE LockInv'
    BY <2>5, <1>1, ReleaseKeepsLock
  <2>6. ASSUME NEW m \in Mutex, ReleaseFails(p, m) PROVE LockInv'
    BY <2>6, ReleaseFailsKeepsLock
  <2>7. ASSUME NEW m \in Mutex, CleanUp(p, m) PROVE LockInv'
    BY <2>7, CleanUpKeepsLock
  <2>8. CASE GiveUp(p)
    BY <2>8, <1>1, MoveKeepsLock DEF GiveUp, loops
  <2>9. CASE Catch(p)
    BY <2>9, <1>1, MoveKeepsLock DEF Catch, loops
  <2>10. CASE NextRound(p)
    <3>1. ~failed => OwnsNothing(p)
      BY <2>10 DEF NextRound, LockInv, Local
    <3> QED
      BY <2>10, <3>1, <1>1, MoveKeepsLock DEF NextRound, LockInv, TypeOK
  <2> QED
    BY <1>2, <2>1, <2>2, <2>3, <2>4, <2>5, <2>6, <2>7, <2>8, <2>9, <2>10
    DEF ParticipantStep
<1>3. CASE Join \/ Finished
  <2>1. UNCHANGED <<mutex, pc, held, round, completed, failed>>
    BY <1>3 DEF Join, Finished, vars
  <2>2. verdict' \in {"running", "pass", "fail"}
    BY <1>3 DEF Join, Finished, vars, LockInv, TypeOK
  <2> QED
    BY <2>1, <2>2
    DEF LockInv, TypeOK, HeldIsOwned, Local, Owns, OwnsNothing
<1> QED BY <1>2, <1>3 DEF Next

\* The invariant of every execution.
THEOREM LocksSafe == Spec => []IInv
<1>1. Init => IInv
  <2> SUFFICES ASSUME Init PROVE IInv
    OBVIOUS
  <2>1. \A p \in Participant : Counts(p)
    BY DEF Init, Counts
  <2> QED BY <2>1, InitLock DEF IInv
<1>2. IInv /\ [Next]_vars => IInv'
  <2> SUFFICES ASSUME IInv, [Next]_vars PROVE IInv'
    OBVIOUS
  <2>1. CASE Next
    BY <2>1, StepKeepsLock, StepKeepsCounts DEF IInv, LockInv
  <2>2. CASE UNCHANGED vars
    BY <2>2
    DEF vars, IInv, LockInv, TypeOK, HeldIsOwned, Local, Counts, Owns, OwnsNothing
  <2> QED BY <2>1, <2>2
<1> QED BY <1>1, <1>2, PTL DEF Spec

\* The types of the state, for every number of participants and rounds.
THEOREM TypeCorrect == Spec => []TypeOK
BY LocksSafe, PTL DEF IInv, LockInv

\* The clean-up can only release what its own participant acquired.
THEOREM CleanUpIsSafe == Spec => []HeldIsOwned
BY LocksSafe, PTL DEF IInv, LockInv

\* As long as no failure is recorded B is only ever owned together with A: B
\* adds nothing that A does not already exclude.
BOnlyUnderA ==
  ~failed => \A p \in Participant : Owns(p, "B") => Owns(p, "A")

\* Until a failure is recorded B is owned only together with A.
THEOREM BIsUnderA == Spec => []BOnlyUnderA
<1>1. IInv => BOnlyUnderA
  <2> SUFFICES ASSUME IInv, ~failed, NEW p \in Participant, Owns(p, "B")
               PROVE  Owns(p, "A")
    BY DEF BOnlyUnderA
  <2> QED
    BY DEF IInv, LockInv, TypeOK, HeldIsOwned, Local, OwnsNothing, Mutex
<1> QED BY <1>1, LocksSafe, PTL

\* Taking the mutexes in one order excludes a circle of two waits, and of a
\* participant with itself, for every number of participants and after any
\* failure.
THEOREM NoCircle == Spec => []NoCircularWait
<1>1. IInv => NoCircularWait
  <2> SUFFICES ASSUME IInv, NEW p \in Participant, NEW q \in Participant,
                      NEW m \in Mutex, NEW n \in Mutex,
                      pc[p] = AcquireAt(m), Owns(q, m),
                      pc[q] = AcquireAt(n), Owns(p, n)
               PROVE  FALSE
    BY DEF NoCircularWait
  <2>1. m = "B" /\ n = "B"
    BY DEF IInv, LockInv, Local, OwnsNothing, AcquireAt, Mutex
  <2> QED BY <2>1 DEF IInv, LockInv, Local, AcquireAt
<1> QED BY <1>1, LocksSafe, PTL

\* Nobody abandons a mutex, and after a pass nobody moves.
NoneAbandoned == \A m \in Mutex : mutex[m].abandoned = FALSE
PassInv ==
  verdict = "pass" =>
    /\ ~failed
    /\ \A p \in Participant : pc[p] = "done" /\ completed[p] = Rounds

LEMMA StepAbandonsNone ==
  ASSUME TypeOK, NoneAbandoned, Next
  PROVE  NoneAbandoned'
<1>1. ASSUME NEW m \in Mutex, NEW new,
             \/ \E p \in Participant : new = AcquiredBy(mutex[m], p)
             \/ new = ReleasedWith(mutex[m], 0),
             mutex' = [mutex EXCEPT ![m] = new]
      PROVE  NoneAbandoned'
  <2>1. mutex[m] \in [owner : Participant \cup {NoOwner}, key : {0},
                      abandoned : BOOLEAN]
    BY DEF TypeOK, Mutexes
  <2>2. new.abandoned = FALSE
    BY <1>1, <2>1 DEF AcquiredBy, ReleasedWith, NoneAbandoned
  <2> QED BY <1>1, <2>2 DEF NoneAbandoned, TypeOK
<1>2. ASSUME NEW p \in Participant, NEW m \in Mutex, AcquireSucceeds(p, m)
      PROVE  NoneAbandoned'
  BY <1>1, <1>2 DEF AcquireSucceeds
<1>3. ASSUME NEW p \in Participant, NEW m \in Mutex,
             ReleaseSucceeds(p, m) \/ CleanUp(p, m)
      PROVE  NoneAbandoned'
  <2>1. CASE UNCHANGED mutex
    BY <2>1 DEF NoneAbandoned
  <2>2. CASE mutex' = [mutex EXCEPT ![m] = ReleasedWith(mutex[m], 0)]
    BY <1>1, <2>2
  <2> QED BY <1>3, <2>1, <2>2 DEF ReleaseSucceeds, CleanUp
<1>4. CASE UNCHANGED mutex
  BY <1>4 DEF NoneAbandoned
<1> QED
  BY <1>2, <1>3, <1>4
  DEF Next, ParticipantStep, EnterRound, LeaveLoop, AcquireFails, ReleaseFails,
      GiveUp, Catch, NextRound, Join, Finished, vars

LEMMA StepKeepsPass ==
  ASSUME TypeOK, PassInv, Next
  PROVE  PassInv'
<1>1. ASSUME NEW p \in Participant, ParticipantStep(p)
      PROVE  PassInv'
  <2>1. pc[p] # "done" /\ verdict' = verdict
    BY <1>1
    DEF ParticipantStep, EnterRound, LeaveLoop, AcquireSucceeds, AcquireFails,
        ReleaseSucceeds, ReleaseFails, CleanUp, GiveUp, Catch, NextRound,
        AcquireAt, ReleaseAt, loops
  <2> QED BY <2>1 DEF PassInv
<1>2. CASE Join
  BY <1>2 DEF Join, PassInv
<1>3. CASE Finished
  BY <1>3 DEF Finished, vars, PassInv
<1> QED BY <1>1, <1>2, <1>3 DEF Next

\* A pass means that every round was played and both mutexes are fresh again.
THEOREM PassLeavesFreshMutexes == Spec => []PassMeansCleanEnd
<1>1. Init => NoneAbandoned /\ PassInv
  BY DEF Init, FreshMutex, NoneAbandoned, PassInv
<1>2. IInv /\ NoneAbandoned /\ PassInv /\ [Next]_vars
        => (NoneAbandoned /\ PassInv)'
  <2>1. UNCHANGED vars /\ NoneAbandoned /\ PassInv
          => (NoneAbandoned /\ PassInv)'
    BY DEF vars, NoneAbandoned, PassInv
  <2> QED BY <2>1, StepAbandonsNone, StepKeepsPass DEF IInv, LockInv
<1>3. IInv /\ NoneAbandoned /\ PassInv => PassMeansCleanEnd
  <2> SUFFICES ASSUME IInv, NoneAbandoned, PassInv, verdict = "pass",
                      NEW m \in Mutex
               PROVE  mutex[m] = FreshMutex
    BY DEF PassInv, PassMeansCleanEnd
  <2>1. mutex[m] \in Mutexes(Participant, {0})
    BY DEF IInv, LockInv, TypeOK
  <2>2. \A p \in Participant : mutex[m].owner # p
    BY DEF PassInv, IInv, LockInv, Local, OwnsNothing, Owns
  <2>3. mutex[m].owner = NoOwner /\ mutex[m].key = 0
    BY <2>1, <2>2 DEF Mutexes
  <2> QED BY <2>1, <2>3 DEF Mutexes, FreshMutex, NoneAbandoned
<1> QED BY <1>1, <1>2, <1>3, LocksSafe, PTL DEF Spec

-----------------------------------------------------------------------------
(* The reverse order.                                                      *)
(*                                                                         *)
(* Its model has the first four variables of the same-order case and these *)
(* four of its own.                                                        *)

CONSTANT ReverseFaultSets
VARIABLES firstAcquire, secondAcquire, mpc, broken

Reverse == INSTANCE ReverseOrderLocks WITH FaultSets <- ReverseFaultSets

Before == {"first", "gate"}
Either == {0, 1}
Other(p) == 1 - p

\* The flags are truthful until the joins, and nobody dies.
TruthfulFlags ==
  /\ \A m \in Mutex : ~mutex[m].abandoned
  /\ \A p \in Either : \A m \in held[p] : mutex[m].owner = p
  /\ \A p \in Either : pc[p] = "done" => held[p] = {}
  /\ mpc # "join" => \A p \in Either : pc[p] = "done"

\* Without release errors what a participant owns is what it holds.
OwnedIsHeld ==
  "release-error" \notin faults /\ mpc = "join" =>
    \A p \in Either, m \in Mutex : mutex[m].owner = p => m \in held[p]

\* The barrier, and what the participants hold around it.
AtTheBarrier ==
  \A p \in Either :
    /\ pc[p] \in Before => pc[Other(p)] \in Before
    /\ pc[p] = "first" => held[p] = {} /\ firstAcquire[p] = "unexpected"
    /\ pc[p] \in Before \cup {"second"} => secondAcquire[p] = "unexpected"

\* A participant still to make its second acquisition holds its first mutex
\* if it ever got it, and so the other one has not got its second one.
CircleHolds ==
  \A p \in Either :
    pc[p] \in {"gate", "second"} /\ firstAcquire[p] = "ok" =>
      /\ held[p] = {Reverse!First(p)}
      /\ secondAcquire[Other(p)] # "ok"

ReverseInv ==
  /\ Reverse!TypeOK /\ TruthfulFlags /\ AtTheBarrier /\ CircleHolds
  /\ Reverse!SomeoneGivesUp /\ OwnedIsHeld /\ Reverse!RecoveryNeverWaits

LEMMA InitReverse ==
  ASSUME Reverse!Init
  PROVE  ReverseInv
<1> USE DEF Reverse!Init, Reverse!Participant, Reverse!Mutex, Mutex, Either
<1>1. Reverse!FreshMutex \in Reverse!Mutexes({0, 1}, {0})
  BY DEF Reverse!FreshMutex, Reverse!Mutexes
<1>2. Reverse!TypeOK
  BY <1>1 DEF Reverse!TypeOK
<1>3. TruthfulFlags
  BY DEF TruthfulFlags, Reverse!FreshMutex
<1>4. OwnedIsHeld
  <2>1. \A m \in Mutex : mutex[m].owner = -1
    BY DEF Reverse!FreshMutex, Reverse!NoOwner
  <2>2. \A p \in Either, m \in Mutex : mutex[m].owner # p
    <3>1. \A p \in Either : p # -1
      OBVIOUS
    <3> QED BY <2>1, <3>1
  <2> QED BY <2>2 DEF OwnedIsHeld
<1>5. AtTheBarrier /\ CircleHolds
  BY DEF AtTheBarrier, CircleHolds, Before, Other
<1>6. Reverse!SomeoneGivesUp /\ Reverse!RecoveryNeverWaits
  BY DEF Reverse!SomeoneGivesUp, Reverse!RecoveryNeverWaits
<1> QED BY <1>2, <1>3, <1>4, <1>5, <1>6 DEF ReverseInv

\* What AcquireSync does to the mutexes.
LEMMA ReverseAcquire ==
  ASSUME Reverse!TypeOK, \A m \in Mutex : ~mutex[m].abandoned,
         NEW i \in Either, NEW n \in Mutex, NEW r,
         Reverse!AcquireSync(i, n, r)
  PROVE  /\ mutex' \in [Mutex -> Reverse!Mutexes({0, 1}, {0})]
         /\ \A m \in Mutex : ~mutex'[m].abandoned
         /\ \A m \in Mutex \ {n} : mutex'[m] = mutex[m]
         /\ r = "ok" => mutex[n].owner = -1 /\ mutex'[n].owner = i
         /\ r # "ok" => mutex' = mutex
<1>1. /\ mutex \in [Mutex -> Reverse!Mutexes({0, 1}, {0})]
      /\ mutex[n] \in Reverse!Mutexes({0, 1}, {0})
  BY DEF Reverse!TypeOK, Reverse!Mutex, Mutex
<1>2. CASE r = "ok"
  <2>1. /\ Reverse!CanAcquire(mutex[n], 0)
        /\ mutex' = [mutex EXCEPT ![n] = Reverse!AcquiredBy(mutex[n], i)]
    BY <1>2 DEF Reverse!AcquireSync
  <2>2. mutex[n].owner = -1
    BY <2>1 DEF Reverse!CanAcquire, Reverse!NoOwner
  <2>3. /\ Reverse!AcquiredBy(mutex[n], i) \in Reverse!Mutexes({0, 1}, {0})
        /\ Reverse!AcquiredBy(mutex[n], i).owner = i
        /\ ~Reverse!AcquiredBy(mutex[n], i).abandoned
    BY <1>1 DEF Reverse!AcquiredBy, Reverse!Mutexes, Either
  <2> QED BY <1>1, <1>2, <2>1, <2>2, <2>3
<1>3. CASE r # "ok"
  BY <1>1, <1>3 DEF Reverse!AcquireSync
<1> QED BY <1>2, <1>3

\* What ReleaseSync does to the mutexes; it fails on a mutex of the caller
\* only if the environment has release errors.
LEMMA ReverseRelease ==
  ASSUME Reverse!TypeOK, \A m \in Mutex : ~mutex[m].abandoned,
         NEW i \in Either, NEW n \in Mutex, NEW r,
         Reverse!ReleaseSync(i, n, r)
  PROVE  /\ mutex' \in [Mutex -> Reverse!Mutexes({0, 1}, {0})]
         /\ \A m \in Mutex : ~mutex'[m].abandoned
         /\ \A m \in Mutex \ {n} : mutex'[m] = mutex[m]
         /\ mutex'[n].owner # mutex[n].owner
              => mutex[n].owner = i /\ mutex'[n].owner = -1
         /\ "release-error" \notin faults => mutex'[n].owner # i
<1>1. /\ mutex \in [Mutex -> Reverse!Mutexes({0, 1}, {0})]
      /\ mutex[n] \in Reverse!Mutexes({0, 1}, {0})
  BY DEF Reverse!TypeOK, Reverse!Mutex, Mutex
<1>2. CASE r = "ok"
  <2>1. /\ mutex[n].owner = i
        /\ mutex' = [mutex EXCEPT ![n] = Reverse!ReleasedWith(mutex[n], 0)]
    BY <1>2 DEF Reverse!ReleaseSync, Reverse!CanRelease
  <2>2. /\ Reverse!ReleasedWith(mutex[n], 0) \in Reverse!Mutexes({0, 1}, {0})
        /\ Reverse!ReleasedWith(mutex[n], 0).owner = -1
        /\ ~Reverse!ReleasedWith(mutex[n], 0).abandoned
    BY <1>1 DEF Reverse!ReleasedWith, Reverse!Mutexes, Reverse!NoOwner
  <2>3. mutex'[n] = Reverse!ReleasedWith(mutex[n], 0)
    BY <1>1, <2>1
  <2>4. -1 # i
    BY DEF Either
  <2> QED BY <1>1, <2>1, <2>2, <2>3, <2>4
<1>3. CASE r # "ok"
  <2>1. /\ mutex' = mutex
        /\ "release-error" \in faults \/ mutex[n].owner # i
    BY <1>3 DEF Reverse!ReleaseSync, Reverse!CanRelease
  <2> QED BY <1>1, <2>1
<1> QED BY <1>2, <1>3

\* A participant's acquisition keeps its flags truthful.
LEMMA AcquireKeepsFlags ==
  ASSUME Reverse!TypeOK, TruthfulFlags, OwnedIsHeld,
         NEW p \in Either, NEW n \in Mutex, NEW r, NEW label,
         Reverse!AcquireSync(p, n, r), pc[p] # "done", label # "done",
         pc' = [pc EXCEPT ![p] = label], UNCHANGED <<faults, mpc>>,
         held' = [held EXCEPT ![p] =
                    IF r = "ok" THEN held[p] \cup {n} ELSE held[p]]
  PROVE  TruthfulFlags' /\ OwnedIsHeld'
<1>1. /\ \A m \in Mutex : ~mutex'[m].abandoned
      /\ \A m \in Mutex \ {n} : mutex'[m] = mutex[m]
      /\ r = "ok" => mutex[n].owner = -1 /\ mutex'[n].owner = p
      /\ r # "ok" => mutex' = mutex
  BY ReverseAcquire DEF TruthfulFlags
<1>2. /\ pc \in [Either -> {"first", "gate", "second", "release", "done"}]
      /\ held \in [Either -> SUBSET Mutex]
  BY DEF Reverse!TypeOK, Reverse!Participant, Reverse!Mutex, Mutex, Either
<1>3. \A q \in Either : q # p => held'[q] = held[q] /\ pc'[q] = pc[q]
  BY <1>2
<1>4. /\ held'[p] = IF r = "ok" THEN held[p] \cup {n} ELSE held[p]
      /\ pc'[p] # "done"
  BY <1>2
<1>5. mpc = "join"
  BY DEF TruthfulFlags
<1>6. \A q \in Either : q # -1
  BY DEF Either
<1>7. ASSUME NEW q \in Either, NEW m \in held'[q] PROVE mutex'[m].owner = q
  <2>1. CASE m = n /\ r = "ok" /\ q = p
    BY <2>1, <1>1
  <2>2. CASE ~(m = n /\ r = "ok" /\ q = p)
    <3>1. m \in held[q] /\ m \in Mutex
      BY <2>2, <1>2, <1>3, <1>4, <1>7
    <3>2. mutex[m].owner = q
      BY <3>1 DEF TruthfulFlags
    <3> QED BY <3>1, <3>2, <1>1, <1>6
  <2> QED BY <2>1, <2>2
<1>8. TruthfulFlags'
  BY <1>1, <1>3, <1>4, <1>5, <1>7 DEF TruthfulFlags
<1>9. ASSUME "release-error" \notin faults, NEW q \in Either, NEW m \in Mutex,
             mutex'[m].owner = q
      PROVE  m \in held'[q]
  <2>1. CASE m = n /\ r = "ok"
    BY <2>1, <1>1, <1>4, <1>9
  <2>2. CASE m # n \/ r # "ok"
    <3>1. mutex[m].owner = q
      BY <2>2, <1>1, <1>9
    <3>2. m \in held[q]
      BY <3>1, <1>5, <1>9 DEF OwnedIsHeld
    <3> QED BY <3>2, <1>3, <1>4
  <2> QED BY <2>1, <2>2
<1> QED BY <1>8, <1>9 DEF OwnedIsHeld

\* The first acquisition keeps the invariant.
LEMMA AcquireFirstKeepsReverse ==
  ASSUME ReverseInv, NEW p \in Either, Reverse!AcquireFirst(p)
  PROVE  ReverseInv'
<1> DEFINE n == Reverse!First(p)
<1>1. PICK r \in Reverse!Result :
         /\ Reverse!AcquireSync(p, n, r)
         /\ firstAcquire' = [firstAcquire EXCEPT ![p] = r]
         /\ held' = [held EXCEPT ![p] = IF r = "ok" THEN {n} ELSE {}]
  BY DEF Reverse!AcquireFirst, Reverse!Interface
<1>2. /\ pc[p] = "first" /\ pc' = [pc EXCEPT ![p] = "gate"]
      /\ UNCHANGED <<faults, secondAcquire, mpc, broken>>
  BY DEF Reverse!AcquireFirst, Reverse!Goto
<1>3. n \in Mutex
  BY DEF Reverse!First, Mutex
<1>4. /\ Reverse!TypeOK /\ TruthfulFlags /\ OwnedIsHeld /\ AtTheBarrier
      /\ CircleHolds
  BY DEF ReverseInv
<1>5. /\ mutex' \in [Mutex -> Reverse!Mutexes({0, 1}, {0})]
      /\ \A m \in Mutex : ~mutex'[m].abandoned
      /\ \A m \in Mutex \ {n} : mutex'[m] = mutex[m]
      /\ r = "ok" => mutex[n].owner = -1 /\ mutex'[n].owner = p
      /\ r # "ok" => mutex' = mutex
  <2> HIDE DEF n
  <2> QED BY <1>1, <1>3, <1>4, ReverseAcquire DEF TruthfulFlags
<1> HIDE DEF n
<1>6. /\ pc \in [Either -> {"first", "gate", "second", "release", "done"}]
      /\ held \in [Either -> SUBSET Mutex]
      /\ firstAcquire \in [Either -> Reverse!Result \cup {"unexpected"}]
      /\ secondAcquire \in [Either -> Reverse!Result \cup {"unexpected"}]
  BY <1>4 DEF Reverse!TypeOK, Reverse!Participant, Reverse!Mutex, Mutex, Either
<1>7. held[p] = {} /\ firstAcquire[p] = "unexpected"
  BY <1>2, <1>4 DEF AtTheBarrier
<1>8. Reverse!TypeOK'
  BY <1>1, <1>2, <1>3, <1>4, <1>5, <1>6
  DEF Reverse!TypeOK, Reverse!Participant, Reverse!Mutex, Mutex, Either
<1>9. TruthfulFlags' /\ OwnedIsHeld'
  <2>1. held' = [held EXCEPT ![p] =
                   IF r = "ok" THEN held[p] \cup {n} ELSE held[p]]
    BY <1>1, <1>7
  <2> QED BY <2>1, <1>1, <1>2, <1>3, <1>4, AcquireKeepsFlags
<1>10. AtTheBarrier'
  BY <1>1, <1>2, <1>4, <1>6 DEF AtTheBarrier, Before, Other, Either
<1>11. CircleHolds'
  <2> SUFFICES ASSUME NEW q \in Either, pc'[q] \in {"gate", "second"},
                      firstAcquire'[q] = "ok"
               PROVE  /\ held'[q] = {Reverse!First(q)}
                      /\ secondAcquire'[Other(q)] # "ok"
    BY DEF CircleHolds
  <2>1. CASE q = p
    <3>1. held'[p] = {n}
      BY <2>1, <1>1, <1>6
    <3>2. secondAcquire[Other(p)] = "unexpected"
      BY <1>2, <1>4 DEF AtTheBarrier, Before, Other, Either
    <3> QED BY <2>1, <3>1, <3>2, <1>2 DEF n
  <2>2. CASE q # p
    BY <2>2, <1>1, <1>2, <1>4, <1>6 DEF CircleHolds
  <2> QED BY <2>1, <2>2
<1>12. Reverse!SomeoneGivesUp' /\ Reverse!RecoveryNeverWaits'
  <2>1. secondAcquire'[p] = "unexpected"
    BY <1>2, <1>4 DEF AtTheBarrier, Before
  <2>2. mpc' = "join"
    BY <1>2, <1>4 DEF TruthfulFlags
  <2> QED BY <2>1, <2>2
          DEF Reverse!SomeoneGivesUp, Reverse!RecoveryNeverWaits,
              Reverse!Participant, Either
<1> QED BY <1>8, <1>9, <1>10, <1>11, <1>12 DEF ReverseInv

\* So does the barrier.
LEMMA FirstLocksHeldKeepsReverse ==
  ASSUME ReverseInv, Reverse!FirstLocksHeld
  PROVE  ReverseInv'
<1> USE DEF Reverse!Participant, Either
<1>1. /\ \A p \in Either : pc[p] = "gate"
      /\ pc' = [p \in Either |-> "second"]
      /\ UNCHANGED <<faults, mutex, held, firstAcquire, secondAcquire,
                  mpc, broken>>
  BY DEF Reverse!FirstLocksHeld, Reverse!results
<1>2. /\ Reverse!TypeOK /\ TruthfulFlags /\ OwnedIsHeld /\ AtTheBarrier
      /\ CircleHolds /\ Reverse!SomeoneGivesUp /\ Reverse!RecoveryNeverWaits
  BY DEF ReverseInv
<1>3. Reverse!TypeOK'
  BY <1>1, <1>2 DEF Reverse!TypeOK
<1>4. TruthfulFlags' /\ OwnedIsHeld'
  BY <1>1, <1>2 DEF TruthfulFlags, OwnedIsHeld
<1>5. AtTheBarrier'
  BY <1>1, <1>2 DEF AtTheBarrier, Before, Other
<1>6. CircleHolds'
  BY <1>1, <1>2 DEF CircleHolds
<1>7. Reverse!SomeoneGivesUp' /\ Reverse!RecoveryNeverWaits'
  BY <1>1, <1>2 DEF Reverse!SomeoneGivesUp, Reverse!RecoveryNeverWaits,
     Reverse!CanAcquire
<1> QED BY <1>3, <1>4, <1>5, <1>6, <1>7 DEF ReverseInv

\* The second acquisition: whoever succeeds leaves the other one, which holds
\* the mutex or has given it back, no success of its own.
LEMMA AcquireSecondKeepsReverse ==
  ASSUME ReverseInv, NEW p \in Either, Reverse!AcquireSecond(p)
  PROVE  ReverseInv'
<1> DEFINE n == Reverse!Second(p)
<1>1. PICK r \in Reverse!Result :
         /\ Reverse!AcquireSync(p, n, r)
         /\ secondAcquire' = [secondAcquire EXCEPT ![p] = r]
         /\ held' = [held EXCEPT ![p] =
                       IF r = "ok" THEN held[p] \cup {n} ELSE held[p]]
  BY DEF Reverse!AcquireSecond, Reverse!Interface
<1>2. /\ pc[p] = "second" /\ pc' = [pc EXCEPT ![p] = "release"]
      /\ UNCHANGED <<faults, firstAcquire, mpc, broken>>
  BY DEF Reverse!AcquireSecond, Reverse!Goto
<1>3. n \in Mutex /\ n = Reverse!First(Other(p))
  BY DEF Reverse!First, Reverse!Second, Mutex, Other, Either
<1>4. /\ Reverse!TypeOK /\ TruthfulFlags /\ OwnedIsHeld /\ AtTheBarrier
      /\ CircleHolds
  BY DEF ReverseInv
<1> HIDE DEF n
<1>5. /\ mutex' \in [Mutex -> Reverse!Mutexes({0, 1}, {0})]
      /\ r = "ok" => mutex[n].owner = -1
  BY <1>1, <1>3, <1>4, ReverseAcquire DEF TruthfulFlags
<1>6. /\ pc \in [Either -> {"first", "gate", "second", "release", "done"}]
      /\ held \in [Either -> SUBSET Mutex]
      /\ firstAcquire \in [Either -> Reverse!Result \cup {"unexpected"}]
      /\ secondAcquire \in [Either -> Reverse!Result \cup {"unexpected"}]
  BY <1>4 DEF Reverse!TypeOK, Reverse!Participant, Reverse!Mutex, Mutex, Either
<1>7. Reverse!TypeOK'
  BY <1>1, <1>2, <1>3, <1>4, <1>5, <1>6
  DEF Reverse!TypeOK, Reverse!Participant, Reverse!Mutex, Mutex, Either
<1>8. TruthfulFlags' /\ OwnedIsHeld'
  BY <1>1, <1>2, <1>3, <1>4, AcquireKeepsFlags
<1>9. AtTheBarrier'
  BY <1>1, <1>2, <1>4, <1>6 DEF AtTheBarrier, Before, Other, Either
<1>10. ASSUME pc[Other(p)] \in {"gate", "second"},
              firstAcquire[Other(p)] = "ok"
       PROVE  r # "ok"
  <2>1. Other(p) \in Either /\ Other(p) # -1
    BY DEF Other, Either
  <2>2. held[Other(p)] = {n}
    BY <1>3, <1>4, <1>10, <2>1 DEF CircleHolds
  <2>3. mutex[n].owner = Other(p)
    BY <1>4, <2>1, <2>2 DEF TruthfulFlags
  <2> QED BY <1>5, <2>1, <2>3
<1>11. CircleHolds'
  <2> SUFFICES ASSUME NEW q \in Either, pc'[q] \in {"gate", "second"},
                      firstAcquire'[q] = "ok"
               PROVE  /\ held'[q] = {Reverse!First(q)}
                      /\ secondAcquire'[Other(q)] # "ok"
    BY DEF CircleHolds
  <2>1. q = Other(p) /\ q # p /\ Other(q) = p
    BY <1>2, <1>6 DEF Other, Either
  <2>2. pc[q] \in {"gate", "second"} /\ firstAcquire[q] = "ok"
    BY <1>2, <1>6, <2>1
  <2>3. held'[q] = {Reverse!First(q)}
    BY <1>1, <1>4, <1>6, <2>1, <2>2 DEF CircleHolds
  <2>4. secondAcquire'[p] # "ok"
    BY <1>1, <1>6, <1>10, <2>1, <2>2
  <2> QED BY <2>1, <2>3, <2>4
<1>12. Reverse!SomeoneGivesUp'
  <2> SUFFICES ASSUME \A q \in Either : firstAcquire[q] = "ok"
               PROVE  secondAcquire'[Other(p)] # "ok"
    BY <1>2 DEF Reverse!SomeoneGivesUp, Reverse!Participant, Other, Either
  <2>1. secondAcquire[Other(p)] # "ok"
    BY <1>2, <1>4 DEF CircleHolds
  <2> QED BY <1>1, <1>6, <2>1 DEF Other, Either
<1>13. Reverse!RecoveryNeverWaits'
  <2>1. mpc' = "join"
    BY <1>2, <1>4 DEF TruthfulFlags
  <2> QED BY <2>1 DEF Reverse!RecoveryNeverWaits
<1> QED BY <1>7, <1>8, <1>9, <1>11, <1>12, <1>13 DEF ReverseInv

\* Releasing keeps the flags truthful: the mutex was the participant's own.
LEMMA ReleaseKeepsReverse ==
  ASSUME ReverseInv, NEW p \in Either, Reverse!Release(p)
  PROVE  ReverseInv'
<1>1. PICK n \in held[p], r \in Reverse!Result :
         /\ Reverse!ReleaseSync(p, n, r)
         /\ held' = [held EXCEPT ![p] = held[p] \ {n}]
  BY DEF Reverse!Release, Reverse!Interface
<1>2. /\ pc[p] = "release"
      /\ UNCHANGED <<faults, pc, firstAcquire, secondAcquire, mpc, broken>>
  BY DEF Reverse!Release, Reverse!results
<1>3. /\ Reverse!TypeOK /\ TruthfulFlags /\ OwnedIsHeld /\ AtTheBarrier
      /\ CircleHolds /\ Reverse!SomeoneGivesUp
  BY DEF ReverseInv
<1>4. /\ held \in [Either -> SUBSET Mutex]
      /\ n \in Mutex
  BY <1>3 DEF Reverse!TypeOK, Reverse!Participant, Reverse!Mutex, Mutex, Either
<1>5. /\ mutex' \in [Mutex -> Reverse!Mutexes({0, 1}, {0})]
      /\ \A m \in Mutex : ~mutex'[m].abandoned
      /\ \A m \in Mutex \ {n} : mutex'[m] = mutex[m]
      /\ mutex'[n].owner # mutex[n].owner => mutex'[n].owner = -1
      /\ "release-error" \notin faults => mutex'[n].owner # p
  BY <1>1, <1>3, <1>4, ReverseRelease DEF TruthfulFlags
<1>6. mutex[n].owner = p
  BY <1>3 DEF TruthfulFlags
<1>7. /\ held'[p] = held[p] \ {n}
      /\ \A q \in Either : q # p => held'[q] = held[q]
  BY <1>1, <1>4
<1>8. Reverse!TypeOK'
  BY <1>1, <1>2, <1>3, <1>4, <1>5
  DEF Reverse!TypeOK, Reverse!Participant, Reverse!Mutex, Mutex, Either
<1>9. TruthfulFlags'
  <2>1. ASSUME NEW q \in Either, NEW m \in held'[q]
        PROVE  m \in held[q] /\ mutex'[m].owner = q
    <3>1. m \in held[q] /\ m \in Mutex /\ mutex[m].owner = q
      BY <1>3, <1>4, <1>7, <2>1 DEF TruthfulFlags
    <3>2. m # n
      BY <1>6, <1>7, <2>1, <3>1
    <3> QED BY <1>5, <3>1, <3>2
  <2> QED BY <1>2, <1>3, <1>5, <2>1 DEF TruthfulFlags
<1>10. OwnedIsHeld'
  <2> SUFFICES ASSUME "release-error" \notin faults, mpc = "join",
                      NEW q \in Either, NEW m \in Mutex, mutex'[m].owner = q
               PROVE  m \in held'[q]
    BY <1>2 DEF OwnedIsHeld
  <2>1. q # -1
    BY DEF Either
  <2>2. m # n
    BY <1>5, <1>6, <2>1
  <2>3. m \in held[q]
    BY <1>3, <1>5, <2>2 DEF OwnedIsHeld
  <2> QED BY <1>7, <2>2, <2>3
<1>11. AtTheBarrier'
  BY <1>2, <1>3, <1>7 DEF AtTheBarrier, Before, Other, Either
<1>12. CircleHolds'
  BY <1>2, <1>3, <1>7 DEF CircleHolds
<1>13. Reverse!SomeoneGivesUp'
  BY <1>2, <1>3 DEF Reverse!SomeoneGivesUp
<1>14. Reverse!RecoveryNeverWaits'
  <2>1. mpc' = "join"
    BY <1>2, <1>3 DEF TruthfulFlags
  <2> QED BY <2>1 DEF Reverse!RecoveryNeverWaits
<1> QED BY <1>8, <1>9, <1>10, <1>11, <1>12, <1>13, <1>14 DEF ReverseInv

LEMMA FinishKeepsReverse ==
  ASSUME ReverseInv, NEW p \in Either, Reverse!Finish(p)
  PROVE  ReverseInv'
<1>1. /\ pc[p] = "release" /\ held[p] = {}
      /\ pc' = [pc EXCEPT ![p] = "done"]
      /\ UNCHANGED <<faults, mutex, held, firstAcquire, secondAcquire,
                  mpc, broken>>
  BY DEF Reverse!Finish, Reverse!Goto, Reverse!results
<1>2. /\ Reverse!TypeOK /\ TruthfulFlags /\ OwnedIsHeld /\ AtTheBarrier
      /\ CircleHolds /\ Reverse!SomeoneGivesUp /\ Reverse!RecoveryNeverWaits
  BY DEF ReverseInv
<1>3. pc \in [Either -> {"first", "gate", "second", "release", "done"}]
  BY <1>2 DEF Reverse!TypeOK, Reverse!Participant, Either
<1>4. Reverse!TypeOK'
  BY <1>1, <1>2, <1>3 DEF Reverse!TypeOK, Reverse!Participant, Either
<1>5. TruthfulFlags' /\ OwnedIsHeld'
  BY <1>1, <1>2, <1>3 DEF TruthfulFlags, OwnedIsHeld
<1>6. AtTheBarrier'
  BY <1>1, <1>2, <1>3 DEF AtTheBarrier, Before, Other, Either
<1>7. CircleHolds'
  BY <1>1, <1>2, <1>3 DEF CircleHolds
<1>8. Reverse!SomeoneGivesUp' /\ Reverse!RecoveryNeverWaits'
  BY <1>1, <1>2 DEF Reverse!SomeoneGivesUp, Reverse!RecoveryNeverWaits,
     Reverse!CanAcquire
<1> QED BY <1>4, <1>5, <1>6, <1>7, <1>8 DEF ReverseInv

\* At the joins nobody holds anything, and without release errors nobody owns
\* anything either.
LEMMA JoinKeepsReverse ==
  ASSUME ReverseInv, Reverse!Join
  PROVE  ReverseInv'
<1>1. /\ mpc = "join" /\ \A p \in Either : pc[p] = "done"
      /\ mpc' \in {"recover-A", "end"}
      /\ UNCHANGED <<faults, mutex, pc, held, firstAcquire, secondAcquire>>
  BY DEF Reverse!Join, Reverse!results, Reverse!Participant, Either
<1>2. broken' \subseteq broken \cup {"first-locks", "both-time-out"}
  BY DEF Reverse!Join
<1>3. /\ Reverse!TypeOK /\ TruthfulFlags /\ OwnedIsHeld /\ AtTheBarrier
      /\ CircleHolds /\ Reverse!SomeoneGivesUp
  BY DEF ReverseInv
<1>4. Reverse!TypeOK'
  BY <1>1, <1>2, <1>3 DEF Reverse!TypeOK
<1>5. TruthfulFlags' /\ OwnedIsHeld'
  BY <1>1, <1>3 DEF TruthfulFlags, OwnedIsHeld
<1>6. AtTheBarrier' /\ CircleHolds'
  BY <1>1, <1>3 DEF AtTheBarrier, CircleHolds
<1>7. Reverse!SomeoneGivesUp'
  BY <1>1, <1>3 DEF Reverse!SomeoneGivesUp
<1>8. Reverse!RecoveryNeverWaits'
  <2> SUFFICES ASSUME "release-error" \notin faults, NEW m \in Mutex
               PROVE  Reverse!CanAcquire(mutex[m], 0)
    BY <1>1 DEF Reverse!RecoveryNeverWaits, Reverse!CanAcquire, Reverse!Mutex,
       Mutex
  <2>1. mutex[m] \in Reverse!Mutexes({0, 1}, {0})
    BY <1>3 DEF Reverse!TypeOK, Reverse!Mutex, Mutex
  <2>2. \A p \in Either : mutex[m].owner # p
    BY <1>1, <1>3 DEF TruthfulFlags, OwnedIsHeld
  <2>3. ~mutex[m].abandoned
    BY <1>3 DEF TruthfulFlags
  <2> QED BY <2>1, <2>2, <2>3
          DEF Reverse!Mutexes, Reverse!CanAcquire, Reverse!NoOwner, Either
<1> QED BY <1>4, <1>5, <1>6, <1>7, <1>8 DEF ReverseInv

\* After the joins the invariant only speaks of the types and of what the
\* main thread finds.
LEMMA MainKeepsReverse ==
  ASSUME ReverseInv, mpc # "join", mpc' # "join",
         UNCHANGED <<faults, pc, held, firstAcquire, secondAcquire>>,
         mutex' \in [Mutex -> Reverse!Mutexes({0, 1}, {0})],
         \A m \in Mutex : ~mutex'[m].abandoned,
         mpc' \in {"recover-B", "release-B", "release-A", "end"},
         broken' \subseteq broken \cup {"recovery", "release"},
         mpc' = "recover-B" => mpc = "recover-A" /\ mutex'["B"] = mutex["B"]
  PROVE  ReverseInv'
<1>1. /\ Reverse!TypeOK /\ TruthfulFlags /\ AtTheBarrier
      /\ CircleHolds /\ Reverse!SomeoneGivesUp /\ Reverse!RecoveryNeverWaits
  BY DEF ReverseInv
<1>2. Reverse!TypeOK'
  BY <1>1 DEF Reverse!TypeOK, Reverse!Mutex, Mutex
<1>3. TruthfulFlags' /\ OwnedIsHeld'
  BY <1>1 DEF TruthfulFlags, OwnedIsHeld
<1>4. AtTheBarrier' /\ CircleHolds' /\ Reverse!SomeoneGivesUp'
  BY <1>1 DEF AtTheBarrier, CircleHolds, Reverse!SomeoneGivesUp
<1>5. Reverse!RecoveryNeverWaits'
  BY <1>1 DEF Reverse!RecoveryNeverWaits, Reverse!CanAcquire, Reverse!Mutex
<1> QED BY <1>2, <1>3, <1>4, <1>5 DEF ReverseInv

LEMMA RecoverKeepsReverse ==
  ASSUME ReverseInv, NEW n \in Mutex, Reverse!Recover(n)
  PROVE  ReverseInv'
<1>1. PICK r \in Reverse!Result :
         /\ Reverse!AcquireSync(0, n, r)
         /\ r = "ok" => /\ mpc' = IF n = "A" THEN "recover-B" ELSE "release-B"
                        /\ broken' = broken
         /\ r # "ok" => mpc' = "end" /\ broken' = broken \cup {"recovery"}
  BY DEF Reverse!Recover, Reverse!MainInterface
<1>2. /\ mpc = IF n = "A" THEN "recover-A" ELSE "recover-B"
      /\ UNCHANGED <<faults, pc, held, firstAcquire, secondAcquire>>
  BY DEF Reverse!Recover, Reverse!results
<1>3. /\ mutex' \in [Mutex -> Reverse!Mutexes({0, 1}, {0})]
      /\ \A m \in Mutex : ~mutex'[m].abandoned
      /\ \A m \in Mutex \ {n} : mutex'[m] = mutex[m]
  BY <1>1, ReverseAcquire DEF ReverseInv, TruthfulFlags, Either
<1>4. /\ mpc' \in {"recover-B", "release-B", "end"}
      /\ broken' \subseteq broken \cup {"recovery", "release"}
      /\ mpc' = "recover-B" => n = "A"
  BY <1>1
<1>5. mpc' = "recover-B" => mpc = "recover-A" /\ mutex'["B"] = mutex["B"]
  BY <1>2, <1>3, <1>4 DEF Mutex
<1>6. mpc # "join" /\ mpc' # "join"
  BY <1>2, <1>4
<1> QED BY <1>2, <1>3, <1>4, <1>5, <1>6, MainKeepsReverse

LEMMA ReleaseRecoveredKeepsReverse ==
  ASSUME ReverseInv, NEW n \in Mutex, Reverse!ReleaseRecovered(n)
  PROVE  ReverseInv'
<1>1. PICK r \in Reverse!Result :
         /\ Reverse!ReleaseSync(0, n, r)
         /\ broken' = IF r = "ok" THEN broken ELSE broken \cup {"release"}
  BY DEF Reverse!ReleaseRecovered, Reverse!MainInterface
<1>2. /\ mpc = IF n = "A" THEN "release-A" ELSE "release-B"
      /\ mpc' = IF n = "B" THEN "release-A" ELSE "end"
      /\ UNCHANGED <<faults, pc, held, firstAcquire, secondAcquire>>
  BY DEF Reverse!ReleaseRecovered, Reverse!results
<1>3. /\ mutex' \in [Mutex -> Reverse!Mutexes({0, 1}, {0})]
      /\ \A m \in Mutex : ~mutex'[m].abandoned
  BY <1>1, ReverseRelease DEF ReverseInv, TruthfulFlags, Either
<1>4. /\ mpc' \in {"release-A", "end"} /\ mpc # "join"
      /\ broken' \subseteq broken \cup {"recovery", "release"}
  BY <1>1, <1>2
<1> QED BY <1>2, <1>3, <1>4, MainKeepsReverse

THEOREM ReverseSafe == Reverse!Spec => []ReverseInv
<1>1. ReverseInv /\ [Reverse!Next]_Reverse!vars => ReverseInv'
  <2> SUFFICES ASSUME ReverseInv, [Reverse!Next]_Reverse!vars
               PROVE  ReverseInv'
    OBVIOUS
  <2>1. CASE \E p \in Either : Reverse!ParticipantStep(p)
    BY <2>1, AcquireFirstKeepsReverse, AcquireSecondKeepsReverse,
       ReleaseKeepsReverse, FinishKeepsReverse
    DEF Reverse!ParticipantStep
  <2>2. CASE Reverse!FirstLocksHeld
    BY <2>2, FirstLocksHeldKeepsReverse
  <2>3. CASE Reverse!MainStep
    BY <2>3, JoinKeepsReverse, RecoverKeepsReverse,
       ReleaseRecoveredKeepsReverse
    DEF Reverse!MainStep, Reverse!Mutex, Mutex
  <2>4. CASE UNCHANGED Reverse!vars
    <3>1. UNCHANGED <<faults, mutex, pc, held, firstAcquire, secondAcquire,
                      mpc, broken>>
      BY <2>4 DEF Reverse!vars
    <3> QED BY <3>1
            DEF ReverseInv, Reverse!TypeOK, TruthfulFlags, OwnedIsHeld,
                AtTheBarrier, CircleHolds, Reverse!SomeoneGivesUp,
                Reverse!RecoveryNeverWaits, Reverse!CanAcquire
  <2> QED BY <2>1, <2>2, <2>3, <2>4
          DEF Reverse!Next, Reverse!Finished, Reverse!Participant, Either
<1> QED BY InitReverse, <1>1, PTL DEF Reverse!Spec

\* The circle of waits is real: if both participants get their first mutex,
\* one of them gives up its second one, whatever else the environment does
\* and in whichever order the waits end.
THEOREM CircleIsReal == Reverse!Spec => []Reverse!SomeoneGivesUp
BY ReverseSafe, PTL DEF ReverseInv

\* The recovery after the joins finds both mutexes free, whichever waits
\* timed out, as long as releases succeed.
THEOREM RecoveryFindsThemFree == Reverse!Spec => []Reverse!RecoveryNeverWaits
BY ReverseSafe, PTL DEF ReverseInv
=============================================================================
