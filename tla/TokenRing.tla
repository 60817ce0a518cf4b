----------------------------- MODULE TokenRing ------------------------------
(***************************************************************************)
(* What a keyed-mutex ring promises.  N parties 0 .. N-1 take turns with   *)
(* one token: party p takes the token when it is p's turn and passes it to *)
(* the next party.  A party may also take the token and put it back        *)
(* without passing it on, as device A does after its last frame, and any   *)
(* party may stop for ever, with the token or without it.                  *)
(*                                                                         *)
(* PingPong implements this ring with N = 2, ThreeDeviceRing with N = 3.   *)
(***************************************************************************)
EXTENDS Integers

CONSTANT N    \* the number of parties, at least 1

VARIABLES
  turn,       \* whose turn it is
  holder,     \* who holds the token, NoParty when nobody does
  passed      \* how often each party has passed the token on

vars == <<turn, holder, passed>>

NoParty == -1
Party == 0 .. (N - 1)
Successor(p) == IF p = N - 1 THEN 0 ELSE p + 1

Init ==
  /\ turn = 0
  /\ holder = NoParty
  /\ passed = [p \in Party |-> 0]

Take(p) ==
  /\ turn = p /\ holder = NoParty
  /\ holder' = p
  /\ UNCHANGED <<turn, passed>>

Pass(p) ==
  /\ holder = p
  /\ holder' = NoParty
  /\ turn' = Successor(p)
  /\ passed' = [passed EXCEPT ![p] = @ + 1]

PutBack(p) ==
  /\ holder = p
  /\ holder' = NoParty
  /\ UNCHANGED <<turn, passed>>

Next == \E p \in Party : Take(p) \/ Pass(p) \/ PutBack(p)

Spec == Init /\ [][Next]_vars

-----------------------------------------------------------------------------
TypeOK ==
  /\ turn \in Party
  /\ holder \in Party \cup {NoParty}
  /\ passed \in [Party -> Nat]

\* Only the party whose turn it is holds the token.
HolderHasTurn == holder # NoParty => holder = turn

\* The token goes round in order: the parties before the turn are exactly one
\* lap ahead of the parties from the turn on.
InOrder ==
  \A p \in Party :
    passed[p] = passed[N - 1] + (IF p < turn THEN 1 ELSE 0)
=============================================================================
