----------------------------- MODULE KeyedMutex -----------------------------
(***************************************************************************)
(* The keyed mutex of one shared texture, as the experiments rely on it.   *)
(* DXGI implements it; experiment 02 pins down the protocol the others     *)
(* use: a free mutex carries a key, AcquireSync(k) waits until the mutex   *)
(* is free with key k, and ReleaseSync(k) by the owner frees it with the   *)
(* key the next owner must ask for.                                        *)
(*                                                                         *)
(* A mutex is a record.  Its owner is an interface (one per device, thread *)
(* or process in most experiments; interfaces are natural numbers), never  *)
(* a thread as such: a thread that ends while it owns the mutex leaves it  *)
(* owned, a process that dies owning it leaves it abandoned.               *)
(*                                                                         *)
(* While the mutex is owned, .key keeps the key of the last release, the   *)
(* one its owner asked for.                                                *)
(***************************************************************************)
EXTENDS Integers

NoOwner == -1

\* A new resource is free, with key 0.
FreshMutex == [owner |-> NoOwner, key |-> 0, abandoned |-> FALSE]

Mutexes(Interfaces, Keys) ==
  [owner : Interfaces \cup {NoOwner}, key : Keys, abandoned : BOOLEAN]

\* AcquireSync(k) can return S_OK in this state; while it cannot, a waiter
\* stays blocked and its timeout may expire with WAIT_TIMEOUT.
CanAcquire(m, k) == m.owner = NoOwner /\ m.key = k /\ ~m.abandoned

AcquiredBy(m, i) == [m EXCEPT !.owner = i]

\* ReleaseSync(k) succeeds for the interface that acquired and fails,
\* without effect, for any other one.
CanRelease(m, i) == m.owner = i

ReleasedWith(m, k) == [m EXCEPT !.owner = NoOwner, !.key = k]
=============================================================================
