------------------------------- MODULE Tally --------------------------------
(* The sum over an array of counters, as experiment 04 computes it from    *)
(* the wins of its contenders.                                             *)
EXTENDS Integers, FiniteSets

\* The single events that the counters f count: the nth one of x.
Events(f) == UNION {{x} \X (1 .. f[x]) : x \in DOMAIN f}

\* for (...) total += f[x]
Total(f) == Cardinality(Events(f))
=============================================================================
