---------------------------- MODULE MCRateLimiter ---------------------------
(* An instance of RateLimiter for TLC: two sockets, one with more events    *)
(* than its burst.                                                          *)
EXTENDS RateLimiter, TLC

CONSTANTS s1, s2, e1, e2, e3, e4, e5

MCSockOf == [v \in Event |-> IF v = e5 THEN s2 ELSE s1]

\* The events of a socket are alike.
EventSymmetry == Permutations(Event \ {e5})
============================================================================
