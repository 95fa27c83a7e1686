--------------------------- MODULE MCLoginTokens ---------------------------
(* Instances of LoginTokens for TLC: up to three logins of one user and    *)
(* one of another, and two logouts.                                        *)
EXTENDS LoginTokens, TLC

CONSTANTS a, b, t1, t2, t3, t4

MCErpOf == [l \in Login |-> IF l = t4 THEN b ELSE a]

\* Logins of one user are alike, and so are the logouts.
LoginSymmetry == Permutations({t1, t2, t3}) \cup Permutations(Logout)
============================================================================
