-------------------------- MODULE MCSocketRegistry -------------------------
(* Instances of SocketRegistry for TLC: two nodes, two users and three     *)
(* sockets, s3 on the second node.                                         *)
EXTENDS SocketRegistry, TLC

CONSTANTS n1, n2, a, b, s1, s2, s3

MCNodeOf == [s \in Sock |-> IF s = s3 THEN n2 ELSE n1]

\* The client of s1 can switch between both users, the others are user a.
MCAccounts == s1 :> {a, b} @@ s2 :> {a} @@ s3 :> {a}

\* Clients that log in once, all as user a.
MCOnlyA == [s \in Sock |-> {a}]

ProcSymmetry == Permutations(Proc)
============================================================================
