--------------------------- MODULE MCSocketRouting --------------------------
(* Instances of SocketRouting for TLC: the sender s0 and a socket of the   *)
(* addressee on the first node, another of his on the second.              *)
EXTENDS SocketRouting, TLC

CONSTANTS n1, n2, a, b, s0, s1, s2

MCNodeOf   == [s \in Sock |-> IF s = s2 THEN n2 ELSE n1]
MCAccounts == [s \in Sock |-> IF s = s0 THEN {b} ELSE {a}]
MCFrom     == [m \in Msg |-> s0]
MCTo       == [m \in Msg |-> a]
\* The sender is connected and bound, and that is all that has happened.
MCInit ==
  /\ sockState = [s \in Sock |-> IF s = s0 THEN "open" ELSE "new"]
  /\ erpToSocket = [n \in Node |-> [e \in Erp |-> IF n = n1 /\ e = b THEN s0 ELSE NoSock]]
  /\ socketToErp = [n \in Node |-> [s \in Sock |-> IF n = n1 /\ s = s0 THEN b ELSE NoErp]]
  /\ userKey = [e \in Erp |-> IF e = b THEN s0 ELSE NoSock]
  /\ connKey = [s \in Sock |-> IF s = s0 THEN b ELSE NoErp]
  /\ proc = [p \in Proc |-> Idle]
  /\ lateBind = {}
  /\ staleExec = FALSE
  /\ newest = userKey
  /\ RoutingStart

MCSpec == MCInit /\ [][RoutingNext]_allVars

============================================================================
