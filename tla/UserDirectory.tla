--------------------------- MODULE UserDirectory ---------------------------
(***************************************************************************)
(* What the socket registry promises about bindings, whatever maps it      *)
(* keeps: a directory of <<socket, user>> pairs in which, inside one       *)
(* scope, a user has at most one socket and a socket at most one user, and *)
(* a socket that is not closed loses its user only to a later claim.       *)
(* The scope is one server process for the in-memory registry and the      *)
(* whole cluster for the registry in Redis.                                *)
(***************************************************************************)
CONSTANTS
  Erp,      \* user identifiers
  Sock,     \* socket identifiers
  Accounts, \* the users the client of a socket can claim
  Scope     \* Scope[s] is the scope in which socket s competes for a user

VARIABLES
  bound,    \* who is bound to what
  closed    \* sockets that have closed

Init == bound = {} /\ closed = {}

\* The newest claim wins: it displaces the socket's earlier user and the
\* user's earlier socket of the same scope, in one step.  Another socket t of
\* the scope may go with them, if it is one the user could have claimed before
\* it switched to the user it has now.
Claim(s, e, t) ==
  /\ e \in Accounts[s] \cap Accounts[t]
  /\ Scope[t] = Scope[s]
  /\ bound' = {b \in bound : /\ b[1] \notin {s, t}
                             /\ b[2] = e => Scope[b[1]] # Scope[s]} \cup {<<s, e>>}
  /\ UNCHANGED closed

\* Sockets close, and closed ones give up what they hold, then or later;
\* nothing else is lost.
Close ==
  /\ closed' \in SUBSET Sock /\ closed \subseteq closed'
  /\ bound' \in SUBSET bound
  /\ \A b \in bound \ bound' : b[1] \in closed'

Next == Close \/ \E s, t \in Sock, e \in Erp : Claim(s, e, t)

Spec == Init /\ [][Next]_<<bound, closed>>
============================================================================
