--------------------------- MODULE SocketRegistry --------------------------
(***************************************************************************)
(* Which socket a user is reached on.  Every server process ("node") keeps *)
(* two maps guarded by one mutex (service.SocketService); all nodes share  *)
(* two Redis keys per binding (redisstore.SocketBindingStore).  The        *)
(* bind_user and disconnect handlers of api/socket/server.go update the    *)
(* maps first and Redis second, and the Redis part is a GET followed by a  *)
(* MULTI/EXEC that is not guarded by WATCH.                                *)
(***************************************************************************)
EXTENDS Naturals

CONSTANTS
  Node,            \* server processes sharing one Redis
  Erp,             \* user identifiers
  Sock,            \* socket identifiers; one is never reused
  Proc,            \* handler goroutines, over all nodes
  NodeOf,          \* the node a socket connects to
  Accounts,        \* the users whose login token the client of a socket has
  SerialDispatch,  \* TRUE: socket.io runs one handler of a socket at a time
  NoErp, NoSock    \* absent map entry or Redis key

ASSUME ConstAssumption ==
  /\ NodeOf \in [Sock -> Node]
  /\ Accounts \in [Sock -> SUBSET Erp]
  /\ SerialDispatch \in BOOLEAN
  /\ NoErp \notin Erp
  /\ NoSock \notin Sock

VARIABLES
  sockState,     \* life of a socket; "open" iff it is in the connectionStore
  erpToSocket,   \* per node: SocketService.erpToSocket
  socketToErp,   \* per node: SocketService.socketToErp
  userKey,       \* Redis <prefix>:socket:user:<erp>
  connKey,       \* Redis <prefix>:socket:conn:<socket>
  proc,          \* per goroutine: where its handler is and what it has read
  lateBind,      \* history: sockets bound after their disconnect had unbound them
  staleExec      \* history: some EXEC acted on a GET that was out of date

maps  == <<erpToSocket, socketToErp, lateBind>>
redis == <<userKey, connKey, staleExec>>
vars  == <<sockState, erpToSocket, socketToErp, lateBind, userKey, connKey, proc, staleExec>>

ErpOrNone  == Erp \cup {NoErp}
SockOrNone == Sock \cup {NoSock}

RedisPC == {"bind_get", "bind_exec", "unbind_get", "unbind_exec"}
PC      == {"idle", "bind_mem", "unbind_mem"} \cup RedisPC
Handler == [pc : PC, sock : SockOrNone, erp : ErpOrNone, seen : SockOrNone]
Idle    == [pc |-> "idle", sock |-> NoSock, erp |-> NoErp, seen |-> NoSock]

\* Every variable ranges over the values the Go types allow.
TypeOK ==
  /\ sockState \in [Sock -> {"new", "open", "closed"}]
  /\ erpToSocket \in [Node -> [Erp -> SockOrNone]]
  /\ socketToErp \in [Node -> [Sock -> ErpOrNone]]
  /\ lateBind \subseteq Sock
  /\ userKey \in [Erp -> SockOrNone]
  /\ connKey \in [Sock -> ErpOrNone]
  /\ proc \in [Proc -> Handler]
  /\ staleExec \in BOOLEAN

\* Empty Redis, empty maps (NewSocketService), nobody connected.
Init ==
  /\ sockState = [s \in Sock |-> "new"]
  /\ erpToSocket = [n \in Node |-> [e \in Erp |-> NoSock]]
  /\ socketToErp = [n \in Node |-> [s \in Sock |-> NoErp]]
  /\ userKey = [e \in Erp |-> NoSock]
  /\ connKey = [s \in Sock |-> NoErp]
  /\ proc = [p \in Proc |-> Idle]
  /\ lateBind = {}
  /\ staleExec = FALSE

At(p, pc) == proc[p].pc = pc
Home(p)   == NodeOf[proc[p].sock]

\* A handler of socket s may start on the idle goroutine p.
MayHandle(p, s) ==
  /\ At(p, "idle")
  /\ SerialDispatch => \A q \in Proc : proc[q].sock # s

Become(p, pc, s, e, seen) ==
  proc' = [proc EXCEPT ![p] = [pc |-> pc, sock |-> s, erp |-> e, seen |-> seen]]
Goto(p, pc) == proc' = [proc EXCEPT ![p].pc = pc]
Finish(p)   == proc' = [proc EXCEPT ![p] = Idle]

\* The reverse map rev (socketToErp or the conn keys) once socket s is filed
\* under user e, whose socket was old.
FileKeepingOld(rev, s, e, old) == [rev EXCEPT ![s] = e]
File(rev, s, e, old) ==
  [t \in Sock |-> IF t = s THEN e ELSE IF t = old THEN NoErp ELSE rev[t]]

\* The reverse map without s, and the forward map fwd without e.
UnfileForgotten(rev, s) == rev
Unfile(rev, s) == [rev EXCEPT ![s] = NoErp]
UnroutePartial(fwd, e) == [f \in Erp \ {e} |-> fwd[f]]
Unroute(fwd, e) == [f \in Erp |-> IF f = e THEN NoSock ELSE fwd[f]]

\* The disconnect handler of s has yet to come to the mutex.
Unbinding(s) == \E p \in Proc : proc[p].sock = s /\ At(p, "unbind_mem")

----------------------------------------------------------------------------
(* The connection event: connections.Add.                                  *)
Connect(s) ==
  /\ sockState[s] = "new"
  /\ sockState' = [sockState EXCEPT ![s] = "open"]
  /\ UNCHANGED <<maps, redis, proc>>

\* bind_user names user e and carries a token that Redis resolves to h.
AnyToken(h, e)  == h # NoErp
TokenProves(h, e) == h = e

(* bind_user past its checks.  h is NoErp when the token is unknown or     *)
(* Redis fails; every refusal is answered with bind_user_error and changes *)
(* nothing.                                                                *)
BindCheck(p, s, e, h) ==
  /\ MayHandle(p, s)
  /\ sockState[s] = "open"
  /\ TokenProves(h, e)
  /\ Become(p, "bind_mem", s, e, NoSock)
  /\ UNCHANGED <<sockState, maps, redis>>

(* SocketService.BindUser, the part under the mutex: forget the reverse    *)
(* entry of the socket the user had, then write both entries.              *)
BindMem(p) ==
  LET n == Home(p)
      s == proc[p].sock
      e == proc[p].erp
      old == erpToSocket[n][e]
  IN /\ At(p, "bind_mem")
     /\ socketToErp' = [socketToErp EXCEPT ![n] = File(@, s, e, old)]
     /\ erpToSocket' = [erpToSocket EXCEPT ![n][e] = s]
     /\ lateBind' = lateBind \cup {t \in {s} : sockState[t] = "closed" /\ ~Unbinding(t)}
     /\ Goto(p, "bind_get")
     /\ UNCHANGED <<sockState, redis>>

(* SocketBindingStore.Bind: GET the user's current socket ...              *)
BindGet(p) ==
  /\ At(p, "bind_get")
  /\ Become(p, "bind_exec", proc[p].sock, proc[p].erp, userKey[proc[p].erp])
  /\ UNCHANGED <<sockState, maps, redis>>

(* ... then, in one transaction, DEL its conn key and SET both new keys.   *)
BindExec(p) ==
  LET s == proc[p].sock
      e == proc[p].erp
      old == proc[p].seen
  IN /\ At(p, "bind_exec")
     /\ connKey' = File(connKey, s, e, old)
     /\ userKey' = [userKey EXCEPT ![e] = s]
     /\ staleExec' = (staleExec \/ userKey[e] # old)
     /\ Finish(p)
     /\ UNCHANGED <<sockState, maps>>

----------------------------------------------------------------------------
(* The disconnect event: connections.Remove.                               *)
Disconnect(p, s) ==
  /\ MayHandle(p, s)
  /\ sockState[s] = "open"
  /\ sockState' = [sockState EXCEPT ![s] = "closed"]
  /\ Become(p, "unbind_mem", s, NoErp, NoSock)
  /\ UNCHANGED <<maps, redis>>

(* SocketService.UnbindBySocketID, the part under the mutex: if the socket *)
(* has a user, delete the user's forward entry whatever socket it names.   *)
UnbindMem(p) ==
  LET n == Home(p)
      s == proc[p].sock
      e == socketToErp[n][s]
  IN /\ At(p, "unbind_mem")
     /\ socketToErp' = [socketToErp EXCEPT ![n] = Unfile(@, s)]
     /\ erpToSocket' = [erpToSocket EXCEPT ![n] = Unroute(@, e)]
     /\ Goto(p, "unbind_get")
     /\ UNCHANGED <<sockState, lateBind, redis>>

(* SocketBindingStore.UnbindBySocketID: GET the socket's user; redis.Nil   *)
(* ends the handler.                                                       *)
UnbindGet(p) ==
  LET e == connKey[proc[p].sock]
  IN /\ At(p, "unbind_get")
     /\ IF e = NoErp THEN Finish(p)
        ELSE Become(p, "unbind_exec", proc[p].sock, e, NoSock)
     /\ UNCHANGED <<sockState, maps, redis>>

(* Then DEL both keys in one transaction.                                  *)
UnbindExec(p) ==
  LET s == proc[p].sock
      e == proc[p].erp
  IN /\ At(p, "unbind_exec")
     /\ connKey' = Unfile(connKey, s)
     /\ userKey' = Unroute(userKey, e)
     /\ staleExec' = (staleExec \/ connKey[s] # e)
     /\ Finish(p)
     /\ UNCHANGED <<sockState, maps>>

----------------------------------------------------------------------------
(* A Redis command returns an error without having been applied: the       *)
(* handler returns it, and what it did in memory stays done.               *)
RedisFail(p) ==
  /\ proc[p].pc \in RedisPC
  /\ Finish(p)
  /\ UNCHANGED <<sockState, maps, redis>>

(* A node dies and starts again: its maps, connections and goroutines are  *)
(* gone, no disconnect handler ran, and the Redis keys have no expiry.     *)
Crash(n) ==
  /\ sockState' = [s \in Sock |-> IF NodeOf[s] = n /\ sockState[s] = "open"
                                  THEN "closed" ELSE sockState[s]]
  /\ erpToSocket' = [erpToSocket EXCEPT ![n] = [e \in Erp |-> NoSock]]
  /\ socketToErp' = [socketToErp EXCEPT ![n] = [s \in Sock |-> NoErp]]
  /\ proc' = [p \in Proc |-> IF At(p, "idle") \/ Home(p) # n THEN proc[p] ELSE Idle]
  /\ UNCHANGED <<lateBind, redis>>

Step(p) ==
  \/ BindMem(p) \/ BindGet(p) \/ BindExec(p)
  \/ UnbindMem(p) \/ UnbindGet(p) \/ UnbindExec(p)
  \/ RedisFail(p)

Next ==
  \/ \E s \in Sock : Connect(s)
  \/ \E p \in Proc, s \in Sock, e \in Erp :
       \E h \in Accounts[s] \cup {NoErp} : BindCheck(p, s, e, h)
  \/ \E p \in Proc, s \in Sock : Disconnect(p, s)
  \/ \E p \in Proc : Step(p)
  \/ \E n \in Node : Crash(n)

Spec == Init /\ [][Next]_vars

----------------------------------------------------------------------------
\* The two maps of a node agree in the direction disconnect relies on: the
\* user a socket is filed under is routed to that very socket (the converse
\* fails on purpose: a socket that switches users leaves a forward entry).
\* BindUser and UnbindBySocketID of internal/service/socket_service.go.
ReverseAgrees ==
  \A n \in Node, s \in Sock :
    socketToErp[n][s] # NoErp => erpToSocket[n][socketToErp[n][s]] = s

\* Nobody is filed, in memory or in Redis, under a user whose token its
\* client never had: the check of server.go:363-377 survives every
\* interleaving of handlers, failures and restarts.
OnlyOwnAccounts ==
  /\ \A n \in Node, s \in Sock : socketToErp[n][s] \in Accounts[s] \cup {NoErp}
  /\ \A n \in Node, e \in Erp :
       erpToSocket[n][e] # NoSock => e \in Accounts[erpToSocket[n][e]]
  /\ \A s \in Sock : connKey[s] \in Accounts[s] \cup {NoErp}
  /\ \A e \in Erp : userKey[e] # NoSock => e \in Accounts[userKey[e]]

\* The Redis keys agree the way the maps do as long as no EXEC acted on an
\* outdated GET: the missing WATCH is the only way to corrupt them, failed
\* commands and crashed nodes included.  SocketBindingStore.Bind/Unbind.
RedisAgreesUnlessStale ==
  staleExec \/ \A s \in Sock : connKey[s] # NoErp => userKey[connKey[s]] = s

\* On its node a user's route disappears only when the very socket it names
\* is gone: the late disconnect of an old socket never unroutes a new one.
RouteLostOnlyWithItsSocket ==
  [][\A n \in Node, e \in Erp :
       erpToSocket[n][e] # NoSock /\ erpToSocket'[n][e] = NoSock
         => sockState'[erpToSocket[n][e]] = "closed"]_vars

\* The same for the cluster-wide route, which other nodes need to reach the
\* user at all.
RedisRouteLostOnlyWithItsSocket ==
  [][\A e \in Erp :
       userKey[e] # NoSock /\ userKey'[e] = NoSock
         => sockState'[userKey[e]] = "closed"]_vars

\* ... and what the code does achieve: it can only fail by a stale EXEC.
RedisRouteLostOnlyIfStale ==
  [][\A e \in Erp :
       userKey[e] # NoSock /\ userKey'[e] = NoSock
         => staleExec' \/ sockState'[userKey[e]] = "closed"]_vars

\* A closed socket is filed under a user only until its disconnect handler has
\* the mutex, whatever else binds, closes or crashes, with one exception: a
\* bind_user handler of that very socket came to the mutex later (handlers of
\* a socket may overlap), and what it wrote nothing removes.
\* server.go:566-581.
ForgottenUnlessLateBind ==
  \A s \in Sock :
    sockState[s] = "closed" /\ socketToErp[NodeOf[s]][s] # NoErp
      => Unbinding(s) \/ s \in lateBind

\* What the nodes hold in memory: each user routed to a socket that is filed
\* under him.
MemBound == {b \in Sock \X Erp : /\ socketToErp[NodeOf[b[1]]][b[1]] = b[2]
                                 /\ erpToSocket[NodeOf[b[1]]][b[2]] = b[1]}
Closed == {s \in Sock : sockState[s] = "closed"}

\* The maps of the nodes implement one directory per node: a disconnect that
\* is late takes no binding but its own socket's, and a socket that switches
\* users can lose its second one only to a claim of the first elsewhere on the
\* node.  SocketService of internal/service/socket_service.go.
MemDirectory == INSTANCE UserDirectory WITH
  Scope <- NodeOf, bound <- MemBound, closed <- Closed
MemoryIsADirectory == MemDirectory!Spec

\* The same for the Redis keys and the whole cluster, until some EXEC acts
\* on an outdated GET.  SocketBindingStore of internal/redisstore.
RedisBound == {b \in Sock \X Erp : connKey[b[1]] = b[2] /\ userKey[b[2]] = b[1]}
RedisDirectory == INSTANCE UserDirectory WITH
  Scope <- [s \in Sock |-> "cluster"], bound <- RedisBound, closed <- Closed
RedisIsADirectory ==
  RedisDirectory!Init /\ [][staleExec' \/ RedisDirectory!Next]_<<RedisBound, Closed>>
============================================================================
