------------------------ MODULE SocketRegistryProofs -----------------------
(***************************************************************************)
(* Safety of SocketRegistry for any nodes, users, sockets and goroutines,  *)
(* whether or not socket.io serialises the handlers of a socket.           *)
(***************************************************************************)
EXTENDS SocketRegistry, TLAPS

(* A handler goroutine at work has a connected socket; binding, it has a   *)
(* user whose token the client holds; unbinding, the socket has closed.    *)
HandlersCarry ==
  \A p \in Proc :
    LET h == proc[p]
    IN /\ h.pc # "idle" => h.sock \in Sock /\ sockState[h.sock] # "new"
       /\ h.pc \in {"bind_mem", "bind_get", "bind_exec"} => h.erp \in Accounts[h.sock]
       /\ h.pc \in {"unbind_mem", "unbind_get", "unbind_exec"}
            => sockState[h.sock] = "closed"
       /\ h.pc = "unbind_exec" => h.erp \in Erp

(* A route names a socket of its own node that has connected.              *)
RoutesAreLocal ==
  \A n \in Node, e \in Erp :
    LET s == erpToSocket[n][e]
    IN s # NoSock => s \in Sock /\ NodeOf[s] = n /\ sockState[s] # "new"

(* The inductive invariant.  ReverseAgrees makes UnbindMem delete only the *)
(* closing socket's own route; RoutesAreLocal makes Crash touch only dead  *)
(* sockets; HandlersCarry types what a handler goroutine brings along.     *)
IInv ==
  /\ TypeOK
  /\ HandlersCarry
  /\ RoutesAreLocal
  /\ ReverseAgrees
  /\ OnlyOwnAccounts
  /\ RedisAgreesUnlessStale

----------------------------------------------------------------------------
(* A handler goroutine at work has a socket; binding, it also has a user   *)
(* whose token the client holds (bind_user passed its token check).        *)
LEMMA WorkingHandler ==
  ASSUME TypeOK, HandlersCarry, NEW p \in Proc, proc[p].pc # "idle"
  PROVE  /\ proc[p].sock \in Sock
         /\ NodeOf[proc[p].sock] \in Node
         /\ sockState[proc[p].sock] # "new"
         /\ proc[p].pc \in {"bind_mem", "bind_get", "bind_exec"}
              => /\ proc[p].erp \in Erp
                 /\ proc[p].erp \in Accounts[proc[p].sock]
BY ConstAssumption DEF TypeOK, HandlersCarry, Handler

(* The empty maps and keys satisfy the invariant.                          *)
LEMMA InitIInv == Init => IInv
<1> SUFFICES ASSUME Init PROVE IInv
  OBVIOUS
<1> USE ConstAssumption DEF Init
<1>1. TypeOK
  BY DEF TypeOK, Idle, Handler, PC, RedisPC, ErpOrNone, SockOrNone
<1>2. HandlersCarry
  BY DEF HandlersCarry, Idle
<1>3. RoutesAreLocal
  BY DEF RoutesAreLocal
<1>4. ReverseAgrees
  BY DEF ReverseAgrees
<1>5. OnlyOwnAccounts
  BY DEF OnlyOwnAccounts
<1>6. RedisAgreesUnlessStale
  BY DEF RedisAgreesUnlessStale
<1>7. QED
  BY <1>1, <1>2, <1>3, <1>4, <1>5, <1>6 DEF IInv

(* Stuttering changes nothing the invariant reads.                         *)
LEMMA StutterIInv == IInv /\ UNCHANGED vars => IInv'
BY DEF IInv, vars, TypeOK, HandlersCarry, RoutesAreLocal, ReverseAgrees,
       OnlyOwnAccounts, RedisAgreesUnlessStale

(* A new connection is a socket no handler and no route mentions yet.      *)
LEMMA ConnectIInv ==
  ASSUME IInv, NEW s \in Sock, Connect(s)
  PROVE  IInv'
<1> USE DEF Connect, maps, redis
<1>1. TypeOK'
  BY DEF IInv, TypeOK
<1>2. HandlersCarry'
  BY DEF IInv, TypeOK, HandlersCarry, Handler
<1>3. RoutesAreLocal'
  BY DEF IInv, TypeOK, RoutesAreLocal
<1>4. ReverseAgrees' /\ OnlyOwnAccounts' /\ RedisAgreesUnlessStale'
  BY DEF IInv, ReverseAgrees, OnlyOwnAccounts, RedisAgreesUnlessStale
<1>5. QED
  BY <1>1, <1>2, <1>3, <1>4 DEF IInv

(* bind_user past its checks: only the goroutine changes, and the token    *)
(* check puts an own account in its hands.                                 *)
LEMMA BindCheckIInv ==
  ASSUME IInv, NEW p \in Proc, NEW s \in Sock, NEW e \in Erp,
         NEW h \in Accounts[s] \cup {NoErp}, BindCheck(p, s, e, h)
  PROVE  IInv'
<1> USE ConstAssumption DEF BindCheck, Become, maps, redis
<1>1. e \in Accounts[s]
  BY DEF TokenProves
<1>2. TypeOK'
  BY DEF IInv, TypeOK, Handler, PC, RedisPC, ErpOrNone, SockOrNone
<1>3. HandlersCarry'
  BY <1>1 DEF IInv, TypeOK, HandlersCarry, Handler
<1>4. RoutesAreLocal' /\ ReverseAgrees' /\ OnlyOwnAccounts' /\ RedisAgreesUnlessStale'
  BY DEF IInv, RoutesAreLocal, ReverseAgrees, OnlyOwnAccounts, RedisAgreesUnlessStale
<1>5. QED
  BY <1>2, <1>3, <1>4 DEF IInv

(* BindUser under the mutex.  The socket the user had before loses its     *)
(* reverse entry, so the only reverse entry for the user is the new one.   *)
LEMMA BindMemIInv ==
  ASSUME IInv, NEW p \in Proc, BindMem(p)
  PROVE  IInv'
<1> DEFINE n == NodeOf[proc[p].sock]
           s == proc[p].sock
           e == proc[p].erp
           old == erpToSocket[n][e]
<1>1. /\ s \in Sock /\ n \in Node /\ NodeOf[s] = n /\ sockState[s] # "new"
      /\ e \in Erp /\ e \in Accounts[s]
  BY WorkingHandler DEF IInv, BindMem, At
<1>2. /\ socketToErp' = [socketToErp EXCEPT ![n] =
           [t \in Sock |-> IF t = s THEN e ELSE IF t = old THEN NoErp
                                                ELSE socketToErp[n][t]]]
      /\ erpToSocket' = [erpToSocket EXCEPT ![n] = [@ EXCEPT ![e] = s]]
      /\ proc' = [proc EXCEPT ![p] = [@ EXCEPT !.pc = "bind_get"]]
      /\ UNCHANGED <<sockState, userKey, connKey, staleExec>>
      /\ lateBind' \subseteq lateBind \cup {s}
  BY DEF BindMem, File, Home, Goto, redis
<1>3. proc[p].pc = "bind_mem"
  BY DEF BindMem, At
<1> HIDE DEF n, s, e, old
<1>4. TypeOK'
  <2>1. socketToErp' \in [Node -> [Sock -> ErpOrNone]]
    BY <1>1, <1>2 DEF IInv, TypeOK, ErpOrNone
  <2>2. erpToSocket' \in [Node -> [Erp -> SockOrNone]]
    BY <1>1, <1>2 DEF IInv, TypeOK, SockOrNone
  <2>3. proc' \in [Proc -> Handler]
    BY <1>2 DEF IInv, TypeOK, Handler, PC, RedisPC
  <2>4. QED
    BY <1>1, <1>2, <2>1, <2>2, <2>3 DEF IInv, TypeOK
<1>5. HandlersCarry'
  BY <1>1, <1>2, <1>3 DEF IInv, TypeOK, HandlersCarry, Handler
<1>6. RoutesAreLocal'
  BY <1>1, <1>2 DEF IInv, TypeOK, RoutesAreLocal
<1>7. ReverseAgrees'
  BY <1>1, <1>2 DEF IInv, TypeOK, ReverseAgrees, old
<1>8. OnlyOwnAccounts'
  BY <1>1, <1>2, ConstAssumption DEF IInv, TypeOK, OnlyOwnAccounts
<1>9. RedisAgreesUnlessStale'
  BY <1>2 DEF IInv, RedisAgreesUnlessStale
<1>10. QED
  BY <1>4, <1>5, <1>6, <1>7, <1>8, <1>9 DEF IInv

(* The GET of Bind only teaches the goroutine what the key was.            *)
LEMMA BindGetIInv ==
  ASSUME IInv, NEW p \in Proc, BindGet(p)
  PROVE  IInv'
<1> USE DEF BindGet, Become, At, maps, redis
<1>1. proc[p].erp \in Erp
  BY WorkingHandler DEF IInv
<1>2. TypeOK'
  BY <1>1 DEF IInv, TypeOK, Handler, PC, RedisPC, ErpOrNone, SockOrNone
<1>3. HandlersCarry'
  BY DEF IInv, TypeOK, HandlersCarry, Handler
<1>4. RoutesAreLocal' /\ ReverseAgrees' /\ OnlyOwnAccounts' /\ RedisAgreesUnlessStale'
  BY DEF IInv, RoutesAreLocal, ReverseAgrees, OnlyOwnAccounts, RedisAgreesUnlessStale
<1>5. QED
  BY <1>2, <1>3, <1>4 DEF IInv

(* A handler that ends, whatever else happened, is typed and carries       *)
(* nothing.                                                                *)
LEMMA FinishHandlers ==
  ASSUME TypeOK, HandlersCarry, NEW p \in Proc, Finish(p), UNCHANGED sockState
  PROVE  proc' \in [Proc -> Handler] /\ HandlersCarry'
BY DEF TypeOK, HandlersCarry, Finish, Idle, Handler, PC, RedisPC, ErpOrNone, SockOrNone

(* The transaction of Bind.  If the key still holds what GET read, the     *)
(* transaction is the in-memory BindUser over again.                       *)
LEMMA BindExecIInv ==
  ASSUME IInv, NEW p \in Proc, BindExec(p)
  PROVE  IInv'
<1> DEFINE s == proc[p].sock
           e == proc[p].erp
           old == proc[p].seen
<1>1. s \in Sock /\ e \in Erp /\ e \in Accounts[s]
  BY WorkingHandler DEF IInv, BindExec, At
<1>2. /\ connKey' = [t \in Sock |-> IF t = s THEN e ELSE IF t = old THEN NoErp
                                                         ELSE connKey[t]]
      /\ userKey' = [userKey EXCEPT ![e] = s]
      /\ staleExec' = (staleExec \/ userKey[e] # old)
      /\ UNCHANGED <<sockState, erpToSocket, socketToErp, lateBind>>
  BY DEF BindExec, File, maps
<1>3. proc' \in [Proc -> Handler] /\ HandlersCarry'
  BY <1>2, FinishHandlers DEF IInv, BindExec
<1> HIDE DEF s, e, old
<1>4. TypeOK'
  <2>1. staleExec' \in BOOLEAN
    BY <1>2 DEF IInv, TypeOK
  <2>2. connKey' \in [Sock -> ErpOrNone] /\ userKey' \in [Erp -> SockOrNone]
    BY <1>1, <1>2 DEF IInv, TypeOK, ErpOrNone, SockOrNone
  <2>3. QED
    BY <1>2, <1>3, <2>1, <2>2 DEF IInv, TypeOK
<1>5. RoutesAreLocal' /\ ReverseAgrees'
  BY <1>2 DEF IInv, RoutesAreLocal, ReverseAgrees
<1>6. OnlyOwnAccounts'
  BY <1>1, <1>2, ConstAssumption DEF IInv, TypeOK, OnlyOwnAccounts
<1>7. RedisAgreesUnlessStale'
  <2>1. SUFFICES ASSUME ~staleExec, userKey[e] = old
                 PROVE  \A t \in Sock : connKey'[t] # NoErp => userKey'[connKey'[t]] = t
    BY <1>2 DEF RedisAgreesUnlessStale
  <2>2. QED
    BY <1>1, <1>2, <2>1 DEF IInv, TypeOK, RedisAgreesUnlessStale, ErpOrNone
<1>8. QED
  BY <1>3, <1>4, <1>5, <1>6, <1>7 DEF IInv

(* A closing socket starts its unbind handler; closed is not "new".        *)
LEMMA DisconnectIInv ==
  ASSUME IInv, NEW p \in Proc, NEW s \in Sock, Disconnect(p, s)
  PROVE  IInv'
<1> USE ConstAssumption DEF Disconnect, Become, maps, redis
<1>1. TypeOK'
  BY DEF IInv, TypeOK, Handler, PC, RedisPC, ErpOrNone, SockOrNone
<1>2. HandlersCarry'
  BY DEF IInv, TypeOK, HandlersCarry, Handler
<1>3. RoutesAreLocal'
  BY DEF IInv, TypeOK, RoutesAreLocal
<1>4. ReverseAgrees' /\ OnlyOwnAccounts' /\ RedisAgreesUnlessStale'
  BY DEF IInv, ReverseAgrees, OnlyOwnAccounts, RedisAgreesUnlessStale
<1>5. QED
  BY <1>1, <1>2, <1>3, <1>4 DEF IInv

(* What UnbindMem does to its node: the socket's reverse entry goes, and   *)
(* with it the forward entry of the user it was filed under, if any.       *)
LEMMA UnbindMemEffect ==
  ASSUME IInv, NEW p \in Proc, UnbindMem(p),
         NEW n, n = NodeOf[proc[p].sock], NEW s, s = proc[p].sock
  PROVE  /\ s \in Sock /\ n \in Node /\ sockState[s] = "closed"
         /\ socketToErp' = [socketToErp EXCEPT ![n] = [@ EXCEPT ![s] = NoErp]]
         /\ erpToSocket' = [erpToSocket EXCEPT ![n] =
              [f \in Erp |-> IF f = socketToErp[n][s] THEN NoSock
                                                      ELSE erpToSocket[n][f]]]
         /\ UNCHANGED <<sockState, lateBind, userKey, connKey, staleExec>>
<1>1. s \in Sock /\ n \in Node /\ sockState[s] = "closed"
  BY WorkingHandler DEF IInv, HandlersCarry, UnbindMem, At
<1>2. QED
  BY <1>1 DEF UnbindMem, Unfile, Unroute, Home, redis

(* UnbindBySocketID under the mutex.  By ReverseAgrees the forward entry   *)
(* it deletes names the closing socket, so no other reverse entry needs it.*)
LEMMA UnbindMemIInv ==
  ASSUME IInv, NEW p \in Proc, UnbindMem(p)
  PROVE  IInv'
<1> DEFINE n == NodeOf[proc[p].sock]
           s == proc[p].sock
<1>1. /\ s \in Sock /\ n \in Node /\ sockState[s] = "closed"
      /\ socketToErp' = [socketToErp EXCEPT ![n] = [@ EXCEPT ![s] = NoErp]]
      /\ erpToSocket' = [erpToSocket EXCEPT ![n] =
           [f \in Erp |-> IF f = socketToErp[n][s] THEN NoSock
                                                   ELSE erpToSocket[n][f]]]
      /\ UNCHANGED <<sockState, lateBind, userKey, connKey, staleExec>>
  BY UnbindMemEffect
<1>2. proc' = [proc EXCEPT ![p] = [@ EXCEPT !.pc = "unbind_get"]]
      /\ proc[p].pc = "unbind_mem"
  BY DEF UnbindMem, Goto, At
<1>3. HandlersCarry'
  BY <1>1, <1>2 DEF IInv, TypeOK, HandlersCarry, Handler
<1> HIDE DEF n, s
<1>4. TypeOK'
  <2>1. erpToSocket' \in [Node -> [Erp -> SockOrNone]]
    BY <1>1 DEF IInv, TypeOK, SockOrNone
  <2>2. socketToErp' \in [Node -> [Sock -> ErpOrNone]]
    BY <1>1 DEF IInv, TypeOK, ErpOrNone
  <2>3. proc' \in [Proc -> Handler]
    BY <1>2 DEF IInv, TypeOK, Handler, PC, RedisPC
  <2>4. QED
    BY <1>1, <2>1, <2>2, <2>3 DEF IInv, TypeOK
<1>5. RoutesAreLocal'
  BY <1>1 DEF IInv, TypeOK, RoutesAreLocal
<1>6. ReverseAgrees'
  BY <1>1, ConstAssumption DEF IInv, TypeOK, ReverseAgrees, ErpOrNone
<1>7. OnlyOwnAccounts'
  BY <1>1, ConstAssumption DEF IInv, TypeOK, OnlyOwnAccounts
<1>8. RedisAgreesUnlessStale'
  BY <1>1 DEF IInv, RedisAgreesUnlessStale
<1>9. QED
  BY <1>3, <1>4, <1>5, <1>6, <1>7, <1>8 DEF IInv

(* The GET of UnbindBySocketID either ends the handler or gives it a user. *)
LEMMA UnbindGetIInv ==
  ASSUME IInv, NEW p \in Proc, UnbindGet(p)
  PROVE  IInv'
<1> DEFINE s == proc[p].sock
<1> USE DEF UnbindGet, At, maps, redis
<1>1. s \in Sock /\ connKey[s] \in ErpOrNone
  BY WorkingHandler DEF IInv, TypeOK
<1>2. proc' \in [Proc -> Handler] /\ HandlersCarry'
  <2>1. CASE connKey[s] = NoErp
    BY <2>1, FinishHandlers DEF IInv
  <2>2. CASE connKey[s] # NoErp
    <3> DEFINE h == [pc |-> "unbind_exec", sock |-> s, erp |-> connKey[s], seen |-> NoSock]
    <3>1. proc' = [proc EXCEPT ![p] = h] /\ UNCHANGED sockState
      BY <2>2 DEF Become
    <3>2. sockState[s] = "closed" /\ connKey[s] \in Erp
      BY <1>1, <2>2 DEF IInv, HandlersCarry, ErpOrNone
    <3>3. h \in Handler
      BY <1>1, <3>2 DEF Handler, PC, RedisPC, ErpOrNone, SockOrNone
    <3>4. h.pc = "unbind_exec" /\ h.sock = s /\ h.erp = connKey[s]
      OBVIOUS
    <3> HIDE DEF h, s
    <3>5. proc' \in [Proc -> Handler]
      BY <3>1, <3>3 DEF IInv, TypeOK
    <3>6. HandlersCarry'
      BY <1>1, <3>1, <3>2, <3>4 DEF IInv, TypeOK, HandlersCarry
    <3>7. QED
      BY <3>5, <3>6
  <2>3. QED
    BY <2>1, <2>2
<1>3. TypeOK'
  BY <1>2 DEF IInv, TypeOK
<1>4. RoutesAreLocal' /\ ReverseAgrees' /\ OnlyOwnAccounts' /\ RedisAgreesUnlessStale'
  BY DEF IInv, RoutesAreLocal, ReverseAgrees, OnlyOwnAccounts, RedisAgreesUnlessStale
<1>5. QED
  BY <1>2, <1>3, <1>4 DEF IInv

(* The transaction of UnbindBySocketID, the in-memory one over again if    *)
(* the socket is still filed under the user GET read.                      *)
LEMMA UnbindExecIInv ==
  ASSUME IInv, NEW p \in Proc, UnbindExec(p)
  PROVE  IInv'
<1> DEFINE s == proc[p].sock
           e == proc[p].erp
<1>1. s \in Sock /\ e \in Erp
  BY DEF IInv, HandlersCarry, UnbindExec, At
<1>2. /\ connKey' = [connKey EXCEPT ![s] = NoErp]
      /\ userKey' = [f \in Erp |-> IF f = e THEN NoSock ELSE userKey[f]]
      /\ staleExec' = (staleExec \/ connKey[s] # e)
      /\ UNCHANGED <<sockState, erpToSocket, socketToErp, lateBind>>
  BY DEF UnbindExec, Unfile, Unroute, maps
<1>3. proc' \in [Proc -> Handler] /\ HandlersCarry'
  BY <1>2, FinishHandlers DEF IInv, UnbindExec
<1> HIDE DEF s, e
<1>4. TypeOK'
  <2>1. staleExec' \in BOOLEAN
    BY <1>2 DEF IInv, TypeOK
  <2>2. connKey' \in [Sock -> ErpOrNone] /\ userKey' \in [Erp -> SockOrNone]
    BY <1>1, <1>2 DEF IInv, TypeOK, ErpOrNone, SockOrNone
  <2>3. QED
    BY <1>2, <1>3, <2>1, <2>2 DEF IInv, TypeOK
<1>5. RoutesAreLocal' /\ ReverseAgrees'
  BY <1>2 DEF IInv, RoutesAreLocal, ReverseAgrees
<1>6. OnlyOwnAccounts'
  BY <1>1, <1>2, ConstAssumption DEF IInv, TypeOK, OnlyOwnAccounts
<1>7. RedisAgreesUnlessStale'
  <2>1. SUFFICES ASSUME ~staleExec, connKey[s] = e
                 PROVE  \A t \in Sock : connKey'[t] # NoErp => userKey'[connKey'[t]] = t
    BY <1>2 DEF RedisAgreesUnlessStale
  <2>2. QED
    BY <1>1, <1>2, <2>1, ConstAssumption DEF IInv, TypeOK, RedisAgreesUnlessStale, ErpOrNone
<1>8. QED
  BY <1>3, <1>4, <1>5, <1>6, <1>7 DEF IInv

(* A failed command ends the handler and leaves the rest as it was.        *)
LEMMA RedisFailIInv ==
  ASSUME IInv, NEW p \in Proc, RedisFail(p)
  PROVE  IInv'
<1> USE DEF RedisFail, maps, redis
<1>1. TypeOK' /\ HandlersCarry'
  BY FinishHandlers DEF IInv, TypeOK
<1>2. RoutesAreLocal' /\ ReverseAgrees' /\ OnlyOwnAccounts' /\ RedisAgreesUnlessStale'
  BY DEF IInv, RoutesAreLocal, ReverseAgrees, OnlyOwnAccounts, RedisAgreesUnlessStale
<1>3. QED
  BY <1>1, <1>2 DEF IInv

(* A crash empties one node and closes its sockets; the handlers left are  *)
(* those of other nodes, whose sockets it does not touch.                  *)
LEMMA CrashIInv ==
  ASSUME IInv, NEW n \in Node, Crash(n)
  PROVE  IInv'
<1> USE DEF Crash, redis
<1>1. TypeOK'
  <2>1. sockState' \in [Sock -> {"new", "open", "closed"}]
    BY DEF IInv, TypeOK
  <2>2. proc' \in [Proc -> Handler]
    BY DEF IInv, TypeOK, Idle, Handler, PC, RedisPC, ErpOrNone, SockOrNone
  <2>3. /\ erpToSocket' \in [Node -> [Erp -> SockOrNone]]
        /\ socketToErp' \in [Node -> [Sock -> ErpOrNone]]
    BY DEF IInv, TypeOK, ErpOrNone, SockOrNone
  <2>4. QED
    BY <2>1, <2>2, <2>3 DEF IInv, TypeOK
<1>2. HandlersCarry'
  <2>1. SUFFICES ASSUME NEW p \in Proc, proc'[p] = proc[p], proc[p].pc # "idle"
                 PROVE  /\ sockState[proc[p].sock] # "new" => sockState'[proc[p].sock] # "new"
                        /\ sockState[proc[p].sock] = "closed"
                             => sockState'[proc[p].sock] = "closed"
    BY DEF IInv, TypeOK, HandlersCarry, Idle, At
  <2>2. proc[p].sock \in Sock
    BY <2>1 DEF IInv, HandlersCarry
  <2>3. QED
    BY <2>2
<1>3. RoutesAreLocal'
  BY DEF IInv, TypeOK, RoutesAreLocal
<1>4. ReverseAgrees'
  BY DEF IInv, TypeOK, ReverseAgrees
<1>5. OnlyOwnAccounts' /\ RedisAgreesUnlessStale'
  BY DEF IInv, TypeOK, OnlyOwnAccounts, RedisAgreesUnlessStale
<1>6. QED
  BY <1>1, <1>2, <1>3, <1>4, <1>5 DEF IInv

(* Every step keeps the invariant.                                         *)
LEMMA NextIInv == IInv /\ [Next]_vars => IInv'
<1> SUFFICES ASSUME IInv, [Next]_vars PROVE IInv'
  OBVIOUS
<1>1. ASSUME NEW p \in Proc, Step(p) PROVE IInv'
  BY <1>1, BindMemIInv, BindGetIInv, BindExecIInv, UnbindMemIInv, UnbindGetIInv,
     UnbindExecIInv, RedisFailIInv DEF Step
<1>2. QED
  BY <1>1, ConnectIInv, BindCheckIInv, DisconnectIInv, CrashIInv, StutterIInv DEF Next

(* The invariant holds in every reachable state.                           *)
THEOREM Invariant == Spec => []IInv
BY InitIInv, NextIInv, PTL DEF Spec

----------------------------------------------------------------------------
(* Every variable keeps the type its Go declaration gives it.              *)
THEOREM TypeCorrect == Spec => []TypeOK
BY Invariant, PTL DEF IInv

(* A socket filed under a user is the socket that user is routed to, on    *)
(* every node, however bind and disconnect handlers interleave.            *)
THEOREM MapsAgree == Spec => []ReverseAgrees
BY Invariant, PTL DEF IInv

(* Nobody is ever filed under a user whose token its client never had.     *)
THEOREM NoImpersonation == Spec => []OnlyOwnAccounts
BY Invariant, PTL DEF IInv

(* Only a GET that was out of date at its EXEC makes the Redis keys        *)
(* disagree; failed commands and crashes do not.                           *)
THEOREM RedisKeysAgree == Spec => []RedisAgreesUnlessStale
BY Invariant, PTL DEF IInv

(* A step that leaves a closed socket under a user leaves its disconnect   *)
(* handler before the mutex, or is noted.                                  *)
LEMMA ForgottenStep ==
  ASSUME IInv, ForgottenUnlessLateBind, [Next]_vars
  PROVE  ForgottenUnlessLateBind'
<1> SUFFICES ASSUME NEW s \in Sock, sockState'[s] = "closed",
                    socketToErp'[NodeOf[s]][s] # NoErp, s \notin lateBind'
             PROVE  Unbinding(s)'
  BY DEF ForgottenUnlessLateBind
<1>1. CASE \E p \in Proc : BindMem(p)
  <2>1. PICK p \in Proc : BindMem(p)
    BY <1>1
  <2>2. /\ proc[p].pc = "bind_mem" /\ sockState[s] = "closed"
        /\ \A q \in Proc : q # p => proc'[q] = proc[q]
    BY <2>1 DEF BindMem, At, Goto, IInv, TypeOK
  <2>3. Unbinding(s)
    <3>1. CASE s = proc[p].sock
      BY <2>1, <2>2, <3>1 DEF BindMem
    <3>2. CASE s # proc[p].sock
      <4>1. s \notin lateBind
        BY <2>1 DEF BindMem
      <4>2. socketToErp[NodeOf[s]][s] # NoErp
        BY <2>1, <3>2, ConstAssumption DEF BindMem, File, IInv, TypeOK
      <4>3. QED
        BY <2>2, <4>1, <4>2 DEF ForgottenUnlessLateBind
    <3>3. QED
      BY <3>1, <3>2
  <2>4. PICK q \in Proc : proc[q].sock = s /\ proc[q].pc = "unbind_mem"
    BY <2>3 DEF Unbinding, At
  <2>5. QED
    BY <2>2, <2>4 DEF Unbinding, At
<1>2. CASE \E p \in Proc : UnbindMem(p)
  <2>1. PICK p \in Proc : UnbindMem(p)
    BY <1>2
  <2> DEFINE m == NodeOf[proc[p].sock]
             t == proc[p].sock
  <2>2. /\ t \in Sock /\ m \in Node /\ UNCHANGED <<sockState, lateBind>>
        /\ socketToErp' = [socketToErp EXCEPT ![m] = Unfile(@, t)]
    BY <2>1, WorkingHandler DEF IInv, UnbindMem, At, Home
  <2>3. \A q \in Proc : q # p => proc'[q] = proc[q]
    BY <2>1 DEF UnbindMem, Goto, IInv, TypeOK
  <2>4. s # t /\ socketToErp[NodeOf[s]][s] # NoErp
    BY <2>2, ConstAssumption DEF IInv, TypeOK, Unfile
  <2>5. PICK q \in Proc : proc[q].sock = s /\ proc[q].pc = "unbind_mem"
    BY <2>2, <2>4 DEF ForgottenUnlessLateBind, Unbinding, At
  <2>6. QED
    BY <2>3, <2>4, <2>5 DEF Unbinding, At
<1>3. CASE \E n \in Node : Crash(n)
  <2>1. PICK n \in Node : Crash(n)
    BY <1>3
  <2>2. NodeOf[s] # n
    BY <2>1, ConstAssumption DEF Crash, IInv, TypeOK
  <2>3. sockState[s] = "closed" /\ socketToErp[NodeOf[s]][s] # NoErp /\ s \notin lateBind
    BY <2>1, <2>2, ConstAssumption DEF Crash, IInv, TypeOK
  <2>4. PICK q \in Proc : proc[q].sock = s /\ proc[q].pc = "unbind_mem"
    BY <2>3 DEF ForgottenUnlessLateBind, Unbinding, At
  <2>5. proc'[q] = proc[q]
    BY <2>1, <2>2, <2>4 DEF Crash, Home
  <2>6. QED
    BY <2>4, <2>5 DEF Unbinding, At
<1>4. CASE \E p \in Proc, t \in Sock : Disconnect(p, t)
  <2>1. PICK p \in Proc, t \in Sock : Disconnect(p, t)
    BY <1>4
  <2>2. /\ proc[p].pc = "idle" /\ UNCHANGED <<socketToErp, lateBind>>
        /\ proc'[p].pc = "unbind_mem" /\ proc'[p].sock = t
        /\ \A q \in Proc : q # p => proc'[q] = proc[q]
        /\ s # t => sockState'[s] = sockState[s]
    BY <2>1 DEF Disconnect, MayHandle, At, Become, maps, IInv, TypeOK
  <2>3. CASE s = t
    BY <2>2, <2>3 DEF Unbinding, At
  <2>4. CASE s # t
    <3>1. PICK q \in Proc : proc[q].sock = s /\ proc[q].pc = "unbind_mem"
      BY <2>2, <2>4 DEF ForgottenUnlessLateBind, Unbinding, At
    <3>2. QED
      BY <2>2, <3>1 DEF Unbinding, At
  <2>5. QED
    BY <2>3, <2>4
<1>5. ASSUME UNCHANGED <<socketToErp, lateBind>>, sockState'[s] = sockState[s],
             \A q \in Proc : proc[q].pc = "unbind_mem" => proc'[q] = proc[q]
      PROVE  Unbinding(s)'
  BY <1>5 DEF ForgottenUnlessLateBind, Unbinding, At
<1>6. CASE \E p \in Proc : BindGet(p) \/ BindExec(p) \/ UnbindGet(p) \/ UnbindExec(p) \/ RedisFail(p)
  <2>1. PICK p \in Proc : BindGet(p) \/ BindExec(p) \/ UnbindGet(p) \/ UnbindExec(p) \/ RedisFail(p)
    BY <1>6
  <2>2. /\ UNCHANGED <<socketToErp, lateBind, sockState>> /\ proc[p].pc # "unbind_mem"
        /\ \A q \in Proc : q # p => proc'[q] = proc[q]
    BY <2>1 DEF BindGet, BindExec, UnbindGet, UnbindExec, RedisFail, RedisPC, At, Become,
                Finish, maps, IInv, TypeOK
  <2>3. QED
    BY <1>5, <2>2
<1>7. CASE \E p \in Proc, t \in Sock, e \in Erp : \E h \in Accounts[t] \cup {NoErp} : BindCheck(p, t, e, h)
  <2>1. PICK p \in Proc : proc[p].pc = "idle" /\ \A q \in Proc : q # p => proc'[q] = proc[q]
    BY <1>7 DEF BindCheck, MayHandle, At, Become, IInv, TypeOK
  <2>2. UNCHANGED <<socketToErp, lateBind, sockState>>
    BY <1>7 DEF BindCheck, maps
  <2>3. QED
    BY <1>5, <2>1, <2>2
<1>8. CASE \E t \in Sock : Connect(t)
  <2>1. UNCHANGED <<socketToErp, lateBind, proc>> /\ sockState'[s] = sockState[s]
    BY <1>8 DEF Connect, maps, IInv, TypeOK
  <2>2. QED
    BY <1>5, <2>1
<1>9. CASE UNCHANGED vars
  BY <1>5, <1>9 DEF vars
<1>10. QED
  BY <1>1, <1>2, <1>3, <1>4, <1>6, <1>7, <1>8, <1>9 DEF Next, Step

(* A closed socket stays filed under a user only if a bind_user handler of *)
(* its own came after its disconnect handler.                              *)
THEOREM ClosedForgotten == Spec => []ForgottenUnlessLateBind
<1>1. Init => ForgottenUnlessLateBind
  BY DEF Init, ForgottenUnlessLateBind
<1>2. IInv /\ ForgottenUnlessLateBind /\ [Next]_vars => ForgottenUnlessLateBind'
  BY ForgottenStep
<1>3. QED
  BY <1>1, <1>2, Invariant, PTL DEF Spec

(* A step takes a user's route away only with the socket it names.         *)
LEMMA RouteStep ==
  ASSUME IInv, Next, NEW n \in Node, NEW e \in Erp,
         erpToSocket[n][e] # NoSock, erpToSocket'[n][e] = NoSock
  PROVE  sockState'[erpToSocket[n][e]] = "closed"
<1>1. CASE \E p \in Proc : BindMem(p)
  <2>1. PICK p \in Proc : BindMem(p)
    BY <1>1
  <2>2. proc[p].sock \in Sock /\ Home(p) \in Node /\ proc[p].erp \in Erp
    BY <2>1, WorkingHandler DEF IInv, BindMem, At, Home
  <2>3. erpToSocket'[n][e] \in {proc[p].sock, erpToSocket[n][e]}
    BY <2>1, <2>2 DEF BindMem, IInv, TypeOK
  <2>4. QED
    BY <2>2, <2>3, ConstAssumption
<1>2. CASE \E p \in Proc : UnbindMem(p)
  <2>1. PICK p \in Proc : UnbindMem(p)
    BY <1>2
  <2> DEFINE m == NodeOf[proc[p].sock]
             s == proc[p].sock
  <2>2. /\ s \in Sock /\ m \in Node /\ sockState[s] = "closed"
        /\ erpToSocket' = [erpToSocket EXCEPT ![m] =
             [f \in Erp |-> IF f = socketToErp[m][s] THEN NoSock
                                                     ELSE erpToSocket[m][f]]]
        /\ UNCHANGED sockState
    BY <2>1, UnbindMemEffect
  <2> HIDE DEF m, s
  <2>3. n = m /\ e = socketToErp[m][s]
    BY <2>2 DEF IInv, TypeOK
  <2>4. erpToSocket[n][e] = s
    BY <2>2, <2>3, ConstAssumption DEF IInv, ReverseAgrees
  <2>5. QED
    BY <2>2, <2>4
<1>3. CASE \E m \in Node : Crash(m)
  BY <1>3 DEF Crash, IInv, TypeOK, RoutesAreLocal
<1>4. CASE UNCHANGED erpToSocket
  BY <1>4
<1>5. QED
  BY <1>1, <1>2, <1>3, <1>4
  DEF Next, Step, Connect, BindCheck, BindGet, BindExec, Disconnect, UnbindGet,
      UnbindExec, RedisFail, maps

(* A late disconnect of an old socket never unroutes the newer one on its  *)
(* node.                                                                   *)
THEOREM LateDisconnectHarmless == Spec => RouteLostOnlyWithItsSocket
<1>1. IInv /\ [Next]_vars =>
        [\A n \in Node, e \in Erp :
           erpToSocket[n][e] # NoSock /\ erpToSocket'[n][e] = NoSock
             => sockState'[erpToSocket[n][e]] = "closed"]_vars
  BY RouteStep
<1>2. QED
  BY <1>1, Invariant, PTL DEF Spec, RouteLostOnlyWithItsSocket

(* A step takes a user's cluster-wide route away only with its socket or   *)
(* by an EXEC that followed an outdated GET.                               *)
LEMMA RedisRouteStep ==
  ASSUME IInv, Next, NEW e \in Erp,
         userKey[e] # NoSock, userKey'[e] = NoSock, ~staleExec'
  PROVE  sockState'[userKey[e]] = "closed"
<1>1. CASE \E p \in Proc : BindExec(p)
  <2>1. PICK p \in Proc : BindExec(p)
    BY <1>1
  <2>2. proc[p].sock \in Sock
    BY <2>1, WorkingHandler DEF IInv, BindExec, At
  <2>3. userKey'[e] \in {proc[p].sock, userKey[e]}
    BY <2>1 DEF BindExec, IInv, TypeOK
  <2>4. QED
    BY <2>2, <2>3, ConstAssumption
<1>2. CASE \E p \in Proc : UnbindExec(p)
  <2>1. PICK p \in Proc : UnbindExec(p)
    BY <1>2
  <2> DEFINE s == proc[p].sock
  <2>2. s \in Sock /\ sockState[s] = "closed"
    BY <2>1 DEF IInv, HandlersCarry, UnbindExec, At
  <2>3. /\ ~staleExec /\ connKey[s] = proc[p].erp
        /\ userKey' = [f \in Erp |-> IF f = proc[p].erp THEN NoSock ELSE userKey[f]]
        /\ UNCHANGED sockState
    BY <2>1 DEF UnbindExec, Unroute
  <2> HIDE DEF s
  <2>4. connKey[s] = e
    BY <2>3
  <2>5. userKey[e] = s
    BY <2>2, <2>3, <2>4, ConstAssumption DEF IInv, RedisAgreesUnlessStale
  <2>6. QED
    BY <2>2, <2>3, <2>5
<1>3. CASE UNCHANGED userKey
  BY <1>3
<1>4. QED
  BY <1>1, <1>2, <1>3
  DEF Next, Step, Connect, BindCheck, BindMem, BindGet, Disconnect, UnbindMem,
      UnbindGet, RedisFail, Crash, redis

(* As long as no EXEC follows an outdated GET, no late disconnect takes a  *)
(* user off the cluster.                                                   *)
THEOREM RedisRouteOnlyLostStale == Spec => RedisRouteLostOnlyIfStale
<1>1. IInv /\ [Next]_vars =>
        [\A e \in Erp :
           userKey[e] # NoSock /\ userKey'[e] = NoSock
             => staleExec' \/ sockState'[userKey[e]] = "closed"]_vars
  BY RedisRouteStep
<1>2. QED
  BY <1>1, Invariant, PTL DEF Spec, RedisRouteLostOnlyIfStale

----------------------------------------------------------------------------
(* A socket filed under a user is the one the user is routed to, so half   *)
(* of each binding says it all.                                            *)
LEMMA MemBoundReverse ==
  /\ ReverseAgrees => MemBound = {b \in Sock \X Erp : socketToErp[NodeOf[b[1]]][b[1]] = b[2]}
  /\ ReverseAgrees' => MemBound' = {b \in Sock \X Erp : socketToErp'[NodeOf[b[1]]][b[1]] = b[2]}
<1>1. ASSUME ReverseAgrees, NEW s \in Sock, NEW e \in Erp, socketToErp[NodeOf[s]][s] = e
      PROVE  erpToSocket[NodeOf[s]][e] = s
  BY <1>1, ConstAssumption DEF ReverseAgrees
<1>2. ASSUME ReverseAgrees', NEW s \in Sock, NEW e \in Erp, socketToErp'[NodeOf[s]][s] = e
      PROVE  erpToSocket'[NodeOf[s]][e] = s
  BY <1>2, ConstAssumption DEF ReverseAgrees
<1>3. QED
  BY <1>1, <1>2 DEF MemBound

LEMMA RedisBoundReverse ==
  /\ RedisAgreesUnlessStale /\ ~staleExec
       => RedisBound = {b \in Sock \X Erp : connKey[b[1]] = b[2]}
  /\ RedisAgreesUnlessStale' /\ ~staleExec'
       => RedisBound' = {b \in Sock \X Erp : connKey'[b[1]] = b[2]}
<1>1. ASSUME RedisAgreesUnlessStale, ~staleExec, NEW s \in Sock, NEW e \in Erp, connKey[s] = e
      PROVE  userKey[e] = s
  BY <1>1, ConstAssumption DEF RedisAgreesUnlessStale
<1>2. ASSUME RedisAgreesUnlessStale', ~staleExec', NEW s \in Sock, NEW e \in Erp, connKey'[s] = e
      PROVE  userKey'[e] = s
  BY <1>2, ConstAssumption DEF RedisAgreesUnlessStale
<1>3. QED
  BY <1>1, <1>2 DEF RedisBound

(* Sockets only ever close.                                                *)
LEMMA ClosedGrows ==
  ASSUME IInv, [Next]_vars
  PROVE  Closed \subseteq Closed' /\ Closed' \in SUBSET Sock
<1>1. ASSUME NEW s \in Sock, sockState[s] = "closed" PROVE sockState'[s] = "closed"
  BY <1>1 DEF IInv, TypeOK, Next, Step, Connect, BindCheck, BindMem, BindGet, BindExec, Disconnect,
              UnbindMem, UnbindGet, UnbindExec, RedisFail, Crash, vars
<1>2. QED
  BY <1>1 DEF Closed

(* bind_user under the mutex is one Claim.  Whoever was filed under the    *)
(* user on this node is the socket the user was routed to; that socket     *)
(* loses its entry, under whichever of its client's users it is filed now. *)
LEMMA BindMemClaims ==
  ASSUME IInv, IInv', NEW p \in Proc, BindMem(p)
  PROVE  \E t \in Sock : MemDirectory!Claim(proc[p].sock, proc[p].erp, t)
<1> DEFINE n == NodeOf[proc[p].sock]
           s == proc[p].sock
           e == proc[p].erp
           old == erpToSocket[n][e]
           other == IF old = NoSock THEN s ELSE old
<1>1. /\ s \in Sock /\ n \in Node /\ NodeOf[s] = n /\ e \in Erp /\ e \in Accounts[s]
  BY WorkingHandler DEF IInv, BindMem, At
<1>2. /\ socketToErp' = [socketToErp EXCEPT ![n] =
           [t \in Sock |-> IF t = s THEN e ELSE IF t = old THEN NoErp
                                                ELSE socketToErp[n][t]]]
      /\ sockState' = sockState
  BY DEF BindMem, File, Home
<1> HIDE DEF n, s, e, old
<1>3. other \in Sock /\ NodeOf[other] = n /\ e \in Accounts[other]
  BY <1>1 DEF IInv, TypeOK, RoutesAreLocal, OnlyOwnAccounts, old, SockOrNone
<1>4. ASSUME NEW t \in Sock, t # s, NodeOf[t] = n, socketToErp[n][t] = e
      PROVE  t = old
  BY <1>1, <1>4, ConstAssumption DEF IInv, ReverseAgrees, old
<1>5. \A t \in Sock : t = old <=> t = other /\ old # NoSock
  BY ConstAssumption
<1>6. ASSUME NEW t \in Sock, NEW f \in Erp
      PROVE  socketToErp'[NodeOf[t]][t] = f <=>
               \/ t = s /\ f = e
               \/ /\ socketToErp[NodeOf[t]][t] = f
                  /\ t \notin {s, other}
                  /\ f = e => NodeOf[t] # NodeOf[s]
  <2>1. CASE NodeOf[t] # n
    BY <1>1, <1>2, <1>3, <2>1 DEF IInv, TypeOK
  <2>2. CASE NodeOf[t] = n
    BY <1>1, <1>2, <1>4, <1>5, <2>2, ConstAssumption DEF IInv, TypeOK
  <2>3. QED
    BY <2>1, <2>2
<1> HIDE DEF other
<1>7. MemBound = {b \in Sock \X Erp : socketToErp[NodeOf[b[1]]][b[1]] = b[2]}
  BY MemBoundReverse DEF IInv
<1>8. MemBound' = {b \in Sock \X Erp : socketToErp'[NodeOf[b[1]]][b[1]] = b[2]}
  BY MemBoundReverse DEF IInv
<1>9. MemBound' = {b \in MemBound : /\ b[1] \notin {s, other}
                                    /\ b[2] = e => NodeOf[b[1]] # NodeOf[s]}
                    \cup {<<s, e>>}
  BY <1>1, <1>6, <1>7, <1>8
<1>10. UNCHANGED Closed
  BY <1>2 DEF Closed
<1>11. MemDirectory!Claim(s, e, other)
  BY <1>1, <1>3, <1>9, <1>10 DEF MemDirectory!Claim
<1>12. QED
  BY <1>3, <1>11 DEF s, e

(* A step that only takes entries away, and only those of sockets that     *)
(* have closed, is a Close.                                                *)
LEMMA MemCloses ==
  ASSUME IInv, IInv', [Next]_vars,
         \A t \in Sock : \/ socketToErp'[NodeOf[t]][t] = socketToErp[NodeOf[t]][t]
                         \/ /\ socketToErp'[NodeOf[t]][t] = NoErp
                            /\ sockState'[t] = "closed" \/ socketToErp[NodeOf[t]][t] = NoErp
  PROVE  MemDirectory!Close
<1> USE ConstAssumption
<1>1. /\ MemBound = {b \in Sock \X Erp : socketToErp[NodeOf[b[1]]][b[1]] = b[2]}
      /\ MemBound' = {b \in Sock \X Erp : socketToErp'[NodeOf[b[1]]][b[1]] = b[2]}
  BY MemBoundReverse DEF IInv
<1>2. ASSUME NEW b \in MemBound' PROVE b \in MemBound
  BY <1>1, <1>2
<1>3. ASSUME NEW b \in MemBound \ MemBound' PROVE b[1] \in Closed'
  BY <1>1, <1>3 DEF Closed
<1>4. QED
  BY <1>2, <1>3, ClosedGrows DEF MemDirectory!Close

(* A disconnect under the mutex takes its own socket's binding.            *)
LEMMA UnbindMemCloses ==
  ASSUME IInv, IInv', NEW p \in Proc, UnbindMem(p)
  PROVE  MemDirectory!Close
<1> DEFINE n == NodeOf[proc[p].sock]
           s == proc[p].sock
<1>1. /\ s \in Sock /\ n \in Node /\ sockState[s] = "closed" /\ sockState' = sockState
      /\ socketToErp' = [socketToErp EXCEPT ![n] = [@ EXCEPT ![s] = NoErp]]
  BY UnbindMemEffect
<1>2. [Next]_vars
  BY DEF Next, Step
<1> HIDE DEF s
<1>3. \A t \in Sock : \/ socketToErp'[NodeOf[t]][t] = socketToErp[NodeOf[t]][t]
                      \/ /\ socketToErp'[NodeOf[t]][t] = NoErp
                         /\ sockState'[t] = "closed" \/ socketToErp[NodeOf[t]][t] = NoErp
  BY <1>1, ConstAssumption DEF IInv, TypeOK
<1>4. QED
  BY <1>2, <1>3, MemCloses

(* A crash closes the sockets of its node, and their bindings go.          *)
LEMMA CrashCloses ==
  ASSUME IInv, IInv', NEW n \in Node, Crash(n)
  PROVE  MemDirectory!Close
<1>1. [Next]_vars
  BY DEF Next
<1>2. ASSUME NEW t \in Sock
      PROVE  \/ socketToErp'[NodeOf[t]][t] = socketToErp[NodeOf[t]][t]
             \/ /\ socketToErp'[NodeOf[t]][t] = NoErp
                /\ sockState'[t] = "closed" \/ socketToErp[NodeOf[t]][t] = NoErp
  <2>1. CASE NodeOf[t] # n
    BY <2>1, ConstAssumption DEF IInv, TypeOK, Crash
  <2>2. CASE NodeOf[t] = n /\ sockState[t] = "new"
    <3>1. socketToErp[n][t] = NoErp
      BY <2>2, ConstAssumption DEF IInv, TypeOK, ReverseAgrees, RoutesAreLocal, ErpOrNone
    <3>2. QED
      BY <2>2, <3>1, ConstAssumption DEF IInv, TypeOK, Crash
  <2>3. CASE NodeOf[t] = n /\ sockState[t] # "new"
    BY <2>3, ConstAssumption DEF IInv, TypeOK, Crash
  <2>4. QED
    BY <2>1, <2>2, <2>3
<1>3. QED
  BY <1>1, <1>2, MemCloses

(* The maps of all nodes together implement one directory per node: every  *)
(* step of every interleaving is one Claim, one Close or a stutter, also   *)
(* when clients switch users and the handlers of a socket overlap.         *)
THEOREM MemoryRefines == Spec => MemoryIsADirectory
<1>1. Init => MemDirectory!Init
  BY ConstAssumption DEF Init, MemDirectory!Init, MemBound, Closed
<1>2. IInv /\ IInv' /\ [Next]_vars => [MemDirectory!Next]_<<MemBound, Closed>>
  <2>1. SUFFICES ASSUME IInv, IInv', [Next]_vars
                 PROVE  MemDirectory!Next \/ UNCHANGED <<MemBound, Closed>>
    OBVIOUS
  <2>2. CASE \E p \in Proc : BindMem(p)
    <3>1. PICK p \in Proc : BindMem(p)
      BY <2>2
    <3>2. proc[p].sock \in Sock /\ proc[p].erp \in Erp
      BY <2>1, <3>1, WorkingHandler DEF IInv, BindMem, At
    <3>3. PICK s \in Sock, e \in Erp : s = proc[p].sock /\ e = proc[p].erp
      BY <3>2
    <3>4. \E t \in Sock : MemDirectory!Claim(s, e, t)
      BY <2>1, <3>1, <3>3, BindMemClaims
    <3>5. QED
      BY <3>4 DEF MemDirectory!Next
  <2>3. CASE \E p \in Proc : UnbindMem(p)
    BY <2>1, <2>3, UnbindMemCloses DEF MemDirectory!Next
  <2>4. CASE \E n \in Node : Crash(n)
    BY <2>1, <2>4, CrashCloses DEF MemDirectory!Next
  <2>5. CASE UNCHANGED socketToErp
    BY <2>1, <2>5, MemCloses DEF MemDirectory!Next
  <2>6. QED
    BY <2>1, <2>2, <2>3, <2>4, <2>5
    DEF Next, vars, Step, Connect, BindCheck, BindGet, BindExec, Disconnect, UnbindGet,
        UnbindExec, RedisFail, maps
<1>3. QED
  BY <1>1, <1>2, Invariant, PTL DEF Spec, MemoryIsADirectory, MemDirectory!Spec

(* All sockets compete in Redis.                                           *)
LEMMA OneCluster ==
  \A s, t \in Sock : [r \in Sock |-> "cluster"][s] = [r \in Sock |-> "cluster"][t]
OBVIOUS

(* A fresh EXEC of Bind is one Claim: the socket it read is the only one   *)
(* whose conn key names the user, and loses that key whatever it names.    *)
LEMMA BindExecClaims ==
  ASSUME IInv, IInv', NEW p \in Proc, BindExec(p), ~staleExec'
  PROVE  \E t \in Sock : RedisDirectory!Claim(proc[p].sock, proc[p].erp, t)
<1> DEFINE s == proc[p].sock
           e == proc[p].erp
           old == proc[p].seen
           other == IF old = NoSock THEN s ELSE old
<1>1. s \in Sock /\ e \in Erp /\ e \in Accounts[s]
  BY WorkingHandler DEF IInv, BindExec, At
<1>2. /\ connKey' = [t \in Sock |-> IF t = s THEN e ELSE IF t = old THEN NoErp
                                                  ELSE connKey[t]]
      /\ ~staleExec /\ userKey[e] = old /\ sockState' = sockState
  BY DEF BindExec, File, IInv, TypeOK
<1> HIDE DEF s, e, old
<1>3. other \in Sock /\ e \in Accounts[other]
  BY <1>1, <1>2 DEF IInv, TypeOK, OnlyOwnAccounts, SockOrNone
<1>4. ASSUME NEW t \in Sock, connKey[t] = e
      PROVE  t = old
  BY <1>1, <1>2, <1>4, ConstAssumption DEF IInv, RedisAgreesUnlessStale
<1>5. \A t \in Sock : t = old <=> t = other /\ old # NoSock
  BY ConstAssumption
<1>6. ASSUME NEW t \in Sock, NEW f \in Erp
      PROVE  connKey'[t] = f <=>
               \/ t = s /\ f = e
               \/ connKey[t] = f /\ t \notin {s, other} /\ f # e
  BY <1>1, <1>2, <1>4, <1>5, ConstAssumption DEF IInv, TypeOK
<1> HIDE DEF other
<1>7. /\ RedisBound = {b \in Sock \X Erp : connKey[b[1]] = b[2]}
      /\ RedisBound' = {b \in Sock \X Erp : connKey'[b[1]] = b[2]}
  BY <1>2, RedisBoundReverse DEF IInv
<1>8. RedisBound' = {b \in RedisBound : b[1] \notin {s, other} /\ b[2] # e} \cup {<<s, e>>}
  BY <1>1, <1>6, <1>7
<1>9. {b \in RedisBound : b[1] \notin {s, other} /\ b[2] # e} =
        {b \in RedisBound : /\ b[1] \notin {s, other}
                            /\ b[2] = e => [r \in Sock |-> "cluster"][b[1]]
                                              # [r \in Sock |-> "cluster"][s]}
  BY <1>1, <1>7, OneCluster
<1>10. UNCHANGED Closed
  BY <1>2 DEF Closed
<1>11. RedisDirectory!Claim(s, e, other)
  BY <1>1, <1>3, <1>8, <1>9, <1>10, OneCluster DEF RedisDirectory!Claim
<1>12. QED
  BY <1>3, <1>11 DEF s, e

(* A fresh EXEC of UnbindBySocketID, or a step that leaves the conn keys   *)
(* alone, is a Close.                                                      *)
LEMMA RedisCloses ==
  ASSUME IInv, IInv', [Next]_vars, ~staleExec', ~staleExec,
         \A t \in Sock : \/ connKey'[t] = connKey[t]
                         \/ connKey'[t] = NoErp /\ sockState'[t] = "closed"
  PROVE  RedisDirectory!Close
<1> USE ConstAssumption
<1>1. /\ RedisBound = {b \in Sock \X Erp : connKey[b[1]] = b[2]}
      /\ RedisBound' = {b \in Sock \X Erp : connKey'[b[1]] = b[2]}
  BY RedisBoundReverse DEF IInv
<1>2. ASSUME NEW b \in RedisBound' PROVE b \in RedisBound
  BY <1>1, <1>2
<1>3. ASSUME NEW b \in RedisBound \ RedisBound' PROVE b[1] \in Closed'
  BY <1>1, <1>3 DEF Closed
<1>4. QED
  BY <1>2, <1>3, ClosedGrows DEF RedisDirectory!Close

LEMMA UnbindExecCloses ==
  ASSUME IInv, IInv', NEW p \in Proc, UnbindExec(p), ~staleExec'
  PROVE  RedisDirectory!Close
<1> DEFINE s == proc[p].sock
<1>1. s \in Sock /\ sockState[s] = "closed"
  BY DEF IInv, HandlersCarry, UnbindExec, At
<1>2. connKey' = [connKey EXCEPT ![s] = NoErp] /\ sockState' = sockState /\ ~staleExec
  BY DEF UnbindExec, Unfile
<1>3. [Next]_vars
  BY DEF Next, Step
<1> HIDE DEF s
<1>4. \A t \in Sock : \/ connKey'[t] = connKey[t]
                      \/ connKey'[t] = NoErp /\ sockState'[t] = "closed"
  BY <1>1, <1>2 DEF IInv, TypeOK
<1>5. QED
  BY <1>2, <1>3, <1>4, RedisCloses

(* Until an EXEC follows an outdated GET the keys in Redis implement one   *)
(* directory for the whole cluster, failed commands, restarts and clients  *)
(* that switch users included.                                             *)
THEOREM RedisRefines == Spec => RedisIsADirectory
<1>1. Init => RedisDirectory!Init
  BY ConstAssumption DEF Init, RedisDirectory!Init, RedisBound, Closed
<1>2. IInv /\ IInv' /\ [Next]_vars => [staleExec' \/ RedisDirectory!Next]_<<RedisBound, Closed>>
  <2>1. SUFFICES ASSUME IInv, IInv', [Next]_vars, ~staleExec'
                 PROVE  RedisDirectory!Next \/ UNCHANGED <<RedisBound, Closed>>
    OBVIOUS
  <2>2. CASE \E p \in Proc : BindExec(p)
    <3>1. PICK p \in Proc : BindExec(p)
      BY <2>2
    <3>2. proc[p].sock \in Sock /\ proc[p].erp \in Erp
      BY <2>1, <3>1, WorkingHandler DEF IInv, BindExec, At
    <3>3. PICK s \in Sock, e \in Erp : s = proc[p].sock /\ e = proc[p].erp
      BY <3>2
    <3>4. \E t \in Sock : RedisDirectory!Claim(s, e, t)
      BY <2>1, <3>1, <3>3, BindExecClaims
    <3>5. QED
      BY <3>4 DEF RedisDirectory!Next
  <2>3. CASE \E p \in Proc : UnbindExec(p)
    BY <2>1, <2>3, UnbindExecCloses DEF RedisDirectory!Next
  <2>4. CASE UNCHANGED <<connKey, staleExec>>
    BY <2>1, <2>4, RedisCloses DEF RedisDirectory!Next
  <2>5. QED
    BY <2>1, <2>2, <2>3, <2>4
    DEF Next, vars, Step, Connect, BindCheck, BindMem, BindGet, Disconnect, UnbindMem,
        UnbindGet, RedisFail, Crash, redis
<1>3. QED
  BY <1>1, <1>2, Invariant, PTL DEF Spec, RedisIsADirectory
============================================================================
