------------------------- MODULE SocketRoutingProofs ------------------------
(***************************************************************************)
(* Safety of SocketRouting for any nodes, sockets and messages.  Every     *)
(* step is a step of the registry or leaves it alone, so what is proved of *)
(* SocketRegistry holds here and is what the routing invariants rest on.   *)
(***************************************************************************)
EXTENDS SocketRouting, SocketRegistryProofs, SequenceTheorems

(* A socket that some look-up found has proved to be its message's         *)
(* addressee; the consumer's belongs to the first message of its queue.    *)
TargetsProven ==
  /\ \A m \in Msg : send[m].target # NoSock => To[m] \in Accounts[send[m].target]
  /\ \A n \in Node : consumer[n] # NoSock =>
       channel[n] # <<>> /\ To[Head(channel[n])] \in Accounts[consumer[n]]

(* As long as no EXEC was stale, the last socket Redis named is in Redis   *)
(* while it is open.                                                       *)
NewestInRedis ==
  \A e \in Erp :
    /\ userKey[e] # NoSock => newest[e] = userKey[e]
    /\ staleExec \/ newest[e] = NoSock \/ userKey[e] = newest[e] \/ sockState[newest[e]] = "closed"

(* The inductive invariant for who gets what.                              *)
AddressInv ==
  /\ IInv
  /\ RoutingTypeOK
  /\ TargetsProven
  /\ OnlyToAddressee
  /\ NewestInRedis
  /\ OfflineOnlyIfStale

----------------------------------------------------------------------------
(* A step is a step of the registry, or the registry stands still.         *)
LEMMA RegistryStep == [RoutingNext]_allVars => [Next]_vars
<1> SUFFICES ASSUME [RoutingNext]_allVars PROVE [Next]_vars
  OBVIOUS
<1>1. ASSUME Serve PROVE Next
  BY <1>1 DEF Serve, Next
<1>2. ASSUME NEW n \in Node, CrashAll(n) PROVE Next
  BY <1>2 DEF CrashAll, Next
<1>3. ASSUME NEW n \in Node, Consume(n) PROVE UNCHANGED vars
  BY <1>3 DEF Consume, Take, Deliver
<1>4. ASSUME NEW m \in Msg, Begin(m) \/ Route(m) PROVE UNCHANGED vars
  BY <1>4 DEF Begin, Route, SendToUser, NextRecipient, CheckFriend, ResolveLocal,
              ResolveRedis, EmitHere, Publish
<1>5. CASE UNCHANGED allVars
  BY <1>5 DEF allVars
<1>6. QED
  BY <1>1, <1>2, <1>3, <1>4, <1>5 DEF RoutingNext

(* Routing adds nothing to what the registry does: the composition         *)
(* implements the specification of the registry.                           *)
THEOREM RoutingKeepsRegistry == RoutingSpec => Spec
<1>1. RoutingInit => Init
  BY DEF RoutingInit
<1>2. QED
  BY <1>1, RegistryStep, PTL DEF RoutingSpec, Spec

----------------------------------------------------------------------------
(* The steps of a sender up to Publish change the state of one message,    *)
(* whose publication is still to come.                                     *)
LEMMA SenderTypes ==
  ASSUME IInv, RoutingTypeOK, NEW m \in Msg,
         Begin(m) \/ CheckFriend(m) \/ ResolveLocal(m) \/ ResolveRedis(m)
  PROVE  RoutingTypeOK'
<1> USE RoutingAssumption, ConstAssumption
<1>1. Here(m) \in Node /\ To[m] \in Erp
  BY DEF Here
<1>2. userKey[To[m]] \in SockOrNone /\ erpToSocket[Here(m)][To[m]] \in SockOrNone
  BY <1>1 DEF IInv, TypeOK
<1>3. UNCHANGED <<channel, consumer, emitted, newest>>
  BY DEF Begin, SendToUser, NextRecipient, CheckFriend, ResolveLocal, ResolveRedis, pubsub, history
<1>4. steady' \in [Msg -> SUBSET Sock]
  <2>1. CASE ResolveLocal(m)
    BY <2>1 DEF ResolveLocal, RoutingTypeOK
  <2>2. CASE Begin(m) \/ CheckFriend(m) \/ ResolveRedis(m)
    BY <2>2 DEF Begin, SendToUser, NextRecipient, CheckFriend, ResolveRedis, history, RoutingTypeOK
  <2>3. QED
    BY <2>1, <2>2
<1>5. /\ send' \in [Msg -> Sending]
      /\ \A k \in Msg : send'[k].pc \in {"emit", "publish"} => send'[k].target # NoSock
  <2>1. ASSUME NEW pc \in SendPC \ {"emit", "publish"}, SendGoto(m, pc) PROVE <1>5!1 /\ <1>5!2
    BY <2>1, ZenonT(40) DEF RoutingTypeOK, SendGoto, SendBecome, Sending
  <2>2. CASE Begin(m) \/ CheckFriend(m)
    BY <2>1, <2>2 DEF Begin, SendToUser, NextRecipient, CheckFriend, SendPC, Done
  <2>3. ASSUME NEW r \in Sending, SendBecome(m, r),
               r.pc \in {"emit", "publish"} => r.target # NoSock
        PROVE  <1>5!1 /\ <1>5!2
    BY <2>3 DEF RoutingTypeOK, SendBecome
  <2>4. CASE ResolveLocal(m)
    <3> DEFINE s == erpToSocket[Here(m)][To[m]]
               r == [send[m] EXCEPT !.target = s,
                                    !.pc = IF s = NoSock THEN "redis" ELSE "emit"]
    <3>1. SendBecome(m, r)
      BY <2>4 DEF ResolveLocal
    <3>2. r \in Sending /\ (r.pc \in {"emit", "publish"} => r.target # NoSock)
      BY <1>2, ZenonT(40) DEF RoutingTypeOK, Sending, SendPC, Done
    <3> HIDE DEF r
    <3>3. QED
      BY <3>1, <3>2, <2>3
  <2>5. CASE ResolveRedis(m)
    <3> DEFINE s == userKey[To[m]]
               found == [send[m] EXCEPT !.target = s, !.pc = "emit"]
               gone(b) == [send[m] EXCEPT !.pc = "offline", !.online = b]
    <3>1. \/ s # NoSock /\ SendBecome(m, found)
          \/ \E b \in BOOLEAN : SendBecome(m, gone(b))
          \/ SendGoto(m, "offline")
      BY <2>5 DEF ResolveRedis, Found
    <3>2. found \in Sending /\ found.target = s
      BY <1>2, ZenonT(40) DEF RoutingTypeOK, Sending, SendPC, Done
    <3>3. \A b \in BOOLEAN : gone(b) \in Sending /\ gone(b).pc = "offline"
      BY ZenonT(40) DEF RoutingTypeOK, Sending, SendPC, Done
    <3> HIDE DEF found, gone
    <3>4. QED
      BY <3>1, <3>2, <3>3, <2>1, <2>3 DEF SendPC, Done
  <2>6. QED
    BY <2>2, <2>4, <2>5
<1>6. QED
  BY <1>3, <1>4, <1>5 DEF RoutingTypeOK

(* An Emit keeps the types of what the sockets receive.                    *)
LEMMA EmitTypes ==
  ASSUME RoutingTypeOK, NEW m \in Msg, NEW s \in Sock, Emit(s, m)
  PROVE  emitted' \in [Sock -> Seq(Msg)]
BY AppendProperties DEF RoutingTypeOK, Emit

LEMMA EmitHereTypes ==
  ASSUME IInv, RoutingTypeOK, NEW m \in Msg, EmitHere(m)
  PROVE  RoutingTypeOK'
<1>1. UNCHANGED <<channel, consumer, newest, steady>>
  BY DEF EmitHere, pubsub, history
<1>2. PICK pc \in {"ok", "publish"} : SendGoto(m, pc)
  BY DEF EmitHere
<1>3. send[m].target # NoSock /\ send[m].target \in Sock
  BY DEF EmitHere, Sends, RoutingTypeOK, Sending, SockOrNone
<1>4. /\ send' \in [Msg -> Sending]
      /\ \A k \in Msg : send'[k].pc \in {"emit", "publish"} => send'[k].target # NoSock
  BY <1>2, <1>3, ZenonT(40) DEF SendGoto, SendBecome, RoutingTypeOK, Sending, SendPC, Done
<1>5. emitted' \in [Sock -> Seq(Msg)]
  BY <1>3, EmitTypes DEF EmitHere, RoutingTypeOK
<1>6. QED
  BY <1>1, <1>4, <1>5 DEF RoutingTypeOK

LEMMA PublishTypes ==
  ASSUME IInv, RoutingTypeOK, NEW m \in Msg, Publish(m)
  PROVE  RoutingTypeOK'
<1>1. UNCHANGED <<consumer, emitted, newest, steady>>
  BY DEF Publish, history
<1>2. PICK nodes \in SUBSET Node, pc \in {"published", "error"} :
        /\ channel' = [n \in Node |-> IF n \in nodes THEN Append(channel[n], m) ELSE channel[n]]
        /\ SendBecome(m, [send[m] EXCEPT !.pc = pc, !.nodes = nodes])
  BY DEF Publish, Enqueue
<1>3. /\ send' \in [Msg -> Sending]
      /\ \A k \in Msg : send'[k].pc \in {"emit", "publish"} => send'[k].target # NoSock
  BY <1>2, ZenonT(40) DEF RoutingTypeOK, SendBecome, Sending, SendPC, Done
<1>4. channel' \in [Node -> Seq(Msg)]
  BY <1>2, AppendProperties DEF RoutingTypeOK
<1>5. QED
  BY <1>1, <1>3, <1>4 DEF RoutingTypeOK

LEMMA ConsumeTypes ==
  ASSUME IInv, RoutingTypeOK, TargetsProven, NEW n \in Node, Consume(n)
  PROVE  RoutingTypeOK'
<1>1. UNCHANGED <<send, newest, steady>>
  BY DEF Consume, Take, Deliver, history
<1>2. channel[n] \in Seq(Msg) /\ channel[n] # <<>>
  BY DEF Consume, Take, Deliver, TargetsProven, RoutingTypeOK
<1>3. Head(channel[n]) \in Msg /\ Tail(channel[n]) \in Seq(Msg)
  BY <1>2, HeadTailProperties
<1>4. channel' \in [Node -> Seq(Msg)]
  BY <1>3 DEF Consume, Take, Deliver, RoutingTypeOK
<1>5. consumer' \in [Node -> SockOrNone]
  <2>1. erpToSocket[n][To[Head(channel[n])]] \in SockOrNone
    BY <1>3, RoutingAssumption DEF IInv, TypeOK
  <2>2. QED
    BY <2>1 DEF Consume, Take, LookUp, Deliver, RoutingTypeOK, SockOrNone
<1>6. emitted' \in [Sock -> Seq(Msg)]
  <2>1. CASE Take(n)
    BY <2>1 DEF Take, RoutingTypeOK
  <2>2. CASE Deliver(n)
    <3>1. consumer[n] \in Sock
      BY <2>2 DEF Deliver, RoutingTypeOK, SockOrNone
    <3>2. QED
      BY <2>2, <3>1, <1>3, EmitTypes DEF Deliver, RoutingTypeOK
  <2>3. QED
    BY <2>1, <2>2 DEF Consume
<1>7. QED
  BY <1>1, <1>4, <1>5, <1>6 DEF RoutingTypeOK

LEMMA WatchTypes ==
  ASSUME TypeOK', RoutingTypeOK, Watch
  PROVE  newest' \in [Erp -> SockOrNone] /\ steady' \in [Msg -> SUBSET Sock]
BY DEF Watch, TypeOK, RoutingTypeOK

LEMMA CrashTypes ==
  ASSUME IInv, RoutingTypeOK, TypeOK', NEW n \in Node, CrashAll(n)
  PROVE  RoutingTypeOK'
<1>1. newest' \in [Erp -> SockOrNone] /\ steady' \in [Msg -> SUBSET Sock]
  BY WatchTypes DEF CrashAll
<1>2. /\ send' \in [Msg -> Sending]
      /\ \A k \in Msg : send'[k].pc \in {"emit", "publish"} => send'[k].target # NoSock
  BY ZenonT(40) DEF CrashAll, RoutingTypeOK, Sending, SendPC, Done
<1>3. channel' \in [Node -> Seq(Msg)] /\ consumer' \in [Node -> SockOrNone]
  BY EmptySeq DEF CrashAll, RoutingTypeOK, SockOrNone
<1>4. UNCHANGED emitted
  BY DEF CrashAll
<1>5. QED
  BY <1>1, <1>2, <1>3, <1>4 DEF RoutingTypeOK

LEMMA RoutingTypes ==
  ASSUME AddressInv, [RoutingNext]_allVars
  PROVE  IInv' /\ RoutingTypeOK'
<1> USE DEF AddressInv
<1>1. IInv'
  BY RegistryStep, NextIInv
<1>2. TypeOK'
  BY <1>1 DEF IInv
<1>3. CASE Serve
  BY <1>1, <1>2, <1>3, WatchTypes DEF Serve, routing, RoutingTypeOK
<1>4. ASSUME NEW n \in Node, CrashAll(n) \/ Consume(n) PROVE RoutingTypeOK'
  BY <1>2, <1>4, CrashTypes, ConsumeTypes
<1>5. ASSUME NEW m \in Msg, Begin(m) \/ Route(m) PROVE RoutingTypeOK'
  BY <1>5, SenderTypes, EmitHereTypes, PublishTypes DEF Route
<1>6. CASE UNCHANGED allVars
  BY <1>1, <1>6 DEF allVars, routing, history, RoutingTypeOK
<1>7. QED
  BY <1>1, <1>3, <1>4, <1>5, <1>6 DEF RoutingNext

----------------------------------------------------------------------------
(* What a look-up finds has proved to be the addressee (OnlyOwnAccounts).  *)
LEMMA LookedUpProven ==
  ASSUME IInv, NEW m \in Msg, NEW n \in Node
  PROVE  /\ erpToSocket[n][To[m]] # NoSock => To[m] \in Accounts[erpToSocket[n][To[m]]]
         /\ userKey[To[m]] # NoSock => To[m] \in Accounts[userKey[To[m]]]
BY RoutingAssumption DEF IInv, OnlyOwnAccounts

(* No step changes the target of a message but its look-ups.               *)
LEMMA SendTargets ==
  ASSUME AddressInv, [RoutingNext]_allVars, NEW m \in Msg, send'[m].target # NoSock
  PROVE  To[m] \in Accounts[send'[m].target]
<1> USE DEF AddressInv, RoutingTypeOK, TargetsProven
<1>1. ASSUME send'[m].target = send[m].target PROVE To[m] \in Accounts[send'[m].target]
  BY <1>1
<1>2. CASE Serve
  BY <1>1, <1>2 DEF Serve, routing
<1>3. ASSUME NEW n \in Node, CrashAll(n) PROVE send'[m].target = send[m].target
  BY <1>3 DEF CrashAll, Sending
<1>4. ASSUME NEW n \in Node, Consume(n) PROVE UNCHANGED send
  BY <1>4 DEF Consume, Take, Deliver
<1>5. ASSUME NEW k \in Msg, Begin(k) \/ CheckFriend(k) \/ EmitHere(k) \/ Publish(k)
      PROVE  send'[m].target = send[m].target
  <2>1. ASSUME NEW r, SendBecome(k, r), r.target = send[k].target
        PROVE  send'[m].target = send[m].target
    BY <2>1 DEF SendBecome
  <2>2. \A pc : [send[k] EXCEPT !.pc = pc].target = send[k].target
    BY DEF Sending
  <2>3. CASE Begin(k) \/ CheckFriend(k) \/ EmitHere(k)
    <3>1. PICK pc : SendGoto(k, pc)
      BY <2>3 DEF Begin, SendToUser, NextRecipient, CheckFriend, EmitHere
    <3>2. SendBecome(k, [send[k] EXCEPT !.pc = pc])
      BY <3>1 DEF SendGoto
    <3>3. [send[k] EXCEPT !.pc = pc].target = send[k].target
      BY <2>2
    <3>4. QED
      BY <3>2, <3>3, <2>1
  <2>4. CASE Publish(k)
    <3>1. PICK nodes \in SUBSET Node, pc \in {"published", "error"} :
            SendBecome(k, [send[k] EXCEPT !.pc = pc, !.nodes = nodes])
      BY <2>4 DEF Publish
    <3>2. [send[k] EXCEPT !.pc = pc, !.nodes = nodes].target = send[k].target
      BY DEF Sending
    <3>3. QED
      BY <3>1, <3>2, <2>1
  <2>5. QED
    BY <1>5, <2>3, <2>4
<1>6. ASSUME NEW k \in Msg, ResolveLocal(k) PROVE To[m] \in Accounts[send'[m].target]
  <2>1. Here(k) \in Node
    BY RoutingAssumption, ConstAssumption DEF Here
  <2>2. CASE k = m
    BY <1>6, <2>1, <2>2, LookedUpProven DEF ResolveLocal, SendBecome, Sending
  <2>3. CASE k # m
    BY <1>6, <2>3 DEF ResolveLocal, SendBecome
  <2>4. QED
    BY <2>2, <2>3
<1>7. ASSUME NEW k \in Msg, ResolveRedis(k) PROVE To[m] \in Accounts[send'[m].target]
  <2>1. send'[m].target \in {send[m].target, userKey[To[m]]}
    <3> DEFINE Goal == send'[m].target \in {send[m].target, userKey[To[m]]}
    <3>1. ASSUME NEW r, SendBecome(k, r), r.target \in {send[k].target, userKey[To[k]]}
          PROVE  Goal
      BY <3>1 DEF SendBecome
    <3> HIDE DEF Goal
    <3>2. ASSUME SendBecome(k, [send[k] EXCEPT !.target = userKey[To[k]], !.pc = "emit"])
          PROVE  Goal
      <4>1. [send[k] EXCEPT !.target = userKey[To[k]], !.pc = "emit"].target = userKey[To[k]]
        BY DEF Sending
      <4>2. QED
        BY <4>1, <3>1, <3>2
    <3>3. ASSUME NEW b, SendBecome(k, [send[k] EXCEPT !.pc = "offline", !.online = b])
          PROVE  Goal
      <4>1. [send[k] EXCEPT !.pc = "offline", !.online = b].target = send[k].target
        BY DEF Sending
      <4>2. QED
        BY <4>1, <3>1, <3>3
    <3>4. ASSUME SendGoto(k, "offline") PROVE Goal
      <4>1. [send[k] EXCEPT !.pc = "offline"].target = send[k].target
        BY DEF Sending
      <4>2. QED
        BY <4>1, <3>1, <3>4 DEF SendGoto
    <3>5. Goal
      BY <1>7, <3>2, <3>3, <3>4 DEF ResolveRedis
    <3> USE DEF Goal
    <3>6. QED
      BY <3>5
  <2>2. NodeOf[From[m]] \in Node
    BY RoutingAssumption, ConstAssumption
  <2>3. QED
    BY <2>1, <2>2, LookedUpProven
<1>8. CASE UNCHANGED allVars
  BY <1>8 DEF allVars, routing
<1>9. QED
  BY <1>1, <1>2, <1>3, <1>4, <1>5, <1>6, <1>7, <1>8 DEF RoutingNext, Route

(* A publication joins a queue at its end, so the first message and what   *)
(* the consumer found for it stay together.                                *)
LEMMA ConsumerTargets ==
  ASSUME AddressInv, [RoutingNext]_allVars, NEW n \in Node, consumer'[n] # NoSock
  PROVE  channel'[n] # <<>> /\ To[Head(channel'[n])] \in Accounts[consumer'[n]]
<1> USE DEF AddressInv, RoutingTypeOK, TargetsProven
<1> DEFINE Goal == channel'[n] # <<>> /\ To[Head(channel'[n])] \in Accounts[consumer'[n]]
<1>1. ASSUME UNCHANGED <<channel[n], consumer[n]>> PROVE Goal
  BY <1>1
<1>2. CASE Serve
  BY <1>1, <1>2 DEF Serve, routing
<1>3. ASSUME NEW k \in Node, CrashAll(k) PROVE Goal
  BY <1>1, <1>3 DEF CrashAll
<1>4. ASSUME NEW k \in Node, Take(k) PROVE Goal
  <2>1. CASE k # n
    BY <1>1, <1>4, <2>1 DEF Take
  <2>2. CASE k = n
    <3>1. channel[n] # <<>> /\ Head(channel[n]) \in Msg
      BY <1>4, <2>2, HeadTailProperties DEF Take
    <3>2. consumer'[n] = erpToSocket[n][To[Head(channel[n])]] /\ channel' = channel
      BY <1>4, <2>2 DEF Take, LookUp
    <3>3. QED
      BY <3>1, <3>2, LookedUpProven
  <2>3. QED
    BY <2>1, <2>2
<1>5. ASSUME NEW k \in Node, Deliver(k) PROVE Goal
  BY <1>1, <1>5 DEF Deliver
<1>6. ASSUME NEW m \in Msg, Publish(m) PROVE Goal
  <2>1. consumer[n] # NoSock
    BY <1>6 DEF Publish
  <2>2. channel'[n] \in {channel[n], Append(channel[n], m)}
    BY <1>6 DEF Publish, Enqueue
  <2>3. Append(channel[n], m) # <<>> /\ Head(Append(channel[n], m)) = Head(channel[n])
    BY <2>1, AppendProperties, HeadTailAppend
  <2>4. QED
    BY <1>6, <2>1, <2>2, <2>3 DEF Publish
<1>7. ASSUME NEW m \in Msg, Begin(m) \/ CheckFriend(m) \/ ResolveLocal(m) \/ ResolveRedis(m)
                            \/ EmitHere(m)
      PROVE  UNCHANGED <<channel, consumer>>
  BY <1>7 DEF Begin, SendToUser, NextRecipient, CheckFriend, ResolveLocal, ResolveRedis,
              EmitHere, pubsub
<1>8. CASE UNCHANGED allVars
  BY <1>1, <1>8 DEF allVars, routing
<1>9. QED
  BY <1>1, <1>2, <1>3, <1>4, <1>5, <1>6, <1>7, <1>8 DEF RoutingNext, Route, Consume

(* What an Emit adds to what the sockets have received.                    *)
LEMMA EmitReceived ==
  ASSUME RoutingTypeOK, NEW m \in Msg, NEW t \in Sock, Emit(t, m), NEW s \in Sock
  PROVE  Received(s)' = IF s = t THEN Received(s) \cup {m} ELSE Received(s)
<1>1. CASE s # t
  BY <1>1 DEF Emit, RoutingTypeOK, Received
<1>2. CASE s = t
  <2> DEFINE q == emitted[s]
  <2>1. q \in Seq(Msg) /\ emitted'[s] = Append(q, m)
    BY <1>2 DEF Emit, RoutingTypeOK
  <2>2. /\ DOMAIN q = 1 .. Len(q) /\ DOMAIN Append(q, m) = 1 .. Len(q) + 1
        /\ Len(q) \in Nat
        /\ \A i \in 1 .. Len(q) : Append(q, m)[i] = q[i]
        /\ Append(q, m)[Len(q) + 1] = m
    BY <2>1, AppendProperties, LenProperties
  <2>3. Received(s)' = {emitted'[s][i] : i \in 1 .. Len(q) + 1}
    BY <2>1, <2>2 DEF Received
  <2>4. Received(s) = {q[i] : i \in 1 .. Len(q)}
    BY <2>2 DEF Received
  <2> HIDE DEF q
  <2>5. QED
    BY <1>2, <2>1, <2>2, <2>3, <2>4
<1>3. QED
  BY <1>1, <1>2

(* A step emits nothing, or a sender's message on a socket of its node, or *)
(* a consumer its first on one of its own.                                 *)
LEMMA EmitStep ==
  ASSUME RoutingTypeOK, [RoutingNext]_allVars
  PROVE  \/ UNCHANGED emitted
         \/ \E m \in Msg : /\ EmitHere(m) /\ Connected(Here(m), send[m].target)
                           /\ Emit(send[m].target, m)
         \/ \E n \in Node : /\ Deliver(n) /\ Connected(n, consumer[n])
                            /\ Emit(consumer[n], Head(channel[n]))
<1>1. ASSUME NEW n \in Node, CrashAll(n) \/ Take(n) PROVE UNCHANGED emitted
  BY <1>1 DEF CrashAll, Take
<1>2. ASSUME NEW m \in Msg, Begin(m) \/ CheckFriend(m) \/ ResolveLocal(m) \/ ResolveRedis(m)
                            \/ Publish(m)
      PROVE  UNCHANGED emitted
  BY <1>2 DEF Begin, SendToUser, NextRecipient, CheckFriend, ResolveLocal, ResolveRedis, Publish
<1>3. CASE Serve \/ UNCHANGED allVars
  BY <1>3 DEF Serve, allVars, routing
<1>4. ASSUME NEW m \in Msg, EmitHere(m) 
      PROVE  \/ UNCHANGED emitted
             \/ Connected(Here(m), send[m].target) /\ Emit(send[m].target, m)
  BY <1>4 DEF EmitHere
<1>5. ASSUME NEW n \in Node, Deliver(n) 
      PROVE  \/ UNCHANGED emitted
             \/ Connected(n, consumer[n]) /\ Emit(consumer[n], Head(channel[n]))
  BY <1>5 DEF Deliver
<1>6. QED
  BY <1>1, <1>2, <1>3, <1>4, <1>5 DEF RoutingNext, Route, Consume

(* Whatever is emitted goes to a socket that some look-up found.           *)
LEMMA EmitsToAddressee ==
  ASSUME AddressInv, [RoutingNext]_allVars
  PROVE  OnlyToAddressee'
<1> SUFFICES ASSUME NEW s \in Sock, NEW x \in Received(s)' PROVE To[x] \in Accounts[s]
  BY DEF OnlyToAddressee
<1> USE DEF AddressInv
<1>1. ASSUME NEW m \in Msg, NEW t \in Sock, Emit(t, m), To[m] \in Accounts[t]
      PROVE  To[x] \in Accounts[s]
  BY <1>1, EmitReceived DEF OnlyToAddressee
<1>2. CASE UNCHANGED emitted
  BY <1>2 DEF OnlyToAddressee, Received
<1>3. ASSUME NEW m \in Msg, Connected(Here(m), send[m].target), Emit(send[m].target, m)
      PROVE  To[x] \in Accounts[s]
  BY <1>1, <1>3 DEF Connected, TargetsProven, RoutingTypeOK, Sending, SockOrNone
<1>4. ASSUME NEW n \in Node, Connected(n, consumer[n]), Emit(consumer[n], Head(channel[n]))
      PROVE  To[x] \in Accounts[s]
  <2>1. consumer[n] \in Sock /\ channel[n] \in Seq(Msg) /\ channel[n] # <<>>
        /\ To[Head(channel[n])] \in Accounts[consumer[n]]
    BY <1>4 DEF Connected, TargetsProven, RoutingTypeOK, SockOrNone
  <2>2. Head(channel[n]) \in Msg
    BY <2>1, HeadTailProperties
  <2>3. QED
    BY <1>1, <1>4, <2>1, <2>2
<1>5. QED
  BY <1>2, <1>3, <1>4, EmitStep

----------------------------------------------------------------------------
(* Closed sockets stay closed, and a stale EXEC stays on record.           *)
LEMMA HistoryStays ==
  ASSUME IInv, [Next]_vars
  PROVE  /\ staleExec => staleExec'
         /\ \A s \in Sock : sockState[s] = "closed" => sockState'[s] = "closed"
<1> USE DEF IInv, TypeOK
<1>1. ASSUME NEW s \in Sock, Connect(s)
      PROVE  UNCHANGED staleExec /\ sockState' = [sockState EXCEPT ![s] = "open"]
             /\ sockState[s] = "new"
  BY <1>1 DEF Connect, redis
<1>2. ASSUME NEW p \in Proc, NEW s \in Sock, Disconnect(p, s)
      PROVE  UNCHANGED staleExec /\ sockState' = [sockState EXCEPT ![s] = "closed"]
  BY <1>2 DEF Disconnect, redis
<1>3. ASSUME NEW p \in Proc, Step(p) PROVE UNCHANGED sockState /\ (staleExec => staleExec')
  BY <1>3 DEF Step, BindMem, BindGet, BindExec, UnbindMem, UnbindGet, UnbindExec, RedisFail, redis
<1>4. ASSUME NEW p \in Proc, NEW s \in Sock, NEW e \in Erp, NEW h \in Accounts[s] \cup {NoErp},
             BindCheck(p, s, e, h)
      PROVE  UNCHANGED <<sockState, staleExec>>
  BY <1>4 DEF BindCheck, redis
<1>5. ASSUME NEW n \in Node, Crash(n)
      PROVE  /\ UNCHANGED staleExec
             /\ \A s \in Sock : sockState[s] = "closed" => sockState'[s] = "closed"
  BY <1>5 DEF Crash, redis
<1>6. CASE UNCHANGED vars
  BY <1>6 DEF vars
<1>7. QED
  BY <1>1, <1>2, <1>3, <1>4, <1>5, <1>6 DEF Next

(* Redis forgets a user's newest socket only once it is closed, or by a    *)
(* stale EXEC (RedisRouteStep).                                            *)
LEMMA NewestStays ==
  ASSUME AddressInv, [RoutingNext]_allVars
  PROVE  NewestInRedis'
<1> USE DEF AddressInv
<1>1. ASSUME Next, Watch PROVE NewestInRedis'
  <2> SUFFICES ASSUME NEW e \in Erp
      PROVE  /\ userKey'[e] # NoSock => newest'[e] = userKey'[e]
             /\ \/ staleExec' \/ newest'[e] = NoSock \/ userKey'[e] = newest'[e]
                \/ sockState'[newest'[e]] = "closed"
    BY DEF NewestInRedis
  <2>1. newest'[e] = IF userKey'[e] # NoSock THEN userKey'[e] ELSE newest[e]
    BY <1>1 DEF Watch
  <2>2. CASE userKey'[e] # NoSock
    BY <2>1, <2>2
  <2>3. CASE userKey'[e] = NoSock /\ userKey[e] # NoSock
    BY <1>1, <2>1, <2>3, RedisRouteStep DEF NewestInRedis
  <2>4. CASE userKey'[e] = NoSock /\ userKey[e] = NoSock
    <3>1. newest[e] \in Sock \cup {NoSock}
      BY DEF RoutingTypeOK, SockOrNone
    <3>2. QED
      BY <1>1, <2>1, <2>4, <3>1, HistoryStays DEF NewestInRedis
  <2>5. QED
    BY <2>2, <2>3, <2>4
<1>2. CASE Serve
  BY <1>1, <1>2 DEF Serve, Next
<1>3. ASSUME NEW n \in Node, CrashAll(n) PROVE NewestInRedis'
  BY <1>1, <1>3 DEF CrashAll, Next
<1>4. ASSUME UNCHANGED <<userKey, newest, staleExec, sockState>> PROVE NewestInRedis'
  BY <1>4 DEF NewestInRedis
<1>5. ASSUME NEW n \in Node, Consume(n) PROVE UNCHANGED <<userKey, newest, staleExec, sockState>>
  BY <1>5 DEF Consume, Take, Deliver, vars, history
<1>6. ASSUME NEW m \in Msg, Begin(m) \/ Route(m)
      PROVE  UNCHANGED <<userKey, newest, staleExec, sockState>>
  BY <1>6 DEF Begin, Route, SendToUser, NextRecipient, CheckFriend, ResolveLocal,
              ResolveRedis, EmitHere, Publish, vars, history
<1>7. CASE UNCHANGED allVars
  BY <1>4, <1>7 DEF allVars, vars, history
<1>8. QED
  BY <1>2, <1>3, <1>4, <1>5, <1>6, <1>7 DEF RoutingNext

(* A user is called offline when Redis has no key of his; then his newest  *)
(* socket is closed, or some EXEC was stale.                               *)
LEMMA OfflineStep ==
  ASSUME AddressInv, [RoutingNext]_allVars
  PROVE  OfflineOnlyIfStale'
<1> USE DEF AddressInv
<1> SUFFICES ASSUME NEW m \in Msg, send'[m].online PROVE staleExec'
  BY DEF OfflineOnlyIfStale
<1>1. staleExec => staleExec'
  BY RegistryStep, HistoryStays
<1>2. ASSUME send'[m].online = send[m].online PROVE staleExec'
  BY <1>1, <1>2 DEF OfflineOnlyIfStale
<1>3. ASSUME NEW k \in Msg, NEW r, SendBecome(k, r), r.online = send[k].online
      PROVE  staleExec'
  BY <1>2, <1>3 DEF SendBecome, RoutingTypeOK
<1>4. ASSUME NEW k \in Msg, NEW pc, SendGoto(k, pc) PROVE staleExec'
  <2>1. [send[k] EXCEPT !.pc = pc].online = send[k].online
    BY DEF RoutingTypeOK, Sending
  <2>2. QED
    BY <1>3, <1>4, <2>1 DEF SendGoto
<1>5. CASE Serve
  BY <1>2, <1>5 DEF Serve, routing
<1>6. ASSUME NEW n \in Node, CrashAll(n) PROVE send'[m].online = send[m].online
  BY <1>6 DEF CrashAll, RoutingTypeOK, Sending
<1>7. ASSUME NEW n \in Node, Consume(n) PROVE UNCHANGED send
  BY <1>7 DEF Consume, Take, Deliver
<1>8. ASSUME NEW k \in Msg, Begin(k) \/ CheckFriend(k) \/ EmitHere(k) PROVE staleExec'
  <2>1. PICK pc : SendGoto(k, pc)
    BY <1>8 DEF Begin, SendToUser, NextRecipient, CheckFriend, EmitHere
  <2>2. QED
    BY <1>4, <2>1
<1>9. ASSUME NEW k \in Msg, ResolveLocal(k) PROVE staleExec'
  <2> DEFINE r(s, pc) == [send[k] EXCEPT !.target = s, !.pc = pc]
  <2>1. PICK s, pc : SendBecome(k, r(s, pc))
    BY <1>9 DEF ResolveLocal
  <2>2. r(s, pc).online = send[k].online
    BY DEF RoutingTypeOK, Sending
  <2> HIDE DEF r
  <2>3. QED
    BY <1>3, <2>1, <2>2
<1>10. ASSUME NEW k \in Msg, Publish(k) PROVE staleExec'
  <2> DEFINE r(pc, nodes) == [send[k] EXCEPT !.pc = pc, !.nodes = nodes]
  <2>1. PICK pc, nodes : SendBecome(k, r(pc, nodes))
    BY <1>10 DEF Publish
  <2>2. r(pc, nodes).online = send[k].online
    BY DEF RoutingTypeOK, Sending
  <2> HIDE DEF r
  <2>3. QED
    BY <1>3, <2>1, <2>2
<1>11. ASSUME NEW k \in Msg, ResolveRedis(k) PROVE staleExec'
  <2> DEFINE found == [send[k] EXCEPT !.target = userKey[To[k]], !.pc = "emit"]
             new == newest[To[k]]
             isOpen == new # NoSock /\ sockState[new] = "open"
             gone == [send[k] EXCEPT !.pc = "offline", !.online = isOpen]
  <2>1. ASSUME SendBecome(k, found) PROVE staleExec'
    <3>1. found.online = send[k].online
      BY DEF RoutingTypeOK, Sending
    <3> HIDE DEF found
    <3>2. QED
      BY <1>3, <2>1, <3>1
  <2>2. ASSUME userKey[To[k]] = NoSock, SendBecome(k, gone) PROVE staleExec'
    <3>1. isOpen => staleExec
      BY <2>2, RoutingAssumption DEF NewestInRedis
    <3>2. gone.online = isOpen
      BY DEF RoutingTypeOK, Sending
    <3> HIDE DEF gone, isOpen
    <3>3. send'[m].online = IF m = k THEN isOpen ELSE send[m].online
      BY <2>2, <3>2 DEF SendBecome, RoutingTypeOK
    <3>4. QED
      BY <1>1, <1>2, <3>1, <3>3
  <2>3. ASSUME SendGoto(k, "offline") PROVE staleExec'
    BY <1>4, <2>3
  <2>4. QED
    BY <1>11, <2>1, <2>2, <2>3 DEF ResolveRedis, Found
<1>12. CASE UNCHANGED allVars
  BY <1>2, <1>12 DEF allVars, routing
<1>13. QED
  BY <1>2, <1>5, <1>6, <1>7, <1>8, <1>9, <1>10, <1>11, <1>12 DEF RoutingNext, Route

----------------------------------------------------------------------------
LEMMA RoutingInitInv == RoutingInit => AddressInv
<1> SUFFICES ASSUME RoutingInit PROVE AddressInv
  OBVIOUS
<1> USE RoutingAssumption, ConstAssumption DEF RoutingInit, RoutingStart
<1>1. IInv
  BY InitIInv
<1>2. RoutingTypeOK
  BY EmptySeq DEF RoutingTypeOK, Sending, SendPC, Done, SockOrNone
<1>3. TargetsProven
  BY DEF TargetsProven
<1>4. OnlyToAddressee
  BY DEF OnlyToAddressee, Received
<1>5. NewestInRedis
  BY DEF NewestInRedis, Init
<1>6. OfflineOnlyIfStale
  BY DEF OfflineOnlyIfStale
<1>7. QED
  BY <1>1, <1>2, <1>3, <1>4, <1>5, <1>6 DEF AddressInv

(* The invariant holds in every reachable state.                           *)
THEOREM AddressInvariant == RoutingSpec => []AddressInv
<1>1. AddressInv /\ [RoutingNext]_allVars => AddressInv'
  <2> SUFFICES ASSUME AddressInv, [RoutingNext]_allVars PROVE AddressInv'
    OBVIOUS
  <2>1. IInv' /\ RoutingTypeOK'
    BY RoutingTypes
  <2>2. TargetsProven'
    BY SendTargets, ConsumerTargets DEF TargetsProven
  <2>3. OnlyToAddressee' /\ NewestInRedis' /\ OfflineOnlyIfStale'
    BY EmitsToAddressee, NewestStays, OfflineStep
  <2>4. QED
    BY <2>1, <2>2, <2>3 DEF AddressInv
<1>2. QED
  BY <1>1, RoutingInitInv, PTL DEF RoutingSpec

(* Every routing variable keeps its type.                                  *)
THEOREM RoutingTypeCorrect == RoutingSpec => []RoutingTypeOK
BY AddressInvariant, PTL DEF AddressInv

(* Nobody but a proven addressee ever receives a message, whatever binds,  *)
(* disconnects and crashes come between the look-ups and the Emit.         *)
THEOREM NoStrayMessage == RoutingSpec => []OnlyToAddressee
BY AddressInvariant, PTL DEF AddressInv

(* The answer "target user offline" is right about the user's newest       *)
(* binding unless Redis failed or an EXEC was stale.                       *)
THEOREM OfflineNeedsStale == RoutingSpec => []OfflineOnlyIfStale
BY AddressInvariant, PTL DEF AddressInv

----------------------------------------------------------------------------
(* Message m waits in the queue of node n.                                 *)
Queued(n, m) == \E i \in 1 .. Len(channel[n]) : channel[n][i] = m

(* Publications are what the queues hold, each once, and what their nodes  *)
(* have not emitted; what was emitted was emitted by the sender's node, or *)
(* was published to the node that did.                                     *)
OnceInv ==
  /\ \A m \in Msg : send[m].nodes # {} => send[m].pc \in {"published", "error"}
  /\ \A n \in Node : \A i, j \in 1 .. Len(channel[n]) :
       channel[n][i] = channel[n][j] => i = j
  /\ \A n \in Node, m \in Msg : Queued(n, m) =>
       n \in send[m].nodes /\ \A s \in Sock : NodeOf[s] = n => m \notin Received(s)
  /\ \A s \in Sock : \A m \in Received(s) :
       \/ send[m].pc = "ok" /\ send[m].nodes = {} /\ NodeOf[s] = Here(m)
       \/ NodeOf[s] \in send[m].nodes
  /\ EmittedOnce

(* What Publish does.                                                      *)
LEMMA PublishEffect ==
  ASSUME RoutingTypeOK, NEW m \in Msg, Publish(m)
  PROVE  /\ send[m].pc = "publish" /\ send'[m].pc \in {"published", "error"}
         /\ send'[m].nodes \in SUBSET Node
         /\ \A k \in Msg \ {m} : send'[k] = send[k]
         /\ \A n \in Node : channel'[n] = IF n \in send'[m].nodes THEN Append(channel[n], m)
                                          ELSE channel[n]
         /\ UNCHANGED <<vars, consumer, emitted, newest, steady>>
<1> DEFINE r(pc, nodes) == [send[m] EXCEPT !.pc = pc, !.nodes = nodes]
<1>1. PICK nodes \in SUBSET Node, pc \in {"published", "error"} :
        /\ channel' = [n \in Node |-> IF n \in nodes THEN Append(channel[n], m) ELSE channel[n]]
        /\ SendBecome(m, r(pc, nodes))
  BY DEF Publish, Enqueue
<1>2. r(pc, nodes).pc = pc /\ r(pc, nodes).nodes = nodes
  BY DEF RoutingTypeOK, Sending
<1> HIDE DEF r
<1>3. send'[m] = r(pc, nodes) /\ \A k \in Msg \ {m} : send'[k] = send[k]
  BY <1>1 DEF SendBecome, RoutingTypeOK
<1>4. QED
  BY <1>1, <1>2, <1>3 DEF Publish, Sends, history

(* A message that was answered keeps its answer; only Publish publishes.   *)
LEMMA SendStep ==
  ASSUME RoutingTypeOK, [RoutingNext]_allVars, NEW m \in Msg
  PROVE  /\ send[m].pc \in Done => send'[m] = send[m]
         /\ Publish(m) \/ send'[m].nodes = send[m].nodes
<1> DEFINE Goal == /\ send[m].pc \in Done => send'[m] = send[m]
                   /\ Publish(m) \/ send'[m].nodes = send[m].nodes
<1>1. ASSUME send'[m] = send[m] PROVE Goal
  BY <1>1
<1>2. ASSUME NEW k \in Msg, NEW r, SendBecome(k, r), r.nodes = send[k].nodes,
             send[k].pc \notin Done
      PROVE  Goal
  BY <1>2 DEF SendBecome, RoutingTypeOK
<1>3. ASSUME NEW k \in Msg, NEW pc, SendGoto(k, pc), send[k].pc \notin Done PROVE Goal
  <2>1. [send[k] EXCEPT !.pc = pc].nodes = send[k].nodes
    BY DEF RoutingTypeOK, Sending
  <2> HIDE DEF Goal
  <2>2. QED
    BY <1>2, <1>3, <2>1 DEF SendGoto
<1>4. CASE Serve
  BY <1>1, <1>4 DEF Serve, routing
<1>5. ASSUME NEW n \in Node, CrashAll(n) PROVE Goal
  BY <1>5 DEF CrashAll, RoutingTypeOK, Sending
<1>6. ASSUME NEW n \in Node, Consume(n) PROVE Goal
  BY <1>1, <1>6 DEF Consume, Take, Deliver
<1>7. ASSUME NEW k \in Msg, Begin(k) \/ CheckFriend(k) \/ EmitHere(k) PROVE Goal
  <2>1. PICK pc : SendGoto(k, pc)
    BY <1>7 DEF Begin, SendToUser, NextRecipient, CheckFriend, EmitHere
  <2>2. send[k].pc \notin Done
    BY <1>7 DEF Begin, SendToUser, NextRecipient, CheckFriend, EmitHere, Sends, Done
  <2> HIDE DEF Goal
  <2>3. QED
    BY <1>3, <2>1, <2>2
<1>8. ASSUME NEW k \in Msg, ResolveLocal(k) PROVE Goal
  <2> DEFINE r(s, pc) == [send[k] EXCEPT !.target = s, !.pc = pc]
  <2>1. PICK s, pc : SendBecome(k, r(s, pc))
    BY <1>8 DEF ResolveLocal
  <2>2. r(s, pc).nodes = send[k].nodes /\ send[k].pc \notin Done
    BY <1>8 DEF RoutingTypeOK, Sending, ResolveLocal, Sends, Done
  <2> HIDE DEF r, Goal
  <2>3. QED
    BY <1>2, <2>1, <2>2
<1>9. ASSUME NEW k \in Msg, ResolveRedis(k) PROVE Goal
  <2> DEFINE r(s, pc, b) == [send[k] EXCEPT !.target = s, !.pc = pc]
             q(pc, b) == [send[k] EXCEPT !.pc = pc, !.online = b]
  <2>1. \/ \E s, pc, b : SendBecome(k, r(s, pc, b))
        \/ \E pc, b : SendBecome(k, q(pc, b))
        \/ \E pc : SendGoto(k, pc)
    BY <1>9 DEF ResolveRedis
  <2>2. /\ \A s, pc, b : r(s, pc, b).nodes = send[k].nodes
        /\ \A pc, b : q(pc, b).nodes = send[k].nodes
        /\ send[k].pc \notin Done
    BY <1>9 DEF RoutingTypeOK, Sending, ResolveRedis, Sends, Done
  <2> HIDE DEF r, q, Goal
  <2>3. QED
    BY <1>2, <1>3, <2>1, <2>2
<1>10. ASSUME NEW k \in Msg, Publish(k) PROVE Goal
  BY <1>10, PublishEffect DEF Done
<1>11. CASE UNCHANGED allVars
  BY <1>1, <1>11 DEF allVars, routing
<1>12. QED
  BY <1>4, <1>5, <1>6, <1>7, <1>8, <1>9, <1>10, <1>11 DEF RoutingNext, Route

(* A queue grows at its end by Publish, loses its first message to its     *)
(* consumer, or goes down with its node.                                   *)
LEMMA QueueStep ==
  ASSUME RoutingTypeOK, TargetsProven, [RoutingNext]_allVars, NEW n \in Node
  PROVE  \/ channel'[n] = channel[n]
         \/ CrashAll(n) /\ channel'[n] = <<>>
         \/ /\ Consume(n) /\ channel[n] # <<>> /\ channel'[n] = Tail(channel[n])
         \/ \E m \in Msg : /\ Publish(m) /\ n \in send'[m].nodes
                           /\ channel'[n] = Append(channel[n], m)
<1> USE DEF RoutingTypeOK
<1>1. ASSUME NEW k \in Node, CrashAll(k)
      PROVE  \/ channel'[n] = channel[n]
             \/ CrashAll(n) /\ channel'[n] = <<>>
  BY <1>1 DEF CrashAll
<1>2. ASSUME NEW k \in Node, Consume(k)
      PROVE  \/ channel'[n] = channel[n]
             \/ Consume(n) /\ channel[n] # <<>> /\ channel'[n] = Tail(channel[n])
  BY <1>2 DEF Consume, Take, Deliver, TargetsProven
<1>3. ASSUME NEW m \in Msg, Publish(m)
      PROVE  \/ channel'[n] = channel[n]
             \/ n \in send'[m].nodes /\ channel'[n] = Append(channel[n], m)
  BY <1>3, PublishEffect
<1>4. ASSUME NEW m \in Msg, Begin(m) \/ CheckFriend(m) \/ ResolveLocal(m) \/ ResolveRedis(m)
                            \/ EmitHere(m)
      PROVE  UNCHANGED channel
  BY <1>4 DEF Begin, SendToUser, NextRecipient, CheckFriend, ResolveLocal, ResolveRedis,
              EmitHere, pubsub
<1>5. CASE Serve \/ UNCHANGED allVars
  BY <1>5 DEF Serve, allVars, routing
<1>6. QED
  BY <1>1, <1>2, <1>3, <1>4, <1>5 DEF RoutingNext, Route

(* Every message of a queue was there before, as much further back as the  *)
(* queue has lost at its front, or has just been published.                *)
LEMMA QueueShift ==
  ASSUME RoutingTypeOK, TargetsProven, [RoutingNext]_allVars, NEW n \in Node
  PROVE  \E d \in {0, 1} :
           /\ \A i \in 1 .. Len(channel'[n]) :
                \/ i + d \in 1 .. Len(channel[n]) /\ channel'[n][i] = channel[n][i + d]
                \/ \E m \in Msg : /\ d = 0 /\ i = Len(channel[n]) + 1 /\ channel'[n][i] = m
                                  /\ Publish(m) /\ n \in send'[m].nodes
           /\ Len(channel'[n]) # 0 =>
                \A j \in 1 .. Len(channel[n]) :
                  j > d => j - d \in 1 .. Len(channel'[n]) /\ channel'[n][j - d] = channel[n][j]
           /\ \A j \in 1 .. Len(channel[n]) :
                \/ j - d \in 1 .. Len(channel'[n]) /\ channel'[n][j - d] = channel[n][j]
                \/ CrashAll(n)
                \/ Consume(n) /\ channel[n] # <<>> /\ channel'[n] = Tail(channel[n]) /\ j = 1
<1>1. channel[n] \in Seq(Msg) /\ Len(channel[n]) \in Nat
  BY LenProperties DEF RoutingTypeOK
<1>2. CASE channel'[n] = channel[n]
  BY <1>1, <1>2
<1>3. CASE CrashAll(n) /\ channel'[n] = <<>>
  BY <1>1, <1>3, EmptySeq
<1>4. CASE Consume(n) /\ channel[n] # <<>> /\ channel'[n] = Tail(channel[n])
  <2>1. /\ Len(channel'[n]) = Len(channel[n]) - 1
        /\ \A i \in 1 .. Len(channel'[n]) : channel'[n][i] = channel[n][i + 1]
    BY <1>1, <1>4, HeadTailProperties
  <2>2. /\ \A i \in 1 .. Len(channel'[n]) :
             i + 1 \in 1 .. Len(channel[n]) /\ channel'[n][i] = channel[n][i + 1]
        /\ \A j \in 1 .. Len(channel[n]) :
             j > 1 => j - 1 \in 1 .. Len(channel'[n]) /\ channel'[n][j - 1] = channel[n][j]
    BY <1>1, <2>1
  <2>3. QED
    BY <1>1, <1>4, <2>2
<1>5. CASE \E m \in Msg : Publish(m) /\ n \in send'[m].nodes /\ channel'[n] = Append(channel[n], m)
  <2>1. PICK m \in Msg : Publish(m) /\ n \in send'[m].nodes /\ channel'[n] = Append(channel[n], m)
    BY <1>5
  <2>2. /\ Len(channel'[n]) = Len(channel[n]) + 1
        /\ \A i \in 1 .. Len(channel[n]) : channel'[n][i] = channel[n][i]
        /\ channel'[n][Len(channel[n]) + 1] = m
    BY <1>1, <2>1, AppendProperties
  <2>3. /\ \A i \in 1 .. Len(channel'[n]) :
             \/ i + 0 \in 1 .. Len(channel[n]) /\ channel'[n][i] = channel[n][i + 0]
             \/ i = Len(channel[n]) + 1 /\ channel'[n][i] = m
        /\ \A j \in 1 .. Len(channel[n]) :
             j - 0 \in 1 .. Len(channel'[n]) /\ channel'[n][j - 0] = channel[n][j]
    BY <1>1, <2>2
  <2>4. QED
    BY <2>1, <2>3
<1>6. QED
  BY <1>2, <1>3, <1>4, <1>5, QueueStep

(* A message that is queued or received before or after a step.            *)
LEMMA QueuedStep ==
  ASSUME RoutingTypeOK, TargetsProven, [RoutingNext]_allVars, NEW n \in Node, NEW m \in Msg,
         Queued(n, m)'
  PROVE  \/ Queued(n, m)
         \/ Publish(m) /\ n \in send'[m].nodes
<1>1. PICK i \in 1 .. Len(channel'[n]) : channel'[n][i] = m
  BY DEF Queued
<1>2. PICK d \in {0, 1} : \A k \in 1 .. Len(channel'[n]) :
         \/ k + d \in 1 .. Len(channel[n]) /\ channel'[n][k] = channel[n][k + d]
         \/ \E x \in Msg : channel'[n][k] = x /\ Publish(x) /\ n \in send'[x].nodes
  BY QueueShift, SMTT(30)
<1>3. CASE i + d \in 1 .. Len(channel[n]) /\ channel'[n][i] = channel[n][i + d]
  BY <1>1, <1>3 DEF Queued
<1>4. CASE \E x \in Msg : channel'[n][i] = x /\ Publish(x) /\ n \in send'[x].nodes
  BY <1>1, <1>4
<1>5. QED
  BY <1>2, <1>3, <1>4

(* The first message is no longer queued once it is taken off, since no    *)
(* queue holds a message twice.                                            *)
LEMMA TakenOff ==
  ASSUME RoutingTypeOK, OnceInv, NEW n \in Node, channel[n] # <<>>,
         channel'[n] = Tail(channel[n])
  PROVE  \A m \in Msg : m = Head(channel[n]) => ~Queued(n, m)'
<1>1. channel[n] \in Seq(Msg) /\ Len(channel[n]) \in Nat \ {0}
  BY EmptySeq DEF RoutingTypeOK
<1>2. /\ Len(channel'[n]) = Len(channel[n]) - 1
      /\ \A i \in 1 .. Len(channel'[n]) : channel'[n][i] = channel[n][i + 1]
  BY <1>1, HeadTailProperties
<1>3. Head(channel[n]) = channel[n][1]
  BY <1>1
<1>4. ASSUME NEW i \in 1 .. Len(channel'[n]) PROVE channel'[n][i] # channel[n][1]
  <2>1. i + 1 \in 1 .. Len(channel[n]) /\ 1 \in 1 .. Len(channel[n]) /\ i + 1 # 1
    BY <1>1, <1>2
  <2>2. QED
    BY <1>2, <2>1 DEF OnceInv
<1>5. QED
  BY <1>3, <1>4 DEF Queued

(* A step receives message m on socket s only by an Emit.                  *)
LEMMA ReceivedStep ==
  ASSUME RoutingTypeOK, TargetsProven, [RoutingNext]_allVars, NEW s \in Sock
  PROVE  /\ Received(s) \subseteq Received(s)'
         /\ \A m \in Received(s)' \ Received(s) :
              \/ /\ m \in Msg /\ EmitHere(m) /\ NodeOf[s] = Here(m) /\ Emit(s, m)
                 /\ Connected(Here(m), s)
              \/ /\ Deliver(NodeOf[s]) /\ s = consumer[NodeOf[s]] /\ m \in Msg /\ Emit(s, m)
                 /\ m = Head(channel[NodeOf[s]]) /\ channel[NodeOf[s]] # <<>>
<1>1. CASE UNCHANGED emitted
  BY <1>1 DEF Received
<1>2. ASSUME NEW m \in Msg, EmitHere(m), Connected(Here(m), send[m].target),
             Emit(send[m].target, m)
      PROVE  /\ Received(s) \subseteq Received(s)'
             /\ \A x \in Received(s)' \ Received(s) :
                  x = m /\ s = send[m].target /\ NodeOf[s] = Here(m) /\ Connected(Here(m), s)
  <2>1. send[m].target \in Sock
    BY <1>2 DEF Connected, RoutingTypeOK, Sending, SockOrNone
  <2>2. QED
    BY <1>2, <2>1, EmitReceived DEF Connected
<1>3. ASSUME NEW n \in Node, Deliver(n), Connected(n, consumer[n]),
             Emit(consumer[n], Head(channel[n]))
      PROVE  /\ Received(s) \subseteq Received(s)'
             /\ \A x \in Received(s)' \ Received(s) :
                  /\ x \in Msg /\ x = Head(channel[n]) /\ s = consumer[n] /\ NodeOf[s] = n
                  /\ channel[n] # <<>>
  <2>1. consumer[n] \in Sock /\ channel[n] \in Seq(Msg) /\ channel[n] # <<>>
    BY <1>3 DEF Connected, TargetsProven, RoutingTypeOK, SockOrNone
  <2>2. Head(channel[n]) \in Msg
    BY <2>1, HeadTailProperties
  <2>3. QED
    BY <1>3, <2>1, <2>2, EmitReceived DEF Connected
<1>4. QED
  BY <1>1, <1>2, <1>3, EmitStep

(* Publications stay distinct and their state is settled.                  *)
LEMMA OnceQueues ==
  ASSUME AddressInv, OnceInv, [RoutingNext]_allVars
  PROVE  /\ \A m \in Msg : send'[m].nodes # {} => send'[m].pc \in {"published", "error"}
         /\ \A n \in Node : \A i, j \in 1 .. Len(channel'[n]) :
              channel'[n][i] = channel'[n][j] => i = j
<1> USE DEF AddressInv
<1>1. ASSUME NEW m \in Msg, send'[m].nodes # {} PROVE send'[m].pc \in {"published", "error"}
  BY <1>1, SendStep, PublishEffect DEF OnceInv, Done
<1>2. ASSUME NEW n \in Node, NEW i \in 1 .. Len(channel'[n]), NEW j \in 1 .. Len(channel'[n]),
             channel'[n][i] = channel'[n][j]
      PROVE  i = j
  <2>1. \A m \in Msg : Publish(m) => ~Queued(n, m)
    BY PublishEffect DEF OnceInv
  <2>2. PICK d \in {0, 1} : \A k \in 1 .. Len(channel'[n]) :
           \/ k + d \in 1 .. Len(channel[n]) /\ channel'[n][k] = channel[n][k + d]
           \/ \E m \in Msg : /\ d = 0 /\ k = Len(channel[n]) + 1 /\ channel'[n][k] = m
                             /\ Publish(m) /\ n \in send'[m].nodes
    BY QueueShift
  <2>3. CASE /\ i + d \in 1 .. Len(channel[n]) /\ channel'[n][i] = channel[n][i + d]
             /\ j + d \in 1 .. Len(channel[n]) /\ channel'[n][j] = channel[n][j + d]
    <3>1. i + d = j + d
      BY <1>2, <2>3 DEF OnceInv
    <3>2. i \in Int /\ j \in Int
      OBVIOUS
    <3>3. QED
      BY <3>1, <3>2
  <2>4. QED
    BY <1>2, <2>1, <2>2, <2>3 DEF Queued
<1>3. QED
  BY <1>1, <1>2

(* What is queued at a node has been published to it and not emitted by it *)
(* yet.                                                                    *)
LEMMA OncePending ==
  ASSUME AddressInv, OnceInv, [RoutingNext]_allVars, NEW n \in Node, NEW m \in Msg,
         Queued(n, m)'
  PROVE  n \in send'[m].nodes /\ \A s \in Sock : NodeOf[s] = n => m \notin Received(s)'
<1> USE DEF AddressInv
<1>1. CASE Publish(m) /\ n \in send'[m].nodes
  <2>1. UNCHANGED emitted /\ send[m].pc = "publish"
    BY <1>1, PublishEffect
  <2>2. \A s \in Sock : m \notin Received(s)
    BY <2>1 DEF OnceInv
  <2>3. QED
    BY <1>1, <2>1, <2>2 DEF Received
<1>2. CASE Queued(n, m)
  <2>1. send'[m] = send[m] /\ n \in send[m].nodes /\ send[m].pc \in Done
    BY <1>2, SendStep DEF OnceInv, Done
  <2>2. ASSUME NEW s \in Sock, NodeOf[s] = n, m \in Received(s)' PROVE FALSE
    <3>1. m \notin Received(s)
      BY <1>2, <2>2 DEF OnceInv
    <3>2. ~EmitHere(m)
      BY <2>1 DEF EmitHere, Sends, Done
    <3>3. Deliver(n) /\ m = Head(channel[n]) /\ channel[n] # <<>>
      BY <2>2, <3>1, <3>2, ReceivedStep
    <3>4. channel'[n] = Tail(channel[n])
      BY <3>3 DEF Deliver, RoutingTypeOK
    <3>5. QED
      BY <3>3, <3>4, TakenOff
  <2>3. QED
    BY <2>1, <2>2
<1>3. QED
  BY <1>1, <1>2, QueuedStep

(* What was received was emitted by the sender's node or published.        *)
LEMMA OnceReceived ==
  ASSUME AddressInv, OnceInv, [RoutingNext]_allVars, NEW s \in Sock, NEW m \in Received(s)'
  PROVE  /\ m \in Msg
         /\ \/ send'[m].pc = "ok" /\ send'[m].nodes = {} /\ NodeOf[s] = Here(m)
            \/ NodeOf[s] \in send'[m].nodes
<1> USE DEF AddressInv
<1>1. CASE m \in Received(s)
  <2>1. m \in Msg
    BY <1>1, LenProperties DEF Received, RoutingTypeOK
  <2>2. send[m].pc \in Done
    BY <1>1, <2>1 DEF OnceInv, Done
  <2>3. QED
    BY <1>1, <2>1, <2>2, SendStep DEF OnceInv
<1>2. CASE m \in Msg /\ EmitHere(m) /\ NodeOf[s] = Here(m) /\ Emit(s, m) /\ Connected(Here(m), s)
  <2>1. send[m].pc = "emit" /\ send[m].nodes = {}
    BY <1>2 DEF EmitHere, Sends, OnceInv
  <2>2. send'[m].nodes = {}
    BY <1>2, <2>1, SendStep, PublishEffect
  <2>3. ~(emitted' = emitted)
    <3>1. emitted[s] \in Seq(Msg) /\ emitted'[s] = Append(emitted[s], m)
      BY <1>2 DEF Emit, RoutingTypeOK
    <3>2. Len(Append(emitted[s], m)) = Len(emitted[s]) + 1 /\ Len(emitted[s]) \in Nat
      BY <1>2, <3>1, AppendProperties, LenProperties
    <3>3. QED
      BY <3>1, <3>2
  <2>4. SendGoto(m, "ok")
    BY <1>2, <2>3 DEF EmitHere
  <2>5. send'[m].pc = "ok"
    BY <1>2, <2>4 DEF SendGoto, SendBecome, RoutingTypeOK, Sending
  <2>6. QED
    BY <1>2, <2>2, <2>5
<1>3. CASE /\ Deliver(NodeOf[s]) /\ m \in Msg
           /\ m = Head(channel[NodeOf[s]]) /\ channel[NodeOf[s]] # <<>>
  <2>1. NodeOf[s] \in Node
    BY ConstAssumption
  <2>2. channel[NodeOf[s]] \in Seq(Msg) /\ Len(channel[NodeOf[s]]) \in Nat \ {0}
    BY <1>3, <2>1, EmptySeq DEF RoutingTypeOK
  <2>3. Queued(NodeOf[s], m)
    BY <1>3, <2>2 DEF Queued
  <2>4. UNCHANGED send
    BY <1>3 DEF Deliver
  <2>5. QED
    BY <1>3, <2>1, <2>3, <2>4 DEF OnceInv
<1>4. QED
  BY <1>1, <1>2, <1>3, ReceivedStep

(* Where an Emit leaves the messages of a socket.                          *)
LEMMA EmitIndex ==
  ASSUME RoutingTypeOK, NEW m \in Msg, NEW t \in Sock, Emit(t, m), NEW s \in Sock
  PROVE  /\ s # t => emitted'[s] = emitted[s]
         /\ Len(emitted[s]) \in Nat /\ DOMAIN emitted[s] = 1 .. Len(emitted[s])
         /\ s = t => /\ DOMAIN emitted'[s] = 1 .. Len(emitted[s]) + 1
                     /\ \A i \in 1 .. Len(emitted[s]) : emitted'[s][i] = emitted[s][i]
                     /\ emitted'[s][Len(emitted[s]) + 1] = m
<1>1. emitted[s] \in Seq(Msg) /\ emitted'[s] = IF s = t THEN Append(emitted[s], m) ELSE emitted[s]
  BY DEF RoutingTypeOK, Emit
<1>2. /\ Append(emitted[s], m) \in Seq(Msg)
      /\ Len(Append(emitted[s], m)) = Len(emitted[s]) + 1
      /\ \A i \in 1 .. Len(emitted[s]) : Append(emitted[s], m)[i] = emitted[s][i]
      /\ Append(emitted[s], m)[Len(emitted[s]) + 1] = m
  BY <1>1, AppendProperties
<1>3. /\ DOMAIN emitted[s] = 1 .. Len(emitted[s]) /\ Len(emitted[s]) \in Nat
      /\ DOMAIN Append(emitted[s], m) = 1 .. Len(Append(emitted[s], m))
  BY <1>1, <1>2, LenProperties
<1>4. QED
  BY <1>1, <1>2, <1>3

(* The Emit of m on t where nobody of t's node has it yet, and nobody at   *)
(* all unless m was published.                                             *)
LEMMA FreshEmit ==
  ASSUME AddressInv, OnceInv, NEW m \in Msg, NEW t \in Sock, Emit(t, m),
         [RoutingNext]_allVars,
         \A s \in Sock : m \in Received(s) => NodeOf[s] # NodeOf[t] /\ send[m].nodes # {}
  PROVE  EmittedOnce'
<1> USE DEF AddressInv
<1> SUFFICES ASSUME NEW s \in Sock, NEW u \in Sock,
                    NEW i \in DOMAIN emitted'[s], NEW j \in DOMAIN emitted'[u],
                    emitted'[s][i] = emitted'[u][j]
             PROVE  \/ s = u /\ i = j
                    \/ NodeOf[s] # NodeOf[u] /\ send'[emitted'[s][i]].nodes # {}
  BY DEF EmittedOnce
<1> DEFINE Old(x, k) == k \in DOMAIN emitted[x] /\ emitted'[x][k] = emitted[x][k]
           New(x, k) == x = t /\ k = Len(emitted[t]) + 1 /\ emitted'[x][k] = m
<1>1. (Old(s, i) \/ New(s, i)) /\ (Old(u, j) \/ New(u, j))
  <2>1. ASSUME NEW x \in Sock, NEW k \in DOMAIN emitted'[x] PROVE Old(x, k) \/ New(x, k)
    <3>1. CASE x # t
      BY <2>1, <3>1, EmitIndex
    <3>2. CASE x = t
      <4>1. /\ Len(emitted[t]) \in Nat /\ DOMAIN emitted[t] = 1 .. Len(emitted[t])
            /\ DOMAIN emitted'[t] = 1 .. Len(emitted[t]) + 1
            /\ \A l \in 1 .. Len(emitted[t]) : emitted'[t][l] = emitted[t][l]
            /\ emitted'[t][Len(emitted[t]) + 1] = m
        BY EmitIndex
      <4>2. k \in 1 .. Len(emitted[t]) \/ k = Len(emitted[t]) + 1
        BY <3>2, <4>1
      <4>3. QED
        BY <3>2, <4>1, <4>2
    <3>3. QED
      BY <3>1, <3>2
  <2>2. QED
    BY <2>1
<1>2. ASSUME NEW x \in Sock, NEW k, Old(x, k) PROVE emitted[x][k] \in Received(x) /\ emitted[x][k] \in Msg
  BY <1>2, LenProperties DEF Received, RoutingTypeOK
<1>3. send[m].nodes # {} => send'[m] = send[m]
  BY SendStep DEF OnceInv, Done
<1>4. CASE Old(s, i) /\ Old(u, j)
  <2>1. emitted[s][i] \in Msg /\ emitted[s][i] \in Received(s)
    BY <1>2, <1>4
  <2>2. send[emitted[s][i]].nodes # {} => send'[emitted[s][i]] = send[emitted[s][i]]
    BY <2>1, SendStep DEF OnceInv, Done
  <2>3. \/ s = u /\ i = j
        \/ NodeOf[s] # NodeOf[u] /\ send[emitted[s][i]].nodes # {}
    <3>1. /\ i \in DOMAIN emitted[s] /\ j \in DOMAIN emitted[u]
          /\ emitted[s][i] = emitted[u][j]
      BY <1>4
    <3>2. EmittedOnce
      BY DEF OnceInv
    <3> HIDE DEF Old, New
    <3>3. QED
      BY <3>1, <3>2 DEF EmittedOnce
  <2>4. QED
    BY <1>4, <2>2, <2>3
<1>5. CASE New(s, i) /\ New(u, j)
  BY <1>5
<1>6. CASE Old(s, i) /\ New(u, j)
  <2>1. emitted[s][i] = m /\ m \in Received(s)
    BY <1>2, <1>6
  <2>2. QED
    BY <1>3, <1>6, <2>1
<1>7. CASE New(s, i) /\ Old(u, j)
  <2>1. emitted[u][j] = m /\ m \in Received(u)
    BY <1>2, <1>7
  <2>2. QED
    BY <1>3, <1>7, <2>1
<1>8. QED
  BY <1>1, <1>4, <1>5, <1>6, <1>7

LEMMA OnceEmitted ==
  ASSUME AddressInv, OnceInv, [RoutingNext]_allVars
  PROVE  EmittedOnce'
<1> USE DEF AddressInv
<1>1. CASE UNCHANGED emitted
  <2> SUFFICES ASSUME NEW s \in Sock, NEW u \in Sock,
                      NEW i \in DOMAIN emitted[s], NEW j \in DOMAIN emitted[u],
                      emitted[s][i] = emitted[u][j]
               PROVE  \/ s = u /\ i = j
                      \/ NodeOf[s] # NodeOf[u] /\ send'[emitted[s][i]].nodes # {}
    BY <1>1 DEF EmittedOnce
  <2>1. emitted[s][i] \in Msg
    BY LenProperties DEF RoutingTypeOK
  <2>2. send[emitted[s][i]].nodes # {} => send'[emitted[s][i]] = send[emitted[s][i]]
    BY <2>1, SendStep DEF OnceInv, Done
  <2>3. QED
    BY <2>2 DEF OnceInv, EmittedOnce
<1>2. ASSUME NEW m \in Msg, EmitHere(m), Connected(Here(m), send[m].target),
             Emit(send[m].target, m)
      PROVE  EmittedOnce'
  <2>1. send[m].target \in Sock
    BY <1>2 DEF Connected, RoutingTypeOK, Sending, SockOrNone
  <2>2. send[m].pc = "emit"
    BY <1>2 DEF EmitHere, Sends
  <2>3. \A s \in Sock : m \notin Received(s)
    BY <2>2 DEF OnceInv
  <2>4. QED
    BY <1>2, <2>1, <2>3, FreshEmit
<1>3. ASSUME NEW n \in Node, Connected(n, consumer[n]), Emit(consumer[n], Head(channel[n]))
      PROVE  EmittedOnce'
  <2>1. /\ consumer[n] \in Sock /\ NodeOf[consumer[n]] = n
        /\ channel[n] \in Seq(Msg) /\ channel[n] # <<>>
    BY <1>3 DEF Connected, TargetsProven, RoutingTypeOK, SockOrNone
  <2>2. Head(channel[n]) \in Msg /\ Queued(n, Head(channel[n]))
    <3>1. Len(channel[n]) \in Nat \ {0} /\ Head(channel[n]) = channel[n][1]
      BY <2>1, EmptySeq
    <3>2. QED
      BY <2>1, <3>1, HeadTailProperties DEF Queued
  <2>3. QED
    BY <1>3, <2>1, <2>2, FreshEmit DEF OnceInv
<1>4. QED
  BY <1>1, <1>2, <1>3, EmitStep

LEMMA OnceStep ==
  ASSUME AddressInv, OnceInv, [RoutingNext]_allVars
  PROVE  OnceInv'
BY OnceQueues, OncePending, OnceReceived, OnceEmitted DEF OnceInv

----------------------------------------------------------------------------
(* With serialised handlers a client's messages are answered in order, lie *)
(* in order in every queue, and none is emitted from a queue before an     *)
(* earlier one.                                                            *)
OrderInv ==
  /\ SerialDispatch =>
       /\ \A k, m \in Msg : From[k] = From[m] /\ k < m /\ send[m].pc # "new"
                              => send[k].pc \in Done
       /\ \A n \in Node : \A i, j \in 1 .. Len(channel[n]) :
            i < j /\ From[channel[n][i]] = From[channel[n][j]] => channel[n][i] < channel[n][j]
       /\ \A n \in Node, k, m \in Msg :
            Queued(n, m) /\ From[k] = From[m] /\ m < k /\ n \in send[k].nodes => Queued(n, k)
  /\ InOrderUnlessUserMoved

(* A message is taken up in its turn, or its node crashes and ends all     *)
(* messages of the client.                                                 *)
LEMMA TurnStep ==
  ASSUME AddressInv, OnceInv, OrderInv, SerialDispatch, [RoutingNext]_allVars,
         NEW k \in Msg, NEW m \in Msg, From[k] = From[m], k < m, send'[m].pc # "new"
  PROVE  send'[k].pc \in Done
<1> USE DEF AddressInv
<1>1. ASSUME send[k].pc \in Done PROVE send'[k].pc \in Done
  BY <1>1, SendStep
<1>2. CASE send[m].pc # "new"
  BY <1>1, <1>2 DEF OrderInv
<1>3. CASE send[m].pc = "new"
  <2>1. ASSUME NEW x \in Msg, NEW r, SendBecome(x, r) PROVE x = m
    BY <1>3, <2>1 DEF SendBecome, RoutingTypeOK
  <2>2. CASE Serve \/ UNCHANGED allVars
    BY <1>3, <2>2 DEF Serve, routing, allVars
  <2>3. ASSUME NEW n \in Node, CrashAll(n) PROVE send'[k].pc \in Done
    BY <1>3, <2>3 DEF CrashAll, RoutingTypeOK, Sending, Done, Here
  <2>4. ASSUME NEW n \in Node, Consume(n) PROVE FALSE
    BY <1>3, <2>4 DEF Consume, Take, Deliver
  <2>5. ASSUME NEW x \in Msg, Begin(x) PROVE send'[k].pc \in Done
    <3>1. x = m /\ InTurn(x)
      BY <2>1, <2>5 DEF Begin, SendToUser, NextRecipient, SendGoto
    <3>2. QED
      BY <1>1, <3>1 DEF InTurn
  <2>6. ASSUME NEW x \in Msg, Route(x) PROVE FALSE
    <3>1. send[x].pc # "new"
      BY <2>6 DEF Route, CheckFriend, ResolveLocal, ResolveRedis, EmitHere, Publish, Sends
    <3>2. \E r : SendBecome(x, r)
      BY <2>6 DEF Route, CheckFriend, ResolveLocal, ResolveRedis, EmitHere, Publish, SendGoto
    <3>3. QED
      BY <1>3, <2>1, <3>1, <3>2
  <2>7. QED
    BY <2>2, <2>3, <2>4, <2>5, <2>6 DEF RoutingNext
<1>4. QED
  BY <1>2, <1>3

(* When m is published no later message of its client has begun.           *)
LEMMA PublishedInTurn ==
  ASSUME RoutingTypeOK, OnceInv, OrderInv, SerialDispatch, NEW m \in Msg, Publish(m),
         NEW k \in Msg, From[k] = From[m], m < k
  PROVE  send[k].nodes = {} /\ \A n \in Node : ~Queued(n, k)
<1>1. send[m].pc = "publish"
  BY PublishEffect
<1>2. send[k].pc = "new"
  BY <1>1 DEF OrderInv, Done
<1>3. QED
  BY <1>2 DEF OnceInv

LEMMA OrderQueues ==
  ASSUME AddressInv, OnceInv, OrderInv, SerialDispatch, [RoutingNext]_allVars, NEW n \in Node,
         NEW i \in 1 .. Len(channel'[n]), NEW j \in 1 .. Len(channel'[n]),
         i < j, From[channel'[n][i]] = From[channel'[n][j]]
  PROVE  channel'[n][i] < channel'[n][j]
<1> USE DEF AddressInv
<1>1. PICK d \in {0, 1} : \A k \in 1 .. Len(channel'[n]) :
         \/ k + d \in 1 .. Len(channel[n]) /\ channel'[n][k] = channel[n][k + d]
         \/ \E m \in Msg : /\ d = 0 /\ k = Len(channel[n]) + 1 /\ channel'[n][k] = m
                           /\ Publish(m) /\ n \in send'[m].nodes
  BY QueueShift
<1>2. CASE /\ i + d \in 1 .. Len(channel[n]) /\ channel'[n][i] = channel[n][i + d]
           /\ j + d \in 1 .. Len(channel[n]) /\ channel'[n][j] = channel[n][j + d]
  <2>1. i + d < j + d
    OBVIOUS
  <2>2. QED
    BY <1>2, <2>1 DEF OrderInv
<1>3. CASE /\ i + d \in 1 .. Len(channel[n]) /\ channel'[n][i] = channel[n][i + d]
           /\ \E m \in Msg : channel'[n][j] = m /\ Publish(m)
  <2>1. PICK m \in Msg : channel'[n][j] = m /\ Publish(m)
    BY <1>3
  <2> DEFINE k == channel[n][i + d]
  <2>2. k \in Msg /\ Queued(n, k)
    BY <1>3, LenProperties DEF RoutingTypeOK, Queued
  <2>3. k # m
    <3>1. send[m].pc = "publish"
      BY <2>1, PublishEffect
    <3>2. ~Queued(n, m)
      BY <3>1 DEF OnceInv
    <3>3. QED
      BY <2>2, <3>2
  <2> HIDE DEF k
  <2>4. ~(m < k)
    BY <1>3, <2>1, <2>2, PublishedInTurn DEF k
  <2>5. k \in Nat /\ m \in Nat
    BY <2>2, RoutingAssumption
  <2>6. QED
    BY <1>3, <2>1, <2>3, <2>4, <2>5 DEF k
<1>4. QED
  <2>1. Len(channel[n]) \in Nat /\ Len(channel'[n]) \in Nat
    BY RoutingTypes, LenProperties DEF RoutingTypeOK
  <2>2. ~(i = Len(channel[n]) + 1 /\ d = 0 /\ j + d \in 1 .. Len(channel[n]))
    BY <2>1
  <2>3. ~(i = Len(channel[n]) + 1 /\ j = Len(channel[n]) + 1)
    BY <2>1
  <2>4. QED
    BY <1>1, <1>2, <1>3, <2>2, <2>3

LEMMA OrderBehind ==
  ASSUME AddressInv, OnceInv, OrderInv, SerialDispatch, [RoutingNext]_allVars, NEW n \in Node,
         NEW k \in Msg, NEW m \in Msg,
         Queued(n, m)', From[k] = From[m], m < k, n \in send'[k].nodes
  PROVE  Queued(n, k)'
<1> USE DEF AddressInv
<1>1. CASE Publish(k)
  <2>1. channel'[n] = Append(channel[n], k) /\ channel[n] \in Seq(Msg)
    BY <1>1, PublishEffect DEF RoutingTypeOK
  <2>2. /\ Len(channel'[n]) = Len(channel[n]) + 1 /\ Len(channel[n]) \in Nat
        /\ channel'[n][Len(channel[n]) + 1] = k
    BY <2>1, AppendProperties, LenProperties
  <2>3. Len(channel[n]) + 1 \in 1 .. Len(channel'[n])
    BY <2>2
  <2>4. QED
    BY <2>2, <2>3 DEF Queued
<1>2. CASE ~Publish(k)
  <2>1. n \in send[k].nodes
    BY <1>2, SendStep
  <2>2. Queued(n, m)
    BY <2>1, QueuedStep, PublishedInTurn
  <2>3. Queued(n, k)
    BY <2>1, <2>2 DEF OrderInv
  <2>4. PICK j \in 1 .. Len(channel[n]) : channel[n][j] = k
    BY <2>3 DEF Queued
  <2>5. PICK i \in 1 .. Len(channel'[n]) : channel'[n][i] = m
    BY DEF Queued
  <2>6. CASE CrashAll(n)
    <3>1. channel'[n] = <<>>
      BY <2>6 DEF CrashAll, RoutingTypeOK
    <3>2. QED
      BY <2>5, <3>1, EmptySeq
  <2>7. CASE Consume(n) /\ channel[n] # <<>> /\ channel'[n] = Tail(channel[n]) /\ j = 1
    <3>1. channel[n] \in Seq(Msg) /\ Len(channel[n]) \in Nat
      BY LenProperties DEF RoutingTypeOK
    <3>2. Len(channel'[n]) = Len(channel[n]) - 1 /\ channel'[n][i] = channel[n][i + 1]
      BY <2>5, <2>7, <3>1, HeadTailProperties
    <3>3. i + 1 \in 1 .. Len(channel[n]) /\ 1 < i + 1
      BY <3>1, <3>2
    <3>4. k < m
      BY <2>4, <2>5, <2>7, <3>2, <3>3 DEF OrderInv
    <3>5. QED
      BY <3>4, RoutingAssumption
  <2>8. QED
    <3>1. \/ \E l \in 1 .. Len(channel'[n]) : channel'[n][l] = channel[n][j]
          \/ CrashAll(n)
          \/ Consume(n) /\ channel[n] # <<>> /\ channel'[n] = Tail(channel[n]) /\ j = 1
      BY QueueShift
    <3>2. QED
      BY <2>4, <2>6, <2>7, <3>1 DEF Queued
<1>3. QED
  BY <1>1, <1>2

(* A message that was received is settled.                                 *)
LEMMA ReceivedSettled ==
  ASSUME AddressInv, OnceInv, [RoutingNext]_allVars, NEW s \in Sock, NEW i \in DOMAIN emitted[s]
  PROVE  /\ emitted[s][i] \in Msg /\ emitted[s][i] \in Received(s)
         /\ send[emitted[s][i]].pc # "new"
         /\ send'[emitted[s][i]] = send[emitted[s][i]]
<1> USE DEF AddressInv
<1>1. emitted[s][i] \in Msg /\ emitted[s][i] \in Received(s)
  BY LenProperties DEF Received, RoutingTypeOK
<1>2. send[emitted[s][i]].pc \in Done
  BY <1>1 DEF OnceInv, Done
<1>3. QED
  BY <1>1, <1>2, SendStep DEF Done

(* The order survives an Emit when every later message the socket has got  *)
(* was emitted directly and this one published.                            *)
LEMMA OrderEmit ==
  ASSUME AddressInv, OnceInv, OrderInv, [RoutingNext]_allVars,
         NEW m \in Msg, NEW t \in Sock, Emit(t, m),
         \A k \in Received(t) : SerialDispatch /\ m < k /\ From[m] = From[k] =>
           NodeOf[t] = Here(k) /\ send[m].nodes # {} /\ send[k].nodes = {}
  PROVE  InOrderUnlessUserMoved'
<1> SUFFICES ASSUME NEW s \in Sock, NEW i \in DOMAIN emitted'[s], NEW j \in DOMAIN emitted'[s],
                    SerialDispatch, i < j, emitted'[s][j] < emitted'[s][i],
                    From[emitted'[s][j]] = From[emitted'[s][i]]
             PROVE  /\ NodeOf[s] = Here(emitted'[s][i])
                    /\ send'[emitted'[s][j]].nodes # {} /\ send'[emitted'[s][i]].nodes = {}
  BY DEF InOrderUnlessUserMoved, Here
<1>1. /\ Len(emitted[s]) \in Nat /\ DOMAIN emitted[s] = 1 .. Len(emitted[s])
      /\ s # t => emitted'[s] = emitted[s]
      /\ s = t => /\ DOMAIN emitted'[s] = 1 .. Len(emitted[s]) + 1
                  /\ \A l \in 1 .. Len(emitted[s]) : emitted'[s][l] = emitted[s][l]
                  /\ emitted'[s][Len(emitted[s]) + 1] = m
  BY EmitIndex DEF AddressInv
<1>2. /\ i \in DOMAIN emitted[s] /\ emitted'[s][i] = emitted[s][i]
      /\ \/ j \in DOMAIN emitted[s] /\ emitted'[s][j] = emitted[s][j]
         \/ s = t /\ emitted'[s][j] = m
  BY <1>1
<1>3. CASE j \in DOMAIN emitted[s] /\ emitted'[s][j] = emitted[s][j]
  <2>1. InOrderUnlessUserMoved
    BY DEF OrderInv
  <2>2. /\ NodeOf[s] = Here(emitted[s][i])
        /\ send[emitted[s][j]].nodes # {} /\ send[emitted[s][i]].nodes = {}
    BY <1>2, <1>3, <2>1 DEF InOrderUnlessUserMoved
  <2>3. send'[emitted[s][j]] = send[emitted[s][j]]
    BY <1>3, ReceivedSettled
  <2>4. send'[emitted[s][i]] = send[emitted[s][i]]
    BY <1>2, ReceivedSettled
  <2>5. QED
    BY <1>2, <1>3, <2>2, <2>3, <2>4
<1>4. CASE s = t /\ emitted'[s][j] = m
  <2>1. emitted[s][i] \in Received(t) /\ send'[emitted[s][i]] = send[emitted[s][i]]
    BY <1>2, <1>4, ReceivedSettled
  <2>2. NodeOf[t] = Here(emitted[s][i]) /\ send[m].nodes # {} /\ send[emitted[s][i]].nodes = {}
    BY <1>2, <1>4, <2>1
  <2>3. send'[m] = send[m]
    BY <2>2, SendStep DEF OnceInv, Done, AddressInv
  <2>4. QED
    BY <1>2, <1>4, <2>1, <2>2, <2>3
<1>5. QED
  BY <1>2, <1>3, <1>4

LEMMA OrderEmitted ==
  ASSUME AddressInv, OnceInv, OrderInv, [RoutingNext]_allVars
  PROVE  InOrderUnlessUserMoved'
<1> USE DEF AddressInv
<1>1. CASE UNCHANGED emitted
  <2> SUFFICES ASSUME NEW s \in Sock, NEW i \in DOMAIN emitted[s], NEW j \in DOMAIN emitted[s],
                      SerialDispatch, i < j, emitted[s][j] < emitted[s][i],
                      From[emitted[s][j]] = From[emitted[s][i]]
               PROVE  /\ NodeOf[s] = Here(emitted[s][i])
                      /\ send'[emitted[s][j]].nodes # {} /\ send'[emitted[s][i]].nodes = {}
    BY <1>1 DEF InOrderUnlessUserMoved, Here
  <2>1. InOrderUnlessUserMoved
    BY DEF OrderInv
  <2>2. /\ NodeOf[s] = Here(emitted[s][i])
        /\ send[emitted[s][j]].nodes # {} /\ send[emitted[s][i]].nodes = {}
    BY <2>1 DEF InOrderUnlessUserMoved
  <2>3. send'[emitted[s][j]] = send[emitted[s][j]]
    BY ReceivedSettled
  <2>4. send'[emitted[s][i]] = send[emitted[s][i]]
    BY ReceivedSettled
  <2>5. QED
    BY <2>2, <2>3, <2>4
<1>2. ASSUME NEW m \in Msg, EmitHere(m), Connected(Here(m), send[m].target),
             Emit(send[m].target, m)
      PROVE  InOrderUnlessUserMoved'
  <2>1. send[m].target \in Sock
    BY <1>2 DEF Connected, RoutingTypeOK, Sending, SockOrNone
  <2>2. send[m].pc = "emit"
    BY <1>2 DEF EmitHere, Sends
  <2>3. ASSUME NEW k \in Received(send[m].target), SerialDispatch, m < k, From[m] = From[k]
        PROVE  FALSE
    <3>1. k \in Msg /\ send[k].pc # "new"
      BY <2>1, ReceivedSettled DEF Received
    <3>2. send[m].pc \in Done
      BY <2>3, <3>1 DEF OrderInv
    <3>3. QED
      BY <2>2, <3>2 DEF Done
  <2>4. QED
    BY <1>2, <2>1, <2>3, OrderEmit
<1>3. ASSUME NEW n \in Node, Connected(n, consumer[n]), Emit(consumer[n], Head(channel[n]))
      PROVE  InOrderUnlessUserMoved'
  <2> DEFINE m == Head(channel[n])
             t == consumer[n]
  <2>1. t \in Sock /\ NodeOf[t] = n /\ channel[n] \in Seq(Msg) /\ channel[n] # <<>>
    BY <1>3 DEF Connected, TargetsProven, RoutingTypeOK, SockOrNone
  <2>2. m \in Msg /\ Queued(n, m)
    <3>1. Len(channel[n]) \in Nat \ {0} /\ Head(channel[n]) = channel[n][1]
      BY <2>1, EmptySeq
    <3>2. QED
      BY <2>1, <3>1, HeadTailProperties DEF Queued
  <2>3. ASSUME NEW k \in Received(t), SerialDispatch, m < k, From[m] = From[k]
        PROVE  NodeOf[t] = Here(k) /\ send[m].nodes # {} /\ send[k].nodes = {}
    <3>1. k \in Msg
      BY <2>1, ReceivedSettled DEF Received
    <3>2. ~Queued(n, k)
      BY <2>1, <3>1 DEF OnceInv
    <3>3. n \notin send[k].nodes
      BY <2>2, <2>3, <3>1, <3>2 DEF OrderInv
    <3>4. QED
      BY <2>1, <2>2, <3>3 DEF OnceInv
  <2> HIDE DEF m, t
  <2>4. Emit(t, m)
    BY <1>3 DEF m, t
  <2>5. QED
    BY <2>1, <2>2, <2>3, <2>4, OrderEmit
<1>4. QED
  BY <1>1, <1>2, <1>3, EmitStep

LEMMA OrderStep ==
  ASSUME AddressInv, OnceInv, OrderInv, [RoutingNext]_allVars
  PROVE  OrderInv'
BY TurnStep, OrderQueues, OrderBehind, OrderEmitted DEF OrderInv

----------------------------------------------------------------------------
(* A socket the addressee has been filed on since the look-up is the one   *)
(* the consumer of its node finds, and has the message or will get it.     *)
SteadyInv ==
  /\ \A m \in Msg : \A s \in steady[m] : Filed(s, To[m])
  /\ \A n \in Node, m \in Msg : consumer[n] # NoSock /\ m = Head(channel[n]) =>
       \A s \in steady[m] : NodeOf[s] = n => consumer[n] = s
  /\ \A m \in Msg : \A s \in steady[m] : NodeOf[s] \in send[m].nodes =>
       m \in Received(s) \/ Queued(NodeOf[s], m)

(* Only the look-up itself makes a socket steady, and it stays so no       *)
(* longer than the user is filed there.                                    *)
LEMMA SteadyStep ==
  ASSUME AddressInv, SteadyInv, [RoutingNext]_allVars, NEW m \in Msg, NEW s \in steady'[m]
  PROVE  /\ s \in Sock
         /\ Filed(s, To[m])'
         /\ s \in steady[m] \/ ResolveLocal(m)
<1> USE DEF AddressInv, RoutingTypeOK
<1>1. CASE Watch
  BY <1>1 DEF Watch
<1>2. ASSUME UNCHANGED <<vars, steady>> PROVE s \in Sock /\ Filed(s, To[m])' /\ s \in steady[m]
  BY <1>2 DEF SteadyInv, Filed, vars
<1>3. ASSUME NEW k \in Msg, ResolveLocal(k)
      PROVE  /\ s \in Sock /\ Filed(s, To[m])'
             /\ s \in steady[m] \/ k = m
  <2>1. CASE k = m
    BY <1>3, <2>1 DEF ResolveLocal, Filed, vars
  <2>2. CASE k # m
    BY <1>3, <2>2 DEF ResolveLocal, SteadyInv, Filed, vars
  <2>3. QED
    BY <2>1, <2>2
<1>4. ASSUME NEW n \in Node, CrashAll(n) \/ Consume(n) PROVE Watch \/ UNCHANGED <<vars, steady>>
  BY <1>4 DEF CrashAll, Consume, Take, Deliver, history
<1>5. ASSUME NEW k \in Msg, Begin(k) \/ CheckFriend(k) \/ ResolveRedis(k) \/ EmitHere(k) \/ Publish(k)
      PROVE  UNCHANGED <<vars, steady>>
  BY <1>5 DEF Begin, SendToUser, NextRecipient, CheckFriend, ResolveRedis, EmitHere, Publish, history
<1>6. CASE Serve \/ UNCHANGED allVars
  BY <1>1, <1>2, <1>6 DEF Serve, allVars, history
<1>7. QED
  BY <1>1, <1>2, <1>3, <1>4, <1>5, <1>6 DEF RoutingNext, Route

(* A busy consumer keeps its socket and its message.                       *)
LEMMA ConsumerStays ==
  ASSUME AddressInv, [RoutingNext]_allVars, NEW n \in Node, consumer'[n] # NoSock
  PROVE  \/ consumer'[n] = consumer[n] /\ Head(channel'[n]) = Head(channel[n]) /\ channel[n] # <<>>
         \/ Take(n)
<1> USE DEF AddressInv
<1>1. consumer'[n] = consumer[n] \/ Take(n)
  <2>1. ASSUME NEW k \in Node, CrashAll(k) \/ Consume(k) PROVE consumer'[n] = consumer[n] \/ Take(n)
    BY <2>1 DEF CrashAll, Consume, Take, Deliver, RoutingTypeOK
  <2>2. ASSUME NEW m \in Msg, Begin(m) \/ Route(m) PROVE UNCHANGED consumer
    BY <2>2 DEF Begin, Route, SendToUser, NextRecipient, CheckFriend, ResolveLocal,
                ResolveRedis, EmitHere, Publish, pubsub
  <2>3. CASE Serve \/ UNCHANGED allVars
    BY <2>3 DEF Serve, allVars, routing
  <2>4. QED
    BY <2>1, <2>2, <2>3 DEF RoutingNext
<1>2. CASE consumer'[n] = consumer[n] /\ ~Take(n)
  <2>1. channel[n] # <<>> /\ channel[n] \in Seq(Msg)
    BY <1>2 DEF TargetsProven, RoutingTypeOK
  <2>2. ~CrashAll(n) /\ ~Consume(n)
    BY <1>2 DEF CrashAll, Consume, Deliver, RoutingTypeOK
  <2>3. channel'[n] = channel[n] \/ \E m \in Msg : channel'[n] = Append(channel[n], m)
    BY <2>2, QueueStep
  <2>4. \A m \in Msg : Head(Append(channel[n], m)) = Head(channel[n])
    BY <2>1, HeadTailAppend
  <2>5. QED
    BY <1>2, <2>1, <2>3, <2>4
<1>3. QED
  BY <1>1, <1>2

LEMMA SteadyConsumer ==
  ASSUME AddressInv, OnceInv, SteadyInv, [RoutingNext]_allVars, NEW n \in Node, NEW m \in Msg,
         consumer'[n] # NoSock, m = Head(channel'[n]), NEW s \in steady'[m], NodeOf[s] = n
  PROVE  consumer'[n] = s
<1> USE DEF AddressInv
<1>1. CASE Take(n)
  <2>1. /\ channel' = channel /\ UNCHANGED <<vars, steady>>
        /\ consumer'[n] = erpToSocket[n][To[Head(channel[n])]]
    BY <1>1 DEF Take, LookUp, RoutingTypeOK, history
  <2>2. QED
    BY <2>1 DEF SteadyInv, Filed
<1>2. CASE consumer'[n] = consumer[n] /\ Head(channel'[n]) = Head(channel[n]) /\ channel[n] # <<>>
  <2>1. Queued(n, m)
    <3>1. channel[n] \in Seq(Msg)
      BY DEF RoutingTypeOK
    <3>2. Len(channel[n]) \in Nat \ {0} /\ Head(channel[n]) = channel[n][1]
      BY <1>2, <3>1, EmptySeq
    <3>3. QED
      BY <1>2, <3>2 DEF Queued
  <2>2. ~ResolveLocal(m)
    BY <2>1 DEF OnceInv, ResolveLocal, Sends
  <2>3. s \in steady[m]
    BY <2>2, SteadyStep
  <2>4. QED
    BY <1>2, <2>3 DEF SteadyInv
<1>3. QED
  BY <1>1, <1>2, ConsumerStays

LEMMA TailDiffers ==
  ASSUME NEW q \in Seq(Msg), q # <<>>
  PROVE  Tail(q) # q /\ Head(q) = q[1]
<1>1. Len(Tail(q)) = Len(q) - 1 /\ Len(q) \in Nat
  BY HeadTailProperties, LenProperties
<1>2. Tail(q) # q
  <2>1. \A a, b : b \in Nat /\ a = b - 1 => a # b
    OBVIOUS
  <2>2. QED
    BY <1>1, <2>1, Zenon
<1>3. Head(q) = q[1]
  BY EmptySeq
<1>4. QED
  BY <1>2, <1>3

LEMMA SteadyGets ==
  ASSUME AddressInv, OnceInv, SteadyInv, [RoutingNext]_allVars, NEW m \in Msg,
         NEW s \in steady'[m], NodeOf[s] \in send'[m].nodes
  PROVE  m \in Received(s)' \/ Queued(NodeOf[s], m)'
<1> USE DEF AddressInv
<1> DEFINE n == NodeOf[s]
<1>1. /\ s \in Sock /\ n \in Node /\ Filed(s, To[m])'
      /\ s \in steady[m] \/ ResolveLocal(m)
  BY SteadyStep, ConstAssumption
<1>2. CASE Publish(m)
  <2>1. channel'[n] = Append(channel[n], m) /\ channel[n] \in Seq(Msg)
    BY <1>1, <1>2, PublishEffect DEF RoutingTypeOK
  <2>2. /\ Len(channel'[n]) = Len(channel[n]) + 1 /\ Len(channel[n]) \in Nat
        /\ channel'[n][Len(channel[n]) + 1] = m
    BY <2>1, AppendProperties, LenProperties
  <2>3. Len(channel[n]) + 1 \in 1 .. Len(channel'[n])
    BY <2>2
  <2>4. QED
    BY <2>2, <2>3 DEF Queued
<1>3. CASE ~Publish(m)
  <2>1. n \in send[m].nodes
    BY <1>3, SendStep
  <2>2. s \in steady[m]
    BY <1>1, <2>1 DEF ResolveLocal, Sends, OnceInv
  <2>3. CASE m \in Received(s)
    BY <1>1, <2>3, ReceivedStep
  <2>4. CASE Queued(n, m)
    <3>1. PICK j \in 1 .. Len(channel[n]) : channel[n][j] = m
      BY <2>4 DEF Queued
    <3>2. ~CrashAll(n)
      <4>1. ASSUME CrashAll(n) PROVE erpToSocket'[n][To[m]] = NoSock
        BY <4>1, <1>1, RoutingAssumption DEF CrashAll, Crash, IInv, TypeOK
      <4>2. QED
        BY <1>1, <4>1, ConstAssumption DEF Filed
    <3>3. CASE Consume(n) /\ channel[n] # <<>> /\ channel'[n] = Tail(channel[n]) /\ j = 1
      <4>1. channel[n] \in Seq(Msg) /\ Len(channel[n]) \in Nat \ {0}
        BY <1>1, <3>3, EmptySeq DEF RoutingTypeOK
      <4>2. m = Head(channel[n]) /\ channel'[n] # channel[n]
        BY <3>1, <3>3, <4>1, TailDiffers
      <4>3. Filed(s, To[m]) /\ s # NoSock
        BY <1>1, <2>2, ConstAssumption DEF SteadyInv
      <4>4. ~Take(n)
        BY <4>2, <4>3 DEF Take, LookUp, Filed, RoutingTypeOK
      <4>5. Deliver(n) /\ consumer[n] = s
        BY <1>1, <2>2, <3>3, <4>2, <4>4 DEF Consume, Deliver, SteadyInv
      <4>6. Emit(s, m)
        BY <4>2, <4>3, <4>5 DEF Deliver, Connected, Filed
      <4>7. QED
        BY <1>1, <4>6, EmitReceived
    <3>4. QED
      <4>1. \/ \E l \in 1 .. Len(channel'[n]) : channel'[n][l] = channel[n][j]
            \/ CrashAll(n)
            \/ Consume(n) /\ channel[n] # <<>> /\ channel'[n] = Tail(channel[n]) /\ j = 1
        BY <1>1, QueueShift
      <4>2. QED
        BY <3>1, <3>2, <3>3, <4>1 DEF Queued
  <2>5. QED
    BY <2>1, <2>2, <2>3, <2>4 DEF SteadyInv
<1>4. QED
  BY <1>2, <1>3

LEMMA SteadyInvStep ==
  ASSUME AddressInv, OnceInv, SteadyInv, [RoutingNext]_allVars
  PROVE  SteadyInv'
BY SteadyStep, SteadyConsumer, SteadyGets DEF SteadyInv

----------------------------------------------------------------------------
(* The invariant of what is queued and received holds throughout.          *)
THEOREM DeliveryInvariant == RoutingSpec => [](OnceInv /\ OrderInv /\ SteadyInv)
<1>1. RoutingInit => OnceInv /\ OrderInv /\ SteadyInv
  <2> SUFFICES ASSUME RoutingInit PROVE OnceInv /\ OrderInv /\ SteadyInv
    OBVIOUS
  <2> USE RoutingAssumption, EmptySeq DEF RoutingInit, RoutingStart
  <2>1. OnceInv
    BY DEF OnceInv, Queued, Received, EmittedOnce
  <2>2. OrderInv
    BY DEF OrderInv, Queued, InOrderUnlessUserMoved
  <2>3. SteadyInv
    BY DEF SteadyInv
  <2>4. QED
    BY <2>1, <2>2, <2>3
<1>2. /\ AddressInv /\ OnceInv /\ OrderInv /\ SteadyInv
      /\ [RoutingNext]_allVars
      => (OnceInv /\ OrderInv /\ SteadyInv)'
  BY OnceStep, OrderStep, SteadyInvStep
<1>3. QED
  BY <1>1, <1>2, AddressInvariant, PTL DEF RoutingSpec

(* Nobody gets a message twice: local routing and publication exclude each *)
(* other, and each node delivers a publication on one socket.              *)
THEOREM NoDuplicate == RoutingSpec => []EmittedOnce
BY DeliveryInvariant, PTL DEF OnceInv

(* Only a user who comes to the sender's node between a publication and a  *)
(* direct Emit gets a client's messages out of order.                      *)
THEOREM MessagesInOrder == RoutingSpec => []InOrderUnlessUserMoved
BY DeliveryInvariant, PTL DEF OrderInv

(* A user who stays where he is gets every publication his node has got,   *)
(* whatever outdated routes the sender's node and Redis held.              *)
THEOREM SteadySocketServed == RoutingSpec => []PublishedReachesSteadySocket
<1>1. AddressInv /\ SteadyInv => PublishedReachesSteadySocket
  <2> SUFFICES ASSUME AddressInv, SteadyInv, NEW m \in Msg, Drained(m),
                      NEW s \in steady[m], NodeOf[s] \in send[m].nodes
               PROVE  m \in Received(s)
    BY DEF PublishedReachesSteadySocket
  <2>1. NodeOf[s] \in Node
    BY ConstAssumption DEF AddressInv, RoutingTypeOK
  <2>2. ~Queued(NodeOf[s], m)
    BY <2>1, LenProperties DEF Drained, Queued, AddressInv, RoutingTypeOK
  <2>3. QED
    BY <2>2 DEF SteadyInv
<1>2. QED
  BY <1>1, AddressInvariant, DeliveryInvariant, PTL
============================================================================
