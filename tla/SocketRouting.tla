---------------------------- MODULE SocketRouting ---------------------------
(***************************************************************************)
(* How a message finds its addressee, on top of SocketRegistry: the        *)
(* send_to_user handler and the fan-out of send_to_group look the user up  *)
(* on their own node, then in Redis, emit when the socket is connected     *)
(* here, and otherwise PUBLISH for the consumers of all nodes.             *)
(***************************************************************************)
EXTENDS SocketRegistry, Sequences

CONSTANTS
  Msg,     \* messages to one addressee, numbered in the order they are sent
  Group,   \* those that send_to_group hands to a recipient
  From,    \* the socket a message is sent from
  To       \* its addressee

ASSUME RoutingAssumption ==
  /\ Msg \subseteq Nat
  /\ Group \subseteq Msg
  /\ From \in [Msg -> Sock]
  /\ To \in [Msg -> Erp]

VARIABLES
  send,      \* per message: its handler's step and the socket that found; which
             \* nodes got the publication; and history, whether the addressee's
             \* newest socket was open when Redis did not know him
  channel,   \* per node: published messages its subscription holds
  consumer,  \* per node: the consumer's target for the first of them
  emitted,   \* per socket: messages emitted on it, in order
  newest,    \* history: per user, the last socket Redis named
  steady     \* history: per message, sockets its addressee has been filed
             \* on ever since its handler began to look

pubsub  == <<channel, consumer>>
routing == <<send, channel, consumer, emitted>>
history == <<newest, steady>>
allVars == <<vars, routing, history>>

Done   == {"ok", "published", "refused", "offline", "error"}
SendPC == {"new", "friend", "local", "redis", "emit", "publish"} \cup Done
Sending == [pc : SendPC, target : SockOrNone, nodes : SUBSET Node, online : BOOLEAN]

\* Every variable ranges over the values the handlers and Redis allow, and a
\* handler comes to emit or publish with a socket it has found.
RoutingTypeOK ==
  /\ send \in [Msg -> Sending]
  /\ channel \in [Node -> Seq(Msg)]
  /\ consumer \in [Node -> SockOrNone]
  /\ emitted \in [Sock -> Seq(Msg)]
  /\ newest \in [Erp -> SockOrNone]
  /\ steady \in [Msg -> SUBSET Sock]
  /\ \A m \in Msg : send[m].pc \in {"emit", "publish"} => send[m].target # NoSock

RoutingStart ==
  /\ send = [m \in Msg |-> [pc |-> "new", target |-> NoSock, nodes |-> {}, online |-> FALSE]]
  /\ channel = [n \in Node |-> <<>>]
  /\ consumer = [n \in Node |-> NoSock]
  /\ emitted = [s \in Sock |-> <<>>]
  /\ steady = [m \in Msg |-> {}]

RoutingInit == Init /\ RoutingStart /\ newest = [e \in Erp |-> NoSock]

Here(m)        == NodeOf[From[m]]
Sends(m, pc)   == send[m].pc = pc
SendBecome(m, r) == send' = [send EXCEPT ![m] = r]
SendGoto(m, pc) == SendBecome(m, [send[m] EXCEPT !.pc = pc])

\* Socket s is connected, and its node routes user e to it.
Filed(s, e) == sockState[s] = "open" /\ erpToSocket[NodeOf[s]][e] = s

\* connections.Get on node n.
Connected(n, s) == s # NoSock /\ NodeOf[s] = n /\ sockState[s] = "open"

\* Emit appends to what socket s receives.
Emit(s, m) == emitted' = [emitted EXCEPT ![s] = Append(@, m)]

\* A sending handler of socket s is running.
Busy(s) == \E m \in Msg : From[m] = s /\ send[m].pc \notin Done \cup {"new"}

\* Messages of one socket are handled in order when socket.io runs its
\* handlers one at a time; the loop of send_to_group is a single handler.
InTurn(m) ==
  /\ \A k \in Msg : From[k] = From[m] /\ k < m /\ (SerialDispatch \/ {k, m} \subseteq Group)
                    => send[k].pc \in Done
  /\ SerialDispatch => \A p \in Proc : proc[p].sock # From[m]

----------------------------------------------------------------------------
(* send_to_user: the limiter may refuse, an unbound sender is refused.     *)
SendToUser(m) ==
  /\ m \notin Group
  /\ Sends(m, "new") /\ InTurn(m)
  /\ sockState[From[m]] = "open"
  /\ \/ socketToErp[Here(m)][From[m]] # NoErp /\ SendGoto(m, "friend")
     \/ SendGoto(m, "refused")
  /\ UNCHANGED <<vars, pubsub, emitted, history>>

(* IsFriendByErp looks for a key that depends on both users' names only,   *)
(* whatever the sender is bound to by now.                                 *)
CheckFriend(m) ==
  /\ Sends(m, "friend")
  /\ \E pc \in {"local", "refused"} : SendGoto(m, pc)
  /\ UNCHANGED <<vars, pubsub, emitted, history>>

(* The loop of send_to_group comes to the recipient, whether or not the    *)
(* sender is still there.                                                  *)
NextRecipient(m) ==
  /\ m \in Group
  /\ Sends(m, "new") /\ InTurn(m)
  /\ \/ sockState[From[m]] = "open"
     \/ \E k \in Group : From[k] = From[m] /\ k < m /\ ~Sends(k, "new")
  /\ SendGoto(m, "local")
  /\ UNCHANGED <<vars, pubsub, emitted, history>>

(* ResolveTargetSocketID: the node's own map first ...                     *)
ResolveLocal(m) ==
  LET s == erpToSocket[Here(m)][To[m]]
  IN /\ Sends(m, "local")
     /\ SendBecome(m, [send[m] EXCEPT !.target = s,
                                      !.pc = IF s = NoSock THEN "redis" ELSE "emit"])
     /\ steady' = [steady EXCEPT ![m] = {t \in Sock : Filed(t, To[m])}]
     /\ UNCHANGED <<vars, pubsub, emitted, newest>>

\* A missing key is taken for a socket.
FoundAlways(s) == TRUE
Found(s) == s # NoSock

(* ... then the user's key in Redis.  Without one, and when Redis fails,   *)
(* the addressee counts as offline.                                        *)
ResolveRedis(m) ==
  LET s == userKey[To[m]]
      new == newest[To[m]]
  IN /\ Sends(m, "redis")
     /\ \/ /\ Found(s)
           /\ SendBecome(m, [send[m] EXCEPT !.target = s, !.pc = "emit"])
        \/ /\ ~Found(s)
           /\ SendBecome(m, [send[m] EXCEPT !.pc = "offline",
                               !.online = new # NoSock /\ sockState[new] = "open"])
        \/ SendGoto(m, "offline")
     /\ UNCHANGED <<vars, pubsub, emitted, history>>

\* The handler goes on to publish after it has emitted.
EmitAndGoOn(m) ==
  LET s == send[m].target
  IN /\ Sends(m, "emit")
     /\ IF Connected(Here(m), s) THEN Emit(s, m) ELSE UNCHANGED emitted
     /\ SendGoto(m, "publish")
     /\ UNCHANGED <<vars, pubsub, history>>

(* A socket of this node that is connected gets the message.  (An Emit on  *)
(* one that closes meanwhile is an Emit on one whose client has gone.)     *)
EmitHere(m) ==
  LET s == send[m].target
  IN /\ Sends(m, "emit")
     /\ IF Connected(Here(m), s) THEN Emit(s, m) /\ SendGoto(m, "ok")
        ELSE SendGoto(m, "publish") /\ UNCHANGED emitted
     /\ UNCHANGED <<vars, pubsub, history>>

\* A subscription's queue with a publication added, in front or at the end.
Overtake(q, m) == <<m>> \o q
Enqueue(q, m)  == Append(q, m)

(* PUBLISH reaches the nodes whose subscription is up, no other will ever  *)
(* see the message; an error may hide that it did.                         *)
Publish(m) ==
  /\ Sends(m, "publish")
  /\ \E nodes \in SUBSET Node, pc \in {"published", "error"} :
       /\ channel' = [n \in Node |-> IF n \in nodes THEN Enqueue(channel[n], m) ELSE channel[n]]
       /\ SendBecome(m, [send[m] EXCEPT !.pc = pc, !.nodes = nodes])
  /\ UNCHANGED <<vars, consumer, emitted, history>>

----------------------------------------------------------------------------
\* The consumer trusts the cluster-wide key.
LookUpRedis(n, e) == userKey[e]
\* GetSocketIDByErp on node n.
LookUp(n, e) == erpToSocket[n][e]

(* The consumer of node n looks its next message's addressee up on its own *)
(* node and goes on to the one after it when he is not there ...           *)
Take(n) ==
  LET s == LookUp(n, To[Head(channel[n])])
  IN /\ consumer[n] = NoSock /\ channel[n] # <<>>
     /\ IF s = NoSock
        THEN channel' = [channel EXCEPT ![n] = Tail(@)] /\ UNCHANGED consumer
        ELSE consumer' = [consumer EXCEPT ![n] = s] /\ UNCHANGED channel
     /\ UNCHANGED <<vars, send, emitted, history>>

(* ... and otherwise emits, if that socket is still connected.             *)
Deliver(n) ==
  LET s == consumer[n]
  IN /\ s # NoSock
     /\ IF Connected(n, s) THEN Emit(s, Head(channel[n])) ELSE UNCHANGED emitted
     /\ channel' = [channel EXCEPT ![n] = Tail(@)]
     /\ consumer' = [consumer EXCEPT ![n] = NoSock]
     /\ UNCHANGED <<vars, send, history>>

----------------------------------------------------------------------------
\* What a step of the registry does to the history.
Watch ==
  /\ newest' = [e \in Erp |-> IF userKey'[e] # NoSock THEN userKey'[e] ELSE newest[e]]
  /\ steady' = [m \in Msg |-> {s \in steady[m] : Filed(s, To[m])'}]

\* The handlers of the registry, on whichever node.
Serve ==
  /\ \/ \E s \in Sock : Connect(s)
     \/ \E p \in Proc, s \in Sock :
          /\ SerialDispatch => ~Busy(s)
          /\ \/ \E e \in Erp, h \in Accounts[s] \cup {NoErp} : BindCheck(p, s, e, h)
             \/ Disconnect(p, s)
     \/ \E p \in Proc : Step(p)
  /\ Watch
  /\ UNCHANGED routing

(* A node that dies takes its sending handlers and subscription with it.   *)
CrashAll(n) ==
  /\ Crash(n)
  /\ send' = [m \in Msg |-> IF /\ Here(m) = n /\ sockState[From[m]] # "new"
                               /\ send[m].pc \notin Done
                            THEN [send[m] EXCEPT !.pc = "error"] ELSE send[m]]
  /\ channel' = [channel EXCEPT ![n] = <<>>]
  /\ consumer' = [consumer EXCEPT ![n] = NoSock]
  /\ Watch
  /\ UNCHANGED emitted

Begin(m)  == SendToUser(m) \/ NextRecipient(m)
Route(m)  == CheckFriend(m) \/ ResolveLocal(m) \/ ResolveRedis(m) \/ EmitHere(m) \/ Publish(m)
Consume(n) == Take(n) \/ Deliver(n)

RoutingNext ==
  \/ Serve
  \/ \E n \in Node : CrashAll(n) \/ Consume(n)
  \/ \E m \in Msg : Begin(m) \/ Route(m)

RoutingSpec == RoutingInit /\ [][RoutingNext]_allVars

----------------------------------------------------------------------------
Received(s) == {emitted[s][i] : i \in DOMAIN emitted[s]}

\* A message comes out only at sockets whose client has proved to be its
\* addressee, although sockets switch users, close and are displaced between
\* the look-ups on up to three machines: the addressee of server.go 398-467.
OnlyToAddressee == \A s \in Sock : \A m \in Received(s) : To[m] \in Accounts[s]

\* No socket gets a message twice, a node emits it on one socket at most,
\* and two nodes only when it was published: local routing and publication
\* exclude each other (server.go:453-460).
EmittedOnce ==
  \A s, t \in Sock : \A i \in DOMAIN emitted[s], j \in DOMAIN emitted[t] :
    emitted[s][i] = emitted[t][j] =>
      \/ s = t /\ i = j
      \/ NodeOf[s] # NodeOf[t] /\ send[emitted[s][i]].nodes # {}

\* Of two messages of one client to the same user a socket gets the later
\* first only if it is on the sender's node, where the later was emitted
\* directly, and the earlier had been published: the user came meanwhile.
InOrderUnlessUserMoved ==
  \A s \in Sock : \A i, j \in DOMAIN emitted[s] :
    LET first == emitted[s][i]
        then  == emitted[s][j]
    IN SerialDispatch /\ i < j /\ then < first /\ From[then] = From[first]
         => NodeOf[s] = Here(first) /\ send[then].nodes # {} /\ send[first].nodes = {}

\* The subscriptions have dealt with message m.
Drained(m) == \A n \in Node : \A i \in DOMAIN channel[n] : channel[n][i] # m

\* A published message comes out at every socket its addressee has been bound
\* to since the look-up, once the node of that socket has got it: whatever
\* the sender's node or Redis took for his socket, and even when PUBLISH
\* seemed to fail.
PublishedReachesSteadySocket ==
  \A m \in Msg : Drained(m) =>
    \A s \in steady[m] : NodeOf[s] \in send[m].nodes => m \in Received(s)

\* A user whose newest binding stands is called offline only if Redis fails
\* or an EXEC of some bind or disconnect acted on an outdated GET, whatever
\* older sockets of his, on whichever node, are closed or left behind.
OfflineOnlyIfStale == \A m \in Msg : send[m].online => staleExec
============================================================================
