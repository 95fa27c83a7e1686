--------------------------- MODULE FriendRequests --------------------------
(***************************************************************************)
(* Friend requests and friend lists: ApplyFriendRequest, Accept- and       *)
(* RejectFriendRequest and ListFriends of service.UserService.  Each       *)
(* repository call is one MySQL statement with no transaction around the   *)
(* handler, and the friend lists are cached in Redis sets, so the calls    *)
(* of concurrent handlers interleave.                                      *)
(***************************************************************************)
EXTENDS Naturals, Sequences, FiniteSets

CONSTANTS
  User,         \* the accounts; handlers name existing ones
  Op,           \* handler invocations
  Payload,      \* what each is asked: its kind and the users it names
  Requests0,    \* friend_requests when the model starts
  Joined,       \* per two users: who has the erp made of theirs in a row
  NoUser,       \* nobody has
  ListMax,      \* the most rows a listing returns
  MaxExpiries   \* bound: how many cached lists expire

Kind == {"apply", "accept", "reject", "list"}
Status == {"pending", "accepted", "rejected"}
Request == [from : User, to : User, status : Status, seen : Nat]

ASSUME FriendAssumption ==
  /\ Payload \in [Op -> [kind : Kind, from : User, to : User, offset : Nat, limit : Nat]]
  /\ \A o \in Op : Payload[o].kind = "list" => Payload[o].limit > 0
  /\ Requests0 \in Seq([from : User, to : User, status : {"pending"}, seen : {0}])
  /\ \A u, v \in User : Joined[{u, v}] \in User \cup {NoUser}
  /\ NoUser \notin User
  /\ ListMax \in Nat \ {0}
  /\ MaxExpiries \in Nat

VARIABLES
  requests,   \* the friend_requests table; a row's id is its index.  seen is
              \* history: how many rows there were at its duplicate check
  rows,       \* the friendships table, likewise; a row has a user and a friend
  cached,     \* per user: the Redis set friend:<erp>, {} when there is none
  lasting,    \* users whose set has no expiry
  task,       \* per handler: how far it is, the request it handles, what it
              \* listed, and the steps at which a call of it failed
  expiries    \* expired lists so far

vars == <<requests, rows, cached, lasting, task, expiries>>

from(o) == Payload[o].from
to(o)   == Payload[o].to
kind(o) == Payload[o].kind

Done == {"ok", "refused", "error"}
RefreshFrom == {"list_from", "save_from", "expire_from"}
RefreshTo   == {"list_to", "save_to", "expire_to"}
Refresh == RefreshFrom \cup RefreshTo
PC == {"new", "forward", "back", "dup", "create", "find", "pair", "befriend",
       "befriend_back", "close", "cache", "page", "save_page", "expire_page"}
      \cup Refresh \cup Done
Task == [pc : PC, id : Nat, seen : Nat, found : SUBSET User, failed : SUBSET PC]

\* Every variable ranges over the values the tables and the cache allow.
TypeOK ==
  /\ requests \in Seq(Request)
  /\ rows \in Seq([user : User, friend : User])
  /\ cached \in [User -> SUBSET User]
  /\ lasting \subseteq User
  /\ task \in [Op -> Task]
  /\ expiries \in 0 .. MaxExpiries

Init ==
  /\ requests = Requests0
  /\ rows = <<>>
  /\ cached = [u \in User |-> {}]
  /\ lasting = {}
  /\ task = [o \in Op |-> [pc |-> "new", id |-> 0, seen |-> 0, found |-> {}, failed |-> {}]]
  /\ expiries = 0

At(o, pc) == task[o].pc = pc
Become(o, t) == task' = [task EXCEPT ![o] = t]
Goto(o, pc) == Become(o, [task[o] EXCEPT !.pc = pc])

tables == <<requests, rows>>
redis  == <<cached, lasting, expiries>>

\* A friendship row from u to v.
Friends(u, v) == \E i \in DOMAIN rows : rows[i].user = u /\ rows[i].friend = v

\* ORDER BY id DESC OFFSET offset LIMIT limit over the ids S.
Newest(S, offset, limit) ==
  {i \in S : Cardinality({j \in S : j > i}) \in offset .. offset + limit - 1}

Clamped(limit) == IF limit > ListMax THEN ListMax ELSE limit

\* The status left out of the listing.
PendingOrNot(u) == Newest({i \in DOMAIN requests : requests[i].to = u}, 0, ListMax)

\* ListByToUser, pending only.
Pending(u) ==
  Newest({i \in DOMAIN requests : requests[i].to = u /\ requests[i].status = "pending"},
         0, ListMax)

\* ListByUser and the friends behind the rows it returns.
Listed(u, offset, limit) ==
  {rows[i].friend :
     i \in Newest({j \in DOMAIN rows : rows[j].user = u}, offset, Clamped(limit))}

----------------------------------------------------------------------------
(* The handler starts; applying to oneself is refused.                     *)
Begin(o) ==
  /\ At(o, "new")
  /\ Goto(o, CASE kind(o) = "apply" -> IF from(o) = to(o) THEN "refused" ELSE "forward"
               [] kind(o) \in {"accept", "reject"} -> "find"
               [] kind(o) = "list" -> "cache")
  /\ UNCHANGED <<tables, redis>>

(* ApplyFriendRequest: no friendship row from one to the other ...         *)
CheckForward(o) ==
  /\ At(o, "forward")
  /\ Goto(o, IF Friends(from(o), to(o)) THEN "refused" ELSE "back")
  /\ UNCHANGED <<tables, redis>>

(* ... nor back ...                                                        *)
CheckBack(o) ==
  /\ At(o, "back")
  /\ Goto(o, IF Friends(to(o), from(o)) THEN "refused" ELSE "dup")
  /\ UNCHANGED <<tables, redis>>

\* The pending requests that bar an application of o are those the other
\* made to the applicant, not the applicant's own.
BarredByOwn(o) == {i \in Pending(to(o)) : requests[i].from = from(o)}
Barred(o) == {i \in Pending(from(o)) : requests[i].from = to(o)}

(* ... and no pending request the other made to the applicant ...          *)
CheckDuplicate(o) ==
  /\ At(o, "dup")
  /\ Become(o, [task[o] EXCEPT !.pc = IF Barred(o) = {} THEN "create" ELSE "refused",
                               !.seen = Len(requests)])
  /\ UNCHANGED <<tables, redis>>

(* ... then the request is created.                                        *)
Create(o) ==
  /\ At(o, "create")
  /\ requests' = Append(requests, [from |-> from(o), to |-> to(o), status |-> "pending",
                                   seen |-> task[o].seen])
  /\ Goto(o, "ok")
  /\ UNCHANGED <<rows, redis>>

----------------------------------------------------------------------------
(* Accept and reject: the newest pending request from one to the other.    *)
Find(o) ==
  LET mine == {i \in Pending(to(o)) : requests[i].from = from(o)}
  IN /\ At(o, "find")
     /\ \/ mine = {} /\ Goto(o, "refused")
        \/ \E i \in mine :
             /\ \A j \in mine : j <= i
             /\ Become(o, [task[o] EXCEPT !.pc = IF kind(o) = "accept" THEN "pair" ELSE "close",
                                          !.id = i])
     /\ UNCHANGED <<tables, redis>>

(* Accept goes on only when the applicant has no friendship row yet.       *)
CheckPair(o) ==
  /\ At(o, "pair")
  /\ Goto(o, IF Friends(from(o), to(o)) THEN "refused" ELSE "befriend")
  /\ UNCHANGED <<tables, redis>>

\* The friendship row from u to v is inserted, or idx_friend_pair refuses it
\* and the handler fails.
Insert(o, u, v, next) ==
  /\ IF Friends(u, v)
     THEN Become(o, [task[o] EXCEPT !.pc = "error", !.failed = @ \cup {task[o].pc}]) /\ UNCHANGED rows
     ELSE rows' = Append(rows, [user |-> u, friend |-> v]) /\ Goto(o, next)
  /\ UNCHANGED <<requests, redis>>

(* The two friendshipRepo.Create of accept.                                *)
Befriend(o) == At(o, "befriend") /\ Insert(o, from(o), to(o), "befriend_back")

\* Only one direction is written.
BefriendBackLost(o) == At(o, "befriend_back") /\ Goto(o, "close") /\ UNCHANGED <<tables, redis>>
BefriendBack(o) == At(o, "befriend_back") /\ Insert(o, to(o), from(o), "close")

\* A status named like the column that goes with it.
CloseHandled(o, status, next) ==
  /\ At(o, "close")
  /\ requests' = [requests EXCEPT ![task[o].id].status = "handled"]
  /\ Goto(o, next)
  /\ UNCHANGED <<rows, redis>>

\* friendRequestRepo.UpdateByID, whatever the status is by now.
Close(o, status, next) ==
  /\ At(o, "close")
  /\ requests' = [requests EXCEPT ![task[o].id].status = status]
  /\ Goto(o, next)
  /\ UNCHANGED <<rows, redis>>

(* Accept then answers and starts the goroutine that refreshes both lists. *)
MarkAccepted(o) == kind(o) = "accept" /\ Close(o, "accepted", "list_from")
MarkRejected(o) == kind(o) = "reject" /\ Close(o, "rejected", "ok")

----------------------------------------------------------------------------
\* The friends on a page are looked up one by one, and one whose lookup
\* fails is left out.
LookUp(o, page, next) ==
  \E found \in SUBSET page :
    Become(o, [task[o] EXCEPT
      !.pc = next, !.found = found,
      !.failed = IF found = page THEN @ ELSE @ \cup {task[o].pc}])

\* The refresh lists a friend list and saves it, the applicant's first.
ListOf(o, here, u, next) ==
  /\ At(o, here)
  /\ LookUp(o, Listed(u, 0, ListMax), next)
  /\ UNCHANGED <<tables, redis>>

\* The key of u's list goes, and its expiry with it.
Clear(u) ==
  /\ cached' = [cached EXCEPT ![u] = {}]
  /\ lasting' = lasting \ {u}

\* What SADD leaves in a set, and what a plain overwrite would.
Overwritten(old, new) == new
Added(old, new) == old \cup new

\* SetFriends: DEL when there is nobody to add, else SADD, which keeps the
\* expiry of a set that is there and gives a new one none ...
Save(o, here, u, expire, next) ==
  LET new == Added(cached[u], task[o].found)
  IN /\ At(o, here)
     /\ IF task[o].found = {}
        THEN Clear(u) /\ Goto(o, next)
        ELSE /\ cached' = [cached EXCEPT ![u] = new]
             /\ lasting' = IF cached[u] = {} THEN lasting \cup {u} ELSE lasting
             /\ Goto(o, expire)
     /\ UNCHANGED <<tables, expiries>>

\* ... and then EXPIRE, an hour.
SetExpiry(o, here, u, next) ==
  /\ At(o, here)
  /\ lasting' = lasting \ {u}
  /\ Goto(o, next)
  /\ UNCHANGED <<tables, cached, expiries>>

\* The applicant's list saved as the other's, and the other's expiry set
\* instead of his.
SaveFromCrossed(o)   == Save(o, "save_from", to(o), "expire_from", "list_to")
ExpireFromCrossed(o) == SetExpiry(o, "expire_from", to(o), "list_to")

ListFrom(o)   == ListOf(o, "list_from", from(o), "save_from")
SaveFrom(o)   == Save(o, "save_from", from(o), "expire_from", "list_to")
ExpireFrom(o) == SetExpiry(o, "expire_from", from(o), "list_to")
ListTo(o)     == ListOf(o, "list_to", to(o), "save_to")
SaveTo(o)     == Save(o, "save_to", to(o), "expire_to", "ok")
ExpireTo(o)   == SetExpiry(o, "expire_to", to(o), "ok")

(* A failed call of the refresh ends it for that user and is ignored: a    *)
(* failed listing leaves his set alone, a failed SADD leaves out EXPIRE.   *)
SkipList(o) ==
  /\ task[o].pc \in Refresh
  /\ Become(o, [task[o] EXCEPT !.failed = @ \cup {task[o].pc},
                               !.pc = IF task[o].pc \in RefreshFrom THEN "list_to" ELSE "ok"])
  /\ UNCHANGED <<tables, redis>>

----------------------------------------------------------------------------
(* ListFriends answers with the cached set if there is one ...             *)
ReadCache(o) ==
  /\ At(o, "cache")
  /\ IF cached[from(o)] # {}
     THEN Become(o, [task[o] EXCEPT !.pc = "ok", !.found = cached[from(o)]])
     ELSE Goto(o, "page")
  /\ UNCHANGED <<tables, redis>>

(* ... which it also leaves alone when Redis fails, else with the page of  *)
(* rows asked for ...                                                      *)
MissCache(o) == At(o, "cache") /\ Goto(o, "page") /\ UNCHANGED <<tables, redis>>

ReadPage(o) ==
  /\ At(o, "page")
  /\ LookUp(o, Listed(from(o), Payload[o].offset, Payload[o].limit), "save_page")
  /\ UNCHANGED <<tables, redis>>

(* ... and that page is cached, unless it is empty.                        *)
SavePage(o)   == task[o].found # {} /\ Save(o, "save_page", from(o), "expire_page", "ok")
ExpirePage(o) == SetExpiry(o, "expire_page", from(o), "ok")
SkipPage(o) ==
  /\ At(o, "save_page") /\ task[o].found = {}
  /\ Goto(o, "ok")
  /\ UNCHANGED <<tables, redis>>

(* The hour is over.                                                       *)
Expire(u) ==
  /\ expiries < MaxExpiries
  /\ cached[u] # {} /\ u \notin lasting
  /\ Clear(u)
  /\ expiries' = expiries + 1
  /\ UNCHANGED <<tables, task>>

\* IsFriendByErp, which send_to_user asks: is there a key for the two erps
\* put together?  Friend lists are the only keys of that prefix.
IsFriendByErp(u, v) == Joined[{u, v}] # NoUser /\ cached[Joined[{u, v}]] # {}

(* A statement fails, or the server dies: the handler or its goroutine     *)
(* ends and what it did stays done.                                        *)
Fail(o) ==
  /\ task[o].pc \notin Done \cup {"new"}
  /\ Become(o, [task[o] EXCEPT !.pc = "error", !.failed = @ \cup {task[o].pc}])
  /\ UNCHANGED <<tables, redis>>

Apply(o)   == CheckForward(o) \/ CheckBack(o) \/ CheckDuplicate(o) \/ Create(o)
Handle(o)  == Find(o) \/ CheckPair(o) \/ Befriend(o) \/ BefriendBack(o)
             \/ MarkAccepted(o) \/ MarkRejected(o)
Update(o)  == ListFrom(o) \/ SaveFrom(o) \/ ExpireFrom(o) \/ ListTo(o) \/ SaveTo(o)
             \/ ExpireTo(o) \/ SkipList(o)
List(o)    == ReadCache(o) \/ MissCache(o) \/ ReadPage(o) \/ SavePage(o) \/ ExpirePage(o)
             \/ SkipPage(o)

Next ==
  \/ \E o \in Op : Begin(o) \/ Apply(o) \/ Handle(o) \/ Update(o) \/ List(o) \/ Fail(o)
  \/ \E u \in User : Expire(u)

Spec == Init /\ [][Next]_vars

----------------------------------------------------------------------------
\* An accepted request has made the two friends of each other, whatever
\* fails, races or is retried: the update comes last.
AcceptedAreFriends ==
  \A i \in DOMAIN requests : requests[i].status = "accepted" =>
    Friends(requests[i].from, requests[i].to) /\ Friends(requests[i].to, requests[i].from)

\* A friendship is in one direction only while an accept is between its two
\* insertions, or after it failed right there.
HalfOnlyBetweenInserts ==
  \A u, v \in User : Friends(u, v) /\ ~Friends(v, u) =>
    \E o \in Op :
      /\ from(o) = u /\ to(o) = v
      /\ At(o, "befriend_back") \/ "befriend_back" \in task[o].failed

\* Handlers of a request they found.
Answering(o) == task[o].pc \in {"pair", "befriend", "befriend_back", "close"}

\* The promise of friend requests: whatever fails, races or is repeated, two
\* users become friends at the insertion of the second of their rows, by the
\* accept of a request between them, an accept closes a request of friends,
\* and each request is answered only by handlers that found it pending.
Graph == INSTANCE FriendGraph WITH
  Handler <- Op,
  taken   <- {<<o, task[o].id>> : o \in {p \in Op : Answering(p)}},
  asked   <- [i \in DOMAIN requests |-> [from   |-> requests[i].from,
                                         to     |-> requests[i].to,
                                         status |-> requests[i].status]],
  friends <- {p \in User \X User : Friends(p[1], p[2]) /\ Friends(p[2], p[1])}

IsAFriendGraph == Graph!Spec

\* Newer requests filled the listing of requests to the same user that was
\* read when there were seen requests, so that it left request i out.
PushedOut(i, seen) ==
  Cardinality({k \in i + 1 .. seen : requests[k].to = requests[i].to}) >= ListMax

\* Two users have open requests to each other only if the later application
\* had made its duplicate check before the earlier was created, or did not
\* see it for ListMax newer ones.
CrossingOverlap ==
  \A i, j \in DOMAIN requests :
    /\ i < j
    /\ requests[i].from = requests[j].to /\ requests[i].to = requests[j].from
    /\ requests[i].status = "pending"
    => requests[j].seen < i \/ PushedOut(i, requests[j].seen)

\* An answer is final: what ErrFriendRequestHandled of user_service.go:26,
\* "friend request already handled", is for.
HandledOnce ==
  [][\A i \in DOMAIN requests :
       requests[i].status # "pending" => requests'[i].status = requests[i].status]_vars

\* Whose list handler o is to set the expiry of when at pc.
Expires(o, pc, u) == \/ pc \in {"expire_from", "expire_page"} /\ u = from(o)
                     \/ pc = "expire_to" /\ u = to(o)

\* A cached list is without an expiry, and so may stay stale for good, only
\* while a handler is between the SADD and the EXPIRE of it, or after one
\* ended there, whoever else saves, clears or expires it in between.
LastingOnlyBetweenCalls ==
  \A u \in lasting :
    /\ cached[u] # {}
    /\ \E o \in Op : \E pc \in {task[o].pc} \cup task[o].failed : Expires(o, pc, u)

\* A cached list names nobody who is not a friend.
CacheHoldsFriends == \A u \in User : \A v \in cached[u] : Friends(u, v)

\* Once an accept has refreshed both lists each names the other, until it
\* expires, as long as no refresh failed to list or look up friends: no list
\* computed earlier and saved later takes a name out.  (A list holds the
\* newest ListMax friends only.)
RefreshedListsFriend ==
  \A o \in Op :
    /\ kind(o) = "accept" /\ At(o, "ok") /\ task[o].failed = {} /\ expiries = 0
    /\ \A p \in Op : task[p].failed \cap {"list_from", "list_to"} = {}
    /\ \A u \in {from(o), to(o)} : Cardinality({v \in User : Friends(u, v)}) <= ListMax
    => to(o) \in cached[from(o)] /\ from(o) \in cached[to(o)]

\* Users whose cached lists name each other pass the check of send_to_user:
\* "the key exists if they are friends" of login_token_store.go:115.
CachedFriendsPass ==
  \A u, v \in User : v \in cached[u] /\ u \in cached[v] => IsFriendByErp(u, v)

\* Nobody has two open requests to the same user: what the refusal
\* "pending friend request already exists" of user_service.go:29 is for.
NoDuplicatePending ==
  \A i, j \in DOMAIN requests :
    /\ requests[i].status = "pending" /\ requests[j].status = "pending"
    /\ requests[i].from = requests[j].from /\ requests[i].to = requests[j].to
    => i = j
============================================================================
