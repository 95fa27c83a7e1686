# A TLA+ model of im_backend

im_backend is a Go instant-messaging server: HTTP handlers (gin) for accounts,
login, friends and message history, and socket.io handlers for connections, user
binding and sending. Several server processes ("nodes") share one MySQL and one
Redis; every HTTP request and socket event runs in its own goroutine. There are no
transactions over several SQL statements and no distributed locks, so what must be
got right is the interleaving of handlers between their store calls, and what stays
behind when one of several calls fails. That is what these modules are about.

Paths below are relative to the repository (`src/` in PROJECT.json).

## 1. Inventory

| Component | State it keeps | Operations | Interacts with |
|---|---|---|---|
| **Socket registry**: `internal/service/socket_service.go`, `internal/redisstore/socket_binding_store.go`, handlers `connection`, `bind_user`, `disconnect` in `api/socket/server.go` | per node: connection store, `erpToSocket`, `socketToErp`; in Redis: one user key and one conn key per binding, without expiry | connect, bind (check token, maps, GET, MULTI/EXEC), unbind (maps, GET, MULTI/EXEC) | reads login tokens; is read by routing |
| **Group chat**: `internal/service/chat_service.go`, message, conversation and member repositories, handler `send_to_group` | tables `message`, `conversation` (`last_message_id`), `conversation_member` | SendGroupMessage: type check, membership, de-duplication look-up, insert, update, paged member listing; then the fan-out loop | hands every recipient to routing |
| **Friend requests and lists**: `internal/service/user_service.go`, two repositories, `SetFriends`/`GetFriends` | tables `friend_request`, `friendship`; Redis set `friend:<erp>` with an hour's expiry | apply, accept (with a refresh goroutine), reject, list | login is not required by these handlers |
| **Login tokens**: `user_service.go`, `internal/redisstore/login_token_store.go` | Redis `login:token:userinfo:<token>` and `login:erp:token:<erp>` | login, logout | `bind_user` checks the token |
| **Message routing**: `server.go`, `socket_service.go` ResolveTargetSocketID | none of its own; a Redis pub/sub channel | emit locally, or PUBLISH and consume on every node; `send_to_user` | registry, friend key, rate limiter |
| **Send rate limiter**: `server.go` | a token bucket per socket | allow, remove | refuses bind_user, send_to_user, send_to_group |
| **Message history** | none (a read-only query) | page with `beforeId` | tables of group chat |
| **User accounts** | table `user` | register, apply account, look up | all others name accounts |
| **Controllers and router, health probes, configuration and migration** | none | decode, call, encode | all |

Where the difficulty lies, and what makes each component correct:

* *Registry.* Handlers of the same user run on different sockets and nodes; memory
  is guarded by a mutex, Redis is read and then written without WATCH; nodes die and
  leave keys behind. Correct means: a user is routed to his newest socket, a late
  disconnect does not take a newer route away, nobody is filed under a user he did
  not prove to be, the two directions agree, a closed socket is forgotten. The last fails
  when handlers of one socket overlap, the first in Redis when those of two nodes do.
* *Group chat.* Retries with the same `clientMsgId` overlap; a request can fail after
  any statement; membership moves under the paging loop. Correct means: stored once,
  distributed if acknowledged, nobody handed a message twice or left out,
  `last_message_id` names the last message.
* *Friends.* Accept writes two rows and a status in three statements; two handlers
  find the same request; cached lists are computed, then saved. Correct means:
  accepted implies friends both ways, half friendships do not last, a cached list
  has no strangers, misses no friend and expires, and a request is handled once, which two
  overlapping handlers break.
* *Login.* Four or five Redis commands, all of which may fail, overlap with those of
  other logins and logouts of the user. Correct means: one session per user and no
  token without expiry.
* *Routing.* The sender's node, Redis and the receiving node each look the addressee
  up, and he may bind, disconnect or be displaced between any two of the look-ups;
  Redis pub/sub drops what nobody receives. Correct means: only the addressee receives a
  message, not twice on a socket, in order, and when it was published, at the socket
  where he stayed.
* *Rate limiter.* The clock is read before the mutex is taken and the bucket is removed
  by a handler of its own. Correct means: no stretch of time holds more events than the
  burst and the rate allow, and no event is refused that would have fitted.
* *History.* Pages are read while messages are stored. Correct means: who scrolls back
  with `beforeId` meets every message once.

## 2. Modules

| Module | What it is |
|---|---|
| `UserDirectory` | abstract: a set of (socket, user) bindings in which a claim displaces what it conflicts with, atomically, and only a closed socket gives its binding up |
| `SocketRegistry` | the registry; two instances of `UserDirectory` refine it: memory (one directory per node) and Redis (one for the cluster) |
| `SocketRouting` | EXTENDS `SocketRegistry`: how a message finds its addressee while the registry's handlers run on |
| `WindowLimit` | abstract: an event comes with a clock reading and passes if and only if, as of that reading or the latest of its socket, no stretch of time gets more than the burst and the rate allow |
| `RateLimiter` | the token bucket, which refines `WindowLimit` |
| `GroupBroadcast` | abstract: messages are posted by members and heard, once at most, by others who were members at some time since |
| `GroupChat` | send_to_group and the member table under it, which refine `GroupBroadcast` |
| `MessageHistory` | EXTENDS `GroupChat`: the query for older messages over its growing table |
| `FriendGraph` | abstract: two users become friends of each other in one step, out of a request between them, and only handlers that took a request while it was pending answer it |
| `FriendRequests` | friend requests, friendships and cached friend lists; the two tables refine `FriendGraph` |
| `LoginTokens` | login and logout |
| `MC<module>` | instances for TLC: small constants, payloads, symmetry |
| `<module>Proofs` | the theorems about a module, checked by tlapm |

The component modules share one form. A handler is a process with a program
counter and the values it has read; each action is the code between two points at
which another handler can get in: a section under the mutex, one SQL statement, one
Redis command or one MULTI/EXEC. Reads are actions of their own because what they
returned is used later. Names of actions are those of the calls; PROJECT.json `map`
gives the lines. Parameters are constants with a named assumption; which handlers are
asked what is a constant function (`Payload`, `Accounts`, `ErpOf`).

### SocketRegistry

`sockState` is the connection store ("open" iff listed), `erpToSocket` and
`socketToErp` the two maps of each node, `userKey` and `connKey` the Redis keys,
`proc` the handlers, `staleExec` and `lateBind` history: whether an EXEC acted on an outdated
GET, and which sockets were bound after their disconnect had unbound them. `bind_user` is BindCheck (all checks;
a refusal changes nothing), BindMem, BindGet, BindExec; `disconnect` is Disconnect,
UnbindMem, UnbindGet, UnbindExec. RedisFail ends a handler at a Redis command with
what it did in memory done; Crash clears one node's memory and leaves Redis alone.
`SerialDispatch` says whether socket.io runs the handlers of one socket one at a time; everything about
the registry is checked and proved without that help.

As a `UserDirectory` a binding is a pair on which the two maps (or the two keys) agree; BindMem (or
BindExec) is Claim, and Disconnect, UnbindMem, UnbindExec and Crash are Close. A Claim may displace a
third socket of the scope, which has switched users: its first user's forward entry still names it (see
`File`), so when that user binds elsewhere, the second binding goes although the socket is open, and what
its client sends is refused as unbound. The directory allows that to such a claim and to nothing else.

### SocketRouting

`send` holds each message's handler: its step, the socket it found, and as history the nodes
that got the publication and whether the user's newest socket was open when Redis did not
know him. A message of `Group` is one recipient in the loop of `send_to_group`, any other a
`send_to_user`; both go through ResolveLocal, ResolveRedis, EmitHere and Publish, the latter
after SendToUser and CheckFriend. `channel` and `consumer` are the subscription and
consumer goroutine of each node (Take looks the addressee up again, Deliver emits),
`emitted` what came out at each socket. Serve is every step of the registry, CrashAll its Crash
with the node's sending handlers and its subscription; `newest` and `steady` are history
that Watch keeps. Publish reaches any set of nodes, which stands for subscriptions that
are down and queues that overflow, and may report an error all the same. A PUBLISH returns
before the handler goes on, so the publications of one client enter a node's queue in order.
CheckFriend leaves the outcome open (the check itself is IsFriendByErp of FriendRequests).

### RateLimiter

`now` is the clock, `bucket` the map of states, `handler` the event handlers: Arrive reads
the clock, then AllowFirst, AllowNext or Refuse is the section under the mutex; a handler may come to it
after Disconnect, which closes the socket and drops its bucket. `passed` and `late` are history: the reading
at which each event went through, and the events that waited for the mutex when their socket closed. Tokens are counted in parts so that they stay integers: `Second` parts are a token
and `Rate` parts flow in per tick. A reading older than the bucket's does not refill it and
does not turn it back. As a `WindowLimit`, `handler` is `call` and `lastRefill` is `latest`: an event is
judged as of its own reading or the latest one judged before, so the outcome is no choice, of a refusal
either. The handlers' refusals change nothing outside the limiter, so the other modules leave them
out or, like SendToUser, take them as a choice.

### GroupChat

`members` holds the live rows of each conversation in id order, `past` the
soft-deleted ones (the unique index on conversation and user counts them, so a removed
user cannot be added again), `messages` the message table, `lastMsg` the column
`last_message_id`, `task` the handlers, `routed` what was handed to routing for each
user. A request comes from
a socket bound to an erp, `UserOf` is the number `ParseUint` reads in that, and `sender` the user whose id the
number is. Nothing ties it to the account with that erp: two erps may be one number, an erp that is no
number cannot send, and a number that is nobody's id is refused like that of any other user who is no member. `watch` and a message's `gone` (who
had been removed before it was stored) are history. Begin, CheckMember, LookupNothing/LookupFirst, Insert, Touch, ListPage (one page
of `listRecipientUserIDs`), FanOut (one recipient, at last the acknowledgement), Fail at any point.
A retry is another request with the same payload. Join and Leave are the `Create` and
`DeleteByID` of the member repository; nothing in the repository calls them, so
the environment does, whenever it likes. FanOut hands a recipient to routing; SocketRouting takes
him up at NextRecipient. As a `GroupBroadcast`, Insert is Post, FanOut is Hear (of the recipient it
hands over) and every other step of a request changes nothing.

### MessageHistory

HistoryPage is the query (`beforeId`, offset, limit with its default and maximum), a function of
the messages of GroupChat; nothing is added to the state.

### FriendRequests

`requests` and `rows` are the two tables, `cached` the Redis sets, `task` the handlers
with the steps at which one of their calls failed. Begin dispatches to
ApplyFriendRequest (CheckForward, CheckBack, CheckDuplicate, Create), accept (Find,
CheckPair, Befriend, BefriendBack, MarkAccepted, then the refresh goroutine ListFrom,
SaveFrom, ExpireFrom, ListTo, SaveTo, ExpireTo, any of which SkipList may skip), reject (Find, MarkRejected)
and ListFriends (ReadCache/MissCache, ReadPage, SavePage/SkipPage, ExpirePage). Saving adds to a set
(SADD does not replace it, and does not touch its expiry); EXPIRE is a second command, and `lasting` are
the lists that have no expiry yet. LookUp leaves out friends whose account cannot be read.
IsFriendByErp is the check `send_to_user` makes on the same keys: it puts both names together and
asks for the friend key of the result. `Joined` says which user, if any, has that name. As a
`FriendGraph`, two users are friends when both rows are there, so the insertion of the second is Befriend;
Create is Ask, Find is Take, MarkAccepted and MarkRejected are Answer. `taken` are the requests that
handlers have found pending and not answered yet: only those are answered, once by each handler, but two
handlers that took a request together both answer it (`friends_handled_twice`). A half friendship shows
only as no friendship yet.

### LoginTokens

`info[t]` says whether the user info of token `t` is absent, without or with expiry;
`current` is the token of each user. Login is Begin, ReadOld, CheckOld, DeleteOld,
WriteHash, SetExpiry, WriteName; logout is BeginLogout, ReadInfo, Unname, Delete;
FailLogin and FailLogout end either anywhere. Ignored errors are choices: ReadOld
may find nothing, DeleteOld may do nothing. `gap` is history: it records the three things
after which a user may have two sessions (a login wrote over a token it had not read, a
logout took away a newer token's name or ended with its token valid and nameless, the
deletion of an old token was lost).

## 3. Runs

| Run | Question | Instance |
|---|---|---|
| `registry` | do the maps and keys agree and implement a directory, and is a closed socket forgotten? | 2 nodes, 3 sockets (one may switch users), 2 users, 2 goroutines, handlers of one socket may overlap |
| `registry_redis_race` (violation) | does the shared route outlive an old disconnect? | 2 nodes, 3 sockets of one user, 2 goroutines, handlers of one socket one at a time |
| `routing` | who receives a message, how often, in which order | sender bound on node 1; the addressee's sockets on nodes 1 and 2; one `send_to_user` and one fan-out message; one registry handler at a time; crashes |
| `limiter` | is the bucket a window limit, and what stays behind? | four events of a socket with overlapping handlers, one of another; burst 2, half a token per tick, 5 ticks |
| `group` | distribution, de-duplication, `last_message_id`, answers, history | a message and its retry (the same number in another erp) with 2 membership changes, or with a message in another group under the same clientMsgId, or with a second retry once both are stored; one message to a non-group, one from an erp that is no number; 4 users, pages of 2; fairness |
| `group_retry_race`, `group_lost_broadcast` (violations) | stored once? acknowledged implies distributed? | a message and its retry |
| `friends` | accept, half friendships, crossing requests, cached lists | two applications that cross with two accepts, one reject and one expiry, or two accepts with a common friend and one listing; a handler fails once at most (`MaxFailures`) |
| `friends_duplicate` (violation) | one open request per pair? | two applications |
| `friends_handled_twice` (violation) | is an answer to a request final? | an accept and a reject of one request |
| `friend_check` (violation) | do friends pass the check of `send_to_user`? | one accept |
| `login` | one session, expiry | three logins of one user, one of another, two logouts |

`group` and `friends` run under the MCSpec of their MC module: `MCNext` has the same actions as `Next`,
taken by the handlers of one of the scenarios in the table at a time, since all of them at once add
states and no case. In `friends` only accepts and rejects fail: an application or a listing writes, if at
all, in its last statement, and one that failed before is as good as none.

What the passing runs show, and why their bounds are enough:

* `registry`: RouteLostOnlyWithItsSocket (the late disconnect is harmless in memory),
  ReverseAgrees, OnlyOwnAccounts, and in Redis the same "unless some EXEC acted on an outdated
  GET". MemoryIsADirectory and RedisIsADirectory are refinements of `UserDirectory`, also for clients that
  switch users, which say of every lost binding whose closing or claim took it; in Redis the refinement
  runs until an EXEC acts on an outdated GET (`registry_redis_race` shows such a step).
  ForgottenUnlessLateBind says that a closed socket is filed under a user only until its disconnect
  has the mutex, and that the one exception is a bind_user handler of that socket which comes to the mutex after
  it. That does happen here, because socket events run in goroutines of their own, and nothing removes the
  entry then. Two overlapping goroutines are what a race between a read and a write needs, three
  sockets give one user an old and a new socket on a node and one on another, and two
  users give a socket something to switch to. A crash is possible at every point.
* `group`: pages of two over three members make three pages possible (full, full or
  short, empty), and two changes let a leave and a join meet in one listing. RoutedToAll
  excludes listings during which somebody left: a row that goes shifts later rows under the
  running offset, and a member is skipped, which the paging of
  `docs/current-capabilities.md:65` is meant to avoid. PageSize and PageMax are equal in
  the code (500), and so they are here. LastMsgSetBackByOverlap says that `last_message_id`
  goes back only when two requests overlap between insertion and update.
  DuplicatesOverlap says that a duplicate needs a look-up before the other's
  insertion; DedupNamesFirst that a de-duplicated answer names the first stored message of its group, for
  which a message and its retry (r1, r2) race and a second retry (r5) looks up the two of them.
  IsABroadcast is the refinement of `GroupBroadcast`. It says what the one check of membership is worth: whose
  message is stored has been a member (he may have been removed by then); and of the recipients, listed page
  by page and served later, that nobody removed before a message was stored hears it, though one removed
  between the listing and the loop does.
  PagesJoin and PagesStable are about every cursor, a page size that falls back to the default and one
  that is cut to the maximum:
  the pages read by following the oldest id neither repeat nor skip, and what is below a cursor is
  not moved by what is stored meanwhile.
* `friends`: with both directions applied for and accepted at once and a reject
  between, every pair of handlers of one request occurs. HalfOnlyBetweenInserts allows a
  one-sided friendship while an accept is between its two insertions, or when one failed
  there (the next accept of that pair is then refused). Two handlers that found the same
  request both write its status, and the later wins (`friends_handled_twice`); AcceptedAreFriends holds
  all the same. One failure for each handler is enough: a handler ends with it, but for the refresh, whose
  failures are each of one call, and the list of one user is refreshed without regard to the other's.
  CrossingOverlap bounds what CheckDuplicate misses: a request stored after the check, or one that
  200 newer requests to the same user (`ListMax`) had pushed out of the listing the check reads.
  IsAFriendGraph is the refinement of `FriendGraph`: however accepts and rejects interleave, fail
  or repeat, friendship is symmetric, comes of a request and is there before the request is accepted, and
  no handler answers a request that it did not find pending or has answered.
  LastingOnlyBetweenCalls says when a cached list may have no expiry, and stay stale for good: while a
  handler is between its SADD and its EXPIRE, or after one ended there; other handlers that save, clear or
  expire the same set in between do not make it last.
  RefreshedListsFriend says that a list computed before another accept
  and saved after it does not take the new friend out, because SADD merges; the mutant
  that overwrites breaks it. It is stated for refreshes that failed at no look-up and users
  with at most ListMax friends, since ListByUser returns the newest only. A list served
  from the cache is not cut to `offset` and `limit` (`ReadCache`).
* `login`: a third login of the user is needed so that a logout's stale read can unname a
  token which a further login then does not see.
* `routing`: OnlyToAddressee is about sockets that bind, close and are displaced between the three
  look-ups. EmittedOnce allows two copies only on two nodes and only of a published message: a
  user bound on two nodes does receive it twice, since every consumer asks its own map.
  InOrderUnlessUserMoved names the one way in which a client's later message overtakes an
  earlier one: it is emitted directly because the user has come to the sender's node, while the
  other is still in its queue. PublishedReachesSteadySocket says that a publication reaches every
  socket its addressee has been bound to ever since the look-up, if the node gets it, even when Redis
  named another socket or PUBLISH reported an error; nothing is promised of a user who moves.
  OfflineOnlyIfStale says when "target user offline" is wrong although Redis answers. Two
  messages are what an order needs, two nodes with a socket each (and the sender's) what a move needs.
* `limiter`: IsAWindowLimit is the refinement of `WindowLimit`, which decides passing and refusing alike
  (a limiter that refuses for ever once its burst is used breaks it: the mutant `RefillNever`), and
  WindowBound the bound it gives for any stretch of time. Two events more than the burst of two, and ticks of
  half a token, reach a full, an empty and a fractional bucket and readings that come to it in the wrong order.
  The configured rate 0 takes the default. LeftByLateHandler says exactly when a closed socket leaves a bucket
  behind, for ever: when a handler that had read the clock comes to the mutex after the disconnect.

Liveness. EveryRequestAnswered assumes only that some handler at work goes on (each has finitely much to do):
a goroutine is scheduled, and SQL and go-redis calls return or time out. No fairness is assumed of clients,
membership changes or failures, and none for the start of a handler.

### What the violations show

Each quotes a sentence of the repository in PROJECT.json `findings`.

1. A disconnect that read its conn key before a reconnect elsewhere deletes the new route in Redis (`registry_redis_race`).
2. Overlapping retries of one clientMsgId are both stored (`group_retry_race`).
3. A request that fails after storing its message is acknowledged on retry and distributed to nobody (`group_lost_broadcast`).
4. Applying twice in the same direction leaves two open requests (`friends_duplicate`).
5. An accept and a reject of one request both find it pending and both answer it, so an answered request changes its answer (`friends_handled_twice`).
6. `send_to_user` asks for a friend key nobody writes, so friends whose cached lists name each other are refused (`friend_check`).

A smaller divergence has no run: the comment at `internal/service/user_service.go:431` says that a login
is refused while a token is valid; the code at 436 deletes that token and goes on (DeleteOld), which is
what OneSession relies on.

## 4. Proofs

The theorems hold for every value of the constants that satisfies the named assumption of
the module; those say only that payloads and maps have their types, that the absent
values are not members, that page sizes are positive and that initial members are distinct.

* `SocketRegistryProofs`. The inductive invariant `IInv` adds to the checked invariants what a
  handler carries (HandlersCarry: its socket has connected, its user is one whose token was
  checked, a disconnecting socket is closed) and that routes are local (RoutesAreLocal).
  ReverseAgrees is the heart: UnbindMem deletes its user's route whatever it names, and
  ReverseAgrees says it names the closing socket. Proved: Invariant, TypeCorrect, MapsAgree,
  NoImpersonation, RedisKeysAgree, the two action properties LateDisconnectHarmless and
  RedisRouteOnlyLostStale, the refinements MemoryRefines and RedisRefines, and ClosedForgotten. None
  assumes more of the clients than that they hold the tokens of `Accounts`.
* `SocketRoutingProofs`. RoutingKeepsRegistry makes every theorem about the registry one about routing as
  well. `AddressInv` adds to `IInv` that each socket a handler or consumer holds is of a client who has
  proved to be the addressee (TargetsProven), and that Redis names a user's newest socket unless that is
  closed or an EXEC was stale (NewestInRedis). `OnceInv` says where a message can be: a queue holds it
  once, no socket of that node has it yet, and what is out was either emitted by the sender's node or
  published. `OrderInv` adds that a client's messages are taken up in turn and stand in each queue in
  order, `SteadyInv` that a publication at a steady socket's node has come out there or waits. Proved:
  AddressInvariant, RoutingTypeCorrect, NoStrayMessage, OfflineNeedsStale, DeliveryInvariant, NoDuplicate,
  MessagesInOrder, SteadySocketServed.
* `RateLimiterProofs`. `Room(ts, i, t)` is what events i and later leave of the burst at time t. The
  invariant is that a bucket holds at most the room of every i (`Bounded`) and exactly the room of some i
  (`Exact`), so that "less than one token" and "does not fit" are the same. Each clause is needed for the
  other: capping the bucket is what keeps it exact. Proved, for every rate, burst and tick:
  LimiterInvariant, LimiterTypeCorrect, the refinement BucketIsWindowLimit, BurstBound, LateHandlersLeaveBuckets.
* `MessageHistoryProofs`. PagesStay: ids only grow, so a row below a cursor keeps its rank.
  ScrollMeetsAll counts: a page is the rows below its cursor whose rank is within the limit
  (PageIsNewest), so a row below the cursor that is not on it is older than all that are (NewestFew),
  and the next page starts at the oldest of those.
* `GroupChatProofs`. `StoreInv` (what is stored: messages and requests name each other, what
  each look-up saw) and `RouteInv` (what is handed out). The latter needs MemberRows (one row
  per user, none beside a deleted one) and Collected: a recipient already collected has either left for
  good or stands at a row the running offset has passed, so no later page brings him again.
  `SenderInv`, for the refinement, carries from CheckMember to Insert that the sender has been a member;
  nobody becomes a stranger to a conversation, since removal only moves him to `past`.
  Proved: StoreInvariant, GroupTypeCorrect, DuplicatesNeedOverlap, DedupIsFirst,
  LastMsgNeedsOverlap, NobodyTwice.
* `GroupDeliveryProofs`. `ReachInv` adds what a listing nobody leaves has reached (StayersListed:
  those who stayed have a row until it ends, and every row the running offset has passed is the
  sender's or collected, rows of later members included) and what the loop has handed out (HandedSoFar).
  A short page ends past the last row, because the size asked for is not above the
  repository's clamp (the assumption PageSize <= PageMax). `AudienceInv` says the recipients a
  request holds are members, or were when they were listed, and none had been removed before its message
  was stored (a removed user cannot come back, because of the unique index). With NobodyTwice it
  makes every step of the handlers a step of `GroupBroadcast` or none. Proved: EveryStayerReached,
  GroupIsABroadcast.
* `FriendRequestsProofs`. Rows are only ever added, so what a handler has seen or done stays
  true (`Grown`); `Holds` states what each handler knows at each step. `RefreshInv` follows the refresh of
  an accept: what it has listed or saved names the new friend unless the user has more friends than
  a listing returns (`Big`), which rests on there being one row per pair (RowsUnique), so
  that ListMax rows are ListMax friends. `CrossInv` keeps what a duplicate check has seen: every open request
  across was pushed out (`Saw`); ids only grow and a request once closed is never open again. ListsGetAnExpiry needs only that a set that has no expiry is there, so that SADD by
  another handler leaves that to the one who made it. The refinement needs
  `Holds` for the second insertion and the closing, and NotSelf (nobody applies to himself). Proved:
  FriendInvariant, FriendTypeCorrect, AcceptedMadeFriends, HalfNeedsAccept, CacheSound, RefreshedBothWays,
  ListsGetAnExpiry, CrossingNeedsOverlap, FriendsFormAGraph.
* `LoginTokensProofs`. `Named`: a session is named by its user's key or is being logged out; it is
  inductive with `OldEnded` (the token a login deleted stays deleted, because keys name only
  tokens whose login is over, `NamesEnded`), both unless a gap is on record. Proved:
  LoginInvariant, LoginTypeCorrect, SingleSession, TokensExpire.

Every invariant and action property and every refinement that a passing run checks is proved.
Only model-checked are the liveness property EveryRequestAnswered (temporal reasoning under fairness is beyond
this prover) and the violations.

## 5. What is abstracted, and what is not modelled

* Contents, wording, times and lengths are left out. A token proves one user; a hash
  of passwords is a choice. Friendship `status` and `remark` and message contents are
  dropped; the code never branches on them.
* A failed store call has not been applied, or has been and is followed by the handler's
  failure; retries inside go-redis and gorm are not modelled. A MULTI/EXEC is atomic.
* Set-ups without MySQL or Redis (`store == nil`, `db == nil`) are left out: they answer
  "not ready" or keep to one node.
* Users named by handlers exist. `limit <= 0` becomes 50 in the code; listings here
  have a positive limit.
* `UserOf` leaves out that ParseUint reads 64 bits and that the number goes back to text (FormatUint) for the
  look-up of a recipient's socket; routing takes the text as the erp of its addressee.
* An insertion is visible at once. InnoDB hands out an id before the row is visible, so for a
  moment a message may be missing below a newer one; PagesStable speaks of what comes after.
* Tokens of the limiter are exact; float64 rounds them, by far less than a token.
* A queue of the consumer holds what it was given in order; go-redis drops what does not fit, which here is a
  publication the node never gets.

Not modelled:

* User accounts: ApplyAccount is one SELECT and one INSERT, and only the unique indexes on `erp` and `phone`
  decide a race between two of them (the loser is answered with "failed" instead of "already exists"). What could be stated
  would be a statement about MySQL. The other modules take the accounts as a constant set.
* Controllers and router: their choice of call and the ranges they let through are in the actions of the modules
  above; decoding, status codes and CORS are wording.
* Health and MySQL probes (pings), configuration, wiring and migration (sequential, before any handler runs).
  The fall-back of the limiter's rate and burst is in `Rate` and `Burst`.
* Repository methods nothing calls (counts, listings of users and conversations, updates of members).

## 6. Plan

Done, in the order of importance: SocketRegistry, GroupChat, FriendRequests, LoginTokens, SocketRouting,
RateLimiter, MessageHistory, each with proofs.

The abstract specifications are `UserDirectory`, `WindowLimit`, `GroupBroadcast` and `FriendGraph`, each with a
refinement checked and proved.

Left: accounts, if the look-up before the insertion ever decides more than the wording of an answer.
