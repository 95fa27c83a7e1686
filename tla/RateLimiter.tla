---------------------------- MODULE RateLimiter ----------------------------
(***************************************************************************)
(* socketRateLimiter of api/socket/server.go, a token bucket per socket    *)
(* that every event handler but "message" asks first.  Allow reads the     *)
(* clock before it takes the mutex, so handlers may come to the bucket in  *)
(* another order than that of their readings, or after a disconnect.       *)
(* Tokens are exact here (float64 in the code) and counted in parts: one   *)
(* token is Second parts, and Rate parts flow in with every tick.          *)
(***************************************************************************)
EXTENDS Integers, Sequences

CONSTANTS
  Sock, Event,
  SockOf,       \* the socket an event is received on
  ConfigRate,   \* SOCKET_SEND_RATE, events a second
  ConfigBurst,  \* SOCKET_SEND_BURST, events
  DefaultRate,
  Second,       \* ticks in a second
  MaxTime,      \* bound: the last clock reading
  NoBucket

ASSUME LimiterAssumption ==
  /\ SockOf \in [Event -> Sock]
  /\ ConfigRate \in Int /\ ConfigBurst \in Int
  /\ DefaultRate \in Nat \ {0}
  /\ Second \in Nat \ {0}
  /\ MaxTime \in Nat

\* newSocketRateLimiter
Rate  == IF ConfigRate <= 0 THEN DefaultRate ELSE ConfigRate
Burst == IF ConfigBurst <= 0 THEN Rate ELSE ConfigBurst

VARIABLES
  now,      \* the monotonic clock, in ticks
  open,     \* sockets that have not disconnected
  bucket,   \* states, per socket: its tokens and lastRefill, or NoBucket
  handler,  \* per event: how far its handler is and the clock it has read
  passed,   \* history: per socket, lastRefill at each event its bucket let through
  late      \* history: events that waited for the mutex when their socket closed

limVars == <<now, open, bucket, handler, passed, late>>

Time   == 0 .. MaxTime
Full   == Burst * Second
Bucket == [tokens : 0 .. Full, last : Time]

ASSUME NoBucketAssumption == NoBucket \notin Bucket

\* A bucket never holds less than nothing or more than the burst.
LimiterTypeOK ==
  /\ now \in Time
  /\ open \subseteq Sock
  /\ bucket \in [Sock -> Bucket \cup {NoBucket}]
  /\ handler \in [Event -> [pc : {"new", "waiting", "allowed", "refused"}, read : Time]]
  /\ passed \in [Sock -> Seq(Time)]
  /\ late \subseteq Event

LimiterInit ==
  /\ now = 0
  /\ open = Sock
  /\ bucket = [s \in Sock |-> NoBucket]
  /\ handler = [v \in Event |-> [pc |-> "new", read |-> 0]]
  /\ passed = [s \in Sock |-> <<>>]
  /\ late = {}

Waiting(v) == handler[v].pc = "waiting"

Tick == now < MaxTime /\ now' = now + 1 /\ UNCHANGED <<open, bucket, handler, passed, late>>

(* An event arrives and its handler reads the clock.                       *)
Arrive(v) ==
  /\ handler[v].pc = "new"
  /\ SockOf[v] \in open
  /\ handler' = [handler EXCEPT ![v] = [pc |-> "waiting", read |-> now]]
  /\ UNCHANGED <<now, open, bucket, passed, late>>

\* Allow returns.
Answer(v, pc) == handler' = [handler EXCEPT ![v] = [pc |-> pc, read |-> 0]]

Pass(v, b) ==
  /\ bucket' = [bucket EXCEPT ![SockOf[v]] = b]
  /\ passed' = [passed EXCEPT ![SockOf[v]] = Append(@, b.last)]
  /\ Answer(v, "allowed")
  /\ UNCHANGED <<now, open, late>>

(* The first event of a socket, or the first after its bucket was removed. *)
AllowFirst(v) ==
  /\ Waiting(v)
  /\ bucket[SockOf[v]] = NoBucket
  /\ Pass(v, [tokens |-> Full - Second, last |-> handler[v].read])

Least(x, y) == IF x <= y THEN x ELSE y

\* The cap left out; a reading that is behind taken like any other; the time
\* that has passed noted and nothing poured in for it.
RefillUncapped(b, t) ==
  IF t > b.last THEN [tokens |-> b.tokens + Rate * (t - b.last), last |-> t] ELSE b
RefillAlways(b, t) == [tokens |-> Least(b.tokens + Rate * (t - b.last), Full), last |-> t]
RefillNever(b, t) == IF t > b.last THEN [b EXCEPT !.last = t] ELSE b

\* Bucket b at clock reading t.
Refill(b, t) ==
  IF t > b.last
  THEN [tokens |-> Least(b.tokens + Rate * (t - b.last), Full), last |-> t]
  ELSE b

\* The limit is half a token early.
EnoughForHalf(b) == 2 * b.tokens >= Second
Enough(b) == b.tokens >= Second

AllowNext(v) ==
  LET b == Refill(bucket[SockOf[v]], handler[v].read)
  IN /\ Waiting(v)
     /\ bucket[SockOf[v]] # NoBucket
     /\ Enough(b)
     /\ Pass(v, [b EXCEPT !.tokens = @ - Second])

(* A refused event leaves the bucket refilled.                             *)
Refuse(v) ==
  LET b == Refill(bucket[SockOf[v]], handler[v].read)
  IN /\ Waiting(v)
     /\ bucket[SockOf[v]] # NoBucket
     /\ ~Enough(b)
     /\ bucket' = [bucket EXCEPT ![SockOf[v]] = b]
     /\ Answer(v, "refused")
     /\ UNCHANGED <<now, open, passed, late>>

\* The handlers of a socket at the mutex.
WaitingOn(s) == {v \in Event : SockOf[v] = s /\ Waiting(v)}

\* The disconnect handler without its call of Remove.
CloseOnly(s) ==
  /\ s \in open
  /\ open' = open \ {s}
  /\ late' = late \cup WaitingOn(s)
  /\ UNCHANGED <<now, bucket, handler, passed>>

(* The disconnect handler drops the bucket.                                *)
Disconnect(s) ==
  /\ s \in open
  /\ open' = open \ {s}
  /\ bucket' = [bucket EXCEPT ![s] = NoBucket]
  /\ passed' = [passed EXCEPT ![s] = <<>>]
  /\ late' = late \cup WaitingOn(s)
  /\ UNCHANGED <<now, handler>>

LimiterNext ==
  \/ Tick
  \/ \E v \in Event : Arrive(v) \/ AllowFirst(v) \/ AllowNext(v) \/ Refuse(v)
  \/ \E s \in Sock : Disconnect(s)

LimiterSpec == LimiterInit /\ [][LimiterNext]_limVars

----------------------------------------------------------------------------
\* The latest reading of a socket is its bucket's, which a refused event also
\* moves.
lastRefill == [s \in Sock |-> IF bucket[s] = NoBucket THEN 0 ELSE bucket[s].last]

Window == INSTANCE WindowLimit WITH call <- handler, latest <- lastRefill

\* The bucket lets an event through exactly when no stretch of time would get
\* more than the burst and what has flowed in, in whatever order the handlers
\* get to the mutex: the token bucket per connection of
\* docs/current-capabilities.md:58.  Time counts for an event up to its own
\* clock reading or a later one of its socket, so nobody is refused who has
\* waited long enough, and what was refused costs nothing.
IsAWindowLimit == Window!WindowSpec

\* Any events i to j that a bucket has let through, however they are spread
\* and whatever was refused between, are no more than the burst and what has
\* flowed in from i to j (server.go:64).
WindowBound ==
  \A s \in Sock : \A i, j \in DOMAIN passed[s] : i <= j =>
    (j - i + 1) * Second <= Full + Rate * (passed[s][j] - passed[s][i])

\* The map holds a bucket of a closed socket, and then for good, exactly when
\* a handler of it had read the clock before the disconnect and came to the
\* mutex after Remove (server.go:569): nothing else is left behind, and one
\* such handler is enough.
LeftByLateHandler ==
  \A s \in Sock \ open :
    bucket[s] # NoBucket <=>
      \E v \in late : SockOf[v] = s /\ handler[v].pc \in {"allowed", "refused"}
============================================================================
