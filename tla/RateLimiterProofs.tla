-------------------------- MODULE RateLimiterProofs ------------------------
(***************************************************************************)
(* The token bucket of RateLimiter is the limit of WindowLimit, whatever   *)
(* the rate, the burst, the events and the order the handlers come in.     *)
(***************************************************************************)
EXTENDS RateLimiter, SequenceTheorems, TLAPS

(* newSocketRateLimiter never sets up a limiter without rate or burst.     *)
LEMMA Positive ==
  /\ Rate \in Nat \ {0} /\ Burst \in Nat \ {0} /\ Second \in Nat \ {0}
  /\ Full \in Nat /\ Second <= Full /\ \A t \in Time : t \in Nat
<1>1. Rate \in Nat \ {0} /\ Second \in Nat \ {0}
  BY LimiterAssumption DEF Rate
<1>2. Burst \in Nat \ {0}
  BY <1>1, LimiterAssumption DEF Burst
<1>3. \A x, y \in Nat \ {0} : x * y \in Nat /\ y <= x * y
  OBVIOUS
<1>4. QED
  BY <1>1, <1>2, <1>3, LimiterAssumption DEF Full, Time

\* What the events ts from number i on leave a bucket at time t, if it was
\* full before the first of them and never since.
Room(ts, i, t) == Full + Rate * (t - ts[i]) - (Len(ts) - i + 1) * Second

\* A bucket holds the least of these, or all it can hold.
Bounded(b, ts) ==
  \A i \in DOMAIN ts : ts[i] <= b.last /\ b.tokens <= Room(ts, i, b.last)
Exact(b, ts) == \E i \in DOMAIN ts : b.tokens = Room(ts, i, b.last)

(* What flows in adds up.                                                  *)
LEMMA Flow ==
  ASSUME NEW t \in Nat, NEW u \in Nat, NEW p \in Nat
  PROVE  Rate * (t - u) + Rate * (u - p) = Rate * (t - p)
<1>1. \A r, x, y \in Int : r * x + r * y = r * (x + y)
  OBVIOUS
<1>2. Rate * (t - u) + Rate * (u - p) = Rate * ((t - u) + (u - p))
  BY <1>1, Positive
<1>3. (t - u) + (u - p) = t - p
  OBVIOUS
<1>4. QED
  BY <1>2, <1>3

LEMMA RoomType ==
  ASSUME NEW ts \in Seq(Time), NEW i \in DOMAIN ts, NEW t \in Time
  PROVE  /\ Room(ts, i, t) \in Int /\ ts[i] \in Nat /\ i \in Nat /\ Len(ts) \in Nat
         /\ t \in Nat /\ Rate * (t - ts[i]) \in Int /\ (Len(ts) - i + 1) * Second \in Int
<1>1. ts[i] \in Nat /\ i \in Nat /\ Len(ts) \in Nat /\ t \in Nat
  <2>1. i \in 1 .. Len(ts) /\ Len(ts) \in Nat
    BY LenProperties
  <2>2. ts[i] \in Time
    BY <2>1, ElementOfSeq
  <2>3. QED
    BY <2>1, <2>2, Positive
<1>2. \A x, y \in Int : x * y \in Int
  OBVIOUS
<1>3. t - ts[i] \in Int /\ Len(ts) - i + 1 \in Int /\ Rate \in Int /\ Second \in Int
  BY <1>1, Positive
<1>4. Rate * (t - ts[i]) \in Int /\ (Len(ts) - i + 1) * Second \in Int
  BY <1>2, <1>3, Zenon
<1>5. QED
  BY <1>1, <1>4, Positive DEF Room

(* Room grows with what flows in.                                          *)
LEMMA RoomGrows ==
  ASSUME NEW ts \in Seq(Time), NEW i \in DOMAIN ts, NEW t \in Time, NEW u \in Time
  PROVE  Room(ts, i, t) = Room(ts, i, u) + Rate * (t - u)
<1>1. Rate * (t - u) + Rate * (u - ts[i]) = Rate * (t - ts[i])
  BY RoomType, Flow
<1>2. Rate * (t - u) \in Int
  <2>1. \A x, y \in Int : x * y \in Int
    OBVIOUS
  <2>2. QED
    BY <2>1, Positive
<1>3. /\ Rate * (u - ts[i]) \in Int /\ Rate * (t - ts[i]) \in Int
      /\ (Len(ts) - i + 1) * Second \in Int
  BY RoomType
<1>4. QED
  BY <1>1, <1>2, <1>3, Positive DEF Room

(* Another event takes a token's room from each.                           *)
LEMMA RoomShrinks ==
  ASSUME NEW ts \in Seq(Time), NEW i \in DOMAIN ts, NEW t \in Time
  PROVE  Room(Append(ts, t), i, t) = Room(ts, i, t) - Second
<1>1. Append(ts, t)[i] = ts[i] /\ Len(Append(ts, t)) = Len(ts) + 1
  BY AppendProperties, LenProperties
<1>2. i \in Nat /\ Len(ts) \in Nat
  BY RoomType
<1>3. (Len(ts) + 1 - i + 1) * Second = (Len(ts) - i + 1) * Second + Second
  <2>1. \A x, y \in Int : (x + 1) * y = x * y + y
    OBVIOUS
  <2>2. Len(ts) + 1 - i + 1 = (Len(ts) - i + 1) + 1 /\ Len(ts) - i + 1 \in Int
    BY <1>2
  <2>3. QED
    BY <2>1, <2>2, Positive
<1>4. PICK x \in Int : x = Rate * (t - ts[i])
  BY RoomType, Zenon
<1>5. PICK k \in Int : k = (Len(ts) - i + 1) * Second
  BY RoomType, Zenon
<1>6. Room(ts, i, t) = Full + x - k
  BY <1>4, <1>5, Zenon DEF Room
<1>7. Room(Append(ts, t), i, t) = Full + x - (k + Second)
  <2>1. Room(Append(ts, t), i, t) = Full + Rate * (t - ts[i]) - (Len(ts) + 1 - i + 1) * Second
    BY <1>1 DEF Room
  <2>2. Room(Append(ts, t), i, t) = Full + x - (Len(ts) + 1 - i + 1) * Second
    BY <1>4, <2>1, Zenon
  <2>3. (Len(ts) + 1 - i + 1) * Second = k + Second
    BY <1>3, <1>5, Zenon
  <2>4. QED
    BY <2>2, <2>3, Zenon
<1>8. QED
  BY <1>6, <1>7, Positive

LEMMA RoomOfLast ==
  ASSUME NEW ts \in Seq(Time), NEW t \in Time
  PROVE  /\ Len(ts) + 1 \in DOMAIN Append(ts, t)
         /\ Append(ts, t)[Len(ts) + 1] = t
         /\ Room(Append(ts, t), Len(ts) + 1, t) = Full - Second
<1>1. Append(ts, t)[Len(ts) + 1] = t /\ Len(Append(ts, t)) = Len(ts) + 1 /\ Len(ts) \in Nat
  BY AppendProperties, LenProperties
<1>2. t - t = 0 /\ (Len(ts) + 1) - (Len(ts) + 1) + 1 = 1
  BY <1>1, Positive
<1>3. Rate * 0 = 0 /\ 1 * Second = Second
  BY Positive
<1>4. QED
  BY <1>1, <1>2, <1>3, AppendProperties, LenProperties, Positive DEF Room

----------------------------------------------------------------------------
(* A bucket that is refilled still holds the least room of its events, or  *)
(* is full.                                                                *)
LEMMA RefillKeeps ==
  ASSUME NEW b \in Bucket, NEW ts \in Seq(Time), NEW t \in Time,
         Bounded(b, ts), Exact(b, ts)
  PROVE  /\ Refill(b, t) \in Bucket
         /\ Bounded(Refill(b, t), ts)
         /\ Exact(Refill(b, t), ts) \/ Refill(b, t).tokens = Full
<1>1. CASE ~(t > b.last)
  BY <1>1 DEF Refill
<1>2. CASE t > b.last
  <2>1. b.tokens \in Nat /\ b.tokens <= Full /\ b.last \in Time /\ b.last \in Nat /\ t \in Nat
    BY Positive DEF Bucket
  <2>2. PICK e \in Nat : e = Rate * (t - b.last)
    <3>1. t - b.last \in Nat /\ Rate \in Nat
      BY <1>2, <2>1, Positive
    <3>2. \A x, y \in Nat : x * y \in Nat
      OBVIOUS
    <3>3. QED
      BY <3>1, <3>2, Zenon
  <2>3. Refill(b, t) = [tokens |-> Least(b.tokens + e, Full), last |-> t]
    BY <1>2, <2>2 DEF Refill
  <2>4. ASSUME NEW i \in DOMAIN ts
        PROVE  /\ Room(ts, i, t) = Room(ts, i, b.last) + e
               /\ Room(ts, i, b.last) \in Int /\ ts[i] \in Nat
    BY <2>1, <2>2, RoomGrows, RoomType
  <2>5. Refill(b, t) \in Bucket
    BY <2>1, <2>3, Positive DEF Bucket, Least
  <2>6. Bounded(Refill(b, t), ts)
    BY <1>2, <2>1, <2>3, <2>4, Positive DEF Bounded, Least
  <2>7. Exact(Refill(b, t), ts) \/ Refill(b, t).tokens = Full
    BY <2>1, <2>3, <2>4, Positive DEF Exact, Least
  <2>8. QED
    BY <2>5, <2>6, <2>7
<1>3. QED
  BY <1>1, <1>2

(* Letting an event through takes a token from the bucket and from every   *)
(* room.                                                                   *)
LEMMA PassKeeps ==
  ASSUME NEW c \in Bucket, NEW ts \in Seq(Time), Bounded(c, ts),
         Exact(c, ts) \/ c.tokens = Full, Enough(c),
         NEW d, d = [c EXCEPT !.tokens = @ - Second]
  PROVE  /\ d \in Bucket
         /\ Bounded(d, Append(ts, c.last))
         /\ Exact(d, Append(ts, c.last))
<1> DEFINE us == Append(ts, c.last)
           n  == Len(ts) + 1
<1>1. c.tokens \in Nat /\ c.tokens <= Full /\ c.last \in Time /\ c.last \in Nat
  BY Positive DEF Bucket
<1>2. d.tokens = c.tokens - Second /\ d.last = c.last /\ d \in Bucket
  <2>1. c.tokens - Second \in 0 .. Full
    BY <1>1, Positive DEF Enough
  <2>2. d = [tokens |-> c.tokens - Second, last |-> c.last]
    BY DEF Bucket
  <2>3. QED
    BY <1>1, <2>1, <2>2 DEF Bucket
<1>3. us[n] = c.last /\ n \in DOMAIN us /\ Room(us, n, c.last) = Full - Second
  BY <1>1, RoomOfLast
<1>4. ASSUME NEW i \in DOMAIN ts
      PROVE  /\ i \in DOMAIN us /\ us[i] = ts[i] /\ ts[i] \in Nat
             /\ Room(us, i, c.last) = Room(ts, i, c.last) - Second
             /\ Room(ts, i, c.last) \in Int
  <2>1. i \in DOMAIN us /\ us[i] = ts[i]
    BY AppendProperties, LenProperties
  <2>2. QED
    BY <1>1, <2>1, RoomShrinks, RoomType
<1>5. \A i \in DOMAIN us : i \in DOMAIN ts \/ i = n
  BY <1>1, AppendProperties, LenProperties
<1> HIDE DEF us, n
<1>6. Bounded(d, us)
  <2> SUFFICES ASSUME NEW i \in DOMAIN us PROVE us[i] <= d.last /\ d.tokens <= Room(us, i, d.last)
    BY DEF Bounded
  <2>1. CASE i = n
    BY <1>1, <1>2, <1>3, <2>1, Positive
  <2>2. CASE i \in DOMAIN ts
    BY <1>1, <1>2, <1>4, <2>2, Positive DEF Bounded
  <2>3. QED
    BY <1>5, <2>1, <2>2
<1>7. Exact(d, us)
  <2>1. CASE c.tokens = Full
    BY <1>2, <1>3, <2>1 DEF Exact
  <2>2. CASE Exact(c, ts)
    <3>1. PICK i \in DOMAIN ts : c.tokens = Room(ts, i, c.last)
      BY <2>2 DEF Exact
    <3>2. QED
      BY <1>2, <1>4, <3>1 DEF Exact
  <2>3. QED
    BY <2>1, <2>2
<1>8. QED
  BY <1>2, <1>6, <1>7 DEF us

(* A bucket has a token exactly if another event fits all windows.         *)
LEMMA EnoughFits ==
  ASSUME NEW c \in Bucket, NEW ts \in Seq(Time), Bounded(c, ts),
         Exact(c, ts) \/ c.tokens = Full
  PROVE  Enough(c) <=> Window!Fits(ts, c.last)
<1>1. c.tokens \in Nat /\ c.last \in Time
  BY Positive DEF Bucket
<1>2. ASSUME NEW i \in DOMAIN ts
      PROVE  /\ Room(ts, i, c.last) \in Int
             /\ Second <= Room(ts, i, c.last) <=>
                  (Len(ts) - i + 2) * Second <= Burst * Second + Rate * (c.last - ts[i])
  <2>1. PICK x \in Int : x = Rate * (c.last - ts[i])
    BY <1>1, RoomType, Zenon
  <2>2. PICK k \in Int : k = (Len(ts) - i + 1) * Second
    BY <1>1, RoomType, Zenon
  <2>3. (Len(ts) - i + 2) * Second = k + Second
    <3>1. \A a, e \in Int : (a + 1) * e = a * e + e
      OBVIOUS
    <3>2. PICK a \in Int : a = Len(ts) - i + 1 /\ a + 1 = Len(ts) - i + 2
      BY <1>1, RoomType, SMTT(30)
    <3>3. (a + 1) * Second = a * Second + Second
      BY <3>1, Positive
    <3>4. QED
      BY <2>2, <3>2, <3>3, Zenon
  <2>4. Room(ts, i, c.last) = Full + x - k
    BY <2>1, <2>2, Zenon DEF Room
  <2>5. Burst * Second + Rate * (c.last - ts[i]) = Full + x
    BY <2>1, Zenon DEF Full
  <2>6. Second <= Full + x - k <=> k + Second <= Full + x
    BY Positive
  <2>7. QED
    BY <2>3, <2>4, <2>5, <2>6, Positive, SMTT(30)
<1>3. ASSUME Enough(c) PROVE Window!Fits(ts, c.last)
  <2> SUFFICES ASSUME NEW i \in DOMAIN ts PROVE Second <= Room(ts, i, c.last)
    BY <1>2 DEF Window!Fits
  <2>1. QED
    BY <1>1, <1>2, <1>3, Positive DEF Bounded, Enough
<1>4. ASSUME Window!Fits(ts, c.last) PROVE Enough(c)
  <2>1. CASE c.tokens = Full
    BY <2>1, Positive DEF Enough
  <2>2. CASE Exact(c, ts)
    <3>1. PICK i \in DOMAIN ts : c.tokens = Room(ts, i, c.last)
      BY <2>2 DEF Exact
    <3>2. QED
      BY <1>2, <1>4, <3>1, Positive DEF Enough, Window!Fits
  <2>3. QED
    BY <2>1, <2>2
<1>5. QED
  BY <1>3, <1>4

----------------------------------------------------------------------------
\* Sockets without a bucket have no events on record.
Buckets ==
  \A s \in Sock :
    IF bucket[s] = NoBucket THEN passed[s] = <<>>
    ELSE Bounded(bucket[s], passed[s]) /\ Exact(bucket[s], passed[s])

\* An event is late once its socket has closed, if it waits for the mutex then.
LateAreLate ==
  /\ \A v \in late : SockOf[v] \notin open
  /\ \A v \in Event : Waiting(v) /\ SockOf[v] \notin open => v \in late

(* The inductive invariant of the limiter.                                 *)
LimInv == LimiterTypeOK /\ Buckets /\ WindowBound /\ LateAreLate /\ LeftByLateHandler

LEMMA LimInit == LimiterInit => LimInv
<1> SUFFICES ASSUME LimiterInit PROVE LimInv
  OBVIOUS
<1> USE EmptySeq DEF LimiterInit
<1>1. 0 \in Time
  BY LimiterAssumption DEF Time
<1>2. LimiterTypeOK
  BY <1>1 DEF LimiterTypeOK
<1>3. Buckets /\ WindowBound
  BY DEF Buckets, WindowBound
<1>4. LateAreLate /\ LeftByLateHandler
  BY LimiterAssumption DEF LateAreLate, LeftByLateHandler, Waiting
<1>5. QED
  BY <1>2, <1>3, <1>4 DEF LimInv

(* An answer touches one event.                                            *)
LEMMA AnswerType ==
  ASSUME LimiterTypeOK, NEW v \in Event, NEW pc \in {"allowed", "refused"}, Answer(v, pc)
  PROVE  /\ handler'[v].pc = pc /\ \A w \in Event \ {v} : handler'[w] = handler[w]
         /\ handler' \in [Event -> [pc : {"new", "waiting", "allowed", "refused"}, read : Time]]
<1>1. 0 \in Time
  BY LimiterAssumption DEF Time
<1>2. QED
  BY <1>1 DEF Answer, LimiterTypeOK

(* lastRefill follows the bucket.                                          *)
LEMMA LastMoves ==
  ASSUME LimiterTypeOK, NEW s \in Sock, NEW b \in Bucket, bucket' = [bucket EXCEPT ![s] = b]
  PROVE  lastRefill' = [lastRefill EXCEPT ![s] = b.last]
BY NoBucketAssumption DEF LimiterTypeOK, lastRefill

\* The time as of which an event is judged.
AsOf(v) == IF handler[v].read > lastRefill[SockOf[v]]
           THEN handler[v].read ELSE lastRefill[SockOf[v]]

(* A bucket is refilled up to that time.                                   *)
LEMMA RefillLast ==
  ASSUME LimiterTypeOK, NEW v \in Event, bucket[SockOf[v]] # NoBucket
  PROVE  Refill(bucket[SockOf[v]], handler[v].read).last = AsOf(v)
<1>1. SockOf[v] \in Sock /\ lastRefill[SockOf[v]] = bucket[SockOf[v]].last
  BY LimiterAssumption DEF lastRefill
<1>2. QED
  BY <1>1 DEF Refill, AsOf

(* A late handler leaves a bucket behind.                                  *)
LEMMA LateLeaves ==
  ASSUME LimInv, NEW v \in Event, Waiting(v), NEW pc \in {"allowed", "refused"}, Answer(v, pc),
         NEW b \in Bucket, bucket' = [bucket EXCEPT ![SockOf[v]] = b], UNCHANGED <<open, late>>
  PROVE  (LateAreLate /\ LeftByLateHandler)'
<1> USE LimiterAssumption
<1>1. /\ SockOf[v] \in Sock /\ handler'[v].pc = pc /\ pc # "waiting"
      /\ \A w \in Event \ {v} : handler'[w] = handler[w]
  BY AnswerType DEF LimInv, LimiterTypeOK
<1>2. LateAreLate'
  BY <1>1 DEF LimInv, LateAreLate, Waiting
<1>3. ASSUME NEW s \in Sock \ open
      PROVE  bucket'[s] # NoBucket <=>
               \E w \in late : SockOf[w] = s /\ handler'[w].pc \in {"allowed", "refused"}
  <2>1. CASE s = SockOf[v]
    <3>1. v \in late /\ bucket'[s] = b /\ b # NoBucket
      BY <2>1, NoBucketAssumption DEF LimInv, LimiterTypeOK, LateAreLate
    <3>2. QED
      BY <1>1, <2>1, <3>1
  <2>2. CASE s # SockOf[v]
    <3>1. bucket'[s] = bucket[s] /\ late \subseteq Event
      BY <1>1, <2>2 DEF LimInv, LimiterTypeOK
    <3>2. \A w \in late : SockOf[w] = s => handler'[w] = handler[w]
      BY <1>1, <2>2, <3>1
    <3>3. QED
      BY <3>1, <3>2 DEF LimInv, LeftByLateHandler
  <2>3. QED
    BY <2>1, <2>2
<1>4. QED
  BY <1>2, <1>3 DEF LeftByLateHandler

(* An event let through, from a bucket refilled to c.                      *)
LEMMA PassStep ==
  ASSUME LimInv, NEW v \in Event, Waiting(v), NEW c \in Bucket,
         Bounded(c, passed[SockOf[v]]),
         Exact(c, passed[SockOf[v]]) \/ c.tokens = Full, Enough(c),
         Pass(v, [c EXCEPT !.tokens = @ - Second]), c.last = AsOf(v)
  PROVE  LimInv' /\ Window!Judge(v)
<1> DEFINE s  == SockOf[v]
           d  == [c EXCEPT !.tokens = @ - Second]
           ts == passed[s]
<1> USE LimiterAssumption
<1>1. /\ s \in Sock /\ ts \in Seq(Time) /\ bucket' = [bucket EXCEPT ![s] = d]
      /\ passed' = [passed EXCEPT ![s] = Append(ts, d.last)] /\ Answer(v, "allowed")
      /\ now' = now /\ open' = open /\ late' = late
  BY DEF Pass, LimInv, LimiterTypeOK
<1>2. d \in Bucket /\ Bounded(d, Append(ts, c.last)) /\ Exact(d, Append(ts, c.last))
  BY <1>1, PassKeeps
<1>3. d.last = c.last /\ c.last \in Time
  BY DEF Bucket
<1>4. d # NoBucket
  BY <1>2, NoBucketAssumption
<1> HIDE DEF d
<1>5. /\ bucket'[s] = d /\ passed'[s] = Append(ts, c.last)
      /\ \A z \in Sock \ {s} : bucket'[z] = bucket[z] /\ passed'[z] = passed[z]
  BY <1>1, <1>3 DEF LimInv, LimiterTypeOK
<1>6. LimiterTypeOK'
  <2>1. Append(ts, c.last) \in Seq(Time)
    BY <1>1, <1>3, AppendProperties
  <2>2. QED
    BY <1>1, <1>2, <1>3, <2>1, AnswerType DEF LimInv, LimiterTypeOK
<1>7. Buckets'
  BY <1>2, <1>4, <1>5 DEF LimInv, Buckets
<1>8. WindowBound'
  <2> SUFFICES ASSUME NEW z \in Sock, NEW i \in DOMAIN passed'[z], NEW j \in DOMAIN passed'[z], i <= j
               PROVE  (j - i + 1) * Second <= Full + Rate * (passed'[z][j] - passed'[z][i])
    BY DEF WindowBound
  <2>1. CASE z # s
    BY <1>5, <2>1 DEF LimInv, WindowBound
  <2>2. CASE z = s
    <3>1. /\ Len(ts) \in Nat /\ DOMAIN passed'[s] = 1 .. Len(ts) + 1
          /\ DOMAIN ts = 1 .. Len(ts)
          /\ \A l \in 1 .. Len(ts) : passed'[s][l] = ts[l]
          /\ passed'[s][Len(ts) + 1] = c.last
      BY <1>1, <1>3, <1>5, AppendProperties, LenProperties
    <3>2. CASE j # Len(ts) + 1
      <4>1. i \in 1 .. Len(ts) + 1 /\ j \in 1 .. Len(ts) + 1
        BY <2>2, <3>1
      <4>2. i \in 1 .. Len(ts) /\ j \in 1 .. Len(ts)
        BY <3>1, <3>2, <4>1
      <4>3. i \in DOMAIN ts /\ j \in DOMAIN ts /\ passed'[s][i] = ts[i] /\ passed'[s][j] = ts[j]
        BY <3>1, <4>2
      <4>4. QED
        BY <1>1, <2>2, <4>3 DEF LimInv, WindowBound
    <3>3. CASE j = Len(ts) + 1 /\ i = Len(ts) + 1
      <4>1. j - i + 1 = 1 /\ passed'[s][j] - passed'[s][i] = 0
        BY <1>3, <3>1, <3>3, Positive
      <4>2. 1 * Second = Second /\ Rate * 0 = 0
        BY Positive
      <4>3. QED
        BY <2>2, <4>1, <4>2, Positive
    <3>4. CASE j = Len(ts) + 1 /\ i # Len(ts) + 1
      <4>1. i \in DOMAIN ts /\ passed'[s][i] = ts[i] /\ passed'[s][j] = c.last
        BY <2>2, <3>1, <3>4
      <4>2. (Len(ts) - i + 2) * Second <= Burst * Second + Rate * (c.last - ts[i])
        BY <1>1, <4>1, EnoughFits DEF Window!Fits
      <4>3. j - i + 1 = Len(ts) - i + 2
        BY <3>1, <3>4, <4>1
      <4>4. QED
        BY <2>2, <4>1, <4>2, <4>3, Zenon DEF Full
    <3>5. QED
      BY <3>2, <3>3, <3>4
  <2>3. QED
    BY <2>1, <2>2
<1>9. (LateAreLate /\ LeftByLateHandler)'
  BY <1>1, <1>2, LateLeaves
<1>10. Window!Judge(v)
  <2>1. Window!Fits(ts, c.last)
    BY <1>1, EnoughFits
  <2>2. passed' = [passed EXCEPT ![s] = Append(@, c.last)]
    BY <1>1, <1>3
  <2>3. lastRefill' = [lastRefill EXCEPT ![s] = c.last]
    BY <1>1, <1>2, <1>3, LastMoves DEF LimInv
  <2>4. handler[v].pc = "waiting" /\ handler' = [handler EXCEPT ![v] = [pc |-> "allowed", read |-> 0]]
    BY <1>1 DEF Waiting, Answer
  <2>5. QED
    BY <1>1, <2>1, <2>2, <2>3, <2>4 DEF Window!Judge, AsOf
<1>11. QED
  BY <1>6, <1>7, <1>8, <1>9, <1>10 DEF LimInv

(* The other steps.                                                        *)
LEMMA RefuseStep ==
  ASSUME LimInv, NEW v \in Event, Refuse(v)
  PROVE  LimInv' /\ Window!Judge(v)
<1> DEFINE s  == SockOf[v]
           ts == passed[s]
           c  == Refill(bucket[s], handler[v].read)
<1> USE LimiterAssumption
<1>1. /\ s \in Sock /\ ts \in Seq(Time) /\ bucket[s] \in Bucket /\ handler[v].read \in Time
      /\ bucket' = [bucket EXCEPT ![s] = c] /\ passed' = passed /\ Answer(v, "refused")
      /\ now' = now /\ open' = open /\ late' = late /\ Waiting(v) /\ ~Enough(c)
  BY DEF Refuse, LimInv, LimiterTypeOK
<1>2. Bounded(bucket[s], ts) /\ Exact(bucket[s], ts)
  BY <1>1 DEF LimInv, Buckets, Refuse
<1>3. c \in Bucket /\ Bounded(c, ts) /\ (Exact(c, ts) \/ c.tokens = Full)
  BY <1>1, <1>2, RefillKeeps
<1>4. c.last = AsOf(v)
  BY RefillLast DEF Refuse, LimInv
<1> HIDE DEF c
<1>5. c # NoBucket
  BY <1>3, NoBucketAssumption
<1>6. Exact(c, ts)
  BY <1>1, <1>3, Positive DEF Enough
<1>7. bucket'[s] = c /\ \A z \in Sock \ {s} : bucket'[z] = bucket[z]
  BY <1>1 DEF LimInv, LimiterTypeOK
<1>8. LimiterTypeOK'
  BY <1>1, <1>3, AnswerType DEF LimInv, LimiterTypeOK
<1>9. Buckets'
  BY <1>1, <1>3, <1>5, <1>6, <1>7 DEF LimInv, Buckets
<1>10. WindowBound'
  BY <1>1 DEF LimInv, WindowBound
<1>11. (LateAreLate /\ LeftByLateHandler)'
  BY <1>1, <1>3, LateLeaves
<1>12. Window!Judge(v)
  <2>1. ~Window!Fits(ts, c.last)
    BY <1>1, <1>3, EnoughFits
  <2>2. lastRefill' = [lastRefill EXCEPT ![s] = c.last]
    BY <1>1, <1>3, LastMoves DEF LimInv
  <2>3. handler[v].pc = "waiting" /\ handler' = [handler EXCEPT ![v] = [pc |-> "refused", read |-> 0]]
    BY <1>1 DEF Waiting, Answer
  <2>4. QED
    BY <1>1, <1>4, <2>1, <2>2, <2>3 DEF Window!Judge, AsOf
<1>13. QED
  BY <1>8, <1>9, <1>10, <1>11, <1>12 DEF LimInv

LEMMA ArriveStep ==
  ASSUME LimInv, NEW v \in Event, Arrive(v)
  PROVE  LimInv' /\ Window!Come(v)
<1> USE LimiterAssumption
<1>1. /\ handler' = [handler EXCEPT ![v] = [pc |-> "waiting", read |-> now]]
      /\ handler[v].pc = "new" /\ SockOf[v] \in open
      /\ UNCHANGED <<now, open, bucket, passed, late>>
  BY DEF Arrive
<1>2. LimiterTypeOK'
  BY <1>1 DEF LimInv, LimiterTypeOK
<1>3. Buckets' /\ WindowBound'
  BY <1>1 DEF LimInv, Buckets, WindowBound
<1>4. LateAreLate' /\ LeftByLateHandler'
  <2>1. v \notin late /\ late \subseteq Event
    BY <1>1 DEF LimInv, LimiterTypeOK, LateAreLate
  <2>2. /\ handler'[v].pc = "waiting"
        /\ \A w \in Event \ {v} : handler'[w] = handler[w]
    BY <1>1 DEF LimInv, LimiterTypeOK
  <2>3. LateAreLate'
    BY <1>1, <2>2 DEF LimInv, LateAreLate, Waiting
  <2>4. \A w \in late : handler'[w] = handler[w]
    BY <2>1, <2>2
  <2>5. LeftByLateHandler'
    BY <1>1, <2>4 DEF LimInv, LeftByLateHandler
  <2>6. QED
    BY <2>3, <2>5
<1>5. Window!Come(v)
  BY <1>1 DEF Window!Come, lastRefill
<1>6. QED
  BY <1>2, <1>3, <1>4, <1>5 DEF LimInv

LEMMA DisconnectStep ==
  ASSUME LimInv, NEW s \in Sock, Disconnect(s)
  PROVE  LimInv' /\ Window!Forget(s)
<1> USE LimiterAssumption
<1>1. /\ s \in open /\ open' = open \ {s} /\ bucket' = [bucket EXCEPT ![s] = NoBucket]
      /\ passed' = [passed EXCEPT ![s] = <<>>] /\ UNCHANGED <<now, handler>>
      /\ late' = late \cup WaitingOn(s)
  BY DEF Disconnect
<1>2. /\ bucket'[s] = NoBucket /\ passed'[s] = <<>>
      /\ \A z \in Sock \ {s} : bucket'[z] = bucket[z] /\ passed'[z] = passed[z]
  BY <1>1 DEF LimInv, LimiterTypeOK
<1>3. LimiterTypeOK'
  BY <1>1, EmptySeq DEF LimInv, LimiterTypeOK, WaitingOn
<1>4. Buckets'
  BY <1>2 DEF LimInv, Buckets
<1>5. WindowBound'
  BY <1>2, EmptySeq DEF LimInv, WindowBound
<1>6. LateAreLate'
  BY <1>1 DEF LimInv, LateAreLate, Waiting, WaitingOn
<1>7. LeftByLateHandler'
  <2> SUFFICES ASSUME NEW z \in Sock \ open'
               PROVE  bucket'[z] # NoBucket <=>
                        \E v \in late' : SockOf[v] = z /\ handler[v].pc \in {"allowed", "refused"}
    BY <1>1 DEF LeftByLateHandler
  <2>1. CASE z = s
    <3>1. \A v \in late' : SockOf[v] = s => handler[v].pc = "waiting"
      BY <1>1 DEF LimInv, LateAreLate, WaitingOn, Waiting
    <3>2. QED
      BY <1>2, <2>1, <3>1
  <2>2. CASE z # s
    <3>1. z \in Sock \ open /\ bucket'[z] = bucket[z]
      BY <1>1, <1>2, <2>2
    <3>2. \A v \in late' : SockOf[v] = z => v \in late
      BY <1>1, <2>2 DEF WaitingOn
    <3>3. QED
      BY <1>1, <3>1, <3>2 DEF LimInv, LeftByLateHandler
  <2>3. QED
    BY <2>1, <2>2
<1>8. lastRefill' = [lastRefill EXCEPT ![s] = 0]
  BY <1>1, <1>2 DEF lastRefill, LimInv, LimiterTypeOK
<1>9. Window!Forget(s)
  BY <1>1, <1>8 DEF Window!Forget
<1>10. QED
  BY <1>3, <1>4, <1>5, <1>6, <1>7, <1>9 DEF LimInv

LEMMA LimStep ==
  ASSUME LimInv, [LimiterNext]_limVars
  PROVE  LimInv' /\ [Window!WindowNext]_(Window!winVars)
<1> USE LimiterAssumption
<1>1. CASE UNCHANGED limVars
  BY <1>1 DEF limVars, LimInv, LimiterTypeOK, Buckets, WindowBound, LateAreLate, Waiting,
              LeftByLateHandler, lastRefill, Window!winVars
<1>2. CASE Tick
  <2>1. UNCHANGED <<open, bucket, handler, passed, late>> /\ now' \in Time
    BY <1>2 DEF Tick, Time, LimInv, LimiterTypeOK
  <2>2. Window!TimePasses
    BY <1>2, <2>1 DEF Tick, Window!TimePasses, lastRefill
  <2>3. QED
    BY <2>1, <2>2 DEF LimInv, LimiterTypeOK, Buckets, WindowBound, LateAreLate, Waiting,
                LeftByLateHandler, Window!WindowNext
<1>3. ASSUME NEW v \in Event, Arrive(v)
      PROVE  LimInv' /\ [Window!WindowNext]_(Window!winVars)
  BY <1>3, ArriveStep DEF Window!WindowNext
<1>4. ASSUME NEW v \in Event, AllowFirst(v)
      PROVE  LimInv' /\ [Window!WindowNext]_(Window!winVars)
  <2> DEFINE c == [tokens |-> Full, last |-> handler[v].read]
  <2>1. c \in Bucket /\ c.tokens = Full /\ Enough(c) /\ SockOf[v] \in Sock
    BY Positive DEF Bucket, LimInv, LimiterTypeOK, Enough
  <2>2. passed[SockOf[v]] = <<>> /\ Waiting(v)
    BY <1>4, <2>1 DEF AllowFirst, LimInv, Buckets
  <2>3. Bounded(c, passed[SockOf[v]])
    BY <2>2, EmptySeq DEF Bounded
  <2>4. [c EXCEPT !.tokens = @ - Second] = [tokens |-> Full - Second, last |-> handler[v].read]
    OBVIOUS
  <2>5. Pass(v, [c EXCEPT !.tokens = @ - Second])
    BY <1>4, <2>4 DEF AllowFirst
  <2>6. c.last = AsOf(v)
    <3>1. lastRefill[SockOf[v]] = 0 /\ handler[v].read \in Nat
      BY <1>4, <2>1, Positive DEF AllowFirst, lastRefill, LimInv, LimiterTypeOK
    <3>2. QED
      BY <3>1 DEF AsOf
  <2> HIDE DEF c
  <2>7. LimInv' /\ Window!Judge(v)
    BY <2>1, <2>2, <2>3, <2>5, <2>6, PassStep
  <2>8. QED
    BY <2>7 DEF Window!WindowNext
<1>5. ASSUME NEW v \in Event, AllowNext(v)
      PROVE  LimInv' /\ [Window!WindowNext]_(Window!winVars)
  <2> DEFINE c == Refill(bucket[SockOf[v]], handler[v].read)
  <2>1. /\ SockOf[v] \in Sock /\ bucket[SockOf[v]] \in Bucket /\ handler[v].read \in Time
        /\ passed[SockOf[v]] \in Seq(Time) /\ Waiting(v) /\ Enough(c)
        /\ Pass(v, [c EXCEPT !.tokens = @ - Second])
    BY <1>5 DEF AllowNext, LimInv, LimiterTypeOK
  <2>2. Bounded(bucket[SockOf[v]], passed[SockOf[v]]) /\ Exact(bucket[SockOf[v]], passed[SockOf[v]])
    BY <1>5, <2>1 DEF AllowNext, LimInv, Buckets
  <2>3. /\ c \in Bucket /\ Bounded(c, passed[SockOf[v]])
        /\ Exact(c, passed[SockOf[v]]) \/ c.tokens = Full
    BY <2>1, <2>2, RefillKeeps
  <2>4. c.last = AsOf(v)
    BY <1>5, RefillLast DEF AllowNext, LimInv
  <2> HIDE DEF c
  <2>5. LimInv' /\ Window!Judge(v)
    BY <2>1, <2>3, <2>4, PassStep
  <2>6. QED
    BY <2>5 DEF Window!WindowNext
<1>6. ASSUME NEW v \in Event, Refuse(v)
      PROVE  LimInv' /\ [Window!WindowNext]_(Window!winVars)
  BY <1>6, RefuseStep DEF Window!WindowNext
<1>7. ASSUME NEW s \in Sock, Disconnect(s)
      PROVE  LimInv' /\ [Window!WindowNext]_(Window!winVars)
  BY <1>7, DisconnectStep DEF Window!WindowNext
<1>8. QED
  BY <1>1, <1>2, <1>3, <1>4, <1>5, <1>6, <1>7 DEF LimiterNext

----------------------------------------------------------------------------
(* The invariant holds throughout.                                         *)
THEOREM LimiterInvariant == LimiterSpec => []LimInv
<1>1. LimInv /\ [LimiterNext]_limVars => LimInv'
  BY LimStep
<1>2. QED
  BY LimInit, <1>1, PTL DEF LimiterSpec

(* A bucket is never overdrawn or fuller than the burst, and the other     *)
(* variables keep their types.                                             *)
THEOREM LimiterTypeCorrect == LimiterSpec => []LimiterTypeOK
BY LimiterInvariant, PTL DEF LimInv

(* The token bucket passes an event exactly when no stretch of time gets   *)
(* more than the burst and what flows in up to the event's clock reading   *)
(* or a later one of its socket, in whatever order the handlers come to    *)
(* the mutex (server.go:48-81).                                            *)
THEOREM BucketIsWindowLimit == LimiterSpec => IsAWindowLimit
<1>1. LimiterInit => Window!WindowInit
  BY DEF LimiterInit, Window!WindowInit, lastRefill
<1>2. LimInv /\ [LimiterNext]_limVars => [Window!WindowNext]_(Window!winVars)
  BY LimStep
<1>3. QED
  BY <1>1, <1>2, LimiterInvariant, PTL DEF LimiterSpec, IsAWindowLimit, Window!WindowSpec

(* No stretch of events exceeds the burst and what has flowed in           *)
(* (server.go:64-71).                                                      *)
THEOREM BurstBound == LimiterSpec => []WindowBound
BY LimiterInvariant, PTL DEF LimInv

(* What the map keeps of closed sockets are the buckets made by handlers   *)
(* that came to the mutex after Remove (server.go:83-91, 569).             *)
THEOREM LateHandlersLeaveBuckets == LimiterSpec => []LeftByLateHandler
BY LimiterInvariant, PTL DEF LimInv
============================================================================
