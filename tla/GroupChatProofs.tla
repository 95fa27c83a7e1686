--------------------------- MODULE GroupChatProofs -------------------------
(***************************************************************************)
(* Safety of GroupChat for any requests, groups, page size and number of   *)
(* membership changes.                                                     *)
(***************************************************************************)
EXTENDS GroupChat, SequenceTheorems, TLAPS

\* Requests whose message is stored and whose handler has not failed.
Stored(r) == task[r].pc \in {"touch", "list", "fanout", "ok"}

(* A user has one row per conversation, and none beside a deleted one.     *)
MemberRows ==
  \A c \in Conv :
    /\ IsInjective(members[c])
    /\ \A i \in DOMAIN members[c] : members[c][i] \notin past[c]

(* Past its conversation check a request is about a group, from a user.    *)
GroupsOnly ==
  \A r \in Req : task[r].pc \notin {"new", "error"} => conv(r) \in Group /\ sender(r) \in User

(* About to insert: nothing stored before the lookup has the clientMsgId.  *)
LookedAround ==
  \A r \in Req : At(r, "insert") =>
    /\ task[r].seen <= Len(messages)
    /\ \A i \in 1 .. task[r].seen :
         ~ (messages[i].conv = conv(r) /\ messages[i].key = key(r) /\ key(r) # NoKey)

(* A message and the request that stored it know each other.               *)
MessageOfRequest ==
  /\ \A r \in Req : Stored(r) =>
       task[r].id \in DOMAIN messages /\ messages[task[r].id].by = r
  /\ \A i \in DOMAIN messages :
       LET q == messages[i].by
       IN /\ Stored(q) \/ At(q, "error")
          /\ task[q].id = i
          /\ messages[i].conv = conv(q) /\ messages[i].sender = sender(q)
          /\ messages[i].key = key(q)

(* The recipients collected so far: nobody twice, never the sender, nobody *)
(* who still has a row the listing has not passed.                         *)
Collected ==
  \A r \in Req :
    LET t == task[r]
    IN /\ t.pc \notin {"list", "fanout", "ok", "error"} => t.recipients = <<>>
       /\ IsInjective(t.recipients)
       /\ \A i \in DOMAIN t.recipients : t.recipients[i] # sender(r)
       /\ t.pc = "list" =>
            \A i \in DOMAIN t.recipients :
              \/ t.recipients[i] \in past[conv(r)]
              \/ \E j \in DOMAIN members[conv(r)] :
                   j <= t.offset /\ members[conv(r)][j] = t.recipients[i]

(* What was handed to a user was handed by a request that is past him in   *)
(* its recipients.                                                         *)
HandedInOrder ==
  \A u \in User : \A i \in DOMAIN routed[u] :
    LET m == routed[u][i]
        t == task[messages[m].by]
    IN /\ m \in DOMAIN messages
       /\ \E j \in DOMAIN t.recipients : j <= t.sent /\ t.recipients[j] = u

(* The inductive invariant, in two halves: what is stored and what is      *)
(* handed out.                                                             *)
StoreInv ==
  /\ TypeOK
  /\ GroupsOnly
  /\ LookedAround
  /\ MessageOfRequest
  /\ DuplicatesOverlap
  /\ DedupNamesFirst
  /\ LastMsgSetBackByOverlap

RouteInv ==
  /\ MemberRows
  /\ Collected
  /\ HandedInOrder
  /\ RoutedOnce

----------------------------------------------------------------------------
\* Where the row stood that is number j once row i is gone.
Before(i, j) == IF j < i THEN j ELSE j + 1

(* Before is an injection into the other rows.                             *)
LEMMA BeforeInjects ==
  ASSUME NEW n \in Nat, NEW i \in 1 .. n
  PROVE  /\ \A j \in 1 .. n - 1 : Before(i, j) \in 1 .. n /\ Before(i, j) # i
         /\ \A j, k \in 1 .. n - 1 : Before(i, j) = Before(i, k) => j = k
BY DEF Before

(* Every other row stays, at its place or one before.                      *)
LEMMA BeforeCovers ==
  ASSUME NEW n \in Nat, NEW i \in 1 .. n, NEW k \in 1 .. n, k # i
  PROVE  \E j \in 1 .. n - 1 : Before(i, j) = k /\ j <= k
<1>1. CASE k < i
  <2>1. k \in 1 .. n - 1 /\ Before(i, k) = k
    BY <1>1 DEF Before
  <2>2. QED
    BY <2>1
<1>2. CASE k > i
  <2>1. k - 1 \in 1 .. n - 1 /\ Before(i, k - 1) = k /\ k - 1 <= k
    BY <1>2 DEF Before
  <2>2. QED
    BY <2>1
<1>3. QED
  BY <1>1, <1>2

(* What RemoveAt returns.                                                  *)
LEMMA RemoveAtIsSeq ==
  ASSUME NEW S, NEW s \in Seq(S), NEW i \in 1 .. Len(s)
  PROVE  /\ RemoveAt(s, i) \in Seq(S)
         /\ Len(RemoveAt(s, i)) = Len(s) - 1
         /\ \A j \in 1 .. Len(s) - 1 : RemoveAt(s, i)[j] = s[Before(i, j)]
<1> DEFINE front == SubSeq(s, 1, i - 1)
           back  == SubSeq(s, i + 1, Len(s))
           n     == Len(s)
<1>1. n \in Nat /\ i \in 1 .. n /\ \A j \in 1 .. n : s[j] \in S
  BY ElementOfSeq
<1>2. /\ front \in Seq(S) /\ Len(front) = i - 1
      /\ \A j \in 1 .. i - 1 : front[j] = s[j]
  <2>1. \A j \in 1 .. i - 1 : s[j] \in S
    BY <1>1
  <2>2. QED
    BY <1>1, <2>1, SubSeqProperties
<1>3. /\ back \in Seq(S) /\ Len(back) = n - i
      /\ \A j \in 1 .. n - i : back[j] = s[i + j]
  <2>1. \A j \in i + 1 .. n : s[j] \in S
    BY <1>1
  <2>2. QED
    BY <1>1, <2>1, SubSeqProperties
<1>4. RemoveAt(s, i) = front \o back
  BY DEF RemoveAt
<1> DEFINE r == front \o back
<1>5. /\ r \in Seq(S)
      /\ Len(r) = Len(front) + Len(back)
      /\ \A j \in 1 .. Len(front) + Len(back) :
           r[j] = IF j <= Len(front) THEN front[j] ELSE back[j - Len(front)]
  BY <1>2, <1>3, ConcatProperties, Zenon
<1> HIDE DEF r, front, back, n
<1>6. Len(r) = n - 1
  BY <1>1, <1>2, <1>3, <1>5
<1>7. ASSUME NEW j \in 1 .. n - 1
      PROVE  r[j] = s[Before(i, j)]
  <2>1. CASE j < i
    <3>1. r[j] = front[j]
      BY <1>1, <1>2, <1>3, <1>5, <2>1
    <3>2. front[j] = s[j]
      BY <1>1, <1>2, <2>1
    <3>3. QED
      BY <2>1, <3>1, <3>2 DEF Before
  <2>2. CASE ~ (j < i)
    <3>1. r[j] = back[j - (i - 1)]
      BY <1>1, <1>2, <1>3, <1>5, <2>2
    <3>2. j - (i - 1) \in 1 .. n - i /\ i + (j - (i - 1)) = j + 1
      BY <1>1, <2>2
    <3>3. back[j - (i - 1)] = s[j + 1]
      BY <1>3, <3>2
    <3>4. QED
      BY <2>2, <3>1, <3>3 DEF Before
  <2>3. QED
    BY <2>1, <2>2
<1>8. QED
  BY <1>4, <1>5, <1>6, <1>7 DEF r, n

(* Without row i the rest keeps its users, and they stay distinct.         *)
LEMMA RemoveAtKeepsRest ==
  ASSUME NEW s \in Seq(User), NEW i \in 1 .. Len(s), IsInjective(s)
  PROVE  /\ RemoveAt(s, i) \in Seq(User)
         /\ IsInjective(RemoveAt(s, i))
         /\ \A j \in DOMAIN RemoveAt(s, i) :
              RemoveAt(s, i)[j] # s[i] /\ \E k \in DOMAIN s : s[k] = RemoveAt(s, i)[j]
         /\ \A k \in DOMAIN s : k # i =>
              \E j \in DOMAIN RemoveAt(s, i) : j <= k /\ RemoveAt(s, i)[j] = s[k]
<1> DEFINE r == RemoveAt(s, i)
           n == Len(s)
<1>1. n \in Nat /\ DOMAIN s = 1 .. n /\ i \in 1 .. n
  OBVIOUS
<1>2. r \in Seq(User) /\ Len(r) = n - 1 /\ \A j \in 1 .. n - 1 : r[j] = s[Before(i, j)]
  BY RemoveAtIsSeq, Zenon
<1>3. DOMAIN r = 1 .. n - 1
  BY <1>2
<1>4. \A j, k \in 1 .. n : s[j] = s[k] => j = k
  BY <1>1 DEF IsInjective
<1> HIDE DEF r, n
<1>5. /\ \A j \in 1 .. n - 1 : Before(i, j) \in 1 .. n /\ Before(i, j) # i
      /\ \A j, k \in 1 .. n - 1 : Before(i, j) = Before(i, k) => j = k
  BY <1>1, BeforeInjects
<1>6. ASSUME NEW j \in DOMAIN r, NEW k \in DOMAIN r, r[j] = r[k]
      PROVE  j = k
  <2>1. j \in 1 .. n - 1 /\ k \in 1 .. n - 1
    BY <1>3
  <2>2. Before(i, j) \in 1 .. n /\ Before(i, k) \in 1 .. n
    BY <1>5, <2>1, Zenon
  <2>3. s[Before(i, j)] = s[Before(i, k)]
    BY <1>2, <1>6, <2>1, Zenon
  <2>4. Before(i, j) = Before(i, k)
    BY <1>4, <2>2, <2>3, Zenon
  <2>5. QED
    BY <1>5, <2>1, <2>4, Zenon
<1>7. \A j \in DOMAIN r : r[j] # s[i] /\ \E k \in DOMAIN s : s[k] = r[j]
  BY <1>1, <1>2, <1>3, <1>4, <1>5, Zenon
<1>8. ASSUME NEW k \in 1 .. n, k # i
      PROVE  \E j \in DOMAIN r : j <= k /\ r[j] = s[k]
  <2>1. PICK j \in 1 .. n - 1 : Before(i, j) = k /\ j <= k
    BY <1>1, <1>8, BeforeCovers
  <2>2. QED
    BY <1>2, <1>3, <2>1, Zenon
<1>9. QED
  BY <1>1, <1>2, <1>6, <1>7, <1>8 DEF r, IsInjective

(* Leaving a user out of a page of distinct users.                         *)
LEMMA WithoutIsSeq ==
  ASSUME NEW s \in Seq(User), NEW u, IsInjective(s)
  PROVE  /\ Without(s, u) \in Seq(User)
         /\ IsInjective(Without(s, u))
         /\ \A j \in DOMAIN Without(s, u) :
              Without(s, u)[j] # u /\ \E k \in DOMAIN s : s[k] = Without(s, u)[j]
<1>1. DOMAIN s = 1 .. Len(s)
  OBVIOUS
<1>2. CASE ~ Contains(s, u)
  BY <1>1, <1>2 DEF Without, Contains
<1>3. CASE Contains(s, u)
  <2> DEFINE i == CHOOSE i \in DOMAIN s : s[i] = u
  <2>1. i \in 1 .. Len(s) /\ s[i] = u /\ Without(s, u) = RemoveAt(s, i)
    BY <1>1, <1>3 DEF Without, Contains
  <2> HIDE DEF i
  <2>2. /\ RemoveAt(s, i) \in Seq(User)
        /\ IsInjective(RemoveAt(s, i))
        /\ \A j \in DOMAIN RemoveAt(s, i) :
             RemoveAt(s, i)[j] # s[i] /\ \E k \in DOMAIN s : s[k] = RemoveAt(s, i)[j]
    BY <2>1, RemoveAtKeepsRest, Zenon
  <2>3. QED
    BY <2>1, <2>2
<1>4. QED
  BY <1>2, <1>3

(* What a page is: the rows after the offset, at most PageSize of them,    *)
(* and fewer only at the end.                                              *)
LEMMA PageIsRows ==
  ASSUME TypeOK, NEW c \in Conv, NEW o \in Nat
  PROVE  /\ Page(c, o) \in Seq(User)
         /\ \A j \in 1 .. Len(Page(c, o)) :
              o + j \in DOMAIN members[c] /\ Page(c, o)[j] = members[c][o + j]
         /\ Len(Page(c, o)) < PageSize => Len(members[c]) <= o + Len(Page(c, o))
<1> DEFINE m == members[c]
           last == IF o + PageSize < Len(m) THEN o + PageSize ELSE Len(m)
<1>1. m \in Seq(User) /\ Len(m) \in Nat /\ DOMAIN m = 1 .. Len(m)
  BY DEF TypeOK
<1>2. Page(c, o) = SubSeq(m, o + 1, last)
  BY GroupAssumption DEF Page, PageFrom
<1>3. last \in Int /\ last <= Len(m)
  BY <1>1, GroupAssumption
<1> HIDE DEF m, last
<1>4. \A j \in o + 1 .. last : m[j] \in User
  BY <1>1, <1>3, ElementOfSeq
<1>5. /\ Page(c, o) \in Seq(User)
      /\ Len(Page(c, o)) = IF o + 1 <= last THEN last - o ELSE 0
      /\ \A j \in 1 .. last - o : Page(c, o)[j] = m[o + j]
  <2>1. /\ SubSeq(m, o + 1, last) \in Seq(User)
        /\ Len(SubSeq(m, o + 1, last)) = IF o + 1 <= last THEN last - (o + 1) + 1 ELSE 0
        /\ \A j \in 1 .. last - (o + 1) + 1 : SubSeq(m, o + 1, last)[j] = m[o + 1 + j - 1]
    BY <1>3, <1>4, SubSeqProperties
  <2>2. QED
    BY <1>2, <1>3, <2>1
<1>6. ASSUME Len(Page(c, o)) < PageSize
      PROVE  Len(m) <= o + Len(Page(c, o))
  <2> DEFINE k == Len(Page(c, o))
  <2>1. k \in Nat /\ k = IF o + 1 <= last THEN last - o ELSE 0
    BY <1>5
  <2>2. last = IF o + PageSize < Len(m) THEN o + PageSize ELSE Len(m)
    BY DEF last
  <2>3. PageSize \in Nat \ {0} /\ k < PageSize
    BY <1>6, GroupAssumption
  <2> DEFINE l == Len(m)
  <2>4. l \in Nat /\ last = IF o + PageSize < l THEN o + PageSize ELSE l
    BY <1>1, <2>2
  <2> HIDE DEF k, l
  <2>5. last = l
    <3>1. SUFFICES ASSUME last = o + PageSize PROVE FALSE
      BY <2>4
    <3>2. k = PageSize
      BY <2>1, <2>3, <3>1
    <3>3. QED
      BY <2>3, <3>2
  <2>6. l <= o + k
    BY <2>1, <2>4, <2>5
  <2>7. QED
    BY <2>6 DEF k, l
<1>7. \A j \in 1 .. Len(Page(c, o)) : o + j \in DOMAIN m /\ Page(c, o)[j] = m[o + j]
  BY <1>1, <1>3, <1>5, SMTT(30)
<1>8. QED
  BY <1>5, <1>6, <1>7 DEF m

(* Payloads are typed.                                                     *)
LEMMA PayloadTyped ==
  ASSUME NEW r \in Req
  PROVE  conv(r) \in Conv /\ sender(r) \in User \cup {NoUser} /\ key(r) \in Key \cup {NoKey}
BY GroupAssumption DEF conv, sender, key

(* Stored messages are typed.                                              *)
LEMMA MessageTyped ==
  ASSUME TypeOK, NEW i \in DOMAIN messages
  PROVE  /\ i \in 1 .. Len(messages) /\ Len(messages) \in Nat
         /\ messages[i] \in Message /\ messages[i].by \in Req /\ messages[i].seen \in Nat
<1>1. messages \in Seq(Message) /\ i \in 1 .. Len(messages) /\ Len(messages) \in Nat
  BY DEF TypeOK
<1>2. messages[i] \in Message
  BY <1>1, ElementOfSeq
<1>3. QED
  BY <1>1, <1>2 DEF Message

(* A page without a user is still a sequence of users.                     *)
LEMMA WithoutTyped ==
  ASSUME NEW s \in Seq(User), NEW u
  PROVE  Without(s, u) \in Seq(User)
<1>1. CASE ~ Contains(s, u)
  BY <1>1 DEF Without
<1>2. CASE Contains(s, u)
  <2> DEFINE i == CHOOSE i \in DOMAIN s : s[i] = u
  <2>1. i \in 1 .. Len(s) /\ Without(s, u) = RemoveAt(s, i)
    BY <1>2 DEF Without, Contains
  <2> HIDE DEF i
  <2>2. RemoveAt(s, i) \in Seq(User)
    BY <2>1, RemoveAtIsSeq, Zenon
  <2>3. QED
    BY <2>1, <2>2
<1>3. QED
  BY <1>1, <1>2

----------------------------------------------------------------------------
(* What is stored: type correctness and the invariants about messages.     *)
LEMMA InitStoreInv == Init => StoreInv
<1> SUFFICES ASSUME Init PROVE StoreInv
  OBVIOUS
<1> USE GroupAssumption DEF Init
<1>1. TypeOK
  BY DEF TypeOK, Task, PC, Done
<1>2. GroupsOnly /\ LookedAround /\ DedupNamesFirst /\ LastMsgSetBackByOverlap
  BY DEF GroupsOnly, LookedAround, DedupNamesFirst, LastMsgSetBackByOverlap, At, Touched
<1>3. MessageOfRequest /\ DuplicatesOverlap
  BY DEF MessageOfRequest, DuplicatesOverlap, Stored
<1>4. QED
  BY <1>1, <1>2, <1>3 DEF StoreInv

\* Only request r moved, and its task is typed.
Moved(r) == task'[r] \in Task /\ \A q \in Req \ {r} : task'[q] = task[q]

(* A step that only moves the program counter of a request.                *)
LEMMA GotoMoves ==
  ASSUME TypeOK, NEW r \in Req, NEW pc \in PC, Goto(r, pc),
         UNCHANGED <<store, world, routed>>
  PROVE  TypeOK' /\ Moved(r) /\ task'[r] = [task[r] EXCEPT !.pc = pc]
<1>1. /\ task \in [Req -> Task] /\ task' = [task EXCEPT ![r] = [task[r] EXCEPT !.pc = pc]]
  BY DEF TypeOK, Goto
<1>2. [task[r] EXCEPT !.pc = pc] \in Task
  BY <1>1 DEF Task
<1> DEFINE t == [task[r] EXCEPT !.pc = pc]
<1> HIDE DEF t
<1>3. task' \in [Req -> Task] /\ task'[r] = t /\ \A q \in Req \ {r} : task'[q] = task[q]
  BY <1>1, <1>2 DEF t
<1>4. QED
  BY <1>2, <1>3 DEF TypeOK, store, world, Moved, t

(* Tasks stay typed when one request moves to a typed task.                *)
LEMMA MovesTyped ==
  ASSUME task \in [Req -> Task], NEW r \in Req, NEW t \in Task, task'[r] = t,
         \A q \in Req \ {r} : task'[q] = task[q], task' = [q \in Req |-> task'[q]]
  PROVE  task' \in [Req -> Task] /\ Moved(r)
<1>1. \A q \in Req : task'[q] \in Task
  OBVIOUS
<1>2. QED
  BY <1>1 DEF Moved

(* A step that stores nothing and moves one request, without touching its  *)
(* message or what it has seen, among program counters of the same kind.   *)
LEMMA QuietStore ==
  ASSUME StoreInv, TypeOK', UNCHANGED store, NEW r \in Req,
         \A q \in Req \ {r} : task'[q] = task[q],
         task'[r].id = task[r].id, task'[r].seen = task[r].seen,
         task'[r].pc \in {"member", "lookup", "list", "fanout", "ok", "error"},
         task'[r].pc \in {"member", "lookup"} =>
           ~ Stored(r) /\ ~ At(r, "error") /\ conv(r) \in Group /\ sender(r) \in User,
         task'[r].pc \in {"list", "fanout", "ok"} => Touched(r)
  PROVE  StoreInv'
<1> USE DEF StoreInv, store
<1>1. GroupsOnly'
  BY DEF GroupsOnly, Touched, conv, sender
<1>2. LookedAround'
  BY DEF LookedAround, At, conv, key
<1>3. MessageOfRequest'
  <2>1. ASSUME NEW q \in Req, Stored(q)'
        PROVE  (task[q].id \in DOMAIN messages /\ messages[task[q].id].by = q)'
    <3>1. Stored(q)
      BY <2>1 DEF Stored, Touched
    <3>2. QED
      BY <3>1 DEF MessageOfRequest
  <2>2. ASSUME NEW i \in DOMAIN messages'
        PROVE  LET q == messages[i].by
               IN /\ (Stored(q) \/ At(q, "error"))'
                  /\ (task[q].id = i)'
                  /\ (messages[i].conv = conv(q) /\ messages[i].sender = sender(q))'
                  /\ (messages[i].key = key(q))'
    <3> DEFINE q == messages[i].by
    <3>1. i \in DOMAIN messages /\ q \in Req /\ messages' = messages
      BY MessageTyped
    <3>2. /\ Stored(q) \/ At(q, "error")
          /\ task[q].id = i
          /\ messages[i].conv = conv(q) /\ messages[i].sender = sender(q)
          /\ messages[i].key = key(q)
      BY <3>1 DEF MessageOfRequest
    <3> HIDE DEF q
    <3>3. task'[q].id = task[q].id
      BY <3>1
    <3>4. task'[q].pc \in {"touch", "list", "fanout", "ok", "error"}
      BY <3>1, <3>2 DEF Stored, At
    <3>5. QED
      BY <3>1, <3>2, <3>3, <3>4 DEF q, Stored, At, conv, sender, key
  <2>3. QED
    BY <2>1, <2>2 DEF MessageOfRequest
<1>4. DuplicatesOverlap'
  BY DEF DuplicatesOverlap
<1>5. DedupNamesFirst'
  BY DEF DedupNamesFirst, At, conv, key
<1>6. ASSUME NEW q \in Req, Touched(q)'
      PROVE  LET m == lastMsg'[conv(q)]
             IN /\ m \in DOMAIN messages' /\ messages'[m].conv = conv(q)
                /\ m >= task'[q].id \/ task'[messages'[m].by].seen >= task'[q].id
  <2> DEFINE m == lastMsg[conv(q)]
  <2>1. /\ m \in DOMAIN messages /\ messages[m].conv = conv(q)
        /\ m >= task[q].id \/ task[messages[m].by].seen >= task[q].id
    BY <1>6 DEF LastMsgSetBackByOverlap, Touched
  <2>2. messages[m].by \in Req
    BY <2>1, MessageTyped
  <2>3. task'[messages[m].by].seen = task[messages[m].by].seen /\ task'[q].id = task[q].id
    BY <2>2
  <2>4. QED
    BY <2>1, <2>3
<1>7. QED
  BY <1>1, <1>2, <1>3, <1>4, <1>5, <1>6 DEF LastMsgSetBackByOverlap, Touched, conv

LEMMA BeginStore ==
  ASSUME StoreInv, NEW r \in Req, Begin(r)
  PROVE  StoreInv'
<1> DEFINE pc == IF sender(r) \in User /\ conv(r) \in Group THEN "member" ELSE "error"
<1>1. Goto(r, pc) /\ pc \in PC /\ UNCHANGED <<store, world, routed>> /\ At(r, "new")
  BY DEF Begin, PC, Done
<1>2. TypeOK' /\ Moved(r) /\ task'[r] = [task[r] EXCEPT !.pc = pc]
  BY <1>1, GotoMoves DEF StoreInv
<1>3. QED
  BY <1>1, <1>2, QuietStore DEF Stored, At, Moved, StoreInv, TypeOK, Task

LEMMA CheckMemberStore ==
  ASSUME StoreInv, NEW r \in Req, CheckMember(r)
  PROVE  StoreInv'
<1> DEFINE pc == IF Contains(members[conv(r)], sender(r)) THEN "lookup" ELSE "error"
<1>1. Goto(r, pc) /\ pc \in PC /\ UNCHANGED <<store, world, routed>> /\ At(r, "member")
  BY DEF CheckMember, PC, Done
<1> HIDE DEF pc
<1>2. TypeOK' /\ Moved(r) /\ task'[r] = [task[r] EXCEPT !.pc = pc]
  BY <1>1, GotoMoves DEF StoreInv
<1>3. conv(r) \in Group /\ sender(r) \in User
  BY <1>1 DEF StoreInv, GroupsOnly, At
<1>4. pc \in {"lookup", "error"}
  BY DEF pc
<1>5. QED
  BY <1>1, <1>2, <1>3, <1>4, QuietStore DEF Stored, At, Moved, StoreInv, TypeOK, Task

LEMMA FailStore ==
  ASSUME StoreInv, NEW r \in Req, Fail(r)
  PROVE  StoreInv'
<1>1. Goto(r, "error") /\ "error" \in PC /\ UNCHANGED <<store, world, routed>>
  BY DEF Fail, PC, Done
<1>2. TypeOK' /\ Moved(r) /\ task'[r] = [task[r] EXCEPT !.pc = "error"]
  BY <1>1, GotoMoves DEF StoreInv
<1>3. QED
  BY <1>1, <1>2, QuietStore DEF Moved, StoreInv, TypeOK, Task

LEMMA ListPageStore ==
  ASSUME StoreInv, NEW r \in Req, ListPage(r)
  PROVE  StoreInv'
<1> DEFINE t    == task[r]
           page == Page(conv(r), t.offset)
           rest == Without(page, sender(r))
           pc   == IF Len(page) < PageSize THEN "fanout" ELSE "list"
           next == NextOffset(t.offset, page)
           u    == [pc |-> pc, id |-> t.id, seen |-> t.seen, offset |-> next,
                    recipients |-> t.recipients \o rest, sent |-> t.sent]
<1>1. /\ task' = [task EXCEPT ![r].recipients = @ \o rest, ![r].offset = NextOffset(@, page),
                              ![r].pc = pc]
      /\ UNCHANGED <<store, world, routed>> /\ t.pc = "list"
  BY DEF ListPage, At
<1>2. task \in [Req -> Task] /\ t \in Task
  BY DEF StoreInv, TypeOK
<1>3. /\ t.id \in Nat /\ t.seen \in Nat /\ t.offset \in Nat
      /\ t.recipients \in Seq(User) /\ t.sent \in Nat
      /\ t = [pc |-> t.pc, id |-> t.id, seen |-> t.seen, offset |-> t.offset,
              recipients |-> t.recipients, sent |-> t.sent]
  BY <1>2 DEF Task
<1>4. page \in Seq(User) /\ rest \in Seq(User) /\ pc \in {"list", "fanout"}
  BY <1>3, PayloadTyped, PageIsRows, WithoutTyped DEF StoreInv
<1>5. u \in Task
  BY <1>3, <1>4 DEF Task, PC, NextOffset
<1> HIDE DEF page, rest, pc
<1>6. /\ task'[r] = u
      /\ \A q \in Req \ {r} : task'[q] = task[q]
      /\ task' = [q \in Req |-> task'[q]]
  BY <1>1, <1>2 DEF Task
<1>7. u.pc = pc /\ u.id = t.id /\ u.seen = t.seen
  OBVIOUS
<1> HIDE DEF u
<1>8. task' \in [Req -> Task]
  BY <1>2, <1>5, <1>6, MovesTyped
<1>9. TypeOK'
  BY <1>1, <1>8 DEF StoreInv, TypeOK, store, world
<1>10. QED
  BY <1>1, <1>4, <1>6, <1>7, <1>9, QuietStore, ZenonT(40) DEF Touched

LEMMA FanOutStore ==
  ASSUME StoreInv, NEW r \in Req, FanOut(r)
  PROVE  StoreInv'
<1> DEFINE t == task[r]
<1>1. task \in [Req -> Task] /\ t \in Task /\ t.pc = "fanout" /\ UNCHANGED <<store, world>>
  BY DEF StoreInv, TypeOK, FanOut, At
<1>2. CASE t.sent < Len(t.recipients)
  <2> DEFINE u == t.recipients[t.sent + 1]
             v == [pc |-> t.pc, id |-> t.id, seen |-> t.seen, offset |-> t.offset,
                   recipients |-> t.recipients, sent |-> t.sent + 1]
  <2>1. /\ routed' = [routed EXCEPT ![u] = Append(@, t.id)]
        /\ task' = [task EXCEPT ![r].sent = @ + 1]
    BY <1>2 DEF FanOut
  <2>2. /\ t.recipients \in Seq(User) /\ t.sent \in Nat /\ t.id \in Nat /\ v \in Task
        /\ t.sent + 1 \in 1 .. Len(t.recipients)
    BY <1>1, <1>2 DEF Task
  <2>3. u \in User
    BY <2>2, ElementOfSeq
  <2> HIDE DEF u
  <2>4. routed' \in [User -> Seq(Nat)]
    BY <2>1, <2>2, <2>3 DEF StoreInv, TypeOK
  <2>5. task'[r] = v /\ \A q \in Req \ {r} : task'[q] = task[q]
    BY <1>1, <2>1 DEF Task
  <2>6. task' = [q \in Req |-> task'[q]]
    BY <1>1, <2>1
  <2>7. v.pc = "fanout" /\ v.id = t.id /\ v.seen = t.seen
    BY <1>1
  <2> HIDE DEF v
  <2>8. task' \in [Req -> Task]
    BY <1>1, <2>2, <2>5, <2>6, MovesTyped
  <2>9. TypeOK'
    BY <1>1, <2>4, <2>8 DEF StoreInv, TypeOK, store, world
  <2>10. QED
    BY <1>1, <2>5, <2>7, <2>9, QuietStore DEF Touched
<1>3. CASE ~ (t.sent < Len(t.recipients))
  <2>1. Goto(r, "ok") /\ "ok" \in PC /\ UNCHANGED <<store, world, routed>>
    BY <1>3 DEF FanOut, PC, Done
  <2>2. TypeOK' /\ Moved(r) /\ task'[r] = [t EXCEPT !.pc = "ok"]
    BY <2>1, GotoMoves DEF StoreInv
  <2>3. QED
    BY <1>1, <2>1, <2>2, QuietStore DEF Touched, Moved, Task
<1>4. QED
  BY <1>2, <1>3

(* A request that has not inserted yet is the author of no message.        *)
LEMMA NotAuthor ==
  ASSUME StoreInv, NEW r \in Req, ~ Stored(r), ~ At(r, "error"), NEW i \in DOMAIN messages
  PROVE  messages[i].by # r /\ messages[i].by \in Req
<1>1. messages[i].by \in Req
  BY MessageTyped DEF StoreInv
<1>2. Stored(messages[i].by) \/ At(messages[i].by, "error")
  BY DEF StoreInv, MessageOfRequest
<1>3. QED
  BY <1>1, <1>2

(* The lookup that finds nothing remembers how much it has seen.           *)
LEMMA LookupNothingStore ==
  ASSUME StoreInv, NEW r \in Req, LookupNothing(r)
  PROVE  StoreInv'
<1> DEFINE t == task[r]
           v == [pc |-> "insert", id |-> t.id, seen |-> Len(messages), offset |-> t.offset,
                 recipients |-> t.recipients, sent |-> t.sent]
<1>1. task \in [Req -> Task] /\ t \in Task /\ t.pc = "lookup"
  BY DEF StoreInv, TypeOK, LookupNothing, At
<1>2. /\ task' = [task EXCEPT ![r].pc = "insert", ![r].seen = Len(messages)]
      /\ Same(r) = {} /\ UNCHANGED <<store, world, routed>>
  BY DEF LookupNothing
<1>3. messages \in Seq(Message) /\ Len(messages) \in Nat /\ DOMAIN messages = 1 .. Len(messages)
  BY DEF StoreInv, TypeOK
<1>4. v \in Task
  BY <1>1, <1>3 DEF Task, PC
<1>5. /\ task'[r] = v
      /\ \A q \in Req \ {r} : task'[q] = task[q]
      /\ task' = [q \in Req |-> task'[q]]
  BY <1>1, <1>2 DEF Task
<1>6. v.pc = "insert" /\ v.id = t.id /\ v.seen = Len(messages)
  OBVIOUS
<1> HIDE DEF v
<1>7. task' \in [Req -> Task] /\ messages' = messages /\ lastMsg' = lastMsg
  BY <1>1, <1>2, <1>4, <1>5, MovesTyped DEF store
<1>8. TypeOK'
  BY <1>2, <1>7 DEF StoreInv, TypeOK, store, world
<1>9. GroupsOnly'
  BY <1>1, <1>5, <1>6 DEF StoreInv, GroupsOnly, conv
<1>10. LookedAround'
  <2>1. ASSUME NEW i \in 1 .. Len(messages)
        PROVE  ~ (messages[i].conv = conv(r) /\ messages[i].key = key(r) /\ key(r) # NoKey)
    BY <1>2, <1>3 DEF Same
  <2>2. QED
    BY <1>3, <1>5, <1>6, <1>7, <2>1 DEF StoreInv, LookedAround, At, conv, key
<1>11. ASSUME NEW i \in DOMAIN messages
       PROVE  messages[i].by # r /\ messages[i].by \in Req
  BY <1>1, NotAuthor DEF Stored, At
<1>12. MessageOfRequest'
  <2>1. ASSUME NEW q \in Req, Stored(q)'
        PROVE  task[q].id \in DOMAIN messages /\ messages[task[q].id].by = q /\ task'[q] = task[q]
    BY <1>5, <1>6, <2>1 DEF StoreInv, MessageOfRequest, Stored
  <2>2. ASSUME NEW i \in DOMAIN messages
        PROVE  task'[messages[i].by] = task[messages[i].by]
    BY <1>5, <1>11
  <2>3. QED
    BY <1>7, <2>1, <2>2 DEF StoreInv, MessageOfRequest, Stored, At, conv, sender, key
<1>13. DuplicatesOverlap' /\ DedupNamesFirst'
  BY <1>5, <1>6, <1>7 DEF StoreInv, DuplicatesOverlap, DedupNamesFirst, At, conv, key
<1>14. ASSUME NEW q \in Req, Touched(q)'
       PROVE  LET m == lastMsg[conv(q)]
              IN /\ m \in DOMAIN messages /\ messages[m].conv = conv(q)
                 /\ m >= task'[q].id \/ task'[messages[m].by].seen >= task'[q].id
  <2> DEFINE m == lastMsg[conv(q)]
  <2>1. task'[q] = task[q] /\ Touched(q)
    BY <1>5, <1>6, <1>14 DEF Touched
  <2>2. /\ m \in DOMAIN messages /\ messages[m].conv = conv(q)
        /\ m >= task[q].id \/ task[messages[m].by].seen >= task[q].id
    BY <2>1 DEF StoreInv, LastMsgSetBackByOverlap
  <2>3. task'[messages[m].by] = task[messages[m].by]
    BY <1>5, <1>11, <2>2
  <2>4. QED
    BY <2>1, <2>2, <2>3
<1>15. QED
  BY <1>7, <1>8, <1>9, <1>10, <1>12, <1>13, <1>14
     DEF StoreInv, LastMsgSetBackByOverlap, Touched, conv

(* The lookup that finds a message takes over the first one's id.          *)
LEMMA LookupFirstStore ==
  ASSUME StoreInv, NEW r \in Req, LookupFirst(r)
  PROVE  StoreInv'
<1> DEFINE t == task[r]
<1>1. task \in [Req -> Task] /\ t \in Task /\ t.pc = "lookup" /\ UNCHANGED <<store, world, routed>>
  BY DEF StoreInv, TypeOK, LookupFirst, At
<1>2. PICK i \in Same(r) : /\ \A j \in Same(r) : i <= j
                           /\ task' = [task EXCEPT ![r].pc = "dedup", ![r].id = i]
  BY DEF LookupFirst
<1>3. /\ messages \in Seq(Message) /\ Len(messages) \in Nat
      /\ DOMAIN messages = 1 .. Len(messages)
  BY DEF StoreInv, TypeOK
<1>4. /\ i \in 1 .. Len(messages) /\ messages[i].conv = conv(r) /\ messages[i].key = key(r)
      /\ key(r) # NoKey
  BY <1>2, <1>3 DEF Same
<1>5. ASSUME NEW j \in 1 .. i - 1
      PROVE  ~ (messages[j].conv = conv(r) /\ messages[j].key = key(r))
  <2>1. j \in DOMAIN messages /\ ~ (i <= j)
    BY <1>3, <1>4
  <2>2. QED
    BY <1>2, <1>4, <2>1 DEF Same
<1> DEFINE v == [pc |-> "dedup", id |-> i, seen |-> t.seen, offset |-> t.offset,
                 recipients |-> t.recipients, sent |-> t.sent]
<1>6. v \in Task
  BY <1>1, <1>3, <1>4 DEF Task, PC, Done
<1>7. /\ task'[r] = v
      /\ \A q \in Req \ {r} : task'[q] = task[q]
      /\ task' = [q \in Req |-> task'[q]]
  BY <1>1, <1>2 DEF Task
<1>8. v.pc = "dedup" /\ v.id = i
  OBVIOUS
<1> HIDE DEF v
<1>9. task' \in [Req -> Task] /\ messages' = messages /\ lastMsg' = lastMsg
  BY <1>1, <1>6, <1>7, MovesTyped DEF store
<1>10. TypeOK'
  BY <1>1, <1>9 DEF StoreInv, TypeOK, store, world
<1>11. GroupsOnly' /\ LookedAround'
  BY <1>1, <1>7, <1>8, <1>9 DEF StoreInv, GroupsOnly, LookedAround, At, conv, key
<1>12. DuplicatesOverlap'
  BY <1>9 DEF StoreInv, DuplicatesOverlap
<1>13. DedupNamesFirst'
  BY <1>3, <1>4, <1>5, <1>7, <1>8, <1>9 DEF StoreInv, DedupNamesFirst, At, conv, key
<1>14. \A j \in DOMAIN messages : messages[j].by # r /\ messages[j].by \in Req
  BY <1>1, NotAuthor DEF Stored, At
<1>15. MessageOfRequest'
  <2>1. ASSUME NEW q \in Req, Stored(q)'
        PROVE  task[q].id \in DOMAIN messages /\ messages[task[q].id].by = q /\ task'[q] = task[q]
    BY <1>7, <1>8, <2>1 DEF StoreInv, MessageOfRequest, Stored
  <2>2. ASSUME NEW j \in DOMAIN messages
        PROVE  task'[messages[j].by] = task[messages[j].by]
    BY <1>7, <1>14
  <2>3. QED
    BY <1>9, <2>1, <2>2 DEF StoreInv, MessageOfRequest, Stored, At, conv, sender, key
<1>16. ASSUME NEW q \in Req, Touched(q)'
       PROVE  LET m == lastMsg[conv(q)]
              IN /\ m \in DOMAIN messages /\ messages[m].conv = conv(q)
                 /\ m >= task'[q].id \/ task'[messages[m].by].seen >= task'[q].id
  <2> DEFINE m == lastMsg[conv(q)]
  <2>1. task'[q] = task[q] /\ Touched(q)
    BY <1>7, <1>8, <1>16 DEF Touched
  <2>2. /\ m \in DOMAIN messages /\ messages[m].conv = conv(q)
        /\ m >= task[q].id \/ task[messages[m].by].seen >= task[q].id
    BY <2>1 DEF StoreInv, LastMsgSetBackByOverlap
  <2>3. task'[messages[m].by] = task[messages[m].by]
    BY <1>7, <1>14, <2>2
  <2>4. QED
    BY <2>1, <2>2, <2>3
<1>17. QED
  BY <1>9, <1>10, <1>11, <1>12, <1>13, <1>15, <1>16
     DEF StoreInv, LastMsgSetBackByOverlap, Touched, conv

(* Members come and go without touching what is stored.                    *)
LEMMA WorldStore ==
  ASSUME StoreInv, TypeOK', UNCHANGED <<store, task, routed>>
  PROVE  StoreInv'
BY SMTT(60) DEF StoreInv, store, GroupsOnly, LookedAround, MessageOfRequest,
       DuplicatesOverlap, DedupNamesFirst, LastMsgSetBackByOverlap, Stored, Touched, At,
       conv, sender, key

LEMMA JoinStore ==
  ASSUME StoreInv, NEW c \in Group, NEW u \in User, Join(c, u)
  PROVE  StoreInv'
<1>1. TypeOK'
  BY GroupAssumption DEF StoreInv, TypeOK, Join, store
<1>2. QED
  BY <1>1, WorldStore DEF Join

LEMMA LeaveStore ==
  ASSUME StoreInv, NEW c \in Group, NEW i \in DOMAIN members[c], Leave(c, i)
  PROVE  StoreInv'
<1> DEFINE rest == RemoveAt(members[c], i)
           u    == members[c][i]
<1>1. c \in Conv /\ members[c] \in Seq(User) /\ i \in 1 .. Len(members[c])
  BY GroupAssumption DEF StoreInv, TypeOK
<1>2. rest \in Seq(User)
  BY <1>1, RemoveAtIsSeq, Zenon
<1>3. u \in User
  BY <1>1, ElementOfSeq
<1> HIDE DEF rest, u
<1>4. /\ members' = [members EXCEPT ![c] = rest]
      /\ past' = [past EXCEPT ![c] = @ \cup {u}]
      /\ watch' = [q \in Req |-> IF q \in Listing(c)
                                 THEN [stayed |-> watch[q].stayed \ {u}, calm |-> FALSE]
                                 ELSE watch[q]]
      /\ changes' = changes + 1 /\ changes < MaxChanges
      /\ UNCHANGED <<store, task, routed>>
  BY DEF Leave, rest, u
<1>5. members' \in [Conv -> Seq(User)]
  BY <1>2, <1>4 DEF StoreInv, TypeOK
<1>6. past' \in [Conv -> SUBSET User]
  BY <1>3, <1>4 DEF StoreInv, TypeOK
<1>7. watch' \in [Req -> [stayed : SUBSET User, calm : BOOLEAN]]
  BY <1>4 DEF StoreInv, TypeOK
<1>8. changes' \in 0 .. MaxChanges
  BY <1>4, GroupAssumption DEF StoreInv, TypeOK
<1>9. TypeOK'
  BY <1>4, <1>5, <1>6, <1>7, <1>8 DEF StoreInv, TypeOK, store
<1>10. QED
  BY <1>4, <1>9, WorldStore

(* The insertion: what the request saw at its lookup holds of the messages *)
(* up to there, so only later ones can share its clientMsgId.              *)
LEMMA InsertStore ==
  ASSUME StoreInv, NEW r \in Req, Insert(r)
  PROVE  StoreInv'
<1> DEFINE t == task[r]
           n == Len(messages)
           m == [conv |-> conv(r), sender |-> sender(r), key |-> key(r), by |-> r,
                 seen |-> t.seen, gone |-> past[conv(r)]]
           v == [pc |-> "touch", id |-> n + 1, seen |-> t.seen, offset |-> t.offset,
                 recipients |-> t.recipients, sent |-> t.sent]
<1>1. /\ task \in [Req -> Task] /\ t \in Task /\ t.pc = "insert" /\ t.seen \in Nat
      /\ messages \in Seq(Message) /\ n \in Nat /\ DOMAIN messages = 1 .. n
  BY DEF StoreInv, TypeOK, Insert, At, Task
<1>2. /\ messages' = Append(messages, m)
      /\ task' = [task EXCEPT ![r].pc = "touch", ![r].id = Len(messages')]
      /\ UNCHANGED <<lastMsg, members, past, changes, routed>>
  BY DEF Insert
<1>3. m \in Message /\ conv(r) \in Group /\ sender(r) \in User
  <2>1. past[conv(r)] \in SUBSET User
    BY PayloadTyped DEF StoreInv, TypeOK
  <2>2. QED
    BY <1>1, <2>1, PayloadTyped DEF StoreInv, GroupsOnly, Message
<1>4. watch' \in [Req -> [stayed : SUBSET User, calm : BOOLEAN]]
  <2>1. members[conv(r)] \in Seq(User)
    BY PayloadTyped DEF StoreInv, TypeOK
  <2>2. ToSet(members[conv(r)]) \subseteq User
    BY <2>1, ElementOfSeq DEF ToSet
  <2>3. QED
    BY <2>2 DEF Insert, StoreInv, TypeOK
<1>5. m.conv = conv(r) /\ m.sender = sender(r) /\ m.key = key(r) /\ m.by = r /\ m.seen = t.seen
  OBVIOUS
<1> HIDE DEF m
<1>6. /\ messages' \in Seq(Message) /\ Len(messages') = n + 1 /\ DOMAIN messages' = 1 .. n + 1
      /\ messages'[n + 1] = m
      /\ \A i \in 1 .. n : messages'[i] = messages[i]
  BY <1>1, <1>2, <1>3
<1>7. v \in Task
  BY <1>1 DEF Task, PC
<1>8. /\ task'[r] = v
      /\ \A q \in Req \ {r} : task'[q] = task[q]
      /\ task' = [q \in Req |-> task'[q]]
  BY <1>1, <1>2, <1>6 DEF Task
<1>9. v.pc = "touch" /\ v.id = n + 1
  OBVIOUS
<1> HIDE DEF v, n
<1>10. TypeOK'
  <2>1. task' \in [Req -> Task]
    BY <1>1, <1>7, <1>8, MovesTyped
  <2>2. QED
    BY <1>2, <1>4, <1>6, <2>1 DEF StoreInv, TypeOK
<1>11. \A i \in 1 .. n : messages[i].by # r /\ messages[i].by \in Req
  BY <1>1, NotAuthor DEF Stored, At
<1>12. GroupsOnly'
  BY <1>3, <1>8 DEF StoreInv, GroupsOnly, conv, sender
<1>13. LookedAround'
  <2>1. ASSUME NEW q \in Req, At(q, "insert")'
        PROVE  /\ task'[q].seen <= n + 1
               /\ \A i \in 1 .. task'[q].seen :
                    ~ (messages'[i].conv = conv(q) /\ messages'[i].key = key(q) /\ key(q) # NoKey)
    <3>1. q # r /\ task'[q] = task[q] /\ At(q, "insert") /\ task[q].seen \in Nat
      BY <1>1, <1>8, <1>9, <2>1 DEF At, Task
    <3>2. /\ task[q].seen <= n
          /\ \A i \in 1 .. task[q].seen :
               ~ (messages[i].conv = conv(q) /\ messages[i].key = key(q) /\ key(q) # NoKey)
      BY <3>1 DEF StoreInv, LookedAround, n
    <3>3. QED
      BY <1>1, <1>6, <3>1, <3>2
  <2>2. QED
    BY <1>6, <2>1 DEF LookedAround, At, conv, key
<1>14. MessageOfRequest'
  <2>1. ASSUME NEW q \in Req, Stored(q)'
        PROVE  task'[q].id \in 1 .. n + 1 /\ messages'[task'[q].id].by = q
    <3>1. CASE q = r
      BY <1>1, <1>5, <1>6, <1>8, <1>9, <3>1
    <3>2. CASE q # r
      <4>1. task'[q] = task[q] /\ Stored(q)
        BY <1>8, <2>1, <3>2 DEF Stored
      <4>2. task[q].id \in 1 .. n /\ messages[task[q].id].by = q
        BY <1>1, <4>1 DEF StoreInv, MessageOfRequest
      <4>3. QED
        BY <1>1, <1>6, <4>1, <4>2
    <3>3. QED
      BY <3>1, <3>2
  <2>2. ASSUME NEW i \in 1 .. n + 1
        PROVE  LET q == messages'[i].by
               IN /\ task'[q].pc \in {"touch", "list", "fanout", "ok", "error"}
                  /\ task'[q].id = i
                  /\ messages'[i].conv = conv(q) /\ messages'[i].sender = sender(q)
                  /\ messages'[i].key = key(q)
    <3>1. CASE i = n + 1
      BY <1>5, <1>6, <1>8, <1>9, <3>1
    <3>2. CASE i \in 1 .. n
      <4> DEFINE q == messages[i].by
      <4>1. messages'[i] = messages[i] /\ task'[q] = task[q]
        BY <1>6, <1>8, <1>11, <3>2
      <4>2. /\ Stored(q) \/ At(q, "error")
            /\ task[q].id = i
            /\ messages[i].conv = conv(q) /\ messages[i].sender = sender(q)
            /\ messages[i].key = key(q)
        BY <1>1, <3>2 DEF StoreInv, MessageOfRequest
      <4>3. QED
        BY <4>1, <4>2 DEF Stored, At
    <3>3. QED
      BY <1>1, <3>1, <3>2
  <2>3. QED
    BY <1>6, <2>1, <2>2 DEF MessageOfRequest, Stored, At, conv, sender, key
<1>15. DuplicatesOverlap'
  <2>1. ASSUME NEW i \in 1 .. n + 1, NEW j \in 1 .. n + 1, i < j,
               messages'[i].conv = messages'[j].conv, messages'[i].key = messages'[j].key,
               messages'[i].key # NoKey
        PROVE  messages'[j].seen < i
    <3>1. i \in 1 .. n /\ messages'[i] = messages[i]
      BY <1>1, <1>6, <2>1
    <3>2. CASE j = n + 1
      <4>1. messages[i].conv = conv(r) /\ messages[i].key = key(r) /\ key(r) # NoKey
        BY <1>5, <1>6, <2>1, <3>1, <3>2
      <4>2. ~ (i \in 1 .. t.seen)
        BY <1>1, <4>1 DEF StoreInv, LookedAround, At
      <4>3. t.seen < i
        BY <1>1, <3>1, <4>2
      <4>4. QED
        BY <1>5, <1>6, <3>2, <4>3
    <3>3. CASE j \in 1 .. n
      BY <1>1, <1>6, <2>1, <3>1, <3>3 DEF StoreInv, DuplicatesOverlap
    <3>4. QED
      BY <1>1, <3>2, <3>3
  <2>2. QED
    BY <1>6, <2>1 DEF DuplicatesOverlap
<1>16. DedupNamesFirst'
  <2>1. ASSUME NEW q \in Req, At(q, "dedup")'
        PROVE  /\ task'[q].id \in 1 .. n + 1
               /\ messages'[task'[q].id].conv = conv(q)
               /\ messages'[task'[q].id].key = key(q)
               /\ \A i \in 1 .. task'[q].id - 1 :
                    ~ (messages'[i].conv = conv(q) /\ messages'[i].key = key(q))
    <3>1. task'[q] = task[q] /\ At(q, "dedup")
      BY <1>8, <1>9, <2>1 DEF At
    <3>2. /\ task[q].id \in 1 .. n
          /\ messages[task[q].id].conv = conv(q)
          /\ messages[task[q].id].key = key(q)
          /\ \A i \in 1 .. task[q].id - 1 :
               ~ (messages[i].conv = conv(q) /\ messages[i].key = key(q))
      BY <1>1, <3>1 DEF StoreInv, DedupNamesFirst
    <3>3. QED
      BY <1>1, <1>6, <3>1, <3>2
  <2>2. QED
    BY <1>6, <2>1 DEF DedupNamesFirst, At, conv, key
<1>17. LastMsgSetBackByOverlap'
  <2>1. ASSUME NEW q \in Req, Touched(q)'
        PROVE  LET k == lastMsg[conv(q)]
               IN /\ k \in 1 .. n + 1 /\ messages'[k].conv = conv(q)
                  /\ k >= task'[q].id \/ task'[messages'[k].by].seen >= task'[q].id
    <3> DEFINE k == lastMsg[conv(q)]
    <3>1. task'[q] = task[q] /\ Touched(q)
      BY <1>8, <1>9, <2>1 DEF Touched
    <3>2. /\ k \in 1 .. n /\ messages[k].conv = conv(q)
          /\ k >= task[q].id \/ task[messages[k].by].seen >= task[q].id
      BY <1>1, <3>1 DEF StoreInv, LastMsgSetBackByOverlap
    <3>3. messages'[k] = messages[k] /\ task'[messages[k].by] = task[messages[k].by]
      BY <1>6, <1>8, <1>11, <3>2
    <3>4. QED
      BY <1>1, <3>1, <3>2, <3>3
  <2>2. QED
    BY <1>2, <1>6, <2>1 DEF LastMsgSetBackByOverlap, Touched, conv
<1>18. QED
  BY <1>10, <1>12, <1>13, <1>14, <1>15, <1>16, <1>17 DEF StoreInv

(* The update of last_message_id comes after every insertion so far.       *)
LEMMA TouchStore ==
  ASSUME StoreInv, NEW r \in Req, Touch(r)
  PROVE  StoreInv'
<1> DEFINE t == task[r]
           n == Len(messages)
           v == [pc |-> "list", id |-> t.id, seen |-> n, offset |-> t.offset,
                 recipients |-> t.recipients, sent |-> t.sent]
<1>1. /\ task \in [Req -> Task] /\ t \in Task /\ t.pc = "touch" /\ t.id \in Nat
      /\ messages \in Seq(Message) /\ n \in Nat /\ DOMAIN messages = 1 .. n
      /\ lastMsg \in [Conv -> Nat] /\ conv(r) \in Conv
  BY PayloadTyped DEF StoreInv, TypeOK, Touch, At, Task
<1>2. /\ lastMsg' = [lastMsg EXCEPT ![conv(r)] = t.id]
      /\ task' = [task EXCEPT ![r].pc = "list", ![r].seen = n]
      /\ UNCHANGED <<messages, world, routed>>
  BY DEF Touch, NewLast
<1>3. v \in Task
  BY <1>1 DEF Task, PC
<1>4. /\ task'[r] = v
      /\ \A q \in Req \ {r} : task'[q] = task[q]
      /\ task' = [q \in Req |-> task'[q]]
  BY <1>1, <1>2 DEF Task
<1>5. v.pc = "list" /\ v.id = t.id /\ v.seen = n
  OBVIOUS
<1> HIDE DEF v, n
<1>6. TypeOK'
  <2>1. task' \in [Req -> Task]
    BY <1>1, <1>3, <1>4, MovesTyped
  <2>2. lastMsg' \in [Conv -> Nat]
    BY <1>1, <1>2
  <2>3. QED
    BY <1>2, <2>1, <2>2 DEF StoreInv, TypeOK, world
<1>7. GroupsOnly' /\ LookedAround'
  BY <1>1, <1>2, <1>4, <1>5 DEF StoreInv, GroupsOnly, LookedAround, At, conv, key
<1>8. DuplicatesOverlap'
  BY <1>2 DEF StoreInv, DuplicatesOverlap
<1>9. DedupNamesFirst'
  BY <1>2, <1>4, <1>5, ZenonT(40) DEF StoreInv, DedupNamesFirst, At, conv, key
<1>10. \A i \in 1 .. n : messages[i].by \in Req
  BY <1>1, MessageTyped DEF StoreInv
<1>11. MessageOfRequest'
  <2>0. messages' = messages /\ DOMAIN messages' = 1 .. n
    BY <1>1, <1>2
  <2>1. ASSUME NEW q \in Req, Stored(q)'
        PROVE  task'[q].id \in 1 .. n /\ messages'[task'[q].id].by = q
    <3>1. Stored(q) /\ task'[q].id = task[q].id
      BY <1>1, <1>4, <1>5, <2>1 DEF Stored
    <3>2. QED
      BY <1>1, <2>0, <3>1 DEF StoreInv, MessageOfRequest
  <2>2. ASSUME NEW i \in 1 .. n
        PROVE  LET q == messages'[i].by
               IN /\ task'[q].pc \in {"touch", "list", "fanout", "ok", "error"}
                  /\ task'[q].id = i
                  /\ messages'[i].conv = conv(q) /\ messages'[i].sender = sender(q)
                  /\ messages'[i].key = key(q)
    <3> DEFINE q == messages[i].by
    <3>1. q \in Req
      BY <1>10
    <3>2. /\ Stored(q) \/ At(q, "error")
          /\ task[q].id = i
          /\ messages[i].conv = conv(q) /\ messages[i].sender = sender(q)
          /\ messages[i].key = key(q)
      BY <1>1 DEF StoreInv, MessageOfRequest
    <3> HIDE DEF q
    <3>3. task'[q].id = task[q].id /\ (task'[q].pc = "list" \/ task'[q].pc = task[q].pc)
      BY <1>4, <1>5, <3>1
    <3>4. QED
      BY <2>0, <3>2, <3>3 DEF q, Stored, At
  <2>3. QED
    BY <2>0, <2>1, <2>2 DEF MessageOfRequest, Stored, At, conv, sender, key
<1>12. LastMsgSetBackByOverlap'
  <2>1. t.id \in 1 .. n /\ messages[t.id].by = r /\ messages[t.id].conv = conv(r)
    BY <1>1 DEF StoreInv, MessageOfRequest, Stored
  <2>2. ASSUME NEW q \in Req, Touched(q)'
        PROVE  LET k == lastMsg'[conv(q)]
               IN /\ k \in 1 .. n /\ messages[k].conv = conv(q)
                  /\ k >= task'[q].id \/ task'[messages[k].by].seen >= task'[q].id
    <3>1. CASE q = r
      BY <1>1, <1>2, <1>4, <1>5, <2>1, <3>1
    <3>2. CASE q # r /\ conv(q) = conv(r)
      <4>1. task'[q] = task[q] /\ Stored(q)
        BY <1>4, <2>2, <3>2 DEF Touched, Stored
      <4>2. task[q].id \in 1 .. n
        BY <1>1, <4>1 DEF StoreInv, MessageOfRequest
      <4>3. lastMsg'[conv(q)] = t.id /\ task'[r].seen >= task[q].id
        BY <1>1, <1>2, <1>4, <1>5, <3>2, <4>2
      <4>4. QED
        BY <2>1, <3>2, <4>1, <4>3
    <3>3. CASE q # r /\ conv(q) # conv(r)
      <4> DEFINE k == lastMsg[conv(q)]
      <4>1. task'[q] = task[q] /\ Touched(q)
        BY <1>4, <2>2, <3>3 DEF Touched
      <4>2. /\ k \in 1 .. n /\ messages[k].conv = conv(q)
            /\ k >= task[q].id \/ task[messages[k].by].seen >= task[q].id
        BY <1>1, <4>1 DEF StoreInv, LastMsgSetBackByOverlap
      <4>3. messages[k].by \in Req \ {r}
        <5>1. messages[k].conv = conv(messages[k].by)
          BY <1>1, <4>2 DEF StoreInv, MessageOfRequest
        <5>2. QED
          BY <1>10, <3>3, <4>2, <5>1
      <4>4. lastMsg'[conv(q)] = k /\ task'[messages[k].by] = task[messages[k].by]
        BY <1>1, <1>2, <1>4, <3>3, <4>3, PayloadTyped
      <4>5. QED
        BY <4>1, <4>2, <4>4
    <3>4. QED
      BY <3>1, <3>2, <3>3
  <2>3. QED
    BY <1>1, <1>2, <2>2 DEF LastMsgSetBackByOverlap, Touched, conv
<1>13. QED
  BY <1>6, <1>7, <1>8, <1>9, <1>11, <1>12 DEF StoreInv

(* Every step keeps what is stored in order.                               *)
LEMMA NextStoreInv == StoreInv /\ [Next]_vars => StoreInv'
<1> SUFFICES ASSUME StoreInv, [Next]_vars PROVE StoreInv'
  OBVIOUS
<1>1. ASSUME NEW r \in Req, Begin(r) PROVE StoreInv'
  BY <1>1, BeginStore
<1>2. ASSUME NEW r \in Req, Work(r) PROVE StoreInv'
  BY <1>2, CheckMemberStore, LookupNothingStore, LookupFirstStore, InsertStore, TouchStore,
     ListPageStore, FanOutStore DEF Work
<1>3. ASSUME NEW r \in Req, Fail(r) PROVE StoreInv'
  BY <1>3, FailStore
<1>4. ASSUME NEW c \in Group, NEW u \in User, Join(c, u) PROVE StoreInv'
  BY <1>4, JoinStore
<1>5. ASSUME NEW c \in Group, NEW i \in DOMAIN members[c], Leave(c, i) PROVE StoreInv'
  BY <1>5, LeaveStore
<1>6. CASE UNCHANGED vars
  <2>1. TypeOK'
    BY <1>6 DEF vars, StoreInv, TypeOK
  <2>2. QED
    BY <1>6, <2>1, WorldStore DEF vars, store
<1>7. QED
  BY <1>1, <1>2, <1>3, <1>4, <1>5, <1>6 DEF Next

(* What is stored stays consistent, for any requests and interleaving.     *)
THEOREM StoreInvariant == Spec => []StoreInv
  BY InitStoreInv, NextStoreInv, PTL DEF Spec

(* Every variable keeps its type.                                          *)
THEOREM GroupTypeCorrect == Spec => []TypeOK
<1>1. StoreInv => TypeOK
  BY DEF StoreInv
<1>2. QED
  BY <1>1, StoreInvariant, PTL

(* A clientMsgId is stored twice only by overlapping requests.             *)
THEOREM DuplicatesNeedOverlap == Spec => []DuplicatesOverlap
<1>1. StoreInv => DuplicatesOverlap
  BY DEF StoreInv
<1>2. QED
  BY <1>1, StoreInvariant, PTL

(* A deduplicated acknowledgement names the first message of its key.      *)
THEOREM DedupIsFirst == Spec => []DedupNamesFirst
<1>1. StoreInv => DedupNamesFirst
  BY DEF StoreInv
<1>2. QED
  BY <1>1, StoreInvariant, PTL

(* last_message_id is set back only by an overlapping request.             *)
THEOREM LastMsgNeedsOverlap == Spec => []LastMsgSetBackByOverlap
<1>1. StoreInv => LastMsgSetBackByOverlap
  BY DEF StoreInv
<1>2. QED
  BY <1>1, StoreInvariant, PTL

----------------------------------------------------------------------------
\* What is handed out: nobody gets a message twice.
LEMMA InitRouteInv == Init => RouteInv
BY GroupAssumption DEF Init, RouteInv, MemberRows, Collected, HandedInOrder, RoutedOnce,
   IsInjective

(* What HandedInOrder says of one message handed to one user.              *)
LEMMA HandedEach ==
  ASSUME HandedInOrder, NEW u \in User, NEW i \in DOMAIN routed[u]
  PROVE  LET q == messages[routed[u][i]].by
         IN /\ routed[u][i] \in DOMAIN messages
            /\ \E j \in DOMAIN task[q].recipients :
                 j <= task[q].sent /\ task[q].recipients[j] = u
BY Zenon DEF HandedInOrder

(* HandedInOrder after a step that hands out nothing.                      *)
LEMMA HandedByParts ==
  ASSUME routed' = routed,
         \A u \in User : \A i \in DOMAIN routed[u] :
           LET m == routed[u][i]
               t == task'[messages'[m].by]
           IN /\ m \in DOMAIN messages'
              /\ \E j \in DOMAIN t.recipients : j <= t.sent /\ t.recipients[j] = u
  PROVE  HandedInOrder'
<1>1. ASSUME NEW u \in User, NEW i \in DOMAIN routed'[u]
      PROVE  LET m == routed'[u][i]
                 t == task'[messages'[m].by]
             IN /\ m \in DOMAIN messages'
                /\ \E j \in DOMAIN t.recipients : j <= t.sent /\ t.recipients[j] = u
  <2> DEFINE m == routed[u][i]
             t == task'[messages'[m].by]
  <2>1. /\ m \in DOMAIN messages'
        /\ \E j \in DOMAIN t.recipients : j <= t.sent /\ t.recipients[j] = u
    BY Zenon
  <2>2. m = routed'[u][i]
    OBVIOUS
  <2> HIDE DEF m
  <2>3. QED
    BY <2>1, <2>2, Zenon
<1>2. QED
  BY <1>1, Zenon DEF HandedInOrder

(* A step that hands out nothing and changes no message handed out.        *)
LEMMA OnceFrame ==
  ASSUME RoutedOnce, routed' = routed,
         \A u \in User : \A i \in DOMAIN routed[u] :
           messages'[routed[u][i]] = messages[routed[u][i]]
  PROVE  RoutedOnce'
BY SMTT(30) DEF RoutedOnce

(* A step of others than the requests.                                     *)
LEMMA RoutedFrame ==
  ASSUME HandedInOrder, RoutedOnce, UNCHANGED <<messages, task, routed>>
  PROVE  HandedInOrder' /\ RoutedOnce'
<1>1. HandedInOrder'
  <2>1. ASSUME NEW u \in User, NEW i \in DOMAIN routed[u]
        PROVE  LET m == routed[u][i]
                   t == task'[messages'[m].by]
               IN /\ m \in DOMAIN messages'
                  /\ \E j \in DOMAIN t.recipients : j <= t.sent /\ t.recipients[j] = u
    <3> DEFINE q == messages[routed[u][i]].by
    <3>1. /\ routed[u][i] \in DOMAIN messages
          /\ \E j \in DOMAIN task[q].recipients :
               j <= task[q].sent /\ task[q].recipients[j] = u
      BY HandedEach, Zenon
    <3>2. q = messages'[routed[u][i]].by /\ task' = task /\ messages' = messages
      OBVIOUS
    <3> HIDE DEF q
    <3>3. QED
      BY <3>1, <3>2, Zenon
  <2>2. QED
    BY <2>1, HandedByParts
<1>2. RoutedOnce'
  BY SMTT(30) DEF RoutedOnce
<1>3. QED
  BY <1>1, <1>2

(* A step of request r before or after the listing, that adds to the       *)
(* messages at most.                                                       *)
LEMMA QuietRoute ==
  ASSUME StoreInv, RouteInv, UNCHANGED <<members, past, routed>>, NEW r \in Req,
         \A q \in Req \ {r} : task'[q] = task[q],
         task'[r].recipients = task[r].recipients, task'[r].sent = task[r].sent,
         \A i \in DOMAIN messages : i \in DOMAIN messages' /\ messages'[i] = messages[i],
         task[r].pc \notin {"list", "fanout", "ok", "error"}
           \/ task'[r].pc \in {"fanout", "ok", "error"}
  PROVE  RouteInv'
<1> USE DEF RouteInv
<1>1. MemberRows'
  BY DEF MemberRows
<1>2. Collected'
  <2>1. ASSUME NEW q \in Req
        PROVE  LET t == task'[q]
               IN /\ t.pc \notin {"list", "fanout", "ok", "error"} => t.recipients = <<>>
                  /\ IsInjective(t.recipients)
                  /\ \A i \in DOMAIN t.recipients : t.recipients[i] # sender(q)
                  /\ t.pc = "list" =>
                       \A i \in DOMAIN t.recipients :
                         \/ t.recipients[i] \in past[conv(q)]
                         \/ \E j \in DOMAIN members[conv(q)] :
                              j <= t.offset /\ members[conv(q)][j] = t.recipients[i]
    <3>1. CASE q # r
      BY <3>1 DEF Collected
    <3>2. CASE q = r
      <4>1. task'[r].pc \in {"fanout", "ok", "error"} \/ task[r].recipients = <<>>
        BY DEF Collected
      <4>2. QED
        BY <3>2, <4>1 DEF Collected
    <3>3. QED
      BY <3>1, <3>2
  <2>2. QED
    BY <2>1 DEF Collected, sender, conv
<1>3. HandedInOrder' /\ RoutedOnce'
  <2>1. ASSUME NEW u \in User, NEW i \in DOMAIN routed[u]
        PROVE  LET m == routed[u][i]
                   t == task'[messages'[m].by]
               IN /\ m \in DOMAIN messages /\ m \in DOMAIN messages'
                  /\ messages'[m] = messages[m]
                  /\ \E j \in DOMAIN t.recipients : j <= t.sent /\ t.recipients[j] = u
    <3> DEFINE m == routed[u][i]
               q == messages[m].by
    <3>1. m \in DOMAIN messages /\ messages'[m] = messages[m] /\ q \in Req
      BY MessageTyped DEF HandedInOrder, StoreInv
    <3>2. \E j \in DOMAIN task[q].recipients : j <= task[q].sent /\ task[q].recipients[j] = u
      BY DEF HandedInOrder
    <3>3. task'[q].recipients = task[q].recipients /\ task'[q].sent = task[q].sent
      BY <3>1
    <3>4. QED
      BY <3>1, <3>2, <3>3
  <2>2. HandedInOrder'
    BY <2>1, HandedByParts
  <2>3. RoutedOnce'
    BY <2>1, OnceFrame
  <2>4. QED
    BY <2>2, <2>3
<1>4. QED
  BY <1>1, <1>2, <1>3

(* The steps before the listing, and failure, hand out nothing.            *)
LEMMA EarlyRoute ==
  ASSUME StoreInv, RouteInv, NEW r \in Req,
         Begin(r) \/ CheckMember(r) \/ LookupNothing(r) \/ LookupFirst(r) \/ Insert(r)
           \/ Touch(r) \/ Fail(r)
  PROVE  RouteInv'
<1>1. task \in [Req -> Task] /\ task[r] \in Task
  BY DEF StoreInv, TypeOK
<1>2. /\ UNCHANGED <<members, past, routed>>
      /\ \A q \in Req \ {r} : task'[q] = task[q]
      /\ task'[r].recipients = task[r].recipients /\ task'[r].sent = task[r].sent
      /\ task[r].pc \notin {"list", "fanout", "ok", "error"} \/ task'[r].pc = "error"
  <2>1. CASE Begin(r)
    BY <1>1, <2>1 DEF Begin, Goto, At, world, Task
  <2>2. CASE CheckMember(r)
    BY <1>1, <2>2 DEF CheckMember, Goto, At, world, Task
  <2>3. CASE LookupNothing(r)
    BY <1>1, <2>3 DEF LookupNothing, At, world, Task
  <2>4. CASE LookupFirst(r)
    BY <1>1, <2>4, ZenonT(40) DEF LookupFirst, At, world, Task
  <2>5. CASE Insert(r)
    BY <1>1, <2>5 DEF Insert, At, Task
  <2>6. CASE Touch(r)
    BY <1>1, <2>6 DEF Touch, At, world, Task
  <2>7. CASE Fail(r)
    BY <1>1, <2>7 DEF Fail, Goto, world, Task
  <2>8. QED
    BY <2>1, <2>2, <2>3, <2>4, <2>5, <2>6, <2>7
<1>3. \A i \in DOMAIN messages : i \in DOMAIN messages' /\ messages'[i] = messages[i]
  <2>1. CASE Insert(r)
    <3>1. messages \in Seq(Message)
      BY DEF StoreInv, TypeOK
    <3>2. PICK m : messages' = Append(messages, m)
      BY <2>1 DEF Insert
    <3>3. QED
      BY <3>1, <3>2
  <2>2. CASE ~ Insert(r)
    <3>1. messages' = messages
      BY <2>2 DEF Begin, CheckMember, LookupNothing, LookupFirst, Touch, Fail, store
    <3>2. QED
      BY <3>1
  <2>3. QED
    BY <2>1, <2>2
<1>4. QED
  BY <1>2, <1>3, QuietRoute

(* Two sequences of distinct users without a common one make another.      *)
LEMMA ConcatInjective ==
  ASSUME NEW s \in Seq(User), NEW t \in Seq(User), IsInjective(s), IsInjective(t),
         \A i \in DOMAIN s, j \in DOMAIN t : s[i] # t[j]
  PROVE  /\ IsInjective(s \o t)
         /\ \A k \in DOMAIN (s \o t) :
              \/ k \in DOMAIN s /\ (s \o t)[k] = s[k]
              \/ k - Len(s) \in DOMAIN t /\ (s \o t)[k] = t[k - Len(s)]
<1> DEFINE w == s \o t
<1>1. /\ Len(s) \in Nat /\ Len(t) \in Nat
      /\ DOMAIN s = 1 .. Len(s) /\ DOMAIN t = 1 .. Len(t) /\ DOMAIN w = 1 .. Len(s) + Len(t)
      /\ \A k \in DOMAIN w : w[k] = IF k <= Len(s) THEN s[k] ELSE t[k - Len(s)]
  OBVIOUS
<1> HIDE DEF w
<1>2. ASSUME NEW k \in DOMAIN w
      PROVE  \/ k \in DOMAIN s /\ w[k] = s[k]
             \/ k - Len(s) \in DOMAIN t /\ w[k] = t[k - Len(s)]
  BY <1>1
<1>3. ASSUME NEW j \in DOMAIN w, NEW k \in DOMAIN w, w[j] = w[k]
      PROVE  j = k
  <2>1. CASE j <= Len(s) /\ k <= Len(s)
    BY <1>1, <1>3, <2>1 DEF IsInjective
  <2>2. CASE ~ (j <= Len(s)) /\ ~ (k <= Len(s))
    <3>1. j - Len(s) \in DOMAIN t /\ k - Len(s) \in DOMAIN t
      BY <1>1, <2>2
    <3>2. t[j - Len(s)] = t[k - Len(s)]
      BY <1>1, <1>3, <2>2
    <3>3. j - Len(s) = k - Len(s)
      BY <3>1, <3>2 DEF IsInjective
    <3>4. QED
      BY <1>1, <3>3
  <2>3. CASE j <= Len(s) /\ ~ (k <= Len(s))
    <3>1. j \in DOMAIN s /\ k - Len(s) \in DOMAIN t /\ w[j] = s[j] /\ w[k] = t[k - Len(s)]
      BY <1>1, <2>3
    <3>2. QED
      BY <1>3, <3>1
  <2>4. CASE ~ (j <= Len(s)) /\ k <= Len(s)
    <3>1. k \in DOMAIN s /\ j - Len(s) \in DOMAIN t /\ w[k] = s[k] /\ w[j] = t[j - Len(s)]
      BY <1>1, <2>4
    <3>2. QED
      BY <1>3, <3>1
  <2>5. QED
    BY <2>1, <2>2, <2>3, <2>4
<1>4. QED
  BY <1>2, <1>3 DEF w, IsInjective

(* A page holds rows the listing has not passed, so nobody collected yet.  *)
LEMMA ListPageRoute ==
  ASSUME StoreInv, RouteInv, NEW r \in Req, ListPage(r)
  PROVE  RouteInv'
<1> DEFINE t    == task[r]
           c    == conv(r)
           page == Page(c, t.offset)
           rest == Without(page, sender(r))
           next == t.offset + Len(page)
<1>1. /\ task \in [Req -> Task] /\ t \in Task /\ t.pc = "list" /\ t.offset \in Nat
      /\ t.recipients \in Seq(User)
  BY DEF StoreInv, TypeOK, ListPage, At, Task
<1>2. c \in Conv
  BY PayloadTyped
<1>3. /\ UNCHANGED <<store, world, routed>>
      /\ \A q \in Req \ {r} : task'[q] = task[q]
      /\ task'[r].recipients = t.recipients \o rest
      /\ task'[r].offset = next /\ task'[r].sent = t.sent
      /\ task'[r].pc \in {"list", "fanout"}
  BY <1>1 DEF ListPage, Task, NextOffset
<1>4. /\ page \in Seq(User) /\ Len(page) \in Nat /\ DOMAIN page = 1 .. Len(page)
      /\ \A j \in 1 .. Len(page) :
           t.offset + j \in DOMAIN members[c] /\ page[j] = members[c][t.offset + j]
  BY <1>1, <1>2, PageIsRows DEF StoreInv
<1>5. /\ \A j, k \in DOMAIN members[c] : members[c][j] = members[c][k] => j = k
      /\ \A j \in DOMAIN members[c] : members[c][j] \notin past[c]
      /\ DOMAIN members[c] \subseteq Nat
  BY <1>2 DEF RouteInv, MemberRows, IsInjective, StoreInv, TypeOK
<1> HIDE DEF page, next
<1>6. ASSUME NEW j \in DOMAIN page, NEW k \in DOMAIN page, page[j] = page[k]
      PROVE  j = k
  <2>1. t.offset + j = t.offset + k
    BY <1>4, <1>5, <1>6
  <2>2. QED
    BY <1>1, <1>4, <2>1
<1>7. /\ rest \in Seq(User) /\ IsInjective(rest)
      /\ \A j \in DOMAIN rest : rest[j] # sender(r) /\ \E k \in DOMAIN page : page[k] = rest[j]
  <2>1. IsInjective(page)
    BY <1>6 DEF IsInjective
  <2>2. page \in Seq(User)
    BY <1>4
  <2>3. /\ Without(page, sender(r)) \in Seq(User)
        /\ IsInjective(Without(page, sender(r)))
        /\ \A j \in DOMAIN Without(page, sender(r)) :
             /\ Without(page, sender(r))[j] # sender(r)
             /\ \E k \in DOMAIN page : page[k] = Without(page, sender(r))[j]
    BY <2>1, <2>2, WithoutIsSeq
  <2>4. QED
    BY <2>3
<1> HIDE DEF rest
<1>8. /\ IsInjective(t.recipients)
      /\ \A i \in DOMAIN t.recipients : t.recipients[i] # sender(r)
      /\ \A i \in DOMAIN t.recipients :
           \/ t.recipients[i] \in past[c]
           \/ \E j \in DOMAIN members[c] : j <= t.offset /\ members[c][j] = t.recipients[i]
  BY <1>1 DEF RouteInv, Collected
<1>9. ASSUME NEW j \in DOMAIN rest
      PROVE  /\ \E k \in DOMAIN members[c] : k > t.offset /\ k <= next /\ members[c][k] = rest[j]
             /\ rest[j] \notin past[c]
  <2>1. PICK k \in DOMAIN page : page[k] = rest[j]
    BY <1>7
  <2>2. /\ t.offset + k \in DOMAIN members[c] /\ members[c][t.offset + k] = rest[j]
        /\ t.offset + k > t.offset /\ t.offset + k <= next
    BY <1>1, <1>4, <2>1 DEF next
  <2>3. QED
    BY <1>5, <2>2
<1>10. ASSUME NEW i \in DOMAIN t.recipients, NEW j \in DOMAIN rest
       PROVE  t.recipients[i] # rest[j]
  <2>1. SUFFICES ASSUME t.recipients[i] = rest[j] PROVE FALSE
    OBVIOUS
  <2>2. PICK k \in DOMAIN members[c] : k > t.offset /\ members[c][k] = rest[j]
    BY <1>9
  <2>3. PICK l \in DOMAIN members[c] : l <= t.offset /\ members[c][l] = t.recipients[i]
    BY <1>8, <1>9, <2>1
  <2>4. k = l
    BY <1>5, <2>1, <2>2, <2>3
  <2>5. QED
    BY <1>1, <1>5, <2>2, <2>3, <2>4
<1> DEFINE w == t.recipients \o rest
<1>11. /\ IsInjective(w)
       /\ \A k \in DOMAIN w : \/ k \in DOMAIN t.recipients /\ w[k] = t.recipients[k]
                              \/ k - Len(t.recipients) \in DOMAIN rest
                                 /\ w[k] = rest[k - Len(t.recipients)]
  BY <1>1, <1>7, <1>8, <1>10, ConcatInjective, Zenon
<1>12. \A k \in DOMAIN t.recipients : k \in DOMAIN w /\ w[k] = t.recipients[k]
  BY <1>1, <1>7
<1> HIDE DEF w
<1>13. ASSUME NEW k \in DOMAIN w
       PROVE  /\ w[k] # sender(r)
              /\ \/ w[k] \in past[c]
                 \/ \E j \in DOMAIN members[c] : j <= next /\ members[c][j] = w[k]
  <2>1. CASE k \in DOMAIN t.recipients /\ w[k] = t.recipients[k]
    <3>1. ASSUME NEW j \in DOMAIN members[c], j <= t.offset
          PROVE  j <= next
      BY <1>1, <1>4, <1>5, <3>1 DEF next
    <3>2. QED
      BY <1>8, <2>1, <3>1
  <2>2. CASE k - Len(t.recipients) \in DOMAIN rest /\ w[k] = rest[k - Len(t.recipients)]
    BY <1>7, <1>9, <2>2
  <2>3. QED
    BY <1>11, <2>1, <2>2
<1>14. Collected'
  <2>1. ASSUME NEW q \in Req
        PROVE  LET v == task'[q]
               IN /\ v.pc \notin {"list", "fanout", "ok", "error"} => v.recipients = <<>>
                  /\ IsInjective(v.recipients)
                  /\ \A i \in DOMAIN v.recipients : v.recipients[i] # sender(q)
                  /\ v.pc = "list" =>
                       \A i \in DOMAIN v.recipients :
                         \/ v.recipients[i] \in past[conv(q)]
                         \/ \E j \in DOMAIN members[conv(q)] :
                              j <= v.offset /\ members[conv(q)][j] = v.recipients[i]
    <3>1. CASE q # r
      BY <1>3, <3>1 DEF RouteInv, Collected
    <3>2. CASE q = r
      <4>1. task'[r].recipients = w
        BY <1>3 DEF w
      <4>2. QED
        BY <1>3, <1>11, <1>13, <3>2, <4>1
    <3>3. QED
      BY <3>1, <3>2
  <2>2. QED
    BY <1>3, <2>1 DEF Collected, world, sender, conv
<1>15. HandedInOrder'
  <2>1. ASSUME NEW u \in User, NEW i \in DOMAIN routed[u]
        PROVE  LET v == task'[messages[routed[u][i]].by]
               IN \E j \in DOMAIN v.recipients : j <= v.sent /\ v.recipients[j] = u
    <3> DEFINE q == messages[routed[u][i]].by
    <3>1. q \in Req
      BY MessageTyped DEF RouteInv, HandedInOrder, StoreInv
    <3>2. PICK j \in DOMAIN task[q].recipients : j <= task[q].sent /\ task[q].recipients[j] = u
      BY DEF RouteInv, HandedInOrder
    <3>3. CASE q = r
      BY <1>3, <1>12, <3>2, <3>3 DEF w
    <3>4. CASE q # r
      BY <1>3, <3>1, <3>2, <3>4
    <3>5. QED
      BY <3>3, <3>4
  <2>2. messages' = messages /\ routed' = routed
    BY <1>3 DEF store
  <2>3. \A u \in User : \A i \in DOMAIN routed[u] : routed[u][i] \in DOMAIN messages
    BY DEF RouteInv, HandedInOrder
  <2>4. QED
    BY <2>1, <2>2, <2>3, HandedByParts
<1>16. MemberRows' /\ RoutedOnce'
  BY <1>3 DEF RouteInv, MemberRows, RoutedOnce, store, world
<1>17. QED
  BY <1>14, <1>15, <1>16 DEF RouteInv

(* The next recipient is one the request has not come to yet.              *)
LEMMA FanOutRoute ==
  ASSUME StoreInv, RouteInv, NEW r \in Req, FanOut(r)
  PROVE  RouteInv'
<1> DEFINE t == task[r]
<1>1. /\ task \in [Req -> Task] /\ t \in Task /\ t.pc = "fanout" /\ t.sent \in Nat
      /\ t.recipients \in Seq(User) /\ t.id \in Nat /\ routed \in [User -> Seq(Nat)]
      /\ UNCHANGED <<store, world>>
  BY DEF StoreInv, TypeOK, FanOut, At, Task
<1>2. CASE ~ (t.sent < Len(t.recipients))
  <2>1. /\ UNCHANGED <<members, past, routed>> /\ \A q \in Req \ {r} : task'[q] = task[q]
        /\ task'[r].recipients = t.recipients /\ task'[r].sent = t.sent /\ task'[r].pc = "ok"
        /\ messages' = messages
    BY <1>1, <1>2 DEF FanOut, Goto, store, world, Task
  <2>2. QED
    BY <2>1, QuietRoute
<1>3. CASE t.sent < Len(t.recipients)
  <2> DEFINE k == t.sent + 1
             u == t.recipients[k]
  <2>1. /\ routed' = [routed EXCEPT ![u] = Append(@, t.id)]
        /\ \A q \in Req \ {r} : task'[q] = task[q]
        /\ task'[r].recipients = t.recipients /\ task'[r].sent = k /\ task'[r].pc = "fanout"
        /\ messages' = messages /\ members' = members /\ past' = past
    BY <1>1, <1>3 DEF FanOut, Task, store, world
  <2>2. k \in 1 .. Len(t.recipients) /\ DOMAIN t.recipients = 1 .. Len(t.recipients)
    BY <1>1, <1>3
  <2>3. u \in User
    BY <1>1, <2>2, ElementOfSeq
  <2>4. /\ t.id \in DOMAIN messages /\ messages[t.id].by = r
        /\ messages[t.id].sender = sender(r)
    BY <1>1 DEF StoreInv, MessageOfRequest, Stored
  <2>5. /\ IsInjective(t.recipients) /\ u # sender(r)
        /\ \A i \in DOMAIN t.recipients : t.recipients[i] # sender(r)
    BY <2>2 DEF RouteInv, Collected
  <2>6. ASSUME NEW i \in DOMAIN routed[u]
        PROVE  routed[u][i] # t.id
    <3>1. SUFFICES ASSUME routed[u][i] = t.id PROVE FALSE
      OBVIOUS
    <3>2. PICK j \in DOMAIN t.recipients : j <= t.sent /\ t.recipients[j] = u
      <4>1. messages[routed[u][i]].by = r
        BY <2>4, <3>1
      <4>2. HandedInOrder
        BY DEF RouteInv
      <4> DEFINE q == messages[routed[u][i]].by
      <4>3. \E j \in DOMAIN task[q].recipients : j <= task[q].sent /\ task[q].recipients[j] = u
        BY <2>3, <4>2, HandedEach, Zenon
      <4>4. q = r
        BY <4>1
      <4> HIDE DEF q
      <4>5. QED
        BY <4>3, <4>4
    <3>3. j = k
      BY <2>2, <2>5, <3>2 DEF IsInjective
    <3>4. QED
      BY <1>1, <3>2, <3>3
  <2>7. k = t.sent + 1 /\ t.recipients[k] = u
    OBVIOUS
  <2> HIDE DEF u, k
  <2>8. ASSUME NEW v \in User \ {u}
        PROVE  routed'[v] = routed[v]
    BY <1>1, <2>1
  <2> DEFINE n == Len(routed[u])
  <2>9. /\ n \in Nat /\ DOMAIN routed[u] = 1 .. n /\ DOMAIN routed'[u] = 1 .. n + 1
        /\ routed'[u][n + 1] = t.id
        /\ \A i \in 1 .. n : routed'[u][i] = routed[u][i]
    <3>1. routed[u] \in Seq(Nat) /\ routed'[u] = Append(routed[u], t.id)
      BY <1>1, <2>1, <2>3
    <3>2. QED
      BY <1>1, <3>1
  <2> HIDE DEF n
  <2>10. Collected'
    <3>1. ASSUME NEW q \in Req
          PROVE  LET v == task'[q]
                 IN /\ v.pc \notin {"list", "fanout", "ok", "error"} => v.recipients = <<>>
                    /\ IsInjective(v.recipients)
                    /\ \A i \in DOMAIN v.recipients : v.recipients[i] # sender(q)
                    /\ v.pc = "list" =>
                         \A i \in DOMAIN v.recipients :
                           \/ v.recipients[i] \in past[conv(q)]
                           \/ \E j \in DOMAIN members[conv(q)] :
                                j <= v.offset /\ members[conv(q)][j] = v.recipients[i]
      <4>1. CASE q # r
        BY <2>1, <4>1 DEF RouteInv, Collected
      <4>2. CASE q = r
        BY <2>1, <2>5, <4>2
      <4>3. QED
        BY <4>1, <4>2
    <3>2. QED
      BY <2>1, <3>1 DEF Collected, sender, conv
  <2>11. ASSUME NEW v \in User, NEW i \in DOMAIN routed[v]
         PROVE  /\ routed[v][i] \in DOMAIN messages /\ messages[routed[v][i]].sender # v
                /\ LET w == task'[messages[routed[v][i]].by]
                   IN \E j \in DOMAIN w.recipients : j <= w.sent /\ w.recipients[j] = v
    <3> DEFINE q == messages[routed[v][i]].by
    <3>1. routed[v][i] \in DOMAIN messages /\ messages[routed[v][i]].sender # v
      BY DEF RouteInv, HandedInOrder, RoutedOnce
    <3>2. q \in Req
      BY <3>1, MessageTyped DEF StoreInv
    <3>3. PICK j \in DOMAIN task[q].recipients : j <= task[q].sent /\ task[q].recipients[j] = v
      BY DEF RouteInv, HandedInOrder
    <3>4. CASE q = r
      <4>1. j \in DOMAIN t.recipients /\ j <= t.sent /\ t.recipients[j] = v
        BY <3>3, <3>4
      <4>2. j <= k
        BY <1>1, <2>2, <2>7, <4>1
      <4>3. QED
        BY <2>1, <3>1, <3>4, <4>1, <4>2
    <3>5. CASE q # r
      BY <2>1, <3>1, <3>2, <3>3, <3>5
    <3>6. QED
      BY <3>4, <3>5
  <2>12. ASSUME NEW v \in User, NEW i \in DOMAIN routed'[v]
         PROVE  /\ routed'[v][i] \in DOMAIN messages'
                /\ messages'[routed'[v][i]].sender # v
                /\ LET w == task'[messages'[routed'[v][i]].by]
                   IN \E j \in DOMAIN w.recipients : j <= w.sent /\ w.recipients[j] = v
    <3>1. CASE v = u /\ i = n + 1
      <4>1. routed'[v][i] = t.id /\ k <= k /\ k \in DOMAIN t.recipients
        BY <2>2, <2>9, <3>1
      <4>2. /\ t.id \in DOMAIN messages' /\ messages'[t.id].sender # v
            /\ messages'[t.id].by = r
        BY <2>1, <2>4, <2>5, <3>1
      <4>3. /\ k \in DOMAIN task'[r].recipients /\ k <= task'[r].sent
            /\ task'[r].recipients[k] = v
        BY <2>1, <2>7, <3>1, <4>1
      <4>4. QED
        BY <4>1, <4>2, <4>3
    <3>2. CASE ~ (v = u /\ i = n + 1)
      <4>1. i \in DOMAIN routed[v] /\ routed'[v][i] = routed[v][i]
        BY <2>8, <2>9, <3>2
      <4> DEFINE m == routed[v][i]
                 w == task'[messages[m].by]
      <4>2. /\ m \in DOMAIN messages /\ messages[m].sender # v
            /\ \E j \in DOMAIN w.recipients : j <= w.sent /\ w.recipients[j] = v
        BY <2>11, <4>1
      <4>3. messages' = messages /\ routed'[v][i] = m
        BY <2>1, <4>1
      <4> HIDE DEF m
      <4>4. QED
        BY <4>2, <4>3
    <3>3. QED
      BY <3>1, <3>2
  <2>13. ASSUME NEW v \in User
         PROVE  IsInjective(routed'[v])
    <3>1. IsInjective(routed[v])
      BY DEF RouteInv, RoutedOnce
    <3>2. CASE v # u
      BY <2>8, <3>1, <3>2
    <3>3. CASE v = u
      <4>1. ASSUME NEW i \in 1 .. n + 1, NEW j \in 1 .. n + 1, routed'[u][i] = routed'[u][j]
            PROVE  i = j
        <5>1. CASE i \in 1 .. n /\ j \in 1 .. n
          BY <2>9, <3>1, <3>3, <4>1, <5>1 DEF IsInjective
        <5>2. CASE i = n + 1 /\ j \in 1 .. n
          BY <2>6, <2>9, <4>1, <5>2
        <5>3. CASE j = n + 1 /\ i \in 1 .. n
          BY <2>6, <2>9, <4>1, <5>3
        <5>4. QED
          BY <2>9, <5>1, <5>2, <5>3
      <4>2. QED
        BY <2>9, <3>3, <4>1 DEF IsInjective
    <3>4. QED
      BY <3>2, <3>3
  <2>14. HandedInOrder'
    BY <2>12 DEF HandedInOrder
  <2>15. RoutedOnce'
    BY <2>12, <2>13 DEF RoutedOnce
  <2>16. MemberRows'
    BY <2>1 DEF RouteInv, MemberRows
  <2>17. QED
    BY <2>10, <2>14, <2>15, <2>16 DEF RouteInv
<1>4. QED
  BY <1>2, <1>3

(* Who joins gets the last row; every other row stays where it is.         *)
LEMMA JoinRoute ==
  ASSUME StoreInv, RouteInv, NEW c \in Group, NEW u \in User, Join(c, u)
  PROVE  RouteInv'
<1> DEFINE n == Len(members[c])
<1>1. /\ c \in Conv /\ members \in [Conv -> Seq(User)] /\ members[c] \in Seq(User)
      /\ n \in Nat /\ DOMAIN members[c] = 1 .. n
  BY GroupAssumption DEF StoreInv, TypeOK
<1>2. /\ members' = [members EXCEPT ![c] = Append(members[c], u)]
      /\ \A i \in 1 .. n : members[c][i] # u
      /\ u \notin past[c] /\ UNCHANGED <<past, store, task, routed, watch>>
  BY <1>1 DEF Join, Contains
<1>3. /\ DOMAIN members'[c] = 1 .. n + 1 /\ members'[c][n + 1] = u
      /\ \A i \in 1 .. n : members'[c][i] = members[c][i]
  <2>1. members'[c] = Append(members[c], u)
    BY <1>1, <1>2
  <2>2. QED
    BY <1>1, <2>1
<1>4. \A e \in Conv \ {c} : members'[e] = members[e]
  BY <1>1, <1>2
<1> HIDE DEF n
<1>5. MemberRows'
  <2>1. ASSUME NEW e \in Conv
        PROVE  /\ IsInjective(members'[e])
               /\ \A i \in DOMAIN members'[e] : members'[e][i] \notin past[e]
    <3>1. CASE e # c
      BY <1>4, <3>1 DEF RouteInv, MemberRows
    <3>2. CASE e = c
      <4>1. \A i, j \in 1 .. n : members[c][i] = members[c][j] => i = j
        BY <1>1 DEF RouteInv, MemberRows, IsInjective
      <4>2. \A i \in 1 .. n : members[c][i] \notin past[c]
        BY <1>1 DEF RouteInv, MemberRows
      <4>3. \A i, j \in 1 .. n + 1 : members'[c][i] = members'[c][j] => i = j
        <5>1. ASSUME NEW i \in 1 .. n + 1, NEW j \in 1 .. n + 1, members'[c][i] = members'[c][j]
              PROVE  i = j
          <6>1. i \in 1 .. n \/ i = n + 1
            BY <1>1
          <6>2. j \in 1 .. n \/ j = n + 1
            BY <1>1
          <6>3. QED
            BY <1>2, <1>3, <4>1, <5>1, <6>1, <6>2
        <5>2. QED
          BY <5>1
      <4>4. \A i \in 1 .. n + 1 : members'[c][i] \notin past[c]
        BY <1>1, <1>2, <1>3, <4>2
      <4>5. QED
        BY <1>3, <3>2, <4>3, <4>4 DEF IsInjective
    <3>3. QED
      BY <3>1, <3>2
  <2>2. QED
    BY <1>2, <2>1 DEF MemberRows
<1>6. ASSUME NEW e \in Conv, NEW j \in DOMAIN members[e]
      PROVE  j \in DOMAIN members'[e] /\ members'[e][j] = members[e][j]
  <2>1. CASE e = c
    BY <1>1, <1>3, <2>1
  <2>2. CASE e # c
    BY <1>4, <2>2
  <2>3. QED
    BY <2>1, <2>2
<1>7. Collected'
  <2>1. ASSUME NEW q \in Req, task[q].pc = "list", NEW i \in DOMAIN task[q].recipients
        PROVE  \/ task[q].recipients[i] \in past[conv(q)]
               \/ \E j \in DOMAIN members'[conv(q)] :
                    j <= task[q].offset /\ members'[conv(q)][j] = task[q].recipients[i]
    BY <1>6, <2>1, PayloadTyped DEF RouteInv, Collected
  <2>2. QED
    BY <1>2, <2>1 DEF RouteInv, Collected, conv, sender
<1>8. HandedInOrder' /\ RoutedOnce'
  <2>1. UNCHANGED <<messages, task, routed>>
    BY <1>2 DEF store
  <2>2. QED
    BY <2>1, RoutedFrame DEF RouteInv
<1>9. QED
  BY <1>5, <1>7, <1>8 DEF RouteInv

(* Who leaves is remembered in past; no other row moves back.              *)
LEMMA LeaveRoute ==
  ASSUME StoreInv, RouteInv, NEW c \in Group, NEW i \in DOMAIN members[c], Leave(c, i)
  PROVE  RouteInv'
<1> DEFINE rest == RemoveAt(members[c], i)
           u    == members[c][i]
<1>1. /\ c \in Conv /\ members \in [Conv -> Seq(User)] /\ members[c] \in Seq(User)
      /\ i \in 1 .. Len(members[c]) /\ IsInjective(members[c])
      /\ past \in [Conv -> SUBSET User]
  BY GroupAssumption DEF StoreInv, TypeOK, RouteInv, MemberRows
<1>2. /\ members' = [members EXCEPT ![c] = rest]
      /\ past' = [past EXCEPT ![c] = @ \cup {u}]
      /\ UNCHANGED <<store, task, routed>>
  BY DEF Leave
<1>3. /\ IsInjective(rest)
      /\ \A j \in DOMAIN rest : rest[j] # u /\ \E k \in DOMAIN members[c] : members[c][k] = rest[j]
      /\ \A k \in DOMAIN members[c] : k # i =>
           \E j \in DOMAIN rest : j <= k /\ rest[j] = members[c][k]
  BY <1>1, RemoveAtKeepsRest
<1> HIDE DEF rest, u
<1>4. /\ members'[c] = rest /\ past'[c] = past[c] \cup {u}
      /\ \A e \in Conv \ {c} : members'[e] = members[e] /\ past'[e] = past[e]
  BY <1>1, <1>2
<1>5. MemberRows'
  <2>1. ASSUME NEW e \in Conv
        PROVE  /\ IsInjective(members'[e])
               /\ \A j \in DOMAIN members'[e] : members'[e][j] \notin past'[e]
    <3>1. CASE e # c
      BY <1>4, <3>1 DEF RouteInv, MemberRows
    <3>2. CASE e = c
      <4>1. \A j \in DOMAIN rest : rest[j] \notin past[c]
        BY <1>1, <1>3 DEF RouteInv, MemberRows
      <4>2. QED
        BY <1>3, <1>4, <3>2, <4>1
    <3>3. QED
      BY <3>1, <3>2
  <2>2. QED
    BY <2>1 DEF MemberRows
<1>6. ASSUME NEW q \in Req, task[q].pc = "list", NEW k \in DOMAIN task[q].recipients
      PROVE  \/ task[q].recipients[k] \in past'[conv(q)]
             \/ \E j \in DOMAIN members'[conv(q)] :
                  j <= task[q].offset /\ members'[conv(q)][j] = task[q].recipients[k]
  <2>1. conv(q) \in Conv /\ task[q].offset \in Nat
    BY PayloadTyped DEF StoreInv, TypeOK, Task
  <2>2. \/ task[q].recipients[k] \in past[conv(q)]
        \/ \E j \in DOMAIN members[conv(q)] :
             j <= task[q].offset /\ members[conv(q)][j] = task[q].recipients[k]
    BY <1>6 DEF RouteInv, Collected
  <2>3. CASE conv(q) # c
    BY <1>4, <2>1, <2>2, <2>3
  <2>4. CASE conv(q) = c
    <3>1. CASE task[q].recipients[k] \in past[c]
      BY <1>4, <2>4, <3>1
    <3>2. CASE task[q].recipients[k] \notin past[c]
      <4>1. PICK j \in DOMAIN members[c] :
              j <= task[q].offset /\ members[c][j] = task[q].recipients[k]
        BY <2>2, <2>4, <3>2
      <4>2. CASE j = i
        BY <1>4, <2>4, <4>1, <4>2 DEF u
      <4>3. CASE j # i
        <5>1. PICK l \in DOMAIN rest : l <= j /\ rest[l] = members[c][j]
          BY <1>3, <4>3
        <5>2. j \in Nat /\ l \in Nat
          <6>1. rest \in Seq(User)
            BY <1>1, RemoveAtIsSeq, Zenon DEF rest
          <6>2. QED
            BY <1>1, <6>1
        <5>3. l <= task[q].offset
          BY <2>1, <4>1, <5>1, <5>2
        <5>4. QED
          BY <1>4, <2>4, <4>1, <5>1, <5>3
      <4>4. QED
        BY <4>2, <4>3
    <3>3. QED
      BY <3>1, <3>2
  <2>5. QED
    BY <2>3, <2>4
<1>7. Collected'
  BY <1>2, <1>6 DEF RouteInv, Collected, conv, sender
<1>8. HandedInOrder' /\ RoutedOnce'
  <2>1. UNCHANGED <<messages, task, routed>>
    BY <1>2 DEF store
  <2>2. QED
    BY <2>1, RoutedFrame DEF RouteInv
<1>9. QED
  BY <1>5, <1>7, <1>8 DEF RouteInv

LEMMA NextRouteInv == StoreInv /\ RouteInv /\ [Next]_vars => RouteInv'
<1> SUFFICES ASSUME StoreInv, RouteInv, [Next]_vars PROVE RouteInv'
  OBVIOUS
<1>1. ASSUME NEW r \in Req, Begin(r) \/ Work(r) \/ Fail(r) PROVE RouteInv'
  BY <1>1, EarlyRoute, ListPageRoute, FanOutRoute DEF Work
<1>2. ASSUME NEW c \in Group, NEW u \in User, Join(c, u) PROVE RouteInv'
  BY <1>2, JoinRoute
<1>3. ASSUME NEW c \in Group, NEW i \in DOMAIN members[c], Leave(c, i) PROVE RouteInv'
  BY <1>3, LeaveRoute
<1>4. CASE UNCHANGED vars
  <2>1. UNCHANGED <<messages, task, routed, members, past>>
    BY <1>4 DEF vars
  <2>2. HandedInOrder' /\ RoutedOnce'
    BY <2>1, RoutedFrame DEF RouteInv
  <2>3. MemberRows' /\ Collected'
    BY <2>1 DEF RouteInv, MemberRows, Collected, conv, sender
  <2>4. QED
    BY <2>2, <2>3 DEF RouteInv
<1>5. QED
  BY <1>1, <1>2, <1>3, <1>4 DEF Next

(* No member is handed a message twice and no sender his own, for any page *)
(* size and however members join and leave under the listing.              *)
THEOREM NobodyTwice == Spec => []RoutedOnce
<1>1. RouteInv => RoutedOnce
  BY DEF RouteInv
<1>2. QED
  BY <1>1, InitStoreInv, InitRouteInv, NextStoreInv, NextRouteInv, PTL DEF Spec

----------------------------------------------------------------------------
\* User u is a member of c or has been one.
Known(c, u) == Contains(members[c], u) \/ u \in past[c]

\* Requests that have passed their check of the membership, and not failed.
Checked(r) == task[r].pc \in {"lookup", "insert", "touch", "list", "fanout", "ok", "dedup"}

(* What the check of the membership is worth from then on: the sender has  *)
(* been a member.                                                          *)
SenderInv == \A r \in Req : Checked(r) => Known(conv(r), sender(r))

(* Who has been a member has been one for good.                            *)
LEMMA KnownStays ==
  ASSUME StoreInv, NEW c \in Group, NEW d \in Conv, NEW v,
         \/ \E u \in User : Join(c, u)
         \/ \E i \in DOMAIN members[c] : Leave(c, i),
         Known(d, v)
  PROVE  Known(d, v)'
<1>1. /\ c \in Conv /\ members \in [Conv -> Seq(User)] /\ members[c] \in Seq(User)
      /\ past \in [Conv -> SUBSET User]
      /\ DOMAIN members[c] = 1 .. Len(members[c]) /\ Len(members[c]) \in Nat
  BY GroupAssumption DEF StoreInv, TypeOK
<1>2. ASSUME NEW u \in User, Join(c, u) PROVE Known(d, v)'
  <2>1. members' = [members EXCEPT ![c] = Append(members[c], u)] /\ past' = past
    BY <1>2 DEF Join
  <2>2. CASE d # c
    <3>1. members'[d] = members[d]
      BY <1>1, <2>1, <2>2
    <3>2. QED
      BY <2>1, <3>1 DEF Known
  <2>3. CASE d = c
    <3>1. members'[c] = Append(members[c], u)
      BY <1>1, <2>1
    <3>2. /\ Len(members'[c]) = Len(members[c]) + 1
          /\ \A j \in 1 .. Len(members[c]) : members'[c][j] = members[c][j]
      BY <1>1, <3>1
    <3>3. Contains(members[c], v) => Contains(members'[c], v)
      BY <1>1, <3>2, SMTT(30) DEF Contains
    <3>4. QED
      BY <2>1, <2>3, <3>3 DEF Known
  <2>4. QED
    BY <2>2, <2>3
<1>3. ASSUME NEW i \in DOMAIN members[c], Leave(c, i) PROVE Known(d, v)'
  <2> DEFINE rest == RemoveAt(members[c], i)
  <2>1. /\ members' = [members EXCEPT ![c] = rest]
        /\ past' = [past EXCEPT ![c] = @ \cup {members[c][i]}]
    BY <1>3 DEF Leave
  <2>2. /\ rest \in Seq(User) /\ Len(rest) = Len(members[c]) - 1
        /\ \A j \in 1 .. Len(members[c]) - 1 : rest[j] = members[c][Before(i, j)]
    BY <1>1, RemoveAtIsSeq, Zenon
  <2> HIDE DEF rest
  <2>3. past[d] \subseteq past'[d]
    BY <1>1, <2>1
  <2>4. CASE d # c
    <3>1. members'[d] = members[d]
      BY <1>1, <2>1, <2>4
    <3>2. QED
      BY <2>3, <3>1 DEF Known
  <2>5. CASE d = c
    <3>1. members'[c] = rest /\ past'[c] = past[c] \cup {members[c][i]}
      BY <1>1, <2>1
    <3>2. ASSUME NEW k \in 1 .. Len(members[c]), members[c][k] = v, k # i
          PROVE  Contains(rest, v)
      <4>1. PICK j \in 1 .. Len(members[c]) - 1 : Before(i, j) = k /\ j <= k
        BY <1>1, <3>2, BeforeCovers
      <4>2. rest[j] = v /\ j \in 1 .. Len(rest)
        BY <2>2, <3>2, <4>1
      <4>3. QED
        BY <4>2 DEF Contains
    <3>3. Contains(members[c], v) => Contains(rest, v) \/ v = members[c][i]
      BY <3>2 DEF Contains
    <3>4. QED
      BY <2>3, <2>5, <3>1, <3>3 DEF Known
  <2>6. QED
    BY <2>4, <2>5
<1>4. QED
  BY <1>2, <1>3

(* A step of a request: its own check is all that brings one past it.      *)
LEMMA QuietSender ==
  ASSUME StoreInv, SenderInv, UNCHANGED <<members, past>>, NEW r \in Req,
         \A q \in Req \ {r} : task'[q] = task[q],
         Checked(r)' => Known(conv(r), sender(r))
  PROVE  SenderInv'
<1>1. ASSUME NEW q \in Req, Checked(q)'
      PROVE  Known(conv(q), sender(q))
  <2>1. CASE q # r
    BY <1>1, <2>1 DEF SenderInv, Checked
  <2>2. CASE q = r
    BY <1>1, <2>2
  <2>3. QED
    BY <2>1, <2>2
<1>2. QED
  BY <1>1 DEF SenderInv, Known, conv, sender

(* The check of the membership, and the other steps of a request.          *)
LEMMA RequestSender ==
  ASSUME StoreInv, SenderInv, NEW r \in Req, Begin(r) \/ Work(r) \/ Fail(r)
  PROVE  SenderInv'
<1>1. task \in [Req -> Task] /\ task[r] \in Task
  BY DEF StoreInv, TypeOK
<1>2. /\ UNCHANGED <<members, past>>
      /\ \A q \in Req \ {r} : task'[q] = task[q]
      /\ \/ Checked(r) \/ task'[r].pc \in {"member", "error"}
         \/ Contains(members[conv(r)], sender(r))
  <2>1. CASE Begin(r)
    BY <1>1, <2>1 DEF Begin, Goto, store, world, Task
  <2>2. CASE CheckMember(r)
    BY <1>1, <2>2 DEF CheckMember, Goto, store, world, Task
  <2>3. CASE LookupNothing(r)
    BY <1>1, <2>3 DEF LookupNothing, At, Checked, store, world
  <2>4. CASE LookupFirst(r)
    BY <1>1, <2>4 DEF LookupFirst, At, Checked, store, world
  <2>5. CASE Insert(r)
    BY <1>1, <2>5 DEF Insert, At, Checked
  <2>6. CASE Touch(r)
    BY <1>1, <2>6 DEF Touch, At, Checked, world
  <2>7. CASE ListPage(r)
    BY <1>1, <2>7 DEF ListPage, At, Checked, store, world
  <2>8. CASE FanOut(r)
    BY <1>1, <2>8 DEF FanOut, Goto, At, Checked, store, world
  <2>9. CASE Fail(r)
    BY <1>1, <2>9 DEF Fail, Goto, store, world, Task
  <2>10. QED
    BY <2>1, <2>2, <2>3, <2>4, <2>5, <2>6, <2>7, <2>8, <2>9 DEF Work
<1>3. Checked(r)' => Known(conv(r), sender(r))
  BY <1>2 DEF SenderInv, Checked, Known
<1>4. QED
  BY <1>2, <1>3, QuietSender

(* Members come and go: nobody is forgotten.                               *)
LEMMA WorldSender ==
  ASSUME StoreInv, SenderInv, NEW c \in Group,
         \/ \E u \in User : Join(c, u)
         \/ \E i \in DOMAIN members[c] : Leave(c, i)
  PROVE  SenderInv'
<1>1. task' = task
  BY DEF Join, Leave
<1>2. ASSUME NEW q \in Req, Checked(q)'
      PROVE  Known(conv(q), sender(q))'
  <2>1. Known(conv(q), sender(q)) /\ conv(q) \in Conv
    BY <1>1, <1>2, PayloadTyped DEF Checked, SenderInv
  <2> DEFINE d == conv(q)
             v == sender(q)
  <2>2. d' = d /\ v' = v
    BY DEF conv, sender
  <2> HIDE DEF d, v
  <2>3. Known(d, v)'
    BY <2>1, KnownStays DEF d, v
  <2>4. QED
    BY <2>2, <2>3 DEF d, v
<1>3. QED
  BY <1>2 DEF SenderInv, conv, sender

LEMMA InitSenderInv == Init => SenderInv
BY DEF Init, SenderInv, Checked

LEMMA NextSenderInv == StoreInv /\ SenderInv /\ [Next]_vars => SenderInv'
<1> SUFFICES ASSUME StoreInv, SenderInv, [Next]_vars PROVE SenderInv'
  OBVIOUS
<1>1. ASSUME NEW r \in Req, Begin(r) \/ Work(r) \/ Fail(r) PROVE SenderInv'
  BY <1>1, RequestSender
<1>2. ASSUME NEW c \in Group, NEW u \in User, Join(c, u) PROVE SenderInv'
  BY <1>2, WorldSender
<1>3. ASSUME NEW c \in Group, NEW i \in DOMAIN members[c], Leave(c, i) PROVE SenderInv'
  BY <1>3, WorldSender
<1>4. CASE UNCHANGED vars
  BY <1>4 DEF vars, SenderInv, Checked, Known, conv, sender
<1>5. QED
  BY <1>1, <1>2, <1>3, <1>4 DEF Next
====
