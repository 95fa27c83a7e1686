------------------------ MODULE GroupDeliveryProofs -----------------------
(***************************************************************************)
(* RoutedToAll of GroupChat, for any requests, groups, page size and       *)
(* number of membership changes: what the pages of the member list leave   *)
(* out, and what the fan-out loop does with what they hold.                *)
(***************************************************************************)
EXTENDS GroupChatProofs

(* Nothing is listed before the listing, nothing handed out before the     *)
(* fan-out.                                                                *)
Untouched ==
  \A r \in Req :
    /\ task[r].pc \in {"new", "member", "lookup", "insert", "touch"} => task[r].offset = 0
    /\ task[r].pc \in {"new", "member", "lookup", "insert", "touch", "list"} => task[r].sent = 0

Collects(r, u) == \E i \in DOMAIN task[r].recipients : task[r].recipients[i] = u
HasRow(c, u)   == \E j \in DOMAIN members[c] : members[c][j] = u

(* While nobody leaves, those who stayed since the insertion have a row    *)
(* until the listing ends, and the offset has passed no row that is not    *)
(* collected, those of later members included.                             *)
StayersListed ==
  \A r \in Req : watch[r].calm =>
    /\ task[r].pc \in {"touch", "list"} => \A u \in watch[r].stayed : HasRow(conv(r), u)
    /\ task[r].pc = "list" =>
         /\ task[r].offset <= Len(members[conv(r)])
         /\ \A j \in DOMAIN members[conv(r)] : j <= task[r].offset =>
              \/ members[conv(r)][j] = sender(r)
              \/ Collects(r, members[conv(r)][j])
    /\ task[r].pc \in {"fanout", "ok"} =>
         \A u \in watch[r].stayed \ {sender(r)} : Collects(r, u)

Handed(u, m) == \E i \in DOMAIN routed[u] : routed[u][i] = m

(* The loop has handed the message to the recipients it is past, and ends  *)
(* past the last.                                                          *)
HandedSoFar ==
  \A r \in Req :
    /\ task[r].pc \in {"fanout", "ok"} =>
         \A i \in DOMAIN task[r].recipients : i <= task[r].sent =>
           Handed(task[r].recipients[i], task[r].id)
    /\ At(r, "ok") => Len(task[r].recipients) <= task[r].sent

ReachInv == Untouched /\ StayersListed /\ HandedSoFar

----------------------------------------------------------------------------
(* Leaving out a user leaves out nobody else.                              *)
LEMMA WithoutKeepsRest ==
  ASSUME NEW s \in Seq(User), NEW u, IsInjective(s)
  PROVE  \A k \in DOMAIN s :
           s[k] = u \/ \E j \in DOMAIN Without(s, u) : Without(s, u)[j] = s[k]
<1>1. CASE ~ Contains(s, u)
  BY <1>1 DEF Without
<1>2. CASE Contains(s, u)
  <2> DEFINE i == CHOOSE i \in DOMAIN s : s[i] = u
  <2>1. i \in 1 .. Len(s) /\ s[i] = u /\ Without(s, u) = RemoveAt(s, i)
    BY <1>2 DEF Without, Contains
  <2> HIDE DEF i
  <2>2. \A k \in DOMAIN s : k # i =>
          \E j \in DOMAIN RemoveAt(s, i) : j <= k /\ RemoveAt(s, i)[j] = s[k]
    BY <2>1, RemoveAtKeepsRest, Zenon
  <2>3. QED
    BY <2>1, <2>2
<1>3. QED
  BY <1>1, <1>2

(* Nobody is listed or handed anything at first.                           *)
LEMMA InitReachInv == Init => ReachInv
BY DEF Init, ReachInv, Untouched, StayersListed, HandedSoFar, At

(* A step of request r before the insertion, or that ends it otherwise     *)
(* than acknowledged as sent.                                              *)
LEMMA QuietReach ==
  ASSUME ReachInv, UNCHANGED <<members, routed, watch>>, NEW r \in Req,
         \A q \in Req \ {r} : task'[q] = task[q],
         task'[r].offset = task[r].offset, task'[r].sent = task[r].sent,
         \/ task'[r].pc \in {"dedup", "error"}
         \/ /\ task'[r].pc \in {"member", "lookup", "insert"}
            /\ task[r].pc \in {"new", "member", "lookup"}
  PROVE  ReachInv'
<1>1. Untouched'
  BY DEF ReachInv, Untouched
<1>2. StayersListed'
  BY DEF ReachInv, StayersListed, Collects, HasRow, conv, sender
<1>3. HandedSoFar'
  BY DEF ReachInv, HandedSoFar, Handed, At
<1>4. QED
  BY <1>1, <1>2, <1>3 DEF ReachInv

(* The steps up to the lookup, and failure.                                *)
LEMMA EarlyReach ==
  ASSUME StoreInv, ReachInv, NEW r \in Req,
         Begin(r) \/ CheckMember(r) \/ LookupNothing(r) \/ LookupFirst(r) \/ Fail(r)
  PROVE  ReachInv'
<1>1. task \in [Req -> Task] /\ task[r] \in Task
  BY DEF StoreInv, TypeOK
<1>2. /\ UNCHANGED <<members, routed, watch>>
      /\ \A q \in Req \ {r} : task'[q] = task[q]
      /\ task'[r].offset = task[r].offset /\ task'[r].sent = task[r].sent
      /\ \/ task'[r].pc \in {"dedup", "error"}
         \/ /\ task'[r].pc \in {"member", "lookup", "insert"}
            /\ task[r].pc \in {"new", "member", "lookup"}
  <2>1. CASE Begin(r)
    BY <1>1, <2>1 DEF Begin, Goto, At, world, Task
  <2>2. CASE CheckMember(r)
    BY <1>1, <2>2 DEF CheckMember, Goto, At, world, Task
  <2>3. CASE LookupNothing(r)
    BY <1>1, <2>3 DEF LookupNothing, At, world, Task
  <2>4. CASE LookupFirst(r)
    <3>1. PICK i \in Same(r) : task' = [task EXCEPT ![r].pc = "dedup", ![r].id = i]
      BY <2>4, Zenon DEF LookupFirst
    <3>2. UNCHANGED world /\ UNCHANGED routed
      BY <2>4, Zenon DEF LookupFirst
    <3>3. QED
      BY <1>1, <3>1, <3>2 DEF world, Task
  <2>5. CASE Fail(r)
    BY <1>1, <2>5 DEF Fail, Goto, world, Task
  <2>6. QED
    BY <2>1, <2>2, <2>3, <2>4, <2>5
<1>3. QED
  BY <1>2, QuietReach

(* At the insertion the members are those who stayed; the listing starts   *)
(* at the first row.                                                       *)
LEMMA InsertReach ==
  ASSUME StoreInv, ReachInv, NEW r \in Req, Insert(r)
  PROVE  ReachInv'
<1>1. /\ task \in [Req -> Task] /\ task[r] \in Task /\ At(r, "insert")
      /\ watch \in [Req -> [stayed : SUBSET User, calm : BOOLEAN]]
  BY DEF StoreInv, TypeOK, Insert
<1>2. /\ UNCHANGED <<members, routed>>
      /\ \A q \in Req \ {r} : task'[q] = task[q] /\ watch'[q] = watch[q]
      /\ task'[r].offset = task[r].offset /\ task'[r].sent = task[r].sent
      /\ task'[r].pc = "touch"
      /\ watch'[r].stayed = ToSet(members[conv(r)])
  BY <1>1 DEF Insert, Task
<1>3. Untouched'
  BY <1>1, <1>2 DEF ReachInv, Untouched, At
<1>4. StayersListed'
  <2>1. \A u \in watch'[r].stayed : HasRow(conv(r), u)'
    <3>1. ToSet(members[conv(r)]) = {members[conv(r)][j] : j \in DOMAIN members[conv(r)]}
      BY DEF ToSet
    <3>2. QED
      BY <1>2, <3>1 DEF HasRow, conv
  <2>2. members' = members
    BY <1>2
  <2>3. ASSUME NEW q \in Req \ {r}
        PROVE  task'[q] = task[q] /\ watch'[q] = watch[q]
    BY <1>2
  <2>4. task'[r].pc = "touch"
    BY <1>2
  <2>5. QED
    BY <2>1, <2>2, <2>3, <2>4, SMTT(30)
    DEF ReachInv, StayersListed, Collects, HasRow, conv, sender
<1>5. HandedSoFar'
  BY <1>2 DEF ReachInv, HandedSoFar, Handed, At
<1>6. QED
  BY <1>3, <1>4, <1>5 DEF ReachInv

LEMMA TouchReach ==
  ASSUME StoreInv, ReachInv, NEW r \in Req, Touch(r)
  PROVE  ReachInv'
<1>1. /\ task \in [Req -> Task] /\ task[r] \in Task /\ task[r].pc = "touch"
      /\ members \in [Conv -> Seq(User)] /\ conv(r) \in Conv
  BY PayloadTyped DEF StoreInv, TypeOK, Touch, At
<1>2. /\ UNCHANGED <<members, routed, watch>>
      /\ \A q \in Req \ {r} : task'[q] = task[q]
      /\ task'[r].offset = task[r].offset /\ task'[r].sent = task[r].sent
      /\ task'[r].pc = "list"
  BY <1>1 DEF Touch, Task, world
<1>3. task[r].offset = 0
  BY <1>1 DEF ReachInv, Untouched
<1>4. Untouched'
  BY <1>1, <1>2 DEF ReachInv, Untouched
<1>5. \A j \in DOMAIN members[conv(r)] : ~ (j <= 0)
  BY <1>1
<1>6. StayersListed'
  <2>1. watch[r].calm => \A u \in watch[r].stayed : HasRow(conv(r), u)
    BY <1>1 DEF ReachInv, StayersListed
  <2>2. 0 <= Len(members[conv(r)])
    BY <1>1
  <2>3. QED
    BY <1>2, <1>3, <1>5, <2>1, <2>2
    DEF ReachInv, StayersListed, Collects, HasRow, conv, sender
<1>7. HandedSoFar'
  BY <1>2 DEF ReachInv, HandedSoFar, Handed, At
<1>8. QED
  BY <1>4, <1>6, <1>7 DEF ReachInv

(* A page collects every row the offset passes with it, and the listing    *)
(* ends past the last row.                                                 *)
LEMMA ListPageReach ==
  ASSUME StoreInv, RouteInv, ReachInv, NEW r \in Req, ListPage(r)
  PROVE  ReachInv'
<1> DEFINE t    == task[r]
           c    == conv(r)
           page == Page(c, t.offset)
           rest == Without(page, sender(r))
           next == t.offset + Len(page)
           w    == t.recipients \o rest
<1>1. /\ task \in [Req -> Task] /\ t \in Task /\ t.pc = "list" /\ t.offset \in Nat
      /\ t.recipients \in Seq(User)
      /\ c \in Conv /\ members[c] \in Seq(User)
      /\ DOMAIN members[c] = 1 .. Len(members[c]) /\ Len(members[c]) \in Nat
  BY PayloadTyped DEF StoreInv, TypeOK, ListPage, At, Task
<1>2. /\ UNCHANGED <<members, routed, watch>>
      /\ \A q \in Req \ {r} : task'[q] = task[q]
      /\ task'[r].recipients = w
      /\ task'[r].offset = next /\ task'[r].sent = t.sent
      /\ task'[r].pc = IF Len(page) < PageSize THEN "fanout" ELSE "list"
  BY <1>1 DEF ListPage, Task, NextOffset, world
<1>3. /\ page \in Seq(User) /\ Len(page) \in Nat /\ DOMAIN page = 1 .. Len(page)
      /\ \A j \in 1 .. Len(page) :
           t.offset + j \in DOMAIN members[c] /\ page[j] = members[c][t.offset + j]
      /\ Len(page) < PageSize => Len(members[c]) <= next
  <2>1. TypeOK
    BY DEF StoreInv
  <2>2. /\ page \in Seq(User)
        /\ \A j \in 1 .. Len(page) :
             t.offset + j \in DOMAIN members[c] /\ page[j] = members[c][t.offset + j]
        /\ Len(page) < PageSize => Len(members[c]) <= next
    BY <1>1, <2>1, PageIsRows, Zenon
  <2> HIDE DEF page
  <2>3. QED
    BY <2>2
<1> HIDE DEF page
<1>4. IsInjective(page)
  <2>1. \A j, k \in DOMAIN members[c] : members[c][j] = members[c][k] => j = k
    BY <1>1 DEF RouteInv, MemberRows, IsInjective
  <2>2. ASSUME NEW j \in DOMAIN page, NEW k \in DOMAIN page, page[j] = page[k]
        PROVE  j = k
    <3>1. t.offset + j = t.offset + k
      BY <1>3, <2>1, <2>2
    <3>2. QED
      BY <1>1, <1>3, <3>1
  <2>3. QED
    BY <2>2 DEF IsInjective
<1>5. /\ rest \in Seq(User)
      /\ \A k \in DOMAIN page :
           page[k] = sender(r) \/ \E j \in DOMAIN rest : rest[j] = page[k]
  <2>1. page \in Seq(User)
    BY <1>3
  <2>2. Without(page, sender(r)) \in Seq(User)
    BY <1>4, <2>1, WithoutIsSeq
  <2>3. \A k \in DOMAIN page :
          \/ page[k] = sender(r)
          \/ \E j \in DOMAIN Without(page, sender(r)) : Without(page, sender(r))[j] = page[k]
    BY <1>4, <2>1, WithoutKeepsRest
  <2>4. QED
    BY <2>2, <2>3
<1> HIDE DEF rest
<1>6. /\ \A i \in DOMAIN t.recipients : i \in DOMAIN w /\ w[i] = t.recipients[i]
      /\ \A j \in DOMAIN rest : \E i \in DOMAIN w : w[i] = rest[j]
  <2>1. /\ \A i \in DOMAIN t.recipients : i \in DOMAIN w /\ w[i] = t.recipients[i]
        /\ \A j \in DOMAIN rest :
             Len(t.recipients) + j \in DOMAIN w /\ w[Len(t.recipients) + j] = rest[j]
    BY <1>1, <1>5
  <2>2. QED
    BY <2>1
<1> HIDE DEF w
<1>7. ASSUME watch[r].calm, NEW j \in DOMAIN members[c], j <= next
      PROVE  members[c][j] = sender(r) \/ \E i \in DOMAIN w : w[i] = members[c][j]
  <2>1. CASE j <= t.offset
    <3>1. members[c][j] = sender(r) \/ Collects(r, members[c][j])
      BY <1>1, <1>7, <2>1 DEF ReachInv, StayersListed
    <3>2. QED
      BY <1>6, <3>1 DEF Collects
  <2>2. CASE ~ (j <= t.offset)
    <3>1. j - t.offset \in DOMAIN page /\ page[j - t.offset] = members[c][j]
      <4>1. j - t.offset \in 1 .. Len(page) /\ t.offset + (j - t.offset) = j
        BY <1>1, <1>3, <1>7, <2>2
      <4>2. QED
        BY <1>3, <4>1
    <3>2. QED
      BY <1>5, <1>6, <3>1
  <2>3. QED
    BY <2>1, <2>2
<1>8. ASSUME watch[r].calm, Len(page) < PageSize, NEW u \in watch[r].stayed
      PROVE  u = sender(r) \/ \E i \in DOMAIN w : w[i] = u
  <2>1. PICK j \in DOMAIN members[c] : members[c][j] = u
    BY <1>1, <1>8 DEF ReachInv, StayersListed, HasRow
  <2>2. j <= next
    BY <1>1, <1>3, <1>8
  <2>3. QED
    BY <1>7, <1>8, <2>1, <2>2
<1> HIDE DEF next
<1>9. Untouched'
  BY <1>1, <1>2 DEF ReachInv, Untouched
<1>10. StayersListed'
  <2>1. ASSUME NEW q \in Req, watch'[q].calm
        PROVE  /\ task'[q].pc \in {"touch", "list"} => \A u \in watch'[q].stayed : HasRow(conv(q), u)'
               /\ task'[q].pc = "list" =>
                    /\ task'[q].offset <= Len(members'[conv(q)])
                    /\ \A j \in DOMAIN members'[conv(q)] : j <= task'[q].offset =>
                         \/ members'[conv(q)][j] = sender(q)
                         \/ Collects(q, members[conv(q)][j])'
               /\ task'[q].pc \in {"fanout", "ok"} =>
                    \A u \in watch'[q].stayed \ {sender(q)} : Collects(q, u)'
    <3>1. CASE q # r
      <4>1. task'[q] = task[q] /\ watch'[q] = watch[q] /\ members' = members
        BY <1>2, <3>1
      <4>2. QED
        BY <2>1, <4>1 DEF ReachInv, StayersListed, HasRow, Collects, conv, sender
    <3>2. CASE q = r
      <4>1. watch[r].calm
        BY <1>2, <2>1, <3>2
      <4>2. \A u \in watch[r].stayed : HasRow(c, u)
        BY <1>1, <4>1 DEF ReachInv, StayersListed
      <4>3. next <= Len(members[c])
        <5>1. t.offset <= Len(members[c])
          BY <1>1, <4>1 DEF ReachInv, StayersListed
        <5>2. CASE Len(page) = 0
          BY <1>1, <5>1, <5>2 DEF next
        <5>3. CASE Len(page) # 0
          <6>1. Len(page) \in 1 .. Len(page)
            BY <1>3, <5>3
          <6>2. next \in DOMAIN members[c]
            BY <1>3, <6>1 DEF next
          <6>3. QED
            BY <1>1, <6>2
        <5>4. QED
          BY <5>2, <5>3
      <4>4. QED
        BY <1>2, <1>7, <1>8, <3>2, <4>1, <4>2, <4>3 DEF Collects, HasRow, conv
    <3>3. QED
      BY <3>1, <3>2
  <2>2. QED
    BY <1>2, <2>1 DEF StayersListed, Collects, HasRow, conv, sender
<1>11. HandedSoFar'
  <2>1. t.sent = 0
    BY <1>1 DEF ReachInv, Untouched
  <2>2. \A i \in DOMAIN w : ~ (i <= 0)
    BY <1>1, <1>5 DEF w
  <2>3. QED
    BY <1>2, <2>1, <2>2 DEF ReachInv, HandedSoFar, Handed, At
<1>12. QED
  BY <1>9, <1>10, <1>11 DEF ReachInv

(* One more recipient is handed the message, or there is none left.        *)
LEMMA FanOutReach ==
  ASSUME StoreInv, ReachInv, NEW r \in Req, FanOut(r)
  PROVE  ReachInv'
<1> DEFINE t == task[r]
<1>1. /\ task \in [Req -> Task] /\ t \in Task /\ t.pc = "fanout" /\ t.sent \in Nat
      /\ t.recipients \in Seq(User) /\ t.id \in Nat /\ routed \in [User -> Seq(Nat)]
      /\ DOMAIN t.recipients = 1 .. Len(t.recipients) /\ Len(t.recipients) \in Nat
  <2>1. /\ task \in [Req -> Task] /\ t.pc = "fanout" /\ routed \in [User -> Seq(Nat)]
    BY DEF StoreInv, TypeOK, FanOut, At
  <2>2. t \in Task
    BY <2>1
  <2>3. t.sent \in Nat /\ t.recipients \in Seq(User) /\ t.id \in Nat
    BY <2>2 DEF Task
  <2>4. QED
    BY <2>1, <2>2, <2>3
<1>2. /\ UNCHANGED <<members, watch>>
      /\ \A q \in Req \ {r} : task'[q] = task[q]
      /\ task'[r].recipients = t.recipients /\ task'[r].offset = t.offset
      /\ task'[r].id = t.id
      /\ task'[r].pc \in {"fanout", "ok"}
  BY <1>1 DEF FanOut, Goto, world, Task
<1>3. Untouched'
  BY <1>1, <1>2 DEF ReachInv, Untouched
<1>4. StayersListed'
  <2>1. \A q \in Req : \A u :
          Collects(q, u) => \E i \in DOMAIN task'[q].recipients : task'[q].recipients[i] = u
    BY <1>2 DEF Collects
  <2>2. \A q \in Req \ {r} : task'[q] = task[q]
    BY <1>2
  <2>3. task'[r].pc \in {"fanout", "ok"} /\ task[r].pc = "fanout"
    BY <1>1, <1>2
  <2>4. members' = members /\ watch' = watch
    BY <1>2
  <2> HIDE DEF t
  <2>5. QED
    BY <2>1, <2>2, <2>3, <2>4, SMTT(30) DEF ReachInv, StayersListed, Collects, HasRow, conv, sender
<1>5. CASE ~ (t.sent < Len(t.recipients))
  <2>1. routed' = routed /\ task'[r].sent = t.sent /\ task'[r].pc = "ok"
    BY <1>1, <1>5 DEF FanOut, Goto, Task
  <2>2. HandedSoFar'
    <3>1. ASSUME NEW q \in Req \ {r}
          PROVE  task'[q] = task[q]
      BY <1>2
    <3>2. \A i \in DOMAIN t.recipients : i <= t.sent => Handed(t.recipients[i], t.id)
      BY <1>1 DEF ReachInv, HandedSoFar
    <3>3. Len(t.recipients) <= t.sent
      BY <1>1, <1>5
    <3>4. ASSUME NEW q \in Req
          PROVE  /\ task'[q].pc \in {"fanout", "ok"} =>
                      \A i \in DOMAIN task'[q].recipients : i <= task'[q].sent =>
                        Handed(task'[q].recipients[i], task'[q].id)
                 /\ task'[q].pc = "ok" => Len(task'[q].recipients) <= task'[q].sent
      <4>1. CASE q = r
        BY <1>2, <2>1, <3>2, <3>3, <4>1
      <4>2. CASE q # r
        BY <3>1, <4>2 DEF ReachInv, HandedSoFar, At
      <4>3. QED
        BY <4>1, <4>2
    <3>5. QED
      BY <2>1, <3>4 DEF HandedSoFar, Handed, At
  <2>3. QED
    BY <1>3, <1>4, <2>2 DEF ReachInv
<1>6. CASE t.sent < Len(t.recipients)
  <2> DEFINE k == t.sent + 1
             u == t.recipients[k]
             HandedNow(v, m) == \E i \in DOMAIN routed'[v] : routed'[v][i] = m
  <2>1. /\ routed' = [routed EXCEPT ![u] = Append(@, t.id)]
        /\ task'[r].sent = k /\ task'[r].pc = "fanout"
    BY <1>1, <1>6 DEF FanOut, Task
  <2>2. k \in DOMAIN t.recipients /\ u \in User
    BY <1>1, <1>6, ElementOfSeq
  <2>3. k = t.sent + 1 /\ t.recipients[k] = u
    OBVIOUS
  <2> HIDE DEF u, k
  <2>4. HandedNow(u, t.id)
    <3>1. routed'[u] = Append(routed[u], t.id) /\ routed[u] \in Seq(Nat)
      BY <1>1, <2>1, <2>2
    <3>2. PICK i \in DOMAIN routed'[u] : routed'[u][i] = t.id
      <4>1. /\ Len(routed[u]) + 1 \in DOMAIN routed'[u]
            /\ routed'[u][Len(routed[u]) + 1] = t.id
        BY <1>1, <3>1
      <4>2. QED
        BY <4>1
    <3>3. QED
      BY <3>2
  <2>5. ASSUME NEW v \in User, NEW m, Handed(v, m)
        PROVE  HandedNow(v, m)
    <3>1. PICK i \in DOMAIN routed[v] : routed[v][i] = m
      BY <2>5 DEF Handed
    <3>2. i \in DOMAIN routed'[v] /\ routed'[v][i] = routed[v][i]
      <4>1. CASE v = u
        <5>1. routed'[u] = Append(routed[u], t.id) /\ routed[u] \in Seq(Nat)
          BY <1>1, <2>1, <2>2
        <5>2. QED
          BY <1>1, <4>1, <5>1
      <4>2. CASE v # u
        BY <1>1, <2>1, <4>2
      <4>3. QED
        BY <4>1, <4>2
    <3>3. QED
      BY <3>1, <3>2
  <2> HIDE DEF HandedNow
  <2>6. ASSUME NEW q \in Req, task'[q].pc \in {"fanout", "ok"},
               NEW i \in DOMAIN task'[q].recipients, i <= task'[q].sent
        PROVE  HandedNow(task'[q].recipients[i], task'[q].id)
    <3>1. CASE q = r
      <4>1. CASE i = k
        BY <1>2, <2>3, <2>4, <3>1, <4>1
      <4>2. CASE i # k
        <5>1. i \in DOMAIN t.recipients /\ i <= t.sent
          <6>1. i \in DOMAIN t.recipients /\ i <= k
            BY <1>2, <2>1, <2>6, <3>1
          <6>2. i \in Nat
            BY <1>1, <6>1
          <6>3. QED
            BY <1>1, <2>3, <4>2, <6>1, <6>2
        <5>2. Handed(t.recipients[i], t.id) /\ t.recipients[i] \in User
          BY <1>1, <5>1, ElementOfSeq DEF ReachInv, HandedSoFar
        <5>3. HandedNow(t.recipients[i], t.id)
          BY <2>5, <5>2
        <5>4. QED
          BY <1>2, <3>1, <5>3
      <4>3. QED
        BY <4>1, <4>2
    <3>2. CASE q # r
      <4>1. task'[q] = task[q]
        BY <1>2, <3>2
      <4>2. Handed(task[q].recipients[i], task[q].id)
        BY <2>6, <4>1 DEF ReachInv, HandedSoFar
      <4>3. task[q].recipients[i] \in User
        <5>1. task[q].recipients \in Seq(User)
          BY <1>1 DEF Task
        <5>2. i \in 1 .. Len(task[q].recipients)
          BY <2>6, <4>1, <5>1
        <5>3. QED
          BY <5>1, <5>2, ElementOfSeq
      <4>4. HandedNow(task[q].recipients[i], task[q].id)
        BY <2>5, <4>2, <4>3
      <4>5. QED
        BY <4>1, <4>4
    <3>3. QED
      BY <3>1, <3>2
  <2>7. ASSUME NEW q \in Req, At(q, "ok")'
        PROVE  Len(task'[q].recipients) <= task'[q].sent
    <3>1. q # r /\ task'[q] = task[q]
      BY <1>2, <2>1, <2>7 DEF At
    <3>2. QED
      BY <2>7, <3>1 DEF ReachInv, HandedSoFar, At
  <2>8. HandedSoFar'
    BY <2>6, <2>7 DEF HandedNow, HandedSoFar, Handed, At
  <2>9. QED
    BY <1>3, <1>4, <2>8 DEF ReachInv
<1>7. QED
  BY <1>5, <1>6

(* Who joins gets a row the listing has not passed.                        *)
LEMMA JoinReach ==
  ASSUME StoreInv, ReachInv, NEW c \in Group, NEW u \in User, Join(c, u)
  PROVE  ReachInv'
<1> DEFINE n == Len(members[c])
<1>1. /\ c \in Conv /\ members \in [Conv -> Seq(User)] /\ members[c] \in Seq(User)
      /\ n \in Nat /\ DOMAIN members[c] = 1 .. n
      /\ task \in [Req -> Task]
  BY GroupAssumption DEF StoreInv, TypeOK
<1>2. /\ members' = [members EXCEPT ![c] = Append(@, u)]
      /\ UNCHANGED <<task, routed, watch>>
  BY DEF Join
<1>3. /\ DOMAIN members'[c] = 1 .. n + 1 /\ Len(members'[c]) = n + 1
      /\ \A i \in 1 .. n : members'[c][i] = members[c][i]
  <2>1. members'[c] = Append(members[c], u)
    BY <1>1, <1>2
  <2>2. QED
    BY <1>1, <2>1
<1>4. \A e \in Conv \ {c} : members'[e] = members[e]
  BY <1>1, <1>2
<1>5. ASSUME NEW q \in Req, watch[q].calm
      PROVE  /\ task[q].pc \in {"touch", "list"} => \A v \in watch[q].stayed : HasRow(conv(q), v)'
             /\ task[q].pc = "list" =>
                  /\ task[q].offset <= Len(members'[conv(q)])
                  /\ \A j \in DOMAIN members'[conv(q)] : j <= task[q].offset =>
                       \/ members'[conv(q)][j] = sender(q)
                       \/ Collects(q, members'[conv(q)][j])
  <2>1. /\ task[q].pc \in {"touch", "list"} => \A v \in watch[q].stayed : HasRow(conv(q), v)
        /\ task[q].pc = "list" =>
             /\ task[q].offset <= Len(members[conv(q)])
             /\ \A j \in DOMAIN members[conv(q)] : j <= task[q].offset =>
                  \/ members[conv(q)][j] = sender(q)
                  \/ Collects(q, members[conv(q)][j])
    BY <1>5 DEF ReachInv, StayersListed
  <2>2. CASE conv(q) # c
    <3>1. members'[conv(q)] = members[conv(q)]
      BY <1>4, <2>2, PayloadTyped
    <3>2. QED
      BY <2>1, <3>1 DEF HasRow, conv
  <2>3. CASE conv(q) = c
    <3>1. ASSUME NEW v, HasRow(c, v) PROVE HasRow(c, v)'
      <4>1. PICK j \in 1 .. n : members[c][j] = v
        BY <1>1, <3>1 DEF HasRow
      <4>2. j \in DOMAIN members'[c] /\ members'[c][j] = v
        BY <1>1, <1>3, <4>1
      <4>3. QED
        BY <4>2 DEF HasRow
    <3>2. ASSUME task[q].pc = "list"
          PROVE  /\ task[q].offset <= Len(members'[c])
                 /\ \A j \in DOMAIN members'[c] : j <= task[q].offset =>
                      members'[c][j] = sender(q) \/ Collects(q, members'[c][j])
      <4>1. task[q].offset \in Nat /\ task[q].offset <= n
        BY <1>1, <2>1, <2>3, <3>2 DEF Task
      <4>2. ASSUME NEW j \in DOMAIN members'[c], j <= task[q].offset
            PROVE  members'[c][j] = sender(q) \/ Collects(q, members'[c][j])
        <5>1. j \in 1 .. n
          BY <1>1, <1>3, <4>1, <4>2
        <5>2. QED
          BY <1>1, <1>3, <2>1, <2>3, <3>2, <4>2, <5>1
      <4>3. QED
        BY <1>1, <1>3, <4>1, <4>2
    <3>3. QED
      BY <2>1, <2>3, <3>1, <3>2 DEF HasRow, conv
  <2>4. QED
    BY <2>2, <2>3
<1>6. StayersListed'
  <2>1. ASSUME NEW q \in Req, watch[q].calm, task[q].pc \in {"fanout", "ok"}
        PROVE  \A v \in watch[q].stayed \ {sender(q)} : Collects(q, v)
    BY <2>1 DEF ReachInv, StayersListed
  <2>2. QED
    BY <1>2, <1>5, <2>1 DEF StayersListed, Collects, HasRow, conv, sender
<1>7. Untouched' /\ HandedSoFar'
  BY <1>2 DEF ReachInv, Untouched, HandedSoFar, Handed, At
<1>8. QED
  BY <1>6, <1>7 DEF ReachInv

(* Who leaves ends the calm of the listings of the group, no other.        *)
LEMMA LeaveReach ==
  ASSUME StoreInv, ReachInv, NEW c \in Group, NEW i \in DOMAIN members[c], Leave(c, i)
  PROVE  ReachInv'
<1>1. c \in Conv /\ members \in [Conv -> Seq(User)]
  BY GroupAssumption DEF StoreInv, TypeOK
<1>2. /\ \A e \in Conv \ {c} : members'[e] = members[e]
      /\ UNCHANGED <<task, routed>>
      /\ \A q \in Listing(c) : ~ watch'[q].calm
      /\ \A q \in Req \ Listing(c) : watch'[q] = watch[q]
  BY <1>1 DEF Leave, Listing
<1>3. StayersListed'
  <2>1. ASSUME NEW q \in Req, watch'[q].calm
        PROVE  /\ task'[q].pc \in {"touch", "list"} => \A u \in watch'[q].stayed : HasRow(conv(q), u)'
               /\ task'[q].pc = "list" =>
                    /\ task'[q].offset <= Len(members'[conv(q)])
                    /\ \A j \in DOMAIN members'[conv(q)] : j <= task'[q].offset =>
                         \/ members'[conv(q)][j] = sender(q)
                         \/ Collects(q, members'[conv(q)][j])
               /\ task'[q].pc \in {"fanout", "ok"} =>
                    \A u \in watch'[q].stayed \ {sender(q)} : Collects(q, u)
    <3>1. q \notin Listing(c) /\ watch'[q] = watch[q] /\ task'[q] = task[q]
      BY <1>2, <2>1
    <3>2. CASE conv(q) = c
      <4>1. task[q].pc \notin {"touch", "list"}
        BY <3>1, <3>2 DEF Listing
      <4>2. QED
        BY <2>1, <3>1, <4>1 DEF ReachInv, StayersListed
    <3>3. CASE conv(q) # c
      <4>1. members'[conv(q)] = members[conv(q)]
        BY <1>2, <3>3, PayloadTyped
      <4>2. QED
        BY <2>1, <3>1, <4>1 DEF ReachInv, StayersListed, HasRow, conv
    <3>4. QED
      BY <3>2, <3>3
  <2>2. QED
    BY <1>2, <2>1 DEF StayersListed, Collects, HasRow, conv, sender
<1>4. Untouched' /\ HandedSoFar'
  BY <1>2 DEF ReachInv, Untouched, HandedSoFar, Handed, At
<1>5. QED
  BY <1>3, <1>4 DEF ReachInv

LEMMA NextReachInv == StoreInv /\ RouteInv /\ ReachInv /\ [Next]_vars => ReachInv'
<1> SUFFICES ASSUME StoreInv, RouteInv, ReachInv, [Next]_vars PROVE ReachInv'
  OBVIOUS
<1>1. ASSUME NEW r \in Req, Begin(r) \/ Work(r) \/ Fail(r) PROVE ReachInv'
  BY <1>1, EarlyReach, InsertReach, TouchReach, ListPageReach, FanOutReach DEF Work
<1>2. ASSUME NEW c \in Group, NEW u \in User, Join(c, u) PROVE ReachInv'
  BY <1>2, JoinReach
<1>3. ASSUME NEW c \in Group, NEW i \in DOMAIN members[c], Leave(c, i) PROVE ReachInv'
  BY <1>3, LeaveReach
<1>4. CASE UNCHANGED vars
  <2>1. UNCHANGED <<members, task, routed, watch>>
    BY <1>4 DEF vars
  <2>2. Untouched' /\ HandedSoFar'
    BY <2>1 DEF ReachInv, Untouched, HandedSoFar, Handed, At
  <2>3. StayersListed'
    BY <2>1 DEF ReachInv, StayersListed, Collects, HasRow, conv, sender
  <2>4. QED
    BY <2>2, <2>3 DEF ReachInv
<1>5. QED
  BY <1>1, <1>2, <1>3, <1>4 DEF Next

(* The listing leaves out nobody who stayed, and the loop none it listed.  *)
LEMMA ReachInvReaches == StoreInv /\ ReachInv => RoutedToAll
<1> SUFFICES ASSUME StoreInv, ReachInv, NEW r \in Req, At(r, "ok"), watch[r].calm,
                    NEW u \in watch[r].stayed \ {sender(r)}
             PROVE  Contains(routed[u], task[r].id)
  BY DEF RoutedToAll
<1>1. PICK i \in DOMAIN task[r].recipients : task[r].recipients[i] = u
  BY DEF ReachInv, StayersListed, Collects, At
<1>2. i <= task[r].sent
  <2>1. task[r].recipients \in Seq(User) /\ task[r].sent \in Nat
    BY DEF StoreInv, TypeOK, Task
  <2>2. Len(task[r].recipients) <= task[r].sent
    BY DEF ReachInv, HandedSoFar
  <2>3. QED
    BY <2>1, <2>2
<1>3. Handed(u, task[r].id)
  BY <1>1, <1>2 DEF ReachInv, HandedSoFar, At
<1>4. routed[u] \in Seq(Nat)
  BY DEF StoreInv, TypeOK
<1>5. QED
  BY <1>3, <1>4 DEF Handed, Contains

(* Whoever was a member from the insertion to the end of the listing is    *)
(* handed the message before it is acknowledged, if nobody left meanwhile, *)
(* for any page size, any joins and any interleaving of requests.          *)
THEOREM EveryStayerReached == Spec => []RoutedToAll
  BY InitStoreInv, InitRouteInv, InitReachInv, NextStoreInv, NextRouteInv, NextReachInv,
     ReachInvReaches, PTL DEF Spec
----------------------------------------------------------------------------
(* The promise of GroupBroadcast.                                          *)

(* A message knows as removed nobody who is not.                           *)
GoneStays == \A i \in DOMAIN messages : messages[i].gone \subseteq past[messages[i].conv]

(* Whom a request is going to hand its message has been a member since the *)
(* insertion.                                                              *)
Listeners ==
  \A r \in Req : Stored(r) =>
    \A k \in DOMAIN task[r].recipients :
      /\ Known(conv(r), task[r].recipients[k])
      /\ task[r].recipients[k] \notin messages[task[r].id].gone

AudienceInv == GoneStays /\ Listeners

LEMMA InitAudience == Init => AudienceInv
BY DEF Init, AudienceInv, GoneStays, Listeners, Stored

(* A step of request r that neither stores nor lists.                      *)
LEMMA QuietAudience ==
  ASSUME StoreInv, AudienceInv, NEW r \in Req,
         Begin(r) \/ CheckMember(r) \/ LookupNothing(r) \/ LookupFirst(r) \/ Touch(r)
           \/ FanOut(r) \/ Fail(r)
  PROVE  AudienceInv'
<1>1. task \in [Req -> Task] /\ task[r] \in Task
  BY DEF StoreInv, TypeOK
<1>2. /\ UNCHANGED <<messages, members, past>>
      /\ \A q \in Req \ {r} : task'[q] = task[q]
      /\ task'[r].recipients = task[r].recipients
      /\ Stored(r)' => Stored(r) /\ task'[r].id = task[r].id
  <2>1. CASE Begin(r)
    BY <1>1, <2>1 DEF Begin, Goto, store, world, Task, Stored
  <2>2. CASE CheckMember(r)
    BY <1>1, <2>2 DEF CheckMember, Goto, store, world, Task, Stored
  <2>3. CASE LookupNothing(r)
    BY <1>1, <2>3 DEF LookupNothing, store, world, Task, Stored
  <2>4. CASE LookupFirst(r)
    <3>1. PICK i \in Same(r) : task' = [task EXCEPT ![r].pc = "dedup", ![r].id = i]
      BY <2>4 DEF LookupFirst
    <3>2. QED
      BY <1>1, <2>4, <3>1 DEF LookupFirst, store, world, Task, Stored
  <2>5. CASE Touch(r)
    BY <1>1, <2>5 DEF Touch, At, world, Task, Stored
  <2>6. CASE FanOut(r)
    <3>1. UNCHANGED <<messages, members, past>> /\ task[r].pc = "fanout"
      BY <2>6 DEF FanOut, At, store, world
    <3>2. task' = [task EXCEPT ![r].sent = @ + 1] \/ task' = [task EXCEPT ![r].pc = "ok"]
      BY <2>6 DEF FanOut, Goto
    <3>3. QED
      BY <1>1, <3>1, <3>2 DEF Task, Stored
  <2>7. CASE Fail(r)
    BY <1>1, <2>7 DEF Fail, Goto, store, world, Task, Stored
  <2>8. QED
    BY <2>1, <2>2, <2>3, <2>4, <2>5, <2>6, <2>7
<1>3. GoneStays'
  BY <1>2 DEF AudienceInv, GoneStays
<1>4. ASSUME NEW q \in Req, Stored(q)', NEW k \in DOMAIN task'[q].recipients
      PROVE  /\ Known(conv(q), task'[q].recipients[k])
             /\ task'[q].recipients[k] \notin messages[task'[q].id].gone
  <2>1. Stored(q) /\ task'[q].recipients = task[q].recipients /\ task'[q].id = task[q].id
    BY <1>2, <1>4 DEF Stored
  <2>2. QED
    BY <1>4, <2>1 DEF AudienceInv, Listeners
<1>5. Listeners'
  BY <1>2, <1>4 DEF Listeners, Known, conv
<1>6. QED
  BY <1>3, <1>5 DEF AudienceInv

(* The insertion, before which nobody has been collected.                  *)
LEMMA InsertAudience ==
  ASSUME StoreInv, RouteInv, AudienceInv, NEW r \in Req, Insert(r)
  PROVE  AudienceInv'
<1> DEFINE m == [conv |-> conv(r), sender |-> sender(r), key |-> key(r), by |-> r,
                 seen |-> task[r].seen, gone |-> past[conv(r)]]
           n == Len(messages)
<1>1. /\ messages' = Append(messages, m) /\ UNCHANGED <<members, past>>
      /\ task[r].pc = "insert" /\ task \in [Req -> Task] /\ task[r] \in Task
      /\ \A q \in Req \ {r} : task'[q] = task[q]
      /\ task'[r].recipients = task[r].recipients
  BY DEF Insert, At, StoreInv, TypeOK, Task
<1>2. m.conv = conv(r) /\ m.gone = past[conv(r)]
  OBVIOUS
<1> HIDE DEF m
<1>3. /\ DOMAIN messages' = 1 .. n + 1 /\ messages'[n + 1] = m
      /\ DOMAIN messages = 1 .. n /\ n \in Nat
      /\ \A i \in 1 .. n : messages'[i] = messages[i]
  BY <1>1 DEF StoreInv, TypeOK
<1> HIDE DEF n
<1>4. ASSUME NEW i \in 1 .. n + 1 PROVE messages'[i].gone \subseteq past[messages'[i].conv]
  <2>1. i = n + 1 \/ i \in 1 .. n
    BY <1>3
  <2>2. QED
    BY <1>2, <1>3, <2>1 DEF AudienceInv, GoneStays
<1>5. task[r].recipients = <<>>
  BY <1>1 DEF RouteInv, Collected
<1>6. ASSUME NEW q \in Req, Stored(q)', NEW k \in DOMAIN task'[q].recipients
      PROVE  /\ Known(conv(q), task'[q].recipients[k])
             /\ task'[q].recipients[k] \notin messages'[task'[q].id].gone
  <2>1. q # r
    BY <1>1, <1>5, <1>6
  <2>2. task'[q] = task[q] /\ Stored(q)
    BY <1>1, <1>6, <2>1 DEF Stored
  <2>3. messages'[task[q].id] = messages[task[q].id]
    BY <1>3, <2>2 DEF StoreInv, MessageOfRequest
  <2>4. QED
    BY <1>6, <2>2, <2>3 DEF AudienceInv, Listeners
<1>7. GoneStays'
  BY <1>1, <1>3, <1>4 DEF GoneStays
<1>8. Listeners'
  BY <1>1, <1>6 DEF Listeners, Known, conv
<1>9. QED
  BY <1>7, <1>8 DEF AudienceInv

(* A page holds members of now, of whom none is removed.                   *)
LEMMA ListPageAudience ==
  ASSUME StoreInv, RouteInv, AudienceInv, NEW r \in Req, ListPage(r)
  PROVE  AudienceInv'
<1> DEFINE t    == task[r]
           c    == conv(r)
           page == Page(c, t.offset)
           rest == Without(page, sender(r))
<1>1. /\ task \in [Req -> Task] /\ t \in Task /\ t.pc = "list" /\ t.offset \in Nat
      /\ t.recipients \in Seq(User)
  BY DEF StoreInv, TypeOK, ListPage, At, Task
<1>2. c \in Conv
  BY PayloadTyped
<1>3. /\ UNCHANGED <<messages, members, past>>
      /\ \A q \in Req \ {r} : task'[q] = task[q]
      /\ task'[r].recipients = t.recipients \o rest /\ task'[r].id = t.id
      /\ Stored(r)
  BY <1>1 DEF ListPage, Task, store, world, Stored
<1>4. /\ page \in Seq(User) /\ Len(page) \in Nat /\ DOMAIN page = 1 .. Len(page)
      /\ \A j \in 1 .. Len(page) :
           t.offset + j \in DOMAIN members[c] /\ page[j] = members[c][t.offset + j]
  BY <1>1, <1>2, PageIsRows DEF StoreInv
<1>5. /\ rest \in Seq(User)
      /\ \A j \in DOMAIN rest : \E k \in DOMAIN page : page[k] = rest[j]
  <2>1. IsInjective(members[c])
    BY <1>2 DEF RouteInv, MemberRows
  <2>2. \A j, k \in DOMAIN members[c] : members[c][j] = members[c][k] => j = k
    BY <2>1 DEF IsInjective
  <2>3. \A j, k \in DOMAIN page : page[j] = page[k] => j = k
    <3> HIDE DEF page
    <3> QED BY <1>1, <1>4, <2>2
  <2>4. IsInjective(page)
    BY <2>3 DEF IsInjective
  <2> HIDE DEF page
  <2>5. QED
    BY <1>4, <2>4, WithoutIsSeq
<1> HIDE DEF rest, page
<1>6. ASSUME NEW j \in DOMAIN rest
      PROVE  Known(c, rest[j]) /\ rest[j] \notin messages[t.id].gone
  <2>1. PICK k \in DOMAIN page : page[k] = rest[j]
    BY <1>5
  <2>2. PICK i \in DOMAIN members[c] : members[c][i] = rest[j]
    BY <1>4, <2>1
  <2>3. Contains(members[c], rest[j])
    <3>1. members[c] \in Seq(User)
      BY <1>2 DEF StoreInv, TypeOK
    <3>2. QED
      BY <2>2, <3>1 DEF Contains
  <2>4. rest[j] \notin past[c]
    BY <1>2, <2>2 DEF RouteInv, MemberRows
  <2>5. messages[t.id].gone \subseteq past[c]
    <3>1. t.id \in DOMAIN messages /\ messages[t.id].by = r
      BY <1>3 DEF StoreInv, MessageOfRequest
    <3>2. messages[t.id].conv = c
      BY <3>1 DEF StoreInv, MessageOfRequest
    <3>3. QED
      BY <3>1, <3>2 DEF AudienceInv, GoneStays
  <2>6. QED
    BY <2>3, <2>4, <2>5 DEF Known
<1>7. ASSUME NEW k \in DOMAIN (t.recipients \o rest)
      PROVE  /\ Known(c, (t.recipients \o rest)[k])
             /\ (t.recipients \o rest)[k] \notin messages[t.id].gone
  <2> DEFINE old == t.recipients
  <2>1. /\ old \in Seq(User) /\ Len(old) \in Nat /\ DOMAIN old = 1 .. Len(old)
        /\ rest \in Seq(User) /\ Len(rest) \in Nat /\ DOMAIN rest = 1 .. Len(rest)
    BY <1>1, <1>5
  <2> HIDE DEF old
  <2>2. /\ DOMAIN (old \o rest) = 1 .. Len(old) + Len(rest)
        /\ \A i \in 1 .. Len(old) + Len(rest) :
             (old \o rest)[i] = IF i <= Len(old) THEN old[i] ELSE rest[i - Len(old)]
    BY <2>1
  <2>3. k \in 1 .. Len(old) + Len(rest)
    BY <1>7, <2>2 DEF old
  <2>4. CASE k <= Len(old)
    <3>1. k \in DOMAIN old /\ (old \o rest)[k] = old[k]
      BY <2>1, <2>2, <2>3, <2>4
    <3>2. Known(c, old[k]) /\ old[k] \notin messages[t.id].gone
      BY <1>3, <3>1 DEF AudienceInv, Listeners, old
    <3>3. QED
      BY <3>1, <3>2 DEF old
  <2>5. CASE ~ (k <= Len(old))
    <3>1. k - Len(old) \in DOMAIN rest /\ (old \o rest)[k] = rest[k - Len(old)]
      BY <2>1, <2>2, <2>3, <2>5
    <3>2. QED
      BY <1>6, <3>1 DEF old
  <2>6. QED
    BY <2>4, <2>5
<1>8. GoneStays'
  BY <1>3 DEF AudienceInv, GoneStays
<1>9. ASSUME NEW q \in Req, Stored(q)', NEW k \in DOMAIN task'[q].recipients
      PROVE  /\ Known(conv(q), task'[q].recipients[k])
             /\ task'[q].recipients[k] \notin messages[task'[q].id].gone
  <2>1. CASE q = r
    BY <1>3, <1>7, <1>9, <2>1
  <2>2. CASE q # r
    BY <1>3, <1>9, <2>2 DEF AudienceInv, Listeners, Stored
  <2>3. QED
    BY <2>1, <2>2
<1>10. Listeners'
  BY <1>3, <1>9 DEF Listeners, Known, conv
<1>11. QED
  BY <1>8, <1>10 DEF AudienceInv

(* Who joins or leaves has been a member, and is then.                     *)
LEMMA WorldAudience ==
  ASSUME StoreInv, AudienceInv, NEW c \in Group,
         \/ \E u \in User : Join(c, u)
         \/ \E i \in DOMAIN members[c] : Leave(c, i)
  PROVE  AudienceInv'
<1>1. UNCHANGED <<messages, task>>
  BY DEF Join, Leave, store
<1>2. \A d \in Conv : past[d] \subseteq past'[d]
  <2>1. past \in [Conv -> SUBSET User]
    BY DEF StoreInv, TypeOK
  <2>2. QED
    BY <2>1 DEF Join, Leave
<1>3. GoneStays'
  <2>1. ASSUME NEW i \in DOMAIN messages
        PROVE  messages[i].gone \subseteq past'[messages[i].conv]
    <3>1. messages[i].conv \in Conv
      BY MessageTyped, GroupAssumption DEF StoreInv, Message
    <3>2. QED
      BY <1>2, <3>1 DEF AudienceInv, GoneStays
  <2>2. QED
    BY <1>1, <2>1 DEF GoneStays
<1>4. ASSUME NEW q \in Req, Stored(q), NEW k \in DOMAIN task[q].recipients
      PROVE  /\ \/ Contains(members'[conv(q)], task[q].recipients[k])
                \/ task[q].recipients[k] \in past'[conv(q)]
             /\ task[q].recipients[k] \notin messages[task[q].id].gone
  <2>1. PICK d \in Conv : d = conv(q)
    BY PayloadTyped
  <2> PICK v : v = task[q].recipients[k]
    OBVIOUS
  <2>2. Known(d, v) /\ v \notin messages[task[q].id].gone
    BY <1>4, <2>1 DEF AudienceInv, Listeners
  <2>3. Known(d, v)'
    BY <2>2, KnownStays
  <2>4. QED
    BY <2>1, <2>2, <2>3 DEF Known
<1>5. Listeners'
  BY <1>1, <1>4 DEF Listeners, Stored, Known, conv
<1>6. QED
  BY <1>3, <1>5 DEF AudienceInv

LEMMA NextAudience ==
  StoreInv /\ RouteInv /\ AudienceInv /\ [Next]_vars => AudienceInv'
<1> SUFFICES ASSUME StoreInv, RouteInv, AudienceInv, [Next]_vars PROVE AudienceInv'
  OBVIOUS
<1>1. ASSUME NEW r \in Req, Begin(r) \/ Work(r) \/ Fail(r) PROVE AudienceInv'
  BY <1>1, QuietAudience, InsertAudience, ListPageAudience DEF Work
<1>2. ASSUME NEW c \in Group, NEW u \in User, Join(c, u) PROVE AudienceInv'
  BY <1>2, WorldAudience
<1>3. ASSUME NEW c \in Group, NEW i \in DOMAIN members[c], Leave(c, i) PROVE AudienceInv'
  BY <1>3, WorldAudience
<1>4. CASE UNCHANGED vars
  BY <1>4 DEF vars, AudienceInv, GoneStays, Listeners, Stored, Known, conv
<1>5. QED
  BY <1>1, <1>2, <1>3, <1>4 DEF Next
\* Who is a member of c or has been one.
Ever(c) == ToSet(members[c]) \cup past[c]

LEMMA KnownIsEver ==
  ASSUME StoreInv, NEW c \in Conv, NEW u
  PROVE  u \in Ever(c) <=> Known(c, u)
<1>1. members[c] \in Seq(User)
  BY DEF StoreInv, TypeOK
<1>2. QED
  BY <1>1 DEF Ever, Known, Contains, ToSet

(* A sequence that is longer by one element.                               *)
LEMMA LongerByOne ==
  ASSUME NEW R, NEW s \in Seq(R), NEW e \in R, NEW t \in Seq(R),
         Len(t) = Len(s) + 1, t[Len(s) + 1] = e, \A i \in 1 .. Len(s) : t[i] = s[i]
  PROVE  t = Append(s, e)
<1>1. /\ Append(s, e) \in Seq(R) /\ Len(Append(s, e)) = Len(s) + 1 /\ Len(s) \in Nat
      /\ \A i \in 1 .. Len(s) : Append(s, e)[i] = s[i]
      /\ Append(s, e)[Len(s) + 1] = e
  BY AppendProperties
<1>2. ASSUME NEW i \in 1 .. Len(t) PROVE t[i] = Append(s, e)[i]
  <2>1. i = Len(s) + 1 \/ i \in 1 .. Len(s)
    BY <1>1
  <2>2. QED
    BY <1>1, <2>1
<1>3. QED
  BY <1>1, <1>2, SeqEqual

LEMMA InitBroadcast == Init => Broadcast!Init
<1> SUFFICES ASSUME Init PROVE Broadcast!Init
  OBVIOUS
<1>1. \A c \in Group : ToSet(members[c]) \cup past[c] \in SUBSET User
  <2> SUFFICES ASSUME NEW c \in Group PROVE ToSet(members[c]) \cup past[c] \in SUBSET User
    OBVIOUS
  <2>1. c \in Conv /\ members[c] \in Seq(User) /\ past[c] = {}
    BY GroupAssumption DEF Init
  <2>2. QED
    BY <2>1, ElementOfSeq DEF ToSet
<1>2. \A c \in Group : past[c] = {}
  BY GroupAssumption DEF Init
<1>3. messages = <<>> /\ routed = [u \in User |-> <<>>]
  BY DEF Init
<1>4. [i \in DOMAIN messages |-> [conv   |-> messages[i].conv,
                                  sender |-> messages[i].sender,
                                  gone   |-> messages[i].gone]] = <<>>
  BY <1>3
<1>5. QED
  BY <1>1, <1>2, <1>3, <1>4 DEF Broadcast!Init

(* Steps that neither store, nor hand out, nor change the membership.      *)
LEMMA QuietBroadcast ==
  ASSUME UNCHANGED <<messages, members, past, routed>>
  PROVE  UNCHANGED Broadcast!vars
BY DEF Broadcast!vars

(* An insertion posts the message.                                         *)
LEMMA InsertPosts ==
  ASSUME StoreInv, SenderInv, NEW r \in Req, Insert(r)
  PROVE  \E c \in Group, u \in User : Broadcast!Post(c, u)
<1> DEFINE m == [conv |-> conv(r), sender |-> sender(r), key |-> key(r), by |-> r,
                 seen |-> task[r].seen, gone |-> past[conv(r)]]
           n == Len(messages)
           c == conv(r)
           u == sender(r)
           e == [conv |-> c, sender |-> u, gone |-> past[c]]
<1>1. messages' = Append(messages, m) /\ UNCHANGED <<members, past, routed>> /\ At(r, "insert")
  BY DEF Insert
<1>2. m.conv = c /\ m.sender = u /\ m.gone = past[c]
  OBVIOUS
<1> HIDE DEF m
<1>3. /\ DOMAIN messages' = 1 .. n + 1 /\ messages'[n + 1] = m
      /\ DOMAIN messages = 1 .. n /\ n \in Nat
      /\ \A i \in 1 .. n : messages'[i] = messages[i]
  BY <1>1 DEF StoreInv, TypeOK
<1>4. c \in Group /\ c \in Conv /\ u \in User /\ Known(c, u)
  BY <1>1, PayloadTyped DEF StoreInv, GroupsOnly, At, SenderInv, Checked
<1>5. u \in Ever(c)
  BY <1>4, KnownIsEver
<1> HIDE DEF c, u, n
<1> DEFINE posts == [i \in DOMAIN messages |-> [conv   |-> messages[i].conv,
                                                sender |-> messages[i].sender,
                                                gone   |-> messages[i].gone]]
           R == {posts[i] : i \in DOMAIN messages} \cup {e}
<1>6. posts' = Append(posts, e)
  <2>1. posts \in Seq(R) /\ e \in R /\ Len(posts) = n
    <3>1. posts \in [1 .. n -> R] /\ e \in R
      BY <1>3
    <3> HIDE DEF posts, R, e
    <3>2. QED
      BY <1>3, <3>1
  <2>2. /\ posts' = [i \in 1 .. n + 1 |-> posts'[i]]
        /\ \A i \in 1 .. n + 1 :
             posts'[i] = [conv |-> messages'[i].conv, sender |-> messages'[i].sender,
                          gone |-> messages'[i].gone]
    BY <1>3
  <2>3. posts'[n + 1] = e
    BY <1>2, <1>3, <2>2
  <2>4. \A i \in 1 .. n : posts'[i] = posts[i]
    BY <1>3, <2>2
  <2> DEFINE t == posts'
  <2> HIDE DEF posts, R, e
  <2>5. /\ t \in Seq(R) /\ Len(t) = Len(posts) + 1 /\ t[Len(posts) + 1] = e
        /\ \A i \in 1 .. Len(posts) : t[i] = posts[i]
    <3>1. \A i \in 1 .. n : posts[i] \in R
      BY <1>3 DEF R
    <3>2. t \in [1 .. n + 1 -> R]
      <4>1. ASSUME NEW i \in 1 .. n + 1 PROVE t[i] \in R
        <5>1. i = n + 1 \/ i \in 1 .. n
          BY <1>3
        <5>2. QED
          BY <2>1, <2>3, <2>4, <3>1, <5>1
      <4>2. t = [i \in 1 .. n + 1 |-> t[i]]
        BY <2>2
      <4> HIDE DEF t
      <4>3. QED
        BY <4>1, <4>2
    <3>3. t[n + 1] = e /\ \A i \in 1 .. n : t[i] = posts[i]
      BY <2>3, <2>4
    <3> HIDE DEF t
    <3>4. QED
      BY <1>3, <2>1, <3>2, <3>3
  <2> HIDE DEF t
  <2>6. t = Append(posts, e)
    BY <2>1, <2>5, LongerByOne
  <2>7. QED
    BY <2>6 DEF t
<1>7. Broadcast!Post(c, u)
  BY <1>1, <1>4, <1>5, <1>6 DEF Broadcast!Post, Ever
<1>8. QED
  BY <1>4, <1>7

(* The loop hands out a message: one of those who may hear it does, for    *)
(* the first time.                                                         *)
LEMMA FanOutHears ==
  ASSUME StoreInv, RouteInv, AudienceInv, RoutedOnce', NEW r \in Req, FanOut(r)
  PROVE  \/ \E i \in DOMAIN messages : \E u \in User : Broadcast!Hear(i, u)
         \/ UNCHANGED Broadcast!vars
<1> DEFINE t == task[r]
           m == t.id
<1>1. task \in [Req -> Task] /\ t \in Task /\ t.pc = "fanout" /\ UNCHANGED <<store, world>>
  BY DEF StoreInv, TypeOK, FanOut, At
<1>2. CASE t.sent < Len(t.recipients)
  <2> DEFINE u == t.recipients[t.sent + 1]
  <2>1. routed' = [routed EXCEPT ![u] = Append(@, m)]
    BY <1>2 DEF FanOut
  <2>2. t.recipients \in Seq(User) /\ t.sent + 1 \in DOMAIN t.recipients
    BY <1>1, <1>2 DEF Task
  <2>3. u \in User
    BY <2>2, ElementOfSeq
  <2>4. /\ m \in DOMAIN messages
        /\ messages[m].conv = conv(r) /\ messages[m].sender = sender(r)
        /\ conv(r) \in Group /\ conv(r) \in Conv
    <3>1. m \in DOMAIN messages /\ messages[m].by = r
      BY <1>1 DEF StoreInv, MessageOfRequest, Stored
    <3>2. QED
      BY <1>1, <3>1, PayloadTyped DEF StoreInv, MessageOfRequest, GroupsOnly
  <2>5. Known(conv(r), u) /\ u \notin messages[m].gone
    BY <1>1, <2>2 DEF AudienceInv, Listeners, Stored
  <2>6. u # sender(r)
    BY <1>1, <2>2 DEF RouteInv, Collected
  <2>7. u \in Ever(conv(r))
    BY <2>4, <2>5, KnownIsEver
  <2> HIDE DEF u
  <2>8. \A k \in DOMAIN routed[u] : routed[u][k] # m
    <3> DEFINE s == routed[u]
    <3>1. routed \in [User -> Seq(Nat)] /\ s \in Seq(Nat) /\ m \in Nat
      BY <1>1, <2>3 DEF StoreInv, TypeOK, Task
    <3>2. routed'[u] = Append(s, m) /\ IsInjective(routed'[u])
      BY <2>1, <2>3, <3>1 DEF RoutedOnce
    <3> HIDE DEF s, m
    <3>3. \A j, k \in DOMAIN Append(s, m) : Append(s, m)[j] = Append(s, m)[k] => j = k
      BY <3>2 DEF IsInjective
    <3>4. /\ DOMAIN Append(s, m) = 1 .. Len(s) + 1 /\ DOMAIN s = 1 .. Len(s) /\ Len(s) \in Nat
          /\ Append(s, m)[Len(s) + 1] = m /\ \A k \in 1 .. Len(s) : Append(s, m)[k] = s[k]
      BY <3>1
    <3>5. \A k \in DOMAIN s : s[k] # m
      BY <3>3, <3>4
    <3>6. QED
      BY <3>5 DEF s
  <2>9. /\ [i \in DOMAIN messages |-> [conv   |-> messages[i].conv,
                                       sender |-> messages[i].sender,
                                       gone   |-> messages[i].gone]][m]
             = [conv |-> conv(r), sender |-> sender(r), gone |-> messages[m].gone]
        /\ [c \in Group |-> ToSet(members[c]) \cup past[c]][conv(r)] = Ever(conv(r))
    BY <2>4 DEF Ever
  <2>10. u \in Broadcast!Audience(m)
    BY <2>5, <2>6, <2>7, <2>9 DEF Broadcast!Audience
  <2>11. Broadcast!Hear(m, u)
    <3>1. UNCHANGED <<messages, members, past>>
      BY <1>1 DEF store, world
    <3>2. QED
      BY <2>1, <2>8, <2>10, <3>1 DEF Broadcast!Hear
  <2>12. QED
    BY <2>3, <2>4, <2>11
<1>3. CASE ~ (t.sent < Len(t.recipients))
  <2>1. UNCHANGED <<messages, members, past, routed>>
    BY <1>1, <1>3 DEF FanOut, store, world
  <2>2. QED
    BY <2>1, QuietBroadcast
<1>4. QED
  BY <1>2, <1>3

(* A new row is a new member.                                              *)
LEMMA JoinJoins ==
  ASSUME StoreInv, NEW c \in Group, NEW u \in User, Join(c, u)
  PROVE  Broadcast!Join(c, u)
<1>1. /\ c \in Conv /\ members \in [Conv -> Seq(User)] /\ members[c] \in Seq(User)
      /\ \A d \in Group : d \in Conv
  BY GroupAssumption DEF StoreInv, TypeOK
<1>2. /\ members' = [members EXCEPT ![c] = Append(members[c], u)]
      /\ UNCHANGED <<past, messages, routed>>
      /\ ~ Known(c, u)
  BY DEF Join, store, Known
<1>3. u \notin Ever(c)
  BY <1>1, <1>2, KnownIsEver
<1>4. ToSet(members'[c]) = ToSet(members[c]) \cup {u}
  <2> DEFINE s == members[c]
  <2>1. s \in Seq(User) /\ members'[c] = Append(s, u)
    BY <1>1, <1>2
  <2> HIDE DEF s
  <2>2. /\ DOMAIN Append(s, u) = 1 .. Len(s) + 1 /\ DOMAIN s = 1 .. Len(s) /\ Len(s) \in Nat
        /\ Append(s, u)[Len(s) + 1] = u /\ \A k \in 1 .. Len(s) : Append(s, u)[k] = s[k]
    BY <2>1
  <2>3. ASSUME NEW x PROVE x \in ToSet(Append(s, u)) <=> x \in ToSet(s) \cup {u}
    <3>1. x \in ToSet(s) => x \in ToSet(Append(s, u))
      BY <2>2 DEF ToSet
    <3>2. u \in ToSet(Append(s, u))
      BY <2>2 DEF ToSet
    <3>3. ASSUME x \in ToSet(Append(s, u)), x # u PROVE x \in ToSet(s)
      <4>1. PICK k \in 1 .. Len(s) + 1 : x = Append(s, u)[k]
        BY <2>2, <3>3 DEF ToSet
      <4>2. k \in 1 .. Len(s)
        BY <2>2, <3>3, <4>1
      <4>3. QED
        BY <2>2, <4>1, <4>2 DEF ToSet
    <3>4. QED
      BY <3>1, <3>2, <3>3
  <2>4. QED
    BY <2>1, <2>3 DEF s
<1>5. \A d \in Group \ {c} : members'[d] = members[d]
  BY <1>1, <1>2
<1>6. [d \in Group |-> ToSet(members'[d]) \cup past'[d]]
        = [[d \in Group |-> ToSet(members[d]) \cup past[d]] EXCEPT ![c] = @ \cup {u}]
  BY <1>2, <1>4, <1>5
<1>7. QED
  BY <1>2, <1>3, <1>6 DEF Broadcast!Join, Ever

(* A deleted row is a member removed.                                      *)
LEMMA LeaveLeaves ==
  ASSUME StoreInv, RouteInv, NEW c \in Group, NEW i \in DOMAIN members[c], Leave(c, i)
  PROVE  \E u \in User : Broadcast!Leave(c, u)
<1> DEFINE s == members[c]
           u == s[i]
<1>1. /\ c \in Conv /\ members \in [Conv -> Seq(User)] /\ s \in Seq(User)
      /\ past \in [Conv -> SUBSET User]
      /\ \A d \in Group : d \in Conv
  BY GroupAssumption DEF StoreInv, TypeOK
<1>2. /\ members' = [members EXCEPT ![c] = RemoveAt(s, i)]
      /\ past' = [past EXCEPT ![c] = @ \cup {u}]
      /\ UNCHANGED <<messages, routed>>
  BY DEF Leave, store
<1>3. u \in User /\ u \notin past[c] /\ u \in ToSet(s) /\ IsInjective(s)
  BY <1>1, ElementOfSeq DEF RouteInv, MemberRows, ToSet
<1>4. /\ \A j \in DOMAIN RemoveAt(s, i) : \E k \in DOMAIN s : s[k] = RemoveAt(s, i)[j]
      /\ \A k \in DOMAIN s : k # i => \E j \in DOMAIN RemoveAt(s, i) : RemoveAt(s, i)[j] = s[k]
  <2>1. i \in 1 .. Len(s)
    BY <1>1
  <2>2. QED
    BY <1>1, <1>3, <2>1, RemoveAtKeepsRest
<1>5. ToSet(RemoveAt(s, i)) \cup {u} = ToSet(s)
  <2> DEFINE rest == RemoveAt(s, i)
  <2> HIDE DEF rest, s
  <2>1. \A j \in DOMAIN rest : \E k \in DOMAIN s : s[k] = rest[j]
    BY <1>4 DEF rest
  <2>2. \A k \in DOMAIN s : s[k] = u \/ \E j \in DOMAIN rest : rest[j] = s[k]
    BY <1>4 DEF rest
  <2>3. ASSUME NEW x PROVE x \in ToSet(rest) \cup {u} <=> x \in ToSet(s)
    BY <1>3, <2>1, <2>2 DEF ToSet
  <2>4. QED
    BY <2>3 DEF rest
<1> HIDE DEF s, u
<1>6. members'[c] = RemoveAt(s, i) /\ past'[c] = past[c] \cup {u}
  BY <1>1, <1>2
<1>7. \A d \in Group \ {c} : members'[d] = members[d] /\ past'[d] = past[d]
  BY <1>1, <1>2
<1>8. [d \in Group |-> ToSet(members'[d]) \cup past'[d]]
        = [d \in Group |-> ToSet(members[d]) \cup past[d]]
  <2>1. ToSet(members'[c]) \cup past'[c] = ToSet(s) \cup past[c]
    BY <1>5, <1>6
  <2>2. \A d \in Group : ToSet(members'[d]) \cup past'[d] = ToSet(members[d]) \cup past[d]
    BY <1>7, <2>1 DEF s
  <2>3. QED
    BY <2>2
<1>9. [d \in Group |-> past'[d]] = [[d \in Group |-> past[d]] EXCEPT ![c] = @ \cup {u}]
  BY <1>6, <1>7
<1>10. u \in Ever(c) \ past[c]
  BY <1>3 DEF Ever, s
<1>11. PICK v \in User : v = u
  BY <1>3
<1>12. Broadcast!Leave(c, v)
  BY <1>2, <1>8, <1>9, <1>10, <1>11 DEF Broadcast!Leave, Ever
<1>13. QED
  BY <1>12

LEMMA NextBroadcast ==
  /\ StoreInv /\ RouteInv /\ SenderInv /\ AudienceInv /\ RoutedOnce'
  /\ [Next]_vars
  => [Broadcast!Next]_Broadcast!vars
<1> SUFFICES ASSUME StoreInv, RouteInv, SenderInv, AudienceInv, RoutedOnce', [Next]_vars
             PROVE  Broadcast!Next \/ UNCHANGED Broadcast!vars
  OBVIOUS
<1>1. ASSUME NEW r \in Req, Begin(r) \/ Work(r) \/ Fail(r)
      PROVE  Broadcast!Next \/ UNCHANGED Broadcast!vars
  <2>1. CASE Insert(r)
    BY <2>1, InsertPosts DEF Broadcast!Next
  <2>2. CASE FanOut(r)
    <3>1. DOMAIN [i \in DOMAIN messages |-> [conv   |-> messages[i].conv,
                                             sender |-> messages[i].sender,
                                             gone   |-> messages[i].gone]] = DOMAIN messages
      OBVIOUS
    <3>2. QED
      BY <2>2, <3>1, FanOutHears DEF Broadcast!Next
  <2>3. CASE ~ Insert(r) /\ ~ FanOut(r)
    <3>1. UNCHANGED <<messages, members, past, routed>>
      BY <1>1, <2>3 DEF Work, Begin, CheckMember, LookupNothing, LookupFirst, Touch, ListPage,
                        Fail, store, world
    <3>2. QED
      BY <3>1, QuietBroadcast
  <2>4. QED
    BY <2>1, <2>2, <2>3
<1>2. ASSUME NEW c \in Group, NEW u \in User, Join(c, u) PROVE Broadcast!Next
  BY <1>2, JoinJoins DEF Broadcast!Next
<1>3. ASSUME NEW c \in Group, NEW i \in DOMAIN members[c], Leave(c, i) PROVE Broadcast!Next
  <2>1. \E u \in User : Broadcast!Leave(c, u)
    BY <1>3, LeaveLeaves
  <2>2. QED
    BY <2>1 DEF Broadcast!Next
<1>4. CASE UNCHANGED vars
  <2>1. UNCHANGED <<messages, members, past, routed>>
    BY <1>4 DEF vars
  <2>2. QED
    BY <2>1, QuietBroadcast
<1>5. QED
  BY <1>1, <1>2, <1>3, <1>4 DEF Next

(* send_to_group keeps the promise of a broadcast: posted by members,      *)
(* heard once at most and only by others who have been members since, for  *)
(* any requests, retries, failures, pages and membership changes.          *)
THEOREM GroupIsABroadcast == Spec => IsABroadcast
<1>1. RouteInv => RoutedOnce
  BY DEF RouteInv
<1>2. QED
  BY <1>1, InitStoreInv, InitRouteInv, InitSenderInv, InitAudience, InitBroadcast,
     NextStoreInv, NextRouteInv, NextSenderInv, NextAudience, NextBroadcast,
     PTL DEF Spec, IsABroadcast, Broadcast!Spec
============================================================================
