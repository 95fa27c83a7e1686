------------------------ MODULE FriendRequestsProofs ------------------------
(***************************************************************************)
(* Proofs about FriendRequests, for any users, handlers, requests already  *)
(* open and listing limit.  Friendship rows are only ever added, so what a *)
(* handler has seen or done stays true while others run; Holds says what   *)
(* each handler knows at each step, and the invariants follow from it.     *)
(***************************************************************************)
EXTENDS FriendRequests, FiniteSetTheorems, SequenceTheorems, TLAPS

Row == [user : User, friend : User]

\* What handler o relies on where it stands.
Holds(o) ==
  /\ task[o].pc \in {"pair", "befriend", "befriend_back", "close"} =>
       /\ task[o].id \in DOMAIN requests
       /\ requests[task[o].id].from = from(o)
       /\ requests[task[o].id].to = to(o)
  /\ task[o].pc \in {"pair", "befriend", "befriend_back"} => kind(o) = "accept"
  /\ task[o].pc = "befriend_back" => Friends(from(o), to(o))
  /\ task[o].pc = "close" /\ kind(o) = "accept" =>
       Friends(from(o), to(o)) /\ Friends(to(o), from(o))
  /\ task[o].pc \in {"save_from", "save_page"} => \A v \in task[o].found : Friends(from(o), v)
  /\ task[o].pc = "save_to" => \A v \in task[o].found : Friends(to(o), v)

FriendInv ==
  /\ TypeOK
  /\ \A o \in Op : Holds(o)
  /\ AcceptedAreFriends
  /\ HalfOnlyBetweenInserts
  /\ CacheHoldsFriends

----------------------------------------------------------------------------
\* The handlers name existing users.
LEMMA OpTyped ==
  ASSUME NEW o \in Op
  PROVE  /\ from(o) \in User /\ to(o) \in User /\ kind(o) \in Kind
         /\ Payload[o].offset \in Nat /\ Payload[o].limit \in Nat
  BY FriendAssumption DEF from, to, kind

\* Inserting a row makes one user a friend of another, and changes nothing
\* else.
LEMMA InsertedRow ==
  ASSUME TypeOK, NEW u \in User, NEW v \in User,
         rows' = Append(rows, [user |-> u, friend |-> v])
  PROVE  /\ rows' \in Seq(Row)
         /\ \A x, y : Friends(x, y)' <=> Friends(x, y) \/ (x = u /\ y = v)
  <1> DEFINE e == [user |-> u, friend |-> v]
  <1>1. rows \in Seq(Row) /\ e \in Row
    BY DEF TypeOK, Row
  <1>2. /\ rows' \in Seq(Row)
        /\ Len(rows') = Len(rows) + 1
        /\ DOMAIN rows = 1 .. Len(rows) /\ DOMAIN rows' = 1 .. Len(rows')
        /\ Len(rows) \in Nat
        /\ rows'[Len(rows) + 1] = e
        /\ \A i \in 1 .. Len(rows) : rows'[i] = rows[i]
    BY <1>1
  <1>3. ASSUME NEW x, NEW y PROVE Friends(x, y)' <=> Friends(x, y) \/ (x = u /\ y = v)
    <2>1. Friends(x, y) => Friends(x, y)'
      BY <1>2 DEF Friends
    <2>2. x = u /\ y = v => Friends(x, y)'
      <3> SUFFICES ASSUME x = u, y = v PROVE Friends(x, y)'
        OBVIOUS
      <3>1. Len(rows) + 1 \in DOMAIN rows'
        BY <1>2
      <3>2. rows'[Len(rows) + 1].user = u /\ rows'[Len(rows) + 1].friend = v
        BY <1>2
      <3> QED BY <3>1, <3>2 DEF Friends
    <2>3. Friends(x, y)' => Friends(x, y) \/ (x = u /\ y = v)
      <3> SUFFICES ASSUME Friends(x, y)' PROVE Friends(x, y) \/ (x = u /\ y = v)
        OBVIOUS
      <3>1. PICK i \in DOMAIN rows' : rows'[i].user = x /\ rows'[i].friend = y
        BY DEF Friends
      <3>2. CASE i = Len(rows) + 1
        BY <3>1, <3>2, <1>2
      <3>3. CASE i # Len(rows) + 1
        <4>1. i \in DOMAIN rows /\ rows'[i] = rows[i]
          BY <3>3, <1>2
        <4> QED BY <4>1, <3>1 DEF Friends
      <3> QED BY <3>2, <3>3
    <2> QED BY <2>1, <2>2, <2>3
  <1> QED BY <1>2, <1>3

\* A listing of a user names friends of that user only.
LEMMA ListedAreFriends ==
  ASSUME TypeOK, NEW u \in User, NEW offset \in Nat, NEW limit \in Nat
  PROVE  \A v \in Listed(u, offset, limit) : v \in User /\ Friends(u, v)
  <1>1. rows \in Seq(Row)
    BY DEF TypeOK, Row
  <1>2. \A i \in DOMAIN rows : rows[i] \in Row
    BY <1>1
  <1>3. \A i \in DOMAIN rows : rows[i].friend \in User
    BY <1>2 DEF Row
  <1> QED BY <1>3 DEF Listed, Newest, Friends

\* What a handler becomes, and what stays of the others.
LEMMA BecomeStep ==
  ASSUME TypeOK, NEW o \in Op, NEW t \in Task, Become(o, t)
  PROVE  /\ task' \in [Op -> Task]
         /\ task'[o] = t
         /\ \A p \in Op \ {o} : task'[p] = task[p]
  BY DEF TypeOK, Become

LEMMA GotoStep ==
  ASSUME TypeOK, NEW o \in Op, NEW pc \in PC, Goto(o, pc)
  PROVE  /\ task' \in [Op -> Task]
         /\ task'[o].pc = pc
         /\ task'[o].id = task[o].id /\ task'[o].seen = task[o].seen
         /\ task'[o].found = task[o].found /\ task'[o].failed = task[o].failed
         /\ \A p \in Op \ {o} : task'[p] = task[p]
  <1> DEFINE t == [task[o] EXCEPT !.pc = pc]
  <1>1. task[o] \in Task
    BY DEF TypeOK
  <1>2. t \in Task /\ t.pc = pc /\ t.id = task[o].id /\ t.seen = task[o].seen
        /\ t.found = task[o].found /\ t.failed = task[o].failed
    BY <1>1 DEF Task
  <1>3. Become(o, t)
    BY DEF Goto
  <1> HIDE DEF t
  <1> QED BY <1>2, <1>3, BecomeStep

\* Where a step leads.
LEMMA GoesTo ==
  ASSUME task \in [Op -> Task], NEW o \in Op, NEW pc, Goto(o, pc)
  PROVE  task'[o].pc = pc
  BY DEF Goto, Become, Task

LEMMA LookUpGoesTo ==
  ASSUME task \in [Op -> Task], NEW o \in Op, NEW page, NEW next, LookUp(o, page, next)
  PROVE  task'[o].pc = next
  <1>1. PICK found, failed : task' = [task EXCEPT ![o] = [task[o] EXCEPT
                               !.pc = next, !.found = found, !.failed = failed]]
    BY DEF LookUp, Become
  <1>2. task[o] \in Task
    OBVIOUS
  <1> DEFINE t == [task[o] EXCEPT !.pc = next, !.found = found, !.failed = failed]
  <1>3. t.pc = next
    BY <1>2 DEF Task
  <1> HIDE DEF t
  <1> QED BY <1>1, <1>3 DEF t

LEMMA InsertGoesTo ==
  ASSUME task \in [Op -> Task], NEW o \in Op, NEW u, NEW v, NEW next, Insert(o, u, v, next)
  PROVE  task'[o].pc \in {next, "error"} /\ requests' = requests
  <1>1. CASE Friends(u, v)
    <2>1. PICK failed : task' = [task EXCEPT ![o] = [task[o] EXCEPT !.pc = "error",
                                                                  !.failed = failed]]
      BY <1>1 DEF Insert, Become
    <2>2. task[o] \in Task
      OBVIOUS
    <2> QED BY <2>1, <2>2 DEF Insert, Task
  <1>2. CASE ~ Friends(u, v)
    <2>1. Goto(o, next)
      BY <1>2 DEF Insert
    <2> QED BY <2>1, GoesTo DEF Insert
  <1> QED BY <1>1, <1>2

LEMMA FindingGoesTo ==
  ASSUME task \in [Op -> Task], NEW o \in Op, Find(o) \/ CheckPair(o)
  PROVE  task'[o].pc \in {"refused", "pair", "befriend", "close"}
  <1>1. CASE \E pc \in {"refused", "befriend"} : Goto(o, pc)
    BY <1>1, GoesTo
  <1>2. CASE \E id : \E pc \in {"pair", "close"} :
               Become(o, [task[o] EXCEPT !.pc = pc, !.id = id])
    <2>1. PICK id : \E pc \in {"pair", "close"} :
            Become(o, [task[o] EXCEPT !.pc = pc, !.id = id])
      BY <1>2
    <2>2. PICK pc \in {"pair", "close"} :
            task' = [task EXCEPT ![o] = [task[o] EXCEPT !.pc = pc, !.id = id]]
      BY <2>1 DEF Become
    <2>3. task[o] \in Task
      OBVIOUS
    <2> QED BY <2>2, <2>3 DEF Task
  <1>3. CASE CheckPair(o)
    <2>1. \E pc \in {"refused", "befriend"} : Goto(o, pc)
      BY <1>3 DEF CheckPair
    <2> QED BY <1>1, <2>1
  <1>4. CASE Find(o)
    <2>1. \/ Goto(o, "refused")
          \/ \E id : Become(o, [task[o] EXCEPT
               !.pc = IF kind(o) = "accept" THEN "pair" ELSE "close", !.id = id])
      BY <1>4 DEF Find
    <2> QED BY <1>1, <1>2, <2>1
  <1> QED BY <1>3, <1>4

LEMMA BefriendingGoesTo ==
  ASSUME task \in [Op -> Task], NEW o \in Op, Befriend(o) \/ BefriendBack(o)
  PROVE  task'[o].pc \in {"befriend_back", "close", "error"} /\ requests' = requests
  BY InsertGoesTo DEF Befriend, BefriendBack

LEMMA ListingGoesTo ==
  ASSUME task \in [Op -> Task], NEW o \in Op, ListFrom(o) \/ ListTo(o) \/ ReadPage(o)
  PROVE  task'[o].pc \in {"save_from", "save_to", "save_page"} /\ requests' = requests
  BY LookUpGoesTo DEF ListFrom, ListTo, ListOf, ReadPage, tables

LEMMA SaveGoesTo ==
  ASSUME task \in [Op -> Task], NEW o \in Op, NEW here, NEW u, NEW expire, NEW next,
         Save(o, here, u, expire, next)
  PROVE  task'[o].pc \in {expire, next} /\ UNCHANGED <<tables, expiries>>
  <1>1. PICK pc \in {expire, next} : Goto(o, pc)
    BY DEF Save
  <1> QED BY <1>1, GoesTo DEF Save

LEMMA SavingGoesTo ==
  ASSUME task \in [Op -> Task], NEW o \in Op, SaveFrom(o) \/ SaveTo(o) \/ SavePage(o)
  PROVE  /\ task'[o].pc \in {"list_to", "ok", "expire_from", "expire_to", "expire_page"}
         /\ requests' = requests
  BY SaveGoesTo DEF SaveFrom, SaveTo, SavePage, tables

LEMMA ExpiringGoesTo ==
  ASSUME task \in [Op -> Task], NEW o \in Op, ExpireFrom(o) \/ ExpireTo(o) \/ ExpirePage(o)
  PROVE  task'[o].pc \in {"list_to", "ok"} /\ requests' = requests
  BY GoesTo DEF ExpireFrom, ExpireTo, ExpirePage, SetExpiry, tables

LEMMA ClosingGoesTo ==
  ASSUME task \in [Op -> Task], NEW o \in Op, MarkAccepted(o) \/ MarkRejected(o)
  PROVE  task'[o].pc \in {"list_from", "ok"}
  BY GoesTo DEF MarkAccepted, MarkRejected, Close

\* What every step of handler o keeps: nothing seen in the tables goes away.
Grown(o) ==
  /\ TypeOK'
  /\ \A p \in Op \ {o} : task'[p] = task[p]
  /\ task[o].failed \subseteq task'[o].failed
  /\ \A u, v : Friends(u, v) => Friends(u, v)'
  /\ \A i \in DOMAIN requests : /\ i \in DOMAIN requests'
                                /\ requests'[i].from = requests[i].from
                                /\ requests'[i].to = requests[i].to

LEMMA SameRows ==
  ASSUME rows' = rows
  PROVE  \A u, v : Friends(u, v)' <=> Friends(u, v)
  BY DEF Friends

\* A step that leaves the tables alone.
LEMMA QuietGrown ==
  ASSUME TypeOK, NEW o \in Op, UNCHANGED tables,
         cached' \in [User -> SUBSET User], lasting' \subseteq User, expiries' = expiries,
         task' \in [Op -> Task], \A p \in Op \ {o} : task'[p] = task[p],
         task[o].failed \subseteq task'[o].failed
  PROVE  Grown(o)
  <1>1. TypeOK'
    BY DEF TypeOK, tables
  <1>2. \A u, v : Friends(u, v)' <=> Friends(u, v)
    BY SameRows DEF tables
  <1> QED BY <1>1, <1>2 DEF Grown, tables

\* Whatever another handler does, handler p may rely on what it relied on.
LEMMA OthersHold ==
  ASSUME NEW o \in Op, Grown(o), NEW p \in Op \ {o}, Holds(p)
  PROVE  Holds(p)'
  <1>1. task'[p] = task[p]
    BY DEF Grown
  <1>2. task[p].pc \in {"pair", "befriend", "befriend_back", "close"} =>
          /\ task[p].id \in DOMAIN requests'
          /\ requests'[task[p].id].from = from(p)
          /\ requests'[task[p].id].to = to(p)
    BY DEF Grown, Holds
  <1>3. \A u, v : Friends(u, v) => Friends(u, v)'
    BY DEF Grown
  <1> QED BY <1>1, <1>2, <1>3 DEF Holds, from, to, kind

LEMMA QuietGoto ==
  ASSUME TypeOK, NEW o \in Op, NEW pc \in PC, Goto(o, pc), UNCHANGED <<tables, redis>>
  PROVE  Grown(o) /\ task'[o].failed = task[o].failed
  <1>1. cached' \in [User -> SUBSET User] /\ lasting' \subseteq User
        /\ expiries' = expiries /\ UNCHANGED tables
    BY DEF TypeOK, redis
  <1>2. task' \in [Op -> Task] /\ (\A p \in Op \ {o} : task'[p] = task[p])
        /\ task'[o].failed = task[o].failed
    BY GotoStep
  <1> QED BY <1>1, <1>2, QuietGrown

LEMMA QuietBecome ==
  ASSUME TypeOK, NEW o \in Op, NEW t \in Task, Become(o, t), UNCHANGED <<tables, redis>>,
         task[o].failed \subseteq t.failed
  PROVE  Grown(o)
  <1>1. cached' \in [User -> SUBSET User] /\ lasting' \subseteq User
        /\ expiries' = expiries /\ UNCHANGED tables
    BY DEF TypeOK, redis
  <1>2. task' \in [Op -> Task] /\ (\A p \in Op \ {o} : task'[p] = task[p]) /\ task'[o] = t
    BY BecomeStep
  <1> QED BY <1>1, <1>2, QuietGrown

\* Steps at which a handler relies on something.
Relying == {"pair", "befriend", "befriend_back", "close", "save_from", "save_page", "save_to"}

LEMMA NothingToHold ==
  ASSUME NEW o \in Op, task'[o].pc \notin Relying
  PROVE  Holds(o)'
  BY DEF Relying, Holds

----------------------------------------------------------------------------
(* One lemma per action of a handler.                                      *)

LEMMA ApplyStep ==
  ASSUME TypeOK, NEW o \in Op, Begin(o) \/ CheckForward(o) \/ CheckBack(o)
  PROVE  Grown(o) /\ Holds(o)'
  <1>1. PICK pc \in {"refused", "forward", "find", "cache", "back", "dup"} : Goto(o, pc)
    BY OpTyped DEF Begin, CheckForward, CheckBack, Kind
  <1>2. UNCHANGED <<tables, redis>>
    BY DEF Begin, CheckForward, CheckBack
  <1>3. pc \in PC
    BY DEF PC, Done
  <1>4. task'[o].pc = pc
    BY <1>1, <1>3, GotoStep
  <1>5. Holds(o)'
    BY <1>4, NothingToHold DEF Relying
  <1> QED BY <1>1, <1>2, <1>3, <1>5, QuietGoto

LEMMA CheckDuplicateStep ==
  ASSUME TypeOK, NEW o \in Op, CheckDuplicate(o)
  PROVE  Grown(o) /\ Holds(o)'
  <1> DEFINE pc == IF Barred(o) = {} THEN "create" ELSE "refused"
             t == [task[o] EXCEPT !.pc = pc, !.seen = Len(requests)]
  <1>1. task[o] \in Task /\ Len(requests) \in Nat
    BY DEF TypeOK
  <1>2. t \in Task /\ t.pc = pc /\ t.failed = task[o].failed
    BY <1>1 DEF Task, PC, Done
  <1>3. Become(o, t) /\ UNCHANGED <<tables, redis>>
    BY DEF CheckDuplicate
  <1> HIDE DEF t
  <1>4. Grown(o)
    BY <1>2, <1>3, QuietBecome
  <1>5. task'[o] = t
    BY <1>2, <1>3, BecomeStep
  <1>6. Holds(o)'
    BY <1>2, <1>5, NothingToHold DEF Relying
  <1> QED BY <1>4, <1>6

LEMMA CreateStep ==
  ASSUME TypeOK, NEW o \in Op, Create(o)
  PROVE  /\ Grown(o) /\ Holds(o)' /\ task'[o].failed = task[o].failed
         /\ \A i \in DOMAIN requests' :
              \/ i \in DOMAIN requests /\ requests'[i] = requests[i]
              \/ requests'[i].status = "pending"
  <1> DEFINE q == [from |-> from(o), to |-> to(o), status |-> "pending",
                   seen |-> task[o].seen]
  <1>1. task[o].seen \in Nat
    BY DEF TypeOK, Task
  <1>2. requests \in Seq(Request) /\ q \in Request
    BY <1>1, OpTyped DEF TypeOK, Request, Status
  <1>3. requests' = Append(requests, q) /\ UNCHANGED <<rows, redis>>
    BY DEF Create
  <1>a. q.status = "pending"
    OBVIOUS
  <1> HIDE DEF q
  <1>4. /\ requests' \in Seq(Request)
        /\ Len(requests) \in Nat
        /\ DOMAIN requests = 1 .. Len(requests)
        /\ DOMAIN requests' = 1 .. Len(requests) + 1
        /\ \A i \in DOMAIN requests : i \in DOMAIN requests' /\ requests'[i] = requests[i]
        /\ requests'[Len(requests) + 1] = q
    BY <1>2, <1>3
  <1>5. "ok" \in PC /\ Goto(o, "ok")
    BY DEF Create, PC, Done
  <1>6. /\ task' \in [Op -> Task]
        /\ task'[o].pc = "ok" /\ task'[o].failed = task[o].failed
        /\ \A p \in Op \ {o} : task'[p] = task[p]
    BY <1>5, GotoStep
  <1>7. TypeOK'
    BY <1>3, <1>4, <1>6 DEF TypeOK, redis
  <1>8. \A u, v : Friends(u, v)' <=> Friends(u, v)
    BY <1>3, SameRows
  <1>9. Grown(o)
    BY <1>4, <1>6, <1>7, <1>8 DEF Grown
  <1>10. Holds(o)'
    BY <1>6, NothingToHold DEF Relying
  <1>11. \A i \in DOMAIN requests' :
           \/ i \in DOMAIN requests /\ requests'[i] = requests[i]
           \/ requests'[i].status = "pending"
    <2> SUFFICES ASSUME NEW i \in DOMAIN requests'
                 PROVE  \/ i \in DOMAIN requests /\ requests'[i] = requests[i]
                        \/ requests'[i].status = "pending"
      OBVIOUS
    <2>1. CASE i = Len(requests) + 1
      BY <2>1, <1>4, <1>a
    <2>2. CASE i # Len(requests) + 1
      BY <2>2, <1>4
    <2> QED BY <2>1, <2>2
  <1> QED BY <1>6, <1>9, <1>10, <1>11

LEMMA FindStep ==
  ASSUME TypeOK, NEW o \in Op, Find(o)
  PROVE  Grown(o) /\ Holds(o)'
  <1> DEFINE mine == {i \in Pending(to(o)) : requests[i].from = from(o)}
  <1>1. CASE mine = {} /\ Goto(o, "refused")
    <2>1. "refused" \in PC /\ UNCHANGED <<tables, redis>>
      BY DEF PC, Done, Find
    <2>2. Grown(o) /\ task'[o].pc = "refused"
      BY <1>1, <2>1, QuietGoto, GotoStep
    <2>3. Holds(o)'
      BY <2>2, NothingToHold DEF Relying
    <2> QED BY <2>2, <2>3
  <1>2. ASSUME NEW i \in mine,
               Become(o, [task[o] EXCEPT !.pc = IF kind(o) = "accept" THEN "pair" ELSE "close",
                                         !.id = i])
        PROVE  Grown(o) /\ Holds(o)'
    <2> DEFINE pc == IF kind(o) = "accept" THEN "pair" ELSE "close"
               t == [task[o] EXCEPT !.pc = pc, !.id = i]
    <2>1. i \in DOMAIN requests /\ requests[i].to = to(o) /\ requests[i].from = from(o)
      BY DEF Pending, Newest
    <2>2. task[o] \in Task /\ i \in Nat
      BY <2>1 DEF TypeOK
    <2>3. t \in Task /\ t.pc = pc /\ t.id = i /\ t.failed = task[o].failed
      BY <2>2 DEF Task, PC
    <2>4. Become(o, t) /\ UNCHANGED <<tables, redis>>
      BY <1>2 DEF Find
    <2> HIDE DEF t
    <2>5. Grown(o)
      BY <2>3, <2>4, QuietBecome
    <2>6. task'[o] = t /\ requests' = requests
      BY <2>3, <2>4, BecomeStep DEF tables
    <2>7. Holds(o)'
      BY <2>1, <2>3, <2>6 DEF Holds, from, to, kind
    <2> QED BY <2>5, <2>7
  <1> QED BY <1>1, <1>2 DEF Find

LEMMA CheckPairStep ==
  ASSUME TypeOK, NEW o \in Op, Holds(o), CheckPair(o)
  PROVE  Grown(o) /\ Holds(o)'
  <1>1. PICK pc \in {"refused", "befriend"} : Goto(o, pc)
    BY DEF CheckPair
  <1>2. pc \in PC /\ UNCHANGED <<tables, redis>> /\ requests' = requests /\ task[o].pc = "pair"
    BY DEF PC, Done, CheckPair, At, tables
  <1>3. Grown(o) /\ task'[o].pc = pc /\ task'[o].id = task[o].id
    BY <1>1, <1>2, QuietGoto, GotoStep
  <1>4. Holds(o)'
    BY <1>2, <1>3 DEF Holds, from, to, kind
  <1> QED BY <1>3, <1>4

\* An insertion of accept either adds the one row or fails on it.
LEMMA InsertStep ==
  ASSUME TypeOK, NEW o \in Op, NEW u \in User, NEW v \in User, NEW next \in PC,
         Insert(o, u, v, next)
  PROVE  /\ Grown(o)
         /\ requests' = requests /\ cached' = cached /\ task'[o].id = task[o].id
         /\ \/ /\ rows' = rows /\ Friends(u, v)
               /\ task'[o].pc = "error" /\ task'[o].failed = task[o].failed \cup {task[o].pc}
            \/ /\ \A x, y : Friends(x, y)' <=> Friends(x, y) \/ (x = u /\ y = v)
               /\ task'[o].pc = next /\ task'[o].failed = task[o].failed
  <1>0. requests' = requests /\ cached' = cached /\ lasting' = lasting /\ expiries' = expiries
    BY DEF Insert, redis
  <1>1. CASE Friends(u, v)
    <2> DEFINE t == [task[o] EXCEPT !.pc = "error", !.failed = @ \cup {task[o].pc}]
    <2>1. task[o] \in Task
      BY DEF TypeOK
    <2>2. t \in Task /\ t.pc = "error" /\ t.id = task[o].id
          /\ t.failed = task[o].failed \cup {task[o].pc}
      BY <2>1 DEF Task, PC, Done
    <2>3. Become(o, t) /\ UNCHANGED rows
      BY <1>1 DEF Insert
    <2> HIDE DEF t
    <2>4. UNCHANGED <<tables, redis>>
      BY <1>0, <2>3 DEF tables, redis
    <2>5. Grown(o)
      BY <2>2, <2>3, <2>4, QuietBecome
    <2>6. task'[o] = t
      BY <2>2, <2>3, BecomeStep
    <2> QED BY <1>0, <1>1, <2>2, <2>3, <2>5, <2>6
  <1>2. CASE ~Friends(u, v)
    <2>1. rows' = Append(rows, [user |-> u, friend |-> v]) /\ Goto(o, next)
      BY <1>2 DEF Insert
    <2>2. /\ rows' \in Seq(Row)
          /\ \A x, y : Friends(x, y)' <=> Friends(x, y) \/ (x = u /\ y = v)
      BY <2>1, InsertedRow
    <2>3. /\ task' \in [Op -> Task]
          /\ task'[o].pc = next /\ task'[o].id = task[o].id
          /\ task'[o].failed = task[o].failed
          /\ \A p \in Op \ {o} : task'[p] = task[p]
      BY <2>1, GotoStep
    <2>4. TypeOK'
      BY <1>0, <2>2, <2>3 DEF TypeOK, Row
    <2>5. Grown(o)
      BY <1>0, <2>2, <2>3, <2>4 DEF Grown
    <2> QED BY <1>0, <2>2, <2>3, <2>5
  <1> QED BY <1>1, <1>2

\* The first insertion: the other direction is still to be written.
LEMMA BefriendStep ==
  ASSUME TypeOK, NEW o \in Op, Holds(o), Befriend(o)
  PROVE  /\ Grown(o) /\ Holds(o)' /\ requests' = requests /\ cached' = cached
         /\ \A x, y : Friends(x, y)' =>
              Friends(x, y) \/ (x = from(o) /\ y = to(o) /\ task'[o].pc = "befriend_back")
  <1>1. task[o].pc = "befriend" /\ Insert(o, from(o), to(o), "befriend_back")
    BY DEF Befriend, At
  <1>2. from(o) \in User /\ to(o) \in User /\ "befriend_back" \in PC
    BY OpTyped DEF PC
  <1>3. Grown(o) /\ requests' = requests /\ cached' = cached /\ task'[o].id = task[o].id
    BY <1>1, <1>2, InsertStep
  <1>4. \/ /\ rows' = rows /\ Friends(from(o), to(o))
           /\ task'[o].pc = "error" /\ task'[o].failed = task[o].failed \cup {task[o].pc}
        \/ /\ \A x, y : Friends(x, y)' <=> Friends(x, y) \/ (x = from(o) /\ y = to(o))
           /\ task'[o].pc = "befriend_back" /\ task'[o].failed = task[o].failed
    BY <1>1, <1>2, InsertStep
  <1>5. CASE /\ rows' = rows /\ task'[o].pc = "error"
    <2>1. Holds(o)'
      BY <1>5, NothingToHold DEF Relying
    <2>2. \A x, y : Friends(x, y)' <=> Friends(x, y)
      BY <1>5, SameRows
    <2> QED BY <2>1, <2>2, <1>3
  <1>6. CASE /\ \A x, y : Friends(x, y)' <=> Friends(x, y) \/ (x = from(o) /\ y = to(o))
             /\ task'[o].pc = "befriend_back"
    <2>1. Friends(from(o), to(o))'
      BY <1>6 DEF from, to
    <2>2. /\ task[o].id \in DOMAIN requests /\ kind(o) = "accept"
          /\ requests[task[o].id].from = from(o) /\ requests[task[o].id].to = to(o)
      BY <1>1 DEF Holds
    <2>3. Holds(o)'
      BY <1>3, <1>6, <2>1, <2>2 DEF Holds, from, to, kind
    <2> QED BY <1>3, <1>6, <2>3
  <1> QED BY <1>4, <1>5, <1>6

\* The second insertion completes the friendship, or fails right there.
LEMMA BefriendBackStep ==
  ASSUME TypeOK, NEW o \in Op, Holds(o), BefriendBack(o)
  PROVE  /\ Grown(o) /\ Holds(o)' /\ requests' = requests /\ cached' = cached
         /\ Friends(to(o), from(o))'
         /\ \A x, y : Friends(x, y)' =>
              Friends(x, y) \/ (x = to(o) /\ y = from(o) /\ Friends(from(o), to(o)))
  <1>1. task[o].pc = "befriend_back" /\ Insert(o, to(o), from(o), "close")
    BY DEF BefriendBack, At
  <1>2. from(o) \in User /\ to(o) \in User /\ "close" \in PC
    BY OpTyped DEF PC
  <1>3. Grown(o) /\ requests' = requests /\ cached' = cached /\ task'[o].id = task[o].id
    BY <1>1, <1>2, InsertStep
  <1>4. \/ /\ rows' = rows /\ Friends(to(o), from(o))
           /\ task'[o].pc = "error" /\ task'[o].failed = task[o].failed \cup {task[o].pc}
        \/ /\ \A x, y : Friends(x, y)' <=> Friends(x, y) \/ (x = to(o) /\ y = from(o))
           /\ task'[o].pc = "close" /\ task'[o].failed = task[o].failed
    BY <1>1, <1>2, InsertStep
  <1>5. CASE /\ rows' = rows /\ Friends(to(o), from(o)) /\ task'[o].pc = "error"
    <2>1. Holds(o)'
      BY <1>5, NothingToHold DEF Relying
    <2>2. \A x, y : Friends(x, y)' <=> Friends(x, y)
      BY <1>5, SameRows
    <2>3. Friends(to(o), from(o))'
      BY <1>5, <2>2 DEF from, to
    <2> QED BY <2>1, <2>2, <2>3, <1>3
  <1>6. CASE /\ \A x, y : Friends(x, y)' <=> Friends(x, y) \/ (x = to(o) /\ y = from(o))
             /\ task'[o].pc = "close"
    <2>1. /\ task[o].id \in DOMAIN requests /\ Friends(from(o), to(o))
          /\ requests[task[o].id].from = from(o) /\ requests[task[o].id].to = to(o)
      BY <1>1 DEF Holds
    <2>2. Friends(from(o), to(o))' /\ Friends(to(o), from(o))'
      BY <1>6, <2>1 DEF from, to
    <2>3. Holds(o)'
      BY <1>3, <1>6, <2>1, <2>2 DEF Holds, from, to, kind
    <2> QED BY <1>3, <1>6, <2>1, <2>2, <2>3
  <1> QED BY <1>4, <1>5, <1>6

\* Closing changes the status of the handled request; it says accepted only
\* when both rows are there.
LEMMA CloseStep ==
  ASSUME TypeOK, NEW o \in Op, Holds(o), MarkAccepted(o) \/ MarkRejected(o)
  PROVE  /\ Grown(o) /\ Holds(o)' /\ rows' = rows /\ cached' = cached
         /\ task'[o].failed = task[o].failed
         /\ \A i \in DOMAIN requests' :
              /\ i \in DOMAIN requests
              /\ requests'[i].from = requests[i].from /\ requests'[i].to = requests[i].to
              /\ requests'[i].status = "accepted" =>
                   \/ requests[i].status = "accepted"
                   \/ Friends(requests[i].from, requests[i].to)
                      /\ Friends(requests[i].to, requests[i].from)
  <1> DEFINE id == task[o].id
             status == IF kind(o) = "accept" THEN "accepted" ELSE "rejected"
             pc == IF kind(o) = "accept" THEN "list_from" ELSE "ok"
  <1>1. /\ task[o].pc = "close" /\ Goto(o, pc)
        /\ requests' = [requests EXCEPT ![id].status = status]
        /\ UNCHANGED <<rows, redis>>
    BY DEF MarkAccepted, MarkRejected, Close, At
  <1>2. /\ id \in DOMAIN requests
        /\ requests[id].from = from(o) /\ requests[id].to = to(o)
        /\ kind(o) = "accept" => Friends(from(o), to(o)) /\ Friends(to(o), from(o))
    BY <1>1 DEF Holds
  <1>3. pc \in PC /\ pc \notin Relying
    BY DEF PC, Done, Refresh, RefreshFrom, RefreshTo, Relying
  <1>4. /\ task' \in [Op -> Task]
        /\ task'[o].pc = pc /\ task'[o].failed = task[o].failed
        /\ \A p \in Op \ {o} : task'[p] = task[p]
    BY <1>1, <1>3, GotoStep
  <1> HIDE DEF id, pc
  <1>5. requests \in Seq(Request) /\ status \in Status
    BY DEF TypeOK, Status
  <1>6. requests[id] \in Request
    BY <1>2, <1>5
  <1>7. DEFINE q == [requests[id] EXCEPT !.status = status]
  <1>8. /\ q \in Request /\ q.from = requests[id].from /\ q.to = requests[id].to
        /\ q.status = status
    BY <1>5, <1>6 DEF Request
  <1>9. requests' = [requests EXCEPT ![id] = q]
    BY <1>1
  <1> HIDE DEF q
  <1>10. /\ requests' \in Seq(Request) /\ DOMAIN requests' = DOMAIN requests
         /\ requests'[id] = q
         /\ \A i \in DOMAIN requests \ {id} : requests'[i] = requests[i]
    BY <1>2, <1>5, <1>8, <1>9
  <1>11. TypeOK'
    BY <1>1, <1>4, <1>10 DEF TypeOK, redis
  <1>12. \A u, v : Friends(u, v)' <=> Friends(u, v)
    BY <1>1, SameRows
  <1>13. \A i \in DOMAIN requests :
           requests'[i].from = requests[i].from /\ requests'[i].to = requests[i].to
    BY <1>8, <1>10
  <1>14. Grown(o)
    BY <1>4, <1>10, <1>11, <1>12, <1>13 DEF Grown
  <1>15. ASSUME NEW i \in DOMAIN requests', requests'[i].status = "accepted",
                requests[i].status # "accepted"
         PROVE  Friends(requests[i].from, requests[i].to)
                /\ Friends(requests[i].to, requests[i].from)
    <2>1. i = id
      BY <1>10, <1>15
    <2>2. status = "accepted"
      BY <2>1, <1>8, <1>10, <1>15
    <2>3. kind(o) = "accept"
      BY <2>2
    <2> QED BY <1>2, <2>1, <2>3
  <1>16. Holds(o)'
    BY <1>3, <1>4, NothingToHold
  <1>17. cached' = cached
    BY <1>1 DEF redis
  <1> QED BY <1>1, <1>4, <1>10, <1>13, <1>14, <1>15, <1>16, <1>17

\* What a look-up leaves in the handler are friends of the user listed.
LEMMA LookUpStep ==
  ASSUME TypeOK, NEW o \in Op, NEW u \in User, NEW offset \in Nat, NEW limit \in Nat,
         NEW next \in PC, LookUp(o, Listed(u, offset, limit), next),
         UNCHANGED <<tables, redis>>
  PROVE  /\ Grown(o) /\ task'[o].pc = next /\ \A v \in task'[o].found : Friends(u, v)'
         /\ task'[o].found = Listed(u, offset, limit) \/ task[o].pc \in task'[o].failed
  <1> DEFINE page == Listed(u, offset, limit)
  <1>1. \A v \in page : v \in User /\ Friends(u, v)
    BY ListedAreFriends
  <1> HIDE DEF page
  <1>2. PICK found \in SUBSET page :
          Become(o, [task[o] EXCEPT
            !.pc = next, !.found = found,
            !.failed = IF found = page THEN @ ELSE @ \cup {task[o].pc}])
    BY DEF LookUp, page
  <1> DEFINE failed == IF found = page THEN task[o].failed ELSE task[o].failed \cup {task[o].pc}
             t == [task[o] EXCEPT !.pc = next, !.found = found, !.failed = failed]
  <1>3. task[o] \in Task
    BY DEF TypeOK
  <1>4. failed \in SUBSET PC /\ task[o].failed \subseteq failed /\ found \in SUBSET User
    BY <1>1, <1>3 DEF Task
  <1>5. t \in Task /\ t.pc = next /\ t.found = found /\ t.failed = failed
    <2> HIDE DEF failed
    <2> QED BY <1>3, <1>4 DEF Task
  <1>6. Become(o, t)
    BY <1>2
  <1> HIDE DEF t, failed
  <1>7. Grown(o)
    BY <1>4, <1>5, <1>6, QuietBecome
  <1>8. task'[o] = t
    BY <1>5, <1>6, BecomeStep
  <1>9. \A v : Friends(u, v)' <=> Friends(u, v)
    BY SameRows DEF tables
  <1>10. found = page \/ task[o].pc \in failed
    BY DEF failed
  <1> QED BY <1>1, <1>5, <1>7, <1>8, <1>9, <1>10 DEF page

LEMMA ListingStep ==
  ASSUME TypeOK, NEW o \in Op, ListFrom(o) \/ ListTo(o) \/ ReadPage(o)
  PROVE  Grown(o) /\ Holds(o)' /\ UNCHANGED <<tables, redis>>
  <1>0. UNCHANGED <<tables, redis>>
    BY DEF ListFrom, ListTo, ListOf, ReadPage
  <1>1. /\ from(o) \in User /\ to(o) \in User /\ 0 \in Nat /\ ListMax \in Nat
        /\ Payload[o].offset \in Nat /\ Payload[o].limit \in Nat
        /\ "save_from" \in PC /\ "save_to" \in PC /\ "save_page" \in PC
    BY OpTyped, FriendAssumption DEF PC, Refresh, RefreshFrom, RefreshTo
  <1>2. CASE ListFrom(o)
    <2>1. Grown(o) /\ task'[o].pc = "save_from" /\ \A v \in task'[o].found : Friends(from(o), v)'
      BY <1>0, <1>1, <1>2, LookUpStep DEF ListFrom, ListOf
    <2>2. Holds(o)'
      BY <2>1 DEF Holds, from, to
    <2> QED BY <1>0, <2>1, <2>2
  <1>3. CASE ListTo(o)
    <2>1. Grown(o) /\ task'[o].pc = "save_to" /\ \A v \in task'[o].found : Friends(to(o), v)'
      BY <1>0, <1>1, <1>3, LookUpStep DEF ListTo, ListOf
    <2>2. Holds(o)'
      BY <2>1 DEF Holds, from, to
    <2> QED BY <1>0, <2>1, <2>2
  <1>4. CASE ReadPage(o)
    <2>1. Grown(o) /\ task'[o].pc = "save_page" /\ \A v \in task'[o].found : Friends(from(o), v)'
      BY <1>0, <1>1, <1>4, LookUpStep DEF ReadPage
    <2>2. Holds(o)'
      BY <2>1 DEF Holds, from, to
    <2> QED BY <1>0, <2>1, <2>2
  <1> QED BY <1>2, <1>3, <1>4

\* A saved list is what was listed, so it names friends.
LEMMA SaveStep ==
  ASSUME TypeOK, CacheHoldsFriends, NEW o \in Op, NEW here \in PC, NEW u \in User,
         NEW expire \in PC, NEW next \in PC, Save(o, here, u, expire, next),
         \A v \in task[o].found : Friends(u, v)
  PROVE  /\ Grown(o) /\ task'[o].pc \in {expire, next} /\ UNCHANGED tables
         /\ task'[o].failed = task[o].failed
         /\ CacheHoldsFriends'
  <1> DEFINE set == IF task[o].found = {} THEN {} ELSE cached[u] \cup task[o].found
  <1>0. PICK pc \in {expire, next} : Goto(o, pc)
    BY DEF Save
  <1>1. cached' = [cached EXCEPT ![u] = set] /\ lasting' \subseteq User
        /\ UNCHANGED <<tables, expiries>>
    BY DEF Save, Clear, Added, TypeOK
  <1>2. task[o].found \in SUBSET User /\ cached \in [User -> SUBSET User]
    BY DEF TypeOK, Task
  <1>3. set \in SUBSET User /\ set \subseteq cached[u] \cup task[o].found
    BY <1>2
  <1> HIDE DEF set
  <1>4. /\ cached' \in [User -> SUBSET User] /\ cached'[u] = set
        /\ \A x \in User \ {u} : cached'[x] = cached[x]
    BY <1>1, <1>2, <1>3
  <1>5. /\ task' \in [Op -> Task]
        /\ task'[o].pc \in {expire, next} /\ task'[o].failed = task[o].failed
        /\ \A p \in Op \ {o} : task'[p] = task[p]
    BY <1>0, GotoStep
  <1>6. Grown(o)
    BY <1>1, <1>4, <1>5, QuietGrown
  <1>7. \A x, y : Friends(x, y)' <=> Friends(x, y)
    BY <1>1, SameRows DEF tables
  <1>8. \A x \in User : \A v \in cached'[x] : Friends(x, v)
    BY <1>3, <1>4 DEF CacheHoldsFriends
  <1>9. CacheHoldsFriends'
    BY <1>7, <1>8 DEF CacheHoldsFriends
  <1> QED BY <1>1, <1>5, <1>6, <1>9

LEMMA SavingStep ==
  ASSUME TypeOK, CacheHoldsFriends, NEW o \in Op, Holds(o),
         SaveFrom(o) \/ SaveTo(o) \/ SavePage(o)
  PROVE  Grown(o) /\ Holds(o)' /\ UNCHANGED tables /\ CacheHoldsFriends'
  <1>1. /\ from(o) \in User /\ to(o) \in User
        /\ "save_from" \in PC /\ "save_to" \in PC /\ "save_page" \in PC
        /\ "list_to" \in PC /\ "ok" \in PC
        /\ "expire_from" \in PC /\ "expire_to" \in PC /\ "expire_page" \in PC
    BY OpTyped DEF PC, Refresh, RefreshFrom, RefreshTo, Done
  <1>2. CASE SaveFrom(o)
    <2>1. /\ Save(o, "save_from", from(o), "expire_from", "list_to")
          /\ \A v \in task[o].found : Friends(from(o), v)
      BY <1>2 DEF SaveFrom, Save, At, Holds
    <2>2. /\ Grown(o) /\ task'[o].pc \in {"expire_from", "list_to"} /\ UNCHANGED tables /\ CacheHoldsFriends'
      BY <1>1, <2>1, SaveStep
    <2> QED BY <2>2, NothingToHold DEF Relying
  <1>3. CASE SaveTo(o)
    <2>1. /\ Save(o, "save_to", to(o), "expire_to", "ok")
          /\ \A v \in task[o].found : Friends(to(o), v)
      BY <1>3 DEF SaveTo, Save, At, Holds
    <2>2. /\ Grown(o) /\ task'[o].pc \in {"expire_to", "ok"} /\ UNCHANGED tables /\ CacheHoldsFriends'
      BY <1>1, <2>1, SaveStep
    <2> QED BY <2>2, NothingToHold DEF Relying
  <1>4. CASE SavePage(o)
    <2>1. /\ Save(o, "save_page", from(o), "expire_page", "ok")
          /\ \A v \in task[o].found : Friends(from(o), v)
      BY <1>4 DEF SavePage, Save, At, Holds
    <2>2. /\ Grown(o) /\ task'[o].pc \in {"expire_page", "ok"} /\ UNCHANGED tables /\ CacheHoldsFriends'
      BY <1>1, <2>1, SaveStep
    <2> QED BY <2>2, NothingToHold DEF Relying
  <1> QED BY <1>2, <1>3, <1>4

\* Setting an expiry touches no list.
LEMMA ExpiringStep ==
  ASSUME TypeOK, NEW o \in Op, ExpireFrom(o) \/ ExpireTo(o) \/ ExpirePage(o)
  PROVE  /\ Grown(o) /\ Holds(o)' /\ UNCHANGED <<tables, cached>>
         /\ task[o].pc # "befriend_back"
  <1>1. PICK u \in User, here \in {"expire_from", "expire_to", "expire_page"},
             next \in {"list_to", "ok"} : SetExpiry(o, here, u, next)
    BY OpTyped DEF ExpireFrom, ExpireTo, ExpirePage
  <1>2. /\ task[o].pc = here /\ Goto(o, next) /\ next \in PC
        /\ lasting' \subseteq User /\ UNCHANGED <<tables, cached, expiries>>
    BY <1>1 DEF SetExpiry, At, TypeOK, PC, Refresh, RefreshFrom, RefreshTo, RefreshTo, Done
  <1>3. /\ task' \in [Op -> Task]
        /\ task'[o].pc = next /\ task'[o].failed = task[o].failed
        /\ \A p \in Op \ {o} : task'[p] = task[p]
    BY <1>2, GotoStep
  <1>4. cached' \in [User -> SUBSET User]
    BY <1>2 DEF TypeOK
  <1>5. Grown(o)
    BY <1>2, <1>3, <1>4, QuietGrown
  <1> QED BY <1>2, <1>3, <1>5, NothingToHold DEF Relying

\* Steps that read the cache, give up, or have nothing to save.
LEMMA RestStep ==
  ASSUME TypeOK, NEW o \in Op,
         SkipList(o) \/ ReadCache(o) \/ MissCache(o) \/ SkipPage(o) \/ Fail(o)
  PROVE  /\ Grown(o) /\ Holds(o)' /\ UNCHANGED <<tables, redis>>
         /\ task[o].pc = "befriend_back" => "befriend_back" \in task'[o].failed
  <1>0. UNCHANGED <<tables, redis>> /\ task[o] \in Task
    BY DEF SkipList, ReadCache, MissCache, SkipPage, Fail, TypeOK
  <1>1. CASE \E pc \in {"ok", "page"} : Goto(o, pc) /\ task[o].pc # "befriend_back"
    <2>1. PICK pc \in {"ok", "page"} : Goto(o, pc) /\ task[o].pc # "befriend_back"
      BY <1>1
    <2>2. pc \in PC
      BY DEF PC, Done
    <2>3. Grown(o) /\ task'[o].pc = pc
      BY <1>0, <2>1, <2>2, QuietGoto, GotoStep
    <2> QED BY <1>0, <2>1, <2>3, NothingToHold DEF Relying
  <1>2. CASE SkipList(o) \/ Fail(o)
    <2> DEFINE t(pc) == [task[o] EXCEPT !.failed = @ \cup {task[o].pc}, !.pc = pc]
    <2>1. PICK pc \in {"list_to", "ok", "error"} : Become(o, t(pc))
      BY <1>2 DEF SkipList, Fail
    <2>2. /\ t(pc) \in Task /\ t(pc).pc = pc
          /\ t(pc).failed = task[o].failed \cup {task[o].pc}
      BY <1>0, ZenonT(40) DEF Task, PC, Done, Refresh, RefreshFrom, RefreshTo
    <2> HIDE DEF t
    <2>3. Grown(o)
      BY <1>0, <2>1, <2>2, QuietBecome
    <2>4. task'[o] = t(pc)
      BY <2>1, <2>2, BecomeStep
    <2> QED BY <1>0, <2>2, <2>3, <2>4, NothingToHold DEF Relying
  <1>3. CASE At(o, "cache") /\ cached[from(o)] # {}
             /\ Become(o, [task[o] EXCEPT !.pc = "ok", !.found = cached[from(o)]])
    <2> DEFINE t == [task[o] EXCEPT !.pc = "ok", !.found = cached[from(o)]]
    <2>1. cached[from(o)] \in SUBSET User
      BY OpTyped DEF TypeOK
    <2>2. t \in Task /\ t.pc = "ok" /\ t.failed = task[o].failed
      BY <1>0, <2>1 DEF Task, PC, Done
    <2>3. Become(o, t)
      BY <1>3
    <2> HIDE DEF t
    <2>4. Grown(o)
      BY <1>0, <2>2, <2>3, QuietBecome
    <2>5. task'[o] = t
      BY <2>2, <2>3, BecomeStep
    <2> QED BY <1>0, <1>3, <2>2, <2>4, <2>5, NothingToHold DEF Relying, At
  <1>4. ReadCache(o) => \/ At(o, "cache") /\ cached[from(o)] # {}
                           /\ Become(o, [task[o] EXCEPT !.pc = "ok", !.found = cached[from(o)]])
                        \/ Goto(o, "page") /\ task[o].pc # "befriend_back"
    BY DEF ReadCache, At
  <1>5. MissCache(o) => Goto(o, "page") /\ task[o].pc # "befriend_back"
    BY DEF MissCache, At
  <1>6. SkipPage(o) => Goto(o, "ok") /\ task[o].pc # "befriend_back"
    BY DEF SkipPage, At
  <1> QED BY <1>1, <1>2, <1>3, <1>4, <1>5, <1>6

----------------------------------------------------------------------------
(* What the lemmas above mean for the invariants.                          *)

LEMMA CacheKept ==
  ASSUME NEW o \in Op, Grown(o), CacheHoldsFriends, cached' = cached
  PROVE  CacheHoldsFriends'
  <1>1. \A u, v : Friends(u, v) => Friends(u, v)'
    BY DEF Grown
  <1> QED BY <1>1 DEF CacheHoldsFriends

LEMMA AcceptedKept ==
  ASSUME NEW o \in Op, Grown(o), AcceptedAreFriends,
         \A i \in DOMAIN requests' :
           \/ requests'[i].status = "pending"
           \/ /\ i \in DOMAIN requests
              /\ requests'[i].status = "accepted" =>
                   \/ requests[i].status = "accepted"
                   \/ Friends(requests[i].from, requests[i].to)
                      /\ Friends(requests[i].to, requests[i].from)
  PROVE  AcceptedAreFriends'
  <1>1. \A u, v : Friends(u, v) => Friends(u, v)'
    BY DEF Grown
  <1>2. ASSUME NEW i \in DOMAIN requests', requests'[i].status = "accepted",
               NEW f, NEW t, f = requests'[i].from, t = requests'[i].to
        PROVE  Friends(f, t)' /\ Friends(t, f)'
    <2>1. i \in DOMAIN requests
          /\ Friends(requests[i].from, requests[i].to)
          /\ Friends(requests[i].to, requests[i].from)
      BY <1>2 DEF AcceptedAreFriends
    <2>2. f = requests[i].from /\ t = requests[i].to
      BY <1>2, <2>1 DEF Grown
    <2> QED BY <1>1, <2>1, <2>2
  <1> QED BY <1>2 DEF AcceptedAreFriends, Friends

\* A half friendship keeps the handler that explains it, and a new one has
\* such a handler.
LEMMA HalfKept ==
  ASSUME NEW o \in Op, Grown(o), HalfOnlyBetweenInserts,
         task[o].pc = "befriend_back" =>
           Friends(to(o), from(o))' \/ "befriend_back" \in task'[o].failed,
         \A x, y : Friends(x, y)' =>
           \/ Friends(x, y)
           \/ x = from(o) /\ y = to(o) /\ task'[o].pc = "befriend_back"
           \/ x = to(o) /\ y = from(o) /\ Friends(from(o), to(o))
  PROVE  HalfOnlyBetweenInserts'
  <1> DEFINE Explains(p, u, v) == /\ from(p) = u /\ to(p) = v
                                  /\ task'[p].pc = "befriend_back"
                                     \/ "befriend_back" \in task'[p].failed
  <1> SUFFICES ASSUME NEW u \in User, NEW v \in User, Friends(u, v)', ~Friends(v, u)'
               PROVE  \E p \in Op : Explains(p, u, v)
    BY DEF HalfOnlyBetweenInserts, At, from, to
  <1>1. ~Friends(v, u)
    BY DEF Grown
  <1>2. CASE Friends(u, v)
    <2>1. PICK p \in Op : /\ from(p) = u /\ to(p) = v
                          /\ At(p, "befriend_back") \/ "befriend_back" \in task[p].failed
      BY <1>1, <1>2 DEF HalfOnlyBetweenInserts
    <2>2. CASE p # o
      <3>1. task'[p] = task[p]
        BY <2>2 DEF Grown
      <3> QED BY <2>1, <3>1 DEF At
    <2>3. CASE p = o
      <3>1. "befriend_back" \in task'[o].failed
        BY <2>1, <2>3 DEF At, Grown
      <3> QED BY <2>1, <2>3, <3>1
    <2> QED BY <2>2, <2>3
  <1>3. CASE u = from(o) /\ v = to(o) /\ task'[o].pc = "befriend_back"
    BY <1>3
  <1>4. CASE u = to(o) /\ v = from(o) /\ Friends(from(o), to(o))
    BY <1>1, <1>4
  <1> QED BY <1>2, <1>3, <1>4

\* The three invariants through a step of handler o that touches no request
\* and no row, away from the second insertion.
LEMMA TablesKept ==
  ASSUME NEW o \in Op, Grown(o), AcceptedAreFriends, HalfOnlyBetweenInserts,
         UNCHANGED tables,
         task[o].pc = "befriend_back" => "befriend_back" \in task'[o].failed
  PROVE  AcceptedAreFriends' /\ HalfOnlyBetweenInserts'
  <1>1. requests' = requests /\ \A u, v : Friends(u, v)' <=> Friends(u, v)
    BY SameRows DEF tables
  <1>2. AcceptedAreFriends'
    BY <1>1, AcceptedKept
  <1>3. HalfOnlyBetweenInserts'
    BY <1>1, HalfKept
  <1> QED BY <1>2, <1>3

LEMMA FriendInit == Init => FriendInv
  <1> SUFFICES ASSUME Init PROVE FriendInv
    OBVIOUS
  <1> DEFINE Open == [from : User, to : User, status : {"pending"}, seen : {0}]
  <1>0. Requests0 \in Seq(Open)
    BY FriendAssumption
  <1>1. requests \in Seq(Request) /\ \A i \in DOMAIN requests : requests[i].status = "pending"
    <2>1. \A q \in Open : q \in Request /\ q.status = "pending"
      BY DEF Request, Status
    <2> HIDE DEF Open
    <2>2. \A i \in 1 .. Len(Requests0) : Requests0[i] \in Open
      BY <1>0
    <2>3. Requests0 \in Seq(Request) /\ DOMAIN Requests0 = 1 .. Len(Requests0)
      BY <1>0, <2>1, <2>2
    <2> QED BY <2>1, <2>2, <2>3 DEF Init
  <1>2. TypeOK
    BY <1>1, FriendAssumption DEF Init, TypeOK, Task, PC
  <1>3. \A o \in Op : task[o].pc = "new"
    BY DEF Init
  <1>4. \A o \in Op : Holds(o)
    BY <1>3 DEF Holds
  <1>5. \A u, v : ~Friends(u, v)
    BY DEF Init, Friends
  <1>6. AcceptedAreFriends
    BY <1>1 DEF AcceptedAreFriends
  <1>7. HalfOnlyBetweenInserts
    BY <1>5 DEF HalfOnlyBetweenInserts
  <1>8. CacheHoldsFriends
    BY DEF Init, CacheHoldsFriends
  <1> QED BY <1>2, <1>4, <1>6, <1>7, <1>8 DEF FriendInv

\* The step of one handler.
LEMMA HandlerStep ==
  ASSUME FriendInv, NEW o \in Op,
         Begin(o) \/ Apply(o) \/ Handle(o) \/ Update(o) \/ List(o) \/ Fail(o)
  PROVE  /\ Grown(o) /\ Holds(o)'
         /\ AcceptedAreFriends' /\ HalfOnlyBetweenInserts' /\ CacheHoldsFriends'
  <1> USE DEF FriendInv
  <1>1. CASE Begin(o) \/ CheckForward(o) \/ CheckBack(o)
    <2>1. Grown(o) /\ Holds(o)'
      BY <1>1, ApplyStep
    <2>2. UNCHANGED <<tables, redis>> /\ task[o].pc # "befriend_back"
      BY <1>1 DEF Begin, CheckForward, CheckBack, At
    <2>3. AcceptedAreFriends' /\ HalfOnlyBetweenInserts'
      BY <2>1, <2>2, TablesKept
    <2> QED BY <2>1, <2>2, <2>3, CacheKept DEF redis
  <1>2. CASE CheckDuplicate(o)
    <2>1. Grown(o) /\ Holds(o)'
      BY <1>2, CheckDuplicateStep
    <2>2. UNCHANGED <<tables, redis>> /\ task[o].pc # "befriend_back"
      BY <1>2 DEF CheckDuplicate, At
    <2>3. AcceptedAreFriends' /\ HalfOnlyBetweenInserts'
      BY <2>1, <2>2, TablesKept
    <2> QED BY <2>1, <2>2, <2>3, CacheKept DEF redis
  <1>3. CASE Create(o)
    <2>1. /\ Grown(o) /\ Holds(o)'
          /\ \A i \in DOMAIN requests' :
               \/ i \in DOMAIN requests /\ requests'[i] = requests[i]
               \/ requests'[i].status = "pending"
      BY <1>3, CreateStep
    <2>2. task[o].pc # "befriend_back" /\ cached' = cached /\ rows' = rows
      BY <1>3 DEF Create, At, redis
    <2>3. AcceptedAreFriends'
      BY <2>1, AcceptedKept
    <2>4. \A u, v : Friends(u, v)' <=> Friends(u, v)
      BY <2>2, SameRows
    <2>5. HalfOnlyBetweenInserts'
      BY <2>1, <2>2, <2>4, HalfKept
    <2> QED BY <2>1, <2>2, <2>3, <2>5, CacheKept
  <1>4. CASE Find(o) \/ CheckPair(o)
    <2>1. Grown(o) /\ Holds(o)'
      BY <1>4, FindStep, CheckPairStep
    <2>2. UNCHANGED <<tables, redis>> /\ task[o].pc # "befriend_back"
      BY <1>4 DEF Find, CheckPair, At
    <2>3. AcceptedAreFriends' /\ HalfOnlyBetweenInserts'
      BY <2>1, <2>2, TablesKept
    <2> QED BY <2>1, <2>2, <2>3, CacheKept DEF redis
  <1>5. CASE Befriend(o)
    <2>1. /\ Grown(o) /\ Holds(o)' /\ requests' = requests /\ cached' = cached
          /\ \A x, y : Friends(x, y)' =>
               Friends(x, y) \/ (x = from(o) /\ y = to(o) /\ task'[o].pc = "befriend_back")
      BY <1>5, BefriendStep
    <2>2. task[o].pc # "befriend_back"
      BY <1>5 DEF Befriend, At
    <2>3. AcceptedAreFriends'
      BY <2>1, AcceptedKept
    <2>4. HalfOnlyBetweenInserts'
      BY <2>1, <2>2, HalfKept
    <2> QED BY <2>1, <2>3, <2>4, CacheKept
  <1>6. CASE BefriendBack(o)
    <2>1. /\ Grown(o) /\ Holds(o)' /\ requests' = requests /\ cached' = cached
          /\ Friends(to(o), from(o))'
          /\ \A x, y : Friends(x, y)' =>
               Friends(x, y) \/ (x = to(o) /\ y = from(o) /\ Friends(from(o), to(o)))
      BY <1>6, BefriendBackStep
    <2>2. AcceptedAreFriends'
      BY <2>1, AcceptedKept
    <2>3. HalfOnlyBetweenInserts'
      BY <2>1, HalfKept
    <2> QED BY <2>1, <2>2, <2>3, CacheKept
  <1>7. CASE MarkAccepted(o) \/ MarkRejected(o)
    <2>1. /\ Grown(o) /\ Holds(o)' /\ rows' = rows /\ cached' = cached
          /\ \A i \in DOMAIN requests' :
               /\ i \in DOMAIN requests
               /\ requests'[i].status = "accepted" =>
                    \/ requests[i].status = "accepted"
                    \/ Friends(requests[i].from, requests[i].to)
                       /\ Friends(requests[i].to, requests[i].from)
      BY <1>7, CloseStep
    <2>2. task[o].pc # "befriend_back"
      BY <1>7 DEF MarkAccepted, MarkRejected, Close, At
    <2>3. AcceptedAreFriends'
      BY <2>1, AcceptedKept
    <2>4. \A u, v : Friends(u, v)' <=> Friends(u, v)
      BY <2>1, SameRows
    <2>5. HalfOnlyBetweenInserts'
      BY <2>1, <2>2, <2>4, HalfKept
    <2> QED BY <2>1, <2>3, <2>5, CacheKept
  <1>8. CASE ListFrom(o) \/ ListTo(o) \/ ReadPage(o)
    <2>1. Grown(o) /\ Holds(o)' /\ UNCHANGED <<tables, redis>>
      BY <1>8, ListingStep
    <2>2. task[o].pc # "befriend_back"
      BY <1>8 DEF ListFrom, ListTo, ListOf, ReadPage, At
    <2>3. AcceptedAreFriends' /\ HalfOnlyBetweenInserts'
      BY <2>1, <2>2, TablesKept
    <2> QED BY <2>1, <2>3, CacheKept DEF redis
  <1>9. CASE SaveFrom(o) \/ SaveTo(o) \/ SavePage(o)
    <2>1. Grown(o) /\ Holds(o)' /\ UNCHANGED tables /\ CacheHoldsFriends'
      BY <1>9, SavingStep
    <2>2. task[o].pc # "befriend_back"
      BY <1>9 DEF SaveFrom, SaveTo, SavePage, Save, At
    <2>3. AcceptedAreFriends' /\ HalfOnlyBetweenInserts'
      BY <2>1, <2>2, TablesKept
    <2> QED BY <2>1, <2>3
  <1>10. CASE SkipList(o) \/ ReadCache(o) \/ MissCache(o) \/ SkipPage(o) \/ Fail(o)
    <2>1. /\ Grown(o) /\ Holds(o)' /\ UNCHANGED <<tables, redis>>
          /\ task[o].pc = "befriend_back" => "befriend_back" \in task'[o].failed
      BY <1>10, RestStep
    <2>2. AcceptedAreFriends' /\ HalfOnlyBetweenInserts'
      BY <2>1, TablesKept
    <2> QED BY <2>1, <2>2, CacheKept DEF redis
  <1>11. CASE ExpireFrom(o) \/ ExpireTo(o) \/ ExpirePage(o)
    <2>1. Grown(o) /\ Holds(o)' /\ UNCHANGED <<tables, cached>> /\ task[o].pc # "befriend_back"
      BY <1>11, ExpiringStep
    <2>2. AcceptedAreFriends' /\ HalfOnlyBetweenInserts'
      BY <2>1, TablesKept
    <2> QED BY <2>1, <2>2, CacheKept
  <1> QED BY <1>1, <1>2, <1>3, <1>4, <1>5, <1>6, <1>7, <1>8, <1>9, <1>10, <1>11
          DEF Apply, Handle, Update, List

\* An expiring list, and a step that changes nothing.
LEMMA ExpireStep ==
  ASSUME FriendInv, NEW u \in User, Expire(u)
  PROVE  FriendInv'
  <1>1. /\ cached' = [cached EXCEPT ![u] = {}] /\ expiries' = expiries + 1
        /\ lasting' \subseteq lasting /\ expiries < MaxExpiries
        /\ requests' = requests /\ rows' = rows /\ task' = task
    BY DEF Expire, Clear, tables
  <1>2. TypeOK'
    BY <1>1, FriendAssumption DEF FriendInv, TypeOK
  <1>3. \A x, y : Friends(x, y)' <=> Friends(x, y)
    BY <1>1, SameRows
  <1>4. \A x \in User : cached'[x] \subseteq cached[x]
    BY <1>1 DEF FriendInv, TypeOK
  <1>5. (\A o \in Op : Holds(o))'
    BY <1>1, <1>3 DEF FriendInv, Holds, from, to, kind
  <1>6. AcceptedAreFriends' /\ HalfOnlyBetweenInserts'
    BY <1>1 DEF FriendInv, AcceptedAreFriends, HalfOnlyBetweenInserts, Friends, At, from, to
  <1>7. CacheHoldsFriends'
    BY <1>3, <1>4 DEF FriendInv, CacheHoldsFriends
  <1> QED BY <1>2, <1>5, <1>6, <1>7 DEF FriendInv

LEMMA FriendStep == FriendInv /\ [Next]_vars => FriendInv'
  <1> SUFFICES ASSUME FriendInv, [Next]_vars PROVE FriendInv'
    OBVIOUS
  <1>1. ASSUME NEW o \in Op,
               Begin(o) \/ Apply(o) \/ Handle(o) \/ Update(o) \/ List(o) \/ Fail(o)
        PROVE  FriendInv'
    <2>1. /\ Grown(o) /\ Holds(o)'
          /\ AcceptedAreFriends' /\ HalfOnlyBetweenInserts' /\ CacheHoldsFriends'
      BY <1>1, HandlerStep
    <2>2. \A p \in Op \ {o} : Holds(p)'
      BY <2>1, OthersHold DEF FriendInv
    <2>3. TypeOK' /\ (\A p \in Op : Holds(p))'
      BY <2>1, <2>2 DEF Grown
    <2> QED BY <2>1, <2>3 DEF FriendInv
  <1>2. ASSUME NEW u \in User, Expire(u)
        PROVE  FriendInv'
    BY <1>2, ExpireStep
  <1>3. CASE UNCHANGED vars
    BY <1>3 DEF vars, FriendInv, TypeOK, Holds, AcceptedAreFriends,
                HalfOnlyBetweenInserts, CacheHoldsFriends, Friends, At, from, to, kind
  <1> QED BY <1>1, <1>2, <1>3 DEF Next

----------------------------------------------------------------------------
\* What each handler relies on, and the invariants, hold always, whatever
\* handlers of service.UserService interleave, fail or are repeated.
THEOREM FriendInvariant == Spec => []FriendInv
  BY FriendInit, FriendStep, PTL DEF Spec

\* The tables, the cached lists and the handlers keep their types.
THEOREM FriendTypeCorrect == Spec => []TypeOK
  <1>1. FriendInv => TypeOK
    BY DEF FriendInv
  <1> QED BY <1>1, FriendInvariant, PTL

\* A request marked accepted has made the two users friends both ways: the
\* order of the writes of AcceptFriendRequest is enough, no transaction
\* needed.
THEOREM AcceptedMadeFriends == Spec => []AcceptedAreFriends
  <1>1. FriendInv => AcceptedAreFriends
    BY DEF FriendInv
  <1> QED BY <1>1, FriendInvariant, PTL

\* A friendship in one direction only is the work of an accept that stands
\* between its two insertions or failed there, and of nothing else.
THEOREM HalfNeedsAccept == Spec => []HalfOnlyBetweenInserts
  <1>1. FriendInv => HalfOnlyBetweenInserts
    BY DEF FriendInv
  <1> QED BY <1>1, FriendInvariant, PTL

\* The Redis sets friend:<erp> never name a user who is not a friend, however
\* stale the list a refresh saves.
THEOREM CacheSound == Spec => []CacheHoldsFriends
  <1>1. FriendInv => CacheHoldsFriends
    BY DEF FriendInv
  <1> QED BY <1>1, FriendInvariant, PTL

----------------------------------------------------------------------------
(* The friends of a user and the rows they stand in.                       *)
FriendsOf(u) == {v \in User : Friends(u, v)}
RowsOf(u) == {j \in DOMAIN rows : rows[j].user = u}

\* More friends than a listing returns.
Big(u) == Cardinality(FriendsOf(u)) > ListMax

\* idx_friend_pair: a pair of users has one row.
RowsUnique ==
  \A i, j \in DOMAIN rows :
    rows[i].user = rows[j].user /\ rows[i].friend = rows[j].friend => i = j

\* Some rows stand for finitely many friends, and as many if no two of them
\* name the same.
LEMMA RowsAndNames ==
  ASSUME NEW R \in Seq(Row), NEW S \in SUBSET DOMAIN R, NEW T, T = {R[i].friend : i \in S}
  PROVE  /\ IsFiniteSet(S) /\ S \subseteq Nat /\ IsFiniteSet(T)
         /\ Cardinality(S) \in Nat /\ Cardinality(T) \in Nat
         /\ (\A i, j \in S : R[i].friend = R[j].friend => i = j) =>
              Cardinality(S) <= Cardinality(T)
  <1> DEFINE f == [i \in S |-> R[i].friend]
  <1>1. Len(R) \in Nat /\ DOMAIN R = 1 .. Len(R)
    OBVIOUS
  <1>2. IsFiniteSet(S) /\ S \subseteq Nat
    <2>1. IsFiniteSet(1 .. Len(R))
      BY <1>1, FS_Interval
    <2>2. S \in SUBSET (1 .. Len(R))
      BY <1>1
    <2> QED BY <2>1, <2>2, FS_Subset
  <1>3. f \in Surjection(S, T)
    BY DEF Surjection
  <1>4. ASSUME \A i, j \in S : R[i].friend = R[j].friend => i = j
        PROVE  f \in Injection(S, T)
    BY <1>4 DEF Injection, IsInjective
  <1> HIDE DEF f
  <1>5. IsFiniteSet(T)
    BY <1>2, <1>3, FS_Surjection
  <1>6. ASSUME f \in Injection(S, T) PROVE Cardinality(S) <= Cardinality(T)
    BY <1>5, <1>6, FS_Injection
  <1>7. Cardinality(S) \in Nat /\ Cardinality(T) \in Nat
    BY <1>2, <1>5, FS_CardinalityType
  <1> QED BY <1>2, <1>4, <1>5, <1>6, <1>7

\* The friends of a user are those his rows name.
LEMMA NamesOfRows ==
  ASSUME NEW R \in Seq(Row), NEW u
  PROVE  {v \in User : \E i \in DOMAIN R : R[i].user = u /\ R[i].friend = v}
           = {R[i].friend : i \in {j \in DOMAIN R : R[j].user = u}}
  <1> DEFINE S == {j \in DOMAIN R : R[j].user = u}
             F == {v \in User : \E i \in DOMAIN R : R[i].user = u /\ R[i].friend = v}
             G == {R[i].friend : i \in S}
  <1>1. \A i \in DOMAIN R : R[i].friend \in User
    <2>1. \A i \in DOMAIN R : R[i] \in Row
      OBVIOUS
    <2> QED BY <2>1 DEF Row
  <1>2. ASSUME NEW v \in F PROVE v \in G
    <2>1. PICK i \in DOMAIN R : R[i].user = u /\ R[i].friend = v
      OBVIOUS
    <2>2. i \in S
      BY <2>1
    <2> QED BY <2>1, <2>2
  <1>3. ASSUME NEW v \in G PROVE v \in F
    <2>1. PICK i \in S : R[i].friend = v
      OBVIOUS
    <2> QED BY <1>1, <2>1
  <1> QED BY <1>2, <1>3

LEMMA FriendsByRows ==
  ASSUME rows \in Seq(Row), NEW u
  PROVE  FriendsOf(u) = {rows[i].friend : i \in RowsOf(u)}
  BY NamesOfRows DEF FriendsOf, RowsOf, Friends

LEMMA FriendsAndRows ==
  ASSUME TypeOK, NEW u \in User
  PROVE  /\ IsFiniteSet(RowsOf(u)) /\ RowsOf(u) \subseteq Nat
         /\ Cardinality(FriendsOf(u)) \in Nat /\ Cardinality(RowsOf(u)) \in Nat
         /\ RowsUnique => Cardinality(RowsOf(u)) <= Cardinality(FriendsOf(u))
  <1>1. rows \in Seq(Row) /\ RowsOf(u) \in SUBSET DOMAIN rows
    BY DEF TypeOK, Row, RowsOf
  <1>2. FriendsOf(u) = {rows[i].friend : i \in RowsOf(u)}
    BY <1>1, FriendsByRows
  <1>3. RowsUnique => \A i, j \in RowsOf(u) : rows[i].friend = rows[j].friend => i = j
    BY DEF RowsUnique, RowsOf
  <1> QED BY <1>1, <1>2, <1>3, RowsAndNames

\* A listing names all friends of a user who has no more than it returns.
LEMMA AllListed ==
  ASSUME TypeOK, RowsUnique, NEW u \in User, NEW v \in User, Friends(u, v), ~ Big(u)
  PROVE  v \in Listed(u, 0, ListMax)
  <1> DEFINE S == RowsOf(u)
             n == Cardinality(S)
  <1>1. /\ IsFiniteSet(S) /\ S \subseteq Nat /\ n \in Nat
        /\ n <= Cardinality(FriendsOf(u)) /\ Cardinality(FriendsOf(u)) \in Nat
    BY FriendsAndRows
  <1>2. ListMax \in Nat \ {0} /\ n <= ListMax
    BY <1>1, FriendAssumption DEF Big
  <1>3. PICK i \in S : rows[i].friend = v
    BY DEF Friends, RowsOf
  <1> DEFINE later == {j \in S : j > i}
  <1>4. IsFiniteSet(S \ {i}) /\ Cardinality(S \ {i}) = n - 1
    BY <1>1, <1>3, FS_RemoveElement
  <1>5. later \in SUBSET (S \ {i})
    BY <1>1
  <1>6. Cardinality(later) <= n - 1 /\ Cardinality(later) \in Nat
    <2> HIDE DEF later, S, n
    <2> QED BY <1>4, <1>5, FS_Subset, FS_CardinalityType
  <1>7. Cardinality(later) \in 0 .. 0 + Clamped(ListMax) - 1
    <2> HIDE DEF later, S, n
    <2> QED BY <1>1, <1>2, <1>6 DEF Clamped
  <1>8. i \in Newest({j \in DOMAIN rows : rows[j].user = u}, 0, Clamped(ListMax))
    BY <1>3, <1>7 DEF Newest, RowsOf
  <1> QED BY <1>3, <1>8 DEF Listed

\* Who has more friends than a listing returns never again has fewer.
LEMMA BigStays ==
  ASSUME TypeOK, TypeOK', \A x, y : Friends(x, y) => Friends(x, y)', NEW u \in User, Big(u)
  PROVE  Big(u)'
  <1>1. FriendsOf(u) \in SUBSET (FriendsOf(u)')
    BY DEF FriendsOf
  <1>2. IsFiniteSet(FriendsOf(u)') /\ Cardinality(FriendsOf(u)') \in Nat
    <2> DEFINE R == rows'
               S == {j \in DOMAIN R : R[j].user = u}
    <2>1. R \in Seq(Row)
      BY DEF TypeOK, Row
    <2>2. FriendsOf(u)' = {R[i].friend : i \in S}
      <3>1. FriendsOf(u)' = {v \in User : \E i \in DOMAIN R : R[i].user = u /\ R[i].friend = v}
        BY DEF FriendsOf, Friends
      <3> HIDE DEF R
      <3> QED BY <2>1, <3>1, NamesOfRows
    <2>3. S \in SUBSET DOMAIN R
      OBVIOUS
    <2> HIDE DEF R, S
    <2> QED BY <2>1, <2>2, <2>3, RowsAndNames
  <1>3. Cardinality(FriendsOf(u)) <= Cardinality(FriendsOf(u)')
    BY <1>1, <1>2, FS_Subset
  <1>4. Cardinality(FriendsOf(u)) \in Nat /\ ListMax \in Nat
    BY FriendsAndRows, FriendAssumption
  <1> QED BY <1>2, <1>3, <1>4 DEF Big

----------------------------------------------------------------------------
(* The refreshed lists.                                                    *)

\* Steps of handlers other than accept.
Other == {"forward", "back", "dup", "create", "cache", "page", "save_page",
          "expire_page"}

\* What handler o knows of the lists it refreshes.
Refreshing(o) ==
  /\ task[o].pc \in Other => kind(o) # "accept"
  /\ task[o].pc \in Refresh =>
       kind(o) = "accept" /\ Friends(from(o), to(o)) /\ Friends(to(o), from(o))
  /\ task[o].pc = "save_from" =>
       "list_from" \in task[o].failed \/ Big(from(o)) \/ to(o) \in task[o].found
  /\ task[o].pc = "save_to" =>
       "list_to" \in task[o].failed \/ Big(to(o)) \/ from(o) \in task[o].found

\* What it has achieved, while no listing fails and no list expires.
Refreshed(o) ==
  kind(o) = "accept" /\ task[o].failed = {} =>
    /\ task[o].pc \in {"expire_from", "list_to", "save_to", "expire_to", "ok"} =>
         Big(from(o)) \/ to(o) \in cached[from(o)]
    /\ task[o].pc \in {"expire_to", "ok"} => Big(to(o)) \/ from(o) \in cached[to(o)]

NoListFailed ==
  expiries = 0 /\ \A p \in Op : task[p].failed \cap {"list_from", "list_to"} = {}

RefreshInv ==
  /\ RowsUnique
  /\ \A o \in Op : Refreshing(o)
  /\ NoListFailed => \A o \in Op : Refreshed(o)

\* No cached list loses a name, but for one too long for a listing.
CacheGrows == \A u \in User : cached[u] \subseteq cached'[u] \/ Big(u)

\* Another handler's step takes nothing from what p knows or has achieved.
LEMMA OthersRefresh ==
  ASSUME TypeOK, NEW o \in Op, Grown(o), NEW p \in Op \ {o}, Refreshing(p)
  PROVE  /\ Refreshing(p)'
         /\ Refreshed(p) /\ CacheGrows => Refreshed(p)'
  <1>1. task'[p] = task[p] /\ TypeOK' /\ \A x, y : Friends(x, y) => Friends(x, y)'
    BY DEF Grown
  <1>2. from(p) \in User /\ to(p) \in User
    BY OpTyped
  <1>3. ASSUME NEW u \in User, Big(u) PROVE Big(u)'
    BY <1>1, <1>3, BigStays
  <1> DEFINE f == from(p)
             t == to(p)
  <1>4. f \in User /\ t \in User /\ f' = f /\ t' = t /\ kind(p)' = kind(p)
    BY <1>2 DEF from, to, kind
  <1>5. PICK F \in User, T \in User : F = f /\ T = t
    BY <1>4
  <1>6. (Big(F) => Big(F)') /\ (Big(T) => Big(T)')
        /\ (Friends(F, T) => Friends(F, T)') /\ (Friends(T, F) => Friends(T, F)')
    BY <1>1, <1>3
  <1>7. Refreshing(p)'
    BY <1>1, <1>4, <1>5, <1>6 DEF Refreshing, from, to, kind
  <1>8. ASSUME Refreshed(p), CacheGrows PROVE Refreshed(p)'
    <2>1. /\ T \in cached[F] => T \in cached'[F] \/ Big(F)
          /\ F \in cached[T] => F \in cached'[T] \/ Big(T)
      BY <1>8 DEF CacheGrows
    <2> QED BY <1>1, <1>4, <1>5, <1>6, <1>8, <2>1 DEF Refreshed, from, to, kind
  <1> QED BY <1>7, <1>8

\* A failed listing stays failed, an expired list expired.
LEMMA StillNoListFailed ==
  ASSUME TypeOK, NEW o \in Op, Grown(o), expiries' = expiries, NoListFailed'
  PROVE  NoListFailed
  <1> SUFFICES ASSUME NEW p \in Op PROVE task[p].failed \subseteq task'[p].failed
    BY DEF NoListFailed
  <1> QED BY DEF Grown

\* A handler that has nothing to show.
LEMMA NothingToShow ==
  ASSUME NEW o \in Op, task'[o].pc \notin Other \cup Refresh \cup {"ok"}
  PROVE  Refreshing(o)' /\ Refreshed(o)'
  BY DEF Refreshing, Refreshed, Refresh, RefreshFrom, RefreshTo, Other

\* One of another kind has nothing to show either.
LEMMA OtherKind ==
  ASSUME NEW o \in Op, kind(o) # "accept", task'[o].pc \notin Refresh
  PROVE  Refreshing(o)' /\ Refreshed(o)'
  BY DEF Refreshing, Refreshed, Refresh, RefreshFrom, RefreshTo, kind

\* What a save leaves in the cache.
LEMMA SavedList ==
  ASSUME TypeOK, NEW o \in Op, NEW here \in PC, NEW u \in User, NEW expire, NEW next,
         Save(o, here, u, expire, next)
  PROVE  /\ task[o].pc = here
         /\ cached'[u] = IF task[o].found = {} THEN {} ELSE cached[u] \cup task[o].found
         /\ \A x \in User \ {u} : cached'[x] = cached[x]
         /\ expiries' = expiries /\ rows' = rows /\ requests' = requests
  BY DEF Save, Clear, Added, TypeOK, At, tables

\* An inserted row is the only one of its pair.
LEMMA InsertUnique ==
  ASSUME TypeOK, RowsUnique, NEW o \in Op, NEW u \in User, NEW v \in User, NEW next,
         Insert(o, u, v, next)
  PROVE  RowsUnique'
  <1>1. CASE Friends(u, v)
    BY <1>1 DEF Insert, RowsUnique
  <1>2. CASE ~ Friends(u, v)
    <2> DEFINE n == Len(rows)
               e == [user |-> u, friend |-> v]
    <2>1. rows' = Append(rows, e) /\ rows \in Seq(Row) /\ e \in Row
      BY <1>2 DEF Insert, TypeOK, Row
    <2>2. e.user = u /\ e.friend = v
      OBVIOUS
    <2> HIDE DEF e
    <2>3. /\ DOMAIN rows = 1 .. n /\ DOMAIN rows' = 1 .. n + 1 /\ n \in Nat
          /\ rows'[n + 1] = e /\ \A i \in 1 .. n : rows'[i] = rows[i]
      BY <2>1
    <2> HIDE DEF n
    <2>4. \A i \in 1 .. n : ~ (rows[i].user = u /\ rows[i].friend = v)
      BY <1>2, <2>3 DEF Friends
    <2>5. ASSUME NEW i \in 1 .. n + 1, NEW j \in 1 .. n + 1,
                 rows'[i].user = rows'[j].user, rows'[i].friend = rows'[j].friend
          PROVE  i = j
      <3>1. (i \in 1 .. n \/ i = n + 1) /\ (j \in 1 .. n \/ j = n + 1)
        BY <2>3
      <3> QED BY <2>2, <2>3, <2>4, <2>5, <3>1 DEF RowsUnique
    <2> QED BY <2>3, <2>5 DEF RowsUnique
  <1> QED BY <1>1, <1>2

\* The steps on the way to the two insertions, and those of other handlers.
LEMMA EarlyRefresh ==
  ASSUME FriendInv, NEW o \in Op, Refreshing(o),
         Begin(o) \/ Apply(o) \/ Find(o) \/ CheckPair(o) \/ Befriend(o) \/ BefriendBack(o)
           \/ MarkRejected(o) \/ Fail(o)
  PROVE  Refreshing(o)' /\ Refreshed(o)'
  <1>0. task \in [Op -> Task] /\ task[o] \in Task /\ TypeOK
    BY DEF FriendInv, TypeOK
  <1>1. CASE Begin(o)
    <2>1. PICK pc \in {"refused", "forward", "find", "cache"} :
            Goto(o, pc) /\ (pc \in {"forward", "cache"} => kind(o) # "accept")
      BY <1>1, OpTyped DEF Begin, Kind
    <2>2. task'[o].pc = pc
      BY <1>0, <2>1 DEF Goto, Become, Task
    <2>3. pc \notin Refresh \cup {"ok"} /\ (pc \in Other => kind(o) # "accept")
      BY <2>1 DEF Refresh, RefreshFrom, RefreshTo, Other
    <2> QED BY <2>2, <2>3, NothingToShow, OtherKind
  <1>2. CASE Apply(o)
    <2>1. task[o].pc \in Other /\ task'[o].pc \notin Refresh
      <3>1. CASE CheckForward(o) \/ CheckBack(o)
        BY <1>0, <3>1 DEF CheckForward, CheckBack, At, Goto, Become, Task, Other,
                                Refresh, RefreshFrom, RefreshTo
      <3>2. CASE CheckDuplicate(o)
        <4> DEFINE pc == IF Barred(o) = {} THEN "create" ELSE "refused"
        <4>1. task[o].pc = "dup" /\ Become(o, [task[o] EXCEPT !.pc = pc, !.seen = Len(requests)])
          BY <3>2 DEF CheckDuplicate, At
        <4>2. pc \in {"create", "refused"}
          OBVIOUS
        <4> HIDE DEF pc
        <4> QED BY <1>0, <4>1, <4>2 DEF Become, Task, Other, Refresh, RefreshFrom, RefreshTo
      <3>3. CASE Create(o)
        BY <1>0, <3>3 DEF Create, At, Goto, Become, Task, Other,
                                Refresh, RefreshFrom, RefreshTo
      <3> QED BY <1>2, <3>1, <3>2, <3>3 DEF Apply
    <2>2. kind(o) # "accept"
      BY <2>1 DEF Refreshing
    <2> QED BY <2>1, <2>2, OtherKind
  <1>3. CASE Find(o) \/ CheckPair(o)
    <2>1. task'[o].pc \in {"refused", "pair", "close", "befriend"}
      BY <1>0, <1>3, FindingGoesTo
    <2> QED BY <2>1, NothingToShow DEF Other, Refresh, RefreshFrom, RefreshTo
  <1>4. CASE Befriend(o) \/ BefriendBack(o)
    <2>1. task'[o].pc \in {"error", "befriend_back", "close"}
      BY <1>0, <1>4, BefriendingGoesTo
    <2> QED BY <2>1, NothingToShow DEF Other, Refresh, RefreshFrom, RefreshTo
  <1>5. CASE MarkRejected(o)
    <2>1. kind(o) # "accept" /\ task'[o].pc \notin Refresh
      <3>1. kind(o) = "reject" /\ Goto(o, "ok")
        BY <1>5 DEF MarkRejected, Close
      <3> QED BY <1>0, <3>1, GoesTo DEF Refresh, RefreshFrom, RefreshTo
    <2> QED BY <2>1, OtherKind
  <1>6. CASE Fail(o)
    <2>1. task'[o].pc = "error"
      BY <1>0, <1>6 DEF Fail, Become, Task
    <2> QED BY <2>1, NothingToShow DEF Other, Refresh, RefreshFrom, RefreshTo
  <1> QED BY <1>1, <1>2, <1>3, <1>4, <1>5, <1>6

\* ListFriends, which is no accept.
LEMMA ListRefresh ==
  ASSUME FriendInv, NEW o \in Op, Refreshing(o), List(o)
  PROVE  Refreshing(o)' /\ Refreshed(o)'
  <1>1. task \in [Op -> Task] /\ task[o] \in Task
    BY DEF FriendInv, TypeOK
  <1>2. task[o].pc \in Other
    BY DEF List, ReadCache, MissCache, ReadPage, SavePage, ExpirePage, SetExpiry, Save,
           SkipPage, At, Other
  <1>3. task'[o].pc \in {"ok", "page", "save_page", "expire_page"}
    <2>1. CASE ReadCache(o) \/ MissCache(o) \/ SkipPage(o)
      BY <1>1, <2>1 DEF ReadCache, MissCache, SkipPage, Goto, Become, Task
    <2>2. CASE ReadPage(o)
      BY <1>1, <2>2 DEF ReadPage, LookUp, Become, Task
    <2>3. CASE SavePage(o) \/ ExpirePage(o)
      BY <1>1, <2>3, SaveGoesTo, GoesTo DEF SavePage, ExpirePage, SetExpiry
    <2> QED BY <2>1, <2>2, <2>3 DEF List
  <1>4. kind(o) # "accept"
    BY <1>2 DEF Refreshing
  <1> QED BY <1>3, <1>4, OtherKind DEF Refresh, RefreshFrom, RefreshTo

\* The refresh starts when both rows are there.
LEMMA AcceptedRefresh ==
  ASSUME FriendInv, NEW o \in Op, MarkAccepted(o)
  PROVE  Refreshing(o)' /\ Refreshed(o)'
  <1>1. /\ kind(o) = "accept" /\ task[o].pc = "close" /\ task'[o].pc = "list_from"
        /\ rows' = rows
    BY DEF FriendInv, TypeOK, MarkAccepted, Close, At, Goto, Become, Task
  <1>2. Friends(from(o), to(o)) /\ Friends(to(o), from(o))
    BY <1>1 DEF FriendInv, Holds
  <1>3. (Friends(from(o), to(o)) /\ Friends(to(o), from(o)))'
    BY <1>1, <1>2 DEF Friends, from, to
  <1>4. kind(o)' = "accept"
    BY <1>1 DEF kind
  <1> QED BY <1>1, <1>3, <1>4 DEF Refreshing, Refreshed, Other

\* The refresh: what a listing found is saved, and what is saved stays.
LEMMA UpdateRefresh ==
  ASSUME FriendInv, RowsUnique, NEW o \in Op, Grown(o), Refreshing(o), Update(o)
  PROVE  /\ Refreshing(o)'
         /\ Refreshed(o) /\ NoListFailed /\ CacheGrows => Refreshed(o)'
  <1> PICK F \in User, T \in User : F = from(o) /\ T = to(o)
    BY OpTyped
  <1>0. /\ TypeOK /\ task \in [Op -> Task] /\ task[o] \in Task /\ TypeOK'
        /\ \A x, y : Friends(x, y) => Friends(x, y)'
        /\ 0 \in Nat /\ ListMax \in Nat
        /\ {"save_from", "save_to", "list_from", "list_to", "ok"} \subseteq PC
        /\ from(o)' = from(o) /\ to(o)' = to(o) /\ kind(o)' = kind(o)
        /\ task[o].failed \subseteq task'[o].failed
    BY FriendAssumption DEF FriendInv, TypeOK, Grown, PC, Refresh, RefreshFrom, RefreshTo,
                            Done, from, to, kind
  <1>1. UNCHANGED tables /\ rows' = rows
    BY DEF Update, ListFrom, SaveFrom, ExpireFrom, ListTo, SaveTo, ExpireTo, SetExpiry,
           SkipList, ListOf, Save, tables
  <1>2. /\ kind(o) = "accept" /\ Friends(F, T) /\ Friends(T, F) /\ Friends(F, T)' /\ Friends(T, F)'
    <2>1. task[o].pc \in Refresh
      BY DEF Update, ListFrom, SaveFrom, ExpireFrom, ListTo, SaveTo, ExpireTo, SetExpiry,
             SkipList, ListOf, Save, At, Refresh, RefreshFrom, RefreshTo
    <2> QED BY <1>0, <2>1 DEF Refreshing
  <1>3. (Big(F) => Big(F)') /\ (Big(T) => Big(T)')
    BY <1>0, BigStays
  <1>4. /\ CacheGrows /\ T \in cached[F] => T \in cached'[F] \/ Big(F)
        /\ CacheGrows /\ F \in cached[T] => F \in cached'[T] \/ Big(T)
    BY DEF CacheGrows
  <1>5. CASE ListFrom(o)
    <2>1. LookUp(o, Listed(F, 0, ListMax), "save_from") /\ task[o].pc = "list_from"
          /\ UNCHANGED <<tables, redis>>
      BY <1>5 DEF ListFrom, ListOf, At
    <2>2. /\ task'[o].pc = "save_from"
          /\ task'[o].found = Listed(F, 0, ListMax) \/ "list_from" \in task'[o].failed
      BY <1>0, <2>1, LookUpStep
    <2>3. ~ Big(F) => T \in Listed(F, 0, ListMax)
      BY <1>0, <1>2, AllListed
    <2> QED BY <1>0, <1>2, <1>3, <2>2, <2>3 DEF Refreshing, Refreshed, Other
  <1>6. CASE SaveFrom(o)
    <2>1. /\ task[o].pc = "save_from" /\ task'[o].pc \in {"expire_from", "list_to"}
          /\ cached'[F] = IF task[o].found = {} THEN {} ELSE cached[F] \cup task[o].found
      <3>1. Save(o, "save_from", F, "expire_from", "list_to")
        BY <1>0, <1>6 DEF SaveFrom
      <3>2. task'[o].pc \in {"expire_from", "list_to"}
        BY <1>0, <3>1, SaveGoesTo
      <3>3. TypeOK /\ "save_from" \in PC
        BY DEF FriendInv, PC, Refresh, RefreshFrom, RefreshTo
      <3>4. /\ task[o].pc = "save_from"
            /\ cached'[F] = IF task[o].found = {} THEN {} ELSE cached[F] \cup task[o].found
        BY <3>1, <3>3, SavedList, SMTT(30)
      <3> QED BY <3>2, <3>4
    <2>2. NoListFailed => Big(F) \/ T \in task[o].found
      BY <2>1 DEF NoListFailed, Refreshing
    <2>3. T \in task[o].found => T \in cached'[F]
      BY <2>1
    <2> QED BY <1>0, <1>2, <1>3, <2>1, <2>2, <2>3 DEF Refreshing, Refreshed, Other
  <1>7. CASE ListTo(o)
    <2>1. LookUp(o, Listed(T, 0, ListMax), "save_to") /\ task[o].pc = "list_to"
          /\ UNCHANGED <<tables, redis>>
      BY <1>7 DEF ListTo, ListOf, At
    <2>2. /\ task'[o].pc = "save_to"
          /\ task'[o].found = Listed(T, 0, ListMax) \/ "list_to" \in task'[o].failed
      BY <1>0, <2>1, LookUpStep
    <2>3. ~ Big(T) => F \in Listed(T, 0, ListMax)
      BY <1>0, <1>2, AllListed
    <2>4. Refreshing(o)'
      BY <1>0, <1>2, <1>3, <2>2, <2>3 DEF Refreshing, Other
    <2>5. ASSUME Refreshed(o), CacheGrows PROVE Refreshed(o)'
      BY <1>0, <1>3, <1>4, <2>1, <2>2, <2>5 DEF Refreshed
    <2> QED BY <2>4, <2>5
  <1>8. CASE SaveTo(o)
    <2>1. /\ task[o].pc = "save_to" /\ task'[o].pc \in {"expire_to", "ok"}
          /\ cached'[T] = IF task[o].found = {} THEN {} ELSE cached[T] \cup task[o].found
      <3>1. Save(o, "save_to", T, "expire_to", "ok")
        BY <1>0, <1>8 DEF SaveTo
      <3>2. task'[o].pc \in {"expire_to", "ok"}
        BY <1>0, <3>1, SaveGoesTo
      <3>3. TypeOK /\ "save_to" \in PC
        BY DEF FriendInv, PC, Refresh, RefreshFrom, RefreshTo
      <3>4. /\ task[o].pc = "save_to"
            /\ cached'[T] = IF task[o].found = {} THEN {} ELSE cached[T] \cup task[o].found
        BY <3>1, <3>3 DEF Save, Clear, Added, TypeOK, At
      <3> QED BY <3>2, <3>4
    <2>2. NoListFailed => Big(T) \/ F \in task[o].found
      BY <2>1 DEF NoListFailed, Refreshing
    <2>3. F \in task[o].found => F \in cached'[T]
      BY <2>1
    <2>4. Refreshing(o)'
      BY <1>0, <1>2, <2>1 DEF Refreshing, Other
    <2>5. ASSUME Refreshed(o), NoListFailed, CacheGrows PROVE Refreshed(o)'
      BY <1>0, <1>3, <1>4, <2>1, <2>2, <2>3, <2>5 DEF Refreshed
    <2> QED BY <2>4, <2>5
  <1>9. CASE SkipList(o)
    <2>1. task'[o].pc \in {"list_to", "ok"} /\ task'[o].failed # {}
      BY <1>0, <1>9 DEF SkipList, Become, Task
    <2> QED BY <1>0, <1>2, <2>1 DEF Refreshing, Refreshed, Refresh, RefreshFrom,
                                    RefreshTo, Other
  <1>10. CASE ExpireFrom(o) \/ ExpireTo(o)
    <2>1. /\ \/ task[o].pc = "expire_from" /\ task'[o].pc = "list_to"
             \/ task[o].pc = "expire_to" /\ task'[o].pc = "ok"
          /\ cached' = cached
      BY <1>0, <1>10, GoesTo DEF ExpireFrom, ExpireTo, SetExpiry, At
    <2> QED BY <1>0, <1>2, <1>3, <2>1 DEF Refreshing, Refreshed, Refresh, RefreshTo, Other
  <1> QED BY <1>5, <1>6, <1>7, <1>8, <1>9, <1>10 DEF Update

\* No save takes a name out of the list of a user it was listed in full for.
LEMMA StepCacheGrows ==
  ASSUME FriendInv, NEW o \in Op, Refreshing(o), NoListFailed,
         Begin(o) \/ Apply(o) \/ Handle(o) \/ Update(o) \/ List(o) \/ Fail(o)
  PROVE  CacheGrows
  <1>0. /\ TypeOK /\ from(o) \in User /\ to(o) \in User
        /\ {"save_from", "save_to", "save_page", "list_to", "ok",
            "expire_from", "expire_to", "expire_page"} \subseteq PC
    BY OpTyped DEF FriendInv, PC, Refresh, RefreshFrom, RefreshTo, Done
  <1>1. CASE SaveFrom(o) \/ SavePage(o)
    <2>1. PICK here \in PC, expire \in PC, next \in PC : Save(o, here, from(o), expire, next)
      BY <1>0, <1>1 DEF SaveFrom, SavePage
    <2>2. task[o].found # {} \/ Big(from(o))
      BY <1>1 DEF SaveFrom, SavePage, Save, At, NoListFailed, Refreshing
    <2>3. /\ cached'[from(o)] = IF task[o].found = {} THEN {} ELSE cached[from(o)] \cup task[o].found
          /\ \A x \in User \ {from(o)} : cached'[x] = cached[x]
      BY <1>0, <2>1, SavedList
    <2> QED BY <2>2, <2>3 DEF CacheGrows
  <1>2. CASE SaveTo(o)
    <2>1. Save(o, "save_to", to(o), "expire_to", "ok")
      BY <1>2 DEF SaveTo
    <2>2. task[o].found # {} \/ Big(to(o))
      BY <2>1 DEF Save, At, NoListFailed, Refreshing
    <2>3. /\ cached'[to(o)] = IF task[o].found = {} THEN {} ELSE cached[to(o)] \cup task[o].found
          /\ \A x \in User \ {to(o)} : cached'[x] = cached[x]
      BY <1>0, <2>1, SavedList
    <2> QED BY <2>2, <2>3 DEF CacheGrows
  <1>3. \/ cached' = cached \/ SaveFrom(o) \/ SavePage(o) \/ SaveTo(o)
    BY DEF Begin, Apply, CheckForward, CheckBack, CheckDuplicate, Create, Handle, Find,
           CheckPair, Befriend, BefriendBack, Insert, MarkAccepted, MarkRejected, Close,
           Update, ListFrom, ExpireFrom, ListTo, ExpireTo, ExpirePage, SetExpiry, ListOf, SkipList, List, ReadCache, MissCache,
           ReadPage, SkipPage, Fail, redis
  <1> QED BY <1>1, <1>2, <1>3 DEF CacheGrows

LEMMA RefreshHandlerStep ==
  ASSUME FriendInv, RefreshInv, NEW o \in Op,
         Begin(o) \/ Apply(o) \/ Handle(o) \/ Update(o) \/ List(o) \/ Fail(o)
  PROVE  RefreshInv'
  <1>0. /\ TypeOK /\ Grown(o) /\ RowsUnique /\ from(o) \in User /\ to(o) \in User
        /\ \A p \in Op : Refreshing(p)
    BY HandlerStep, OpTyped DEF FriendInv, RefreshInv
  <1>1. RowsUnique'
    <2>1. CASE Befriend(o) \/ BefriendBack(o)
      BY <1>0, <2>1, InsertUnique DEF Befriend, BefriendBack
    <2>2. CASE rows' = rows
      BY <1>0, <2>2 DEF RowsUnique
    <2>3. rows' = rows \/ Befriend(o) \/ BefriendBack(o)
      BY DEF Begin, Apply, CheckForward, CheckBack, CheckDuplicate, Create, Handle, Find,
             CheckPair, MarkAccepted, MarkRejected, Close, Update, ListFrom, SaveFrom,
             ExpireFrom, ListTo, SaveTo, ExpireTo, ExpirePage, SetExpiry, ListOf, Save, SkipList, List, ReadCache, MissCache,
             ReadPage, SavePage, SkipPage, Fail, tables
    <2> QED BY <2>1, <2>2, <2>3
  <1>2. /\ Refreshing(o)'
        /\ Refreshed(o) /\ NoListFailed /\ CacheGrows => Refreshed(o)'
    BY <1>0, EarlyRefresh, ListRefresh, AcceptedRefresh, UpdateRefresh DEF Handle
  <1>3. \A p \in Op : Refreshing(p)'
    BY <1>0, <1>2, OthersRefresh
  <1>4. expiries' = expiries
    BY DEF Begin, Apply, CheckForward, CheckBack, CheckDuplicate, Create, Handle, Find,
           CheckPair, Befriend, BefriendBack, Insert, MarkAccepted, MarkRejected, Close,
           Update, ListFrom, SaveFrom, ExpireFrom, ListTo, SaveTo, ExpireTo, ExpirePage,
           SetExpiry, ListOf, Save, SkipList, List,
           ReadCache, MissCache, ReadPage, SavePage, SkipPage, Fail, redis
  <1>5. ASSUME NoListFailed', NEW p \in Op PROVE Refreshed(p)'
    <2>1. NoListFailed
      BY <1>0, <1>4, <1>5, StillNoListFailed
    <2>2. CacheGrows /\ \A q \in Op : Refreshed(q)
      BY <1>0, <2>1, StepCacheGrows DEF RefreshInv
    <2> QED BY <1>0, <1>2, <2>1, <2>2, OthersRefresh
  <1> QED BY <1>1, <1>3, <1>5 DEF RefreshInv

LEMMA RefreshInit == Init => RefreshInv
  BY DEF Init, RefreshInv, RowsUnique, Refreshing, Refreshed, Refresh, RefreshFrom, RefreshTo,
         Other

LEMMA RefreshStep == FriendInv /\ RefreshInv /\ [Next]_vars => RefreshInv'
  <1> SUFFICES ASSUME FriendInv, RefreshInv, [Next]_vars PROVE RefreshInv'
    OBVIOUS
  <1>1. ASSUME NEW o \in Op,
               Begin(o) \/ Apply(o) \/ Handle(o) \/ Update(o) \/ List(o) \/ Fail(o)
        PROVE  RefreshInv'
    BY <1>1, RefreshHandlerStep
  <1>2. ASSUME NEW u \in User, Expire(u) PROVE RefreshInv'
    <2>1. rows' = rows /\ task' = task /\ expiries' = expiries + 1 /\ expiries \in Nat
      BY <1>2 DEF Expire, tables, FriendInv, TypeOK
    <2>2. ~ NoListFailed'
      BY <2>1 DEF NoListFailed
    <2>3. RowsUnique' /\ \A o \in Op : Refreshing(o)'
      BY <2>1 DEF RefreshInv, RowsUnique, Refreshing, Big, FriendsOf, Friends, from, to, kind
    <2> QED BY <2>2, <2>3 DEF RefreshInv
  <1>3. CASE UNCHANGED vars
    <2>1. rows' = rows /\ cached' = cached /\ task' = task /\ expiries' = expiries
      BY <1>3 DEF vars
    <2>2. RowsUnique' /\ (NoListFailed' <=> NoListFailed)
      BY <2>1 DEF RefreshInv, RowsUnique, NoListFailed
    <2>3. \A o \in Op : (Refreshing(o)' <=> Refreshing(o)) /\ (Refreshed(o)' <=> Refreshed(o))
      BY <2>1 DEF Refreshing, Refreshed, Big, FriendsOf, Friends, from, to, kind
    <2> QED BY <2>2, <2>3 DEF RefreshInv
  <1> QED BY <1>1, <1>2, <1>3 DEF Next

\* Once an accept has refreshed the two lists each names the other, whatever
\* older listings other handlers save after it, for any users and handlers
\* and any listing limit: SADD and the insertions before the listing are
\* enough.
THEOREM RefreshedBothWays == Spec => []RefreshedListsFriend
  <1>1. FriendInv /\ RefreshInv => RefreshedListsFriend
    <2> SUFFICES ASSUME FriendInv, RefreshInv, NEW o \in Op,
                        kind(o) = "accept", At(o, "ok"), task[o].failed = {}, expiries = 0,
                        \A p \in Op : task[p].failed \cap {"list_from", "list_to"} = {},
                        \A u \in {from(o), to(o)} : Cardinality({v \in User : Friends(u, v)}) <= ListMax
                 PROVE  to(o) \in cached[from(o)] /\ from(o) \in cached[to(o)]
      BY DEF RefreshedListsFriend
    <2>1. Refreshed(o)
      BY DEF RefreshInv, NoListFailed
    <2>2. ASSUME NEW u \in {from(o), to(o)} PROVE ~ Big(u)
      <3>1. u \in User /\ TypeOK /\ ListMax \in Nat
        BY OpTyped, FriendAssumption DEF FriendInv
      <3>2. Cardinality(FriendsOf(u)) \in Nat
        BY <3>1, FriendsAndRows
      <3> QED BY <3>1, <3>2 DEF Big, FriendsOf
    <2> QED BY <2>1, <2>2 DEF Refreshed, At
  <1> QED BY <1>1, FriendInit, FriendStep, RefreshInit, RefreshStep, PTL DEF Spec
----------------------------------------------------------------------------
(* Lists without an expiry.                                                *)

\* A list gets one, or goes, but for a set just made, by a handler that is
\* to set its expiry, and a list whose handler has just given up.
LEMMA LastingStep ==
  ASSUME FriendInv, NEW o \in Op, NEW u \in User, u \in lasting', u \in lasting => cached[u] # {},
         Begin(o) \/ Apply(o) \/ Handle(o) \/ Update(o) \/ List(o) \/ Fail(o)
  PROVE  /\ cached'[u] # {}
         /\ \/ u \in lasting /\ (Expires(o, task[o].pc, u) => task[o].pc \in task'[o].failed)
            \/ Expires(o, task'[o].pc, u)
  <1>0. /\ task \in [Op -> Task] /\ task[o] \in Task /\ cached \in [User -> SUBSET User]
        /\ from(o) \in User /\ to(o) \in User
    BY OpTyped DEF FriendInv, TypeOK
  <1>1. ASSUME NEW v \in User, NEW here, NEW expire, NEW next, Save(o, here, v, expire, next),
               here \notin {"expire_from", "expire_to", "expire_page"},
               Expires(o, expire, v)
        PROVE  /\ cached'[u] # {}
               /\ \/ u \in lasting /\ ~ Expires(o, task[o].pc, u)
                  \/ Expires(o, task'[o].pc, u)
    <2>1. task[o].pc = here /\ ~ Expires(o, task[o].pc, u)
      BY <1>1 DEF Save, At, Expires
    <2>2. CASE task[o].found = {}
      BY <1>0, <1>1, <2>1, <2>2 DEF Save, Clear
    <2>3. CASE task[o].found # {}
      <3>1. /\ cached'[v] = cached[v] \cup task[o].found
            /\ \A x \in User \ {v} : cached'[x] = cached[x]
            /\ lasting' \subseteq lasting \cup {v}
        BY <1>0, <1>1, <2>3 DEF Save, Added
      <3>2. Goto(o, expire)
        BY <1>1, <2>3 DEF Save
      <3>3. task'[o].pc = expire
        BY <1>0, <3>2, GoesTo
      <3> QED BY <1>1, <2>1, <2>3, <3>1, <3>3
    <2> QED BY <2>2, <2>3
  <1>2. CASE SaveFrom(o) \/ SaveTo(o) \/ SavePage(o)
    <2>1. CASE SaveFrom(o)
      BY <1>0, <1>1, <2>1 DEF SaveFrom, Expires
    <2>2. CASE SaveTo(o)
      BY <1>0, <1>1, <2>2 DEF SaveTo, Expires
    <2>3. CASE SavePage(o)
      BY <1>0, <1>1, <2>3 DEF SavePage, Expires
    <2> QED BY <1>2, <2>1, <2>2, <2>3
  <1>3. CASE ExpireFrom(o) \/ ExpireTo(o) \/ ExpirePage(o)
    <2>1. cached' = cached /\ lasting' \subseteq lasting /\ ~ Expires(o, task[o].pc, u)
      BY <1>3 DEF ExpireFrom, ExpireTo, ExpirePage, SetExpiry, At, Expires
    <2> QED BY <2>1
  <1>4. CASE SkipList(o) \/ Fail(o)
    <2>1. cached' = cached /\ lasting' = lasting
      BY <1>4 DEF SkipList, Fail, redis
    <2>2. \E pc : Become(o, [task[o] EXCEPT !.failed = @ \cup {task[o].pc}, !.pc = pc])
      <3>1. CASE SkipList(o)
        BY <3>1 DEF SkipList
      <3>2. CASE Fail(o)
        BY <3>2 DEF Fail, Become
      <3> QED BY <1>4, <3>1, <3>2
    <2>3. task[o].pc \in task'[o].failed
      BY <1>0, <2>2 DEF Become, Task
    <2> QED BY <2>1, <2>3
  <1>5. CASE /\ UNCHANGED <<cached, lasting>>
             /\ task[o].pc \notin {"expire_from", "expire_to", "expire_page"}
    BY <1>5 DEF Expires
  <1>6. \/ SaveFrom(o) \/ SaveTo(o) \/ SavePage(o) \/ ExpireFrom(o) \/ ExpireTo(o)
        \/ ExpirePage(o) \/ SkipList(o) \/ Fail(o)
        \/ /\ UNCHANGED <<cached, lasting>>
           /\ task[o].pc \notin {"expire_from", "expire_to", "expire_page"}
    BY DEF Begin, Apply, CheckForward, CheckBack, CheckDuplicate, Create, Handle, Find,
           CheckPair, Befriend, BefriendBack, Insert, MarkAccepted, MarkRejected, Close,
           Update, ListFrom, ListTo, ListOf, List, ReadCache, MissCache, ReadPage, SkipPage,
           At, redis
  <1> QED BY <1>2, <1>3, <1>4, <1>5, <1>6

\* A cached list is without an expiry only while a handler is between its
\* two calls for it, or after one ended there, for any handlers.
THEOREM ListsGetAnExpiry == Spec => []LastingOnlyBetweenCalls
  <1>1. Init => LastingOnlyBetweenCalls
    BY DEF Init, LastingOnlyBetweenCalls
  <1>2. ASSUME FriendInv, LastingOnlyBetweenCalls, [Next]_vars
        PROVE  LastingOnlyBetweenCalls'
    <2>0. \A o, pc, u : Expires(o, pc, u)' <=> Expires(o, pc, u)
      BY DEF Expires, from, to
    <2>1. ASSUME NEW o \in Op,
                 Begin(o) \/ Apply(o) \/ Handle(o) \/ Update(o) \/ List(o) \/ Fail(o)
          PROVE  LastingOnlyBetweenCalls'
      <3>1. /\ \A p \in Op \ {o} : task'[p] = task[p]
            /\ task[o].failed \subseteq task'[o].failed
            /\ lasting' \subseteq User
        BY <1>2, <2>1, HandlerStep DEF Grown, TypeOK
      <3>2. ASSUME NEW u \in lasting'
            PROVE  /\ cached'[u] # {}
                   /\ \E p \in Op : \E pc \in {task'[p].pc} \cup task'[p].failed :
                        Expires(p, pc, u)
        <4>1. u \in User /\ (u \in lasting => cached[u] # {})
          BY <1>2, <3>1, <3>2 DEF LastingOnlyBetweenCalls
        <4>2. /\ cached'[u] # {}
              /\ \/ u \in lasting /\ (Expires(o, task[o].pc, u) => task[o].pc \in task'[o].failed)
                 \/ Expires(o, task'[o].pc, u)
          BY <1>2, <2>1, <3>2, <4>1, LastingStep
        <4>3. CASE Expires(o, task'[o].pc, u)
          BY <4>2, <4>3
        <4>4. CASE u \in lasting /\ (Expires(o, task[o].pc, u) => task[o].pc \in task'[o].failed)
          <5>1. PICK p \in Op : \E pc \in {task[p].pc} \cup task[p].failed : Expires(p, pc, u)
            BY <1>2, <4>4 DEF LastingOnlyBetweenCalls
          <5>2. CASE p # o
            BY <3>1, <4>2, <5>1, <5>2
          <5>3. CASE p = o
            BY <3>1, <4>2, <4>4, <5>1, <5>3
          <5> QED BY <5>2, <5>3
        <4> QED BY <4>2, <4>3, <4>4
      <3> QED BY <2>0, <3>2 DEF LastingOnlyBetweenCalls
    <2>2. ASSUME NEW v \in User, Expire(v) PROVE LastingOnlyBetweenCalls'
      <3>1. /\ task' = task /\ lasting' \subseteq lasting /\ v \notin lasting'
            /\ cached' = [cached EXCEPT ![v] = {}]
        BY <2>2 DEF Expire, Clear
      <3>2. \A u \in lasting' : cached'[u] = cached[u]
        BY <1>2, <3>1 DEF FriendInv, TypeOK
      <3> QED BY <1>2, <2>0, <3>1, <3>2 DEF LastingOnlyBetweenCalls
    <2>3. CASE UNCHANGED vars
      BY <1>2, <2>3 DEF vars, LastingOnlyBetweenCalls, Expires, from, to
    <2> QED BY <1>2, <2>1, <2>2, <2>3 DEF Next
  <1> QED BY <1>1, <1>2, FriendInit, FriendStep, PTL DEF Spec
----------------------------------------------------------------------------
(* Requests across each other.                                             *)

\* Requests keep their users and are never opened again.
RequestsGrow ==
  /\ Len(requests) <= Len(requests')
  /\ \A i \in 1 .. Len(requests) :
       /\ requests'[i].from = requests[i].from /\ requests'[i].to = requests[i].to
       /\ requests'[i].seen = requests[i].seen
       /\ requests'[i].status = "pending" => requests[i].status = "pending"

\* What the duplicate check of o has shown: of the requests there were, the
\* open ones that cross its own were pushed out of the listing.
Saw(o) ==
  At(o, "create") =>
    /\ task[o].seen <= Len(requests)
    /\ \A i \in 1 .. task[o].seen :
         /\ requests[i].from = to(o) /\ requests[i].to = from(o)
         /\ requests[i].status = "pending"
         => PushedOut(i, task[o].seen)

CrossInv ==
  /\ \A j \in DOMAIN requests : requests[j].seen <= Len(requests)
  /\ \A o \in Op : Saw(o)
  /\ CrossingOverlap

\* A listing already read stays full.
LEMMA StillPushedOut ==
  ASSUME TypeOK, RequestsGrow, NEW i \in 1 .. Len(requests), NEW seen \in Nat,
         seen <= Len(requests), PushedOut(i, seen)
  PROVE  PushedOut(i, seen)'
  <1>1. Len(requests) \in Nat
    BY DEF TypeOK
  <1>2. \A k \in i + 1 .. seen : k \in 1 .. Len(requests)
    BY <1>1
  <1>3. {k \in i + 1 .. seen : requests'[k].to = requests'[i].to}
          = {k \in i + 1 .. seen : requests[k].to = requests[i].to}
    BY <1>2 DEF RequestsGrow
  <1> QED BY <1>3 DEF PushedOut

\* A pending request to the applicant that is not in the listing is behind
\* as many newer ones as fit in it.
LEMMA UnlistedPushedOut ==
  ASSUME TypeOK, NEW o \in Op, Barred(o) = {}, NEW i \in 1 .. Len(requests),
         requests[i].from = to(o), requests[i].to = from(o), requests[i].status = "pending"
  PROVE  PushedOut(i, Len(requests))
  <1> DEFINE n == Len(requests)
             P == {j \in DOMAIN requests : requests[j].to = from(o) /\ requests[j].status = "pending"}
             newer == {j \in P : j > i}
             there == {k \in i + 1 .. n : requests[k].to = requests[i].to}
  <1>1. n \in Nat /\ DOMAIN requests = 1 .. n
    BY DEF TypeOK
  <1>2. i \in P
    BY <1>1
  <1>3. i \notin Newest(P, 0, ListMax)
    BY DEF Barred, Pending
  <1>4. newer \subseteq there
    BY <1>1
  <1>5. IsFiniteSet(there) /\ Cardinality(there) \in Nat
    <2>1. IsFiniteSet(i + 1 .. n)
      BY <1>1, FS_Interval
    <2>2. there \subseteq i + 1 .. n
      OBVIOUS
    <2> HIDE DEF there
    <2> QED BY <2>1, <2>2, FS_Subset, FS_CardinalityType
  <1>6. Cardinality(newer) \in Nat /\ Cardinality(newer) <= Cardinality(there)
    <2> HIDE DEF newer, there
    <2> QED BY <1>4, <1>5, FS_Subset, FS_CardinalityType
  <1>7. Cardinality(newer) \notin 0 .. ListMax - 1
    <2>1. Cardinality(newer) \notin 0 .. 0 + ListMax - 1
      BY <1>2, <1>3 DEF Newest
    <2> HIDE DEF newer
    <2> QED BY <2>1, FriendAssumption
  <1> HIDE DEF P, newer
  <1>8. Cardinality(there) >= ListMax
    <2> HIDE DEF there
    <2> QED BY <1>5, <1>6, <1>7, FriendAssumption
  <1> QED BY <1>8 DEF PushedOut

\* Other handlers' steps keep what the duplicate check has shown.
LEMMA StillSaw ==
  ASSUME TypeOK, RequestsGrow, NEW p \in Op, Saw(p), task'[p] = task[p],
         Len(requests') \in Nat
  PROVE  Saw(p)'
  <1> PICK s \in Nat : s = task[p].seen
    BY DEF TypeOK, Task
  <1> PICK F, T : F = from(p) /\ T = to(p)
    OBVIOUS
  <1>1. Len(requests) \in Nat /\ task'[p].seen = s /\ from(p)' = F /\ to(p)' = T
    BY DEF TypeOK, from, to
  <1> SUFFICES ASSUME task[p].pc = "create"
               PROVE  /\ s <= Len(requests')
                      /\ \A i \in 1 .. s :
                           /\ requests'[i].from = T /\ requests'[i].to = F
                           /\ requests'[i].status = "pending"
                           => PushedOut(i, s)'
    BY <1>1 DEF Saw, At, PushedOut
  <1>2. /\ s <= Len(requests)
        /\ \A i \in 1 .. s :
             /\ requests[i].from = T /\ requests[i].to = F
             /\ requests[i].status = "pending"
             => PushedOut(i, s)
    BY DEF Saw, At
  <1>3. s <= Len(requests')
    BY <1>1, <1>2 DEF RequestsGrow
  <1>4. ASSUME NEW i \in 1 .. s,
               requests'[i].from = T, requests'[i].to = F, requests'[i].status = "pending"
        PROVE  PushedOut(i, s)'
    <2>1. i \in 1 .. Len(requests)
      BY <1>1, <1>2
    <2>2. PushedOut(i, s)
      BY <1>2, <1>4, <2>1 DEF RequestsGrow
    <2> QED BY <1>2, <2>1, <2>2, StillPushedOut
  <1> QED BY <1>3, <1>4

\* Requests that were there still cross only the way they did.
LEMMA StillOverlap ==
  ASSUME TypeOK, RequestsGrow, CrossInv,
         NEW i \in 1 .. Len(requests), NEW j \in 1 .. Len(requests), i < j,
         requests'[i].from = requests'[j].to, requests'[i].to = requests'[j].from,
         requests'[i].status = "pending"
  PROVE  requests'[j].seen < i \/ PushedOut(i, requests[j].seen)'
  <1>1. PICK s \in Nat : s = requests[j].seen
    <2>1. requests[j] \in Request
      BY DEF TypeOK
    <2> QED BY <2>1 DEF Request
  <1>2. DOMAIN requests = 1 .. Len(requests)
    BY DEF TypeOK
  <1>3. requests'[j].seen = s
    BY <1>1 DEF RequestsGrow
  <1>4. s <= Len(requests)
    BY <1>1, <1>2 DEF CrossInv
  <1>5. s < i \/ PushedOut(i, s)
    BY <1>1, <1>2 DEF CrossInv, CrossingOverlap, RequestsGrow
  <1>6. PushedOut(i, s) => PushedOut(i, s)'
    BY <1>4, StillPushedOut
  <1>7. PushedOut(i, s)' => PushedOut(i, requests[j].seen)'
    BY <1>3 DEF PushedOut
  <1> QED BY <1>3, <1>5, <1>6, <1>7

\* A step other than a creation.
LEMMA NothingCreated ==
  ASSUME TypeOK, TypeOK', RequestsGrow, Len(requests') = Len(requests), CrossInv
  PROVE  /\ \A j \in DOMAIN requests' : requests'[j].seen <= Len(requests')
         /\ CrossingOverlap'
  <1>1. Len(requests) \in Nat /\ DOMAIN requests' = 1 .. Len(requests)
        /\ DOMAIN requests = 1 .. Len(requests)
    BY DEF TypeOK
  <1>2. \A j \in DOMAIN requests' : requests'[j].seen <= Len(requests')
    BY <1>1 DEF CrossInv, RequestsGrow
  <1>3. CrossingOverlap'
    BY <1>1, StillOverlap DEF CrossingOverlap
  <1> QED BY <1>2, <1>3

\* A creation: the row is as far as the check of its handler goes.
LEMMA CreateCrosses ==
  ASSUME TypeOK, TypeOK', NEW o \in Op, Create(o), CrossInv
  PROVE  /\ RequestsGrow
         /\ \A j \in DOMAIN requests' : requests'[j].seen <= Len(requests')
         /\ CrossingOverlap'
  <1> PICK n \in Nat : n = Len(requests)
    BY DEF TypeOK
  <1> PICK s \in Nat : s = task[o].seen
    BY DEF TypeOK, Task
  <1>1. /\ DOMAIN requests = 1 .. n /\ DOMAIN requests' = 1 .. n + 1 /\ Len(requests') = n + 1
        /\ requests'[n + 1].from = from(o) /\ requests'[n + 1].to = to(o)
        /\ requests'[n + 1].seen = s
        /\ \A i \in 1 .. n : requests'[i] = requests[i]
    <2> DEFINE e == [from |-> from(o), to |-> to(o), status |-> "pending", seen |-> task[o].seen]
    <2>1. requests \in Seq(Request) /\ e \in Request /\ requests' = Append(requests, e)
      BY OpTyped DEF TypeOK, Create, Request, Status, Task
    <2>2. e.from = from(o) /\ e.to = to(o) /\ e.seen = s
      OBVIOUS
    <2> HIDE DEF e
    <2> QED BY <2>1, <2>2
  <1>2. RequestsGrow
    BY <1>1 DEF RequestsGrow
  <1>3. task[o].pc = "create"
    BY DEF Create, At
  <1>4. /\ s <= n
        /\ \A i \in 1 .. s :
             /\ requests[i].from = to(o) /\ requests[i].to = from(o)
             /\ requests[i].status = "pending"
             => PushedOut(i, s)
    BY <1>3 DEF CrossInv, Saw, At
  <1>5. ASSUME NEW j \in DOMAIN requests' PROVE requests'[j].seen <= Len(requests')
    <2>1. CASE j = n + 1
      BY <1>1, <1>4, <2>1
    <2>2. CASE j \in 1 .. n
      <3>1. requests[j].seen <= n /\ requests[j].seen \in Nat
        <4>1. requests[j] \in Request /\ n = Len(requests)
          BY <1>1, <2>2 DEF TypeOK
        <4> QED BY <1>1, <2>2, <4>1 DEF CrossInv, Request
      <3> QED BY <1>1, <2>2, <3>1
    <2> QED BY <1>1, <2>1, <2>2
  <1>6. ASSUME NEW i \in DOMAIN requests', NEW j \in DOMAIN requests', i < j,
               requests'[i].from = requests'[j].to, requests'[i].to = requests'[j].from,
               requests'[i].status = "pending"
        PROVE  requests'[j].seen < i \/ PushedOut(i, requests[j].seen)'
    <2>1. CASE j = n + 1
      <3>1. i \in 1 .. n
        BY <1>1, <1>6, <2>1
      <3>2. s < i \/ PushedOut(i, s)
        <4>1. /\ requests[i].from = to(o) /\ requests[i].to = from(o)
              /\ requests[i].status = "pending"
          BY <1>1, <1>6, <2>1, <3>1
        <4> QED BY <1>4, <3>1, <4>1
      <3>3. PushedOut(i, s) => PushedOut(i, s)'
        BY <1>2, <1>4, <3>1, StillPushedOut
      <3>4. PushedOut(i, s)' => PushedOut(i, requests[j].seen)'
        BY <1>1, <2>1 DEF PushedOut
      <3> QED BY <1>1, <2>1, <3>2, <3>3, <3>4
    <2>2. CASE j \in 1 .. n
      BY <1>1, <1>2, <1>6, <2>2, StillOverlap
    <2> QED BY <1>1, <2>1, <2>2
  <1> QED BY <1>2, <1>5, <1>6 DEF CrossingOverlap

\* A request that is closed keeps its users.
LEMMA CloseCrosses ==
  ASSUME TypeOK, TypeOK', NEW o \in Op, MarkAccepted(o) \/ MarkRejected(o)
  PROVE  RequestsGrow /\ Len(requests') = Len(requests)
  <1>1. PICK status \in {"accepted", "rejected"} :
          requests' = [requests EXCEPT ![task[o].id].status = status]
    BY DEF MarkAccepted, MarkRejected, Close
  <1>2. /\ DOMAIN requests' = DOMAIN requests /\ Len(requests) \in Nat
        /\ DOMAIN requests = 1 .. Len(requests) /\ DOMAIN requests' = 1 .. Len(requests')
        /\ Len(requests') \in Nat
    BY <1>1 DEF TypeOK
  <1>3. Len(requests') = Len(requests)
    BY <1>2
  <1>4. \A i \in 1 .. Len(requests) :
          requests'[i] = requests[i] \/ requests'[i] = [requests[i] EXCEPT !.status = status]
    BY <1>1, <1>2
  <1>5. \A i \in 1 .. Len(requests) : requests[i] \in Request
    BY <1>2 DEF TypeOK
  <1>6. ASSUME NEW i \in 1 .. Len(requests)
        PROVE  /\ requests'[i].from = requests[i].from /\ requests'[i].to = requests[i].to
               /\ requests'[i].seen = requests[i].seen
               /\ requests'[i].status = "pending" => requests[i].status = "pending"
    <2>1. CASE requests'[i] = requests[i]
      BY <2>1
    <2>2. CASE requests'[i] = [requests[i] EXCEPT !.status = status]
      BY <1>5, <2>2 DEF Request
    <2> QED BY <1>4, <2>1, <2>2
  <1> QED BY <1>2, <1>3, <1>6 DEF RequestsGrow

\* The check shows what it is for.
LEMMA CheckSaw ==
  ASSUME TypeOK, NEW o \in Op, CheckDuplicate(o)
  PROVE  Saw(o)' /\ requests' = requests
  <1> DEFINE pc == IF Barred(o) = {} THEN "create" ELSE "refused"
  <1>1. Become(o, [task[o] EXCEPT !.pc = pc, !.seen = Len(requests)]) /\ requests' = requests
    BY DEF CheckDuplicate, tables
  <1>2. pc = "create" <=> Barred(o) = {}
    OBVIOUS
  <1> HIDE DEF pc
  <1> PICK n \in Nat : n = Len(requests)
    BY DEF TypeOK
  <1>3. task'[o].pc = pc /\ task'[o].seen = n
    BY <1>1 DEF Become, TypeOK, Task
  <1> SUFFICES ASSUME pc = "create", NEW i \in 1 .. n,
                      requests[i].from = to(o), requests[i].to = from(o),
                      requests[i].status = "pending"
               PROVE  PushedOut(i, n)
    BY <1>1, <1>3 DEF Saw, At, PushedOut, from, to
  <1> QED BY <1>2, UnlistedPushedOut

LEMMA CrossHandlerStep ==
  ASSUME FriendInv, CrossInv, NEW o \in Op,
         Begin(o) \/ Apply(o) \/ Handle(o) \/ Update(o) \/ List(o) \/ Fail(o)
  PROVE  CrossInv'
  <1>0. TypeOK /\ TypeOK' /\ \A p \in Op \ {o} : task'[p] = task[p]
    BY HandlerStep DEF FriendInv, Grown
  <1>1. /\ task \in [Op -> Task] /\ Len(requests') \in Nat /\ Len(requests) \in Nat
    BY <1>0 DEF TypeOK
  <1>2. \/ CheckDuplicate(o) \/ Create(o) \/ MarkAccepted(o) \/ MarkRejected(o)
        \/ requests' = requests /\ task'[o].pc # "create"
    <2>1. CASE Begin(o)
      <3>1. PICK pc \in {"refused", "forward", "find", "cache"} : Goto(o, pc)
        BY <2>1, OpTyped DEF Begin, Kind
      <3> QED BY <1>1, <2>1, <3>1 DEF Begin, Goto, Become, Task, tables
    <2>2. CASE CheckForward(o) \/ CheckBack(o)
      BY <1>1, <2>2 DEF CheckForward, CheckBack, Goto, Become, Task, tables
    <2>3. CASE Find(o) \/ CheckPair(o)
      BY <1>1, <2>3 DEF Find, CheckPair, Goto, Become, Task, tables
    <2>4. CASE Befriend(o) \/ BefriendBack(o)
      BY <1>1, <2>4, BefriendingGoesTo
    <2>5. CASE Fail(o)
      BY <1>1, <2>5 DEF Fail, Become, Task, tables
    <2>6. CASE ListFrom(o) \/ ListTo(o) \/ ReadPage(o)
      BY <1>1, <2>6, ListingGoesTo
    <2>7. CASE SaveFrom(o) \/ SaveTo(o) \/ SavePage(o)
      BY <1>1, <2>7, SavingGoesTo
    <2>8. CASE SkipList(o) \/ ReadCache(o) \/ MissCache(o) \/ SkipPage(o)
      BY <1>1, <2>8 DEF SkipList, ReadCache, MissCache, SkipPage, Goto, Become, Task, tables
    <2>9. CASE ExpireFrom(o) \/ ExpireTo(o) \/ ExpirePage(o)
      BY <1>1, <2>9, ExpiringGoesTo
    <2> QED BY <2>1, <2>2, <2>3, <2>4, <2>5, <2>6, <2>7, <2>8, <2>9
            DEF Apply, Handle, Update, List
  <1>3. /\ RequestsGrow /\ Saw(o)'
        /\ \A j \in DOMAIN requests' : requests'[j].seen <= Len(requests')
        /\ CrossingOverlap'
    <2>1. CASE Create(o)
      <3>1. task'[o].pc = "ok"
        BY <1>1, <2>1 DEF Create, Goto, Become, Task
      <3>2. Saw(o)'
        BY <3>1 DEF Saw, At
      <3> QED BY <1>0, <2>1, <3>2, CreateCrosses
    <2>2. CASE MarkAccepted(o) \/ MarkRejected(o)
      <3>1. task'[o].pc \in {"list_from", "ok"}
        BY <1>1, <2>2 DEF MarkAccepted, MarkRejected, Close, Goto, Become, Task
      <3>2. Saw(o)'
        BY <3>1 DEF Saw, At
      <3> QED BY <1>0, <2>2, <3>2, CloseCrosses, NothingCreated
    <2>3. CASE CheckDuplicate(o)
      <3>1. requests' = requests /\ Saw(o)'
        BY <1>0, <2>3, CheckSaw
      <3>2. RequestsGrow /\ Len(requests') = Len(requests)
        BY <1>1, <3>1 DEF RequestsGrow
      <3> QED BY <1>0, <3>1, <3>2, NothingCreated
    <2>4. CASE requests' = requests /\ task'[o].pc # "create"
      <3>1. Saw(o)'
        BY <2>4 DEF Saw, At
      <3>2. RequestsGrow /\ Len(requests') = Len(requests)
        BY <1>1, <2>4 DEF RequestsGrow
      <3> QED BY <1>0, <3>1, <3>2, NothingCreated
    <2> QED BY <1>2, <2>1, <2>2, <2>3, <2>4
  <1>4. \A p \in Op : Saw(p)'
    BY <1>0, <1>1, <1>3, StillSaw DEF CrossInv
  <1> QED BY <1>3, <1>4 DEF CrossInv

LEMMA CrossInit == Init => CrossInv
  <1> SUFFICES ASSUME Init PROVE CrossInv
    OBVIOUS
  <1>1. /\ requests \in Seq([from : User, to : User, status : {"pending"}, seen : {0}])
        /\ \A o \in Op : task[o].pc = "new"
    BY FriendAssumption DEF Init
  <1>2. /\ Len(requests) \in Nat /\ DOMAIN requests = 1 .. Len(requests)
        /\ \A j \in DOMAIN requests : requests[j].seen = 0
    <2> DEFINE First == [from : User, to : User, status : {"pending"}, seen : {0}]
    <2>1. \A r \in First : r.seen = 0
      OBVIOUS
    <2> HIDE DEF First
    <2>2. requests \in Seq(First)
      BY <1>1 DEF First
    <2> QED BY <2>1, <2>2
  <1> QED BY <1>1, <1>2 DEF CrossInv, Saw, At, CrossingOverlap

LEMMA CrossStep == FriendInv /\ CrossInv /\ [Next]_vars => CrossInv'
  <1> SUFFICES ASSUME FriendInv, CrossInv, [Next]_vars PROVE CrossInv'
    OBVIOUS
  <1>1. ASSUME NEW o \in Op,
               Begin(o) \/ Apply(o) \/ Handle(o) \/ Update(o) \/ List(o) \/ Fail(o)
        PROVE  CrossInv'
    BY <1>1, CrossHandlerStep
  <1>2. CASE requests' = requests /\ task' = task
    <2>1. \A o \in Op : Saw(o)' <=> Saw(o)
      BY <1>2 DEF Saw, At, PushedOut, from, to
    <2>2. CrossingOverlap' <=> CrossingOverlap
      BY <1>2 DEF CrossingOverlap, PushedOut
    <2> QED BY <1>2, <2>1, <2>2 DEF CrossInv
  <1>3. ASSUME NEW u \in User, Expire(u) PROVE requests' = requests /\ task' = task
    BY <1>3 DEF Expire, tables
  <1>4. CASE UNCHANGED vars
    BY <1>2, <1>4 DEF vars
  <1> QED BY <1>1, <1>2, <1>3, <1>4 DEF Next

\* Two users have open requests to each other only if the later application
\* had made its duplicate check before the earlier was created, or the
\* earlier was no longer among the requests that check lists, for any
\* handlers, requests already open and listing limit.
THEOREM CrossingNeedsOverlap == Spec => []CrossingOverlap
  <1>1. CrossInv => CrossingOverlap
    BY DEF CrossInv
  <1> QED BY <1>1, FriendInit, FriendStep, CrossInit, CrossStep, PTL DEF Spec
----------------------------------------------------------------------------
(* The promise of FriendGraph.                                             *)

\* Nobody applies to himself.
NotSelf ==
  \A o \in Op : task[o].pc \in {"forward", "back", "dup", "create"} => from(o) # to(o)

Mutual(u, v) == Friends(u, v) /\ Friends(v, u)

LEMMA NotSelfStep == FriendInv /\ NotSelf /\ [Next]_vars => NotSelf'
  <1> SUFFICES ASSUME FriendInv, NotSelf, [Next]_vars PROVE NotSelf'
    OBVIOUS
  <1>1. ASSUME NEW o \in Op,
               Begin(o) \/ Apply(o) \/ Handle(o) \/ Update(o) \/ List(o) \/ Fail(o)
        PROVE  NotSelf'
    <2>1. /\ \A p \in Op \ {o} : task'[p] = task[p]
          /\ task \in [Op -> Task] /\ task[o] \in Task
      BY <1>1, HandlerStep DEF FriendInv, TypeOK, Grown
    <2>2. ASSUME task'[o].pc \in {"forward", "back", "dup", "create"}
          PROVE  from(o) # to(o)
      <3>1. CASE Begin(o)
        <4>1. CASE from(o) = to(o)
          <5>1. PICK pc \in {"refused", "find", "cache"} : Goto(o, pc)
            BY <3>1, <4>1, OpTyped DEF Begin, Kind
          <5>2. task'[o].pc = pc
            BY <2>1, <5>1 DEF Goto, Become, Task
          <5> QED BY <2>2, <5>2
        <4> QED BY <4>1
      <3>2. CASE Apply(o)
        BY <3>2 DEF Apply, CheckForward, CheckBack, CheckDuplicate, Create, At, NotSelf
      <3>3. CASE Find(o) \/ CheckPair(o)
        BY <2>1, <2>2, <3>3, FindingGoesTo
      <3>4. CASE Befriend(o) \/ BefriendBack(o)
        BY <2>1, <2>2, <3>4, BefriendingGoesTo
      <3>5. CASE MarkAccepted(o) \/ MarkRejected(o)
        BY <2>1, <2>2, <3>5, ClosingGoesTo
      <3>6. CASE ListFrom(o) \/ ListTo(o) \/ ReadPage(o)
        BY <2>1, <2>2, <3>6, ListingGoesTo
      <3>7. CASE SaveFrom(o) \/ SaveTo(o) \/ SavePage(o)
        BY <2>1, <2>2, <3>7, SavingGoesTo
      <3>8. CASE SkipList(o) \/ ReadCache(o) \/ MissCache(o) \/ SkipPage(o) \/ Fail(o)
        <4>1. task'[o].pc \in {"list_to", "ok", "page", "error"}
          <5>1. CASE MissCache(o) \/ SkipPage(o)
            BY <2>1, <5>1, GoesTo DEF MissCache, SkipPage
          <5>2. CASE ReadCache(o)
            BY <2>1, <5>2 DEF ReadCache, Goto, Become, Task
          <5>3. CASE SkipList(o)
            BY <2>1, <5>3 DEF SkipList, Become, Task
          <5>4. CASE Fail(o)
            BY <2>1, <5>4 DEF Fail, Become, Task
          <5> QED BY <3>8, <5>1, <5>2, <5>3, <5>4
        <4> QED BY <2>2, <4>1
      <3>9. CASE ExpireFrom(o) \/ ExpireTo(o) \/ ExpirePage(o)
        BY <2>1, <2>2, <3>9, ExpiringGoesTo
      <3> QED BY <1>1, <3>1, <3>2, <3>3, <3>4, <3>5, <3>6, <3>7, <3>8, <3>9
              DEF Handle, Update, List
    <2>3. ASSUME NEW p \in Op, task'[p].pc \in {"forward", "back", "dup", "create"}
          PROVE  from(p) # to(p)
      BY <2>1, <2>2, <2>3 DEF NotSelf
    <2> QED BY <2>3 DEF NotSelf, from, to
  <1>2. ASSUME NEW u \in User, Expire(u) PROVE NotSelf'
    BY <1>2 DEF Expire, NotSelf, from, to
  <1>3. CASE UNCHANGED vars
    BY <1>3 DEF vars, NotSelf, from, to
  <1> QED BY <1>1, <1>2, <1>3 DEF Next

\* The requests that handlers found and are to answer.
Taken == {<<o, task[o].id>> : o \in {p \in Op : Answering(p)}}

\* A step that leaves the requests, the rows and the requests found alone
\* leaves the graph alone.
LEMMA QuietGraph ==
  ASSUME requests' = requests, rows' = rows, Taken' = Taken
  PROVE  UNCHANGED Graph!vars
  BY DEF Graph!vars, Friends, Taken

\* A handler goes on with the request it found, or with none.
LEMMA StillAnswering ==
  ASSUME NEW o \in Op, \A p \in Op \ {o} : task'[p] = task[p],
         Answering(o), Answering(o)', task'[o].id = task[o].id
  PROVE  Taken' = Taken
  <1>1. \A p \in Op : (Answering(p)' <=> Answering(p)) /\ task'[p].id = task[p].id
    BY DEF Answering
  <1> QED BY <1>1 DEF Taken

LEMMA NotAnswering ==
  ASSUME NEW o \in Op, \A p \in Op \ {o} : task'[p] = task[p],
         ~ Answering(o), ~ Answering(o)'
  PROVE  Taken' = Taken
  <1>1. \A p \in Op : (Answering(p)' <=> Answering(p))
    BY DEF Answering
  <1>2. \A p \in Op : Answering(p) => task'[p].id = task[p].id
    OBVIOUS
  <1> QED BY <1>1, <1>2 DEF Taken

\* It is done with it.
LEMMA LetsGo ==
  ASSUME NEW o \in Op, \A p \in Op \ {o} : task'[p] = task[p],
         Answering(o), ~ Answering(o)'
  PROVE  <<o, task[o].id>> \in Taken /\ Taken' = Taken \ {<<o, task[o].id>>}
  <1>1. \A p \in Op \ {o} : (Answering(p)' <=> Answering(p)) /\ task'[p].id = task[p].id
    BY DEF Answering
  <1> QED BY <1>1 DEF Taken

\* It has found one.
LEMMA Takes ==
  ASSUME NEW o \in Op, \A p \in Op \ {o} : task'[p] = task[p],
         ~ Answering(o), Answering(o)'
  PROVE  /\ Taken' = Taken \cup {<<o, task'[o].id>>}
         /\ \A p \in Taken : p[1] # o
  <1>1. \A p \in Op \ {o} : (Answering(p)' <=> Answering(p)) /\ task'[p].id = task[p].id
    BY DEF Answering
  <1> QED BY <1>1 DEF Taken

\* A handler that ends between finding and answering drops the request.
LEMMA EndDrops ==
  ASSUME NEW o \in Op, \A p \in Op \ {o} : task'[p] = task[p],
         requests' = requests, rows' = rows, Answering(o), ~ Answering(o)'
  PROVE  \A i : i = task[o].id => Graph!Drop(o, i)
  <1>1. ASSUME NEW i, i = task[o].id
        PROVE  <<o, i>> \in Taken /\ Taken' = Taken \ {<<o, i>>}
    BY <1>1, LetsGo
  <1> QED BY <1>1 DEF Graph!Drop, Taken, Friends

\* Creating a request asks.
LEMMA CreateAsks ==
  ASSUME FriendInv, NotSelf, NEW o \in Op, Create(o)
  PROVE  \E u, v \in User : Graph!Ask(u, v)
  <1> PICK u \in User, v \in User : u = from(o) /\ v = to(o)
    BY OpTyped
  <1> DEFINE n == Len(requests)
             e == [from |-> u, to |-> v, status |-> "pending", seen |-> task[o].seen]
             a == [from |-> u, to |-> v, status |-> "pending"]
             asked == [i \in DOMAIN requests |-> [from   |-> requests[i].from,
                                                  to     |-> requests[i].to,
                                                  status |-> requests[i].status]]
             R == {asked[i] : i \in DOMAIN requests} \cup {a}
  <1>1. requests' = Append(requests, e) /\ rows' = rows /\ u # v
    BY DEF Create, At, NotSelf
  <1>2. e.from = u /\ e.to = v /\ e.status = "pending"
    OBVIOUS
  <1> HIDE DEF e
  <1>3. /\ DOMAIN requests' = 1 .. n + 1 /\ requests'[n + 1] = e
        /\ DOMAIN requests = 1 .. n /\ n \in Nat
        /\ \A i \in 1 .. n : requests'[i] = requests[i]
    BY <1>1 DEF FriendInv, TypeOK
  <1> HIDE DEF n
  <1>4. asked' = Append(asked, a)
    <2> DEFINE t == asked'
    <2>1. /\ t = [i \in 1 .. n + 1 |-> t[i]]
          /\ t[n + 1] = a /\ \A i \in 1 .. n : t[i] = asked[i]
      BY <1>2, <1>3
    <2>2. asked \in [1 .. n -> R] /\ a \in R
      BY <1>3
    <2> HIDE DEF t, asked, a, R
    <2>3. \A i \in 1 .. n + 1 : t[i] \in R
      <3> SUFFICES ASSUME NEW i \in 1 .. n + 1 PROVE t[i] \in R
        OBVIOUS
      <3>1. i = n + 1 \/ i \in 1 .. n
        BY <1>3
      <3> QED BY <2>1, <2>2, <3>1
    <2>4. asked \in Seq(R) /\ Len(asked) = n /\ t \in Seq(R) /\ Len(t) = n + 1
      BY <1>3, <2>1, <2>2, <2>3
    <2>5. /\ Append(asked, a) \in Seq(R) /\ Len(Append(asked, a)) = n + 1
          /\ \A i \in 1 .. n : Append(asked, a)[i] = asked[i]
          /\ Append(asked, a)[n + 1] = a
      BY <2>2, <2>4, AppendProperties
    <2>6. \A i \in 1 .. Len(t) : t[i] = Append(asked, a)[i]
      <3> SUFFICES ASSUME NEW i \in 1 .. n + 1 PROVE t[i] = Append(asked, a)[i]
        BY <2>4
      <3>1. i = n + 1 \/ i \in 1 .. n
        BY <1>3
      <3> QED BY <2>1, <2>5, <3>1
    <2>7. t = Append(asked, a)
      BY <2>4, <2>5, <2>6, SeqEqual
    <2> QED BY <2>7 DEF t
  <1>5. {p \in User \X User : Friends(p[1], p[2]) /\ Friends(p[2], p[1])}'
          = {p \in User \X User : Friends(p[1], p[2]) /\ Friends(p[2], p[1])}
    BY <1>1 DEF Friends
  <1>6. Taken' = Taken
    <2>1. task[o].pc = "create" /\ Goto(o, "ok")
      BY DEF Create, At
    <2>2. task \in [Op -> Task]
      BY DEF FriendInv, TypeOK
    <2>3. task'[o].pc = "ok" /\ \A p \in Op \ {o} : task'[p] = task[p]
      BY <2>1, <2>2, GoesTo DEF Goto, Become
    <2> QED BY <2>1, <2>3, NotAnswering DEF Answering
  <1>7. Graph!Ask(u, v)
    BY <1>1, <1>4, <1>5, <1>6 DEF Graph!Ask, Taken
  <1> QED BY <1>7

\* Finding a request takes it, which is pending.
LEMMA FindTakes ==
  ASSUME FriendInv, NEW o \in Op, Find(o)
  PROVE  (\E i \in DOMAIN requests : Graph!Take(o, i)) \/ UNCHANGED Graph!vars
  <1>1. /\ task[o].pc = "find" /\ task \in [Op -> Task] /\ requests' = requests /\ rows' = rows
    BY DEF Find, At, FriendInv, TypeOK, tables
  <1>2. CASE Goto(o, "refused")
    <2>1. task'[o].pc = "refused" /\ \A p \in Op \ {o} : task'[p] = task[p]
      BY <1>1, <1>2, GoesTo DEF Goto, Become
    <2> QED BY <1>1, <2>1, NotAnswering, QuietGraph DEF Answering
  <1>3. ASSUME NEW i \in Pending(to(o)), NEW pc \in {"pair", "close"},
               Become(o, [task[o] EXCEPT !.pc = pc, !.id = i])
        PROVE  i \in DOMAIN requests /\ Graph!Take(o, i)
    <2>1. i \in DOMAIN requests /\ requests[i].status = "pending"
      BY DEF Pending, Newest
    <2>2. /\ task'[o].pc = pc /\ task'[o].id = i
          /\ \A p \in Op \ {o} : task'[p] = task[p]
      BY <1>1, <1>3 DEF Become, Task
    <2>3. Taken' = Taken \cup {<<o, i>>} /\ \A p \in Taken : p[1] # o
      BY <1>1, <2>2, Takes DEF Answering
    <2> QED BY <1>1, <2>1, <2>3 DEF Graph!Take, Taken, Friends
  <1>4. \/ Goto(o, "refused")
        \/ \E i \in Pending(to(o)), pc \in {"pair", "close"} :
             Become(o, [task[o] EXCEPT !.pc = pc, !.id = i])
    BY DEF Find
  <1> QED BY <1>2, <1>3, <1>4

\* The insertion of the second row of two users makes them friends, out of
\* the request the handler found; that of the first changes nothing.
LEMMA InsertBefriends ==
  ASSUME FriendInv, NEW o \in Op, Befriend(o) \/ BefriendBack(o)
  PROVE  \/ \E i \in DOMAIN requests : Graph!Befriend(o, i) \/ Graph!Drop(o, i)
         \/ UNCHANGED Graph!vars
  <1> PICK F \in User, T \in User : F = from(o) /\ T = to(o)
    BY OpTyped
  <1> PICK i : i = task[o].id
    OBVIOUS
  <1>1. i \in DOMAIN requests /\ requests[i].from = F /\ requests[i].to = T
    BY DEF FriendInv, Holds, Befriend, BefriendBack, At
  <1>2. PICK u \in User, v \in User, next \in {"befriend_back", "close"} :
          /\ Insert(o, u, v, next)
          /\ (u = F /\ v = T) \/ (u = T /\ v = F)
    BY DEF Befriend, BefriendBack
  <1>3. /\ requests' = requests /\ Answering(o) /\ task \in [Op -> Task]
        /\ \A p \in Op \ {o} : task'[p] = task[p]
    BY <1>2, HandlerStep DEF Insert, Befriend, BefriendBack, At, Answering, Handle,
                             FriendInv, TypeOK, Grown
  <1>4. CASE Friends(u, v)
    <2>1. PICK failed : Become(o, [task[o] EXCEPT !.pc = "error", !.failed = failed])
      BY <1>2, <1>4 DEF Insert
    <2>2. task'[o].pc = "error" /\ rows' = rows
      BY <1>2, <1>3, <1>4, <2>1 DEF Insert, Become, Task
    <2>3. Graph!Drop(o, i)
      BY <1>3, <2>2, EndDrops DEF Answering
    <2> QED BY <1>1, <2>3
  <1>5. CASE ~ Friends(u, v)
    <2>1. \A x, y : Friends(x, y)' <=> Friends(x, y) \/ (x = u /\ y = v)
      <3>1. rows' = Append(rows, [user |-> u, friend |-> v])
        BY <1>2, <1>5 DEF Insert
      <3> QED BY <3>1, InsertedRow DEF FriendInv
    <2>0. Goto(o, next) /\ <<o, i>> \in Taken /\ Taken' = Taken
      <3>1. Goto(o, next)
        BY <1>2, <1>5 DEF Insert
      <3>2. task'[o].pc = next /\ task'[o].id = task[o].id
        BY <1>3, <3>1 DEF Goto, Become, Task
      <3>3. Taken' = Taken
        BY <1>3, <3>2, StillAnswering DEF Answering
      <3>4. <<o, i>> \in Taken
        BY <1>3 DEF Taken
      <3> QED BY <3>1, <3>3, <3>4
    <2> DEFINE friends == {p \in User \X User : Friends(p[1], p[2]) /\ Friends(p[2], p[1])}
    <2>2. [j \in DOMAIN requests |-> [from   |-> requests[j].from,
                                      to     |-> requests[j].to,
                                      status |-> requests[j].status]]'
            = [j \in DOMAIN requests |-> [from   |-> requests[j].from,
                                          to     |-> requests[j].to,
                                          status |-> requests[j].status]]
      BY <1>3
    <2>3. CASE Friends(v, u) \/ u = v
      <3>1. friends' = friends \cup {<<u, v>>, <<v, u>>}
        BY <2>1, <2>3
      <3>2. friends' = friends \cup {<<F, T>>, <<T, F>>}
        BY <1>2, <3>1
      <3>3. <<F, T>> \notin friends
        BY <1>2, <1>5
      <3>4. Graph!Befriend(o, i)
        BY <1>1, <2>0, <2>2, <3>2, <3>3 DEF Graph!Befriend, Taken
      <3> QED BY <1>1, <3>4
    <2>4. CASE ~ Friends(v, u) /\ u # v
      <3>1. friends' = friends
        BY <1>5, <2>1, <2>4
      <3> QED BY <2>0, <2>2, <3>1 DEF Graph!vars, Taken
    <2> QED BY <2>3, <2>4
  <1> QED BY <1>4, <1>5

\* Marking a request answers it.
LEMMA CloseAnswers ==
  ASSUME FriendInv, NEW o \in Op, MarkAccepted(o) \/ MarkRejected(o)
  PROVE  \E i \in DOMAIN requests : \E status \in {"accepted", "rejected"} :
           Graph!Answer(o, i, status)
  <1> PICK i : i = task[o].id
    OBVIOUS
  <1>1. PICK status \in {"accepted", "rejected"} :
          /\ requests' = [requests EXCEPT ![i].status = status]
          /\ status = "accepted" => kind(o) = "accept"
    BY DEF MarkAccepted, MarkRejected, Close
  <1>2. /\ task[o].pc = "close" /\ rows' = rows
        /\ i \in DOMAIN requests /\ requests[i].from = from(o) /\ requests[i].to = to(o)
    BY DEF MarkAccepted, MarkRejected, Close, At, FriendInv, Holds
  <1> DEFINE asked == [j \in DOMAIN requests |-> [from   |-> requests[j].from,
                                                  to     |-> requests[j].to,
                                                  status |-> requests[j].status]]
             friends == {p \in User \X User : Friends(p[1], p[2]) /\ Friends(p[2], p[1])}
  <1>3. asked' = [asked EXCEPT ![i].status = status]
    <2>1. /\ DOMAIN requests' = DOMAIN requests
          /\ requests'[i] = [requests[i] EXCEPT !.status = status]
          /\ \A j \in DOMAIN requests : j # i => requests'[j] = requests[j]
      BY <1>1, <1>2
    <2>2. requests[i] \in Request
      BY <1>2 DEF FriendInv, TypeOK
    <2>3. /\ requests'[i].from = requests[i].from /\ requests'[i].to = requests[i].to
          /\ requests'[i].status = status
      BY <2>1, <2>2 DEF Request
    <2>4. asked'[i] = [asked[i] EXCEPT !.status = status]
      <3>1. asked[i] = [from   |-> requests[i].from,
                        to     |-> requests[i].to,
                        status |-> requests[i].status]
        BY <1>2
      <3>2. asked'[i] = [from   |-> requests[i].from,
                         to     |-> requests[i].to,
                         status |-> status]
        BY <1>2, <2>1, <2>3
      <3> HIDE DEF asked
      <3> QED BY <3>1, <3>2
    <2>5. \A j \in DOMAIN requests : j # i => asked'[j] = asked[j]
      BY <2>1
    <2>6. asked' = [j \in DOMAIN requests |-> asked'[j]] /\ DOMAIN asked = DOMAIN requests
      BY <2>1
    <2>7. [asked EXCEPT ![i].status = status]
            = [j \in DOMAIN requests |->
                 IF j = i THEN [asked[i] EXCEPT !.status = status] ELSE asked[j]]
      BY <1>2
    <2> HIDE DEF asked
    <2> QED BY <2>4, <2>5, <2>6, <2>7
  <1>4. friends' = friends
    BY <1>2 DEF Friends
  <1>5. status = "accepted" => <<asked[i].from, asked[i].to>> \in friends
    BY <1>1, <1>2, OpTyped DEF FriendInv, Holds
  <1>6. <<o, i>> \in Taken /\ Taken' = Taken \ {<<o, i>>}
    <2>1. task \in [Op -> Task] /\ \A p \in Op \ {o} : task'[p] = task[p]
      BY HandlerStep DEF Handle, FriendInv, TypeOK, Grown
    <2>2. task'[o].pc \in {"list_from", "ok"}
      BY <2>1, ClosingGoesTo
    <2> QED BY <1>2, <2>1, <2>2, LetsGo DEF Answering
  <1>7. Graph!Answer(o, i, status)
    BY <1>3, <1>4, <1>5, <1>6 DEF Graph!Answer, Taken
  <1> QED BY <1>2, <1>7

\* Steps of handlers that answer no request.
LEMMA ElsewhereStep ==
  ASSUME FriendInv, NEW o \in Op,
         Begin(o) \/ CheckForward(o) \/ CheckBack(o) \/ CheckDuplicate(o)
           \/ Update(o) \/ List(o)
  PROVE  /\ requests' = requests /\ rows' = rows
         /\ ~ Answering(o) /\ ~ Answering(o)'
  <1>0. task \in [Op -> Task] /\ task[o] \in Task
    BY DEF FriendInv, TypeOK
  <1>1. CASE Begin(o)
    <2>1. PICK pc \in {"refused", "forward", "find", "cache"} : Goto(o, pc)
      BY <1>1, OpTyped DEF Begin, Kind
    <2>2. task'[o].pc = pc
      BY <1>0, <2>1, GoesTo
    <2> QED BY <1>1, <2>2 DEF Begin, At, Answering, tables
  <1>2. CASE CheckForward(o) \/ CheckBack(o)
    <2>1. task'[o].pc \in {"refused", "back", "dup"} /\ task[o].pc \in {"forward", "back"}
      BY <1>0, <1>2, GoesTo DEF CheckForward, CheckBack, At
    <2> QED BY <1>2, <2>1 DEF CheckForward, CheckBack, Answering, tables
  <1>3. CASE CheckDuplicate(o)
    <2> DEFINE pc == IF Barred(o) = {} THEN "create" ELSE "refused"
    <2>1. task[o].pc = "dup" /\ Become(o, [task[o] EXCEPT !.pc = pc, !.seen = Len(requests)])
      BY <1>3 DEF CheckDuplicate, At
    <2>2. pc \in {"create", "refused"}
      OBVIOUS
    <2> HIDE DEF pc
    <2>3. task'[o].pc = pc
      BY <1>0, <2>1 DEF Become, Task
    <2> QED BY <1>3, <2>1, <2>2, <2>3 DEF CheckDuplicate, Answering, tables
  <1>4. CASE ListFrom(o) \/ ListTo(o) \/ ReadPage(o)
    <2>1. task'[o].pc \in {"save_from", "save_to", "save_page"}
      BY <1>0, <1>4, ListingGoesTo
    <2> QED BY <1>4, <2>1 DEF ListFrom, ListTo, ReadPage, ListOf, At, Answering, tables
  <1>5. CASE SaveFrom(o) \/ SaveTo(o) \/ SavePage(o)
    <2>1. task'[o].pc \in {"list_to", "ok", "expire_from", "expire_to", "expire_page"}
      BY <1>0, <1>5, SavingGoesTo
    <2> QED BY <1>5, <2>1 DEF SaveFrom, SaveTo, SavePage, Save, At, Answering, tables
  <1>6. CASE ExpireFrom(o) \/ ExpireTo(o) \/ ExpirePage(o)
    <2>1. task'[o].pc \in {"list_to", "ok"}
      BY <1>0, <1>6, ExpiringGoesTo
    <2> QED BY <1>6, <2>1 DEF ExpireFrom, ExpireTo, ExpirePage, SetExpiry, At, Answering, tables
  <1>7. CASE SkipList(o)
    <2>1. task'[o].pc \in {"list_to", "ok"} /\ task[o].pc \in Refresh
      BY <1>0, <1>7 DEF SkipList, Become, Task
    <2> QED BY <1>7, <2>1 DEF SkipList, Answering, Refresh, RefreshFrom, RefreshTo, tables
  <1>8. CASE ReadCache(o) \/ MissCache(o) \/ SkipPage(o)
    <2>1. task'[o].pc \in {"ok", "page"} /\ task[o].pc \in {"cache", "save_page"}
      BY <1>0, <1>8 DEF ReadCache, MissCache, SkipPage, At, Goto, Become, Task
    <2> QED BY <1>8, <2>1 DEF ReadCache, MissCache, SkipPage, Answering, tables
  <1> QED BY <1>1, <1>2, <1>3, <1>4, <1>5, <1>6, <1>7, <1>8 DEF Update, List

LEMMA GraphInit == Init => NotSelf /\ Graph!Init
  <1> SUFFICES ASSUME Init PROVE NotSelf /\ Graph!Init
    OBVIOUS
  <1>1. NotSelf
    BY DEF Init, NotSelf
  <1>2. \A i \in DOMAIN requests : requests[i].status = "pending"
    <2> DEFINE First == [from : User, to : User, status : {"pending"}, seen : {0}]
    <2>1. \A r \in First : r.status = "pending"
      OBVIOUS
    <2>2. requests \in Seq(First)
      BY FriendAssumption DEF Init
    <2> HIDE DEF First
    <2> QED BY <2>1, <2>2
  <1>3. \A u, v : ~ Friends(u, v)
    BY DEF Init, Friends
  <1>4. Taken = {}
    BY DEF Init, Taken, Answering
  <1> QED BY <1>1, <1>2, <1>3, <1>4 DEF Graph!Init, Taken

LEMMA GraphStep ==
  FriendInv /\ NotSelf /\ [Next]_vars => [Graph!Next]_Graph!vars
  <1> SUFFICES ASSUME FriendInv, NotSelf, [Next]_vars
               PROVE  Graph!Next \/ UNCHANGED Graph!vars
    OBVIOUS
  <1>0. DOMAIN [i \in DOMAIN requests |-> [from   |-> requests[i].from,
                                           to     |-> requests[i].to,
                                           status |-> requests[i].status]] = DOMAIN requests
    OBVIOUS
  <1>1. ASSUME NEW o \in Op,
               Begin(o) \/ Apply(o) \/ Handle(o) \/ Update(o) \/ List(o) \/ Fail(o)
        PROVE  Graph!Next \/ UNCHANGED Graph!vars
    <2>0. /\ task \in [Op -> Task] /\ task[o] \in Task
          /\ \A p \in Op \ {o} : task'[p] = task[p]
          /\ Answering(o) => task[o].id \in DOMAIN requests
      BY <1>1, HandlerStep DEF FriendInv, TypeOK, Grown, Holds, Answering
    <2>1. CASE Create(o)
      BY <2>1, CreateAsks DEF Graph!Next
    <2>2. CASE Befriend(o) \/ BefriendBack(o)
      BY <1>0, <2>2, InsertBefriends DEF Graph!Next
    <2>3. CASE MarkAccepted(o) \/ MarkRejected(o)
      BY <1>0, <2>3, CloseAnswers DEF Graph!Next
    <2>4. CASE Find(o)
      BY <1>0, <2>4, FindTakes DEF Graph!Next
    <2>5. CASE CheckPair(o)
      <3>1. /\ task[o].pc = "pair" /\ requests' = requests /\ rows' = rows
            /\ \E pc \in {"refused", "befriend"} : Goto(o, pc)
        BY <2>5 DEF CheckPair, At, tables
      <3>2. PICK pc \in {"refused", "befriend"} : Goto(o, pc)
        BY <3>1
      <3>3. task'[o].pc = pc /\ task'[o].id = task[o].id
        BY <2>0, <3>2 DEF Goto, Become, Task
      <3>4. CASE pc = "befriend"
        BY <2>0, <3>1, <3>3, <3>4, StillAnswering, QuietGraph DEF Answering
      <3>5. CASE pc = "refused"
        <4>1. PICK i \in DOMAIN requests : i = task[o].id
          BY <2>0, <3>1 DEF Answering
        <4>2. Graph!Drop(o, i)
          BY <2>0, <3>1, <3>3, <3>5, <4>1, EndDrops DEF Answering
        <4> QED BY <1>0, <4>2 DEF Graph!Next
      <3> QED BY <3>4, <3>5
    <2>6. CASE Fail(o)
      <3>1. task'[o].pc = "error" /\ requests' = requests /\ rows' = rows
        BY <2>0, <2>6 DEF Fail, Become, Task, tables
      <3>2. CASE Answering(o)
        <4>1. PICK i \in DOMAIN requests : i = task[o].id
          BY <2>0, <3>2
        <4>2. Graph!Drop(o, i)
          BY <2>0, <3>1, <3>2, <4>1, EndDrops DEF Answering
        <4> QED BY <1>0, <4>2 DEF Graph!Next
      <3>3. CASE ~ Answering(o)
        BY <2>0, <3>1, <3>3, NotAnswering, QuietGraph DEF Answering
      <3> QED BY <3>2, <3>3
    <2>7. CASE /\ requests' = requests /\ rows' = rows
               /\ ~ Answering(o) /\ ~ Answering(o)'
      BY <2>0, <2>7, NotAnswering, QuietGraph
    <2>8. ASSUME Begin(o) \/ CheckForward(o) \/ CheckBack(o) \/ CheckDuplicate(o)
                   \/ Update(o) \/ List(o)
          PROVE  /\ requests' = requests /\ rows' = rows
                 /\ ~ Answering(o) /\ ~ Answering(o)'
      BY <2>0, <2>8, ElsewhereStep
    <2> QED BY <1>1, <2>1, <2>2, <2>3, <2>4, <2>5, <2>6, <2>7, <2>8 DEF Apply, Handle
  <1>2. ASSUME NEW u \in User, Expire(u) PROVE UNCHANGED Graph!vars
    BY <1>2, QuietGraph DEF Expire, Clear, tables, Taken, Answering
  <1>3. CASE UNCHANGED vars
    BY <1>3, QuietGraph DEF vars, Taken, Answering
  <1> QED BY <1>1, <1>2, <1>3 DEF Next

\* Friendship is made in one step, by a handler of a request from one of the
\* two to the other, and never unmade, a request is accepted only between
\* friends, and answered only by handlers that found it pending, by each
\* once, for any handlers that race, fail or are repeated: the order of the
\* three writes of AcceptFriendRequest stands in for a transaction.
THEOREM FriendsFormAGraph == Spec => IsAFriendGraph
  BY FriendInit, FriendStep, GraphInit, NotSelfStep, GraphStep,
     PTL DEF Spec, IsAFriendGraph, Graph!Spec
============================================================================
