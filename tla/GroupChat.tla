------------------------------ MODULE GroupChat ----------------------------
(***************************************************************************)
(* send_to_group: ChatService.SendGroupMessage and the fan-out loop of     *)
(* api/socket/server.go.  Every repository call is one MySQL statement on  *)
(* its own (no transaction), so the calls of concurrent requests, of any   *)
(* node, interleave.  Retries are further requests with the same payload.  *)
(***************************************************************************)
EXTENDS Naturals, SequencesExt

CONSTANTS
  User,       \* user ids, positive numbers
  Erp,        \* the names that sockets are bound to
  UserOf,     \* per erp: the number ParseUint reads in it, or NoUser
  NoUser,     \* an erp that is no positive number
  Conv, Req, Key,
  Group,      \* the conversations of type "group"
  Payload,    \* per request: conversation, erp of the socket and clientMsgId
  NoKey,      \* clientMsgId left empty
  Founders,   \* per conversation: the initial members in row order
  PageSize,   \* groupMemberPageSize of the service
  PageMax,    \* what the repository clamps a page to
  MaxChanges  \* bound: how often membership changes

ASSUME GroupAssumption ==
  /\ Group \subseteq Conv
  /\ UserOf \in [Erp -> User \cup {NoUser}] /\ NoUser \notin User
  /\ Payload \in [Req -> [conv : Conv, erp : Erp, key : Key \cup {NoKey}]]
  /\ Founders \in [Conv -> Seq(User)]
  /\ \A c \in Conv : IsInjective(Founders[c])
  /\ PageSize \in Nat \ {0}
  /\ PageMax \in Nat /\ PageSize <= PageMax
  /\ MaxChanges \in Nat

VARIABLES
  members,   \* per conversation: rows of conversation_members in id order
  past,      \* per conversation: users with a soft-deleted row
  messages,  \* the messages table; a row's id is its index.  gone is history:
             \* who had been removed from the conversation before
  lastMsg,   \* per conversation: last_message_id, 0 for NULL
  task,      \* per request: how far its handler is; seen is history, the
             \* number of messages there were at its Lookup, then at its Touch
  routed,    \* per user: message ids handed to routing for them, in order
  watch,     \* history, per request: who has stayed a member, and did all
  changes    \* membership changes so far

vars == <<members, past, messages, lastMsg, task, routed, watch, changes>>
store == <<messages, lastMsg>>
world == <<members, past, watch, changes>>

conv(r)   == Payload[r].conv
sender(r) == UserOf[Payload[r].erp]
key(r)    == Payload[r].key

Done   == {"ok", "dedup", "error"}
PC     == {"new", "member", "lookup", "insert", "touch", "list", "fanout"} \cup Done
Message == [conv : Group, sender : User, key : Key \cup {NoKey}, by : Req, seen : Nat,
            gone : SUBSET User]
Task   == [pc : PC, id : Nat, seen : Nat, offset : Nat, recipients : Seq(User), sent : Nat]

\* Every variable ranges over the values the Go types and tables allow.
TypeOK ==
  /\ members \in [Conv -> Seq(User)]
  /\ past \in [Conv -> SUBSET User]
  /\ messages \in Seq(Message)
  /\ lastMsg \in [Conv -> Nat]
  /\ task \in [Req -> Task]
  /\ routed \in [User -> Seq(Nat)]
  /\ watch \in [Req -> [stayed : SUBSET User, calm : BOOLEAN]]
  /\ changes \in 0 .. MaxChanges

Init ==
  /\ members = Founders
  /\ past = [c \in Conv |-> {}]
  /\ messages = <<>>
  /\ lastMsg = [c \in Conv |-> 0]
  /\ task = [r \in Req |-> [pc |-> "new", id |-> 0, seen |-> 0, offset |-> 0,
                            recipients |-> <<>>, sent |-> 0]]
  /\ routed = [u \in User |-> <<>>]
  /\ watch = [r \in Req |-> [stayed |-> {}, calm |-> TRUE]]
  /\ changes = 0

At(r, pc)   == task[r].pc = pc
Goto(r, pc) == task' = [task EXCEPT ![r].pc = pc]

----------------------------------------------------------------------------
\* The type check left out.
BeginAny(r) ==
  /\ At(r, "new")
  /\ Goto(r, IF sender(r) \in User THEN "member" ELSE "error")
  /\ UNCHANGED <<store, world, routed>>

(* The request arrives from a bound socket, its erp is read as a user id   *)
(* and then the conversation is read; it is refused unless the erp is such *)
(* a number and the conversation a group.                                  *)
Begin(r) ==
  /\ At(r, "new")
  /\ Goto(r, IF sender(r) \in User /\ conv(r) \in Group THEN "member" ELSE "error")
  /\ UNCHANGED <<store, world, routed>>

(* GetByConversationAndUser: the sender must be a member now.              *)
CheckMember(r) ==
  /\ At(r, "member")
  /\ Goto(r, IF Contains(members[conv(r)], sender(r)) THEN "lookup" ELSE "error")
  /\ UNCHANGED <<store, world, routed>>

\* The newest message left out of it.
SameButLast(r) ==
  {i \in DOMAIN messages : /\ i < Len(messages)
                           /\ key(r) # NoKey
                           /\ messages[i].key = key(r)
                           /\ messages[i].conv = conv(r)}

\* The stored messages a clientMsgId stands for.
Same(r) ==
  {i \in DOMAIN messages : /\ key(r) # NoKey
                           /\ messages[i].key = key(r)
                           /\ messages[i].conv = conv(r)}

(* GetByConversationAndClientMsgID finds nothing, or clientMsgId is empty. *)
LookupNothing(r) ==
  /\ At(r, "lookup")
  /\ Same(r) = {}
  /\ task' = [task EXCEPT ![r].pc = "insert", ![r].seen = Len(messages)]
  /\ UNCHANGED <<store, world, routed>>

\* The newest of several, as "ORDER BY id DESC" would have it.
LookupLast(r) ==
  /\ At(r, "lookup")
  /\ \E i \in Same(r) :
       /\ \A j \in Same(r) : i >= j
       /\ task' = [task EXCEPT ![r].pc = "dedup", ![r].id = i]
  /\ UNCHANGED <<store, world, routed>>

(* It finds the first message stored under the clientMsgId, which is       *)
(* acknowledged again, with no recipients.                                 *)
LookupFirst(r) ==
  /\ At(r, "lookup")
  /\ \E i \in Same(r) :
       /\ \A j \in Same(r) : i <= j
       /\ task' = [task EXCEPT ![r].pc = "dedup", ![r].id = i]
  /\ UNCHANGED <<store, world, routed>>

(* messageRepo.Create.                                                     *)
Insert(r) ==
  /\ At(r, "insert")
  /\ messages' = Append(messages, [conv |-> conv(r), sender |-> sender(r),
                                   key |-> key(r), by |-> r, seen |-> task[r].seen,
                                   gone |-> past[conv(r)]])
  /\ task' = [task EXCEPT ![r].pc = "touch", ![r].id = Len(messages')]
  /\ watch' = [watch EXCEPT ![r].stayed = ToSet(members[conv(r)])]
  /\ UNCHANGED <<lastMsg, members, past, changes, routed>>

\* last_message_id once it is m, from old.
FirstMsg(old, m) == IF old = 0 THEN m ELSE old
NewLast(old, m)  == m

(* conversationRepo.UpdateByID: last_message_id, unconditionally.          *)
Touch(r) ==
  /\ At(r, "touch")
  /\ lastMsg' = [lastMsg EXCEPT ![conv(r)] = NewLast(@, task[r].id)]
  /\ task' = [task EXCEPT ![r].pc = "list", ![r].seen = Len(messages)]
  /\ UNCHANGED <<messages, world, routed>>

\* The same rows and the soft-deleted ones.
PageWithDeleted(c, offset, limit) ==
  LET all == members[c] \o SetToSeq(past[c])
  IN SubSeq(all, offset + 1, IF offset + limit < Len(all) THEN offset + limit ELSE Len(all))

\* ListByConversation: members number offset+1 to offset+limit by row id,
\* where limit is what the service asks for, clamped by the repository.
PageFrom(c, offset, limit) ==
  SubSeq(members[c], offset + 1,
         IF offset + limit < Len(members[c]) THEN offset + limit ELSE Len(members[c]))
ShortPage(c, offset) == PageFrom(c, offset, PageSize - 1)
Page(c, offset) == PageFrom(c, offset, IF PageSize > PageMax THEN PageMax ELSE PageSize)

\* A page without user u, who has one row at most.
Without(page, u) ==
  IF Contains(page, u)
  THEN RemoveAt(page, CHOOSE i \in DOMAIN page : page[i] = u)
  ELSE page

\* The offset of the page after this one.
LateOffset(offset, page) == offset + Len(page) - 1
NextOffset(offset, page) == offset + Len(page)

(* One round of listRecipientUserIDs.  A short page is the last.           *)
ListPage(r) ==
  LET page == Page(conv(r), task[r].offset)
  IN /\ At(r, "list")
     /\ task' = [task EXCEPT
          ![r].recipients = @ \o Without(page, sender(r)),
          ![r].offset = NextOffset(@, page),
          ![r].pc = IF Len(page) < PageSize THEN "fanout" ELSE "list"]
     /\ UNCHANGED <<store, world, routed>>

\* An acknowledgement only for requests with recipients.
FanOutSilent(r) ==
  /\ At(r, "fanout") /\ task[r].recipients # <<>>
  /\ Goto(r, "ok")
  /\ UNCHANGED <<store, world, routed>>

(* The loop of the handler: each recipient is resolved and the message     *)
(* emitted or published, errors skip the recipient; then send_to_group_ok. *)
FanOut(r) ==
  /\ At(r, "fanout")
  /\ IF task[r].sent < Len(task[r].recipients)
     THEN LET u == task[r].recipients[task[r].sent + 1]
          IN /\ routed' = [routed EXCEPT ![u] = Append(@, task[r].id)]
             /\ task' = [task EXCEPT ![r].sent = @ + 1]
     ELSE Goto(r, "ok") /\ UNCHANGED routed
  /\ UNCHANGED <<store, world>>

(* A statement fails, or the node dies: the handler ends and nothing it    *)
(* did is undone.  A lost answer is the statement followed by this.        *)
Fail(r) ==
  /\ task[r].pc \notin Done \cup {"new"}
  /\ Goto(r, "error")
  /\ UNCHANGED <<store, world, routed>>

----------------------------------------------------------------------------
\* Requests that are listing or about to list the members of c.
Listing(c) == {r \in Req : conv(r) = c /\ task[r].pc \in {"touch", "list"}}

(* Membership is managed outside this repository.  A new row gets the      *)
(* largest id; idx_conv_member keeps a removed user from a second row.     *)
Join(c, u) ==
  /\ changes < MaxChanges
  /\ ~Contains(members[c], u) /\ u \notin past[c]
  /\ members' = [members EXCEPT ![c] = Append(@, u)]
  /\ changes' = changes + 1
  /\ UNCHANGED <<past, store, task, routed, watch>>

(* DeleteByID of the member repository, a soft delete, on row number i.    *)
Leave(c, i) ==
  LET u == members[c][i]
  IN /\ changes < MaxChanges
     /\ members' = [members EXCEPT ![c] = RemoveAt(@, i)]
     /\ past' = [past EXCEPT ![c] = @ \cup {u}]
     /\ watch' = [r \in Req |-> IF r \in Listing(c)
                                THEN [stayed |-> watch[r].stayed \ {u}, calm |-> FALSE]
                                ELSE watch[r]]
     /\ changes' = changes + 1
     /\ UNCHANGED <<store, task, routed>>

Work(r) ==
  \/ CheckMember(r) \/ LookupNothing(r) \/ LookupFirst(r) \/ Insert(r)
  \/ Touch(r) \/ ListPage(r) \/ FanOut(r)

Next ==
  \/ \E r \in Req : Begin(r) \/ Work(r) \/ Fail(r)
  \/ \E c \in Group, u \in User : Join(c, u)
  \/ \E c \in Group : \E i \in DOMAIN members[c] : Leave(c, i)

Spec == Init /\ [][Next]_vars

\* Handlers at work go on: goroutines are scheduled, statements return.  (It
\* is enough that one of them does, since each has finitely much to do.)
Progress == WF_vars(\E r \in Req : Work(r))

----------------------------------------------------------------------------
\* A clientMsgId is stored once per conversation, whatever is retried: what
\* docs/current-capabilities.md promises of the idempotent group chat.
OneMessagePerKey ==
  \A i, j \in DOMAIN messages :
    /\ messages[i].conv = messages[j].conv
    /\ messages[i].key = messages[j].key
    /\ messages[i].key # NoKey
    => i = j

\* What the lookup does achieve: a clientMsgId is stored twice only by
\* requests that overlap, the second having looked before the first stored.
DuplicatesOverlap ==
  \A i, j \in DOMAIN messages :
    /\ i < j
    /\ messages[i].conv = messages[j].conv
    /\ messages[i].key = messages[j].key
    /\ messages[i].key # NoKey
    => messages[j].seen < i

\* A deduplicated acknowledgement names a message of the conversation and
\* clientMsgId asked for, and the first such if retries raced.
DedupNamesFirst ==
  \A r \in Req : At(r, "dedup") =>
    /\ task[r].id \in DOMAIN messages
    /\ messages[task[r].id].conv = conv(r)
    /\ messages[task[r].id].key = key(r)
    /\ \A i \in 1 .. task[r].id - 1 :
         ~ (messages[i].conv = conv(r) /\ messages[i].key = key(r))

\* An acknowledged message has been, or is being, handed to the members: its
\* own request did not die on the way from the insertion to the last
\* recipient.  docs/frontend-socket-integration.md: stored, then distributed.
AckedIsDistributed ==
  \A r \in Req : task[r].pc \in {"ok", "dedup"} =>
    ~ At(messages[task[r].id].by, "error")

\* No member is handed a message twice and the sender is not handed his own,
\* whatever pages listRecipientUserIDs saw and whoever joined or left.
RoutedOnce ==
  \A u \in User :
    /\ IsInjective(routed[u])
    /\ \A i \in DOMAIN routed[u] : messages[routed[u][i]].sender # u

\* A message acknowledged as sent was handed to everybody who was a member
\* from its insertion to the end of the listing, provided nobody left in
\* between (a row that goes shifts the rest under the running offset).
RoutedToAll ==
  \A r \in Req : At(r, "ok") /\ watch[r].calm =>
    \A u \in watch[r].stayed \ {sender(r)} : Contains(routed[u], task[r].id)

\* Requests that have written last_message_id and are still going, or done.
Touched(r) == task[r].pc \in {"list", "fanout", "ok"}

\* The promise of the group chat: whatever its requests read and write in
\* between, a message is posted when it is inserted and heard by a recipient
\* when the loop comes to him, and he has been a member since it was posted,
\* is not its sender and has not heard it yet.
Broadcast == INSTANCE GroupBroadcast WITH
  Conv   <- Group,
  posts  <- [i \in DOMAIN messages |-> [conv   |-> messages[i].conv,
                                        sender |-> messages[i].sender,
                                        gone   |-> messages[i].gone]],
  joined <- [c \in Group |-> ToSet(members[c]) \cup past[c]],
  left   <- [c \in Group |-> past[c]],
  heard  <- routed

IsABroadcast == Broadcast!Spec

\* last_message_id names a message of the conversation, and is set back to
\* an older one only by a request that overlaps, whose update came after
\* the newer insertion (UpdateByID does not compare).
LastMsgSetBackByOverlap ==
  \A r \in Req : Touched(r) =>
    LET m == lastMsg[conv(r)]
    IN /\ m \in DOMAIN messages /\ messages[m].conv = conv(r)
       /\ m >= task[r].id \/ task[messages[m].by].seen >= task[r].id

Busy(r) == task[r].pc \notin Done \cup {"new"}

\* All requests that start come to be answered, one with nobody to send to,
\* one listing members who come and go and one that meets its own retry
\* included.
EveryRequestAnswered == (\E r \in Req : Busy(r)) ~> (\A r \in Req : ~Busy(r))
============================================================================
