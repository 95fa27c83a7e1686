--------------------------- MODULE GroupBroadcast --------------------------
(***************************************************************************)
(* What send_to_group promises, whatever tables, pages and retries it is   *)
(* made of: a message is posted by somebody who has been a member of the   *)
(* group, and heard only by others who have been members at some time      *)
(* since, each of whom hears it once at most.  A group forgets nothing.    *)
(***************************************************************************)
EXTENDS Sequences

CONSTANTS
  User,
  Conv      \* the groups

VARIABLES
  posts,    \* the messages so far, each with those removed before it
  joined,   \* per group: who is a member or has been one
  left,     \* per group: who has been removed
  heard     \* per user: the posts he has heard, in that order

vars == <<posts, joined, left, heard>>

Init ==
  /\ posts = <<>>
  /\ joined \in [Conv -> SUBSET User]
  /\ left = [c \in Conv |-> {}]
  /\ heard = [u \in User |-> <<>>]

Post(c, u) ==
  /\ u \in joined[c]
  /\ posts' = Append(posts, [conv |-> c, sender |-> u, gone |-> left[c]])
  /\ UNCHANGED <<joined, left, heard>>

\* Those who may come to hear post i.
Audience(i) == joined[posts[i].conv] \ (posts[i].gone \cup {posts[i].sender})

Hear(i, u) ==
  /\ u \in Audience(i)
  /\ \A k \in DOMAIN heard[u] : heard[u][k] # i
  /\ heard' = [heard EXCEPT ![u] = Append(@, i)]
  /\ UNCHANGED <<posts, joined, left>>

Join(c, u) ==
  /\ u \notin joined[c]
  /\ joined' = [joined EXCEPT ![c] = @ \cup {u}]
  /\ UNCHANGED <<posts, left, heard>>

Leave(c, u) ==
  /\ u \in joined[c] \ left[c]
  /\ left' = [left EXCEPT ![c] = @ \cup {u}]
  /\ UNCHANGED <<posts, joined, heard>>

Next ==
  \/ \E c \in Conv, u \in User : Post(c, u) \/ Join(c, u) \/ Leave(c, u)
  \/ \E i \in DOMAIN posts : \E u \in User : Hear(i, u)

Spec == Init /\ [][Next]_vars
============================================================================
