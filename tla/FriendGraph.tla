---------------------------- MODULE FriendGraph ----------------------------
(***************************************************************************)
(* What friend requests promise, however many statements a handler takes:  *)
(* two users become friends of each other in one step, by a handler of a   *)
(* request from one to the other, and stay so; a request is accepted only  *)
(* between friends.  A handler answers only a request it took while that   *)
(* was pending, and only once.  Handlers that took it together may answer  *)
(* it one after the other, and then the last answer stands.                *)
(***************************************************************************)
EXTENDS Sequences

CONSTANTS User, Handler

VARIABLES
  asked,    \* the requests so far
  taken,    \* pairs of a handler and the request it is to answer
  friends   \* pairs of users, each with its reverse

vars == <<asked, taken, friends>>

Init ==
  /\ \A i \in DOMAIN asked : asked[i].status = "pending"
  /\ taken = {}
  /\ friends = {}

Ask(u, v) ==
  /\ u # v
  /\ asked' = Append(asked, [from |-> u, to |-> v, status |-> "pending"])
  /\ UNCHANGED <<taken, friends>>

Take(h, i) ==
  /\ asked[i].status = "pending"
  /\ \A p \in taken : p[1] # h
  /\ taken' = taken \cup {<<h, i>>}
  /\ UNCHANGED <<asked, friends>>

\* The two users of request i, whatever others have answered it meanwhile.
Befriend(h, i) ==
  LET u == asked[i].from
      v == asked[i].to
  IN /\ <<h, i>> \in taken
     /\ <<u, v>> \notin friends
     /\ friends' = friends \cup {<<u, v>>, <<v, u>>}
     /\ UNCHANGED <<asked, taken>>

Answer(h, i, status) ==
  /\ <<h, i>> \in taken
  /\ status = "accepted" => <<asked[i].from, asked[i].to>> \in friends
  /\ asked' = [asked EXCEPT ![i].status = status]
  /\ taken' = taken \ {<<h, i>>}
  /\ UNCHANGED friends

\* The handler refuses or fails, and the request keeps the status it has.
Drop(h, i) ==
  /\ <<h, i>> \in taken
  /\ taken' = taken \ {<<h, i>>}
  /\ UNCHANGED <<asked, friends>>

Next ==
  \/ \E h \in Handler : \E i \in DOMAIN asked :
       \/ Take(h, i) \/ Befriend(h, i) \/ Drop(h, i)
       \/ \E status \in {"accepted", "rejected"} : Answer(h, i, status)
  \/ \E u, v \in User : Ask(u, v)

Spec == Init /\ [][Next]_vars
============================================================================
