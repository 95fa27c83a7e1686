-------------------------- MODULE MCFriendRequests -------------------------
(* Instances of FriendRequests for TLC: three users and up to eight        *)
(* handlers.                                                               *)
EXTENDS FriendRequests, TLC

CONSTANTS a, b, c, o1, o2, o3, o4, o5, o6, o7, o8

Ask(kd, u, v)       == [kind |-> kd, from |-> u, to |-> v, offset |-> 0, limit |-> 0]
Show(u, skip, most) == [kind |-> "list", from |-> u, to |-> u, offset |-> skip, limit |-> most]
Open(u, v)          == [from |-> u, to |-> v, status |-> "pending", seen |-> 0]

\* a has been asked by b and has asked c.
MCTwoOpen == <<Open(b, a), Open(a, c)>>
MCNothing == <<>>

\* Both requests are accepted while a looks at the list ...
Lists == {o6, o7, o8}
\* ... or b and c apply to each other while both accept and one rejects.
Crossing == {o1, o2, o3, o4, o5}

MCBoth == o1 :> Ask("apply", b, c) @@ o2 :> Ask("apply", c, b) @@
          o3 :> Ask("accept", b, c) @@ o4 :> Ask("accept", c, b) @@
          o5 :> Ask("reject", b, c) @@
          o6 :> Ask("accept", b, a) @@ o7 :> Ask("accept", a, c) @@ o8 :> Show(a, 0, 1)

\* a applies to b twice.
MCTwice == o1 :> Ask("apply", a, b) @@ o2 :> Ask("apply", a, b)

\* b's request is accepted, and the friends are looked up and cached.
MCAccept == o6 :> Ask("accept", b, a)

\* b's request is accepted and rejected at the same time.
MCAnswers == MCAccept @@ o7 :> Ask("reject", b, a)

\* Nobody's erp is made of two others'.
MCJoined == [pair \in SUBSET User |-> NoUser]

\* An application or a listing that fails has written nothing and is as good
\* as none, so only the others fail.
Act(o) ==
  \/ Begin(o) \/ Apply(o) \/ Handle(o) \/ Update(o) \/ List(o)
  \/ kind(o) \in {"accept", "reject"} /\ Fail(o)

\* Bound: a handler meets this many failures at most.
MaxFailures == 1

\* One of the two groups of handlers runs; lists expire under the second.
MCNext ==
  /\ \/ /\ expiries = 0 /\ \A o \in Crossing : At(o, "new")
        /\ \E o \in Lists : Act(o)
     \/ /\ \A o \in Lists : At(o, "new")
        /\ (\E o \in Crossing : Act(o)) \/ (\E u \in User : Expire(u))
  /\ \A o \in Op : Cardinality(task'[o].failed) <= MaxFailures

MCSpec == Init /\ [][MCNext]_vars
============================================================================
