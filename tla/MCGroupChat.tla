----------------------------- MODULE MCGroupChat ---------------------------
(* Instances of GroupChat for TLC: one group of three members (a fourth    *)
(* may join) listed two to a page, and another group.                      *)
EXTENDS MessageHistory, TLC

CONSTANTS g, h, x, a, b, c, d, k, r1, r2, r3, r4, r5, r6,
          erpA, erpA0, erpD, erpText

\* erpA and erpA0 are the same number (7 and 007, say), erpText is none.
MCUserOf == erpA :> a @@ erpA0 :> a @@ erpD :> d @@ erpText :> NoUser

Send(conversation, erp, id) == [conv |-> conversation, erp |-> erp, key |-> id]

\* a's message to g and two retries (one under the other name), one to h,
\* one to x, which is no group, and one of somebody whose erp is no number,
\* all under the same clientMsgId.
MCPayload == [r \in Req |-> CASE r = r2 -> Send(g, erpA0, k) []
                                 r = r3 -> Send(h, erpD, k) []
                                 r = r4 -> Send(x, erpD, k) []
                                 r = r6 -> Send(g, erpText, k) []
                                 OTHER  -> Send(g, erpA, k)]

MCFounders == [y \in Conv |-> IF y = g THEN <<a, b, c>> ELSE <<d>>]

Act(r) == Begin(r) \/ Work(r) \/ Fail(r)
Unsent(R) == \A r \in R : At(r, "new")

\* Either membership of g changes while a message and its retry are sent, or
\* the message to h is sent as well, or a second retry looks both up after
\* they have raced and were stored, or only the message to x or the one of no
\* number is sent: together these add nothing but states.
MCNext ==
  \/ Unsent({r4, r6}) /\ (\E r \in {r1, r2} : Act(r))
  \/ Unsent({r4, r5, r6}) /\ changes = 0 /\ Act(r3)
  \/ Unsent({r3, r4, r6}) /\ changes = 0 /\ Len(messages) = 2
     /\ ~Busy(r1) /\ ~Busy(r2) /\ Act(r5)
  \/ changes = 0 /\ \E r \in {r4, r6} : Unsent(Req \ {r}) /\ Act(r)
  \/ /\ Unsent({r3, r4, r5, r6})
     /\ (\E u \in User : Join(g, u)) \/ (\E i \in DOMAIN members[g] : Leave(g, i))

MCSpec == Init /\ [][MCNext]_vars /\ Progress
============================================================================
