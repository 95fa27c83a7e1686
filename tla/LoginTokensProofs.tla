------------------------- MODULE LoginTokensProofs -------------------------
(***************************************************************************)
(* Proofs about LoginTokens, for any users, logins and logouts.  A session *)
(* is one that its user's key names or that is being logged out; since the *)
(* key names one token, a user has one session.  The key may move from one *)
(* token to the next only because a login has deleted the token it found,  *)
(* or in one of the gaps.                                                  *)
(***************************************************************************)
EXTENDS LoginTokens, TLAPS

\* Logins that have written their user's token.
Ended(t) == login[t].pc \in {"ok", "error"}

\* A token named by its user's key, or found there, is that user's and its
\* login is over.
NamesEnded ==
  /\ \A e \in Erp : current[e] # NoToken =>
       ErpOf[current[e]] = e /\ Ended(current[e])
  /\ \A l \in Login : login[l].old # NoToken =>
       ErpOf[login[l].old] = ErpOf[l] /\ Ended(login[l].old)
  /\ \A x \in Logout : logout[x].pc # "new" =>
       logout[x].token \in Login /\ At(logout[x].token, "ok")

\* A token past its EXPIRE has an expiry.
ExpirySet == \A t \in Login : login[t].pc \in {"name", "ok"} => info[t] # "forever"

\* A login past its delete has ended the token it found.
OldEnded ==
  \A l \in Login :
    /\ login[l].pc \in {"hash", "expire", "name"}
    /\ login[l].old # NoToken
    => ~Live(login[l].old)

\* A session is named by its user's key, or is being logged out.
Named == \A t \in Login : Session(t) => current[ErpOf[t]] = t \/ Leaving(t)

LoginInv ==
  /\ TypeOK
  /\ NamesEnded
  /\ ExpirySet
  /\ gap \/ (OldEnded /\ Named)

----------------------------------------------------------------------------
LEMMA LoginInit == Init => LoginInv
  <1> SUFFICES ASSUME Init PROVE LoginInv
    OBVIOUS
  <1> USE LoginAssumption DEF Init
  <1>1. TypeOK
    BY DEF TypeOK, TokenOrNone, InfoState, LoginPC, LogoutPC
  <1>2. NamesEnded
    BY DEF NamesEnded
  <1>3. ExpirySet
    BY DEF ExpirySet
  <1>4. OldEnded
    BY DEF OldEnded
  <1>5. Named
    BY DEF Named, Session, At
  <1> QED BY <1>1, <1>2, <1>3, <1>4, <1>5 DEF LoginInv

\* The types through every step.
LEMMA LoginTyped ==
  ASSUME TypeOK, NamesEnded, [Next]_vars
  PROVE  TypeOK'
  <1> USE LoginAssumption DEF TypeOK, TokenOrNone, keys, At, AtX, Goto, GotoX
  <1>1. ASSUME NEW l \in Login, LoginSteps(l) PROVE TypeOK'
    <2>1. CASE Begin(l)
      BY <2>1 DEF Begin, LoginPC
    <2>2. CASE ReadOld(l)
      BY <2>2 DEF ReadOld, LoginPC
    <2>3. CASE CheckOld(l)
      BY <2>3 DEF CheckOld, LoginPC
    <2>4. CASE DeleteOld(l)
      BY <2>4 DEF DeleteOld, LoginPC, InfoState, Drop
    <2>5. CASE WriteHash(l)
      BY <2>5 DEF WriteHash, LoginPC, InfoState
    <2>6. CASE SetExpiry(l)
      BY <2>6 DEF SetExpiry, LoginPC, InfoState, Expiring, Live
    <2>7. CASE WriteName(l)
      BY <2>7 DEF WriteName, LoginPC
    <2>8. CASE FailLogin(l)
      BY <2>8 DEF FailLogin, LoginPC
    <2> QED BY <1>1, <2>1, <2>2, <2>3, <2>4, <2>5, <2>6, <2>7, <2>8 DEF LoginSteps
  <1>2. ASSUME NEW x \in Logout, LogoutSteps(x) PROVE TypeOK'
    <2>1. ASSUME NEW t \in Login, BeginLogout(x, t) PROVE TypeOK'
      BY <2>1 DEF BeginLogout, LogoutPC
    <2>2. CASE ReadInfo(x)
      BY <2>2 DEF ReadInfo, LogoutPC
    <2>3. CASE Unname(x)
      BY <2>3 DEF Unname, LogoutPC
    <2>4. CASE Delete(x)
      BY <2>4 DEF Delete, LogoutPC, InfoState, Drop
    <2>5. CASE FailLogout(x)
      BY <2>5 DEF FailLogout, LogoutPC
    <2> QED BY <1>2, <2>1, <2>2, <2>3, <2>4, <2>5 DEF LogoutSteps
  <1>3. ASSUME NEW t \in Login, ExpireInfo(t) PROVE TypeOK'
    BY <1>3 DEF ExpireInfo, Drop, InfoState
  <1>4. ASSUME NEW e \in Erp, ExpireName(e) PROVE TypeOK'
    BY <1>4 DEF ExpireName
  <1>5. CASE UNCHANGED vars
    BY <1>5 DEF vars
  <1> QED BY <1>1, <1>2, <1>3, <1>4, <1>5 DEF Next

\* What a step of a login leaves alone.
LEMMA LoginEffect ==
  ASSUME TypeOK, NEW l \in Login, LoginSteps(l)
  PROVE  /\ logout' = logout
         /\ \A k \in Login \ {l} : login'[k] = login[k]
         /\ ~Ended(l)
         /\ login'[l].old \in {login[l].old, NoToken, current[ErpOf[l]]}
         /\ WriteName(l) \/ (current' = current /\ ~At(l, "ok")')
  <1> USE DEF TypeOK, At, Goto, keys
  <1> DEFINE Only == /\ logout' = logout
                     /\ \A k \in Login \ {l} : login'[k] = login[k]
  <1>1. CASE Begin(l)
    BY <1>1 DEF Begin, Ended
  <1>2. CASE ReadOld(l)
    BY <1>2 DEF ReadOld, Ended
  <1>3. CASE CheckOld(l)
    BY <1>3 DEF CheckOld, Ended
  <1>4. CASE DeleteOld(l)
    BY <1>4 DEF DeleteOld, Ended
  <1>5. CASE WriteHash(l)
    BY <1>5 DEF WriteHash, Ended
  <1>6. CASE SetExpiry(l)
    BY <1>6 DEF SetExpiry, Ended
  <1>7. CASE WriteName(l)
    <2>1. Only /\ ~Ended(l)
      BY <1>7 DEF WriteName, Ended
    <2>2. login'[l].old = login[l].old
      BY <1>7 DEF WriteName
    <2> QED BY <1>7, <2>1, <2>2
  <1>8. CASE FailLogin(l)
    BY <1>8 DEF FailLogin, Ended
  <1> HIDE DEF Only, TypeOK, At, Goto, keys
  <1> QED BY <1>1, <1>2, <1>3, <1>4, <1>5, <1>6, <1>7, <1>8 DEF LoginSteps

\* Nothing forgets that a login has ended.
LEMMA EndedStays ==
  ASSUME TypeOK, [Next]_vars, NEW t \in Login, Ended(t)
  PROVE  /\ Ended(t)' /\ login'[t].old = login[t].old
         /\ At(t, "ok") <=> At(t, "ok")'
  <1> USE DEF TypeOK, At, Goto, Ended
  <1>1. ASSUME NEW l \in Login, LoginSteps(l)
        PROVE  l # t /\ login'[t] = login[t]
    BY <1>1, LoginEffect
  <1>2. ASSUME NEW x \in Logout, LogoutSteps(x) PROVE login' = login
    BY <1>2 DEF LogoutSteps, BeginLogout, ReadInfo, Unname, Delete, FailLogout
  <1>3. ASSUME NEW u \in Login, ExpireInfo(u) PROVE login' = login
    BY <1>3 DEF ExpireInfo
  <1>4. ASSUME NEW e \in Erp, ExpireName(e) PROVE login' = login
    BY <1>4 DEF ExpireName
  <1>5. CASE UNCHANGED vars
    BY <1>5 DEF vars
  <1> QED BY <1>1, <1>2, <1>3, <1>4, <1>5 DEF Next

\* Keys name tokens of logins that have ended, and so does what handlers
\* have found, through every step.
LEMMA NamesKept ==
  ASSUME TypeOK, NamesEnded, [Next]_vars
  PROVE  NamesEnded'
  <1> USE DEF TypeOK, At, AtX, Goto, GotoX, keys
  <1> DEFINE Names(e) == current[e] # NoToken => ErpOf[current[e]] = e /\ Ended(current[e])
             Found(l) == login[l].old # NoToken =>
                           ErpOf[login[l].old] = ErpOf[l] /\ Ended(login[l].old)
             Given(x) == logout[x].pc # "new" =>
                           logout[x].token \in Login /\ At(logout[x].token, "ok")
  <1>0. NamesEnded <=> /\ \A e \in Erp : Names(e)
                       /\ \A l \in Login : Found(l)
                       /\ \A x \in Logout : Given(x)
    BY DEF NamesEnded
  <1>1. \A t \in Login : Ended(t) => Ended(t)' /\ (At(t, "ok") => At(t, "ok")')
    BY EndedStays
  <1>2. ASSUME NEW e \in Erp PROVE Names(e)'
    <2>1. CASE current'[e] \in {current[e], NoToken}
      BY <1>0, <1>1, <2>1 DEF TokenOrNone
    <2>2. ASSUME NEW l \in Login, WriteName(l), current'[e] # current[e] PROVE Names(e)'
      <3>1. ErpOf[l] = e /\ current'[e] = l
        BY <2>2 DEF WriteName
      <3>2. Ended(l)'
        BY <2>2 DEF WriteName, Ended
      <3> QED BY <3>1, <3>2
    <2>3. ASSUME NEW l \in Login, LoginSteps(l), ~WriteName(l) PROVE current' = current
      BY <2>3, LoginEffect
    <2>4. ASSUME NEW x \in Logout, LogoutSteps(x) PROVE current'[e] \in {current[e], NoToken}
      BY <2>4 DEF LogoutSteps, BeginLogout, ReadInfo, Unname, Delete, FailLogout
    <2>5. ASSUME NEW t \in Login, ExpireInfo(t) PROVE current' = current
      BY <2>5 DEF ExpireInfo
    <2>6. ASSUME NEW f \in Erp, ExpireName(f) PROVE current'[e] \in {current[e], NoToken}
      BY <2>6 DEF ExpireName
    <2>7. CASE UNCHANGED vars
      BY <2>1, <2>7 DEF vars
    <2> HIDE DEF Names
    <2> QED BY <2>1, <2>2, <2>3, <2>4, <2>5, <2>6, <2>7 DEF Next
  <1>3. ASSUME NEW l \in Login PROVE Found(l)'
    <2>1. CASE login'[l].old \in {login[l].old, NoToken}
      BY <1>0, <1>1, <2>1 DEF TokenOrNone
    <2>2. CASE login'[l].old = current[ErpOf[l]]
      BY <1>0, <1>1, <2>2, LoginAssumption DEF TokenOrNone
    <2>3. ASSUME NEW k \in Login, LoginSteps(k)
          PROVE  login'[l].old \in {login[l].old, NoToken, current[ErpOf[l]]}
      BY <2>3, LoginEffect
    <2>4. ASSUME NEW x \in Logout, LogoutSteps(x) PROVE login' = login
      BY <2>4 DEF LogoutSteps, BeginLogout, ReadInfo, Unname, Delete, FailLogout
    <2>5. ASSUME NEW t \in Login, ExpireInfo(t) PROVE login' = login
      BY <2>5 DEF ExpireInfo
    <2>6. ASSUME NEW f \in Erp, ExpireName(f) PROVE login' = login
      BY <2>6 DEF ExpireName
    <2>7. CASE UNCHANGED vars
      BY <2>1, <2>7 DEF vars
    <2> HIDE DEF Found
    <2> QED BY <2>1, <2>2, <2>3, <2>4, <2>5, <2>6, <2>7 DEF Next
  <1>4. ASSUME NEW x \in Logout PROVE Given(x)'
    <2>1. CASE /\ logout'[x].token = logout[x].token
               /\ logout'[x].pc # "new" => logout[x].pc # "new"
      BY <1>0, <1>1, <2>1 DEF Ended
    <2>2. ASSUME NEW t \in Login, BeginLogout(x, t) PROVE Given(x)'
      BY <2>2 DEF BeginLogout
    <2>3. ASSUME NEW y \in Logout, LogoutSteps(y),
                 \A t \in Login : ~(y = x /\ BeginLogout(y, t))
          PROVE  /\ logout'[x].token = logout[x].token
                 /\ logout'[x].pc # "new" => logout[x].pc # "new"
      BY <2>3 DEF LogoutSteps, BeginLogout, ReadInfo, Unname, Delete, FailLogout
    <2>4. ASSUME NEW k \in Login, LoginSteps(k) PROVE logout' = logout
      BY <2>4, LoginEffect
    <2>5. ASSUME NEW t \in Login, ExpireInfo(t) PROVE logout' = logout
      BY <2>5 DEF ExpireInfo
    <2>6. ASSUME NEW f \in Erp, ExpireName(f) PROVE logout' = logout
      BY <2>6 DEF ExpireName
    <2>7. CASE UNCHANGED vars
      BY <2>1, <2>7 DEF vars
    <2> HIDE DEF Given
    <2> QED BY <2>1, <2>2, <2>3, <2>4, <2>5, <2>6, <2>7 DEF Next
  <1> QED BY <1>2, <1>3, <1>4 DEF NamesEnded

\* A token gets "forever" only by its own HSET, which is before its EXPIRE.
LEMMA ExpiryKept ==
  ASSUME TypeOK, ExpirySet, [Next]_vars
  PROVE  ExpirySet'
  <1> USE DEF TypeOK, At, AtX, Goto, GotoX, keys, Drop
  <1> SUFFICES ASSUME NEW t \in Login, login'[t].pc \in {"name", "ok"}
               PROVE  info'[t] # "forever"
    BY DEF ExpirySet
  <1>0. login[t].pc \in {"name", "ok"} => info[t] # "forever"
    BY DEF ExpirySet
  <1>1. ASSUME NEW l \in Login, LoginSteps(l) PROVE info'[t] # "forever"
    <2>1. CASE SetExpiry(l)
      BY <1>0, <2>1 DEF SetExpiry, Expiring, Live
    <2>2. CASE WriteHash(l)
      BY <1>0, <2>2 DEF WriteHash
    <2>3. CASE DeleteOld(l)
      BY <1>0, <2>3 DEF DeleteOld
    <2>4. CASE Begin(l)
      BY <1>0, <2>4 DEF Begin
    <2>5. CASE ReadOld(l)
      BY <1>0, <2>5 DEF ReadOld
    <2>6. CASE CheckOld(l)
      BY <1>0, <2>6 DEF CheckOld
    <2>7. CASE WriteName(l)
      BY <1>0, <2>7 DEF WriteName
    <2>8. CASE FailLogin(l)
      BY <1>0, <2>8 DEF FailLogin
    <2> QED BY <1>1, <2>1, <2>2, <2>3, <2>4, <2>5, <2>6, <2>7, <2>8 DEF LoginSteps
  <1>2. ASSUME NEW x \in Logout, LogoutSteps(x) PROVE info'[t] # "forever"
    BY <1>0, <1>2 DEF LogoutSteps, BeginLogout, ReadInfo, Unname, Delete, FailLogout
  <1>3. ASSUME NEW u \in Login, ExpireInfo(u) PROVE info'[t] # "forever"
    BY <1>0, <1>3 DEF ExpireInfo
  <1>4. ASSUME NEW e \in Erp, ExpireName(e) PROVE info'[t] # "forever"
    BY <1>0, <1>4 DEF ExpireName
  <1>5. CASE UNCHANGED vars
    BY <1>0, <1>5 DEF vars
  <1> QED BY <1>1, <1>2, <1>3, <1>4, <1>5 DEF Next

\* A gap stays on record.
LEMMA GapStays ==
  ASSUME TypeOK, [Next]_vars, gap
  PROVE  gap'
  <1>1. ASSUME NEW l \in Login, LoginSteps(l) PROVE gap'
    BY <1>1 DEF LoginSteps, Begin, ReadOld, CheckOld, DeleteOld, WriteHash, SetExpiry,
                WriteName, FailLogin
  <1>2. ASSUME NEW x \in Logout, LogoutSteps(x) PROVE gap'
    BY <1>2 DEF LogoutSteps, BeginLogout, ReadInfo, Unname, Delete, FailLogout
  <1>3. CASE (\E t \in Login : ExpireInfo(t)) \/ (\E e \in Erp : ExpireName(e)) \/ UNCHANGED vars
    BY <1>3 DEF ExpireInfo, ExpireName, vars
  <1> QED BY <1>1, <1>2, <1>3 DEF Next

\* Only its HSET makes a token valid.
LEMMA LiveStays ==
  ASSUME TypeOK, [Next]_vars, NEW t \in Login, ~Live(t), ~WriteHash(t)
  PROVE  ~Live(t)'
  <1> USE DEF TypeOK, Live, Drop, keys
  <1>1. ASSUME NEW l \in Login, LoginSteps(l) PROVE info'[t] = "none"
    <2>1. CASE SetExpiry(l)
      BY <2>1 DEF SetExpiry, Expiring
    <2>2. CASE WriteHash(l)
      BY <2>2 DEF WriteHash
    <2>3. CASE DeleteOld(l)
      BY <2>3 DEF DeleteOld
    <2>4. CASE Begin(l) \/ ReadOld(l) \/ CheckOld(l) \/ WriteName(l) \/ FailLogin(l)
      BY <2>4 DEF Begin, ReadOld, CheckOld, WriteName, FailLogin
    <2> QED BY <1>1, <2>1, <2>2, <2>3, <2>4 DEF LoginSteps
  <1>2. ASSUME NEW x \in Logout, LogoutSteps(x) PROVE info'[t] = "none"
    BY <1>2 DEF LogoutSteps, BeginLogout, ReadInfo, Unname, Delete, FailLogout
  <1>3. ASSUME NEW u \in Login, ExpireInfo(u) PROVE info'[t] = "none"
    BY <1>3 DEF ExpireInfo
  <1>4. ASSUME NEW e \in Erp, ExpireName(e) PROVE info'[t] = "none"
    BY <1>4 DEF ExpireName
  <1>5. CASE UNCHANGED vars
    BY <1>5 DEF vars
  <1> QED BY <1>1, <1>2, <1>3, <1>4, <1>5 DEF Next

\* The token a login has deleted stays deleted: its own login is over.
LEMMA OldKept ==
  ASSUME LoginInv, OldEnded, [Next]_vars, ~gap'
  PROVE  OldEnded'
  <1> USE DEF LoginInv
  <1> SUFFICES ASSUME NEW l \in Login, login'[l].pc \in {"hash", "expire", "name"},
                      NEW old, old = login'[l].old, old # NoToken
               PROVE  ~Live(old)'
    BY DEF OldEnded, Live
  <1>1. TypeOK' /\ NamesEnded'
    BY LoginTyped, NamesKept
  <1>2. old \in Login /\ Ended(old)'
    BY <1>1 DEF TypeOK, TokenOrNone, NamesEnded, Ended
  <1>3. ~WriteHash(old)
    BY <1>2 DEF WriteHash, Ended, Goto, TypeOK
  <1>4. CASE login[l].pc \in {"hash", "expire", "name"} /\ login[l].old = old
    <2>1. ~Live(old)
      BY <1>4 DEF OldEnded
    <2> QED BY <1>2, <1>3, <2>1, LiveStays
  <1>5. CASE DeleteOld(l)
    BY <1>2, <1>5 DEF DeleteOld, Drop, Live, TypeOK, Goto
  <1>6. CASE CheckOld(l)
    BY <1>6 DEF CheckOld, Goto, TypeOK
  <1>7. ASSUME NEW k \in Login, LoginSteps(k), ~DeleteOld(l), ~CheckOld(l)
        PROVE  login[l].pc \in {"hash", "expire", "name"} /\ login[l].old = old
    <2>1. CASE k # l
      BY <1>7, <2>1, LoginEffect
    <2>2. CASE k = l
      BY <1>7, <2>2 DEF LoginSteps, Begin, ReadOld, WriteHash, SetExpiry, WriteName,
                        FailLogin, At, Goto, TypeOK
    <2> QED BY <2>1, <2>2
  <1>8. ASSUME NEW x \in Logout, LogoutSteps(x) PROVE login' = login
    BY <1>8 DEF LogoutSteps, BeginLogout, ReadInfo, Unname, Delete, FailLogout
  <1>9. ASSUME NEW t \in Login, ExpireInfo(t) PROVE login' = login
    BY <1>9 DEF ExpireInfo
  <1>10. ASSUME NEW e \in Erp, ExpireName(e) PROVE login' = login
    BY <1>10 DEF ExpireName
  <1>11. CASE UNCHANGED vars
    BY <1>4, <1>11 DEF vars
  <1> QED BY <1>4, <1>5, <1>6, <1>7, <1>8, <1>9, <1>10, <1>11 DEF Next

\* A session keeps its name or is being logged out: the name moves on only
\* after the token was deleted.
LEMMA NamedKept ==
  ASSUME LoginInv, OldEnded, Named, [Next]_vars, ~gap'
  PROVE  Named'
  <1> USE DEF LoginInv, TypeOK, keys, AtX, GotoX
  <1> SUFFICES ASSUME NEW t \in Login, At(t, "ok")', Live(t)'
               PROVE  current'[ErpOf[t]] = t \/ Leaving(t)'
    BY DEF Named, Session
  <1> DEFINE e == ErpOf[t]
             Kept == current[e] = t \/ Leaving(t)
  <1>0. At(t, "ok") /\ Live(t) => Kept
    BY DEF Named, Session
  <1>1. e \in Erp /\ t # NoToken
    BY LoginAssumption
  <1>2. Live(t)
    BY LiveStays DEF WriteHash, At, Goto
  <1>3. ASSUME NEW l \in Login, LoginSteps(l) PROVE current'[e] = t \/ Leaving(t)'
    <2>1. logout' = logout
      BY <1>3, LoginEffect
    <2>2. CASE WriteName(l) /\ l = t
      BY <2>2, <1>1 DEF WriteName
    <2>3. CASE WriteName(l) /\ l # t
      <3>1. At(t, "ok")
        BY <2>3 DEF WriteName, At, Goto
      <3>2. Kept
        BY <1>0, <1>2, <3>1
      <3>3. CASE Leaving(t)
        BY <3>3, <2>1 DEF Leaving
      <3>4. CASE current[e] = t /\ ErpOf[l] # e
        BY <3>4, <2>3, <1>1 DEF WriteName
      <3>5. CASE current[e] = t /\ ErpOf[l] = e
        <4>1. login[l].pc = "name" /\ login[l].old = t
          BY <3>5, <2>3, <1>1 DEF WriteName, At
        <4>2. ~Live(t)
          BY <4>1, <1>1 DEF OldEnded
        <4> QED BY <4>2, <1>2
      <3> QED BY <3>2, <3>3, <3>4, <3>5
    <2>4. CASE ~WriteName(l)
      <3>1. current' = current
        BY <1>3, <2>4, LoginEffect
      <3>2. At(t, "ok")
        <4>1. l # t
          BY <1>3, <2>4, LoginEffect
        <4> QED BY <1>3, <4>1, LoginEffect DEF At
      <3> QED BY <1>0, <1>2, <2>1, <3>1, <3>2 DEF Leaving
    <2> QED BY <2>2, <2>3, <2>4
  <1>4. ASSUME NEW x \in Logout, LogoutSteps(x) PROVE current'[e] = t \/ Leaving(t)'
    <2>1. login' = login
      BY <1>4 DEF LogoutSteps, BeginLogout, ReadInfo, Unname, Delete, FailLogout
    <2>2. At(t, "ok") /\ Kept
      BY <2>1, <1>0, <1>2 DEF At
    <2>3. CASE Unname(x)
      <3>1. /\ logout'[x].pc = "delete" /\ logout'[x].token = logout[x].token
            /\ \A y \in Logout \ {x} : logout'[y] = logout[y]
            /\ logout[x].pc = "unname"
        BY <2>3 DEF Unname
      <3>2. Leaving(t) => Leaving(t)'
        BY <3>1 DEF Leaving
      <3>3. logout[x].token = t => Leaving(t)'
        BY <3>1 DEF Leaving
      <3>4. current[e] = t => current'[e] = t \/ logout[x].token = t
        BY <2>3, <1>1 DEF Unname
      <3> QED BY <2>2, <3>2, <3>3, <3>4
    <2>4. CASE Delete(x)
      <3>1. current' = current /\ logout[x].token # t
        BY <2>4 DEF Delete, Drop, Live
      <3>2. Leaving(t) => Leaving(t)'
        BY <2>4, <3>1 DEF Delete, Leaving
      <3> QED BY <2>2, <3>1, <3>2
    <2>5. CASE FailLogout(x)
      <3>1. current' = current /\ (logout[x].token = t => current[e] = t)
        BY <2>5, <1>2 DEF FailLogout
      <3>2. logout[x].token # t /\ Leaving(t) => Leaving(t)'
        BY <2>5 DEF FailLogout, Leaving
      <3> QED BY <2>2, <3>1, <3>2
    <2>6. ASSUME (\E u \in Login : BeginLogout(x, u)) \/ ReadInfo(x)
          PROVE  current' = current /\ (Leaving(t) => Leaving(t)')
      BY <2>6 DEF BeginLogout, ReadInfo, Leaving
    <2> QED BY <1>4, <2>2, <2>3, <2>4, <2>5, <2>6 DEF LogoutSteps
  <1>5. ASSUME NEW u \in Login, ExpireInfo(u) PROVE current'[e] = t \/ Leaving(t)'
    BY <1>0, <1>2, <1>5 DEF ExpireInfo, Leaving, At
  <1>6. ASSUME NEW f \in Erp, ExpireName(f) PROVE current'[e] = t \/ Leaving(t)'
    BY <1>0, <1>1, <1>2, <1>6 DEF ExpireName, Leaving, At
  <1>7. CASE UNCHANGED vars
    BY <1>0, <1>2, <1>7 DEF vars, Leaving, At
  <1> QED BY <1>3, <1>4, <1>5, <1>6, <1>7 DEF Next

LEMMA LoginStep == LoginInv /\ [Next]_vars => LoginInv'
  <1> SUFFICES ASSUME LoginInv, [Next]_vars PROVE LoginInv'
    OBVIOUS
  <1>1. TypeOK' /\ NamesEnded' /\ ExpirySet'
    BY LoginTyped, NamesKept, ExpiryKept DEF LoginInv
  <1>2. ASSUME ~gap' PROVE OldEnded' /\ Named'
    <2>1. ~gap
      BY <1>2, GapStays DEF LoginInv
    <2> QED BY <1>2, <2>1, OldKept, NamedKept DEF LoginInv
  <1> QED BY <1>1, <1>2 DEF LoginInv

----------------------------------------------------------------------------
\* The inductive invariant of service.UserService's logins and logouts.
THEOREM LoginInvariant == Spec => []LoginInv
  BY LoginInit, LoginStep, PTL DEF Spec

\* The Redis keys and the handlers keep their types.
THEOREM LoginTypeCorrect == Spec => []TypeOK
  <1>1. LoginInv => TypeOK
    BY DEF LoginInv
  <1> QED BY <1>1, LoginInvariant, PTL

\* Two sessions of a user need a gap or a logout at work, however many
\* logins and logouts overlap and whichever of them fail.
THEOREM SingleSession == Spec => []OneSession
  <1>1. LoginInv => OneSession
    BY DEF LoginInv, Named, OneSession
  <1> QED BY <1>1, LoginInvariant, PTL

\* No token that Login returned is kept without expiry.
THEOREM TokensExpire == Spec => []ReturnedTokensExpire
  <1>1. LoginInv => ReturnedTokensExpire
    BY DEF LoginInv, ExpirySet, ReturnedTokensExpire, At
  <1> QED BY <1>1, LoginInvariant, PTL
============================================================================
