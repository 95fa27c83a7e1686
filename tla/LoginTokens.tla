---------------------------- MODULE LoginTokens ----------------------------
(***************************************************************************)
(* Login and Logout of service.UserService.  A login writes two Redis      *)
(* keys, the token's user info and the user's current token, one command   *)
(* at a time; every login draws a fresh uuid, so its token is named after  *)
(* it.  Handlers of several nodes interleave between the commands.         *)
(***************************************************************************)
CONSTANTS
  Erp,       \* users
  Login,     \* login requests, and their tokens
  Logout,    \* logout requests
  ErpOf,     \* the user of a login
  NoToken    \* no token

ASSUME LoginAssumption ==
  /\ ErpOf \in [Login -> Erp]
  /\ NoToken \notin Login

VARIABLES
  info,      \* login:token:userinfo:<token>: absent, with or without expiry
  current,   \* login:erp:token:<erp>: the user's token
  login,     \* per login: its step and the token it found
  logout,    \* per logout: its step and the token it was given
  gap        \* history: a handler wrote over a token it had not read, a delete
             \* of an old token was lost, or a logout ended half done

vars == <<info, current, login, logout, gap>>
keys == <<info, current>>

TokenOrNone == Login \cup {NoToken}
InfoState   == {"none", "forever", "expiring"}
LoginPC     == {"new", "read", "check", "delete", "hash", "expire", "name", "ok", "error"}
LogoutPC    == {"new", "read", "unname", "delete", "ok", "error"}

\* Every variable ranges over the values the keys and handlers allow.
TypeOK ==
  /\ info \in [Login -> InfoState]
  /\ current \in [Erp -> TokenOrNone]
  /\ login \in [Login -> [pc : LoginPC, old : TokenOrNone]]
  /\ logout \in [Logout -> [pc : LogoutPC, token : TokenOrNone]]
  /\ gap \in BOOLEAN

Init ==
  /\ info = [t \in Login |-> "none"]
  /\ current = [e \in Erp |-> NoToken]
  /\ login = [l \in Login |-> [pc |-> "new", old |-> NoToken]]
  /\ logout = [x \in Logout |-> [pc |-> "new", token |-> NoToken]]
  /\ gap = FALSE

At(l, pc)    == login[l].pc = pc
Goto(l, pc)  == login' = [login EXCEPT ![l].pc = pc]
AtX(x, pc)   == logout[x].pc = pc
GotoX(x, pc) == logout' = [logout EXCEPT ![x].pc = pc]

Live(t)    == info[t] # "none"

\* A deleted key that stays behind as a tombstone.
DropMarked(t) == info' = [info EXCEPT ![t] = "deleted"]
Drop(t)     == info' = [info EXCEPT ![t] = "none"]
Expiring(t) == info' = [info EXCEPT ![t] = IF Live(t) THEN "expiring" ELSE "none"]

----------------------------------------------------------------------------
(* The account and the password are checked; a wrong one is refused.       *)
Begin(l) ==
  /\ At(l, "new")
  /\ \E pc \in {"read", "error"} : Goto(l, pc)
  /\ UNCHANGED <<keys, logout, gap>>

(* GetErpToken: a Redis error counts as no token.                          *)
ReadOld(l) ==
  /\ At(l, "read")
  /\ \E old \in {current[ErpOf[l]], NoToken} :
       /\ login' = [login EXCEPT ![l] = [pc |-> "check", old |-> old]]
       /\ gap' = (gap \/ old # current[ErpOf[l]])
  /\ UNCHANGED <<keys, logout>>

(* GetTokenUserInfo of the old token, whose result is logged and not used. *)
CheckOld(l) ==
  /\ At(l, "check")
  /\ Goto(l, IF login[l].old = NoToken THEN "hash" ELSE "delete")
  /\ UNCHANGED <<keys, logout, gap>>

\* The old token is left as it is.
KeepOld(l) == At(l, "delete") /\ Goto(l, "hash") /\ UNCHANGED <<keys, logout, gap>>

(* DelTokenUserInfo of the old token, its error ignored.                   *)
DeleteOld(l) ==
  /\ At(l, "delete")
  /\ \/ Drop(login[l].old) /\ UNCHANGED gap
     \/ gap' = TRUE /\ UNCHANGED info
  /\ Goto(l, "hash")
  /\ UNCHANGED <<current, logout>>

(* SetTokenUserInfo: HSET ...                                              *)
WriteHash(l) ==
  /\ At(l, "hash")
  /\ info' = [info EXCEPT ![l] = "forever"]
  /\ Goto(l, "expire")
  /\ UNCHANGED <<current, logout, gap>>

\* An expiry that may be forgotten.
SkipExpiry(l) == At(l, "expire") /\ Goto(l, "name") /\ UNCHANGED <<keys, logout, gap>>

(* ... and EXPIRE.                                                         *)
SetExpiry(l) ==
  /\ At(l, "expire")
  /\ Expiring(l)
  /\ Goto(l, "name")
  /\ UNCHANGED <<current, logout, gap>>

(* SetErpToken, and the token is returned, unless the reply was lost.      *)
WriteName(l) ==
  LET e == ErpOf[l]
  IN /\ At(l, "name")
     /\ current' = [current EXCEPT ![e] = l]
     /\ gap' = (gap \/ current[e] \notin {login[l].old, NoToken})
     /\ \E pc \in {"ok", "error"} : Goto(l, pc)
     /\ UNCHANGED <<info, logout>>

(* One of the last three commands fails, or the node dies at any of them.  *)
FailLogin(l) ==
  /\ login[l].pc \notin {"new", "ok", "error"}
  /\ Goto(l, "error")
  /\ UNCHANGED <<keys, logout, gap>>

----------------------------------------------------------------------------
(* A logout with a token some login returned.                              *)
BeginLogout(x, t) ==
  /\ AtX(x, "new")
  /\ At(t, "ok")
  /\ logout' = [logout EXCEPT ![x] = [pc |-> "read", token |-> t]]
  /\ UNCHANGED <<keys, login, gap>>

(* GetTokenUserInfo tells the user of the token, if it is still valid and  *)
(* Redis answers.                                                          *)
ReadInfo(x) ==
  /\ AtX(x, "read")
  /\ \/ Live(logout[x].token) /\ GotoX(x, "unname")
     \/ GotoX(x, "delete")
  /\ UNCHANGED <<keys, login, gap>>

(* DelErpToken, whichever token the user has by now; an error is ignored.  *)
Unname(x) ==
  LET t == logout[x].token
  IN /\ AtX(x, "unname")
     /\ \/ /\ current' = [current EXCEPT ![ErpOf[t]] = NoToken]
           /\ gap' = (gap \/ current[ErpOf[t]] \notin {t, NoToken})
        \/ UNCHANGED <<current, gap>>
     /\ GotoX(x, "delete")
     /\ UNCHANGED <<info, login>>

(* DelTokenUserInfo.                                                       *)
Delete(x) ==
  /\ AtX(x, "delete")
  /\ Drop(logout[x].token)
  /\ GotoX(x, "ok")
  /\ UNCHANGED <<current, login, gap>>

(* A logout fails, or its node dies; a valid token may have lost its name. *)
FailLogout(x) ==
  /\ logout[x].pc \notin {"new", "ok", "error"}
  /\ GotoX(x, "error")
  /\ LET t == logout[x].token
     IN gap' = (gap \/ (Live(t) /\ current[ErpOf[t]] # t))
  /\ UNCHANGED <<keys, login>>

----------------------------------------------------------------------------
(* The hours are over.  Both keys get the same expiry, the user's token    *)
(* last, so it never goes before the token it names.                       *)
ExpireInfo(t) ==
  /\ info[t] = "expiring"
  /\ Drop(t)
  /\ UNCHANGED <<current, login, logout, gap>>

ExpireName(e) ==
  /\ current[e] # NoToken
  /\ ~Live(current[e])
  /\ current' = [current EXCEPT ![e] = NoToken]
  /\ UNCHANGED <<info, login, logout, gap>>

LoginSteps(l) ==
  \/ Begin(l) \/ ReadOld(l) \/ CheckOld(l) \/ DeleteOld(l)
  \/ WriteHash(l) \/ SetExpiry(l) \/ WriteName(l) \/ FailLogin(l)
LogoutSteps(x) ==
  \/ \E t \in Login : BeginLogout(x, t)
  \/ ReadInfo(x) \/ Unname(x) \/ Delete(x) \/ FailLogout(x)

Next ==
  \/ \E l \in Login : LoginSteps(l)
  \/ \E x \in Logout : LogoutSteps(x)
  \/ \E t \in Login : ExpireInfo(t)
  \/ \E e \in Erp : ExpireName(e)

Spec == Init /\ [][Next]_vars

----------------------------------------------------------------------------
\* A returned token that is valid.
Session(t) == At(t, "ok") /\ Live(t)

\* The logout of t is about to delete it.
Leaving(t) == \E x \in Logout : AtX(x, "delete") /\ logout[x].token = t

\* A user has one session, or a second one that is just being logged out,
\* whatever fails and overlaps, unless one of the gaps happened: Login
\* deletes the token it displaces and Logout the name of the token it ends.
OneSession ==
  gap \/ \A t, u \in Login :
           Session(t) /\ Session(u) /\ ErpOf[t] = ErpOf[u] /\ t # u
             => Leaving(t) \/ Leaving(u)

\* A token a client was given expires one day, although HSET and EXPIRE are
\* two commands: Login gives out nothing when the second fails.
ReturnedTokensExpire == \A t \in Login : At(t, "ok") => info[t] # "forever"
============================================================================
