------------------------------- MODULE Accounts -------------------------------
(***************************************************************************)
(* Accounts, their sessions and their API keys: signing in and out,        *)
(* passwords, roles, suspension and deletion (internal/panel/              *)
(* auth_handlers.go, session.go, keys.go and the users part of tenancy.go) *)
(* over the tables users, sessions, api_keys and bots.                     *)
(*                                                                         *)
(* loadPrincipal reads the caller once; everything the handler then checks *)
(* is checked on that copy, while other requests change the rows.  Every   *)
(* statement is a step.                                                    *)
(*                                                                         *)
(* A password is known by a number, larger for a later one.  Left out:     *)
(* names and e-mail addresses (an account is found by its ID), time (what  *)
(* has an expiry may expire at any moment), rate limits, the audit log,    *)
(* the webhooks and the pushes.  A request that is refused before it       *)
(* changes anything is not an action.                                      *)
(*                                                                         *)
(* An operator named Bug_X is X with a bug; no definition uses it.         *)
(***************************************************************************)
EXTENDS Integers, FiniteSets, Functions

CONSTANTS
  Users,        \* room for account IDs
  Handlers,     \* HTTP requests being served at a time
  MaxPasswords, \* bound: passwords ever set, and as many accounts start with one
  MaxSessions,  \* bound: sessions ever created
  MaxKeys,      \* bound: API keys ever created
  MaxOwners,    \* bound: accounts that have or had bots, at a time
  NoUser        \* Go's uuid.Nil

ASSUME AccountConstants ==
  /\ IsFiniteSet(Users) /\ NoUser \notin Users
  /\ MaxPasswords \in Nat \ {0} /\ MaxSessions \in Nat
  /\ MaxKeys \in Nat /\ MaxOwners \in Nat

VARIABLES
  users,        \* the rows of users
  bots,         \* what the account's subscriptions have in bots: "none", "live" rows,
                \* or only rows with deleted_at set
  sessions,     \* the rows of sessions, by token
  keys,         \* the rows of api_keys with the operator scope: others change nothing here
  made,         \* how many passwords, sessions and keys there have been
  req           \* per handler: how far it is, and its Go variables

vars == <<users, bots, sessions, keys, made, req>>

Token == 1 .. MaxSessions
Key == 1 .. MaxKeys
Password == 0 .. MaxPasswords       \* 0: none set
Role == {"admin", "user"}
User == [role : Role, suspended : BOOLEAN, pw : Password]
Nobody == [role |-> "user", suspended |-> FALSE, pw |-> 0]

Exists == DOMAIN users
ActiveAdmins == {u \in Exists : users[u].role = "admin" /\ ~users[u].suspended}
Of(rows, u) == {x \in DOMAIN rows : rows[x].user = u}

\* me, row: the principal's user as loadPrincipal read it. late: the password was set
\* again since a login read it; no code reads that.
Idle == [pc |-> "idle", me |-> NoUser, row |-> Nobody, token |-> 0,
         target |-> NoUser, role |-> "user", late |-> FALSE]

Init ==
  /\ users \in [Users -> {[role |-> r, suspended |-> FALSE, pw |-> 1] : r \in Role}]
  /\ ActiveAdmins # {}
  /\ bots = [u \in Users |-> "none"]
  /\ sessions = [t \in {} |-> NoUser] /\ keys = [k \in {} |-> NoUser]
  /\ made = [passwords |-> 1, sessions |-> 0, keys |-> 0]
  /\ req = [p \in Handlers |-> Idle]

Become(p, q) == req' = [req EXCEPT ![p] = q]
End(p) == Become(p, Idle)
Drop(f, S) == Restrict(f, DOMAIN f \ S)
Add(f, x, v) == [y \in DOMAIN f \cup {x} |-> IF y = x THEN v ELSE f[y]]

-----------------------------------------------------------------------------
(* Statements on the tables.                                               *)

GetSessionUser(t) == users[sessions[t].user]
GetAPIKeyUser(k) == users[keys[k].user]
GetUserByEmail(u) == users[u]
UpdateUserProfile(u) == users[u]       \* RETURNING; names and addresses are left out

\* The foreign keys refuse a session or a key of an account that is gone.
CreateSessionRow(u, pw, exempt) ==
  IF u \in Exists
  THEN /\ made' = [made EXCEPT !.sessions = @ + 1]
       /\ sessions' = Add(sessions, made.sessions + 1, [user |-> u, pw |-> pw, exempt |-> exempt])
  ELSE UNCHANGED <<made, sessions>>
CreateAPIKeyRow(u) ==
  IF u \in Exists
  THEN made' = [made EXCEPT !.keys = @ + 1] /\ keys' = Add(keys, made.keys + 1, [user |-> u])
  ELSE UNCHANGED <<made, keys>>
DeleteSession(t) == sessions' = Drop(sessions, {t})

CreateUserFull(u, r, pw) ==
  /\ users' = Add(users, u, [role |-> r, suspended |-> FALSE, pw |-> pw])
  /\ bots' = Add(bots, u, "none")
SetUserPassword(u) ==
  /\ made' = [made EXCEPT !.passwords = @ + 1]
  /\ users' = IF u \in Exists THEN [users EXCEPT ![u].pw = made.passwords + 1] ELSE users
SetUserRole(u, r) == users' = IF u \in Exists THEN [users EXCEPT ![u].role = r] ELSE users
SetUserSuspended(u, b) == users' = [users EXCEPT ![u].suspended = b]

-----------------------------------------------------------------------------
(* login.                                                                  *)

\* GetUserByEmail, VerifyPassword and the check for suspension.
Login(p) ==
  /\ req[p].pc = "idle"
  /\ \E u \in Exists :
       /\ GetUserByEmail(u).pw # 0 /\ ~GetUserByEmail(u).suspended
       /\ Become(p, [Idle EXCEPT !.pc = "login", !.me = u, !.row = [Nobody EXCEPT !.pw = GetUserByEmail(u).pw]])
  /\ UNCHANGED <<users, bots, sessions, keys, made>>

CreateSession(p) ==
  /\ req[p].pc = "login" /\ made.sessions < MaxSessions
  /\ CreateSessionRow(req[p].me, req[p].row.pw, req[p].late)
  /\ End(p)
  /\ UNCHANGED <<users, bots, keys>>

-----------------------------------------------------------------------------
(* loadPrincipal.                                                          *)

\* GetSessionUser; a session that was not seen for an hour is extended.
LoadSession(p) ==
  /\ req[p].pc = "idle"
  /\ \E t \in DOMAIN sessions, touch \in BOOLEAN :
       Become(p, [Idle EXCEPT !.me = sessions[t].user, !.row = GetSessionUser(t), !.token = t,
                    !.pc = IF GetSessionUser(t).suspended THEN "drop"
                           ELSE IF touch THEN "touch" ELSE "serve"])
  /\ UNCHANGED <<users, bots, sessions, keys, made>>

\* A suspended account's session is deleted, and the request goes on without one.
DropSession(p) ==
  /\ req[p].pc = "drop"
  /\ DeleteSession(req[p].token)
  /\ End(p)
  /\ UNCHANGED <<users, bots, keys, made>>

Bug_Touched(p) ==     \* inserted again if it is gone
  IF req[p].me \in Exists
  THEN Add(sessions, req[p].token, [user |-> req[p].me, pw |-> req[p].row.pw, exempt |-> FALSE])
  ELSE sessions
Touched(p) == sessions      \* an UPDATE of expires_at, which is not modelled

TouchSession(p) ==
  /\ req[p].pc = "touch"
  /\ sessions' = Touched(p)
  /\ Become(p, [req[p] EXCEPT !.pc = "serve"])
  /\ UNCHANGED <<users, bots, keys, made>>

\* principalFromKey.
LoadKey(p) ==
  /\ req[p].pc = "idle"
  /\ \E k \in DOMAIN keys :
       /\ ~GetAPIKeyUser(k).suspended
       /\ Become(p, [Idle EXCEPT !.pc = "serve", !.me = keys[k].user, !.row = GetAPIKeyUser(k)])
  /\ UNCHANGED <<users, bots, sessions, keys, made>>

\* guard: what the principal may do, by what was read of it.
BySession(q) == q.pc = "serve" /\ q.token # 0
ByAdmin(q) == q.pc = "serve" /\ q.row.role = "admin"

-----------------------------------------------------------------------------
(* One's own account.                                                      *)

Logout(p) ==
  /\ BySession(req[p])
  /\ DeleteSession(req[p].token)
  /\ End(p)
  /\ UNCHANGED <<users, bots, keys, made>>

\* Logins that have read the old one are late from here on.
SetPassword(p, u, keep) ==
  /\ made.passwords < MaxPasswords /\ SetUserPassword(u)
  /\ req' = [r \in Handlers |->
       IF r = p THEN [req[p] EXCEPT !.pc = "signout", !.target = u, !.token = keep]
       ELSE IF req[r].pc = "login" /\ req[r].me = u THEN [req[r] EXCEPT !.late = TRUE] ELSE req[r]]

\* changePassword: the current one is verified against the principal's copy.
ChangePassword(p) ==
  /\ BySession(req[p]) /\ req[p].row.pw # 0
  /\ SetPassword(p, req[p].me, req[p].token)
  /\ UNCHANGED <<bots, sessions, keys>>

\* DeleteUserSessions: all but the session a change was made from.
Bug_SignedOut(q) == Of(sessions, q.me) \ {q.token}      \* the caller's, not the account's
SignedOut(q) == Of(sessions, q.target) \ {q.token}

DeleteUserSessions(p) ==
  /\ req[p].pc = "signout"
  /\ sessions' = [t \in DOMAIN sessions \ SignedOut(req[p]) |->
       IF t = req[p].token THEN [sessions[t] EXCEPT !.exempt = TRUE] ELSE sessions[t]]
  /\ End(p)
  /\ UNCHANGED <<users, bots, keys, made>>

\* createKey: the operator scope only for an admin.
CreateKey(p) ==
  /\ BySession(req[p]) /\ ByAdmin(req[p]) /\ made.keys < MaxKeys
  /\ CreateAPIKeyRow(req[p].me)
  /\ End(p)
  /\ UNCHANGED <<users, bots, sessions>>

DeleteKey(p) ==
  /\ BySession(req[p])
  /\ \E k \in Of(keys, req[p].me) : keys' = Drop(keys, {k})
  /\ End(p)
  /\ UNCHANGED <<users, bots, sessions, made>>

-----------------------------------------------------------------------------
(* Other accounts.                                                         *)

CreateUser(p) ==
  /\ ByAdmin(req[p])
  /\ \E u \in Users \ Exists, r \in Role, pw \in {0, 1} :
       /\ \A h \in Handlers : u \notin {req[h].me, req[h].target}    \* IDs are new
       /\ CreateUserFull(u, r, pw)
  /\ End(p)
  /\ UNCHANGED <<sessions, keys, made>>

\* Nobody takes their own admin role, suspends or deletes themselves.
Bug_NotMyself(q, u) == TRUE
NotMyself(q, u) == u # q.me

\* updateUser: UpdateUserProfile returns the row; the role is written only if it is
\* another one.
UpdateUser(p) ==
  /\ ByAdmin(req[p])
  /\ \E u \in Exists, r \in Role :
       /\ r = "admin" \/ NotMyself(req[p], u)
       /\ Become(p, IF UpdateUserProfile(u).role = r THEN Idle
                    ELSE [req[p] EXCEPT !.pc = "role", !.target = u, !.role = r])
  /\ UNCHANGED <<users, bots, sessions, keys, made>>

UpdateUserRole(p) ==
  /\ req[p].pc = "role"
  /\ SetUserRole(req[p].target, req[p].role)
  /\ End(p)
  /\ UNCHANGED <<bots, sessions, keys, made>>

SuspendUser(p) ==
  /\ ByAdmin(req[p])
  /\ \E u \in Exists, suspended \in BOOLEAN :
       /\ NotMyself(req[p], u)
       /\ SetUserSuspended(u, suspended)
  /\ End(p)
  /\ UNCHANGED <<bots, sessions, keys, made>>

\* GetUserByID only looks whether the account is there.
ResetUserPassword(p) ==
  /\ ByAdmin(req[p])
  /\ \E u \in Exists : SetPassword(p, u, 0)
  /\ UNCHANGED <<bots, sessions, keys>>

\* deleteUser: ListUserBotIDs knows the bots that are not deleted.
DeleteUser(p) ==
  /\ ByAdmin(req[p])
  /\ \E u \in Exists :
       /\ NotMyself(req[p], u) /\ bots[u] # "live"
       /\ Become(p, [req[p] EXCEPT !.pc = "delete", !.target = u])
  /\ UNCHANGED <<users, bots, sessions, keys, made>>

Cascade(rows, u) == Drop(rows, Of(rows, u))

\* DELETE FROM users takes the sessions, keys and subscriptions along; a row of bots,
\* deleted_at set or not, references its subscription and makes the statement fail.
DeleteUserRow(p) ==
  /\ req[p].pc = "delete"
  /\ LET u == req[p].target IN
       IF u \in Exists /\ bots[u] = "none"
       THEN /\ users' = Drop(users, {u}) /\ bots' = Drop(bots, {u})
            /\ sessions' = Cascade(sessions, u) /\ keys' = Cascade(keys, u)
       ELSE UNCHANGED <<users, bots, sessions, keys>>
  /\ End(p)
  /\ UNCHANGED <<made>>

-----------------------------------------------------------------------------
(* The rest of the world.                                                  *)

\* createBot and deleteBot, for all bots of an account together.
ChangeBots ==
  /\ \E u \in Exists, b \in {"live", "deleted"} :
       /\ b = "live" \/ bots[u] = "live"
       /\ Cardinality({v \in Exists : bots[v] # "none"} \cup {u}) <= MaxOwners
       /\ bots' = [bots EXCEPT ![u] = b]
  /\ UNCHANGED <<users, sessions, keys, made, req>>

\* expires_at passes: GetSessionUser no longer finds the row, and
\* DeleteExpiredSessions deletes it in the end.
SessionExpires ==
  /\ \E t \in DOMAIN sessions : sessions' = Drop(sessions, {t})
  /\ UNCHANGED <<users, bots, keys, made, req>>

KeyExpires ==
  /\ \E k \in DOMAIN keys : keys' = Drop(keys, {k})
  /\ UNCHANGED <<users, bots, sessions, made, req>>

\* A statement fails, the client goes away and its context is cancelled, or the
\* request does nothing that is modelled here. After a new password was set, the old
\* sessions stay.
Fail(p) ==
  /\ req[p].pc # "idle"
  /\ sessions' = IF req[p].pc # "signout" THEN sessions
                 ELSE [t \in DOMAIN sessions |->
                   IF sessions[t].user = req[p].target THEN [sessions[t] EXCEPT !.exempt = TRUE] ELSE sessions[t]]
  /\ End(p)
  /\ UNCHANGED <<users, bots, keys, made>>

Next ==
  \/ \E p \in Handlers :
       \/ Login(p) \/ CreateSession(p)
       \/ LoadSession(p) \/ DropSession(p) \/ TouchSession(p) \/ LoadKey(p)
       \/ Logout(p) \/ ChangePassword(p) \/ DeleteUserSessions(p) \/ CreateKey(p) \/ DeleteKey(p)
       \/ CreateUser(p) \/ UpdateUser(p) \/ UpdateUserRole(p) \/ SuspendUser(p)
       \/ ResetUserPassword(p) \/ DeleteUser(p) \/ DeleteUserRow(p)
       \/ Fail(p)
  \/ ChangeBots \/ SessionExpires \/ KeyExpires

Spec == Init /\ [][Next]_vars

-----------------------------------------------------------------------------
(* Properties.                                                             *)

Session == [user : Users, pw : Password, exempt : BOOLEAN]
APIKey == [user : Users]
Request == [pc : {"idle", "login", "drop", "touch", "serve", "signout", "role", "delete"},
            me : Users \cup {NoUser}, row : User, token : {0} \cup Token,
            target : Users \cup {NoUser}, role : Role, late : BOOLEAN]

\* Every variable stays in its range, and every session and key is of an account
\* that is there.
TypeOK ==
  /\ Exists \subseteq Users /\ users \in [Exists -> User]
  /\ bots \in [Exists -> {"none", "live", "deleted"}]
  /\ DOMAIN sessions \subseteq 1 .. made.sessions /\ sessions \in [DOMAIN sessions -> Session]
  /\ DOMAIN keys \subseteq 1 .. made.keys /\ keys \in [DOMAIN keys -> APIKey]
  /\ \A t \in DOMAIN sessions : sessions[t].user \in Exists
  /\ \A k \in DOMAIN keys : keys[k].user \in Exists
  /\ made \in [passwords : Password, sessions : {0} \cup Token, keys : {0} \cup Key]
  /\ req \in [Handlers -> Request]

\* The last active admin is only taken away by somebody who was one when the
\* request was loaded and is none any more: two admins who demote, suspend or delete
\* each other at the same time. Nobody else ends with a panel nobody can administer.
LastAdminStays ==
  [][ActiveAdmins # {} /\ ActiveAdmins' = {} =>
       \E p \in Handlers : req[p].me \notin ActiveAdmins /\ req[p].row.role = "admin" /\ req'[p] = Idle]_vars

\* A new password signs out (auth_handlers.go:156, tenancy.go:406): when no request
\* is between setting one and deleting the sessions, every session of an account was
\* made with its present password, or it is the one the change was made from, or of a
\* login that had verified the old password when the new one was set, or the
\* statement that deletes them failed.
SignedOutStaysOut ==
  \A t \in DOMAIN sessions :
    LET s == sessions[t] IN
    (\A p \in Handlers : ~(req[p].pc = "signout" /\ req[p].target = s.user)) =>
      s.exempt \/ s.pw = users[s.user].pw

\* A session that has ended never comes back, though requests that had loaded it go
\* on and extend it: tokens only appear by a login.
SessionsDoNotReturn ==
  [][\A t \in DOMAIN sessions' \ DOMAIN sessions : t = made.sessions + 1]_vars

\* What a comment says of the code, and it does not do.

\* tenancy.go:352 "deleteUser removes an account that has no bots left.": unless the
\* account got a bot meanwhile, the DELETE of deleteUser deletes it.
BotlessUserIsDeleted ==
  [][\A p \in Handlers :
       DeleteUserRow(p) =>
         LET u == req[p].target IN u \notin Exists' \/ bots[u] = "live"]_vars
===============================================================================
