---------------------------- MODULE AccountsSafety ----------------------------
(***************************************************************************)
(* Accounts for every number of accounts, requests, passwords and          *)
(* sessions: the types, that a new password signs out, that the last admin *)
(* is not taken away by an active one, and that sessions do not return.    *)
(*                                                                         *)
(* The invariant says of each request what its Go variables are worth when *)
(* it writes: a login that has verified a password knows the present one,  *)
(* or it is late, or the account is gone; who is about to demote or delete *)
(* an account was an admin when it was read, and it is not his own.        *)
(***************************************************************************)
EXTENDS Accounts, TLAPS

RequestOK(q) ==
  /\ q \in Request
  /\ q.pc # "idle" => q.me \in Users
  /\ q.pc \in {"signout", "role", "delete"} => q.target \in Users
  /\ q.pc \in {"role", "delete"} => q.row.role = "admin"
  /\ q.pc = "delete" \/ (q.pc = "role" /\ q.role = "user") => q.target # q.me

\* What a login has verified, us being the rows of users.
Current(q, us) == q.pc = "login" => q.late \/ q.me \notin DOMAIN us \/ q.row.pw = us[q.me].pw

UsersOK ==
  /\ Exists \subseteq Users /\ users \in [Exists -> User]
  /\ bots \in [Exists -> {"none", "live", "deleted"}]
SessionsOK ==
  /\ DOMAIN sessions \subseteq 1 .. made.sessions /\ sessions \in [DOMAIN sessions -> Session]
  /\ \A t \in DOMAIN sessions : sessions[t].user \in Exists
KeysOK ==
  /\ DOMAIN keys \subseteq 1 .. made.keys /\ keys \in [DOMAIN keys -> APIKey]
  /\ \A k \in DOMAIN keys : keys[k].user \in Exists
MadeOK == made \in [passwords : Password, sessions : {0} \cup Token, keys : {0} \cup Key]
RequestsOK == req \in [Handlers -> Request] /\ \A p \in Handlers : RequestOK(req[p])
LoginsOK == \A p \in Handlers : Current(req[p], users)

Sound == UsersOK /\ SessionsOK /\ KeysOK /\ MadeOK /\ RequestsOK /\ LoginsOK /\ SignedOutStaysOut

LEMMA SoundTypes == Sound => TypeOK
  BY DEF Sound, UsersOK, SessionsOK, KeysOK, MadeOK, RequestsOK, TypeOK

-----------------------------------------------------------------------------
(* What statements and handlers leave as it was.                           *)

LEMMA DropIs ==
  ASSUME NEW f, NEW S
  PROVE  /\ Drop(f, S) = [x \in DOMAIN f \ S |-> f[x]]
         /\ DOMAIN Drop(f, S) = DOMAIN f \ S
         /\ \A x \in DOMAIN f \ S : Drop(f, S)[x] = f[x]
  BY DEF Drop, Restrict

\* Some rows of a table are deleted, or none.
LEMMA Fewer ==
  ASSUME NEW f, NEW g, NEW S, NEW T, f \in [DOMAIN f -> T], g = Drop(f, S) \/ g = f
  PROVE  /\ DOMAIN g \subseteq DOMAIN f /\ g \in [DOMAIN g -> T]
         /\ \A x \in DOMAIN g : g[x] = f[x]
  <1>1. CASE g = f
    BY <1>1
  <1>2. CASE g = Drop(f, S)
    <2>1. g = [x \in DOMAIN f \ S |-> f[x]]
      BY <1>2 DEF Drop, Restrict
    <2> QED  BY <2>1
  <1> QED  BY <1>1, <1>2

LEMMA AddIs ==
  ASSUME NEW f, NEW x, NEW v
  PROVE  /\ Add(f, x, v) = [y \in DOMAIN f \cup {x} |-> IF y = x THEN v ELSE f[y]]
         /\ DOMAIN Add(f, x, v) = DOMAIN f \cup {x}
         /\ Add(f, x, v)[x] = v
         /\ \A y \in DOMAIN f \ {x} : Add(f, x, v)[y] = f[y]
  BY DEF Add

LEMMA IdleOK == RequestOK(Idle) /\ Idle.pc = "idle" /\ Idle \in Request
  BY AccountConstants DEF Idle, RequestOK, Request, User, Nobody, Role, Password, Token

\* One request moves.
LEMMA OneMoves ==
  ASSUME RequestsOK, NEW p \in Handlers, NEW q, Become(p, q), RequestOK(q)
  PROVE  /\ RequestsOK' /\ req'[p] = q
         /\ \A r \in Handlers \ {p} : req'[r] = req[r]
  <1>1. q \in Request
    BY DEF RequestOK
  <1>2. req'[p] = q /\ \A r \in Handlers \ {p} : req'[r] = req[r]
    BY DEF Become, RequestsOK
  <1>3. req' \in [Handlers -> Request]
    BY <1>1 DEF Become, RequestsOK
  <1>4. \A r \in Handlers : RequestOK(req'[r])
    BY <1>2 DEF RequestsOK
  <1> QED  BY <1>2, <1>3, <1>4 DEF RequestsOK

\* An account keeps its password, or nobody knows it yet.
SamePassword ==
  \A u \in Exists' : \/ u \in Exists /\ users'[u].pw = users[u].pw
                     \/ u \notin Exists /\ \A h \in Handlers : req[h].me # u

LEMMA LoginsKept ==
  ASSUME LoginsOK, SamePassword, NEW p \in Handlers, NEW q, RequestsOK, Become(p, q), RequestOK(q),
         Current(q, users')
  PROVE  LoginsOK'
  <1> SUFFICES ASSUME NEW r \in Handlers PROVE Current(req'[r], users')
    BY DEF LoginsOK
  <1>1. CASE r = p
    BY <1>1, OneMoves
  <1>2. CASE r # p
    <2>1. req'[r] = req[r] /\ Current(req[r], users)
      BY <1>2, OneMoves DEF LoginsOK
    <2> QED  BY <2>1 DEF Current, SamePassword, Exists
  <1> QED  BY <1>1, <1>2

\* A request that is not signing out moves on, and every session was there before.
LEMMA SignedOutKept ==
  ASSUME SignedOutStaysOut, SessionsOK, SamePassword, NEW p \in Handlers, NEW q, RequestsOK,
         Become(p, q), RequestOK(q), req[p].pc # "signout",
         \A t \in DOMAIN sessions' : t \in DOMAIN sessions /\ sessions'[t] = sessions[t],
         \A t \in DOMAIN sessions' : sessions'[t].user \in Exists'
  PROVE  SignedOutStaysOut'
  <1> SUFFICES ASSUME NEW t \in DOMAIN sessions',
                      \A r \in Handlers : ~(req'[r].pc = "signout" /\ req'[r].target = sessions'[t].user)
               PROVE  sessions'[t].exempt \/ sessions'[t].pw = users'[sessions'[t].user].pw
    BY DEF SignedOutStaysOut
  <1>1. t \in DOMAIN sessions /\ sessions'[t] = sessions[t]
    OBVIOUS
  <1>2. \A r \in Handlers : ~(req[r].pc = "signout" /\ req[r].target = sessions[t].user)
    BY <1>1, OneMoves
  <1>3. sessions[t].exempt \/ sessions[t].pw = users[sessions[t].user].pw
    BY <1>1, <1>2 DEF SignedOutStaysOut
  <1>4. users'[sessions[t].user].pw = users[sessions[t].user].pw
    BY <1>1 DEF SamePassword, SessionsOK
  <1> QED  BY <1>1, <1>3, <1>4

\* Nothing but a request's own variables changes.
LEMMA OnlyMoves ==
  ASSUME Sound, NEW p \in Handlers, NEW q, Become(p, q), RequestOK(q), Current(q, users),
         req[p].pc # "signout", UNCHANGED <<users, bots, sessions, keys, made>>
  PROVE  Sound'
  <1>1. UsersOK' /\ SessionsOK' /\ KeysOK' /\ MadeOK'
    BY DEF Sound, UsersOK, SessionsOK, KeysOK, MadeOK, Exists
  <1>2. SamePassword
    BY DEF SamePassword, Exists
  <1>3. RequestsOK'
    BY OneMoves DEF Sound
  <1>4. LoginsOK'
    BY <1>2, LoginsKept DEF Sound
  <1>5. SignedOutStaysOut'
    BY <1>2, SignedOutKept DEF Sound, SessionsOK, Exists
  <1> QED  BY <1>1, <1>3, <1>4, <1>5 DEF Sound

\* A request ends, and no session is new.
LEMMA Ends ==
  ASSUME Sound, NEW p \in Handlers, End(p), req[p].pc # "signout", SamePassword,
         UsersOK', SessionsOK', KeysOK', MadeOK',
         \A t \in DOMAIN sessions' : t \in DOMAIN sessions /\ sessions'[t] = sessions[t]
  PROVE  Sound'
  <1>1. Become(p, Idle)
    BY DEF End
  <1>2. RequestsOK'
    BY <1>1, IdleOK, OneMoves DEF Sound
  <1>3. LoginsOK'
    BY <1>1, IdleOK, LoginsKept DEF Sound, Current
  <1>4. SignedOutStaysOut'
    BY <1>1, IdleOK, SignedOutKept DEF Sound, SessionsOK
  <1> QED  BY <1>2, <1>3, <1>4 DEF Sound

\* It has deleted sessions or keys perhaps.
LEMMA EndsWithFewer ==
  ASSUME Sound, NEW p \in Handlers, End(p), req[p].pc # "signout", UNCHANGED <<users, bots, made>>,
         NEW S, NEW K, sessions' = Drop(sessions, S) \/ sessions' = sessions,
         keys' = Drop(keys, K) \/ keys' = keys
  PROVE  Sound'
  <1>1. UsersOK' /\ MadeOK'
    BY DEF Sound, UsersOK, MadeOK, Exists
  <1>2. SamePassword
    BY DEF SamePassword, Exists
  <1>3. /\ DOMAIN sessions' \subseteq DOMAIN sessions /\ sessions' \in [DOMAIN sessions' -> Session]
        /\ \A t \in DOMAIN sessions' : sessions'[t] = sessions[t]
    BY ZenonT(60), Fewer DEF Sound, SessionsOK
  <1>4. SessionsOK'
    BY <1>3 DEF Sound, SessionsOK, Exists
  <1>5. KeysOK'
    <2>1. /\ DOMAIN keys' \subseteq DOMAIN keys /\ keys' \in [DOMAIN keys' -> APIKey]
          /\ \A k \in DOMAIN keys' : keys'[k] = keys[k]
      BY ZenonT(60), Fewer DEF Sound, KeysOK
    <2> QED  BY <2>1 DEF Sound, KeysOK, Exists
  <1> QED  BY <1>1, <1>2, <1>3, <1>4, <1>5, Ends

\* Every request stays as it is, every session was there before, and no password is another.
LEMMA NobodyMoves ==
  ASSUME Sound, UNCHANGED <<users, req>>, UsersOK', SessionsOK', KeysOK', MadeOK',
         \A t \in DOMAIN sessions' : t \in DOMAIN sessions /\ sessions'[t] = sessions[t]
  PROVE  Sound'
  <1>1. RequestsOK' /\ LoginsOK'
    BY DEF Sound, RequestsOK, LoginsOK
  <1>2. SignedOutStaysOut'
    BY DEF Sound, SignedOutStaysOut
  <1> QED  BY <1>1, <1>2 DEF Sound

-----------------------------------------------------------------------------
(* Each action keeps Sound.                                                *)

LEMMA LoginSound == ASSUME Sound, NEW p \in Handlers, Login(p) PROVE Sound'
  <1>1. PICK u \in Exists :
          Become(p, [Idle EXCEPT !.pc = "login", !.me = u, !.row = [Nobody EXCEPT !.pw = users[u].pw]])
    BY DEF Login, GetUserByEmail
  <1> DEFINE q == [Idle EXCEPT !.pc = "login", !.me = u, !.row = [Nobody EXCEPT !.pw = users[u].pw]]
  <1>2. u \in Users /\ users[u] \in User
    BY DEF Sound, UsersOK
  <1>3. [Nobody EXCEPT !.pw = users[u].pw] \in User /\ [Nobody EXCEPT !.pw = users[u].pw].pw = users[u].pw
    BY <1>2 DEF Nobody, User, Role
  <1>4. RequestOK(q) /\ Current(q, users)
    BY <1>2, <1>3 DEF Idle, RequestOK, Request, Role, Token, Current
  <1> QED  BY <1>1, <1>4, OnlyMoves DEF Login

LEMMA LoadSessionSound == ASSUME Sound, NEW p \in Handlers, LoadSession(p) PROVE Sound'
  <1>1. PICK t \in DOMAIN sessions, touch \in BOOLEAN :
          Become(p, [Idle EXCEPT !.me = sessions[t].user, !.row = GetSessionUser(t), !.token = t,
                       !.pc = IF GetSessionUser(t).suspended THEN "drop"
                              ELSE IF touch THEN "touch" ELSE "serve"])
    BY DEF LoadSession
  <1> DEFINE q == [Idle EXCEPT !.me = sessions[t].user, !.row = GetSessionUser(t), !.token = t,
                     !.pc = IF GetSessionUser(t).suspended THEN "drop"
                            ELSE IF touch THEN "touch" ELSE "serve"]
  <1>2. sessions[t].user \in Exists /\ t \in 1 .. made.sessions /\ made.sessions \in {0} \cup Token
    BY DEF Sound, SessionsOK, MadeOK
  <1>3. t \in Token
    BY <1>2, AccountConstants DEF Token
  <1>4. sessions[t].user \in Users /\ GetSessionUser(t) \in User
    BY <1>2 DEF Sound, UsersOK, GetSessionUser
  <1>5. RequestOK(q) /\ Current(q, users)
    BY <1>3, <1>4 DEF Idle, RequestOK, Request, Role, Current
  <1> QED  BY <1>1, <1>5, OnlyMoves DEF LoadSession

LEMMA LoadKeySound == ASSUME Sound, NEW p \in Handlers, LoadKey(p) PROVE Sound'
  <1>1. PICK k \in DOMAIN keys :
          Become(p, [Idle EXCEPT !.pc = "serve", !.me = keys[k].user, !.row = GetAPIKeyUser(k)])
    BY DEF LoadKey
  <1> DEFINE q == [Idle EXCEPT !.pc = "serve", !.me = keys[k].user, !.row = GetAPIKeyUser(k)]
  <1>2. keys[k].user \in Users /\ GetAPIKeyUser(k) \in User
    BY DEF Sound, UsersOK, KeysOK, GetAPIKeyUser
  <1>3. RequestOK(q) /\ Current(q, users)
    BY <1>2 DEF Idle, RequestOK, Request, Role, Token, Current
  <1> QED  BY <1>1, <1>3, OnlyMoves DEF LoadKey

LEMMA TouchSessionSound == ASSUME Sound, NEW p \in Handlers, TouchSession(p) PROVE Sound'
  <1> DEFINE q == [req[p] EXCEPT !.pc = "serve"]
  <1>1. RequestOK(req[p]) /\ req[p].pc = "touch"
    BY DEF Sound, RequestsOK, TouchSession
  <1>2. RequestOK(q) /\ Current(q, users)
    BY <1>1 DEF RequestOK, Request, Current
  <1> QED  BY <1>1, <1>2, OnlyMoves DEF TouchSession, Touched

LEMMA DropSessionSound == ASSUME Sound, NEW p \in Handlers, DropSession(p) PROVE Sound'
  BY EndsWithFewer DEF DropSession, DeleteSession

LEMMA LogoutSound == ASSUME Sound, NEW p \in Handlers, Logout(p) PROVE Sound'
  BY EndsWithFewer DEF Logout, DeleteSession, BySession

LEMMA DeleteKeySound == ASSUME Sound, NEW p \in Handlers, DeleteKey(p) PROVE Sound'
  BY EndsWithFewer DEF DeleteKey, BySession

LEMMA UpdateUserSound == ASSUME Sound, NEW p \in Handlers, UpdateUser(p) PROVE Sound'
  <1>1. PICK u \in Exists, r \in Role :
          /\ r = "admin" \/ NotMyself(req[p], u)
          /\ Become(p, IF UpdateUserProfile(u).role = r THEN Idle
                       ELSE [req[p] EXCEPT !.pc = "role", !.target = u, !.role = r])
    BY DEF UpdateUser
  <1>2. RequestOK(req[p]) /\ ByAdmin(req[p]) /\ u \in Users
    BY DEF Sound, RequestsOK, UsersOK, UpdateUser
  <1> DEFINE q == [req[p] EXCEPT !.pc = "role", !.target = u, !.role = r]
  <1>3. RequestOK(q) /\ Current(q, users)
    BY <1>1, <1>2 DEF RequestOK, Request, Role, Current, ByAdmin, NotMyself
  <1>4. RequestOK(Idle) /\ Current(Idle, users)
    BY IdleOK DEF Current
  <1>5. CASE Become(p, Idle)
    BY <1>2, <1>4, <1>5, OnlyMoves DEF UpdateUser, ByAdmin
  <1>6. CASE Become(p, q)
    BY <1>2, <1>3, <1>6, OnlyMoves DEF UpdateUser, ByAdmin
  <1> QED  BY <1>1, <1>5, <1>6

LEMMA DeleteUserSound == ASSUME Sound, NEW p \in Handlers, DeleteUser(p) PROVE Sound'
  <1>1. PICK u \in Exists : NotMyself(req[p], u) /\ Become(p, [req[p] EXCEPT !.pc = "delete", !.target = u])
    BY DEF DeleteUser
  <1>2. RequestOK(req[p]) /\ ByAdmin(req[p]) /\ u \in Users
    BY DEF Sound, RequestsOK, UsersOK, DeleteUser
  <1> DEFINE q == [req[p] EXCEPT !.pc = "delete", !.target = u]
  <1>3. RequestOK(q) /\ Current(q, users)
    BY <1>1, <1>2 DEF RequestOK, Request, Current, ByAdmin, NotMyself
  <1> QED  BY <1>1, <1>2, <1>3, OnlyMoves DEF DeleteUser, ByAdmin

LEMMA CreateKeySound == ASSUME Sound, NEW p \in Handlers, CreateKey(p) PROVE Sound'
  <1> DEFINE k == made.keys + 1
  <1>1. made.keys < MaxKeys /\ made \in [passwords : Password, sessions : {0} \cup Token, keys : {0} \cup Key]
    BY DEF CreateKey, Sound, MadeOK
  <1>2. k \in Key /\ made.keys \in Nat
    BY <1>1, AccountConstants DEF Key
  <1>3. CASE UNCHANGED <<made, keys>>
    BY <1>3, EndsWithFewer DEF CreateKey, BySession
  <1>4. CASE req[p].me \in Exists /\ made' = [made EXCEPT !.keys = @ + 1] /\ keys' = Add(keys, k, [user |-> req[p].me])
    <2>1. req[p].me \in Users
      BY <1>4 DEF Sound, UsersOK
    <2>2. MadeOK' /\ made'.keys = k /\ made'.sessions = made.sessions
      BY <1>1, <1>2, <1>4 DEF MadeOK
    <2>3. keys' = [y \in DOMAIN keys \cup {k} |-> IF y = k THEN [user |-> req[p].me] ELSE keys[y]]
      BY <1>4 DEF Add
    <2>4. DOMAIN keys' \subseteq 1 .. k
      BY <1>2, <2>3 DEF Sound, KeysOK
    <2>5. keys' \in [DOMAIN keys' -> APIKey] /\ \A y \in DOMAIN keys' : keys'[y].user \in Exists
      BY <1>4, <2>1, <2>3 DEF Sound, KeysOK, APIKey
    <2>6. KeysOK' /\ UsersOK' /\ SessionsOK'
      BY <2>2, <2>4, <2>5 DEF CreateKey, Sound, KeysOK, UsersOK, SessionsOK, Exists
    <2>7. SamePassword
      BY DEF CreateKey, SamePassword, Exists
    <2> QED  BY <2>2, <2>6, <2>7, Ends DEF CreateKey, BySession
  <1> QED  BY <1>3, <1>4 DEF CreateKey, CreateAPIKeyRow

\* A new session is of the password the login has verified, which is the present one
\* unless the login is late; and then the session is exempt.
LEMMA CreateSessionSound == ASSUME Sound, NEW p \in Handlers, CreateSession(p) PROVE Sound'
  <1> DEFINE t == made.sessions + 1
             s == [user |-> req[p].me, pw |-> req[p].row.pw, exempt |-> req[p].late]
  <1>1. made.sessions < MaxSessions /\ made \in [passwords : Password, sessions : {0} \cup Token, keys : {0} \cup Key]
    BY DEF CreateSession, Sound, MadeOK
  <1>2. t \in Token /\ made.sessions \in Nat
    BY <1>1, AccountConstants DEF Token
  <1>3. req[p].pc = "login" /\ RequestOK(req[p]) /\ Current(req[p], users)
    BY DEF CreateSession, Sound, RequestsOK, LoginsOK
  <1>4. CASE UNCHANGED <<made, sessions>>
    BY <1>3, <1>4, EndsWithFewer DEF CreateSession
  <1>5. CASE req[p].me \in Exists /\ made' = [made EXCEPT !.sessions = @ + 1] /\ sessions' = Add(sessions, t, s)
    <2>1. s \in Session /\ s.user = req[p].me
      BY <1>3 DEF RequestOK, Request, User, Session
    <2>2. MadeOK' /\ made'.sessions = t /\ made'.keys = made.keys
      BY <1>1, <1>2, <1>5 DEF MadeOK
    <2>3. sessions' = [y \in DOMAIN sessions \cup {t} |-> IF y = t THEN s ELSE sessions[y]]
      BY <1>5 DEF Add
    <2>4. DOMAIN sessions' \subseteq 1 .. t
      BY <1>2, <2>3 DEF Sound, SessionsOK
    <2>5. sessions' \in [DOMAIN sessions' -> Session] /\ \A y \in DOMAIN sessions' : sessions'[y].user \in Exists
      BY <1>5, <2>1, <2>3 DEF Sound, SessionsOK
    <2>6. KeysOK' /\ UsersOK' /\ SessionsOK'
      BY <2>2, <2>4, <2>5 DEF CreateSession, Sound, KeysOK, UsersOK, SessionsOK, Exists
    <2>7. SamePassword /\ users' = users
      BY DEF CreateSession, SamePassword, Exists
    <2>8. Become(p, Idle) /\ Current(Idle, users')
      BY IdleOK DEF CreateSession, End, Current
    <2>9. RequestsOK' /\ req'[p] = Idle /\ \A r \in Handlers \ {p} : req'[r] = req[r]
      BY <2>8, IdleOK, OneMoves DEF Sound
    <2>10. LoginsOK'
      BY <2>7, <2>8, IdleOK, LoginsKept DEF Sound
    <2>11. ASSUME NEW y \in DOMAIN sessions',
                  \A r \in Handlers : ~(req'[r].pc = "signout" /\ req'[r].target = sessions'[y].user)
           PROVE  sessions'[y].exempt \/ sessions'[y].pw = users'[sessions'[y].user].pw
      <3>1. CASE y = t
        <4>1. sessions'[y] = s
          BY <2>3, <3>1
        <4>2. req[p].late \/ req[p].row.pw = users[req[p].me].pw
          BY <1>3, <1>5 DEF Current, Exists
        <4> QED  BY <4>1, <4>2, <2>7
      <3>2. CASE y # t
        <4>1. y \in DOMAIN sessions /\ sessions'[y] = sessions[y]
          BY <2>3, <3>2
        <4>2. \A r \in Handlers : ~(req[r].pc = "signout" /\ req[r].target = sessions[y].user)
          BY <1>3, <2>9, <2>11, <4>1
        <4> QED  BY <2>7, <4>1, <4>2 DEF Sound, SignedOutStaysOut
      <3> QED  BY <3>1, <3>2
    <2>12. SignedOutStaysOut'
      BY <2>11 DEF SignedOutStaysOut
    <2> QED  BY <2>2, <2>6, <2>9, <2>10, <2>12 DEF Sound
  <1> QED  BY <1>4, <1>5 DEF CreateSession, CreateSessionRow

\* The account is marked as signing out, and who verified its old password is late.
LEMMA SetPasswordSound ==
  ASSUME Sound, NEW p \in Handlers, NEW u \in Users, NEW keep \in {0} \cup Token,
         req[p].pc = "serve", SetPassword(p, u, keep), UNCHANGED <<bots, sessions, keys>>
  PROVE  Sound'
  <1> DEFINE q == [req[p] EXCEPT !.pc = "signout", !.target = u, !.token = keep]
             late(r) == [req[r] EXCEPT !.late = TRUE]
  <1>1. made.passwords < MaxPasswords /\ made \in [passwords : Password, sessions : {0} \cup Token, keys : {0} \cup Key]
    BY DEF SetPassword, Sound, MadeOK
  <1>2. made.passwords + 1 \in Password
    BY <1>1, AccountConstants DEF Password
  <1>3. MadeOK' /\ made'.sessions = made.sessions /\ made'.keys = made.keys
    BY <1>1, <1>2 DEF MadeOK, SetPassword, SetUserPassword
  <1>4. /\ users' \in [Exists -> User]
        /\ \A v \in Exists : v # u => users'[v] = users[v]
    BY <1>2 DEF Sound, UsersOK, SetPassword, SetUserPassword, User
  <1>5. Exists' = Exists
    BY <1>4 DEF Exists
  <1>6. UsersOK' /\ SessionsOK' /\ KeysOK'
    BY <1>3, <1>4, <1>5 DEF Sound, UsersOK, SessionsOK, KeysOK
  <1>7. RequestOK(req[p]) /\ RequestOK(q) /\ q.pc = "signout" /\ q.target = u
    BY DEF Sound, RequestsOK, RequestOK, Request
  <1>8. ASSUME NEW r \in Handlers
        PROVE  /\ RequestOK(late(r)) /\ RequestOK(req[r])
               /\ late(r).pc = req[r].pc /\ late(r).late /\ late(r).target = req[r].target
    BY DEF Sound, RequestsOK, RequestOK, Request
  <1>9. \A r \in Handlers : req'[r] = IF r = p THEN q
                                      ELSE IF req[r].pc = "login" /\ req[r].me = u THEN late(r) ELSE req[r]
    BY DEF SetPassword
  <1>10. RequestsOK'
    <2>1. \A r \in Handlers : RequestOK(req'[r])
      BY <1>7, <1>8, <1>9
    <2>2. req' = [r \in Handlers |-> req'[r]]
      BY <1>9 DEF SetPassword
    <2> QED  BY <2>1, <2>2 DEF RequestsOK, RequestOK
  <1>11. ASSUME NEW r \in Handlers PROVE Current(req'[r], users')
    <2>1. CASE r = p
      BY <1>7, <1>9, <2>1 DEF Current
    <2>2. CASE r # p /\ req[r].pc = "login" /\ req[r].me = u
      BY <1>8, <1>9, <2>2 DEF Current
    <2>3. CASE r # p /\ ~(req[r].pc = "login" /\ req[r].me = u)
      <3>1. req'[r] = req[r] /\ Current(req[r], users)
        BY <1>9, <2>3 DEF Sound, LoginsOK
      <3> QED  BY <1>4, <1>5, <2>3, <3>1 DEF Current, Exists
    <2> QED  BY <2>1, <2>2, <2>3
  <1>12. ASSUME NEW y \in DOMAIN sessions',
                \A r \in Handlers : ~(req'[r].pc = "signout" /\ req'[r].target = sessions'[y].user)
         PROVE  sessions'[y].exempt \/ sessions'[y].pw = users'[sessions'[y].user].pw
    <2>1. sessions[y].user # u /\ sessions[y].user \in Exists
      BY <1>7, <1>9, <1>12 DEF Sound, SessionsOK
    <2>2. \A r \in Handlers : ~(req[r].pc = "signout" /\ req[r].target = sessions[y].user)
      BY <1>8, <1>9, <1>12
    <2> QED  BY <1>4, <2>1, <2>2 DEF Sound, SignedOutStaysOut
  <1> QED  BY <1>3, <1>6, <1>10, <1>11, <1>12 DEF Sound, LoginsOK, SignedOutStaysOut

LEMMA ChangePasswordSound == ASSUME Sound, NEW p \in Handlers, ChangePassword(p) PROVE Sound'
  <1>1. RequestOK(req[p]) /\ req[p].pc = "serve"
    BY DEF Sound, RequestsOK, ChangePassword, BySession
  <1>2. req[p].me \in Users /\ req[p].token \in {0} \cup Token
    BY <1>1 DEF RequestOK, Request
  <1> QED  BY <1>1, <1>2, SetPasswordSound DEF ChangePassword

LEMMA ResetUserPasswordSound == ASSUME Sound, NEW p \in Handlers, ResetUserPassword(p) PROVE Sound'
  <1>1. PICK u \in Exists : SetPassword(p, u, 0)
    BY DEF ResetUserPassword
  <1>2. u \in Users
    BY DEF Sound, UsersOK
  <1> QED  BY <1>1, <1>2, SetPasswordSound DEF ResetUserPassword, ByAdmin

\* What is left of the account's sessions is the one the change was made from.
LEMMA DeleteUserSessionsSound == ASSUME Sound, NEW p \in Handlers, DeleteUserSessions(p) PROVE Sound'
  <1> DEFINE q == req[p]
             D == DOMAIN sessions \ SignedOut(q)
             kept(y) == [sessions[y] EXCEPT !.exempt = TRUE]
  <1>1. q.pc = "signout" /\ sessions' = [y \in D |-> IF y = q.token THEN kept(y) ELSE sessions[y]]
    BY DEF DeleteUserSessions
  <1>2. ASSUME NEW y \in DOMAIN sessions
        PROVE  /\ sessions[y] \in Session /\ kept(y) \in Session
               /\ kept(y).user = sessions[y].user /\ kept(y).exempt
    BY DEF Sound, SessionsOK, Session
  <1>3. /\ DOMAIN sessions' = D /\ sessions' \in [D -> Session]
        /\ \A y \in D : sessions'[y].user = sessions[y].user
    BY <1>1, <1>2
  <1>4. SessionsOK' /\ UsersOK' /\ KeysOK' /\ MadeOK' /\ users' = users
    BY <1>3 DEF DeleteUserSessions, Sound, SessionsOK, UsersOK, KeysOK, MadeOK, Exists
  <1>5. Become(p, Idle) /\ Current(Idle, users') /\ SamePassword
    BY <1>4, IdleOK DEF DeleteUserSessions, End, Current, SamePassword, Exists
  <1>6. RequestsOK' /\ req'[p] = Idle /\ \A r \in Handlers \ {p} : req'[r] = req[r]
    BY <1>5, IdleOK, OneMoves DEF Sound
  <1>7. LoginsOK'
    BY <1>5, IdleOK, LoginsKept DEF Sound
  <1>8. ASSUME NEW y \in DOMAIN sessions',
               \A r \in Handlers : ~(req'[r].pc = "signout" /\ req'[r].target = sessions'[y].user)
        PROVE  sessions'[y].exempt \/ sessions'[y].pw = users'[sessions'[y].user].pw
    <2>1. y \in DOMAIN sessions /\ y \notin SignedOut(q)
      BY <1>3
    <2>2. CASE y = q.token
      BY <1>1, <1>2, <1>3, <2>1, <2>2
    <2>3. CASE y # q.token
      <3>1. sessions'[y] = sessions[y] /\ sessions[y].user # q.target
        BY <1>1, <2>1, <2>3, <1>3 DEF SignedOut, Of
      <3>2. \A r \in Handlers : ~(req[r].pc = "signout" /\ req[r].target = sessions[y].user)
        BY <1>6, <1>8, <3>1
      <3> QED  BY <1>4, <2>1, <3>1, <3>2 DEF Sound, SignedOutStaysOut
    <2> QED  BY <2>2, <2>3
  <1> QED  BY <1>4, <1>6, <1>7, <1>8 DEF Sound, SignedOutStaysOut

\* Some field of an account's row is written that is not its password.
LEMMA RowWritten ==
  ASSUME Sound, NEW p \in Handlers, End(p), req[p].pc # "signout", UNCHANGED <<bots, sessions, keys, made>>,
         NEW u, NEW row \in User, u \in Exists => row.pw = users[u].pw,
         users' = IF u \in Exists THEN [users EXCEPT ![u] = row] ELSE users
  PROVE  Sound'
  <1>1. users' \in [Exists -> User] /\ \A v \in Exists : users'[v].pw = users[v].pw
    BY DEF Sound, UsersOK
  <1>2. Exists' = Exists
    BY <1>1 DEF Exists
  <1>3. UsersOK' /\ SessionsOK' /\ KeysOK' /\ MadeOK' /\ SamePassword
    BY <1>1, <1>2 DEF Sound, UsersOK, SessionsOK, KeysOK, MadeOK, SamePassword
  <1> QED  BY <1>3, Ends

LEMMA UpdateUserRoleSound == ASSUME Sound, NEW p \in Handlers, UpdateUserRole(p) PROVE Sound'
  <1> DEFINE u == req[p].target
             row == IF u \in Exists THEN [users[u] EXCEPT !.role = req[p].role] ELSE Nobody
  <1>1. req[p].pc = "role" /\ req[p].role \in Role
    BY DEF Sound, RequestsOK, RequestOK, Request, UpdateUserRole
  <1>2. row \in User /\ (u \in Exists => row.pw = users[u].pw)
    BY <1>1, AccountConstants DEF Sound, UsersOK, User, Nobody, Role, Password
  <1>3. users' = IF u \in Exists THEN [users EXCEPT ![u] = row] ELSE users
    BY DEF UpdateUserRole, SetUserRole
  <1> HIDE DEF row
  <1> QED  BY <1>1, <1>2, <1>3, RowWritten DEF UpdateUserRole

LEMMA SuspendUserSound == ASSUME Sound, NEW p \in Handlers, SuspendUser(p) PROVE Sound'
  <1>1. PICK u \in Exists, suspended \in BOOLEAN : SetUserSuspended(u, suspended)
    BY DEF SuspendUser
  <1> DEFINE row == [users[u] EXCEPT !.suspended = suspended]
  <1>2. row \in User /\ row.pw = users[u].pw
    BY DEF Sound, UsersOK, User
  <1>3. users' = IF u \in Exists THEN [users EXCEPT ![u] = row] ELSE users
    BY <1>1 DEF SetUserSuspended
  <1> HIDE DEF row
  <1> QED  BY <1>2, <1>3, RowWritten DEF SuspendUser, ByAdmin

LEMMA CreateUserSound == ASSUME Sound, NEW p \in Handlers, CreateUser(p) PROVE Sound'
  <1>1. PICK u \in Users \ Exists, r \in Role, pw \in {0, 1} :
          /\ \A h \in Handlers : u \notin {req[h].me, req[h].target}
          /\ CreateUserFull(u, r, pw)
    BY DEF CreateUser
  <1> DEFINE row == [role |-> r, suspended |-> FALSE, pw |-> pw]
  <1>2. row \in User
    BY AccountConstants DEF User, Password
  <1>3. /\ users' = [v \in Exists \cup {u} |-> IF v = u THEN row ELSE users[v]]
        /\ bots' = [v \in DOMAIN bots \cup {u} |-> IF v = u THEN "none" ELSE bots[v]]
    BY <1>1 DEF CreateUserFull, Add, Exists
  <1>4. Exists' = Exists \cup {u} /\ DOMAIN bots = Exists
    BY <1>3 DEF Exists, Sound, UsersOK
  <1>5. UsersOK'
    BY <1>2, <1>3, <1>4 DEF Sound, UsersOK
  <1>6. SessionsOK' /\ KeysOK' /\ MadeOK'
    BY <1>4 DEF CreateUser, Sound, SessionsOK, KeysOK, MadeOK
  <1>7. SamePassword
    BY <1>1, <1>3, <1>4 DEF SamePassword
  <1> QED  BY <1>5, <1>6, <1>7, Ends DEF CreateUser, ByAdmin

LEMMA DeleteUserRowSound == ASSUME Sound, NEW p \in Handlers, DeleteUserRow(p) PROVE Sound'
  <1> DEFINE u == req[p].target
  <1>1. CASE UNCHANGED <<users, bots, sessions, keys>>
    BY <1>1, EndsWithFewer DEF DeleteUserRow
  <1>2. CASE /\ users' = Drop(users, {u}) /\ bots' = Drop(bots, {u})
             /\ sessions' = Cascade(sessions, u) /\ keys' = Cascade(keys, u)
    <2>1. /\ users' = [v \in Exists \ {u} |-> users[v]]
          /\ bots' = [v \in Exists \ {u} |-> bots[v]]
          /\ sessions' = [t \in DOMAIN sessions \ Of(sessions, u) |-> sessions[t]]
          /\ keys' = [k \in DOMAIN keys \ Of(keys, u) |-> keys[k]]
      BY <1>2 DEF Drop, Restrict, Cascade, Exists, Sound, UsersOK
    <2>2. Exists' = Exists \ {u}
      BY <2>1 DEF Exists
    <2>3. UsersOK' /\ MadeOK'
      BY <2>1, <2>2 DEF DeleteUserRow, Sound, UsersOK, MadeOK
    <2>4. SessionsOK'
      <3>1. \A t \in DOMAIN sessions \ Of(sessions, u) : sessions[t] \in Session /\ sessions[t].user \in Exists \ {u}
        BY DEF Sound, SessionsOK, Of
      <3> QED  BY <2>1, <2>2, <3>1 DEF DeleteUserRow, Sound, SessionsOK
    <2>5. KeysOK'
      <3>1. \A k \in DOMAIN keys \ Of(keys, u) : keys[k] \in APIKey /\ keys[k].user \in Exists \ {u}
        BY DEF Sound, KeysOK, Of
      <3> QED  BY <2>1, <2>2, <3>1 DEF DeleteUserRow, Sound, KeysOK
    <2>6. SamePassword
      BY <2>1, <2>2 DEF SamePassword
    <2> QED  BY <2>1, <2>3, <2>4, <2>5, <2>6, Ends DEF DeleteUserRow
  <1> QED  BY <1>1, <1>2 DEF DeleteUserRow

\* The old sessions of the account stay, and the property excuses them.
LEMMA FailSound == ASSUME Sound, NEW p \in Handlers, Fail(p) PROVE Sound'
  <1> DEFINE u == req[p].target
             left(t) == [sessions[t] EXCEPT !.exempt = TRUE]
  <1>1. CASE req[p].pc # "signout"
    BY <1>1, EndsWithFewer DEF Fail
  <1>2. CASE req[p].pc = "signout"
    <2>1. sessions' = [t \in DOMAIN sessions |-> IF sessions[t].user = u THEN left(t) ELSE sessions[t]]
      BY <1>2 DEF Fail
    <2>2. ASSUME NEW t \in DOMAIN sessions
          PROVE  /\ sessions[t] \in Session /\ left(t) \in Session
                 /\ left(t).user = sessions[t].user /\ left(t).exempt
      BY DEF Sound, SessionsOK, Session
    <2>3. /\ DOMAIN sessions' = DOMAIN sessions /\ sessions' \in [DOMAIN sessions -> Session]
          /\ \A t \in DOMAIN sessions : sessions'[t].user = sessions[t].user
      BY <2>1, <2>2
    <2>4. SessionsOK' /\ UsersOK' /\ KeysOK' /\ MadeOK' /\ users' = users
      BY <2>3 DEF Fail, Sound, SessionsOK, UsersOK, KeysOK, MadeOK, Exists
    <2>5. Become(p, Idle) /\ Current(Idle, users') /\ SamePassword
      BY <2>4, IdleOK DEF Fail, End, Current, SamePassword, Exists
    <2>6. RequestsOK' /\ \A r \in Handlers \ {p} : req'[r] = req[r]
      BY <2>5, IdleOK, OneMoves DEF Sound
    <2>7. LoginsOK'
      BY <2>5, IdleOK, LoginsKept DEF Sound
    <2>8. ASSUME NEW t \in DOMAIN sessions',
                 \A r \in Handlers : ~(req'[r].pc = "signout" /\ req'[r].target = sessions'[t].user)
          PROVE  sessions'[t].exempt \/ sessions'[t].pw = users'[sessions'[t].user].pw
      <3>1. CASE sessions[t].user = u
        BY <2>1, <2>2, <2>3, <3>1
      <3>2. CASE sessions[t].user # u
        <4>1. sessions'[t] = sessions[t] /\ t \in DOMAIN sessions
          BY <2>1, <2>3, <3>2
        <4>2. \A r \in Handlers : ~(req[r].pc = "signout" /\ req[r].target = sessions[t].user)
          BY <2>6, <2>8, <3>2, <4>1
        <4> QED  BY <2>4, <4>1, <4>2 DEF Sound, SignedOutStaysOut
      <3> QED  BY <3>1, <3>2
    <2> QED  BY <2>4, <2>6, <2>7, <2>8 DEF Sound, SignedOutStaysOut
  <1> QED  BY <1>1, <1>2

LEMMA EnvironmentSound == ASSUME Sound, ChangeBots \/ SessionExpires \/ KeyExpires PROVE Sound'
  <1>1. CASE ChangeBots
    <2>1. UsersOK'
      BY <1>1 DEF ChangeBots, Sound, UsersOK, Exists
    <2>2. SessionsOK' /\ KeysOK' /\ MadeOK'
      BY <1>1 DEF ChangeBots, Sound, SessionsOK, KeysOK, MadeOK, Exists
    <2> QED  BY <1>1, <2>1, <2>2, NobodyMoves DEF ChangeBots
  <1>2. CASE SessionExpires
    <2>1. PICK t \in DOMAIN sessions : sessions' = Drop(sessions, {t})
      BY <1>2 DEF SessionExpires
    <2>2. /\ DOMAIN sessions' \subseteq DOMAIN sessions /\ sessions' \in [DOMAIN sessions' -> Session]
          /\ \A y \in DOMAIN sessions' : sessions'[y] = sessions[y]
      BY <2>1, Fewer DEF Sound, SessionsOK
    <2>3. SessionsOK' /\ UsersOK' /\ KeysOK' /\ MadeOK'
      BY <1>2, <2>2 DEF SessionExpires, Sound, SessionsOK, UsersOK, KeysOK, MadeOK, Exists
    <2> QED  BY <1>2, <2>2, <2>3, NobodyMoves DEF SessionExpires
  <1>3. CASE KeyExpires
    <2>1. PICK k \in DOMAIN keys : keys' = Drop(keys, {k})
      BY <1>3 DEF KeyExpires
    <2>2. /\ DOMAIN keys' \subseteq DOMAIN keys /\ keys' \in [DOMAIN keys' -> APIKey]
          /\ \A y \in DOMAIN keys' : keys'[y] = keys[y]
      BY <2>1, Fewer DEF Sound, KeysOK
    <2>3. SessionsOK' /\ UsersOK' /\ KeysOK' /\ MadeOK'
      BY <1>3, <2>2 DEF KeyExpires, Sound, SessionsOK, UsersOK, KeysOK, MadeOK, Exists
    <2> QED  BY <1>3, <2>3, NobodyMoves DEF KeyExpires
  <1> QED  BY <1>1, <1>2, <1>3

-----------------------------------------------------------------------------
(* The theorems.                                                           *)

LEMMA InitSound == Init => Sound
  <1> SUFFICES ASSUME Init PROVE Sound
    OBVIOUS
  <1>1. UsersOK
    <2>1. users \in [Users -> {[role |-> r, suspended |-> FALSE, pw |-> 1] : r \in Role}]
      BY DEF Init
    <2>2. 1 \in Password
      BY AccountConstants DEF Password
    <2>3. ASSUME NEW r \in Role PROVE [role |-> r, suspended |-> FALSE, pw |-> 1] \in User
      BY <2>2 DEF User
    <2>4. ASSUME NEW u \in Users PROVE users[u] \in User
      BY <2>1, <2>3
    <2>5. users \in [Users -> User] /\ Exists = Users
      BY <2>1, <2>4 DEF Exists
    <2> QED  BY <2>5 DEF Init, UsersOK
  <1>2. SessionsOK /\ KeysOK /\ SignedOutStaysOut
    <2>1. DOMAIN sessions = {} /\ DOMAIN keys = {} /\ sessions = [t \in {} |-> NoUser] /\ keys = [k \in {} |-> NoUser]
      BY DEF Init
    <2>2. sessions \in [DOMAIN sessions -> Session] /\ keys \in [DOMAIN keys -> APIKey]
      BY <2>1
    <2> QED  BY <2>1, <2>2 DEF SessionsOK, KeysOK, SignedOutStaysOut
  <1>3. MadeOK
    BY AccountConstants DEF Init, MadeOK, Password, Token, Key
  <1>4. RequestsOK /\ LoginsOK
    BY IdleOK DEF Init, RequestsOK, LoginsOK, Current
  <1> QED  BY <1>1, <1>2, <1>3, <1>4 DEF Sound

LEMMA NextSound == Sound /\ [Next]_vars => Sound'
  <1> SUFFICES ASSUME Sound, [Next]_vars PROVE Sound'
    OBVIOUS
  <1>1. CASE UNCHANGED vars
    BY <1>1 DEF vars, Sound, UsersOK, SessionsOK, KeysOK, MadeOK, RequestsOK, LoginsOK, SignedOutStaysOut, Exists
  <1>2. ASSUME NEW p \in Handlers,
               \/ Login(p) \/ CreateSession(p)
               \/ LoadSession(p) \/ DropSession(p) \/ TouchSession(p) \/ LoadKey(p)
        PROVE  Sound'
    BY <1>2, LoginSound, CreateSessionSound, LoadSessionSound, DropSessionSound, TouchSessionSound, LoadKeySound
  <1>3. ASSUME NEW p \in Handlers,
               Logout(p) \/ ChangePassword(p) \/ DeleteUserSessions(p) \/ CreateKey(p) \/ DeleteKey(p) \/ Fail(p)
        PROVE  Sound'
    BY <1>3, LogoutSound, ChangePasswordSound, DeleteUserSessionsSound, CreateKeySound, DeleteKeySound, FailSound
  <1>4. ASSUME NEW p \in Handlers,
               \/ CreateUser(p) \/ UpdateUser(p) \/ UpdateUserRole(p) \/ SuspendUser(p)
               \/ ResetUserPassword(p) \/ DeleteUser(p) \/ DeleteUserRow(p)
        PROVE  Sound'
    BY <1>4, CreateUserSound, UpdateUserSound, UpdateUserRoleSound, SuspendUserSound, ResetUserPasswordSound,
       DeleteUserSound, DeleteUserRowSound
  <1> QED  BY <1>1, <1>2, <1>3, <1>4, EnvironmentSound DEF Next

LEMMA AlwaysSound == Spec => []Sound
  BY InitSound, NextSound, PTL DEF Spec

\* Every variable stays in its range, and every session and key is of an account that is
\* there, for any accounts, requests and bounds.
THEOREM TypeCorrect == Spec => []TypeOK
  BY AlwaysSound, SoundTypes, PTL

\* A new password signs out whoever used the old one: SetUserPassword and
\* DeleteUserSessions together leave no other session, however many logins, changes and
\* deletions run between them.
THEOREM NewPasswordSignsOut == Spec => []SignedOutStaysOut
  <1>1. Sound => SignedOutStaysOut
    BY DEF Sound
  <1> QED  BY <1>1, AlwaysSound, PTL

\* What requests write to roles, suspensions and accounts, whom they took for active.
LEMMA AdminIsNotTaken ==
  ASSUME Sound, NEW p \in Handlers, req[p].me \in ActiveAdmins,
         NEW u, u # req[p].me, \A v \in Exists \ {u} : v \in Exists' /\ users'[v] = users[v]
  PROVE  ActiveAdmins' # {}
  BY DEF ActiveAdmins, Exists

\* Whoever takes the last active admin away was an active admin when his request was
\* loaded, and is none now.
THEOREM LastAdminIsNotTaken == Spec => LastAdminStays
  <1> DEFINE Excused == \E p \in Handlers : req[p].me \notin ActiveAdmins /\ req[p].row.role = "admin" /\ req'[p] = Idle
             Step == ActiveAdmins # {} /\ ActiveAdmins' = {} => Excused
  <1>1. ASSUME Sound, [Next]_vars PROVE Step
    <2> SUFFICES ASSUME ActiveAdmins # {}, ActiveAdmins' = {} PROVE Excused
      OBVIOUS
    <2>1. CASE UNCHANGED users
      BY <2>1 DEF ActiveAdmins, Exists
    <2>2. ASSUME NEW p \in Handlers, SetPassword(p, req[p].me, req[p].token) \/ ResetUserPassword(p)
          PROVE  FALSE
      <3>1. PICK u : users' = IF u \in Exists THEN [users EXCEPT ![u].pw = made.passwords + 1] ELSE users
        BY <2>2 DEF ResetUserPassword, SetPassword, SetUserPassword
      <3>2. Exists' = Exists /\ \A v \in Exists : users'[v].role = users[v].role /\ users'[v].suspended = users[v].suspended
        BY <1>1, <3>1 DEF Sound, UsersOK, User, Exists
      <3> QED  BY <3>2 DEF ActiveAdmins
    <2>3. ASSUME NEW p \in Handlers, CreateUser(p) PROVE FALSE
      <3>1. PICK u \in Users \ Exists, r \in Role, pw \in {0, 1} : CreateUserFull(u, r, pw)
        BY <2>3 DEF CreateUser
      <3>2. \A v \in Exists : v \in Exists' /\ users'[v] = users[v]
        BY <3>1 DEF CreateUserFull, Add, Exists
      <3> QED  BY <3>2 DEF ActiveAdmins
    <2>4. ASSUME NEW p \in Handlers, UpdateUserRole(p) PROVE Excused
      <3> DEFINE u == req[p].target
      <3>1. users' = IF u \in Exists THEN [users EXCEPT ![u].role = req[p].role] ELSE users
        BY <2>4 DEF UpdateUserRole, SetUserRole
      <3>2. req[p].pc = "role" /\ RequestOK(req[p]) /\ req'[p] = Idle
        BY <1>1, <2>4, IdleOK, OneMoves DEF UpdateUserRole, Sound, RequestsOK, End
      <3>3. req[p].role = "user"
        <4>1. CASE req[p].role = "admin"
          <5>1. Exists' = Exists /\ \A v \in Exists : /\ users'[v].role \in {users[v].role, "admin"}
                                                      /\ users'[v].suspended = users[v].suspended
            BY <1>1, <3>1, <4>1 DEF Sound, UsersOK, User, Exists
          <5> QED  BY <5>1 DEF ActiveAdmins
        <4> QED  BY <3>2, <4>1 DEF RequestOK, Request, Role
      <3>4. u # req[p].me /\ req[p].row.role = "admin"
        BY <3>2, <3>3 DEF RequestOK
      <3>5. \A v \in Exists \ {u} : v \in Exists' /\ users'[v] = users[v]
        BY <1>1, <3>1 DEF Sound, UsersOK, Exists
      <3> QED  BY <1>1, <3>2, <3>4, <3>5, AdminIsNotTaken
    <2>5. ASSUME NEW p \in Handlers, SuspendUser(p) PROVE Excused
      <3>1. PICK u \in Exists, suspended \in BOOLEAN : NotMyself(req[p], u) /\ SetUserSuspended(u, suspended)
        BY <2>5 DEF SuspendUser
      <3>2. req[p].row.role = "admin" /\ req'[p] = Idle
        BY <1>1, <2>5, IdleOK, OneMoves DEF SuspendUser, ByAdmin, Sound, End
      <3>3. \A v \in Exists \ {u} : v \in Exists' /\ users'[v] = users[v]
        BY <1>1, <3>1 DEF Sound, UsersOK, Exists, SetUserSuspended
      <3> QED  BY <1>1, <3>1, <3>2, <3>3, AdminIsNotTaken DEF NotMyself
    <2>6. ASSUME NEW p \in Handlers, DeleteUserRow(p), users' # users PROVE Excused
      <3> DEFINE u == req[p].target
      <3>1. req[p].pc = "delete" /\ RequestOK(req[p]) /\ req'[p] = Idle
        BY <1>1, <2>6, IdleOK, OneMoves DEF DeleteUserRow, Sound, RequestsOK, End
      <3>2. u # req[p].me /\ req[p].row.role = "admin"
        BY <3>1 DEF RequestOK
      <3>3. users' = Drop(users, {u})
        BY <2>6 DEF DeleteUserRow
      <3>4. \A v \in Exists \ {u} : v \in Exists' /\ users'[v] = users[v]
        BY <3>3 DEF Drop, Restrict, Exists
      <3> QED  BY <1>1, <3>1, <3>2, <3>4, AdminIsNotTaken
    <2>7. ASSUME NEW p \in Handlers,
                 \/ Login(p) \/ CreateSession(p)
                 \/ LoadSession(p) \/ DropSession(p) \/ TouchSession(p) \/ LoadKey(p)
                 \/ Logout(p) \/ DeleteUserSessions(p) \/ CreateKey(p) \/ DeleteKey(p)
                 \/ UpdateUser(p) \/ DeleteUser(p) \/ Fail(p)
          PROVE  UNCHANGED users
      BY <2>7 DEF Login, CreateSession, LoadSession, DropSession, TouchSession, LoadKey, Logout,
         DeleteUserSessions, CreateKey, DeleteKey, UpdateUser, DeleteUser, Fail
    <2>8. ASSUME ChangeBots \/ SessionExpires \/ KeyExpires \/ UNCHANGED vars PROVE UNCHANGED users
      BY <2>8 DEF ChangeBots, SessionExpires, KeyExpires, vars
    <2>9. ASSUME NEW p \in Handlers, ChangePassword(p) PROVE FALSE
      BY <2>2, <2>9 DEF ChangePassword
    <2> QED  BY <1>1, <2>1, <2>2, <2>3, <2>4, <2>5, <2>6, <2>7, <2>8, <2>9 DEF Next
  <1> QED  BY <1>1, AlwaysSound, PTL DEF Spec, LastAdminStays

\* A token that has ended is never a session again: sessions only appear by a login,
\* with a token that is new.
THEOREM NoSessionReturns == Spec => SessionsDoNotReturn
  <1> DEFINE Step == \A t \in DOMAIN sessions' \ DOMAIN sessions : t = made.sessions + 1
  <1>1. ASSUME [Next]_vars PROVE Step
    <2>1. CASE UNCHANGED sessions
      BY <2>1
    <2>2. ASSUME NEW S, sessions' = Drop(sessions, S) PROVE Step
      <3>1. DOMAIN sessions' \subseteq DOMAIN sessions
        BY <2>2 DEF Drop, Restrict
      <3> QED  BY <3>1
    <2>3. ASSUME NEW p \in Handlers, CreateSession(p) PROVE Step
      <3>1. CASE UNCHANGED sessions
        BY <3>1
      <3>2. ASSUME NEW s, sessions' = Add(sessions, made.sessions + 1, s) PROVE Step
        BY <3>2 DEF Add
      <3> QED  BY <2>3, <3>1, <3>2 DEF CreateSession, CreateSessionRow
    <2>4. ASSUME NEW p \in Handlers, DeleteUserSessions(p) \/ Fail(p) PROVE DOMAIN sessions' \subseteq DOMAIN sessions
      BY <2>4 DEF DeleteUserSessions, Fail
    <2>5. ASSUME NEW p \in Handlers, DropSession(p) \/ Logout(p) PROVE Step
      BY <2>2, <2>5 DEF DropSession, Logout, DeleteSession
    <2>6. ASSUME NEW p \in Handlers, DeleteUserRow(p) PROVE Step
      BY <2>1, <2>2, <2>6 DEF DeleteUserRow, Cascade
    <2>7. ASSUME SessionExpires PROVE Step
      BY <2>2, <2>7 DEF SessionExpires
    <2>8. ASSUME NEW p \in Handlers,
                 \/ Login(p) \/ LoadSession(p) \/ TouchSession(p) \/ LoadKey(p)
                 \/ ChangePassword(p) \/ CreateKey(p) \/ DeleteKey(p)
                 \/ CreateUser(p) \/ UpdateUser(p) \/ UpdateUserRole(p) \/ SuspendUser(p)
                 \/ ResetUserPassword(p) \/ DeleteUser(p)
          PROVE  UNCHANGED sessions
      BY <2>8 DEF Login, LoadSession, TouchSession, Touched, LoadKey, ChangePassword, CreateKey, DeleteKey,
         CreateUser, UpdateUser, UpdateUserRole, SuspendUser, ResetUserPassword, DeleteUser
    <2>9. ASSUME ChangeBots \/ KeyExpires \/ UNCHANGED vars PROVE UNCHANGED sessions
      BY <2>9 DEF ChangeBots, KeyExpires, vars
    <2> QED  BY <1>1, <2>1, <2>3, <2>4, <2>5, <2>6, <2>7, <2>8, <2>9 DEF Next
  <1> QED  BY <1>1, PTL DEF Spec, SessionsDoNotReturn
===============================================================================
