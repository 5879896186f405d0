------------------------------ MODULE AuthSessions ------------------------------
(***************************************************************************)
(* auth_service: the sessions of one user.  A session is one Redis key,    *)
(* whose value is the jti of the only refresh token it still takes; access *)
(* tokens are kept nowhere and live as long as the key.  Handlers run      *)
(* concurrently and interleave at every call of Redis or Postgres; each    *)
(* such call is a step, and any of them may be the last of its handler.    *)
(*                                                                         *)
(* The keys and the row of one user are disjoint from those of another.    *)
(* A password is the number of the change that set it.  A request that is  *)
(* turned down before it changes anything is no step.                      *)
(***************************************************************************)
EXTENDS Naturals, FiniteSets

CONSTANTS
  Requests,     \* handlers that may run at once
  MaxSessions,  \* bound: sessions ever opened
  MaxTokens,    \* bound: refresh tokens ever made
  MaxPasswords  \* bound: password changes

ASSUME SessionsAssumption ==
  MaxSessions \in Nat /\ MaxTokens \in Nat /\ MaxPasswords \in Nat

VARIABLES
  password,  \* users.password
  active,    \* users.is_active
  changes,   \* passwords ever set
  session,   \* auth:sessions:{user}:{session}: a jti, or Missing
  opened,    \* session ids handed out
  sessionOf, \* the session_id in the payload of a token
  made,      \* jtis handed out
  given,     \* refresh tokens whose response reached the client
  exchanges, \* how often a token was exchanged for the next pair
  pc,        \* where a handler is
  sid, jti,  \* its token_payload
  seen,      \* the password of the `user` object it has loaded
  todo,      \* sessions its SCAN still has to return
  page,      \* keys that the last SCAN call returned
  before     \* sessions that were alive when its SCAN began

userVars    == <<password, active, changes>>
tokenVars   == <<session, opened, sessionOf, made, exchanges>>
handlerVars == <<pc, sid, jti, seen, todo, page, before>>
vars == <<userVars, tokenVars, given, handlerVars>>

Missing  == 0
Sessions == 1..MaxSessions
Tokens   == 1..MaxTokens
\* Handlers that begin with get_token_payload; "read" stands for /profile,
\* /token/verify and /history.
Guarded == {"read", "logout", "logoutAll", "changePassword"}
Steps == Guarded \cup {"idle", "open", "reused", "load", "rotate", "answer",
                       "commit", "revokeAll", "scan", "delete", "revoked"}

TypeOK ==
  /\ password \in 0..MaxPasswords /\ changes \in 0..MaxPasswords
  /\ active \in BOOLEAN
  /\ session \in [Sessions -> Tokens \cup {Missing}]
  /\ opened \in 0..MaxSessions /\ made \in 0..MaxTokens
  /\ sessionOf \in [Tokens -> Sessions \cup {Missing}]
  /\ given \subseteq Tokens
  /\ exchanges \in [Tokens -> Nat]
  /\ pc \in [Requests -> Steps]
  /\ sid \in [Requests -> Sessions \cup {Missing}]
  /\ jti \in [Requests -> Tokens \cup {Missing}]
  /\ seen \in [Requests -> 0..MaxPasswords]
  /\ todo \in [Requests -> SUBSET Sessions]
  /\ page \in [Requests -> SUBSET Sessions]
  /\ before \in [Requests -> SUBSET Sessions]

Init ==
  /\ password = 0 /\ changes = 0 /\ active = TRUE
  /\ session = [s \in Sessions |-> Missing]
  /\ opened = 0 /\ made = 0
  /\ sessionOf = [j \in Tokens |-> Missing]
  /\ given = {}
  /\ exchanges = [j \in Tokens |-> 0]
  /\ pc = [r \in Requests |-> "idle"]
  /\ sid = [r \in Requests |-> Missing] /\ jti = [r \in Requests |-> Missing]
  /\ seen = [r \in Requests |-> 0]
  /\ todo = [r \in Requests |-> {}] /\ page = [r \in Requests |-> {}]
  /\ before = [r \in Requests |-> {}]

Alive == {s \in Sessions : session[s] # Missing}

Goto(r, step) == pc' = [pc EXCEPT ![r] = step]

\* The handler is done, or dead; what it held is gone with it.
End(r) ==
  /\ Goto(r, "idle")
  /\ sid' = [sid EXCEPT ![r] = Missing] /\ jti' = [jti EXCEPT ![r] = Missing]
  /\ seen' = [seen EXCEPT ![r] = 0]
  /\ todo' = [todo EXCEPT ![r] = {}] /\ page' = [page EXCEPT ![r] = {}]
  /\ before' = [before EXCEPT ![r] = {}]

Delete(keys) ==
  session' = [s \in Sessions |-> IF s \in keys THEN Missing ELSE session[s]]

-----------------------------------------------------------------------------
(* Sign-in. *)

\* verify_password against the hash in the user object.
VerifyPassword(plain, hashed) == plain = hashed

\* AuthService.authenticate; its rows of login_history are left out.
Authenticated(plain) == active /\ VerifyPassword(plain, password)

\* /login: the user is read and the password checked.
Login(r, plain) ==
  /\ pc[r] = "idle"
  /\ Authenticated(plain)
  /\ Goto(r, "open")
  /\ UNCHANGED <<userVars, tokenVars, given, sid, jti, seen, todo, page, before>>

\* /oauth/google/callback: Google vouches for the user, whose is_active is not
\* looked at.
GoogleCallback(r) ==
  /\ pc[r] = "idle"
  /\ Goto(r, "open")
  /\ UNCHANGED <<userVars, tokenVars, given, sid, jti, seen, todo, page, before>>

\* The payloads of a new pair: a fresh jti in session s.
Encode(r, s) ==
  /\ made < MaxTokens
  /\ made' = made + 1
  /\ sessionOf' = [sessionOf EXCEPT ![made + 1] = s]
  /\ sid' = [sid EXCEPT ![r] = s]
  /\ jti' = [jti EXCEPT ![r] = made + 1]
  /\ Goto(r, "answer")

\* create_token_pair without rotate_from_jti: SET of a new key.
OpenSession(r) ==
  /\ pc[r] = "open" /\ opened < MaxSessions
  /\ Encode(r, opened + 1)
  /\ opened' = opened + 1
  /\ session' = [session EXCEPT ![opened + 1] = made + 1]
  /\ UNCHANGED <<userVars, exchanges, given, seen, todo, page, before>>

\* The response with the pair reaches the client.
Answer(r) ==
  /\ pc[r] = "answer"
  /\ given' = given \cup {jti[r]}
  /\ End(r)
  /\ UNCHANGED <<userVars, tokenVars>>

-----------------------------------------------------------------------------
(* /refresh *)

\* validate_refresh_token: GET, and the comparison with the jti of the token.
ValidateRefresh(r, j) ==
  /\ pc[r] = "idle" /\ j \in given
  /\ session[sessionOf[j]] # Missing
  /\ Goto(r, IF session[sessionOf[j]] = j THEN "load" ELSE "reused")
  /\ sid' = [sid EXCEPT ![r] = sessionOf[j]]
  /\ jti' = [jti EXCEPT ![r] = j]
  /\ UNCHANGED <<userVars, tokenVars, given, seen, todo, page, before>>

\* A token that was exchanged already: DEL, which ends the session.
KillReused(r) ==
  /\ pc[r] = "reused"
  /\ Delete({sid[r]})
  /\ End(r)
  /\ UNCHANGED <<userVars, opened, sessionOf, made, exchanges, given>>

\* session.get(User) and is_active.
LoadUser(r) ==
  /\ pc[r] = "load"
  /\ IF active
     THEN Goto(r, "rotate") /\ UNCHANGED <<sid, jti, seen, todo, page, before>>
     ELSE End(r)
  /\ UNCHANGED <<userVars, tokenVars, given>>

Exchange(r) ==
  /\ Encode(r, sid[r])
  /\ session' = [session EXCEPT ![sid[r]] = made + 1]
  /\ exchanges' = [exchanges EXCEPT ![jti[r]] = @ + 1]
  /\ UNCHANGED <<seen, todo, page, before>>

RotateUnchecked(r) == \* mutant: SET after the GET of the validation
  pc[r] = "rotate" /\ Exchange(r) /\ UNCHANGED <<userVars, opened, given>>

RotateRevives(r) == \* mutant: the script does not tell 'missing' apart
  /\ pc[r] = "rotate"
  /\ IF session[sid[r]] \in {jti[r], Missing}
     THEN Exchange(r)
     ELSE Delete({sid[r]}) /\ End(r) /\ UNCHANGED <<sessionOf, made, exchanges>>
  /\ UNCHANGED <<userVars, opened, given>>

\* _ROTATE_JTI_LUA: one atomic compare-and-set.
Rotate(r) ==
  /\ pc[r] = "rotate"
  /\ \/ session[sid[r]] = jti[r] /\ Exchange(r)
     \/ /\ session[sid[r]] # jti[r]   \* 'missing' or 'reused'
        /\ Delete({sid[r]})
        /\ End(r)
        /\ UNCHANGED <<sessionOf, made, exchanges>>
  /\ UNCHANGED <<userVars, opened, given>>

-----------------------------------------------------------------------------
(* Handlers behind an access token. *)

\* validate_access_token: EXISTS of the key of the session.
ValidAccess(s) == s \in {sessionOf[j] : j \in given} /\ s \in Alive

GetTokenPayload(r, s, handler) ==
  /\ pc[r] = "idle" /\ ValidAccess(s)
  /\ Goto(r, handler)
  /\ sid' = [sid EXCEPT ![r] = s]
  /\ UNCHANGED <<userVars, tokenVars, given, jti, seen, todo, page, before>>

\* get_current_user: 401 for a user who was deactivated.
GetCurrentUser(r) ==
  /\ pc[r] \in {"read", "changePassword"}
  /\ IF active /\ pc[r] = "changePassword"
     THEN /\ Goto(r, "commit")
          /\ seen' = [seen EXCEPT ![r] = password]
          /\ UNCHANGED <<sid, jti, todo, page, before>>
     ELSE End(r)
  /\ UNCHANGED <<userVars, tokenVars, given>>

\* /logout: revoke_session.
Logout(r) ==
  /\ pc[r] = "logout"
  /\ Delete({sid[r]})
  /\ End(r)
  /\ UNCHANGED <<userVars, opened, sessionOf, made, exchanges, given>>

SetPassword(n) ==
  /\ changes < MaxPasswords
  /\ changes' = changes + 1
  /\ password' = n

\* AuthService.change_password: the current password is compared with the user
\* object loaded before, not with the row of now.
ChangePassword(r, current) ==
  /\ pc[r] = "commit"
  /\ IF VerifyPassword(current, seen[r])
     THEN /\ SetPassword(changes + 1)
          /\ Goto(r, "revokeAll")
          /\ UNCHANGED <<sid, jti, seen, todo, page, before>>
     ELSE End(r) /\ UNCHANGED <<password, changes>>
  /\ UNCHANGED <<active, tokenVars, given>>

\* revoke_all_sessions, of /logout-all and of a change of password: the first
\* SCAN.  Redis promises to return what is there from here to the end.
BeginScan(r) ==
  /\ pc[r] \in {"logoutAll", "revokeAll"}
  /\ Goto(r, "scan")
  /\ before' = [before EXCEPT ![r] = Alive]
  /\ todo' = [todo EXCEPT ![r] = Alive]
  /\ UNCHANGED <<userVars, tokenVars, given, sid, jti, seen, page>>

\* One SCAN call: any keys that exist now.
ScanPage(r, keys) ==
  /\ pc[r] = "scan" /\ keys \subseteq Alive
  /\ Goto(r, "delete")
  /\ page' = [page EXCEPT ![r] = keys]
  /\ todo' = [todo EXCEPT ![r] = (@ \ keys) \cap Alive]
  /\ UNCHANGED <<userVars, tokenVars, given, sid, jti, seen, before>>

DeletePageOnce(r) == \* mutant: the cursor is not followed
  /\ pc[r] = "delete"
  /\ Delete(page[r] \ {sid[r]})
  /\ page' = [page EXCEPT ![r] = {}]
  /\ Goto(r, "revoked")
  /\ UNCHANGED <<userVars, opened, sessionOf, made, exchanges, given,
                 sid, jti, seen, todo, before>>

\* DEL of the page without the caller's own key; on to the next page unless
\* the cursor has come back to 0.
DeletePage(r) ==
  /\ pc[r] = "delete"
  /\ Delete(page[r] \ {sid[r]})
  /\ page' = [page EXCEPT ![r] = {}]
  /\ \/ todo[r] = {} /\ Goto(r, "revoked")
     \/ Goto(r, "scan")
  /\ UNCHANGED <<userVars, opened, sessionOf, made, exchanges, given,
                 sid, jti, seen, todo, before>>

Revoked(r) ==
  /\ pc[r] = "revoked"
  /\ End(r)
  /\ UNCHANGED <<userVars, tokenVars, given>>

-----------------------------------------------------------------------------
(* What else happens. *)

\* cli create-superuser for an existing user; no session is revoked.
CreateSuperuser ==
  /\ SetPassword(changes + 1)
  /\ active' = TRUE
  /\ UNCHANGED <<tokenVars, given, handlerVars>>

\* An operator blocks the user in the database.
Deactivate ==
  /\ active /\ active' = FALSE
  /\ UNCHANGED <<password, changes, tokenVars, given, handlerVars>>

\* The TTL of a key runs out.
Expire(s) ==
  /\ s \in Alive
  /\ Delete({s})
  /\ UNCHANGED <<userVars, opened, sessionOf, made, exchanges, given, handlerVars>>

\* Redis or Postgres does not answer, the client hangs up or the process dies.
Abort(r) ==
  /\ pc[r] # "idle"
  /\ End(r)
  /\ UNCHANGED <<userVars, tokenVars, given>>

SignIn(r) ==
  \/ \E n \in 0..changes : Login(r, n)
  \/ GoogleCallback(r) \/ OpenSession(r) \/ Answer(r)

Refresh(r) ==
  \/ \E j \in given : ValidateRefresh(r, j)
  \/ KillReused(r) \/ LoadUser(r) \/ Rotate(r)

RevokeAllSessions(r) ==
  \/ BeginScan(r) \/ DeletePage(r) \/ Revoked(r)
  \/ \E keys \in SUBSET Alive : ScanPage(r, keys)

\* /profile, /token/verify, /history, /logout, /logout-all, /change-password
Authorized(r) ==
  \/ \E s \in Alive, h \in Guarded : GetTokenPayload(r, s, h)
  \/ GetCurrentUser(r) \/ Logout(r) \/ RevokeAllSessions(r)
  \/ \E n \in 0..changes : ChangePassword(r, n)

Next ==
  \/ \E r \in Requests : SignIn(r) \/ Refresh(r) \/ Authorized(r) \/ Abort(r)
  \/ CreateSuperuser \/ Deactivate
  \/ \E s \in Sessions : Expire(s)

Spec == Init /\ [][Next]_vars

-----------------------------------------------------------------------------
(* Safety. *)

\* A refresh token is good for one exchange, also when two requests bring it
\* at the same time and both pass the GET (_ROTATE_JTI_LUA).
ExchangedOnce == \A j \in Tokens : exchanges[j] <= 1

\* A session that was logged out, revoked or killed never comes back, whatever
\* rotation was under way (_ROTATE_JTI_LUA's 'missing').
RevokedStaysDead ==
  [][\A s \in 1..opened : session[s] = Missing => session'[s] = Missing]_vars

\* When revoke_all_sessions returns, of the sessions that were there when it
\* began at most the caller's own is left, although others were rotated
\* between two pages of the SCAN (revoke_all_sessions).
RevokeAllIsComplete ==
  \A r \in Requests :
    pc[r] = "revoked" => before[r] \cap Alive \subseteq {sid[r]}
=============================================================================
