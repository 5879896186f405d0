--------------------------- MODULE AuthServiceProofs ---------------------------
(***************************************************************************)
(* What holds of auth_service and of the admin_panel that signs in by it,  *)
(* for any number of handlers, sessions, tokens, roles, permissions,       *)
(* writers and checks, and any settings of the circuit breaker.            *)
(***************************************************************************)
EXTENDS AuthSessions, AdminLogin, TLAPS

-----------------------------------------------------------------------------
(* Sessions and tokens: a refresh token is exchanged once, a session that  *)
(* was revoked stays so, and revoke_all_sessions misses none.              *)
(*                                                                         *)
(* A token that was exchanged is the jti of no key, and no key can take it *)
(* back: a key is only written with a new jti, in place of the one that a  *)
(* handler has in hand or under a new session id.                          *)

\* The jti of a key is a token of that session.
KeyHoldsItsToken ==
  \A s \in Sessions : session[s] # Missing =>
    s \in 1..opened /\ session[s] \in 1..made /\ sessionOf[session[s]] = s

TokensHaveSessions == given \subseteq 1..made /\ \A j \in 1..made : sessionOf[j] \in 1..opened

\* A token that was exchanged is the jti of no key.
SpentIsPast ==
  \A j \in Tokens :
    /\ exchanges[j] <= 1
    /\ exchanges[j] # 0 => j \in 1..made /\ \A s \in Sessions : session[s] # j

\* What a handler of /refresh and one that answers have in hand.
TokenInHand ==
  \A r \in Requests :
    /\ pc[r] \in {"reused", "load", "rotate", "answer"} => jti[r] \in 1..made
    /\ pc[r] \in {"reused", "load", "rotate"} => sid[r] = sessionOf[jti[r]]

\* A SCAN has a session before it, in its page, or behind it and deleted.
ScanMissesNone ==
  \A r \in Requests :
    /\ pc[r] \in {"scan", "delete", "revoked"} => before[r] \subseteq 1..opened
    /\ pc[r] \in {"scan", "revoked"} => before[r] \cap Alive \subseteq todo[r] \cup {sid[r]}
    /\ pc[r] = "delete" => before[r] \cap Alive \subseteq todo[r] \cup page[r] \cup {sid[r]}
    /\ pc[r] = "revoked" => todo[r] = {}

TokenInv == KeyHoldsItsToken /\ TokensHaveSessions /\ SpentIsPast
IInv == TypeOK /\ TokenInv /\ TokenInHand /\ ScanMissesNone

-----------------------------------------------------------------------------
(* What the steps have in common. *)

TokenTypes ==
  /\ session \in [Sessions -> Tokens \cup {Missing}]
  /\ opened \in 0..MaxSessions /\ made \in 0..MaxTokens
  /\ sessionOf \in [Tokens -> Sessions \cup {Missing}]
  /\ given \subseteq Tokens
  /\ exchanges \in [Tokens -> Nat]

HandlerTypes ==
  /\ pc \in [Requests -> Steps]
  /\ sid \in [Requests -> Sessions \cup {Missing}]
  /\ jti \in [Requests -> Tokens \cup {Missing}]
  /\ seen \in [Requests -> 0..MaxPasswords]
  /\ todo \in [Requests -> SUBSET Sessions]
  /\ page \in [Requests -> SUBSET Sessions]
  /\ before \in [Requests -> SUBSET Sessions]

OthersStay(r) ==
  \A q \in Requests \ {r} :
    /\ pc'[q] = pc[q] /\ sid'[q] = sid[q] /\ jti'[q] = jti[q]
    /\ todo'[q] = todo[q] /\ page'[q] = page[q] /\ before'[q] = before[q]

\* Keys may be gone, and nothing else happens to tokens.
OnlyDeletes ==
  /\ UNCHANGED <<opened, sessionOf, made, exchanges>>
  /\ session' \in [Sessions -> Tokens \cup {Missing}]
  /\ \A s \in Sessions : session'[s] \in {session[s], Missing}

\* A new token: the first of a new session, or one in exchange for another.
Opens(r) ==
  /\ opened < MaxSessions /\ opened' = opened + 1
  /\ session' = [session EXCEPT ![opened + 1] = made + 1]
  /\ sessionOf' = [sessionOf EXCEPT ![made + 1] = opened + 1]
  /\ UNCHANGED exchanges

Exchanges(r) ==
  /\ pc[r] = "rotate" /\ session[sid[r]] = jti[r]
  /\ opened' = opened
  /\ session' = [session EXCEPT ![sid[r]] = made + 1]
  /\ sessionOf' = [sessionOf EXCEPT ![made + 1] = sid[r]]
  /\ exchanges' = [exchanges EXCEPT ![jti[r]] = @ + 1]

NewToken(r) ==
  /\ made < MaxTokens /\ made' = made + 1 /\ given' = given
  /\ Opens(r) \/ Exchanges(r)

\* Where a handler goes with no token in hand and no SCAN under way; with a token;
\* and within a SCAN.
Rests(r) == pc'[r] \notin {"reused", "load", "rotate", "answer", "scan", "delete", "revoked"}

Takes(r) ==
  \/ \E j \in given : pc'[r] \in {"reused", "load"} /\ jti'[r] = j /\ sid'[r] = sessionOf[j]
  \/ pc[r] = "load" /\ pc'[r] = "rotate" /\ jti'[r] = jti[r] /\ sid'[r] = sid[r]
  \/ pc'[r] = "answer" /\ jti'[r] = made + 1 /\ made' = made + 1

Scans(r) == BeginScan(r) \/ (\E keys \in SUBSET Alive : ScanPage(r, keys)) \/ DeletePage(r)

Moves(r) == OthersStay(r) /\ (Rests(r) \/ Takes(r) \/ Scans(r))

LEMMA Ended ==
  ASSUME SessionsAssumption, HandlerTypes, NEW r \in Requests, End(r)
  PROVE  HandlerTypes' /\ OthersStay(r) /\ pc'[r] = "idle"
  BY DEF SessionsAssumption, HandlerTypes, OthersStay, End, Goto, Steps, Missing, Sessions, Tokens

\* What any step makes of tokens.
LEMMA TokenEffect ==
  ASSUME SessionsAssumption, TypeOK, Next
  PROVE  \/ OnlyDeletes /\ (given' = given \/ \E r \in Requests : Answer(r))
         \/ \E r \in Requests : NewToken(r)
<1> USE DEF tokenVars, userVars, handlerVars, OnlyDeletes
<1> SUFFICES \/ OnlyDeletes /\ (given' = given \/ \E r \in Requests : Answer(r))
             \/ \E r \in Requests : NewToken(r)
  OBVIOUS
<1>a. ASSUME UNCHANGED tokenVars PROVE OnlyDeletes
  BY <1>a DEF TypeOK
<1>b. ASSUME NEW keys, Delete(keys), UNCHANGED <<opened, sessionOf, made, exchanges>> PROVE OnlyDeletes
  BY <1>b DEF TypeOK, Delete, Missing
<1>1. ASSUME NEW r \in Requests, SignIn(r)
      PROVE  (OnlyDeletes /\ (given' = given \/ Answer(r))) \/ NewToken(r)
  <2>1. CASE \E n \in 0..changes : Login(r, n)
    BY <2>1, <1>a DEF Login
  <2>2. CASE GoogleCallback(r)
    BY <2>2, <1>a DEF GoogleCallback
  <2>3. CASE OpenSession(r)
    BY <2>3 DEF OpenSession, Encode, NewToken, Opens
  <2>4. CASE Answer(r)
    BY <2>4, <1>a DEF Answer
  <2> QED  BY <1>1, <2>1, <2>2, <2>3, <2>4 DEF SignIn
<1>2. ASSUME NEW r \in Requests, Refresh(r)
      PROVE  (OnlyDeletes /\ given' = given) \/ NewToken(r)
  <2>1. CASE \E j \in given : ValidateRefresh(r, j)
    BY <2>1, <1>a DEF ValidateRefresh
  <2>2. CASE KillReused(r)
    BY <2>2, <1>b DEF KillReused
  <2>3. CASE LoadUser(r)
    BY <2>3, <1>a DEF LoadUser
  <2>4. CASE Rotate(r)
    <3>1. CASE session[sid[r]] = jti[r]
      BY <2>4, <3>1 DEF Rotate, Exchange, Encode, NewToken, Exchanges
    <3>2. CASE session[sid[r]] # jti[r]
      BY <2>4, <3>2, <1>b DEF Rotate
    <3> QED  BY <3>1, <3>2
  <2> QED  BY <1>2, <2>1, <2>2, <2>3, <2>4 DEF Refresh
<1>3. ASSUME NEW r \in Requests, Authorized(r)
      PROVE  OnlyDeletes /\ given' = given
  <2>1. CASE \E s \in Alive, h \in Guarded : GetTokenPayload(r, s, h)
    BY <2>1, <1>a DEF GetTokenPayload
  <2>2. CASE GetCurrentUser(r)
    BY <2>2, <1>a DEF GetCurrentUser
  <2>3. CASE Logout(r)
    BY <2>3, <1>b DEF Logout
  <2>4. CASE BeginScan(r) \/ Revoked(r)
    BY <2>4, <1>a DEF BeginScan, Revoked
  <2>5. CASE DeletePage(r)
    BY <2>5, <1>b DEF DeletePage
  <2>6. CASE \E keys \in SUBSET Alive : ScanPage(r, keys)
    BY <2>6, <1>a DEF ScanPage
  <2>7. CASE \E n \in 0..changes : ChangePassword(r, n)
    BY <2>7, <1>a DEF ChangePassword
  <2> QED  BY <1>3, <2>1, <2>2, <2>3, <2>4, <2>5, <2>6, <2>7 DEF Authorized, RevokeAllSessions
<1>4. ASSUME NEW r \in Requests, Abort(r) PROVE OnlyDeletes /\ given' = given
  BY <1>4, <1>a DEF Abort
<1>5. ASSUME CreateSuperuser \/ Deactivate PROVE OnlyDeletes /\ given' = given
  BY <1>5, <1>a DEF CreateSuperuser, Deactivate
<1>6. ASSUME NEW s \in Sessions, Expire(s) PROVE OnlyDeletes /\ given' = given
  BY <1>6, <1>b DEF Expire
<1> QED  BY <1>1, <1>2, <1>3, <1>4, <1>5, <1>6 DEF Next

\* What any step makes of handlers: one of them, at most, has moved.
LEMMA HandlerEffect ==
  ASSUME SessionsAssumption, TypeOK, Next
  PROVE  /\ HandlerTypes'
         /\ password' \in 0..MaxPasswords /\ changes' \in 0..MaxPasswords /\ active' \in BOOLEAN
         /\ UNCHANGED handlerVars \/ \E r \in Requests : Moves(r)
<1> USE DEF SessionsAssumption, TypeOK, HandlerTypes, OthersStay, Moves, Rests, Takes, userVars, handlerVars, Goto,
            Missing, Sessions, Tokens, Steps, Guarded
<1>a. HandlerTypes /\ (UNCHANGED handlerVars => HandlerTypes')
  OBVIOUS
<1>b. \A r \in Requests : End(r) => HandlerTypes' /\ Moves(r)
  BY <1>a, Ended
<1>1. ASSUME NEW r \in Requests, SignIn(r) PROVE HandlerTypes' /\ Moves(r) /\ UNCHANGED userVars
  <2>1. CASE (\E n \in 0..changes : Login(r, n)) \/ GoogleCallback(r)
    BY <2>1 DEF Login, GoogleCallback
  <2>2. CASE OpenSession(r)
    BY <2>2 DEF OpenSession, Encode
  <2>3. CASE Answer(r)
    BY <2>3, <1>b DEF Answer
  <2> QED  BY <1>1, <2>1, <2>2, <2>3 DEF SignIn
<1>2. ASSUME NEW r \in Requests, Refresh(r) PROVE HandlerTypes' /\ Moves(r) /\ UNCHANGED userVars
  <2>1. ASSUME NEW j \in given, ValidateRefresh(r, j) PROVE HandlerTypes' /\ Moves(r) /\ UNCHANGED userVars
    BY <2>1 DEF ValidateRefresh
  <2>2. CASE KillReused(r)
    BY <2>2, <1>b DEF KillReused
  <2>3. CASE LoadUser(r)
    BY <2>3, <1>b DEF LoadUser
  <2>4. CASE Rotate(r)
    <3>1. CASE session[sid[r]] = jti[r]
      <4>1. /\ made < MaxTokens
            /\ sid' = [sid EXCEPT ![r] = sid[r]] /\ jti' = [jti EXCEPT ![r] = made + 1]
            /\ Goto(r, "answer")
            /\ UNCHANGED <<seen, todo, page, before, userVars>>
        BY <2>4, <3>1 DEF Rotate, Exchange, Encode
      <4>2. made + 1 \in Tokens /\ made' = made + 1
        BY <4>1, <2>4, <3>1 DEF Rotate, Exchange, Encode
      <4>3. HandlerTypes'
        BY <4>1, <4>2
      <4>4. OthersStay(r) /\ Takes(r)
        BY <4>1, <4>2
      <4> QED  BY <4>1, <4>3, <4>4 DEF Moves
    <3>2. CASE session[sid[r]] # jti[r]
      BY <2>4, <3>2, <1>b DEF Rotate
    <3> QED  BY <3>1, <3>2
  <2> QED  BY <1>2, <2>1, <2>2, <2>3, <2>4 DEF Refresh
<1>3. ASSUME NEW r \in Requests, Authorized(r)
      PROVE  /\ HandlerTypes' /\ Moves(r)
             /\ password' \in 0..MaxPasswords /\ changes' \in 0..MaxPasswords /\ active' = active
  <2>1. ASSUME NEW s \in Alive, NEW h \in Guarded, GetTokenPayload(r, s, h)
        PROVE HandlerTypes' /\ Moves(r) /\ UNCHANGED userVars
    BY <2>1 DEF GetTokenPayload, Alive
  <2>2. CASE GetCurrentUser(r)
    <3>1. CASE End(r)
      BY <2>2, <3>1, <1>b DEF GetCurrentUser
    <3>2. CASE ~End(r)
      <4>1. /\ pc' = [pc EXCEPT ![r] = "commit"] /\ seen' = [seen EXCEPT ![r] = password]
            /\ UNCHANGED <<sid, jti, todo, page, before, userVars>>
        BY <2>2, <3>2 DEF GetCurrentUser
      <4>2. HandlerTypes'
        BY <4>1
      <4>3. OthersStay(r) /\ Rests(r)
        BY <4>1
      <4> QED  BY <4>1, <4>2, <4>3
    <3> QED  BY <3>1, <3>2
  <2>3. CASE Logout(r) \/ Revoked(r)
    BY <2>3, <1>b DEF Logout, Revoked
  <2>4. CASE BeginScan(r)
    BY <2>4 DEF BeginScan, Alive, Scans
  <2>5. CASE DeletePage(r)
    BY <2>5 DEF DeletePage, Scans
  <2>6. ASSUME NEW keys \in SUBSET Alive, ScanPage(r, keys)
        PROVE HandlerTypes' /\ Moves(r) /\ UNCHANGED userVars
    BY <2>6 DEF ScanPage, Alive, Scans
  <2>7. ASSUME NEW n \in 0..changes, ChangePassword(r, n)
        PROVE  /\ HandlerTypes' /\ Moves(r)
               /\ password' \in 0..MaxPasswords /\ changes' \in 0..MaxPasswords /\ active' = active
    <3>1. CASE VerifyPassword(n, seen[r])
      <4>1. /\ SetPassword(changes + 1) /\ Goto(r, "revokeAll")
            /\ UNCHANGED <<sid, jti, seen, todo, page, before, active>>
        BY <2>7, <3>1 DEF ChangePassword
      <4>2. password' \in 0..MaxPasswords /\ changes' \in 0..MaxPasswords
        BY <4>1 DEF SetPassword
      <4> QED  BY <4>1, <4>2
    <3>2. CASE ~ VerifyPassword(n, seen[r])
      BY <2>7, <3>2, <1>b DEF ChangePassword
    <3> QED  BY <3>1, <3>2
  <2> QED  BY <1>3, <2>1, <2>2, <2>3, <2>4, <2>5, <2>6, <2>7 DEF Authorized, RevokeAllSessions
<1>4. ASSUME NEW r \in Requests, Abort(r) PROVE HandlerTypes' /\ Moves(r) /\ UNCHANGED userVars
  BY <1>4, <1>b DEF Abort
<1>5. CASE CreateSuperuser \/ Deactivate
  <2>1. UNCHANGED handlerVars /\ active' \in BOOLEAN
    BY <1>5 DEF CreateSuperuser, Deactivate
  <2>2. password' \in 0..MaxPasswords /\ changes' \in 0..MaxPasswords
    BY <1>5 DEF CreateSuperuser, Deactivate, SetPassword
  <2> QED  BY <2>1, <2>2
<1>6. CASE \E s \in Sessions : Expire(s)
  BY <1>6 DEF Expire
<1> QED  BY <1>1, <1>2, <1>3, <1>4, <1>5, <1>6 DEF Next

LEMMA TypeStep ==
  ASSUME SessionsAssumption, IInv, Next
  PROVE  TypeOK'
<1>1. /\ HandlerTypes'
      /\ password' \in 0..MaxPasswords /\ changes' \in 0..MaxPasswords /\ active' \in BOOLEAN
  BY HandlerEffect DEF IInv
<1>2. TokenTypes'
  <2> USE DEF TokenTypes, IInv, TypeOK, SessionsAssumption, Missing, Sessions, Tokens
  <2>1. CASE OnlyDeletes /\ given' = given
    BY <2>1 DEF OnlyDeletes
  <2>2. CASE OnlyDeletes /\ \E r \in Requests : Answer(r)
    <3>0. PICK r \in Requests : Answer(r)
      BY <2>2
    <3>1. given' \subseteq Tokens
      <4>1. jti[r] \in Tokens
        BY <3>0 DEF Answer, TokenInHand
      <4> QED  BY <3>0, <4>1 DEF Answer
    <3> QED  BY <2>2, <3>1 DEF OnlyDeletes
  <2>3. ASSUME NEW r \in Requests, NewToken(r), Opens(r) PROVE TokenTypes'
    BY <2>3 DEF NewToken, Opens
  <2>4. ASSUME NEW r \in Requests, NewToken(r), Exchanges(r) PROVE TokenTypes'
    <3>1. jti[r] \in Tokens /\ sid[r] \in Sessions
      BY <2>4 DEF Exchanges, TokenInHand, TokenInv, TokensHaveSessions
    <3>2. session' \in [Sessions -> Tokens \cup {Missing}]
      BY <3>1, <2>4 DEF NewToken, Exchanges
    <3>3. exchanges' \in [Tokens -> Nat]
      <4>1. exchanges[jti[r]] + 1 \in Nat
        BY <3>1
      <4> QED  BY <4>1, <2>4 DEF Exchanges
    <3>4. sessionOf' \in [Tokens -> Sessions \cup {Missing}]
      BY <3>1, <2>4 DEF NewToken, Exchanges
    <3> QED  BY <3>2, <3>3, <3>4, <2>4 DEF NewToken, Exchanges
  <2> QED  BY <2>1, <2>2, <2>3, <2>4, TokenEffect DEF NewToken
<1> QED  BY <1>1, <1>2 DEF TypeOK, TokenTypes, HandlerTypes

-----------------------------------------------------------------------------
(* Tokens. *)

LEMMA TokenStep ==
  ASSUME SessionsAssumption, IInv, Next
  PROVE  TokenInv'
<1> USE DEF IInv, TypeOK, SessionsAssumption, Missing, Sessions, Tokens, TokenInv
<1>1. CASE OnlyDeletes
  <2>1. given' \subseteq 1..made'
    BY <1>1, TokenEffect DEF OnlyDeletes, NewToken, Answer, TokenInHand, TokensHaveSessions
  <2> QED  BY <1>1, <2>1 DEF OnlyDeletes, KeyHoldsItsToken, TokensHaveSessions, SpentIsPast
<1>2. ASSUME NEW r \in Requests, NewToken(r), Opens(r) PROVE TokenInv'
  <2> USE <1>2 DEF NewToken, Opens
  <2>1. KeyHoldsItsToken'
    BY DEF KeyHoldsItsToken
  <2>2. TokensHaveSessions'
    BY SMTT(30) DEF TokensHaveSessions
  <2>3. SpentIsPast'
    BY DEF SpentIsPast
  <2> QED  BY <2>1, <2>2, <2>3
<1>3. ASSUME NEW r \in Requests, NewToken(r), Exchanges(r) PROVE TokenInv'
  <2> USE <1>3 DEF NewToken, Exchanges
  <2>0. /\ jti[r] \in 1..made /\ sid[r] = sessionOf[jti[r]]
        /\ sid[r] \in 1..opened /\ exchanges[jti[r]] = 0
    BY SMTT(30) DEF TokenInHand, TokensHaveSessions, SpentIsPast
  <2>1. KeyHoldsItsToken'
    BY SMTT(30), <2>0 DEF KeyHoldsItsToken
  <2>2. TokensHaveSessions'
    BY SMTT(30), <2>0 DEF TokensHaveSessions
  <2>3. SpentIsPast'
    BY <2>0 DEF SpentIsPast, KeyHoldsItsToken
  <2> QED  BY <2>1, <2>2, <2>3
<1> QED  BY <1>1, <1>2, <1>3, TokenEffect DEF NewToken

\* Session ids and jtis are handed out in turn and keep their meaning; and what is
\* not there does not come back.
LEMMA Onwards ==
  ASSUME SessionsAssumption, IInv, Next
  PROVE  /\ opened <= opened' /\ made <= made'
         /\ \A j \in 1..made : sessionOf'[j] = sessionOf[j]
         /\ \A s \in 1..opened : session[s] = Missing => session'[s] = Missing
<1> USE DEF IInv, TypeOK, SessionsAssumption, Missing, Sessions, Tokens
<1>1. CASE OnlyDeletes
  BY <1>1 DEF OnlyDeletes
<1>2. ASSUME NEW r \in Requests, NewToken(r), Opens(r)
      PROVE  /\ opened <= opened' /\ made <= made'
             /\ \A j \in 1..made : sessionOf'[j] = sessionOf[j]
             /\ \A s \in 1..opened : session[s] = Missing => session'[s] = Missing
  BY <1>2 DEF NewToken, Opens
<1>3. ASSUME NEW r \in Requests, NewToken(r), Exchanges(r)
      PROVE  /\ opened <= opened' /\ made <= made'
             /\ \A j \in 1..made : sessionOf'[j] = sessionOf[j]
             /\ \A s \in 1..opened : session[s] = Missing => session'[s] = Missing
  <2>1. jti[r] # Missing
    BY <1>3 DEF Exchanges, TokenInHand
  <2> QED  BY <1>3, <2>1 DEF NewToken, Exchanges
<1> QED  BY <1>1, <1>2, <1>3, TokenEffect DEF NewToken

\* What a handler has in hand is a token of its session.
LEMMA HandStep ==
  ASSUME SessionsAssumption, IInv, Next
  PROVE  TokenInHand'
<1> DEFINE InHand(r) ==
      /\ pc[r] \in {"reused", "load", "rotate", "answer"} => jti[r] \in 1..made
      /\ pc[r] \in {"reused", "load", "rotate"} => sid[r] = sessionOf[jti[r]]
<1> USE DEF IInv, TypeOK, SessionsAssumption, Missing, Sessions, Tokens
<1>0. /\ made \in Nat /\ made' \in Nat /\ made <= made'
      /\ \A j \in 1..made : sessionOf'[j] = sessionOf[j]
      /\ \A r \in Requests : InHand(r)
  <2>1. made \in Nat /\ made' \in Nat
    BY TypeStep
  <2>2. \A r \in Requests : InHand(r)
    BY DEF TokenInHand
  <2> QED  BY <2>1, <2>2, Onwards
<1>1. ASSUME NEW r \in Requests, pc'[r] = pc[r], sid'[r] = sid[r], jti'[r] = jti[r] PROVE InHand(r)'
  BY <1>0, <1>1
<1>2. ASSUME NEW r \in Requests, Rests(r) PROVE InHand(r)'
  BY <1>2 DEF Rests
<1>3. ASSUME NEW r \in Requests, Takes(r) PROVE InHand(r)'
  <2>1. CASE \E j \in given : pc'[r] \in {"reused", "load"} /\ jti'[r] = j /\ sid'[r] = sessionOf[j]
    <3>1. PICK j \in given : pc'[r] \in {"reused", "load"} /\ jti'[r] = j /\ sid'[r] = sessionOf[j]
      BY <2>1
    <3>2. j \in 1..made /\ sessionOf'[j] = sessionOf[j]
      BY <1>0 DEF TokenInv, TokensHaveSessions
    <3> QED  BY <3>1, <3>2, <1>0
  <2>2. CASE pc[r] = "load" /\ pc'[r] = "rotate" /\ jti'[r] = jti[r] /\ sid'[r] = sid[r]
    BY <2>2, <1>0
  <2>3. CASE pc'[r] = "answer" /\ jti'[r] = made + 1 /\ made' = made + 1
    BY <2>3, <1>0
  <2> QED  BY <1>3, <2>1, <2>2, <2>3 DEF Takes
<1>4. ASSUME NEW r \in Requests, Scans(r) PROVE InHand(r)'
  <2>1. pc'[r] \in {"scan", "delete", "revoked"}
    BY <1>4 DEF Scans, BeginScan, ScanPage, DeletePage, Goto
  <2> QED  BY <2>1
<1> HIDE DEF InHand
<1>5. \A r \in Requests : InHand(r)'
  BY <1>1, <1>2, <1>3, <1>4, HandlerEffect DEF Moves, OthersStay, handlerVars
<1> QED  BY <1>5 DEF InHand, TokenInHand

-----------------------------------------------------------------------------
(* revoke_all_sessions. *)

\* What other handlers and the clock do to a SCAN's sessions is harmless, because a
\* session that is gone does not come back and a new one was not there before.
LEMMA ScanStep ==
  ASSUME SessionsAssumption, IInv, Next
  PROVE  ScanMissesNone'
<1> DEFINE Scanned(r) ==
      /\ pc[r] \in {"scan", "delete", "revoked"} => before[r] \subseteq 1..opened
      /\ pc[r] \in {"scan", "revoked"} => before[r] \cap Alive \subseteq todo[r] \cup {sid[r]}
      /\ pc[r] = "delete" => before[r] \cap Alive \subseteq todo[r] \cup page[r] \cup {sid[r]}
      /\ pc[r] = "revoked" => todo[r] = {}
<1> USE DEF IInv, TypeOK, SessionsAssumption, Missing, Sessions, Tokens, Alive
<1>0. /\ opened \in Nat /\ opened' \in Nat /\ opened <= opened'
      /\ Alive' \cap 1..opened \subseteq Alive
      /\ \A r \in Requests : Scanned(r)
  <2>1. opened \in Nat /\ opened' \in Nat
    BY TypeStep
  <2>2. \A r \in Requests : Scanned(r)
    BY DEF ScanMissesNone
  <2> QED  BY <2>1, <2>2, Onwards
<1>1. ASSUME NEW r \in Requests, pc'[r] = pc[r], sid'[r] = sid[r], before'[r] = before[r],
             todo'[r] = todo[r], page'[r] = page[r]
      PROVE  Scanned(r)'
  BY <1>0, <1>1
<1>2. ASSUME NEW r \in Requests, Rests(r) \/ Takes(r) PROVE Scanned(r)'
  BY <1>2 DEF Rests, Takes
<1>3. ASSUME NEW r \in Requests, Scans(r) PROVE Scanned(r)'
  <2>1. CASE BeginScan(r)
    <3>1. pc'[r] = "scan" /\ session' = session /\ before'[r] = Alive /\ todo'[r] = Alive
      BY <2>1 DEF BeginScan, Goto, tokenVars
    <3>2. Alive \subseteq 1..opened
      BY DEF TokenInv, KeyHoldsItsToken
    <3> QED  BY <3>1, <3>2, <1>0
  <2>2. ASSUME NEW keys \in SUBSET Alive, ScanPage(r, keys) PROVE Scanned(r)'
    <3>1. /\ pc[r] = "scan" /\ pc'[r] = "delete" /\ page'[r] = keys /\ before'[r] = before[r]
          /\ sid'[r] = sid[r] /\ todo'[r] = (todo[r] \ keys) \cap Alive /\ session' = session
      BY <2>2 DEF ScanPage, Goto, tokenVars
    <3> QED  BY <3>1, <1>0
  <2>3. CASE DeletePage(r)
    <3>1. /\ pc[r] = "delete" /\ pc'[r] \in {"revoked", "scan"} /\ (pc'[r] = "revoked" => todo[r] = {})
          /\ before'[r] = before[r] /\ sid'[r] = sid[r] /\ todo'[r] = todo[r]
      BY <2>3 DEF DeletePage, Goto
    <3>2. Alive' \cap page[r] \subseteq {sid[r]}
      BY <2>3 DEF DeletePage, Delete
    <3> QED  BY <3>1, <3>2, <1>0
  <2> QED  BY <1>3, <2>1, <2>2, <2>3 DEF Scans
<1> HIDE DEF Scanned
<1>4. \A r \in Requests : Scanned(r)'
  BY <1>1, <1>2, <1>3, HandlerEffect DEF Moves, OthersStay, handlerVars
<1> QED  BY <1>4 DEF Scanned, ScanMissesNone

-----------------------------------------------------------------------------
(* The theorems. *)

LEMMA InvStart == SessionsAssumption /\ Init => IInv
  BY DEF SessionsAssumption, Init, IInv, TypeOK, TokenInv, KeyHoldsItsToken, TokensHaveSessions,
         SpentIsPast, TokenInHand, ScanMissesNone, Missing, Sessions, Tokens, Steps, Guarded

LEMMA InvStutter == IInv /\ UNCHANGED vars => IInv'
  BY DEF vars, userVars, tokenVars, handlerVars, IInv, TypeOK, TokenInv, KeyHoldsItsToken,
         TokensHaveSessions, SpentIsPast, TokenInHand, ScanMissesNone, Alive

\* The inductive invariant, for any number of handlers, sessions and tokens.
THEOREM Invariant == Spec => []IInv
<1>1. IInv /\ [Next]_vars => IInv'
  BY SessionsAssumption, TypeStep, TokenStep, HandStep, ScanStep, InvStutter DEF IInv
<1> QED  BY <1>1, InvStart, SessionsAssumption, PTL DEF Spec

\* No refresh token is exchanged twice, however many requests bring it at once.
THEOREM TokensAreExchangedOnce == Spec => []ExchangedOnce
<1>1. IInv => ExchangedOnce
  BY DEF IInv, TokenInv, SpentIsPast, ExchangedOnce
<1> QED  BY <1>1, Invariant, PTL

\* When revoke_all_sessions returns, at most the caller's own session is left of
\* those that were there when it began.
THEOREM RevocationIsComplete == Spec => []RevokeAllIsComplete
<1>1. IInv => RevokeAllIsComplete
  BY DEF IInv, ScanMissesNone, RevokeAllIsComplete
<1> QED  BY <1>1, Invariant, PTL

\* No step of anyone brings a session back that was logged out, revoked or killed.
THEOREM SessionsStayDead == Spec => RevokedStaysDead
<1>1. IInv /\ [Next]_vars => [\A s \in 1..opened : session[s] = Missing => session'[s] = Missing]_vars
  BY SessionsAssumption, Onwards
<1> QED  BY <1>1, Invariant, PTL DEF Spec, RevokedStaysDead

-----------------------------------------------------------------------------
(* Roles and the admin panel (AdminLogin, IdmRoles): what the cache of     *)
(* permissions may hold, and what the mirror of admin_panel says.          *)

Pending == \E w \in Writers : writer[w] = "invalidate"

\* What is in the cache, or about to be: roles that are, or were, and exactly
\* the assigned ones of those left, unless a DEL is to come, came too early or
\* was lost.
EntryInv(e) ==
  \/ e = NoEntry
  \/ /\ e.roles \subseteq defined \cup dropped
     /\ e.roles \cap defined = assigned \/ e.late \/ missed \/ Pending

CacheInv ==
  /\ IdmTypeOK
  /\ EntryInv(cache)
  /\ \A c \in Checks : EntryInv(read[c])

\* Whoever writes is known to all who write beside it, and to the last to finish.
\* A sign-in whose permissions are being written has left nothing in the mirror
\* that neither it nor one beside it was told, but for what is still unsynced.
Synced(s) ==
  /\ \E u \in beside[s] : mirror.staff = u.staff /\ mirror.super = u.super
  /\ \A p \in Perms \ unsynced[s] : \E u \in beside[s] : p \in mirror.perms <=> p \in u.perms

MirrorTypes ==
  /\ mirror \in Rights /\ exists \in BOOLEAN
  /\ step \in [SignIns -> {"idle", "allow", "clock", "login", "profile", "roles", "trip",
                           "degraded", "save", "revoke", "sync"}]
  /\ found \in [SignIns -> Users]
  /\ unsynced \in [SignIns -> SUBSET Perms]
  /\ beside \in [SignIns -> SUBSET Rights]

MirrorInv ==
  /\ MirrorTypes
  /\ \A s \in SignIns : Writing(s) =>
       /\ Told(found[s]) \in recent
       /\ \A t \in SignIns : Writing(t) => Told(found[t]) \in beside[s]
  /\ \A s \in SignIns :
       /\ step[s] = "save" => HasRights(found[s])
       /\ step[s] = "revoke" => ~HasRights(found[s])
       /\ step[s] = "sync" => Synced(s)
  /\ MirrorWasTold

-----------------------------------------------------------------------------
(* The cache. *)

LEMMA GrantedIsPerms == IdmTypeOK => Granted \in SUBSET Perms
  BY DEF IdmTypeOK, Granted

\* An edit of a role leaves every entry as good as it was.
LEMMA EditKeepsEntries ==
  ASSUME IdmTypeOK, NEW r \in Roles, NEW ps \in SUBSET Perms,
         CreateRole(r, ps) \/ UpdateRole(r, ps) \/ DeleteRole(r), NEW e, EntryInv(e)
  PROVE  EntryInv(e)'
<1>1. CASE CreateRole(r, ps)
  BY <1>1 DEF CreateRole, EntryInv, Pending, IdmTypeOK
<1>2. CASE UpdateRole(r, ps)
  BY <1>2 DEF UpdateRole, EntryInv, Pending, IdmTypeOK
<1>3. CASE DeleteRole(r)
  BY <1>3 DEF DeleteRole, EntryInv, Pending, IdmTypeOK
<1> QED  BY <1>1, <1>2, <1>3

\* A change of the user's roles excuses every entry by the DEL it is to send.
LEMMA AssignmentKeepsEntries ==
  ASSUME IdmTypeOK, NEW w \in Writers, NEW r \in Roles,
         AssignRole(w, r) \/ RemoveRole(w, r), NEW e, EntryInv(e)
  PROVE  EntryInv(e)'
<1>1. Pending'
  BY DEF AssignRole, RemoveRole, Pending, IdmTypeOK
<1> QED  BY <1>1 DEF AssignRole, RemoveRole, EntryInv, IdmTypeOK

LEMMA CacheStep == CacheInv /\ IdmNext /\ calm' = calm => CacheInv'
<1> SUFFICES ASSUME CacheInv, IdmNext, calm' = calm PROVE CacheInv'
  OBVIOUS
<1> USE DEF CacheInv
<1>1. ASSUME NEW r \in Roles, NEW ps \in SUBSET Perms,
             CreateRole(r, ps) \/ UpdateRole(r, ps) \/ DeleteRole(r)
      PROVE  CacheInv'
  <2>1. IdmTypeOK'
    BY <1>1 DEF IdmTypeOK, CreateRole, UpdateRole, DeleteRole
  <2>2. cache' = cache /\ read' = read
    BY <1>1 DEF CreateRole, UpdateRole, DeleteRole
  <2>3. ASSUME NEW e, EntryInv(e) PROVE EntryInv(e)'
    BY <1>1, <2>3, EditKeepsEntries
  <2> QED  BY <2>1, <2>2, <2>3 DEF EntryInv, Pending
<1>2. ASSUME NEW w \in Writers, NEW r \in Roles, AssignRole(w, r) \/ RemoveRole(w, r)
      PROVE  CacheInv'
  <2>1. IdmTypeOK'
    BY <1>2 DEF IdmTypeOK, AssignRole, RemoveRole
  <2>2. cache' = cache /\ read' = read
    BY <1>2 DEF AssignRole, RemoveRole
  <2>3. ASSUME NEW e, EntryInv(e) PROVE EntryInv(e)'
    BY <1>2, <2>3, AssignmentKeepsEntries
  <2> QED  BY <2>1, <2>2, <2>3 DEF EntryInv, Pending
<1>3. ASSUME NEW w \in Writers, InvalidateCache(w)
      PROVE  CacheInv'
  <2>1. ASSUME NEW c \in Checks, read[c] # NoEntry
        PROVE  /\ [read[c] EXCEPT !.late = TRUE] \in Entries
               /\ [read[c] EXCEPT !.late = TRUE].late
               /\ [read[c] EXCEPT !.late = TRUE].roles = read[c].roles
    <3>1. read[c] \in Entries
      BY <2>1 DEF IdmTypeOK
    <3> QED  BY <3>1 DEF Entries
  <2>2. IdmTypeOK'
    <3> HIDE DEF CacheInv
    <3>1. read' \in [Checks -> Entries \cup {NoEntry}]
      BY <1>3, <2>1 DEF InvalidateCache
    <3> QED  BY <1>3, <3>1 DEF InvalidateCache, IdmTypeOK, CacheInv
  <2>3. ASSUME NEW c \in Checks PROVE EntryInv(read[c])'
    <3>1. read'[c] = IF read[c] = NoEntry THEN NoEntry ELSE [read[c] EXCEPT !.late = TRUE]
      BY <1>3 DEF InvalidateCache
    <3>2. CASE read[c] = NoEntry
      BY <3>1, <3>2 DEF EntryInv
    <3>3. CASE read[c] # NoEntry
      <4>1. read[c].roles \subseteq defined \cup dropped
        BY <3>3 DEF EntryInv
      <4>2. UNCHANGED <<defined, dropped>>
        BY <1>3 DEF InvalidateCache
      <4> QED  BY <3>1, <3>3, <2>1, <4>1, <4>2 DEF EntryInv
    <3> QED  BY <3>2, <3>3
  <2> QED  BY <1>3, <2>2, <2>3 DEF InvalidateCache, EntryInv
<1>4. ASSUME NEW w \in Writers, WriterFails(w)
      PROVE  CacheInv'
  BY <1>4 DEF WriterFails, IdmTypeOK, EntryInv
<1>5. ASSUME NEW c \in Checks, CheckStep(c) \/ CheckFails(c)
      PROVE  CacheInv'
  <2>0. UNCHANGED <<defined, dropped, grants, assigned, writer, missed>>
    BY <1>5 DEF CheckStep, ReadCache, SelectPermissions, StoreCache, CheckFails
  <2> DEFINE new == [value |-> Granted, roles |-> assigned, late |-> FALSE]
  <2>1. new \in Entries /\ EntryInv(new)
    BY GrantedIsPerms DEF Entries, EntryInv, IdmTypeOK
  <2> HIDE DEF new
  <2>2. /\ check' \in [Checks -> {"idle", "select", "store"}]
        /\ cache' \in {cache} \cup {read[d] : d \in Checks}
        /\ read' \in [Checks -> Entries \cup {NoEntry}]
        /\ \A d \in Checks : read'[d] \in {read[d], NoEntry, new}
    <3>1. CASE ReadCache(c)
      BY <3>1 DEF ReadCache, IdmTypeOK
    <3>2. CASE SelectPermissions(c)
      BY <3>2, <2>1 DEF SelectPermissions, IdmTypeOK, new
    <3>3. CASE StoreCache(c)
      BY <3>3 DEF StoreCache, IdmTypeOK
    <3>4. CASE CheckFails(c)
      BY <3>4 DEF CheckFails, IdmTypeOK
    <3> QED  BY <1>5, <3>1, <3>2, <3>3, <3>4 DEF CheckStep
  <2>3. IdmTypeOK'
    BY <2>0, <2>2 , <1>5 DEF IdmTypeOK, CheckStep, ReadCache, SelectPermissions, StoreCache, CheckFails
  <2>4. ASSUME NEW e, EntryInv(e) PROVE EntryInv(e)'
    BY <2>0, <2>4 DEF EntryInv, Pending
  <2>5. EntryInv(NoEntry)
    BY DEF EntryInv
  <2>6. EntryInv(cache)'
    <3>1. CASE cache' = cache
      BY <2>4, <3>1 DEF EntryInv, Pending
    <3>2. ASSUME NEW d \in Checks, cache' = read[d] PROVE EntryInv(cache)'
      <4>1. EntryInv(read[d])
        OBVIOUS
      <4> QED  BY <2>0, <3>2, <4>1 DEF EntryInv, Pending
    <3> QED  BY <2>2, <3>1, <3>2
  <2>7. ASSUME NEW d \in Checks PROVE EntryInv(read[d])'
    <3>1. CASE read'[d] = read[d]
      <4>1. EntryInv(read[d])
        OBVIOUS
      <4> QED  BY <2>0, <3>1, <4>1 DEF EntryInv, Pending
    <3>2. CASE read'[d] = NoEntry
      BY <3>2 DEF EntryInv
    <3>3. CASE read'[d] = new
      BY <2>0, <2>1, <3>3 DEF EntryInv, Pending
    <3> QED  BY <2>2, <2>7, <3>1, <3>2, <3>3
  <2> QED  BY <2>3, <2>6, <2>7
<1>6. CASE ExpireCache
  BY <1>6 DEF ExpireCache, IdmTypeOK, EntryInv, Pending
<1> QED  BY <1>1, <1>2, <1>3, <1>4, <1>5, <1>6 DEF IdmNext, EditRoles, IdmFailure

-----------------------------------------------------------------------------
(* The mirror. *)

LEMMA ToldIsRights == ASSUME NEW user \in Users PROVE Told(user) \in Rights
  BY DEF Told, Rights, Users, HasRights, IsAdmin

LEMMA MirrorStutter ==
  MirrorInv /\ UNCHANGED <<mirrorVars, signInVars>> => MirrorInv'
<1> SUFFICES ASSUME MirrorInv, UNCHANGED <<mirrorVars, signInVars>> PROVE MirrorInv'
  OBVIOUS
<1>1. UNCHANGED <<mirror, exists, beside, recent, step, found, unsynced>>
  BY DEF mirrorVars, signInVars
<1> QED  BY <1>1 DEF MirrorInv, MirrorTypes, MirrorWasTold, Synced, Writing, HasRights, IsAdmin, Told

\* A sign-in that is not writing, and does not begin to, may do as it likes with
\* what it was told.
LEMMA AskKeepsMirror ==
  ASSUME MirrorInv, NEW s \in SignIns, UNCHANGED <<mirror, exists, recent>>,
         NEW at \in {"idle", "allow", "clock", "login", "profile", "roles", "trip", "degraded"},
         step' = [step EXCEPT ![s] = at],
         found' \in [SignIns -> Users], unsynced' \in [SignIns -> SUBSET Perms],
         beside' \in [SignIns -> SUBSET Rights],
         \A t \in SignIns \ {s} :
           found'[t] = found[t] /\ unsynced'[t] = unsynced[t] /\ beside'[t] = beside[t]
  PROVE  MirrorInv'
<1>1. MirrorTypes'
  BY DEF MirrorInv, MirrorTypes
<1>2. ~Writing(s)' /\ step'[s] = at
  BY DEF MirrorInv, MirrorTypes, Writing
<1>3. ASSUME NEW t \in SignIns, t # s
      PROVE  /\ step'[t] = step[t] /\ found'[t] = found[t] /\ unsynced'[t] = unsynced[t]
             /\ beside'[t] = beside[t] /\ (Writing(t)' <=> Writing(t))
  BY <1>3 DEF MirrorInv, MirrorTypes, Writing
<1>4. ASSUME NEW t \in SignIns, Writing(t)'
      PROVE  /\ Told(found'[t]) \in recent'
             /\ \A w \in SignIns : Writing(w)' => Told(found'[w]) \in beside'[t]
  <2>1. t # s
    BY <1>2, <1>4
  <2> QED  BY <1>2, <1>3, <1>4, <2>1 DEF MirrorInv
<1>5. ASSUME NEW t \in SignIns
      PROVE  /\ step'[t] = "save" => HasRights(found'[t])
             /\ step'[t] = "revoke" => ~HasRights(found'[t])
             /\ step'[t] = "sync" => Synced(t)'
  <2>1. CASE t = s
    BY <1>2, <2>1 DEF Writing
  <2>2. CASE t # s
    <3>1. step[t] = "sync" => Synced(t)
      BY DEF MirrorInv
    <3>2. step'[t] = "sync" => Synced(t)'
      BY <1>3, <2>2, <3>1 DEF Synced
    <3>3. /\ step[t] = "save" => HasRights(found[t])
          /\ step[t] = "revoke" => ~HasRights(found[t])
      BY DEF MirrorInv
    <3> QED  BY <1>3, <2>2, <3>2, <3>3
  <2> QED  BY <2>1, <2>2
<1>6. MirrorWasTold'
  BY DEF MirrorInv, MirrorWasTold
<1>7. /\ \A t \in SignIns : Writing(t)' =>
           /\ Told(found'[t]) \in recent'
           /\ \A w \in SignIns : Writing(w)' => Told(found'[w]) \in beside'[t]
      /\ \A t \in SignIns :
           /\ step'[t] = "save" => HasRights(found'[t])
           /\ step'[t] = "revoke" => ~HasRights(found'[t])
           /\ step'[t] = "sync" => Synced(t)'
  BY <1>4, <1>5
<1> QED  BY <1>1, <1>6, <1>7 DEF MirrorInv, Told, HasRights, IsAdmin

\* The steps of a sign-in up to its decision, and its end.
LEMMA AskingKeepsMirror ==
  ASSUME MirrorInv, IdmTypeOK, superuser \in BOOLEAN, NEW s \in SignIns,
         NEW outcome \in {"ok", "rejected", "down"},
         \/ Begin(s) \/ AllowRequest(s) \/ CompareClock(s) \/ Trip(s)
         \/ PostLogin(s, outcome) \/ GetProfile(s, outcome)
         \/ AuthenticateDegraded(s) \/ NoLocalUser(s) \/ SignInDies(s)
  PROVE  MirrorInv'
<1> DEFINE asks == {"idle", "allow", "clock", "login", "profile", "roles", "trip", "degraded"}
           profile == [roles |-> assigned, perms |-> {}, super |-> superuser]
<1>1. profile \in Users /\ Nothing \in Users
  BY DEF Nothing, Users, IdmTypeOK
<1>2. MirrorTypes
  BY DEF MirrorInv
<1> HIDE DEF profile
<1>3. /\ UNCHANGED <<mirror, exists, recent>>
      /\ \E at \in asks : step' = [step EXCEPT ![s] = at]
      /\ \/ found' = found
         \/ found' = [found EXCEPT ![s] = Nothing]
         \/ found' = [found EXCEPT ![s] = profile]
      /\ unsynced' = unsynced \/ unsynced' = [unsynced EXCEPT ![s] = {}]
      /\ beside' = beside \/ beside' = [beside EXCEPT ![s] = {}]
  <2>1. CASE Begin(s) \/ AllowRequest(s) \/ Trip(s)
    BY <2>1 DEF Begin, AllowRequest, Trip, Move, mirrorVars
  <2>2. CASE CompareClock(s)
    BY <2>2 DEF CompareClock, Move, Leave, mirrorVars
  <2>3. CASE PostLogin(s, outcome)
    <3>1. CASE outcome = "ok"
      BY <2>3, <3>1 DEF PostLogin, Answered, Move
    <3>2. CASE outcome = "rejected"
      BY <2>3, <3>2 DEF PostLogin, Answered, Move, Leave
    <3>3. CASE outcome = "down"
      BY <2>3, <3>3 DEF PostLogin, Answered, RecordFailure, Move
    <3> QED  BY <3>1, <3>2, <3>3
  <2>4. CASE GetProfile(s, outcome)
    <3>1. CASE outcome = "ok"
      BY <2>4, <3>1 DEF GetProfile, Answered, Move, profile
    <3>2. CASE outcome = "rejected"
      BY <2>4, <3>2 DEF GetProfile, Answered, Move, Leave
    <3>3. CASE outcome = "down"
      BY <2>4, <3>3 DEF GetProfile, Answered, RecordFailure, Move
    <3> QED  BY <3>1, <3>2, <3>3
  <2>5. CASE AuthenticateDegraded(s) \/ NoLocalUser(s) \/ SignInDies(s)
    BY <2>5 DEF AuthenticateDegraded, NoLocalUser, SignInDies, Move, Leave
  <2> QED  BY <2>1, <2>2, <2>3, <2>4, <2>5
<1>4. PICK at \in asks : step' = [step EXCEPT ![s] = at]
  BY <1>3
<1>5. /\ found' \in [SignIns -> Users]
      /\ \A t \in SignIns \ {s} : found'[t] = found[t]
  BY <1>1, <1>2, <1>3 DEF MirrorTypes
<1>6. /\ unsynced' \in [SignIns -> SUBSET Perms] /\ beside' \in [SignIns -> SUBSET Rights]
      /\ \A t \in SignIns \ {s} : unsynced'[t] = unsynced[t] /\ beside'[t] = beside[t]
  BY <1>2, <1>3 DEF MirrorTypes
<1> QED  BY <1>3, <1>4, <1>5, <1>6, AskKeepsMirror

\* It decides: everybody who writes hears of it.
LEMMA FetchKeepsMirror ==
  ASSUME MirrorInv, IdmTypeOK, NEW s \in SignIns, NEW outcome, FetchPermissions(s, outcome)
  PROVE  MirrorInv'
<1> DEFINE user == [found[s] EXCEPT !.perms =
                      IF outcome = "ok" THEN UNION {grants[r] : r \in found[s].roles \cap defined}
                      ELSE {}]
<1>0. MirrorTypes
  BY DEF MirrorInv
<1>1. user \in Users
  <2>1. UNION {grants[r] : r \in found[s].roles \cap defined} \in SUBSET Perms
    BY DEF IdmTypeOK
  <2>2. found[s] \in Users
    BY <1>0 DEF MirrorTypes
  <2> QED  BY <2>1, <2>2 DEF Users
<1>2. Decide(s, user) /\ UNCHANGED <<mirror, exists, unsynced>> /\ step[s] = "roles"
  BY DEF FetchPermissions
<1> HIDE DEF user
<1> DEFINE at == IF HasRights(user) THEN "save" ELSE "revoke"
           others == {Told(found[w]) : w \in {w \in SignIns : Writing(w)}}
<1>3. /\ step' = [step EXCEPT ![s] = at] /\ found' = [found EXCEPT ![s] = user]
      /\ recent' = recent \cup {Told(user)}
  BY <1>2 DEF Decide, Move
<1>4. ASSUME NEW t \in SignIns
      PROVE  beside'[t] =
               IF t = s THEN {Told(user)} \cup others
               ELSE IF Writing(t) THEN beside[t] \cup {Told(user)} ELSE beside[t]
  BY <1>2, <1>4 DEF Decide
<1>5. step'[s] = at /\ found'[s] = user /\ Writing(s)'
  BY <1>0, <1>3 DEF MirrorTypes, Writing
<1>6. ASSUME NEW t \in SignIns, t # s
      PROVE  step'[t] = step[t] /\ found'[t] = found[t] /\ (Writing(t)' <=> Writing(t))
  BY <1>0, <1>3, <1>6 DEF MirrorTypes, Writing
<1>7. Told(user) \in Rights /\ others \in SUBSET Rights
  BY <1>0, <1>1, ToldIsRights DEF MirrorTypes
<1>13. \A w \in SignIns : Writing(w) => Told(found[w]) \in others
  OBVIOUS
<1> HIDE DEF others
<1>8. MirrorTypes'
  <2>1. beside' \in [SignIns -> SUBSET Rights]
    <3>1. \A t \in SignIns : beside'[t] \in SUBSET Rights
      BY <1>0, <1>4, <1>7 DEF MirrorTypes
    <3>2. beside' = [t \in SignIns |-> beside'[t]]
      BY <1>2, ZenonT(30) DEF Decide
    <3> QED  BY <3>1, <3>2
  <2> QED  BY <1>0, <1>1, <1>2, <1>3, <2>1 DEF MirrorTypes
<1>9. ASSUME NEW t \in SignIns, Writing(t)'
      PROVE  /\ Told(found'[t]) \in recent'
             /\ \A w \in SignIns : Writing(w)' => Told(found'[w]) \in beside'[t]
  <2>1. CASE t = s
    <3>0. Told(found'[t]) = Told(user)
      BY <1>5, <2>1
    <3>1. Told(found'[t]) \in recent' /\ beside'[t] = {Told(user)} \cup others
      <4>1. beside'[t] = {Told(user)} \cup others
        BY <1>4, <2>1
      <4>2. Told(user) \in recent'
        BY <1>3
      <4> QED  BY <3>0, <4>1, <4>2
    <3>2. ASSUME NEW w \in SignIns, Writing(w)' PROVE Told(found'[w]) \in beside'[t]
      <4>1. CASE w = s
        BY <1>5, <3>1, <4>1
      <4>2. CASE w # s
        BY <1>6, <1>13, <3>1, <3>2, <4>2
      <4> QED  BY <4>1, <4>2
    <3> QED  BY <3>1, <3>2
  <2>2. CASE t # s
    <3>1. /\ Told(found[t]) \in recent
          /\ \A w \in SignIns : Writing(w) => Told(found[w]) \in beside[t]
      BY <1>6, <1>9, <2>2 DEF MirrorInv
    <3>2. Told(found'[t]) \in recent' /\ beside'[t] = beside[t] \cup {Told(user)}
      <4>1. Writing(t) /\ found'[t] = found[t]
        BY <1>6, <1>9, <2>2
      <4>2. beside'[t] = beside[t] \cup {Told(user)}
        BY <1>4, <2>2, <4>1
      <4>3. Told(found'[t]) = Told(found[t])
        BY <4>1
      <4> QED  BY <1>3, <3>1, <4>2, <4>3
    <3>3. ASSUME NEW w \in SignIns, Writing(w)' PROVE Told(found'[w]) \in beside'[t]
      <4>1. CASE w = s
        BY <1>5, <3>2, <4>1
      <4>2. CASE w # s
        BY <1>6, <3>1, <3>2, <3>3, <4>2
      <4> QED  BY <4>1, <4>2
    <3> QED  BY <3>2, <3>3
  <2> QED  BY <2>1, <2>2
<1>10. ASSUME NEW t \in SignIns
       PROVE  /\ step'[t] = "save" => HasRights(found'[t])
              /\ step'[t] = "revoke" => ~HasRights(found'[t])
              /\ step'[t] = "sync" => Synced(t)'
  <2>1. CASE t = s
    BY <1>5, <2>1
  <2>2. CASE t # s
    <3>1. step[t] = "sync" => Synced(t)
      BY DEF MirrorInv
    <3>2. beside[t] \subseteq beside'[t]
      BY <1>4, <2>2
    <3>3. step'[t] = "sync" => Synced(t)'
      BY <1>2, <1>6, <2>2, <3>1, <3>2 DEF Synced
    <3>4. /\ step[t] = "save" => HasRights(found[t])
          /\ step[t] = "revoke" => ~HasRights(found[t])
      BY DEF MirrorInv
    <3> QED  BY <1>6, <2>2, <3>3, <3>4
  <2> QED  BY <2>1, <2>2
<1>11. MirrorWasTold'
  BY <1>2, <1>3 DEF MirrorInv, MirrorWasTold
<1>12. /\ \A t \in SignIns : Writing(t)' =>
            /\ Told(found'[t]) \in recent'
            /\ \A w \in SignIns : Writing(w)' => Told(found'[w]) \in beside'[t]
       /\ \A t \in SignIns :
            /\ step'[t] = "save" => HasRights(found'[t])
            /\ step'[t] = "revoke" => ~HasRights(found'[t])
            /\ step'[t] = "sync" => Synced(t)'
  BY <1>9, <1>10
<1> QED  BY <1>8, <1>11, <1>12 DEF MirrorInv, Told, HasRights, IsAdmin

\* It writes its two columns: for whoever syncs beside it, what one beside it was told.
LEMMA SaveKeepsMirror ==
  ASSUME MirrorInv, NEW s \in SignIns, SaveUser(s) \/ RevokeLocalAccess(s) PROVE MirrorInv'
<1>0. MirrorTypes
  BY DEF MirrorInv
<1> DEFINE told == Told(found[s])
<1>1. /\ mirror' \in Rights /\ mirror'.perms = mirror.perms
      /\ mirror'.staff = told.staff /\ mirror'.super = told.super
      /\ exists' \in BOOLEAN
  <2>1. CASE SaveUser(s)
    <3>1. HasRights(found[s])
      BY <2>1 DEF SaveUser, MirrorInv
    <3> QED  BY <1>0, <2>1, <3>1 DEF SaveUser, MirrorTypes, Rights, Users, Told, IsAdmin
  <2>2. CASE RevokeLocalAccess(s)
    <3>1. ~HasRights(found[s]) /\ ~IsAdmin(found[s])
      BY <2>2 DEF RevokeLocalAccess, MirrorInv, HasRights
    <3>2. HasRights(found[s]) = FALSE /\ IsAdmin(found[s]) = FALSE
      BY <1>0, <3>1 DEF HasRights, IsAdmin, MirrorTypes, Users
    <3>3. told.staff = FALSE /\ told.super = FALSE
      BY <3>2 DEF Told
    <3> QED  BY <1>0, <2>2, <3>3 DEF RevokeLocalAccess, MirrorTypes, Rights
  <2> QED  BY <2>1, <2>2
<1>2. /\ unsynced' = [unsynced EXCEPT ![s] = Perms]
      /\ step' = [step EXCEPT ![s] = "sync"]
      /\ UNCHANGED <<beside, recent, found>> /\ Writing(s)
  BY DEF SaveUser, RevokeLocalAccess, Move, Writing
<1>3. MirrorTypes'
  BY <1>0, <1>1, <1>2 DEF MirrorTypes
<1>4. ASSUME NEW t \in SignIns PROVE Writing(t)' <=> Writing(t)
  BY <1>0, <1>2 DEF MirrorTypes, Writing
<1>5. told \in recent /\ \A t \in SignIns : Writing(t) => told \in beside[t]
  BY <1>2 DEF MirrorInv
<1> HIDE DEF told
<1>6. MirrorWasTold'
  BY <1>1, <1>2, <1>5 DEF MirrorInv, MirrorWasTold
<1>7. ASSUME NEW t \in SignIns, step'[t] = "sync" PROVE Synced(t)'
  <2>1. told \in beside[t]
    BY <1>4, <1>5, <1>7 DEF Writing
  <2>2. CASE t = s
    BY <1>0, <1>1, <1>2, <2>1, <2>2 DEF Synced, MirrorTypes
  <2>3. CASE t # s
    <3>1. Synced(t) /\ unsynced'[t] = unsynced[t]
      BY <1>0, <1>2, <1>7, <2>3 DEF MirrorInv, MirrorTypes
    <3> QED  BY <1>1, <1>2, <2>1, <3>1 DEF Synced
  <2> QED  BY <2>2, <2>3
<1>8. ASSUME NEW t \in SignIns
      PROVE  /\ step'[t] = "save" => HasRights(found'[t])
             /\ step'[t] = "revoke" => ~HasRights(found'[t])
  BY <1>0, <1>2 DEF MirrorInv, MirrorTypes
<1>9. /\ \A t \in SignIns : Writing(t)' =>
           /\ Told(found'[t]) \in recent'
           /\ \A w \in SignIns : Writing(w)' => Told(found'[w]) \in beside'[t]
      /\ \A t \in SignIns :
           /\ step'[t] = "save" => HasRights(found'[t])
           /\ step'[t] = "revoke" => ~HasRights(found'[t])
           /\ step'[t] = "sync" => Synced(t)'
  BY <1>2, <1>4, <1>7, <1>8 DEF MirrorInv
<1> QED  BY <1>3, <1>6, <1>9 DEF MirrorInv, Told, HasRights, IsAdmin

\* One permission more is written; after the last, nothing in the mirror is older
\* than those beside it.
LEMMA SyncKeepsMirror ==
  ASSUME MirrorInv, NEW s \in SignIns, NEW p \in Perms, SyncPermission(s, p) PROVE MirrorInv'
<1>0. MirrorTypes
  BY DEF MirrorInv
<1> DEFINE told == Told(found[s])
           last == unsynced[s] = {p}
<1>1. /\ mirror' \in Rights /\ mirror'.staff = mirror.staff /\ mirror'.super = mirror.super
      /\ \A q \in Perms : q \in mirror'.perms <=>
           IF q = p THEN q \in told.perms ELSE q \in mirror.perms
  BY <1>0 DEF SyncPermission, MirrorTypes, Rights, Told
<1>2. /\ step[s] = "sync" /\ p \in unsynced[s] /\ exists' = exists /\ Writing(s)
      /\ \/ /\ last /\ Leave(s) /\ recent' = beside[s]
         \/ /\ ~last /\ unsynced' = [unsynced EXCEPT ![s] = @ \ {p}]
            /\ UNCHANGED <<step, found, beside, recent>>
  BY DEF SyncPermission, Writing
<1>3. /\ told \in recent /\ Synced(s)
      /\ \A t \in SignIns : Writing(t) => told \in beside[t] /\ Told(found[t]) \in beside[s]
  BY <1>2 DEF MirrorInv
<1> HIDE DEF told
<1>4. \A u \in SUBSET Rights : \A q \in Perms :
        /\ told \in u
        /\ q = p \/ \E v \in u : q \in mirror.perms <=> q \in v.perms
        => \E v \in u : q \in mirror'.perms <=> q \in v.perms
  BY <1>1
<1>5. CASE last
  <2>1. /\ step' = [step EXCEPT ![s] = "idle"] /\ found' = [found EXCEPT ![s] = Nothing]
        /\ unsynced' = [unsynced EXCEPT ![s] = {}] /\ beside' = [beside EXCEPT ![s] = {}]
        /\ recent' = beside[s]
    BY <1>2, <1>5 DEF Leave, Move
  <2>2. MirrorTypes'
    BY <1>0, <1>1, <1>2, <2>1 DEF MirrorTypes, Nothing, Users
  <2>3. ASSUME NEW t \in SignIns, t # s
        PROVE  /\ step'[t] = step[t] /\ found'[t] = found[t] /\ unsynced'[t] = unsynced[t]
               /\ beside'[t] = beside[t] /\ (Writing(t)' <=> Writing(t))
    BY <1>0, <2>1, <2>3 DEF MirrorTypes, Writing
  <2>4. step'[s] = "idle" /\ ~Writing(s)'
    BY <1>0, <2>1 DEF MirrorTypes, Writing
  <2>5. MirrorWasTold'
    <3>1. \E u \in recent' : mirror'.staff = u.staff /\ mirror'.super = u.super
      BY <1>1, <1>3, <2>1 DEF Synced
    <3>2. \A q \in Perms : q = p \/ \E v \in beside[s] : q \in mirror.perms <=> q \in v.perms
      BY <1>3, <1>5 DEF Synced
    <3>3. told \in beside[s] /\ beside[s] \in SUBSET Rights
      BY <1>0, <1>2, <1>3 DEF MirrorTypes
    <3>4. \A q \in Perms : \E v \in beside[s] : q \in mirror'.perms <=> q \in v.perms
      BY <1>4, <3>2, <3>3
    <3> QED  BY <2>1, <3>1, <3>4 DEF MirrorWasTold
  <2>6. ASSUME NEW t \in SignIns, step'[t] = "sync" PROVE Synced(t)'
    <3>1. t # s /\ Synced(t) /\ Writing(t)
      BY <2>3, <2>4, <2>6 DEF MirrorInv, Writing
    <3>2. told \in beside[t] /\ beside[t] \in SUBSET Rights
      BY <1>0, <1>3, <3>1 DEF MirrorTypes
    <3>3. \A q \in Perms \ unsynced[t] : \E v \in beside[t] : q \in mirror'.perms <=> q \in v.perms
      BY <1>4, <3>1, <3>2 DEF Synced
    <3> QED  BY <1>1, <2>3, <3>1, <3>3 DEF Synced
  <2>7. ASSUME NEW t \in SignIns
        PROVE  /\ step'[t] = "save" => HasRights(found'[t])
               /\ step'[t] = "revoke" => ~HasRights(found'[t])
    BY <2>3, <2>4 DEF MirrorInv
  <2>8. /\ \A t \in SignIns : Writing(t)' =>
             /\ Told(found'[t]) \in recent'
             /\ \A w \in SignIns : Writing(w)' => Told(found'[w]) \in beside'[t]
        /\ \A t \in SignIns :
             /\ step'[t] = "save" => HasRights(found'[t])
             /\ step'[t] = "revoke" => ~HasRights(found'[t])
             /\ step'[t] = "sync" => Synced(t)'
    BY <1>3, <2>1, <2>3, <2>4, <2>6, <2>7 DEF MirrorInv
  <2> QED  BY <2>2, <2>5, <2>8 DEF MirrorInv, Told, HasRights, IsAdmin
<1>6. CASE ~last
  <2>1. /\ unsynced' = [unsynced EXCEPT ![s] = @ \ {p}]
        /\ UNCHANGED <<step, found, beside, recent>>
    BY <1>2, <1>6
  <2>2. MirrorTypes'
    BY <1>0, <1>1, <1>2, <2>1 DEF MirrorTypes
  <2>3. ASSUME NEW t \in SignIns PROVE Writing(t)' <=> Writing(t)
    BY <2>1 DEF Writing
  <2>4. MirrorWasTold'
    <3>1. \A q \in Perms : \E v \in recent : q \in mirror'.perms <=> q \in v.perms
      BY <1>1, <1>3 DEF MirrorInv, MirrorWasTold
    <3> QED  BY <1>1, <2>1, <3>1 DEF MirrorInv, MirrorWasTold
  <2>5. ASSUME NEW t \in SignIns, step'[t] = "sync" PROVE Synced(t)'
    <3>1. Synced(t) /\ Writing(t)
      BY <2>1, <2>5 DEF MirrorInv, Writing
    <3>2. told \in beside[t] /\ beside[t] \in SUBSET Rights
      BY <1>0, <1>3, <3>1 DEF MirrorTypes
    <3>3. \A q \in Perms \ unsynced'[t] : q = p \/ q \in Perms \ unsynced[t]
      BY <1>0, <2>1 DEF MirrorTypes
    <3>4. \A q \in Perms \ unsynced'[t] : \E v \in beside[t] : q \in mirror'.perms <=> q \in v.perms
      BY <1>4, <3>1, <3>2, <3>3 DEF Synced
    <3> QED  BY <1>1, <2>1, <3>1, <3>4 DEF Synced
  <2>6. /\ \A t \in SignIns : Writing(t)' =>
             /\ Told(found'[t]) \in recent'
             /\ \A w \in SignIns : Writing(w)' => Told(found'[w]) \in beside'[t]
        /\ \A t \in SignIns :
             /\ step'[t] = "save" => HasRights(found'[t])
             /\ step'[t] = "revoke" => ~HasRights(found'[t])
             /\ step'[t] = "sync" => Synced(t)'
    BY <2>1, <2>3, <2>5 DEF MirrorInv
  <2> QED  BY <2>2, <2>4, <2>6 DEF MirrorInv, Told, HasRights, IsAdmin
<1> QED  BY <1>5, <1>6

-----------------------------------------------------------------------------
(* The theorems. *)

AdminInv == CacheInv /\ MirrorInv /\ superuser \in BOOLEAN

LEMMA AdminInvStart == AdminInit => AdminInv
<1> SUFFICES ASSUME AdminInit PROVE AdminInv
  OBVIOUS
<1>1. CacheInv
  BY DEF AdminInit, IdmInit, CacheInv, IdmTypeOK, EntryInv
<1>2. MirrorTypes
  BY DEF AdminInit, MirrorTypes, Nobody, Nothing, Rights, Users
<1>3. MirrorWasTold
  BY DEF AdminInit, MirrorWasTold, Nobody
<1>4. \A s \in SignIns : step[s] = "idle"
  BY DEF AdminInit
<1>5. MirrorInv
  BY <1>2, <1>3, <1>4 DEF MirrorInv, Writing
<1> QED  BY <1>1, <1>5 DEF AdminInit, AdminInv

LEMMA AdminInvNext == AdminInv /\ [AdminNext \/ CalmDown]_allVars => AdminInv'
<1> SUFFICES ASSUME AdminInv, [AdminNext \/ CalmDown]_allVars PROVE AdminInv'
  OBVIOUS
<1>1. CacheInv /\ IdmTypeOK /\ MirrorInv /\ superuser \in BOOLEAN
  BY DEF AdminInv, CacheInv
<1>2. CASE IdmNext /\ UNCHANGED <<calm, adminVars>>
  BY <1>1, <1>2, CacheStep, MirrorStutter DEF AdminInv, adminVars
<1>3. ASSUME UNCHANGED idmVars, calm' = calm \/ calm' = TRUE PROVE CacheInv'
  BY <1>1, <1>3 DEF idmVars, CacheInv, IdmTypeOK, EntryInv, Pending
<1>4. ASSUME NEW s \in SignIns, Begin(s) \/ SignInStep(s), UNCHANGED calm PROVE AdminInv'
  <2>1. UNCHANGED <<idmVars, superuser>>
    BY <1>4 DEF Begin, SignInStep, AllowRequest, CompareClock, Trip, PostLogin, GetProfile,
                FetchPermissions, AuthenticateDegraded, SaveUser, RevokeLocalAccess,
                NoLocalUser, SyncPermission
  <2>2. MirrorInv'
    <3>1. CASE \/ Begin(s) \/ AllowRequest(s) \/ CompareClock(s) \/ Trip(s)
               \/ PostLogin(s, "ok") \/ GetProfile(s, "ok")
               \/ AuthenticateDegraded(s) \/ NoLocalUser(s)
      BY <1>1, <3>1, AskingKeepsMirror
    <3>2. CASE FetchPermissions(s, "ok")
      BY <1>1, <3>2, FetchKeepsMirror
    <3>3. CASE SaveUser(s) \/ RevokeLocalAccess(s)
      BY <1>1, <3>3, SaveKeepsMirror
    <3>4. CASE \E p \in Perms : SyncPermission(s, p)
      BY <1>1, <3>4, SyncKeepsMirror
    <3> QED  BY <1>4, <3>1, <3>2, <3>3, <3>4 DEF SignInStep
  <2> QED  BY <1>1, <1>3, <1>4, <2>1, <2>2 DEF AdminInv
<1>5. ASSUME NEW s \in SignIns, UNCHANGED calm,
             AdminFailure(s) \/ PostLogin(s, "rejected") \/ GetProfile(s, "rejected")
      PROVE  AdminInv'
  <2>1. UNCHANGED <<idmVars, superuser>>
    BY <1>5 DEF AdminFailure, PostLogin, GetProfile, FetchPermissions, SignInDies
  <2>2. MirrorInv'
    BY <1>1, <1>5, AskingKeepsMirror, FetchKeepsMirror DEF AdminFailure
  <2> QED  BY <1>1, <1>3, <1>5, <2>1, <2>2 DEF AdminInv
<1>6. CASE Tick /\ UNCHANGED calm
  BY <1>1, <1>3, <1>6, MirrorStutter DEF Tick, AdminInv
<1>7. CASE \E b \in BOOLEAN : SetSuperuser(b) /\ UNCHANGED calm
  BY <1>1, <1>3, <1>7, MirrorStutter DEF SetSuperuser, AdminInv
<1>8. CASE UNCHANGED allVars
  BY <1>1, <1>3, <1>8, MirrorStutter DEF allVars, adminVars, AdminInv
<1>9. CASE CalmDown
  BY <1>1, <1>3, <1>9, MirrorStutter DEF CalmDown, adminVars, AdminInv
<1> QED  BY <1>2, <1>4, <1>5, <1>6, <1>7, <1>8, <1>9 DEF AdminNext

\* The inductive invariant, for any number of roles, writers, checks and sign-ins.
THEOREM AdminInvariant == (AdminSpec => []AdminInv) /\ (FairAdminSpec => []AdminInv)
<1>1. AdminInv /\ [AdminNext]_allVars => AdminInv'
  BY AdminInvNext
<1>2. AdminSpec => []AdminInv
  BY <1>1, AdminInvStart, PTL DEF AdminSpec
<1>3. FairAdminSpec => []AdminInv
  BY AdminInvStart, AdminInvNext, PTL DEF FairAdminSpec
<1> QED  BY <1>2, <1>3

\* A stale entry of the cache of permissions has one of the causes named.
THEOREM StaleEntriesAreExplained == FairAdminSpec => []StaleNeedsRace
<1>1. AdminInv => StaleNeedsRace
  BY DEF AdminInv, CacheInv, EntryInv, Pending, StaleNeedsRace
<1> QED  BY <1>1, AdminInvariant, PTL

\* Whatever sign-ins cross, the mirror, which answers while auth_service does
\* not, grants nothing that only earlier ones than the last were told.
THEOREM DegradedGrantsNoMore == AdminSpec => []MirrorWasTold
<1>1. AdminInv => MirrorWasTold
  BY DEF AdminInv, MirrorInv
<1> QED  BY <1>1, AdminInvariant, PTL
=============================================================================
