------------------------------- MODULE AdminLogin -------------------------------
(***************************************************************************)
(* admin_panel: one person signs in to /admin/.  The credentials and roles *)
(* are asked of auth_service, behind a circuit breaker; the rights found   *)
(* are written to a local Django user, a mirror, which answers when        *)
(* auth_service does not.  The roles are those of IdmRoles.                *)
(*                                                                         *)
(* The threads of uWSGI sign the person in side by side: they share the    *)
(* breaker, an object without a lock, and the row of the local user, which *)
(* each writes in several statements.  Passwords are left out: a sign-in   *)
(* is one with the password of the moment, or auth_service rejects it.     *)
(* When the backend returns None Django asks ModelBackend, which only      *)
(* reads.                                                                  *)
(***************************************************************************)
EXTENDS IdmRoles, Naturals

CONSTANTS
  SignIns,          \* threads that sign the person in
  AdminRole,        \* AUTH_SERVICE_ADMIN_ROLE
  FailureThreshold, \* failures that open the breaker
  ResetTimeout      \* ticks of the clock an open breaker waits

ASSUME AdminAssumption ==
  FailureThreshold \in Nat \ {0} /\ ResetTimeout \in Nat \ {0}

VARIABLES
  superuser,   \* users.is_superuser of auth_service
  failures,    \* CircuitBreaker._failures
  breakerOpen, \* _opened_at is set
  elapsed,     \* ticks since _opened_at
  step,        \* where each sign-in is
  found,       \* its auth_user: the roles and permissions it was told
  unsynced,    \* permissions its _sync_permission has still to write
  mirror,      \* the local user: staff, superuser and user_permissions
  exists,      \* there is a local user
  beside,      \* of a sign-in that writes: what it was told, and what those were
               \* that have been writing at the same time
  recent       \* what was told to the last sign-in to finish and those beside it,
               \* and to whoever has begun to write since

breakerVars == <<failures, breakerOpen, elapsed>>
signInVars  == <<step, found, unsynced>>
mirrorVars  == <<mirror, exists, beside, recent>>
adminVars   == <<superuser, breakerVars, signInVars, mirrorVars>>
allVars     == <<idmVars, calm, adminVars>>

Rights  == [staff : BOOLEAN, super : BOOLEAN, perms : SUBSET Perms]
Users   == [roles : SUBSET Roles, perms : SUBSET Perms, super : BOOLEAN]
Nobody  == [staff |-> FALSE, super |-> FALSE, perms |-> {}]
Nothing == [roles |-> {}, perms |-> {}, super |-> FALSE]

AdminTypeOK ==
  /\ IdmTypeOK
  /\ failures \in 0..FailureThreshold /\ breakerOpen \in BOOLEAN
  /\ elapsed \in 0..ResetTimeout
  /\ step \in [SignIns -> {"idle", "allow", "clock", "login", "profile", "roles", "trip",
                           "degraded", "save", "revoke", "sync"}]
  /\ found \in [SignIns -> Users] /\ unsynced \in [SignIns -> SUBSET Perms]
  /\ superuser \in BOOLEAN /\ exists \in BOOLEAN
  /\ mirror \in Rights
  /\ beside \in [SignIns -> SUBSET Rights] /\ recent \subseteq Rights

AdminInit ==
  /\ IdmInit
  /\ failures = 0 /\ breakerOpen = FALSE /\ elapsed = 0
  /\ superuser = FALSE
  /\ step = [s \in SignIns |-> "idle"]
  /\ found = [s \in SignIns |-> Nothing] /\ unsynced = [s \in SignIns |-> {}]
  /\ mirror = Nobody /\ exists = FALSE
  /\ beside = [s \in SignIns |-> {}] /\ recent = {Nobody}

Move(s, at) == step' = [step EXCEPT ![s] = at]

\* The request is answered, or its thread dies.
Leave(s) ==
  /\ Move(s, "idle")
  /\ found' = [found EXCEPT ![s] = Nothing] /\ unsynced' = [unsynced EXCEPT ![s] = {}]
  /\ beside' = [beside EXCEPT ![s] = {}]

-----------------------------------------------------------------------------
(* The circuit breaker. *)

Tick ==
  /\ breakerOpen /\ elapsed < ResetTimeout
  /\ elapsed' = elapsed + 1
  /\ UNCHANGED <<idmVars, superuser, failures, breakerOpen, signInVars, mirrorVars>>

HalfOpenReversed == breakerOpen /\ elapsed < ResetTimeout \* mutant: `<=` for `>=`

HalfOpen == breakerOpen /\ elapsed = ResetTimeout

RecordSuccess == failures' = 0 /\ breakerOpen' = FALSE /\ elapsed' = 0

\* record_failure up to its call of time.monotonic(), over which another thread may
\* run.  _failures counts on, which makes no difference above the threshold.
RecordFailure(s) ==
  /\ failures' = IF failures < FailureThreshold THEN failures + 1 ELSE failures
  /\ Move(s, IF failures' = FailureThreshold THEN "trip" ELSE "degraded")
  /\ UNCHANGED <<breakerOpen, elapsed>>

\* The rest of it.
Trip(s) ==
  /\ step[s] = "trip"
  /\ breakerOpen' = TRUE /\ elapsed' = 0
  /\ Move(s, "degraded")
  /\ UNCHANGED <<idmVars, superuser, failures, found, unsynced, mirrorVars>>

\* allow_request: a closed breaker lets everybody through.
AllowRequest(s) ==
  /\ step[s] = "allow"
  /\ Move(s, IF breakerOpen THEN "clock" ELSE "login")
  /\ UNCHANGED <<idmVars, superuser, breakerVars, found, unsynced, mirrorVars>>

\* It was open before time.monotonic(): the POST is made once the wait is over.  If
\* another thread has closed it over that call, None is subtracted and the request
\* ends with a TypeError.
CompareClock(s) ==
  /\ step[s] = "clock"
  /\ \/ /\ breakerOpen
        /\ Move(s, IF HalfOpen THEN "login" ELSE "degraded")
        /\ UNCHANGED <<found, unsynced, mirrorVars>>
     \/ /\ ~breakerOpen
        /\ Leave(s)
        /\ UNCHANGED <<mirror, exists, recent>>
  /\ UNCHANGED <<idmVars, superuser, breakerVars>>

-----------------------------------------------------------------------------
(* authenticate_via_auth_service *)

Begin(s) ==
  /\ step[s] = "idle"
  /\ Move(s, "allow")
  /\ UNCHANGED <<idmVars, superuser, breakerVars, found, unsynced, mirrorVars>>

\* An answer below 500 is a success for the breaker; a 4xx ends the sign-in.
Answered(s, outcome, next) ==
  \/ /\ outcome = "down" /\ RecordFailure(s)
     /\ UNCHANGED <<found, unsynced, beside>>
  \/ outcome = "rejected" /\ RecordSuccess /\ Leave(s)
  \/ /\ outcome = "ok" /\ RecordSuccess /\ Move(s, next)
     /\ UNCHANGED <<unsynced, beside>>

\* POST /login
PostLogin(s, outcome) ==
  /\ step[s] = "login"
  /\ Answered(s, outcome, "profile") /\ (outcome = "ok" => UNCHANGED found)
  /\ UNCHANGED <<idmVars, superuser, mirror, exists, recent>>

\* GET /profile: the names of the roles.
GetProfile(s, outcome) ==
  /\ step[s] = "profile"
  /\ Answered(s, outcome, "roles")
  /\ outcome = "ok" =>
       found' = [found EXCEPT ![s] = [roles |-> assigned, perms |-> {}, super |-> superuser]]
  /\ UNCHANGED <<idmVars, superuser, mirror, exists, recent>>

IsAdmin(user) == user.super \/ AdminRole \in user.roles

HasRights(user) == IsAdmin(user) \/ user.perms # {}

\* What a mirror written for this user alone would say.
Told(user) == [staff |-> HasRights(user), super |-> IsAdmin(user), perms |-> user.perms]

Writing(s) == step[s] \in {"save", "revoke", "sync"}

\* A user without the role and without either permission gets nothing, and
\* is to keep nothing in the mirror.
Decide(s, user) ==
  /\ found' = [found EXCEPT ![s] = user]
  /\ Move(s, IF HasRights(user) THEN "save" ELSE "revoke")
  /\ beside' = [t \in SignIns |->
       IF t = s THEN {Told(user)} \cup {Told(found[w]) : w \in {w \in SignIns : Writing(w)}}
       ELSE IF Writing(t) THEN beside[t] \cup {Told(user)} ELSE beside[t]]
  /\ recent' = recent \cup {Told(user)}

\* _fetch_permissions: GET /idm/roles for those names; no rights on a failure.
FetchPermissions(s, outcome) ==
  /\ step[s] = "roles"
  /\ Decide(s, [found[s] EXCEPT !.perms =
       IF outcome = "ok" THEN UNION {grants[r] : r \in found[s].roles \cap defined} ELSE {}])
  /\ UNCHANGED <<idmVars, superuser, breakerVars, unsynced, mirror, exists>>

\* _authenticate_degraded: the mirror answers, and stays as it is.
AuthenticateDegraded(s) ==
  /\ step[s] = "degraded"
  /\ Leave(s)
  /\ UNCHANGED <<idmVars, superuser, breakerVars, mirror, exists, recent>>

-----------------------------------------------------------------------------
(* AuthServiceBackend: the mirror, one statement at a time. *)

\* update_or_create of _sync_local_user (and the hash of the password).
SaveUser(s) ==
  /\ step[s] = "save"
  /\ exists' = TRUE
  /\ mirror' = [mirror EXCEPT !.staff = TRUE, !.super = IsAdmin(found[s])]
  /\ unsynced' = [unsynced EXCEPT ![s] = Perms]
  /\ Move(s, "sync")
  /\ UNCHANGED <<idmVars, superuser, breakerVars, beside, recent, found>>

RevokeSuperuserOnly(s) == \* mutant: is_staff, which a degraded sign-in asks for, stays
  /\ step[s] = "revoke" /\ exists
  /\ mirror' = [mirror EXCEPT !.super = FALSE]
  /\ unsynced' = [unsynced EXCEPT ![s] = Perms]
  /\ Move(s, "sync")
  /\ UNCHANGED <<idmVars, superuser, breakerVars, exists, beside, recent, found>>

\* _revoke_local_access: `exists` is never taken back, so that the SELECT and the
\* UPDATE of the two columns are one step.
RevokeLocalAccess(s) ==
  /\ step[s] = "revoke" /\ exists
  /\ mirror' = [mirror EXCEPT !.staff = FALSE, !.super = FALSE]
  /\ unsynced' = [unsynced EXCEPT ![s] = Perms]
  /\ Move(s, "sync")
  /\ UNCHANGED <<idmVars, superuser, breakerVars, exists, beside, recent, found>>

\* There is no local user to revoke anything from.
NoLocalUser(s) ==
  /\ step[s] = "revoke" /\ ~exists
  /\ Leave(s)
  /\ UNCHANGED <<idmVars, superuser, breakerVars, mirror, exists, recent>>

\* _sync_permission for one of the permissions; after the last the sign-in is done.
SyncPermission(s, p) ==
  /\ step[s] = "sync" /\ p \in unsynced[s]
  /\ mirror' = [mirror EXCEPT !.perms = IF p \in found[s].perms THEN @ \cup {p} ELSE @ \ {p}]
  /\ \/ /\ unsynced[s] = {p}
        /\ Leave(s)
        /\ recent' = beside[s]
     \/ /\ unsynced[s] # {p}
        /\ unsynced' = [unsynced EXCEPT ![s] = @ \ {p}]
        /\ UNCHANGED <<step, found, beside, recent>>
  /\ UNCHANGED <<idmVars, superuser, breakerVars, exists>>

\* The thread dies, or its database does not answer.
SignInDies(s) ==
  /\ step[s] # "idle"
  /\ Leave(s)
  /\ UNCHANGED <<idmVars, superuser, breakerVars, mirror, exists, recent>>

-----------------------------------------------------------------------------
\* cli create-superuser; only an operator of the database takes it back.
SetSuperuser(b) ==
  /\ superuser # b
  /\ superuser' = b
  /\ UNCHANGED <<idmVars, breakerVars, signInVars, mirrorVars>>

SignInStep(s) ==
  \/ AllowRequest(s) \/ CompareClock(s) \/ Trip(s)
  \/ PostLogin(s, "ok") \/ GetProfile(s, "ok") \/ FetchPermissions(s, "ok")
  \/ AuthenticateDegraded(s) \/ SaveUser(s) \/ RevokeLocalAccess(s) \/ NoLocalUser(s)
  \/ \E p \in Perms : SyncPermission(s, p)

\* auth_service times out or answers with a 5xx, a thread dies.
AdminFailure(s) ==
  PostLogin(s, "down") \/ GetProfile(s, "down") \/ FetchPermissions(s, "down") \/ SignInDies(s)

AdminNext ==
  \/ IdmNext /\ UNCHANGED <<calm, adminVars>>
  \/ \E s \in SignIns :
       \/ (Begin(s) \/ SignInStep(s)) /\ UNCHANGED calm
       \/ (PostLogin(s, "rejected") \/ GetProfile(s, "rejected")) /\ UNCHANGED calm
       \/ ~calm /\ AdminFailure(s) /\ UNCHANGED calm
  \/ Tick /\ UNCHANGED calm
  \/ \E b \in BOOLEAN : ~calm /\ SetSuperuser(b) /\ UNCHANGED calm

AdminSpec == AdminInit /\ [][AdminNext]_allVars

\* From here on nobody edits roles and nothing fails.
CalmDown == ~calm /\ calm' = TRUE /\ UNCHANGED <<idmVars, adminVars>>

\* A sign-in that began goes on; the clock runs.
AdminFairness ==
  /\ \A s \in SignIns : WF_allVars(SignInStep(s) /\ UNCHANGED calm)
  /\ WF_allVars(Tick /\ UNCHANGED calm)

FairAdminSpec == AdminInit /\ [][AdminNext \/ CalmDown]_allVars /\ IdmFairness /\ AdminFairness

-----------------------------------------------------------------------------
(* Properties. *)

\* Whatever sign-ins cross and die half way: each right in the mirror is as the
\* last sign-in to finish was told, or one that wrote beside it, or one that
\* began to write since; what earlier ones were told is left over nowhere
\* (_sync_local_user, _revoke_local_access, _sync_permission).  So a sign-in
\* that ran alone leaves exactly what it was told, and nobody is staff whom all
\* of the last ones were told to refuse.
MirrorWasTold ==
  /\ \E u \in recent : mirror.staff = u.staff /\ mirror.super = u.super
  /\ \A p \in Perms : \E u \in recent : p \in mirror.perms <=> p \in u.perms

\* An outage ends: once auth_service answers for good, the breaker lets sign-ins
\* through after its wait, and from then on none is degraded, however many were
\* refused meanwhile, and in whatever order threads counted and closed it
\* (allow_request, record_failure).
BreakerRecovers == calm ~> [](\A s \in SignIns : step[s] # "degraded")
=============================================================================
