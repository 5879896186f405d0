-------------------------------- MODULE IdmRoles --------------------------------
(***************************************************************************)
(* auth_service: the roles of one user, the permissions of the roles, and  *)
(* the cache of the user's permissions in Redis (idm:permissions:{user}).  *)
(* A change of the user's roles commits and then deletes the entry; a      *)
(* check reads the entry, then the database, then stores the entry.  Both  *)
(* interleave at each of these calls, and both may die between them.       *)
(*                                                                         *)
(* A role that was deleted does not come back: its id is not used again.   *)
(***************************************************************************)
EXTENDS FiniteSets

CONSTANTS
  Roles,    \* role ids
  Perms,    \* permissions
  Writers,  \* requests that assign or remove a role
  Checks,   \* requests that check a permission
  NoEntry   \* no entry in the cache

VARIABLES
  defined,  \* rows of `roles`
  dropped,  \* roles that were deleted
  grants,   \* roles.permissions
  assigned, \* rows of user_roles
  cache,    \* the entry, or NoEntry
  writer,   \* where a writer is
  check,    \* where a check is
  read,     \* what a check has read from the database
  missed,   \* a writer died before its DEL, and no DEL has followed
  calm      \* nobody edits and nothing fails any more

idmVars == <<defined, dropped, grants, assigned, cache, writer, check, read, missed>>

\* `value` is what is stored.  For the properties: the roles it was read from,
\* and whether a DEL came between that SELECT and the SET.
Entries == [value : SUBSET Perms, roles : SUBSET Roles, late : BOOLEAN]

IdmTypeOK ==
  /\ defined \subseteq Roles /\ dropped \subseteq Roles \ defined
  /\ grants \in [Roles -> SUBSET Perms]
  /\ assigned \subseteq defined
  /\ cache \in Entries \cup {NoEntry}
  /\ writer \in [Writers -> {"idle", "invalidate"}]
  /\ check \in [Checks -> {"idle", "select", "store"}]
  /\ read \in [Checks -> Entries \cup {NoEntry}]
  /\ missed \in BOOLEAN /\ calm \in BOOLEAN

IdmInit ==
  /\ defined = {} /\ dropped = {} /\ assigned = {}
  /\ grants = [r \in Roles |-> {}]
  /\ cache = NoEntry
  /\ writer = [w \in Writers |-> "idle"]
  /\ check = [c \in Checks |-> "idle"]
  /\ read = [c \in Checks |-> NoEntry]
  /\ missed = FALSE /\ calm = FALSE

\* The join of roles and user_roles.
Granted == UNION {grants[r] : r \in assigned}

-----------------------------------------------------------------------------
(* RoleService: none of it touches the cache. *)

\* POST /idm/roles, cli create-role; the name is unique.
CreateRole(r, ps) ==
  /\ r \notin defined \cup dropped
  /\ defined' = defined \cup {r}
  /\ grants' = [grants EXCEPT ![r] = ps]
  /\ UNCHANGED <<dropped, assigned, cache, writer, check, read, missed>>

\* PUT /idm/roles/{role_id}
UpdateRole(r, ps) ==
  /\ r \in defined /\ grants[r] # ps
  /\ grants' = [grants EXCEPT ![r] = ps]
  /\ UNCHANGED <<defined, dropped, assigned, cache, writer, check, read, missed>>

\* DELETE /idm/roles/{role_id}; its rows of user_roles go with it.
DeleteRole(r) ==
  /\ r \in defined
  /\ defined' = defined \ {r} /\ dropped' = dropped \cup {r}
  /\ assigned' = assigned \ {r}
  /\ grants' = [grants EXCEPT ![r] = {}]
  /\ UNCHANGED <<cache, writer, check, read, missed>>

-----------------------------------------------------------------------------
(* PermissionService: assignment. *)

\* assign_role up to its commit; of two at once the second gets a 409.
AssignRole(w, r) ==
  /\ writer[w] = "idle"
  /\ r \in defined \ assigned
  /\ assigned' = assigned \cup {r}
  /\ writer' = [writer EXCEPT ![w] = "invalidate"]
  /\ UNCHANGED <<defined, dropped, grants, cache, check, read, missed>>

RemoveRoleOnly(w, r) == \* mutant: the entry stays in the cache
  /\ writer[w] = "idle"
  /\ r \in assigned
  /\ assigned' = assigned \ {r}
  /\ UNCHANGED <<defined, dropped, grants, cache, writer, check, read, missed>>

\* remove_role up to its commit.
RemoveRole(w, r) ==
  /\ writer[w] = "idle"
  /\ r \in assigned
  /\ assigned' = assigned \ {r}
  /\ writer' = [writer EXCEPT ![w] = "invalidate"]
  /\ UNCHANGED <<defined, dropped, grants, cache, check, read, missed>>

\* _invalidate_cache: DEL.
InvalidateCache(w) ==
  /\ writer[w] = "invalidate"
  /\ cache' = NoEntry
  /\ missed' = FALSE
  /\ read' = [c \in Checks |-> IF read[c] = NoEntry THEN NoEntry
                               ELSE [read[c] EXCEPT !.late = TRUE]]
  /\ writer' = [writer EXCEPT ![w] = "idle"]
  /\ UNCHANGED <<defined, dropped, grants, assigned, check>>

\* Redis does not answer, or the process dies: the role has changed, the entry
\* has not.
WriterFails(w) ==
  /\ writer[w] = "invalidate"
  /\ writer' = [writer EXCEPT ![w] = "idle"]
  /\ missed' = TRUE
  /\ UNCHANGED <<defined, dropped, grants, assigned, cache, check, read>>

-----------------------------------------------------------------------------
(* PermissionService: check_permission. *)

\* GET; an entry answers the check at once.
ReadCache(c) ==
  /\ check[c] = "idle" /\ cache = NoEntry
  /\ check' = [check EXCEPT ![c] = "select"]
  /\ UNCHANGED <<defined, dropped, grants, assigned, cache, writer, read, missed>>

SelectPermissions(c) ==
  /\ check[c] = "select"
  /\ read' = [read EXCEPT ![c] = [value |-> Granted, roles |-> assigned, late |-> FALSE]]
  /\ check' = [check EXCEPT ![c] = "store"]
  /\ UNCHANGED <<defined, dropped, grants, assigned, cache, writer, missed>>

\* SET with a TTL, whatever is there by now.
StoreCache(c) ==
  /\ check[c] = "store"
  /\ cache' = read[c]
  /\ read' = [read EXCEPT ![c] = NoEntry]
  /\ check' = [check EXCEPT ![c] = "idle"]
  /\ UNCHANGED <<defined, dropped, grants, assigned, writer, missed>>

CheckFails(c) ==
  /\ check[c] # "idle"
  /\ check' = [check EXCEPT ![c] = "idle"]
  /\ read' = [read EXCEPT ![c] = NoEntry]
  /\ UNCHANGED <<defined, dropped, grants, assigned, cache, writer, missed>>

ExpireNever == FALSE /\ UNCHANGED idmVars \* mutant: SET without a TTL

\* PERMISSIONS_CACHE_TTL_SECONDS have passed since the SET.
ExpireCache ==
  /\ cache # NoEntry
  /\ cache' = NoEntry
  /\ UNCHANGED <<defined, dropped, grants, assigned, writer, check, read, missed>>

EditRoles ==
  \/ \E r \in Roles, ps \in SUBSET Perms : CreateRole(r, ps) \/ UpdateRole(r, ps)
  \/ \E r \in Roles : DeleteRole(r)
  \/ \E w \in Writers, r \in Roles : AssignRole(w, r) \/ RemoveRole(w, r)

CheckStep(c) == ReadCache(c) \/ SelectPermissions(c) \/ StoreCache(c)

IdmFailure ==
  \/ \E w \in Writers : WriterFails(w)
  \/ \E c \in Checks : CheckFails(c)

IdmNext ==
  \/ ~calm /\ (EditRoles \/ IdmFailure)
  \/ \E w \in Writers : InvalidateCache(w)
  \/ \E c \in Checks : CheckStep(c)
  \/ ExpireCache

\* Requests that began go on, and a TTL runs out.
IdmFairness ==
  /\ \A w \in Writers : WF_idmVars(InvalidateCache(w))
  /\ \A c \in Checks : WF_idmVars(SelectPermissions(c) \/ StoreCache(c))
  /\ WF_idmVars(ExpireCache)

-----------------------------------------------------------------------------
(* Properties. *)

\* An entry with a role too many or too few is the work of a check that a
\* DEL has overtaken between its SELECT and its SET, or its DEL is still to
\* come or was lost (_invalidate_cache follows every commit).
StaleNeedsRace ==
  \/ cache = NoEntry
  \/ cache.roles \cap defined = assigned
  \/ cache.late \/ missed
  \/ \E w \in Writers : writer[w] = "invalidate"

\* Whatever made an entry wrong, a lost race, a dead writer, or an edit of a
\* role, which deletes no entry: it does not stay wrong (the TTL).
CacheHeals ==
  calm ~> [](cache = NoEntry \/ cache.value = Granted)
=============================================================================
