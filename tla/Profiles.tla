-------------------------------- MODULE Profiles --------------------------------
(***************************************************************************)
(* user_profiles: profiles, which their owners create, change and delete,  *)
(* and which administrators look at through admin_panel.  A view answers   *)
(* in steps: the profiles of the page, one audit row for each of them (in  *)
(* a session of its own), the card of one profile with a summary of        *)
(* ugc_service, the answer.                                                *)
(***************************************************************************)
EXTENDS FiniteSets

CONSTANTS
  People,    \* users
  Phones,    \* phones
  Views,     \* requests of admin_panel
  NoProfile, \* the user has no row in `profiles`
  NoView     \* no such request

VARIABLES
  profiles,  \* phone of each user: the row of `profiles`
  view,      \* the requests
  audited,   \* users with a row in profile_view_audit
  unaudited, \* users shown after the write of their audit rows had failed
  seen       \* users whose data an administrator was answered

profileVars == <<profiles, view, audited, unaudited, seen>>

ProfilesTypeOK ==
  /\ profiles \in [People -> Phones \cup {NoProfile}]
  /\ view \in [Views -> {NoView} \cup
                 [at : {"audit", "summary", "answer"}, page : SUBSET People, full : BOOLEAN]]
  /\ audited \subseteq People /\ unaudited \subseteq People /\ seen \subseteq People

ProfilesInit ==
  /\ profiles = [u \in People |-> NoProfile]
  /\ view = [v \in Views |-> NoView]
  /\ audited = {} /\ unaudited = {} /\ seen = {}

Present == {u \in People : profiles[u] # NoProfile}

-----------------------------------------------------------------------------
(* The owner: /profiles/me. *)

\* uq_profiles_phone: another user's phone is answered 409.
SetPhone(u, p) ==
  /\ \A o \in Present \ {u} : profiles[o] # p
  /\ profiles' = [profiles EXCEPT ![u] = p]
  /\ UNCHANGED <<view, audited, unaudited, seen>>
CreateProfile(u, p) == u \notin Present /\ SetPhone(u, p)
\* A row deleted between the SELECT and the UPDATE fails the UPDATE: the two
\* are one step.
UpdateProfile(u, p) == u \in Present /\ SetPhone(u, p)

DeleteProfile(u) ==
  /\ u \in Present
  /\ profiles' = [profiles EXCEPT ![u] = NoProfile]
  /\ UNCHANGED <<view, audited, unaudited, seen>>

-----------------------------------------------------------------------------
(* The administrator.  The rows are read and their transaction is ended     *)
(* before the audit, so they may change or go before the answer.            *)

ListProfiles(v, page) ==
  /\ view[v] = NoView
  /\ page # {} /\ page \subseteq Present
  /\ view' = [view EXCEPT ![v] = [at |-> "audit", page |-> page, full |-> FALSE]]
  /\ UNCHANGED <<profiles, audited, unaudited, seen>>

GetProfile(v, u, full) ==
  /\ view[v] = NoView
  /\ u \in Present
  /\ view' = [view EXCEPT ![v] = [at |-> "audit", page |-> {u}, full |-> full]]
  /\ UNCHANGED <<profiles, audited, unaudited, seen>>

AuditPresent(v) == \* mutant: a foreign key on profiles.user_id
  /\ view[v] # NoView /\ view[v].at = "audit"
  /\ audited' = audited \cup (view[v].page \cap Present)
  /\ view' = [view EXCEPT ![v].at = IF view[v].full THEN "summary" ELSE "answer"]
  /\ UNCHANGED <<profiles, unaudited, seen>>
\* One commit for the page; no foreign key ties the rows to `profiles`.  If it
\* fails, nothing of it is written, and the view goes on.
RecordViews(v) ==
  /\ view[v] # NoView /\ view[v].at = "audit"
  /\ \/ audited' = audited \cup view[v].page /\ UNCHANGED unaudited
     \/ unaudited' = unaudited \cup view[v].page /\ UNCHANGED audited
  /\ view' = [view EXCEPT ![v].at = IF view[v].full THEN "summary" ELSE "answer"]
  /\ UNCHANGED <<profiles, seen>>

\* Whatever ugc_service answers, or does not, the profile is answered.
GetSummary(v) ==
  /\ view[v] # NoView /\ view[v].at = "summary"
  /\ view' = [view EXCEPT ![v].at = "answer"]
  /\ UNCHANGED <<profiles, audited, unaudited, seen>>

Answer(v) ==
  /\ view[v] # NoView /\ view[v].at = "answer"
  /\ seen' = seen \cup view[v].page
  /\ view' = [view EXCEPT ![v] = NoView]
  /\ UNCHANGED <<profiles, audited, unaudited>>

\* The process dies, or admin_panel has stopped waiting.
LoseView(v) ==
  /\ view[v] # NoView
  /\ view' = [view EXCEPT ![v] = NoView]
  /\ UNCHANGED <<profiles, audited, unaudited, seen>>

ProfilesNext ==
  \/ \E u \in People : \/ \E p \in Phones : CreateProfile(u, p) \/ UpdateProfile(u, p)
                       \/ DeleteProfile(u)
  \/ \E v \in Views :
       \/ \E page \in SUBSET People : ListProfiles(v, page)
       \/ \E u \in People, full \in BOOLEAN : GetProfile(v, u, full)
       \/ RecordViews(v) \/ GetSummary(v) \/ Answer(v) \/ LoseView(v)

-----------------------------------------------------------------------------
\* Whoever's data an administrator got has a row in the audit, also when the
\* profile was deleted while the view was answered, or later; the exception is
\* a view whose audit could not be written, which is answered all the same.
SeenIsAudited == seen \subseteq audited \cup unaudited
=============================================================================
