-------------------------------- MODULE MCAccess --------------------------------
(***************************************************************************)
(* How access is had and lost, on a small instance for TLC: the accounts,  *)
(* the roles with their cache, and the breaker before the sign-in to       *)
(* admin_panel.  A behaviour is about one of the three: the accounts share *)
(* no state with the others, sign-ins leave the roles alone, and what a    *)
(* sign-in is told does not move the breaker.                              *)
(***************************************************************************)
EXTENDS Accounts, AdminLogin

CONSTANT LetterCodes \* those of the codes, which are alike, that no other link has

VARIABLE about \* which of the three

accessVars == <<about, vars, allVars>>

AccessInit == about \in {"accounts", "roles", "breaker"} /\ Init /\ AdminInit

Accounting ==
  /\ about = "accounts" /\ Next /\ UNCHANGED allVars
  /\ \A c \in LetterCodes : link'[c].purpose # "generic"

Granting   == about = "roles" /\ (AdminNext \/ CalmDown) /\ UNCHANGED <<vars, adminVars>>
Breaking   == about = "breaker" /\ (AdminNext \/ CalmDown) /\ UNCHANGED <<vars, idmVars>>

\* What FairSpec and FairAdminSpec ask for, each of the part it is about.
AccessSpec ==
  /\ AccessInit /\ [][(Accounting \/ Granting \/ Breaking) /\ UNCHANGED about]_accessVars
  /\ \A r \in Requests :
       WF_vars(about = "accounts" /\ UNCHANGED steady /\
                 (SendLetter(r) \/ FindUser(r) \/ SaveGoogle(r) \/ CheckOthers(r) \/ DropLink(r)
                  \/ ConfirmEmail(r) \/ Stamp(r)))
  /\ \A c \in Codes :
       SF_vars(about = "accounts" /\ (\E r \in Requests : Visit(r, c)) /\ UNCHANGED steady)
  /\ \A w \in Writers : WF_idmVars(about = "roles" /\ InvalidateCache(w))
  /\ \A k \in Checks : WF_idmVars(about = "roles" /\ (SelectPermissions(k) \/ StoreCache(k)))
  /\ WF_idmVars(about = "roles" /\ ExpireCache)
  /\ \A s \in SignIns : WF_allVars(about = "breaker" /\ SignInStep(s) /\ UNCHANGED calm)
  /\ WF_allVars(about = "breaker" /\ Tick /\ UNCHANGED calm)
=============================================================================
