----------------------------- MODULE MCAuthService -----------------------------
(***************************************************************************)
(* The sessions of auth_service and the sign-in to admin_panel on a small  *)
(* instance for TLC.  They share no state, so a behaviour is about one.    *)
(***************************************************************************)
EXTENDS AuthSessions, AdminLogin, TLC

VARIABLE about \* which of the two

authVars == <<about, vars, allVars>>

AuthInit == about \in {"sessions", "sign-in"} /\ Init /\ AdminInit

Sessioning == about = "sessions" /\ Next /\ UNCHANGED allVars

\* No sign-in reads the cache, so that it does not matter whether a DEL is lost, or
\* tells a deleted role from one without permissions.
SigningIn ==
  /\ about = "sign-in" /\ AdminNext
  /\ ~missed' /\ dropped' = {}
  /\ UNCHANGED vars

AuthSpec == AuthInit /\ [][(Sessioning \/ SigningIn) /\ UNCHANGED about]_authVars

\* Handlers are interchangeable, and so are threads, which bear the same names.
Symmetry == Permutations(Requests)
=============================================================================
