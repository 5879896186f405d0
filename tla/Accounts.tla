-------------------------------- MODULE Accounts --------------------------------
(***************************************************************************)
(* How a person comes to an account of auth_service and confirms its email:*)
(* registration with a password or through Google, unlinking, the welcome  *)
(* letter with a link of link_shortener_service, and the visits of that    *)
(* link, which confirm the email by a call back to auth_service.           *)
(*                                                                         *)
(* There is one email.  Handlers interleave at every call of a database or *)
(* of another service; each may fail before or after it took effect.       *)
(***************************************************************************)
EXTENDS Naturals

CONSTANTS
  Requests,    \* handlers that may run at once
  GoogleIds,   \* Google accounts that carry the email
  Codes,       \* short codes that may be drawn
  MaxAttempts, \* code_generation_max_attempts
  None         \* no value

ASSUME AccountsAssumption == MaxAttempts \in Nat \ {0} /\ None \notin GoogleIds \cup Codes

VARIABLES
  user,      \* the row of `users`, by its state
  social,    \* social_accounts of the user
  trusted,   \* those among them whose email Google had verified when they were linked
  link,      \* short_links
  mailbox,   \* codes in letters that were delivered
  followed,  \* codes whose visit ended in a redirect
  pc,        \* where a handler is
  arg,       \* the Google account or the code it works on
  verified,  \* email_verified of its Google account
  known,     \* it has found a user of this email; the row it unlinks is there
  tries,     \* codes create_short_link has drawn
  steady     \* nothing fails any more

rows     == <<user, social, trusted, link>>
handlers == <<pc, arg, verified, known, tries>>
vars     == <<rows, mailbox, followed, handlers, steady>>

NoUser == [state |-> "absent", passwordSet |-> FALSE, confirmed |-> FALSE, creator |-> None]
NoLink == [purpose |-> "none", live |-> FALSE, stamped |-> FALSE]
Steps  == {"idle", "draw", "write", "findUser", "saveGoogle", "checkOthers", "dropLink",
           "confirm", "stamp"}

TypeOK ==
  /\ user \in [state : {"absent", "present", "gone"}, passwordSet : BOOLEAN,
               confirmed : BOOLEAN, creator : GoogleIds \cup {None}]
  /\ social \subseteq GoogleIds /\ trusted \subseteq social
  /\ link \in [Codes -> [purpose : {"none", "generic", "email_confirmation"},
                         live : BOOLEAN, stamped : BOOLEAN]]
  /\ mailbox \subseteq Codes /\ followed \subseteq Codes
  /\ pc \in [Requests -> Steps]
  /\ arg \in [Requests -> GoogleIds \cup Codes \cup {None}]
  /\ verified \in [Requests -> BOOLEAN] /\ known \in [Requests -> BOOLEAN]
  /\ tries \in [Requests -> 0..MaxAttempts]
  /\ steady \in BOOLEAN

Init ==
  /\ user = NoUser /\ social = {} /\ trusted = {}
  /\ link = [c \in Codes |-> NoLink]
  /\ mailbox = {} /\ followed = {}
  /\ pc = [r \in Requests |-> "idle"] /\ arg = [r \in Requests |-> None]
  /\ verified = [r \in Requests |-> FALSE] /\ known = [r \in Requests |-> FALSE]
  /\ tries = [r \in Requests |-> 0]
  /\ steady = FALSE

Goto(r, step) == pc' = [pc EXCEPT ![r] = step]

End(r) ==
  /\ Goto(r, "idle")
  /\ arg' = [arg EXCEPT ![r] = None]
  /\ verified' = [verified EXCEPT ![r] = FALSE] /\ known' = [known EXCEPT ![r] = FALSE]
  /\ tries' = [tries EXCEPT ![r] = 0]

-----------------------------------------------------------------------------
(* Registration and the welcome letter. *)

\* /register: the commit, of which the unique login lets one through.
Register(r) ==
  /\ pc[r] = "idle" /\ user.state = "absent"
  /\ user' = [user EXCEPT !.state = "present", !.passwordSet = TRUE]
  /\ Goto(r, "draw")
  /\ UNCHANGED <<social, trusted, link, mailbox, followed, arg, verified, known, tries>>

\* create_email_confirmation_link, a background task, and create_short_link:
\* a code that is taken is drawn again.
DrawCode(r, c) ==
  /\ pc[r] = "draw"
  /\ IF link[c].purpose = "none"
     THEN /\ link' = [link EXCEPT ![c] = [purpose |-> "email_confirmation",
                                          live |-> TRUE, stamped |-> FALSE]]
          /\ Goto(r, "write")
          /\ arg' = [arg EXCEPT ![r] = c]
          /\ UNCHANGED tries
     ELSE /\ tries' = [tries EXCEPT ![r] = @ + 1]
          /\ IF tries'[r] = MaxAttempts THEN Goto(r, "write") ELSE UNCHANGED pc
          /\ UNCHANGED <<link, arg>>
  /\ UNCHANGED <<user, social, trusted, mailbox, followed, verified, known>>

\* Any failure on the way to the link leaves the letter without one.
LinkUnavailable(r) ==
  /\ pc[r] = "draw"
  /\ Goto(r, "write")
  /\ UNCHANGED <<rows, mailbox, followed, arg, verified, known, tries>>

\* send_welcome_with_confirmation: the request to notification_api, and, of the
\* stages behind it, that the letter arrives or does not.
SendWelcome(r, arrives) ==
  /\ pc[r] = "write"
  /\ mailbox' = IF arrives /\ arg[r] # None THEN mailbox \cup {arg[r]} ELSE mailbox
  /\ End(r)
  /\ UNCHANGED <<rows, followed>>

\* POST /links of another service; what matters of it is its code.
CreateOtherLink(c) ==
  /\ link[c].purpose = "none"
  /\ link' = [link EXCEPT ![c] = [purpose |-> "generic", live |-> TRUE, stamped |-> FALSE]]
  /\ UNCHANGED <<user, social, trusted, mailbox, followed, handlers>>

-----------------------------------------------------------------------------
(* Google: OAuthService. *)

\* _get_social_account of authenticate_or_register: a known account signs in.
FindSocial(r, g, v) ==
  /\ pc[r] = "idle" /\ g \notin social
  /\ Goto(r, "findUser")
  /\ arg' = [arg EXCEPT ![r] = g] /\ verified' = [verified EXCEPT ![r] = v]
  /\ UNCHANGED <<rows, mailbox, followed, known, tries>>

\* _get_user_by_login: an email that Google has not verified is turned down if
\* somebody has it.
FindUser(r) ==
  /\ pc[r] = "findUser"
  /\ IF user.state = "present" /\ ~verified[r]
     THEN End(r)
     ELSE /\ Goto(r, "saveGoogle")
          /\ known' = [known EXCEPT ![r] = (user.state = "present")]
          /\ UNCHANGED <<arg, verified, tries>>
  /\ UNCHANGED <<rows, mailbox, followed>>

LinkTo(r) ==
  /\ social' = social \cup {arg[r]}
  /\ trusted' = IF verified[r] THEN trusted \cup {arg[r]} ELSE trusted

SaveGoogleAdopts(r) == \* mutant: on a conflict the row that is there is taken
  /\ pc[r] = "saveGoogle" /\ End(r)
  /\ IF arg[r] \notin social /\ user.state # "gone"
     THEN /\ LinkTo(r)
          /\ user' = IF user.state = "absent"
                     THEN [user EXCEPT !.state = "present", !.creator = arg[r]]
                     ELSE user
     ELSE UNCHANGED <<user, social, trusted>>
  /\ UNCHANGED <<link, mailbox, followed>>

\* flush and commit, one transaction: a user if there was none, and the link.
\* A unique or foreign key that fails is a 500 and leaves nothing.
SaveGoogle(r) ==
  /\ pc[r] = "saveGoogle"
  /\ End(r)
  /\ IF arg[r] \notin social /\ user.state = (IF known[r] THEN "present" ELSE "absent")
     THEN /\ LinkTo(r)
          /\ user' = IF known[r] THEN user
                     ELSE [user EXCEPT !.state = "present", !.creator = arg[r]]
     ELSE UNCHANGED <<user, social, trusted>>
  /\ UNCHANGED <<link, mailbox, followed>>

\* unlink: its row of the provider; with two of them scalar_one_or_none raises.
SelectLink(r, g) ==
  /\ pc[r] = "idle" /\ user.state = "present"
  /\ social = {g}
  /\ Goto(r, "checkOthers")
  /\ arg' = [arg EXCEPT ![r] = g] /\ known' = [known EXCEPT ![r] = TRUE]
  /\ UNCHANGED <<rows, mailbox, followed, verified, tries>>

\* The rows other than the one it holds, which may be gone by now.
OtherLinks(r) == IF known[r] THEN social \ {arg[r]} ELSE social

CheckOthersNot(r) == \* mutant: the last way to sign in is not looked after
  /\ pc[r] = "checkOthers"
  /\ Goto(r, "dropLink")
  /\ UNCHANGED <<rows, mailbox, followed, arg, verified, known, tries>>

\* Without a password the last link stays.
CheckOthers(r) ==
  /\ pc[r] = "checkOthers"
  /\ IF user.passwordSet \/ OtherLinks(r) # {}
     THEN Goto(r, "dropLink") /\ UNCHANGED <<arg, verified, known, tries>>
     ELSE End(r)
  /\ UNCHANGED <<rows, mailbox, followed>>

\* Rows that are deleted are found no more by those who hold them.
Lose(gs) ==
  /\ social' = social \ gs /\ trusted' = trusted \ gs
  /\ known' = [r \in Requests |->
                 known[r] /\ ~(pc[r] \in {"checkOthers", "dropLink"} /\ arg[r] \in gs)]

\* DELETE by the id of the row; a row that is gone is a 500.
DropLink(r) ==
  /\ pc[r] = "dropLink"
  /\ IF known[r] THEN Lose({arg[r]}) ELSE UNCHANGED <<social, trusted, known>>
  /\ Goto(r, "idle")
  /\ arg' = [arg EXCEPT ![r] = None]
  /\ UNCHANGED <<user, link, mailbox, followed, verified, tries>>

\* An operator deletes the user; social_accounts go with it, short_links do not.
DeleteUser ==
  /\ user.state = "present"
  /\ user' = [user EXCEPT !.state = "gone"]
  /\ Lose(social)
  /\ UNCHANGED <<link, mailbox, followed, pc, arg, verified, tries>>

-----------------------------------------------------------------------------
(* link_shortener_service: the visit of a code. *)

Confirms(c) == link[c].purpose = "email_confirmation" /\ ~link[c].stamped

VisitStamps(r, c) == \* mutant: the link is stamped before the email is confirmed
  /\ pc[r] = "idle" /\ link[c].live
  /\ link[c].purpose = "email_confirmation" => c \in mailbox
  /\ IF Confirms(c)
     THEN /\ Goto(r, "confirm") /\ arg' = [arg EXCEPT ![r] = c]
          /\ link' = [link EXCEPT ![c].stamped = TRUE]
          /\ UNCHANGED followed
     ELSE followed' = followed \cup {c} /\ UNCHANGED <<pc, arg, link>>
  /\ UNCHANGED <<user, social, trusted, mailbox, verified, known, tries>>

\* visit_short_link: UPDATE ... RETURNING of a link that is there and live.
Visit(r, c) ==
  /\ pc[r] = "idle" /\ link[c].live
  /\ link[c].purpose = "email_confirmation" => c \in mailbox
  /\ IF Confirms(c)
     THEN /\ Goto(r, "confirm") /\ arg' = [arg EXCEPT ![r] = c]
          /\ UNCHANGED followed
     ELSE followed' = followed \cup {c} /\ UNCHANGED <<pc, arg>>
  /\ UNCHANGED <<rows, mailbox, verified, known, tries>>

ConfirmLater(r) == \* mutant: an auth_service that does not answer is passed over
  /\ pc[r] = "confirm"
  /\ \/ user' = IF user.state = "present" THEN [user EXCEPT !.confirmed = TRUE] ELSE user
     \/ ~steady /\ UNCHANGED user
  /\ Goto(r, "stamp")
  /\ UNCHANGED <<social, trusted, link, mailbox, followed, arg, verified, known, tries>>

\* confirm_user_email of auth_service; 404 counts as well.
ConfirmEmail(r) ==
  /\ pc[r] = "confirm"
  /\ user' = IF user.state = "present" THEN [user EXCEPT !.confirmed = TRUE] ELSE user
  /\ Goto(r, "stamp")
  /\ UNCHANGED <<social, trusted, link, mailbox, followed, arg, verified, known, tries>>

\* No answer, or a 5xx: 503 and no redirect, although the email may be confirmed.
ConfirmFails(r) ==
  /\ pc[r] = "confirm"
  /\ \/ UNCHANGED user
     \/ user.state = "present" /\ user' = [user EXCEPT !.confirmed = TRUE]
  /\ End(r)
  /\ UNCHANGED <<social, trusted, link, mailbox, followed>>

\* confirmed_at, COALESCE; then the redirect.
Stamp(r) ==
  /\ pc[r] = "stamp"
  /\ link' = [link EXCEPT ![arg[r]].stamped = TRUE]
  /\ followed' = followed \cup {arg[r]}
  /\ End(r)
  /\ UNCHANGED <<user, social, trusted, mailbox>>

\* expires_at has passed.
Expire(c) ==
  /\ link[c].live
  /\ link' = [link EXCEPT ![c].live = FALSE]
  /\ UNCHANGED <<user, social, trusted, mailbox, followed, handlers>>

-----------------------------------------------------------------------------
\* A call fails, or the process dies.
Abort(r) ==
  /\ pc[r] # "idle"
  /\ End(r)
  /\ UNCHANGED <<rows, mailbox, followed>>

SendLetter(r) ==
  \/ \E c \in Codes : DrawCode(r, c)
  \/ \E b \in BOOLEAN : SendWelcome(r, b)

Google(r) ==
  \/ \E g \in GoogleIds : \/ \E v \in BOOLEAN : FindSocial(r, g, v)
                          \/ SelectLink(r, g)
  \/ FindUser(r) \/ SaveGoogle(r) \/ CheckOthers(r) \/ DropLink(r)

FollowLink(r) == (\E c \in Codes : Visit(r, c)) \/ ConfirmEmail(r) \/ Stamp(r)

Failure ==
  \/ \E r \in Requests : LinkUnavailable(r) \/ ConfirmFails(r) \/ Abort(r)
  \/ DeleteUser

Steady == ~steady /\ steady' = TRUE /\ UNCHANGED <<rows, mailbox, followed, handlers>>

Next ==
  \/ \E r \in Requests :
       (Register(r) \/ SendLetter(r) \/ Google(r) \/ FollowLink(r)) /\ UNCHANGED steady
  \/ \E c \in Codes : (CreateOtherLink(c) \/ Expire(c)) /\ UNCHANGED steady
  \/ ~steady /\ Failure /\ UNCHANGED steady
  \/ Steady

Spec == Init /\ [][Next]_vars

\* A handler that has begun goes on; the reader of a letter clicks again.
AccountsFairness ==
  /\ \A r \in Requests :
       /\ WF_vars((ConfirmEmail(r) \/ Stamp(r)) /\ UNCHANGED steady)
       /\ WF_vars((SendLetter(r) \/ FindUser(r) \/ SaveGoogle(r) \/ CheckOthers(r)
                   \/ DropLink(r)) /\ UNCHANGED steady)
  /\ \A c \in Codes : SF_vars((\E r \in Requests : Visit(r, c)) /\ UNCHANGED steady)

FairSpec == Spec /\ AccountsFairness

-----------------------------------------------------------------------------
(* Properties. *)

\* Whoever was redirected by the link of a letter has the email confirmed,
\* although the visit holds no lock over its call of auth_service and a later
\* visit trusts confirmed_at (visit_short_link).
RedirectedIsConfirmed ==
  \A c \in followed :
    link[c].purpose = "email_confirmation" => user.confirmed \/ user.state = "gone"

\* A Google account whose email nobody has verified opens an account of its
\* own or none: it is never attached to the account of another, also if that
\* one appears between the look and the commit (authenticate_or_register).
UnverifiedStaysAlone == social \ trusted \subseteq {user.creator}

\* Every user has a way to sign in, whatever is linked and unlinked at once
\* (unlink, is_password_set).
EveryUserCanSignIn == user.state = "present" => user.passwordSet \/ social # {}

\* Who keeps clicking while the link is live gets the email confirmed once the
\* services answer: a visit that failed uses nothing up (visit_short_link).
ClickingConfirms ==
  \A c \in Codes :
    steady /\ c \in mailbox ~> user.confirmed \/ user.state = "gone" \/ ~link[c].live
=============================================================================
