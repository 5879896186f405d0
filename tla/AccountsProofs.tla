----------------------------- MODULE AccountsProofs -----------------------------
(***************************************************************************)
(* Accounts, links and letters for any number of handlers, Google accounts *)
(* and codes: the three safety properties of Accounts.                     *)
(***************************************************************************)
EXTENDS Accounts, TLAPS

Users == [state : {"absent", "present", "gone"}, passwordSet : BOOLEAN,
          confirmed : BOOLEAN, creator : GoogleIds \cup {None}]
Links == [purpose : {"none", "generic", "email_confirmation"}, live : BOOLEAN, stamped : BOOLEAN]

Shape ==
  /\ user \in Users /\ social \subseteq GoogleIds /\ trusted \subseteq social
  /\ link \in [Codes -> Links] /\ followed \subseteq Codes /\ mailbox \subseteq Codes
  /\ pc \in [Requests -> Steps] /\ arg \in [Requests -> GoogleIds \cup Codes \cup {None}]
  /\ verified \in [Requests -> BOOLEAN] /\ known \in [Requests -> BOOLEAN]
  /\ DOMAIN tries = Requests

\* What a handler has in hand at each step.
InHand ==
  \A r \in Requests :
    /\ pc[r] \in {"confirm", "stamp"} => arg[r] \in Codes
    /\ pc[r] = "idle" => arg[r] = None
    /\ pc[r] \in {"draw", "write"} => arg[r] \in Codes \cup {None}
    /\ pc[r] \in {"findUser", "saveGoogle", "checkOthers", "dropLink"} => arg[r] \in GoogleIds

\* An account that somebody else has opened is offered to verified emails only.
AdoptedIsVerified == \A r \in Requests : pc[r] = "saveGoogle" /\ known[r] => verified[r]

AbsentIsEmpty == user.state = "absent" => social = {}

\* The rows that unlink has in hand.
Holds(r) == pc[r] \in {"checkOthers", "dropLink"} /\ known[r]

\* All who unlink a row that is there unlink the same one, because each of them
\* found it alone; and one that is through with its checks leaves another way in.
UnlinkersAgree ==
  /\ \A r \in Requests : Holds(r) => arg[r] \in social
  /\ \A r, q \in Requests : Holds(r) /\ Holds(q) => arg[r] = arg[q]
  /\ \A r \in Requests : Holds(r) /\ pc[r] = "dropLink" => user.passwordSet \/ social \ {arg[r]} # {}

Settled == user.confirmed \/ user.state = "gone"

\* There is a letter only for a user; and a stamp only after a confirmation.
LettersHaveUsers ==
  /\ \A r \in Requests : pc[r] = "draw" => user.state # "absent"
  /\ \A r \in Requests : pc[r] \in {"confirm", "stamp"} => link[arg[r]].purpose = "email_confirmation"
  /\ \A c \in Codes : link[c].purpose = "email_confirmation" => user.state # "absent"
  /\ \A c \in Codes : link[c].live => link[c].purpose # "none"

StampedIsConfirmed ==
  /\ \A r \in Requests : pc[r] = "stamp" => Settled
  /\ \A c \in Codes : link[c].stamped => Settled
  /\ \A c \in followed : link[c].purpose # "none"

IInv ==
  /\ Shape /\ InHand /\ AdoptedIsVerified /\ AbsentIsEmpty /\ UnlinkersAgree
  /\ LettersHaveUsers /\ StampedIsConfirmed
  /\ UnverifiedStaysAlone /\ EveryUserCanSignIn /\ RedirectedIsConfirmed

LEMMA InvStart == AccountsAssumption /\ Init => IInv
  BY DEF AccountsAssumption, Init, IInv, Shape, InHand, AdoptedIsVerified, AbsentIsEmpty,
         UnlinkersAgree, Holds, LettersHaveUsers, StampedIsConfirmed, Settled, UnverifiedStaysAlone,
         EveryUserCanSignIn, RedirectedIsConfirmed, NoUser, NoLink, Users, Links, Steps

-----------------------------------------------------------------------------
(* Steps by what they change. *)

HandlerTypes ==
  /\ pc \in [Requests -> Steps] /\ arg \in [Requests -> GoogleIds \cup Codes \cup {None}]
  /\ verified \in [Requests -> BOOLEAN] /\ known \in [Requests -> BOOLEAN]
  /\ DOMAIN tries = Requests

OthersStay(r) ==
  \A q \in Requests \ {r} : /\ pc'[q] = pc[q] /\ arg'[q] = arg[q]
                            /\ verified'[q] = verified[q] /\ known'[q] = known[q]

LEMMA Ended ==
  ASSUME HandlerTypes, NEW r \in Requests, End(r)
  PROVE  HandlerTypes' /\ OthersStay(r) /\ pc'[r] = "idle" /\ arg'[r] = None
  BY DEF HandlerTypes, OthersStay, End, Goto, Steps

\* A handler with nothing in hand any more is in nobody's way.
LEMMA Idles ==
  ASSUME IInv, NEW r \in Requests, HandlerTypes', OthersStay(r), pc'[r] = "idle", arg'[r] = None,
         UNCHANGED <<user, social, trusted, link, followed>>, mailbox' \subseteq Codes
  PROVE  IInv'
<1> USE DEF IInv, OthersStay
<1>1. Shape'
  BY DEF Shape, HandlerTypes
<1>2. InHand' /\ AdoptedIsVerified' /\ AbsentIsEmpty'
  BY DEF InHand, AdoptedIsVerified, AbsentIsEmpty
<1>3. UnlinkersAgree'
  BY DEF UnlinkersAgree, Holds
<1>4. LettersHaveUsers' /\ StampedIsConfirmed' /\ RedirectedIsConfirmed'
  BY DEF LettersHaveUsers, StampedIsConfirmed, RedirectedIsConfirmed, Settled
<1>5. UnverifiedStaysAlone' /\ EveryUserCanSignIn'
  BY DEF UnverifiedStaysAlone, EveryUserCanSignIn
<1> QED  BY <1>1, <1>2, <1>3, <1>4, <1>5

LEMMA EndsQuietly ==
  ASSUME IInv, NEW r \in Requests, End(r), UNCHANGED <<user, social, trusted, link, followed>>,
         mailbox' \subseteq Codes
  PROVE  IInv'
  BY Ended, Idles DEF IInv, Shape, HandlerTypes

\* What confirmation rests on, when only links and the confirmation change.
LEMMA SigningKept ==
  ASSUME IInv, UNCHANGED <<social, trusted>>,
         \A r \in Requests : pc'[r] \in {"saveGoogle", "checkOthers", "dropLink"} =>
           pc'[r] = pc[r] /\ arg'[r] = arg[r] /\ known'[r] = known[r] /\ verified'[r] = verified[r],
         /\ user'.state = user.state /\ user'.passwordSet = user.passwordSet
         /\ user'.creator = user.creator
  PROVE  /\ AdoptedIsVerified' /\ AbsentIsEmpty' /\ UnlinkersAgree'
         /\ UnverifiedStaysAlone' /\ EveryUserCanSignIn'
<1> USE DEF IInv
<1>1. AdoptedIsVerified' /\ AbsentIsEmpty'
  BY DEF AdoptedIsVerified, AbsentIsEmpty
<1>2. UnlinkersAgree'
  BY DEF UnlinkersAgree, Holds
<1>3. UnverifiedStaysAlone' /\ EveryUserCanSignIn'
  BY DEF UnverifiedStaysAlone, EveryUserCanSignIn
<1> QED  BY <1>1, <1>2, <1>3

\* What signing in rests on does not matter to confirmation, as long as the user
\* does not come to be absent.
LEMMA ConfirmingKept ==
  ASSUME IInv, UNCHANGED <<link, followed>>,
         \A r \in Requests : pc'[r] \in {"draw", "confirm", "stamp"} => pc'[r] = pc[r] /\ arg'[r] = arg[r],
         user.confirmed => user'.confirmed, user.state = "gone" => user'.state = "gone",
         user'.state = "absent" => user.state = "absent"
  PROVE  LettersHaveUsers' /\ StampedIsConfirmed' /\ RedirectedIsConfirmed'
<1> USE DEF IInv
<1>1. LettersHaveUsers'
  BY DEF LettersHaveUsers
<1>2. StampedIsConfirmed' /\ RedirectedIsConfirmed'
  BY DEF StampedIsConfirmed, RedirectedIsConfirmed, Settled
<1> QED  BY <1>1, <1>2

-----------------------------------------------------------------------------
(* The letter and its link. *)

LEMMA LetterStep ==
  ASSUME AccountsAssumption, IInv, NEW r \in Requests, Register(r) \/ SendLetter(r) \/ LinkUnavailable(r)
  PROVE  IInv'
<1> USE DEF IInv, Shape, Users, Links, Steps, Goto
<1>1. CASE Register(r)
  <2>1. /\ user.state = "absent" /\ social = {}
        /\ user' = [user EXCEPT !.state = "present", !.passwordSet = TRUE] /\ user' \in Users
        /\ pc' = [pc EXCEPT ![r] = "draw"]
        /\ UNCHANGED <<social, trusted, link, mailbox, followed, arg, verified, known, tries>>
    BY <1>1 DEF Register, AbsentIsEmpty
  <2>a. user'.state = "present" /\ user'.passwordSet
    BY <2>1
  <2>b. Shape' /\ InHand'
    BY <1>1, <2>1 DEF Register, InHand
  <2>2. AdoptedIsVerified' /\ AbsentIsEmpty' /\ UnverifiedStaysAlone' /\ EveryUserCanSignIn'
    BY <2>1, <2>a DEF AdoptedIsVerified, AbsentIsEmpty, UnverifiedStaysAlone, EveryUserCanSignIn
  <2>3. UnlinkersAgree'
    BY <2>1 DEF UnlinkersAgree, Holds
  <2>4. LettersHaveUsers' /\ StampedIsConfirmed' /\ RedirectedIsConfirmed'
    BY <2>1 DEF LettersHaveUsers, StampedIsConfirmed, RedirectedIsConfirmed, Settled
  <2> QED  BY <2>b, <2>2, <2>3, <2>4
<1>2. ASSUME NEW c \in Codes, DrawCode(r, c) PROVE IInv'
  <2>1. PICK next \in {"draw", "write"} :
          /\ pc' = [pc EXCEPT ![r] = next] /\ pc[r] = "draw"
          /\ arg' = arg \/ arg' = [arg EXCEPT ![r] = c]
          /\ \/ link' = link
             \/ /\ link[c].purpose = "none"
                /\ link' = [link EXCEPT ![c] = [purpose |-> "email_confirmation", live |-> TRUE, stamped |-> FALSE]]
          /\ DOMAIN tries' = Requests
          /\ UNCHANGED <<user, social, trusted, mailbox, followed, verified, known>>
    BY <1>2 DEF DrawCode
  <2>2. pc' \in [Requests -> Steps] /\ arg' \in [Requests -> GoogleIds \cup Codes \cup {None}]
    BY <2>1
  <2>3. link' \in [Codes -> Links]
    <3>1. [purpose |-> "email_confirmation", live |-> TRUE, stamped |-> FALSE] \in Links
      OBVIOUS
    <3> HIDE DEF Links
    <3> QED  BY <2>1, <3>1
  <2>4. Shape'
    BY <2>1, <2>2, <2>3
  <2>5. InHand'
    BY <2>1 DEF InHand
  <2>6. LettersHaveUsers' /\ StampedIsConfirmed' /\ RedirectedIsConfirmed'
    BY <2>1 DEF InHand, LettersHaveUsers, StampedIsConfirmed, RedirectedIsConfirmed, Settled
  <2> QED  BY <2>1, <2>4, <2>5, <2>6, SigningKept
<1>3. ASSUME NEW b \in BOOLEAN, SendWelcome(r, b) PROVE IInv'
  <2>1. End(r) /\ UNCHANGED <<user, social, trusted, link, followed>>
    BY <1>3 DEF SendWelcome, rows
  <2>2. mailbox' \subseteq Codes
    <3>1. arg[r] # None => arg[r] \in Codes
      BY <1>3 DEF SendWelcome, InHand
    <3> QED  BY <1>3, <3>1 DEF SendWelcome
  <2> QED  BY <2>1, <2>2, EndsQuietly
<1>4. CASE LinkUnavailable(r)
  <2>1. /\ pc[r] = "draw" /\ pc' = [pc EXCEPT ![r] = "write"]
        /\ UNCHANGED <<user, social, trusted, link, mailbox, followed, arg, verified, known, tries>>
    BY <1>4 DEF LinkUnavailable, rows
  <2>2. Shape' /\ InHand'
    BY <2>1 DEF InHand
  <2> QED  BY <2>1, <2>2, SigningKept, ConfirmingKept
<1> QED  BY <1>1, <1>2, <1>3, <1>4 DEF SendLetter

LEMMA LinkStep ==
  ASSUME AccountsAssumption, IInv, NEW c \in Codes, CreateOtherLink(c) \/ Expire(c)
  PROVE  IInv'
<1> USE DEF IInv, handlers
<1>1. PICK new \in Links :
        /\ link' = [link EXCEPT ![c] = new]
        /\ new.live => new.purpose # "none"
        /\ \/ link[c].purpose = "none" /\ new.purpose = "generic" /\ ~new.stamped
           \/ new.purpose = link[c].purpose /\ new.stamped = link[c].stamped
        /\ UNCHANGED <<user, social, trusted, mailbox, followed, pc, arg, verified, known, tries>>
  <2>1. CASE CreateOtherLink(c)
    <3>1. [purpose |-> "generic", live |-> TRUE, stamped |-> FALSE] \in Links
      BY DEF Links
    <3> QED  BY <2>1, <3>1 DEF CreateOtherLink
  <2>2. CASE Expire(c)
    <3>0. link[c] \in Links
      BY DEF Shape
    <3>1. [link[c] EXCEPT !.live = FALSE] \in Links
      BY <3>0 DEF Links
    <3>2. /\ [link[c] EXCEPT !.live = FALSE].purpose = link[c].purpose
          /\ [link[c] EXCEPT !.live = FALSE].stamped = link[c].stamped
          /\ ~[link[c] EXCEPT !.live = FALSE].live
      BY <3>0 DEF Links
    <3>3. link' = [link EXCEPT ![c] = [link[c] EXCEPT !.live = FALSE]]
      BY <2>2 DEF Expire
    <3> QED  BY <2>2, <3>1, <3>2, <3>3 DEF Expire
  <2> QED  BY <2>1, <2>2
<1>2. Shape' /\ InHand'
  BY <1>1 DEF Shape, InHand
<1>3. LettersHaveUsers' /\ StampedIsConfirmed' /\ RedirectedIsConfirmed'
  BY <1>1 DEF LettersHaveUsers, StampedIsConfirmed, RedirectedIsConfirmed, Settled, Shape, InHand
<1> QED  BY <1>1, <1>2, <1>3, SigningKept

LEMMA Stamped ==
  ASSUME NEW l \in Links
  PROVE  \E new \in Links : /\ new = [l EXCEPT !.stamped = TRUE]
                            /\ new.purpose = l.purpose /\ new.live = l.live
<1> DEFINE new == [l EXCEPT !.stamped = TRUE]
<1>1. new \in Links /\ new.purpose = l.purpose /\ new.live = l.live
  BY DEF Links
<1> QED  BY <1>1

\* The visit of a link, which is stamped behind a confirmation only.
LEMMA VisitStep ==
  ASSUME AccountsAssumption, IInv, NEW r \in Requests, FollowLink(r) \/ ConfirmFails(r)
  PROVE  IInv'
<1> USE DEF IInv, Goto, rows
<1>1. ASSUME NEW c \in Codes, Visit(r, c) PROVE IInv'
  <2>1. CASE Confirms(c)
    <3>1. /\ pc' = [pc EXCEPT ![r] = "confirm"] /\ arg' = [arg EXCEPT ![r] = c]
          /\ UNCHANGED <<user, social, trusted, link, mailbox, followed, verified, known, tries>>
          /\ link[c].purpose = "email_confirmation"
      BY <1>1, <2>1 DEF Visit, Confirms
    <3>2. Shape' /\ InHand'
      BY <3>1 DEF Shape, InHand, Steps
    <3>3. LettersHaveUsers' /\ StampedIsConfirmed' /\ RedirectedIsConfirmed'
      BY <3>1 DEF LettersHaveUsers, StampedIsConfirmed, RedirectedIsConfirmed, Settled, Shape
    <3> QED  BY <3>1, <3>2, <3>3, SigningKept DEF Shape
  <2>2. CASE ~Confirms(c)
    <3>1. /\ followed' = followed \cup {c} /\ link[c].live
          /\ UNCHANGED <<user, social, trusted, link, mailbox, pc, arg, verified, known, tries>>
      BY <1>1, <2>2 DEF Visit
    <3>2. Shape' /\ InHand'
      BY <3>1 DEF Shape, InHand
    <3>3. LettersHaveUsers' /\ StampedIsConfirmed' /\ RedirectedIsConfirmed'
      BY <2>2, <3>1 DEF LettersHaveUsers, StampedIsConfirmed, RedirectedIsConfirmed, Settled, Confirms
    <3> QED  BY <3>1, <3>2, <3>3, SigningKept
  <2> QED  BY <2>1, <2>2
<1>2. ASSUME \/ user' = user
             \/ user.state = "present" /\ user' = [user EXCEPT !.confirmed = TRUE]
      PROVE  /\ user' \in Users /\ user'.state = user.state /\ user'.passwordSet = user.passwordSet
             /\ user'.creator = user.creator /\ (user.confirmed => user'.confirmed)
  BY <1>2 DEF Shape, Users
<1>3. CASE ConfirmEmail(r)
  <2>1. /\ pc[r] = "confirm" /\ pc' = [pc EXCEPT ![r] = "stamp"]
        /\ user' = IF user.state = "present" THEN [user EXCEPT !.confirmed = TRUE] ELSE user
        /\ UNCHANGED <<social, trusted, link, mailbox, followed, arg, verified, known, tries>>
    BY <1>3 DEF ConfirmEmail
  <2>2. Shape' /\ InHand'
    BY <2>1, <1>2 DEF Shape, InHand, Steps
  <2>3. Settled'
    BY <2>1 DEF Shape, Users, Settled, LettersHaveUsers, InHand
  <2>4. LettersHaveUsers' /\ StampedIsConfirmed' /\ RedirectedIsConfirmed'
    BY <2>1, <1>2, <2>3 DEF LettersHaveUsers, StampedIsConfirmed, RedirectedIsConfirmed, Settled
  <2> QED  BY <2>1, <1>2, <2>2, <2>4, SigningKept DEF Shape
<1>4. CASE ConfirmFails(r)
  <2>1. UNCHANGED <<social, trusted, link, mailbox, followed>> /\ End(r)
    BY <1>4 DEF ConfirmFails
  <2>2. HandlerTypes' /\ OthersStay(r) /\ pc'[r] = "idle" /\ arg'[r] = None
    BY <2>1, Ended DEF Shape, HandlerTypes
  <2>3. Shape' /\ InHand'
    BY <2>1, <2>2, <1>2, <1>4 DEF Shape, InHand, HandlerTypes, OthersStay, ConfirmFails
  <2> QED  BY <2>1, <2>2, <2>3, <1>2, <1>4, SigningKept, ConfirmingKept DEF ConfirmFails, OthersStay
<1>5. CASE Stamp(r)
  <2>1. /\ pc[r] = "stamp" /\ arg[r] \in Codes /\ Settled
        /\ link' = [link EXCEPT ![arg[r]].stamped = TRUE]
        /\ followed' = followed \cup {arg[r]}
        /\ End(r) /\ UNCHANGED <<user, social, trusted, mailbox>>
    BY <1>5 DEF Stamp, InHand, StampedIsConfirmed
  <2>2. HandlerTypes' /\ OthersStay(r) /\ pc'[r] = "idle" /\ arg'[r] = None
    BY <2>1, Ended DEF Shape, HandlerTypes
  <2>3. link' \in [Codes -> Links] /\ \A c \in Codes : link'[c].purpose = link[c].purpose /\ link'[c].live = link[c].live
    <3>1. link[arg[r]] \in Links
      BY <2>1 DEF Shape
    <3>2. PICK new \in Links : /\ new = [link[arg[r]] EXCEPT !.stamped = TRUE]
                              /\ new.purpose = link[arg[r]].purpose /\ new.live = link[arg[r]].live
      BY <3>1, Stamped
    <3>3. link' = [link EXCEPT ![arg[r]] = new]
      BY <2>1, <3>2
    <3> HIDE DEF Links
    <3> QED  BY <2>1, <3>2, <3>3 DEF Shape
  <2>4. Shape' /\ InHand'
    BY <2>1, <2>2, <2>3 DEF Shape, InHand, HandlerTypes, OthersStay
  <2>5. LettersHaveUsers' /\ StampedIsConfirmed' /\ RedirectedIsConfirmed'
    BY <2>1, <2>2, <2>3 DEF LettersHaveUsers, StampedIsConfirmed, RedirectedIsConfirmed, Settled, OthersStay, Shape, InHand
  <2> QED  BY <2>1, <2>2, <2>4, <2>5, SigningKept DEF OthersStay
<1> QED  BY <1>1, <1>3, <1>4, <1>5 DEF FollowLink

-----------------------------------------------------------------------------
(* Google. *)

\* Steps that look only, or end.
LEMMA LookStep ==
  ASSUME AccountsAssumption, IInv, NEW r \in Requests,
         \/ \E g \in GoogleIds : (\E v \in BOOLEAN : FindSocial(r, g, v)) \/ SelectLink(r, g)
         \/ FindUser(r) \/ CheckOthers(r)
  PROVE  IInv'
<1> USE DEF IInv, Goto, rows
<1>1. ASSUME NEW g \in GoogleIds, NEW v \in BOOLEAN, FindSocial(r, g, v) PROVE IInv'
  <2>1. /\ pc' = [pc EXCEPT ![r] = "findUser"] /\ arg' = [arg EXCEPT ![r] = g]
        /\ verified' = [verified EXCEPT ![r] = v]
        /\ UNCHANGED <<user, social, trusted, link, mailbox, followed, known, tries>>
    BY <1>1 DEF FindSocial
  <2>2. Shape' /\ InHand'
    BY <2>1 DEF Shape, InHand, Steps
  <2> QED  BY <2>1, <2>2, SigningKept, ConfirmingKept DEF Shape
<1>2. ASSUME NEW g \in GoogleIds, SelectLink(r, g) PROVE IInv'
  <2>1. /\ pc' = [pc EXCEPT ![r] = "checkOthers"] /\ arg' = [arg EXCEPT ![r] = g]
        /\ known' = [known EXCEPT ![r] = TRUE] /\ social = {g}
        /\ UNCHANGED <<user, social, trusted, link, mailbox, followed, verified, tries>>
    BY <1>2 DEF SelectLink
  <2>2. Shape' /\ InHand'
    BY <2>1 DEF Shape, InHand, Steps
  <2>3. UnlinkersAgree'
    BY <2>1 DEF UnlinkersAgree, Holds, Shape
  <2>4. AdoptedIsVerified' /\ AbsentIsEmpty' /\ UnverifiedStaysAlone' /\ EveryUserCanSignIn'
    BY <2>1 DEF AdoptedIsVerified, AbsentIsEmpty, UnverifiedStaysAlone, EveryUserCanSignIn, Shape
  <2> QED  BY <2>1, <2>2, <2>3, <2>4, ConfirmingKept DEF Shape
<1>3. CASE FindUser(r)
  <2>1. CASE user.state = "present" /\ ~verified[r]
    BY <1>3, <2>1, EndsQuietly DEF FindUser, Shape
  <2>2. CASE ~(user.state = "present" /\ ~verified[r])
    <3>1. /\ pc[r] = "findUser" /\ pc' = [pc EXCEPT ![r] = "saveGoogle"]
          /\ known' = [known EXCEPT ![r] = (user.state = "present")]
          /\ UNCHANGED <<user, social, trusted, link, mailbox, followed, arg, verified, tries>>
      BY <1>3, <2>2 DEF FindUser
    <3>2. Shape' /\ InHand'
      BY <3>1 DEF Shape, InHand, Steps
    <3>3. AdoptedIsVerified' /\ AbsentIsEmpty' /\ UnverifiedStaysAlone' /\ EveryUserCanSignIn'
      BY <3>1, <2>2 DEF AdoptedIsVerified, AbsentIsEmpty, UnverifiedStaysAlone, EveryUserCanSignIn, Shape
    <3>4. UnlinkersAgree'
      BY <3>1 DEF UnlinkersAgree, Holds, Shape
    <3> QED  BY <3>1, <3>2, <3>3, <3>4, ConfirmingKept DEF Shape
  <2> QED  BY <2>1, <2>2
<1>4. CASE CheckOthers(r)
  <2>1. CASE user.passwordSet \/ OtherLinks(r) # {}
    <3>1. /\ pc[r] = "checkOthers" /\ pc' = [pc EXCEPT ![r] = "dropLink"]
          /\ UNCHANGED <<user, social, trusted, link, mailbox, followed, arg, verified, known, tries>>
      BY <1>4, <2>1 DEF CheckOthers
    <3>2. Shape' /\ InHand'
      BY <3>1 DEF Shape, InHand, Steps
    <3>3. AdoptedIsVerified' /\ AbsentIsEmpty' /\ UnverifiedStaysAlone' /\ EveryUserCanSignIn'
      BY <3>1 DEF AdoptedIsVerified, AbsentIsEmpty, UnverifiedStaysAlone, EveryUserCanSignIn, Shape
    <3>4. UnlinkersAgree'
      BY <2>1, <3>1 DEF UnlinkersAgree, Holds, OtherLinks, Shape
    <3> QED  BY <3>1, <3>2, <3>3, <3>4, ConfirmingKept DEF Shape
  <2>2. CASE ~(user.passwordSet \/ OtherLinks(r) # {})
    BY <1>4, <2>2, EndsQuietly DEF CheckOthers, Shape
  <2> QED  BY <2>1, <2>2
<1> QED  BY <1>1, <1>2, <1>3, <1>4

\* The commit of a sign-in attaches a verified account, or the first one.
LEMMA SaveStep ==
  ASSUME AccountsAssumption, IInv, NEW r \in Requests, SaveGoogle(r)
  PROVE  IInv'
<1> USE DEF IInv
<1>0. HandlerTypes' /\ OthersStay(r) /\ pc'[r] = "idle" /\ arg'[r] = None
  BY Ended DEF SaveGoogle, Shape, HandlerTypes
<1>1. CASE UNCHANGED <<user, social, trusted>>
  BY <1>1, EndsQuietly DEF SaveGoogle, Shape
<1>2. CASE arg[r] \notin social /\ user.state = (IF known[r] THEN "present" ELSE "absent")
  <2>1. /\ pc[r] = "saveGoogle" /\ arg[r] \in GoogleIds /\ (known[r] => verified[r])
        /\ social' = social \cup {arg[r]}
        /\ trusted' = IF verified[r] THEN trusted \cup {arg[r]} ELSE trusted
        /\ user' = IF known[r] THEN user ELSE [user EXCEPT !.state = "present", !.creator = arg[r]]
        /\ UNCHANGED <<link, mailbox, followed>>
    BY <1>2 DEF SaveGoogle, LinkTo, InHand, AdoptedIsVerified
  <2>2. /\ user' \in Users /\ user'.passwordSet = user.passwordSet /\ user'.confirmed = user.confirmed
        /\ user'.state = "present"
        /\ known[r] => user' = user
        /\ ~known[r] => user.state = "absent" /\ user'.creator = arg[r] /\ social = {}
    BY <1>2, <2>1 DEF Users, Shape, AbsentIsEmpty
  <2>3. Shape' /\ InHand'
    BY <1>0, <2>1, <2>2 DEF Shape, InHand, HandlerTypes, OthersStay
  <2>4. AdoptedIsVerified' /\ AbsentIsEmpty' /\ EveryUserCanSignIn'
    BY <1>0, <2>1, <2>2 DEF AdoptedIsVerified, AbsentIsEmpty, EveryUserCanSignIn, OthersStay
  <2>5. UnverifiedStaysAlone'
    BY <2>1, <2>2 DEF UnverifiedStaysAlone
  <2>6. UnlinkersAgree'
    BY <1>0, <2>1, <2>2 DEF UnlinkersAgree, Holds, OthersStay
  <2>7. LettersHaveUsers' /\ StampedIsConfirmed' /\ RedirectedIsConfirmed'
    BY <1>0, <1>2, <2>1, <2>2, ConfirmingKept DEF OthersStay
  <2> QED  BY <2>3, <2>4, <2>5, <2>6, <2>7
<1> QED  BY <1>1, <1>2 DEF SaveGoogle


\* A row is dropped that each of its holders has checked: another way in is left.
LEMMA DropStep ==
  ASSUME AccountsAssumption, IInv, NEW r \in Requests, DropLink(r)
  PROVE  IInv'
<1> USE DEF IInv
<1>1. /\ pc[r] = "dropLink" /\ pc' = [pc EXCEPT ![r] = "idle"] /\ arg' = [arg EXCEPT ![r] = None]
      /\ UNCHANGED <<user, link, mailbox, followed, verified, tries>>
  BY DEF DropLink, Goto
<1>2. CASE ~known[r]
  <2>1. UNCHANGED <<social, trusted, known>>
    BY <1>2 DEF DropLink
  <2>2. HandlerTypes' /\ OthersStay(r)
    BY <1>1, <2>1 DEF Shape, HandlerTypes, OthersStay, Steps
  <2> QED  BY <1>1, <2>1, <2>2, Idles DEF Shape
<1>3. CASE known[r]
  <2>1. /\ social' = social \ {arg[r]} /\ trusted' = trusted \ {arg[r]}
        /\ known' = [q \in Requests |->
                       known[q] /\ ~(pc[q] \in {"checkOthers", "dropLink"} /\ arg[q] \in {arg[r]})]
        /\ user.passwordSet \/ social \ {arg[r]} # {}
    BY <1>1, <1>3 DEF DropLink, Lose, UnlinkersAgree, Holds
  <2>2. Shape' /\ InHand'
    BY <1>1, <2>1 DEF Shape, InHand, Steps
  <2>3. \A q \in Requests : ~Holds(q)'
    <3>1. \A q \in Requests : Holds(q) => arg[q] = arg[r]
      BY <1>1, <1>3 DEF UnlinkersAgree, Holds
    <3> QED  BY <1>1, <2>1, <3>1 DEF Holds, Shape
  <2>4. UnlinkersAgree'
    BY <2>3 DEF UnlinkersAgree
  <2>5. AdoptedIsVerified' /\ AbsentIsEmpty'
    BY <1>1, <2>1 DEF AdoptedIsVerified, AbsentIsEmpty, Shape
  <2>6. UnverifiedStaysAlone' /\ EveryUserCanSignIn'
    BY <1>1, <2>1 DEF UnverifiedStaysAlone, EveryUserCanSignIn
  <2> QED  BY <1>1, <2>2, <2>4, <2>5, <2>6, ConfirmingKept DEF Shape
<1> QED  BY <1>2, <1>3

LEMMA DeleteStep ==
  ASSUME AccountsAssumption, IInv, DeleteUser
  PROVE  IInv'
<1> USE DEF IInv
<1>1. /\ user' = [user EXCEPT !.state = "gone"] /\ user' \in Users /\ user'.state = "gone"
      /\ user'.creator = user.creator /\ user'.confirmed = user.confirmed
      /\ social' = {} /\ trusted' = {}
      /\ known' = [q \in Requests |->
                     known[q] /\ ~(pc[q] \in {"checkOthers", "dropLink"} /\ arg[q] \in social)]
      /\ UNCHANGED <<link, mailbox, followed, pc, arg, verified, tries>>
  BY DEF DeleteUser, Lose, Shape, Users
<1>2. Shape' /\ InHand'
  BY <1>1 DEF Shape, InHand
<1>3. \A q \in Requests : ~Holds(q)'
  BY <1>1 DEF Holds, UnlinkersAgree, Shape
<1>4. UnlinkersAgree'
  BY <1>3 DEF UnlinkersAgree
<1>5. AdoptedIsVerified' /\ AbsentIsEmpty' /\ UnverifiedStaysAlone' /\ EveryUserCanSignIn'
  BY <1>1 DEF AdoptedIsVerified, AbsentIsEmpty, UnverifiedStaysAlone, EveryUserCanSignIn, Shape
<1> QED  BY <1>1, <1>2, <1>4, <1>5, ConfirmingKept

-----------------------------------------------------------------------------
(* The theorems. *)

LEMMA InvNext == AccountsAssumption /\ IInv /\ [Next]_vars => IInv'
<1> SUFFICES ASSUME AccountsAssumption, IInv, [Next]_vars PROVE IInv'
  OBVIOUS
<1>1. ASSUME NEW r \in Requests, Register(r) \/ SendLetter(r) \/ Google(r) \/ FollowLink(r) PROVE IInv'
  BY <1>1, LetterStep, LookStep, SaveStep, DropStep, VisitStep DEF Google
<1>2. ASSUME NEW c \in Codes, CreateOtherLink(c) \/ Expire(c) PROVE IInv'
  BY <1>2, LinkStep
<1>3. CASE Failure
  <2>1. ASSUME NEW r \in Requests, Abort(r) PROVE IInv'
    BY <2>1, EndsQuietly DEF Abort, rows, IInv, Shape
  <2> QED  BY <1>3, <2>1, LetterStep, VisitStep, DeleteStep DEF Failure
<1>4. CASE UNCHANGED <<user, social, trusted, link, mailbox, followed, pc, arg, verified, known, tries>>
  <2>1. Shape' /\ InHand'
    BY <1>4 DEF IInv, Shape, InHand
  <2> QED  BY <1>4, <2>1, SigningKept, ConfirmingKept DEF IInv
<1> QED  BY <1>1, <1>2, <1>3, <1>4 DEF Next, Steady, vars, rows, handlers

\* The inductive invariant, for any number of handlers, Google accounts and codes.
THEOREM Invariant == Spec => []IInv
<1> QED  BY AccountsAssumption, InvStart, InvNext, PTL DEF Spec

\* Whoever was redirected by a confirmation link has the email confirmed.
THEOREM RedirectionMeansConfirmed == Spec => []RedirectedIsConfirmed
<1>1. IInv => RedirectedIsConfirmed
  BY DEF IInv
<1> QED  BY <1>1, Invariant, PTL

\* An unverified Google account is attached to nobody else's account.
THEOREM UnverifiedIsNeverAdopted == Spec => []UnverifiedStaysAlone
<1>1. IInv => UnverifiedStaysAlone
  BY DEF IInv
<1> QED  BY <1>1, Invariant, PTL

\* No order of links and unlinks locks a user out.
THEOREM NobodyIsLockedOut == Spec => []EveryUserCanSignIn
<1>1. IInv => EveryUserCanSignIn
  BY DEF IInv
<1> QED  BY <1>1, Invariant, PTL
=============================================================================
