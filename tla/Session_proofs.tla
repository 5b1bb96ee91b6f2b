----------------------------- MODULE Session_proofs -----------------------------
(***************************************************************************)
(* Theorems about the browser session, for any users and any number of     *)
(* tokens, requests and misses: at rest the two-factor section shows what  *)
(* holds on the server, unless the session went astray in one of the ways  *)
(* BadgeIsTrue lists.  The badge is read from the token, and the token is  *)
(* issued by the server at another time than it is read: SessionInv        *)
(* relates the stored token, the request under way and the column.         *)
(***************************************************************************)
EXTENDS Session, TLAPS

USE SessionAssumption DEF SessionAssumption

Grant == [user : User, totp : BOOLEAN]
Held == 0 .. Len(issued)
CallRecord ==
  [no : Nat, kind : {"setup", "enable", "disable"}, by : Held, done : BOOLEAN, token : Held,
   heard : {"section", "tab", "nobody"}]

RefsOK ==
  /\ issued \in Seq(Grant) /\ stash \in Held
  /\ totp \in [User -> {"off", "pending", "on"}]
  /\ callsMade \in Nat /\ calls \subseteq CallRecord

\* Somebody signs in while a sign-in is under way; a password is sent from the first form.
SigningOK ==
  /\ viewer \in User \cup {NoUser}
  /\ signing \in User \cup {NoUser} /\ attempt \in {"none", "password", "code"}
  /\ attempt # "none" \/ place = "mfa" => signing \in User
  /\ attempt = "password" => place = "login"

\* No code has been accepted whose answer is still to come.
Quiet == \A c \in calls : c.token = NoToken

OneCall == /\ \A c, d \in calls : c = d
           /\ \A c \in calls : c.heard # "nobody"

\* A code that was accepted has set the column, and the token issued with it says so.
HandledMeansWritten ==
  \A c \in calls :
    /\ c.token # NoToken <=> c.done /\ c.kind # "setup"
    /\ c.token # NoToken =>
         /\ OwnerOf(c.by) \in User
         /\ issued[c.token].user = OwnerOf(c.by)
         /\ issued[c.token].totp = (c.kind = "enable")
         /\ On(OwnerOf(c.by)) = (c.kind = "enable")

\* A setup was asked for because two-factor is off, and switches nothing off.
SetupIsOff ==
  \A c \in calls : c.kind = "setup" /\ OwnerOf(c.by) \in User => ~On(OwnerOf(c.by))

\* A request is of the user whose section is shown, and is that section's.
OwnCall == place = "security" => \A c \in calls : viewer = OwnerOf(c.by) /\ c.heard = "section"

\* The claim of the stored token, and with it the badge, is the column.
ClaimIsTrue == Quiet /\ stash # NoToken => issued[stash].totp = On(issued[stash].user)
BadgeIsColumn == place = "security" /\ viewer # NoUser /\ Quiet => badge = On(viewer)

Sound == /\ OneCall /\ HandledMeansWritten /\ SetupIsOff /\ OwnCall
         /\ ClaimIsTrue /\ BadgeIsColumn

SessionInv == RefsOK /\ SigningOK /\ (astray \/ Sound)
-----------------------------------------------------------------------------
LEMMA SessionInitially == InitSession => SessionInv
<1> SUFFICES ASSUME InitSession PROVE SessionInv
  OBVIOUS
<1>1. RefsOK /\ SigningOK
  BY DEF InitSession, RefsOK, SigningOK, Held, NoToken
<1>2. Sound
  BY DEF InitSession, Sound, OneCall, HandledMeansWritten, SetupIsOff, OwnCall, ClaimIsTrue,
     BadgeIsColumn, NoToken
<1>. QED
  BY <1>1, <1>2 DEF SessionInv

\* Issuing a token changes nothing about those that were issued before.
LEMMA IssueKeeps ==
  ASSUME NEW grant \in Grant, RefsOK, issued' = Append(issued, grant)
  PROVE  /\ issued' \in Seq(Grant) /\ Len(issued') = Len(issued) + 1
         /\ issued'[Len(issued')] = grant
         /\ \A t \in Held : t \in Held' /\ OwnerOf(t)' = OwnerOf(t)
         /\ \A t \in Held : t # NoToken => issued'[t] = issued[t]
         /\ Len(issued') \in Held' /\ Len(issued') # NoToken
<1>1. issued \in Seq(Grant)
  BY DEF RefsOK
<1>2. issued' \in Seq(Grant) /\ Len(issued') = Len(issued) + 1 /\ issued'[Len(issued')] = grant
  BY <1>1
<1>3. \A t \in Held : t # NoToken => issued'[t] = issued[t]
  BY <1>1 DEF Held, NoToken
<1>4. \A t \in Held : t \in Held'
  BY <1>1, <1>2 DEF Held
<1>5. \A t \in Held : OwnerOf(t)' = OwnerOf(t)
  BY <1>3 DEF OwnerOf, Held, NoToken
<1>6. Len(issued') \in Held' /\ Len(issued') # NoToken
  BY <1>1, <1>2 DEF Held, NoToken
<1>. QED
  BY <1>2, <1>3, <1>4, <1>5, <1>6

\* The same of a token for a user, as the code issues it.
LEMMA IssueKeepsRefs ==
  ASSUME RefsOK, NEW u \in User, NEW on \in BOOLEAN, Issue(u, on)
  PROVE  /\ issued' \in Seq(Grant)
         /\ issued'[Len(issued')].user = u /\ issued'[Len(issued')].totp = on
         /\ \A t \in Held : t \in Held' /\ OwnerOf(t)' = OwnerOf(t)
         /\ \A t \in Held : t # NoToken => issued'[t] = issued[t]
         /\ Len(issued') \in Held' /\ Len(issued') # NoToken
         /\ calls \subseteq CallRecord'
<1> DEFINE grant == [user |-> u, totp |-> on]
<1>1. issued' = Append(issued, grant) /\ grant \in Grant /\ grant.user = u /\ grant.totp = on
  BY DEF Issue, Grant
<1> HIDE DEF grant
<1>2. /\ issued' \in Seq(Grant) /\ issued'[Len(issued')] = grant
      /\ \A t \in Held : t \in Held' /\ OwnerOf(t)' = OwnerOf(t)
      /\ \A t \in Held : t # NoToken => issued'[t] = issued[t]
      /\ Len(issued') \in Held' /\ Len(issued') # NoToken
  BY <1>1, IssueKeeps
<1>3. calls \subseteq CallRecord'
  BY <1>2 DEF RefsOK, CallRecord
<1>. QED
  BY <1>1, <1>2, <1>3

\* An owner is a user, and what is issued to one is a grant.
LEMMA OwnersTyped ==
  ASSUME RefsOK
  PROVE  /\ \A t \in Held : OwnerOf(t) \in User \cup {NoUser}
         /\ \A t \in Held : t # NoToken => issued[t] \in Grant /\ OwnerOf(t) = issued[t].user
                                          /\ OwnerOf(t) \in User
<1>1. \A t \in Held : t # NoToken => issued[t] \in Grant
  BY DEF RefsOK, Held, NoToken
<1>. QED
  BY <1>1 DEF OwnerOf, Grant

LEMMA SigningStep ==
  ASSUME RefsOK, SigningOK, [SessionNext]_svars PROVE SigningOK'
<1> USE DEF SigningOK
<1>1. CASE UNCHANGED <<place, signing, attempt, viewer>>
  BY <1>1
<1>2. ASSUME NEW u \in User, handleLogin(u) PROVE SigningOK'
  BY <1>2 DEF handleLogin, section
<1>3. CASE handleMFA \/ SecondStep
  BY <1>3 DEF handleMFA, SecondStep, section
<1>4. CASE SignedIn \/ LoginRefused \/ BackToLogin
  BY <1>4 DEF SignedIn, LoginRefused, BackToLogin, section
<1>5. CASE Unload \/ Address
  BY <1>5 DEF Unload, Address, Load, NoSection
<1>6. CASE Link \/ handleLogout
  BY <1>6, OwnersTyped DEF Link, handleLogout, login, NoSection, RefsOK
<1>7. ASSUME NEW t \in DOMAIN issued, Dies(t) PROVE SigningOK'
  BY <1>1, <1>7 DEF Dies, login, section
<1>8. CASE SignOutElsewhere \/ apiFetch \/ HomeAnswered \/ Missed \/ UNCHANGED svars
  BY <1>1, <1>8 DEF SignOutElsewhere, apiFetch, HomeAnswered, Missed, login, section, svars
<1>9. ASSUME NEW u \in User, StoredElsewhere(u) \/ TwoFactorElsewhere(u) PROVE SigningOK'
  BY <1>1, <1>9 DEF StoredElsewhere, TwoFactorElsewhere, login, section
<1>10. CASE setupTOTP \/ SendCode \/ \E s \in {"idle", "disable"} : StepTo(s)
  BY <1>1, <1>10 DEF setupTOTP, SendCode, StepTo, Call, login
<1>11. ASSUME NEW c \in calls,
              Serve(c) \/ CallRefused(c) \/ SetupAnswered(c) \/ enableTOTP(c) \/ CallMissed(c)
       PROVE  SigningOK'
  BY <1>1, <1>11 DEF Serve, CallRefused, SetupAnswered, enableTOTP, CallMissed, login, section
<1>. QED
  BY <1>2, <1>3, <1>4, <1>5, <1>6, <1>7, <1>8, <1>9, <1>10, <1>11 DEF SessionNext

\* A request whose answer somebody else, or nobody, will hear is the same otherwise.
LEMMA CallsMarked ==
  ASSUME calls \subseteq CallRecord, NEW c \in calls
  PROVE  /\ Unheard(c) \in CallRecord /\ [c EXCEPT !.heard = "nobody"] \in CallRecord
         /\ Unheard(c).no = c.no /\ [c EXCEPT !.heard = "nobody"].no = c.no
         /\ Unheard(c).kind = c.kind /\ Unheard(c).by = c.by /\ Unheard(c).done = c.done
         /\ Unheard(c).token = c.token
         /\ c.heard # "nobody" => Unheard(c).heard # "nobody"
  BY DEF Unheard, CallRecord

LEMMA RefsStep ==
  ASSUME RefsOK, SigningOK, [SessionNext]_svars PROVE RefsOK'
<1> USE DEF RefsOK
<1>1. CASE /\ stash' \in {stash, NoToken} /\ UNCHANGED <<issued, totp, callsMade>>
           /\ calls' \subseteq CallRecord
  BY <1>1 DEF Held, CallRecord, NoToken
<1>2. ASSUME NEW u \in User, handleLogin(u) PROVE RefsOK'
  BY <1>1, <1>2 DEF handleLogin, tokens, sbounds
<1>3. CASE handleMFA \/ SecondStep \/ LoginRefused \/ BackToLogin
  BY <1>1, <1>3 DEF handleMFA, SecondStep, LoginRefused, BackToLogin, Refuse, tokens, sbounds
<1>4. CASE SignedIn
  <2>1. signing \in User /\ On(signing) \in BOOLEAN
    BY <1>4 DEF SignedIn, SigningOK, On
  <2>2. Issue(signing, On(signing)) /\ stash' = Len(issued') /\ UNCHANGED <<totp, calls, callsMade>>
    BY <1>4 DEF SignedIn, sbounds
  <2>. QED
    BY <2>1, <2>2, IssueKeepsRefs
<1>5. CASE Unload \/ Address
  <2>1. calls' = {[c EXCEPT !.heard = "nobody"] : c \in {d \in calls : ~d.done}}
    BY <1>5 DEF Unload, Address, Load
  <2>2. \A c \in calls : [c EXCEPT !.heard = "nobody"] \in CallRecord
    BY CallsMarked
  <2>3. calls' \subseteq CallRecord
    BY <2>1, <2>2
  <2>. QED
    BY <1>1, <1>5, <2>3 DEF Unload, Address, tokens
<1>6. CASE Link \/ handleLogout
  <2>1. calls' \in {calls, {Unheard(c) : c \in calls}}
    BY <1>6 DEF Link, handleLogout
  <2>2. \A c \in calls : Unheard(c) \in CallRecord
    BY CallsMarked
  <2>3. calls' \subseteq CallRecord
    BY <2>1, <2>2
  <2>. QED
    BY <1>1, <1>6, <2>3 DEF Link, handleLogout, tokens
<1>7. CASE SignOutElsewhere \/ apiFetch \/ HomeAnswered \/ Missed \/ UNCHANGED svars
  BY <1>1, <1>7 DEF SignOutElsewhere, apiFetch, HomeAnswered, Missed, Refuse, tokens, sbounds, svars
<1>8. ASSUME NEW t \in DOMAIN issued, Dies(t) PROVE RefsOK'
  BY <1>1, <1>8 DEF Dies, sbounds
<1>9. ASSUME NEW u \in User, StoredElsewhere(u) PROVE RefsOK'
  <2>1. PICK on \in BOOLEAN : Issue(u, on)
    BY <1>9 DEF StoredElsewhere
  <2>. QED
    BY <1>9, <2>1, IssueKeepsRefs DEF StoredElsewhere
<1>10. ASSUME NEW u \in User, TwoFactorElsewhere(u) PROVE RefsOK'
  <2>1. totp' \in [User -> {"off", "pending", "on"}]
    BY <1>10 DEF TwoFactorElsewhere
  <2>. QED
    BY <1>10, <2>1 DEF TwoFactorElsewhere, tokens, Held, CallRecord
<1>11. ASSUME NEW kind \in {"setup", "enable", "disable"}, Call(kind) PROVE RefsOK'
  <2>1. [no |-> callsMade', kind |-> kind, by |-> stash, done |-> FALSE, token |-> NoToken,
         heard |-> "section"] \in CallRecord
    BY <1>11 DEF Call, CallRecord, Held, NoToken
  <2>2. calls' \subseteq CallRecord
    BY <1>11, <2>1 DEF Call
  <2>. QED
    BY <1>11, <2>2 DEF Call, tokens, Held, CallRecord
<1>12. CASE setupTOTP \/ SendCode
  BY <1>11, <1>12 DEF setupTOTP, SendCode
<1>13. ASSUME NEW s \in {"idle", "disable"}, StepTo(s) PROVE RefsOK'
  BY <1>1, <1>13 DEF StepTo, tokens, sbounds
<1>14. ASSUME NEW c \in calls, Serve(c) PROVE RefsOK'
  <2>1. c \in CallRecord /\ OwnerOf(c.by) \in User
    BY <1>14, OwnersTyped DEF Serve, Accepted, CallRecord
  <2>2. \/ UNCHANGED issued
        \/ \E on \in BOOLEAN : Issue(OwnerOf(c.by), on)
    BY <1>14 DEF Serve
  <2>3. /\ issued' \in Seq(Grant) /\ stash \in Held' /\ calls \subseteq CallRecord'
        /\ c.kind # "setup" => Len(issued') \in Held'
    <3>1. CASE UNCHANGED issued
      BY <3>1 DEF Held, CallRecord
    <3>2. ASSUME NEW on \in BOOLEAN, Issue(OwnerOf(c.by), on)
          PROVE  /\ issued' \in Seq(Grant) /\ stash \in Held' /\ calls \subseteq CallRecord'
                 /\ Len(issued') \in Held'
      BY <2>1, <3>2, IssueKeepsRefs
    <3>. QED
      BY <2>2, <3>1, <3>2 DEF Held
  <2>4. totp' \in [User -> {"off", "pending", "on"}]
    BY <1>14 DEF Serve
  <2> DEFINE token == IF c.kind = "setup" THEN NoToken ELSE Len(issued')
             d == [c EXCEPT !.done = TRUE, !.token = token]
  <2>5. token \in Held'
    BY <2>3 DEF Held, NoToken
  <2>6. d \in CallRecord'
    <3>1. c \in CallRecord'
      BY <2>3
    <3> HIDE DEF token
    <3>. QED
      BY <2>5, <3>1 DEF CallRecord
  <2>7. calls' \subseteq (calls \ {c}) \cup {d}
    BY <1>14 DEF Serve
  <2> HIDE DEF d
  <2>. QED
    BY <1>14, <2>3, <2>4, <2>6, <2>7 DEF Serve, sbounds
<1>15. ASSUME NEW c \in calls, CallRefused(c) \/ SetupAnswered(c) \/ CallMissed(c) PROVE RefsOK'
  BY <1>1, <1>15 DEF CallRefused, SetupAnswered, CallMissed, Refuse, tokens, sbounds
<1>16. ASSUME NEW c \in calls, enableTOTP(c) PROVE RefsOK'
  <2>1. c.token \in Held
    BY DEF CallRecord
  <2>. QED
    BY <1>16, <2>1 DEF enableTOTP, tokens, sbounds, Held, CallRecord
<1>. QED
  BY <1>2, <1>3, <1>4, <1>5, <1>6, <1>7, <1>8, <1>9, <1>10, <1>12, <1>13, <1>14, <1>15, <1>16
     DEF SessionNext
-----------------------------------------------------------------------------
\* A step that is not a step of the section, nor of one of its requests, and switches
\* two-factor of nobody.
LEMMA Elsewhere ==
  ASSUME RefsOK, RefsOK', Sound, UNCHANGED calls,
         viewer \in User \cup {NoUser},
         \A u \in User : (totp'[u] = "on") = (totp[u] = "on"),
         \A t \in Held : t \in Held' /\ OwnerOf(t)' = OwnerOf(t),
         \A t \in Held : t # NoToken => issued'[t] = issued[t],
         stash' # NoToken => \/ stash' = stash
                            \/ issued'[stash'].totp = On(issued'[stash'].user),
         place' = "security" => place = "security" /\ UNCHANGED <<viewer, badge>>
  PROVE  Sound'
<1> USE DEF Sound
<1>1. \A c \in calls : c \in CallRecord /\ c.by \in Held /\ c.token \in Held
  BY DEF RefsOK, CallRecord
<1>2. OneCall'
  BY DEF OneCall
<1>3. HandledMeansWritten' /\ SetupIsOff'
  <2>1. \A c \in calls : OwnerOf(c.by)' = OwnerOf(c.by)
    BY <1>1
  <2>2. \A c \in calls : c.token # NoToken => issued'[c.token] = issued[c.token]
    BY <1>1
  <2>3. \A c \in calls : OwnerOf(c.by) \in User => On(OwnerOf(c.by))' = On(OwnerOf(c.by))
    BY <2>1 DEF On
  <2>. QED
    BY <2>1, <2>2, <2>3 DEF HandledMeansWritten, SetupIsOff
<1>4. OwnCall'
  BY <1>1 DEF OwnCall
<1>5. ClaimIsTrue'
  <2> SUFFICES ASSUME Quiet', stash' # NoToken
               PROVE  issued'[stash'].totp = (totp'[issued'[stash'].user] = "on")
    BY DEF ClaimIsTrue, On
  <2>1. issued'[stash'].user \in User
    <3>1. issued' \in Seq(Grant) /\ stash' \in 1 .. Len(issued')
      BY DEF RefsOK, Held, NoToken
    <3>2. issued'[stash'] \in Grant
      BY <3>1
    <3>. QED
      BY <3>2 DEF Grant
  <2>2. Quiet
    BY DEF Quiet
  <2>3. issued'[stash'].totp = On(issued'[stash'].user)
    <3>1. CASE stash' = stash
      BY <2>2, <3>1 DEF ClaimIsTrue, RefsOK
    <3>. QED
      BY <3>1
  <2>. QED
    BY <2>1, <2>3 DEF On
<1>6. BadgeIsColumn'
  <2> SUFFICES ASSUME place' = "security", viewer' # NoUser, Quiet'
               PROVE  badge' = On(viewer)'
    BY DEF BadgeIsColumn
  <2>. QED
    BY DEF BadgeIsColumn, Quiet, On
<1>. QED
  BY <1>2, <1>3, <1>4, <1>5, <1>6

LEMMA LinkSound ==
  ASSUME RefsOK, RefsOK', Sound, Link, ~astray' PROVE Sound'
<1> USE DEF Sound
<1>0. UNCHANGED <<stash, issued, totp>>
  BY DEF Link, tokens
<1>1. CASE place = "home"
  <2>1. /\ calls = {} /\ calls' = {} /\ viewer' = OwnerOf(stash)
        /\ badge' = (stash # NoToken /\ issued[stash].totp)
    BY <1>1 DEF Link
  <2>2. ClaimIsTrue' /\ (stash # NoToken => issued[stash].totp = On(issued[stash].user))
    BY <1>0, <2>1 DEF ClaimIsTrue, Quiet, On
  <2>3. BadgeIsColumn'
    <3> SUFFICES ASSUME viewer' # NoUser PROVE badge' = On(viewer)'
      BY DEF BadgeIsColumn
    <3>1. stash # NoToken /\ viewer' = issued[stash].user
      BY <2>1 DEF OwnerOf
    <3>2. issued[stash] \in Grant
      BY <3>1, OwnersTyped DEF RefsOK
    <3>. QED
      BY <1>0, <2>1, <2>2, <3>1, <3>2 DEF On, Grant
  <2>. QED
    BY <2>1, <2>2, <2>3 DEF OneCall, HandledMeansWritten, SetupIsOff, OwnCall
<1>2. CASE place # "home"
  <2>1. place' = "home" /\ calls' = {Unheard(c) : c \in calls}
    BY <1>2 DEF Link
  <2>2. \A d \in calls' : \E c \in calls :
           /\ d = Unheard(c) /\ d.kind = c.kind /\ d.by = c.by /\ d.done = c.done
           /\ d.token = c.token /\ (c.heard # "nobody" => d.heard # "nobody")
    BY <2>1, CallsMarked DEF RefsOK
  <2>3. \A c \in calls : Unheard(c) \in calls' /\ Unheard(c).token = c.token
    BY <2>1, CallsMarked DEF RefsOK
  <2>4. OneCall'
    BY <2>2 DEF OneCall
  <2>5. HandledMeansWritten' /\ SetupIsOff'
    BY <1>0, <2>2 DEF HandledMeansWritten, SetupIsOff, OwnerOf, On
  <2>6. OwnCall' /\ BadgeIsColumn'
    BY <2>1 DEF OwnCall, BadgeIsColumn
  <2>7. ClaimIsTrue'
    BY <1>0, <2>3 DEF ClaimIsTrue, Quiet, On
  <2>. QED
    BY <2>4, <2>5, <2>6, <2>7
<1>. QED
  BY <1>1, <1>2

\* A request that is sent is the only one, and of the user the badge is about.
LEMMA CallSound ==
  ASSUME RefsOK, RefsOK', Sound, ~astray', NEW kind \in {"setup", "enable", "disable"},
         Call(kind), kind = "setup" => ~badge
  PROVE  Sound'
<1> USE DEF Sound
<1> DEFINE new == [no |-> callsMade', kind |-> kind, by |-> stash, done |-> FALSE,
                   token |-> NoToken, heard |-> "section"]
<1>1. /\ calls = {} /\ calls' = {new} /\ OwnerOf(stash) = viewer
      /\ place = "security"
      /\ UNCHANGED <<place, stash, issued, totp, viewer, badge>>
  BY DEF Call, Stranger, tokens
<1>2. /\ new.kind = kind /\ new.by = stash /\ ~new.done /\ new.token = NoToken
      /\ new.heard = "section"
  OBVIOUS
<1> HIDE DEF new
<1>3. OneCall' /\ HandledMeansWritten' /\ OwnCall'
  BY <1>1, <1>2 DEF OneCall, HandledMeansWritten, OwnCall, OwnerOf
<1>4. SetupIsOff'
  <2> SUFFICES ASSUME kind = "setup", OwnerOf(stash) \in User PROVE ~On(OwnerOf(stash))
    BY <1>1, <1>2 DEF SetupIsOff, OwnerOf, On
  <2>. QED
    BY <1>1 DEF BadgeIsColumn, Quiet
<1>5. ClaimIsTrue' /\ BadgeIsColumn'
  BY <1>1 DEF ClaimIsTrue, BadgeIsColumn, Quiet, On
<1>. QED
  BY <1>3, <1>4, <1>5

\* The server's side of a request: a code that is accepted writes the column and issues a
\* token that says the same, a setup switches nobody's two-factor.
LEMMA ServeSound ==
  ASSUME RefsOK, RefsOK', Sound, viewer \in User \cup {NoUser}, NEW c \in calls, Serve(c)
  PROVE  Sound'
<1> USE DEF Sound
<1>1. /\ c \in CallRecord /\ c.by \in Held /\ OwnerOf(c.by) \in User /\ ~c.done
      /\ c.heard # "nobody" /\ calls = {c} /\ c.token = NoToken
  <2>1. c \in CallRecord /\ c.by \in Held
    BY DEF RefsOK, CallRecord
  <2>. QED
    BY <2>1, OwnersTyped DEF Serve, Accepted, OneCall, HandledMeansWritten
<1>2. PICK d : d = [c EXCEPT !.done = TRUE,
                             !.token = IF c.kind = "setup" THEN NoToken ELSE Len(issued')]
  OBVIOUS
<1>3. /\ calls' = {d} /\ UNCHANGED <<place, stash, viewer, badge>>
      /\ d.kind = c.kind /\ d.by = c.by /\ d.done /\ d.heard = c.heard
      /\ d.token = IF c.kind = "setup" THEN NoToken ELSE Len(issued')
  BY <1>1, <1>2 DEF Serve, section, CallRecord
<1>4. OneCall'
  BY <1>1, <1>3 DEF OneCall
<1>5. CASE c.kind = "setup"
  <2>1. UNCHANGED issued /\ totp' = [totp EXCEPT ![OwnerOf(c.by)] = "pending"]
    BY <1>5 DEF Serve
  <2>2. ~On(OwnerOf(c.by)) /\ Quiet
    BY <1>1, <1>5 DEF SetupIsOff, Quiet
  <2>3. \A u \in User : (totp'[u] = "on") = (totp[u] = "on")
    BY <2>1, <2>2 DEF On, RefsOK
  <2>4. HandledMeansWritten' /\ SetupIsOff' /\ OwnCall'
    BY <1>1, <1>3, <1>5, <2>1, <2>2, <2>3
       DEF HandledMeansWritten, SetupIsOff, OwnCall, OwnerOf, On
  <2>5. ClaimIsTrue'
    <3> SUFFICES ASSUME stash # NoToken
                 PROVE  issued[stash].totp = (totp'[issued[stash].user] = "on")
      BY <1>3, <2>1 DEF ClaimIsTrue, On
    <3>1. issued[stash].user \in User
      BY OwnersTyped DEF RefsOK, Grant
    <3>. QED
      BY <2>2, <2>3, <3>1 DEF ClaimIsTrue, On
  <2>6. BadgeIsColumn'
    <3> SUFFICES ASSUME place = "security", viewer # NoUser
                 PROVE  badge = (totp'[viewer] = "on")
      BY <1>3 DEF BadgeIsColumn, On
    <3>. QED
      BY <2>2, <2>3 DEF BadgeIsColumn, On
  <2>. QED
    BY <1>4, <2>4, <2>5, <2>6
<1>6. CASE c.kind # "setup"
  <2>1. /\ totp' = [totp EXCEPT ![OwnerOf(c.by)] = IF c.kind = "enable" THEN "on" ELSE "off"]
        /\ Issue(OwnerOf(c.by), c.kind = "enable")
    BY <1>6 DEF Serve
  <2>2. /\ issued'[Len(issued')].user = OwnerOf(c.by)
        /\ issued'[Len(issued')].totp = (c.kind = "enable")
        /\ \A t \in Held : t \in Held' /\ OwnerOf(t)' = OwnerOf(t)
        /\ Len(issued') # NoToken
    BY <1>1, <2>1, IssueKeepsRefs
  <2>3. (totp'[OwnerOf(c.by)] = "on") = (c.kind = "enable")
    <3>1. totp'[OwnerOf(c.by)] = IF c.kind = "enable" THEN "on" ELSE "off"
      BY <1>1, <2>1 DEF RefsOK
    <3>. QED
      BY <3>1
  <2>4. d.token = Len(issued') /\ OwnerOf(d.by)' = OwnerOf(c.by)
    BY <1>1, <1>3, <1>6, <2>2
  <2>5. HandledMeansWritten'
    <3> SUFFICES ASSUME NEW e \in calls'
                 PROVE  /\ e.token # NoToken <=> e.done /\ e.kind # "setup"
                        /\ OwnerOf(e.by)' \in User
                        /\ issued'[e.token].user = OwnerOf(e.by)'
                        /\ issued'[e.token].totp = (e.kind = "enable")
                        /\ On(OwnerOf(e.by))' = (e.kind = "enable")
      BY DEF HandledMeansWritten
    <3>1. e = d
      BY <1>3
    <3>2. On(OwnerOf(e.by))' = (e.kind = "enable")
      BY <1>3, <2>3, <2>4, <3>1 DEF On
    <3>. QED
      BY <1>1, <1>3, <1>6, <2>2, <2>4, <3>1, <3>2
  <2>6. SetupIsOff' /\ OwnCall'
    BY <1>1, <1>3, <1>6, <2>4 DEF SetupIsOff, OwnCall
  <2>7. ~Quiet'
    BY <1>3, <2>2, <2>4 DEF Quiet
  <2>. QED
    BY <1>4, <2>5, <2>6, <2>7 DEF ClaimIsTrue, BadgeIsColumn
<1>. QED
  BY <1>5, <1>6

\* An answer that changes nothing but the section's step, or ends the session.
LEMMA RefusalSound ==
  ASSUME RefsOK, RefsOK', Sound, NEW c \in calls, CallRefused(c) \/ SetupAnswered(c)
  PROVE  Sound'
<1> USE DEF Sound
<1>1. calls = {c} /\ calls' = {} /\ Quiet
  BY DEF CallRefused, SetupAnswered, OneCall, HandledMeansWritten, Quiet
<1>2. UNCHANGED <<place, issued, totp, viewer, badge>> /\ stash' \in {stash, NoToken}
  BY DEF CallRefused, SetupAnswered, Refuse, tokens, section
<1>. QED
  BY <1>1, <1>2 DEF OneCall, HandledMeansWritten, SetupIsOff, OwnCall, ClaimIsTrue,
     BadgeIsColumn, Quiet, On

\* An accepted code is answered with the token that was issued for it.
LEMMA EnableSound ==
  ASSUME RefsOK, RefsOK', Sound, NEW c \in calls, enableTOTP(c)
  PROVE  Sound'
<1> USE DEF Sound
<1>1. /\ calls = {c} /\ calls' = {} /\ stash' = c.token /\ c.token # NoToken
      /\ UNCHANGED <<place, issued, totp, viewer>>
  BY DEF enableTOTP, OneCall, HandledMeansWritten, tokens
<1>2. /\ OwnerOf(c.by) \in User /\ issued[c.token].user = OwnerOf(c.by)
      /\ issued[c.token].totp = (c.kind = "enable")
      /\ On(OwnerOf(c.by)) = (c.kind = "enable")
  BY <1>1 DEF HandledMeansWritten
<1>3. ClaimIsTrue'
  BY <1>1, <1>2 DEF ClaimIsTrue, On
<1>4. BadgeIsColumn'
  <2> SUFFICES ASSUME place = "security" PROVE badge' = On(viewer)
    BY <1>1 DEF BadgeIsColumn, On
  <2>1. viewer = OwnerOf(c.by) /\ c.heard = "section"
    BY DEF OwnCall
  <2>. QED
    BY <1>2, <2>1 DEF enableTOTP
<1>. QED
  BY <1>1, <1>3, <1>4 DEF OneCall, HandledMeansWritten, SetupIsOff, OwnCall

LEMMA SoundStep ==
  ASSUME RefsOK, RefsOK', SigningOK, astray \/ Sound, [SessionNext]_svars, ~astray'
  PROVE  Sound'
<1>1. ~astray
  BY DEF SessionNext, svars, sbounds, handleLogin, StoredElsewhere, TwoFactorElsewhere, handleMFA,
     SecondStep, SignedIn, LoginRefused, BackToLogin, Unload, Link, Address, Load, handleLogout,
     Dies, SignOutElsewhere, apiFetch, HomeAnswered, Missed, setupTOTP, SendCode, Call, StepTo,
     Serve, CallRefused, SetupAnswered, enableTOTP, CallMissed
<1>2. Sound
  BY <1>1
<1>3. CASE /\ UNCHANGED <<calls, totp, issued>> /\ stash' \in {stash, NoToken}
           /\ place' = "security" => place = "security" /\ UNCHANGED <<viewer, badge>>
  <2>1. \A u \in User : (totp'[u] = "on") = (totp[u] = "on")
    BY <1>3
  <2>2. \A t \in Held : t \in Held' /\ OwnerOf(t)' = OwnerOf(t)
    BY <1>3 DEF Held, OwnerOf
  <2>. QED
    BY <1>2, <1>3, <2>1, <2>2, Elsewhere DEF SigningOK
<1>4. ASSUME NEW u \in User, handleLogin(u) PROVE Sound'
  BY <1>3, <1>4 DEF handleLogin, tokens, section
<1>5. CASE handleMFA \/ SecondStep \/ LoginRefused \/ BackToLogin
  BY <1>3, <1>5 DEF handleMFA, SecondStep, LoginRefused, BackToLogin, Refuse, tokens, section
<1>6. CASE SignedIn
  <2>1. /\ signing \in User /\ On(signing) \in BOOLEAN /\ Issue(signing, On(signing))
        /\ stash' = Len(issued') /\ place' = "home" /\ UNCHANGED <<totp, calls>>
    BY <1>6 DEF SignedIn, SigningOK, On
  <2>. QED
    BY <1>2, <2>1, IssueKeepsRefs, Elsewhere DEF SigningOK, On
<1>7. CASE Unload \/ Address \/ handleLogout
  <2>1. calls = {} /\ calls' = {} /\ place' # "security"
    BY <1>7 DEF Unload, Address, Load, handleLogout
  <2>. QED
    BY <1>3, <1>7, <2>1 DEF Unload, Address, handleLogout, tokens
<1>8. CASE Link
  BY <1>2, <1>8, LinkSound
<1>9. ASSUME NEW t \in DOMAIN issued, Dies(t) PROVE Sound'
  BY <1>3, <1>9 DEF Dies, section
<1>10. CASE SignOutElsewhere \/ apiFetch \/ HomeAnswered \/ Missed \/ UNCHANGED svars
  BY <1>3, <1>10 DEF SignOutElsewhere, apiFetch, HomeAnswered, Missed, Refuse, tokens, section, svars
<1>11. ASSUME NEW u \in User, StoredElsewhere(u) PROVE Sound'
  <2>1. PICK on \in BOOLEAN : Issue(u, on) /\ astray' = (astray \/ on # On(u))
    BY <1>11 DEF StoredElsewhere
  <2>2. /\ stash' = Len(issued') /\ on = On(u)
        /\ UNCHANGED <<totp, calls, place, viewer, badge>>
    BY <1>11, <2>1 DEF StoredElsewhere, section
  <2>. QED
    BY <1>2, <2>1, <2>2, IssueKeepsRefs, Elsewhere DEF SigningOK, On
<1>12. ASSUME NEW u \in User, TwoFactorElsewhere(u) PROVE Sound'
  <2>1. UNCHANGED <<place, stash, issued, calls, viewer, badge>> /\ On(u) = (totp'[u] = "on")
    BY <1>12 DEF TwoFactorElsewhere, tokens, section
  <2>2. \A v \in User : v # u => totp'[v] = totp[v]
    BY <1>12 DEF TwoFactorElsewhere, RefsOK
  <2>3. \A v \in User : (totp'[v] = "on") = (totp[v] = "on")
    BY <2>1, <2>2 DEF On
  <2>4. \A t \in Held : t \in Held' /\ OwnerOf(t)' = OwnerOf(t)
    BY <2>1 DEF Held, OwnerOf
  <2>. QED
    BY <1>2, <2>1, <2>3, <2>4, Elsewhere DEF SigningOK
<1>13. CASE setupTOTP \/ SendCode
  BY <1>2, <1>13, CallSound DEF setupTOTP, SendCode
<1>14. ASSUME NEW s \in {"idle", "disable"}, StepTo(s) PROVE Sound'
  BY <1>3, <1>14 DEF StepTo, tokens
<1>15. ASSUME NEW c \in calls,
              Serve(c) \/ CallRefused(c) \/ SetupAnswered(c) \/ enableTOTP(c) \/ CallMissed(c)
       PROVE  Sound'
  BY <1>2, <1>15, ServeSound, RefusalSound, EnableSound DEF CallMissed, SigningOK
<1>. QED
  BY <1>4, <1>5, <1>6, <1>7, <1>8, <1>9, <1>10, <1>11, <1>12, <1>13, <1>14, <1>15 DEF SessionNext

LEMMA SessionInvariant == SessionSpec => []SessionInv
<1>1. SessionInv /\ [SessionNext]_svars => SessionInv'
  BY SigningStep, RefsStep, SoundStep DEF SessionInv
<1>. QED
  BY <1>1, SessionInitially, PTL DEF SessionSpec

\* At rest, and as long as the session did not go astray, the two-factor section shows what
\* holds on the server for the user it was mounted for.  Astray is: a request of the
\* section lost, or sent beside another or with the token of somebody else; the section
\* mounted again, a page loaded or a sign-out while one is under way; two-factor switched
\* elsewhere, or a token from before such a switch stored by another tab.
THEOREM BadgeTellsTheTruth == SessionSpec => []BadgeIsTrue
<1>1. SessionInv => BadgeIsTrue
  BY DEF SessionInv, Sound, BadgeIsColumn, BadgeIsTrue, Quiet
<1>. QED
  BY <1>1, SessionInvariant, PTL
-----------------------------------------------------------------------------
(* The ranges of the session. *)

SessionPlaces ==
  /\ place \in {"login", "mfa", "home", "security"}
  /\ dead \subseteq DOMAIN issued /\ asking \in Held \cup {Idle}
  /\ seen \in User \cup {NoUser} /\ step \in {"idle", "setup", "verify", "disable"}

SessionFlags == unloading \in BOOLEAN /\ badge \in BOOLEAN /\ astray \in BOOLEAN

SessionCounts ==
  /\ Len(issued) <= MaxTokens /\ callsMade \in 0 .. MaxCalls /\ misses \in 0 .. MaxMisses
  /\ \A c \in calls : c.no \in 1 .. MaxCalls

SessionTyped == SessionPlaces /\ SessionFlags /\ SessionCounts

LEMMA SessionTypedInitially == InitSession => SessionTyped
<1> SUFFICES ASSUME InitSession PROVE SessionTyped
  OBVIOUS
<1>1. SessionFlags
  BY Zenon DEF InitSession, SessionFlags
<1>2. SessionPlaces /\ SessionCounts
  BY DEF InitSession, SessionPlaces, SessionCounts
<1>. QED
  BY <1>1, <1>2 DEF SessionTyped

LEMMA SessionFlagsStep ==
  ASSUME SessionFlags, [SessionNext]_svars
  PROVE  SessionFlags'
<1> USE DEF SessionFlags
<1>1. CASE UNCHANGED <<unloading, badge, astray>>
  BY <1>1
<1>2. ASSUME NEW u \in User, handleLogin(u) PROVE SessionFlags'
  BY <1>1, <1>2 DEF handleLogin, section, sbounds
<1>3. CASE handleMFA \/ SecondStep \/ SignedIn \/ BackToLogin \/ SignOutElsewhere \/ apiFetch
           \/ Missed \/ UNCHANGED svars
  BY <1>1, <1>3 DEF handleMFA, SecondStep, SignedIn, BackToLogin, SignOutElsewhere, apiFetch, Missed,
     section, sbounds, svars
<1>4. CASE LoginRefused \/ HomeAnswered
  BY <1>4, Zenon DEF LoginRefused, HomeAnswered, Refuse, section, sbounds
<1>5. CASE Unload \/ Address
  BY <1>5, Zenon DEF Unload, Address, Load, NoSection
<1>6. CASE Link \/ handleLogout
  BY <1>6, Zenon DEF Link, handleLogout, NoSection
<1>7. ASSUME NEW t \in DOMAIN issued, Dies(t) PROVE SessionFlags'
  BY <1>1, <1>7 DEF Dies, section, sbounds
<1>8. ASSUME NEW u \in User, StoredElsewhere(u) \/ TwoFactorElsewhere(u) PROVE SessionFlags'
  BY <1>8, Zenon DEF StoredElsewhere, TwoFactorElsewhere, section
<1>9. CASE setupTOTP \/ SendCode
  BY <1>9, Zenon DEF setupTOTP, SendCode, Call
<1>10. ASSUME NEW s \in {"idle", "disable"}, StepTo(s) PROVE SessionFlags'
  BY <1>1, <1>10 DEF StepTo, sbounds
<1>11. ASSUME NEW c \in calls, Serve(c) \/ SetupAnswered(c) PROVE SessionFlags'
  BY <1>1, <1>11 DEF Serve, SetupAnswered, section, sbounds
<1>12. ASSUME NEW c \in calls, CallRefused(c) \/ enableTOTP(c) \/ CallMissed(c)
       PROVE  SessionFlags'
  BY <1>12, Zenon DEF CallRefused, enableTOTP, CallMissed, Refuse, section, sbounds
<1>. QED
  BY <1>2, <1>3, <1>4, <1>5, <1>6, <1>7, <1>8, <1>9, <1>10, <1>11, <1>12 DEF SessionNext

\* Tokens are only added, and below the bound.
LEMMA TokensGrow ==
  ASSUME RefsOK, RefsOK', [SessionNext]_svars
  PROVE  \/ UNCHANGED issued
         \/ CanIssue /\ Len(issued') = Len(issued) + 1
<1>1. issued' = issued \/ (CanIssue /\ \E grant : issued' = Append(issued, grant))
  BY DEF SessionNext, handleLogin, handleMFA, SecondStep, SignedIn, LoginRefused, BackToLogin, Unload,
     Link, Address, handleLogout, Dies, SignOutElsewhere, StoredElsewhere, TwoFactorElsewhere,
     apiFetch, HomeAnswered, Missed, setupTOTP, SendCode, StepTo, Call, Serve, CallRefused,
     SetupAnswered, enableTOTP, CallMissed, Issue, tokens, svars
<1>2. ASSUME NEW grant, issued' = Append(issued, grant) PROVE Len(issued') = Len(issued) + 1
  BY <1>2 DEF RefsOK
<1>. QED
  BY <1>1, <1>2

\* What names a token keeps naming it.
LEMMA SessionPlacesStep ==
  ASSUME RefsOK, RefsOK', SessionPlaces, [SessionNext]_svars
  PROVE  SessionPlaces'
<1> USE DEF SessionPlaces
<1>1. \A t \in Held : OwnerOf(t) \in User \cup {NoUser}
  BY OwnersTyped
<1>2. stash \in Held
  BY DEF RefsOK
<1>3. DOMAIN issued \subseteq DOMAIN issued' /\ Held \subseteq Held'
  <2>1. /\ DOMAIN issued = 1 .. Len(issued) /\ DOMAIN issued' = 1 .. Len(issued')
        /\ Len(issued) \in Nat /\ Len(issued') \in Nat
    BY DEF RefsOK
  <2>2. Len(issued') = Len(issued) \/ Len(issued') = Len(issued) + 1
    BY TokensGrow
  <2>3. Len(issued) <= Len(issued')
    <3>1. Len(issued) \in Nat
      BY <2>1
    <3>. QED
      BY <2>2, <3>1
  <2>4. 1 .. Len(issued) \subseteq 1 .. Len(issued') /\ 0 .. Len(issued) \subseteq 0 .. Len(issued')
    BY <2>1, <2>3
  <2>. QED
    BY <2>1, <2>4 DEF Held
<1>4. CASE UNCHANGED <<place, dead, asking, seen, step>>
  BY <1>3, <1>4
<1>5. ASSUME NEW u \in User, handleLogin(u) \/ StoredElsewhere(u) \/ TwoFactorElsewhere(u)
      PROVE  SessionPlaces'
  BY <1>4, <1>5 DEF handleLogin, StoredElsewhere, TwoFactorElsewhere, tokens, home, section
<1>6. CASE handleMFA \/ LoginRefused \/ SignOutElsewhere \/ UNCHANGED svars
  BY <1>4, <1>6 DEF handleMFA, LoginRefused, SignOutElsewhere, svars, tokens, home, section
<1>7. CASE SecondStep \/ SignedIn \/ BackToLogin
  BY <1>3, <1>7 DEF SecondStep, SignedIn, BackToLogin, tokens, home, section
<1>8. CASE Unload \/ Address
  BY <1>3, <1>8 DEF Unload, Address, Load, NoSection, tokens
<1>9. CASE Link \/ handleLogout
  BY <1>3, <1>9 DEF Link, handleLogout, NoSection, tokens, home
<1>10. ASSUME NEW t \in DOMAIN issued, Dies(t) PROVE SessionPlaces'
  BY <1>3, <1>10 DEF Dies, home, section
<1>11. CASE apiFetch \/ HomeAnswered \/ Missed
  BY <1>1, <1>2, <1>3, <1>11 DEF apiFetch, HomeAnswered, Missed, tokens, section
<1>12. CASE setupTOTP \/ SendCode
  BY <1>3, <1>12 DEF setupTOTP, SendCode, Call, tokens, home
<1>13. ASSUME NEW s \in {"idle", "disable"}, StepTo(s) PROVE SessionPlaces'
  BY <1>3, <1>13 DEF StepTo, tokens, home
<1>14. ASSUME NEW c \in calls, Serve(c) \/ CallRefused(c) \/ CallMissed(c) PROVE SessionPlaces'
  BY <1>4, <1>14 DEF Serve, CallRefused, CallMissed, tokens, home, section
<1>15. ASSUME NEW c \in calls, SetupAnswered(c) \/ enableTOTP(c) PROVE SessionPlaces'
  BY <1>3, <1>15 DEF SetupAnswered, enableTOTP, tokens, home
<1>. QED
  BY <1>5, <1>6, <1>7, <1>8, <1>9, <1>10, <1>11, <1>12, <1>13, <1>14, <1>15 DEF SessionNext

\* Tokens are issued, and requests sent, only below the bounds.
LEMMA SessionCountsStep ==
  ASSUME RefsOK, RefsOK', SessionCounts, [SessionNext]_svars
  PROVE  SessionCounts'
<1> USE DEF SessionCounts
<1>1. Len(issued') <= MaxTokens
  <2>1. Len(issued) \in Nat
    BY DEF RefsOK
  <2>. QED
    BY <2>1, TokensGrow DEF CanIssue
<1>2. CASE UNCHANGED <<callsMade, misses>> /\ \A d \in calls' : \E c \in calls : d.no = c.no
  BY <1>1, <1>2
<1>3. ASSUME NEW u \in User, handleLogin(u) \/ StoredElsewhere(u) PROVE SessionCounts'
  BY <1>2, <1>3 DEF handleLogin, StoredElsewhere, sbounds
<1>4. CASE \/ handleMFA \/ SecondStep \/ SignedIn \/ LoginRefused \/ BackToLogin
           \/ SignOutElsewhere \/ apiFetch \/ HomeAnswered \/ UNCHANGED svars
  BY <1>2, <1>4 DEF handleMFA, SecondStep, SignedIn, LoginRefused, BackToLogin, SignOutElsewhere,
     apiFetch, HomeAnswered, sbounds, svars
<1>5. ASSUME NEW u \in User, TwoFactorElsewhere(u) \/ Missed PROVE SessionCounts'
  BY <1>1, <1>5 DEF TwoFactorElsewhere, Missed
<1>6. CASE Unload \/ Address
  <2>1. \A d \in calls' : \E c \in calls : d = [c EXCEPT !.heard = "nobody"]
    BY <1>6 DEF Unload, Address, Load
  <2>2. \A c \in calls : [c EXCEPT !.heard = "nobody"].no = c.no
    BY CallsMarked DEF RefsOK
  <2>3. \A d \in calls' : \E c \in calls : d.no = c.no
    BY <2>1, <2>2
  <2>. QED
    BY <1>1, <1>6, <2>3 DEF Unload, Address
<1>7. CASE Link \/ handleLogout
  <2>1. \A d \in calls' : \E c \in calls : d \in {c, Unheard(c)}
    BY <1>7 DEF Link, handleLogout
  <2>2. \A d \in calls' : \E c \in calls : d.no = c.no
    BY <2>1, CallsMarked DEF RefsOK
  <2>. QED
    BY <1>2, <1>7, <2>2 DEF Link, handleLogout
<1>8. ASSUME NEW t \in DOMAIN issued, Dies(t) PROVE SessionCounts'
  BY <1>2, <1>8 DEF Dies, sbounds
<1>9. ASSUME NEW kind, Call(kind) PROVE SessionCounts'
  <2> DEFINE new == [no |-> callsMade', kind |-> kind, by |-> stash, done |-> FALSE,
                     token |-> NoToken, heard |-> "section"]
  <2>1. calls' = calls \cup {new} /\ new.no = callsMade'
    BY <1>9, Zenon DEF Call
  <2>2. callsMade' = callsMade + 1 /\ callsMade < MaxCalls /\ UNCHANGED misses
    BY <1>9 DEF Call
  <2> HIDE DEF new
  <2>. QED
    BY <1>1, <2>1, <2>2
<1>10. ASSUME NEW s \in {"idle", "disable"}, StepTo(s) PROVE SessionCounts'
  BY <1>2, <1>10 DEF StepTo, sbounds
<1>11. ASSUME NEW c \in calls, Serve(c) PROVE SessionCounts'
  <2>1. PICK d : d = [c EXCEPT !.done = TRUE,
                               !.token = IF c.kind = "setup" THEN NoToken ELSE Len(issued')]
    OBVIOUS
  <2>2. calls' \subseteq (calls \ {c}) \cup {d} /\ UNCHANGED <<callsMade, misses>>
    BY <1>11, <2>1 DEF Serve, sbounds
  <2>3. d.no = c.no
    BY <2>1 DEF RefsOK, CallRecord
  <2>. QED
    BY <1>2, <2>2, <2>3
<1>12. ASSUME NEW c \in calls, CallRefused(c) \/ SetupAnswered(c) \/ enableTOTP(c) \/ CallMissed(c)
       PROVE  SessionCounts'
  BY <1>2, <1>12 DEF CallRefused, SetupAnswered, enableTOTP, CallMissed, sbounds
<1>13. CASE setupTOTP \/ SendCode \/ Missed
  BY <1>5, <1>9, <1>13 DEF setupTOTP, SendCode
<1>. QED
  BY <1>3, <1>4, <1>5, <1>6, <1>7, <1>8, <1>10, <1>11, <1>12, <1>13 DEF SessionNext

\* The variables of the session keep their ranges: what the tab stores, sends or waits for
\* is a token that was issued.
THEOREM SessionTypeCorrect == SessionSpec => []SessionTypeOK
<1>1. RefsOK /\ RefsOK' /\ SessionTyped /\ [SessionNext]_svars => SessionTyped'
  BY SessionFlagsStep, SessionPlacesStep, SessionCountsStep DEF SessionTyped
<1>2. RefsOK /\ SigningOK /\ SessionTyped => SessionTypeOK
  <2> SUFFICES ASSUME RefsOK, SigningOK, SessionTyped PROVE SessionTypeOK
    OBVIOUS
  <2> USE DEF SessionTyped
  <2>1. Tokens = Held
    BY DEF Tokens, Held, RefsOK, NoToken
  <2>2. ASSUME NEW c \in calls PROVE c \in Calls
    <3>1. c \in CallRecord /\ c.no \in 1 .. MaxCalls
      BY DEF RefsOK, SessionCounts
    <3>. QED
      BY <2>1, <3>1 DEF Calls, CallRecord
  <2>3. issued \in Seq([user : User, totp : BOOLEAN])
    BY DEF RefsOK, Grant
  <2>. QED
    BY <2>1, <2>2, <2>3, Zenon DEF SessionTypeOK, SessionPlaces, SessionFlags, SessionCounts, RefsOK,
       SigningOK
<1>3. SessionSpec => [](RefsOK /\ SigningOK)
  <2>1. SessionInv => RefsOK /\ SigningOK
    BY DEF SessionInv
  <2>. QED
    BY <2>1, SessionInvariant, PTL
<1>. QED
  BY <1>1, <1>2, <1>3, SessionTypedInitially, PTL DEF SessionSpec
=============================================================================
