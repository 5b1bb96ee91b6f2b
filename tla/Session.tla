------------------------------- MODULE Session -------------------------------
(***************************************************************************)
(* Signing in and out of one browser tab, and the two-factor section,      *)
(* which replaces the token.  The token lives in localStorage, which other *)
(* tabs share; the cache of queries lives in the tab and outlives a        *)
(* logout.  A refusal (401 or 403) of any request clears whatever token is *)
(* stored and loads /login.  A request of the section is sent, handled by  *)
(* the server and answered in steps of their own.  One that signs in is    *)
(* handled when it is answered: only a change of two-factor in between,    *)
(* which is astray (below), could tell the two moments apart.              *)
(***************************************************************************)
EXTENDS Naturals, Sequences

CONSTANTS
  User,       \* users
  NoUser,     \* nobody
  MaxTokens,  \* bound: tokens issued
  MaxCalls,   \* bound: requests of the two-factor section
  MaxMisses   \* bound: polls that are lost, pages loaded by hand, two-factor
              \* changed elsewhere

ASSUME SessionAssumption ==
  User # {} /\ NoUser \notin User /\ MaxTokens \in Nat /\ MaxCalls \in Nat /\ MaxMisses \in Nat

VARIABLES
  place,      \* the page: "login", "mfa" (its second step), "home", "security"
  unloading,  \* window.location was set: the tab is about to load /login
  stash,      \* the stored token: an index into issued, or NoToken
  issued,     \* issued[t]: whose token t is, and the two-factor claim in it
  dead,       \* tokens the server refuses
  signing,    \* login page: the user whose sign-in is under way or half done,
  attempt,    \* and its request that is under way: "password", "code" or "none"
  seen,       \* home: whose answer is in the cache
  asking,     \* home: the token its request was sent with, or Idle
  totp,       \* totp[u]: two-factor of u on the server: "off", "pending" (a secret, which
              \* no code has confirmed) or "on"
  viewer,     \* security: the user whose token was read when it was mounted
  badge,      \* security: two-factor is shown as enabled
  step,       \* security: "idle", "setup" (under way), "verify" or "disable" (a code is asked for)
  calls,      \* requests of the section: what for, with which token, whether the server has
              \* handled it, the token issued then, and who listens to the answer
  callsMade,  \* how many there were
  astray,     \* history: see BadgeIsTrue
  misses

tokens == <<issued, dead>>
login == <<signing, attempt>>
home == <<seen, asking>>
section == <<viewer, badge, step>>
sbounds == <<callsMade, astray, misses>>
svars == <<place, unloading, stash, tokens, login, home, totp, section, calls, sbounds>>

NoToken == 0
Idle == MaxTokens + 1

InitSession ==
  /\ place = "login" /\ unloading = FALSE
  /\ stash = NoToken /\ issued = <<>> /\ dead = {}
  /\ signing = NoUser /\ attempt = "none" /\ seen = NoUser /\ asking = Idle
  /\ totp \in [User -> {"off", "pending", "on"}]
  /\ viewer = NoUser /\ badge = FALSE /\ step = "idle"
  /\ calls = {} /\ callsMade = 0 /\ astray = FALSE /\ misses = 0

On(u) == totp[u] = "on"
CanIssue == Len(issued) < MaxTokens
Issue(u, on) == issued' = Append(issued, [user |-> u, totp |-> on])
OwnerOf(t) == IF t = NoToken THEN NoUser ELSE issued[t].user
Accepted(t) == t # NoToken /\ t \notin dead

\* The two-factor section is gone, with what it showed.  Its requests go on.
NoSection == viewer' = NoUser /\ badge' = FALSE /\ step' = "idle"
Unheard(c) == IF c.heard = "section" THEN [c EXCEPT !.heard = "tab"] ELSE c

\* A page of the tab is loaded anew: its state and its cache are gone, and what was sent
\* may still reach the server, but nobody hears the answer.
Load(p) ==
  /\ place' = p /\ unloading' = FALSE
  /\ signing' = NoUser /\ attempt' = "none" /\ seen' = NoUser /\ asking' = Idle
  /\ NoSection
  /\ calls' = {[c EXCEPT !.heard = "nobody"] : c \in {d \in calls : ~d.done}}
  /\ astray' = (astray \/ calls # {})

\* clearToken, and the assignment to window.location: scripts go on until it unloads.
Refuse == stash' = NoToken /\ unloading' = TRUE
-----------------------------------------------------------------------------
(* The login page *)

\* handleLogin up to its await; the button is disabled while loading, also while a code
\* is under way that was sent before the way back.
handleLogin(u) ==
  /\ place = "login" /\ ~unloading /\ attempt = "none"
  /\ signing' = u /\ attempt' = "password"
  /\ UNCHANGED <<place, unloading, stash, tokens, home, totp, section, calls, sbounds>>

\* The same of handleMFA.
handleMFA ==
  /\ place = "mfa" /\ ~unloading /\ attempt = "none"
  /\ attempt' = "code"
  /\ UNCHANGED <<place, unloading, stash, tokens, signing, home, totp, section, calls, sbounds>>

\* The answer to a password: the second step...
SecondStep ==
  /\ attempt = "password" /\ On(signing)
  /\ place' = "mfa" /\ attempt' = "none"
  /\ UNCHANGED <<unloading, stash, tokens, signing, home, totp, section, calls, sbounds>>

\* ...or, as to a code, the token and the dashboard, also when the user went back to the
\* login form meanwhile.
SignedIn ==
  /\ attempt # "none" /\ (attempt = "code" <=> On(signing)) /\ CanIssue
  /\ Issue(signing, On(signing)) /\ stash' = Len(issued')
  /\ place' = "home" /\ signing' = NoUser /\ attempt' = "none"
  /\ UNCHANGED <<unloading, dead, home, totp, section, calls, sbounds>>

\* A wrong password is said so, as is a request that is lost; login does not go through
\* apiFetch.  A wrong code is a 401 like any other.
LoginRefused ==
  /\ attempt # "none" /\ attempt' = "none"
  /\ signing' = IF place = "mfa" THEN signing ELSE NoUser
  /\ \/ UNCHANGED <<stash, unloading>>
     \/ attempt = "code" /\ Refuse
  /\ UNCHANGED <<place, tokens, home, totp, section, calls, sbounds>>

\* The way back from the second step.  It cancels nothing.
BackToLogin ==
  /\ place = "mfa" /\ ~unloading
  /\ place' = "login" /\ signing' = IF attempt = "code" THEN signing ELSE NoUser
  /\ UNCHANGED <<unloading, stash, tokens, attempt, home, totp, section, calls, sbounds>>
-----------------------------------------------------------------------------
(* Moving, leaving *)

Unload ==
  /\ unloading /\ Load("login")
  /\ UNCHANGED <<stash, tokens, totp, callsMade, misses>>

\* A link of the navigation.  The two-factor section reads the claim of the token once,
\* when it is mounted.
Link ==
  /\ place \in {"home", "security"} /\ ~unloading
  /\ IF place = "home"
     THEN /\ place' = "security" /\ viewer' = OwnerOf(stash)
          /\ badge' = (stash # NoToken /\ issued[stash].totp)
          /\ astray' = (astray \/ calls # {})
          /\ UNCHANGED <<step, calls>>
     ELSE /\ place' = "home" /\ NoSection /\ calls' = {Unheard(c) : c \in calls}
          /\ UNCHANGED astray
  /\ UNCHANGED <<unloading, stash, tokens, login, home, totp, callsMade, misses>>

\* The address bar.  The layout sends those without a token, or with one that is over, to
\* the login page; it only looks when it is mounted.
Address ==
  /\ ~unloading /\ misses < MaxMisses /\ misses' = misses + 1
  /\ \/ Load("home") /\ stash # NoToken
     \/ Load("login")
  /\ UNCHANGED <<stash, tokens, totp, callsMade>>

\* handleLogout: the tab goes on, with its cache and its requests.
handleLogout ==
  /\ place \in {"home", "security"} /\ ~unloading
  /\ stash' = NoToken /\ place' = "login" /\ NoSection
  /\ calls' = {Unheard(c) : c \in calls} /\ astray' = (astray \/ calls # {})
  /\ UNCHANGED <<unloading, tokens, login, home, totp, callsMade, misses>>

\* A token expires, or its user is removed.
Dies(t) ==
  /\ t \in DOMAIN issued /\ dead' = dead \cup {t}
  /\ UNCHANGED <<place, unloading, stash, issued, login, home, totp, section, calls, sbounds>>
-----------------------------------------------------------------------------
(* Other tabs, and other browsers, which never store anything here.  They have a
   two-factor section of their own. *)

SignOutElsewhere ==
  /\ stash # NoToken /\ stash' = NoToken
  /\ UNCHANGED <<place, unloading, tokens, login, home, totp, section, calls, sbounds>>

\* Another tab stores what a sign-in or a code has brought it: a token that was issued now
\* or a while ago, and says what held of two-factor then.
StoredElsewhere(u) ==
  /\ CanIssue /\ \E on \in BOOLEAN : Issue(u, on) /\ astray' = (astray \/ on # On(u))
  /\ stash' = Len(issued')
  /\ UNCHANGED <<place, unloading, dead, login, home, totp, section, calls, callsMade, misses>>

\* setupTOTP, enableTOTP or disableTOTP of another section, at the server.
TwoFactorElsewhere(u) ==
  /\ misses < MaxMisses /\ misses' = misses + 1
  /\ \/ totp' = [totp EXCEPT ![u] = "pending"]
     \/ totp[u] # "off" /\ totp' = [totp EXCEPT ![u] = "on"]
     \/ On(u) /\ totp' = [totp EXCEPT ![u] = "off"]
  /\ astray' = (astray \/ On(u) # (totp'[u] = "on"))
  /\ UNCHANGED <<place, unloading, stash, tokens, login, home, section, calls, callsMade>>
-----------------------------------------------------------------------------
(* What home shows: a query that is polled *)

\* apiFetch reads the stored token for each request.
apiFetch ==
  /\ place = "home" /\ asking = Idle
  /\ asking' = stash
  /\ UNCHANGED <<place, unloading, stash, tokens, login, seen, totp, section, calls, sbounds>>

\* Mutant: a refusal is only reported.
HomeAnswered_Reported ==
  /\ asking # Idle /\ asking' = Idle
  /\ seen' = IF Accepted(asking) THEN OwnerOf(asking) ELSE seen
  /\ UNCHANGED <<place, unloading, stash, tokens, login, totp, section, calls, sbounds>>

\* The answer, wherever the tab has gone meanwhile.
HomeAnswered ==
  /\ asking # Idle /\ asking' = Idle
  /\ IF Accepted(asking)
     THEN seen' = OwnerOf(asking) /\ UNCHANGED <<stash, unloading>>
     ELSE Refuse /\ UNCHANGED seen
  /\ UNCHANGED <<place, tokens, login, totp, section, calls, sbounds>>

Missed ==
  /\ asking # Idle /\ misses < MaxMisses
  /\ asking' = Idle /\ misses' = misses + 1
  /\ UNCHANGED <<place, unloading, stash, tokens, login, seen, totp, section, calls, callsMade, astray>>
-----------------------------------------------------------------------------
(* The two-factor section *)

\* Another tab has signed in as somebody else since the section was mounted.
Stranger == OwnerOf(stash) # viewer

Call(kind) ==
  /\ place = "security" /\ ~unloading /\ callsMade < MaxCalls
  /\ callsMade' = callsMade + 1
  /\ astray' = (astray \/ calls # {} \/ Stranger)
  /\ calls' = calls \cup {[no |-> callsMade', kind |-> kind, by |-> stash, done |-> FALSE,
                           token |-> NoToken, heard |-> "section"]}
  /\ UNCHANGED <<place, unloading, stash, tokens, login, home, totp, viewer, badge, misses>>

\* The button that sets two-factor up; it comes back once the answer led to a code and
\* the code was cancelled or accepted.
setupTOTP ==
  /\ step = "idle" /\ ~badge
  /\ ~\E c \in calls : c.kind = "setup" /\ c.heard = "section"
  /\ step' = "setup" /\ Call("setup")

\* Disable, and the ways out of asking for a code.
StepTo(s) ==
  /\ place = "security" /\ ~unloading
  /\ \/ s = "disable" /\ step = "idle" /\ badge
     \/ s = "idle" /\ step \in {"verify", "disable"}
  /\ step' = s
  /\ UNCHANGED <<place, unloading, stash, tokens, login, home, totp, viewer, badge, calls, sbounds>>

\* enableTOTP or disableTOTP.  The button is disabled while one is pending, the Enter key
\* sends another.
SendCode ==
  /\ \/ step = "verify" /\ Call("enable")
     \/ step = "disable" /\ Call("disable")
  /\ UNCHANGED step

\* The handler: it writes the column, and issues a token that says so, unless nothing but
\* a secret was made.  (A token that cannot be issued is one that was lost.)
Serve(c) ==
  LET u == OwnerOf(c.by)
  IN  /\ ~c.done /\ Accepted(c.by)
      /\ \/ c.kind = "setup" /\ totp' = [totp EXCEPT ![u] = "pending"] /\ UNCHANGED issued
         \/ /\ c.kind = "enable" /\ totp[u] # "off" /\ totp' = [totp EXCEPT ![u] = "on"]
            /\ CanIssue /\ Issue(u, TRUE)
         \/ /\ c.kind = "disable" /\ On(u) /\ totp' = [totp EXCEPT ![u] = "off"]
            /\ CanIssue /\ Issue(u, FALSE)
      /\ calls' = (calls \ {c}) \cup
                    {d \in {[c EXCEPT !.done = TRUE,
                                      !.token = IF c.kind = "setup" THEN NoToken ELSE Len(issued')]} :
                       c.heard # "nobody"}
      /\ UNCHANGED <<place, unloading, stash, dead, login, home, section, sbounds>>

\* A wrong code, or a setup that fails, changes nothing and is said so; a dead token ends
\* the session.
CallRefused(c) ==
  /\ ~c.done /\ calls' = calls \ {c}
  /\ IF Accepted(c.by) \/ c.heard = "nobody" THEN UNCHANGED <<stash, unloading>> ELSE Refuse
  /\ UNCHANGED <<place, tokens, login, home, totp, section, sbounds>>

\* The new secret is shown, and a code is asked for.
SetupAnswered(c) ==
  /\ c.done /\ c.kind = "setup" /\ calls' = calls \ {c}
  /\ step' = IF c.heard = "section" THEN "verify" ELSE step
  /\ UNCHANGED <<place, unloading, stash, tokens, login, home, totp, viewer, badge, sbounds>>

\* Mutant: the new token is not stored.
enableTOTP_TokenDropped(c) ==
  /\ c.done /\ c.kind # "setup" /\ calls' = calls \ {c}
  /\ IF c.heard = "section" THEN badge' = (c.kind = "enable") /\ step' = "idle"
                            ELSE UNCHANGED <<badge, step>>
  /\ UNCHANGED <<place, unloading, stash, tokens, login, home, totp, viewer, sbounds>>

\* The answer to a code: setToken, whoever is signed in by now, and the badge of the
\* section that sent it, if that is still there.  disableTOTP is the same.
enableTOTP(c) ==
  /\ c.done /\ c.kind # "setup" /\ calls' = calls \ {c}
  /\ stash' = c.token
  /\ IF c.heard = "section" THEN badge' = (c.kind = "enable") /\ step' = "idle"
                            ELSE UNCHANGED <<badge, step>>
  /\ UNCHANGED <<place, unloading, tokens, login, home, totp, viewer, sbounds>>

CallMissed(c) ==
  /\ calls' = calls \ {c} /\ astray' = TRUE
  /\ UNCHANGED <<place, unloading, stash, tokens, login, home, totp, section, callsMade, misses>>

SessionNext ==
  \/ \E u \in User : handleLogin(u) \/ StoredElsewhere(u) \/ TwoFactorElsewhere(u)
  \/ handleMFA \/ SecondStep \/ SignedIn \/ LoginRefused \/ BackToLogin
  \/ Unload \/ Link \/ Address \/ handleLogout
  \/ \E t \in DOMAIN issued : Dies(t)
  \/ SignOutElsewhere
  \/ apiFetch \/ HomeAnswered \/ Missed
  \/ setupTOTP \/ SendCode \/ \E s \in {"idle", "disable"} : StepTo(s)
  \/ \E c \in calls : Serve(c) \/ CallRefused(c) \/ SetupAnswered(c) \/ enableTOTP(c) \/ CallMissed(c)

SessionSpec == InitSession /\ [][SessionNext]_svars

\* Polls go on, requests are answered, the tab loads what it was sent to.
SessionFairSpec == SessionSpec /\ WF_svars(apiFetch) /\ WF_svars(HomeAnswered) /\ WF_svars(Unload)
-----------------------------------------------------------------------------
Tokens == DOMAIN issued \cup {NoToken}
Calls ==
  [no : 1 .. MaxCalls, kind : {"setup", "enable", "disable"}, by : Tokens, done : BOOLEAN,
   token : Tokens, heard : {"section", "tab", "nobody"}]

SessionTypeOK ==
  /\ place \in {"login", "mfa", "home", "security"} /\ unloading \in BOOLEAN
  /\ issued \in Seq([user : User, totp : BOOLEAN]) /\ Len(issued) <= MaxTokens
  /\ stash \in Tokens /\ dead \subseteq DOMAIN issued
  /\ signing \in User \cup {NoUser} /\ attempt \in {"none", "password", "code"}
  /\ seen \in User \cup {NoUser} /\ asking \in Tokens \cup {Idle}
  /\ totp \in [User -> {"off", "pending", "on"}]
  /\ viewer \in User \cup {NoUser} /\ badge \in BOOLEAN
  /\ step \in {"idle", "setup", "verify", "disable"}
  /\ \A c \in calls : c \in Calls
  /\ callsMade \in 0 .. MaxCalls /\ astray \in BOOLEAN /\ misses \in 0 .. MaxMisses

\* The home page does not stay with a token that is over or gone, nor with the answer that
\* was meant for whoever was signed in before: polls carry the stored token, and a refusal
\* ends at the login page, whatever logouts, sign-ins and late answers overlap.  (That a
\* late refusal ends a new session, or a late code restores an old token, counts as settled.)
Unsettled == place = "home" /\ (~Accepted(stash) \/ seen # OwnerOf(stash))
HomeSettles == Unsettled ~> ~Unsettled

\* The two-factor section shows what holds on the server once none of its requests is under
\* way, on every mount and load after a code was sent too: the answer of enableTOTP is
\* stored "so the next page load reads the correct 2FA status".  Not so, and excluded by
\* astray, once in the life of the tab
\*   - a request of the section was sent while another was under way, or with the token of
\*     somebody else than the section was mounted for;
\*   - the section was mounted again, a page was loaded or the user signed out while one was
\*     under way;
\*   - a request was lost, or a token that the code had been accepted for could not be issued;
\*   - two-factor was switched on or off elsewhere, or another tab stored a token that was
\*     issued before a switch, wherever that was made.
\* In each of these the badge can stay wrong until the next sign-in.
BadgeIsTrue ==
  place = "security" /\ viewer # NoUser /\ calls = {} /\ ~astray => badge = On(viewer)
=============================================================================
