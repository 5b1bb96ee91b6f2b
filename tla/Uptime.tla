------------------------------- MODULE Uptime -------------------------------
(***************************************************************************)
(* The uptime monitor (internal/service/uptime) as one site sees it.  Each *)
(* cycle lists the sites, reads the notification settings once, and checks *)
(* every deployed site: ping, look whether the site has any stored check,  *)
(* store the result, update the streaks in memory and decide on an alert,  *)
(* send it.  Streaks and the open incident live in memory only; the checks *)
(* are rows.  Sites do not interact, and a cycle waits for its checks.     *)
(***************************************************************************)
EXTENDS Naturals, Sequences

CONSTANTS
  Settings,    \* notification settings an operator may choose
  MaxTh,       \* upper limit of ClampInt (60 in the code)
  MaxRestarts, \* bound: restarts of the API process
  MaxFaults,   \* bound: failing database calls
  Window       \* what PruneAll asks Prune to keep of a site's rows (10080 in the code)

ASSUME UptimeAssumption ==
  /\ Settings \subseteq [fail : Nat, recover : Nat, down : BOOLEAN, recovery : BOOLEAN]
  /\ MaxTh \in Nat \ {0} /\ Window \in Nat /\ Window + 1 >= MaxTh
  /\ MaxRestarts \in Nat /\ MaxFaults \in Nat

VARIABLES
  world,      \* what a ping of the site would find: "up" or "down"
  eligible,   \* is the site's status one that is monitored?
  settings,   \* the notification settings in the database
  cfg,        \* the copy this cycle works with
  pc,         \* where the site's check stands
  result,     \* what the ping found
  firstEver,  \* the answer of IsFirstCheck
  checks,     \* the stored results, oldest first
  failStreak, okStreak, incident,  \* notifyState of the site
  message,    \* the alert about to be sent
  sent,       \* the last alert sent: "none", "down", "up"
  fresh,      \* has the process restarted since that alert?
  restarts, faults

state == <<failStreak, okStreak, incident>>
check == <<cfg, pc, result, firstEver, message>>
vars == <<world, eligible, settings, check, checks, state, sent, fresh, restarts, faults>>
-----------------------------------------------------------------------------
ClampInt(n, min, max) == IF n < min THEN min ELSE IF n > max THEN max ELSE n

\* Bound: longer streaks are not told apart, none of the conditions does.
Cap == MaxTh + 1
Least(a, b) == IF a < b THEN a ELSE b

\* What Prune leaves: it deletes what is older than the row at OFFSET Window, so
\* Window + 1 rows stay.  Taken after every insert, it prunes as early as can be.
Newest(rows) ==
  IF Len(rows) <= Window THEN rows ELSE SubSeq(rows, Len(rows) - Window, Len(rows))

Init ==
  /\ world \in {"up", "down"} /\ eligible = TRUE
  /\ settings \in Settings /\ cfg = settings
  /\ pc = "idle" /\ result = "up" /\ firstEver = FALSE /\ message = "none"
  /\ checks = <<>>
  /\ failStreak = 0 /\ okStreak = 0 /\ incident = FALSE
  /\ sent = "none" /\ fresh = TRUE
  /\ restarts = 0 /\ faults = 0

\* What a cycle works with when the settings cannot be read.
DefaultConfig == [fail |-> 1, recover |-> 1, down |-> TRUE, recovery |-> TRUE]

\* CheckAll: sites and settings are read at the start of the cycle.
StartCheck ==
  /\ pc = "idle" /\ eligible
  /\ pc' = "ping"
  /\ \/ cfg' = settings /\ UNCHANGED faults
     \/ cfg' = DefaultConfig /\ faults < MaxFaults /\ faults' = faults + 1
  /\ UNCHANGED <<world, eligible, settings, result, firstEver, message, checks, state,
                 sent, fresh, restarts>>

Ping ==
  /\ pc = "ping"
  /\ result' = world /\ pc' = "first"
  /\ UNCHANGED <<world, eligible, settings, cfg, firstEver, message, checks, state,
                 sent, fresh, restarts, faults>>

\* A failed query counts as a first check: its error is ignored and its zero
\* answer negated.
IsFirstCheck ==
  /\ pc = "first" /\ pc' = "insert"
  /\ \/ firstEver' = (checks = <<>>) /\ UNCHANGED faults
     \/ firstEver' = TRUE /\ faults < MaxFaults /\ faults' = faults + 1
  /\ UNCHANGED <<world, eligible, settings, cfg, result, message, checks, state,
                 sent, fresh, restarts>>

\* The error of Insert is ignored.
Insert ==
  /\ pc = "insert" /\ pc' = "judge"
  /\ \/ checks' = Newest(Append(checks, result)) /\ UNCHANGED faults
     \/ UNCHANGED checks /\ faults < MaxFaults /\ faults' = faults + 1
  /\ UNCHANGED <<world, eligible, settings, cfg, result, firstEver, message, state,
                 sent, fresh, restarts>>

FailTh    == ClampInt(cfg.fail, 1, MaxTh)
RecoverTh == ClampInt(cfg.recover, 1, MaxTh)

\* Mutant: a good check does not end the streak of failures.
Count_KeepFails ==
  /\ failStreak' = IF result = "down" THEN Least(failStreak + 1, Cap) ELSE failStreak
  /\ okStreak'   = IF result = "down" THEN 0 ELSE Least(okStreak + 1, Cap)

Count ==
  /\ failStreak' = IF result = "down" THEN Least(failStreak + 1, Cap) ELSE 0
  /\ okStreak'   = IF result = "down" THEN 0 ELSE Least(okStreak + 1, Cap)

\* Mutant: an alert is sent exactly when the streak reaches the threshold.
GoesDown_Exactly == /\ ~firstEver /\ result = "down" /\ ~incident
                    /\ failStreak' = FailTh /\ cfg.down

GoesDown  == /\ ~firstEver /\ result = "down" /\ ~incident
             /\ failStreak' >= FailTh /\ cfg.down

\* Mutant: a recovery is announced whether or not an incident is open.
Recovers_Always == ~firstEver /\ result = "up" /\ okStreak' >= RecoverTh /\ cfg.recovery

Recovers  == /\ ~firstEver /\ result = "up" /\ incident
             /\ okStreak' >= RecoverTh /\ cfg.recovery

\* Mutant: the incident stays open after the recovery was announced.
Judge_StaysOpen ==
  /\ pc = "judge" /\ pc' = "notify"
  /\ Count
  /\ incident' = (incident \/ GoesDown)
  /\ message' = IF GoesDown THEN "down" ELSE IF Recovers THEN "up" ELSE "none"
  /\ UNCHANGED <<world, eligible, settings, cfg, result, firstEver, checks,
                 sent, fresh, restarts, faults>>

\* Under the mutex: streaks, the decision, the incident.
Judge ==
  /\ pc = "judge" /\ pc' = "notify"
  /\ Count
  /\ incident' = ((incident \/ GoesDown) /\ ~Recovers)
  /\ message' = IF GoesDown THEN "down" ELSE IF Recovers THEN "up" ELSE "none"
  /\ UNCHANGED <<world, eligible, settings, cfg, result, firstEver, checks,
                 sent, fresh, restarts, faults>>

\* Sent outside the mutex; what becomes of the message is ignored.
Notify ==
  /\ pc = "notify" /\ pc' = "idle"
  /\ sent' = IF message = "none" THEN sent ELSE message
  /\ fresh' = (fresh /\ message = "none")
  /\ message' = "none" /\ firstEver' = FALSE /\ result' = "up"
  /\ UNCHANGED <<world, eligible, settings, cfg, checks, state, restarts, faults>>
-----------------------------------------------------------------------------
SiteChanges ==
  /\ world' = IF world = "up" THEN "down" ELSE "up"
  /\ UNCHANGED <<eligible, settings, check, checks, state, sent, fresh, restarts, faults>>

\* A deploy starts, or ends, or the site is edited.
EligibilityChanges ==
  /\ eligible' = ~eligible
  /\ UNCHANGED <<world, settings, check, checks, state, sent, fresh, restarts, faults>>

ChangeSettings ==
  /\ settings' \in Settings
  /\ UNCHANGED <<world, eligible, check, checks, state, sent, fresh, restarts, faults>>

\* The memory of the monitor, and a check in progress, are gone.
Restart ==
  /\ restarts < MaxRestarts /\ restarts' = restarts + 1
  /\ pc' = "idle" /\ result' = "up" /\ firstEver' = FALSE /\ message' = "none"
  /\ failStreak' = 0 /\ okStreak' = 0 /\ incident' = FALSE
  /\ fresh' = TRUE
  /\ UNCHANGED <<world, eligible, settings, cfg, checks, sent, faults>>

Monitor == StartCheck \/ Ping \/ IsFirstCheck \/ Insert \/ Judge \/ Notify

Next == Monitor \/ SiteChanges \/ EligibilityChanges \/ ChangeSettings \/ Restart

Spec == Init /\ [][Next]_vars

\* The ticker fires and a check ends: every call of it has a timeout or a context.
FairSpec == Spec /\ WF_vars(Monitor)
-----------------------------------------------------------------------------
(* Properties *)

\* Every variable stays in its range.
TypeOK ==
  /\ world \in {"up", "down"} /\ eligible \in BOOLEAN
  /\ settings \in Settings /\ cfg \in Settings \cup {DefaultConfig}
  /\ pc \in {"idle", "ping", "first", "insert", "judge", "notify"}
  /\ result \in {"up", "down"} /\ firstEver \in BOOLEAN
  /\ message \in {"none", "down", "up"}
  /\ checks \in Seq({"up", "down"}) /\ Len(checks) <= Window + 1
  /\ failStreak \in 0..Cap /\ okStreak \in 0..Cap /\ incident \in BOOLEAN
  /\ failStreak = 0 \/ okStreak = 0
  /\ sent \in {"none", "down", "up"} /\ fresh \in BOOLEAN
  /\ restarts \in 0..MaxRestarts /\ faults \in 0..MaxFaults

\* Alerts alternate: a site is announced as recovered only after it was announced
\* as down by the same process, and is not announced as down again before that.
AlertsAlternate ==
  [][/\ message = "up" /\ pc' = "idle" /\ restarts' = restarts => sent = "down" /\ ~fresh
     /\ message = "down" /\ pc' = "idle" /\ restarts' = restarts => sent # "down" \/ fresh]_vars

\* A site is announced as down only if its latest stored checks, as many as the
\* threshold the cycle works with, all say so; the streak in memory never claims
\* more than the rows show, over restarts, pauses and changes of the settings. It
\* says so as long as every check was stored and no query failed: an insert whose
\* error checkSite only logs counts in memory and leaves no row behind.
DownIsConfirmed ==
  faults = 0 /\ message = "down" =>
    /\ Len(checks) >= FailTh
    /\ \A i \in (Len(checks) - FailTh + 1)..Len(checks) : checks[i] = "down"

\* A site that stays down is announced, once the alerts are on to stay.
OutageIsReported ==
  <>[](world = "down" /\ eligible /\ settings.down) => <>[]incident

\* A site that stays up has no incident open for ever, once recoveries are
\* announced: whatever the settings were when it came up.
RecoveryIsReported ==
  <>[](world = "up" /\ eligible /\ settings.recovery) => <>[]~incident
=============================================================================
