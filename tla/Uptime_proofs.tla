---------------------------- MODULE Uptime_proofs ----------------------------
(***************************************************************************)
(* For any settings, thresholds and window, and any number of restarts and *)
(* failing calls: alerts of a site alternate, and an alert that it is down *)
(* is confirmed by the stored checks.                                      *)
(*                                                                         *)
(* AlertsAlternate follows from the meaning of the incident flag: between  *)
(* checks it says exactly that the last alert of this process was a        *)
(* "down" (FlagMeansAnnounced).  DownIsConfirmed follows from what the     *)
(* streak in memory promises about the rows (StreakIsStored), for which    *)
(* pruning must keep at least as many rows as the highest threshold.       *)
(***************************************************************************)
EXTENDS Uptime, TLAPS

USE UptimeAssumption DEF UptimeAssumption

-----------------------------------------------------------------------------
(* Ranges *)

\* TypeOK but for the flags.
RangesOK ==
  /\ world \in {"up", "down"}
  /\ settings \in Settings /\ cfg \in Settings \cup {DefaultConfig}
  /\ pc \in {"idle", "ping", "first", "insert", "judge", "notify"}
  /\ result \in {"up", "down"} /\ message \in {"none", "down", "up"}
  /\ checks \in Seq({"up", "down"}) /\ Len(checks) <= Window + 1
  /\ failStreak \in 0..Cap /\ okStreak \in 0..Cap
  /\ failStreak = 0 \/ okStreak = 0
  /\ sent \in {"none", "down", "up"}
  /\ restarts \in 0..MaxRestarts /\ faults \in 0..MaxFaults

FlagsOK == eligible \in BOOLEAN /\ firstEver \in BOOLEAN /\ incident \in BOOLEAN /\ fresh \in BOOLEAN

LEMMA FlagsStep == FlagsOK /\ [Next]_vars => FlagsOK'
  BY Zenon DEF FlagsOK, Next, Monitor, vars, state, check, StartCheck, Ping, IsFirstCheck, Insert, Judge,
     Notify, SiteChanges, EligibilityChanges, ChangeSettings, Restart

\* Pruning drops old rows only: counted from the end, the rows stay what they were.
LEMMA NewestKeeps ==
  ASSUME NEW rows \in Seq({"up", "down"})
  PROVE  /\ Newest(rows) \in Seq({"up", "down"})
         /\ Len(Newest(rows)) = IF Len(rows) <= Window THEN Len(rows) ELSE Window + 1
         /\ \A j \in 0 .. Len(Newest(rows)) - 1 :
              Newest(rows)[Len(Newest(rows)) - j] = rows[Len(rows) - j]
<1>1. CASE Len(rows) <= Window
  BY <1>1 DEF Newest
<1>2. CASE ~(Len(rows) <= Window)
  <2>1. Newest(rows) = SubSeq(rows, Len(rows) - Window, Len(rows))
    BY <1>2 DEF Newest
  <2>2. /\ Len(rows) - Window \in 1 .. Len(rows) /\ Len(rows) \in Nat
        /\ Len(rows) - (Len(rows) - Window) + 1 = Window + 1
    BY <1>2
  <2>3. Newest(rows) \in Seq({"up", "down"}) /\ Len(Newest(rows)) = Window + 1
    BY <2>1, <2>2
  <2>4. \A i \in 1 .. Window + 1 : Newest(rows)[i] = rows[Len(rows) - Window + i - 1]
    BY <2>1, <2>2
  <2>. QED
    BY <1>2, <2>2, <2>3, <2>4
<1>. QED
  BY <1>1, <1>2

LEMMA RangesStep == RangesOK /\ [Next]_vars => RangesOK'
<1> SUFFICES ASSUME RangesOK, [Next]_vars PROVE RangesOK'
  OBVIOUS
<1> USE DEF RangesOK, state, check
<1>1. CASE StartCheck
  BY <1>1 DEF StartCheck
<1>2. CASE Ping \/ Notify
  BY <1>2 DEF Ping, Notify
<1>3. CASE IsFirstCheck
  BY <1>3 DEF IsFirstCheck
<1>4. CASE Insert
  <2>1. Append(checks, result) \in Seq({"up", "down"})
    OBVIOUS
  <2>3. Newest(Append(checks, result)) \in Seq({"up", "down"})
        /\ Len(Newest(Append(checks, result))) <= Window + 1
    <3>1. Newest(Append(checks, result)) \in Seq({"up", "down"})
      BY <2>1, NewestKeeps
    <3>2. Len(Newest(Append(checks, result)))
            = IF Len(Append(checks, result)) <= Window THEN Len(Append(checks, result)) ELSE Window + 1
      BY <2>1, NewestKeeps
    <3>3. Len(Append(checks, result)) \in Nat
      BY <2>1
    <3>. QED
      BY <3>1, <3>2, <3>3
  <2>2. checks' \in Seq({"up", "down"}) /\ Len(checks') <= Window + 1
    BY <1>4, <2>3 DEF Insert
  <2>. QED
    BY <1>4, <2>2 DEF Insert
<1>5. CASE Judge
  <2>1. message' \in {"none", "down", "up"}
    BY <1>5, Zenon DEF Judge
  <2>. QED
    BY <1>5, <2>1 DEF Judge, Count, Least, Cap
<1>6. CASE SiteChanges \/ EligibilityChanges \/ ChangeSettings
  BY <1>6 DEF SiteChanges, EligibilityChanges, ChangeSettings
<1>7. CASE Restart
  BY <1>7 DEF Restart, Cap
<1>8. CASE UNCHANGED vars
  BY <1>8 DEF vars
<1>. QED
  BY <1>1, <1>2, <1>3, <1>4, <1>5, <1>6, <1>7, <1>8 DEF Next, Monitor

\* Every variable of the monitor stays in its range, for any settings and window.
THEOREM TypeCorrect == Spec => []TypeOK
<1>1. Init => RangesOK /\ FlagsOK
  <2>1. Init => FlagsOK
    BY Zenon DEF Init, FlagsOK
  <2>2. Init => RangesOK
    BY DEF Init, RangesOK, Cap
  <2>. QED
    BY <2>1, <2>2
<1>2. RangesOK /\ FlagsOK => TypeOK
  BY DEF RangesOK, FlagsOK, TypeOK
<1>. QED
  BY <1>1, <1>2, FlagsStep, RangesStep, PTL DEF Spec

-----------------------------------------------------------------------------
(* Alerts alternate *)

FlagMeansAnnounced ==
  /\ pc # "notify" => message = "none"
  /\ message = "none" => (incident <=> sent = "down" /\ ~fresh)
  /\ message = "down" => incident /\ (sent # "down" \/ fresh)
  /\ message = "up" => ~incident /\ sent = "down" /\ ~fresh
  /\ message \in {"none", "down", "up"}

LEMMA FlagInvariant == Spec => []FlagMeansAnnounced
<1>1. Init => FlagMeansAnnounced
  BY DEF Init, FlagMeansAnnounced
<1>2. ASSUME FlagMeansAnnounced, [Next]_vars PROVE FlagMeansAnnounced'
  <2>1. CASE StartCheck
    BY <1>2, <2>1 DEF StartCheck, FlagMeansAnnounced, state
  <2>2. CASE Ping \/ IsFirstCheck \/ Insert
    BY <1>2, <2>2 DEF Ping, IsFirstCheck, Insert, FlagMeansAnnounced, state
  <2>3. CASE Judge
    <3>1. pc = "judge" /\ pc' = "notify" /\ message = "none" /\ UNCHANGED <<sent, fresh>>
      BY <1>2, <2>3 DEF Judge, FlagMeansAnnounced
    <3>2. /\ incident' <=> (incident \/ GoesDown) /\ ~Recovers
          /\ message' = IF GoesDown THEN "down" ELSE IF Recovers THEN "up" ELSE "none"
      BY <2>3, Zenon DEF Judge
    <3>3. (GoesDown => ~incident) /\ (Recovers => incident)
      BY DEF GoesDown, Recovers
    <3>. QED
      BY <1>2, <3>1, <3>2, <3>3 DEF FlagMeansAnnounced
  <2>4. CASE Notify
    <3>1. /\ pc' = "idle" /\ message' = "none" /\ incident' = incident
          /\ sent' = IF message = "none" THEN sent ELSE message
      BY <2>4 DEF Notify, state
    <3>2. fresh' <=> fresh /\ message = "none"
      BY <2>4, Zenon DEF Notify
    <3>. QED
      BY <1>2, <3>1, <3>2 DEF FlagMeansAnnounced
  <2>5. CASE SiteChanges \/ EligibilityChanges \/ ChangeSettings
    BY <1>2, <2>5 DEF SiteChanges, EligibilityChanges, ChangeSettings, FlagMeansAnnounced, state, check
  <2>6. CASE Restart
    <3>1. pc' = "idle" /\ message' = "none"
      BY <2>6 DEF Restart
    <3>2. ~incident' /\ fresh'
      BY <2>6, Zenon DEF Restart
    <3>. QED
      BY <3>1, <3>2 DEF FlagMeansAnnounced
  <2>7. CASE UNCHANGED vars
    BY <1>2, <2>7 DEF vars, state, check, FlagMeansAnnounced
  <2>. QED
    BY <1>2, <2>1, <2>2, <2>3, <2>4, <2>5, <2>6, <2>7 DEF Next, Monitor
<1>. QED
  BY <1>1, <1>2, PTL DEF Spec

\* A recovery is announced only after the same process has announced the outage, and
\* an outage not twice in a row, whatever restarts, settings and faults do.
THEOREM AlertsDoAlternate == Spec => AlertsAlternate
<1>1. FlagMeansAnnounced /\ [Next]_vars =>
        [/\ message = "up" /\ pc' = "idle" /\ restarts' = restarts => sent = "down" /\ ~fresh
         /\ message = "down" /\ pc' = "idle" /\ restarts' = restarts => sent # "down" \/ fresh]_vars
  BY DEF FlagMeansAnnounced
<1>. QED
  BY <1>1, FlagInvariant, PTL DEF Spec, AlertsAlternate

-----------------------------------------------------------------------------
(* An alert is confirmed *)

\* The latest n of the rows exist and say that the site was down.
Backed(rows, n) == Len(rows) >= n /\ \A j \in 0 .. n - 1 : rows[Len(rows) - j] = "down"

\* What the streak will be once the result is counted.
Promised ==
  IF pc # "judge" THEN failStreak ELSE IF result = "down" THEN failStreak + 1 ELSE 0

StreakIsStored == faults = 0 => Backed(checks, Least(Promised, MaxTh))

StreakTypeOK ==
  /\ cfg \in Settings \cup {DefaultConfig} /\ settings \in Settings /\ faults \in Nat
  /\ failStreak \in 0 .. Cap /\ checks \in Seq({"up", "down"})
  /\ result \in {"up", "down"} /\ world \in {"up", "down"}

DownWasReached == message = "down" => pc = "notify" /\ failStreak >= FailTh

StreakInv == StreakTypeOK /\ StreakIsStored /\ DownWasReached

LEMMA Thresholds == ASSUME StreakTypeOK PROVE FailTh \in 1 .. MaxTh
<1>1. cfg.fail \in Nat
  BY DEF StreakTypeOK, DefaultConfig
<1>. QED
  BY <1>1 DEF FailTh, ClampInt

\* One more failure is stored: one more of the latest rows is a failure.
LEMMA OneMoreBacked ==
  ASSUME NEW n \in Nat, Backed(checks, n), checks \in Seq({"up", "down"}),
         NEW m \in 0 .. Least(n + 1, MaxTh)
  PROVE  Backed(Newest(Append(checks, "down")), m)
<1> DEFINE longer == Append(checks, "down")
           kept == Newest(longer)
<1>1. longer \in Seq({"up", "down"}) /\ Len(longer) = Len(checks) + 1 /\ Len(checks) \in Nat
  OBVIOUS
<1>2. m <= n + 1 /\ m <= Window + 1 /\ m \in Nat
  BY DEF Least
<1>3. m <= Len(kept)
  <2>1. Len(kept) = Len(longer) \/ Len(kept) = Window + 1
    BY <1>1, NewestKeeps
  <2>2. n <= Len(checks)
    BY DEF Backed
  <2>. QED
    BY <1>1, <1>2, <2>1, <2>2
<1>4. ASSUME NEW j \in 0 .. m - 1 PROVE kept[Len(kept) - j] = "down"
  <2>1. kept[Len(kept) - j] = longer[Len(longer) - j]
    <3>1. Len(kept) \in Nat /\ j \in 0 .. Len(kept) - 1
      BY <1>1, <1>2, <1>3, NewestKeeps
    <3>. QED
      BY <1>1, <3>1, NewestKeeps
  <2>2. CASE j = 0
    BY <1>1, <2>1, <2>2
  <2>3. CASE j # 0
    <3>1. j - 1 \in 0 .. n - 1 /\ Len(checks) - (j - 1) \in 1 .. Len(checks)
      BY <1>1, <1>2, <2>3 DEF Backed
    <3>2. longer[Len(longer) - j] = checks[Len(checks) - (j - 1)]
      BY <1>1, <3>1
    <3>. QED
      BY <2>1, <3>1, <3>2 DEF Backed
  <2>. QED
    BY <2>2, <2>3
<1>. HIDE DEF kept
<1>. QED
  BY <1>3, <1>4 DEF Backed, kept

LEMMA StreakStep == ASSUME StreakInv, [Next]_vars PROVE StreakInv'
<1> USE DEF StreakInv
<1>1. CASE StartCheck
  <2>1. /\ pc = "idle" /\ pc' = "ping" /\ cfg' \in {settings, DefaultConfig}
        /\ faults' \in {faults, faults + 1}
        /\ UNCHANGED <<settings, message, checks, failStreak, result, world>>
    BY <1>1 DEF StartCheck, state
  <2>2. StreakTypeOK' /\ DownWasReached'
    BY <2>1 DEF StreakTypeOK, DownWasReached
  <2>3. StreakIsStored'
    BY <2>1 DEF StreakIsStored, StreakTypeOK, Promised, Backed
  <2>. QED
    BY <2>2, <2>3
<1>2. CASE Ping
  <2>1. /\ pc = "ping" /\ pc' = "first" /\ result' = world
        /\ UNCHANGED <<cfg, settings, message, checks, failStreak, faults, world>>
    BY <1>2 DEF Ping, state
  <2>. QED
    BY <2>1 DEF StreakTypeOK, DownWasReached, StreakIsStored, Promised, Backed
<1>3. CASE IsFirstCheck
  <2>1. /\ pc = "first" /\ pc' = "insert" /\ faults' \in {faults, faults + 1}
        /\ UNCHANGED <<cfg, settings, message, checks, failStreak, result, world>>
    BY <1>3 DEF IsFirstCheck, state
  <2>. QED
    BY <2>1 DEF StreakTypeOK, DownWasReached, StreakIsStored, Promised, Backed
<1>4. CASE Insert
  <2>1. pc = "insert" /\ pc' = "judge" /\ UNCHANGED <<cfg, settings, message, failStreak, result, world>>
    BY <1>4 DEF Insert, state
  <2>2. DownWasReached'
    BY <2>1 DEF DownWasReached
  <2>3. CASE checks' = checks /\ faults' = faults + 1
    BY <2>1, <2>2, <2>3 DEF StreakTypeOK, StreakIsStored
  <2>4. CASE checks' = Newest(Append(checks, result)) /\ faults' = faults
    <3>1. Append(checks, result) \in Seq({"up", "down"})
      BY DEF StreakTypeOK
    <3>2. StreakTypeOK'
      BY <2>1, <2>4, <3>1, NewestKeeps DEF StreakTypeOK
    <3>3. StreakIsStored'
      <4>1. SUFFICES ASSUME faults = 0 PROVE Backed(checks', Least(Promised', MaxTh))
        BY <2>4 DEF StreakIsStored
      <4>2. CASE result = "down"
        <5>1. Promised' = failStreak + 1 /\ Promised = failStreak /\ failStreak \in Nat
          BY <2>1, <4>2 DEF Promised, StreakTypeOK
        <5>2. Backed(checks, Least(failStreak, MaxTh)) /\ Least(failStreak, MaxTh) \in Nat
          BY <4>1, <5>1 DEF StreakIsStored, Least
        <5>3. Least(failStreak + 1, MaxTh) \in 0 .. Least(Least(failStreak, MaxTh) + 1, MaxTh)
          BY <5>1 DEF Least
        <5>. QED
          BY <2>4, <4>2, <5>1, <5>2, <5>3, OneMoreBacked DEF StreakTypeOK
      <4>3. CASE result = "up"
        <5>1. Least(Promised', MaxTh) = 0
          BY <2>1, <4>3 DEF Promised, Least
        <5>2. checks' \in Seq({"up", "down"})
          BY <3>2 DEF StreakTypeOK
        <5>. QED
          BY <5>1, <5>2 DEF Backed
      <4>. QED
        BY <4>2, <4>3 DEF StreakTypeOK
    <3>. QED
      BY <2>2, <3>2, <3>3
  <2>. QED
    BY <1>4, <2>3, <2>4 DEF Insert
<1>5. CASE Judge
  <2>1. /\ pc = "judge" /\ pc' = "notify" /\ UNCHANGED <<cfg, settings, checks, faults, result, world>>
        /\ failStreak' = IF result = "down" THEN Least(failStreak + 1, Cap) ELSE 0
    BY <1>5 DEF Judge, Count
  <2>2. StreakTypeOK'
    BY <2>1 DEF StreakTypeOK, Least, Cap
  <2>3. Least(Promised', MaxTh) = Least(Promised, MaxTh)
    BY <2>1 DEF StreakTypeOK, Promised, Least, Cap
  <2>4. StreakIsStored'
    BY <2>1, <2>3 DEF StreakIsStored, Backed
  <2>5. message' = "down" => failStreak' >= FailTh
    BY <1>5 DEF Judge, GoesDown
  <2>. QED
    BY <2>1, <2>2, <2>4, <2>5 DEF DownWasReached, FailTh
<1>6. CASE Notify
  <2>1. /\ pc = "notify" /\ pc' = "idle" /\ message' = "none" /\ result' = "up"
        /\ UNCHANGED <<cfg, settings, checks, failStreak, faults, world>>
    BY <1>6 DEF Notify, state
  <2>. QED
    BY <2>1 DEF StreakTypeOK, DownWasReached, StreakIsStored, Promised, Backed
<1>7. CASE SiteChanges \/ EligibilityChanges \/ ChangeSettings
  <2>1. /\ settings' \in Settings /\ world' \in {"up", "down"}
        /\ UNCHANGED <<pc, cfg, message, checks, failStreak, faults, result>>
    BY <1>7 DEF SiteChanges, EligibilityChanges, ChangeSettings, state, check, StreakTypeOK
  <2>. QED
    BY <2>1 DEF StreakTypeOK, DownWasReached, StreakIsStored, Promised, Backed, FailTh
<1>8. CASE Restart
  <2>1. /\ pc' = "idle" /\ message' = "none" /\ result' = "up" /\ failStreak' = 0
        /\ UNCHANGED <<cfg, settings, checks, faults, world>>
    BY <1>8 DEF Restart
  <2>2. Least(Promised', MaxTh) = 0
    BY <2>1 DEF Promised, Least
  <2>. QED
    BY <2>1, <2>2 DEF StreakTypeOK, DownWasReached, StreakIsStored, Backed, Cap
<1>9. CASE UNCHANGED vars
  BY <1>9 DEF vars, state, check, StreakTypeOK, DownWasReached, StreakIsStored, Promised, Backed, FailTh
<1>. QED
  BY <1>1, <1>2, <1>3, <1>4, <1>5, <1>6, <1>7, <1>8, <1>9 DEF Next, Monitor
\* An alert that a site is down is confirmed by as many of its latest stored checks as
\* the threshold says, unless the database has failed the monitor before.
THEOREM DownAlertsAreConfirmed == Spec => []DownIsConfirmed
<1>1. Init => StreakInv
  BY DEF Init, StreakInv, StreakTypeOK, StreakIsStored, DownWasReached, Promised, Backed, Least, Cap
<1>2. StreakInv => DownIsConfirmed
  <2>1. SUFFICES ASSUME StreakInv, faults = 0, message = "down"
                 PROVE  /\ Len(checks) >= FailTh
                        /\ \A i \in (Len(checks) - FailTh + 1) .. Len(checks) : checks[i] = "down"
    BY DEF DownIsConfirmed
  <2>2. pc = "notify" /\ failStreak >= FailTh /\ failStreak \in Nat /\ FailTh \in 1 .. MaxTh
    BY <2>1, Thresholds DEF StreakInv, StreakTypeOK, DownWasReached
  <2>3. Backed(checks, Least(failStreak, MaxTh)) /\ Len(checks) \in Nat
    BY <2>1, <2>2 DEF StreakInv, StreakTypeOK, StreakIsStored, Promised
  <2>4. FailTh <= Least(failStreak, MaxTh) /\ Least(failStreak, MaxTh) \in Nat
    BY <2>2 DEF Least
  <2>5. ASSUME NEW i \in (Len(checks) - FailTh + 1) .. Len(checks) PROVE checks[i] = "down"
    <3>1. Len(checks) - i \in 0 .. Least(failStreak, MaxTh) - 1 /\ Len(checks) - (Len(checks) - i) = i
      BY <2>2, <2>3, <2>4
    <3>. QED
      BY <2>3, <3>1 DEF Backed
  <2>. QED
    BY <2>2, <2>3, <2>4, <2>5 DEF Backed
<1>. QED
  BY <1>1, <1>2, StreakStep, PTL DEF Spec
=============================================================================
