----------------------------- MODULE LiveScores -----------------------------
(***************************************************************************)
(* The readiness scores of app/services/live_scores.py and the recovery    *)
(* risk of app/services/recovery.py: what a score earns for its evidence.  *)
(*                                                                         *)
(* Evidence comes in levels, of which a higher one is better news: level   *)
(* bounds say how many the code tells apart.  Percentages keep the code's  *)
(* rounding, to the nearest number and to the even one in the middle.      *)
(***************************************************************************)
EXTENDS Integers, FiniteSets

CONSTANTS
    Rates,          \* percentages of presses that worked
    Domains,        \* number of areas of the agency
    MaxPressure,    \* drift points that active plans may take off
    MaxChanges      \* pieces of evidence that change

VARIABLES
    evidence,       \* the level of each fact
    changes

vars == <<evidence, changes>>

Facts ==
    {"success", "speed", "issues", "menus", "screens", "buttons",
     "backup", "offsite", "copies", "storage", "attempts", "last", "restore", "claimed", "tested",
     "active", "known", "manual", "recent",
     "memories", "ai", "search", "outcomes", "lessons", "predictions", "saved",
     "sources", "creators", "posts", "chatters",
     "checks", "relief"}

Levels(f) ==
    CASE f = "success" -> Rates
      [] f \in {"active", "known"} -> 0 .. Domains
      [] f \in {"speed", "issues", "backup"} -> 0 .. 3
      [] f = "attempts" -> 0 .. 4
      [] f = "restore" -> 0 .. 6
      [] f \in {"copies", "screens", "manual", "recent", "saved", "sources", "creators"} -> 0 .. 2
      [] f = "checks" -> 0 .. 5
      [] f = "relief" -> {0, MaxPressure}
      [] OTHER -> 0 .. 1

\* The last restore test: failed, none, nothing to restore, incomplete (or passed
\* with no restore in its row), verified without a checksum, verified, passed
\* with a full restore.  The summary of a test that passed may claim a restored
\* database, whatever its row says.
Incomplete == 3
Restored == 6

\* Facts that depend on each other: a known area may be active, a failed
\* attempt is a recent one, copies are of backups, a recent backup outside of
\* the platform is one of the copies, a first restore test is recent, and what
\* claims a database is a test that passed.
Possible(e) ==
    /\ e["active"] <= e["known"]
    /\ e["last"] = 0 => e["attempts"] < 4
    /\ e["backup"] = 0 => e["copies"] = 0 /\ e["offsite"] = 0
    /\ e["backup"] >= 2 /\ e["offsite"] = 1 => e["copies"] >= 1
    /\ e["restore"] = 1 => e["tested"] = 1
    /\ e["claimed"] = 1 => e["restore"] \in {Incomplete, Restored}
    /\ e["sources"] >= 1 => e["creators"] = 2

Least(f) == CHOOSE l \in Levels(f) : \A k \in Levels(f) : l <= k

Most(f) == CHOOSE l \in Levels(f) : \A k \in Levels(f) : k <= l

-----------------------------------------------------------------------------
(* Arithmetic.                                                             *)

\* round(a / b) of Python for natural a and positive b.
Rounded(a, b) ==
    LET q == a \div b
        r == 2 * (a % b)
    IN IF r > b \/ (r = b /\ q % 2 = 1) THEN q + 1 ELSE q

\* _clamp, and the sums of the risk
Clamped(n) == IF n < 0 THEN 0 ELSE IF n > 100 THEN 100 ELSE n

\* _earned: a share of the weight
Earned(weight, part, whole) == Rounded(weight * part, whole)

\* _apply_drift_pressure
Pressed(score, e) ==
    LET points == MaxPressure - e["relief"]
    IN Clamped(score - (IF points > 10 THEN 10 ELSE points))

-----------------------------------------------------------------------------
(* The scores.                                                             *)

\* _score_recovery_safety: a backup that counts is encrypted and verified, and
\* a restore counts by its row alone.
RecoverySafety(e) ==
    Pressed(<<0, 35, 43, 50>>[e["backup"] + 1] + <<0, 0, 0, 0, 15, 15, 25>>[e["restore"] + 1]
            + <<0, 7, 15>>[e["copies"] + 1] + 10 * e["storage"], e)

\* A variant of Reliability: the slowest answers are taken for none.
ReliabilityOfSilence(e) ==
    2 * Earned(25, e["success"], 100) + <<20, 9, 16, 20>>[e["speed"] + 1]
    + <<0, 5, 12, 20>>[e["issues"] + 1] + (IF e["menus"] = 1 THEN 10 ELSE 5)

\* _score_reliability
Reliability(e) ==
    2 * Earned(25, e["success"], 100) + <<2, 9, 16, 20>>[e["speed"] + 1]
    + <<0, 5, 12, 20>>[e["issues"] + 1] + (IF e["menus"] = 1 THEN 10 ELSE 5)

\* _score_agency_visibility: no area is connected without being active.
AgencyVisibility(e) ==
    Pressed(Earned(30, e["active"], Domains) + Earned(25, e["active"], Domains)
            + <<0, 8, 15>>[e["manual"] + 1] + <<0, 8, 15>>[e["recent"] + 1]
            + Earned(15, e["known"], Domains), e)

\* _score_intelligence
Intelligence(e) ==
    15 + (IF e["memories"] = 1 THEN 15 ELSE 7) + 15 * e["ai"] + 15 * e["search"]
    + (IF e["outcomes"] = 1 THEN 15 ELSE 8) + (IF e["lessons"] = 1 THEN 10 ELSE 3)
    + (IF e["predictions"] = 1 THEN 10 ELSE 4) + <<0, 3, 5>>[e["saved"] + 1]

\* _score_team_readiness: reliability counts twice, once by thresholds.
TeamReadiness(e) ==
    LET r == Reliability(e)
    IN Pressed(Earned(25, r, 100) + <<5, 12, 20>>[e["screens"] + 1] + 15 + 10 + 15
               + (IF r >= 80 /\ e["buttons"] = 1 THEN 15 ELSE IF r >= 60 THEN 9 ELSE 4), e)

\* _score_revenue_intelligence: fans and whales have no table yet.
RevenueIntelligence(e) ==
    <<0, 8, 20>>[e["sources"] + 1] + <<0, 6, 15>>[e["creators"] + 1]
    + 15 * e["posts"] + 10 * e["chatters"]

\* _score_agency_os
AgencyOS(e) ==
    Pressed(Earned(20, e["checks"], 5) + Earned(15, RecoverySafety(e), 100)
            + Earned(15, Reliability(e), 100) + Earned(20, Intelligence(e), 100)
            + Earned(15, AgencyVisibility(e), 100) + Earned(15, RevenueIntelligence(e), 100), e)

Scores(e) ==
    <<RecoverySafety(e), Reliability(e), AgencyVisibility(e), Intelligence(e), TeamReadiness(e),
      RevenueIntelligence(e), AgencyOS(e)>>

-----------------------------------------------------------------------------
(* The risk of losing data.                                                *)

\* The levels of attempts are the failures of the last days, counted down.
Failures(e) == 4 - e["attempts"]

\* recovery_risk_assessment: a test that had nothing to restore is taken for
\* better news than no test.
RecoveryRisk(e) ==
    Clamped(<<70, 30, 15, 0>>[e["backup"] + 1]
            + (IF e["last"] = 0 THEN 10 ELSE 0) + 5 * Failures(e)
            + <<25, 15, 0>>[e["copies"] + 1] + (IF e["storage"] = 0 THEN 10 ELSE 0)
            + (IF e["claimed"] = 1 THEN 0 ELSE <<25, 25, 20, 15, 15, 10, 0>>[e["restore"] + 1])
            + (IF e["restore"] # 1 /\ e["tested"] = 0 THEN 15 ELSE 0))

\* _canonical_recovery_status, the storage targets being available
RecoveryStatus(e) ==
    IF e["storage"] = 0 THEN "critical"
    ELSE IF e["backup"] < 3 \/ e["offsite"] = 0 \/ Failures(e) >= 2 \/ e["restore"] = 0
    THEN "needs_attention"
    ELSE IF e["restore"] = Restored THEN "healthy" ELSE "needs_review"

-----------------------------------------------------------------------------
(* Evidence comes and goes.                                                *)

Init ==
    /\ evidence \in {[f \in Facts |-> Least(f)], [f \in Facts |-> Most(f)]}
    /\ changes = 0

Learn(f, l) ==
    /\ changes < MaxChanges
    /\ l # evidence[f]
    /\ evidence' = [evidence EXCEPT ![f] = l]
    /\ Possible(evidence')
    /\ changes' = changes + 1

Next == \E f \in Facts : \E l \in Levels(f) : Learn(f, l)

Spec == Init /\ [][Next]_vars

-----------------------------------------------------------------------------
(* Properties.                                                             *)

\* Type correctness: levels of facts that fit together, scores within bounds.
TypeOK ==
    /\ \A f \in Facts : evidence[f] \in Levels(f)
    /\ Possible(evidence)
    /\ changes \in 0 .. MaxChanges
    /\ \A i \in 1 .. 7 : Scores(evidence)[i] \in 0 .. 100

\* Better evidence lowers no score and does not raise the risk: thresholds,
\* rounding, drift and the scores made from scores agree on what is better.
BetterEvidenceHelps ==
    [][evidence' # evidence /\ (\A f \in Facts : evidence'[f] >= evidence[f])
       => /\ \A i \in 1 .. 7 : Scores(evidence')[i] >= Scores(evidence)[i]
          /\ RecoveryRisk(evidence') <= RecoveryRisk(evidence)]_vars

\* The recovery the status calls healthy is not one whose risk is called high
\* or critical (_risk_level): two reports that are computed separately.
HealthyIsNoHighRisk == RecoveryStatus(evidence) = "healthy" => RecoveryRisk(evidence) <= 49

\* The scores agree: better evidence lowers none and raises no risk, and the
\* status and the risk of the recovery, computed apart, do not contradict.
ScoresAgree == BetterEvidenceHelps /\ []HealthyIsNoHighRisk
=============================================================================
