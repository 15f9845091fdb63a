-------------------------- MODULE AlertEvaluation --------------------------
(***************************************************************************)
(* The alert policy of modules/alerts/alert-evaluation.ts: what one        *)
(* reading of a meter makes the sweep remember, and what it makes it send. *)
(* The functions are pure, so they are operators here; AlertFeed and       *)
(* BalanceSweep are the state machines that apply them.                    *)
(*                                                                         *)
(* Money is an integer number of taka: the policy only compares amounts.   *)
(***************************************************************************)
EXTENDS Integers, Sequences

CONSTANTS
    Token,     \* the recharge tokens the portal may list
    NoToken    \* null: no successful recharge has ever been seen

ASSUME NoTokenAssumption == NoToken \notin Token

Severity == {"OK", "LOW", "DEPLETED"}

\* Mutant: LOW and OK rank alike.
SeverityRankFlat(severity) == IF severity = "DEPLETED" THEN 1 ELSE 0

SeverityRank(severity) ==
    CASE severity = "OK"       -> 0
      [] severity = "LOW"      -> 1
      [] severity = "DEPLETED" -> 2

\* The kinds decided from the balance reading, and the one decided from the
\* usage samples.
BalanceAlert == {"RECHARGE_DETECTED", "LOW_BALANCE", "BALANCE_DEPLETED"}

AlertKind == BalanceAlert \union {"USAGE_ANOMALY"}

RechargeStatus == {"success", "pending", "failed"}

Recharge == [token : Token, rechargedDate : Nat, rechargeStatus : RechargeStatus]

\* What one scrape of the portal yields. `at` is the instant the balance
\* describes; the policy itself does not look at it.
Reading == [balance : Int, at : Nat \ {0}, recharges : Seq(Recharge)]

INITIAL_STATE == [severity |-> "OK", lastRechargeToken |-> NoToken]

SeverityFor(balance, threshold) ==
    IF balance <= 0 THEN "DEPLETED"
    ELSE IF balance < threshold THEN "LOW"
    ELSE "OK"

(***************************************************************************)
(* The scan keeps a row only when it is strictly newer than the one held,  *)
(* so among equal dates the first row wins.                                *)
(***************************************************************************)
IsLatestRecharge(recharges, i) ==
    /\ recharges[i].rechargeStatus = "success"
    /\ \A j \in DOMAIN recharges :
          recharges[j].rechargeStatus = "success" =>
             \/ recharges[j].rechargedDate < recharges[i].rechargedDate
             \/ recharges[j].rechargedDate = recharges[i].rechargedDate /\ i <= j

LatestRechargeToken(recharges) ==
    LET latest == {i \in DOMAIN recharges : IsLatestRecharge(recharges, i)}
    IN  IF latest = {} THEN NoToken
        ELSE recharges[CHOOSE i \in latest : TRUE].token

(***************************************************************************)
(* A user's settings are a record with any of these fields missing: the    *)
(* jsonb column is null, or partial, until the user saves them.            *)
(***************************************************************************)
DEFAULT_USER_SETTINGS ==
    [pushEnabled         |-> TRUE,
     lowBalanceAlerts    |-> TRUE,
     lowBalanceThreshold |-> 100,
     rechargeAlerts      |-> TRUE,
     usageAnomalyAlerts  |-> TRUE]

Resolve(settings) ==
    [name \in DOMAIN DEFAULT_USER_SETTINGS |->
        IF name \in DOMAIN settings
        THEN settings[name] ELSE DEFAULT_USER_SETTINGS[name]]

\* Mutant: the very first recharge ever seen is news.
IsNewRechargeAtFirst(newest, previous) ==
    newest # NoToken /\ newest # previous.lastRechargeToken

\* A first sight of a meter is not a recharge: its token is only remembered.
IsNewRecharge(newest, previous) ==
    /\ newest # NoToken
    /\ previous.lastRechargeToken # NoToken
    /\ newest # previous.lastRechargeToken

\* Mutant: any change of severity is reported, an improvement too.
WorsenedOrBetter(severity, previous) == severity # previous.severity

\* Rule 1: only a severity worse than the recorded one is reported.
Worsened(severity, previous) ==
    SeverityRank(severity) > SeverityRank(previous.severity)

Evaluate(previous, reading, rawSettings) ==
    LET settings == Resolve(rawSettings)
        severity == SeverityFor(reading.balance, settings["lowBalanceThreshold"])
        newest   == LatestRechargeToken(reading.recharges)
    IN  [severity          |-> severity,
         lastRechargeToken |->
             IF newest # NoToken THEN newest ELSE previous.lastRechargeToken,
         alerts |->
             {kind \in BalanceAlert :
                 /\ settings["pushEnabled"]
                 /\ \/ /\ kind = "RECHARGE_DETECTED"
                       /\ IsNewRecharge(newest, previous)
                       /\ settings["rechargeAlerts"]
                    \/ /\ kind = "BALANCE_DEPLETED"
                       /\ severity = "DEPLETED" /\ Worsened(severity, previous)
                       /\ settings["lowBalanceAlerts"]
                    \/ /\ kind = "LOW_BALANCE"
                       /\ severity = "LOW" /\ Worsened(severity, previous)
                       /\ settings["lowBalanceAlerts"]}]

\* The alerts are sent one by one, the recharge before the balance.
IsFirstAlert(kind, alerts) ==
    /\ kind \in alerts
    /\ kind = "RECHARGE_DETECTED" \/ "RECHARGE_DETECTED" \notin alerts

=============================================================================
