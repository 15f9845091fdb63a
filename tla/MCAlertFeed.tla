---------------------------- MODULE MCAlertFeed ----------------------------
(***************************************************************************)
(* A small instance of AlertFeed: readings around both boundaries of       *)
(* severityFor, and recharge lists that are empty, out of order, tied on   *)
(* their date, or headed by a row that did not go through; settings that   *)
(* are absent, partial, muted, or set another threshold.                   *)
(***************************************************************************)
EXTENDS AlertFeed

CONSTANTS m1, t1, t2

Row(token, date, status) ==
    [token |-> token, rechargedDate |-> date, rechargeStatus |-> status]

Histories ==
    {<< >>,
     <<Row(t1, 1, "success")>>,
     <<Row(t1, 1, "success"), Row(t2, 2, "pending")>>,
     <<Row(t1, 1, "success"), Row(t2, 2, "success"), Row(t1, 2, "success")>>}

MCReadings ==
    {[balance |-> balance, at |-> 1, recharges |-> history] :
        balance \in {0, 1, 50, 99, 100}, history \in Histories}

MCSettings ==
    {[name \in {} |-> TRUE],
     [pushEnabled |-> FALSE],
     [lowBalanceAlerts |-> FALSE],
     [rechargeAlerts |-> FALSE, lowBalanceThreshold |-> 50]}

MCNoState == [severity |-> "OK", lastRechargeToken |-> NoToken,
              lastBalanceAt |-> 0, lastAnomalyOn |-> 0]
=============================================================================
