----------------------------- MODULE AlertFeed -----------------------------
(***************************************************************************)
(* What the balance sweep promises, with no instances, passes, locks or    *)
(* batches: each meter has a recorded state, each accepted reading is      *)
(* judged against that state and replaces it in one step, and the alerts   *)
(* this makes due are sent one by one or lost, but never made due again.   *)
(* BalanceSweep implements this specification while its lock excludes.     *)
(***************************************************************************)
EXTENDS AlertEvaluation

CONSTANTS Meter, Readings, SettingsChoices, MaxDay, NoState

VARIABLES
    state,  \* what is remembered of each meter
    owed    \* the alerts decided and not yet sent

vars == <<state, owed>>

\* The fields of meter_alert_state that decide what is sent; days are 0
\* (null) to MaxDay, instants 0 (null) or later.
AlertState == [severity          : Severity,
               lastRechargeToken : Token \union {NoToken},
               lastBalanceAt     : Nat,
               lastAnomalyOn     : 0..MaxDay]

ASSUME FeedAssumption ==
    /\ Readings \subseteq Reading
    /\ MaxDay \in Nat
    /\ NoState \in AlertState

\* Type invariant: a meter's state is one a meter_alert_state row may hold,
\* and what is owed is a set of alert kinds.
TypeOK ==
    /\ state \in [Meter -> AlertState]
    /\ owed \in [Meter -> SUBSET AlertKind]

Init ==
    /\ state = [m \in Meter |-> NoState]
    /\ owed = [m \in Meter |-> {}]

\* Mutant: with push muted, the reading is not taken in.
AfterUnlessMuted(known, reading, rawSettings) ==
    LET evaluation == Evaluate(known, reading, rawSettings)
    IN  IF ~Resolve(rawSettings)["pushEnabled"] THEN known
        ELSE [known EXCEPT !.severity          = evaluation.severity,
                           !.lastRechargeToken = evaluation.lastRechargeToken,
                           !.lastBalanceAt     = reading.at]

After(known, reading, rawSettings) ==
    LET evaluation == Evaluate(known, reading, rawSettings)
    IN  [known EXCEPT !.severity          = evaluation.severity,
                      !.lastRechargeToken = evaluation.lastRechargeToken,
                      !.lastBalanceAt     = reading.at]

Observe(m) ==
    /\ owed[m] = {}
    /\ \E reading \in Readings, choice \in SettingsChoices :
          /\ state' = [state EXCEPT ![m] = After(@, reading, choice)]
          /\ owed' = [owed EXCEPT ![m] =
                         Evaluate(state[m], reading, choice).alerts]

Announce(m) ==
    /\ \E kind \in owed[m] :
          /\ IsFirstAlert(kind, owed[m])
          /\ owed' = [owed EXCEPT ![m] = @ \ {kind}]
    /\ UNCHANGED state

\* A failed send, or a process that dies.
Lose(lost) ==
    /\ owed' = [m \in Meter |-> IF m \in lost THEN {} ELSE owed[m]]
    /\ UNCHANGED state

\* Mutant: the stamp is the day after the one that was observed.
FlagDayAfter(m) ==
    /\ owed[m] = {}
    /\ \E day \in 1..MaxDay :
          /\ day > state[m].lastAnomalyOn
          /\ state' = [state EXCEPT ![m].lastAnomalyOn = day + 1]
    /\ owed' = [owed EXCEPT ![m] = {"USAGE_ANOMALY"}]

FlagDay(m) ==
    /\ owed[m] = {}
    /\ \E day \in 1..MaxDay :
          /\ day > state[m].lastAnomalyOn
          /\ state' = [state EXCEPT ![m].lastAnomalyOn = day]
    /\ owed' = [owed EXCEPT ![m] = {"USAGE_ANOMALY"}]

\* The meter is deleted.
Forget(m) ==
    /\ state' = [state EXCEPT ![m] = NoState]
    /\ UNCHANGED owed

Next ==
    \/ \E m \in Meter : Observe(m) \/ Announce(m) \/ FlagDay(m) \/ Forget(m)
    \/ \E lost \in SUBSET Meter : Lose(lost)

Spec == Init /\ [][Next]_vars

-----------------------------------------------------------------------------
SameThreshold(choice, other) ==
    Resolve(choice)["lowBalanceThreshold"] = Resolve(other)["lowBalanceThreshold"]

(***************************************************************************)
(* A reading that has been taken in says nothing the second time, whatever *)
(* the user switched on, off or back on in between (rule 2 of evaluate()): *)
(* only another threshold can make the same balance newsworthy.            *)
(***************************************************************************)
SeenReadingIsSilent ==
    \A m \in Meter, reading \in Readings :
       \A first, second \in SettingsChoices :
          SameThreshold(first, second) =>
             Evaluate(After(state[m], reading, first), reading, second).alerts = {}

(***************************************************************************)
(* Recovery re-arms: once a reading was OK, the next low or empty one is   *)
(* announced to a user who has balance alerts on (rule 1 of evaluate()),   *)
(* and nothing but a worsening is. The statement compares two readings in  *)
(* a row.                                                                  *)
(***************************************************************************)
RecoveryRearms ==
    \A m \in Meter, recovered, later \in Readings :
       \A choice \in SettingsChoices :
          LET resolved == Resolve(choice)
              okState  == After(state[m], recovered, choice)
              next     == Evaluate(okState, later, choice)
          IN  ( /\ okState.severity = "OK"
                /\ resolved["pushEnabled"] /\ resolved["lowBalanceAlerts"] ) =>
                 (next.severity # "OK" <=>
                     next.alerts \intersect {"LOW_BALANCE", "BALANCE_DEPLETED"} # {})

(***************************************************************************)
(* A top-up is announced at most once: when the history of recharges only  *)
(* grows, a token that was recorded is never the "new" one of a later      *)
(* reading of the same history, nor is the first one ever seen.            *)
(***************************************************************************)
RechargeAnnouncedOnce ==
    \A m \in Meter, reading, later \in Readings :
       \A choice, other \in SettingsChoices :
          LET token == LatestRechargeToken(reading.recharges)
              known == After(state[m], reading, choice)
          IN  /\ state[m].lastRechargeToken = NoToken =>
                    "RECHARGE_DETECTED" \notin
                       Evaluate(state[m], reading, choice).alerts
              /\ (token # NoToken /\ LatestRechargeToken(later.recharges) = token) =>
                    "RECHARGE_DETECTED" \notin Evaluate(known, later, other).alerts

=============================================================================
