-------------------------- MODULE AlertFeed_proofs --------------------------
(***************************************************************************)
(* Proofs about AlertFeed, and so about the alert policy it applies: for   *)
(* any meters, readings, saved settings and days.                          *)
(***************************************************************************)
EXTENDS AlertFeed, TLAPS

(***************************************************************************)
(* The policy.                                                             *)
(***************************************************************************)
LEMMA SeverityType ==
    ASSUME NEW balance, NEW threshold
    PROVE  SeverityFor(balance, threshold) \in Severity
  BY DEF SeverityFor, Severity

LEMMA RankType ==
    ASSUME NEW severity \in Severity
    PROVE  /\ SeverityRank(severity) \in 0..2
           /\ SeverityRank(severity) > SeverityRank("OK") <=> severity # "OK"
  BY DEF SeverityRank, Severity

LEMMA LatestTokenType ==
    ASSUME NEW reading \in Reading
    PROVE  LatestRechargeToken(reading.recharges) \in Token \union {NoToken}
<1> DEFINE recharges == reading.recharges
           latest == {i \in DOMAIN recharges : IsLatestRecharge(recharges, i)}
<1>1. recharges \in Seq(Recharge)
  BY DEF Reading
<1>2. CASE latest = {}
  BY <1>2 DEF LatestRechargeToken
<1>3. CASE latest # {}
  <2> DEFINE i == CHOOSE k \in latest : TRUE
  <2>1. i \in DOMAIN recharges
    BY <1>3
  <2>2. LatestRechargeToken(recharges) = recharges[i].token
    BY <1>3 DEF LatestRechargeToken
  <2> HIDE DEF i
  <2>3. recharges[i] \in Recharge
    BY <1>1, <2>1
  <2> QED BY <2>2, <2>3 DEF Recharge
<1> QED BY <1>2, <1>3

\* What a reading makes of the severity and the token, field by field.
LEMMA Evaluated ==
    ASSUME NEW known, NEW reading, NEW choice
    PROVE  /\ Evaluate(known, reading, choice).severity =
                 SeverityFor(reading.balance, Resolve(choice)["lowBalanceThreshold"])
           /\ Evaluate(known, reading, choice).lastRechargeToken =
                 IF LatestRechargeToken(reading.recharges) # NoToken
                 THEN LatestRechargeToken(reading.recharges) ELSE known.lastRechargeToken
           /\ Evaluate(known, reading, choice).alerts \subseteq BalanceAlert
  BY DEF Evaluate

\* Which alert is due, each with its rule.
LEMMA AlertsDue ==
    ASSUME NEW known, NEW reading, NEW choice
    PROVE  LET settings == Resolve(choice)
               severity == SeverityFor(reading.balance, settings["lowBalanceThreshold"])
               alerts   == Evaluate(known, reading, choice).alerts
           IN  /\ "RECHARGE_DETECTED" \in alerts =>
                     IsNewRecharge(LatestRechargeToken(reading.recharges), known)
               /\ "LOW_BALANCE" \in alerts <=>
                     /\ settings["pushEnabled"] /\ settings["lowBalanceAlerts"]
                     /\ severity = "LOW" /\ Worsened(severity, known)
               /\ "BALANCE_DEPLETED" \in alerts <=>
                     /\ settings["pushEnabled"] /\ settings["lowBalanceAlerts"]
                     /\ severity = "DEPLETED" /\ Worsened(severity, known)
  BY DEF Evaluate, BalanceAlert

LEMMA AfterReading ==
    ASSUME NEW known \in AlertState, NEW reading, NEW choice
    PROVE  /\ After(known, reading, choice).severity =
                 Evaluate(known, reading, choice).severity
           /\ After(known, reading, choice).lastRechargeToken =
                 Evaluate(known, reading, choice).lastRechargeToken
           /\ After(known, reading, choice) =
                 [severity          |-> Evaluate(known, reading, choice).severity,
                  lastRechargeToken |-> Evaluate(known, reading, choice).lastRechargeToken,
                  lastBalanceAt     |-> reading.at,
                  lastAnomalyOn     |-> known.lastAnomalyOn]
<1> DEFINE severity == Evaluate(known, reading, choice).severity
           token    == Evaluate(known, reading, choice).lastRechargeToken
<1>1. After(known, reading, choice) =
         [known EXCEPT !.severity = severity, !.lastRechargeToken = token,
                       !.lastBalanceAt = reading.at]
  BY DEF After
<1> HIDE DEF severity, token
<1>2. /\ After(known, reading, choice).severity = severity
      /\ After(known, reading, choice).lastRechargeToken = token
      /\ After(known, reading, choice) =
            [severity |-> severity, lastRechargeToken |-> token,
             lastBalanceAt |-> reading.at, lastAnomalyOn |-> known.lastAnomalyOn]
  BY <1>1 DEF AlertState
<1> QED BY <1>2 DEF severity, token

LEMMA TakenIn ==
    ASSUME NEW known \in AlertState, NEW reading, NEW choice
    PROVE  /\ After(known, reading, choice).severity =
                 SeverityFor(reading.balance, Resolve(choice)["lowBalanceThreshold"])
           /\ After(known, reading, choice).lastRechargeToken =
                 IF LatestRechargeToken(reading.recharges) # NoToken
                 THEN LatestRechargeToken(reading.recharges) ELSE known.lastRechargeToken
<1>1. /\ After(known, reading, choice).severity =
            Evaluate(known, reading, choice).severity
      /\ After(known, reading, choice).lastRechargeToken =
            Evaluate(known, reading, choice).lastRechargeToken
  BY AfterReading
<1>2. /\ Evaluate(known, reading, choice).severity =
            SeverityFor(reading.balance, Resolve(choice)["lowBalanceThreshold"])
      /\ Evaluate(known, reading, choice).lastRechargeToken =
            IF LatestRechargeToken(reading.recharges) # NoToken
            THEN LatestRechargeToken(reading.recharges) ELSE known.lastRechargeToken
  BY Evaluated
<1> QED BY <1>1, <1>2, Zenon

LEMMA AfterType ==
    ASSUME NEW known \in AlertState, NEW reading \in Readings, NEW choice
    PROVE  After(known, reading, choice) \in AlertState
<1> DEFINE severity == Evaluate(known, reading, choice).severity
           token    == Evaluate(known, reading, choice).lastRechargeToken
<1>1. reading \in Reading
  BY FeedAssumption
<1>2. severity \in Severity
  BY Evaluated, SeverityType
<1>3. token \in Token \union {NoToken}
  <2>1. LatestRechargeToken(reading.recharges) \in Token \union {NoToken}
    BY <1>1, LatestTokenType
  <2>2. known.lastRechargeToken \in Token \union {NoToken}
    BY DEF AlertState
  <2> QED BY <2>1, <2>2, Evaluated, Zenon
<1>4. reading.at \in Nat /\ known.lastAnomalyOn \in 0..MaxDay
  BY <1>1 DEF Reading, AlertState
<1>5. After(known, reading, choice) =
         [severity |-> severity, lastRechargeToken |-> token,
          lastBalanceAt |-> reading.at, lastAnomalyOn |-> known.lastAnomalyOn]
  BY AfterReading
<1> HIDE DEF severity, token
<1> QED BY <1>2, <1>3, <1>4, <1>5 DEF AlertState

-----------------------------------------------------------------------------
(***************************************************************************)
(* Type correctness.                                                       *)
(***************************************************************************)
LEMMA StepTypeOK == TypeOK /\ [Next]_vars => TypeOK'
<1> SUFFICES ASSUME TypeOK, [Next]_vars PROVE TypeOK'
  OBVIOUS
<1> USE DEF TypeOK
<1>1. CASE UNCHANGED vars
  BY <1>1 DEF vars
<1>2. ASSUME NEW m \in Meter, Observe(m) PROVE TypeOK'
  <2>1. PICK reading \in Readings, choice \in SettingsChoices :
           /\ state' = [state EXCEPT ![m] = After(state[m], reading, choice)]
           /\ owed' = [owed EXCEPT ![m] = Evaluate(state[m], reading, choice).alerts]
    BY <1>2 DEF Observe
  <2>2. After(state[m], reading, choice) \in AlertState
    BY AfterType
  <2>3. Evaluate(state[m], reading, choice).alerts \subseteq AlertKind
    BY Evaluated DEF AlertKind
  <2> QED BY <2>1, <2>2, <2>3
<1>3. ASSUME NEW m \in Meter, Announce(m) PROVE TypeOK'
  BY <1>3 DEF Announce
<1>4. ASSUME NEW m \in Meter, FlagDay(m) PROVE TypeOK'
  <2>1. PICK day \in 1..MaxDay : state' = [state EXCEPT ![m].lastAnomalyOn = day]
    BY <1>4 DEF FlagDay
  <2>2. day \in 0..MaxDay
    BY FeedAssumption
  <2>3. [state[m] EXCEPT !.lastAnomalyOn = day] \in AlertState
    BY <2>2 DEF AlertState
  <2>4. state' \in [Meter -> AlertState]
    BY <2>1, <2>3
  <2>5. owed' \in [Meter -> SUBSET AlertKind]
    BY <1>4 DEF FlagDay, AlertKind
  <2> QED BY <2>4, <2>5
<1>5. ASSUME NEW m \in Meter, Forget(m) PROVE TypeOK'
  BY <1>5, FeedAssumption DEF Forget
<1>6. ASSUME NEW lost \in SUBSET Meter, Lose(lost) PROVE TypeOK'
  BY <1>6 DEF Lose
<1> QED BY <1>1, <1>2, <1>3, <1>4, <1>5, <1>6, Zenon DEF Next

\* A meter's state is always one its row may hold.
THEOREM FeedTypeCorrect == Spec => []TypeOK
<1>1. Init => TypeOK
  BY FeedAssumption DEF Init, TypeOK
<1> QED BY <1>1, StepTypeOK, PTL DEF Spec

-----------------------------------------------------------------------------
(***************************************************************************)
(* Rules 1 and 2 of evaluate().                                            *)
(***************************************************************************)

\* A reading that was taken in is news to nobody who keeps the threshold,
\* whatever else is switched on or off before it is read again.
THEOREM SeenReadingsAreSilent == Spec => []SeenReadingIsSilent
<1>1. ASSUME TypeOK, NEW m \in Meter, NEW reading \in Readings,
             NEW first \in SettingsChoices, NEW second \in SettingsChoices,
             SameThreshold(first, second)
      PROVE  Evaluate(After(state[m], reading, first), reading, second).alerts = {}
  <2> DEFINE known    == After(state[m], reading, first)
             alerts   == Evaluate(known, reading, second).alerts
             newest   == LatestRechargeToken(reading.recharges)
             severity == SeverityFor(reading.balance, Resolve(second)["lowBalanceThreshold"])
  <2>1. state[m] \in AlertState
    BY <1>1 DEF TypeOK
  <2>2. known.severity = severity
    <3>1. known.severity =
             SeverityFor(reading.balance, Resolve(first)["lowBalanceThreshold"])
      BY <2>1, TakenIn
    <3> HIDE DEF known
    <3> QED BY <1>1, <3>1, Zenon DEF SameThreshold
  <2>3. known.lastRechargeToken = IF newest # NoToken THEN newest ELSE state[m].lastRechargeToken
    BY <2>1, TakenIn
  <2>4. ~Worsened(severity, known)
    <3>1. SeverityRank(severity) \in 0..2
      BY SeverityType, RankType
    <3>2. ~(SeverityRank(severity) > SeverityRank(severity))
      BY <3>1
    <3> QED BY <2>2, <3>2, Zenon DEF Worsened
  <2>5. ~IsNewRecharge(newest, known)
    BY <2>3, Zenon DEF IsNewRecharge
  <2>6. alerts \subseteq BalanceAlert
    BY Evaluated
  <2>7. "RECHARGE_DETECTED" \notin alerts /\ "LOW_BALANCE" \notin alerts
          /\ "BALANCE_DEPLETED" \notin alerts
    BY <2>4, <2>5, AlertsDue, Zenon
  <2> HIDE DEF alerts
  <2> QED BY <2>6, <2>7 DEF BalanceAlert, alerts
<1>2. TypeOK => SeenReadingIsSilent
  BY <1>1, Zenon DEF SeenReadingIsSilent
<1> QED BY <1>2, FeedTypeCorrect, PTL

\* After a reading that was OK the next low or empty one is announced, and only
\* such a one, to a user who has balance alerts on.
THEOREM RecoveriesRearm == Spec => []RecoveryRearms
<1>1. ASSUME TypeOK, NEW m \in Meter, NEW recovered \in Readings, NEW later \in Readings,
             NEW choice \in SettingsChoices,
             After(state[m], recovered, choice).severity = "OK",
             Resolve(choice)["pushEnabled"], Resolve(choice)["lowBalanceAlerts"]
      PROVE  Evaluate(After(state[m], recovered, choice), later, choice).severity # "OK" <=>
                Evaluate(After(state[m], recovered, choice), later, choice).alerts
                   \intersect {"LOW_BALANCE", "BALANCE_DEPLETED"} # {}
  <2> DEFINE okState  == After(state[m], recovered, choice)
             next     == Evaluate(okState, later, choice)
             alerts   == next.alerts
             severity == SeverityFor(later.balance, Resolve(choice)["lowBalanceThreshold"])
  <2>1. next.severity = severity
    BY Evaluated, Zenon
  <2>2. severity \in Severity
    BY SeverityType
  <2>3. Worsened(severity, okState) <=> severity # "OK"
    <3>1. SeverityRank(severity) > SeverityRank("OK") <=> severity # "OK"
      BY <2>2, RankType
    <3> QED BY <1>1, <3>1, Zenon DEF Worsened
  <2>4. "LOW_BALANCE" \in alerts <=> severity = "LOW"
    <3>1. severity = "LOW" => severity # "OK"
      OBVIOUS
    <3> HIDE DEF severity
    <3>2. "LOW_BALANCE" \in alerts <=>
             /\ Resolve(choice)["pushEnabled"] /\ Resolve(choice)["lowBalanceAlerts"]
             /\ severity = "LOW" /\ Worsened(severity, okState)
      BY AlertsDue, Zenon DEF severity
    <3> QED BY <1>1, <2>3, <3>1, <3>2, Zenon
  <2>5. "BALANCE_DEPLETED" \in alerts <=> severity = "DEPLETED"
    <3>1. severity = "DEPLETED" => severity # "OK"
      OBVIOUS
    <3> HIDE DEF severity
    <3>2. "BALANCE_DEPLETED" \in alerts <=>
             /\ Resolve(choice)["pushEnabled"] /\ Resolve(choice)["lowBalanceAlerts"]
             /\ severity = "DEPLETED" /\ Worsened(severity, okState)
      BY AlertsDue, Zenon DEF severity
    <3> QED BY <1>1, <2>3, <3>1, <3>2, Zenon
  <2>6. severity # "OK" <=> severity = "LOW" \/ severity = "DEPLETED"
    <3> HIDE DEF severity
    <3> QED BY <2>2 DEF Severity
  <2>7. alerts \intersect {"LOW_BALANCE", "BALANCE_DEPLETED"} # {} <=>
           "LOW_BALANCE" \in alerts \/ "BALANCE_DEPLETED" \in alerts
    <3> HIDE DEF alerts
    <3> QED OBVIOUS
  <2> QED BY <2>1, <2>4, <2>5, <2>6, <2>7, Zenon
<1>2. TypeOK => RecoveryRearms
  BY <1>1, Zenon DEF RecoveryRearms
<1> QED BY <1>2, FeedTypeCorrect, PTL

\* A top-up is announced once: not on the first sight of a meter, and not again
\* while the newest successful row of the history stays the same.
THEOREM RechargesAnnouncedOnce == Spec => []RechargeAnnouncedOnce
<1>1. ASSUME NEW known, known.lastRechargeToken = NoToken, NEW reading, NEW choice
      PROVE  "RECHARGE_DETECTED" \notin Evaluate(known, reading, choice).alerts
  BY <1>1, AlertsDue, Zenon DEF IsNewRecharge
<1>2. ASSUME TypeOK, NEW m \in Meter, NEW reading \in Readings, NEW later \in Readings,
             NEW choice \in SettingsChoices, NEW other \in SettingsChoices,
             LatestRechargeToken(reading.recharges) # NoToken,
             LatestRechargeToken(later.recharges) = LatestRechargeToken(reading.recharges)
      PROVE  "RECHARGE_DETECTED" \notin
                Evaluate(After(state[m], reading, choice), later, other).alerts
  <2> DEFINE known == After(state[m], reading, choice)
  <2>1. state[m] \in AlertState
    BY <1>2 DEF TypeOK
  <2>2. known.lastRechargeToken = LatestRechargeToken(reading.recharges)
    <3>1. known.lastRechargeToken =
             IF LatestRechargeToken(reading.recharges) # NoToken
             THEN LatestRechargeToken(reading.recharges) ELSE state[m].lastRechargeToken
      BY <2>1, TakenIn
    <3> HIDE DEF known
    <3> QED BY <1>2, <3>1, Zenon
  <2>3. ~IsNewRecharge(LatestRechargeToken(later.recharges), known)
    BY <1>2, <2>2, Zenon DEF IsNewRecharge
  <2> QED BY <2>3, AlertsDue, Zenon
<1>3. TypeOK => RechargeAnnouncedOnce
  BY <1>1, <1>2, Zenon DEF RechargeAnnouncedOnce
<1> QED BY <1>3, FeedTypeCorrect, PTL

=============================================================================
