------------------------ MODULE BalanceSweep_proofs ------------------------
(***************************************************************************)
(* Proofs about BalanceSweep, for every number of instances, passes,       *)
(* meters, users and days, every set of readings and of saved settings.    *)
(***************************************************************************)
EXTENDS BalanceSweep, TLAPS

LEMMA LatestTokenType ==
    ASSUME NEW reading \in Reading
    PROVE  LatestRechargeToken(reading.recharges) \in Token \union {NoToken}
<1> DEFINE recharges == reading.recharges
           latest == {i \in DOMAIN recharges : IsLatestRecharge(recharges, i)}
<1>1. recharges \in Seq(Recharge)
  BY DEF Reading
<1>2. CASE latest = {}
  BY <1>2 DEF LatestRechargeToken
<1>3. CASE latest # {}
  <2> DEFINE i == CHOOSE k \in latest : TRUE
  <2>1. i \in DOMAIN recharges
    BY <1>3
  <2>2. LatestRechargeToken(reading.recharges) = recharges[i].token
    BY <1>3 DEF LatestRechargeToken
  <2> HIDE DEF i
  <2>3. recharges[i] \in Recharge
    BY <1>1, <2>1
  <2> QED BY <2>2, <2>3 DEF Recharge
<1> QED BY <1>2, <1>3

LEMMA EvaluateType ==
    ASSUME NEW row \in AlertState, NEW reading \in Readings, NEW choice
    PROVE  LET evaluation == Evaluate(row, reading, choice)
           IN  /\ evaluation.severity \in Severity
               /\ evaluation.lastRechargeToken \in Token \union {NoToken}
               /\ evaluation.alerts \subseteq AlertKind
<1>1. reading \in Reading
  BY ConstantsAssumption
<1>2. LatestRechargeToken(reading.recharges) \in Token \union {NoToken}
  BY <1>1, LatestTokenType
<1>3. SeverityFor(reading.balance, Resolve(choice)["lowBalanceThreshold"]) \in Severity
  BY DEF SeverityFor, Severity
<1>4. row.lastRechargeToken \in Token \union {NoToken}
  BY DEF AlertState
<1> QED BY <1>2, <1>3, <1>4 DEF Evaluate, AlertKind

-----------------------------------------------------------------------------
(***************************************************************************)
(* Type correctness.                                                       *)
(***************************************************************************)
LEMMA NoPollType == NoState \in AlertState /\ NoPoll \in Poll
  BY DEF NoState, AlertState, INITIAL_STATE, Severity, NoInstant, NoDay,
         NoPoll, Poll, PollPc

\* The poll variable, without the rest of TypeOK.
PollTypeOK == poll \in [Pass -> [Meter -> Poll]]

\* A step of one poll leaves every other poll alone.
LEMMA SetPollEffect ==
    ASSUME PollTypeOK, NEW p \in Pass, NEW m \in Meter, NEW new,
           SetPoll(p, m, new)
    PROVE  /\ new \in Poll => PollTypeOK'
           /\ poll'[p][m] = new
           /\ \A q \in Pass, n \in Meter : <<q, n>> # <<p, m>> => poll'[q][n] = poll[q][n]
  BY DEF PollTypeOK, SetPoll

\* A step of one pass leaves the polls of the others alone.
LEMMA SetPollsEffect ==
    ASSUME PollTypeOK, NEW p \in Pass, NEW new, SetPolls(p, new)
    PROVE  /\ new \in [Meter -> Poll] => PollTypeOK'
           /\ poll'[p] = new
           /\ \A q \in Pass : q # p => poll'[q] = poll[q]
  BY DEF PollTypeOK, SetPolls

LEMMA PollFieldTypes ==
    ASSUME NEW old \in Poll
    PROVE  /\ \A pc \in PollPc : [old EXCEPT !.pc = pc] \in Poll
           /\ \A pc \in PollPc, reading \in Readings \union {NoReading} :
                 [old EXCEPT !.pc = pc, !.reading = reading] \in Poll
           /\ \A due \in SUBSET AlertKind : [old EXCEPT !.due = due] \in Poll
           /\ \A pc \in PollPc, due \in SUBSET AlertKind :
                 [old EXCEPT !.pc = pc, !.due = due] \in Poll
           /\ \A pc \in PollPc, finding \in Day \union {NoDay} :
                 [old EXCEPT !.pc = pc, !.finding = finding] \in Poll
           /\ \A pc \in PollPc, due \in SUBSET AlertKind :
                 /\ [old EXCEPT !.pc = pc, !.reading = NoReading, !.due = due] \in Poll
                 /\ [old EXCEPT !.pc = pc, !.finding = NoDay, !.due = due] \in Poll
  BY DEF Poll

LEMMA ListedPollType ==
    ASSUME TypeOK, NEW m \in Meter
    PROVE  ListedPoll(m) \in Poll
<1>1. settings[Owner[m]] \in SettingsChoices
  BY ConstantsAssumption DEF TypeOK
<1>2. stored[m] \in AlertState
  BY DEF TypeOK
<1> QED BY <1>1, <1>2, NoPollType DEF ListedPoll, Poll, PollPc

LEMMA PassStepPollType ==
    ASSUME TypeOK, NEW p \in Pass, PassStep(p) \/ CronTick(p)
    PROVE  PollTypeOK'
<1>1. PollTypeOK
  BY DEF TypeOK, PollTypeOK
<1>2. \A m \in Meter : poll[p][m] \in Poll
  BY <1>1 DEF PollTypeOK
<1>3. CASE CronTick(p)
  <2>1. [m \in Meter |-> NoPoll] \in [Meter -> Poll]
    BY NoPollType
  <2> QED BY <1>1, <1>3, <2>1, SetPollsEffect DEF CronTick
<1>4. CASE ListMeters(p)
  <2> DEFINE saved == {m \in Meter : meterStatus[m] = "saved"}
             new == [m \in Meter |-> IF m \in saved THEN ListedPoll(m) ELSE NoPoll]
  <2>1. new \in [Meter -> Poll]
    BY NoPollType, ListedPollType
  <2>2. SetPolls(p, new)
    BY <1>4 DEF ListMeters
  <2> QED BY <1>1, <2>1, <2>2, SetPollsEffect
<1>5. CASE StartBatch(p)
  <2>1. PICK batch \in SUBSET Listed(p) :
           SetPolls(p, [m \in Meter |-> IF m \in batch
                                        THEN [poll[p][m] EXCEPT !.pc = "fetching"]
                                        ELSE poll[p][m]])
    BY <1>5 DEF StartBatch
  <2>2. \A m \in Meter : [poll[p][m] EXCEPT !.pc = "fetching"] \in Poll
    BY <1>2, PollFieldTypes DEF PollPc, ActivePc
  <2>3. [m \in Meter |-> IF m \in batch THEN [poll[p][m] EXCEPT !.pc = "fetching"]
                         ELSE poll[p][m]] \in [Meter -> Poll]
    BY <1>2, <2>2
  <2> QED BY <1>1, <2>1, <2>3, SetPollsEffect
<1>6. CASE AbortSweep(p)
  <2>1. [m \in Meter |-> IF m \in Listed(p) THEN NoPoll ELSE poll[p][m]]
           \in [Meter -> Poll]
    BY <1>2, NoPollType
  <2> QED BY <1>1, <1>6, <2>1, SetPollsEffect DEF AbortSweep
<1>7. CASE Return(p)
  <2>1. [m \in Meter |-> IF Active(p, m) THEN poll[p][m] ELSE NoPoll]
           \in [Meter -> Poll]
    BY <1>2, NoPollType
  <2> QED BY <1>1, <1>7, <2>1, SetPollsEffect DEF Return
<1>8. CASE TryLock(p) \/ StandDown(p) \/ ListFails(p) \/ FinishSweep(p) \/ Unlock(p)
  BY <1>1, <1>8 DEF TryLock, StandDown, ListFails, FinishSweep, Unlock, PollTypeOK
<1> QED BY <1>3, <1>4, <1>5, <1>6, <1>7, <1>8 DEF PassStep

LEMMA PollStepPollType ==
    ASSUME TypeOK, NEW p \in Pass, NEW m \in Meter, PollStep(p, m)
    PROVE  PollTypeOK'
<1>1. PollTypeOK /\ poll[p][m] \in Poll
  BY DEF TypeOK, PollTypeOK
<1>2. \A new : SetPoll(p, m, new) /\ new \in Poll => PollTypeOK'
  BY <1>1, SetPollEffect
<1>3. {"recording", "failing", "pushing", "done", "stamping", "announcing",
       "rejected"} \subseteq PollPc
  BY DEF PollPc, ActivePc
<1>4. CASE FetchSnapshot(p, m)
  BY <1>1, <1>2, <1>3, <1>4, PollFieldTypes DEF FetchSnapshot
<1>5. CASE FetchFails(p, m) \/ NoAnomaly(p, m) \/ RecordFailure(p, m)
           \/ RecordFailureFails(p, m)
  BY <1>1, <1>2, <1>3, <1>5, PollFieldTypes
     DEF FetchFails, NoAnomaly, RecordFailure, RecordFailureFails
<1>6. CASE RecordSuccess(p, m)
  <2> DEFINE alerts == Evaluate(poll[p][m].row, poll[p][m].reading,
                                poll[p][m].settings).alerts
  <2>1. alerts \in SUBSET AlertKind
    BY DEF Evaluate, AlertKind
  <2>2. SetPoll(p, m, [poll[p][m] EXCEPT !.pc = "pushing", !.reading = NoReading,
                                         !.due = alerts])
    BY <1>6 DEF RecordSuccess
  <2> QED BY <1>1, <1>2, <1>3, <2>1, <2>2, PollFieldTypes
<1>7. CASE RecordSuccessFails(p, m)
  BY <1>1, <1>2, <1>3, <1>7, PollFieldTypes DEF RecordSuccessFails
<1>8. CASE Push(p, m)
  <2>1. PICK kind \in poll[p][m].due :
           SetPoll(p, m, [poll[p][m] EXCEPT !.due = @ \ {kind}])
    BY <1>8 DEF Push
  <2>2. poll[p][m].due \ {kind} \in SUBSET AlertKind
    BY <1>1 DEF Poll
  <2> QED BY <1>1, <1>2, <2>1, <2>2, PollFieldTypes
<1>9. CASE PushFails(p, m) \/ AnnounceAnomaly(p, m)
  BY <1>1, <1>2, <1>3, <1>9, PollFieldTypes DEF PushFails, AnnounceAnomaly
<1>10. CASE FindAnomaly(p, m)
  BY <1>1, <1>2, <1>3, <1>10, PollFieldTypes DEF FindAnomaly
<1>11. CASE StampAnomaly(p, m)
  <2>1. {"USAGE_ANOMALY"} \in SUBSET AlertKind
    BY DEF AlertKind
  <2> QED BY <1>1, <1>2, <1>3, <1>11, <2>1, PollFieldTypes DEF StampAnomaly
<1>12. CASE StampFails(p, m)
  BY <1>1, <1>2, <1>3, <1>12, PollFieldTypes DEF StampFails
<1> QED BY <1>4, <1>5, <1>6, <1>7, <1>8, <1>9, <1>10, <1>11, <1>12 DEF PollStep

\* What a step of a pass may make of a poll.
LEMMA PassStepPolls ==
    ASSUME TypeOK, NEW p \in Pass, PassStep(p) \/ CronTick(p)
    PROVE  \A q \in Pass, m \in Meter :
              \/ poll'[q][m] = poll[q][m]
              \/ q = p /\ (CronTick(p) \/ AbortSweep(p) \/ Return(p) \/ ListMeters(p))
                 /\ poll'[q][m] = NoPoll
              \/ q = p /\ ListMeters(p) /\ meterStatus[m] = "saved"
                 /\ poll'[q][m] = ListedPoll(m)
              \/ q = p /\ StartBatch(p) /\ poll[q][m].pc = "listed"
                 /\ poll'[q][m] = [poll[q][m] EXCEPT !.pc = "fetching"]
<1> SUFFICES ASSUME NEW m \in Meter
             PROVE  \A q \in Pass :
              \/ poll'[q][m] = poll[q][m]
              \/ q = p /\ (CronTick(p) \/ AbortSweep(p) \/ Return(p) \/ ListMeters(p))
                 /\ poll'[q][m] = NoPoll
              \/ q = p /\ ListMeters(p) /\ meterStatus[m] = "saved"
                 /\ poll'[q][m] = ListedPoll(m)
              \/ q = p /\ StartBatch(p) /\ poll[q][m].pc = "listed"
                 /\ poll'[q][m] = [poll[q][m] EXCEPT !.pc = "fetching"]
  OBVIOUS
<1>1. PollTypeOK
  BY DEF TypeOK, PollTypeOK
<1>2. CASE CronTick(p)
  BY <1>1, <1>2, SetPollsEffect DEF CronTick
<1>3. CASE ListMeters(p)
  <2> DEFINE saved == {n \in Meter : meterStatus[n] = "saved"}
             new == [n \in Meter |-> IF n \in saved THEN ListedPoll(n) ELSE NoPoll]
  <2>1. SetPolls(p, new)
    BY <1>3 DEF ListMeters
  <2>2. new[m] = IF meterStatus[m] = "saved" THEN ListedPoll(m) ELSE NoPoll
    OBVIOUS
  <2> HIDE DEF new
  <2>3. poll'[p] = new /\ \A q \in Pass : q # p => poll'[q] = poll[q]
    BY <1>1, <2>1, SetPollsEffect
  <2> QED BY <1>3, <2>2, <2>3
<1>4. CASE StartBatch(p)
  <2>1. PICK batch \in SUBSET Listed(p) :
           SetPolls(p, [n \in Meter |-> IF n \in batch
                                        THEN [poll[p][n] EXCEPT !.pc = "fetching"]
                                        ELSE poll[p][n]])
    BY <1>4 DEF StartBatch
  <2>2. /\ poll'[p][m] = IF m \in batch THEN [poll[p][m] EXCEPT !.pc = "fetching"]
                         ELSE poll[p][m]
        /\ \A q \in Pass : q # p => poll'[q] = poll[q]
    BY <1>1, <2>1, SetPollsEffect
  <2>3. m \in batch => poll[p][m].pc = "listed"
    BY DEF Listed
  <2> QED BY <1>4, <2>2, <2>3
<1>5. CASE AbortSweep(p)
  BY <1>1, <1>5, SetPollsEffect DEF AbortSweep
<1>6. CASE Return(p)
  BY <1>1, <1>6, SetPollsEffect DEF Return
<1>7. CASE TryLock(p) \/ StandDown(p) \/ ListFails(p) \/ FinishSweep(p) \/ Unlock(p)
  BY <1>7 DEF TryLock, StandDown, ListFails, FinishSweep, Unlock
<1> QED BY <1>2, <1>3, <1>4, <1>5, <1>6, <1>7 DEF PassStep

\* Where a step of pollMeter leaves the poll, but for the step that reads.
LEMMA PollStepPc ==
    ASSUME TypeOK, NEW p \in Pass, NEW m \in Meter, PollStep(p, m), ~FetchSnapshot(p, m)
    PROVE  poll'[p][m].pc \in {"pushing", "stamping", "announcing", "failing",
                               "done", "rejected"}
<1>1. PollTypeOK /\ poll[p][m] \in Poll
  BY DEF TypeOK, PollTypeOK
<1>2. \A new : SetPoll(p, m, new) => poll'[p][m] = new
  BY <1>1, SetPollEffect
<1>3. CASE Push(p, m)
  BY <1>1, <1>2, <1>3 DEF Push, Poll
<1>4. CASE RecordSuccess(p, m)
  BY <1>1, <1>2, <1>4 DEF RecordSuccess, Poll
<1>5. CASE FindAnomaly(p, m)
  BY <1>1, <1>2, <1>5 DEF FindAnomaly, Poll
<1>6. CASE FetchFails(p, m) \/ RecordSuccessFails(p, m) \/ PushFails(p, m)
           \/ NoAnomaly(p, m) \/ StampAnomaly(p, m) \/ StampFails(p, m)
           \/ AnnounceAnomaly(p, m) \/ RecordFailure(p, m) \/ RecordFailureFails(p, m)
  BY <1>1, <1>2, <1>6 DEF FetchFails, RecordSuccessFails, PushFails, NoAnomaly,
     StampAnomaly, StampFails, AnnounceAnomaly, RecordFailure, RecordFailureFails, Poll
<1> QED BY <1>3, <1>4, <1>5, <1>6 DEF PollStep

\* TypeOK is not inductive alone: recordSuccess needs the reading that
\* getRechargeSnapshot returned.
ReadingTaken ==
    \A p \in Pass, m \in Meter :
       poll[p][m].pc = "recording" => poll[p][m].reading \in Readings

TypeInv == TypeOK /\ ReadingTaken

LEMMA TypeInit == Init => TypeInv
<1> SUFFICES ASSUME Init PROVE TypeInv
  OBVIOUS
<1>1. NoState \in AlertState /\ NoPoll \in Poll
  BY NoPollType
<1>2. 1 \in Day
  BY ConstantsAssumption DEF Day
<1>3. TypeOK
  BY <1>1, <1>2 DEF Init, TypeOK, PassPc
<1>4. ReadingTaken
  BY DEF Init, ReadingTaken, NoPoll
<1> QED BY <1>3, <1>4 DEF TypeInv

\* What recordSuccess writes about a meter.
LEMMA RecordedType ==
    ASSUME NEW old \in AlertState, NEW row \in AlertState,
           NEW reading \in Readings, NEW choice
    PROVE  /\ Recorded(old, Evaluate(row, reading, choice), reading) \in AlertState
           /\ SampleWindows(row, reading) \subseteq Window
<1>1. reading.at \in Nat \ {0}
  BY ConstantsAssumption DEF Reading
<1>2. row.lastBalanceAt \in Nat
  BY DEF AlertState
<1>3. Recorded(old, Evaluate(row, reading, choice), reading) \in AlertState
  <2> DEFINE evaluation == Evaluate(row, reading, choice)
  <2>1. /\ evaluation.severity \in Severity
        /\ evaluation.lastRechargeToken \in Token \union {NoToken}
    BY EvaluateType
  <2> HIDE DEF evaluation
  <2>2. Recorded(old, evaluation, reading) \in AlertState
    BY <1>1, <2>1 DEF Recorded, AlertState
  <2> QED BY <2>2 DEF evaluation
<1>4. SampleWindows(row, reading) \subseteq Window
  BY <1>1, <1>2 DEF SampleWindows, Window, NoInstant
<1> QED BY <1>3, <1>4

LEMMA PassStepType ==
    ASSUME TypeInv, NEW p \in Pass, PassStep(p) \/ CronTick(p)
    PROVE  TypeInv'
<1> USE DEF TypeInv
<1>1. PollTypeOK'
  BY PassStepPollType
<1>2. passPc' \in [Pass -> PassPc]
  <2>1. \A pc \in PassPc : GoTo(p, pc) => passPc' \in [Pass -> PassPc]
    BY DEF TypeOK, GoTo
  <2> QED BY <2>1 DEF PassStep, CronTick, TryLock, StandDown, ListMeters, ListFails,
             StartBatch, FinishSweep, AbortSweep, Unlock, Return, PassPc, TypeOK
<1>3. /\ running' \in [Instance -> BOOLEAN]
      /\ lockOwner' \in Pass \union {NoPass}
      /\ UNCHANGED dbVars
  BY DEF TypeOK, PassStep, CronTick, TryLock, StandDown, ListMeters, ListFails,
         StartBatch, FinishSweep, AbortSweep, Unlock, Return
<1>4. TypeOK'
  BY <1>1, <1>2, <1>3 DEF TypeOK, PollTypeOK, dbVars
<1>5. ReadingTaken'
  <2> SUFFICES ASSUME NEW q \in Pass, NEW m \in Meter, poll'[q][m].pc = "recording"
               PROVE  poll'[q][m].reading \in Readings
    BY DEF ReadingTaken
  <2>1. NoPoll.pc # "recording" /\ ListedPoll(m).pc # "recording"
    BY DEF NoPoll, ListedPoll
  <2>2. [poll[q][m] EXCEPT !.pc = "fetching"].pc # "recording"
    BY DEF TypeOK, Poll
  <2>3. \/ poll'[q][m] = poll[q][m]
        \/ poll'[q][m] = NoPoll
        \/ poll'[q][m] = ListedPoll(m)
        \/ poll'[q][m] = [poll[q][m] EXCEPT !.pc = "fetching"]
    BY PassStepPolls
  <2>4. poll'[q][m] = poll[q][m]
    BY <2>1, <2>2, <2>3
  <2> QED BY <2>4 DEF ReadingTaken
<1> QED BY <1>4, <1>5

LEMMA PollStepType ==
    ASSUME TypeInv, NEW p \in Pass, NEW m \in Meter, PollStep(p, m)
    PROVE  TypeInv'
<1> USE DEF TypeInv
<1>1. PollTypeOK /\ PollTypeOK' /\ poll[p][m] \in Poll
  BY PollStepPollType DEF TypeOK, PollTypeOK
<1>2. UNCHANGED PollVars
  BY DEF PollStep, FetchSnapshot, FetchFails, RecordSuccess, RecordSuccessFails,
     Push, PushFails, NoAnomaly, FindAnomaly, StampAnomaly, StampFails,
     AnnounceAnomaly, RecordFailure, RecordFailureFails
<1>3. /\ stored' \in [Meter -> AlertState]
      /\ failing' \in [Meter -> BOOLEAN]
      /\ samples' \in [Meter -> SUBSET Window]
  <2>1. CASE RecordSuccess(p, m)
    <3> DEFINE row == poll[p][m].row
               reading == poll[p][m].reading
               choice == poll[p][m].settings
               state == Recorded(stored[m], Evaluate(row, reading, choice), reading)
               windows == SampleWindows(row, reading)
    <3>1. reading \in Readings
      BY <2>1 DEF RecordSuccess, ReadingTaken
    <3>2. row \in AlertState /\ stored[m] \in AlertState /\ samples[m] \subseteq Window
      BY <1>1 DEF Poll, TypeOK
    <3>3. state \in AlertState /\ windows \subseteq Window
      BY <3>1, <3>2, RecordedType
    <3>4. /\ stored' = [stored EXCEPT ![m] = state]
          /\ samples' = [samples EXCEPT ![m] = InsertWindows(samples[m], windows)]
          /\ failing' = [failing EXCEPT ![m] = FALSE]
      BY <2>1 DEF RecordSuccess
    <3>5. InsertWindows(samples[m], windows) \subseteq Window
      BY <3>2, <3>3 DEF InsertWindows
    <3> HIDE DEF state, windows
    <3> QED BY <3>3, <3>4, <3>5 DEF TypeOK
  <2>2. CASE StampAnomaly(p, m)
    <3>1. poll[p][m].finding \in Day \union {NoDay}
      BY <1>1 DEF Poll
    <3>2. [stored[m] EXCEPT !.lastAnomalyOn = poll[p][m].finding] \in AlertState
      BY <3>1 DEF TypeOK, AlertState
    <3>3. \/ stored' = stored
          \/ stored' = [stored EXCEPT ![m] =
                           [stored[m] EXCEPT !.lastAnomalyOn = poll[p][m].finding]]
      BY <2>2 DEF StampAnomaly, TypeOK
    <3>4. UNCHANGED <<failing, samples>>
      BY <2>2 DEF StampAnomaly
    <3> QED BY <3>2, <3>3, <3>4 DEF TypeOK
  <2>3. CASE RecordFailure(p, m)
    BY <2>3 DEF RecordFailure, TypeOK
  <2>4. CASE UNCHANGED <<stored, failing, samples>>
    BY <2>4 DEF TypeOK
  <2> QED BY <2>1, <2>2, <2>3, <2>4 DEF PollStep, FetchSnapshot, FetchFails,
         RecordSuccessFails, Push, PushFails, NoAnomaly, FindAnomaly, StampFails,
         AnnounceAnomaly, RecordFailureFails
<1>4. TypeOK'
  BY <1>1, <1>2, <1>3 DEF TypeOK, PollTypeOK, PollVars
<1>5. ReadingTaken'
  <2> SUFFICES ASSUME NEW q \in Pass, NEW n \in Meter, poll'[q][n].pc = "recording"
               PROVE  poll'[q][n].reading \in Readings
    BY DEF ReadingTaken
  <2>1. CASE <<q, n>> # <<p, m>>
    <3>1. PICK new : SetPoll(p, m, new)
      BY DEF PollStep, FetchSnapshot, FetchFails, RecordSuccess, RecordSuccessFails,
         Push, PushFails, NoAnomaly, FindAnomaly, StampAnomaly, StampFails,
         AnnounceAnomaly, RecordFailure, RecordFailureFails
    <3> QED BY <1>1, <2>1, <3>1, SetPollEffect DEF ReadingTaken
  <2>2. CASE <<q, n>> = <<p, m>> /\ FetchSnapshot(p, m)
    <3>1. PICK reading \in Readings :
             SetPoll(p, m, [poll[p][m] EXCEPT !.pc = "recording", !.reading = reading])
      BY <2>2 DEF FetchSnapshot
    <3>2. poll'[p][m] = [poll[p][m] EXCEPT !.pc = "recording", !.reading = reading]
      BY <1>1, <3>1, SetPollEffect
    <3> QED BY <1>1, <2>2, <3>2 DEF Poll
  <2>3. CASE <<q, n>> = <<p, m>> /\ ~FetchSnapshot(p, m)
    <3>1. poll'[p][m].pc # "recording"
      BY <1>1, <2>3, PollStepPc
    <3> QED BY <2>3, <3>1
  <2> QED BY <2>1, <2>2, <2>3
<1> QED BY <1>4, <1>5

LEMMA EnvironmentType ==
    ASSUME TypeInv, Environment
    PROVE  TypeInv'
<1> USE DEF TypeInv
<1>1. CASE \E p \in Pass : CronTick(p)
  BY <1>1, PassStepType
<1>2. CASE \E p \in Pass : LoseSession(p)
  BY <1>2 DEF LoseSession, dbVars, TypeOK, ReadingTaken
<1>3. CASE \E i \in Instance : CrashRestart(i)
  <2>1. PICK i \in Instance : CrashRestart(i)
    BY <1>3
  <2>2. poll' \in [Pass -> [Meter -> Poll]]
    BY <2>1, NoPollType DEF CrashRestart, TypeOK
  <2>3. /\ running' \in [Instance -> BOOLEAN]
        /\ lockOwner' \in Pass \union {NoPass}
        /\ passPc' \in [Pass -> PassPc]
    BY <2>1 DEF CrashRestart, TypeOK, PassPc
  <2>4. TypeOK'
    BY <2>1, <2>2, <2>3 DEF CrashRestart, TypeOK, dbVars
  <2>5. ReadingTaken'
    BY <2>1 DEF CrashRestart, ReadingTaken, NoPoll, TypeOK
  <2> QED BY <2>4, <2>5
<1>4. CASE \E m \in Meter : AddMeter(m)
  BY <1>4 DEF AddMeter, TypeOK, ReadingTaken
<1>5. CASE \E m \in Meter : RemoveMeter(m)
  BY <1>5, NoPollType DEF RemoveMeter, TypeOK, ReadingTaken
<1>6. CASE \E u \in User : ChangeSettings(u)
  BY <1>6 DEF ChangeSettings, TypeOK, ReadingTaken
<1>7. CASE NextDay
  BY <1>7, ConstantsAssumption DEF NextDay, TypeOK, ReadingTaken, Day
<1> QED BY <1>1, <1>2, <1>3, <1>4, <1>5, <1>6, <1>7 DEF Environment

LEMMA TypeStep == TypeInv /\ [Next]_vars => TypeInv'
<1> SUFFICES ASSUME TypeInv, [Next]_vars PROVE TypeInv'
  OBVIOUS
<1>1. CASE \E p \in Pass : PassStep(p)
  BY <1>1, PassStepType
<1>2. CASE \E p \in Pass, m \in Meter : PollStep(p, m)
  BY <1>2, PollStepType
<1>3. CASE Environment
  BY <1>3, EnvironmentType
<1>4. CASE UNCHANGED vars
  BY <1>4 DEF vars, TypeInv, TypeOK, ReadingTaken
<1> QED BY <1>1, <1>2, <1>3, <1>4 DEF Next

LEMMA TypeInvariant == Spec => []TypeInv
  BY TypeInit, TypeStep, PTL DEF Spec

\* Every reachable state is well typed, whatever faults occur: windows never
\* run backwards, and a poll only ever works from a row the table could hold.
THEOREM TypeCorrect == Spec => []TypeOK
<1>1. TypeInv => TypeOK
  BY DEF TypeInv
<1> QED BY <1>1, TypeInvariant, PTL

-----------------------------------------------------------------------------
(***************************************************************************)
(* The running flag and the lock, under every fault.                       *)
(***************************************************************************)

\* No step of a poll, and no other step outside the passes, moves a pass.
LEMMA PollStepKeepsPasses ==
    ASSUME NEW p \in Pass, NEW m \in Meter, PollStep(p, m)
    PROVE  UNCHANGED PollVars
  BY DEF PollStep, FetchSnapshot, FetchFails, RecordSuccess, RecordSuccessFails,
     Push, PushFails, NoAnomaly, FindAnomaly, StampAnomaly, StampFails,
     AnnounceAnomaly, RecordFailure, RecordFailureFails

\* OnePassPerInstance, stated without the set of passes.
LEMMA OnePassPerInstanceFlat ==
    OnePassPerInstance <=>
       /\ \A i \in Instance :
             running[i] <=> \E p \in Pass : Host[p] = i /\ passPc[p] # "idle"
       /\ \A p, q \in Pass :
             passPc[p] # "idle" /\ passPc[q] # "idle" /\ Host[p] = Host[q] => p = q
  BY ConstantsAssumption DEF OnePassPerInstance

FlagInv == TypeOK /\ OnePassPerInstance /\ LockNeverLeaks

LEMMA FlagInit == Init => OnePassPerInstance /\ LockNeverLeaks
  BY DEF Init, OnePassPerInstance, LockNeverLeaks

LEMMA FlagPassStep ==
    ASSUME FlagInv, NEW p \in Pass, PassStep(p) \/ CronTick(p)
    PROVE  (OnePassPerInstance /\ LockNeverLeaks)'
<1> DEFINE Busy(q) == passPc[q] # "idle"
<1>1. Host[p] \in Instance
  BY ConstantsAssumption
<1>2. TypeOK /\ OnePassPerInstance /\ LockNeverLeaks
  BY DEF FlagInv
<1>3. CASE CronTick(p)
  <2>1. /\ ~running[Host[p]] /\ passPc[p] = "idle"
        /\ running' = [running EXCEPT ![Host[p]] = TRUE]
        /\ passPc' = [passPc EXCEPT ![p] = "locking"]
        /\ lockOwner' = lockOwner
    BY <1>3 DEF CronTick, GoTo
  <2>2. \A q \in Pass : Busy(q) => Host[q] # Host[p]
    BY <1>2, <2>1, OnePassPerInstanceFlat, ConstantsAssumption
  <2>3. OnePassPerInstance'
    BY <1>1, <1>2, <2>1, <2>2, OnePassPerInstanceFlat DEF OnePassPerInstance, TypeOK
  <2>4. LockNeverLeaks'
    BY <1>2, <2>1 DEF LockNeverLeaks, TypeOK
  <2> QED BY <2>3, <2>4
<1>4. CASE Return(p)
  <2>1. /\ passPc[p] = "returning"
        /\ running' = [running EXCEPT ![Host[p]] = FALSE]
        /\ passPc' = [passPc EXCEPT ![p] = "idle"]
        /\ lockOwner' = lockOwner
    BY <1>4 DEF Return, GoTo
  <2>2. \A q \in Pass : Busy(q) /\ Host[q] = Host[p] => q = p
    BY <1>2, <2>1, OnePassPerInstanceFlat
  <2>3. OnePassPerInstance'
    BY <1>1, <1>2, <2>1, <2>2, OnePassPerInstanceFlat DEF OnePassPerInstance, TypeOK
  <2>4. LockNeverLeaks'
    BY <1>2, <2>1 DEF LockNeverLeaks, TypeOK
  <2> QED BY <2>3, <2>4
<1>5. CASE PassStep(p) /\ ~Return(p)
  <2>1. /\ running' = running
        /\ passPc[p] # "idle"
        /\ \A q \in Pass : passPc'[q] # "idle" <=> Busy(q)
    BY <1>2, <1>5 DEF PassStep, TryLock, StandDown, ListMeters, ListFails, StartBatch,
       FinishSweep, AbortSweep, Unlock, GoTo, TypeOK
  <2>2. OnePassPerInstance'
    BY <1>2, <2>1 DEF OnePassPerInstance
  <2>3. LockNeverLeaks'
    BY <1>2, <1>5 DEF LockNeverLeaks, PassStep, TryLock, StandDown, ListMeters,
       ListFails, StartBatch, FinishSweep, AbortSweep, Unlock, GoTo, TypeOK
  <2> QED BY <2>2, <2>3
<1> QED BY <1>3, <1>4, <1>5

LEMMA FlagStep == FlagInv /\ [Next]_vars => (OnePassPerInstance /\ LockNeverLeaks)'
<1> SUFFICES ASSUME FlagInv, [Next]_vars
             PROVE  (OnePassPerInstance /\ LockNeverLeaks)'
  OBVIOUS
<1>0. TypeOK /\ OnePassPerInstance /\ LockNeverLeaks
  BY DEF FlagInv
<1>1. CASE \E p \in Pass : PassStep(p) \/ CronTick(p)
  BY <1>1, FlagPassStep
<1>2. CASE UNCHANGED <<running, lockOwner, passPc>>
  BY <1>0, <1>2 DEF OnePassPerInstance, LockNeverLeaks
<1>3. CASE \E p \in Pass : LoseSession(p)
  BY <1>0, <1>3 DEF LoseSession, OnePassPerInstance, LockNeverLeaks
<1>4. CASE \E i \in Instance : CrashRestart(i)
  <2>1. PICK i \in Instance : CrashRestart(i)
    BY <1>4
  <2>2. /\ running' = [running EXCEPT ![i] = FALSE]
        /\ passPc' = [p \in Pass |-> IF Host[p] = i THEN "idle" ELSE passPc[p]]
        /\ lockOwner' = IF lockOwner # NoPass /\ Host[lockOwner] = i
                        THEN NoPass ELSE lockOwner
    BY <2>1 DEF CrashRestart
  <2>3. OnePassPerInstance'
    <3>1. \A p \in Pass :
             passPc'[p] # "idle" <=> Host[p] # i /\ passPc[p] # "idle"
      BY <2>2
    <3>2. \A j \in Instance : running'[j] <=> j # i /\ running[j]
      BY <1>0, <2>2 DEF TypeOK
    <3> QED BY <1>0, <3>1, <3>2 DEF OnePassPerInstance
  <2>4. LockNeverLeaks'
    BY <1>0, <2>2 DEF LockNeverLeaks, TypeOK
  <2> QED BY <2>3, <2>4
<1>5. CASE \E p \in Pass, m \in Meter : PollStep(p, m)
  BY <1>2, <1>5, PollStepKeepsPasses DEF PollVars
<1>6. CASE \/ \E m \in Meter : AddMeter(m) \/ RemoveMeter(m)
           \/ \E u \in User : ChangeSettings(u)
           \/ NextDay
           \/ UNCHANGED vars
  BY <1>2, <1>6 DEF AddMeter, RemoveMeter, ChangeSettings, NextDay, vars
<1> QED BY <1>1, <1>3, <1>4, <1>5, <1>6 DEF Next, Environment

\* `running` is set exactly while the instance has one pass under way, and the
\* lock is only held by a pass still on its way to releasing it: under every
\* fault, no instance and no lock is ever left blocked by a pass that is gone.
THEOREM FlagAndLock == Spec => [](OnePassPerInstance /\ LockNeverLeaks)
<1>1. Init => OnePassPerInstance /\ LockNeverLeaks
  BY FlagInit
<1>2. TypeOK /\ (OnePassPerInstance /\ LockNeverLeaks) /\ [Next]_vars
         => (OnePassPerInstance /\ LockNeverLeaks)'
  BY FlagStep DEF FlagInv
<1> QED BY <1>1, <1>2, TypeCorrect, PTL DEF Spec

\* A pass that is gone never owns the lock: whichever way it ended, it had given
\* the lock back, or its session's end had.
THEOREM LockAlwaysReleased == Spec => []LockNeverLeaks
<1>1. OnePassPerInstance /\ LockNeverLeaks => LockNeverLeaks
  OBVIOUS
<1> QED BY <1>1, FlagAndLock, PTL

-----------------------------------------------------------------------------
(***************************************************************************)
(* Exclusion and fresh rows, while no fault breaks the lock.               *)
(*                                                                         *)
(* The lock protects a pass from reading its rows to its last write only   *)
(* if no poll outlives its pass. That in turn rests on no poll being       *)
(* rejected, which rests on the failure count of a listed meter always     *)
(* being writable. SafeInv is this chain.                                  *)
(***************************************************************************)
HolderOnly ==
    \A p \in Pass :
       passPc[p] \in {"listing", "sweeping", "unlocking"} => lockOwner = p

WorkInsideSweep ==
    \A p \in Pass, m \in Meter : Unsettled(p, m) => passPc[p] = "sweeping"

NoneRejected == \A p \in Pass, m \in Meter : poll[p][m].pc # "rejected"

ListedSaved ==
    \A p \in Pass, m \in Meter : Unsettled(p, m) => meterStatus[m] = "saved"

DueWhileSending ==
    \A p \in Pass, m \in Meter :
       poll[p][m].due # {} => poll[p][m].pc \in {"pushing", "announcing"}

SafeInv ==
    /\ TypeOK /\ HolderOnly /\ WorkInsideSweep /\ NoneRejected
    /\ ListedSaved /\ DueWhileSending /\ RowsFresh

LEMMA SafeInit == Init => SafeInv
<1> SUFFICES ASSUME Init PROVE SafeInv
  OBVIOUS
<1>1. TypeOK
  BY TypeInit DEF TypeInv
<1>2. \A p \in Pass, m \in Meter : poll[p][m] = NoPoll
  BY DEF Init
<1>3. HolderOnly
  BY DEF Init, HolderOnly
<1>4. /\ WorkInsideSweep /\ NoneRejected /\ ListedSaved /\ DueWhileSending /\ RowsFresh
  BY <1>2 DEF NoPoll, WorkInsideSweep, NoneRejected, ListedSaved, DueWhileSending,
     RowsFresh, Unsettled, Active, ActivePc
<1> QED BY <1>1, <1>3, <1>4 DEF SafeInv

\* Two passes never both have polls to settle, or rows to read.
LEMMA SafeExcludes ==
    ASSUME SafeInv, NEW p \in Pass, NEW q \in Pass, NEW m \in Meter, NEW n \in Meter,
           Unsettled(p, m), Unsettled(q, n)
    PROVE  p = q
  BY DEF SafeInv, HolderOnly, WorkInsideSweep

LEMMA SafePassStep ==
    ASSUME SafeInv, TypeOK', NEW p \in Pass, PassStep(p) \/ CronTick(p)
    PROVE  SafeInv'
<1>0. /\ TypeOK /\ HolderOnly /\ WorkInsideSweep /\ NoneRejected
      /\ ListedSaved /\ DueWhileSending /\ RowsFresh
  BY DEF SafeInv
<1>1. ~AbortSweep(p)
  BY <1>0 DEF AbortSweep, Rejected, NoneRejected
<1>2. UNCHANGED dbVars
  BY DEF PassStep, CronTick, TryLock, StandDown, ListMeters, ListFails,
     StartBatch, FinishSweep, AbortSweep, Unlock, Return
<1>3. HolderOnly'
  <2>1. CASE TryLock(p)
    BY <1>0, <2>1, ConstantsAssumption DEF HolderOnly, TypeOK, TryLock, GoTo
  <2>2. CASE Unlock(p)
    BY <1>0, <2>2 DEF HolderOnly, TypeOK, Unlock, GoTo
  <2>3. CASE StandDown(p) \/ CronTick(p) \/ Return(p) \/ ListMeters(p) \/ ListFails(p)
             \/ FinishSweep(p) \/ StartBatch(p)
    BY <1>0, <2>3 DEF HolderOnly, TypeOK, StandDown, CronTick, Return, ListMeters,
       ListFails, FinishSweep, StartBatch, GoTo
  <2> QED BY <1>1, <2>1, <2>2, <2>3 DEF PassStep
<1>4. ASSUME NEW q \in Pass, NEW m \in Meter
      PROVE  \/ poll'[q][m] = poll[q][m]
             \/ poll'[q][m] = NoPoll
             \/ q = p /\ ListMeters(p) /\ meterStatus[m] = "saved"
                /\ poll'[q][m] = ListedPoll(m)
             \/ q = p /\ StartBatch(p) /\ poll[q][m].pc = "listed"
                /\ poll'[q][m] = [poll[q][m] EXCEPT !.pc = "fetching"]
  BY <1>0, PassStepPolls
<1>5. ASSUME NEW q \in Pass, NEW m \in Meter
      PROVE  /\ Unsettled(q, m)' => passPc'[q] = "sweeping" /\ meterStatus'[m] = "saved"
             /\ poll'[q][m].pc # "rejected"
             /\ poll'[q][m].due # {} => poll'[q][m].pc \in {"pushing", "announcing"}
             /\ poll'[q][m].pc \in {"listed", "fetching", "recording"} =>
                   poll'[q][m].row = stored'[m]
             /\ poll'[q][m].pc \in {"pushing", "stamping"} =>
                   poll'[q][m].row.lastAnomalyOn = stored'[m].lastAnomalyOn
  <2>0. poll[q][m] \in Poll /\ UNCHANGED <<stored, meterStatus>>
    BY <1>0, <1>2 DEF TypeOK, dbVars
  <2>1. CASE poll'[q][m] = poll[q][m]
    <3>1. /\ poll'[q][m].pc # "rejected"
          /\ poll'[q][m].due # {} => poll'[q][m].pc \in {"pushing", "announcing"}
          /\ poll'[q][m].pc \in {"listed", "fetching", "recording"} =>
                poll'[q][m].row = stored'[m]
          /\ poll'[q][m].pc \in {"pushing", "stamping"} =>
                poll'[q][m].row.lastAnomalyOn = stored'[m].lastAnomalyOn
      BY <1>0, <2>0, <2>1 DEF NoneRejected, DueWhileSending, RowsFresh
    <3>2. ASSUME Unsettled(q, m)'
          PROVE  passPc'[q] = "sweeping" /\ meterStatus'[m] = "saved"
      <4>1. Unsettled(q, m)
        BY <2>1, <3>2 DEF Unsettled, Active
      <4>2. passPc[q] = "sweeping" /\ meterStatus[m] = "saved"
        BY <1>0, <4>1 DEF WorkInsideSweep, ListedSaved
      <4>3. ~FinishSweep(q)
        BY <4>1 DEF FinishSweep, Unsettled, Listed
      <4>4. passPc'[q] = passPc[q]
        BY <1>0, <1>1, <4>2, <4>3 DEF PassStep, CronTick, TryLock, StandDown, ListMeters,
           ListFails, StartBatch, FinishSweep, Unlock, Return, GoTo, TypeOK
      <4> QED BY <2>0, <4>2, <4>4
    <3> QED BY <3>1, <3>2
  <2>2. CASE poll'[q][m] = NoPoll
    BY <2>2 DEF NoPoll, Unsettled, Active, ActivePc
  <2>3. CASE q = p /\ ListMeters(p) /\ meterStatus[m] = "saved"
             /\ poll'[q][m] = ListedPoll(m)
    <3>1. passPc'[q] = "sweeping"
      BY <1>0, <2>3 DEF ListMeters, GoTo, TypeOK
    <3>2. /\ ListedPoll(m).pc = "listed" /\ ListedPoll(m).row = stored[m]
          /\ ListedPoll(m).due = {}
      BY DEF ListedPoll, NoPoll
    <3> QED BY <2>0, <2>3, <3>1, <3>2
  <2>4. CASE q = p /\ StartBatch(p) /\ poll[q][m].pc = "listed"
             /\ poll'[q][m] = [poll[q][m] EXCEPT !.pc = "fetching"]
    <3>1. /\ poll'[q][m].pc = "fetching" /\ poll'[q][m].row = poll[q][m].row
          /\ poll'[q][m].due = poll[q][m].due
      BY <2>0, <2>4 DEF Poll
    <3>2. Unsettled(q, m) /\ poll[q][m].due = {} /\ poll[q][m].row = stored[m]
      BY <1>0, <2>4 DEF Unsettled, DueWhileSending, RowsFresh
    <3>3. passPc'[q] = "sweeping" /\ meterStatus'[m] = "saved"
      BY <1>0, <2>0, <2>4, <3>2 DEF StartBatch, ListedSaved
    <3> QED BY <2>0, <3>1, <3>2, <3>3
  <2> QED BY <1>4, <2>1, <2>2, <2>3, <2>4
<1>6. /\ WorkInsideSweep' /\ NoneRejected' /\ ListedSaved' /\ DueWhileSending' /\ RowsFresh'
  BY <1>5 DEF WorkInsideSweep, NoneRejected, ListedSaved, DueWhileSending, RowsFresh
<1> QED BY <1>3, <1>6 DEF SafeInv

\* What one step of pollMeter does to its own poll and meter.
LEMMA PollStepEffect ==
    ASSUME TypeOK, NEW p \in Pass, NEW m \in Meter, PollStep(p, m)
    PROVE  /\ \A q \in Pass, n \in Meter :
                 <<q, n>> # <<p, m>> => poll'[q][n] = poll[q][n]
           /\ \A n \in Meter : n # m => stored'[n] = stored[n]
           /\ Active(p, m)
           /\ poll'[p][m].row = poll[p][m].row
<1>1. PollTypeOK /\ poll[p][m] \in Poll
  BY DEF TypeOK, PollTypeOK
<1>2. \E new : SetPoll(p, m, new)
  BY DEF PollStep, FetchSnapshot, FetchFails, RecordSuccess, RecordSuccessFails,
     Push, PushFails, NoAnomaly, FindAnomaly, StampAnomaly, StampFails,
     AnnounceAnomaly, RecordFailure, RecordFailureFails
<1>3. \A q \in Pass, n \in Meter : <<q, n>> # <<p, m>> => poll'[q][n] = poll[q][n]
  BY <1>1, <1>2, SetPollEffect
<1>4. \A n \in Meter : n # m => stored'[n] = stored[n]
  BY DEF TypeOK, PollStep, FetchSnapshot, FetchFails, RecordSuccess, RecordSuccessFails,
     Push, PushFails, NoAnomaly, FindAnomaly, StampAnomaly, StampFails,
     AnnounceAnomaly, RecordFailure, RecordFailureFails
<1>5. Active(p, m)
  BY DEF Active, ActivePc, PollStep, FetchSnapshot, FetchFails, RecordSuccess,
     RecordSuccessFails, Push, PushFails, NoAnomaly, FindAnomaly, StampAnomaly, StampFails,
     AnnounceAnomaly, RecordFailure, RecordFailureFails
<1>6. poll'[p][m].row = poll[p][m].row
  <2>1. \A new : SetPoll(p, m, new) => poll'[p][m] = new
    BY <1>1, SetPollEffect
  <2>2. CASE FetchSnapshot(p, m)
    BY <1>1, <2>1, <2>2 DEF FetchSnapshot, Poll
  <2>3. CASE RecordSuccess(p, m)
    BY <1>1, <2>1, <2>3 DEF RecordSuccess, Poll
  <2>4. CASE Push(p, m) \/ FindAnomaly(p, m)
    BY <1>1, <2>1, <2>4 DEF Push, FindAnomaly, Poll
  <2>5. CASE FetchFails(p, m) \/ RecordSuccessFails(p, m) \/ PushFails(p, m)
             \/ NoAnomaly(p, m) \/ StampAnomaly(p, m) \/ StampFails(p, m)
             \/ AnnounceAnomaly(p, m) \/ RecordFailure(p, m) \/ RecordFailureFails(p, m)
    BY <1>1, <2>1, <2>5 DEF FetchFails, RecordSuccessFails, PushFails, NoAnomaly,
       StampAnomaly, StampFails, AnnounceAnomaly, RecordFailure, RecordFailureFails, Poll
  <2> QED BY <2>2, <2>3, <2>4, <2>5 DEF PollStep
<1> QED BY <1>3, <1>4, <1>5, <1>6

LEMMA SafePollStep ==
    ASSUME Faults = {}, SafeInv, TypeOK', NEW p \in Pass, NEW m \in Meter, PollStep(p, m)
    PROVE  SafeInv'
<1>0. /\ TypeOK /\ HolderOnly /\ WorkInsideSweep /\ NoneRejected
      /\ ListedSaved /\ DueWhileSending /\ RowsFresh
  BY DEF SafeInv
<1>1. UNCHANGED PollVars
  BY PollStepKeepsPasses
<1>2. Active(p, m) /\ Unsettled(p, m)
  BY <1>0, PollStepEffect DEF Unsettled
<1>3. poll[p][m] \in Poll
  BY <1>0 DEF TypeOK
<1>4. \A new : SetPoll(p, m, new) => poll'[p][m] = new
  BY <1>0, SetPollEffect DEF TypeOK, PollTypeOK
<1>5. HolderOnly'
  BY <1>0, <1>1 DEF HolderOnly, PollVars
<1>6. /\ poll'[p][m].pc # "rejected"
      /\ poll'[p][m].due # {} => poll'[p][m].pc \in {"pushing", "announcing"}
      /\ poll'[p][m].pc # "listed"
      /\ poll'[p][m].pc \in {"fetching", "recording"} => poll'[p][m].row = stored'[m]
      /\ poll'[p][m].pc \in {"pushing", "stamping"} =>
            poll'[p][m].row.lastAnomalyOn = stored'[m].lastAnomalyOn
  <2>0. meterStatus[m] = "saved"
    BY <1>0, <1>2 DEF ListedSaved
  <2>1. CASE FetchSnapshot(p, m)
    <3>1. /\ poll'[p][m].pc = "recording" /\ poll'[p][m].row = poll[p][m].row
          /\ poll'[p][m].due = poll[p][m].due
          /\ poll[p][m].pc = "fetching" /\ stored' = stored
      BY <1>3, <1>4, <2>1 DEF FetchSnapshot, Poll
    <3>2. poll[p][m].due = {} /\ poll[p][m].row = stored[m]
      BY <1>0, <3>1 DEF DueWhileSending, RowsFresh
    <3> QED BY <3>1, <3>2
  <2>2. CASE RecordSuccess(p, m)
    <3>1. /\ poll'[p][m].pc = "pushing" /\ poll'[p][m].row = poll[p][m].row
      BY <1>3, <1>4, <2>2 DEF RecordSuccess, Poll
    <3>2. stored'[m].lastAnomalyOn = stored[m].lastAnomalyOn
      BY <1>0, <2>2 DEF RecordSuccess, Recorded, TypeOK, AlertState
    <3>3. poll[p][m].row = stored[m]
      BY <1>0, <2>2 DEF RecordSuccess, RowsFresh
    <3> QED BY <3>1, <3>2, <3>3
  <2>3. CASE Push(p, m)
    BY <1>0, <1>3, <1>4, <2>3 DEF Push, Poll, RowsFresh
  <2>4. CASE FindAnomaly(p, m)
    <3>1. /\ poll'[p][m].pc = "stamping" /\ poll'[p][m].row = poll[p][m].row
          /\ poll'[p][m].due = {}
          /\ poll[p][m].pc = "pushing" /\ stored' = stored
      BY <1>3, <1>4, <2>4 DEF FindAnomaly, Poll
    <3> QED BY <1>0, <3>1 DEF RowsFresh
  <2>5. CASE StampAnomaly(p, m)
    BY <1>3, <1>4, <2>5 DEF StampAnomaly, Poll
  <2>6. CASE FetchFails(p, m) \/ RecordSuccessFails(p, m) \/ PushFails(p, m)
             \/ NoAnomaly(p, m) \/ StampFails(p, m)
             \/ AnnounceAnomaly(p, m) \/ RecordFailure(p, m)
    BY <1>0, <1>3, <1>4, <2>6 DEF FetchFails, RecordSuccessFails, PushFails, NoAnomaly,
       StampFails, AnnounceAnomaly, RecordFailure, Poll, DueWhileSending
  <2>7. ~RecordFailureFails(p, m)
    BY <2>0 DEF RecordFailureFails
  <2> QED BY <2>1, <2>2, <2>3, <2>4, <2>5, <2>6, <2>7 DEF PollStep
<1>7. ASSUME NEW q \in Pass, NEW n \in Meter
      PROVE  /\ Unsettled(q, n)' => Unsettled(q, n)
             /\ poll'[q][n].pc # "rejected"
             /\ poll'[q][n].due # {} => poll'[q][n].pc \in {"pushing", "announcing"}
             /\ poll'[q][n].pc \in {"listed", "fetching", "recording"} =>
                   poll'[q][n].row = stored'[n]
             /\ poll'[q][n].pc \in {"pushing", "stamping"} =>
                   poll'[q][n].row.lastAnomalyOn = stored'[n].lastAnomalyOn
  <2>1. CASE q = p /\ n = m
    BY <1>2, <1>6, <2>1
  <2>2. CASE <<q, n>> # <<p, m>>
    <3>1. poll'[q][n] = poll[q][n]
      BY <1>0, <2>2, PollStepEffect
    <3>2. Unsettled(q, n) => n # m
      BY <1>2, <2>2, SafeExcludes
    <3>3. Unsettled(q, n) => stored'[n] = stored[n]
      BY <1>0, <3>2, PollStepEffect
    <3>4. poll[q][n].pc \in {"listed", "fetching", "recording", "pushing", "stamping"}
             => Unsettled(q, n)
      BY DEF Unsettled, Active, ActivePc
    <3>5. Unsettled(q, n)' => Unsettled(q, n)
      BY <3>1 DEF Unsettled, Active
    <3> QED BY <1>0, <3>1, <3>3, <3>4, <3>5 DEF NoneRejected, DueWhileSending, RowsFresh
  <2> QED BY <2>1, <2>2
<1>8. /\ WorkInsideSweep' /\ NoneRejected' /\ ListedSaved' /\ DueWhileSending' /\ RowsFresh'
  BY <1>0, <1>1, <1>7 DEF WorkInsideSweep, NoneRejected, ListedSaved, DueWhileSending,
     RowsFresh, PollVars
<1> QED BY <1>5, <1>8 DEF SafeInv

LEMMA SafeEnvironment ==
    ASSUME Faults = {}, SafeInv, TypeOK', Environment
    PROVE  SafeInv'
<1>0. /\ TypeOK /\ HolderOnly /\ WorkInsideSweep /\ NoneRejected
      /\ ListedSaved /\ DueWhileSending /\ RowsFresh
  BY DEF SafeInv
<1>1. CASE \E p \in Pass : CronTick(p)
  BY <1>1, SafePassStep
<1>2. ~ \E p \in Pass : LoseSession(p)
  BY DEF LoseSession
<1>3. CASE \E i \in Instance : CrashRestart(i)
  <2>1. PICK i \in Instance : CrashRestart(i)
    BY <1>3
  <2>2. /\ \A q \in Pass : passPc'[q] = IF Host[q] = i THEN "idle" ELSE passPc[q]
        /\ \A q \in Pass, m \in Meter :
              poll'[q][m] = IF Host[q] = i THEN NoPoll ELSE poll[q][m]
        /\ lockOwner' = IF lockOwner # NoPass /\ Host[lockOwner] = i
                        THEN NoPass ELSE lockOwner
        /\ UNCHANGED <<stored, meterStatus>>
    BY <2>1 DEF CrashRestart, dbVars
  <2>3. HolderOnly'
    BY <1>0, <2>2 DEF HolderOnly
  <2>4. /\ NoPoll.pc = "none" /\ NoPoll.due = {}
    BY DEF NoPoll
  <2>5. \A q \in Pass, m \in Meter :
           Unsettled(q, m)' => Unsettled(q, m) /\ Host[q] # i
    BY <2>2, <2>4 DEF Unsettled, Active, ActivePc
  <2>6. WorkInsideSweep' /\ ListedSaved'
    BY <1>0, <2>2, <2>5 DEF WorkInsideSweep, ListedSaved
  <2>7. NoneRejected' /\ DueWhileSending' /\ RowsFresh'
    BY <1>0, <2>2, <2>4 DEF NoneRejected, DueWhileSending, RowsFresh
  <2> QED BY <2>3, <2>6, <2>7 DEF SafeInv
<1>4. CASE \E m \in Meter : AddMeter(m)
  <2>1. /\ UNCHANGED <<lockOwner, passPc, poll, stored>>
        /\ \A n \in Meter : meterStatus[n] = "saved" => meterStatus'[n] = "saved"
    BY <1>0, <1>4 DEF AddMeter, TypeOK
  <2>2. \A q \in Pass, m \in Meter : Unsettled(q, m)' => Unsettled(q, m)
    BY <2>1 DEF Unsettled, Active
  <2> QED BY <1>0, <2>1, <2>2 DEF SafeInv, HolderOnly, WorkInsideSweep, NoneRejected,
         ListedSaved, DueWhileSending, RowsFresh
<1>5. CASE \E m \in Meter : RemoveMeter(m)
  <2>1. PICK m \in Meter : RemoveMeter(m)
    BY <1>5
  <2>2. /\ UNCHANGED <<lockOwner, passPc, poll>>
        /\ \A q \in Pass : ~Unsettled(q, m)
        /\ \A n \in Meter : n # m => /\ meterStatus'[n] = meterStatus[n]
                                    /\ stored'[n] = stored[n]
    BY <1>0, <2>1 DEF RemoveMeter, TypeOK
  <2>3. \A q \in Pass, n \in Meter : Unsettled(q, n)' => Unsettled(q, n) /\ n # m
    BY <2>2 DEF Unsettled, Active
  <2>4. HolderOnly' /\ WorkInsideSweep' /\ NoneRejected' /\ ListedSaved' /\ DueWhileSending'
    BY <1>0, <2>2, <2>3 DEF HolderOnly, WorkInsideSweep, NoneRejected, ListedSaved,
       DueWhileSending
  <2>5. \A q \in Pass, n \in Meter :
           poll[q][n].pc \in {"listed", "fetching", "recording", "pushing", "stamping"}
              => n # m
    BY <2>2 DEF Unsettled, Active, ActivePc
  <2>6. RowsFresh'
    BY <1>0, <2>2, <2>5 DEF RowsFresh
  <2> QED BY <2>4, <2>6 DEF SafeInv
<1>6. CASE (\E u \in User : ChangeSettings(u)) \/ NextDay
  <2>1. UNCHANGED <<lockOwner, passPc, poll, stored, meterStatus>>
    BY <1>6 DEF ChangeSettings, NextDay
  <2> QED BY <1>0, <2>1 DEF SafeInv, HolderOnly, WorkInsideSweep, NoneRejected,
         ListedSaved, DueWhileSending, RowsFresh, Unsettled, Active
<1> QED BY <1>1, <1>2, <1>3, <1>4, <1>5, <1>6 DEF Environment

LEMMA SafeStep ==
    ASSUME Faults = {}
    PROVE  SafeInv /\ TypeOK' /\ [Next]_vars => SafeInv'
<1> SUFFICES ASSUME SafeInv, TypeOK', [Next]_vars PROVE SafeInv'
  OBVIOUS
<1>1. CASE \E p \in Pass : PassStep(p)
  BY <1>1, SafePassStep
<1>2. CASE \E p \in Pass, m \in Meter : PollStep(p, m)
  BY <1>2, SafePollStep
<1>3. CASE Environment
  BY <1>3, SafeEnvironment
<1>4. CASE UNCHANGED vars
  BY <1>4 DEF vars, SafeInv, HolderOnly, WorkInsideSweep, NoneRejected,
     ListedSaved, DueWhileSending, RowsFresh, Unsettled, Active
<1> QED BY <1>1, <1>2, <1>3, <1>4 DEF Next

LEMMA SafeInvariant ==
    ASSUME Faults = {}
    PROVE  Spec => []SafeInv
<1>1. SafeInv /\ TypeOK' /\ [Next]_vars => SafeInv'
  BY SafeStep
<1> QED BY <1>1, SafeInit, TypeCorrect, PTL DEF Spec

\* While no fault breaks the lock, two passes never work at once, and the row a
\* poll carries from the start of its pass is what the table still holds when
\* evaluate() and recordSuccess use it: whatever the number of instances, the
\* batch size, the crashes, the API calls and the midnight in between.
THEOREM RowsStayFresh ==
    ASSUME Faults = {}
    PROVE  Spec => [](SweepsExclude /\ RowsFresh)
<1>1. SafeInv => SweepsExclude /\ RowsFresh
  <2> SUFFICES ASSUME SafeInv PROVE SweepsExclude
    BY DEF SafeInv
  <2>1. \A p \in Pass : InSweep(p) => lockOwner = p
    BY DEF SafeInv, InSweep, HolderOnly, WorkInsideSweep, Unsettled
  <2> QED BY <2>1 DEF SweepsExclude
<1> QED BY <1>1, SafeInvariant, PTL

\* While no fault breaks the lock, the sweeps of two passes never overlap, from
\* the listing of the meters to the last poll, whichever instances they run on.
THEOREM PassesExclude ==
    ASSUME Faults = {}
    PROVE  Spec => []SweepsExclude
<1>1. SweepsExclude /\ RowsFresh => SweepsExclude
  OBVIOUS
<1> QED BY <1>1, RowsStayFresh, PTL

-----------------------------------------------------------------------------
(***************************************************************************)
(* Action properties, from SafeInv.                                        *)
(***************************************************************************)

\* A balance alert becomes due in recordSuccess and nowhere else.
LEMMA NewlyDueRecorded ==
    ASSUME TypeOK, [Next]_vars, NEW m \in Meter, NEW kind \in BalanceAlert,
           NewlyDue(m, kind)
    PROVE  \E p \in Pass :
              /\ RecordSuccess(p, m)
              /\ kind \in Evaluate(poll[p][m].row, poll[p][m].reading,
                                  poll[p][m].settings).alerts
<1>1. PICK p \in Pass : kind \in poll'[p][m].due /\ kind \notin poll[p][m].due
  BY DEF NewlyDue, DueOf
<1>2. poll[p][m] \in Poll
  BY DEF TypeOK
<1>3. kind \notin NoPoll.due /\ kind \notin ListedPoll(m).due
  BY DEF NoPoll, ListedPoll
<1>4. ASSUME NEW q \in Pass, PassStep(q) \/ CronTick(q)
      PROVE  FALSE
  <2>1. \/ poll'[p][m] = poll[p][m]
        \/ poll'[p][m] = NoPoll
        \/ poll'[p][m] = ListedPoll(m)
        \/ poll'[p][m] = [poll[p][m] EXCEPT !.pc = "fetching"]
    BY <1>4, PassStepPolls
  <2> QED BY <1>1, <1>2, <1>3, <2>1 DEF Poll
<1>5. CASE \E q \in Pass, n \in Meter : PollStep(q, n)
  <2>1. PICK q \in Pass, n \in Meter : PollStep(q, n)
    BY <1>5
  <2>2. q = p /\ n = m
    BY <1>1, <2>1, PollStepEffect
  <2>3. \A new : SetPoll(p, m, new) => poll'[p][m] = new
    BY SetPollEffect DEF TypeOK, PollTypeOK
  <2>4. CASE RecordSuccess(p, m)
    <3>1. poll'[p][m].due = Evaluate(poll[p][m].row, poll[p][m].reading,
                                     poll[p][m].settings).alerts
      BY <1>2, <2>3, <2>4 DEF RecordSuccess, Poll
    <3> QED BY <1>1, <2>4, <3>1
  <2>5. CASE FetchSnapshot(p, m) \/ Push(p, m) \/ FindAnomaly(p, m)
    BY <1>1, <1>2, <2>3, <2>5 DEF FetchSnapshot, Push, FindAnomaly, Poll
  <2>6. CASE FetchFails(p, m) \/ RecordSuccessFails(p, m) \/ PushFails(p, m)
             \/ NoAnomaly(p, m) \/ StampFails(p, m) \/ AnnounceAnomaly(p, m)
             \/ RecordFailure(p, m) \/ RecordFailureFails(p, m)
    BY <1>1, <1>2, <2>3, <2>6 DEF FetchFails, RecordSuccessFails, PushFails, NoAnomaly,
       StampFails, AnnounceAnomaly, RecordFailure, RecordFailureFails, Poll
  <2>7. CASE StampAnomaly(p, m)
    BY <1>1, <1>2, <2>3, <2>7 DEF StampAnomaly, Poll, BalanceAlert
  <2> QED BY <2>1, <2>2, <2>4, <2>5, <2>6, <2>7 DEF PollStep
<1>6. CASE UNCHANGED poll
  BY <1>1, <1>6
<1>7. ~ \E i \in Instance : CrashRestart(i)
  BY <1>1, <1>3 DEF CrashRestart
<1> QED BY <1>4, <1>5, <1>6, <1>7 DEF Next, Environment, LoseSession, AddMeter,
       RemoveMeter, ChangeSettings, NextDay, vars

\* What recordSuccess leaves about the meter, given a fresh row.
LEMMA RecordSuccessEffect ==
    ASSUME SafeInv, NEW p \in Pass, NEW m \in Meter, RecordSuccess(p, m)
    PROVE  LET reading    == poll[p][m].reading
               evaluation == Evaluate(stored[m], reading, poll[p][m].settings)
           IN  /\ poll[p][m].row = stored[m]
               /\ stored'[m].severity = evaluation.severity
               /\ stored'[m].lastRechargeToken = evaluation.lastRechargeToken
               /\ stored'[m].lastBalanceAt = reading.at
               /\ stored'[m].lastAnomalyOn = stored[m].lastAnomalyOn
<1>1. poll[p][m].row = stored[m]
  BY DEF SafeInv, RowsFresh, RecordSuccess
<1>2. stored \in [Meter -> AlertState] /\ stored[m] \in AlertState
  BY DEF SafeInv, TypeOK
<1> DEFINE reading    == poll[p][m].reading
           evaluation == Evaluate(poll[p][m].row, reading, poll[p][m].settings)
<1>3. stored'[m] = Recorded(stored[m], evaluation, reading)
  BY <1>2 DEF RecordSuccess
<1> HIDE DEF evaluation
<1>4. /\ stored'[m].severity = evaluation.severity
      /\ stored'[m].lastRechargeToken = evaluation.lastRechargeToken
      /\ stored'[m].lastBalanceAt = reading.at
      /\ stored'[m].lastAnomalyOn = stored[m].lastAnomalyOn
  BY <1>2, <1>3 DEF Recorded, AlertState
<1> QED BY <1>1, <1>4 DEF evaluation

\* What the policy says of an alert it makes due.
LEMMA EvaluateAlerts ==
    ASSUME NEW row, NEW reading, NEW choice
    PROVE  LET evaluation == Evaluate(row, reading, choice)
           IN  /\ "LOW_BALANCE" \in evaluation.alerts
                     \/ "BALANCE_DEPLETED" \in evaluation.alerts =>
                    SeverityRank(evaluation.severity) > SeverityRank(row.severity)
               /\ "RECHARGE_DETECTED" \in evaluation.alerts =>
                    /\ row.lastRechargeToken # NoToken
                    /\ evaluation.lastRechargeToken # row.lastRechargeToken
  BY DEF Evaluate, BalanceAlert, IsNewRecharge, Worsened

\* No two polls ever announce one crossing: an alert becomes due only in the
\* step that makes the stored severity worse, or replaces the stored token.
THEOREM AlertsFollowWorsening ==
    ASSUME Faults = {}
    PROVE  Spec => AlertsOnWorseningOnly
<1>1. ASSUME SafeInv, [Next]_vars, NEW m \in Meter
      PROVE  /\ NewlyDue(m, "LOW_BALANCE") \/ NewlyDue(m, "BALANCE_DEPLETED") =>
                   SeverityRank(stored'[m].severity) > SeverityRank(stored[m].severity)
             /\ NewlyDue(m, "RECHARGE_DETECTED") =>
                   /\ stored[m].lastRechargeToken # NoToken
                   /\ stored'[m].lastRechargeToken # stored[m].lastRechargeToken
  <2>1. TypeOK
    BY <1>1 DEF SafeInv
  <2>2. ASSUME NEW kind \in BalanceAlert, NewlyDue(m, kind)
        PROVE  \E reading, choice :
                  LET evaluation == Evaluate(stored[m], reading, choice)
                  IN  /\ kind \in evaluation.alerts
                      /\ stored'[m].severity = evaluation.severity
                      /\ stored'[m].lastRechargeToken = evaluation.lastRechargeToken
    <3>1. PICK p \in Pass : /\ RecordSuccess(p, m)
                            /\ kind \in Evaluate(poll[p][m].row, poll[p][m].reading,
                                                poll[p][m].settings).alerts
      BY <1>1, <2>1, <2>2, NewlyDueRecorded
    <3> QED BY <1>1, <3>1, RecordSuccessEffect
  <2> QED BY <2>2, EvaluateAlerts DEF BalanceAlert
<1>2. SafeInv /\ [Next]_vars =>
         [\A m \in Meter :
            /\ NewlyDue(m, "LOW_BALANCE") \/ NewlyDue(m, "BALANCE_DEPLETED") =>
                  SeverityRank(stored'[m].severity) > SeverityRank(stored[m].severity)
            /\ NewlyDue(m, "RECHARGE_DETECTED") =>
                  /\ stored[m].lastRechargeToken # NoToken
                  /\ stored'[m].lastRechargeToken # stored[m].lastRechargeToken]_vars
  BY <1>1
<1> QED BY <1>2, SafeInvariant, PTL DEF Spec, AlertsOnWorseningOnly

\* A window goes on record in recordSuccess and nowhere else.
LEMMA NewSampleRecorded ==
    ASSUME TypeOK, [Next]_vars, NEW m \in Meter, NEW w \in samples'[m] \ samples[m]
    PROVE  \E p \in Pass :
              /\ RecordSuccess(p, m)
              /\ w \in SampleWindows(poll[p][m].row, poll[p][m].reading)
<1>1. CASE UNCHANGED samples
  BY <1>1
<1>2. CASE \E n \in Meter : RemoveMeter(n)
  BY <1>2 DEF RemoveMeter, TypeOK
<1>3. CASE \E p \in Pass, n \in Meter : RecordSuccess(p, n)
  <2>1. PICK p \in Pass, n \in Meter : RecordSuccess(p, n)
    BY <1>3
  <2>2. samples' = [samples EXCEPT ![n] = InsertWindows(samples[n],
                       SampleWindows(poll[p][n].row, poll[p][n].reading))]
    BY <2>1 DEF RecordSuccess
  <2>3. n = m /\ w \in InsertWindows(samples[m],
                            SampleWindows(poll[p][m].row, poll[p][m].reading))
    BY <2>2 DEF TypeOK
  <2> QED BY <2>1, <2>3 DEF InsertWindows
<1>4. ASSUME NEW p \in Pass, PassStep(p) \/ CronTick(p) \/ LoseSession(p)
      PROVE  UNCHANGED samples
  BY <1>4 DEF PassStep, TryLock, StandDown, ListMeters, ListFails, StartBatch, FinishSweep,
     AbortSweep, Unlock, Return, CronTick, LoseSession, dbVars
<1>5. ASSUME NEW p \in Pass, NEW n \in Meter, PollStep(p, n), ~RecordSuccess(p, n)
      PROVE  UNCHANGED samples
  BY <1>5 DEF PollStep, FetchSnapshot, FetchFails, RecordSuccessFails, Push, PushFails,
     NoAnomaly, FindAnomaly, StampAnomaly, StampFails, AnnounceAnomaly, RecordFailure,
     RecordFailureFails
<1>6. ASSUME \/ \E i \in Instance : CrashRestart(i)
             \/ \E n \in Meter : AddMeter(n)
             \/ \E u \in User : ChangeSettings(u)
             \/ NextDay \/ UNCHANGED vars
      PROVE  UNCHANGED samples
  BY <1>6 DEF CrashRestart, AddMeter, ChangeSettings, NextDay, dbVars, vars
<1> QED BY <1>1, <1>2, <1>3, <1>4, <1>5, <1>6 DEF Next, Environment

\* Each window on record starts where the state it replaced ended and ends where
\* the state written with it does: the duplicate guard of the primary key only
\* ever meets windows taken from the table's own chain of readings.
THEOREM WindowsFollowState ==
    ASSUME Faults = {}
    PROVE  Spec => WindowsChain
<1>1. ASSUME SafeInv, [Next]_vars, NEW m \in Meter, NEW w \in samples'[m] \ samples[m]
      PROVE  /\ w.windowStart = stored[m].lastBalanceAt
             /\ w.windowEnd = stored'[m].lastBalanceAt
  <2>1. PICK p \in Pass :
           /\ RecordSuccess(p, m)
           /\ w \in SampleWindows(poll[p][m].row, poll[p][m].reading)
    BY <1>1, NewSampleRecorded DEF SafeInv
  <2>2. /\ w.windowStart = poll[p][m].row.lastBalanceAt
        /\ w.windowEnd = poll[p][m].reading.at
    BY <2>1 DEF SampleWindows
  <2>3. /\ poll[p][m].row = stored[m]
        /\ stored'[m].lastBalanceAt = poll[p][m].reading.at
    BY <1>1, <2>1, RecordSuccessEffect
  <2> QED BY <2>2, <2>3
<1>2. SafeInv /\ [Next]_vars =>
         [\A m \in Meter : \A w \in samples'[m] \ samples[m] :
            /\ w.windowStart = stored[m].lastBalanceAt
            /\ w.windowEnd = stored'[m].lastBalanceAt]_vars
  BY <1>1
<1> QED BY <1>2, SafeInvariant, PTL DEF Spec, WindowsChain

\* A pass that leaves the batch loop has polled every meter it listed.
THEOREM PassesCover ==
    ASSUME Faults = {}
    PROVE  Spec => PassCoversEveryMeter
<1>1. ASSUME SafeInv, [Next]_vars, NEW p \in Pass,
             passPc[p] = "sweeping", passPc'[p] = "unlocking"
      PROVE  \A m \in Meter : ~Unsettled(p, m)
  <2>1. TypeOK /\ NoneRejected
    BY <1>1 DEF SafeInv
  <2>2. CASE \E q \in Pass : PassStep(q) \/ CronTick(q)
    <3>1. PICK q \in Pass : PassStep(q) \/ CronTick(q)
      BY <2>2
    <3>2. ~AbortSweep(q)
      BY <2>1 DEF AbortSweep, Rejected, NoneRejected
    <3>3. FinishSweep(p)
      BY <1>1, <2>1, <3>1, <3>2 DEF PassStep, CronTick, TryLock, StandDown, ListMeters,
         ListFails, StartBatch, FinishSweep, Unlock, Return, GoTo, TypeOK
    <3> QED BY <3>3 DEF FinishSweep, Unsettled, Listed
  <2>3. CASE UNCHANGED passPc
    BY <1>1, <2>3
  <2>4. ~ \E i \in Instance : CrashRestart(i)
    BY <1>1 DEF CrashRestart
  <2>5. ASSUME NEW q \in Pass, NEW m \in Meter, PollStep(q, m)
        PROVE  UNCHANGED passPc
    BY <2>5, PollStepKeepsPasses DEF PollVars
  <2> QED BY <1>1, <2>2, <2>3, <2>4, <2>5 DEF Next, Environment, LoseSession, AddMeter,
         RemoveMeter, ChangeSettings, NextDay, vars
<1>2. SafeInv /\ [Next]_vars =>
         [\A p \in Pass :
            passPc[p] = "sweeping" /\ passPc'[p] = "unlocking" =>
               \A m \in Meter : ~Unsettled(p, m)]_vars
  BY <1>1
<1> QED BY <1>2, SafeInvariant, PTL DEF Spec, PassCoversEveryMeter

-----------------------------------------------------------------------------
(***************************************************************************)
(* The sweep implements AlertFeed.                                         *)
(***************************************************************************)
Owed == [m \in Meter |-> DueOf(m)]

LEMMA FeedInit == Init => Feed!Init
<1> SUFFICES ASSUME Init PROVE Feed!Init
  OBVIOUS
<1>1. \A p \in Pass, m \in Meter : poll[p][m].due = {}
  BY DEF Init, NoPoll
<1>2. Owed = [m \in Meter |-> {}]
  BY <1>1 DEF Owed, DueOf
<1> QED BY <1>2 DEF Init, Feed!Init, Owed, DueOf

\* The policy AlertFeed uses is the sweep's own.
LEMMA FeedEvaluate ==
    ASSUME NEW row, NEW reading, NEW choice
    PROVE  Feed!Evaluate(row, reading, choice) = Evaluate(row, reading, choice)
<1>1. DEFAULT_USER_SETTINGS = Feed!DEFAULT_USER_SETTINGS
  BY DEF DEFAULT_USER_SETTINGS, Feed!DEFAULT_USER_SETTINGS
<1>2. Resolve(choice) = Feed!Resolve(choice)
  BY <1>1 DEF Resolve, Feed!Resolve
<1>4. LatestRechargeToken(reading.recharges) = Feed!LatestRechargeToken(reading.recharges)
  BY DEF LatestRechargeToken, Feed!LatestRechargeToken, IsLatestRecharge, Feed!IsLatestRecharge
<1>5. \A balance, threshold : SeverityFor(balance, threshold) = Feed!SeverityFor(balance, threshold)
  BY DEF SeverityFor, Feed!SeverityFor
<1>6. \A severity : SeverityRank(severity) = Feed!SeverityRank(severity)
  BY DEF SeverityRank, Feed!SeverityRank
<1>7. BalanceAlert = Feed!BalanceAlert
  BY DEF BalanceAlert, Feed!BalanceAlert
<1> QED BY <1>2, <1>4, <1>5, <1>6, <1>7 DEF Evaluate, Feed!Evaluate, IsNewRecharge,
       Feed!IsNewRecharge, Worsened, Feed!Worsened

\* What a poll's copies are good for: the settings it applies are some a user
\* saved, and the day it is about to stamp is later than the one it read.
CopyInv ==
    \A p \in Pass, m \in Meter :
       /\ Unsettled(p, m) => poll[p][m].settings \in SettingsChoices
       /\ poll[p][m].pc = "stamping" =>
             poll[p][m].finding \in Day /\ poll[p][m].finding > poll[p][m].row.lastAnomalyOn

LEMMA CopyInit == Init => CopyInv
  BY DEF Init, CopyInv, NoPoll, Unsettled, Active, ActivePc

\* A step of pollMeter keeps the settings, and the finding unless it finds one.
LEMMA PollStepCopies ==
    ASSUME TypeOK, NEW p \in Pass, NEW m \in Meter, PollStep(p, m)
    PROVE  /\ poll'[p][m].settings = poll[p][m].settings
           /\ poll'[p][m].pc = "stamping" =>
                 /\ poll'[p][m].finding \in Day
                 /\ poll'[p][m].finding > poll[p][m].row.lastAnomalyOn
<1>1. poll[p][m] \in Poll
  BY DEF TypeOK
<1>2. \A new : SetPoll(p, m, new) => poll'[p][m] = new
  BY SetPollEffect DEF TypeOK, PollTypeOK
<1>3. CASE FetchSnapshot(p, m) \/ Push(p, m)
  BY <1>1, <1>2, <1>3 DEF FetchSnapshot, Push, Poll
<1>4. CASE RecordSuccess(p, m)
  BY <1>1, <1>2, <1>4 DEF RecordSuccess, Poll
<1>5. CASE FindAnomaly(p, m)
  <2>1. PICK day \in Day :
           /\ poll[p][m].row.lastAnomalyOn < day
           /\ SetPoll(p, m, [poll[p][m] EXCEPT !.pc = "stamping", !.finding = day])
    BY <1>5 DEF FindAnomaly
  <2>2. /\ poll'[p][m].settings = poll[p][m].settings
        /\ poll'[p][m].finding = day
    BY <1>1, <1>2, <2>1 DEF Poll
  <2>3. day \in Int /\ poll[p][m].row.lastAnomalyOn \in Int
    BY <1>1, ConstantsAssumption DEF Poll, AlertState, Day, NoDay
  <2> QED BY <2>1, <2>2, <2>3
<1>6. CASE FetchFails(p, m) \/ RecordSuccessFails(p, m) \/ PushFails(p, m)
           \/ NoAnomaly(p, m) \/ StampAnomaly(p, m) \/ StampFails(p, m)
           \/ AnnounceAnomaly(p, m) \/ RecordFailure(p, m) \/ RecordFailureFails(p, m)
  BY <1>1, <1>2, <1>6 DEF FetchFails, RecordSuccessFails, PushFails, NoAnomaly,
     StampAnomaly, StampFails, AnnounceAnomaly, RecordFailure, RecordFailureFails, Poll
<1> QED BY <1>3, <1>4, <1>5, <1>6 DEF PollStep

LEMMA CopyStep == TypeOK /\ CopyInv /\ [Next]_vars => CopyInv'
<1> SUFFICES ASSUME TypeOK, CopyInv, [Next]_vars, NEW q \in Pass, NEW n \in Meter
             PROVE  /\ Unsettled(q, n)' => poll'[q][n].settings \in SettingsChoices
                    /\ poll'[q][n].pc = "stamping" =>
                          /\ poll'[q][n].finding \in Day
                          /\ poll'[q][n].finding > poll'[q][n].row.lastAnomalyOn
  BY DEF CopyInv
<1>0. poll[q][n] \in Poll
  BY DEF TypeOK
<1>1. CASE poll'[q][n] = poll[q][n]
  BY <1>1 DEF CopyInv, Unsettled, Active
<1>2. CASE poll'[q][n] = NoPoll
  BY <1>2 DEF NoPoll, Unsettled, Active, ActivePc
<1>3. CASE \E p \in Pass : PassStep(p) \/ CronTick(p)
  <2>1. PICK p \in Pass : PassStep(p) \/ CronTick(p)
    BY <1>3
  <2>2. CASE poll'[q][n] = ListedPoll(n)
    <3>1. settings[Owner[n]] \in SettingsChoices
      BY ConstantsAssumption DEF TypeOK
    <3> QED BY <2>2, <3>1 DEF ListedPoll, NoPoll
  <2>3. CASE poll[q][n].pc = "listed" /\ poll'[q][n] = [poll[q][n] EXCEPT !.pc = "fetching"]
    BY <1>0, <2>3 DEF CopyInv, Unsettled, Poll
  <2> QED BY <1>1, <1>2, <2>1, <2>2, <2>3, PassStepPolls
<1>4. CASE \E p \in Pass, m \in Meter : PollStep(p, m)
  <2>1. PICK p \in Pass, m \in Meter : PollStep(p, m)
    BY <1>4
  <2>2. CASE q = p /\ n = m
    <3>1. Unsettled(q, n) /\ poll'[q][n].row = poll[q][n].row
      BY <2>1, <2>2, PollStepEffect DEF Unsettled
    <3> QED BY <2>1, <2>2, <3>1, PollStepCopies DEF CopyInv
  <2>3. CASE <<q, n>> # <<p, m>>
    BY <1>1, <2>1, <2>3, PollStepEffect
  <2> QED BY <2>2, <2>3
<1>5. CASE \E i \in Instance : CrashRestart(i)
  BY <1>1, <1>2, <1>5 DEF CrashRestart
<1> QED BY <1>1, <1>3, <1>4, <1>5 DEF Next, Environment, LoseSession, AddMeter,
       RemoveMeter, ChangeSettings, NextDay, vars

LEMMA CopyInvariant == Spec => []CopyInv
  BY CopyInit, CopyStep, TypeCorrect, PTL DEF Spec

\* A meter's alert state is written by recordSuccess, by the stamp of an
\* anomaly and by the cascade of its deletion.
LEMMA StoredEffect ==
    ASSUME TypeOK, [Next]_vars, NEW m \in Meter
    PROVE  \/ stored'[m] = stored[m]
           \/ \E p \in Pass : RecordSuccess(p, m) \/ StampAnomaly(p, m)
           \/ RemoveMeter(m)
<1>1. ASSUME NEW n \in Meter, RemoveMeter(n), n # m
      PROVE  stored'[m] = stored[m]
  BY <1>1 DEF RemoveMeter, TypeOK
<1>2. ASSUME NEW p \in Pass, PassStep(p) \/ CronTick(p) \/ LoseSession(p)
      PROVE  UNCHANGED stored
  BY <1>2 DEF PassStep, TryLock, StandDown, ListMeters, ListFails, StartBatch, FinishSweep,
     AbortSweep, Unlock, Return, CronTick, LoseSession, dbVars
<1>3. ASSUME NEW p \in Pass, NEW n \in Meter, PollStep(p, n), n # m
      PROVE  stored'[m] = stored[m]
  BY <1>3, PollStepEffect
<1>4. ASSUME NEW p \in Pass, PollStep(p, m), ~RecordSuccess(p, m), ~StampAnomaly(p, m)
      PROVE  UNCHANGED stored
  <2>1. CASE FetchSnapshot(p, m) \/ FetchFails(p, m)
    BY <2>1, Zenon DEF FetchSnapshot, FetchFails
  <2>2. CASE RecordSuccessFails(p, m)
    BY <2>2 DEF RecordSuccessFails
  <2>3. CASE Push(p, m) \/ PushFails(p, m)
    BY <2>3 DEF Push, PushFails
  <2>4. CASE NoAnomaly(p, m) \/ FindAnomaly(p, m)
    BY <2>4, Zenon DEF NoAnomaly, FindAnomaly
  <2>5. CASE StampFails(p, m) \/ AnnounceAnomaly(p, m)
    BY <2>5 DEF StampFails, AnnounceAnomaly
  <2>6. CASE RecordFailure(p, m) \/ RecordFailureFails(p, m)
    BY <2>6 DEF RecordFailure, RecordFailureFails
  <2> QED BY <1>4, <2>1, <2>2, <2>3, <2>4, <2>5, <2>6 DEF PollStep
<1>5. ASSUME \/ \E i \in Instance : CrashRestart(i)
             \/ \E n \in Meter : AddMeter(n)
             \/ \E u \in User : ChangeSettings(u)
             \/ NextDay \/ UNCHANGED vars
      PROVE  UNCHANGED stored
  BY <1>5 DEF CrashRestart, AddMeter, ChangeSettings, NextDay, dbVars, vars
<1> QED BY <1>1, <1>2, <1>3, <1>4, <1>5 DEF Next, Environment

\* The day a stamp writes is later than the one it replaces.
LEMMA StampEffect ==
    ASSUME SafeInv, CopyInv, NEW p \in Pass, NEW m \in Meter, StampAnomaly(p, m)
    PROVE  /\ poll[p][m].finding \in Day
           /\ poll[p][m].finding > stored[m].lastAnomalyOn
           /\ stored' = [stored EXCEPT ![m] =
                            [stored[m] EXCEPT !.lastAnomalyOn = poll[p][m].finding]]
<1>1. poll[p][m].pc = "stamping"
  BY DEF StampAnomaly
<1>2. /\ poll[p][m].finding \in Day
      /\ poll[p][m].finding > poll[p][m].row.lastAnomalyOn
  BY <1>1 DEF CopyInv
<1>3. poll[p][m].row.lastAnomalyOn = stored[m].lastAnomalyOn
  BY <1>1 DEF SafeInv, RowsFresh
<1>4. meterStatus[m] = "saved"
  BY <1>1 DEF SafeInv, ListedSaved, Unsettled, Active, ActivePc
<1>5. stored' = [stored EXCEPT ![m].lastAnomalyOn = poll[p][m].finding]
  BY <1>4 DEF StampAnomaly
<1> QED BY <1>2, <1>3, <1>5

\* No day's usage is announced twice while the meter exists: the stamped day
\* never moves back.
THEOREM AnomalyDaysAdvance ==
    ASSUME Faults = {}
    PROVE  Spec => AnomalyDayAdvances
<1>1. ASSUME SafeInv, CopyInv, [Next]_vars, NEW m \in Meter, meterStatus'[m] # "removed"
      PROVE  stored'[m].lastAnomalyOn >= stored[m].lastAnomalyOn
  <2>1. TypeOK
    BY <1>1 DEF SafeInv
  <2>2. stored[m] \in AlertState /\ stored[m].lastAnomalyOn \in Int
    BY <2>1, ConstantsAssumption DEF TypeOK, AlertState, Day, NoDay
  <2>3. CASE stored'[m] = stored[m]
    BY <2>2, <2>3
  <2>4. CASE \E p \in Pass : RecordSuccess(p, m)
    BY <1>1, <2>2, <2>4, RecordSuccessEffect
  <2>5. CASE \E p \in Pass : StampAnomaly(p, m)
    <3>1. PICK p \in Pass : StampAnomaly(p, m)
      BY <2>5
    <3>2. /\ poll[p][m].finding \in Day
          /\ poll[p][m].finding > stored[m].lastAnomalyOn
          /\ stored' = [stored EXCEPT ![m] =
                           [stored[m] EXCEPT !.lastAnomalyOn = poll[p][m].finding]]
      BY <1>1, <3>1, StampEffect
    <3>3. stored'[m].lastAnomalyOn = poll[p][m].finding
      BY <2>1, <2>2, <3>2 DEF TypeOK, AlertState
    <3>4. poll[p][m].finding \in Int
      BY <3>2, ConstantsAssumption DEF Day
    <3> QED BY <2>2, <3>2, <3>3, <3>4
  <2>6. ~RemoveMeter(m)
    BY <1>1, <2>1 DEF RemoveMeter, TypeOK
  <2> QED BY <1>1, <2>1, <2>3, <2>4, <2>5, <2>6, StoredEffect
<1>2. SafeInv /\ CopyInv /\ [Next]_vars =>
         [\A m \in Meter :
            meterStatus'[m] # "removed" =>
               stored'[m].lastAnomalyOn >= stored[m].lastAnomalyOn]_vars
  BY <1>1
<1> QED BY <1>2, SafeInvariant, CopyInvariant, PTL DEF Spec, AnomalyDayAdvances

-----------------------------------------------------------------------------
\* A meter that a poll is still settling owes what that poll owes.
LEMMA OwedByOnePoll ==
    ASSUME SafeInv, NEW p \in Pass, NEW m \in Meter, Unsettled(p, m)
    PROVE  /\ \A q \in Pass : q # p => poll[q][m].due = {}
           /\ DueOf(m) = poll[p][m].due
<1>1. ASSUME NEW q \in Pass, q # p
      PROVE  poll[q][m].due = {}
  <2>1. ~Unsettled(q, m)
    BY <1>1, SafeExcludes
  <2> QED BY <2>1 DEF SafeInv, DueWhileSending, Unsettled, Active, ActivePc
<1> QED BY <1>1 DEF DueOf

\* A step of pollMeter changes what its own meter owes, to what the poll owes.
LEMMA PollStepOwed ==
    ASSUME SafeInv, NEW p \in Pass, NEW m \in Meter, PollStep(p, m)
    PROVE  /\ Owed[m] = poll[p][m].due
           /\ Owed' = [Owed EXCEPT ![m] = poll'[p][m].due]
<1>1. TypeOK
  BY DEF SafeInv
<1>2. Unsettled(p, m)
  BY <1>1, PollStepEffect DEF Unsettled
<1>3. /\ \A q \in Pass : q # p => poll[q][m].due = {}
      /\ DueOf(m) = poll[p][m].due
  BY <1>2, OwedByOnePoll
<1>4. \A q \in Pass, n \in Meter : <<q, n>> # <<p, m>> => poll'[q][n] = poll[q][n]
  BY <1>1, PollStepEffect
<1>5. DueOf(m)' = poll'[p][m].due
  BY <1>3, <1>4 DEF DueOf
<1>6. \A n \in Meter : n # m => DueOf(n)' = DueOf(n)
  BY <1>4 DEF DueOf
<1> QED BY <1>3, <1>5, <1>6 DEF Owed

\* Passes come and go without deciding, sending or losing an alert.
LEMMA PassStepOwed ==
    ASSUME SafeInv, NEW p \in Pass, PassStep(p) \/ CronTick(p)
    PROVE  UNCHANGED <<stored, Owed>>
<1>1. UNCHANGED stored
  BY DEF PassStep, CronTick, TryLock, StandDown, ListMeters, ListFails,
     StartBatch, FinishSweep, AbortSweep, Unlock, Return, dbVars
<1>2. TypeOK /\ WorkInsideSweep /\ NoneRejected /\ DueWhileSending
  BY DEF SafeInv
<1>3. ~AbortSweep(p)
  BY <1>2 DEF AbortSweep, Rejected, NoneRejected
<1>4. ASSUME NEW m \in Meter, CronTick(p) \/ Return(p) \/ ListMeters(p)
      PROVE  poll[p][m].due = {}
  <2>1. passPc[p] # "sweeping"
    BY <1>4 DEF CronTick, Return, ListMeters
  <2> QED BY <1>2, <2>1 DEF WorkInsideSweep, DueWhileSending, Unsettled, Active, ActivePc
<1>5. ASSUME NEW q \in Pass, NEW m \in Meter
      PROVE  poll'[q][m].due = poll[q][m].due
  <2>1. poll[q][m] \in Poll
    BY <1>2 DEF TypeOK
  <2>2. NoPoll.due = {} /\ ListedPoll(m).due = {}
    BY DEF NoPoll, ListedPoll
  <2>3. [poll[q][m] EXCEPT !.pc = "fetching"].due = poll[q][m].due
    BY <2>1 DEF Poll
  <2>4. \/ poll'[q][m] = poll[q][m]
        \/ q = p /\ (CronTick(p) \/ Return(p) \/ ListMeters(p))
           /\ (poll'[q][m] = NoPoll \/ poll'[q][m] = ListedPoll(m))
        \/ poll'[q][m] = [poll[q][m] EXCEPT !.pc = "fetching"]
    BY <1>2, <1>3, PassStepPolls
  <2> QED BY <1>4, <2>2, <2>3, <2>4
<1>6. \A m \in Meter : DueOf(m)' = DueOf(m)
  BY <1>5 DEF DueOf
<1> QED BY <1>1, <1>6 DEF Owed

\* A process that dies loses what its polls had still to send.
LEMMA CrashOwed ==
    ASSUME SafeInv, NEW i \in Instance, CrashRestart(i)
    PROVE  \E lost \in SUBSET Meter :
              Owed' = [m \in Meter |-> IF m \in lost THEN {} ELSE Owed[m]]
<1> DEFINE lost == {m \in Meter : \E p \in Pass : Host[p] = i /\ poll[p][m].due # {}}
<1>1. \A p \in Pass, m \in Meter :
         poll'[p][m] = IF Host[p] = i THEN NoPoll ELSE poll[p][m]
  BY DEF CrashRestart
<1>2. NoPoll.due = {}
  BY DEF NoPoll
<1>3. ASSUME NEW m \in lost
      PROVE  DueOf(m)' = {}
  <2>1. PICK p \in Pass : Host[p] = i /\ poll[p][m].due # {}
    BY <1>3
  <2>2. Unsettled(p, m)
    BY <2>1 DEF SafeInv, DueWhileSending, Unsettled, Active, ActivePc
  <2>3. \A q \in Pass : q # p => poll[q][m].due = {}
    BY <2>2, OwedByOnePoll
  <2> QED BY <1>1, <1>2, <2>1, <2>3 DEF DueOf
<1>4. ASSUME NEW m \in Meter, m \notin lost
      PROVE  DueOf(m)' = DueOf(m)
  <2>1. \A p \in Pass : poll'[p][m].due = poll[p][m].due
    BY <1>1, <1>2, <1>4
  <2> QED BY <2>1 DEF DueOf
<1>5. Owed' = [m \in Meter |-> IF m \in lost THEN {} ELSE Owed[m]]
  BY <1>3, <1>4 DEF Owed
<1> HIDE DEF lost
<1>6. lost \in SUBSET Meter
  BY DEF lost
<1> QED BY <1>5, <1>6

\* recordSuccess judges the reading against what is stored, as Observe does.
LEMMA RecordSuccessObserves ==
    ASSUME TypeInv, SafeInv, CopyInv, NEW p \in Pass, NEW m \in Meter,
           RecordSuccess(p, m)
    PROVE  Feed!Observe(m)
<1>1. poll[p][m].pc = "recording" /\ poll[p][m] \in Poll
  BY DEF RecordSuccess, TypeInv, TypeOK
<1>2. poll[p][m].due = {}
  BY <1>1 DEF SafeInv, DueWhileSending
<1>3. poll[p][m].reading \in Readings
  BY <1>1 DEF TypeInv, ReadingTaken
<1>4. poll[p][m].settings \in SettingsChoices
  BY <1>1 DEF CopyInv, Unsettled, Active, ActivePc
<1>5. poll[p][m].row = stored[m]
  BY <1>1 DEF SafeInv, RowsFresh
<1> DEFINE reading    == poll[p][m].reading
           choice     == poll[p][m].settings
           evaluation == Evaluate(stored[m], reading, choice)
<1>6. stored' = [stored EXCEPT ![m] = Recorded(stored[m], evaluation, reading)]
  BY <1>5 DEF RecordSuccess
<1>7. poll'[p][m].due = evaluation.alerts
  <2>1. \A new : SetPoll(p, m, new) => poll'[p][m] = new
    BY SetPollEffect DEF TypeInv, TypeOK, PollTypeOK
  <2>2. poll'[p][m] = [poll[p][m] EXCEPT !.pc = "pushing", !.reading = NoReading,
                                         !.due = evaluation.alerts]
    BY <1>5, <2>1 DEF RecordSuccess
  <2> QED BY <1>1, <2>2 DEF Poll
<1>8. Owed[m] = {} /\ Owed' = [Owed EXCEPT ![m] = evaluation.alerts]
  BY <1>2, <1>7, PollStepOwed DEF PollStep
<1>9. Feed!Evaluate(stored[m], reading, choice) = evaluation
  BY FeedEvaluate
<1>10. Feed!After(stored[m], reading, choice) = Recorded(stored[m], evaluation, reading)
  BY <1>9 DEF Feed!After, Recorded
<1> HIDE DEF evaluation
<1>11. /\ stored' = [stored EXCEPT ![m] = Feed!After(stored[m], reading, choice)]
       /\ Owed' = [Owed EXCEPT ![m] = Feed!Evaluate(stored[m], reading, choice).alerts]
  BY <1>6, <1>8, <1>9, <1>10
<1> QED BY <1>3, <1>4, <1>8, <1>11 DEF Feed!Observe, Owed

\* The other steps of pollMeter announce, lose or flag, or are not seen at all.
LEMMA PollStepMaps ==
    ASSUME TypeInv, SafeInv, CopyInv, NEW p \in Pass, NEW m \in Meter, PollStep(p, m)
    PROVE  [Feed!Next]_<<stored, Owed>>
<1> DEFINE old == poll[p][m]
           new == poll'[p][m]
<1>1. old \in Poll /\ Owed \in [Meter -> SUBSET AlertKind]
  BY DEF TypeInv, TypeOK, Owed, DueOf, Poll
<1>2. Owed[m] = old.due /\ Owed' = [Owed EXCEPT ![m] = new.due]
  BY PollStepOwed
<1>3. \A to : SetPoll(p, m, to) => new = to
  BY SetPollEffect DEF TypeInv, TypeOK, PollTypeOK
<1>4. CASE RecordSuccess(p, m)
  BY <1>4, RecordSuccessObserves DEF Feed!Next
<1>5. ASSUME UNCHANGED stored, new.due = old.due
      PROVE  UNCHANGED <<stored, Owed>>
  BY <1>1, <1>2, <1>5
<1>6. CASE FetchSnapshot(p, m)
  <2>1. PICK reading \in Readings :
           SetPoll(p, m, [old EXCEPT !.pc = "recording", !.reading = reading])
    BY <1>6, Zenon DEF FetchSnapshot
  <2>2. new = [old EXCEPT !.pc = "recording", !.reading = reading]
    BY <1>3, <2>1, Zenon
  <2>3. new.due = old.due
    BY <1>1, <2>2 DEF Poll
  <2>4. UNCHANGED stored
    BY <1>6, Zenon DEF FetchSnapshot
  <2> QED BY <1>5, <2>3, <2>4
<1>7. CASE FindAnomaly(p, m)
  <2>1. PICK day \in Day :
           SetPoll(p, m, [old EXCEPT !.pc = "stamping", !.finding = day])
    BY <1>7, Zenon DEF FindAnomaly
  <2>2. new = [old EXCEPT !.pc = "stamping", !.finding = day]
    BY <1>3, <2>1, Zenon
  <2>3. new.due = old.due
    BY <1>1, <2>2 DEF Poll
  <2>4. UNCHANGED stored
    BY <1>7, Zenon DEF FindAnomaly
  <2> QED BY <1>5, <2>3, <2>4
<1>8. CASE Push(p, m)
  <2>1. PICK kind \in old.due :
           /\ IsFirstAlert(kind, old.due)
           /\ SetPoll(p, m, [old EXCEPT !.due = @ \ {kind}])
    BY <1>8 DEF Push
  <2>2. new.due = old.due \ {kind}
    BY <1>1, <1>3, <2>1 DEF Poll
  <2>3. Owed' = [Owed EXCEPT ![m] = Owed[m] \ {kind}]
    BY <1>2, <2>2
  <2>4. kind \in Owed[m] /\ Feed!IsFirstAlert(kind, Owed[m])
    BY <1>2, <2>1 DEF IsFirstAlert, Feed!IsFirstAlert
  <2>5. UNCHANGED stored
    BY <1>8 DEF Push
  <2>6. Feed!Announce(m)
    BY <2>3, <2>4, <2>5 DEF Feed!Announce, Owed
  <2> QED BY <2>6 DEF Feed!Next
<1>9. CASE PushFails(p, m) \/ AnnounceAnomaly(p, m)
  <2>1. new.due = {} /\ UNCHANGED stored
    BY <1>1, <1>3, <1>9 DEF PushFails, AnnounceAnomaly, Poll
  <2>2. Owed' = [n \in Meter |-> IF n \in {m} THEN {} ELSE Owed[n]]
    BY <1>1, <1>2, <2>1
  <2>3. Feed!Lose({m})
    BY <2>1, <2>2 DEF Feed!Lose, Owed
  <2> QED BY <2>3 DEF Feed!Next
<1>10. CASE StampAnomaly(p, m)
  <2>1. new.due = {"USAGE_ANOMALY"} /\ old.due = {}
    BY <1>1, <1>3, <1>10 DEF StampAnomaly, Poll, SafeInv, DueWhileSending
  <2>2. /\ old.finding \in Day
        /\ old.finding > stored[m].lastAnomalyOn
        /\ stored' = [stored EXCEPT ![m] =
                         [stored[m] EXCEPT !.lastAnomalyOn = old.finding]]
    BY <1>10, StampEffect
  <2>3. Owed[m] = {} /\ Owed' = [Owed EXCEPT ![m] = {"USAGE_ANOMALY"}]
    BY <1>2, <2>1
  <2>4. Feed!FlagDay(m)
    BY <2>2, <2>3 DEF Feed!FlagDay, Owed, Day
  <2> QED BY <2>4 DEF Feed!Next
<1>11. CASE FetchFails(p, m) \/ RecordSuccessFails(p, m) \/ NoAnomaly(p, m)
            \/ StampFails(p, m) \/ RecordFailure(p, m) \/ RecordFailureFails(p, m)
  BY <1>1, <1>3, <1>5, <1>11 DEF FetchFails, RecordSuccessFails, NoAnomaly, StampFails,
     RecordFailure, RecordFailureFails, Poll
<1> QED BY <1>4, <1>6, <1>7, <1>8, <1>9, <1>10, <1>11 DEF PollStep

LEMMA FeedStep ==
    TypeInv /\ SafeInv /\ CopyInv /\ [Next]_vars => [Feed!Next]_<<stored, Owed>>
<1> SUFFICES ASSUME TypeInv, SafeInv, CopyInv, [Next]_vars
             PROVE  [Feed!Next]_<<stored, Owed>>
  OBVIOUS
<1>1. CASE \E p \in Pass : PassStep(p) \/ CronTick(p)
  BY <1>1, PassStepOwed
<1>2. CASE \E p \in Pass, m \in Meter : PollStep(p, m)
  BY <1>2, PollStepMaps
<1>3. CASE UNCHANGED <<stored, poll>>
  BY <1>3 DEF Owed, DueOf
<1>4. CASE \E i \in Instance : CrashRestart(i)
  <2>1. PICK i \in Instance : CrashRestart(i)
    BY <1>4
  <2>2. PICK lost \in SUBSET Meter :
           Owed' = [m \in Meter |-> IF m \in lost THEN {} ELSE Owed[m]]
    BY <2>1, CrashOwed
  <2>3. UNCHANGED stored
    BY <2>1 DEF CrashRestart, dbVars
  <2>4. Feed!Lose(lost)
    BY <2>2, <2>3 DEF Feed!Lose, Owed
  <2> QED BY <2>4 DEF Feed!Next
<1>5. CASE \E m \in Meter : RemoveMeter(m)
  <2>1. PICK m \in Meter : RemoveMeter(m)
    BY <1>5
  <2>2. UNCHANGED Owed /\ stored' = [stored EXCEPT ![m] = NoState]
    BY <2>1 DEF RemoveMeter, Owed, DueOf
  <2>3. Feed!Forget(m)
    BY <2>2 DEF Feed!Forget, Owed
  <2> QED BY <2>3 DEF Feed!Next
<1> QED BY <1>1, <1>2, <1>3, <1>4, <1>5 DEF Next, Environment, LoseSession, AddMeter,
       ChangeSettings, NextDay, vars, dbVars

\* The sweep implements the feed: for any number of instances, passes and
\* meters, any batch size and any crashes, each accepted reading is judged
\* against what is stored, once, and nothing else changes what is remembered
\* or owed.
THEOREM SweepImplementsFeed ==
    ASSUME Faults = {}
    PROVE  Spec => ImplementsFeed
<1>1. TypeInv /\ SafeInv /\ CopyInv /\ [Next]_vars => [Feed!Next]_Feed!vars
  BY FeedStep DEF Feed!vars, Owed
<1> QED BY <1>1, FeedInit, TypeInvariant, SafeInvariant, CopyInvariant, PTL
        DEF Spec, ImplementsFeed, Feed!Spec

=============================================================================
