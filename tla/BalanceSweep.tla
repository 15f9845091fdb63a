---------------------------- MODULE BalanceSweep ----------------------------
(***************************************************************************)
(* The scheduled balance sweep: modules/alerts/balance-sweep.service.ts    *)
(* and the advisory lock it runs under, database/advisory-lock.service.ts. *)
(*                                                                         *)
(* Several server instances share one database. On each, a cron tick       *)
(* starts a pass, which takes the lock, reads every meter with its alert   *)
(* state and its owner's settings, and polls the meters in batches. The    *)
(* steps below are the stretches of code between two awaits; everything    *)
(* that runs concurrently with them (other polls of the batch, other       *)
(* passes, other instances, API calls, the calendar) may come in between.  *)
(***************************************************************************)
EXTENDS AlertEvaluation, FiniteSets

CONSTANTS
    Instance,         \* server processes
    Pass,             \* executions of runSweep that may be under way at once
    Host,             \* the instance that runs each pass
    NoPass,           \* the lock's holder when nobody holds it
    Meter,            \* NESCO meters
    User,             \* their owners
    Owner,            \* the owner of each meter
    Concurrency,      \* ALERTS_CONCURRENCY
    Readings,         \* what the portal may answer
    NoReading,
    SettingsChoices,  \* what a user may have saved as settings
    MaxDay,           \* bound: the last Asia/Dhaka day; days are 1..MaxDay
    Faults            \* which of PossibleFaults the environment may cause

\* "remove":       a meter is deleted while a pass still has to poll it
\* "session":      the database ends the session that holds the lock
\* "failureWrite": the statement that counts a failed poll fails as well
PossibleFaults == {"remove", "session", "failureWrite"}

ASSUME ConstantsAssumption ==
    /\ Host \in [Pass -> Instance]
    /\ NoPass \notin Pass
    /\ Owner \in [Meter -> User]
    /\ Concurrency \in Nat \ {0}
    /\ Readings \subseteq Reading
    /\ NoReading \notin Readings
    /\ MaxDay \in Nat \ {0}
    /\ Faults \subseteq PossibleFaults

VARIABLES
    running,      \* BalanceSweepService.running, per instance
    lockOwner,    \* the pass whose session holds SWEEP_LOCK_KEY
    passPc,       \* where each pass is
    poll,         \* pollMeter(row), per pass and meter
    stored,       \* meter_alert_state; a missing row reads as NoState
    failing,      \* whether consecutive_failures is above zero
    samples,      \* meter_usage_sample: the windows on record
    meterStatus,  \* the meter table
    settings,     \* user.settings
    today         \* the current Asia/Dhaka day

vars == <<running, lockOwner, passPc, poll, stored, failing, samples,
          meterStatus, settings, today>>

dbVars == <<stored, failing, samples, meterStatus, settings, today>>

-----------------------------------------------------------------------------
(***************************************************************************)
(* State.                                                                  *)
(***************************************************************************)
Day == 1..MaxDay

NoDay == 0     \* last_anomaly_on is null
NoInstant == 0 \* last_balance_at is null

AlertState == [severity          : Severity,
               lastRechargeToken : Token \union {NoToken},
               lastBalanceAt     : Nat,
               lastAnomalyOn     : Day \union {NoDay}]

NoState == [severity          |-> INITIAL_STATE.severity,
            lastRechargeToken |-> INITIAL_STATE.lastRechargeToken,
            lastBalanceAt     |-> NoInstant,
            lastAnomalyOn     |-> NoDay]

Window == {w \in [windowStart : Nat \ {0}, windowEnd : Nat] :
              w.windowStart < w.windowEnd}

PassPc == {"idle", "locking", "listing", "sweeping", "unlocking", "returning"}

\* A poll waiting on an await of its own.
ActivePc == {"fetching", "recording", "pushing", "stamping", "announcing",
             "failing"}

\* "none": not in the pass; "listed": in a batch still to come; "rejected":
\* its promise was rejected.
PollPc == ActivePc \union {"none", "listed", "done", "rejected"}

Poll == [pc       : PollPc,
         row      : AlertState,
         settings : SettingsChoices \union {DEFAULT_USER_SETTINGS},
         reading  : Readings \union {NoReading},
         due      : SUBSET AlertKind,
         finding  : Day \union {NoDay}]

NoPoll == [pc       |-> "none",
           row      |-> NoState,
           settings |-> DEFAULT_USER_SETTINGS,
           reading  |-> NoReading,
           due      |-> {},
           finding  |-> NoDay]

\* Type invariant. Windows are never empty or backwards, a poll's copy of a row
\* is always one the table could hold.
TypeOK ==
    /\ running \in [Instance -> BOOLEAN]
    /\ lockOwner \in Pass \union {NoPass}
    /\ passPc \in [Pass -> PassPc]
    /\ poll \in [Pass -> [Meter -> Poll]]
    /\ stored \in [Meter -> AlertState]
    /\ failing \in [Meter -> BOOLEAN]
    /\ samples \in [Meter -> SUBSET Window]
    /\ meterStatus \in [Meter -> {"new", "saved", "removed"}]
    /\ settings \in [User -> SettingsChoices]
    /\ today \in Day

Init ==
    /\ running = [i \in Instance |-> FALSE]
    /\ lockOwner = NoPass
    /\ passPc = [p \in Pass |-> "idle"]
    /\ poll = [p \in Pass |-> [m \in Meter |-> NoPoll]]
    /\ stored = [m \in Meter |-> NoState]
    /\ failing = [m \in Meter |-> FALSE]
    /\ samples = [m \in Meter |-> {}]
    /\ meterStatus = [m \in Meter |-> "new"]
    /\ settings \in [User -> SettingsChoices]
    /\ today = 1

-----------------------------------------------------------------------------
(***************************************************************************)
(* runSweep, runExclusively and sweep. A tick that finds `running` set     *)
(* returns at once: it changes nothing and is a stuttering step.           *)
(***************************************************************************)
Active(p, m) == poll[p][m].pc \in ActivePc
Listed(p) == {m \in Meter : poll[p][m].pc = "listed"}
Rejected(p) == {m \in Meter : poll[p][m].pc = "rejected"}

SetPolls(p, new) == poll' = [poll EXCEPT ![p] = new]

GoTo(p, pc) == passPc' = [passPc EXCEPT ![p] = pc]

\* Mutant: runSweep does not look at `running`.
CronTickAnyway(p) ==
    /\ passPc[p] = "idle"
    /\ \A m \in Meter : ~Active(p, m)
    /\ running' = [running EXCEPT ![Host[p]] = TRUE]
    /\ GoTo(p, "locking")
    /\ SetPolls(p, [m \in Meter |-> NoPoll])
    /\ UNCHANGED <<lockOwner, dbVars>>

CronTick(p) ==
    /\ ~running[Host[p]]
    /\ passPc[p] = "idle"
    /\ \A m \in Meter : ~Active(p, m)  \* p names a pass that is over
    /\ running' = [running EXCEPT ![Host[p]] = TRUE]
    /\ GoTo(p, "locking")
    /\ SetPolls(p, [m \in Meter |-> NoPoll])
    /\ UNCHANGED <<lockOwner, dbVars>>

\* Mutant: the answer of pg_try_advisory_lock is ignored.
TryLockAnyway(p) ==
    /\ passPc[p] = "locking"
    /\ lockOwner' = p
    /\ GoTo(p, "listing")
    /\ UNCHANGED <<running, poll, dbVars>>

TryLock(p) ==
    /\ passPc[p] = "locking"
    /\ lockOwner = NoPass
    /\ lockOwner' = p
    /\ GoTo(p, "listing")
    /\ UNCHANGED <<running, poll, dbVars>>

\* Someone else holds the lock, or no connection could be had to ask for it.
StandDown(p) ==
    /\ passPc[p] = "locking"
    /\ GoTo(p, "returning")
    /\ UNCHANGED <<running, lockOwner, poll, dbVars>>

\* A MonitoredMeter row, for pollMeter to work from.
ListedPoll(m) == [NoPoll EXCEPT !.pc       = "listed",
                                !.row      = stored[m],
                                !.settings = settings[Owner[m]]]

ListMeters(p) ==
    LET saved == {m \in Meter : meterStatus[m] = "saved"}
    IN  /\ passPc[p] = "listing"
        /\ SetPolls(p, [m \in Meter |->
                           IF m \in saved THEN ListedPoll(m) ELSE NoPoll])
        /\ GoTo(p, IF saved = {} THEN "unlocking" ELSE "sweeping")
        /\ UNCHANGED <<running, lockOwner, dbVars>>

\* Mutant: the unlock is not in a finally block.
ListFailsHoldingLock(p) ==
    /\ passPc[p] = "listing"
    /\ GoTo(p, "returning")
    /\ UNCHANGED <<running, lockOwner, poll, dbVars>>

ListFails(p) ==
    /\ passPc[p] = "listing"
    /\ GoTo(p, "unlocking")
    /\ UNCHANGED <<running, lockOwner, poll, dbVars>>

BatchSize(n) == IF n < Concurrency THEN n ELSE Concurrency

\* The loop goes on when every promise of the batch is fulfilled.
StartBatch(p) ==
    /\ passPc[p] = "sweeping"
    /\ \A m \in Meter : ~Active(p, m)
    /\ Rejected(p) = {}
    /\ \E batch \in SUBSET Listed(p) :
          /\ batch # {}
          /\ Cardinality(batch) = BatchSize(Cardinality(Listed(p)))
          /\ SetPolls(p, [m \in Meter |->
                             IF m \in batch
                             THEN [poll[p][m] EXCEPT !.pc = "fetching"]
                             ELSE poll[p][m]])
    /\ UNCHANGED <<running, lockOwner, passPc, dbVars>>

\* Mutant: the polls of the last batch are started and not awaited.
FinishSweepUnawaited(p) ==
    /\ passPc[p] = "sweeping"
    /\ Listed(p) = {}
    /\ GoTo(p, "unlocking")
    /\ UNCHANGED <<running, lockOwner, poll, dbVars>>

\* Mutant: the loop stops one meter short.
FinishSweepEarly(p) ==
    /\ passPc[p] = "sweeping"
    /\ \A m \in Meter : ~Active(p, m)
    /\ Cardinality(Listed(p)) <= 1
    /\ GoTo(p, "unlocking")
    /\ UNCHANGED <<running, lockOwner, poll, dbVars>>

FinishSweep(p) ==
    /\ passPc[p] = "sweeping"
    /\ \A m \in Meter : ~Active(p, m)
    /\ Rejected(p) = {}
    /\ Listed(p) = {}
    /\ GoTo(p, "unlocking")
    /\ UNCHANGED <<running, lockOwner, poll, dbVars>>

\* Promise.all rejects with the first poll that does, and sweep() throws. The
\* other polls of the batch are not cancelled; the next batches never start.
AbortSweep(p) ==
    /\ passPc[p] = "sweeping"
    /\ Rejected(p) # {}
    /\ SetPolls(p, [m \in Meter |->
                       IF m \in Listed(p) THEN NoPoll ELSE poll[p][m]])
    /\ GoTo(p, "unlocking")
    /\ UNCHANGED <<running, lockOwner, dbVars>>

\* Mutant: a pass whose session is gone waits to release it.
UnlockOwnedOnly(p) ==
    /\ passPc[p] = "unlocking"
    /\ lockOwner = p
    /\ lockOwner' = NoPass
    /\ GoTo(p, "returning")
    /\ UNCHANGED <<running, poll, dbVars>>

\* pg_advisory_unlock on the pass's own session, in a finally block; a failure
\* is logged and means the session, and the lock with it, is gone.
Unlock(p) ==
    /\ passPc[p] = "unlocking"
    /\ lockOwner' = IF lockOwner = p THEN NoPass ELSE lockOwner
    /\ GoTo(p, "returning")
    /\ UNCHANGED <<running, poll, dbVars>>

Return(p) ==
    /\ passPc[p] = "returning"
    /\ running' = [running EXCEPT ![Host[p]] = FALSE]
    /\ GoTo(p, "idle")
    /\ SetPolls(p, [m \in Meter |->
                       IF Active(p, m) THEN poll[p][m] ELSE NoPoll])
    /\ UNCHANGED <<lockOwner, dbVars>>

-----------------------------------------------------------------------------
(***************************************************************************)
(* pollMeter. Nothing here looks at passPc: a poll whose pass was aborted  *)
(* carries on.                                                             *)
(***************************************************************************)
SetPoll(p, m, new) == poll' = [poll EXCEPT ![p][m] = new]

\* What a poll never changes.
PollVars == <<running, lockOwner, passPc, meterStatus, settings, today>>

FetchSnapshot(p, m) ==
    /\ poll[p][m].pc = "fetching"
    /\ \E reading \in Readings :
          SetPoll(p, m, [poll[p][m] EXCEPT !.pc      = "recording",
                                           !.reading = reading])
    /\ UNCHANGED <<PollVars, stored, failing, samples>>

FetchFails(p, m) ==
    /\ poll[p][m].pc = "fetching"
    /\ SetPoll(p, m, [poll[p][m] EXCEPT !.pc = "failing"])
    /\ UNCHANGED <<PollVars, stored, failing, samples>>

\* Mutant: the stamps are not compared.
SampleWindowsAlways(row, reading) ==
    IF row.lastBalanceAt # NoInstant
    THEN {[windowStart |-> row.lastBalanceAt, windowEnd |-> reading.at]}
    ELSE {}

\* buildSample: no window before the second reading, nor when the stamp did
\* not advance.
SampleWindows(row, reading) ==
    IF row.lastBalanceAt # NoInstant /\ reading.at > row.lastBalanceAt
    THEN {[windowStart |-> row.lastBalanceAt, windowEnd |-> reading.at]}
    ELSE {}

\* The primary key is (meter_id, window_start): ON CONFLICT DO NOTHING.
InsertWindows(old, new) ==
    old \union {w \in new : \A v \in old : v.windowStart # w.windowStart}

\* Mutant: the severity is written when the row is created, and not by the
\* ON CONFLICT part.
RecordedSeverityOnce(state, evaluation, reading) ==
    [state EXCEPT !.severity          = IF state.lastBalanceAt = NoInstant
                                        THEN evaluation.severity ELSE @,
                  !.lastRechargeToken = evaluation.lastRechargeToken,
                  !.lastBalanceAt     = reading.at]

\* Mutant: as above, for the instant.
RecordedInstantOnce(state, evaluation, reading) ==
    [state EXCEPT !.severity          = evaluation.severity,
                  !.lastRechargeToken = evaluation.lastRechargeToken,
                  !.lastBalanceAt     = IF @ = NoInstant THEN reading.at ELSE @]

\* What evaluate() and the reading leave in meter_alert_state.
Recorded(state, evaluation, reading) ==
    [state EXCEPT !.severity          = evaluation.severity,
                  !.lastRechargeToken = evaluation.lastRechargeToken,
                  !.lastBalanceAt     = reading.at]

RecordSuccess(p, m) ==
    LET row        == poll[p][m].row
        reading    == poll[p][m].reading
        evaluation == Evaluate(row, reading, poll[p][m].settings)
    IN  /\ poll[p][m].pc = "recording"
        /\ meterStatus[m] = "saved"
        /\ stored' = [stored EXCEPT ![m] = Recorded(@, evaluation, reading)]
        /\ samples' = [samples EXCEPT ![m] =
                          InsertWindows(@, SampleWindows(row, reading))]
        /\ failing' = [failing EXCEPT ![m] = FALSE]
        /\ SetPoll(p, m, [poll[p][m] EXCEPT !.pc      = "pushing",
                                            !.reading = NoReading,
                                            !.due     = evaluation.alerts])
        /\ UNCHANGED PollVars

\* The transaction is rolled back: a lost connection, or no such meter.
RecordSuccessFails(p, m) ==
    /\ poll[p][m].pc = "recording"
    /\ SetPoll(p, m, [poll[p][m] EXCEPT !.pc = "failing", !.reading = NoReading])
    /\ UNCHANGED <<PollVars, stored, failing, samples>>

Push(p, m) ==
    /\ poll[p][m].pc = "pushing"
    /\ \E kind \in poll[p][m].due :
          /\ IsFirstAlert(kind, poll[p][m].due)
          /\ SetPoll(p, m, [poll[p][m] EXCEPT !.due = @ \ {kind}])
    /\ UNCHANGED <<PollVars, stored, failing, samples>>

\* The alerts not sent yet are dropped: no later pass sees the crossing again.
PushFails(p, m) ==
    /\ poll[p][m].pc = "pushing"
    /\ poll[p][m].due # {}
    /\ SetPoll(p, m, [poll[p][m] EXCEPT !.pc = "failing", !.due = {}])
    /\ UNCHANGED <<PollVars, stored, failing, samples>>

\* Muted, already reported, nothing unusual, or the check itself failed.
NoAnomaly(p, m) ==
    /\ poll[p][m].pc = "pushing"
    /\ poll[p][m].due = {}
    /\ SetPoll(p, m, [poll[p][m] EXCEPT !.pc = "done"])
    /\ UNCHANGED <<PollVars, stored, failing, samples>>

\* Mutant: the day already reported is not looked at.
FindAnomalyAgain(p, m) ==
    /\ poll[p][m].pc = "pushing"
    /\ poll[p][m].due = {}
    /\ \E day \in Day :
          /\ day < today
          /\ SetPoll(p, m, [poll[p][m] EXCEPT !.pc = "stamping", !.finding = day])
    /\ UNCHANGED <<PollVars, stored, failing, samples>>

\* The finding is about the last observed day up to yesterday; which days were
\* unusual is a matter of the samples, and left open here.
FindAnomaly(p, m) ==
    LET resolved == Resolve(poll[p][m].settings)
    IN  /\ poll[p][m].pc = "pushing"
        /\ poll[p][m].due = {}
        /\ resolved["pushEnabled"] /\ resolved["usageAnomalyAlerts"]
        /\ \E day \in Day :
              /\ poll[p][m].row.lastAnomalyOn < day /\ day < today
              /\ SetPoll(p, m, [poll[p][m] EXCEPT !.pc = "stamping", !.finding = day])
        /\ UNCHANGED <<PollVars, stored, failing, samples>>

\* Mutant: the notice goes out before the stamp is written.
StampAnomalyLater(p, m) ==
    /\ poll[p][m].pc = "stamping"
    /\ SetPoll(p, m, [poll[p][m] EXCEPT !.pc      = "announcing",
                                        !.finding = NoDay,
                                        !.due     = {"USAGE_ANOMALY"}])
    /\ UNCHANGED <<PollVars, stored, failing, samples>>

\* An UPDATE: it matches no row when the meter is gone.
StampAnomaly(p, m) ==
    /\ poll[p][m].pc = "stamping"
    /\ stored' = IF meterStatus[m] = "saved"
                 THEN [stored EXCEPT ![m].lastAnomalyOn = poll[p][m].finding]
                 ELSE stored
    /\ SetPoll(p, m, [poll[p][m] EXCEPT !.pc      = "announcing",
                                        !.finding = NoDay,
                                        !.due     = {"USAGE_ANOMALY"}])
    /\ UNCHANGED <<PollVars, failing, samples>>

StampFails(p, m) ==
    /\ poll[p][m].pc = "stamping"
    /\ SetPoll(p, m, [poll[p][m] EXCEPT !.pc = "done", !.finding = NoDay])
    /\ UNCHANGED <<PollVars, stored, failing, samples>>

\* Delivered or not, the poll succeeded: the check has its own error boundary.
AnnounceAnomaly(p, m) ==
    /\ poll[p][m].pc = "announcing"
    /\ SetPoll(p, m, [poll[p][m] EXCEPT !.pc = "done", !.due = {}])
    /\ UNCHANGED <<PollVars, stored, failing, samples>>

\* Mutant: a failed poll is tried again at once, for as long as it fails.
RecordFailureRetries(p, m) ==
    /\ poll[p][m].pc = "failing"
    /\ meterStatus[m] = "saved"
    /\ failing' = [failing EXCEPT ![m] = TRUE]
    /\ SetPoll(p, m, [poll[p][m] EXCEPT !.pc = "fetching"])
    /\ UNCHANGED <<PollVars, stored, samples>>

RecordFailure(p, m) ==
    /\ poll[p][m].pc = "failing"
    /\ meterStatus[m] = "saved"
    /\ failing' = [failing EXCEPT ![m] = TRUE]
    /\ SetPoll(p, m, [poll[p][m] EXCEPT !.pc = "done"])
    /\ UNCHANGED <<PollVars, stored, samples>>

\* Awaited in the catch block with nothing around it: pollMeter rejects.
RecordFailureFails(p, m) ==
    /\ poll[p][m].pc = "failing"
    /\ meterStatus[m] # "saved" \/ "failureWrite" \in Faults
    /\ SetPoll(p, m, [poll[p][m] EXCEPT !.pc = "rejected"])
    /\ UNCHANGED <<PollVars, stored, failing, samples>>

-----------------------------------------------------------------------------
(***************************************************************************)
(* Everything around the sweep.                                            *)
(***************************************************************************)
LoseSession(p) ==
    /\ "session" \in Faults
    /\ lockOwner = p
    /\ lockOwner' = NoPass
    /\ UNCHANGED <<running, passPc, poll, dbVars>>

\* A process that dies takes its passes, its polls and its sessions with it.
CrashRestart(i) ==
    /\ \E p \in Pass : Host[p] = i /\
          (passPc[p] # "idle" \/ \E m \in Meter : Active(p, m))
    /\ running' = [running EXCEPT ![i] = FALSE]
    /\ passPc' = [p \in Pass |-> IF Host[p] = i THEN "idle" ELSE passPc[p]]
    /\ poll' = [p \in Pass |->
                   IF Host[p] = i THEN [m \in Meter |-> NoPoll] ELSE poll[p]]
    /\ lockOwner' = IF lockOwner # NoPass /\ Host[lockOwner] = i
                    THEN NoPass ELSE lockOwner
    /\ UNCHANGED dbVars

AddMeter(m) ==
    /\ meterStatus[m] = "new"
    /\ meterStatus' = [meterStatus EXCEPT ![m] = "saved"]
    /\ UNCHANGED <<running, lockOwner, passPc, poll, stored, failing, samples,
                   settings, today>>

Unsettled(p, m) == Active(p, m) \/ poll[p][m].pc = "listed"

\* The alert state and the samples go with the meter (ON DELETE CASCADE).
RemoveMeter(m) ==
    /\ meterStatus[m] = "saved"
    /\ "remove" \in Faults \/ \A p \in Pass : ~Unsettled(p, m)
    /\ meterStatus' = [meterStatus EXCEPT ![m] = "removed"]
    /\ stored' = [stored EXCEPT ![m] = NoState]
    /\ failing' = [failing EXCEPT ![m] = FALSE]
    /\ samples' = [samples EXCEPT ![m] = {}]
    /\ UNCHANGED <<running, lockOwner, passPc, poll, settings, today>>

ChangeSettings(u) ==
    /\ \E choice \in SettingsChoices :
          settings' = [settings EXCEPT ![u] = choice]
    /\ UNCHANGED <<running, lockOwner, passPc, poll, stored, failing, samples,
                   meterStatus, today>>

NextDay ==
    /\ today < MaxDay
    /\ today' = today + 1
    /\ UNCHANGED <<running, lockOwner, passPc, poll, stored, failing, samples,
                   meterStatus, settings>>

-----------------------------------------------------------------------------
PassStep(p) ==
    \/ TryLock(p) \/ StandDown(p) \/ ListMeters(p) \/ ListFails(p)
    \/ StartBatch(p) \/ FinishSweep(p) \/ AbortSweep(p)
    \/ Unlock(p) \/ Return(p)

PollStep(p, m) ==
    \/ FetchSnapshot(p, m) \/ FetchFails(p, m)
    \/ RecordSuccess(p, m) \/ RecordSuccessFails(p, m)
    \/ Push(p, m) \/ PushFails(p, m)
    \/ NoAnomaly(p, m) \/ FindAnomaly(p, m)
    \/ StampAnomaly(p, m) \/ StampFails(p, m) \/ AnnounceAnomaly(p, m)
    \/ RecordFailure(p, m) \/ RecordFailureFails(p, m)

Environment ==
    \/ \E p \in Pass : CronTick(p) \/ LoseSession(p)
    \/ \E i \in Instance : CrashRestart(i)
    \/ \E m \in Meter : AddMeter(m) \/ RemoveMeter(m)
    \/ \E u \in User : ChangeSettings(u)
    \/ NextDay

Next ==
    \/ \E p \in Pass : PassStep(p)
    \/ \E p \in Pass, m \in Meter : PollStep(p, m)
    \/ Environment

Spec == Init /\ [][Next]_vars

\* Node runs what is ready, and every await ends: the portal client has a
\* timeout, and a dead database connection is an error.
FairSpec ==
    /\ Spec
    /\ \A p \in Pass : WF_vars(PassStep(p))
    /\ \A p \in Pass, m \in Meter : WF_vars(PollStep(p, m))

-----------------------------------------------------------------------------
(***************************************************************************)
(* Safety under every fault.                                               *)
(***************************************************************************)

\* `running` is set exactly while one pass of the instance is under way, so
\* that runSweep neither overlaps itself nor is ever shut out for good by a
\* flag nobody will clear.
OnePassPerInstance ==
    \A i \in Instance :
       LET passes == {p \in Pass : Host[p] = i /\ passPc[p] # "idle"}
       IN  /\ running[i] <=> passes # {}
           /\ \A p, q \in passes : p = q

\* The lock is only ever held by a pass that is still going to release it:
\* whatever throws, no holder is left behind to make every instance stand down.
LockNeverLeaks ==
    lockOwner # NoPass => passPc[lockOwner] \in {"listing", "sweeping", "unlocking"}

(***************************************************************************)
(* Safety while the lock excludes.                                         *)
(***************************************************************************)
InSweep(p) ==
    \/ passPc[p] \in {"listing", "sweeping"}
    \/ \E m \in Meter : Active(p, m)

\* Two passes never work at the same time, on any instances: the purpose of
\* runExclusively, which a poll that outlives its pass would defeat.
SweepsExclude == \A p, q \in Pass : InSweep(p) /\ InSweep(q) => p = q

\* A pass reads the alert state of all meters once, before its first batch;
\* each poll later writes from that copy. The copy is still what the table
\* holds when evaluate() and recordSuccess use it, and its anomaly day still
\* is when checkUsageAnomaly does.
RowsFresh ==
    \A p \in Pass, m \in Meter :
       /\ poll[p][m].pc \in {"listed", "fetching", "recording"} =>
             poll[p][m].row = stored[m]
       /\ poll[p][m].pc \in {"pushing", "stamping"} =>
             poll[p][m].row.lastAnomalyOn = stored[m].lastAnomalyOn

DueOf(m) == UNION {poll[p][m].due : p \in Pass}

NewlyDue(m, kind) == kind \in DueOf(m)' /\ kind \notin DueOf(m)

\* A balance alert becomes due only when the stored severity gets worse in the
\* same step, and a recharge alert only when the stored token is replaced by
\* another: two polls never announce one crossing.
AlertsOnWorseningOnly ==
    [][\A m \in Meter :
         /\ NewlyDue(m, "LOW_BALANCE") \/ NewlyDue(m, "BALANCE_DEPLETED") =>
               SeverityRank(stored'[m].severity) > SeverityRank(stored[m].severity)
         /\ NewlyDue(m, "RECHARGE_DETECTED") =>
               /\ stored[m].lastRechargeToken # NoToken
               /\ stored'[m].lastRechargeToken # stored[m].lastRechargeToken]_vars

\* A usage window goes on record only together with the state that ends where
\* the window ends, and starts where the state before it ended (the atomicity
\* recordSuccess relies on).
WindowsChain ==
    [][\A m \in Meter : \A w \in samples'[m] \ samples[m] :
         /\ w.windowStart = stored[m].lastBalanceAt
         /\ w.windowEnd = stored'[m].lastBalanceAt]_vars

\* The day of the last usage anomaly only moves forward, so that no day is
\* announced twice, as long as the meter exists.
AnomalyDayAdvances ==
    [][\A m \in Meter :
         meterStatus'[m] # "removed" =>
            stored'[m].lastAnomalyOn >= stored[m].lastAnomalyOn]_vars

\* A pass that leaves the batch loop has polled every meter it listed: one
\* meter's failure never costs another meter its poll.
PassCoversEveryMeter ==
    [][\A p \in Pass :
         passPc[p] = "sweeping" /\ passPc'[p] = "unlocking" =>
            \A m \in Meter : ~Unsettled(p, m)]_vars

\* The whole sweep, seen from outside, is one AlertFeed: the alert state it
\* stores, and the alerts any poll still has to send.
Feed == INSTANCE AlertFeed WITH
            state <- stored,
            owed  <- [m \in Meter |-> DueOf(m)]

\* The sweep implements AlertFeed: readings are judged one at a time against
\* what is stored, whatever instances, batches and crashes lie in between.
ImplementsFeed == Feed!Spec

(***************************************************************************)
(* Liveness, under every fault.                                            *)
(***************************************************************************)

\* No pass keeps its instance busy for ever: `running` is cleared again after
\* a lost lock session, a rejected poll, an aborted batch or a crash.
EverySweepEnds == \A i \in Instance : running[i] ~> ~running[i]

\* A meter that was listed is polled to the end, or its pass is over.
EveryPollSettles ==
    \A p \in Pass, m \in Meter : Unsettled(p, m) ~> ~Unsettled(p, m)

=============================================================================
