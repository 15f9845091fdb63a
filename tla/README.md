# A verification project for electrosync-api

electrosync-api is a NestJS server for owners of prepaid NESCO electricity
meters. Every few hours it scrapes each meter's balance from the public portal,
pushes low-balance, depleted, recharge and unusual-consumption alerts, and derives
from successive balances what the meter consumed. These modules model the parts of
it whose correctness depends on order, concurrency and failure.

Paths below are relative to the repository root; `BalanceSweep!CronTick` is the
definition `CronTick` of the module `BalanceSweep`. `PROJECT.json` holds the same
information for tools: components, runs, mutants, the map from definitions to
source lines, findings, hazards and theorems.

## 1. The system

| part | source | state it keeps | operations |
|---|---|---|---|
| alert policy | `src/modules/alerts/alert-evaluation.ts` | none (pure) | `severityFor`, `latestRecharge`, `evaluate` |
| balance sweep | `src/modules/alerts/balance-sweep.service.ts` | `running`, per process; rows of `meter_alert_state` and `meter_usage_sample` | cron tick, `runSweep`, `sweep`, `pollMeter`, `recordSuccess`, `checkUsageAnomaly`, `recordFailure` |
| advisory lock | `src/database/advisory-lock.service.ts` | one PostgreSQL session lock | `runExclusively` |
| usage sampling | `src/modules/alerts/usage-sampling.ts` | none (pure) | `resolveReadingInstant`, `buildUsageSample` |
| usage ledger | `recordSuccess`, `buildSample`, `meter_usage_sample` | the windows on record, `last_balance(_at)` | a successful poll |
| usage anomaly | `src/modules/alerts/usage-anomaly.ts` | none (pure) | `evaluateUsageAnomaly` |
| usage analytics | `src/modules/analytics/analytics.service.ts` | none (reads) | `usage`: daily, weekly, by weekday |
| meter registry | `src/modules/meter/meter.service.ts` | `meter`, with one primary per user | add, update (label, primary), remove |
| settings, profile | `src/modules/user/user.service.ts` | `user`, `user.settings` (jsonb) | merge a patch, read with defaults |
| notification delivery | `src/modules/notification/notification.service.ts`, `fcm/` | `notification`, `device_token` | `sendToUser`: record, text, mail, push, deactivate tokens |
| inbox and devices | same service | read and archive marks, token owners | list, mark read, archive, (un)register a token |
| password reset | `src/modules/auth/password-reset.*.ts` | `verification` (codes, attempts) | request, reset, throttle |
| accounts | `src/modules/auth/auth.service.ts` | `user`, `account` | register, login, change password |
| portal client, parsing | `src/modules/nesco/` | none | two-request exchange, HTML to numbers |
| SMS, mail | `src/modules/sms/`, `src/modules/mail/` | none | one send, which succeeds or throws |
| configuration | `src/config/env.validation.ts` | none | schedule and variable checks |

**How they interact.** The sweep is the only writer of the alert state and of the
samples; it takes the lock, lists meters with their owners' settings, and for each
calls the portal, the policy, the sampling, the database and the notification
service, in that order. The API writes meters and settings at any time under it:
deleting a meter cascades to its alert state and samples. Analytics reads the
samples, and the sweep reads analytics to look for an unusual day. Accounts,
passwords and the inbox share nothing with the sweep but the `user` row.

**What is hard in it.** Several server processes with the same cron schedule; rows
read once per pass and used many awaits later; `Promise.all` over polls that are
not cancelled when one rejects; a lock bound to a database session; processes that
die between a write and the message it announces; a portal whose settlements keep
a clock of their own; read-then-write transactions at READ COMMITTED (primary
meter, reset codes, throttle); slow hashes and slow gateways between a check and the
write that relies on it. `PROJECT.json` lists 40 such hazards at their lines, with the
properties that cover them, or a note why none does.

**What makes each part correct.**

- policy: a crossing is announced once; a recovery re-arms it; a recharge is
  announced once; muting and unmuting says nothing;
- sweep: at most one pass works at a time, no poll uses an outdated row, no meter
  is left out, the running flag and the lock are always given back;
- ledger: windows tile the timeline and measure what was consumed;
- analytics: each taka is billed to exactly one day; a day that is alerted about
  is one the meter was really observed on;
- registry: a user with meters has exactly one primary;
- page: an instant is read as it was printed; balance and recharges come from one
  page or not at all;
- accounts: a code is redeemed once and with the password it sets, guesses and
  requests stay within their limits, a password is changed only by who knows it;
- delivery: each channel is tried whatever the others do; only dead tokens are
  deactivated; marks in the inbox are kept.

## 2. Modules

| module | what it is |
|---|---|
| `AlertEvaluation` | the policy as operators |
| `AlertFeed` | the abstract specification: readings judged one at a time against a recorded state |
| `AlertFeed_proofs` | theorems about `AlertFeed` and the policy |
| `BalanceSweep` | the concurrent sweep with lock, batches, crashes and faults; implements `AlertFeed` |
| `BalanceSweep_proofs` | theorems about `BalanceSweep` |
| `UsageSampling` | the arithmetic of one window as operators |
| `PortalPage` | what a poll reads off the portal's page, as operators |
| `PortalPage_proofs` | theorems about `PortalPage` |
| `UsageLedger` | one meter's windows against its real consumption |
| `UsageLedger_proofs` | theorems about `UsageLedger`, and the laws of sums they rest on |
| `UsageAnalytics` | the analytics query and the search for an unusual day, as operators over windows |
| `DailyUsage` | what these make of a ledger, against the real consumption |
| `DailyUsage_proofs` | theorems about `DailyUsage`, and the sums of sums they rest on |
| `Accounts` | one address: its password, its reset codes, and the calls that write them |
| `Accounts_proofs` | theorems about `Accounts` |
| `NotificationDelivery` | deliveries, device tokens and the inbox |
| `NotificationDelivery_proofs` | theorems about `NotificationDelivery` and `SmsEncoding` |
| `SmsEncoding` | segments of a text and phone numbers, as operators |

| `MeterRegistry` | the transactions on one account's meters, statement by statement |
| `MeterRegistry_proofs` | theorems about `MeterRegistry` |
| `MCAlertFeed`, `MCBalanceSweep`, `MCMeterRegistry`, `MCAccounts`, `MCNotificationDelivery` | small instances for TLC |

`BalanceSweep` EXTENDS `AlertEvaluation` and instantiates `AlertFeed`.
`UsageLedger` EXTENDS `UsageSampling` and `PortalPage` and takes a poll as one step,
which `BalanceSweep!RowsFresh` justifies; `DailyUsage` EXTENDS it and `UsageAnalytics`,
so that one run follows a figure from the page to the alert. `NotificationDelivery`
EXTENDS `SmsEncoding`. `BalanceSweep` takes a delivery as one step: what happens inside
is `NotificationDelivery`'s matter. Operators named as a mutation in their comment
("Mutant: ...") are plausible wrong versions of the definition below them; no
specification uses them. Each checked property is violated when the named mutant
takes the place of its original (`PROJECT.json`, "mutants").

### AlertEvaluation and AlertFeed

`Evaluate(previous, reading, settings)` is `evaluate()`. Money is whole taka: the
policy only compares it. Settings are records with any field missing; `Resolve`
merges them over the defaults as the spread does. The alerts are a set, sent in the
order `IsFirstAlert` gives (recharge first, and at most one balance alert).
`AlertFeed` has two variables, `state` (a `meter_alert_state` row) and `owed` (what is decided
and not yet sent). `Observe` takes in a reading, `Announce` sends one alert, `Lose`
drops what is owed (a failed send, a dead process), `FlagDay` is the anomaly stamp,
`Forget` is the deletion of a meter.

### BalanceSweep

The steps are the stretches of code between two awaits.

| variable | code |
|---|---|
| `running[i]` | `BalanceSweepService.running` of process `i` |
| `lockOwner` | the pass whose session holds `SWEEP_LOCK_KEY` |
| `passPc[p]` | where the call of `runSweep` is: idle, locking, listing, sweeping, unlocking, returning |
| `poll[p][m]` | `pollMeter(row)`: its await, its copies of the row and the settings, the snapshot, the alerts still to send, the day it found unusual |
| `stored`, `failing`, `samples` | `meter_alert_state`, its failure counter above zero, `meter_usage_sample` |
| `meterStatus`, `settings`, `today` | the `meter` table, `user.settings`, the Asia/Dhaka date |

`CronTick` .. `Return` are `runSweep`, `runExclusively` and `sweep`; `FetchSnapshot`
.. `RecordFailureFails` are `pollMeter` and what it calls. Details a reader may
stumble over:

- a tick that finds `running` set returns at once: a stuttering step, no action;
- `p` in `Pass` is a slot for one call of `runSweep`, used again when its polls
  are over too: two slots on one process allow a poll to outlive its pass;
- `StandDown` is always possible: the connection for the lock may be refused;
- the batch order is the database's and not specified (`monitoredMeters` has no
  ORDER BY), so a batch is any set of the right size;
- `AbortSweep` is `Promise.all` rejecting: it waits for nobody;
- `RecordSuccess` is one transaction; `RecordSuccessFails` is its rollback, and is
  the only outcome when the meter is gone (foreign key);
- `CrashRestart` ends the process, its polls and its sessions in one step;
- `FindAnomaly` leaves open which past day was unusual and checks only what
  decides on repetition: settings, `lastAnomalyOn` and today;
- `failing` records that `consecutive_failures` is above zero; its value is not
  used by any code.

`Faults` says what the environment may do beyond crashes and failing calls:
`"remove"` (a meter deleted while a pass still has to poll it), `"session"` (the
database ends the lock's session), `"failureWrite"` (`recordFailure` fails as well).

### PortalPage

A page is what is left of its HTML: the fields of the form with their labels, the
headings and the rows of the table. A parser that may throw yields the set of what it
returns, empty when it throws; `getRechargeSnapshot` is then a set of at most one
snapshot, and a poll without one is a failed poll. An instant is seconds since a
midnight in Dhaka, whose offset is fixed; that `Date.UTC` rolls an impossible date
over, and the code notices, is the `real` of a date and the carry of a time. The
sizes of the dial, the hour and the minute are constants. `PrintStamp` is how the
portal writes an instant (external). A minute column shows no seconds, and
`ParseRechargeDate` reads none.

### UsageSampling and UsageLedger

Instants are whole hours and money whole paisa, so `EPSILON` is 1 and the rate test
is a multiplication. `used[t]` is a history variable: the true consumption up to
hour `t`. `Tick`, `TopUp` and `Settle` are the meter and the portal (external): a
balance published for hour `t` holds every successful recharge dated up to `t` and
none later, the assumption `rechargesWithin` rests on. `PageOf` is the page the portal
serves for it, under one of the `Labels` it may show, and `Poll` parses that page with
`PortalPage` and records the sample and the row in one transaction. A failed poll
leaves this state alone.

### UsageAnalytics and DailyUsage

`Usage(granularity, windows, from, to)` is the query of `AnalyticsService.usage`: the
days a range stands for, each window's cost and recharges on its closing day (`Cost`,
`Recharged`), its hours spread over the days it overlaps (`Hours`), grouped by `Bucket`
and filled up with what was expected. `EvaluateUsageAnomaly` is `evaluateUsageAnomaly`
for a user who wants to be told, `Found` the part of `checkUsageAnomaly` around it. Days are
numbers; a week starts at a multiple of `DAYS_PER_WEEK`. The reference definitions of
`DailyUsage` (`Consumed`, `Watched`, `Unusual`) never look at a window's cost: they
only use `used`, `history` and the instants that were read. `DaysAddUp` is about the
ranges that are accepted, `UnusualDayFound` needs the baseline's range to be one of them
(`DailyAssumption`; 14 days at `alerts.constants.ts:46`, 366 at
`analytics.service.ts:29`).

A stale window of several days is billed whole to its closing day, and the days before
it in the window count as days without cost, in the baseline too. The comment at
`usage.type.ts:23-26` says such a window is flagged "so a week-long outage cannot
masquerade as one very expensive day", but neither the analytics nor the alert look at
that flag; `Unusual` says what the code does.

### Accounts

The calls of `PasswordResetService` and `AuthService` on one address, await by await.
`at[c]` is the statement call `c` runs next; `now`, `todo`, `pending`, `presented` and
`found` are its local variables; `codes` are the rows of `verification`, in the order
they were stored. `Request`, `PassThrottle`, `Retire`, `Store` are `request`: it reads
the clock once, judges the recent rows, hashes, and retires and stores in one
transaction whose UPDATE sees what was committed when it began. `Reset`, `Mismatch`,
`Match`, `Redeem` are `reset`: the newest row is judged, the guess verified, and the
attempt counted or the code consumed with the new password, in one transaction without a
further condition. `Register`, `Create`, `ChangePassword`, `Change` are `AuthService`'s;
`AccountGone` is there because the code is ready for it. `Fail` is any statement that
fails and any 4xx answer. A call that finds no account, an unusable code or a wrong
current password ends without a step. `guesses` and `used` of a code, `requestsMet` and
`writersMet` are history variables. Login, profile and the JWT guard only read. Two codes
are never the same six digits here.

### NotificationDelivery

`sendToUser` await by await: `SendToUser` stores the row, `ReadRecipient` is
`recipientFor` (any recipient, since settings may change at any time), then `PostSms` and `SendMail` for who
asked for them and can be reached, `ReadTokens`, `Push` per batch and
`DeactivateTokens`. The gateways never end a send; a database statement or the
exchange with FCM that throws does (`Throw`). `RegisterDeviceToken` moves a token to
whoever registers it, `Die` is an app that is uninstalled, and `MarkAsRead`,
`MarkAllAsRead`, `ArchiveAll` stamp rows. `owed`, `wanted` and `rejected` are history
variables. Two places where comments and code differ, noted for a reader: the
comments at `notification.service.ts:201-204` and `230-240` have the push attempted
before the text, the code texts and mails first; and marking one notification read again
(lines 361-373) rewrites `readAt`, which the comment at 378-381 says marking all
avoids, although `notification.controller.ts:62` calls it idempotent.
`HistoryKept` allows the former rewriting and nothing else.

### SmsEncoding

A message is how many characters it has of each class that counts differently; limits are
constants. A number is the form it was written in, and `ToBangladeshMsisdn` accepts or
refuses it.

### MeterRegistry

Each call of `MeterService` is a transaction `t` of one account; every statement names
the user's id, so accounts do not meet. `rows` is the committed table (`"absent"`,
`"plain"` or `"primary"` per meter), `own[t]` what `t` wrote and not committed, which
is also what it has locked; `at[t]` is the statement to run. `Begin*` opens the
transaction (with the first SELECT of `add` and `update`), `Insert`, `Scan`, `Demote`,
`EndDemote`, `Write`, `Delete` and `PickHeir` are its statements, `Commit` and `Rollback`
its end. What READ COMMITTED does is in the operators and guards: a
statement chooses its rows from what is committed as it starts (`Scan`), waits for a row
another transaction wrote (`Free`), then tests the row again as it has become (`Demote`,
`Write`, `Delete`), and an insert waits for whoever wrote a row with its key
(`KeyFree`). `Rollback` stands for a 404 or 409 thrown inside, a failed
statement, a lost connection and a deadlock's victim. Meters are numbered in the order
of `created_at`; two created within one millisecond, which the database may list in
either order, are not distinguished. Labels and types of meters are left out, a
renaming is a `Write` that keeps the flag. `overlapped` and `removalRaced` are history
variables.

## 3. Runs

Apart from those of the registry the runs set CHECK_DEADLOCK FALSE: the calendar, the meters, the hours, the
instants and the rows of the inbox are bounded, and a system with no tick or nothing left to happen may really stop.

| run | instance | shows |
|---|---|---|
| `alert_feed` | 1 meter, 5 balances around 0 and both thresholds x 4 recharge histories, 4 settings, 3 days | `SeenReadingIsSilent`, `RecoveryRearms`, `RechargeAnnouncedOnce` |
| `sweep_safe` | 2 processes, 2 meters, batches of 1, 2 readings, 2 days, crashes | `SweepsExclude`, `RowsFresh`, `PassCoversEveryMeter`, `ImplementsFeed` |
| `sweep_one_meter` | 2 processes, 1 meter, 3 readings, 2 settings, 3 days, crashes | `AlertsOnWorseningOnly`, `WindowsChain`, `AnomalyDayAdvances`, `ImplementsFeed` |
| `sweep_live` | 1 process with 2 pass slots, 2 meters, batches of 2, lost sessions, failing statements, fairness | `OnePassPerInstance`, `LockNeverLeaks`, `EverySweepEnds`, `EveryPollSettles` |
| `usage_ledger` | `DailyUsage`: 6 hours in 3 days, costs 0 and 2, up to 2 recharges, any settlement pace, ranges of all days, granularities and thresholds | `Tiles`, `TrueDelta`, `NothingSuppressed`, `CollisionIsReplay`, `DaysAddUp`, `UnusualDayFound` |
| `accounts` | 2 calls at a time, 2 passwords, 4 instants, codes that live for 2, a quota of 2 in 3, 1 attempt | `GuessesBounded`, `QuotaHolds`, `LatestCodeWins`, `CodeUsedOnce`, `ChangeIsEarned`, `CodeAndPasswordTogether` |
| `delivery` | 2 sends at a time, 2 users, 2 tokens, batches of 1, three deployments, 2 notifications | `ChannelsTried`, `DevicesFollowFcm`, `HistoryKept` |
| `registry` | 3 calls at a time, 3 numbers, 3 meters ever added | `OnePrimaryInTurn`, `SomePrimaryUnlessRemoved`, `NumbersDistinct`, `DeadlockNeedsTwoPrimaries` |
| `sweep_abort` | a meter deleted mid-pass, batches of 1 | **violates** `PassCoversEveryMeter` |
| `sweep_twins` | the same with two processes and batches of 2 | **violates** `AlertsOnWorseningOnly` |
| `usage_unstamped` | a page may omit the stamp | **violates** `CollisionIsReplay` |
| `registry_race` | 2 calls at a time, 2 numbers | **violates** `SomePrimary` |

**Why the bounds suffice.** Two processes and two meters give every pairwise
interleaving of passes and of polls; batches of one make two batches, batches of two
make concurrent polls. The readings are a full, a low and an empty balance with a
recharge that stays pending and one that goes through; three days let an
anomaly be found, found again and followed by another. Six hours hold
a settlement period longer than the stale limit of two, several shorter ones, and
recharges at, before and after a settlement. With two hours to a day, a dial of one and no finer
unit, every stamp is twelve o'clock, noon or midnight, which is where reading a clock
goes wrong; the hours in between and the digits below are left to the theorem
`StampIsReadBack`. Three days have a baseline, a day to judge and the day under way, and
windows that end at midnight, before it and days after. Two calls on an address make every
pair of overlapping requests, guesses, resets and changes; one attempt and two codes reach
both limits and the one more that the overlap allows. Two tokens in batches of one make
two batches with different answers, and two sends one that switches a token off
while it changes hands. Three calls on three meters let two promotions meet each other, an add and a
removal of either's meter, and would close a ring of three waiting calls. The theorems below remove the bounds for most of these.
`sweep_safe` and `sweep_one_meter` use symmetry: swapping both processes with their
pass slots, or the meters, maps behaviours to behaviours; so do `registry`, of calls and
of numbers, `accounts`, of calls and of passwords, and `delivery`, of users, tokens and
sends. None of them has a liveness property.

**Fairness.** `FairSpec` asks weak fairness of each pass and of each poll: Node runs
what is ready, and every await ends, because the portal client has a request timeout
and a dead database connection is an error. Nothing is asked of cron, of users or of
the environment. Which branch is taken when a call ends is not subject to
fairness: a portal may fail for ever.

### What the violations show

1. `sweep_abort`. `recordFailure` is awaited in `pollMeter`'s catch block with
   nothing around it. When the meter was deleted after it was listed, both its
   writes fail on the foreign key; `pollMeter` rejects, `Promise.all` rejects and the
   meters of later batches are not polled, against the comment at
   `balance-sweep.service.ts:264-266` ("must not abort the pass for everybody else").
2. `sweep_twins`. The rest of that batch is still running when the lock is released.
   Another instance, whose tick comes a moment later, lists a state those polls have not
   written yet, and both announce one crossing: what the comment at lines 195-198 says the lock is there to prevent.
3. `usage_unstamped`. An unstamped page moves `last_balance_at` to the poll time, and
   the next page with the old stamp moves it back. The sample after that starts where
   one on record does, ends elsewhere, and is dropped: a collision that is no replay
   (comments at lines 460-471 and 508-509, and `schema/index.ts:274-277`).

4. `registry_race`. An add that overlaps the removal of the account's only meter sees that
   meter and inserts its own as plain; the removal does not see the uncommitted row and
   promotes nobody. The account holds a meter and no primary, the state that
   `meter.service.ts:94-96` says `add` and `remove` prevent. A promotion whose meter is
   removed after the check at line 105, and a removal whose heir is removed after line
   168, end the same way; two first adds, or two promotions, leave two primaries.
   Locking the user row first (`SELECT ... FOR UPDATE`) would put calls in turn.

## 4. Proofs

`tlapm` checks every obligation of the proof modules. The theorems hold for any
sets of instances, passes, meters, users, readings and settings, any clock and any
limits, under the named assumptions on constants (`ConstantsAssumption`,
`LedgerAssumption`, ...).

| theorem | under | property |
|---|---|---|
| `TypeCorrect` | any `Faults` | `TypeOK` |
| `FlagAndLock`, `LockAlwaysReleased` | any `Faults` | `OnePassPerInstance`, `LockNeverLeaks` |
| `PassesExclude`, `RowsStayFresh` | `Faults = {}` | `SweepsExclude`, `RowsFresh` |
| `AlertsFollowWorsening` | `Faults = {}` | `AlertsOnWorseningOnly` |
| `WindowsFollowState` | `Faults = {}` | `WindowsChain` |
| `PassesCover` | `Faults = {}` | `PassCoversEveryMeter` |
| `AnomalyDaysAdvance` | `Faults = {}` | `AnomalyDayAdvances` |
| `SweepImplementsFeed` | `Faults = {}` | `ImplementsFeed` |
| `FeedTypeCorrect` | | `AlertFeed!TypeOK` |
| `SeenReadingsAreSilent` | | `SeenReadingIsSilent` |
| `RecoveriesRearm` | | `RecoveryRearms` |
| `RechargesAnnouncedOnce` | | `RechargeAnnouncedOnce` |
| `LedgerTypeCorrect` | any `StampFaults` | `UsageLedger!TypeOK` |
| `WindowsTile` | `StampFaults = {}` | `Tiles` |
| `GuardLosesNothing` | `StampFaults = {}` | `CollisionIsReplay` |
| `DeltasAreTrue` | `StampFaults = {}`, recharges on the minute | `TrueDelta` |
| `NormalUseIsKept` | `StampFaults = {}`, recharges on the minute | `NothingSuppressed` |
| `RangesAreBilledTruly` | `StampFaults = {}`, recharges on the minute, costs below the ceiling | `DaysAddUp` |
| `UnusualDaysAreFound` | the same | `UnusualDayFound` |
| `RegistryTypeCorrect` | | `TypeOK` |
| `CallsInTurnKeepOne` | | `OnePrimaryInTurn` |
| `PromotionsKeepSome` | | `SomePrimaryUnlessRemoved` |
| `NumbersStayDistinct` | | `NumbersDistinct` |
| `NoRingWithOnePrimary` | | `DeadlockNeedsTwoPrimaries` |
| `AccountsTypeCorrect` | | `TypeOK` |
| `CodesSpentWithPassword` | | `CodeAndPasswordTogether` |
| `GuessesStayBounded` | | `GuessesBounded` |
| `QuotaStaysBounded` | | `QuotaHolds` |
| `CodesUsedOnce` | | `CodeUsedOnce` |
| `ChangesAreEarned` | | `ChangeIsEarned` |
| `LatestCodesWin` | | `LatestCodeWins` |
| `DeliveryTypeCorrect` | | `NotificationDelivery!TypeOK` |
| `AllChannelsTried` | | `ChannelsTried` |
| `DevicesFollow` | | `DevicesFollowFcm` |
| `InboxKeepsHistory` | | `HistoryKept` |
| `StampIsReadBack` | | a balance stamp is parsed as the instant it was printed for |
| `RechargeDatedByMinute` | | a recharge is dated by the minute it was made in |
| `SegmentsCarryMessage` | | a text is billed as few parts as hold it, in the alphabet it needs |
| `NormalisedOnce` | | a normalised number is accepted as it is |

`Faults = {}` still has crashes, refused connections, failing polls, failing
transactions and failing sends; what it excludes is named in section 2, and
`sweep_abort` and `sweep_twins` show that these theorems fail without it.

**The argument for the sweep.** `TypeInv` adds to `TypeOK` that a poll about to
record has a reading. `OnePassPerInstance /\ LockNeverLeaks` is inductive on top of it, under
every fault. `RowsFresh` is not inductive: that a copy stays what the table holds needs
that nobody else writes, so that only one pass works (`HolderOnly`: a pass from listing to
unlocking holds the lock; `WorkInsideSweep`: only a sweeping pass has polls to settle);
that needs a pass not to be aborted under its polls, so no poll to be rejected
(`NoneRejected`), which rests on a listed meter still being there for `recordFailure`
to write to (`ListedSaved`). `SafeInv` is this chain, with what may be owed when
(`DueWhileSending`). `CopyInv` adds that a poll's settings are some a user saved and that
the day it is about to stamp is later than the one it read. Each has a lemma per action;
the action properties and the refinement then follow step by step.
In the refinement `RecordSuccess` is `Observe` (freshness makes the copy the
stored state, exclusion makes everything owed this poll's), `StampAnomaly` is
`FlagDay`, `Push` and `AnnounceAnomaly` send or lose, `CrashRestart` is `Lose`,
`RemoveMeter` is `Forget`, and all other steps stutter.

**The argument for the page.** An instant is taken apart into day, hour, minute and
second, and `Digits` reads each back: the first half of the day shows its hour or twelve,
the second the same again (`SecondRound`). `Carries` keeps the time below a day, so that
`dhakaTimeToEpochSeconds` sees no rolled-over date, and division puts the parts together.

**The argument for the ledger.** What a poll makes of a stamped page carries the settled
instant (`SnapshotIsStamped`, by `StampIsReadBack`). `TilesInv` strengthens `Tiles` by the order of the
instants (`since` <= `last_balance_at` <= settled <= now). A poll of a stamped page
either repeats the recorded instant, and records nothing, or advances it, and then
adds exactly the window in between, which starts where no other window does.

What a window found is a difference of two balances, and a balance is a sum over a set of
recharges. Induction theorems cannot be instantiated here, but a least counterexample can
be taken: `LeastNumber` does, and with it `SumExists` and `SumUnique` show that the folds
behind `Credited` and `Paid` have one value, and `TotalTakesOut` and `TotalOfUnion` that it adds up over
disjoint sets. `TableReadBack` reads every row of the page back, `HeldBetween` sets the
recharges of a window apart from those the opening balance held already, and `DeltaInv`
says that the stored balance is the one of the stored instant (`BalanceHeld`) beside
`TrueDelta`. Its condition `OnTheMinute` is needed: a recharge is dated without its
seconds, and in units finer than the minute TLC finds a window credited with a
recharge that came after it. `PaceInv` bounds what an hour consumes, and so, over the
window's hours, what `buildUsageSample` compares with the ceiling (`CostInv`).

**The argument for days and weeks.** What the invariants give of the ledger is
`BilledTruly`: the windows tile the time, and each holds what was consumed and paid in
it (`PaidInv` says so of the payments). The rest is about one state. `TotalOfGroups`
exchanges sums: when groups share nothing, the sum of their sums is the sum over all
they hold. The windows that close in a range of days fill the time between two readings
(`RangeFilled`), so that their costs are sums over the hours of that time (`CostOfRange`,
with `TotalOfSteps` for the differences of `used`) and their payments sums over its
recharges (`PaymentsOfRange`). Rows grouped by bucket give the same total (`PointsAddUp`), and
the hours of a row are those of its window that lie in its day (`HoursCounted`), no hour
in two rows (`HoursOfRows`).

For the unusual day, a day gets the same rows in a long range as alone (`RowsOfDay`), so
the daily points are the watched days with what each consumed (`DayPointsOfRange`). The
slice of the baseline never cuts one off (`BaselineIsTheRest`); their number is the
number of watched days before the last (`BaselineCounted`); their cost is all that was
consumed before it, since no reading is taken on a day that was not watched
(`NoReadingUnwatched`, `BaselineCost`); and `Rounding` says what a rounded percentage
means for the cost. Costs have to stay below the ceiling, since consumption that is
suppressed is billed to nobody.

**The argument for the policy.** The three rules of `evaluate()` are facts about any
well-typed state, not about how it came about: `FeedTypeCorrect` is the invariant, and each
theorem looks at two evaluations in a row. `FeedAssumption` asks only that the readings
are readings.

**The argument for the registry.** `LockInv`: two transactions never hold one row
(`Locks`), a call holds none before its first write, and one that holds a row and wants
another holds a row committed as primary (`HoldsPrimary`: it demoted it, or deletes it).
With one primary there is one such call, so no ring. `ClaimsDistinct` extends
`NumbersDistinct` to rows not committed yet. `QuietInv` says for each statement what a
call has seen and still may rely on while no removal overlaps (`AddSound`,
`UpdateSound`, `RemoveSound`); statements change no committed row, so each
has to be looked at for its own call only, and a commit of an add or update takes no
row away. `TurnInv` adds what a call sees of primary rows while it is alone.

**The argument for the accounts.** A limit that is read before a slow step and counted
after it is not inductive: the calls in between have to be counted with what they are
going to add. `GuessesCounted` adds to the guesses on a row the calls that verify
against it (and says that each guess is an attempt, which is what the ceiling is compared
with); a reset begins below the ceiling, a wrong guess moves one from the second count to
the first. `RequestsCounted` does the same with the codes of a window and the requests
past the throttle. `SoleWriter` is what holds while no two calls write the password: the
one under way holds a code that has set none, which rests on `CodeAndPasswordTogether`
(a row that is live has set none), or verified the password that still stands.
That few codes are live needs to know which call stored which, and no variable says so:
`LiveOwned` says that there is a one-to-one assignment of live codes to calls in which
every call that is about to store has found its own, and so retires it before it stores
another. `SoleRequest` is what holds while no two requests overlap: one past the throttle
is later than every code on record, since the cooldown is at least one, and one about to
store has found all that are live.

**The argument for deliveries.** `DeliveryInv` says what a send holds where it is: it owes
no channel it has passed or not yet learnt of, has pushed nothing before it reads its
tokens, and holds rejections of dead tokens only, which it forgets when it ends. A step of
one send is shown to leave the others alone once (`OthersKept`), so that each action is
looked at for its own send. `AskedIsSent` is where a number that is normalised twice must
still be accepted (`NormalisedOnce`). `FollowInv` is inductive on top of it: only tokens
held by a send are switched off, and those are dead.

**Only model-checked.** The liveness properties: the prover does not handle ENABLED,
and so fairness. Every invariant and every action property of the runs that pass is the
subject of a theorem.

## 5. What is left out, and the plan

Abstracted: alert texts, hashing and signatures, the digits of a code. The failure counter
is a flag. `BalanceSweep` takes a delivery as one step.

**Not modelled.**

- The connection pool (ten connections, five second wait), and an unlock that fails on a
  live session and leaves the lock in the pool. A statement that waits in vain is a
  failing statement, which the models have everywhere; how many fail together is load.
- A recharge whose status changes after the balance of its date was published:
  `TrueDelta` would not hold of such a portal. The runs assume, as `rechargesWithin` does,
  that a balance holds the successful recharges dated up to its stamp. A recharge within
  the minute after a stamp is dated before it (`RechargeDatedByMinute`); the runs have no unit below the
  page's minute.
- Extracting labels, headings and cells from HTML, customer details and the monthly
  table: selectors and texts, which a change of the portal decides about and no model.
- The session exchange with the portal, the HTTP call to the SMS gateway, SMTP and the
  templates, the wording of alerts: I/O and formatting, each a step that succeeds or fails
  where its callers wait for it.
- Configuration: declarative checks at start-up, whose values are the constants here.
  `IsSweepSchedule` samples six firings of a cron library; a schedule such as
  `0 */6 1-30 * *`, accepted in mid-month, leaves thirty hours at the end of a month of
  31 days.
- Merging a patch of settings and changing a profile: one atomic statement each. The sweep's
  view of changing settings is in `BalanceSweep`.
- Routing, guards, error rendering and the health probe: no state of their own.

**Plan.** A portal whose recharges change status, and the pool under `BalanceSweep`, each
with a run of its own; then what remains true of the ledger without the conditions on
stamps and minutes.
