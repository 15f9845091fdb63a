-------------------------- MODULE PortalPage_proofs --------------------------
(***************************************************************************)
(* A stamp is read as the instant it was written for, on any dial.         *)
(***************************************************************************)
EXTENDS PortalPage, TLAPS

LEMMA Division ==
    ASSUME NEW n \in Nat, NEW d \in Nat \ {0}
    PROVE  /\ n \div d \in Nat
           /\ n % d \in 0..(d - 1)
           /\ n = ((n \div d) * d) + (n % d)
<1>1. n \div d \in Nat
  OBVIOUS
<1>2. n % d \in 0..(d - 1)
  OBVIOUS
<1>3. n = ((n \div d) * d) + (n % d)
  OBVIOUS
<1> QED
  BY <1>1, <1>2, <1>3

\* A digit beside a numeral stays within the numeral's range.
LEMMA Carries ==
    ASSUME NEW n \in Nat, NEW d \in Nat \ {0}, NEW high \in 0..(n - 1), NEW low \in 0..(d - 1)
    PROVE  high * d + low < n * d
<1>1. high + 1 <= n
  OBVIOUS
<1>2. (high + 1) * d <= n * d
  BY <1>1
<1> QED
  BY <1>2

\* The second half of the day shows the same hours as the first.
LEMMA SecondRound ==
    ASSUME NEW d \in Nat \ {0}, NEW n \in d..(2 * d - 1)
    PROVE  n % d = n - d
<1> DEFINE q == n \div d
<1>0. n \in Nat /\ n >= d /\ n < 2 * d
  OBVIOUS
<1>1. q \in Nat /\ n % d \in 0..(d - 1) /\ n = (q * d) + (n % d)
  BY <1>0, Division, Zenon
<1> HIDE DEF q
<1>2. q # 0
  BY <1>0, <1>1
<1>3. ~(q >= 2)
  <2>1. q >= 2 => q * d >= 2 * d
    BY <1>1
  <2> QED
    BY <1>0, <1>1, <2>1
<1>4. q = 1
  BY <1>1, <1>2, <1>3
<1>5. q * d = d
  BY <1>4
<1> QED
  BY <1>0, <1>1, <1>5

\* The clock of the page, read back: twelve stands for none.
LEMMA HourIsReadBack ==
    ASSUME NEW hour \in 0..(HoursPerDay - 1),
           NEW shown, shown = IF hour % HOURS_ON_DIAL = 0 THEN HOURS_ON_DIAL
                              ELSE hour % HOURS_ON_DIAL
    PROVE  To24Hour(shown, IF hour < HOURS_ON_DIAL THEN "AM" ELSE "PM") = {hour}
<1>1. HOURS_ON_DIAL \in Nat \ {0}
  BY ClockAssumption
<1>2. CASE hour < HOURS_ON_DIAL
  <2>1. hour % HOURS_ON_DIAL = hour
    BY <1>1, <1>2 DEF HoursPerDay
  <2> QED
    BY <1>1, <1>2, <2>1 DEF To24Hour, HoursPerDay
<1>3. CASE ~(hour < HOURS_ON_DIAL)
  <2>1. hour % HOURS_ON_DIAL = hour - HOURS_ON_DIAL
    BY <1>1, <1>3, SecondRound DEF HoursPerDay
  <2>2. hour - HOURS_ON_DIAL < HOURS_ON_DIAL
    BY <1>1 DEF HoursPerDay
  <2> QED
    BY <1>1, <1>3, <2>1, <2>2 DEF To24Hour, HoursPerDay
<1> QED
  BY <1>2, <1>3

\* A time of day that is one is not carried into the next day.
LEMMA TimeIsOfDay ==
    ASSUME NEW date, date.real,
           NEW hour \in 0..(HoursPerDay - 1),
           NEW minute \in 0..(MINUTES_PER_HOUR - 1),
           NEW second \in 0..(SECONDS_PER_MINUTE - 1)
    PROVE  DhakaTimeToEpochSeconds(date, hour, minute, second) =
             {((date.day * HoursPerDay + hour) * MINUTES_PER_HOUR + minute)
                 * SECONDS_PER_MINUTE + second}
<1> DEFINE minutes == hour * MINUTES_PER_HOUR + minute
           ofDay   == HoursPerDay * MINUTES_PER_HOUR
<1>1. /\ HoursPerDay \in Nat \ {0} /\ MINUTES_PER_HOUR \in Nat \ {0}
      /\ SECONDS_PER_MINUTE \in Nat \ {0}
  BY ClockAssumption DEF HoursPerDay
<1>2. minutes < ofDay
  BY <1>1, Carries
<1>3. minutes \in Nat /\ ofDay \in Nat
  BY <1>1
<1> HIDE DEF minutes, ofDay
<1>4. minutes * SECONDS_PER_MINUTE + second < ofDay * SECONDS_PER_MINUTE
  BY <1>1, <1>2, <1>3, Carries
<1>5. ~(minutes * SECONDS_PER_MINUTE + second >= ofDay * SECONDS_PER_MINUTE)
  BY <1>1, <1>3, <1>4
<1> QED
  BY <1>5, Zenon DEF DhakaTimeToEpochSeconds, minutes, ofDay

\* parseBalanceStamp, of a stamp that is one.
LEMMA ProperStamp ==
    ASSUME NEW stamp, stamp.legible, stamp.date.real,
           NEW hour \in 0..(HoursPerDay - 1),
           To24Hour(stamp.hour, stamp.meridiem) = {hour},
           stamp.minute \in 0..(MINUTES_PER_HOUR - 1),
           stamp.second \in 0..(SECONDS_PER_MINUTE - 1)
    PROVE  ParseBalanceStamp(stamp) =
             {((stamp.date.day * HoursPerDay + hour) * MINUTES_PER_HOUR + stamp.minute)
                 * SECONDS_PER_MINUTE + stamp.second}
<1>1. ParseBalanceStamp(stamp)
        = DhakaTimeToEpochSeconds(stamp.date, hour, stamp.minute, stamp.second)
  BY Zenon DEF ParseBalanceStamp
<1>2. @ = {((stamp.date.day * HoursPerDay + hour) * MINUTES_PER_HOUR + stamp.minute)
                 * SECONDS_PER_MINUTE + stamp.second}
  BY TimeIsOfDay
<1> QED
  BY <1>1, <1>2

\* PrintStamp, digit by digit.
LEMMA Digits ==
    ASSUME NEW instant \in Nat
    PROVE  LET stamp == PrintStamp(instant)
           IN  \E hour \in 0..(HoursPerDay - 1) :
                  /\ stamp.legible /\ stamp.date.real
                  /\ stamp.date.day \in Nat
                  /\ stamp.minute \in 0..(MINUTES_PER_HOUR - 1)
                  /\ stamp.second = instant % SECONDS_PER_MINUTE
                  /\ stamp.second \in 0..(SECONDS_PER_MINUTE - 1)
                  /\ To24Hour(stamp.hour, stamp.meridiem) = {hour}
                  /\ (stamp.date.day * HoursPerDay + hour) * MINUTES_PER_HOUR + stamp.minute
                       = instant \div SECONDS_PER_MINUTE
<1> DEFINE minutes  == instant \div SECONDS_PER_MINUTE
           hours    == minutes \div MINUTES_PER_HOUR
           hour     == hours % HoursPerDay
           day      == hours \div HoursPerDay
           shown    == IF hour % HOURS_ON_DIAL = 0 THEN HOURS_ON_DIAL
                       ELSE hour % HOURS_ON_DIAL
           meridiem == IF hour < HOURS_ON_DIAL THEN "AM" ELSE "PM"
           stamp    == [legible  |-> TRUE,
                        date     |-> [day |-> day, real |-> TRUE],
                        hour     |-> shown,
                        minute   |-> minutes % MINUTES_PER_HOUR,
                        second   |-> instant % SECONDS_PER_MINUTE,
                        meridiem |-> meridiem]
<1>1. /\ HoursPerDay \in Nat \ {0} /\ MINUTES_PER_HOUR \in Nat \ {0}
      /\ SECONDS_PER_MINUTE \in Nat \ {0}
  BY ClockAssumption DEF HoursPerDay
<1>2. PrintStamp(instant) = stamp
  BY Zenon DEF PrintStamp
<1>3. minutes \in Nat /\ instant % SECONDS_PER_MINUTE \in 0..(SECONDS_PER_MINUTE - 1)
  BY <1>1, Division, Zenon
<1>4. /\ hours \in Nat /\ minutes % MINUTES_PER_HOUR \in 0..(MINUTES_PER_HOUR - 1)
      /\ minutes = (hours * MINUTES_PER_HOUR) + (minutes % MINUTES_PER_HOUR)
  BY <1>1, <1>3, Division, Zenon
<1>5. /\ day \in Nat /\ hour \in 0..(HoursPerDay - 1)
      /\ hours = (day * HoursPerDay) + hour
  BY <1>1, <1>4, Division, Zenon
<1>6. To24Hour(shown, meridiem) = {hour}
  BY <1>5, HourIsReadBack, Zenon
<1>7. (day * HoursPerDay + hour) * MINUTES_PER_HOUR + (minutes % MINUTES_PER_HOUR) = minutes
  BY <1>4, <1>5, Zenon
<1> HIDE DEF minutes, hours, hour, day, shown, meridiem
<1>8. /\ stamp.legible = TRUE /\ stamp.date.real /\ stamp.date.day = day
      /\ stamp.hour = shown /\ stamp.meridiem = meridiem
      /\ stamp.minute = minutes % MINUTES_PER_HOUR
      /\ stamp.second = instant % SECONDS_PER_MINUTE
  OBVIOUS
<1> HIDE DEF stamp
<1> QED
  BY <1>2, <1>3, <1>4, <1>5, <1>6, <1>7, <1>8, Zenon DEF minutes

\* parseBalanceStamp reads every instant back as it was written, noon and
\* midnight included, whatever the dial.
THEOREM StampIsReadBack ==
    ASSUME NEW instant \in Nat
    PROVE  ParseBalanceStamp(PrintStamp(instant)) = {instant}
<1> DEFINE stamp == PrintStamp(instant)
<1>1. PICK hour \in 0..(HoursPerDay - 1) :
         /\ stamp.legible /\ stamp.date.real
         /\ stamp.date.day \in Nat
         /\ stamp.minute \in 0..(MINUTES_PER_HOUR - 1)
         /\ stamp.second = instant % SECONDS_PER_MINUTE
         /\ stamp.second \in 0..(SECONDS_PER_MINUTE - 1)
         /\ To24Hour(stamp.hour, stamp.meridiem) = {hour}
         /\ (stamp.date.day * HoursPerDay + hour) * MINUTES_PER_HOUR + stamp.minute
              = instant \div SECONDS_PER_MINUTE
  BY Digits, Zenon
<1> HIDE DEF stamp
<1>2. ParseBalanceStamp(stamp) =
        {((stamp.date.day * HoursPerDay + hour) * MINUTES_PER_HOUR + stamp.minute)
            * SECONDS_PER_MINUTE + stamp.second}
  BY <1>1, ProperStamp
<1>3. @ = {(instant \div SECONDS_PER_MINUTE) * SECONDS_PER_MINUTE + stamp.second}
  BY <1>1, Zenon
<1>4. @ = {instant}
  <2>1. instant = ((instant \div SECONDS_PER_MINUTE) * SECONDS_PER_MINUTE)
                    + (instant % SECONDS_PER_MINUTE)
    BY ClockAssumption, Division
  <2> QED
    BY <1>1, <2>1, Zenon
<1> QED
  BY <1>2, <1>3, <1>4 DEF stamp

\* parseRechargeDate dates a recharge by the minute it falls in: never after
\* it, and less than a minute before.
THEOREM RechargeDatedByMinute ==
    ASSUME NEW instant \in Nat
    PROVE  ParseRechargeDate(PrintStamp(instant)) = {instant - (instant % SECONDS_PER_MINUTE)}
<1> DEFINE stamp  == PrintStamp(instant)
           minute == [stamp EXCEPT !.second = 0]
<1>1. PICK hour \in 0..(HoursPerDay - 1) :
         /\ stamp.legible /\ stamp.date.real
         /\ stamp.date.day \in Nat
         /\ stamp.minute \in 0..(MINUTES_PER_HOUR - 1)
         /\ stamp.second = instant % SECONDS_PER_MINUTE
         /\ stamp.second \in 0..(SECONDS_PER_MINUTE - 1)
         /\ To24Hour(stamp.hour, stamp.meridiem) = {hour}
         /\ (stamp.date.day * HoursPerDay + hour) * MINUTES_PER_HOUR + stamp.minute
              = instant \div SECONDS_PER_MINUTE
  BY Digits, Zenon
<1>2. /\ minute.legible = stamp.legible /\ minute.date = stamp.date
      /\ minute.hour = stamp.hour /\ minute.meridiem = stamp.meridiem
      /\ minute.minute = stamp.minute /\ minute.second = 0
  BY DEF PrintStamp
<1>3. ParseRechargeDate(stamp) = ParseBalanceStamp(minute)
  BY Zenon DEF ParseRechargeDate
<1> HIDE DEF minute, stamp
<1>4. 0 \in 0..(SECONDS_PER_MINUTE - 1)
  BY ClockAssumption
<1>5. ParseBalanceStamp(minute) =
        {((minute.date.day * HoursPerDay + hour) * MINUTES_PER_HOUR + minute.minute)
            * SECONDS_PER_MINUTE + minute.second}
  BY <1>1, <1>2, <1>4, ProperStamp
<1>6. @ = {(instant \div SECONDS_PER_MINUTE) * SECONDS_PER_MINUTE + 0}
  BY <1>1, <1>2, Zenon
<1>7. @ = {instant - (instant % SECONDS_PER_MINUTE)}
  <2> DEFINE n == (instant \div SECONDS_PER_MINUTE) * SECONDS_PER_MINUTE
  <2>1. /\ instant = n + (instant % SECONDS_PER_MINUTE)
        /\ instant \div SECONDS_PER_MINUTE \in Nat
        /\ instant % SECONDS_PER_MINUTE \in 0..(SECONDS_PER_MINUTE - 1)
    BY ClockAssumption, Division
  <2>2. n \in Nat
    BY <2>1, ClockAssumption
  <2> HIDE DEF n
  <2>3. n + 0 = instant - (instant % SECONDS_PER_MINUTE)
    BY <2>1, <2>2, ClockAssumption
  <2> QED
    BY <2>3, Zenon DEF n
<1> QED
  BY <1>3, <1>5, <1>6, <1>7 DEF stamp

\* A snapshot's instant is the one parseBalance found.
LEMMA SnapshotOfBalance ==
    ASSUME NEW page, NEW snapshot \in GetRechargeSnapshot(page)
    PROVE  \E b \in ParseBalance(page.form) : snapshot.balanceAsOf = b.asOf
<1> DEFINE balances  == ParseBalance(page.form)
           histories == ParseRechargeHistory(page.table)
<1>1. snapshot \in {[balance |-> b.balance, balanceAsOf |-> b.asOf, recharges |-> recharges] :
                        b \in balances, recharges \in histories}
  BY DEF GetRechargeSnapshot
<1> HIDE DEF balances, histories
<1>2. \E b \in balances : snapshot.balanceAsOf = b.asOf
  BY <1>1
<1> QED
  BY <1>2, Zenon DEF balances

=============================================================================
