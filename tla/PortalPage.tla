----------------------------- MODULE PortalPage -----------------------------
(***************************************************************************)
(* modules/nesco/portal/nesco.parsing.ts, and the snapshot nesco.service   *)
(* .ts makes of one page: what is read off the portal's customer form and  *)
(* its table of recharges.                                                 *)
(*                                                                         *)
(* A page is what is left of its HTML once labels, headings and cells are  *)
(* told apart; the rows of its table are a set. A parser yields the set of *)
(* what it returns: nothing when it throws, and then the page is no        *)
(* snapshot. Instants are seconds since a midnight in Dhaka, whose offset  *)
(* is fixed, and the calendar is Date.UTC's: a date is its day.            *)
(***************************************************************************)
EXTENDS Integers, Sequences, FiniteSetsExt

CONSTANTS
    HOURS_ON_DIAL,       \* twelve
    MINUTES_PER_HOUR,
    SECONDS_PER_MINUTE

ASSUME ClockAssumption ==
    {HOURS_ON_DIAL, MINUTES_PER_HOUR, SECONDS_PER_MINUTE} \subseteq Nat \ {0}

NoStamp == 0   \* null

HoursPerDay == 2 * HOURS_ON_DIAL

-----------------------------------------------------------------------------
(***************************************************************************)
(* Amounts and instants.                                                   *)
(***************************************************************************)

\* parseAmount: a blank, or a dash, is nothing to pay; what is no number is no
\* zero.
ParseAmount(cell) ==
    CASE cell.kind = "blank"  -> {0}
      [] cell.kind = "number" -> {cell.amount}
      [] cell.kind = "other"  -> {}

\* Mutant: twelve more for PM, and twelve is twelve.
To24HourNaive(hour, meridiem) ==
    IF hour \notin 1..HOURS_ON_DIAL THEN {}
    ELSE {hour + (IF meridiem = "PM" THEN HOURS_ON_DIAL ELSE 0)}

To24Hour(hour, meridiem) ==
    IF hour \notin 1..HOURS_ON_DIAL THEN {}
    ELSE {(IF hour = HOURS_ON_DIAL THEN 0 ELSE hour)
             + (IF meridiem = "PM" THEN HOURS_ON_DIAL ELSE 0)}

\* A date that is not in the calendar, or a time that carries into the next
\* day, does not come back from Date.UTC as it went in.
DhakaTimeToEpochSeconds(date, hour, minute, second) ==
    LET minutes == hour * MINUTES_PER_HOUR + minute
    IN  IF \/ ~date.real
           \/ minutes * SECONDS_PER_MINUTE + second
                 >= HoursPerDay * MINUTES_PER_HOUR * SECONDS_PER_MINUTE
        THEN {}
        ELSE {((date.day * HoursPerDay + hour) * MINUTES_PER_HOUR + minute)
                 * SECONDS_PER_MINUTE + second}

\* parseBalanceStamp. A stamp that does not match, or names no month, is not
\* legible.
ParseBalanceStamp(stamp) ==
    IF ~stamp.legible THEN {}
    ELSE UNION {DhakaTimeToEpochSeconds(stamp.date, hour, stamp.minute, stamp.second) :
                   hour \in To24Hour(stamp.hour, stamp.meridiem)}

\* parseRechargeDate: without seconds.
ParseRechargeDate(stamp) == ParseBalanceStamp([stamp EXCEPT !.second = 0])

-----------------------------------------------------------------------------
(***************************************************************************)
(* The form.                                                               *)
(***************************************************************************)

\* requireLabelledEntry: the field with the very label, or else the first one
\* whose label begins with it.
RequireLabelledEntry(form, label) ==
    LET exact    == {i \in DOMAIN form : form[i].label = label /\ ~form[i].suffixed}
        prefixed == {i \in DOMAIN form : form[i].label = label}
    IN  IF exact # {} THEN {form[Min(exact)]}
        ELSE IF prefixed # {} THEN {form[Min(prefixed)]} ELSE {}

\* parseBalanceAsOf: the last group in parentheses, if it is a stamp. One that
\* is not to be read is absent, and takes nothing else with it.
ParseBalanceAsOf(entry) ==
    IF entry.groups = << >> \/ ParseBalanceStamp(entry.groups[Len(entry.groups)]) = {}
    THEN NoStamp
    ELSE CHOOSE instant \in ParseBalanceStamp(entry.groups[Len(entry.groups)]) : TRUE

\* parseBalance
ParseBalance(form) ==
    UNION {{[balance |-> amount, asOf |-> ParseBalanceAsOf(entry)] :
              amount \in ParseAmount(entry.value)} :
           entry \in RequireLabelledEntry(form, "balance")}

-----------------------------------------------------------------------------
(***************************************************************************)
(* The table; one without headings is none at all. "other" stands for the  *)
(* columns that are only passed on.                                        *)
(***************************************************************************)
RECHARGE_COLUMN == {"usable", "amount", "date", "status", "other"}

\* requireColumn
RequireColumn(headers, heading) ==
    LET columns == {i \in DOMAIN headers : headers[i] = heading}
    IN  IF columns = {} THEN {} ELSE {Min(columns)}

\* requireCell
RequireCell(headers, row, heading) ==
    {row[i] : i \in RequireColumn(headers, heading) \intersect DOMAIN row}

ParseRow(headers, row) ==
    IF RequireCell(headers, row, "other") = {} THEN {}
    ELSE UNION {{[rechargedDate  |-> instant,
                  usableAmount   |-> usable,
                  rechargeAmount |-> amount,
                  rechargeStatus |-> status] :
                    instant \in UNION {ParseRechargeDate(c) : c \in RequireCell(headers, row, "date")},
                    usable  \in UNION {ParseAmount(c) : c \in RequireCell(headers, row, "usable")},
                    amount  \in UNION {ParseAmount(c) : c \in RequireCell(headers, row, "amount")}} :
                status \in RequireCell(headers, row, "status")}

\* parseRechargeHistory: all of the rows, or none.
ParseRechargeHistory(table) ==
    IF /\ \A heading \in RECHARGE_COLUMN : RequireColumn(table.headers, heading) # {}
       /\ \A row \in table.rows : ParseRow(table.headers, row) # {}
    THEN {UNION {ParseRow(table.headers, row) : row \in table.rows}} ELSE {}

\* getRechargeSnapshot: balance and recharges of the one page, or neither.
GetRechargeSnapshot(page) ==
    {[balance |-> b.balance, balanceAsOf |-> b.asOf, recharges |-> recharges] :
        b \in ParseBalance(page.form), recharges \in ParseRechargeHistory(page.table)}

-----------------------------------------------------------------------------
\* How the portal writes an instant. A recharge shows no seconds.
PrintStamp(instant) ==
    LET minutes == instant \div SECONDS_PER_MINUTE
        hours   == minutes \div MINUTES_PER_HOUR
        hour    == hours % HoursPerDay
    IN  [legible  |-> TRUE,
         date     |-> [day |-> hours \div HoursPerDay, real |-> TRUE],
         hour     |-> IF hour % HOURS_ON_DIAL = 0 THEN HOURS_ON_DIAL ELSE hour % HOURS_ON_DIAL,
         minute   |-> minutes % MINUTES_PER_HOUR,
         second   |-> instant % SECONDS_PER_MINUTE,
         meridiem |-> IF hour < HOURS_ON_DIAL THEN "AM" ELSE "PM"]

=============================================================================
