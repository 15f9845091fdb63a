----------------------------- MODULE SmsEncoding -----------------------------
(***************************************************************************)
(* modules/sms/sms.encoding.ts and common/phone-number.ts: where a text    *)
(* goes, and how many parts of it the gateway bills.                       *)
(***************************************************************************)
EXTENDS Integers, FiniteSets

CONSTANTS
    GSM7_SINGLE_LIMIT, GSM7_CONCATENATED_LIMIT,   \* in septets
    UCS2_SINGLE_LIMIT, UCS2_CONCATENATED_LIMIT    \* in UTF-16 code units

\* The header that joins the parts takes room in each.
ASSUME SmsAssumption ==
    /\ {GSM7_SINGLE_LIMIT, GSM7_CONCATENATED_LIMIT,
        UCS2_SINGLE_LIMIT, UCS2_CONCATENATED_LIMIT} \subseteq Nat \ {0}
    /\ GSM7_CONCATENATED_LIMIT < GSM7_SINGLE_LIMIT
    /\ UCS2_CONCATENATED_LIMIT < UCS2_SINGLE_LIMIT

\* A message, by how many of its code units are in the basic GSM-7 alphabet,
\* in its extension, or in neither.
Message == [basic : Nat, extended : Nat, other : Nat]

IsGsm7(message) == message.other = 0

\* An extended character is sent as an escape pair.
Gsm7Septets(message) == message.basic + 2 * message.extended

Length(message) == message.basic + message.extended + message.other

CountSegments(units, single, concatenated) ==
    IF units = 0 THEN 0
    ELSE IF units <= single THEN 1
    ELSE (units + concatenated - 1) \div concatenated

DescribeSms(message) ==
    IF IsGsm7(message)
    THEN [encoding |-> "text",
          segments |-> CountSegments(Gsm7Septets(message),
                                     GSM7_SINGLE_LIMIT, GSM7_CONCATENATED_LIMIT)]
    ELSE [encoding |-> "unicode",
          segments |-> CountSegments(Length(message),
                                     UCS2_SINGLE_LIMIT, UCS2_CONCATENATED_LIMIT)]

-----------------------------------------------------------------------------
\* A number as somebody typed it, once its Bengali digits are folded and all
\* that is no digit is dropped: a leading "00" or none; then "880", "0" or
\* nothing; then what should be 1 and nine more digits.
PhoneNumber == [dialled : BOOLEAN, prefix : {"880", "0", ""}, isMobile : BOOLEAN]

\* null: no number on file, or none that can be a mobile.
NoNumber == [dialled |-> FALSE, prefix |-> "none", isMobile |-> FALSE]

ToBangladeshMsisdn(number) ==
    IF number.isMobile
    THEN [dialled |-> FALSE, prefix |-> "880", isMobile |-> TRUE]
    ELSE NoNumber

=============================================================================
