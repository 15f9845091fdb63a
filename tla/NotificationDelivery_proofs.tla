-------------------- MODULE NotificationDelivery_proofs --------------------
(***************************************************************************)
(* Proofs about NotificationDelivery: for any users, devices, calls under  *)
(* way, gateways, numbers and batch size; and about SmsEncoding, for every *)
(* message and every limit.                                                *)
(***************************************************************************)
EXTENDS NotificationDelivery, FiniteSetTheorems, TLAPS

(***************************************************************************)
(* How many parts a text has, and where it goes.                           *)
(***************************************************************************)

\* Math.ceil of a quotient: the least number of parts of that size that hold
\* the units.
LEMMA DivisionRoundsUp ==
    ASSUME NEW units \in Nat, NEW size \in Nat \ {0},
           NEW n \in Int, n = (units + size - 1) \div size
    PROVE  /\ units <= n * size
           /\ (n - 1) * size < units
  OBVIOUS

\* countSegments: no part for no units, one if they fit a message of its own,
\* and else as few of the smaller parts as hold them, which are two or more.
LEMMA CountSegmentsFit ==
    ASSUME NEW units \in Nat, NEW single \in Nat \ {0},
           NEW concatenated \in Nat \ {0}, concatenated < single,
           NEW n, n = CountSegments(units, single, concatenated)
    PROVE  /\ n \in Nat
           /\ n = 0 <=> units = 0
           /\ n = 1 <=> units \in 1..single
           /\ n > 1 => /\ units <= n * concatenated
                       /\ (n - 1) * concatenated < units
  BY DivisionRoundsUp DEF CountSegments

\* describeSms bills as many parts as hold the message in the alphabet it is
\* sent in, and no more; a message with a character outside GSM-7 is never
\* sent as text.
THEOREM SegmentsCarryMessage ==
    ASSUME NEW message \in Message
    PROVE  LET sms   == DescribeSms(message)
               text  == sms.encoding = "text"
               units == IF text THEN Gsm7Septets(message) ELSE Length(message)
               alone == IF text THEN GSM7_SINGLE_LIMIT ELSE UCS2_SINGLE_LIMIT
               part  == IF text THEN GSM7_CONCATENATED_LIMIT ELSE UCS2_CONCATENATED_LIMIT
           IN  /\ text <=> message.other = 0
               /\ sms.segments \in Nat
               /\ sms.segments = 0 <=> units = 0
               /\ sms.segments = 1 <=> units \in 1..alone
               /\ sms.segments > 1 => /\ units <= sms.segments * part
                                      /\ (sms.segments - 1) * part < units
<1>1. /\ message.basic \in Nat /\ message.extended \in Nat /\ message.other \in Nat
      /\ Gsm7Septets(message) \in Nat /\ Length(message) \in Nat
  BY DEF Message, Gsm7Septets, Length
<1>2. CASE IsGsm7(message)
  <2>1. DescribeSms(message) =
          [encoding |-> "text",
           segments |-> CountSegments(Gsm7Septets(message),
                                      GSM7_SINGLE_LIMIT, GSM7_CONCATENATED_LIMIT)]
    BY <1>2 DEF DescribeSms
  <2> QED
    BY <1>1, <1>2, <2>1, CountSegmentsFit, SmsAssumption DEF IsGsm7
<1>3. CASE ~IsGsm7(message)
  <2>1. DescribeSms(message) =
          [encoding |-> "unicode",
           segments |-> CountSegments(Length(message),
                                      UCS2_SINGLE_LIMIT, UCS2_CONCATENATED_LIMIT)]
    BY <1>3 DEF DescribeSms
  <2> QED
    BY <1>1, <1>3, <2>1, CountSegmentsFit, SmsAssumption DEF IsGsm7
<1> QED
  BY <1>2, <1>3

\* toBangladeshMsisdn accepts what it returns, so that SmsService.send turns
\* away no number that deliverSms has let through.
THEOREM NormalisedOnce ==
    ASSUME NEW number \in PhoneNumber \union {NoNumber}
    PROVE  ToBangladeshMsisdn(ToBangladeshMsisdn(number)) = ToBangladeshMsisdn(number)
  BY DEF PhoneNumber, NoNumber, ToBangladeshMsisdn

-----------------------------------------------------------------------------
(***************************************************************************)
(* The invariant. What a call of sendToUser holds depends on where it is:  *)
(* it owes no channel it has passed or not yet learnt of, it has pushed    *)
(* nothing before it has read its tokens, and what FCM has rejected for it *)
(* is rejected for good and forgotten when it ends.                        *)
(***************************************************************************)
WorldOK ==
    /\ clock \in 1..(MaxTime + 1)
    /\ configured \in Deployment
    /\ devices \in [Token -> DeviceToken]
    /\ inbox \in Seq(Notification)
    /\ dead \subseteq Token
    /\ wanted \subseteq Token /\ rejected \subseteq Token

LocalsOK ==
    /\ at \in [Send -> Step]
    /\ to \in [Send -> User \union {NoUser}]
    /\ outgoing \in [Send -> SUBSET {"sms", "email"}]
    /\ tokens \in [Send -> Seq(Token)]
    /\ pushed \in [Send -> 0..Cardinality(Token)]
    /\ invalid \in [Send -> SUBSET Token]
    /\ owed \in [Send -> SUBSET {"sms", "email"}]

\* The channels a send may still owe.
MayOwe(s) ==
    CASE at[s] = "sms"   -> outgoing[s]
      [] at[s] = "email" -> {"email"}
      [] OTHER           -> {}

SendOK(s) ==
    /\ at[s] \in {"sms", "email"} => at[s] \in outgoing[s]
    /\ at[s] = "push" => pushed[s] < Len(tokens[s])
    /\ at[s] # "push" => pushed[s] = 0
    /\ Len(tokens[s]) <= Cardinality(Token)
    /\ owed[s] \subseteq MayOwe(s)
    /\ invalid[s] \subseteq dead
    /\ at[s] = "deactivate" => invalid[s] # {}
    /\ at[s] \notin {"push", "deactivate"} => invalid[s] = {}

SendsOK == \A s \in Send : SendOK(s)

DeliveryInv == WorldOK /\ LocalsOK /\ SendsOK

LEMMA InvTypes == DeliveryInv => TypeOK
  BY Zenon DEF DeliveryInv, WorldOK, LocalsOK, SendsOK, SendOK, TypeOK

LEMMA TokensFinite == Cardinality(Token) \in Nat
  BY DeliveryAssumption, FS_CardinalityType

-----------------------------------------------------------------------------
(***************************************************************************)
(* A step of one send leaves what the others hold alone.                   *)
(***************************************************************************)
OnlyOf(s) ==
    /\ at'       = [at EXCEPT ![s] = at'[s]]
    /\ to'       = [to EXCEPT ![s] = to'[s]]
    /\ outgoing' = [outgoing EXCEPT ![s] = outgoing'[s]]
    /\ tokens'   = [tokens EXCEPT ![s] = tokens'[s]]
    /\ pushed'   = [pushed EXCEPT ![s] = pushed'[s]]
    /\ invalid'  = [invalid EXCEPT ![s] = invalid'[s]]
    /\ owed'     = [owed EXCEPT ![s] = owed'[s]]

LEMMA SetOne ==
    ASSUME NEW S, NEW f, f = [x \in S |-> f[x]], NEW s \in S, NEW v
    PROVE  /\ f = [f EXCEPT ![s] = f[s]]
           /\ [f EXCEPT ![s] = v] = [f EXCEPT ![s] = [f EXCEPT ![s] = v][s]]
           /\ [f EXCEPT ![s] = v][s] = v
  OBVIOUS

\* What a send holds when it is over.
LEMMA EndEffect ==
    ASSUME LocalsOK, NEW s \in Send, End(s)
    PROVE  /\ at'[s] = "idle" /\ to'[s] = NoUser /\ outgoing'[s] = {}
           /\ tokens'[s] = << >> /\ pushed'[s] = 0 /\ invalid'[s] = {}
           /\ owed' = [owed EXCEPT ![s] = owed'[s]] => OnlyOf(s)
  BY DEF End, GoTo, LocalsOK, OnlyOf

\* The invariant of the other sends follows, and what is left to show is that of
\* the send itself.
LEMMA OthersKept ==
    ASSUME LocalsOK, SendsOK, dead' = dead, NEW s \in Send, OnlyOf(s),
           at'[s] \in Step, to'[s] \in User \union {NoUser},
           outgoing'[s] \subseteq {"sms", "email"}, tokens'[s] \in Seq(Token),
           pushed'[s] \in 0..Cardinality(Token), invalid'[s] \subseteq Token,
           owed'[s] \subseteq {"sms", "email"},
           SendOK(s)'
    PROVE  LocalsOK' /\ SendsOK'
<1>1. LocalsOK'
  BY DEF LocalsOK, OnlyOf
<1>2. ASSUME NEW r \in Send, r # s
      PROVE  SendOK(r)'
  <2>1. /\ at'[r] = at[r] /\ outgoing'[r] = outgoing[r] /\ tokens'[r] = tokens[r]
        /\ pushed'[r] = pushed[r] /\ invalid'[r] = invalid[r] /\ owed'[r] = owed[r]
    BY <1>2 DEF LocalsOK, OnlyOf
  <2>2. SendOK(r)
    BY DEF SendsOK
  <2> QED BY <2>1, <2>2, Zenon DEF SendOK, MayOwe
<1>3. SendsOK'
  BY <1>2, Zenon DEF SendsOK
<1> QED BY <1>1, <1>3

\* A send that ends owing nothing.
LEMMA EndKeeps ==
    ASSUME LocalsOK, SendsOK, dead' = dead, NEW s \in Send, End(s),
           owed' = [owed EXCEPT ![s] = owed'[s]], owed'[s] = {}
    PROVE  LocalsOK' /\ SendsOK'
<1>1. /\ at'[s] = "idle" /\ to'[s] = NoUser /\ outgoing'[s] = {}
      /\ tokens'[s] = << >> /\ pushed'[s] = 0 /\ invalid'[s] = {}
      /\ OnlyOf(s)
  BY EndEffect
<1>2. at'[s] \in Step /\ to'[s] \in User \union {NoUser} /\ tokens'[s] \in Seq(Token)
  BY <1>1 DEF Step
<1>3. pushed'[s] \in 0..Cardinality(Token) /\ Len(tokens'[s]) <= Cardinality(Token)
  BY <1>1, TokensFinite
<1>4. SendOK(s)'
  BY <1>1, <1>3 DEF SendOK
<1> QED BY <1>1, <1>2, <1>3, <1>4, OthersKept

\* The states of a send before it reads its tokens: it has none.
LEMMA GoToPushKeeps ==
    ASSUME LocalsOK, SendsOK, dead' = dead, NEW s \in Send,
           at[s] \in {"recipient", "sms", "email"}, GoToPush(s),
           owed' = [owed EXCEPT ![s] = owed'[s]], owed'[s] = {}
    PROVE  LocalsOK' /\ SendsOK'
<1>1. CASE End(s)
  BY <1>1, EndKeeps
<1>2. CASE /\ GoTo(s, "tokens")
           /\ outgoing' = [outgoing EXCEPT ![s] = {}]
           /\ UNCHANGED <<to, tokens, pushed, invalid>>
  <2>1. /\ at'[s] = "tokens" /\ outgoing'[s] = {} /\ to'[s] = to[s]
        /\ tokens'[s] = tokens[s] /\ pushed'[s] = pushed[s] /\ invalid'[s] = invalid[s]
        /\ OnlyOf(s)
    BY <1>2 DEF LocalsOK, GoTo, OnlyOf
  <2>2. /\ to[s] \in User \union {NoUser} /\ tokens[s] \in Seq(Token)
        /\ pushed[s] \in 0..Cardinality(Token) /\ invalid[s] \subseteq Token
    BY DEF LocalsOK
  <2>3. pushed[s] = 0 /\ invalid[s] = {} /\ Len(tokens[s]) <= Cardinality(Token)
    <3>1. SendOK(s)
      BY DEF SendsOK
    <3> QED BY <3>1 DEF SendOK
  <2>4. SendOK(s)'
    BY <2>1, <2>3 DEF SendOK
  <2> QED BY <2>1, <2>2, <2>4, OthersKept DEF Step
<1> QED BY <1>1, <1>2, Zenon DEF GoToPush

LEMMA GoToMailKeeps ==
    ASSUME LocalsOK, SendsOK, dead' = dead, NEW s \in Send,
           at[s] = "sms", GoToMail(s),
           owed' = [owed EXCEPT ![s] = owed[s] \ {"sms"}]
    PROVE  LocalsOK' /\ SendsOK'
<1>1. owed[s] \subseteq outgoing[s] /\ owed[s] \subseteq {"sms", "email"}
  <2>1. SendOK(s)
    BY DEF SendsOK
  <2> QED BY <2>1 DEF SendOK, MayOwe, LocalsOK
<1>2. owed'[s] = owed[s] \ {"sms"} /\ owed' = [owed EXCEPT ![s] = owed'[s]]
  BY DEF LocalsOK
<1>3. CASE "email" \in outgoing[s]
  <2>1. /\ GoTo(s, "email") /\ outgoing' = [outgoing EXCEPT ![s] = {"email"}]
        /\ UNCHANGED <<to, tokens, pushed, invalid>>
    BY <1>3, Zenon DEF GoToMail
  <2>2. /\ at'[s] = "email" /\ outgoing'[s] = {"email"} /\ to'[s] = to[s]
        /\ tokens'[s] = tokens[s] /\ pushed'[s] = pushed[s] /\ invalid'[s] = invalid[s]
        /\ OnlyOf(s)
    BY <1>2, <2>1 DEF LocalsOK, GoTo, OnlyOf
  <2>3. /\ to[s] \in User \union {NoUser} /\ tokens[s] \in Seq(Token)
        /\ pushed[s] \in 0..Cardinality(Token) /\ invalid[s] \subseteq Token
    BY DEF LocalsOK
  <2>4. pushed[s] = 0 /\ invalid[s] = {} /\ Len(tokens[s]) <= Cardinality(Token)
    <3>1. SendOK(s)
      BY DEF SendsOK
    <3> QED BY <3>1 DEF SendOK
  <2>5. owed'[s] \subseteq {"email"} /\ owed'[s] \subseteq {"sms", "email"}
    BY <1>1, <1>2
  <2>6. SendOK(s)'
    BY <2>2, <2>4, <2>5 DEF SendOK, MayOwe
  <2> QED BY <2>2, <2>3, <2>5, <2>6, OthersKept DEF Step
<1>4. CASE "email" \notin outgoing[s]
  <2>1. owed'[s] = {}
    BY <1>1, <1>2, <1>4
  <2>2. GoToPush(s)
    BY <1>4, Zenon DEF GoToMail
  <2> QED BY <1>2, <2>1, <2>2, GoToPushKeeps
<1> QED BY <1>3, <1>4

-----------------------------------------------------------------------------
(***************************************************************************)
(* The messages.                                                           *)
(***************************************************************************)

\* A user who asked for a channel and can be reached on it is written to on it:
\* that a number is normalised twice turns no text away.
LEMMA AskedIsSent ==
    ASSUME NEW r \in Recipient, configured \in Deployment
    PROVE  Asked(r) \subseteq Outgoing(r) /\ Outgoing(r) \subseteq {"sms", "email"}
<1>1. NumberOf(r) \in PhoneNumber \union {NoNumber}
  BY DeliveryAssumption DEF NumberOf, Recipient
<1>2. ToBangladeshMsisdn(ToBangladeshMsisdn(NumberOf(r))) = ToBangladeshMsisdn(NumberOf(r))
  BY <1>1, NormalisedOnce
<1>3. NumberOf(r).isMobile => ToBangladeshMsisdn(NumberOf(r)) # NoNumber
  BY DEF ToBangladeshMsisdn, NoNumber
<1>4. ASSUME NEW channel \in Asked(r)
      PROVE  channel \in Outgoing(r)
  <2>1. CASE channel = "sms" /\ r.smsAlerts /\ NumberOf(r).isMobile
    <3>1. "sms" \in configured
      BY <1>4, <2>1 DEF Asked
    <3>2. Texts(r)
      BY <1>2, <1>3, <2>1, <3>1, Zenon DEF Texts
    <3> QED BY <2>1, <3>2 DEF Outgoing
  <2>2. CASE channel = "email" /\ r.emailAlerts /\ r.hasEmail
    <3>1. "email" \in configured
      BY <1>4, <2>2 DEF Asked
    <3>2. Mails(r)
      BY <2>2, <3>1, Zenon DEF Mails
    <3> QED BY <2>2, <3>2 DEF Outgoing
  <2> QED BY <1>4, <2>1, <2>2, Zenon DEF Asked
<1> QED BY <1>4 DEF Outgoing

LEMMA ReadRecipientKeeps ==
    ASSUME DeliveryInv, NEW s \in Send, ReadRecipient(s)
    PROVE  LocalsOK' /\ SendsOK'
<1>1. PICK r \in Recipient :
         /\ owed' = [owed EXCEPT ![s] = Asked(r)]
         /\ \/ /\ Outgoing(r) # {}
               /\ GoTo(s, IF Texts(r) THEN "sms" ELSE "email")
               /\ outgoing' = [outgoing EXCEPT ![s] = Outgoing(r)]
               /\ UNCHANGED <<to, tokens, pushed, invalid>>
            \/ /\ Outgoing(r) = {}
               /\ GoToPush(s)
  BY DEF ReadRecipient
<1>2. LocalsOK /\ SendsOK /\ at[s] = "recipient" /\ dead' = dead /\ configured \in Deployment
  BY DEF ReadRecipient, DeliveryInv, WorldOK, world
<1>3. Asked(r) \subseteq Outgoing(r) /\ Outgoing(r) \subseteq {"sms", "email"}
  BY <1>2, AskedIsSent
<1>4. owed'[s] = Asked(r) /\ owed' = [owed EXCEPT ![s] = owed'[s]]
  BY <1>1, <1>2 DEF LocalsOK
<1>5. CASE Outgoing(r) = {} /\ GoToPush(s)
  BY <1>2, <1>3, <1>4, <1>5, GoToPushKeeps
<1>6. CASE /\ Outgoing(r) # {}
           /\ GoTo(s, IF Texts(r) THEN "sms" ELSE "email")
           /\ outgoing' = [outgoing EXCEPT ![s] = Outgoing(r)]
           /\ UNCHANGED <<to, tokens, pushed, invalid>>
  <2>1. /\ at'[s] = (IF Texts(r) THEN "sms" ELSE "email")
        /\ outgoing'[s] = Outgoing(r) /\ to'[s] = to[s]
        /\ tokens'[s] = tokens[s] /\ pushed'[s] = pushed[s] /\ invalid'[s] = invalid[s]
        /\ OnlyOf(s)
    BY <1>2, <1>4, <1>6 DEF LocalsOK, GoTo, OnlyOf
  <2>2. /\ to[s] \in User \union {NoUser} /\ tokens[s] \in Seq(Token)
        /\ pushed[s] \in 0..Cardinality(Token) /\ invalid[s] \subseteq Token
    BY <1>2 DEF LocalsOK
  <2>3. pushed[s] = 0 /\ invalid[s] = {} /\ Len(tokens[s]) <= Cardinality(Token)
    <3>1. SendOK(s)
      BY <1>2 DEF SendsOK
    <3> QED BY <1>2, <3>1 DEF SendOK
  <2>4. CASE Texts(r)
    <3>1. at'[s] = "sms" /\ "sms" \in outgoing'[s] /\ owed'[s] \subseteq outgoing'[s]
      BY <1>3, <1>4, <2>1, <2>4 DEF Outgoing
    <3>2. SendOK(s)'
      BY <2>1, <2>3, <3>1 DEF SendOK, MayOwe
    <3> QED BY <1>2, <1>3, <1>4, <2>1, <2>2, <3>1, <3>2, OthersKept DEF Step
  <2>5. CASE ~Texts(r)
    <3>1. Outgoing(r) = {"email"}
      BY <1>6, <2>5 DEF Outgoing
    <3>2. at'[s] = "email" /\ "email" \in outgoing'[s] /\ owed'[s] \subseteq {"email"}
      BY <1>3, <1>4, <2>1, <2>5, <3>1
    <3>3. SendOK(s)'
      BY <2>1, <2>3, <3>2 DEF SendOK, MayOwe
    <3> QED BY <1>2, <1>3, <1>4, <2>1, <2>2, <3>2, <3>3, OthersKept DEF Step
  <2> QED BY <2>4, <2>5
<1> QED BY <1>1, <1>5, <1>6

LEMMA SendToUserKeeps ==
    ASSUME DeliveryInv, NEW s \in Send, NEW u \in User, SendToUser(s, u)
    PROVE  LocalsOK' /\ SendsOK'
<1>1. LocalsOK /\ SendsOK /\ SendOK(s) /\ at[s] = "idle" /\ dead' = dead
  BY DEF SendToUser, DeliveryInv, SendsOK, world
<1>2. /\ at'[s] = "recipient" /\ to'[s] = u /\ outgoing'[s] = outgoing[s]
      /\ tokens'[s] = tokens[s] /\ pushed'[s] = pushed[s] /\ invalid'[s] = invalid[s]
      /\ owed'[s] = owed[s]
      /\ OnlyOf(s)
  BY <1>1 DEF SendToUser, LocalsOK, GoTo, OnlyOf, ghosts
<1>3. /\ outgoing[s] \subseteq {"sms", "email"} /\ tokens[s] \in Seq(Token)
      /\ pushed[s] \in 0..Cardinality(Token) /\ invalid[s] \subseteq Token
      /\ owed[s] \subseteq {"sms", "email"}
  BY <1>1 DEF LocalsOK
<1>4. SendOK(s)'
  BY <1>1, <1>2 DEF SendOK, MayOwe
<1> QED BY <1>1, <1>2, <1>3, <1>4, OthersKept DEF Step

LEMMA MessagesKeep ==
    ASSUME DeliveryInv, NEW s \in Send, PostSms(s) \/ SendMail(s)
    PROVE  LocalsOK' /\ SendsOK'
<1>1. LocalsOK /\ SendsOK /\ SendOK(s) /\ dead' = dead
  BY DEF PostSms, SendMail, DeliveryInv, SendsOK, world
<1>2. CASE PostSms(s)
  BY <1>1, <1>2, GoToMailKeeps DEF PostSms
<1>3. CASE SendMail(s)
  <2>1. owed'[s] = owed[s] \ {"email"} /\ owed' = [owed EXCEPT ![s] = owed'[s]]
    BY <1>1, <1>3 DEF SendMail, LocalsOK
  <2>2. owed[s] \subseteq {"email"}
    BY <1>1, <1>3 DEF SendMail, SendOK, MayOwe
  <2>3. owed'[s] = {}
    BY <2>1, <2>2
  <2> QED BY <1>1, <1>3, <2>1, <2>3, GoToPushKeeps DEF SendMail
<1> QED BY <1>2, <1>3

-----------------------------------------------------------------------------
(***************************************************************************)
(* The devices.                                                            *)
(***************************************************************************)

\* The tokens in any order: as many as there are, and some if there are any.
LEMMA OrdersOfTokens ==
    ASSUME NEW S \in SUBSET Token, S # {}, NEW q \in SetToSeqs(S)
    PROVE  q \in Seq(Token) /\ 0 < Len(q) /\ Len(q) <= Cardinality(Token)
<1>1. IsFiniteSet(S) /\ Cardinality(S) \in Nat /\ Cardinality(S) <= Cardinality(Token)
  BY DeliveryAssumption, FS_Subset, FS_CardinalityType
<1>2. Cardinality(S) # 0
  BY <1>1, FS_EmptySet
<1>3. q \in [1..Cardinality(S) -> S]
  BY DEF SetToSeqs
<1>4. q \in Seq(S) /\ Len(q) = Cardinality(S)
  BY <1>1, <1>3
<1> QED BY <1>1, <1>2, <1>4

LEMMA ReadTokensKeeps ==
    ASSUME DeliveryInv, NEW s \in Send, ReadTokens(s)
    PROVE  LocalsOK' /\ SendsOK'
<1> DEFINE active == ActiveTokensFor(to[s])
<1>1. /\ LocalsOK /\ SendsOK /\ SendOK(s) /\ at[s] = "tokens" /\ dead' = dead /\ owed' = owed
  BY DEF ReadTokens, DeliveryInv, SendsOK, world, ghosts
<1>2. owed[s] = {} /\ owed' = [owed EXCEPT ![s] = owed'[s]]
  BY <1>1 DEF SendOK, MayOwe, LocalsOK
<1>3. CASE End(s)
  BY <1>1, <1>2, <1>3, EndKeeps
<1>4. CASE /\ active # {}
           /\ tokens' \in {[tokens EXCEPT ![s] = q] : q \in SetToSeqs(active)}
           /\ GoTo(s, "push")
           /\ to' = [to EXCEPT ![s] = NoUser]
           /\ UNCHANGED <<outgoing, pushed, invalid>>
  <2>1. active \in SUBSET Token
    BY DEF ActiveTokensFor
  <2> HIDE DEF active
  <2>2. PICK q \in SetToSeqs(active) : tokens' = [tokens EXCEPT ![s] = q]
    BY <1>4
  <2>3. q \in Seq(Token) /\ 0 < Len(q) /\ Len(q) <= Cardinality(Token)
    BY <1>4, <2>1, OrdersOfTokens
  <2>4. /\ at'[s] = "push" /\ to'[s] = NoUser /\ outgoing'[s] = outgoing[s]
        /\ tokens'[s] = q /\ pushed'[s] = pushed[s] /\ invalid'[s] = invalid[s]
        /\ OnlyOf(s)
    BY <1>1, <1>2, <1>4, <2>2 DEF LocalsOK, GoTo, OnlyOf
  <2>5. /\ outgoing[s] \subseteq {"sms", "email"}
        /\ pushed[s] \in 0..Cardinality(Token) /\ invalid[s] \subseteq Token
    BY <1>1 DEF LocalsOK
  <2>6. pushed[s] = 0 /\ invalid[s] = {}
    BY <1>1 DEF SendOK
  <2>7. SendOK(s)'
    BY <1>1, <1>2, <2>3, <2>4, <2>6 DEF SendOK, MayOwe
  <2> QED BY <1>1, <1>2, <2>3, <2>4, <2>5, <2>7, OthersKept DEF Step
<1> QED BY <1>3, <1>4, Zenon DEF ReadTokens

\* What FCM says of a batch is about tokens of the list, and about dead ones.
LEMMA UnknownAreDead ==
    ASSUME LocalsOK, NEW s \in Send, at[s] = "push", SendOK(s)
    PROVE  /\ Unknown(s) \subseteq Token /\ Unknown(s) \subseteq dead
           /\ NextPushed(s) \in Nat
           /\ pushed[s] < NextPushed(s) /\ NextPushed(s) <= Len(tokens[s])
<1> DEFINE batch == SubSeq(tokens[s], pushed[s] + 1, NextPushed(s))
           n == Len(tokens[s])
           m == pushed[s] + FCM_MULTICAST_BATCH_LIMIT
<1>1. tokens[s] \in Seq(Token) /\ n \in Nat /\ pushed[s] \in Nat /\ pushed[s] < n
  BY TokensFinite DEF LocalsOK, SendOK
<1>2. m \in Nat /\ pushed[s] < m
  BY <1>1, DeliveryAssumption
<1> HIDE DEF n, m
<1>3. Min({n, m}) \in {n, m} /\ Min({n, m}) <= n /\ Min({n, m}) <= m
  <2>1. \E x \in {n, m} : \A y \in {n, m} : x <= y
    BY <1>1, <1>2
  <2> QED BY <2>1 DEF Min
<1>4. NextPushed(s) = Min({n, m})
  BY DEF NextPushed, n, m
<1>5. NextPushed(s) \in Nat /\ pushed[s] < NextPushed(s) /\ NextPushed(s) <= n
  BY <1>1, <1>2, <1>3, <1>4
<1>6. batch \in Seq(Token)
  BY <1>1, <1>5 DEF n
<1> HIDE DEF batch
<1>7. /\ {batch[index] : index \in {i \in DOMAIN batch : batch[i] \in dead}} \subseteq dead
      /\ {batch[index] : index \in {i \in DOMAIN batch : batch[i] \in dead}} \subseteq Token
  BY <1>6
<1>8. Unknown(s) = {batch[index] : index \in {i \in DOMAIN batch : batch[i] \in dead}}
  BY DEF Unknown, batch
<1> QED BY <1>5, <1>7, <1>8 DEF n

LEMMA PushKeeps ==
    ASSUME DeliveryInv, NEW s \in Send, Push(s)
    PROVE  LocalsOK' /\ SendsOK'
<1> DEFINE bad == invalid[s] \union Unknown(s)
<1>1. /\ LocalsOK /\ SendsOK /\ SendOK(s) /\ at[s] = "push" /\ dead' = dead /\ owed' = owed
  BY DEF Push, DeliveryInv, SendsOK, world
<1>2. owed[s] = {} /\ owed' = [owed EXCEPT ![s] = owed'[s]]
  BY <1>1 DEF SendOK, MayOwe, LocalsOK
<1>3. /\ Unknown(s) \subseteq Token /\ Unknown(s) \subseteq dead
      /\ NextPushed(s) \in Nat
      /\ NextPushed(s) <= Len(tokens[s])
  BY <1>1, UnknownAreDead
<1>4. /\ to[s] \in User \union {NoUser} /\ outgoing[s] \subseteq {"sms", "email"}
      /\ tokens[s] \in Seq(Token) /\ invalid[s] \subseteq Token
      /\ pushed[s] \in 0..Cardinality(Token)
  BY <1>1 DEF LocalsOK
<1>5. bad \subseteq Token /\ bad \subseteq dead /\ Len(tokens[s]) <= Cardinality(Token)
  BY <1>1, <1>3, <1>4 DEF SendOK
<1>6. CASE /\ NextPushed(s) < Len(tokens[s])
           /\ pushed' = [pushed EXCEPT ![s] = NextPushed(s)]
           /\ invalid' = [invalid EXCEPT ![s] = bad]
           /\ UNCHANGED <<at, to, outgoing, tokens>>
  <2> HIDE DEF bad
  <2>1. /\ at'[s] = "push" /\ to'[s] = to[s] /\ outgoing'[s] = outgoing[s]
        /\ tokens'[s] = tokens[s] /\ pushed'[s] = NextPushed(s) /\ invalid'[s] = bad
        /\ OnlyOf(s)
    BY <1>1, <1>2, <1>6 DEF LocalsOK, OnlyOf
  <2>2. NextPushed(s) \in 0..Cardinality(Token)
    BY <1>3, <1>4, <1>5, TokensFinite
  <2>3. SendOK(s)'
    BY <1>1, <1>2, <1>5, <1>6, <2>1 DEF SendOK, MayOwe
  <2> QED BY <1>1, <1>2, <1>4, <1>5, <2>1, <2>2, <2>3, OthersKept DEF Step
<1>7. CASE /\ bad # {}
           /\ invalid' = [invalid EXCEPT ![s] = bad]
           /\ GoTo(s, "deactivate")
           /\ tokens' = [tokens EXCEPT ![s] = << >>]
           /\ pushed' = [pushed EXCEPT ![s] = 0]
           /\ UNCHANGED <<to, outgoing>>
  <2> HIDE DEF bad
  <2>1. /\ at'[s] = "deactivate" /\ to'[s] = to[s] /\ outgoing'[s] = outgoing[s]
        /\ tokens'[s] = << >> /\ pushed'[s] = 0 /\ invalid'[s] = bad
        /\ OnlyOf(s)
    BY <1>1, <1>2, <1>7 DEF LocalsOK, GoTo, OnlyOf
  <2>2. 0 \in 0..Cardinality(Token) /\ << >> \in Seq(Token) /\ Len(<< >>) <= Cardinality(Token)
    BY TokensFinite
  <2>3. SendOK(s)'
    BY <1>1, <1>2, <1>5, <1>7, <2>1, <2>2 DEF SendOK, MayOwe
  <2> QED BY <1>1, <1>2, <1>4, <1>5, <2>1, <2>2, <2>3, OthersKept DEF Step
<1>8. CASE End(s)
  BY <1>1, <1>2, <1>8, EndKeeps
<1> QED BY <1>6, <1>7, <1>8, Zenon DEF Push

LEMMA ThrowKeeps ==
    ASSUME DeliveryInv, NEW s \in Send, Throw(s) \/ DeactivateTokens(s)
    PROVE  LocalsOK' /\ SendsOK'
<1>1. /\ LocalsOK /\ SendsOK /\ SendOK(s) /\ dead' = dead /\ owed' = owed /\ End(s)
      /\ at[s] \notin {"sms", "email"}
  BY DEF Throw, DeactivateTokens, DeliveryInv, SendsOK, world
<1>2. owed[s] = {} /\ owed' = [owed EXCEPT ![s] = owed'[s]]
  BY <1>1 DEF SendOK, MayOwe, LocalsOK
<1> QED BY <1>1, <1>2, EndKeeps

-----------------------------------------------------------------------------
(***************************************************************************)
(* What the rows are.                                                      *)
(***************************************************************************)
LEMMA StampTypes ==
    ASSUME inbox \in Seq(Notification), clock \in 0..MaxTime,
           NEW rows, NEW field \in {"readAt", "archivedAt"},
           inbox' = [i \in Rows |-> IF i \in rows THEN [inbox[i] EXCEPT ![field] = clock]
                                    ELSE inbox[i]]
    PROVE  inbox' \in Seq(Notification)
<1>1. Rows = 1..Len(inbox) /\ Len(inbox) \in Nat
  BY DEF Rows
<1>2. \A i \in Rows : inbox[i] \in Notification
  BY DEF Rows
<1>3. ASSUME NEW i \in Rows
      PROVE  [inbox[i] EXCEPT ![field] = clock] \in Notification
  <2>1. CASE field = "readAt"
    BY <1>2, <2>1 DEF Notification
  <2>2. CASE field = "archivedAt"
    BY <1>2, <2>2 DEF Notification
  <2> QED BY <2>1, <2>2
<1>4. inbox' \in [1..Len(inbox) -> Notification]
  BY <1>1, <1>2, <1>3
<1> QED BY <1>1, <1>4

LEMMA StampKeepsWorld ==
    ASSUME WorldOK, NEW rows, NEW field \in {"readAt", "archivedAt"}, Stamp(rows, field)
    PROVE  WorldOK'
<1>1. clock \in 0..MaxTime /\ clock' \in 1..(MaxTime + 1)
  BY DeliveryAssumption DEF Stamp, WorldOK
<1>2. inbox' \in Seq(Notification)
  BY <1>1, StampTypes DEF Stamp, WorldOK
<1> QED BY <1>1, <1>2 DEF Stamp, WorldOK, world, ghosts

\* The steps of a user, and those of the world around.
OtherStep ==
    \/ \E t \in Token : Die(t) \/ UnregisterDeviceToken(t)
    \/ \E i \in Rows : MarkAsRead(i)
    \/ \E u \in User : UserNext(u)

LEMMA OtherStepKeeps ==
    ASSUME DeliveryInv, OtherStep
    PROVE  DeliveryInv'
<1>1. WorldOK /\ LocalsOK /\ SendsOK
  BY DEF DeliveryInv
<1>2. UNCHANGED <<at, to, outgoing, tokens, pushed, invalid, owed>> /\ dead \subseteq dead'
  BY DEF OtherStep, Die, UnregisterDeviceToken, MarkAsRead, UserNext, RegisterDeviceToken,
         MarkAllAsRead, ArchiveAll, Stamp, locals, ghosts, world
<1>3. LocalsOK' /\ SendsOK'
  <2>1. LocalsOK'
    BY <1>1, <1>2, Zenon DEF LocalsOK
  <2>2. ASSUME NEW s \in Send PROVE SendOK(s)'
    <3>1. SendOK(s)
      BY <1>1 DEF SendsOK
    <3>2. invalid[s] \subseteq dead'
      BY <1>2, <3>1 DEF SendOK
    <3> QED BY <1>2, <3>1, <3>2, Zenon DEF SendOK, MayOwe
  <2> QED BY <2>1, <2>2, Zenon DEF SendsOK
<1>4. ASSUME \E t \in Token : Die(t) \/ UnregisterDeviceToken(t)
      PROVE  WorldOK'
  BY <1>1, <1>4 DEF Die, UnregisterDeviceToken, WorldOK, DeviceToken, world, ghosts
<1>5. ASSUME \E u \in User, t \in Token : RegisterDeviceToken(u, t)
      PROVE  WorldOK'
  BY <1>1, <1>5 DEF RegisterDeviceToken, WorldOK, DeviceToken, world
<1>6. ASSUME \/ \E i \in Rows : MarkAsRead(i)
             \/ \E u \in User : MarkAllAsRead(u) \/ ArchiveAll(u)
      PROVE  WorldOK'
  <2>1. \E rows : Stamp(rows, "readAt") \/ Stamp(rows, "archivedAt")
    BY <1>6, Zenon DEF MarkAsRead, MarkAllAsRead, ArchiveAll
  <2> QED BY <1>1, <2>1, StampKeepsWorld
<1>7. WorldOK'
  BY <1>4, <1>5, <1>6, Zenon DEF OtherStep, UserNext
<1> QED BY <1>3, <1>7 DEF DeliveryInv

LEMMA SendNextKeeps ==
    ASSUME DeliveryInv, NEW s \in Send, SendNext(s)
    PROVE  DeliveryInv'
<1>1. WorldOK /\ LocalsOK /\ SendsOK /\ SendOK(s)
  BY DEF DeliveryInv, SendsOK
<1>2. CASE \E u \in User : SendToUser(s, u)
  <2>1. PICK u \in User : SendToUser(s, u)
    BY <1>2
  <2>2. [user |-> u, readAt |-> Never, archivedAt |-> Never] \in Notification
    BY DeliveryAssumption DEF Notification, Never
  <2>3. WorldOK'
    BY <1>1, <2>1, <2>2 DEF SendToUser, WorldOK, world, ghosts
  <2> QED BY <2>1, <2>3, SendToUserKeeps DEF DeliveryInv
<1>3. CASE ReadRecipient(s) \/ PostSms(s) \/ SendMail(s) \/ ReadTokens(s)
  <2>1. WorldOK'
    BY <1>1, <1>3 DEF ReadRecipient, PostSms, SendMail, ReadTokens, WorldOK, world, ghosts
  <2> QED BY <1>3, <2>1, ReadRecipientKeeps, MessagesKeep, ReadTokensKeeps DEF DeliveryInv
<1>4. CASE Push(s)
  <2>1. at[s] = "push" /\ Unknown(s) \subseteq Token
    BY <1>1, <1>4, UnknownAreDead DEF Push
  <2>2. WorldOK'
    BY <1>1, <1>4, <2>1 DEF Push, WorldOK, world
  <2> QED BY <1>4, <2>2, PushKeeps DEF DeliveryInv
<1>5. CASE DeactivateTokens(s)
  <2>1. \A t \in Token : [devices[t] EXCEPT !.isActive = FALSE] \in DeviceToken
    BY <1>1 DEF WorldOK, DeviceToken
  <2>2. devices' \in [Token -> DeviceToken]
    BY <1>1, <1>5, <2>1 DEF DeactivateTokens, WorldOK
  <2>3. rejected' \subseteq rejected
    BY <1>5, Zenon DEF DeactivateTokens
  <2>4. UNCHANGED <<clock, configured, dead, inbox, wanted>>
    BY <1>5, Zenon DEF DeactivateTokens, world
  <2>5. WorldOK'
    BY <1>1, <2>2, <2>3, <2>4 DEF WorldOK
  <2> QED BY <1>5, <2>5, ThrowKeeps DEF DeliveryInv
<1>6. CASE Throw(s)
  <2>1. WorldOK'
    BY <1>1, <1>6 DEF Throw, WorldOK, world
  <2> QED BY <1>6, <2>1, ThrowKeeps DEF DeliveryInv
<1> QED BY <1>2, <1>3, <1>4, <1>5, <1>6, Zenon DEF SendNext

LEMMA StepKeepsInv == DeliveryInv /\ [Next]_vars => DeliveryInv'
<1> SUFFICES ASSUME DeliveryInv, [Next]_vars PROVE DeliveryInv'
  OBVIOUS
<1>1. CASE UNCHANGED vars
  BY <1>1, Zenon DEF vars, DeliveryInv, WorldOK, LocalsOK, SendsOK, SendOK, MayOwe
<1> QED BY <1>1, OtherStepKeeps, SendNextKeeps, Zenon DEF Next, OtherStep

LEMMA InitInv == Init => DeliveryInv
<1> SUFFICES ASSUME Init PROVE DeliveryInv
  OBVIOUS
<1>1. WorldOK
  BY DeliveryAssumption DEF Init, WorldOK, DeviceToken
<1>2. LocalsOK
  BY TokensFinite DEF Init, LocalsOK, Step
<1>3. SendsOK
  BY TokensFinite DEF Init, SendsOK, SendOK, MayOwe
<1> QED BY <1>1, <1>2, <1>3 DEF DeliveryInv

LEMMA DeliveryInvariant == Spec => []DeliveryInv
  BY InitInv, StepKeepsInv, PTL DEF Spec

\* The variables keep their types, however sends, registrations and the inbox's
\* users overlap: a send that pushes always has a token left to push to, and one
\* that switches tokens off has some.
THEOREM DeliveryTypeCorrect == Spec => []TypeOK
  BY InvTypes, DeliveryInvariant, PTL

\* Every channel a user asked for is tried, whatever becomes of the other one,
\* for any numbers on file and any gateways a deployment may have.
THEOREM AllChannelsTried == Spec => []ChannelsTried
<1>1. DeliveryInv => ChannelsTried
  <2> SUFFICES ASSUME DeliveryInv, NEW s \in Send, at[s] \notin {"recipient", "sms"}
               PROVE  owed[s] \subseteq (IF at[s] = "email" THEN {"email"} ELSE {})
    BY Zenon DEF ChannelsTried
  <2>1. owed[s] \subseteq MayOwe(s)
    BY DEF DeliveryInv, SendsOK, SendOK
  <2> QED BY <2>1 DEF MayOwe
<1> QED BY <1>1, DeliveryInvariant, PTL

-----------------------------------------------------------------------------
(***************************************************************************)
(* The devices, and what FCM says of them.                                 *)
(***************************************************************************)
Active(t) == devices[t].isActive = TRUE

\* The two halves of DevicesFollowFcm.
KnownAreWanted == \A t \in Token \ dead : Active(t) <=> t \in wanted
RejectedAreHeld == \A t \in rejected : \E s \in Send : t \in invalid[s]

FollowInv == KnownAreWanted /\ RejectedAreHeld

LEMMA FollowIsFollow == DeliveryInv => (DevicesFollowFcm <=> FollowInv)
<1>1. DeliveryInv => \A t \in Token : devices[t].isActive \in BOOLEAN
  BY DEF DeliveryInv, WorldOK, DeviceToken
<1>2. DeliveryInv => \A t \in Token : devices[t].isActive <=> Active(t)
  BY <1>1, Zenon DEF Active
<1> QED BY <1>2, Zenon DEF DevicesFollowFcm, FollowInv, KnownAreWanted, RejectedAreHeld

\* A step that touches neither the devices nor what FCM has said.
LEMMA FollowUntouched ==
    ASSUME FollowInv, UNCHANGED <<devices, wanted, invalid, rejected, dead>>
    PROVE  FollowInv'
  BY Zenon DEF FollowInv, KnownAreWanted, RejectedAreHeld, Active

\* What users do to their devices, and what becomes of those.
LEMMA OtherFollows ==
    ASSUME DeliveryInv, FollowInv, OtherStep
    PROVE  FollowInv'
<1>1. devices \in [Token -> DeviceToken]
  BY DEF DeliveryInv, WorldOK
<1>2. ASSUME NEW t \in Token, Die(t)
      PROVE  FollowInv'
  BY <1>2 DEF Die, FollowInv, KnownAreWanted, RejectedAreHeld, Active, ghosts, locals
<1>3. ASSUME NEW t \in Token, UnregisterDeviceToken(t)
      PROVE  FollowInv'
  <2>1. devices' = [devices EXCEPT ![t].isActive = FALSE] /\ wanted' = wanted \ {t}
        /\ rejected' = rejected \ {t} /\ dead' = dead /\ invalid' = invalid
    BY <1>3 DEF UnregisterDeviceToken, world, locals
  <2>2. ~Active(t)' /\ t \notin wanted'
    BY <1>1, <2>1 DEF Active, DeviceToken
  <2>3. \A x \in Token : x # t => devices'[x] = devices[x] /\ (x \in wanted' <=> x \in wanted)
    BY <1>1, <2>1
  <2> QED BY <2>1, <2>2, <2>3 DEF FollowInv, KnownAreWanted, RejectedAreHeld, Active
<1>4. ASSUME NEW u \in User, NEW t \in Token, RegisterDeviceToken(u, t)
      PROVE  FollowInv'
  <2>1. devices' = [devices EXCEPT ![t] = [user |-> u, isActive |-> TRUE]]
        /\ wanted' = wanted \union {t}
        /\ rejected' = rejected \ {t} /\ dead' = dead /\ invalid' = invalid
    BY <1>4 DEF RegisterDeviceToken, world, locals
  <2>2. Active(t)' /\ t \in wanted'
    BY <1>1, <2>1 DEF Active
  <2>3. \A x \in Token : x # t => devices'[x] = devices[x] /\ (x \in wanted' <=> x \in wanted)
    BY <1>1, <2>1
  <2> QED BY <2>1, <2>2, <2>3 DEF FollowInv, KnownAreWanted, RejectedAreHeld, Active
<1>5. ASSUME \/ \E i \in Rows : MarkAsRead(i)
             \/ \E u \in User : MarkAllAsRead(u) \/ ArchiveAll(u)
      PROVE  FollowInv'
  <2>1. UNCHANGED <<devices, wanted, invalid, rejected, dead>>
    BY <1>5, Zenon DEF MarkAsRead, MarkAllAsRead, ArchiveAll, Stamp, world, locals, ghosts
  <2> QED BY <2>1, FollowUntouched
<1> QED BY <1>2, <1>3, <1>4, <1>5, Zenon DEF OtherStep, UserNext

\* A send that has FCM's answer to no token, and gets none, holds none before or
\* after.
LEMMA HoldsNothing ==
    ASSUME DeliveryInv, NEW s \in Send, at[s] \notin {"push", "deactivate"}, SendNext(s)
    PROVE  UNCHANGED <<devices, wanted, invalid, rejected, dead>>
<1>1. invalid[s] = {} /\ invalid \in [Send -> SUBSET Token]
  BY DEF DeliveryInv, SendsOK, SendOK, LocalsOK
<1>2. [invalid EXCEPT ![s] = {}] = invalid
  BY <1>1
<1>3. CASE \E u \in User : SendToUser(s, u)
  BY <1>3, Zenon DEF SendToUser, world, ghosts
<1>4. CASE ReadRecipient(s) \/ PostSms(s) \/ SendMail(s)
  BY <1>2, <1>4, Zenon DEF ReadRecipient, PostSms, SendMail, GoToMail, GoToPush, End, world
<1>5. CASE ReadTokens(s)
  BY <1>2, <1>5, Zenon DEF ReadTokens, End, world, ghosts
<1>6. CASE Throw(s)
  <2>1. rejected \ invalid[s] = rejected
    BY <1>1
  <2> QED BY <1>2, <1>6, <2>1, Zenon DEF Throw, End, world
<1> QED BY <1>3, <1>4, <1>5, <1>6, Zenon DEF SendNext, Push, DeactivateTokens

\* What FCM has said of a batch is held until it is acted on, or lost by a send
\* that throws.
LEMMA SendFollows ==
    ASSUME DeliveryInv, FollowInv, NEW s \in Send, SendNext(s)
    PROVE  FollowInv'
<1>1. /\ devices \in [Token -> DeviceToken] /\ rejected \subseteq Token
      /\ invalid \in [Send -> SUBSET Token]
      /\ invalid[s] \subseteq dead
  BY DEF DeliveryInv, WorldOK, LocalsOK, SendsOK, SendOK
<1>2. CASE at[s] \notin {"push", "deactivate"}
  BY <1>2, HoldsNothing, FollowUntouched
<1>3. CASE Push(s)
  <2>1. devices' = devices /\ wanted' = wanted /\ dead' = dead
        /\ rejected' = rejected \union {t \in Unknown(s) : devices[t].isActive}
    BY <1>3, Zenon DEF Push, world
  <2>2. invalid' = [invalid EXCEPT ![s] = invalid[s] \union Unknown(s)]
    <3>1. CASE invalid' = [invalid EXCEPT ![s] = @ \union Unknown(s)]
      BY <3>1
    <3>2. CASE invalid[s] \union Unknown(s) = {} /\ End(s)
      BY <3>2, Zenon DEF End
    <3> QED BY <1>3, <3>1, <3>2, Zenon DEF Push
  <2>3. /\ invalid'[s] = invalid[s] \union Unknown(s)
        /\ \A r \in Send : invalid[r] \subseteq invalid'[r]
    BY <1>1, <2>2
  <2> QED BY <2>1, <2>3, Zenon DEF FollowInv, KnownAreWanted, RejectedAreHeld, Active
<1>4. CASE DeactivateTokens(s)
  <2>1. /\ devices' = [t \in Token |-> IF t \in invalid[s]
                                       THEN [devices[t] EXCEPT !.isActive = FALSE]
                                       ELSE devices[t]]
        /\ rejected' = {t \in rejected : devices'[t].isActive}
        /\ wanted' = wanted /\ dead' = dead
        /\ invalid' = [invalid EXCEPT ![s] = {}]
    BY <1>4, Zenon DEF DeactivateTokens, End, world
  <2>2. \A t \in Token : t \notin invalid[s] => devices'[t] = devices[t]
    BY <2>1
  <2>3. \A t \in Token : t \in invalid[s] => devices'[t].isActive = FALSE
    BY <1>1, <2>1 DEF DeviceToken
  <2>4. KnownAreWanted'
    BY <1>1, <2>1, <2>2 DEF FollowInv, KnownAreWanted, Active
  <2>5. ASSUME NEW t \in rejected'
        PROVE  \E r \in Send : t \in invalid'[r]
    <3>1. t \in rejected /\ devices'[t].isActive
      BY <2>1, <2>5, Zenon
    <3>2. t \in Token /\ t \notin invalid[s]
      BY <1>1, <2>3, <3>1, Zenon
    <3>3. PICK r \in Send : t \in invalid[r]
      BY <3>1, Zenon DEF FollowInv, RejectedAreHeld
    <3> QED BY <1>1, <2>1, <3>2, <3>3
  <2> QED BY <2>4, <2>5, Zenon DEF FollowInv, RejectedAreHeld
<1>5. CASE Throw(s)
  <2>1. /\ devices' = devices /\ wanted' = wanted /\ dead' = dead
        /\ rejected' = rejected \ invalid[s]
        /\ invalid' = [invalid EXCEPT ![s] = {}]
    BY <1>5, Zenon DEF Throw, End, world
  <2>2. \A r \in Send : r # s => invalid'[r] = invalid[r]
    BY <1>1, <2>1
  <2> QED BY <2>1, <2>2, Zenon DEF FollowInv, KnownAreWanted, RejectedAreHeld, Active
<1>6. CASE \/ \E u \in User : SendToUser(s, u)
           \/ ReadRecipient(s) \/ PostSms(s) \/ SendMail(s) \/ ReadTokens(s)
  <2>1. at[s] \notin {"push", "deactivate"}
    BY <1>6 DEF SendToUser, ReadRecipient, PostSms, SendMail, ReadTokens
  <2> QED BY <1>2, <2>1
<1> QED BY <1>3, <1>4, <1>5, <1>6, Zenon DEF SendNext

\* No device is lost by what FCM says of others, or says too late, and what it
\* rejects is switched off by the send that was told: for any number of sends
\* and devices, and batches of any size.
THEOREM DevicesFollow == Spec => []DevicesFollowFcm
<1>1. Init => FollowInv
  BY DEF Init, FollowInv, KnownAreWanted, RejectedAreHeld, Active
<1>2. DeliveryInv /\ FollowInv /\ [Next]_vars => FollowInv'
  <2> SUFFICES ASSUME DeliveryInv, FollowInv, [Next]_vars PROVE FollowInv'
    OBVIOUS
  <2>1. CASE UNCHANGED vars
    BY <2>1, FollowUntouched, Zenon DEF vars
  <2> QED BY <2>1, OtherFollows, SendFollows, Zenon DEF Next, OtherStep
<1> QED BY <1>1, <1>2, FollowIsFollow, DeliveryInvariant, PTL DEF Spec

-----------------------------------------------------------------------------
(***************************************************************************)
(* The inbox.                                                              *)
(***************************************************************************)
KeptRow(i) ==
    /\ inbox[i].archivedAt \in {Never, inbox'[i].archivedAt}
    /\ inbox[i].readAt \notin {Never, inbox'[i].readAt} => MarkAsRead(i)

\* Rows that a statement leaves alone, and those it stamps for the first time.
LEMMA StampedRow ==
    ASSUME inbox \in Seq(Notification), NEW rows, NEW field \in {"readAt", "archivedAt"},
           Stamp(rows, field), NEW i \in Rows
    PROVE  /\ i \notin rows => inbox'[i] = inbox[i]
           /\ field = "readAt" => inbox'[i].archivedAt = inbox[i].archivedAt
           /\ field = "archivedAt" => inbox'[i].readAt = inbox[i].readAt
<1>1. inbox[i] \in Notification
  BY DEF Rows
<1>2. inbox'[i] = (IF i \in rows THEN [inbox[i] EXCEPT ![field] = clock] ELSE inbox[i])
  BY DEF Stamp
<1>3. CASE field = "readAt"
  BY <1>1, <1>2, <1>3 DEF Notification
<1>4. CASE field = "archivedAt"
  BY <1>1, <1>2, <1>4 DEF Notification
<1> QED BY <1>3, <1>4

LEMMA RowsKept ==
    ASSUME DeliveryInv, [Next]_vars, NEW i \in Rows
    PROVE  KeptRow(i)
<1>1. inbox \in Seq(Notification)
  BY DEF DeliveryInv, WorldOK
<1>2. CASE inbox'[i] = inbox[i]
  BY <1>2, Zenon DEF KeptRow
<1>3. CASE inbox' = inbox
  BY <1>2, <1>3
<1>4. ASSUME NEW j \in Rows, MarkAsRead(j)
      PROVE  KeptRow(i)
  <2>1. Stamp({j}, "readAt")
    BY <1>4 DEF MarkAsRead
  <2>2. i # j => inbox'[i] = inbox[i]
    BY <1>1, <2>1, StampedRow
  <2>3. inbox'[i].archivedAt = inbox[i].archivedAt
    BY <1>1, <2>1, StampedRow
  <2> QED BY <1>2, <1>4, <2>2, <2>3, Zenon DEF KeptRow
<1>5. ASSUME NEW u \in User, MarkAllAsRead(u)
      PROVE  KeptRow(i)
  <2> DEFINE rows == {k \in ListForUser(u, FALSE) : inbox[k].readAt = Never}
  <2>1. Stamp(rows, "readAt")
    BY <1>5 DEF MarkAllAsRead
  <2>2. i \in rows => inbox[i].readAt = Never
    OBVIOUS
  <2> HIDE DEF rows
  <2>3. /\ i \notin rows => inbox'[i] = inbox[i]
        /\ inbox'[i].archivedAt = inbox[i].archivedAt
    BY <1>1, <2>1, StampedRow
  <2> QED BY <1>2, <2>2, <2>3, Zenon DEF KeptRow
<1>6. ASSUME NEW u \in User, ArchiveAll(u)
      PROVE  KeptRow(i)
  <2> DEFINE rows == ListForUser(u, FALSE)
  <2>1. Stamp(rows, "archivedAt")
    BY <1>6 DEF ArchiveAll
  <2>2. i \in rows => inbox[i].archivedAt = Never
    BY DEF ListForUser
  <2> HIDE DEF rows
  <2>3. /\ i \notin rows => inbox'[i] = inbox[i]
        /\ inbox'[i].readAt = inbox[i].readAt
    BY <1>1, <2>1, StampedRow
  <2> QED BY <1>2, <2>2, <2>3, Zenon DEF KeptRow
<1>7. ASSUME NEW s \in Send, NEW u \in User, SendToUser(s, u)
      PROVE  KeptRow(i)
  <2>1. inbox'[i] = inbox[i]
    BY <1>1, <1>7 DEF SendToUser, Rows
  <2> QED BY <1>2, <2>1
<1>8. CASE \/ \E t \in Token : Die(t) \/ UnregisterDeviceToken(t)
           \/ \E u \in User, t \in Token : RegisterDeviceToken(u, t)
           \/ \E s \in Send : \/ ReadRecipient(s) \/ PostSms(s) \/ SendMail(s)
                              \/ ReadTokens(s) \/ Push(s) \/ DeactivateTokens(s) \/ Throw(s)
           \/ UNCHANGED vars
  <2>1. inbox' = inbox
    BY <1>8, Zenon DEF Die, UnregisterDeviceToken, RegisterDeviceToken, ReadRecipient, PostSms,
                SendMail, ReadTokens, Push, DeactivateTokens, Throw, vars
  <2> QED BY <1>3, <2>1
<1> QED BY <1>4, <1>5, <1>6, <1>7, <1>8, Zenon DEF Next, UserNext, SendNext

\* Tidying the inbox keeps what it records, whatever is listed, read, archived
\* and delivered in between: a row is archived once, and when it was read is
\* rewritten only by reading it again.
THEOREM InboxKeepsHistory == Spec => HistoryKept
<1>1. DeliveryInv /\ [Next]_vars =>
        [\A i \in Rows :
           /\ inbox[i].archivedAt \in {Never, inbox'[i].archivedAt}
           /\ inbox[i].readAt \notin {Never, inbox'[i].readAt} => MarkAsRead(i)]_vars
  BY RowsKept, Zenon DEF KeptRow
<1> QED BY <1>1, DeliveryInvariant, PTL DEF Spec, HistoryKept

=============================================================================
