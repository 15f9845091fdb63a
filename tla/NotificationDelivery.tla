------------------------ MODULE NotificationDelivery ------------------------
(***************************************************************************)
(* NotificationService with its gateways: a notification is stored, texted *)
(* and mailed if its user asked for it, and pushed to the user's devices,  *)
(* while the same and other users register devices, sign out and tidy      *)
(* their inbox.                                                            *)
(*                                                                         *)
(* Two calls of sendToUser may be under way, since BalanceSweep polls a    *)
(* batch of meters at once. An action is one statement, or one exchange    *)
(* with a gateway, and what the call computes before the next one. A       *)
(* process that stops half way is a matter of BalanceSweep.                *)
(***************************************************************************)
EXTENDS SmsEncoding, SequencesExt

CONSTANTS
    User,
    NoUser,
    Token,          \* device tokens
    Send,           \* calls of sendToUser that may be under way at a time
    Deployment,     \* sets of gateways a deployment may have credentials for
    Number,         \* numbers a user may have on file
    FCM_MULTICAST_BATCH_LIMIT,
    MaxNotifications,  \* bound: rows of notification
    MaxTime         \* bound: the last instant

ASSUME DeliveryAssumption ==
    /\ NoUser \notin User
    /\ IsFiniteSet(Token)
    /\ Deployment \subseteq SUBSET {"sms", "email", "push"}
    /\ Number \subseteq PhoneNumber
    /\ FCM_MULTICAST_BATCH_LIMIT \in Nat \ {0}
    /\ MaxNotifications \in Nat
    /\ MaxTime \in Nat

VARIABLES
    clock,        \* the next instant: time only tells stamps apart
    configured,   \* the gateways this one has
    devices,      \* device_token
    inbox,        \* notification, in the order of the rows
    dead,         \* tokens FCM does not know any more
    at,           \* what a send is about to do
    to,           \* the user it is for, as long as it matters
    outgoing,     \* which of a text and a mail it has yet to send
    tokens,       \* the tokens it read
    pushed,       \* how many of them it has passed to FCM
    invalid,      \* those FCM has rejected for good
    owed,         \* history: channels the user asked for, not yet tried
    wanted,       \* history: tokens registered, and not unregistered since
    rejected      \* history: active tokens a send was told to switch off

vars   == <<clock, configured, devices, inbox, dead, at, to, outgoing,
            tokens, pushed, invalid, owed, wanted, rejected>>
world  == <<configured, dead>>
locals == <<to, outgoing, tokens, pushed, invalid>>
ghosts == <<owed, wanted, rejected>>

Never == 0   \* null, of an instant
Step == {"idle", "recipient", "sms", "email", "tokens", "push", "deactivate"}

Notification == [user : User, readAt : 0..MaxTime, archivedAt : 0..MaxTime]
DeviceToken  == [user : User \union {NoUser}, isActive : BOOLEAN]

\* recipientFor: what the extra channels need of the user's row, or of none.
Recipient == [smsAlerts : BOOLEAN, emailAlerts : BOOLEAN, hasEmail : BOOLEAN,
              smsNumber : Number \union {NoNumber},
              mobile : Number \union {NoNumber}]

\* Type invariant. A send that pushes has tokens left to push to, and one that
\* switches tokens off has some.
TypeOK ==
    /\ clock \in 1..(MaxTime + 1)
    /\ configured \in Deployment
    /\ devices \in [Token -> DeviceToken]
    /\ inbox \in Seq(Notification)
    /\ dead \subseteq Token
    /\ at \in [Send -> Step]
    /\ to \in [Send -> User \union {NoUser}]
    /\ outgoing \in [Send -> SUBSET {"sms", "email"}]
    /\ tokens \in [Send -> Seq(Token)]
    /\ pushed \in [Send -> 0..Cardinality(Token)]
    /\ invalid \in [Send -> SUBSET Token]
    /\ owed \in [Send -> SUBSET {"sms", "email"}]
    /\ wanted \subseteq Token /\ rejected \subseteq Token
    /\ \A s \in Send :
          /\ at[s] \in {"sms", "email"} => at[s] \in outgoing[s]
          /\ at[s] = "push" => pushed[s] < Len(tokens[s])
          /\ at[s] = "deactivate" => invalid[s] # {}

Init ==
    /\ clock = 1
    /\ configured \in Deployment
    /\ devices = [t \in Token |-> [user |-> NoUser, isActive |-> FALSE]]
    /\ inbox = << >>
    /\ dead = {}
    /\ at = [s \in Send |-> "idle"]
    /\ to = [s \in Send |-> NoUser]
    /\ outgoing = [s \in Send |-> {}]
    /\ tokens = [s \in Send |-> << >>]
    /\ pushed = [s \in Send |-> 0]
    /\ invalid = [s \in Send |-> {}]
    /\ owed = [s \in Send |-> {}]
    /\ wanted = {} /\ rejected = {}

-----------------------------------------------------------------------------
\* An app is uninstalled, its token replaced, or never was one.
Die(t) ==
    /\ devices[t].user # NoUser
    /\ dead' = dead \union {t}
    /\ UNCHANGED <<clock, configured, devices, inbox, at, locals, ghosts>>

\* registerDeviceToken: a token somebody else had moves over.
RegisterDeviceToken(u, t) ==
    /\ devices' = [devices EXCEPT ![t] = [user |-> u, isActive |-> TRUE]]
    /\ wanted' = wanted \union {t}
    /\ rejected' = rejected \ {t}
    /\ UNCHANGED <<clock, world, inbox, at, locals, owed>>

\* unregisterDeviceToken: by its own user; of another's token it is a 404.
UnregisterDeviceToken(t) ==
    /\ devices[t].user # NoUser
    /\ devices' = [devices EXCEPT ![t].isActive = FALSE]
    /\ wanted' = wanted \ {t}
    /\ rejected' = rejected \ {t}
    /\ UNCHANGED <<clock, world, inbox, at, locals, owed>>

-----------------------------------------------------------------------------
(***************************************************************************)
(* The inbox.                                                              *)
(***************************************************************************)
Rows == DOMAIN inbox

\* listForUser, of which a page shows the latest.
ListForUser(u, includeArchived) ==
    {i \in Rows : /\ inbox[i].user = u
                  /\ includeArchived \/ inbox[i].archivedAt = Never}

\* One statement stamps some rows, at an instant of its own.
Stamp(rows, field) ==
    /\ rows # {}
    /\ clock <= MaxTime
    /\ clock' = clock + 1
    /\ inbox' = [i \in Rows |-> IF i \in rows THEN [inbox[i] EXCEPT ![field] = clock]
                                              ELSE inbox[i]]
    /\ UNCHANGED <<world, devices, at, locals, ghosts>>

\* The row is found by its id and its user, and by nothing else.
MarkAsRead(i) == i \in Rows /\ Stamp({i}, "readAt")

\* Mutant: whatever is in the list.
MarkListAsRead(u) == Stamp(ListForUser(u, FALSE), "readAt")

MarkAllAsRead(u) ==
    Stamp({i \in ListForUser(u, FALSE) : inbox[i].readAt = Never}, "readAt")

ArchiveAll(u) == Stamp(ListForUser(u, FALSE), "archivedAt")

-----------------------------------------------------------------------------
(***************************************************************************)
(* sendToUser.                                                             *)
(***************************************************************************)
GoTo(s, step) == at' = [at EXCEPT ![s] = step]

End(s) ==
    /\ GoTo(s, "idle")
    /\ to'       = [to EXCEPT ![s] = NoUser]
    /\ outgoing' = [outgoing EXCEPT ![s] = {}]
    /\ tokens'   = [tokens EXCEPT ![s] = << >>]
    /\ pushed'   = [pushed EXCEPT ![s] = 0]
    /\ invalid'  = [invalid EXCEPT ![s] = {}]

\* A statement, or the whole exchange with FCM, fails: what FCM has said of the
\* tokens by then is lost.
Throw(s) ==
    /\ at[s] \in {"recipient", "tokens", "push", "deactivate"}
    /\ rejected' = rejected \ invalid[s]
    /\ End(s)
    /\ UNCHANGED <<clock, world, devices, inbox, owed, wanted>>

\* The notification is stored before anything is sent.
SendToUser(s, u) ==
    /\ at[s] = "idle"
    /\ Len(inbox) < MaxNotifications
    /\ inbox' = Append(inbox, [user |-> u, readAt |-> Never, archivedAt |-> Never])
    /\ GoTo(s, "recipient")
    /\ to' = [to EXCEPT ![s] = u]
    /\ UNCHANGED <<clock, world, devices, outgoing, tokens, pushed, invalid, ghosts>>

\* An override replaces the number of the profile, usable or not.
NumberOf(r) == IF r.smsNumber # NoNumber THEN r.smsNumber ELSE r.mobile

\* History: the channels the user asked for, and can be reached on.
Asked(r) ==
    {channel \in configured :
       \/ channel = "sms" /\ r.smsAlerts /\ NumberOf(r).isMobile
       \/ channel = "email" /\ r.emailAlerts /\ r.hasEmail}

\* deliverSms and deliverEmail up to the gateway. SmsService.send normalises
\* what it is given again.
Texts(r) ==
    /\ "sms" \in configured
    /\ r.smsAlerts
    /\ ToBangladeshMsisdn(ToBangladeshMsisdn(NumberOf(r))) # NoNumber

Mails(r) ==
    /\ r.emailAlerts
    /\ "email" \in configured
    /\ r.hasEmail

Outgoing(r) == {channel \in {"sms", "email"} :
                   (channel = "sms" /\ Texts(r)) \/ (channel = "email" /\ Mails(r))}

\* Without credentials for FCM, the send ends here.
GoToPush(s) ==
    IF "push" \in configured
    THEN /\ GoTo(s, "tokens")
         /\ outgoing' = [outgoing EXCEPT ![s] = {}]
         /\ UNCHANGED <<to, tokens, pushed, invalid>>
    ELSE End(s)

\* Once the text is out of the way.
GoToMail(s) ==
    IF "email" \in outgoing[s]
    THEN /\ GoTo(s, "email")
         /\ outgoing' = [outgoing EXCEPT ![s] = {"email"}]
         /\ UNCHANGED <<to, tokens, pushed, invalid>>
    ELSE GoToPush(s)

\* recipientFor, whatever the user's settings are by now.
ReadRecipient(s) ==
    /\ at[s] = "recipient"
    /\ \E r \in Recipient :
          /\ owed' = [owed EXCEPT ![s] = Asked(r)]
          /\ \/ /\ Outgoing(r) # {}
                /\ GoTo(s, IF Texts(r) THEN "sms" ELSE "email")
                /\ outgoing' = [outgoing EXCEPT ![s] = Outgoing(r)]
                /\ UNCHANGED <<to, tokens, pushed, invalid>>
             \/ /\ Outgoing(r) = {}
                /\ GoToPush(s)
    /\ UNCHANGED <<clock, world, devices, inbox, wanted, rejected>>

\* Mutant: a gateway that is down, or refuses, ends the send.
PostSmsOrThrow(s) ==
    /\ at[s] = "sms"
    /\ owed' = [owed EXCEPT ![s] = @ \ {"sms"}]
    /\ GoToMail(s) \/ End(s)
    /\ UNCHANGED <<clock, world, devices, inbox, wanted, rejected>>

\* SmsService.send: whether the gateway accepts the text, refuses it, answers
\* nonsense or does not answer in time, deliverSms goes on.
PostSms(s) ==
    /\ at[s] = "sms"
    /\ owed' = [owed EXCEPT ![s] = @ \ {"sms"}]
    /\ GoToMail(s)
    /\ UNCHANGED <<clock, world, devices, inbox, wanted, rejected>>

\* MailService.send, and so does deliverEmail.
SendMail(s) ==
    /\ at[s] = "email"
    /\ owed' = [owed EXCEPT ![s] = @ \ {"email"}]
    /\ GoToPush(s)
    /\ UNCHANGED <<clock, world, devices, inbox, wanted, rejected>>

\* activeTokensFor, in any order.
ActiveTokensFor(u) == {t \in Token : devices[t] = [user |-> u, isActive |-> TRUE]}

\* Mutant: a user without devices is no exception.
ReadTokensAny(s) ==
    /\ at[s] = "tokens"
    /\ tokens' \in {[tokens EXCEPT ![s] = q] : q \in SetToSeqs(ActiveTokensFor(to[s]))}
    /\ GoTo(s, "push")
    /\ to' = [to EXCEPT ![s] = NoUser]
    /\ UNCHANGED <<clock, world, devices, inbox, outgoing, pushed, invalid, ghosts>>

ReadTokens(s) ==
    /\ at[s] = "tokens"
    /\ \/ /\ ActiveTokensFor(to[s]) = {}
          /\ End(s)
       \/ /\ ActiveTokensFor(to[s]) # {}
          /\ tokens' \in {[tokens EXCEPT ![s] = q] : q \in SetToSeqs(ActiveTokensFor(to[s]))}
          /\ GoTo(s, "push")
          /\ to' = [to EXCEPT ![s] = NoUser]
          /\ UNCHANGED <<outgoing, pushed, invalid>>
    /\ UNCHANGED <<clock, world, devices, inbox, ghosts>>

NextPushed(s) == Min({Len(tokens[s]), pushed[s] + FCM_MULTICAST_BATCH_LIMIT})

\* Mutant: the index of a batch applied to the whole list.
UnknownOfList(s) ==
    LET batch == SubSeq(tokens[s], pushed[s] + 1, NextPushed(s))
    IN  {tokens[s][index] : index \in {i \in DOMAIN batch : batch[i] \in dead}}

\* The tokens of the next batch that FCM does not know any more.
Unknown(s) ==
    LET batch == SubSeq(tokens[s], pushed[s] + 1, NextPushed(s))
    IN  {batch[index] : index \in {i \in DOMAIN batch : batch[i] \in dead}}

\* sendToTokens, one batch; other errors are logged.
Push(s) ==
    /\ at[s] = "push"
    /\ \/ /\ NextPushed(s) < Len(tokens[s])
          /\ pushed' = [pushed EXCEPT ![s] = NextPushed(s)]
          /\ invalid' = [invalid EXCEPT ![s] = @ \union Unknown(s)]
          /\ UNCHANGED <<at, to, outgoing, tokens>>
       \/ /\ NextPushed(s) = Len(tokens[s])
          /\ invalid[s] \union Unknown(s) # {}
          /\ invalid' = [invalid EXCEPT ![s] = @ \union Unknown(s)]
          /\ GoTo(s, "deactivate")
          /\ tokens' = [tokens EXCEPT ![s] = << >>]
          /\ pushed' = [pushed EXCEPT ![s] = 0]
          /\ UNCHANGED <<to, outgoing>>
       \/ /\ NextPushed(s) = Len(tokens[s])
          /\ invalid[s] \union Unknown(s) = {}
          /\ End(s)
    /\ rejected' = rejected \union {t \in Unknown(s) : devices[t].isActive}
    /\ UNCHANGED <<clock, world, devices, inbox, owed, wanted>>

\* deactivateTokens: by value, whoever has them by now.
DeactivateTokens(s) ==
    /\ at[s] = "deactivate"
    /\ devices' = [t \in Token |-> IF t \in invalid[s]
                                   THEN [devices[t] EXCEPT !.isActive = FALSE] ELSE devices[t]]
    /\ rejected' = {t \in rejected : devices'[t].isActive}
    /\ End(s)
    /\ UNCHANGED <<clock, world, inbox, owed, wanted>>

-----------------------------------------------------------------------------
SendNext(s) ==
    \/ \E u \in User : SendToUser(s, u)
    \/ ReadRecipient(s) \/ PostSms(s) \/ SendMail(s)
    \/ ReadTokens(s) \/ Push(s) \/ DeactivateTokens(s) \/ Throw(s)

UserNext(u) ==
    \/ \E t \in Token : RegisterDeviceToken(u, t)
    \/ MarkAllAsRead(u) \/ ArchiveAll(u)

Next ==
    \/ \E t \in Token : Die(t) \/ UnregisterDeviceToken(t)
    \/ \E i \in Rows : MarkAsRead(i)
    \/ \E u \in User : UserNext(u)
    \/ \E s \in Send : SendNext(s)

Spec == Init /\ [][Next]_vars

-----------------------------------------------------------------------------
\* Every channel a user asked for is tried, whatever becomes of the other one:
\* a send that is past its messages, or over, owes none, unless it threw
\* before it knew of them. That a number is normalised twice turns no text
\* away.
ChannelsTried ==
    \A s \in Send :
       at[s] \notin {"recipient", "sms"} =>
          owed[s] \subseteq (IF at[s] = "email" THEN {"email"} ELSE {})

\* No device is lost by what FCM says of others, or said too late: a token that
\* FCM knows is active exactly as long as its user has it registered. And one
\* that FCM has rejected is active only until the send that was told is over,
\* unless that send threw.
DevicesFollowFcm ==
    /\ \A t \in Token \ dead : devices[t].isActive <=> t \in wanted
    /\ \A t \in rejected : \E s \in Send : t \in invalid[s]

\* Tidying the inbox keeps what it records: a notification stays archived as of
\* the same instant, and when it was read is rewritten only by reading it
\* again, never by marking all that is listed.
HistoryKept ==
    [][\A i \in Rows :
         /\ inbox[i].archivedAt \in {Never, inbox'[i].archivedAt}
         /\ inbox[i].readAt \notin {Never, inbox'[i].readAt} => MarkAsRead(i)]_vars

=============================================================================
