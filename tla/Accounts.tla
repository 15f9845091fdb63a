------------------------------ MODULE Accounts ------------------------------
(***************************************************************************)
(* The password of one email address and the codes that recover it, under  *)
(* calls of PasswordResetService and AuthService that may overlap.         *)
(*                                                                         *)
(* An action is one database statement, or one transaction, with what the  *)
(* call computes before its next await; hashing and verifying are slow, so *)
(* much may come in between. A transaction is READ COMMITTED. The one that *)
(* stores a code takes two actions: its UPDATE sees the rows that were     *)
(* committed when it starts, and only what is still live of them when its  *)
(* turn comes is retired.                                                  *)
(*                                                                         *)
(* A code is known by its row: that two codes are the same six digits is   *)
(* left out. Mails and tokens write nothing and are left out too.          *)
(***************************************************************************)
EXTENDS Integers, Sequences, FiniteSetsExt

CONSTANTS
    Call,          \* calls that may be under way at a time
    Password,
    NoPassword,    \* there is no such account
    CODE_TTL,                  \* CODE_TTL_MINUTES
    RESEND_COOLDOWN,           \* RESEND_COOLDOWN_SECONDS
    REQUEST_WINDOW,            \* REQUEST_WINDOW_MINUTES
    MAX_REQUESTS_PER_WINDOW,
    MAX_ATTEMPTS,
    MaxTime        \* bound: the last instant

ASSUME AccountsAssumption ==
    /\ IsFiniteSet(Call)
    /\ NoPassword \notin Password
    /\ {CODE_TTL, RESEND_COOLDOWN, REQUEST_WINDOW,
        MAX_REQUESTS_PER_WINDOW, MAX_ATTEMPTS} \subseteq Nat \ {0}
    /\ MaxTime \in Nat

VARIABLES
    clock,
    password,     \* account.password
    codes,        \* the rows of verification, in the order they were stored
    at,           \* the statement a call is about to run
    now,          \* request: the instant it read when it began
    todo,         \* request: the rows its UPDATE will visit
    pending,      \* reset: the row it selected
    presented,    \* changePassword: the password it verified against
    found,        \* calls that write the account they found, still there
    requestsMet,  \* history: two requests have been under way at once
    writersMet    \* history: so have two calls that write the password

vars    == <<clock, password, codes, at, now, todo, pending, presented, found,
             requestsMet, writersMet>>
locals  == <<now, todo, pending, presented, found>>
history == <<requestsMet, writersMet>>

Requesting == {"throttle", "retire", "store"}
Writing    == {"verify", "redeem", "create", "change"}
Statement  == {"idle"} \union Requesting \union Writing

\* What is recorded of a code. The last two are history: wrong guesses that
\* were compared with it, and passwords that were set with it.
Code == [createdAt : 0..MaxTime, consumed : BOOLEAN, attempts : Nat,
         guesses : Nat, used : Nat]

\* Type invariant; a call refers only to rows that are stored.
TypeOK ==
    /\ clock \in 0..MaxTime
    /\ password \in Password \union {NoPassword}
    /\ codes \in Seq(Code)
    /\ at \in [Call -> Statement]
    /\ now \in [Call -> 0..clock]
    /\ todo \in [Call -> SUBSET (1..Len(codes))]
    /\ pending \in [Call -> 0..Len(codes)]
    /\ presented \in [Call -> Password \union {NoPassword}]
    /\ found \subseteq {c \in Call : at[c] \in {"redeem", "change"}}
    /\ requestsMet \in BOOLEAN /\ writersMet \in BOOLEAN
    /\ \A c \in Call : at[c] \in {"verify", "redeem"} => pending[c] > 0

Init ==
    /\ clock = 0
    /\ password \in Password \union {NoPassword}
    /\ codes = << >>
    /\ at = [c \in Call |-> "idle"]
    /\ now = [c \in Call |-> 0]
    /\ todo = [c \in Call |-> {}]
    /\ pending = [c \in Call |-> 0]
    /\ presented = [c \in Call |-> NoPassword]
    /\ found = {}
    /\ requestsMet = FALSE /\ writersMet = FALSE

-----------------------------------------------------------------------------
(***************************************************************************)
(* password-reset.policy.ts                                                *)
(***************************************************************************)
Stored == DOMAIN codes
Live   == {i \in Stored : ~codes[i].consumed}

\* ORDER BY created_at DESC LIMIT 1: of rows with the same instant, any.
Newest == {i \in Stored : \A j \in Stored : codes[j].createdAt <= codes[i].createdAt}

\* rejectionFor
Redeemable(i, instant) ==
    /\ ~codes[i].consumed
    /\ instant < codes[i].createdAt + CODE_TTL
    /\ codes[i].attempts < MAX_ATTEMPTS

\* The requests of the window that ends at the instant.
Recent(instant) == {i \in Stored : codes[i].createdAt > instant - REQUEST_WINDOW}

\* Mutant: the cooldown, but no quota.
ThrottledByCooldown(instant) ==
    \E i \in Recent(instant) : instant - codes[i].createdAt < RESEND_COOLDOWN

\* throttleFor
Throttled(instant) ==
    \/ \E i \in Recent(instant) : instant - codes[i].createdAt < RESEND_COOLDOWN
    \/ Cardinality(Recent(instant)) >= MAX_REQUESTS_PER_WINDOW

-----------------------------------------------------------------------------
\* findCredentialUser
HasCredential == password # NoPassword

Begin(c, statement) ==
    /\ at[c] = "idle"
    /\ at' = [at EXCEPT ![c] = statement]
    /\ requestsMet' = (requestsMet \/ /\ statement \in Requesting
                                      /\ \E d \in Call : at[d] \in Requesting)
    /\ writersMet' = (writersMet \/ /\ statement \in Writing
                                    /\ \E d \in Call : at[d] \in Writing)

GoTo(c, statement) ==
    /\ at' = [at EXCEPT ![c] = statement]
    /\ UNCHANGED history

End(c) ==
    /\ GoTo(c, "idle")
    /\ now' = [now EXCEPT ![c] = 0]
    /\ todo' = [todo EXCEPT ![c] = {}]
    /\ pending' = [pending EXCEPT ![c] = 0]
    /\ presented' = [presented EXCEPT ![c] = NoPassword]
    /\ found' = found \ {c}

\* A statement that fails, a lost connection, a process that stops: what the
\* call has not committed is gone. An answer of 4xx ends it the same way.
Fail(c) ==
    /\ at[c] # "idle"
    /\ End(c)
    /\ UNCHANGED <<clock, password, codes>>

Tick ==
    /\ clock < MaxTime
    /\ clock' = clock + 1
    /\ UNCHANGED <<password, codes, at, locals, history>>

\* Nothing in the code removes an account, but the code is ready for it.
AccountGone ==
    /\ password # NoPassword
    /\ password' = NoPassword
    /\ found' = {}
    /\ UNCHANGED <<clock, codes, at, now, todo, pending, presented, history>>

-----------------------------------------------------------------------------
(***************************************************************************)
(* PasswordResetService.request                                            *)
(***************************************************************************)

\* An email without a credential account ends the call here, silently.
Request(c) ==
    /\ HasCredential
    /\ Begin(c, "throttle")
    /\ now' = [now EXCEPT ![c] = clock]
    /\ UNCHANGED <<clock, password, codes, todo, pending, presented, found>>

\* assertNotThrottled, generateCode, hash; a 429 is a Fail.
PassThrottle(c) ==
    /\ at[c] = "throttle"
    /\ ~Throttled(now[c])
    /\ GoTo(c, "retire")
    /\ UNCHANGED <<clock, password, codes, locals>>

\* Mutant: the codes sent before stay as they are.
RetireNone(c) ==
    /\ at[c] = "retire"
    /\ todo' = todo
    /\ GoTo(c, "store")
    /\ UNCHANGED <<clock, password, codes, now, pending, presented, found>>

\* The transaction opens, and its UPDATE finds the rows that are live.
Retire(c) ==
    /\ at[c] = "retire"
    /\ todo' = [todo EXCEPT ![c] = Live]
    /\ GoTo(c, "store")
    /\ UNCHANGED <<clock, password, codes, now, pending, presented, found>>

NewCode(c) == [createdAt |-> now[c], consumed |-> FALSE, attempts |-> 0,
               guesses |-> 0, used |-> 0]

\* Retired, inserted and committed.
Store(c) ==
    /\ at[c] = "store"
    /\ codes' = Append([i \in Stored |-> [codes[i] EXCEPT !.consumed = @ \/ i \in todo[c]]],
                       NewCode(c))
    /\ End(c)
    /\ UNCHANGED <<clock, password>>

-----------------------------------------------------------------------------
(***************************************************************************)
(* PasswordResetService.reset                                              *)
(***************************************************************************)

\* Mutant: that there is no row is not a rejection.
ResetUnfound(c) ==
    /\ Begin(c, "verify")
    /\ \/ Newest = {} /\ UNCHANGED pending
       \/ \E i \in Newest :
             /\ Redeemable(i, clock)
             /\ pending' = [pending EXCEPT ![c] = i]
    /\ UNCHANGED <<clock, password, codes, now, todo, presented, found>>

\* Mutant: whatever the attempts.
ResetUncounted(c) ==
    /\ Begin(c, "verify")
    /\ \E i \in Newest :
          /\ ~codes[i].consumed
          /\ clock < codes[i].createdAt + CODE_TTL
          /\ pending' = [pending EXCEPT ![c] = i]
    /\ UNCHANGED <<clock, password, codes, now, todo, presented, found>>

\* The newest row is selected and judged; a rejection changes nothing.
Reset(c) ==
    /\ Begin(c, "verify")
    /\ \E i \in Newest :
          /\ Redeemable(i, clock)
          /\ pending' = [pending EXCEPT ![c] = i]
    /\ UNCHANGED <<clock, password, codes, now, todo, presented, found>>

\* The guess was wrong: attempts + 1, in SQL.
Mismatch(c) ==
    /\ at[c] = "verify"
    /\ codes' = [codes EXCEPT ![pending[c]].attempts = @ + 1,
                              ![pending[c]].guesses  = @ + 1]
    /\ End(c)
    /\ UNCHANGED <<clock, password>>

\* The guess was right, findCredentialUser finds the account, the new password
\* is hashed.
Match(c) ==
    /\ at[c] = "verify"
    /\ HasCredential
    /\ found' = found \union {c}
    /\ GoTo(c, "redeem")
    /\ UNCHANGED <<clock, password, codes, now, todo, pending, presented>>

\* Mutant: the code is not consumed.
RedeemLive(c) ==
    /\ at[c] = "redeem"
    /\ codes' = [codes EXCEPT ![pending[c]].used = @ + 1]
    /\ password' \in IF c \in found THEN Password ELSE {password}
    /\ End(c)
    /\ UNCHANGED clock

\* Mutant: consumed and changed in two transactions.
RedeemInTwo(c) ==
    /\ at[c] = "redeem"
    /\ \/ /\ codes' = [codes EXCEPT ![pending[c]].consumed = TRUE]
          /\ UNCHANGED password
       \/ /\ codes' = [codes EXCEPT ![pending[c]].consumed = TRUE,
                                    ![pending[c]].used     = @ + 1]
          /\ password' \in IF c \in found THEN Password ELSE {password}
    /\ End(c)
    /\ UNCHANGED clock

\* One transaction, with no further condition; the UPDATE of an account that
\* went after it was found changes no row.
Redeem(c) ==
    /\ at[c] = "redeem"
    /\ codes' = [codes EXCEPT ![pending[c]].consumed = TRUE,
                              ![pending[c]].used     = @ + 1]
    /\ password' \in IF c \in found THEN Password ELSE {password}
    /\ End(c)
    /\ UNCHANGED clock

-----------------------------------------------------------------------------
(***************************************************************************)
(* AuthService                                                             *)
(***************************************************************************)

\* register looks the email up as it was typed, so that another spelling of a
\* registered one passes.
Register(c) ==
    /\ Begin(c, "create")
    /\ UNCHANGED <<clock, password, codes, locals>>

\* user and account in one transaction; user.email is unique, so that an
\* address that is taken fails it.
Create(c) ==
    /\ at[c] = "create"
    /\ password = NoPassword
    /\ password' \in Password
    /\ End(c)
    /\ UNCHANGED <<clock, codes>>

\* Mutant: the verification is not awaited, and a promise counts as true.
ChangeUnawaited(c) ==
    /\ password # NoPassword
    /\ Begin(c, "change")
    /\ presented' \in [Call -> Password \union {NoPassword}]
    /\ \A d \in Call \ {c} : presented'[d] = presented[d]
    /\ found' = found \union {c}
    /\ UNCHANGED <<clock, password, codes, now, todo, pending>>

\* changePassword: the credential is read, and the password the caller gives as
\* the current one is verified.
ChangePassword(c) ==
    /\ password # NoPassword
    /\ Begin(c, "change")
    /\ presented' = [presented EXCEPT ![c] = password]
    /\ found' = found \union {c}
    /\ UNCHANGED <<clock, password, codes, now, todo, pending>>

\* UPDATE by the id of the row that was found, whatever the password is by now.
Change(c) ==
    /\ at[c] = "change"
    /\ password' \in IF c \in found THEN Password \ {presented[c]} ELSE {password}
    /\ End(c)
    /\ UNCHANGED <<clock, codes>>

-----------------------------------------------------------------------------
CallNext(c) ==
    \/ Request(c) \/ PassThrottle(c) \/ Retire(c) \/ Store(c)
    \/ Reset(c) \/ Mismatch(c) \/ Match(c) \/ Redeem(c)
    \/ Register(c) \/ Create(c) \/ ChangePassword(c) \/ Change(c)
    \/ Fail(c)

Next == Tick \/ AccountGone \/ \E c \in Call : CallNext(c)

Spec == Init /\ [][Next]_vars

-----------------------------------------------------------------------------
Parallel == Cardinality(Call)

\* The ceiling on attempts is checked before the slow verification and counted
\* after it. Still, no code is ever compared with more wrong guesses than the
\* ceiling, and one more for each other call that can be under way: no guess
\* goes uncounted, however the calls overlap.
GuessesBounded ==
    \A i \in Stored : codes[i].guesses <= MAX_ATTEMPTS + Parallel - 1

\* The throttle reads the recent requests and the code is stored much later.
\* Still, no window holds more codes than the quota, and one more for each
\* other call that can be under way.
QuotaHolds ==
    \A instant \in 0..MaxTime :
       Cardinality({i \in Stored : /\ codes[i].createdAt > instant - REQUEST_WINDOW
                                   /\ codes[i].createdAt <= instant})
          <= MAX_REQUESTS_PER_WINDOW + Parallel - 1

\* As long as no two requests overlap, the code sent last is the one a reset
\* will look at, and the only one that is live; and never are more codes live
\* than calls can be under way.
LatestCodeWins ==
    /\ Cardinality(Live) <= Parallel
    /\ ~requestsMet => /\ Live \subseteq {Len(codes)}
                       /\ Newest \subseteq {Len(codes)}

\* As long as no two calls that write the password overlap, a code sets at
\* most one.
CodeUsedOnce == writersMet \/ \A i \in Stored : codes[i].used <= 1

\* And a change of password, which writes whatever the password is by then,
\* replaces the very one its caller gave: what is verified before the new
\* password is hashed still holds after it.
ChangeIsEarned ==
    writersMet \/ \A c \in Call :
       at[c] = "change" => password \in {presented[c], NoPassword}

\* A code that set a password is not live any more, and a code that is not
\* live set a password or was replaced by a later one: a reset that fails half
\* way neither leaves the code usable nor spends it for nothing.
CodeAndPasswordTogether ==
    \A i \in Stored :
       /\ codes[i].used > 0 => codes[i].consumed
       /\ codes[i].consumed => codes[i].used > 0 \/ i < Len(codes)

=============================================================================
