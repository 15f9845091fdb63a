--------------------------- MODULE Accounts_proofs ---------------------------
(***************************************************************************)
(* The limits and the codes of an address, for any number of calls, any    *)
(* limits and any order of their statements.                               *)
(***************************************************************************)
EXTENDS Accounts, FiniteSetTheorems, TLAPS

(***************************************************************************)
(* Type correctness.                                                       *)
(***************************************************************************)
LEMMA InitTypeOK == Init => TypeOK
<1> SUFFICES ASSUME Init PROVE TypeOK
  OBVIOUS
<1> USE DEF Init
<1>1. codes \in Seq(Code) /\ Len(codes) = 0
  OBVIOUS
<1>2. clock \in 0..MaxTime /\ now \in [Call -> 0..clock]
  BY AccountsAssumption
<1>3. at \in [Call -> Statement] /\ found \subseteq {c \in Call : at[c] \in {"redeem", "change"}}
  BY DEF Statement
<1>4. todo \in [Call -> SUBSET (1..Len(codes))] /\ pending \in [Call -> 0..Len(codes)]
  BY <1>1
<1> QED
  BY <1>1, <1>2, <1>3, <1>4 DEF TypeOK

\* What every call does to its own variables when it ends.
LEMMA EndTypeOK ==
    ASSUME TypeOK, NEW c \in Call, End(c),
           clock' = clock, password' \in Password \union {NoPassword},
           codes' \in Seq(Code), Len(codes') >= Len(codes)
    PROVE  TypeOK'
<1> USE DEF TypeOK, Statement
<1>1. /\ at' = [at EXCEPT ![c] = "idle"]
      /\ now' = [now EXCEPT ![c] = 0]
      /\ todo' = [todo EXCEPT ![c] = {}]
      /\ pending' = [pending EXCEPT ![c] = 0]
      /\ presented' = [presented EXCEPT ![c] = NoPassword]
      /\ found' = found \ {c}
      /\ requestsMet' = requestsMet /\ writersMet' = writersMet
  BY DEF End, GoTo, history
<1>2. at' \in [Call -> Statement] /\ now' \in [Call -> 0..clock']
  BY <1>1
<1>3. todo' \in [Call -> SUBSET (1..Len(codes'))]
  <2>1. 1..Len(codes) \subseteq 1..Len(codes')
    OBVIOUS
  <2> QED
    BY <1>1, <2>1
<1>4. pending' \in [Call -> 0..Len(codes')]
  BY <1>1
<1>5. presented' \in [Call -> Password \union {NoPassword}]
  BY <1>1
<1>6. found' \subseteq {d \in Call : at'[d] \in {"redeem", "change"}}
  BY <1>1
<1>7. \A d \in Call : at'[d] \in {"verify", "redeem"} => pending'[d] > 0
  BY <1>1
<1> QED
  BY <1>1, <1>2, <1>3, <1>4, <1>5, <1>6, <1>7

\* And what it does when it begins.
LEMMA BeginTypeOK ==
    ASSUME TypeOK, NEW c \in Call, NEW statement \in Statement, Begin(c, statement)
    PROVE  /\ at' \in [Call -> Statement]
           /\ at'[c] = statement
           /\ \A d \in Call \ {c} : at'[d] = at[d]
           /\ c \notin found
           /\ requestsMet' \in BOOLEAN /\ writersMet' \in BOOLEAN
<1>1. at[c] = "idle" /\ at' = [at EXCEPT ![c] = statement]
  BY DEF Begin
<1>2. requestsMet' \in BOOLEAN /\ writersMet' \in BOOLEAN
  BY Zenon DEF Begin, TypeOK
<1> QED
  BY <1>1, <1>2 DEF TypeOK

\* A call that only goes on, and has its rows.
LEMMA GoToTypeOK ==
    ASSUME TypeOK, NEW c \in Call, NEW statement \in Statement, GoTo(c, statement)
    PROVE  /\ at' \in [Call -> Statement]
           /\ at'[c] = statement
           /\ \A d \in Call \ {c} : at'[d] = at[d]
           /\ requestsMet' \in BOOLEAN /\ writersMet' \in BOOLEAN
  BY DEF GoTo, history, TypeOK

\* A row that is rewritten is still one, and the others stay.
LEMMA CodeChanged ==
    ASSUME codes \in Seq(Code), NEW i \in 1..Len(codes), NEW code \in Code,
           codes' = [codes EXCEPT ![i] = code]
    PROVE  /\ codes' \in Seq(Code)
           /\ Len(codes') = Len(codes)
           /\ codes'[i] = code
           /\ \A j \in 1..Len(codes) : j # i => codes'[j] = codes[j]
  OBVIOUS

\* A row to which an attempt is counted, and one that is redeemed.
LEMMA CodeGuessed ==
    ASSUME NEW code \in Code,
           NEW new, new = [code EXCEPT !.attempts = @ + 1, !.guesses = @ + 1]
    PROVE  /\ new \in Code
           /\ new.createdAt = code.createdAt /\ new.consumed = code.consumed
           /\ new.attempts = code.attempts + 1 /\ new.guesses = code.guesses + 1
           /\ new.used = code.used
<1>1. new = [createdAt |-> code.createdAt, consumed |-> code.consumed,
             attempts |-> code.attempts + 1, guesses |-> code.guesses + 1,
             used |-> code.used]
  BY DEF Code
<1> QED
  BY <1>1 DEF Code

LEMMA CodeRedeemed ==
    ASSUME NEW code \in Code,
           NEW new, new = [code EXCEPT !.consumed = TRUE, !.used = @ + 1]
    PROVE  /\ new \in Code
           /\ new.createdAt = code.createdAt /\ new.consumed = TRUE
           /\ new.attempts = code.attempts /\ new.guesses = code.guesses
           /\ new.used = code.used + 1
<1>1. new = [createdAt |-> code.createdAt, consumed |-> TRUE,
             attempts |-> code.attempts, guesses |-> code.guesses,
             used |-> code.used + 1]
  BY DEF Code
<1>2. new.consumed = TRUE
  BY <1>1, Zenon
<1>3. /\ new.createdAt = code.createdAt /\ new.attempts = code.attempts
      /\ new.guesses = code.guesses /\ new.used = code.used + 1
  BY <1>1
<1>4. /\ code.createdAt \in 0..MaxTime /\ code.attempts \in Nat
      /\ code.guesses \in Nat /\ code.used + 1 \in Nat
  BY DEF Code
<1>5. new \in Code
  BY <1>1, <1>4, Zenon DEF Code
<1> QED
  BY <1>2, <1>3, <1>5, Zenon

\* What Mismatch, Redeem and Store do to the rows.
LEMMA MismatchRows ==
    ASSUME TypeOK, NEW c \in Call, Mismatch(c)
    PROVE  LET i == pending[c]
           IN  /\ i \in 1..Len(codes)
               /\ codes' \in Seq(Code) /\ Len(codes') = Len(codes)
               /\ codes'[i].createdAt = codes[i].createdAt
               /\ codes'[i].consumed = codes[i].consumed
               /\ codes'[i].attempts = codes[i].attempts + 1
               /\ codes'[i].guesses = codes[i].guesses + 1
               /\ codes'[i].used = codes[i].used
               /\ \A j \in 1..Len(codes) : j # i => codes'[j] = codes[j]
<1> DEFINE i    == pending[c]
           code == [codes[i] EXCEPT !.attempts = @ + 1, !.guesses = @ + 1]
<1>1. i \in 1..Len(codes) /\ codes[i] \in Code /\ codes \in Seq(Code)
  BY DEF Mismatch, TypeOK
<1>2. codes' = [codes EXCEPT ![i] = code]
  BY <1>1 DEF Mismatch, Code
<1>3. /\ code \in Code /\ code.createdAt = codes[i].createdAt /\ code.consumed = codes[i].consumed
      /\ code.attempts = codes[i].attempts + 1 /\ code.guesses = codes[i].guesses + 1
      /\ code.used = codes[i].used
  BY <1>1, CodeGuessed, Zenon
<1> HIDE DEF i, code
<1>4. /\ codes' \in Seq(Code) /\ Len(codes') = Len(codes) /\ codes'[i] = code
      /\ \A j \in 1..Len(codes) : j # i => codes'[j] = codes[j]
  BY <1>1, <1>2, <1>3, CodeChanged, Zenon
<1> QED
  BY <1>1, <1>3, <1>4, Zenon DEF i

LEMMA RedeemRows ==
    ASSUME TypeOK, NEW c \in Call, Redeem(c)
    PROVE  LET i == pending[c]
           IN  /\ i \in 1..Len(codes)
               /\ codes' \in Seq(Code) /\ Len(codes') = Len(codes)
               /\ codes'[i].createdAt = codes[i].createdAt
               /\ codes'[i].consumed = TRUE
               /\ codes'[i].attempts = codes[i].attempts
               /\ codes'[i].guesses = codes[i].guesses
               /\ codes'[i].used = codes[i].used + 1
               /\ \A j \in 1..Len(codes) : j # i => codes'[j] = codes[j]
<1> DEFINE i    == pending[c]
           code == [codes[i] EXCEPT !.consumed = TRUE, !.used = @ + 1]
<1>1. i \in 1..Len(codes) /\ codes[i] \in Code /\ codes \in Seq(Code)
  BY DEF Redeem, TypeOK
<1>2. codes' = [codes EXCEPT ![i] = code]
  BY <1>1 DEF Redeem, Code
<1>3. /\ code \in Code /\ code.createdAt = codes[i].createdAt /\ code.consumed = TRUE
      /\ code.attempts = codes[i].attempts /\ code.guesses = codes[i].guesses
      /\ code.used = codes[i].used + 1
  BY <1>1, CodeRedeemed, Zenon
<1> HIDE DEF i, code
<1>4. /\ codes' \in Seq(Code) /\ Len(codes') = Len(codes) /\ codes'[i] = code
      /\ \A j \in 1..Len(codes) : j # i => codes'[j] = codes[j]
  BY <1>1, <1>2, <1>3, CodeChanged, Zenon
<1> QED
  BY <1>1, <1>3, <1>4, Zenon DEF i

LEMMA RowAppended ==
    ASSUME NEW rows \in Seq(Code), NEW code \in Code, codes' = Append(rows, code)
    PROVE  /\ codes' \in Seq(Code) /\ Len(codes') = Len(rows) + 1
           /\ codes'[Len(rows) + 1] = code
           /\ \A i \in 1..Len(rows) : codes'[i] = rows[i]
  OBVIOUS

LEMMA CodeStored ==
    ASSUME codes \in Seq(Code), NEW rows, NEW code \in Code,
           codes' = Append([i \in Stored |-> [codes[i] EXCEPT !.consumed = @ \/ i \in rows]], code)
    PROVE  /\ codes' \in Seq(Code)
           /\ Len(codes') = Len(codes) + 1
           /\ codes'[Len(codes) + 1] = code
           /\ \A i \in 1..Len(codes) :
                 /\ codes'[i].createdAt = codes[i].createdAt
                 /\ codes'[i].consumed <=> (codes[i].consumed \/ i \in rows)
                 /\ codes'[i].attempts = codes[i].attempts
                 /\ codes'[i].guesses = codes[i].guesses
                 /\ codes'[i].used = codes[i].used
<1> DEFINE retired == [i \in 1..Len(codes) |-> [codes[i] EXCEPT !.consumed = @ \/ i \in rows]]
<1>1. \A i \in 1..Len(codes) : codes[i] \in Code
  OBVIOUS
<1>2. Stored = 1..Len(codes)
  BY DEF Stored
<1>3. codes' = Append(retired, code)
  BY <1>2, Zenon
<1>4. \A i \in 1..Len(codes) : [codes[i] EXCEPT !.consumed = @ \/ i \in rows] \in Code
  BY <1>1 DEF Code
<1>5. retired \in Seq(Code) /\ Len(retired) = Len(codes)
  BY <1>4
<1>6. /\ codes' \in Seq(Code) /\ Len(codes') = Len(codes) + 1
      /\ codes'[Len(codes) + 1] = code
      /\ \A i \in 1..Len(codes) : codes'[i] = retired[i]
  <2> HIDE DEF retired
  <2>1. /\ codes' \in Seq(Code) /\ Len(codes') = Len(retired) + 1
        /\ codes'[Len(retired) + 1] = code
        /\ \A i \in 1..Len(retired) : codes'[i] = retired[i]
    BY <1>3, <1>5, RowAppended, Zenon
  <2> QED
    BY <1>5, <2>1, Zenon
<1>7. \A i \in 1..Len(codes) : codes'[i] = [codes[i] EXCEPT !.consumed = @ \/ i \in rows]
  BY <1>6, Zenon
<1> QED
  BY <1>1, <1>6, <1>7 DEF Code

LEMMA StoreRows ==
    ASSUME TypeOK, NEW c \in Call, Store(c)
    PROVE  /\ codes' \in Seq(Code) /\ Len(codes') = Len(codes) + 1
           /\ codes'[Len(codes) + 1] = NewCode(c)
           /\ \A i \in 1..Len(codes) :
                 /\ codes'[i].createdAt = codes[i].createdAt
                 /\ codes'[i].consumed <=> (codes[i].consumed \/ i \in todo[c])
                 /\ codes'[i].attempts = codes[i].attempts
                 /\ codes'[i].guesses = codes[i].guesses
                 /\ codes'[i].used = codes[i].used
<1>1. NewCode(c) \in Code
  <2>1. now[c] \in 0..MaxTime
    BY AccountsAssumption DEF TypeOK
  <2> QED
    BY <2>1 DEF NewCode, Code
<1>2. codes' = Append([i \in Stored |-> [codes[i] EXCEPT !.consumed = @ \/ i \in todo[c]]],
                      NewCode(c))
  BY Zenon DEF Store
<1>3. codes \in Seq(Code)
  BY DEF TypeOK
<1> QED
  BY <1>1, <1>2, <1>3, CodeStored, Zenon

\* Each statement of a call keeps the types.
LEMMA CallTypeOK ==
    ASSUME TypeOK, NEW c \in Call, CallNext(c)
    PROVE  TypeOK'
<1> USE DEF TypeOK
<1>0. /\ Stored = 1..Len(codes)
      /\ codes \in Seq(Code)
      /\ \A i \in Stored : codes[i] \in Code
  BY DEF Stored
<1>1. CASE Request(c)
  <2>1. Begin(c, "throttle") /\ now' = [now EXCEPT ![c] = clock]
        /\ UNCHANGED <<clock, password, codes, todo, pending, presented, found>>
    BY <1>1, Zenon DEF Request
  <2>2. "throttle" \in Statement /\ now' \in [Call -> 0..clock]
    BY <2>1 DEF Statement, Requesting
  <2> QED
    BY <2>1, <2>2, BeginTypeOK
<1>2. CASE PassThrottle(c)
  <2>1. GoTo(c, "retire") /\ UNCHANGED <<clock, password, codes, locals>> /\ at[c] = "throttle"
    BY <1>2, Zenon DEF PassThrottle
  <2>2. "retire" \in Statement
    BY DEF Statement, Requesting
  <2> QED
    BY <2>1, <2>2, GoToTypeOK DEF locals
<1>3. CASE Retire(c)
  <2>1. GoTo(c, "store") /\ todo' = [todo EXCEPT ![c] = Live] /\ at[c] = "retire"
        /\ UNCHANGED <<clock, password, codes, now, pending, presented, found>>
    BY <1>3, Zenon DEF Retire
  <2>2. "store" \in Statement /\ Live \subseteq 1..Len(codes)
    BY <1>0 DEF Statement, Requesting, Live
  <2> QED
    BY <2>1, <2>2, GoToTypeOK
<1>4. CASE Store(c)
  <2>1. End(c) /\ UNCHANGED <<clock, password>>
    BY <1>4, Zenon DEF Store
  <2>2. codes' \in Seq(Code) /\ Len(codes') >= Len(codes)
    BY <1>4, StoreRows
  <2> QED
    BY <2>1, <2>2, EndTypeOK
<1>5. CASE Reset(c)
  <2>1. Begin(c, "verify") /\ UNCHANGED <<clock, password, codes, now, todo, presented, found>>
    BY <1>5, Zenon DEF Reset
  <2>2. PICK i \in Newest : pending' = [pending EXCEPT ![c] = i]
    BY <1>5, Zenon DEF Reset
  <2>3. "verify" \in Statement /\ i \in 1..Len(codes)
    BY <1>0 DEF Statement, Writing, Newest
  <2>4. pending' \in [Call -> 0..Len(codes)] /\ pending'[c] > 0
    BY <2>2, <2>3
  <2>5. \A d \in Call : at'[d] \in {"verify", "redeem"} => pending'[d] > 0
    BY <2>1, <2>2, <2>3, <2>4, BeginTypeOK
  <2> QED
    BY <2>1, <2>3, <2>4, <2>5, BeginTypeOK
<1>6. CASE Mismatch(c)
  <2>1. End(c) /\ UNCHANGED <<clock, password>>
    BY <1>6, Zenon DEF Mismatch
  <2> QED
    BY <1>6, <2>1, MismatchRows, EndTypeOK
<1>7. CASE Match(c)
  <2>1. GoTo(c, "redeem") /\ found' = found \union {c} /\ at[c] = "verify"
        /\ UNCHANGED <<clock, password, codes, now, todo, pending, presented>>
    BY <1>7, Zenon DEF Match
  <2>2. "redeem" \in Statement
    BY DEF Statement, Writing
  <2> QED
    BY <2>1, <2>2, GoToTypeOK
<1>8. CASE Redeem(c)
  <2>1. End(c) /\ clock' = clock /\ password' \in Password \union {NoPassword}
    BY <1>8 DEF Redeem
  <2>2. codes' \in Seq(Code) /\ Len(codes') = Len(codes)
    BY <1>8, RedeemRows, Zenon
  <2> QED
    BY <1>0, <2>1, <2>2, EndTypeOK
<1>9. CASE Register(c)
  <2>1. Begin(c, "create") /\ UNCHANGED <<clock, password, codes, locals>>
    BY <1>9, Zenon DEF Register
  <2>2. "create" \in Statement
    BY DEF Statement, Writing
  <2> QED
    BY <2>1, <2>2, BeginTypeOK DEF locals
<1>10. CASE Create(c) \/ Change(c) \/ Fail(c)
  <2>1. /\ End(c) /\ clock' = clock /\ codes' = codes
        /\ password' \in Password \union {NoPassword}
    BY <1>10 DEF Create, Change, Fail
  <2> QED
    BY <2>1, <1>0, EndTypeOK
<1>11. CASE ChangePassword(c)
  <2>1. /\ Begin(c, "change") /\ presented' = [presented EXCEPT ![c] = password]
        /\ found' = found \union {c}
        /\ UNCHANGED <<clock, password, codes, now, todo, pending>>
    BY <1>11, Zenon DEF ChangePassword
  <2>2. "change" \in Statement
    BY DEF Statement, Writing
  <2> QED
    BY <2>1, <2>2, BeginTypeOK
<1> QED
  BY <1>1, <1>2, <1>3, <1>4, <1>5, <1>6, <1>7, <1>8, <1>9, <1>10, <1>11, Zenon DEF CallNext

LEMMA StepTypeOK == TypeOK /\ [Next]_vars => TypeOK'
<1> SUFFICES ASSUME TypeOK, [Next]_vars PROVE TypeOK'
  OBVIOUS
<1>1. CASE Tick
  BY <1>1, AccountsAssumption DEF Tick, TypeOK, locals, history
<1>2. CASE AccountGone
  BY <1>2 DEF AccountGone, TypeOK, history
<1>3. ASSUME NEW c \in Call, CallNext(c) PROVE TypeOK'
  BY <1>3, CallTypeOK
<1>4. CASE UNCHANGED vars
  BY <1>4, Zenon DEF vars, TypeOK
<1> QED
  BY <1>1, <1>2, <1>3, <1>4, Zenon DEF Next

(***************************************************************************)
(* Every reachable state of an address is well typed, and a call refers    *)
(* only to rows that are stored.                                           *)
(***************************************************************************)
THEOREM AccountsTypeCorrect == Spec => []TypeOK
  BY InitTypeOK, StepTypeOK, PTL DEF Spec

(***************************************************************************)
(* What a step of a call leaves alone.                                     *)
(***************************************************************************)
LEMMA CodesKept ==
    ASSUME NEW c \in Call, CallNext(c), ~Mismatch(c), ~Redeem(c), ~Store(c)
    PROVE  codes' = codes
  BY Zenon DEF CallNext, Request, PassThrottle, Retire, Reset, Match, Register, Create,
               ChangePassword, Change, Fail

LEMMA OthersKept ==
    ASSUME TypeOK, NEW c \in Call, CallNext(c), NEW d \in Call, d # c
    PROVE  /\ at'[d] = at[d] /\ now'[d] = now[d]
           /\ pending'[d] = pending[d] /\ presented'[d] = presented[d]
<1> USE DEF TypeOK
<1>1. CASE Request(c) \/ Reset(c) \/ Register(c) \/ ChangePassword(c)
  BY <1>1 DEF Request, Reset, Register, ChangePassword, Begin, locals
<1>2. CASE PassThrottle(c) \/ Retire(c) \/ Match(c)
  BY <1>2 DEF PassThrottle, Retire, Match, GoTo, locals
<1>3. CASE Store(c) \/ Mismatch(c) \/ Redeem(c) \/ Create(c) \/ Change(c) \/ Fail(c)
  <2>1. End(c)
    BY <1>3, Zenon DEF Store, Mismatch, Redeem, Create, Change, Fail
  <2> QED
    BY <2>1 DEF End, GoTo
<1> QED
  BY <1>1, <1>2, <1>3, Zenon DEF CallNext

LEMMA RowsOf == TypeOK => Stored = 1..Len(codes) /\ Len(codes) \in Nat
  BY DEF TypeOK, Stored

LEMMA RowTypes ==
    ASSUME TypeOK, NEW i \in Stored
    PROVE  /\ codes[i].createdAt \in Nat /\ codes[i].attempts \in Nat
           /\ codes[i].guesses \in Nat /\ codes[i].used \in Nat
<1>1. codes[i] \in Code
  BY RowsOf DEF TypeOK
<1>2. 0..MaxTime \subseteq Nat
  BY AccountsAssumption
<1> QED
  BY <1>1, <1>2 DEF Code

(***************************************************************************)
(* Codes and passwords.                                                    *)
(***************************************************************************)
LEMMA CallKeepsTogether ==
    ASSUME TypeOK, TypeOK', CodeAndPasswordTogether, NEW c \in Call, CallNext(c)
    PROVE  CodeAndPasswordTogether'
<1> SUFFICES ASSUME NEW i \in 1..Len(codes')
             PROVE  /\ codes'[i].used > 0 => codes'[i].consumed
                    /\ codes'[i].consumed => codes'[i].used > 0 \/ i < Len(codes')
  BY RowsOf DEF CodeAndPasswordTogether, Stored, TypeOK
<1>0. \A j \in 1..Len(codes) :
         /\ codes[j].used \in Nat
         /\ codes[j].used > 0 => codes[j].consumed
         /\ codes[j].consumed => codes[j].used > 0 \/ j < Len(codes)
  BY RowsOf, RowTypes DEF CodeAndPasswordTogether
<1>1. CASE Mismatch(c)
  BY <1>0, <1>1, MismatchRows
<1>2. CASE Redeem(c)
  <2>1. /\ Len(codes') = Len(codes)
        /\ pending[c] \in 1..Len(codes)
        /\ codes'[pending[c]].consumed = TRUE
        /\ codes'[pending[c]].used = codes[pending[c]].used + 1
        /\ \A j \in 1..Len(codes) : j # pending[c] => codes'[j] = codes[j]
    BY <1>2, RedeemRows, Zenon
  <2>2. CASE i = pending[c]
    <3>1. codes'[i].used > 0
      BY <1>0, <2>1, <2>2
    <3> QED
      BY <2>1, <2>2, <3>1
  <2>3. CASE i # pending[c]
    <3>1. i \in 1..Len(codes) /\ codes'[i] = codes[i]
      BY <2>1, <2>3
    <3> QED
      BY <1>0, <2>1, <3>1
  <2> QED
    BY <2>2, <2>3
<1>3. CASE Store(c)
  <2>1. /\ Len(codes') = Len(codes) + 1 /\ Len(codes) \in Nat
        /\ codes'[Len(codes) + 1] = NewCode(c)
        /\ \A j \in 1..Len(codes) :
              /\ codes'[j].consumed <=> (codes[j].consumed \/ j \in todo[c])
              /\ codes'[j].used = codes[j].used
    BY <1>3, StoreRows, RowsOf, Zenon
  <2>2. NewCode(c).used = 0 /\ NewCode(c).consumed = FALSE
    BY DEF NewCode
  <2>3. CASE i = Len(codes) + 1
    BY <2>1, <2>2, <2>3
  <2>4. CASE i # Len(codes) + 1
    <3>1. i \in 1..Len(codes) /\ i < Len(codes')
      BY <2>1, <2>4
    <3> QED
      BY <1>0, <2>1, <3>1
  <2> QED
    BY <2>3, <2>4
<1>4. CASE ~Mismatch(c) /\ ~Redeem(c) /\ ~Store(c)
  <2>1. codes' = codes
    BY <1>4, CodesKept
  <2> QED
    BY <1>0, <2>1
<1> QED
  BY <1>1, <1>2, <1>3, <1>4

LEMMA StepKeepsTogether ==
    TypeOK /\ TypeOK' /\ CodeAndPasswordTogether /\ [Next]_vars
       => CodeAndPasswordTogether'
<1> SUFFICES ASSUME TypeOK, TypeOK', CodeAndPasswordTogether, [Next]_vars
             PROVE  CodeAndPasswordTogether'
  OBVIOUS
<1>1. CASE \E c \in Call : CallNext(c)
  BY <1>1, CallKeepsTogether
<1>2. CASE Tick \/ AccountGone \/ UNCHANGED vars
  <2>1. codes' = codes
    BY <1>2, Zenon DEF Tick, AccountGone, vars
  <2> QED
    BY <2>1, Zenon DEF CodeAndPasswordTogether, Stored
<1> QED
  BY <1>1, <1>2, Zenon DEF Next

(***************************************************************************)
(* A code and the password it sets belong together, however calls overlap  *)
(* and fail (the transaction that ends reset).                             *)
(***************************************************************************)
THEOREM CodesSpentWithPassword == Spec => []CodeAndPasswordTogether
<1>1. Init => CodeAndPasswordTogether
  BY DEF Init, CodeAndPasswordTogether, Stored
<1> QED
  BY <1>1, StepKeepsTogether, AccountsTypeCorrect, PTL DEF Spec

(***************************************************************************)
(* The ceiling on attempts is read before a guess is verified and counted  *)
(* after it, so that the bound on guesses says nothing of a step by        *)
(* itself: it is inductive once the verifications under way are counted    *)
(* with the guesses, and every guess is known to be an attempt.            *)
(***************************************************************************)
Verifying(i) == {c \in Call : at[c] = "verify" /\ pending[c] = i}

GuessesCounted ==
    \A i \in Stored :
       /\ codes[i].guesses = codes[i].attempts
       /\ codes[i].guesses + Cardinality(Verifying(i)) <= MAX_ATTEMPTS + Parallel - 1

LEMMA VerifyingFinite ==
    ASSUME NEW i
    PROVE  /\ IsFiniteSet(Verifying(i)) /\ Cardinality(Verifying(i)) \in Nat
           /\ Parallel \in Nat /\ Cardinality(Verifying(i)) <= Parallel
<1>1. Verifying(i) \in SUBSET Call /\ IsFiniteSet(Call)
  BY AccountsAssumption DEF Verifying
<1> QED
  BY <1>1, FS_Subset, FS_CardinalityType DEF Parallel

LEMMA FewerVerify ==
    ASSUME NEW i, Verifying(i)' \subseteq Verifying(i)
    PROVE  Cardinality(Verifying(i)') <= Cardinality(Verifying(i))
<1>1. Verifying(i)' \in SUBSET Verifying(i)
  OBVIOUS
<1> QED
  BY <1>1, VerifyingFinite, FS_Subset

\* Only a reset begins to verify, and only the row it selected.
LEMMA VerifyingShrinks ==
    ASSUME TypeOK, TypeOK', NEW c \in Call, CallNext(c), NEW i,
           ~Reset(c) \/ pending'[c] # i
    PROVE  Verifying(i)' \subseteq Verifying(i)
<1>1. \A d \in Call : d # c => at'[d] = at[d] /\ pending'[d] = pending[d]
  BY OthersKept
<1>2. ~Reset(c) => at'[c] # "verify"
  <2> USE DEF TypeOK
  <2>1. CASE Request(c) \/ Register(c) \/ ChangePassword(c)
    BY <2>1 DEF Request, Register, ChangePassword, Begin
  <2>2. CASE PassThrottle(c) \/ Retire(c) \/ Match(c)
    BY <2>2 DEF PassThrottle, Retire, Match, GoTo
  <2>3. CASE Store(c) \/ Mismatch(c) \/ Redeem(c) \/ Create(c) \/ Change(c) \/ Fail(c)
    BY <2>3 DEF Store, Mismatch, Redeem, Create, Change, Fail, End, GoTo
  <2> QED
    BY <2>1, <2>2, <2>3 DEF CallNext
<1> QED
  BY <1>1, <1>2 DEF Verifying

LEMMA CallKeepsCounted ==
    ASSUME TypeOK, TypeOK', GuessesCounted, NEW c \in Call, CallNext(c)
    PROVE  GuessesCounted'
<1> DEFINE Bound == MAX_ATTEMPTS + Parallel - 1
<1> SUFFICES ASSUME NEW i \in 1..Len(codes')
             PROVE  /\ codes'[i].guesses = codes'[i].attempts
                    /\ codes'[i].guesses + Cardinality(Verifying(i)') <= Bound
  <2>1. Stored' = 1..Len(codes')
    BY DEF Stored, TypeOK
  <2> QED
    BY <2>1, Zenon DEF GuessesCounted, Verifying, Parallel
<1>0. /\ \A j \in 1..Len(codes) :
           /\ codes[j].guesses \in Nat
           /\ codes[j].guesses = codes[j].attempts
           /\ codes[j].guesses + Cardinality(Verifying(j)) <= Bound
      /\ Len(codes) \in Nat
  BY RowsOf, RowTypes DEF GuessesCounted
<1>a. /\ MAX_ATTEMPTS \in Nat /\ MAX_ATTEMPTS > 0 /\ Parallel \in Nat
      /\ Cardinality(Verifying(i)) \in Nat
      /\ IsFiniteSet(Verifying(i))
  BY AccountsAssumption, VerifyingFinite
<1>b. Cardinality(Verifying(i)') \in Nat /\ Cardinality(Verifying(i)') <= Parallel
  <2>1. Verifying(i)' \in SUBSET Call /\ IsFiniteSet(Call)
    BY AccountsAssumption DEF Verifying
  <2> QED
    BY <2>1, FS_Subset, FS_CardinalityType DEF Parallel
<1>c. ASSUME ~Reset(c) \/ pending'[c] # i
      PROVE  Cardinality(Verifying(i)') <= Cardinality(Verifying(i))
  BY <1>c, VerifyingShrinks, FewerVerify
<1> HIDE DEF Bound
<1>1. CASE Mismatch(c)
  <2>1. /\ Len(codes') = Len(codes)
        /\ pending[c] \in 1..Len(codes)
        /\ codes'[pending[c]].attempts = codes[pending[c]].attempts + 1
        /\ codes'[pending[c]].guesses = codes[pending[c]].guesses + 1
        /\ \A j \in 1..Len(codes) : j # pending[c] => codes'[j] = codes[j]
    BY <1>1, MismatchRows, Zenon
  <2>2. ~Reset(c)
    BY <1>1 DEF Mismatch, Reset, Begin
  <2>3. CASE i = pending[c]
    <3>1. Verifying(i)' \subseteq Verifying(i) \ {c} /\ c \in Verifying(i)
      <4>1. Verifying(i)' \subseteq Verifying(i)
        BY <2>2, VerifyingShrinks
      <4>2. at[c] = "verify" /\ at'[c] = "idle"
        BY <1>1 DEF Mismatch, End, GoTo, TypeOK
      <4> QED
        BY <4>1, <4>2, <2>3 DEF Verifying
    <3>2. /\ IsFiniteSet(Verifying(i) \ {c})
          /\ Cardinality(Verifying(i) \ {c}) = Cardinality(Verifying(i)) - 1
      BY <1>a, <3>1, FS_RemoveElement
    <3>3. Cardinality(Verifying(i)') <= Cardinality(Verifying(i) \ {c})
      <4>1. Verifying(i)' \in SUBSET (Verifying(i) \ {c})
        BY <3>1
      <4> QED
        BY <4>1, <3>2, FS_Subset
    <3> QED
      BY <1>0, <1>a, <1>b, <2>1, <2>3, <3>2, <3>3 DEF Bound
  <2>4. CASE i # pending[c]
    <3>1. i \in 1..Len(codes) /\ codes'[i] = codes[i]
      BY <2>1, <2>4
    <3> QED
      BY <1>0, <1>a, <1>b, <1>c, <2>2, <3>1 DEF Bound
  <2> QED
    BY <2>3, <2>4
<1>2. CASE Redeem(c)
  <2>1. /\ Len(codes') = Len(codes)
        /\ \A j \in 1..Len(codes) : /\ codes'[j].attempts = codes[j].attempts
                                    /\ codes'[j].guesses = codes[j].guesses
    BY <1>2, RedeemRows, Zenon
  <2>2. ~Reset(c)
    BY <1>2 DEF Redeem, Reset, Begin
  <2> QED
    BY <1>0, <1>a, <1>b, <1>c, <2>1, <2>2 DEF Bound
<1>3. CASE Store(c)
  <2>1. /\ Len(codes') = Len(codes) + 1
        /\ codes'[Len(codes) + 1] = NewCode(c)
        /\ \A j \in 1..Len(codes) : /\ codes'[j].attempts = codes[j].attempts
                                    /\ codes'[j].guesses = codes[j].guesses
    BY <1>3, StoreRows, RowsOf, Zenon
  <2>2. ~Reset(c)
    BY <1>3 DEF Store, Reset, Begin
  <2>3. CASE i = Len(codes) + 1
    <3>1. codes'[i].guesses = 0 /\ codes'[i].attempts = 0
      BY <2>1, <2>3 DEF NewCode
    <3>2. Verifying(i) = {}
      BY <1>0, <2>3 DEF Verifying, TypeOK
    <3>3. Cardinality(Verifying(i)) = 0
      BY <3>2, FS_EmptySet
    <3> QED
      BY <1>a, <1>b, <1>c, <2>2, <3>1, <3>3 DEF Bound
  <2>4. CASE i # Len(codes) + 1
    <3>1. i \in 1..Len(codes)
      BY <1>0, <2>1, <2>4
    <3> QED
      BY <1>0, <1>a, <1>b, <1>c, <2>1, <2>2, <3>1 DEF Bound
  <2> QED
    BY <2>3, <2>4
<1>4. CASE ~Mismatch(c) /\ ~Redeem(c) /\ ~Store(c)
  <2>1. codes' = codes
    BY <1>4, CodesKept
  <2>2. CASE Reset(c) /\ pending'[c] = i
    <3>1. codes[i].attempts < MAX_ATTEMPTS
      BY <2>2 DEF Reset, Redeemable, TypeOK
    <3> QED
      BY <1>0, <1>a, <1>b, <2>1, <3>1 DEF Bound
  <2>3. CASE ~Reset(c) \/ pending'[c] # i
    BY <1>0, <1>a, <1>b, <1>c, <2>1, <2>3 DEF Bound
  <2> QED
    BY <2>2, <2>3
<1> QED
  BY <1>1, <1>2, <1>3, <1>4

LEMMA StepKeepsCounted ==
    TypeOK /\ TypeOK' /\ GuessesCounted /\ [Next]_vars => GuessesCounted'
<1> SUFFICES ASSUME TypeOK, TypeOK', GuessesCounted, [Next]_vars
             PROVE  GuessesCounted'
  OBVIOUS
<1>1. CASE \E c \in Call : CallNext(c)
  BY <1>1, CallKeepsCounted
<1>2. CASE Tick \/ AccountGone \/ UNCHANGED vars
  <2>1. codes' = codes /\ at' = at /\ pending' = pending
    BY <1>2, Zenon DEF Tick, AccountGone, vars, locals
  <2>2. \A i : Verifying(i)' = Verifying(i)
    BY <2>1 DEF Verifying
  <2> QED
    BY <2>1, <2>2, Zenon DEF GuessesCounted, Stored, Parallel
<1> QED
  BY <1>1, <1>2, Zenon DEF Next

LEMMA CountedBounds == TypeOK /\ GuessesCounted => GuessesBounded
<1> SUFFICES ASSUME TypeOK, GuessesCounted, NEW i \in Stored
             PROVE  codes[i].guesses <= MAX_ATTEMPTS + Parallel - 1
  BY DEF GuessesBounded
<1>1. /\ codes[i].guesses \in Nat
      /\ codes[i].guesses + Cardinality(Verifying(i)) <= MAX_ATTEMPTS + Parallel - 1
  BY RowTypes DEF GuessesCounted
<1> QED
  BY <1>1, VerifyingFinite, AccountsAssumption

(***************************************************************************)
(* However many calls overlap, a code is compared with at most MAX_ATTEMPTS*)
(* wrong guesses and one for each other call (the ceiling that reset reads *)
(* and the increment it makes after verifying).                            *)
(***************************************************************************)
THEOREM GuessesStayBounded == Spec => []GuessesBounded
<1>1. Init => GuessesCounted
  BY DEF Init, GuessesCounted, Stored
<1> QED
  BY <1>1, StepKeepsCounted, CountedBounds, AccountsTypeCorrect, PTL DEF Spec

(***************************************************************************)
(* What holds while no two calls that write the password overlap. The one  *)
(* that is under way, if any, holds a code that has set nothing yet, or    *)
(* has verified the password that still is the password.                   *)
(***************************************************************************)
SoleWriter ==
    /\ \A c, d \in Call : at[c] \in Writing /\ at[d] \in Writing => c = d
    /\ \A c \in Call : at[c] \in {"verify", "redeem"} => codes[pending[c]].used = 0
    /\ \A c \in Call : at[c] = "change" => password \in {presented[c], NoPassword}
    /\ \A i \in Stored : codes[i].used <= 1

UnlessMet == writersMet \/ SoleWriter

\* A call begins to write only when no other writes, unless that is recorded.
LEMMA WriterBegins ==
    ASSUME TypeOK, NEW c \in Call, CallNext(c), ~writersMet'
    PROVE  /\ ~writersMet
           /\ at'[c] \in Writing =>
                 \/ at[c] \in Writing
                 \/ \A d \in Call : at[d] \notin Writing
<1> USE DEF TypeOK
<1>1. CASE Reset(c) \/ Register(c) \/ ChangePassword(c)
  BY <1>1 DEF Reset, Register, ChangePassword, Begin, Writing
<1>2. CASE Request(c)
  BY <1>2 DEF Request, Begin, Writing
<1>3. CASE PassThrottle(c) \/ Retire(c) \/ Match(c)
  BY <1>3 DEF PassThrottle, Retire, Match, GoTo, history, Writing
<1>4. CASE Store(c) \/ Mismatch(c) \/ Redeem(c) \/ Create(c) \/ Change(c) \/ Fail(c)
  BY <1>4 DEF Store, Mismatch, Redeem, Create, Change, Fail, End, GoTo, history, Writing
<1> QED
  BY <1>1, <1>2, <1>3, <1>4 DEF CallNext

LEMMA OneWriter ==
    ASSUME TypeOK, SoleWriter, NEW c \in Call, CallNext(c), ~writersMet'
    PROVE  \A d, e \in Call : at'[d] \in Writing /\ at'[e] \in Writing => d = e
BY WriterBegins, OthersKept DEF SoleWriter

\* The calls that write the password or spend a code leave no writer behind.
LEMMA WriterEnds ==
    ASSUME TypeOK, SoleWriter, NEW c \in Call, CallNext(c),
           Mismatch(c) \/ Redeem(c) \/ Create(c) \/ Change(c)
    PROVE  \A d \in Call : at'[d] \notin Writing
<1>1. at[c] \in Writing
  BY DEF Mismatch, Redeem, Create, Change, Writing
<1>2. at'[c] = "idle"
  BY DEF Mismatch, Redeem, Create, Change, End, GoTo, TypeOK
<1> QED
  BY <1>1, <1>2, OthersKept DEF SoleWriter, Writing

LEMMA FreshCode ==
    ASSUME TypeOK, TypeOK', SoleWriter, CodeAndPasswordTogether,
           NEW c \in Call, CallNext(c), ~writersMet',
           NEW d \in Call, at'[d] \in {"verify", "redeem"}
    PROVE  codes'[pending'[d]].used = 0
<1>0. at'[d] \in Writing
  BY DEF Writing
<1>1. ~Mismatch(c) /\ ~Redeem(c)
  BY <1>0, WriterEnds
<1>2. CASE d # c
  <2>1. at[d] \in {"verify", "redeem"} /\ pending'[d] = pending[d]
    BY <1>2, OthersKept
  <2>2. codes[pending[d]].used = 0 /\ pending[d] \in 1..Len(codes)
    BY <2>1 DEF SoleWriter, TypeOK
  <2>3. CASE Store(c)
    <3>1. \A j \in 1..Len(codes) : codes'[j].used = codes[j].used
      BY <2>3, StoreRows, Zenon
    <3> QED
      BY <2>1, <2>2, <3>1
  <2>4. CASE ~Store(c)
    BY <1>1, <2>1, <2>2, <2>4, CodesKept
  <2> QED
    BY <2>3, <2>4
<1>3. CASE d = c
  <2>1. Reset(c) \/ Match(c)
    <3> USE DEF TypeOK
    <3>1. ~(Request(c) \/ Register(c) \/ ChangePassword(c))
      BY <1>3 DEF Request, Register, ChangePassword, Begin
    <3>2. ~(PassThrottle(c) \/ Retire(c))
      BY <1>3 DEF PassThrottle, Retire, GoTo
    <3>3. ~(Store(c) \/ Create(c) \/ Change(c) \/ Fail(c))
      BY <1>3 DEF Store, Create, Change, Fail, End, GoTo
    <3> QED
      BY <1>1, <3>1, <3>2, <3>3 DEF CallNext
  <2>2. CASE Reset(c)
    <3>1. PICK i \in Stored : codes[i].consumed # TRUE /\ pending'[c] = i
      BY <2>2 DEF Reset, Redeemable, Newest, TypeOK
    <3>2. codes[i].used \in Nat
      BY RowTypes
    <3>3. ~(codes[i].used > 0)
      BY <3>1 DEF CodeAndPasswordTogether
    <3>4. codes' = codes
      BY <2>2 DEF Reset
    <3> QED
      BY <1>3, <3>1, <3>2, <3>3, <3>4
  <2>3. CASE Match(c)
    BY <1>3, <2>3 DEF Match, SoleWriter
  <2> QED
    BY <2>1, <2>2, <2>3
<1> QED
  BY <1>2, <1>3

LEMMA StillEarned ==
    ASSUME TypeOK, SoleWriter, NEW c \in Call, CallNext(c), ~writersMet',
           NEW d \in Call, at'[d] = "change"
    PROVE  password' \in {presented'[d], NoPassword}
<1>0. at'[d] \in Writing
  BY DEF Writing
<1>1. ~Redeem(c) /\ ~Create(c) /\ ~Change(c)
  BY <1>0, WriterEnds
<1>2. password' = password
  BY <1>1, Zenon DEF CallNext, Request, PassThrottle, Retire, Store, Reset, Mismatch, Match,
                     Register, ChangePassword, Fail
<1>3. CASE d # c
  <2>1. at[d] = "change" /\ presented'[d] = presented[d]
    BY <1>3, OthersKept
  <2> QED
    BY <1>2, <2>1 DEF SoleWriter
<1>4. CASE d = c
  <2> USE DEF TypeOK
  <2>1. ~(Request(c) \/ Register(c) \/ Reset(c))
    BY <1>4 DEF Request, Register, Reset, Begin
  <2>2. ~(PassThrottle(c) \/ Retire(c) \/ Match(c))
    BY <1>4 DEF PassThrottle, Retire, Match, GoTo
  <2>3. ~(Store(c) \/ Mismatch(c) \/ Fail(c))
    BY <1>4 DEF Store, Mismatch, Fail, End, GoTo
  <2>4. ChangePassword(c)
    BY <1>1, <2>1, <2>2, <2>3 DEF CallNext
  <2> QED
    BY <1>2, <1>4, <2>4 DEF ChangePassword
<1> QED
  BY <1>3, <1>4

LEMMA StillOnce ==
    ASSUME TypeOK, TypeOK', SoleWriter, NEW c \in Call, CallNext(c),
           NEW i \in 1..Len(codes')
    PROVE  codes'[i].used <= 1
<1>0. \A j \in 1..Len(codes) : codes[j].used <= 1
  BY RowsOf DEF SoleWriter
<1>1. CASE Mismatch(c)
  <2>1. /\ Len(codes') = Len(codes) /\ pending[c] \in 1..Len(codes)
        /\ codes'[pending[c]].used = codes[pending[c]].used
        /\ \A j \in 1..Len(codes) : j # pending[c] => codes'[j] = codes[j]
    BY <1>1, MismatchRows, Zenon
  <2> QED
    BY <1>0, <2>1
<1>2. CASE Redeem(c)
  <2>1. /\ Len(codes') = Len(codes) /\ pending[c] \in 1..Len(codes)
        /\ codes'[pending[c]].used = codes[pending[c]].used + 1
        /\ \A j \in 1..Len(codes) : j # pending[c] => codes'[j] = codes[j]
    BY <1>2, RedeemRows, Zenon
  <2>2. codes[pending[c]].used = 0
    BY <1>2 DEF Redeem, SoleWriter
  <2>3. CASE i = pending[c]
    BY <2>1, <2>2, <2>3
  <2>4. CASE i # pending[c]
    BY <1>0, <2>1, <2>4
  <2> QED
    BY <2>3, <2>4
<1>3. CASE Store(c)
  <2>1. /\ Len(codes') = Len(codes) + 1 /\ Len(codes) \in Nat
        /\ codes'[Len(codes) + 1] = NewCode(c)
        /\ \A j \in 1..Len(codes) : codes'[j].used = codes[j].used
    BY <1>3, StoreRows, RowsOf, Zenon
  <2>2. CASE i = Len(codes) + 1
    BY <2>1, <2>2 DEF NewCode
  <2>3. CASE i # Len(codes) + 1
    <3>1. i \in 1..Len(codes)
      BY <2>1, <2>3
    <3> QED
      BY <1>0, <2>1, <3>1
  <2> QED
    BY <2>2, <2>3
<1>4. CASE ~Mismatch(c) /\ ~Redeem(c) /\ ~Store(c)
  BY <1>0, <1>4, CodesKept
<1> QED
  BY <1>1, <1>2, <1>3, <1>4

LEMMA StepKeepsSole ==
    TypeOK /\ TypeOK' /\ CodeAndPasswordTogether /\ UnlessMet /\ [Next]_vars
       => UnlessMet'
<1> SUFFICES ASSUME TypeOK, TypeOK', CodeAndPasswordTogether, UnlessMet, [Next]_vars
             PROVE  UnlessMet'
  OBVIOUS
<1> SUFFICES ASSUME ~writersMet' PROVE SoleWriter'
  BY DEF UnlessMet
<1>1. ASSUME NEW c \in Call, CallNext(c) PROVE SoleWriter'
  <2>1. SoleWriter
    BY <1>1, WriterBegins DEF UnlessMet
  <2>2. \A d, e \in Call : at'[d] \in Writing /\ at'[e] \in Writing => d = e
    BY <1>1, <2>1, OneWriter
  <2>3. \A d \in Call : at'[d] \in {"verify", "redeem"} => codes'[pending'[d]].used = 0
    BY <1>1, <2>1, FreshCode
  <2>4. \A d \in Call : at'[d] = "change" => password' \in {presented'[d], NoPassword}
    BY <1>1, <2>1, StillEarned
  <2>5. \A i \in Stored' : codes'[i].used <= 1
    <3>1. Stored' = 1..Len(codes')
      BY DEF Stored, TypeOK
    <3> QED
      BY <1>1, <2>1, <3>1, StillOnce
  <2> QED
    BY <2>2, <2>3, <2>4, <2>5, Zenon DEF SoleWriter, Writing
<1>2. CASE Tick \/ UNCHANGED vars
  <2>1. /\ codes' = codes /\ at' = at /\ pending' = pending /\ password' = password
        /\ presented' = presented /\ writersMet' = writersMet
    BY <1>2, Zenon DEF Tick, vars, locals, history
  <2> QED
    BY <2>1, Zenon DEF UnlessMet, SoleWriter, Stored, Writing
<1>3. CASE AccountGone
  <2>1. /\ codes' = codes /\ at' = at /\ pending' = pending /\ password' = NoPassword
        /\ presented' = presented /\ writersMet' = writersMet
    BY <1>3, Zenon DEF AccountGone, history
  <2>2. SoleWriter
    BY <2>1 DEF UnlessMet
  <2> QED
    BY <2>1, <2>2 DEF SoleWriter, Stored, Writing
<1> QED
  BY <1>1, <1>2, <1>3, Zenon DEF Next

LEMMA SoleFromInit == Init => UnlessMet
<1> SUFFICES ASSUME Init PROVE SoleWriter
  BY DEF UnlessMet
<1>1. \A c \in Call : at[c] = "idle"
  BY DEF Init
<1>2. Stored = {}
  BY DEF Init, Stored
<1> QED
  BY <1>1, <1>2 DEF SoleWriter, Writing

(***************************************************************************)
(* A code sets at most one password, whatever else overlaps, as long as no *)
(* two calls that write the password do (the row that reset selects, and   *)
(* the transaction that consumes it without a further condition).          *)
(***************************************************************************)
THEOREM CodesUsedOnce == Spec => []CodeUsedOnce
<1>1. UnlessMet => CodeUsedOnce
  BY Zenon DEF UnlessMet, SoleWriter, CodeUsedOnce
<1> QED
  BY <1>1, SoleFromInit, StepKeepsSole, CodesSpentWithPassword, AccountsTypeCorrect, PTL
  DEF Spec

(***************************************************************************)
(* And a change of password still replaces the one that was verified (the  *)
(* UPDATE of changePassword, which is by the id of the row alone).         *)
(***************************************************************************)
THEOREM ChangesAreEarned == Spec => []ChangeIsEarned
<1>1. UnlessMet => ChangeIsEarned
  BY Zenon DEF UnlessMet, SoleWriter, ChangeIsEarned
<1> QED
  BY <1>1, SoleFromInit, StepKeepsSole, CodesSpentWithPassword, AccountsTypeCorrect, PTL
  DEF Spec

(***************************************************************************)
(* The quota is read long before the code is stored. The codes of a window *)
(* are counted with the requests that have passed the throttle and will    *)
(* store one more in it.                                                   *)
(***************************************************************************)
Within(time, instant) == time > instant - REQUEST_WINDOW /\ time <= instant
SentIn(instant)       == {i \in Stored : Within(codes[i].createdAt, instant)}
Coming(instant)       == {c \in Call : at[c] \in {"retire", "store"}
                                       /\ Within(now[c], instant)}

Quota == MAX_REQUESTS_PER_WINDOW + Parallel - 1

RequestsCounted ==
    \A instant \in 0..MaxTime :
       Cardinality(SentIn(instant)) + Cardinality(Coming(instant)) <= Quota

LEMMA CountsFinite ==
    ASSUME TypeOK, NEW x
    PROVE  /\ IsFiniteSet(Stored)
           /\ IsFiniteSet(SentIn(x)) /\ Cardinality(SentIn(x)) \in Nat
           /\ IsFiniteSet(Coming(x)) /\ Cardinality(Coming(x)) \in Nat
           /\ Parallel \in Nat /\ Cardinality(Coming(x)) <= Parallel
           /\ MAX_REQUESTS_PER_WINDOW \in Nat /\ REQUEST_WINDOW \in Nat /\ MaxTime \in Nat
<1>1. IsFiniteSet(Stored)
  BY RowsOf, FS_Interval
<1>2. SentIn(x) \in SUBSET Stored /\ Coming(x) \in SUBSET Call /\ IsFiniteSet(Call)
  BY AccountsAssumption DEF SentIn, Coming
<1>3. MAX_REQUESTS_PER_WINDOW \in Nat /\ REQUEST_WINDOW \in Nat /\ MaxTime \in Nat
  BY AccountsAssumption
<1> QED
  BY <1>1, <1>2, <1>3, FS_Subset, FS_CardinalityType DEF Parallel

LEMMA FewerComing ==
    ASSUME TypeOK, NEW x, Coming(x)' \subseteq Coming(x)
    PROVE  Cardinality(Coming(x)') <= Cardinality(Coming(x))
<1>1. Coming(x)' \in SUBSET Coming(x)
  OBVIOUS
<1> QED
  BY <1>1, CountsFinite, FS_Subset

\* Only the throttle lets a request through.
LEMMA ComingShrinks ==
    ASSUME TypeOK, TypeOK', NEW c \in Call, CallNext(c), NEW x, ~PassThrottle(c)
    PROVE  Coming(x)' \subseteq Coming(x)
<1>1. \A d \in Call : d # c => at'[d] = at[d] /\ now'[d] = now[d]
  BY OthersKept
<1>2. at'[c] \in {"retire", "store"} => at[c] = "retire" /\ now'[c] = now[c]
  <2> USE DEF TypeOK
  <2>1. CASE Request(c) \/ Reset(c) \/ Register(c) \/ ChangePassword(c)
    BY <2>1 DEF Request, Reset, Register, ChangePassword, Begin
  <2>2. CASE Retire(c) \/ Match(c)
    BY <2>2 DEF Retire, Match, GoTo
  <2>3. CASE Store(c) \/ Mismatch(c) \/ Redeem(c) \/ Create(c) \/ Change(c) \/ Fail(c)
    BY <2>3 DEF Store, Mismatch, Redeem, Create, Change, Fail, End, GoTo
  <2> QED
    BY <2>1, <2>2, <2>3 DEF CallNext
<1> QED
  BY <1>1, <1>2 DEF Coming, Within

\* A row is dated when it is stored, and never again.
LEMMA RowsDated ==
    ASSUME TypeOK, TypeOK', NEW c \in Call, CallNext(c), ~Store(c)
    PROVE  /\ Stored' = Stored
           /\ \A i \in Stored : codes'[i].createdAt = codes[i].createdAt
<1>0. Stored = 1..Len(codes) /\ Stored' = 1..Len(codes')
  BY DEF Stored, TypeOK
<1>1. CASE Mismatch(c)
  <2>1. /\ Len(codes') = Len(codes) /\ pending[c] \in 1..Len(codes)
        /\ codes'[pending[c]].createdAt = codes[pending[c]].createdAt
        /\ \A j \in 1..Len(codes) : j # pending[c] => codes'[j] = codes[j]
    BY <1>1, MismatchRows, Zenon
  <2> QED
    BY <1>0, <2>1
<1>2. CASE Redeem(c)
  <2>1. /\ Len(codes') = Len(codes) /\ pending[c] \in 1..Len(codes)
        /\ codes'[pending[c]].createdAt = codes[pending[c]].createdAt
        /\ \A j \in 1..Len(codes) : j # pending[c] => codes'[j] = codes[j]
    BY <1>2, RedeemRows, Zenon
  <2> QED
    BY <1>0, <2>1
<1>3. CASE ~Mismatch(c) /\ ~Redeem(c)
  BY <1>3, CodesKept, Zenon DEF Stored
<1> QED
  BY <1>1, <1>2, <1>3

LEMMA StoreDates ==
    ASSUME TypeOK, NEW c \in Call, Store(c)
    PROVE  /\ Stored' = Stored \union {Len(codes) + 1}
           /\ codes'[Len(codes) + 1].createdAt = now[c]
           /\ \A i \in Stored : codes'[i].createdAt = codes[i].createdAt
<1>1. /\ Stored = 1..Len(codes) /\ Len(codes) \in Nat /\ codes \in Seq(Code)
      /\ codes' \in Seq(Code) /\ Len(codes') = Len(codes) + 1
      /\ codes'[Len(codes) + 1] = NewCode(c)
  BY RowsOf, StoreRows, Zenon DEF TypeOK
<1>2. \A i \in Stored : codes'[i].createdAt = codes[i].createdAt
  BY <1>1, StoreRows, Zenon
<1>3. Stored' = Stored \union {Len(codes) + 1}
  BY <1>1 DEF Stored
<1> QED
  BY <1>1, <1>2, <1>3 DEF NewCode

LEMMA CallKeepsRequests ==
    ASSUME TypeOK, TypeOK', RequestsCounted, NEW c \in Call, CallNext(c),
           NEW x \in 0..MaxTime
    PROVE  Cardinality(SentIn(x)') + Cardinality(Coming(x)') <= Quota
<1>0. Cardinality(SentIn(x)) + Cardinality(Coming(x)) <= Quota
  BY DEF RequestsCounted
<1>a. /\ IsFiniteSet(Stored) /\ IsFiniteSet(SentIn(x)) /\ IsFiniteSet(Coming(x))
      /\ Cardinality(SentIn(x)) \in Nat /\ Cardinality(Coming(x)) \in Nat
      /\ Parallel \in Nat /\ MAX_REQUESTS_PER_WINDOW \in Nat
      /\ REQUEST_WINDOW \in Nat /\ MaxTime \in Nat
  BY CountsFinite, Zenon
<1>b. Cardinality(Coming(x)') \in Nat /\ Cardinality(Coming(x)') <= Parallel
  <2>1. Coming(x)' \in SUBSET Call /\ IsFiniteSet(Call)
    BY AccountsAssumption DEF Coming
  <2> QED
    BY <2>1, FS_Subset, FS_CardinalityType DEF Parallel
<1>1. CASE Store(c)
  <2>1. SentIn(x)' \subseteq IF Within(now[c], x) THEN SentIn(x) \union {Len(codes) + 1}
                                                  ELSE SentIn(x)
    BY <1>1, StoreDates DEF SentIn, Within
  <2>2. Coming(x)' \subseteq Coming(x)
    <3>1. ~PassThrottle(c)
      BY <1>1 DEF Store, PassThrottle
    <3> QED
      BY <3>1, ComingShrinks
  <2>3. CASE Within(now[c], x)
    <3>1. c \in Coming(x) /\ c \notin Coming(x)'
      BY <1>1, <2>3 DEF Store, End, GoTo, Coming, TypeOK
    <3>2. Coming(x)' \in SUBSET (Coming(x) \ {c})
      BY <2>2, <3>1
    <3>3. /\ IsFiniteSet(Coming(x) \ {c})
          /\ Cardinality(Coming(x) \ {c}) = Cardinality(Coming(x)) - 1
      BY <1>a, <3>1, FS_RemoveElement
    <3>4. Cardinality(Coming(x)') <= Cardinality(Coming(x)) - 1
      BY <3>2, <3>3, FS_Subset
    <3>5. /\ IsFiniteSet(SentIn(x) \union {Len(codes) + 1})
          /\ Cardinality(SentIn(x) \union {Len(codes) + 1}) <= Cardinality(SentIn(x)) + 1
      <4> DEFINE S == SentIn(x)
                 n == Len(codes) + 1
      <4> HIDE DEF S, n
      <4>1. IsFiniteSet(S) /\ Cardinality(S) \in Nat
        BY <1>a DEF S
      <4>2. /\ IsFiniteSet(S \union {n})
            /\ Cardinality(S \union {n}) = IF n \in S THEN Cardinality(S)
                                                     ELSE Cardinality(S) + 1
        BY <4>1, FS_AddElement, Zenon
      <4>3. Cardinality(S \union {n}) <= Cardinality(S) + 1
        BY <4>1, <4>2
      <4> QED
        BY <4>2, <4>3 DEF S, n
    <3>6. SentIn(x)' \in SUBSET (SentIn(x) \union {Len(codes) + 1})
      BY <2>1, <2>3
    <3>7. /\ IsFiniteSet(SentIn(x)')
          /\ Cardinality(SentIn(x)') <= Cardinality(SentIn(x) \union {Len(codes) + 1})
          /\ Cardinality(SentIn(x) \union {Len(codes) + 1}) \in Nat
      BY <3>5, <3>6, FS_Subset, FS_CardinalityType
    <3>8. Cardinality(SentIn(x)') \in Nat
      BY <3>7, FS_CardinalityType
    <3> QED
      BY <1>0, <1>a, <1>b, <3>4, <3>5, <3>7, <3>8 DEF Quota
  <2>4. CASE ~Within(now[c], x)
    <3>1. SentIn(x)' \in SUBSET SentIn(x)
      BY <2>1, <2>4
    <3>2. IsFiniteSet(SentIn(x)') /\ Cardinality(SentIn(x)') <= Cardinality(SentIn(x))
      BY <1>a, <3>1, FS_Subset
    <3>3. Cardinality(SentIn(x)') \in Nat
      BY <3>2, FS_CardinalityType
    <3>4. Cardinality(Coming(x)') <= Cardinality(Coming(x))
      BY <2>2, FewerComing
    <3> QED
      BY <1>0, <1>a, <1>b, <3>2, <3>3, <3>4 DEF Quota
  <2> QED
    BY <2>3, <2>4
<1>2. CASE ~Store(c)
  <2>1. SentIn(x)' = SentIn(x)
    BY <1>2, RowsDated DEF SentIn
  <2>2. CASE ~PassThrottle(c)
    <3>1. Cardinality(Coming(x)') <= Cardinality(Coming(x))
      BY <2>2, ComingShrinks, FewerComing
    <3> QED
      BY <1>0, <1>a, <1>b, <2>1, <3>1 DEF Quota
  <2>3. CASE PassThrottle(c) /\ ~Within(now[c], x)
    <3>1. Coming(x)' \subseteq Coming(x)
      <4>1. now' = now /\ at' = [at EXCEPT ![c] = "retire"]
        BY <2>3 DEF PassThrottle, GoTo, locals
      <4> QED
        BY <2>3, <4>1 DEF Coming, TypeOK
    <3>2. Cardinality(Coming(x)') <= Cardinality(Coming(x))
      BY <3>1, FewerComing
    <3> QED
      BY <1>0, <1>a, <1>b, <2>1, <3>2 DEF Quota
  <2>4. CASE PassThrottle(c) /\ Within(now[c], x)
    <3>1. Recent(now[c]) \in SUBSET Stored
      BY DEF Recent
    <3>2. IsFiniteSet(Recent(now[c])) /\ Cardinality(Recent(now[c])) \in Nat
      BY <1>a, <3>1, FS_Subset, FS_CardinalityType
    <3>3. Cardinality(Recent(now[c])) < MAX_REQUESTS_PER_WINDOW
      BY <1>a, <2>4, <3>2 DEF PassThrottle, Throttled
    <3>4. SentIn(x) \in SUBSET Recent(now[c])
      <4>1. now[c] \in Nat /\ x \in Nat
        BY DEF TypeOK
      <4>2. \A i \in Stored : codes[i].createdAt \in Nat
        BY RowTypes
      <4> QED
        BY <1>a, <2>4, <4>1, <4>2 DEF SentIn, Recent, Within
    <3>5. Cardinality(SentIn(x)) <= Cardinality(Recent(now[c]))
      BY <3>2, <3>4, FS_Subset
    <3> QED
      BY <1>a, <1>b, <2>1, <3>2, <3>3, <3>5 DEF Quota
  <2> QED
    BY <2>2, <2>3, <2>4
<1> QED
  BY <1>1, <1>2

LEMMA StepKeepsRequests ==
    TypeOK /\ TypeOK' /\ RequestsCounted /\ [Next]_vars => RequestsCounted'
<1> SUFFICES ASSUME TypeOK, TypeOK', RequestsCounted, [Next]_vars,
                    NEW x \in 0..MaxTime
             PROVE  Cardinality(SentIn(x)') + Cardinality(Coming(x)') <= Quota
  BY Zenon DEF RequestsCounted, SentIn, Coming, Quota, Parallel
<1>1. CASE \E c \in Call : CallNext(c)
  BY <1>1, CallKeepsRequests
<1>2. CASE Tick \/ AccountGone \/ UNCHANGED vars
  <2>1. codes' = codes /\ at' = at /\ now' = now
    BY <1>2, Zenon DEF Tick, AccountGone, vars, locals
  <2>2. SentIn(x)' = SentIn(x) /\ Coming(x)' = Coming(x)
    BY <2>1 DEF SentIn, Coming, Stored
  <2> QED
    BY <2>2 DEF RequestsCounted
<1> QED
  BY <1>1, <1>2, Zenon DEF Next

LEMMA RequestsFromInit == Init => RequestsCounted
<1> SUFFICES ASSUME Init, NEW x \in 0..MaxTime
             PROVE  Cardinality(SentIn(x)) + Cardinality(Coming(x)) <= Quota
  BY DEF RequestsCounted
<1>1. SentIn(x) = {} /\ Coming(x) = {}
  BY DEF Init, SentIn, Coming, Stored
<1>2. Cardinality(SentIn(x)) = 0 /\ Cardinality(Coming(x)) = 0
  BY <1>1, FS_EmptySet
<1>3. MAX_REQUESTS_PER_WINDOW \in Nat \ {0} /\ Parallel \in Nat
  BY AccountsAssumption, FS_CardinalityType DEF Parallel
<1> QED
  BY <1>2, <1>3 DEF Quota

LEMMA CountedHolds == TypeOK /\ RequestsCounted => QuotaHolds
<1> SUFFICES ASSUME TypeOK, RequestsCounted, NEW x \in 0..MaxTime
             PROVE  Cardinality(SentIn(x)) <= Quota
  BY Zenon DEF QuotaHolds, SentIn, Within, Quota
<1>1. Cardinality(SentIn(x)) + Cardinality(Coming(x)) <= Quota
  BY DEF RequestsCounted
<1> QED
  BY <1>1, CountsFinite DEF Quota

(***************************************************************************)
(* However many requests overlap, no window holds more codes than the      *)
(* quota and one for each other call (assertNotThrottled, and the INSERT   *)
(* that the slow hash keeps apart from it).                                *)
(***************************************************************************)
THEOREM QuotaStaysBounded == Spec => []QuotaHolds
BY RequestsFromInit, StepKeepsRequests, CountedHolds, AccountsTypeCorrect, PTL DEF Spec

(***************************************************************************)
(* The codes that are live. Each was stored by some call, and no two by    *)
(* the same one: a call that stores another has found the first one live,  *)
(* and retires it. Which call it was is not recorded, so the invariant     *)
(* says that there is such an assignment.                                  *)
(***************************************************************************)
Owns(f) ==
    /\ f \in Injection(Live, Call)
    /\ \A c \in Call : at[c] = "store" => \A i \in Live : f[i] = c => i \in todo[c]

LiveOwned == \E f : Owns(f)

\* Only Retire notes rows to retire.
LEMMA RetireNotes ==
    ASSUME TypeOK, NEW c \in Call, CallNext(c)
    PROVE  /\ \A d \in Call : d # c => todo'[d] = todo[d]
           /\ at'[c] = "store" => Retire(c)
           /\ at'[c] = "retire" => PassThrottle(c)
<1> USE DEF TypeOK
<1>1. CASE Request(c) \/ Reset(c) \/ Register(c) \/ ChangePassword(c)
  BY <1>1 DEF Request, Reset, Register, ChangePassword, Begin, locals
<1>2. CASE PassThrottle(c) \/ Match(c)
  BY <1>2 DEF PassThrottle, Match, GoTo, locals
<1>3. CASE Retire(c)
  BY <1>3 DEF Retire, GoTo
<1>4. CASE Store(c) \/ Mismatch(c) \/ Redeem(c) \/ Create(c) \/ Change(c) \/ Fail(c)
  <2>1. End(c)
    BY <1>4, Zenon DEF Store, Mismatch, Redeem, Create, Change, Fail
  <2> QED
    BY <2>1 DEF End, GoTo
<1> QED
  BY <1>1, <1>2, <1>3, <1>4, Zenon DEF CallNext

\* A code goes live when it is stored, and never again.
LEMMA LiveAfter ==
    ASSUME TypeOK, TypeOK', NEW c \in Call, CallNext(c)
    PROVE  /\ Store(c)  => Live' = (Live \ todo[c]) \union {Len(codes) + 1}
           /\ ~Store(c) => Live' \subseteq Live
<1>0. /\ Stored = 1..Len(codes) /\ Len(codes) \in Nat
      /\ Stored' = 1..Len(codes') /\ Len(codes') \in Nat
  BY DEF TypeOK, Stored
<1>1. CASE Store(c)
  <2>1. /\ Len(codes') = Len(codes) + 1
        /\ codes'[Len(codes) + 1] = NewCode(c)
        /\ \A i \in 1..Len(codes) :
              codes'[i].consumed <=> (codes[i].consumed \/ i \in todo[c])
    BY <1>1, StoreRows, Zenon
  <2>2. codes'[Len(codes) + 1].consumed = FALSE
    BY <2>1 DEF NewCode
  <2>3. \A i : i \in Live' <=> i \in (Live \ todo[c]) \union {Len(codes) + 1}
    <3>1. \A i : i \in Stored' <=> i \in Stored \/ i = Len(codes) + 1
      BY <1>0, <2>1
    <3>2. Len(codes) + 1 \notin Stored
      BY <1>0
    <3> QED
      BY <1>0, <2>1, <2>2, <3>1, <3>2, Zenon DEF Live
  <2> QED
    BY <1>1, <2>3
<1>2. CASE Mismatch(c)
  <2>1. /\ Len(codes') = Len(codes) /\ pending[c] \in 1..Len(codes)
        /\ codes'[pending[c]].consumed = codes[pending[c]].consumed
        /\ \A j \in 1..Len(codes) : j # pending[c] => codes'[j] = codes[j]
    BY <1>2, MismatchRows, Zenon
  <2>2. ~Store(c)
    BY <1>2 DEF Mismatch, Store
  <2> QED
    BY <1>0, <2>1, <2>2, Zenon DEF Live
<1>3. CASE Redeem(c)
  <2>1. /\ Len(codes') = Len(codes) /\ pending[c] \in 1..Len(codes)
        /\ codes'[pending[c]].consumed = TRUE
        /\ \A j \in 1..Len(codes) : j # pending[c] => codes'[j] = codes[j]
    BY <1>3, RedeemRows, Zenon
  <2>2. ~Store(c)
    BY <1>3 DEF Redeem, Store
  <2> QED
    BY <1>0, <2>1, <2>2, Zenon DEF Live
<1>4. CASE ~Mismatch(c) /\ ~Redeem(c) /\ ~Store(c)
  BY <1>4, CodesKept, Zenon DEF Live, Stored
<1> QED
  BY <1>1, <1>2, <1>3, <1>4

LEMMA CallKeepsOwned ==
    ASSUME TypeOK, TypeOK', LiveOwned, NEW c \in Call, CallNext(c)
    PROVE  LiveOwned'
<1>1. PICK f : Owns(f)
  BY DEF LiveOwned
<1>2. /\ f \in [Live -> Call]
      /\ \A i, j \in Live : f[i] = f[j] => i = j
  BY <1>1 DEF Owns, Injection, IsInjective
<1>3. CASE Store(c)
  <2> DEFINE n == Len(codes) + 1
             g == [i \in Live' |-> IF i = n THEN c ELSE f[i]]
  <2>1. Live' = (Live \ todo[c]) \union {n}
    BY <1>3, LiveAfter
  <2>2. \A i \in Live : i # n
    BY RowsOf DEF Live
  <2>3. \A i \in Live' : i # n => i \in Live /\ f[i] # c
    BY <1>1, <1>3, <2>1 DEF Owns, Store
  <2>4. n \in Live'
    BY <2>1
  <2> HIDE DEF n
  <2>5. g \in [Live' -> Call]
    BY <1>2, <2>3
  <2>6. \A i, j \in Live' : g[i] = g[j] => i = j
    BY <1>2, <2>3
  <2>7. ASSUME NEW d \in Call, at'[d] = "store", NEW i \in Live', g[i] = d
        PROVE  i \in todo'[d]
    <3>1. d # c
      BY <1>3, <2>7 DEF Store, End, GoTo, TypeOK
    <3>2. at[d] = "store" /\ todo'[d] = todo[d]
      BY <2>7, <3>1, OthersKept, RetireNotes
    <3>3. i # n
      BY <2>7, <3>1
    <3>4. i \in Live /\ f[i] = d
      BY <2>3, <2>7, <3>3
    <3> QED
      BY <1>1, <3>2, <3>4 DEF Owns
  <2> HIDE DEF g
  <2>8. PICK h : h = g
    OBVIOUS
  <2>9. h \in Injection(Live', Call)
    BY <2>5, <2>6, <2>8 DEF Injection, IsInjective
  <2>10. Owns(h)'
    BY <2>7, <2>8, <2>9, Zenon DEF Owns
  <2> QED
    BY <2>10 DEF LiveOwned
<1>4. CASE ~Store(c)
  <2> DEFINE g == [i \in Live' |-> f[i]]
  <2>1. Live' \subseteq Live
    BY <1>4, LiveAfter
  <2>2. g \in [Live' -> Call] /\ \A i, j \in Live' : g[i] = g[j] => i = j
    BY <1>2, <2>1
  <2>3. ASSUME NEW d \in Call, at'[d] = "store", NEW i \in Live', g[i] = d
        PROVE  i \in todo'[d]
    <3>1. i \in Live /\ f[i] = d
      BY <2>1, <2>3
    <3>2. CASE d # c
      <4>1. at[d] = "store" /\ todo'[d] = todo[d]
        BY <2>3, <3>2, OthersKept, RetireNotes
      <4> QED
        BY <1>1, <3>1, <4>1 DEF Owns
    <3>3. CASE d = c
      <4>1. Retire(c)
        BY <2>3, <3>3, RetireNotes
      <4>2. todo'[c] = Live
        BY <4>1 DEF Retire, TypeOK
      <4> QED
        BY <3>1, <3>3, <4>2
    <3> QED
      BY <3>2, <3>3
  <2> HIDE DEF g
  <2>4. PICK h : h = g
    OBVIOUS
  <2>5. h \in Injection(Live', Call)
    BY <2>2, <2>4 DEF Injection, IsInjective
  <2>6. Owns(h)'
    BY <2>3, <2>4, <2>5, Zenon DEF Owns
  <2> QED
    BY <2>6 DEF LiveOwned
<1> QED
  BY <1>3, <1>4

LEMMA StepKeepsOwned ==
    TypeOK /\ TypeOK' /\ LiveOwned /\ [Next]_vars => LiveOwned'
<1> SUFFICES ASSUME TypeOK, TypeOK', LiveOwned, [Next]_vars
             PROVE  LiveOwned'
  OBVIOUS
<1>1. CASE \E c \in Call : CallNext(c)
  BY <1>1, CallKeepsOwned
<1>2. CASE Tick \/ AccountGone \/ UNCHANGED vars
  <2>1. codes' = codes /\ at' = at /\ todo' = todo
    BY <1>2, Zenon DEF Tick, AccountGone, vars, locals
  <2>2. Live' = Live
    BY <2>1 DEF Live, Stored
  <2> QED
    BY <2>1, <2>2, Zenon DEF LiveOwned, Owns
<1> QED
  BY <1>1, <1>2, Zenon DEF Next

LEMMA OwnedFromInit == Init => LiveOwned
<1> SUFFICES ASSUME Init PROVE LiveOwned
  OBVIOUS
<1>1. Live = {}
  BY DEF Init, Live, Stored
<1>2. [i \in Live |-> CHOOSE c \in Call : TRUE] \in Injection(Live, Call)
  BY <1>1 DEF Injection, IsInjective
<1>3. Owns([i \in Live |-> CHOOSE c \in Call : TRUE])
  BY <1>1, <1>2 DEF Owns
<1> QED
  BY <1>3 DEF LiveOwned

LEMMA OwnedAreFew == LiveOwned => Cardinality(Live) <= Parallel
  BY AccountsAssumption, FS_Injection DEF LiveOwned, Owns, Parallel

(***************************************************************************)
(* What holds while no two requests overlap: the one that has passed the   *)
(* throttle is later than every code that is stored, the cooldown being at *)
(* least one, and the one that is about to store has found all that are    *)
(* live.                                                                   *)
(***************************************************************************)
SoleRequest ==
    /\ \A c, d \in Call : at[c] \in Requesting /\ at[d] \in Requesting => c = d
    /\ \A c \in Call : at[c] \in {"retire", "store"} =>
          \A i \in Stored : codes[i].createdAt < now[c]
    /\ \A c \in Call : at[c] = "store" => Live \subseteq todo[c]
    /\ \A i \in Stored : i < Len(codes) =>
          i \notin Live /\ codes[i].createdAt < codes[Len(codes)].createdAt

UnlessRequested == requestsMet \/ SoleRequest

\* A request begins only when no other is under way, unless that is recorded.
LEMMA RequestBegins ==
    ASSUME TypeOK, NEW c \in Call, CallNext(c), ~requestsMet'
    PROVE  /\ ~requestsMet
           /\ at'[c] \in Requesting =>
                 \/ at[c] \in Requesting
                 \/ \A d \in Call : at[d] \notin Requesting
<1> USE DEF TypeOK
<1>1. CASE Request(c)
  BY <1>1 DEF Request, Begin, Requesting
<1>2. CASE Reset(c) \/ Register(c) \/ ChangePassword(c)
  BY <1>2 DEF Reset, Register, ChangePassword, Begin, Requesting
<1>3. CASE PassThrottle(c) \/ Retire(c) \/ Match(c)
  BY <1>3 DEF PassThrottle, Retire, Match, GoTo, history, Requesting
<1>4. CASE Store(c) \/ Mismatch(c) \/ Redeem(c) \/ Create(c) \/ Change(c) \/ Fail(c)
  BY <1>4 DEF Store, Mismatch, Redeem, Create, Change, Fail, End, GoTo, history, Requesting
<1> QED
  BY <1>1, <1>2, <1>3, <1>4 DEF CallNext

LEMMA OneRequest ==
    ASSUME TypeOK, SoleRequest, NEW c \in Call, CallNext(c), ~requestsMet'
    PROVE  \A d, e \in Call : at'[d] \in Requesting /\ at'[e] \in Requesting => d = e
BY RequestBegins, OthersKept DEF SoleRequest

\* The request that stores leaves none behind.
LEMMA StoreIsAlone ==
    ASSUME TypeOK, SoleRequest, NEW c \in Call, CallNext(c), Store(c)
    PROVE  \A d \in Call : at'[d] \notin Requesting
<1>1. at[c] \in Requesting /\ at'[c] = "idle"
  BY DEF Store, End, GoTo, Requesting, TypeOK
<1> QED
  BY <1>1, OthersKept DEF SoleRequest, Requesting

LEMMA LaterThanRows ==
    ASSUME TypeOK, TypeOK', SoleRequest, NEW c \in Call, CallNext(c),
           NEW d \in Call, at'[d] \in {"retire", "store"}, NEW i \in Stored'
    PROVE  codes'[i].createdAt < now'[d]
<1>1. ~Store(c)
  BY StoreIsAlone DEF Requesting
<1>2. i \in Stored /\ codes'[i].createdAt = codes[i].createdAt
  BY <1>1, RowsDated
<1>3. CASE d # c
  <2>1. at[d] \in {"retire", "store"} /\ now'[d] = now[d]
    BY <1>3, OthersKept
  <2> QED
    BY <1>2, <2>1 DEF SoleRequest
<1>4. CASE d = c /\ Retire(c)
  <2>1. at[c] = "retire" /\ now' = now
    BY <1>4 DEF Retire
  <2> QED
    BY <1>2, <1>4, <2>1 DEF SoleRequest
<1>5. CASE d = c /\ PassThrottle(c)
  <2>1. ~Throttled(now[c]) /\ now' = now
    BY <1>5 DEF PassThrottle, locals
  <2>2. codes[i].createdAt \in Nat /\ now[c] \in Nat
    BY <1>2, RowTypes DEF TypeOK
  <2>3. RESEND_COOLDOWN \in Nat \ {0} /\ REQUEST_WINDOW \in Nat \ {0}
    BY AccountsAssumption
  <2>4. codes[i].createdAt < now[c]
    <3>1. CASE i \in Recent(now[c])
      <4>1. ~(now[c] - codes[i].createdAt < RESEND_COOLDOWN)
        BY <2>1, <3>1 DEF Throttled
      <4> QED
        BY <2>2, <2>3, <4>1
    <3>2. CASE i \notin Recent(now[c])
      <4>1. ~(codes[i].createdAt > now[c] - REQUEST_WINDOW)
        BY <1>2, <3>2 DEF Recent
      <4> QED
        BY <2>2, <2>3, <4>1
    <3> QED
      BY <3>1, <3>2
  <2> QED
    BY <1>2, <1>5, <2>1, <2>4
<1> QED
  BY <1>3, <1>4, <1>5, RetireNotes

LEMMA FoundAllLive ==
    ASSUME TypeOK, TypeOK', SoleRequest, NEW c \in Call, CallNext(c),
           NEW d \in Call, at'[d] = "store"
    PROVE  Live' \subseteq todo'[d]
<1>1. ~Store(c)
  BY StoreIsAlone DEF Requesting
<1>2. Live' \subseteq Live
  BY <1>1, LiveAfter
<1>3. CASE d # c
  <2>1. at[d] = "store" /\ todo'[d] = todo[d]
    BY <1>3, OthersKept, RetireNotes
  <2> QED
    BY <1>2, <2>1 DEF SoleRequest
<1>4. CASE d = c
  <2>1. Retire(c)
    BY <1>4, RetireNotes
  <2>2. todo'[c] = Live
    BY <2>1 DEF Retire, TypeOK
  <2> QED
    BY <1>2, <1>4, <2>2
<1> QED
  BY <1>3, <1>4

LEMMA OlderAreRetired ==
    ASSUME TypeOK, TypeOK', SoleRequest, NEW c \in Call, CallNext(c),
           NEW i \in Stored', i < Len(codes')
    PROVE  i \notin Live' /\ codes'[i].createdAt < codes'[Len(codes')].createdAt
<1>0. Stored = 1..Len(codes) /\ Len(codes) \in Nat
      /\ Stored' = 1..Len(codes') /\ Len(codes') \in Nat
  BY DEF TypeOK, Stored
<1>1. CASE Store(c)
  <2>1. Len(codes') = Len(codes) + 1
    BY <1>1, StoreRows, Zenon
  <2>2. i \in Stored /\ i # Len(codes) + 1
    BY <1>0, <2>1
  <2>3. at[c] = "store"
    BY <1>1 DEF Store
  <2>4. Live \subseteq todo[c] /\ codes[i].createdAt < now[c]
    BY <2>2, <2>3 DEF SoleRequest
  <2>5. i \notin Live'
    BY <1>1, <2>2, <2>4, LiveAfter
  <2>6. codes'[i].createdAt = codes[i].createdAt /\ codes'[Len(codes) + 1].createdAt = now[c]
    BY <1>1, <2>2, StoreDates
  <2> QED
    BY <2>1, <2>4, <2>5, <2>6
<1>2. CASE ~Store(c)
  <2>1. Stored' = Stored /\ \A j \in Stored : codes'[j].createdAt = codes[j].createdAt
    BY <1>2, RowsDated
  <2>2. Len(codes') = Len(codes) /\ Len(codes) \in Stored
    <3>1. Len(codes') \in Stored' /\ i \in Stored
      BY <1>0, <2>1
    <3>2. Len(codes') <= Len(codes) /\ Len(codes) \in Stored'
      BY <1>0, <2>1, <3>1
    <3> QED
      BY <1>0, <2>1, <3>2
  <2>3. Live' \subseteq Live
    BY <1>2, LiveAfter
  <2> QED
    BY <2>1, <2>2, <2>3 DEF SoleRequest
<1> QED
  BY <1>1, <1>2

LEMMA StepKeepsSoleRequest ==
    TypeOK /\ TypeOK' /\ UnlessRequested /\ [Next]_vars => UnlessRequested'
<1> SUFFICES ASSUME TypeOK, TypeOK', UnlessRequested, [Next]_vars, ~requestsMet'
             PROVE  SoleRequest'
  BY DEF UnlessRequested
<1>1. ASSUME NEW c \in Call, CallNext(c) PROVE SoleRequest'
  <2>1. SoleRequest
    BY <1>1, RequestBegins DEF UnlessRequested
  <2>2. \A d, e \in Call : at'[d] \in Requesting /\ at'[e] \in Requesting => d = e
    BY <1>1, <2>1, OneRequest
  <2>3. \A d \in Call : at'[d] \in {"retire", "store"} =>
           \A i \in Stored' : codes'[i].createdAt < now'[d]
    BY <1>1, <2>1, LaterThanRows
  <2>4. \A d \in Call : at'[d] = "store" => Live' \subseteq todo'[d]
    BY <1>1, <2>1, FoundAllLive
  <2>5. \A i \in Stored' : i < Len(codes') =>
           i \notin Live' /\ codes'[i].createdAt < codes'[Len(codes')].createdAt
    BY <1>1, <2>1, OlderAreRetired
  <2> QED
    BY <2>2, <2>3, <2>4, <2>5, Zenon DEF SoleRequest, Requesting
<1>2. CASE Tick \/ AccountGone \/ UNCHANGED vars
  <2>1. codes' = codes /\ at' = at /\ todo' = todo /\ now' = now /\ requestsMet' = requestsMet
    BY <1>2, Zenon DEF Tick, AccountGone, vars, locals, history
  <2> QED
    BY <2>1, Zenon DEF UnlessRequested, SoleRequest, Live, Stored, Requesting
<1> QED
  BY <1>1, <1>2, Zenon DEF Next

LEMMA SoleRequestFromInit == Init => UnlessRequested
<1> SUFFICES ASSUME Init PROVE SoleRequest
  BY DEF UnlessRequested
<1>1. \A c \in Call : at[c] = "idle"
  BY DEF Init
<1>2. Stored = {}
  BY DEF Init, Stored
<1> QED
  BY <1>1, <1>2 DEF SoleRequest, Requesting

\* The last code is the only one that can be live, and the newest by its date.
LEMMA LastIsLatest ==
    ASSUME TypeOK, SoleRequest
    PROVE  Live \subseteq {Len(codes)} /\ Newest \subseteq {Len(codes)}
<1>0. Stored = 1..Len(codes) /\ Len(codes) \in Nat
  BY RowsOf
<1>1. \A i \in Stored : i # Len(codes) =>
         i \notin Live /\ codes[i].createdAt < codes[Len(codes)].createdAt
  BY <1>0 DEF SoleRequest
<1>2. Live \subseteq {Len(codes)}
  BY <1>1, Zenon DEF Live
<1>3. ASSUME NEW i \in Newest, i # Len(codes)
      PROVE  FALSE
  <2>1. i \in Stored /\ Len(codes) \in Stored
    BY <1>0, <1>3 DEF Newest
  <2>2. codes[Len(codes)].createdAt <= codes[i].createdAt
    BY <1>3, <2>1 DEF Newest
  <2>3. codes[i].createdAt \in Nat /\ codes[Len(codes)].createdAt \in Nat
    BY <2>1, RowTypes
  <2> QED
    BY <1>1, <1>3, <2>1, <2>2, <2>3
<1> QED
  BY <1>2, <1>3

(***************************************************************************)
(* Never are more codes live than calls can be under way, however requests *)
(* overlap; and while they do not, the code sent last is the only one that *)
(* is live, and the one that a reset selects (the UPDATE that retires what *)
(* it found, and the INSERT after it, of one transaction).                 *)
(***************************************************************************)
THEOREM LatestCodesWin == Spec => []LatestCodeWins
<1>1. TypeOK /\ LiveOwned /\ UnlessRequested => LatestCodeWins
  BY OwnedAreFew, LastIsLatest DEF LatestCodeWins, UnlessRequested
<1> QED
  BY <1>1, OwnedFromInit, StepKeepsOwned, SoleRequestFromInit, StepKeepsSoleRequest,
     AccountsTypeCorrect, PTL DEF Spec

=============================================================================
