---------------------------- MODULE MeterRegistry ----------------------------
(***************************************************************************)
(* The meters of one account and which of them is the primary one, under   *)
(* calls of MeterService that may overlap.                                 *)
(*                                                                         *)
(* Each call is one database transaction at PostgreSQL's default level,    *)
(* READ COMMITTED, and one action here is one of its statements:           *)
(*   - a statement sees what was committed when it started, and what its   *)
(*     own transaction wrote;                                              *)
(*   - a row that an unfinished transaction wrote is locked. A statement   *)
(*     that wants it waits, and then looks at the row as it has become:    *)
(*     whether it is still there and still meets the condition;            *)
(*   - rows that came to meet the condition meanwhile are not looked at.   *)
(* Every statement is restricted to the caller's user id, so accounts do   *)
(* not interfere.                                                          *)
(***************************************************************************)
EXTENDS Naturals

CONSTANTS
    Txn,        \* calls that may be under way at a time
    Number,     \* (provider, customer number) pairs
    NoNumber,   \* stands for none of them
    MaxMeters   \* bound: meters ever added; they are numbered as added

ASSUME RegistryAssumption == MaxMeters \in Nat /\ NoNumber \notin Number

VARIABLES
    number,        \* the number of each meter, once added
    rows,          \* committed rows: "absent", or present as "plain" or "primary"
    own,           \* what each transaction wrote: a row as in rows, or "same"
    at,            \* the statement a call is about to run
    kind,          \* "add", "update" or "remove"
    target,        \* the meter the call is about
    promote,       \* add, update: the value of isPrimary it will write
    todo,          \* update: the rows its demotion still has to visit
    newNumber,     \* add: the number it was given
    overlapped,    \* history: two calls have been under way at once
    removalRaced   \* history: one of two such calls was a removal

store    == <<number, rows>>
callVars == <<kind, target, promote, newNumber>>
history  == <<overlapped, removalRaced>>
vars     == <<number, rows, own, at, kind, target, promote, todo, newNumber,
              overlapped, removalRaced>>

Meter     == 1..MaxMeters
RowState  == {"absent", "plain", "primary"}
Statement == {"idle", "insert", "scan", "demote", "delete", "next", "write", "commit"}

Nothing == [m \in Meter |-> "same"]

\* Type invariant; every row, committed or not, belongs to a meter that was
\* added, and a call that is over holds no row.
TypeOK ==
    /\ number \in [Meter -> Number \union {NoNumber}]
    /\ rows \in [Meter -> RowState]
    /\ own \in [Txn -> [Meter -> RowState \union {"same"}]]
    /\ at \in [Txn -> Statement]
    /\ kind \in [Txn -> {"add", "update", "remove"}]
    /\ target \in [Txn -> Meter \union {0}]
    /\ promote \in [Txn -> BOOLEAN]
    /\ todo \in [Txn -> SUBSET Meter]
    /\ newNumber \in [Txn -> Number \union {NoNumber}]
    /\ overlapped \in BOOLEAN
    /\ removalRaced \in BOOLEAN
    /\ \A m \in Meter : number[m] = NoNumber =>
          rows[m] = "absent" /\ \A t \in Txn : own[t][m] = "same"
    /\ \A t \in Txn :
          /\ at[t] = "idle" => own[t] = Nothing
          /\ at[t] = "insert" => newNumber[t] \in Number
          /\ at[t] \in {"scan", "demote", "delete", "write"} => target[t] \in Meter

Init ==
    /\ number = [m \in Meter |-> NoNumber]
    /\ rows = [m \in Meter |-> "absent"]
    /\ own = [t \in Txn |-> Nothing]
    /\ at = [t \in Txn |-> "idle"]
    /\ kind = [t \in Txn |-> "add"]
    /\ target = [t \in Txn |-> 0]
    /\ promote = [t \in Txn |-> FALSE]
    /\ todo = [t \in Txn |-> {}]
    /\ newNumber = [t \in Txn |-> NoNumber]
    /\ overlapped = FALSE
    /\ removalRaced = FALSE

-----------------------------------------------------------------------------
(***************************************************************************)
(* What PostgreSQL does.                                                   *)
(***************************************************************************)
Writes(t, m) == own[t][m] # "same"

\* The row as transaction t sees it.
View(t, m) == IF Writes(t, m) THEN own[t][m] ELSE rows[m]

\* No other unfinished transaction wrote the row.
Free(t, m) == \A u \in Txn \ {t} : ~Writes(u, m)

\* An insert waits for everyone who wrote a row with the same key.
KeyFree(t, n) == \A m \in Meter : number[m] = n => Free(t, m)

KeyTaken(t, n) == \E m \in Meter : number[m] = n /\ View(t, m) # "absent"

Active == {t \in Txn : at[t] # "idle"}

GoTo(t, statement) == at' = [at EXCEPT ![t] = statement]

WriteOwn(t, m, row) == own' = [own EXCEPT ![t][m] = row]

\* The call is over, with what it wrote committed or dropped before.
End(t) ==
    /\ GoTo(t, "idle")
    /\ own' = [own EXCEPT ![t] = Nothing]
    /\ todo' = [todo EXCEPT ![t] = {}]
    /\ kind' = [kind EXCEPT ![t] = "add"]
    /\ target' = [target EXCEPT ![t] = 0]
    /\ promote' = [promote EXCEPT ![t] = FALSE]
    /\ newNumber' = [newNumber EXCEPT ![t] = NoNumber]
    /\ UNCHANGED history

Commit(t) ==
    /\ at[t] = "commit"
    /\ rows' = [m \in Meter |-> View(t, m)]
    /\ End(t)
    /\ UNCHANGED number

\* Mutant: the transaction of a failed call is not ended.
RollbackLater(t) ==
    /\ at[t] # "idle"
    /\ GoTo(t, "idle")
    /\ UNCHANGED <<store, own, todo, callVars, history>>

\* A statement that fails, a 404 or 409 thrown inside, a lost connection, a
\* deadlock's victim.
Rollback(t) ==
    /\ at[t] # "idle"
    /\ End(t)
    /\ UNCHANGED store

-----------------------------------------------------------------------------
(***************************************************************************)
(* The calls. Begin opens the transaction; with the first SELECT of add    *)
(* and update.                                                             *)
(***************************************************************************)
Begin(t, statement, op, m, flag, n) ==
    /\ at[t] = "idle"
    /\ GoTo(t, statement)
    /\ kind' = [kind EXCEPT ![t] = op]
    /\ target' = [target EXCEPT ![t] = m]
    /\ promote' = [promote EXCEPT ![t] = flag]
    /\ newNumber' = [newNumber EXCEPT ![t] = n]
    /\ overlapped' = (overlapped \/ Active # {})
    /\ removalRaced' = (removalRaced
                         \/ /\ Active # {}
                            /\ op = "remove" \/ \E u \in Active : kind[u] = "remove")
    /\ UNCHANGED <<number, rows, own, todo>>

\* Mutant: every meter is added with the column's default.
BeginAddPlain(t) ==
    \E n \in Number :
       Begin(t, "insert", "add", 0, FALSE, n)

\* The first meter becomes primary.
BeginAdd(t) ==
    \E n \in Number :
       Begin(t, "insert", "add", 0, \A m \in Meter : rows[m] = "absent", n)

\* Promoting, or only renaming. isPrimary = false was refused before, and a
\* meter that is not found ends the call here.
BeginUpdate(t) ==
    \E m \in Meter, flag \in BOOLEAN :
       /\ rows[m] # "absent"
       /\ Begin(t, IF flag THEN "scan" ELSE "write", "update", m, flag, NoNumber)

BeginRemove(t) ==
    \E m \in Meter :
       /\ number[m] # NoNumber
       /\ Begin(t, "delete", "remove", m, FALSE, NoNumber)

\* Mutant: the key is looked up before the insert, and waits for nobody.
InsertUnlocked(t) ==
    /\ at[t] = "insert"
    /\ ~KeyTaken(t, newNumber[t])
    /\ \E m \in Meter :
          /\ number[m] = NoNumber
          /\ \A k \in Meter : k < m => number[k] # NoNumber
          /\ number' = [number EXCEPT ![m] = newNumber[t]]
          /\ WriteOwn(t, m, IF promote[t] THEN "primary" ELSE "plain")
    /\ GoTo(t, "commit")
    /\ UNCHANGED <<rows, todo, callVars, history>>

\* add: the insert. A duplicate is a 409 (Rollback).
Insert(t) ==
    /\ at[t] = "insert"
    /\ KeyFree(t, newNumber[t])
    /\ ~KeyTaken(t, newNumber[t])
    /\ \E m \in Meter :
          /\ number[m] = NoNumber
          /\ \A k \in Meter : k < m => number[k] # NoNumber
          /\ number' = [number EXCEPT ![m] = newNumber[t]]
          /\ WriteOwn(t, m, IF promote[t] THEN "primary" ELSE "plain")
    /\ GoTo(t, "commit")
    /\ UNCHANGED <<rows, todo, callVars, history>>

\* Mutant: every other row is set to isPrimary = false, primary or not.
DemotableAny(m) == rows[m] # "absent"

\* Whose isPrimary the demotion clears, apart from its own meter.
Demotable(m) == rows[m] = "primary"

\* update: the demotion finds the other primary rows...
Scan(t) ==
    /\ at[t] = "scan"
    /\ todo' = [todo EXCEPT ![t] = {m \in Meter \ {target[t]} : Demotable(m)}]
    /\ GoTo(t, "demote")
    /\ UNCHANGED <<store, own, callVars, history>>

\* ... and visits them one by one, as each becomes free.
Demote(t) ==
    /\ at[t] = "demote"
    /\ \E m \in todo[t] :
          /\ Free(t, m)
          /\ todo' = [todo EXCEPT ![t] = @ \ {m}]
          /\ IF Demotable(m) THEN WriteOwn(t, m, "plain") ELSE UNCHANGED own
    /\ UNCHANGED <<store, at, callVars, history>>

EndDemote(t) ==
    /\ at[t] = "demote"
    /\ todo[t] = {}
    /\ GoTo(t, "write")
    /\ UNCHANGED <<store, own, todo, callVars, history>>

\* update, and the end of remove: the row itself, if it is still there.
Write(t) ==
    /\ at[t] = "write"
    /\ Free(t, target[t])
    /\ IF View(t, target[t]) = "absent"
       THEN UNCHANGED own
       ELSE WriteOwn(t, target[t], IF promote[t] THEN "primary" ELSE rows[target[t]])
    /\ GoTo(t, "commit")
    /\ UNCHANGED <<store, todo, callVars, history>>

\* remove: the delete. A meter that is not there is a 404 (Rollback).
Delete(t) ==
    /\ at[t] = "delete"
    /\ Free(t, target[t])
    /\ rows[target[t]] # "absent"
    /\ WriteOwn(t, target[t], "absent")
    /\ GoTo(t, IF rows[target[t]] = "primary" THEN "next" ELSE "commit")
    /\ UNCHANGED <<store, todo, callVars, history>>

\* Mutant: the meter to promote is looked for before the delete is seen.
PickHeirStale(t) ==
    /\ at[t] = "next"
    /\ LET survivors == {m \in Meter : rows[m] # "absent"}
       IN  \E heir \in survivors :
              /\ \A m \in survivors : heir <= m
              /\ target' = [target EXCEPT ![t] = heir]
              /\ promote' = [promote EXCEPT ![t] = TRUE]
              /\ GoTo(t, "write")
    /\ UNCHANGED <<store, own, todo, kind, newNumber, history>>

\* remove: the oldest survivor is to become primary.
PickHeir(t) ==
    /\ at[t] = "next"
    /\ LET survivors == {m \in Meter : View(t, m) # "absent"}
       IN  IF survivors = {}
           THEN GoTo(t, "commit") /\ UNCHANGED <<target, promote>>
           ELSE \E heir \in survivors :
                   /\ \A m \in survivors : heir <= m
                   /\ target' = [target EXCEPT ![t] = heir]
                   /\ promote' = [promote EXCEPT ![t] = TRUE]
                   /\ GoTo(t, "write")
    /\ UNCHANGED <<store, own, todo, kind, newNumber, history>>

-----------------------------------------------------------------------------
Next ==
    \E t \in Txn :
       \/ BeginAdd(t) \/ BeginUpdate(t) \/ BeginRemove(t)
       \/ Insert(t)
       \/ Scan(t) \/ Demote(t) \/ EndDemote(t) \/ Write(t)
       \/ Delete(t) \/ PickHeir(t)
       \/ Commit(t) \/ Rollback(t)

Spec == Init /\ [][Next]_vars

-----------------------------------------------------------------------------
Held      == {m \in Meter : rows[m] # "absent"}
Primaries == {m \in Meter : rows[m] = "primary"}

AtMostOnePrimary == \A m, k \in Primaries : m = k

\* An account that holds meters has a default one.
SomePrimary == Held # {} => Primaries # {}

\* As long as an account's calls come one after the other, adding, promoting
\* and removing leave exactly one primary meter, whichever of them fail midway.
OnePrimaryInTurn ==
    ~overlapped => AtMostOnePrimary /\ SomePrimary

\* Calls that overlap may leave two primary meters, but as long as no removal
\* is one of them they never leave none: a promotion demotes nobody without
\* putting its own meter in place.
SomePrimaryUnlessRemoved ==
    ~removalRaced => SomePrimary

\* However calls overlap, an account never holds one number twice: the insert
\* relies on the unique index and not on a SELECT before it.
NumbersDistinct ==
    \A m, k \in Held : number[m] = number[k] => m = k

\* A call that has written a row and still has others to write.
HoldsAndWants(t) ==
    /\ \E m \in Meter : Writes(t, m)
    /\ at[t] \in {"demote", "next", "write"}

\* Two calls can only wait for each other while the account has two primary
\* meters: with one at most, only one of them holds a row and wants another.
\* The narrowing of the demotion to primary rows is what this rests on.
DeadlockNeedsTwoPrimaries ==
    AtMostOnePrimary =>
        \A t, u \in Txn : HoldsAndWants(t) /\ HoldsAndWants(u) => t = u

=============================================================================
