------------------------ MODULE MeterRegistry_proofs ------------------------
(***************************************************************************)
(* What holds of an account's meters for any number of calls, numbers and  *)
(* meters.                                                                 *)
(***************************************************************************)
EXTENDS MeterRegistry, TLAPS

-----------------------------------------------------------------------------
(***************************************************************************)
(* Types.                                                                  *)
(***************************************************************************)

\* One row is written by the one transaction.
LEMMA WriteOwnAt ==
    ASSUME TypeOK, NEW t \in Txn, NEW m \in Meter,
           NEW row \in RowState \union {"same"}, WriteOwn(t, m, row)
    PROVE  /\ own' \in [Txn -> [Meter -> RowState \union {"same"}]]
           /\ own'[t][m] = row
           /\ \A k \in Meter \ {m} : own'[t][k] = own[t][k]
           /\ \A u \in Txn \ {t} : own'[u] = own[u]
BY DEF TypeOK, WriteOwn

\* A call that ends drops what it wrote and leaves the others alone.
LEMMA EndAt ==
    ASSUME TypeOK, NEW t \in Txn, End(t)
    PROVE  /\ at' \in [Txn -> Statement] /\ at'[t] = "idle"
           /\ own' \in [Txn -> [Meter -> RowState \union {"same"}]]
           /\ own'[t] = Nothing
           /\ \A m \in Meter : own'[t][m] = "same"
           /\ \A u \in Txn \ {t} :
                 /\ at'[u] = at[u] /\ own'[u] = own[u] /\ kind'[u] = kind[u]
                 /\ target'[u] = target[u] /\ promote'[u] = promote[u]
                 /\ todo'[u] = todo[u] /\ newNumber'[u] = newNumber[u]
           /\ overlapped' = overlapped /\ removalRaced' = removalRaced
BY DEF TypeOK, End, GoTo, Nothing, Statement, RowState, history

LEMMA InitTypeOK == Init => TypeOK
<1> SUFFICES ASSUME Init PROVE TypeOK
  OBVIOUS
<1>1. /\ number \in [Meter -> Number \union {NoNumber}]
      /\ rows \in [Meter -> RowState]
      /\ own \in [Txn -> [Meter -> RowState \union {"same"}]]
  BY DEF Init, Nothing, RowState
<1>2. /\ at \in [Txn -> Statement]
      /\ kind \in [Txn -> {"add", "update", "remove"}]
      /\ target \in [Txn -> Meter \union {0}]
      /\ promote \in [Txn -> BOOLEAN]
      /\ todo \in [Txn -> SUBSET Meter]
      /\ newNumber \in [Txn -> Number \union {NoNumber}]
      /\ overlapped \in BOOLEAN /\ removalRaced \in BOOLEAN
  BY DEF Init, Statement
<1>3. /\ \A m \in Meter : number[m] = NoNumber =>
            rows[m] = "absent" /\ \A t \in Txn : own[t][m] = "same"
      /\ \A t \in Txn :
            /\ at[t] = "idle" /\ own[t] = Nothing
  BY DEF Init, Nothing
<1> QED
  BY <1>1, <1>2, <1>3 DEF TypeOK

LEMMA ViewType ==
    ASSUME TypeOK, NEW t \in Txn, NEW m \in Meter
    PROVE  View(t, m) \in RowState
BY DEF TypeOK, View, Writes

\* What a Begin assigns.
LEMMA BeginAt ==
    ASSUME TypeOK, NEW t \in Txn, NEW statement \in Statement \ {"idle"},
           NEW op \in {"add", "update", "remove"}, NEW m \in Meter \union {0},
           NEW flag \in BOOLEAN, NEW n \in Number \union {NoNumber},
           statement = "insert" => n \in Number,
           statement # "insert" => m \in Meter,
           Begin(t, statement, op, m, flag, n)
    PROVE  /\ TypeOK'
           /\ at[t] = "idle" /\ at'[t] = statement /\ kind'[t] = op
           /\ target'[t] = m /\ promote'[t] = flag /\ newNumber'[t] = n
           /\ \A u \in Txn \ {t} :
                 /\ at'[u] = at[u] /\ kind'[u] = kind[u] /\ target'[u] = target[u]
                 /\ promote'[u] = promote[u] /\ newNumber'[u] = newNumber[u]
           /\ UNCHANGED <<number, rows, own, todo>>
BY DEF TypeOK, Begin, GoTo

\* The three ways to begin.
LEMMA BeginCases ==
    ASSUME TypeOK, NEW t \in Txn, BeginAdd(t) \/ BeginUpdate(t) \/ BeginRemove(t)
    PROVE  \/ \E n \in Number :
                 Begin(t, "insert", "add", 0, \A m \in Meter : rows[m] = "absent", n)
           \/ \E m \in Meter : rows[m] # "absent"
                 /\ Begin(t, "scan", "update", m, TRUE, NoNumber)
           \/ \E m \in Meter : rows[m] # "absent"
                 /\ Begin(t, "write", "update", m, FALSE, NoNumber)
           \/ \E m \in Meter :
                 Begin(t, "delete", "remove", m, FALSE, NoNumber)
BY Zenon DEF BeginAdd, BeginUpdate, BeginRemove

LEMMA BeginTypeOK ==
    ASSUME TypeOK, NEW t \in Txn, BeginAdd(t) \/ BeginUpdate(t) \/ BeginRemove(t)
    PROVE  TypeOK'
<1>1. "insert" \in Statement \ {"idle"} /\ "scan" \in Statement \ {"idle"}
      /\ "write" \in Statement \ {"idle"} /\ "delete" \in Statement \ {"idle"}
  BY DEF Statement
<1> QED
  BY <1>1, BeginCases, BeginAt

LEMMA EndTypeOK ==
    ASSUME TypeOK, NEW t \in Txn, Commit(t) \/ Rollback(t)
    PROVE  TypeOK'
<1>1. End(t) /\ number' = number
  BY DEF Commit, Rollback, store
<1>2. rows' \in [Meter -> RowState]
  BY ViewType DEF Commit, Rollback, store, TypeOK
<1>3. \A m \in Meter : number'[m] = NoNumber =>
         rows'[m] = "absent" /\ \A u \in Txn : own'[u][m] = "same"
  BY <1>1, EndAt DEF Commit, Rollback, store, TypeOK, View, Writes
<1>4. \A u \in Txn :
         /\ at'[u] = "idle" => own'[u] = Nothing
         /\ at'[u] = "insert" => newNumber'[u] \in Number
         /\ at'[u] \in {"scan", "demote", "delete", "write"} => target'[u] \in Meter
  BY <1>1, EndAt DEF TypeOK
<1>5. /\ kind' \in [Txn -> {"add", "update", "remove"}]
      /\ target' \in [Txn -> Meter \union {0}]
      /\ promote' \in [Txn -> BOOLEAN]
      /\ todo' \in [Txn -> SUBSET Meter]
      /\ newNumber' \in [Txn -> Number \union {NoNumber}]
  BY <1>1 DEF TypeOK, End
<1> QED
  BY <1>1, <1>2, <1>3, <1>4, <1>5, EndAt DEF TypeOK

(***************************************************************************)
(* What each statement changes, row by row and call by call.               *)
(***************************************************************************)

\* Call u is left as it is, its statement included.
SameCall(u) ==
    /\ at'[u] = at[u] /\ own'[u] = own[u] /\ kind'[u] = kind[u]
    /\ target'[u] = target[u] /\ promote'[u] = promote[u]
    /\ todo'[u] = todo[u] /\ newNumber'[u] = newNumber[u]

\* A statement of call t, which leaves it the same call, committed rows as they
\* are, and t about to run another statement.
IsStatement(t, statement) ==
    /\ at'[t] = statement
    /\ kind'[t] = kind[t]
    /\ \A u \in Txn \ {t} : SameCall(u)
    /\ UNCHANGED <<rows, overlapped, removalRaced>>

LEMMA InsertAt ==
    ASSUME TypeOK, NEW t \in Txn, Insert(t)
    PROVE  /\ TypeOK'
           /\ at[t] = "insert" /\ IsStatement(t, "commit")
           /\ UNCHANGED <<target, promote, newNumber, todo>>
           /\ \E m \in Meter :
                 /\ number[m] = NoNumber
                 /\ number'[m] = newNumber[t]
                 /\ own'[t][m] = IF promote[t] THEN "primary" ELSE "plain"
                 /\ \A k \in Meter \ {m} :
                       number'[k] = number[k] /\ own'[t][k] = own[t][k]
<1>1. PICK m \in Meter :
         /\ number[m] = NoNumber
         /\ number' = [number EXCEPT ![m] = newNumber[t]]
         /\ WriteOwn(t, m, IF promote[t] THEN "primary" ELSE "plain")
  BY Zenon DEF Insert
<1>2. /\ own' \in [Txn -> [Meter -> RowState \union {"same"}]]
      /\ own'[t][m] = IF promote[t] THEN "primary" ELSE "plain"
      /\ \A k \in Meter \ {m} : own'[t][k] = own[t][k]
      /\ \A u \in Txn \ {t} : own'[u] = own[u]
  <2>1. (IF promote[t] THEN "primary" ELSE "plain") \in RowState \union {"same"}
    BY DEF RowState
  <2> QED
    BY <1>1, <2>1, WriteOwnAt
<1>3. /\ at[t] = "insert" /\ newNumber[t] \in Number
      /\ at' = [at EXCEPT ![t] = "commit"]
      /\ UNCHANGED <<rows, todo, kind, target, promote, newNumber, overlapped, removalRaced>>
  BY DEF Insert, GoTo, callVars, history, TypeOK
<1>4. /\ number' \in [Meter -> Number \union {NoNumber}]
      /\ number'[m] \in Number
      /\ \A k \in Meter \ {m} : number'[k] = number[k]
  BY <1>1, <1>3 DEF TypeOK
<1>5. at' \in [Txn -> Statement] /\ at'[t] = "commit" /\ \A u \in Txn \ {t} : at'[u] = at[u]
  BY <1>3 DEF TypeOK, Statement
<1>6. \A k \in Meter : number'[k] = NoNumber =>
         rows'[k] = "absent" /\ \A u \in Txn : own'[u][k] = "same"
  <2> SUFFICES ASSUME NEW k \in Meter, number'[k] = NoNumber
               PROVE  rows'[k] = "absent" /\ \A u \in Txn : own'[u][k] = "same"
    OBVIOUS
  <2>1. k # m
    BY <1>4, RegistryAssumption
  <2> QED
    BY <1>2, <1>3, <1>4, <2>1 DEF TypeOK
<1>7. \A u \in Txn :
         /\ at'[u] = "idle" => own'[u] = Nothing
         /\ at'[u] = "insert" => newNumber'[u] \in Number
         /\ at'[u] \in {"scan", "demote", "delete", "write"} => target'[u] \in Meter
  BY <1>2, <1>3, <1>5 DEF TypeOK
<1>8. TypeOK'
  BY <1>2, <1>3, <1>4, <1>5, <1>6, <1>7 DEF TypeOK
<1>9. IsStatement(t, "commit")
  BY <1>2, <1>3, <1>5 DEF IsStatement, SameCall
<1> QED
  BY <1>1, <1>2, <1>3, <1>4, <1>8, <1>9

LEMMA ScanAt ==
    ASSUME TypeOK, NEW t \in Txn, Scan(t)
    PROVE  /\ TypeOK'
           /\ at[t] = "scan" /\ IsStatement(t, "demote")
           /\ UNCHANGED <<number, own, target, promote, newNumber>>
           /\ todo'[t] = {m \in Meter \ {target[t]} : rows[m] = "primary"}
<1>1. /\ at[t] = "scan"
      /\ at' = [at EXCEPT ![t] = "demote"]
      /\ todo' = [todo EXCEPT ![t] = {m \in Meter \ {target[t]} : rows[m] = "primary"}]
      /\ UNCHANGED <<number, rows, own, kind, target, promote, newNumber, overlapped, removalRaced>>
  BY DEF Scan, GoTo, store, callVars, history, Demotable
<1>2. at' \in [Txn -> Statement] /\ at'[t] = "demote" /\ \A u \in Txn \ {t} : at'[u] = at[u]
  BY <1>1 DEF TypeOK, Statement
<1>3. /\ todo' \in [Txn -> SUBSET Meter]
      /\ todo'[t] = {m \in Meter \ {target[t]} : rows[m] = "primary"}
      /\ \A u \in Txn \ {t} : todo'[u] = todo[u]
  BY <1>1 DEF TypeOK
<1>4. TypeOK'
  BY <1>1, <1>2, <1>3 DEF TypeOK
<1> QED
  BY <1>1, <1>2, <1>3, <1>4 DEF IsStatement, SameCall

LEMMA DemoteAt ==
    ASSUME TypeOK, NEW t \in Txn, Demote(t)
    PROVE  /\ TypeOK'
           /\ at[t] = "demote" /\ IsStatement(t, "demote")
           /\ UNCHANGED <<number, target, promote, newNumber>>
           /\ \E m \in Meter :
                 /\ m \in todo[t] /\ todo'[t] = todo[t] \ {m} /\ Free(t, m)
                 /\ own'[t][m] = IF rows[m] = "primary" THEN "plain" ELSE own[t][m]
                 /\ \A k \in Meter \ {m} : own'[t][k] = own[t][k]
<1>1. PICK m \in todo[t] :
         /\ Free(t, m)
         /\ todo' = [todo EXCEPT ![t] = @ \ {m}]
         /\ IF rows[m] = "primary" THEN WriteOwn(t, m, "plain") ELSE UNCHANGED own
  BY Zenon DEF Demote, Demotable
<1>2. m \in Meter
  BY <1>1 DEF TypeOK
<1>3. /\ at[t] = "demote"
      /\ UNCHANGED <<number, rows, at, kind, target, promote, newNumber, overlapped, removalRaced>>
  BY DEF Demote, store, callVars, history
<1>4. /\ own' \in [Txn -> [Meter -> RowState \union {"same"}]]
      /\ own'[t][m] = IF rows[m] = "primary" THEN "plain" ELSE own[t][m]
      /\ \A k \in Meter \ {m} : own'[t][k] = own[t][k]
      /\ \A u \in Txn \ {t} : own'[u] = own[u]
  <2>1. CASE rows[m] = "primary"
    <3>1. WriteOwn(t, m, "plain") /\ "plain" \in RowState \union {"same"}
      BY <1>1, <2>1 DEF RowState
    <3> QED
      BY <1>2, <2>1, <3>1, WriteOwnAt
  <2>2. CASE rows[m] # "primary"
    BY <1>1, <2>2 DEF TypeOK
  <2> QED
    BY <2>1, <2>2
<1>5. /\ todo' \in [Txn -> SUBSET Meter]
      /\ todo'[t] = todo[t] \ {m}
      /\ \A u \in Txn \ {t} : todo'[u] = todo[u]
  BY <1>1 DEF TypeOK
<1>6. \A k \in Meter : number'[k] = NoNumber =>
         rows'[k] = "absent" /\ \A u \in Txn : own'[u][k] = "same"
  <2> SUFFICES ASSUME NEW k \in Meter, number[k] = NoNumber
               PROVE  rows[k] = "absent" /\ \A u \in Txn : own'[u][k] = "same"
    BY <1>3
  <2>1. rows[k] = "absent" /\ \A u \in Txn : own[u][k] = "same"
    BY DEF TypeOK
  <2>2. own'[t][k] = own[t][k]
    BY <1>2, <1>4, <2>1
  <2> QED
    BY <1>4, <2>1, <2>2
<1>7. \A u \in Txn :
         /\ at'[u] = "idle" => own'[u] = Nothing
         /\ at'[u] = "insert" => newNumber'[u] \in Number
         /\ at'[u] \in {"scan", "demote", "delete", "write"} => target'[u] \in Meter
  BY <1>3, <1>4 DEF TypeOK
<1>8. TypeOK'
  BY <1>3, <1>4, <1>5, <1>6, <1>7 DEF TypeOK
<1>9. IsStatement(t, "demote")
  BY <1>3, <1>4, <1>5 DEF IsStatement, SameCall
<1> QED
  BY <1>1, <1>2, <1>3, <1>4, <1>5, <1>8, <1>9

LEMMA EndDemoteAt ==
    ASSUME TypeOK, NEW t \in Txn, EndDemote(t)
    PROVE  /\ TypeOK'
           /\ at[t] = "demote" /\ todo[t] = {} /\ IsStatement(t, "write")
           /\ UNCHANGED <<number, own, target, promote, newNumber, todo>>
<1>1. /\ at[t] = "demote" /\ todo[t] = {}
      /\ at' = [at EXCEPT ![t] = "write"]
      /\ UNCHANGED <<number, rows, own, todo, kind, target, promote, newNumber, overlapped, removalRaced>>
  BY DEF EndDemote, GoTo, store, callVars, history
<1>2. at' \in [Txn -> Statement] /\ at'[t] = "write" /\ \A u \in Txn \ {t} : at'[u] = at[u]
  BY <1>1 DEF TypeOK, Statement
<1>3. TypeOK'
  BY <1>1, <1>2 DEF TypeOK
<1> QED
  BY <1>1, <1>2, <1>3 DEF IsStatement, SameCall

LEMMA WriteAt ==
    ASSUME TypeOK, NEW t \in Txn, Write(t)
    PROVE  /\ TypeOK'
           /\ at[t] = "write" /\ target[t] \in Meter /\ Free(t, target[t])
           /\ IsStatement(t, "commit")
           /\ UNCHANGED <<number, target, promote, newNumber, todo>>
           /\ \A k \in Meter \ {target[t]} : own'[t][k] = own[t][k]
           /\ own'[t][target[t]] =
                 IF View(t, target[t]) = "absent" THEN own[t][target[t]]
                 ELSE IF promote[t] THEN "primary" ELSE rows[target[t]]
<1> DEFINE m == target[t]
           row == IF promote[t] THEN "primary" ELSE rows[m]
<1>1. /\ at[t] = "write" /\ m \in Meter /\ Free(t, m)
      /\ at' = [at EXCEPT ![t] = "commit"]
      /\ IF View(t, m) = "absent" THEN UNCHANGED own ELSE WriteOwn(t, m, row)
      /\ UNCHANGED <<number, rows, todo, kind, target, promote, newNumber, overlapped, removalRaced>>
  BY DEF Write, GoTo, store, callVars, history, TypeOK
<1>2. at' \in [Txn -> Statement] /\ at'[t] = "commit" /\ \A u \in Txn \ {t} : at'[u] = at[u]
  BY <1>1 DEF TypeOK, Statement
<1>3. /\ own' \in [Txn -> [Meter -> RowState \union {"same"}]]
      /\ own'[t][m] = IF View(t, m) = "absent" THEN own[t][m] ELSE row
      /\ \A k \in Meter \ {m} : own'[t][k] = own[t][k]
      /\ \A u \in Txn \ {t} : own'[u] = own[u]
  <2>1. CASE View(t, m) = "absent"
    BY <1>1, <2>1 DEF TypeOK
  <2>2. CASE View(t, m) # "absent"
    <3>1. WriteOwn(t, m, row) /\ row \in RowState \union {"same"}
      BY <1>1, <2>2 DEF RowState, TypeOK
    <3> HIDE DEF m, row
    <3> QED
      BY <1>1, <2>2, <3>1, WriteOwnAt
  <2> QED
    BY <2>1, <2>2
<1>4. \A k \in Meter : number'[k] = NoNumber =>
         rows'[k] = "absent" /\ \A u \in Txn : own'[u][k] = "same"
  BY <1>1, <1>3 DEF TypeOK, View, Writes
<1>5. \A u \in Txn :
         /\ at'[u] = "idle" => own'[u] = Nothing
         /\ at'[u] = "insert" => newNumber'[u] \in Number
         /\ at'[u] \in {"scan", "demote", "delete", "write"} => target'[u] \in Meter
  BY <1>1, <1>2, <1>3 DEF TypeOK
<1>6. TypeOK'
  BY <1>1, <1>2, <1>3, <1>4, <1>5 DEF TypeOK
<1>7. IsStatement(t, "commit")
  BY <1>1, <1>2, <1>3 DEF IsStatement, SameCall
<1> QED
  BY <1>1, <1>3, <1>6, <1>7

LEMMA DeleteAt ==
    ASSUME TypeOK, NEW t \in Txn, Delete(t)
    PROVE  /\ TypeOK'
           /\ at[t] = "delete" /\ target[t] \in Meter /\ Free(t, target[t])
           /\ rows[target[t]] # "absent"
           /\ IsStatement(t, IF rows[target[t]] = "primary" THEN "next" ELSE "commit")
           /\ UNCHANGED <<number, target, promote, newNumber, todo>>
           /\ \A k \in Meter \ {target[t]} : own'[t][k] = own[t][k]
           /\ own'[t][target[t]] = "absent"
<1> DEFINE m == target[t]
           statement == IF rows[m] = "primary" THEN "next" ELSE "commit"
<1>1. /\ at[t] = "delete" /\ m \in Meter /\ Free(t, m) /\ rows[m] # "absent"
      /\ at' = [at EXCEPT ![t] = statement]
      /\ WriteOwn(t, m, "absent")
      /\ UNCHANGED <<number, rows, todo, kind, target, promote, newNumber, overlapped, removalRaced>>
  BY DEF Delete, GoTo, store, callVars, history, TypeOK
<1>2. statement \in {"next", "commit"}
  OBVIOUS
<1> HIDE DEF statement
<1>3. at' \in [Txn -> Statement] /\ at'[t] = statement /\ \A u \in Txn \ {t} : at'[u] = at[u]
  BY <1>1, <1>2 DEF TypeOK, Statement
<1>4. /\ own' \in [Txn -> [Meter -> RowState \union {"same"}]]
      /\ own'[t][m] = "absent"
      /\ \A k \in Meter \ {m} : own'[t][k] = own[t][k]
      /\ \A u \in Txn \ {t} : own'[u] = own[u]
  <2>1. "absent" \in RowState \union {"same"}
    BY DEF RowState
  <2> QED
    BY <1>1, <2>1, WriteOwnAt
<1>5. \A k \in Meter : number'[k] = NoNumber =>
         rows'[k] = "absent" /\ \A u \in Txn : own'[u][k] = "same"
  <2> SUFFICES ASSUME NEW k \in Meter, number[k] = NoNumber
               PROVE  rows[k] = "absent" /\ \A u \in Txn : own'[u][k] = "same"
    BY <1>1
  <2>1. rows[k] = "absent" /\ \A u \in Txn : own[u][k] = "same"
    BY DEF TypeOK
  <2>2. k # m
    BY <1>1, <2>1
  <2> QED
    BY <1>4, <2>1, <2>2
<1>6. \A u \in Txn :
         /\ at'[u] = "idle" => own'[u] = Nothing
         /\ at'[u] = "insert" => newNumber'[u] \in Number
         /\ at'[u] \in {"scan", "demote", "delete", "write"} => target'[u] \in Meter
  BY <1>1, <1>2, <1>3, <1>4 DEF TypeOK
<1>7. TypeOK'
  BY <1>1, <1>3, <1>4, <1>5, <1>6 DEF TypeOK
<1>8. IsStatement(t, statement)
  BY <1>1, <1>3, <1>4 DEF IsStatement, SameCall
<1> QED
  BY <1>1, <1>4, <1>7, <1>8 DEF statement

LEMMA PickHeirAt ==
    ASSUME TypeOK, NEW t \in Txn, PickHeir(t)
    PROVE  /\ TypeOK'
           /\ at[t] = "next"
           /\ UNCHANGED <<number, own, newNumber, todo>>
           /\ \/ /\ IsStatement(t, "commit")
                 /\ \A m \in Meter : View(t, m) = "absent"
                 /\ UNCHANGED <<target, promote>>
              \/ /\ IsStatement(t, "write")
                 /\ target'[t] \in Meter /\ promote'[t] = TRUE
                 /\ View(t, target'[t]) # "absent"
<1>1. /\ at[t] = "next"
      /\ UNCHANGED <<number, rows, own, todo, kind, newNumber, overlapped, removalRaced>>
      /\ \/ /\ \A m \in Meter : View(t, m) = "absent"
            /\ at' = [at EXCEPT ![t] = "commit"]
            /\ UNCHANGED <<target, promote>>
         \/ \E heir \in Meter :
               /\ View(t, heir) # "absent"
               /\ target' = [target EXCEPT ![t] = heir]
               /\ promote' = [promote EXCEPT ![t] = TRUE]
               /\ at' = [at EXCEPT ![t] = "write"]
  BY DEF PickHeir, GoTo, store, history
<1>2. CASE /\ \A m \in Meter : View(t, m) = "absent"
           /\ at' = [at EXCEPT ![t] = "commit"]
           /\ UNCHANGED <<target, promote>>
  <2>1. at' \in [Txn -> Statement] /\ at'[t] = "commit" /\ \A u \in Txn \ {t} : at'[u] = at[u]
    BY <1>2 DEF TypeOK, Statement
  <2>2. TypeOK'
    BY <1>1, <1>2, <2>1 DEF TypeOK
  <2> QED
    BY <1>1, <1>2, <2>1, <2>2 DEF IsStatement, SameCall
<1>3. ASSUME NEW heir \in Meter, View(t, heir) # "absent",
             target' = [target EXCEPT ![t] = heir],
             promote' = [promote EXCEPT ![t] = TRUE],
             at' = [at EXCEPT ![t] = "write"]
      PROVE  TypeOK' /\ IsStatement(t, "write") /\ target'[t] = heir /\ promote'[t] = TRUE
  <2>1. at' \in [Txn -> Statement] /\ at'[t] = "write" /\ \A u \in Txn \ {t} : at'[u] = at[u]
    BY <1>3 DEF TypeOK, Statement
  <2>2. /\ target' \in [Txn -> Meter \union {0}] /\ target'[t] = heir
        /\ promote' \in [Txn -> BOOLEAN] /\ promote'[t] = TRUE
        /\ \A u \in Txn \ {t} : target'[u] = target[u] /\ promote'[u] = promote[u]
    BY <1>3 DEF TypeOK
  <2>3. TypeOK'
    BY <1>1, <2>1, <2>2 DEF TypeOK
  <2> QED
    BY <1>1, <2>1, <2>2, <2>3 DEF IsStatement, SameCall
<1> QED
  BY <1>1, <1>2, <1>3

-----------------------------------------------------------------------------
\* Every reachable state of the registry is well typed, and a call that is over
\* holds no row.
THEOREM RegistryTypeCorrect == Spec => []TypeOK
<1>1. ASSUME TypeOK, [Next]_vars PROVE TypeOK'
  <2>1. CASE UNCHANGED vars
    BY <1>1, <2>1 DEF vars, TypeOK
  <2>2. CASE Next
    BY <1>1, <2>2, BeginTypeOK, EndTypeOK,
       InsertAt, ScanAt, DemoteAt, EndDemoteAt, WriteAt, DeleteAt, PickHeirAt DEF Next
  <2> QED
    BY <1>1, <2>1, <2>2
<1> QED
  BY <1>1, InitTypeOK, PTL DEF Spec

-----------------------------------------------------------------------------
(***************************************************************************)
(* Row locks. Two transactions never hold one row, a call holds nothing    *)
(* before its first write, and one that holds a row and wants another      *)
(* holds a row that is committed as primary: it was demoted, or it is      *)
(* being removed.                                                          *)
(***************************************************************************)
Locks ==
    \A t, u \in Txn : \A m \in Meter : Writes(t, m) /\ Writes(u, m) => t = u

NothingYet ==
    \A t \in Txn : at[t] \in {"idle", "insert", "scan", "delete"} =>
        \A m \in Meter : ~Writes(t, m)

HoldsPrimary ==
    \A t \in Txn : HoldsAndWants(t) =>
        \E m \in Meter : Writes(t, m) /\ rows[m] = "primary"

LockInv == TypeOK /\ Locks /\ NothingYet /\ HoldsPrimary

LEMMA LocksKept ==
    ASSUME Locks, NEW t \in Txn,
           \A u \in Txn \ {t} : own'[u] = own[u],
           \A k \in Meter : own'[t][k] \in {"same", own[t][k]} \/ Free(t, k)
    PROVE  Locks'
BY DEF Locks, Writes, Free

\* Of a statement, only what it does to its own call has to be checked.
LEMMA LockInvKept ==
    ASSUME LockInv, TypeOK', NEW t \in Txn, NEW statement,
           IsStatement(t, statement),
           \A k \in Meter : own'[t][k] \in {"same", own[t][k]} \/ Free(t, k),
           statement \notin {"idle", "insert", "scan", "delete"},
           \/ statement = "commit"
           \/ \A k \in Meter : own'[t][k] = "same"
           \/ \E k \in Meter : own'[t][k] # "same" /\ rows[k] = "primary"
    PROVE  LockInv'
<1>1. Locks'
  BY LocksKept DEF LockInv, IsStatement, SameCall
<1>2. NothingYet'
  BY DEF LockInv, NothingYet, IsStatement, SameCall, Writes
<1>3. HoldsPrimary'
  <2> SUFFICES ASSUME NEW u \in Txn, HoldsAndWants(u)'
               PROVE  \E m \in Meter : own'[u][m] # "same" /\ rows'[m] = "primary"
    BY DEF HoldsPrimary, Writes
  <2>1. CASE u = t
    BY <2>1 DEF HoldsAndWants, IsStatement, Writes
  <2>2. CASE u # t
    BY <2>2 DEF LockInv, HoldsPrimary, HoldsAndWants, IsStatement, SameCall, Writes
  <2> QED
    BY <2>1, <2>2
<1> QED
  BY <1>1, <1>2, <1>3 DEF LockInv

LEMMA StatementLockInv ==
    ASSUME LockInv, NEW t \in Txn,
           \/ Insert(t) \/ Scan(t) \/ Demote(t) \/ EndDemote(t)
           \/ Write(t) \/ Delete(t) \/ PickHeir(t)
    PROVE  LockInv'
<1> USE DEF Writes
<1>0. TypeOK
  BY DEF LockInv
<1>1. CASE Insert(t)
  <2>1. PICK m \in Meter :
           number[m] = NoNumber /\ \A k \in Meter \ {m} : own'[t][k] = own[t][k]
    BY <1>0, <1>1, InsertAt
  <2>2. Free(t, m)
    BY <1>0, <2>1 DEF TypeOK, Free
  <2>3. TypeOK' /\ IsStatement(t, "commit")
    BY <1>0, <1>1, InsertAt
  <2> QED
    BY <2>1, <2>2, <2>3, LockInvKept
<1>2. CASE Scan(t)
  <2>1. at[t] = "scan" /\ TypeOK' /\ IsStatement(t, "demote") /\ own' = own
    BY <1>0, <1>2, ScanAt
  <2>2. \A k \in Meter : own'[t][k] = "same"
    BY <2>1 DEF LockInv, NothingYet
  <2> QED
    BY <2>1, <2>2, LockInvKept
<1>3. CASE Demote(t)
  <2>1. PICK m \in Meter :
           /\ Free(t, m)
           /\ own'[t][m] = IF rows[m] = "primary" THEN "plain" ELSE own[t][m]
           /\ \A k \in Meter \ {m} : own'[t][k] = own[t][k]
    BY <1>0, <1>3, DemoteAt
  <2>2. at[t] = "demote" /\ TypeOK' /\ IsStatement(t, "demote")
    BY <1>0, <1>3, DemoteAt
  <2>3. \/ \A k \in Meter : own'[t][k] = "same"
        \/ \E k \in Meter : own'[t][k] # "same" /\ rows[k] = "primary"
    BY <2>1, <2>2 DEF LockInv, HoldsPrimary, HoldsAndWants
  <2> QED
    BY <2>1, <2>2, <2>3, LockInvKept
<1>4. CASE EndDemote(t)
  <2>1. at[t] = "demote" /\ TypeOK' /\ IsStatement(t, "write") /\ own' = own
    BY <1>0, <1>4, EndDemoteAt
  <2>2. \/ \A k \in Meter : own'[t][k] = "same"
        \/ \E k \in Meter : own'[t][k] # "same" /\ rows[k] = "primary"
    BY <2>1 DEF LockInv, HoldsPrimary, HoldsAndWants
  <2> QED
    BY <2>1, <2>2, LockInvKept
<1>5. CASE Write(t)
  <2>1. /\ Free(t, target[t]) /\ TypeOK' /\ IsStatement(t, "commit")
        /\ \A k \in Meter \ {target[t]} : own'[t][k] = own[t][k]
    BY <1>0, <1>5, WriteAt
  <2> QED
    BY <2>1, LockInvKept
<1>6. CASE Delete(t)
  <2>1. /\ Free(t, target[t]) /\ TypeOK' /\ target[t] \in Meter
        /\ IsStatement(t, IF rows[target[t]] = "primary" THEN "next" ELSE "commit")
        /\ \A k \in Meter \ {target[t]} : own'[t][k] = own[t][k]
        /\ own'[t][target[t]] = "absent"
    BY <1>0, <1>6, DeleteAt
  <2>2. CASE rows[target[t]] = "primary"
    <3>1. IsStatement(t, "next")
      BY <2>1, <2>2
    <3> QED
      BY <2>1, <2>2, <3>1, LockInvKept
  <2>3. CASE rows[target[t]] # "primary"
    <3>1. IsStatement(t, "commit")
      BY <2>1, <2>3
    <3> QED
      BY <2>1, <3>1, LockInvKept
  <2> QED
    BY <2>2, <2>3
<1>7. CASE PickHeir(t)
  <2>1. /\ at[t] = "next" /\ TypeOK' /\ own' = own
        /\ IsStatement(t, "commit") \/ IsStatement(t, "write")
    BY <1>0, <1>7, PickHeirAt
  <2>2. \/ \A k \in Meter : own'[t][k] = "same"
        \/ \E k \in Meter : own'[t][k] # "same" /\ rows[k] = "primary"
    BY <2>1 DEF LockInv, HoldsPrimary, HoldsAndWants
  <2> QED
    BY <2>1, <2>2, LockInvKept
<1> QED
  BY <1>1, <1>2, <1>3, <1>4, <1>5, <1>6, <1>7

LEMMA BeginLockInv ==
    ASSUME LockInv, NEW t \in Txn, BeginAdd(t) \/ BeginUpdate(t) \/ BeginRemove(t)
    PROVE  LockInv'
<1>1. TypeOK /\ TypeOK'
  BY BeginTypeOK DEF LockInv
<1>2. /\ at[t] = "idle" /\ UNCHANGED <<rows, own>>
      /\ at'[t] \in {"insert", "scan", "write", "delete"}
      /\ \A u \in Txn \ {t} : at'[u] = at[u]
  BY <1>1, BeginCases DEF Begin, GoTo, TypeOK
<1>3. \A m \in Meter : ~Writes(t, m)
  BY <1>2 DEF LockInv, NothingYet
<1>4. Locks' /\ NothingYet'
  BY <1>2, <1>3 DEF LockInv, Locks, NothingYet, Writes
<1>5. HoldsPrimary'
  BY <1>2, <1>3 DEF LockInv, HoldsPrimary, HoldsAndWants, Writes
<1> QED
  BY <1>1, <1>4, <1>5 DEF LockInv

LEMMA EndLockInv ==
    ASSUME LockInv, NEW t \in Txn, Commit(t) \/ Rollback(t)
    PROVE  LockInv'
<1>1. TypeOK /\ TypeOK' /\ End(t)
  BY EndTypeOK DEF LockInv, Commit, Rollback
<1>2. /\ at'[t] = "idle" /\ \A m \in Meter : own'[t][m] = "same"
      /\ \A u \in Txn \ {t} : at'[u] = at[u] /\ own'[u] = own[u]
  BY <1>1, EndAt
<1>3. \A m \in Meter : rows'[m] = IF Commit(t) THEN View(t, m) ELSE rows[m]
  BY DEF Commit, Rollback, store
<1>4. Locks'
  BY <1>2, LocksKept DEF LockInv
<1>5. NothingYet'
  BY <1>2 DEF LockInv, NothingYet, Writes
<1>6. HoldsPrimary'
  <2> SUFFICES ASSUME NEW u \in Txn, HoldsAndWants(u)'
               PROVE  \E m \in Meter : own'[u][m] # "same" /\ rows'[m] = "primary"
    BY DEF HoldsPrimary, Writes
  <2>1. u # t
    BY <1>2 DEF HoldsAndWants
  <2>2. PICK m \in Meter : Writes(u, m) /\ rows[m] = "primary"
    BY <1>2, <2>1 DEF LockInv, HoldsPrimary, HoldsAndWants, Writes
  <2>3. ~Writes(t, m)
    BY <2>1, <2>2 DEF LockInv, Locks
  <2> QED
    BY <1>2, <1>3, <2>1, <2>2, <2>3 DEF View, Writes
<1> QED
  BY <1>1, <1>4, <1>5, <1>6 DEF LockInv

LEMMA LockInvHolds == Spec => []LockInv
<1>1. Init => LockInv
  <2> SUFFICES ASSUME Init PROVE LockInv
    OBVIOUS
  <2>1. \A t \in Txn : at[t] = "idle" /\ \A m \in Meter : own[t][m] = "same"
    BY DEF Init, Nothing
  <2> QED
    BY <2>1, InitTypeOK DEF LockInv, Locks, NothingYet, HoldsPrimary, HoldsAndWants, Writes
<1>2. ASSUME LockInv, [Next]_vars PROVE LockInv'
  <2>1. CASE UNCHANGED vars
    BY <1>2, <2>1 DEF vars, LockInv, TypeOK, Locks, NothingYet, HoldsPrimary,
                      HoldsAndWants, Writes
  <2>2. CASE Next
    BY <1>2, <2>2, BeginLockInv, EndLockInv, StatementLockInv DEF Next
  <2> QED
    BY <1>2, <2>1, <2>2
<1> QED
  BY <1>1, <1>2, PTL DEF Spec

\* However calls overlap, two of them can only wait for each other, or in a
\* longer ring, while the account has two primary meters.
THEOREM NoRingWithOnePrimary == Spec => []DeadlockNeedsTwoPrimaries
<1>1. LockInv => DeadlockNeedsTwoPrimaries
  <2> SUFFICES ASSUME LockInv, AtMostOnePrimary, NEW t \in Txn, NEW u \in Txn,
                      HoldsAndWants(t), HoldsAndWants(u)
               PROVE  t = u
    BY DEF DeadlockNeedsTwoPrimaries
  <2>1. PICK m \in Meter : Writes(t, m) /\ rows[m] = "primary"
    BY DEF LockInv, HoldsPrimary
  <2>2. PICK k \in Meter : Writes(u, k) /\ rows[k] = "primary"
    BY DEF LockInv, HoldsPrimary
  <2>3. m = k
    BY <2>1, <2>2 DEF AtMostOnePrimary, Primaries
  <2> QED
    BY <2>1, <2>2, <2>3 DEF LockInv, Locks
<1> QED
  BY <1>1, LockInvHolds, PTL

-----------------------------------------------------------------------------
(***************************************************************************)
(* Numbers. The insert is all that claims one; every other statement, and  *)
(* every commit, only writes rows that somebody claims already.            *)
(***************************************************************************)
Claimed(m) == rows[m] # "absent" \/ \E t \in Txn : own[t][m] \in {"plain", "primary"}

ClaimsDistinct ==
    \A m, k \in Meter : Claimed(m) /\ Claimed(k) /\ number[m] = number[k] => m = k

NumberInv == LockInv /\ ClaimsDistinct

\* Nobody holds or is about to hold the number that an insert goes through with.
LEMMA InsertClaims ==
    ASSUME NumberInv, NEW t \in Txn, Insert(t)
    PROVE  ClaimsDistinct'
<1>1. TypeOK
  BY DEF NumberInv, LockInv
<1>2. PICK m \in Meter :
         /\ number'[m] = newNumber[t]
         /\ \A k \in Meter \ {m} : number'[k] = number[k] /\ own'[t][k] = own[t][k]
  BY <1>1, InsertAt
<1>3. /\ at[t] = "insert" /\ rows' = rows
      /\ \A u \in Txn \ {t} : own'[u] = own[u]
  BY <1>1, InsertAt DEF IsStatement, SameCall
<1>4. \A k \in Meter \ {m} : Claimed(k)' => Claimed(k)
  BY <1>2, <1>3 DEF Claimed
<1>5. ASSUME NEW k \in Meter, Claimed(k), number[k] = newNumber[t]
      PROVE  FALSE
  <2>1. own[t][k] = "same"
    BY <1>3 DEF NumberInv, LockInv, NothingYet, Writes
  <2>2. rows[k] = "absent"
    BY <1>5, <2>1 DEF Insert, KeyTaken, View, Writes
  <2>3. \A u \in Txn : own[u][k] = "same"
    BY <1>5, <2>1 DEF Insert, KeyFree, Free, Writes
  <2> QED
    BY <1>5, <2>2, <2>3 DEF Claimed
<1> QED
  BY <1>2, <1>4, <1>5 DEF NumberInv, ClaimsDistinct

\* Everything else leaves the numbers alone and claims nothing new.
LEMMA ClaimsKept ==
    ASSUME ClaimsDistinct, number' = number,
           \A m \in Meter : Claimed(m)' => Claimed(m)
    PROVE  ClaimsDistinct'
BY DEF ClaimsDistinct

LEMMA StatementClaims ==
    ASSUME NumberInv, NEW t \in Txn,
           \/ Scan(t) \/ Demote(t) \/ EndDemote(t)
           \/ Write(t) \/ Delete(t) \/ PickHeir(t)
    PROVE  ClaimsDistinct'
<1>1. TypeOK
  BY DEF NumberInv, LockInv
<1>2. CASE Scan(t)
  BY <1>1, <1>2, ScanAt, ClaimsKept DEF NumberInv, Claimed, IsStatement
<1>3. CASE Demote(t)
  <2>1. PICK m \in Meter :
           /\ own'[t][m] = IF rows[m] = "primary" THEN "plain" ELSE own[t][m]
           /\ \A k \in Meter \ {m} : own'[t][k] = own[t][k]
    BY <1>1, <1>3, DemoteAt
  <2>2. number' = number /\ rows' = rows /\ \A u \in Txn \ {t} : own'[u] = own[u]
    BY <1>1, <1>3, DemoteAt DEF IsStatement, SameCall
  <2>3. \A k \in Meter : Claimed(k)' => Claimed(k)
    BY <2>1, <2>2 DEF Claimed
  <2> QED
    BY <2>2, <2>3, ClaimsKept DEF NumberInv
<1>4. CASE EndDemote(t)
  BY <1>1, <1>4, EndDemoteAt, ClaimsKept DEF NumberInv, Claimed, IsStatement
<1>5. CASE Write(t)
  <2> DEFINE m == target[t]
  <2>1. /\ m \in Meter
        /\ \A k \in Meter \ {m} : own'[t][k] = own[t][k]
        /\ View(t, m) = "absent" => own'[t][m] = own[t][m]
    BY <1>1, <1>5, WriteAt
  <2>2. number' = number /\ rows' = rows /\ \A u \in Txn \ {t} : own'[u] = own[u]
    BY <1>1, <1>5, WriteAt DEF IsStatement, SameCall
  <2>3. View(t, m) # "absent" => Claimed(m)
    BY <1>1, <2>1 DEF TypeOK, RowState, View, Writes, Claimed
  <2> HIDE DEF m
  <2>4. \A k \in Meter : Claimed(k)' => Claimed(k)
    BY <2>1, <2>2, <2>3 DEF Claimed
  <2> QED
    BY <2>2, <2>4, ClaimsKept DEF NumberInv
<1>6. CASE Delete(t)
  <2>1. /\ number' = number /\ rows' = rows
        /\ \A k \in Meter : own'[t][k] \in {"absent", own[t][k]}
    BY <1>1, <1>6, DeleteAt DEF IsStatement
  <2>2. \A u \in Txn \ {t} : own'[u] = own[u]
    BY <1>1, <1>6, DeleteAt DEF IsStatement, SameCall
  <2>3. \A k \in Meter : Claimed(k)' => Claimed(k)
    BY <2>1, <2>2 DEF Claimed
  <2> QED
    BY <2>1, <2>3, ClaimsKept DEF NumberInv
<1>7. CASE PickHeir(t)
  BY <1>1, <1>7, PickHeirAt, ClaimsKept DEF NumberInv, Claimed, IsStatement
<1> QED
  BY <1>2, <1>3, <1>4, <1>5, <1>6, <1>7

LEMMA EndClaims ==
    ASSUME NumberInv, NEW t \in Txn, Commit(t) \/ Rollback(t)
    PROVE  ClaimsDistinct'
<1>1. TypeOK /\ End(t) /\ number' = number
  BY DEF NumberInv, LockInv, Commit, Rollback, store
<1>2. \A m \in Meter : rows'[m] \in {View(t, m), rows[m]}
  BY DEF Commit, Rollback, store
<1>3. \A m \in Meter : own'[t][m] = "same" /\ \A u \in Txn \ {t} : own'[u] = own[u]
  BY <1>1, EndAt
<1>4. \A m \in Meter : View(t, m) # "absent" => Claimed(m)
  BY <1>1 DEF TypeOK, RowState, View, Writes, Claimed
<1>5. \A m \in Meter : Claimed(m)' => Claimed(m)
  BY <1>2, <1>3, <1>4 DEF Claimed
<1> QED
  BY <1>1, <1>5, ClaimsKept DEF NumberInv

\* However calls overlap, no account ever holds a number twice.
THEOREM NumbersStayDistinct == Spec => []NumbersDistinct
<1>1. Init => ClaimsDistinct
  BY DEF Init, ClaimsDistinct, Claimed, Nothing
<1>2. ASSUME LockInv, ClaimsDistinct, [Next]_vars PROVE ClaimsDistinct'
  <2>1. CASE UNCHANGED vars
    BY <1>2, <2>1 DEF vars, ClaimsDistinct, Claimed
  <2>2. ASSUME NEW t \in Txn, BeginAdd(t) \/ BeginUpdate(t) \/ BeginRemove(t)
        PROVE  ClaimsDistinct'
    <3>1. UNCHANGED <<number, rows, own>>
      BY <1>2, <2>2, BeginCases DEF LockInv, Begin
    <3> QED
      BY <1>2, <3>1 DEF ClaimsDistinct, Claimed
  <2>3. CASE Next
    BY <1>2, <2>2, <2>3, InsertClaims, StatementClaims, EndClaims DEF Next, NumberInv
  <2> QED
    BY <1>2, <2>1, <2>3
<1>3. ClaimsDistinct => NumbersDistinct
  BY DEF ClaimsDistinct, NumbersDistinct, Held, Claimed
<1> QED
  BY <1>1, <1>2, <1>3, LockInvHolds, PTL DEF Spec

-----------------------------------------------------------------------------
(***************************************************************************)
(* Some primary. While no removal overlaps another call, what a call has   *)
(* seen of the account stays true until it commits: the meter it promotes  *)
(* is still there, and an account that held a meter still holds one. So    *)
(* each commit leaves a primary meter, whatever the others do.             *)
(***************************************************************************)
KindSound(t) ==
    /\ at[t] = "insert" => kind[t] = "add"
    /\ at[t] \in {"scan", "demote"} => kind[t] = "update" /\ promote[t]
    /\ at[t] \in {"delete", "next"} => kind[t] = "remove"
    /\ at[t] = "write" =>
          kind[t] = "update" \/ (kind[t] = "remove" /\ promote[t])

AddSound(t) ==
    kind[t] = "add" /\ at[t] # "idle" =>
        /\ promote[t] \/ Held # {}
        /\ \A m \in Meter : Writes(t, m) => rows[m] = "absent" /\ own[t][m] # "absent"
        /\ at[t] = "commit" /\ promote[t] => \E m \in Meter : own[t][m] = "primary"

UpdateSound(t) ==
    kind[t] = "update" /\ at[t] # "idle" =>
        /\ target[t] \in Meter /\ rows[target[t]] # "absent"
        /\ \A m \in Meter : own[t][m] # "absent"
        /\ ~promote[t] => \A m \in Meter : own[t][m] \in {"same", rows[m]}
        /\ at[t] = "commit" /\ promote[t] => own[t][target[t]] = "primary"

RemoveSound(t) ==
    kind[t] = "remove" =>
        /\ at[t] = "write" => View(t, target[t]) # "absent"
        /\ at[t] = "commit" =>
              \/ \A m \in Meter : View(t, m) = "absent"
              \/ \E m \in Meter : View(t, m) = "primary"

RemovalAlone ==
    \A t, u \in Txn :
        at[t] # "idle" /\ at[u] # "idle" /\ kind[t] = "remove" => t = u

KindInv == \A t \in Txn : KindSound(t)

QuietInv ==
    ~removalRaced =>
        /\ SomePrimary
        /\ RemovalAlone
        /\ \A t \in Txn : AddSound(t) /\ UpdateSound(t) /\ RemoveSound(t)

SomeInv == LockInv /\ KindInv /\ QuietInv

\* A statement changes no committed row, so that only its own call has to be
\* looked at.
LEMMA StatementKeepsOthers ==
    ASSUME SomeInv, NEW t \in Txn, NEW statement, statement # "idle", at[t] # "idle",
           IsStatement(t, statement), KindSound(t)',
           ~removalRaced => AddSound(t)' /\ UpdateSound(t)' /\ RemoveSound(t)'
    PROVE  KindInv' /\ QuietInv'
<1>1. ASSUME NEW u \in Txn \ {t}
      PROVE  /\ KindSound(u) => KindSound(u)'
             /\ AddSound(u) => AddSound(u)'
             /\ UpdateSound(u) => UpdateSound(u)'
             /\ RemoveSound(u) => RemoveSound(u)'
  BY DEF IsStatement, SameCall, KindSound, AddSound, UpdateSound, RemoveSound,
         Held, View, Writes
<1>2. SomePrimary => SomePrimary'
  BY DEF IsStatement, SomePrimary, Held, Primaries
<1>3. RemovalAlone => RemovalAlone'
  BY DEF IsStatement, SameCall, RemovalAlone
<1>4. removalRaced' = removalRaced
  BY DEF IsStatement
<1> QED
  BY <1>1, <1>2, <1>3, <1>4 DEF SomeInv, KindInv, QuietInv

LEMMA StatementSomeInv ==
    ASSUME SomeInv, NEW t \in Txn,
           \/ Insert(t) \/ Scan(t) \/ Demote(t) \/ EndDemote(t)
           \/ Write(t) \/ Delete(t) \/ PickHeir(t)
    PROVE  KindInv' /\ QuietInv'
<1> USE DEF Writes
<1>0. /\ TypeOK /\ KindSound(t)
      /\ ~removalRaced => /\ SomePrimary
                          /\ AddSound(t) /\ UpdateSound(t) /\ RemoveSound(t)
  BY DEF SomeInv, LockInv, KindInv, QuietInv
<1>1. CASE Insert(t)
  <2>1. PICK m \in Meter :
           /\ number[m] = NoNumber
           /\ own'[t][m] = IF promote[t] THEN "primary" ELSE "plain"
           /\ \A k \in Meter \ {m} : own'[t][k] = own[t][k]
    BY <1>0, <1>1, InsertAt
  <2>2. /\ at[t] = "insert" /\ IsStatement(t, "commit") /\ promote' = promote
        /\ at'[t] = "commit" /\ kind'[t] = kind[t] /\ rows' = rows
    BY <1>0, <1>1, InsertAt DEF IsStatement
  <2>3. kind[t] = "add" /\ rows[m] = "absent"
    BY <1>0, <2>1, <2>2 DEF KindSound, TypeOK
  <2>4. KindSound(t)' /\ UpdateSound(t)' /\ RemoveSound(t)'
    BY <2>2, <2>3 DEF KindSound, UpdateSound, RemoveSound
  <2>5. AddSound(t) => AddSound(t)'
    BY <2>1, <2>2, <2>3 DEF AddSound, Held
  <2> QED
    BY <1>0, <2>2, <2>4, <2>5, StatementKeepsOthers
<1>2. CASE Scan(t)
  <2>1. /\ at[t] = "scan" /\ IsStatement(t, "demote")
        /\ at'[t] = "demote" /\ kind'[t] = kind[t] /\ rows' = rows
        /\ UNCHANGED <<own, target, promote>>
    BY <1>0, <1>2, ScanAt DEF IsStatement
  <2>2. /\ KindSound(t)' /\ AddSound(t)' /\ RemoveSound(t)'
        /\ UpdateSound(t) => UpdateSound(t)'
    BY <1>0, <2>1 DEF KindSound, AddSound, UpdateSound, RemoveSound
  <2> QED
    BY <1>0, <2>1, <2>2, StatementKeepsOthers
<1>3. CASE Demote(t)
  <2>1. /\ at[t] = "demote" /\ IsStatement(t, "demote")
        /\ at'[t] = "demote" /\ kind'[t] = kind[t] /\ rows' = rows
        /\ UNCHANGED <<target, promote>>
        /\ \A k \in Meter : own'[t][k] \in {"plain", own[t][k]}
    BY <1>0, <1>3, DemoteAt DEF IsStatement
  <2>2. /\ KindSound(t)' /\ AddSound(t)' /\ RemoveSound(t)'
        /\ UpdateSound(t) => UpdateSound(t)'
    BY <1>0, <2>1 DEF KindSound, AddSound, UpdateSound, RemoveSound
  <2> QED
    BY <1>0, <2>1, <2>2, StatementKeepsOthers
<1>4. CASE EndDemote(t)
  <2>1. /\ at[t] = "demote" /\ IsStatement(t, "write")
        /\ at'[t] = "write" /\ kind'[t] = kind[t] /\ rows' = rows
        /\ UNCHANGED <<own, target, promote>>
    BY <1>0, <1>4, EndDemoteAt DEF IsStatement
  <2>2. /\ KindSound(t)' /\ AddSound(t)' /\ RemoveSound(t)'
        /\ UpdateSound(t) => UpdateSound(t)'
    BY <1>0, <2>1 DEF KindSound, AddSound, UpdateSound, RemoveSound
  <2> QED
    BY <1>0, <2>1, <2>2, StatementKeepsOthers
<1>5. CASE Write(t)
  <2>1. /\ at[t] = "write" /\ IsStatement(t, "commit")
        /\ at'[t] = "commit" /\ kind'[t] = kind[t] /\ rows' = rows
        /\ UNCHANGED <<target, promote>>
    BY <1>0, <1>5, WriteAt DEF IsStatement
  <2>2. /\ target[t] \in Meter
        /\ \A k \in Meter \ {target[t]} : own'[t][k] = own[t][k]
        /\ own'[t][target[t]] =
              IF View(t, target[t]) = "absent" THEN own[t][target[t]]
              ELSE IF promote[t] THEN "primary" ELSE rows[target[t]]
    BY <1>0, <1>5, WriteAt
  <2>3. KindSound(t)' /\ AddSound(t)'
    BY <1>0, <2>1 DEF KindSound, AddSound
  <2>4. UpdateSound(t) => UpdateSound(t)'
    BY <2>1, <2>2 DEF UpdateSound, View
  <2>5. RemoveSound(t) => RemoveSound(t)'
    <3> SUFFICES ASSUME RemoveSound(t), kind[t] = "remove"
                 PROVE  \E m \in Meter : View(t, m)' = "primary"
      BY <2>1 DEF RemoveSound
    <3>1. own'[t][target[t]] = "primary"
      BY <1>0, <2>1, <2>2 DEF RemoveSound, KindSound
    <3> QED
      BY <2>2, <3>1 DEF View
  <2> QED
    BY <1>0, <2>1, <2>3, <2>4, <2>5, StatementKeepsOthers
<1>6. CASE Delete(t)
  <2> DEFINE statement == IF rows[target[t]] = "primary" THEN "next" ELSE "commit"
  <2>1. /\ at[t] = "delete" /\ IsStatement(t, statement)
        /\ at'[t] = statement /\ kind'[t] = kind[t] /\ rows' = rows
        /\ UNCHANGED <<target, promote>>
        /\ target[t] \in Meter /\ rows[target[t]] # "absent"
        /\ \A k \in Meter \ {target[t]} : own'[t][k] = own[t][k]
    BY <1>0, <1>6, DeleteAt DEF IsStatement
  <2>2. kind[t] = "remove" /\ statement \in {"next", "commit"}
    BY <1>0, <2>1 DEF KindSound
  <2>3. KindSound(t)' /\ AddSound(t)' /\ UpdateSound(t)'
    BY <2>1, <2>2 DEF KindSound, AddSound, UpdateSound
  <2>4. SomePrimary => RemoveSound(t)'
    <3> SUFFICES ASSUME SomePrimary, statement = "commit"
                 PROVE  \E m \in Meter : View(t, m)' = "primary"
      BY <2>1, <2>2 DEF RemoveSound
    <3>1. PICK m \in Meter : rows[m] = "primary"
      BY <2>1 DEF SomePrimary, Held, Primaries
    <3>2. own'[t][m] = "same"
      BY <2>1, <3>1 DEF SomeInv, LockInv, NothingYet
    <3> QED
      BY <2>1, <3>1, <3>2 DEF View
  <2> HIDE DEF statement
  <2> QED
    BY <1>0, <2>1, <2>2, <2>3, <2>4, StatementKeepsOthers
<1>7. CASE PickHeir(t)
  <2>1. /\ at[t] = "next" /\ UNCHANGED own
        /\ \/ /\ IsStatement(t, "commit")
              /\ \A m \in Meter : View(t, m) = "absent"
           \/ /\ IsStatement(t, "write")
              /\ promote'[t] = TRUE
              /\ View(t, target'[t]) # "absent"
    BY <1>0, <1>7, PickHeirAt
  <2>2. kind[t] = "remove"
    BY <1>0, <2>1 DEF KindSound
  <2>3. CASE IsStatement(t, "commit") /\ \A m \in Meter : View(t, m) = "absent"
    <3>1. KindSound(t)' /\ AddSound(t)' /\ UpdateSound(t)' /\ RemoveSound(t)'
      BY <2>1, <2>2, <2>3 DEF IsStatement, KindSound, AddSound, UpdateSound, RemoveSound, View
    <3> QED
      BY <2>1, <2>3, <3>1, StatementKeepsOthers
  <2>4. CASE /\ IsStatement(t, "write")
             /\ promote'[t] = TRUE
             /\ View(t, target'[t]) # "absent"
    <3>1. KindSound(t)' /\ AddSound(t)' /\ UpdateSound(t)' /\ RemoveSound(t)'
      BY <2>1, <2>2, <2>4 DEF IsStatement, KindSound, AddSound, UpdateSound, RemoveSound, View
    <3> QED
      BY <2>1, <2>4, <3>1, StatementKeepsOthers
  <2> QED
    BY <2>1, <2>3, <2>4
<1> QED
  BY <1>1, <1>2, <1>3, <1>4, <1>5, <1>6, <1>7

LEMMA BeginSomeInv ==
    ASSUME SomeInv, NEW t \in Txn, BeginAdd(t) \/ BeginUpdate(t) \/ BeginRemove(t)
    PROVE  KindInv' /\ QuietInv'
<1>0. TypeOK
  BY DEF SomeInv, LockInv
<1>1. ASSUME NEW statement \in {"insert", "scan", "write", "delete"},
             NEW op \in {"add", "update", "remove"}, NEW m \in Meter \union {0},
             NEW flag \in BOOLEAN, NEW n \in Number \union {NoNumber},
             statement = "insert" => n \in Number,
             statement # "insert" => m \in Meter,
             Begin(t, statement, op, m, flag, n),
             statement = "insert" => op = "add" /\ (flag \/ Held # {}),
             statement = "scan" => op = "update" /\ flag,
             statement = "delete" => op = "remove",
             statement = "write" => op = "update",
             op = "update" => rows[m] # "absent"
      PROVE  KindInv' /\ QuietInv'
  <2>1. /\ at[t] = "idle" /\ at'[t] = statement /\ kind'[t] = op
        /\ target'[t] = m /\ promote'[t] = flag
        /\ \A u \in Txn \ {t} :
              /\ at'[u] = at[u] /\ kind'[u] = kind[u] /\ target'[u] = target[u]
              /\ promote'[u] = promote[u]
        /\ UNCHANGED <<rows, own>>
    <3>1. statement \in Statement \ {"idle"}
      BY DEF Statement
    <3> QED
      BY <1>0, <1>1, <3>1, BeginAt
  <2>2. \A k \in Meter : own'[t][k] = "same"
    BY <2>1 DEF SomeInv, LockInv, NothingYet, Writes
  <2>3. KindSound(t)'
    BY <1>1, <2>1 DEF KindSound
  <2>4. AddSound(t)' /\ UpdateSound(t)' /\ RemoveSound(t)'
    BY <1>1, <2>1, <2>2 DEF AddSound, UpdateSound, RemoveSound, Held, Writes
  <2>5. ASSUME NEW u \in Txn \ {t}
        PROVE  /\ KindSound(u) => KindSound(u)'
               /\ AddSound(u) => AddSound(u)'
               /\ UpdateSound(u) => UpdateSound(u)'
               /\ RemoveSound(u) => RemoveSound(u)'
    BY <2>1 DEF KindSound, AddSound, UpdateSound, RemoveSound, Held, View, Writes
  <2>6. SomePrimary => SomePrimary'
    BY <2>1 DEF SomePrimary, Held, Primaries
  <2>7. /\ ~removalRaced' => ~removalRaced
        /\ ~removalRaced' =>
              \/ Active = {}
              \/ op # "remove" /\ (\A u \in Active : kind[u] # "remove")
    BY <1>1 DEF Begin
  <2>8. ~removalRaced' /\ RemovalAlone => RemovalAlone'
    BY <2>1, <2>7 DEF RemovalAlone, Active
  <2> QED
    BY <2>3, <2>4, <2>5, <2>6, <2>7, <2>8 DEF SomeInv, KindInv, QuietInv
<1>2. CASE BeginAdd(t)
  <2>1. PICK n \in Number :
           Begin(t, "insert", "add", 0, \A m \in Meter : rows[m] = "absent", n)
    BY <1>2, Zenon DEF BeginAdd
  <2>2. (\A m \in Meter : rows[m] = "absent") \/ Held # {}
    BY DEF Held
  <2> DEFINE first == \A m \in Meter : rows[m] = "absent"
  <2>3. first \in BOOLEAN
    OBVIOUS
  <2> HIDE DEF first
  <2>4. Begin(t, "insert", "add", 0, first, n) /\ (first \/ Held # {})
    BY <2>1, <2>2 DEF first
  <2> QED
    BY <1>1, <2>3, <2>4
<1>3. CASE BeginUpdate(t)
  <2>1. \E m \in Meter : /\ rows[m] # "absent"
                         /\ \/ Begin(t, "scan", "update", m, TRUE, NoNumber)
                            \/ Begin(t, "write", "update", m, FALSE, NoNumber)
    BY <1>3, Zenon DEF BeginUpdate
  <2> QED
    BY <1>1, <2>1
<1>4. CASE BeginRemove(t)
  <2>1. \E m \in Meter : Begin(t, "delete", "remove", m, FALSE, NoNumber)
    BY <1>4, Zenon DEF BeginRemove
  <2> QED
    BY <1>1, <2>1
<1> QED
  BY <1>2, <1>3, <1>4

\* What a commit leaves, by kind of call.
LEMMA CommitKeepsSome ==
    ASSUME SomeInv, NEW t \in Txn, Commit(t), ~removalRaced
    PROVE  SomePrimary'
<1>1. /\ TypeOK /\ SomePrimary /\ AddSound(t) /\ UpdateSound(t) /\ RemoveSound(t)
      /\ at[t] = "commit"
      /\ \A m \in Meter : rows'[m] = View(t, m)
  BY DEF SomeInv, LockInv, QuietInv, Commit
<1>2. SUFFICES \/ \A m \in Meter : View(t, m) = "absent"
               \/ \E m \in Meter : View(t, m) = "primary"
  BY <1>1 DEF SomePrimary, Held, Primaries
<1>3. CASE kind[t] = "add"
  <2>1. CASE promote[t]
    BY <1>1, <1>3, <2>1 DEF AddSound, View, Writes
  <2>2. CASE ~promote[t]
    <3>1. PICK m \in Meter : rows[m] = "primary"
      BY <1>1, <1>3, <2>2 DEF AddSound, SomePrimary, Primaries
    <3> QED
      BY <1>1, <1>3, <3>1 DEF AddSound, View
  <2> QED
    BY <2>1, <2>2
<1>4. CASE kind[t] = "update"
  <2>1. CASE promote[t]
    BY <1>1, <1>4, <2>1 DEF UpdateSound, View, Writes
  <2>2. CASE ~promote[t]
    <3>1. PICK m \in Meter : rows[m] = "primary"
      BY <1>1, <1>4, <2>2 DEF UpdateSound, SomePrimary, Held, Primaries
    <3> QED
      BY <1>1, <1>4, <2>2, <3>1 DEF UpdateSound, View, Writes
  <2> QED
    BY <2>1, <2>2
<1>5. CASE kind[t] = "remove"
  BY <1>1, <1>5 DEF RemoveSound
<1> QED
  BY <1>1, <1>3, <1>4, <1>5 DEF TypeOK

LEMMA EndSomeInv ==
    ASSUME SomeInv, NEW t \in Txn, Commit(t) \/ Rollback(t)
    PROVE  KindInv' /\ QuietInv'
<1>1. TypeOK /\ End(t) /\ at[t] # "idle"
  BY DEF SomeInv, LockInv, Commit, Rollback
<1>2. /\ at'[t] = "idle" /\ kind'[t] = "add"
      /\ \A u \in Txn \ {t} :
            /\ at'[u] = at[u] /\ own'[u] = own[u] /\ kind'[u] = kind[u]
            /\ target'[u] = target[u] /\ promote'[u] = promote[u]
      /\ removalRaced' = removalRaced
  <2>1. kind'[t] = "add"
    BY <1>1 DEF End, TypeOK
  <2> QED
    BY <1>1, <2>1, EndAt
<1>3. KindInv'
  BY <1>2 DEF SomeInv, KindInv, KindSound
<1>4. CASE Rollback(t)
  <2>1. rows' = rows
    BY <1>4 DEF Rollback, store
  <2>2. ASSUME NEW u \in Txn, AddSound(u), UpdateSound(u), RemoveSound(u)
        PROVE  AddSound(u)' /\ UpdateSound(u)' /\ RemoveSound(u)'
    BY <1>2, <2>1, <2>2 DEF AddSound, UpdateSound, RemoveSound, Held, View, Writes
  <2>3. (SomePrimary => SomePrimary') /\ (RemovalAlone => RemovalAlone')
    BY <1>2, <2>1 DEF SomePrimary, Held, Primaries, RemovalAlone
  <2> QED
    BY <1>2, <1>3, <2>2, <2>3 DEF SomeInv, QuietInv
<1>5. CASE Commit(t)
  <2> SUFFICES ASSUME ~removalRaced PROVE QuietInv'
    BY <1>2, <1>3 DEF QuietInv
  <2>1. /\ RemovalAlone /\ AddSound(t) /\ UpdateSound(t)
        /\ \A u \in Txn : AddSound(u) /\ UpdateSound(u) /\ RemoveSound(u)
    BY DEF SomeInv, QuietInv
  <2>2. \A m \in Meter : rows'[m] = View(t, m)
    BY <1>5 DEF Commit
  <2>3. ASSUME NEW u \in Txn
        PROVE  AddSound(u)' /\ UpdateSound(u)' /\ RemoveSound(u)'
    <3>1. CASE u = t \/ at[u] = "idle"
      BY <1>2, <3>1 DEF AddSound, UpdateSound, RemoveSound
    <3>2. CASE u # t /\ at[u] # "idle"
      <4>1. kind[t] # "remove" /\ kind[u] # "remove"
        BY <1>1, <2>1, <3>2 DEF RemovalAlone
      <4>2. \A m \in Meter : rows[m] # "absent" => rows'[m] # "absent"
        BY <1>1, <2>1, <2>2, <4>1 DEF AddSound, UpdateSound, View, Writes, TypeOK
      <4>3. \A m \in Meter : Writes(u, m) => rows'[m] = rows[m]
        BY <2>2, <3>2 DEF SomeInv, LockInv, Locks, View
      <4>4. AddSound(u)'
        BY <1>2, <2>1, <3>2, <4>2, <4>3 DEF AddSound, Held, Writes
      <4>5. UpdateSound(u)'
        BY <1>2, <2>1, <3>2, <4>2, <4>3 DEF UpdateSound, Writes
      <4> QED
        BY <1>2, <3>2, <4>1, <4>4, <4>5 DEF RemoveSound
    <3> QED
      BY <3>1, <3>2
  <2>4. RemovalAlone'
    BY <1>2, <2>1 DEF RemovalAlone
  <2> QED
    BY <1>5, <2>3, <2>4, CommitKeepsSome DEF QuietInv
<1> QED
  BY <1>4, <1>5

LEMMA SomeInvHolds == Spec => [](LockInv /\ KindInv /\ QuietInv)
<1>1. Init => KindInv /\ QuietInv
  <2> SUFFICES ASSUME Init PROVE KindInv /\ QuietInv
    OBVIOUS
  <2>1. \A t \in Txn : at[t] = "idle" /\ kind[t] = "add"
    BY DEF Init
  <2>2. SomePrimary
    BY DEF Init, SomePrimary, Held
  <2> QED
    BY <2>1, <2>2 DEF KindInv, KindSound, QuietInv, AddSound, UpdateSound,
                      RemoveSound, RemovalAlone
<1>2. ASSUME LockInv, KindInv, QuietInv, [Next]_vars PROVE KindInv' /\ QuietInv'
  <2>1. CASE UNCHANGED vars
    BY <1>2, <2>1 DEF vars, KindInv, KindSound, QuietInv, AddSound, UpdateSound,
         RemoveSound, RemovalAlone, SomePrimary, Held, Primaries, View, Writes
  <2>2. CASE Next
    BY <1>2, <2>2, BeginSomeInv, EndSomeInv, StatementSomeInv DEF Next, SomeInv
  <2> QED
    BY <1>2, <2>1, <2>2
<1> QED
  BY <1>1, <1>2, LockInvHolds, PTL DEF Spec

\* As long as no removal overlaps another call, an account that holds meters
\* has a primary one, however adding, promoting and renaming overlap.
THEOREM PromotionsKeepSome == Spec => []SomePrimaryUnlessRemoved
<1>1. QuietInv => SomePrimaryUnlessRemoved
  BY DEF QuietInv, SomePrimaryUnlessRemoved
<1> QED
  BY <1>1, SomeInvHolds, PTL

-----------------------------------------------------------------------------
(***************************************************************************)
(* One primary. While calls come in turn, what a call will leave can be    *)
(* read off what it sees: the first add sees no meter, a promotion has     *)
(* demoted, or still lists, every other primary, a removal of the primary  *)
(* sees none.                                                              *)
(***************************************************************************)
OneSound(t) ==
    /\ at[t] = "insert" /\ promote[t] => Held = {}
    /\ at[t] = "demote" =>
          /\ \A m \in Meter : own[t][m] # "primary"
          /\ \A m \in Meter \ {target[t]} : View(t, m) = "primary" => m \in todo[t]
    /\ at[t] = "write" /\ promote[t] =>
          \A m \in Meter \ {target[t]} : View(t, m) # "primary"
    /\ at[t] = "write" /\ ~promote[t] => \A m \in Meter : ~Writes(t, m)
    /\ at[t] = "next" => \A m \in Meter : View(t, m) # "primary"
    /\ at[t] = "commit" =>
          \A m, k \in Meter : View(t, m) = "primary" /\ View(t, k) = "primary" => m = k

OneAtATime == \A t, u \in Txn : at[t] # "idle" /\ at[u] # "idle" => t = u

TurnInv ==
    /\ removalRaced => overlapped
    /\ ~overlapped =>
          OneAtATime /\ AtMostOnePrimary /\ \A t \in Txn : OneSound(t)

LEMMA StatementTurnInv ==
    ASSUME SomeInv, TurnInv, NEW t \in Txn,
           \/ Insert(t) \/ Scan(t) \/ Demote(t) \/ EndDemote(t)
           \/ Write(t) \/ Delete(t) \/ PickHeir(t)
    PROVE  TurnInv'
<1> USE DEF Writes, View
<1>0. /\ TypeOK /\ KindSound(t)
      /\ ~overlapped => OneAtATime /\ AtMostOnePrimary /\ OneSound(t)
      /\ at[t] \in {"insert", "scan", "delete"} => \A m \in Meter : own[t][m] = "same"
      /\ AtMostOnePrimary =>
            \A m, k \in Meter : rows[m] = "primary" /\ rows[k] = "primary" => m = k
  BY DEF SomeInv, LockInv, NothingYet, KindInv, TurnInv, AtMostOnePrimary, Primaries
<1>1. ASSUME NEW statement, IsStatement(t, statement), statement # "idle", at[t] # "idle",
             ~overlapped => OneSound(t)'
      PROVE  TurnInv'
  <2>1. /\ overlapped' = overlapped /\ removalRaced' = removalRaced
        /\ AtMostOnePrimary => AtMostOnePrimary'
        /\ OneAtATime => OneAtATime'
    BY <1>1 DEF IsStatement, SameCall, AtMostOnePrimary, Primaries, OneAtATime
  <2>2. ASSUME NEW u \in Txn \ {t}, OneSound(u)
        PROVE  OneSound(u)'
    BY <1>1, <2>2 DEF IsStatement, SameCall, OneSound, Held
  <2> QED
    BY <1>1, <2>1, <2>2 DEF TurnInv
<1>2. CASE Insert(t)
  <2>1. PICK m \in Meter :
           /\ own'[t][m] = IF promote[t] THEN "primary" ELSE "plain"
           /\ \A k \in Meter \ {m} : own'[t][k] = own[t][k]
    BY <1>0, <1>2, InsertAt
  <2>2. /\ at[t] = "insert" /\ IsStatement(t, "commit") /\ promote' = promote
        /\ at'[t] = "commit" /\ rows' = rows
    BY <1>0, <1>2, InsertAt DEF IsStatement
  <2>3. OneSound(t) /\ AtMostOnePrimary => OneSound(t)'
    BY <1>0, <2>1, <2>2 DEF OneSound, Held
  <2> QED
    BY <1>0, <1>1, <2>2, <2>3
<1>3. CASE Scan(t)
  <2>1. /\ at[t] = "scan" /\ IsStatement(t, "demote")
        /\ at'[t] = "demote" /\ rows' = rows /\ UNCHANGED <<own, target, promote>>
        /\ todo'[t] = {m \in Meter \ {target[t]} : rows[m] = "primary"}
    BY <1>0, <1>3, ScanAt DEF IsStatement
  <2>2. OneSound(t)'
    BY <1>0, <2>1 DEF OneSound
  <2> QED
    BY <1>1, <2>1, <2>2
<1>4. CASE Demote(t)
  <2>1. PICK m \in Meter :
           /\ todo'[t] = todo[t] \ {m}
           /\ own'[t][m] = IF rows[m] = "primary" THEN "plain" ELSE own[t][m]
           /\ \A k \in Meter \ {m} : own'[t][k] = own[t][k]
    BY <1>0, <1>4, DemoteAt
  <2>2. /\ at[t] = "demote" /\ IsStatement(t, "demote")
        /\ at'[t] = "demote" /\ rows' = rows /\ UNCHANGED <<target, promote>>
    BY <1>0, <1>4, DemoteAt DEF IsStatement
  <2>3. OneSound(t) => OneSound(t)'
    BY <2>1, <2>2 DEF OneSound
  <2> QED
    BY <1>0, <1>1, <2>2, <2>3
<1>5. CASE EndDemote(t)
  <2>1. /\ at[t] = "demote" /\ todo[t] = {} /\ IsStatement(t, "write")
        /\ at'[t] = "write" /\ rows' = rows
        /\ UNCHANGED <<own, target, promote>>
    BY <1>0, <1>5, EndDemoteAt DEF IsStatement
  <2>2. OneSound(t) => OneSound(t)'
    BY <1>0, <2>1 DEF OneSound, KindSound
  <2> QED
    BY <1>0, <1>1, <2>1, <2>2
<1>6. CASE Write(t)
  <2>1. /\ at[t] = "write" /\ IsStatement(t, "commit")
        /\ at'[t] = "commit" /\ rows' = rows /\ UNCHANGED <<target, promote>>
    BY <1>0, <1>6, WriteAt DEF IsStatement
  <2>2. /\ target[t] \in Meter
        /\ \A k \in Meter \ {target[t]} : own'[t][k] = own[t][k]
        /\ own'[t][target[t]] =
              IF View(t, target[t]) = "absent" THEN own[t][target[t]]
              ELSE IF promote[t] THEN "primary" ELSE rows[target[t]]
    BY <1>0, <1>6, WriteAt
  <2>3. OneSound(t) /\ AtMostOnePrimary => OneSound(t)'
    <3>1. CASE promote[t]
      BY <2>1, <2>2, <3>1 DEF OneSound
    <3>2. CASE ~promote[t]
      BY <1>0, <2>1, <2>2, <3>2 DEF OneSound
    <3> QED
      BY <3>1, <3>2
  <2> QED
    BY <1>0, <1>1, <2>1, <2>3
<1>7. CASE Delete(t)
  <2> DEFINE statement == IF rows[target[t]] = "primary" THEN "next" ELSE "commit"
  <2>1. /\ at[t] = "delete" /\ IsStatement(t, statement)
        /\ at'[t] = statement /\ rows' = rows /\ UNCHANGED <<target, promote>>
        /\ target[t] \in Meter
        /\ \A k \in Meter \ {target[t]} : own'[t][k] = own[t][k]
        /\ own'[t][target[t]] = "absent"
    BY <1>0, <1>7, DeleteAt DEF IsStatement
  <2>2. AtMostOnePrimary => OneSound(t)'
    BY <1>0, <2>1 DEF OneSound
  <2>3. statement # "idle"
    OBVIOUS
  <2> HIDE DEF statement
  <2> QED
    BY <1>0, <1>1, <2>1, <2>2, <2>3
<1>8. CASE PickHeir(t)
  <2>1. /\ at[t] = "next" /\ UNCHANGED own
        /\ IsStatement(t, "commit") \/ (IsStatement(t, "write") /\ promote'[t] = TRUE)
    BY <1>0, <1>8, PickHeirAt
  <2>2. OneSound(t) => OneSound(t)'
    BY <2>1 DEF OneSound, IsStatement
  <2> QED
    BY <1>0, <1>1, <2>1, <2>2
<1> QED
  BY <1>2, <1>3, <1>4, <1>5, <1>6, <1>7, <1>8

LEMMA BeginTurnInv ==
    ASSUME SomeInv, TurnInv, NEW t \in Txn, BeginAdd(t) \/ BeginUpdate(t) \/ BeginRemove(t)
    PROVE  TurnInv'
<1>0. TypeOK
  BY DEF SomeInv, LockInv
<1>1. /\ at[t] = "idle" /\ UNCHANGED <<rows, own, todo>>
      /\ \A u \in Txn \ {t} :
            at'[u] = at[u] /\ target'[u] = target[u] /\ promote'[u] = promote[u]
      /\ overlapped' = (overlapped \/ Active # {})
      /\ removalRaced' => removalRaced \/ Active # {}
  BY <1>0, BeginCases DEF Begin, GoTo, TypeOK
<1>2. /\ at'[t] \in {"insert", "scan", "write", "delete"}
      /\ at'[t] = "insert" /\ promote'[t] => \A m \in Meter : rows[m] = "absent"
      /\ at'[t] = "write" => ~promote'[t]
  BY <1>0, BeginCases DEF Begin, GoTo, TypeOK
<1>3. \A m \in Meter : ~Writes(t, m)
  BY <1>1 DEF SomeInv, LockInv, NothingYet
<1>4. OneSound(t)'
  BY <1>1, <1>2, <1>3 DEF OneSound, Held, Writes
<1>5. ASSUME NEW u \in Txn \ {t}, OneSound(u)
      PROVE  OneSound(u)'
  BY <1>1, <1>5 DEF OneSound, Held, View, Writes
<1>6. AtMostOnePrimary => AtMostOnePrimary'
  BY <1>1 DEF AtMostOnePrimary, Primaries
<1>7. Active = {} => OneAtATime'
  BY <1>1 DEF Active, OneAtATime
<1> QED
  BY <1>1, <1>4, <1>5, <1>6, <1>7 DEF TurnInv

LEMMA EndTurnInv ==
    ASSUME SomeInv, TurnInv, NEW t \in Txn, Commit(t) \/ Rollback(t)
    PROVE  TurnInv'
<1>1. TypeOK /\ End(t) /\ at[t] # "idle"
  BY DEF SomeInv, LockInv, Commit, Rollback
<1>2. /\ at'[t] = "idle" /\ \A u \in Txn \ {t} : at'[u] = at[u]
      /\ removalRaced' = removalRaced /\ overlapped' = overlapped
  BY <1>1, EndAt
<1> SUFFICES ASSUME ~overlapped
             PROVE  OneAtATime' /\ AtMostOnePrimary' /\ \A u \in Txn : OneSound(u)'
  BY <1>2 DEF TurnInv
<1>3. OneAtATime /\ AtMostOnePrimary /\ OneSound(t)
  BY DEF TurnInv
<1>4. \A u \in Txn : at'[u] = "idle"
  BY <1>1, <1>2, <1>3 DEF OneAtATime
<1>5. AtMostOnePrimary'
  <2>1. CASE Commit(t)
    BY <1>3, <2>1 DEF Commit, OneSound, AtMostOnePrimary, Primaries
  <2>2. CASE Rollback(t)
    BY <1>3, <2>2 DEF Rollback, store, AtMostOnePrimary, Primaries
  <2> QED
    BY <2>1, <2>2
<1> QED
  BY <1>4, <1>5 DEF OneAtATime, OneSound

\* As long as an account's calls come one after the other, it has exactly one
\* primary meter whenever it holds any, whichever calls fail midway.
THEOREM CallsInTurnKeepOne == Spec => []OnePrimaryInTurn
<1>1. Init => TurnInv
  <2> SUFFICES ASSUME Init PROVE TurnInv
    OBVIOUS
  <2>1. /\ \A t \in Txn : at[t] = "idle"
        /\ AtMostOnePrimary /\ ~removalRaced
    BY DEF Init, AtMostOnePrimary, Primaries
  <2> QED
    BY <2>1 DEF TurnInv, OneAtATime, OneSound
<1>2. ASSUME LockInv, KindInv, QuietInv, TurnInv, [Next]_vars PROVE TurnInv'
  <2>1. CASE UNCHANGED vars
    BY <1>2, <2>1 DEF vars, TurnInv, OneAtATime, OneSound, AtMostOnePrimary,
                      Held, Primaries, View, Writes
  <2>2. CASE Next
    BY <1>2, <2>2, BeginTurnInv, EndTurnInv, StatementTurnInv DEF Next, SomeInv
  <2> QED
    BY <1>2, <2>1, <2>2
<1>3. QuietInv /\ TurnInv => OnePrimaryInTurn
  BY DEF QuietInv, TurnInv, OnePrimaryInTurn
<1> QED
  BY <1>1, <1>2, <1>3, SomeInvHolds, PTL DEF Spec

=============================================================================
