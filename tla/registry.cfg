SPECIFICATION Spec
CONSTANTS
    Txn = {t1, t2, t3}
    Number = {n1, n2, n3}
    NoNumber = none
    MaxMeters = 3
SYMMETRY Names
INVARIANTS
    TypeOK
    OnePrimaryInTurn
    SomePrimaryUnlessRemoved
    NumbersDistinct
    DeadlockNeedsTwoPrimaries
