SPECIFICATION Spec
CONSTANTS
    Txn = {t1, t2}
    Number = {n1, n2}
    NoNumber = none
    MaxMeters = 2
INVARIANT SomePrimary
