\* Two calls at a time, four instants, a quota of two codes in three.
SPECIFICATION Spec
CONSTANTS
    Call = {c1, c2}
    Password = {p1, p2}
    NoPassword = NoPassword
    CODE_TTL = 2
    RESEND_COOLDOWN = 1
    REQUEST_WINDOW = 3
    MAX_REQUESTS_PER_WINDOW = 2
    MAX_ATTEMPTS = 1
    MaxTime = 3
SYMMETRY Symmetry
INVARIANTS TypeOK  QuotaHolds LatestCodeWins CodeUsedOnce  
CHECK_DEADLOCK FALSE
