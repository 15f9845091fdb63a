\* Two passes of one instance, so that a poll may outlive its pass; failing
\* statements and lost lock sessions, under fairness.
SPECIFICATION FairSpec
CONSTANTS
    i1 = i1  i2 = i2  p1 = p1  p2 = p2
    m1 = m1  m2 = m2  u1 = u1  t1 = t1  t2 = t2
    NoToken = NoToken  NoPass = NoPass  NoReading = NoReading
    Token = {t1, t2}
    Instance = {i1}
    Pass = {p1, p2}
    Host <- HostTwoOnOne
    Meter = {m1, m2}
    User = {u1}
    Owner <- OwnerOf
    Concurrency = 2
    Readings <- OneReading
    SettingsChoices <- JustDefaults
    MaxDay = 1
    Faults <- WriteAndSession
INVARIANTS OnePassPerInstance LockNeverLeaks
PROPERTIES EverySweepEnds EveryPollSettles
CHECK_DEADLOCK FALSE
