\* Two instances; a meter may be deleted while a pass still has to poll it.
SPECIFICATION Spec
CONSTANTS
    i1 = i1  i2 = i2  p1 = p1  p2 = p2
    m1 = m1  m2 = m2  u1 = u1  t1 = t1  t2 = t2
    NoToken = NoToken  NoPass = NoPass  NoReading = NoReading
    Token = {t1, t2}
    Instance = {i1, i2}
    Pass = {p1, p2}
    Host <- HostOneEach
    Meter = {m1, m2}
    User = {u1}
    Owner <- OwnerOf
    Concurrency = 2
    Readings <- TwoReadings
    SettingsChoices <- JustDefaults
    MaxDay = 2
    Faults <- RemovedMeter
PROPERTY AlertsOnWorseningOnly
CHECK_DEADLOCK FALSE
