\* One meter, twenty readings, four settings.
SPECIFICATION Spec
CONSTANTS
    m1 = m1  t1 = t1  t2 = t2
    NoToken = NoToken
    Token = {t1, t2}
    Meter = {m1}
    Readings <- MCReadings
    SettingsChoices <- MCSettings
    MaxDay = 3
    NoState <- MCNoState
INVARIANTS TypeOK SeenReadingIsSilent RecoveryRearms 
CHECK_DEADLOCK FALSE
