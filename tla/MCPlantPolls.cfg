CONSTANTS
    s1 = s1
    s2 = s2
    Shutters = {s1, s2}
    Top = 1
    Reported = {0, 1, 2}
    MaxPushes = 1
    MaxStops = 1
    MaxPartial = 1
SPECIFICATION FairSpec
CHECK_DEADLOCK FALSE
INVARIANTS DataTypeOK TelemetryIsNews StateIsCurrent RestoredAsShown
PROPERTIES CatchesUp
