CONSTANTS
    c1 = c1
    c2 = c2
    s1 = s1
    Commands = {c1, c2}
    NoCommand = NoCommand
    Positions = {0, 100}
    NoPosition = NoPosition
    MaxAttempts = 3
    UnverifiedLimit = 1
    SendGap = 0
    VerifyPolls = 1
    MaxInFlight = 1
    Shutters = {s1}
    ShutterOf <- SameShutter
SYMMETRY CallSymmetry
SPECIFICATION PlantSpec
INVARIANT EvidenceMeansMotorRan
