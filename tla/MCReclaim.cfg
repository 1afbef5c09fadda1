CONSTANTS
    c1 = c1
    c2 = c2
    Commands = {c1, c2}
    NoCommand = NoCommand
    Positions = {0, 100}
    NoPosition = NoPosition
    MaxAttempts = 2
    UnverifiedLimit = 1
    SendGap = 1
    VerifyPolls = 2
    MaxInFlight = 2
SPECIFICATION Spec
PROPERTY ReclaimFollowsOutcome
