CONSTANTS
    w1 = w1
    w2 = w2
    w3 = w3
    x1 = x1
    x2 = x2
    Waiters = {w1, w2, w3}
    Shutters = {x1, x2}
    ShutterOf <- MCShutterOf
    Group = 16
    Wires = 4
    StateFields = {1, 12, 13}
    Marker <- MCMarker
    IdLength = 3
    Dashes = 1
    Dash = 15
    WalkLimit = 60
    Top = 20
    IdOf <- MCIdOf
    Fields = {5}
    Numbers = {3, 300}
    Reported = {0, 20, 21}
SPECIFICATION Spec
INVARIANTS EventsTypeOK WaitersListed ParsesWhatIsWritten
    PositionsAreReported ReadsWholePlant ListsTheShutters
PROPERTIES WokenByMention
