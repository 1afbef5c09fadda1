CONSTANTS
    c1 = c1
    Calls = {c1}
    Boot = Boot
    Nobody = Nobody
    BootCalls = 2
    MaxHandshakes = 2
    MaxStreams = 6
    AnswerFrames = 1
    StreamWindow = 3
    ConnectionWindow = 3
SPECIFICATION FairSpec
CHECK_DEADLOCK FALSE
INVARIANTS TypeOK AnswerIsOwn PendingIsUnresolved AckIsOwn
PROPERTIES ClosedComesToRest EveryCallEnds ImplementsConnection
