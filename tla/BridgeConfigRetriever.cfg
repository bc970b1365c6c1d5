CONSTANTS
    Bridges = {b1, b2}
    NoBridge = NoBridge
    Calls = {1, 2}
    Refresh = Refresh
    NoCall = NoCall
    LastResource = 2
    Streams = {s1, s2, s3, s4}
    NoStream = NoStream
    MaxDisturbances = 3
SPECIFICATION FairSpec
CHECK_DEADLOCK FALSE
INVARIANTS
    BusyIsExact
    AnswerIsSound
    OneStreamWhenConnected
PROPERTIES
    RetrieverGoesOn
