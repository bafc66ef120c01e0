SPECIFICATION FairSpec
CONSTANTS
    s1 = s1
    s2 = s2
    a = a
    b = b
    Stream <- MCStream
    Slot = {a, b}
    SlotsOf <- MCSlotsOf
    Id = {1, 2, 3, 4, 5, 6}
    Grace = 1
    Settings <- MCSettings
    Nobody = Nobody
    NoStream = NoStream
INVARIANTS
    SocketTypeOK
    SocketServesRegistry
    FramesReachTheirStream
    NothingStreamsUnwanted
    ConfirmedIsStreamed
PROPERTIES
    PlacesAreKept
    GraceRunsFromTheLoss
    EveryStreamAttaches
    UnwantedSocketCloses
