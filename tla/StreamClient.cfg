SPECIFICATION FairSpec
CONSTANTS
    Servers = {s1, s2}
    HighestRep = 1
    LastSegment = 3
    SegmentSize <- MCSegmentSize
    MaxHandovers = 2
INVARIANTS
    TypeOK
    PlaybackClock
    OneRequestOutstanding
    SegmentAccounting
    UnderrunsCountedOnce
    StallIsRegistered
PROPERTIES
    AlgorithmSeesHistory
    ImplementsSession
    SessionEnds
    StallsEnd
CHECK_DEADLOCK FALSE
