SPECIFICATION FairSpec
CONSTANTS
    Servers = {home, a, b}
    Home = home
    HighestRep = 1
    LastSegment = 3
    SegmentSize <- MCSegmentSize
    MaxHandovers = 3
INVARIANTS
    OneSocketPerServer
    OneRequestOutstanding
PROPERTY
    SessionEnds
CHECK_DEADLOCK FALSE
