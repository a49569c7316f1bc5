SPECIFICATION Spec
CONSTANTS
    Servers = {s1, s2}
    HighestRep = 1
    LastSegment = 3
    SegmentSize <- MCSegmentSize
    MaxHandovers = 0
INVARIANT
    LastSegmentDownloaded
CHECK_DEADLOCK FALSE
