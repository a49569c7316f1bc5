SPECIFICATION Spec
CONSTANTS
    Algorithms = {"tobasco", "festive", "panda"}
    HighestRep = 2
    Rate <- MCRate
    Mega = 1000
    Estimates = {0, 450, 1600, 3300, 4200, 9000}
    Transfers = {1, 4, 9, 12, 60}
    Targets = {0, 5, 30}
    segmentDuration = 10
    m_bMin = 25
    m_bLow = 100
    m_bOpt = 150
    m_bHigh = 200
    m_deltaBeta = 5
    m_targetBuf = 3
    MaxLevel = 40
INVARIANTS
    TypeOK
    DelayKeepsBuffer
    BufferBounded
CHECK_DEADLOCK FALSE
