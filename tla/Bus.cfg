SPECIFICATION FairSpec
CONSTANTS
    Tasks = {t1, t2}
    t1 = t1
    t2 = t2
    NoTask = NoTask
    Chips = {c1}
    c1 = c1
    Frames = {510, 512}
    MaxTransfers = 3
CHECK_DEADLOCK FALSE
INVARIANTS
    OkMeansTransferred
    BuffersAlive
    FrameWhole
PROPERTIES
    CallsReturn
