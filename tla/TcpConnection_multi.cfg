CONSTANTS
    Threads = {t1}
    Owner = owner
    Msgs = {m1, m2}
    Size = 2
    SendBuffer = 1
    highWaterMark_ = 3
    SingleLoop = FALSE
    Careful = FALSE
    Callbacks = {}
    ServerMayDie = FALSE
    MaxIn = 1
    MaxDowns = 2
SPECIFICATION Spec
SYMMETRY Symmetry
INVARIANTS
    TypeOK
    StreamIntact
    WritingIffBuffered
    NoMessageAfterDown
    RegisteredAlive
PROPERTIES
    RemovedForGood
CHECK_DEADLOCK FALSE
