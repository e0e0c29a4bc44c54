CONSTANTS
    Threads = {}
    Owner = owner
    Msgs = {m1, m2}
    Size = 2
    SendBuffer = 3
    highWaterMark_ = 0
    SingleLoop = FALSE
    Careful = TRUE
    Callbacks = {"writeComplete"}
    ServerMayDie = TRUE
    MaxIn = 1
    MaxDowns = 2
SPECIFICATION ReadingPeerSpec
INVARIANTS
    SentBeforeFin
    RegisteredAlive
PROPERTIES
    CloseReleases
    BufferedIsFlushed
    ShutdownCompletes
CHECK_DEADLOCK FALSE
