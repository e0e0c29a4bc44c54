CONSTANTS
    Threads = {}
    Owner = owner
    Msgs = {m1}
    Size = 2
    SendBuffer = 1
    highWaterMark_ = 0
    SingleLoop = FALSE
    Careful = TRUE
    Callbacks = {}
    ServerMayDie = FALSE
    MaxIn = 0
    MaxDowns = 2
SPECIFICATION FairSpec
PROPERTY LoopKeepsPolling
