CONSTANTS
    Threads = {t1}
    Owner = owner
    Msgs = {m1, m2}
    Size = 2
    SendBuffer = 1
    highWaterMark_ = 3
    SingleLoop = TRUE
    Careful = TRUE
    Callbacks = {"writeComplete", "highWater"}
    ServerMayDie = FALSE
    MaxIn = 1
    MaxDowns = 2
SPECIFICATION Spec
PROPERTY LifecycleSpec
INVARIANT NoUseOfDead
