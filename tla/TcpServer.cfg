CONSTANTS
    MaxThreads = 1
    Fds = {1, 2}
    None = None
    MaxClients = 3
    MaxRemovals = 1
SPECIFICATION FairSpec
INVARIANTS
    TypeOK
    PollersAgree
    RemovalUnderWay
    NothingDeadUsed
PROPERTIES
    ClosedIsReleased
    WaitingIsTaken
