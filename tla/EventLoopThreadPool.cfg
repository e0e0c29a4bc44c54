CONSTANTS
    numThreads_ = 3
    MaxConns = 2
SPECIFICATION FairSpec
INVARIANTS
    TypeOK
    LoopsAlive
    NoUseAfterEnd
    Even
PROPERTIES
    StartReturns
    JoinReturns
CHECK_DEADLOCK FALSE
