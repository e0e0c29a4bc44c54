CONSTANTS
    numThreads_ = 1
    MaxConns = 0
SPECIFICATION FairSpec
PROPERTY DtorReturns
