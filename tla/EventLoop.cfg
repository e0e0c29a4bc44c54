CONSTANTS
    Threads = {t1, t2}
    Tasks = {f1, f2, f3}
SPECIFICATION FairSpec
INVARIANTS
    TypeOK
    NoSleepOnWork
    NoSleepOnQuit
PROPERTIES
    AbstractSpec
    QueuedRuns
    QuitStops
