CONSTANTS
    Channels = {c1, c2}
    Fds = {fd1, fd2}
    None = None
    Events = {"read", "write"}
    kInitEventListSize = 1
    UnionData = TRUE
SPECIFICATION Spec
INVARIANT ReportsChannels
