CONSTANTS
    Threads = {t1, t2}
    MaxLines = 2
SPECIFICATION Spec
INVARIANT LinesKeepTheirForm
CHECK_DEADLOCK FALSE
