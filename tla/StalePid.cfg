CONSTANTS
    Scripts = {s1, s2}
    Pids = {p1, p2, p3}
    NoFile = NoFile
    Empty = Empty
    NoPid = NoPid
    MaxLaunches = 2

SPECIFICATION LockSpec
SYMMETRY Interchangeable
INVARIANTS
    CrashNeverBlocks
CHECK_DEADLOCK FALSE
