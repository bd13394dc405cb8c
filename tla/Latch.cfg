SPECIFICATION LatchSpec
CONSTANTS
    Readers = {r1, r2}
    Items = {i1, i2, i3}
    MaxGets = 2
CHECK_DEADLOCK FALSE
INVARIANT PutWakesAReader
