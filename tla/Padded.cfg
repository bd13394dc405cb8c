SPECIFICATION VersionSpec
CHECK_DEADLOCK FALSE
CONSTANTS
    Parts = {0, 1}
    MaxLength = 2
INVARIANTS
    MissingPartsAreZero
