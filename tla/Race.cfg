CONSTANTS
    a1 = a1  a2 = a2  p1 = p1  r1 = r1  k1 = k1  t1 = t1  i1 = i1  j1 = j1  z1 = z1
    None = None
    Runs = {w1, w2}
    Kinds <- MCKinds
    Declared <- Catalog
    Fields <- MCFields
    Names <- MCNames
    Values = {"x", "y", "Kiwi", "Kaktus"}
    Requests <- MCRequests
    Initial <- MCInitial
    MaxStarts = 2
    Overlap = TRUE
    Faults = FALSE
    StableOrder = FALSE

    h1 = h1  h2 = h2  h3 = h3
    Inventory <- MCInventory
    Monitors = {h1, h2}
    Founders = {h1}
    Unlucky = {h2, h3}
    Interruptions = TRUE
    MaxKeys = 2
    NoKey = NoKey

SPECIFICATION MCSpec
INVARIANTS
    TypeOK
    NoBlindDuplicate
    ReportIsTrue
    KeyringsTypeOK
    OneClusterKey
    AdminIsKnown
    ClusterKeyIsKept
PROPERTIES
    OnlyTheNamedObject
    IdentityForLife
    EveryTaskEnds
CHECK_DEADLOCK FALSE
