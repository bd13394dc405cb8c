CONSTANTS
    a1 = a1  a2 = a2  p1 = p1  r1 = r1  k1 = k1  t1 = t1  i1 = i1  j1 = j1  z1 = z1
    None = None
    Runs = {w1}
    Kinds <- MCKinds
    Declared <- Catalog
    Fields <- MCFields
    Names <- MCNames
    Values = {"x", "y", "Kiwi", "Kaktus"}
    Requests <- MCRequests
    Initial <- MCInitial
    MaxStarts = 4
    Overlap = FALSE
    Faults = TRUE
    StableOrder = TRUE

    Hosts = {"h1", "h2"}
    Inventory <- MCInventory
    NoHost = "none"
    MaxConf = 2
    MaxFaults = 2

    Bridges <- MCBridges
    MaxBreaks = 2

    Modules <- MCModules
    PriorityMin = 1
    PriorityMax = 3
    Timeout = 2

    Parts = {0, 1, 2}
    MaxLength = 3

    Scripts = {s1, s2, s3}
    Pids = {q1, q2, q3}
    NoFile = NoFile
    Empty = Empty
    NoPid = NoPid
    MaxLaunches = 1

SPECIFICATION MCSpec
INVARIANTS
    NamesStayUnique
    HostsTypeOK
    DoneMeansProvisioned
    BreaksDecide
    OrdersAreServed
    ResultIsTheOrder
    OneAtATimeUnlessRaced
    ActorHoldsTheLock
    CrashBlocksOnlyByReuse
PROPERTIES
    ImplementsEnsure
    PlaysEnd
CHECK_DEADLOCK FALSE
