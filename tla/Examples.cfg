CONSTANTS
    a1 = a1  a2 = a2  p1 = p1  r1 = r1  k1 = k1  t1 = t1  i1 = i1  j1 = j1  z1 = z1
    None = None
    Runs = {w1}
    Kinds <- MCKinds
    Declared <- Catalog
    Fields <- MCFields
    Names <- MCNames
    Values = {"x", "y", "Kiwi", "Kaktus"}
    Requests <- MCRequests
    Initial <- MCInitial
    MaxStarts = 2
    Overlap = FALSE
    Faults = FALSE
    StableOrder = TRUE

SPECIFICATION Spec
INVARIANTS
    DocumentedTasksSucceed
CHECK_DEADLOCK FALSE
