SPECIFICATION Spec
CONSTANTS
    Proc = {p1, p2}
    Object = {o1, o2}
    MaxId = 3
    LockGap = FALSE
    ExistsHonest = TRUE
    ListHonest = TRUE
SYMMETRY Symmetry
INVARIANTS
    NoDanglingRef
    LockExclusive
    SweepIsExact
    RunningSnapshotIsSafe
PROPERTIES
    CommittedIsFixed
    ImplementsStore
