SPECIFICATION Spec
CONSTANTS
    o1 = o1
    o2 = o2
    Object = {o1, o2}
    Tree <- MCTree
    Manifests <- Snapshots
    Subtrees <- AllSubtrees
    Priors <- Destinations
    Hazards = {"prune", "rot", "io", "stop"}
    MaxRuns = 2
    NoStage = NoStage
CHECK_DEADLOCK FALSE
INVARIANTS
    NoTornFile
    DamagedNeverTouches
    SuccessMeansRestored
    OutsideUntouched
    NothingInTheWay
