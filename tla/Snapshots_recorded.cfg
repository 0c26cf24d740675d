SPECIFICATION SnapshotsSpec
CONSTANTS
    f1 = f1
    rw = rw
    ro = ro
    File = {f1}
    Prot = {rw, ro}
    Chunk = 1
    MaxSize = 2
    MaxWrites = 3
    Tricks = {"bit", "live"}
    Proc = {p1, p2, p3}
    Object = {o1, o2}
    Key = {k1, k2, k3}
    NoKey = NoKey
    Pass = {w1, w2}
    NoPass = NoPass
    InitFormats <- AllFormats
    InitFirst = TRUE
    Rekeyed <- OnlyEncrypted
SYMMETRY SnapshotSymmetry
INVARIANTS
    NothingStale
    Readable
PROPERTIES
    NothingInTheClear
