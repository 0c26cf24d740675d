SPECIFICATION Spec
CONSTANTS
    f1 = f1
    f2 = f2
    rw = rw
    ro = ro
    File = {f1, f2}
    Prot = {rw}
    Chunk = 1
    MaxSize = 1
    MaxWrites = 1
    Tricks = {"date", "swap", "bit", "live"}
SYMMETRY Symmetry
INVARIANT NothingStaleParanoid
