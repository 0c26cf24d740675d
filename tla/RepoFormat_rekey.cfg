SPECIFICATION FormatSpec
CONSTANTS
    Proc = {p1, p2}
    Object = {o1, o2}
    Key = {k1, k2}
    NoKey = NoKey
    Pass = {w1, w2}
    NoPass = NoPass
    InitFormats <- AllFormats
    InitFirst = TRUE
    Rekeyed <- AllFormats
SYMMETRY Symmetry
INVARIANT Readable
