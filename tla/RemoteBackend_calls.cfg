SPECIFICATION FairSpec
CONSTANTS
    a = a
    x = x
    y = y
    c1 = c1
    c2 = c2
    Name = {a, x, y}
    Key <- MCKey
    Chunk = {c1, c2}
    Content <- MCContent
    Upload = {u1, u2}
    PartSize = 2
    PageSize = 1
    MaxPages = 2
    HeadLength = FALSE
    Faults = {"refuse", "lose", "error", "garbled", "endless"}
    Unframed = {"GET"}
    Absent = Absent
    NoUpload = NoUpload
INVARIANTS TypeOK AnswersMatch OnlyFaultsFail ExecutedOnce NoLostUpload ListingIsExact
PROPERTIES ImplementsKeyStore CallsReturn
