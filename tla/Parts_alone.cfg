SPECIFICATION MCSpec
CONSTANTS
    MaxString = 2
    Snaps <- MCSnaps
    VolumeRecords <- MCVolumeRecords
    Entries <- MCEntries
    MaxRecords = 3
    Decay = {0, 2, 104}
    Passphrases = {1, 2}
    Salts <- MCSalts
    Iterations = {1, 2}
    SaltRoom = 2
    HeaderDecay = {0, 1, 2, 114}
    x0 = x0
    x1 = x1
    x2 = x2
    Content = {x0, x1, x2}
    Size <- MCSize
    Packed <- MCPacked
    Junk = Junk
    Ids = {0, 1}
    Missing = Missing
    Bytes = {0, 128}
    Block = 3
    Word = 2
    DigestLen = 2
    MaxInput = 7
    Keys <- MCKeys
    Secrets <- MCSecrets
    DeriveSalts <- MCDeriveSalts
    LineChars = {"a", "B", "*", "?", "/", "#", " "}
    MaxLine = 4
    Paths <- MCPaths
    Volumes <- MCVolumes
    Lists <- MCLists
    MaxGone = 1
    MaxBatch = 2
    PathRoom = 7
    Stamps = {1, 2, 3}
    MaxSnapshots = 2
    KeepLast = {0, 1, 3}
    Trees <- MCTrees
    LastYear = 2100
    Strokes = {"x", "y", "erase", "control"}
    LineRoom = 2
    MaxTyped = 4
    MaxDraws = 2
    MaxPool = 2
    DrawBlocks = {1, 2}
    Modulus = 6
    Calibration = 2
    Target = 3
    Fallback = 7
    Verbs = {"SNAPSHOT", "LIST", "VERIFY", "PRUNE", "RESTORE", "INIT", "REKEY",
             "BENCHMARK", "APPLYUAEM", "HELP", "other"}
    Schemes = {"dir", "http", "https", "s3"}
    MaxRuns = 2
CHECK_DEADLOCK FALSE
INVARIANTS
    DocumentsReadBack
    ReadsWhatWasStored
    DigestsOfWholes
    ExcludesAsDocumented
    WalksWhatIsThere
    SidecarsAsWritten
    FreshAndAsTyped
PROPERTIES
    ListsRightly
    LeavesInOrder
    ReadersReturn
