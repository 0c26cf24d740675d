SPECIFICATION FairSpec
CONSTANTS
    Pair = 3
    Chunk = 2
    BufLen = 3
    Settings <- MCSettings
    Troubles = 1
    Byte <- MCByte
    SizeMax = 31
    U64Max = 99
    Ask <- MCAsk
    Answers <- MCAnswers
    MaxLine = 4
    Exchanges = 2
CHECK_DEADLOCK FALSE
INVARIANTS
    ExchangesFaithfully
PROPERTIES
    ImplementsByteStream
    ExchangeEnds
