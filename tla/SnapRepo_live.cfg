SPECIFICATION FairSpec
CONSTANTS
    Proc = {p1, p2}
    Object = {o1, o2}
    MaxId = 2
    LockGap = FALSE
    ExistsHonest = TRUE
    ListHonest = TRUE
PROPERTIES
    CommandsEnd
