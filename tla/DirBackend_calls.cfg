SPECIFICATION Spec
CONSTANTS
    c1 = c1
    c2 = c2
    b1 = b1
    b2 = b2
    Client = {c1, c2}
    Key <- MCKey
    Owner <- MCOwner
    StageName <- MCStage
    Content <- MCContent
    Ops <- MCOps
    StatHonest = TRUE
    Absent = Absent
    NoFile = NoFile
    Gone = Gone
    Nothing = Nothing
    Dir = Dir
INVARIANTS
    ServesWhole
    NoLitter
PROPERTIES
    ImplementsKeyStore
