SPECIFICATION Spec
CONSTANTS
    p = p
    q = q
    k = k
    n = n
    a = a
    b = b
    Chapters = {p, q, k, n}
    Words = {"Opening", "opening", "Knight", "Storm"}
    LowerOf <- MCLower
    Acts = {"", "One"}
    Clients = {a, b}
    Scripts <- MCScripts
    Documents <- MCDocuments
    MaxFaults = 2
    NoChapter = NoChapter
    NoNumber <- MCNone
    NoIndex <- MCNone
CHECK_DEADLOCK FALSE
INVARIANTS
    DistinctIndexes
    FilesAgree
    RollbackRestores
PROPERTIES
    PlacedWhereAsked
