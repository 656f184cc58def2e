SPECIFICATION Spec
CONSTANTS
    Acts <- MCActs
    Characters = Characters
    Names = {"Opening 1", "Setup 2", "Jael"}
    NumberIn <- MCNumberIn
    Server = server
    CommandLine = cli
    Accounts = {"ann", "bea"}
    Flat = "flat"
    Outside = "outside"
    Titles = {"Dune", "dune"}
    LowerOf <- MCLowerOf
    Texts = {"t1", "t2", "t3"}
    Documents = {1, 2, 3}
    Chapters = {1, 2, 3, 4, 5}
    Libraries <- MCLibraries
    MaxCalls = 3
    MaxCrashes = 1
    Unowned = "unowned"
    NoDocument = NoDocument
    NoChapter = NoChapter
    NoTree = NoTree
    NoTitle = NoTitle
    NoId = NoId
    NoText = NoText
    NoPath = NoPath
    NoFile = NoFile
CHECK_DEADLOCK FALSE
INVARIANTS
    OneDocumentEach
    NoStrayTrees
PROPERTIES
    FilesKept
    ImportIsWhole
