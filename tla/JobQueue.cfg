SPECIFICATION Spec
CONSTANTS
    s1 = s1
    p1 = p1
    a = a
    b = b
    Sentences = {s1}
    Paragraphs = {p1}
    Texts = {a, b}
    Scripts <- MCScripts
    Reconstructor = TRUE
    MaxTrouble = 1
    Gone = Gone
    Blank = Blank
    NoJob = NoJob
CHECK_DEADLOCK FALSE
INVARIANTS
    NoEditIsForgotten
    JoinMeansDone
    OneLiveReconstruct
PROPERTY EveryEditIsSaved
