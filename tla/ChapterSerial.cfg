SPECIFICATION Spec
CONSTANTS
    p = p
    q = q
    t1 = t1
    t2 = t2
    Threads = {t1}
    Titles = {opening, finale}
    Acts = {one, two}
    Paras <- MCParas
    Texts <- WrittenTexts
    OpsOf <- SerialOps
    Edits = TRUE
    Serial = TRUE
    MaxRequests = 5
    MaxCrashes = 2
    NoThread = NoThread
    NoFile = NoFile
    NoText = NoText
    Blank = Blank
CHECK_DEADLOCK FALSE
INVARIANT OneFile
PROPERTIES
    
    Reconciled
