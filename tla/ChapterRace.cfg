SPECIFICATION FairSpec
CONSTANTS
    p = p
    q = q
    t1 = t1
    t2 = t2
    Threads = {t1, t2}
    Titles = {opening, finale}
    Acts = {one, two}
    Paras <- MCParas
    Texts <- TwoTexts
    OpsOf <- RaceOps
    Edits = FALSE
    Serial = FALSE
    MaxRequests = 3
    MaxCrashes = 0
    NoThread = NoThread
    NoFile = NoFile
    NoText = NoText
    Blank = Blank
CHECK_DEADLOCK FALSE
INVARIANT LastSaveWins
PROPERTY EveryRequestAnswered
