SPECIFICATION FairSpec
CONSTANTS
    save = save
    drop = drop
    text = text
    chapter = chapter
    paragraph = paragraph
    gone = gone
    sentence = sentence
    Threads = {save, drop, text}
    Models <- MCModels
    Work <- MCWork
    Kind <- MCKind
    Dirty = {sentence}
    Refusable = {paragraph, gone}
    Flushes = {text}
    NoUow = NoUow
CHECK_DEADLOCK FALSE
INVARIANTS
    TypeOK
    NothingForgotten
    OpenOnlyWhilePending
    AloneAckedPersisted
PROPERTY EveryRequestAnswered
