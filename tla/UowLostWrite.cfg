SPECIFICATION Spec
CONSTANTS
    save = save
    drop = drop
    text = text
    chapter = chapter
    paragraph = paragraph
    gone = gone
    sentence = sentence
    Threads = {save, drop}
    Models <- MCModels
    Work <- TwoWork
    Kind <- MCKind
    Dirty = {}
    Refusable = {}
    Flushes = {}
    NoUow = NoUow
CHECK_DEADLOCK FALSE
INVARIANT AckedPersisted
