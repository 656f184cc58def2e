SPECIFICATION FairLockSpec
CONSTANTS
    Threads = {t1, t2, t3}
    Chapters = {c1, c2}
    Locks = {l1, l2, l3}
    NoLock = NoLock
    NoThread = NoThread
    NoChapter = NoChapter
INVARIANTS
    LockTypeOK
    MutualExclusion
    BlockedByOwnChapter
    RegistryExact
PROPERTIES
    MutexRefined
    SomebodyEnters
