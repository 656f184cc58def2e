SPECIFICATION Spec
CONSTANTS
    ann = ann
    bob = bob
    web = web
    phone = phone
    shell = shell
    Ids = {1, 2, 3}
    Names = {ann, bob}
    Origins = {"home"}
    Identities = {"google"}
    Clients = {web, phone, shell}
    Scripts <- MCScripts
    MaxTime = 2
    MaxRestarts = 1
    MaxAttempts = 2
    MaxDelay = 2
    Decay = 2
    PendingLife = 1
    TokenLife = 1
    Never <- MCNever
    NoOne = NoOne
    NoRow = NoRow
    NoSession = NoSession
CHECK_DEADLOCK FALSE
INVARIANTS
    BackoffHolds
    TokenReadsItsAccount
PROPERTIES
    SessionsEndByChange
    LinkKept
