\* Two connections of every kind, crashes, and a cache with room for one verdict.
SPECIFICATION HookSpec
CONSTANTS
    v1 = v1
    k1 = k1
    k2 = k2
    b1 = b1
    b2 = b2
    Call = {c1, c2}
    Conv = {v1}
    Key = {k1, k2}
    Body = {b1, b2}
    BigBody = {b2}
    Input <- InputAll
    MaxConsecutive = 2
    MaxTotal = 1
    MaxCache = 1
    DryRun = FALSE
    MayDie = TRUE
    MayFill = TRUE
    NoInput = NoInput
    NoBody = NoBody
    HookWait = 2
    AgyWait <- Waits
CHECK_DEADLOCK FALSE
INVARIANTS
    HookTypeOK
    InTime
    AllowOnRecord
    ToldIsCounted
    CacheHonest
    CacheBounded
PROPERTIES
    StopsAsTold
    FailsClosed
    CallAnswered
