\* Two requests that the cache does not tell apart.
SPECIFICATION Spec
CONSTANTS
    v1 = v1
    v2 = v2
    k1 = k1
    k2 = k2
    b1 = b1
    b2 = b2
    Call = {c1, c2}
    Conv = {v1, v2}
    Key = {k1, k2}
    Body = {b1, b2}
    BigBody = {}
    Input <- InputJudge
    MaxConsecutive = 2
    MaxTotal = 3
    MaxCache = 1
    DryRun = FALSE
    MayDie = FALSE
    MayFill = FALSE
    NoInput = NoInput
    NoBody = NoBody
CHECK_DEADLOCK FALSE
INVARIANTS
    CacheServesSameRequest
