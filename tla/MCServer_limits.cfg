\* Four calls of one conversation, in any order, with a crash at any step: enough
\* for a run of denials to be broken, and for either limit to be reached.  In a dry
\* run, where answer and record differ.
SPECIFICATION Spec
CONSTANTS
    v1 = v1
    v2 = v2
    k1 = k1
    k2 = k2
    b1 = b1
    b2 = b2
    Call = {c1, c2, c3, c4}
    Conv = {v1, v2}
    Key = {k1, k2}
    Body = {b1, b2}
    BigBody = {}
    Input <- InputOneConv
    MaxConsecutive = 2
    MaxTotal = 3
    MaxCache = 1
    DryRun = TRUE
    MayDie = TRUE
    MayFill = FALSE
    NoInput = NoInput
    NoBody = NoBody
CHECK_DEADLOCK FALSE
CONSTRAINT OneBeyondRules
SYMMETRY Symmetry
INVARIANTS
    CountersExact
    EscalationEarned
PROPERTIES
    RunStopsAtLimit
    AuditTellsTruth
