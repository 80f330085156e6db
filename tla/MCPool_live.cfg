\* Two callers compete for one worker; every fault, with fairness; one of the two
\* requests is larger than the worker's pipe.
SPECIFICATION Spec
CONSTANTS
    Caller = {c1, c2}
    Worker = {w1}
    Request = {r1, r2}
    BigRequest = {r2}
    NumWorkers = 1
    Recycle = 2
    MaxUses = 3
    Fault = {"crash", "hang", "error", "quota"}
    NoRequest = NoRequest
    NoWorker = NoWorker
    Warmup = Warmup
PROPERTIES
    AskReturns
    PoolHeals
    ImplementsJudge
