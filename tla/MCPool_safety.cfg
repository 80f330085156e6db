\* Two callers and two workers, with a slot to spare so that a worker too many would
\* show; every fault; the third use is the last.  (A request larger than the pipe only
\* takes a step away, so there is none here.)
SPECIFICATION Spec
CONSTANTS
    Caller = {c1, c2}
    Worker = {w1, w2, w3}
    Request = {r1, r2}
    BigRequest = {}
    NumWorkers = 2
    Recycle = 3
    MaxUses = 4
    Fault = {"crash", "hang", "error", "quota"}
    NoRequest = NoRequest
    NoWorker = NoWorker
    Warmup = Warmup
SYMMETRY Symmetry
INVARIANTS
    WorkersConserved
    SendNeverBlocks
    HeldByOne
    PoolOwesNothing
    ReplyIsOwn
    UsesBounded
