\* A request larger than the pipe, and a worker that may hang: everything may stop.
SPECIFICATION Spec
CONSTANTS
    Caller = {c1}
    Worker = {w1}
    Request = {r1}
    BigRequest = {r1}
    NumWorkers = 1
    Recycle = 2
    MaxUses = 3
    Fault = {"hang"}
    NoRequest = NoRequest
    NoWorker = NoWorker
    Warmup = Warmup
PROPERTIES
    AskAlwaysReturns
CHECK_DEADLOCK FALSE
