---- MODULE Pool ----
(***************************************************************************)
(* The judge's worker pool: internal/judge/pool.go, worker.go.             *)
(*                                                                         *)
(* A pool keeps NumWorkers model processes alive.  Each is, at any moment, *)
(* being started by a startOne goroutine, waiting in the channel p.workers,*)
(* or held by the one goroutine that took it out to Ask it something.  A   *)
(* worker speaks over two pipes and carries no request identifier: a reply *)
(* belongs to a request only because it is the next one to come out.       *)
(*                                                                         *)
(* Callers are goroutines inside Pool.Ask.  Processes may crash, hang,     *)
(* answer with an error or with a quota error; every timer may fire early  *)
(* or late with respect to the answer it waits for.                        *)
(***************************************************************************)
EXTENDS Naturals, Sequences, FiniteSets

CONSTANTS
    Caller,        \* goroutines that call Pool.Ask
    Worker,        \* process slots
    Request,       \* request bodies
    BigRequest,    \* those larger than the worker's stdin pipe
    NumWorkers,    \* -workers: the capacity of the channel p.workers
    Recycle,       \* -recycle: requests per worker, 0 for no limit
    MaxUses,       \* where the model stops counting uses
    Fault,         \* what processes may do: "crash", "hang", "error", "quota"
    NoRequest, NoWorker, Warmup

ASSUME SlotAssumption == IsFiniteSet(Worker) /\ NoWorker \notin Worker
ASSUME NumAssumption ==
    /\ NumWorkers \in Nat /\ NumWorkers > 0 /\ NumWorkers <= Cardinality(Worker)
    /\ Recycle \in Nat
    /\ MaxUses \in Nat /\ MaxUses > Recycle /\ MaxUses > 0
ASSUME RequestAssumption ==
    /\ NoRequest \notin Request /\ Warmup \notin Request /\ Warmup # NoRequest
    /\ BigRequest \subseteq Request

VARIABLES
    pc,        \* pc[c]: where caller c is inside Ask
    attempt,   \* attempt[c]: the loop counter of Ask, from 1
    req,       \* req[c]: the request c asks
    res,       \* res[c]: what c has got so far, and what Ask returns at the end
    held,      \* held[c]: the worker c took out of the channel
    at,        \* at[w]: who has worker w
    starting,  \* number of startOne goroutines that have no process
    quota,     \* time.Now().Before(p.quotaUntil)
    proc,      \* proc[w]: the process of worker w
    uses,      \* uses[w]: w.uses
    stdin,     \* stdin[w]: requests written to w and not yet answered
    stdout     \* stdout[w]: replies w has printed and nobody has read

callerVars == <<pc, attempt, req, res, held>>
workerVars == <<at, starting>>
pipeVars == <<stdin, stdout>>
vars == <<callerVars, workerVars, quota, proc, uses, pipeVars>>

MaxAttempts == 2

Result == [kind : {"none", "reply", "error", "quota"}, to : Request \cup {NoRequest, Warmup}]
NoResult == [kind |-> "none", to |-> NoRequest]
ErrorResult == [kind |-> "error", to |-> NoRequest]
QuotaResult == [kind |-> "quota", to |-> NoRequest]
ReplyTo(r) == [kind |-> "reply", to |-> r]

\* Where a worker is: "none" = no process, "spawned" .. "ready" = with a
\* startOne goroutine, "pool" = in the channel, "held" = with a caller.
Place == {"none", "spawned", "asked", "ready", "pool", "held"}

Pooled == {w \in Worker : at[w] = "pool"}
Owned == {w \in Worker : at[w] # "none"}

CallerTypeOK ==
    /\ pc \in [Caller -> {"idle", "check", "wait", "write", "read", "keep", "drop"}]
    /\ attempt \in [Caller -> 1 .. MaxAttempts]
    /\ req \in [Caller -> Request \cup {NoRequest}]
    /\ \A c \in Caller : pc[c] # "idle" => req[c] \in Request
    /\ res \in [Caller -> Result]
    /\ held \in [Caller -> Worker \cup {NoWorker}]

WorkerTypeOK ==
    /\ at \in [Worker -> Place]
    /\ starting \in Nat
    /\ proc \in [Worker -> {"none", "up", "hung", "dead"}]
    /\ uses \in [Worker -> 0 .. MaxUses]
    /\ stdin \in [Worker -> Seq(Request \cup {Warmup})]
    /\ stdout \in [Worker -> Seq(Result)]

\* Callers, workers and pipes hold values of the kinds the code gives them; a
\* caller inside Ask has a request.
TypeOK == CallerTypeOK /\ WorkerTypeOK /\ quota \in BOOLEAN

\* NewPool launches NumWorkers startOne goroutines and returns at once.
Init ==
    /\ pc = [c \in Caller |-> "idle"]
    /\ attempt = [c \in Caller |-> 1]
    /\ req = [c \in Caller |-> NoRequest]
    /\ res = [c \in Caller |-> NoResult]
    /\ held = [c \in Caller |-> NoWorker]
    /\ at = [w \in Worker |-> "none"]
    /\ starting = NumWorkers
    /\ quota = FALSE
    /\ proc = [w \in Worker |-> "none"]
    /\ uses = [w \in Worker |-> 0]
    /\ stdin = [w \in Worker |-> <<>>]
    /\ stdout = [w \in Worker |-> <<>>]

----------------------------------------------------------------------------
(* Pieces shared by the actions. *)

\* Close kills the process and reaps it: its pipes go with it.
Close(w) ==
    /\ proc' = [proc EXCEPT ![w] = "none"]
    /\ uses' = [uses EXCEPT ![w] = 0]
    /\ stdin' = [stdin EXCEPT ![w] = <<>>]
    /\ stdout' = [stdout EXCEPT ![w] = <<>>]

\* Mutated form of Replace: nobody starts a replacement.
ReplaceForgets(w) ==
    /\ Close(w)
    /\ at' = [at EXCEPT ![w] = "none"]
    /\ UNCHANGED starting

\* Close, and a startOne goroutine takes over the worker's place.
Replace(w) ==
    /\ Close(w)
    /\ at' = [at EXCEPT ![w] = "none"]
    /\ starting' = starting + 1

\* The channel p.workers has room for one more: a send does not block.
HasRoom == Cardinality(Pooled) < NumWorkers

Send(w) ==
    /\ HasRoom
    /\ at' = [at EXCEPT ![w] = "pool"]

CountUse(w) == uses' = [uses EXCEPT ![w] = IF @ < MaxUses THEN @ + 1 ELSE @]

\* Mutated form of WornOut: one request too many.
WornOutLate(w) == Recycle > 0 /\ uses[w] > Recycle

WornOut(w) == Recycle > 0 /\ uses[w] >= Recycle

\* Mutated form of PipeAccepts: the pipe has no buffer.
PipeAcceptsRunning(w, m) == proc[w] = "up"

\* Worker.Ask writes m: a dead process breaks the pipe, a hung one still has
\* a pipe buffer, unless the message is larger than it.
PipeAccepts(w, m) == proc[w] = "up" \/ (proc[w] = "hung" /\ m \notin BigRequest)

\* Ask returns o to its caller.
Return(c, o) ==
    /\ pc' = [pc EXCEPT ![c] = "idle"]
    /\ res' = [res EXCEPT ![c] = o]
    /\ held' = [held EXCEPT ![c] = NoWorker]
    /\ UNCHANGED <<attempt, req>>

\* Mutated form of NextAttempt: attempts are not counted.
NextAttemptForever(c) ==
    /\ pc' = [pc EXCEPT ![c] = "check"]
    /\ res' = [res EXCEPT ![c] = NoResult]
    /\ held' = [held EXCEPT ![c] = NoWorker]
    /\ UNCHANGED <<attempt, req>>

\* An attempt failed with an ordinary error: the next one, or the last error.
NextAttempt(c) ==
    IF attempt[c] < MaxAttempts
    THEN /\ pc' = [pc EXCEPT ![c] = "check"]
         /\ attempt' = [attempt EXCEPT ![c] = @ + 1]
         /\ res' = [res EXCEPT ![c] = NoResult]
         /\ held' = [held EXCEPT ![c] = NoWorker]
         /\ UNCHANGED req
    ELSE Return(c, ErrorResult)

\* Worker.Ask came back to c with o; put(w, good or bad) is what c does next.
Got(c, o) ==
    /\ pc' = [pc EXCEPT ![c] = IF o.kind = "reply" THEN "keep" ELSE "drop"]
    /\ res' = [res EXCEPT ![c] = o]
    /\ UNCHANGED <<attempt, req, held>>

----------------------------------------------------------------------------
(* Pool.Ask, one action per step that other goroutines can see. *)

Ask(c, r) ==
    /\ pc[c] = "idle"
    /\ pc' = [pc EXCEPT ![c] = "check"]
    /\ attempt' = [attempt EXCEPT ![c] = 1]
    /\ req' = [req EXCEPT ![c] = r]
    /\ res' = [res EXCEPT ![c] = NoResult]
    /\ UNCHANGED <<held, workerVars, quota, proc, uses, pipeVars>>

\* get, under the mutex: inside the quota window the caller is turned away.
CheckQuota(c) ==
    /\ pc[c] = "check"
    /\ \/ quota /\ Return(c, QuotaResult)
       \/ /\ ~quota
          /\ pc' = [pc EXCEPT ![c] = "wait"]
          /\ UNCHANGED <<attempt, req, res, held>>
    /\ UNCHANGED <<workerVars, quota, proc, uses, pipeVars>>

\* Mutated form of GetWorker: the worker stays available to others.
GetWorkerShared(c, w) ==
    /\ pc[c] = "wait"
    /\ at[w] = "pool"
    /\ pc' = [pc EXCEPT ![c] = "write"]
    /\ held' = [held EXCEPT ![c] = w]
    /\ UNCHANGED <<attempt, req, res, workerVars, quota, proc, uses, pipeVars>>

\* get, after the unlock: the select takes a worker out of the channel ...
GetWorker(c, w) ==
    /\ pc[c] = "wait"
    /\ at[w] = "pool"
    /\ pc' = [pc EXCEPT ![c] = "write"]
    /\ held' = [held EXCEPT ![c] = w]
    /\ at' = [at EXCEPT ![w] = "held"]
    /\ UNCHANGED <<attempt, req, res, starting, quota, proc, uses, pipeVars>>

\* ... or gives up, which costs the caller an attempt.  (The select may see
\* its timer first although a worker has just come back.)
GetTimeout(c) ==
    /\ pc[c] = "wait"
    /\ NextAttempt(c)
    /\ UNCHANGED <<workerVars, quota, proc, uses, pipeVars>>

\* Worker.Ask up to the Write, which has no deadline: while the process is
\* hung and the request does not fit its pipe, no step is enabled here.
Write(c) ==
    /\ pc[c] = "write"
    /\ LET w == held[c] IN
       /\ \/ /\ PipeAccepts(w, req[c])
             /\ stdin' = [stdin EXCEPT ![w] = Append(@, req[c])]
             /\ pc' = [pc EXCEPT ![c] = "read"]
             /\ UNCHANGED <<attempt, req, res, held>>
          \/ /\ proc[w] = "dead"
             /\ Got(c, ErrorResult)
             /\ UNCHANGED stdin
       /\ CountUse(w)
    /\ UNCHANGED <<workerVars, quota, proc, stdout>>

\* Worker.Ask: the reader goroutine hands over the next result event.  A
\* quota error closes the gate for everybody before the worker is put back.
ReadReply(c) ==
    /\ pc[c] = "read"
    /\ stdout[held[c]] # <<>>
    /\ LET w == held[c]
           o == Head(stdout[w])
       IN  /\ stdout' = [stdout EXCEPT ![w] = Tail(@)]
           /\ Got(c, o)
           /\ quota' = (quota \/ o.kind = "quota")
    /\ UNCHANGED <<workerVars, proc, uses, stdin>>

\* Worker.Ask: end of file on stdout.
ReadEOF(c) ==
    /\ pc[c] = "read"
    /\ proc[held[c]] = "dead"
    /\ stdout[held[c]] = <<>>
    /\ Got(c, ErrorResult)
    /\ UNCHANGED <<workerVars, quota, proc, uses, pipeVars>>

\* Worker.Ask: ctx is done first, whatever the worker may still print.
ReadTimeout(c) ==
    /\ pc[c] = "read"
    /\ Got(c, ErrorResult)
    /\ UNCHANGED <<workerVars, quota, proc, uses, pipeVars>>

\* Mutated form of PutBad: a worker that timed out goes back if it still runs.
PutBadReuses(c) ==
    /\ pc[c] = "drop"
    /\ IF proc[held[c]] = "up"
       THEN Send(held[c]) /\ UNCHANGED <<starting, proc, uses, pipeVars>>
       ELSE Replace(held[c])
    /\ IF res[c].kind = "quota" THEN Return(c, QuotaResult) ELSE NextAttempt(c)
    /\ UNCHANGED quota

\* put(w, true), and the rest of Ask's loop body.
PutBad(c) ==
    /\ pc[c] = "drop"
    /\ Replace(held[c])
    /\ IF res[c].kind = "quota" THEN Return(c, QuotaResult) ELSE NextAttempt(c)
    /\ UNCHANGED quota

\* Mutated form of PutRecycle: put does not return after it has started the
\* replacement, and the closed worker goes back as well.
PutRecycleFallsThrough(c) ==
    /\ pc[c] = "keep"
    /\ WornOut(held[c])
    /\ Close(held[c])
    /\ starting' = starting + 1
    /\ Send(held[c])
    /\ Return(c, res[c])
    /\ UNCHANGED quota

\* put(w, false) of a worker that has reached its number of requests.
PutRecycle(c) ==
    /\ pc[c] = "keep"
    /\ WornOut(held[c])
    /\ Replace(held[c])
    /\ Return(c, res[c])
    /\ UNCHANGED quota

\* put(w, false): back into the channel.
PutGood(c) ==
    /\ pc[c] = "keep"
    /\ ~WornOut(held[c])
    /\ Send(held[c])
    /\ Return(c, res[c])
    /\ UNCHANGED <<starting, quota, proc, uses, pipeVars>>

----------------------------------------------------------------------------
(* startOne, the goroutine behind each worker that is not usable yet.  A    *)
(* process that cannot be started only makes it sleep and try again ...     *)

Spawn(w) ==
    /\ starting > 0
    /\ at[w] = "none"
    /\ at' = [at EXCEPT ![w] = "spawned"]
    /\ starting' = starting - 1
    /\ proc' = [proc EXCEPT ![w] = "up"]
    /\ UNCHANGED <<callerVars, quota, uses, pipeVars>>

\* ... and closes the gate, if the error speaks of a quota (the disk's, say).
SpawnQuota ==
    /\ "quota" \in Fault
    /\ starting > 0
    /\ quota' = TRUE
    /\ UNCHANGED <<callerVars, workerVars, proc, uses, pipeVars>>

\* The warm-up request is small: only a dead process refuses it.
WarmWrite(w) ==
    /\ at[w] = "spawned"
    /\ \/ /\ proc[w] # "dead"
          /\ at' = [at EXCEPT ![w] = "asked"]
          /\ stdin' = [stdin EXCEPT ![w] = Append(@, Warmup)]
          /\ CountUse(w)
          /\ UNCHANGED <<starting, proc, stdout>>
       \/ /\ proc[w] = "dead"
          /\ Replace(w)
    /\ UNCHANGED <<callerVars, quota>>

\* The warm-up answer: any reply will do, an error costs the process its life.
WarmRead(w) ==
    /\ at[w] = "asked"
    /\ stdout[w] # <<>>
    /\ LET o == Head(stdout[w]) IN
       \/ /\ o.kind = "reply"
          /\ at' = [at EXCEPT ![w] = "ready"]
          /\ stdout' = [stdout EXCEPT ![w] = Tail(@)]
          /\ UNCHANGED <<starting, quota, proc, uses, stdin>>
       \/ /\ o.kind # "reply"
          /\ Replace(w)
          /\ quota' = (quota \/ o.kind = "quota")
    /\ UNCHANGED callerVars

\* Mutated form of WarmFail: startOne gives up after a failed warm-up.
WarmFailGivesUp(w) ==
    /\ at[w] = "asked"
    /\ Close(w)
    /\ at' = [at EXCEPT ![w] = "none"]
    /\ UNCHANGED <<callerVars, starting, quota>>

\* No answer in time, or end of file.
WarmFail(w) ==
    /\ at[w] = "asked"
    /\ Replace(w)
    /\ UNCHANGED <<callerVars, quota>>

WarmSend(w) ==
    /\ at[w] = "ready"
    /\ Send(w)
    /\ UNCHANGED <<callerVars, starting, quota, proc, uses, pipeVars>>

----------------------------------------------------------------------------
(* The worker process, and the clock of the quota window. *)

\* The process answers its oldest request with o.
Emit(w, o) ==
    /\ proc[w] = "up"
    /\ stdin[w] # <<>>
    /\ stdin' = [stdin EXCEPT ![w] = Tail(@)]
    /\ stdout' = [stdout EXCEPT ![w] = Append(@, o)]
    /\ UNCHANGED <<callerVars, workerVars, quota, proc, uses>>

Answer(w) == stdin[w] # <<>> /\ Emit(w, ReplyTo(Head(stdin[w])))
AnswerError(w) == "error" \in Fault /\ Emit(w, ErrorResult)
AnswerQuota(w) == "quota" \in Fault /\ Emit(w, QuotaResult)

Crash(w) ==
    /\ "crash" \in Fault
    /\ proc[w] \in {"up", "hung"}
    /\ proc' = [proc EXCEPT ![w] = "dead"]
    /\ UNCHANGED <<callerVars, workerVars, quota, uses, pipeVars>>

Hang(w) ==
    /\ "hang" \in Fault
    /\ proc[w] = "up"
    /\ proc' = [proc EXCEPT ![w] = "hung"]
    /\ UNCHANGED <<callerVars, workerVars, quota, uses, pipeVars>>

QuotaExpires ==
    /\ quota
    /\ quota' = FALSE
    /\ UNCHANGED <<callerVars, workerVars, proc, uses, pipeVars>>

----------------------------------------------------------------------------
Step(c) ==
    \/ CheckQuota(c) \/ GetTimeout(c) \/ \E w \in Worker : GetWorker(c, w)
    \/ Write(c) \/ ReadReply(c) \/ ReadEOF(c) \/ ReadTimeout(c)
    \/ PutBad(c) \/ PutRecycle(c) \/ PutGood(c)

StartOne(w) == Spawn(w) \/ WarmWrite(w) \/ WarmRead(w) \/ WarmFail(w) \/ WarmSend(w)

Process(w) == Answer(w) \/ AnswerError(w) \/ AnswerQuota(w) \/ Crash(w) \/ Hang(w)

Next ==
    \/ \E c \in Caller : Step(c) \/ \E r \in Request : Ask(c, r)
    \/ \E w \in Worker : StartOne(w) \/ Process(w)
    \/ SpawnQuota
    \/ QuotaExpires

\* Goroutines are scheduled and timers fire; a process answers unless it
\* crashes or hangs.  Nothing makes a caller ask, a process fail, or an
\* answer beat the timer.
Fairness ==
    /\ \A c \in Caller : WF_vars(Step(c))
    /\ \A w \in Worker : WF_vars(StartOne(w)) /\ WF_vars(Answer(w))
    /\ WF_vars(QuotaExpires)

Spec == Init /\ [][Next]_vars /\ Fairness

----------------------------------------------------------------------------
(* What is correct about the pool. *)

\* Workers are neither lost nor multiplied, however callers, warm-ups and
\* failures interleave: the startOne goroutines without a process and the
\* workers that have an owner always make NumWorkers (NewPool, startOne, put).
WorkersConserved == starting + Cardinality(Owned) = NumWorkers

\* Whoever is about to send a worker into the channel finds room, so neither
\* put nor startOne, which send with no timeout, can block on it.
SendNeverBlocks == (\E w \in Worker : at[w] \in {"ready", "held"}) => HasRoom

\* A worker outside the pool is held by exactly one caller, and a caller holds
\* one exactly while it talks to it or puts it back: two requests never share
\* a pair of pipes, and no return path of Ask leaks a worker.
HeldByOne ==
    /\ \A c \in Caller : held[c] # NoWorker <=> pc[c] \in {"write", "read", "keep", "drop"}
    /\ \A c \in Caller : held[c] # NoWorker => at[held[c]] = "held"
    /\ \A w \in Worker : at[w] = "held" => \E c \in Caller : held[c] = w
    /\ \A c, d \in Caller : held[c] = held[d] /\ c # d => held[c] = NoWorker

\* Worker w owes no answer and has printed none that is unread.
Quiet(w) == stdin[w] = <<>> /\ stdout[w] = <<>>

\* Replies carry no identifier, so a worker may only wait in the pool, be handed
\* out or be put back when it is quiet.  A worker that was asked and given up
\* on never comes back.
PoolOwesNothing ==
    /\ \A w \in Worker : at[w] \notin {"asked", "held"} => Quiet(w)
    /\ \A c \in Caller : pc[c] \in {"write", "keep"} => Quiet(held[c])

\* The pipes of a worker that was asked r hold either r itself or one answer.
Exchange(w, r) ==
    \/ stdin[w] = <<r>> /\ stdout[w] = <<>>
    \/ /\ stdin[w] = <<>>
       /\ Len(stdout[w]) = 1
       /\ Head(stdout[w]).kind \in {"reply", "error", "quota"}
       /\ Head(stdout[w]).kind = "reply" => Head(stdout[w]).to = r

\* While somebody waits for a worker, its pipes hold that somebody's request or
\* the answer to it, never both and nothing else: the next line is the right one.
OneExchange ==
    /\ \A c \in Caller : pc[c] = "read" => Exchange(held[c], req[c])
    /\ \A w \in Worker : at[w] = "asked" => Exchange(w, Warmup)

\* The reply a caller gets, and keeps after Ask has returned, answers the
\* request it asked: not the warm-up, and not an earlier caller's late answer.
ReplyIsOwn ==
    \A c \in Caller : pc[c] \in {"keep", "idle"} /\ res[c].kind = "reply" => res[c].to = req[c]

\* The context of a worker stays bounded: it answers at most Recycle requests,
\* the warm-up included, except that a limit of 1 still lets one through.
UsesBounded ==
    Recycle > 0 => \A w \in Worker : uses[w] <= (IF Recycle = 1 THEN 2 ELSE Recycle)

\* Every call of Ask whose request fits a worker's pipe returns: two attempts,
\* each bounded by timers, whatever the processes do, whoever competes for them,
\* and also when callers with larger requests are stuck with all the workers.
AskReturns == \A c \in Caller : pc[c] # "idle" /\ req[c] \notin BigRequest ~> pc[c] = "idle"

\* A caller inside the Write to a process that does not read: only the end of
\* that process can free it.
Stuck(c) == pc[c] = "write" /\ proc[held[c]] = "hung" /\ req[c] \in BigRequest

\* A step that is a fault of a process or of its start, or a warm-up that failed
\* although the process is sound.
FaultStep ==
    \/ SpawnQuota
    \/ \E w \in Worker :
        \/ Crash(w) \/ Hang(w) \/ AnswerError(w) \/ AnswerQuota(w)
        \/ proc[w] = "up" /\ WarmFail(w)

\* The pool "heals itself once the cause goes away" (pool.go:43): when faults
\* stop, workers come back to the channel for ever, and from some moment on no
\* caller meets a dead or hung worker any more.  (One that failed while it
\* waited in the channel stays there until a caller finds it, once.)  What does
\* not heal is a caller that is stuck, and the worker it holds.
PoolHeals ==
    <>[][~FaultStep]_vars =>
        /\ []<>(Pooled # {} \/ \E c \in Caller : Stuck(c))
        /\ <>[](\A c \in Caller : held[c] # NoWorker => proc[held[c]] = "up" \/ Stuck(c))

J == INSTANCE Judge WITH
        phase <- [c \in Caller |-> IF pc[c] = "idle" THEN "idle" ELSE "pending"],
        asked <- req,
        result <- [c \in Caller |-> IF pc[c] = "idle" THEN res[c] ELSE NoResult]

\* The pool keeps the contract of Judge.tla: for a caller, everything between
\* the call and the return of Ask is one step, and it comes for every request
\* that fits the pipe.
ImplementsJudge == J!JudgeSpec

----------------------------------------------------------------------------
(* What the documents say and the pool does not do. *)

\* ARCHITECTURE.md:118: a timeout is retried once and then denied, so every call
\* of Ask returns, whatever its request.
AskAlwaysReturns == \A c \in Caller : pc[c] # "idle" ~> pc[c] = "idle"
====
