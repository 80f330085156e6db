---- MODULE PoolProofs ----
(***************************************************************************)
(* What Pool.tla guarantees for every number of callers and workers, every *)
(* set of requests and every choice of faults.                             *)
(*                                                                         *)
(*   TypeOK, HeldByOne   |- WorkersConserved |- SendNeverBlocks            *)
(*   TypeOK, HeldByOne   |- PoolOwesNothing /\ OneExchange |- ReplyIsOwn   *)
(*   TypeOK, ReplyIsOwn  |- the steps of Judge.tla                         *)
(*   PoolOwesNothing     |- UsesBounded                                    *)
(*                                                                         *)
(* Each invariant is inductive relative to the ones before it.             *)
(***************************************************************************)
EXTENDS Pool, TLAPS, FiniteSetTheorems, SequenceTheorems

\* Every next-state disjunct, so that proofs can split a step without Next.
LEMMA StepCases ==
    ASSUME [Next]_vars
    PROVE  \/ \E c \in Caller, r \in Request : Ask(c, r)
           \/ \E c \in Caller, w \in Worker : GetWorker(c, w)
           \/ \E c \in Caller : CheckQuota(c) \/ GetTimeout(c) \/ Write(c)
           \/ \E c \in Caller : ReadReply(c) \/ ReadEOF(c) \/ ReadTimeout(c)
           \/ \E c \in Caller : PutBad(c) \/ PutRecycle(c) \/ PutGood(c)
           \/ \E w \in Worker : StartOne(w)
           \/ \E w \in Worker : Process(w)
           \/ SpawnQuota \/ QuotaExpires
           \/ UNCHANGED vars
  BY DEF Next, Step

(***************************************************************************)
(* Types.                                                                  *)
(***************************************************************************)

\* The results the pool makes are results.
LEMMA ResultTypes ==
    /\ NoResult \in Result /\ ErrorResult \in Result /\ QuotaResult \in Result
    /\ \A r \in Request \cup {Warmup} : ReplyTo(r) \in Result
  BY DEF Result, NoResult, ErrorResult, QuotaResult, ReplyTo

\* What an attempt can end in keeps the callers' types.
LEMMA ReturnTypes ==
    ASSUME CallerTypeOK, NEW c \in Caller, NEW o \in Result, Return(c, o)
    PROVE  CallerTypeOK'
  BY DEF CallerTypeOK, Return

LEMMA GotTypes ==
    ASSUME CallerTypeOK, NEW c \in Caller, NEW o \in Result, Got(c, o), pc[c] # "idle"
    PROVE  CallerTypeOK'
  BY DEF CallerTypeOK, Got

LEMMA NextAttemptTypes ==
    ASSUME CallerTypeOK, NEW c \in Caller, NextAttempt(c), pc[c] # "idle"
    PROVE  CallerTypeOK'
<1>1. CASE attempt[c] < MaxAttempts
  BY <1>1, ResultTypes DEF NextAttempt, CallerTypeOK, MaxAttempts
<1>2. CASE ~(attempt[c] < MaxAttempts)
  BY <1>2, ResultTypes, ReturnTypes DEF NextAttempt
<1> QED
  BY <1>1, <1>2

\* Replacing a worker keeps the workers' types.
LEMMA ReplaceTypes ==
    ASSUME WorkerTypeOK, NEW w \in Worker, Replace(w)
    PROVE  WorkerTypeOK'
<1>1. at' \in [Worker -> Place] /\ starting' \in Nat
  BY DEF WorkerTypeOK, Replace, Place
<1>2. proc' \in [Worker -> {"none", "up", "hung", "dead"}]
  BY DEF WorkerTypeOK, Replace, Close
<1>3. uses' \in [Worker -> 0 .. MaxUses]
  BY NumAssumption DEF WorkerTypeOK, Replace, Close
<1>4. stdin' \in [Worker -> Seq(Request \cup {Warmup})]
  BY DEF WorkerTypeOK, Replace, Close
<1>5. stdout' \in [Worker -> Seq(Result)]
  BY DEF WorkerTypeOK, Replace, Close
<1> QED
  BY <1>1, <1>2, <1>3, <1>4, <1>5 DEF WorkerTypeOK

\* Steps that change nothing about the workers keep their types.
LEMMA SameWorkerTypes ==
    ASSUME WorkerTypeOK, UNCHANGED <<workerVars, proc, uses, pipeVars>>
    PROVE  WorkerTypeOK'
  BY DEF WorkerTypeOK, workerVars, pipeVars

\* Steps that change nothing about the callers keep their types.
LEMMA SameCallerTypes ==
    ASSUME CallerTypeOK, UNCHANGED callerVars
    PROVE  CallerTypeOK'
  BY DEF CallerTypeOK, callerVars

\* The steps of a caller inside Ask keep the types.
LEMMA TypeCaller ==
    ASSUME TypeOK, HeldByOne, NEW c \in Caller, Step(c) \/ \E r \in Request : Ask(c, r)
    PROVE  TypeOK'
<1>0. /\ CallerTypeOK /\ WorkerTypeOK /\ quota \in BOOLEAN
      /\ held[c] # NoWorker => held[c] \in Worker
      /\ pc[c] \in {"write", "read", "keep", "drop"} => held[c] \in Worker
  BY DEF TypeOK, HeldByOne, CallerTypeOK
<1>1. CASE \E r \in Request : Ask(c, r)
  <2>1. CallerTypeOK'
    BY <1>0, <1>1, ResultTypes DEF Ask, CallerTypeOK, MaxAttempts
  <2> QED
    BY <1>0, <1>1, <2>1, SameWorkerTypes DEF Ask, TypeOK
<1>2. CASE CheckQuota(c)
  <2>1. CASE Return(c, QuotaResult)
    BY <1>0, <1>2, <2>1, ReturnTypes, ResultTypes, SameWorkerTypes DEF CheckQuota, TypeOK
  <2>2. CASE pc' = [pc EXCEPT ![c] = "wait"] /\ UNCHANGED <<attempt, req, res, held>>
    <3>1. CallerTypeOK'
      BY <1>0, <1>2, <2>2 DEF CheckQuota, CallerTypeOK
    <3> QED
      BY <1>0, <1>2, <3>1, SameWorkerTypes DEF CheckQuota, TypeOK
  <2> QED
    BY <1>2, <2>1, <2>2 DEF CheckQuota
<1>3. CASE \E w \in Worker : GetWorker(c, w)
  BY <1>0, <1>3 DEF GetWorker, Place, TypeOK, CallerTypeOK, WorkerTypeOK, pipeVars
<1>4. CASE GetTimeout(c)
  BY <1>0, <1>4, NextAttemptTypes, SameWorkerTypes DEF GetTimeout, TypeOK
<1>5. CASE Write(c)
  <2>1. req[c] \in Request /\ held[c] \in Worker
    BY <1>0, <1>5 DEF Write, CallerTypeOK
  <2>2. /\ UNCHANGED <<at, starting, quota, proc, stdout>>
        /\ uses' = [uses EXCEPT ![held[c]] = IF @ < MaxUses THEN @ + 1 ELSE @]
    BY <1>5 DEF Write, workerVars, CountUse
  <2>3. CASE /\ stdin' = [stdin EXCEPT ![held[c]] = Append(@, req[c])]
             /\ pc' = [pc EXCEPT ![c] = "read"]
             /\ UNCHANGED <<attempt, req, res, held>>
    <3>1. CallerTypeOK'
      BY <1>0, <2>1, <2>3 DEF CallerTypeOK
    <3>2. Append(stdin[held[c]], req[c]) \in Seq(Request \cup {Warmup})
      BY <1>0, <2>1 DEF WorkerTypeOK
    <3>3. stdin' \in [Worker -> Seq(Request \cup {Warmup})]
      BY <1>0, <2>3, <3>2 DEF WorkerTypeOK
    <3>4. uses' \in [Worker -> 0 .. MaxUses]
      BY <1>0, <2>1, <2>2, NumAssumption DEF WorkerTypeOK
    <3>5. WorkerTypeOK'
      BY <1>0, <2>2, <3>3, <3>4 DEF WorkerTypeOK
    <3> QED
      BY <1>0, <2>2, <3>1, <3>5 DEF TypeOK
  <2>4. CASE Got(c, ErrorResult) /\ UNCHANGED stdin
    <3>1. CallerTypeOK'
      BY <1>0, <1>5, <2>4, GotTypes, ResultTypes DEF Write
    <3>2. WorkerTypeOK'
      BY <1>0, <2>1, <2>2, <2>4, NumAssumption DEF WorkerTypeOK
    <3> QED
      BY <1>0, <2>2, <3>1, <3>2 DEF TypeOK
  <2> QED
    BY <1>5, <2>3, <2>4 DEF Write
<1>6. CASE ReadReply(c)
  <2> DEFINE o == Head(stdout[held[c]])
  <2>1. held[c] \in Worker /\ stdout[held[c]] # <<>>
    BY <1>0, <1>6 DEF ReadReply
  <2>2. o \in Result /\ Tail(stdout[held[c]]) \in Seq(Result)
    BY <1>0, <2>1 DEF WorkerTypeOK
  <2>3. /\ Got(c, o) /\ quota' = (quota \/ o.kind = "quota")
        /\ stdout' = [stdout EXCEPT ![held[c]] = Tail(@)]
        /\ UNCHANGED <<at, starting, proc, uses, stdin>>
    BY <1>6 DEF ReadReply, workerVars
  <2>4. CallerTypeOK'
    BY <1>0, <1>6, <2>2, <2>3, GotTypes DEF ReadReply
  <2>5. WorkerTypeOK'
    BY <1>0, <2>2, <2>3 DEF WorkerTypeOK
  <2> QED
    BY <1>0, <2>3, <2>4, <2>5 DEF TypeOK
<1>7. CASE ReadEOF(c) \/ ReadTimeout(c)
  BY <1>0, <1>7, GotTypes, ResultTypes, SameWorkerTypes DEF ReadEOF, ReadTimeout, TypeOK
<1>8. CASE PutBad(c)
  BY <1>0, <1>8, ReplaceTypes, ReturnTypes, NextAttemptTypes, ResultTypes DEF PutBad, TypeOK
<1>9. CASE PutRecycle(c)
  <2>1. res[c] \in Result
    BY <1>0 DEF CallerTypeOK
  <2> QED
    BY <1>0, <1>9, <2>1, ReplaceTypes, ReturnTypes DEF PutRecycle, TypeOK
<1>10. CASE PutGood(c)
  <2>1. res[c] \in Result
    BY <1>0 DEF CallerTypeOK
  <2>2. WorkerTypeOK'
    BY <1>0, <1>10 DEF PutGood, Send, WorkerTypeOK, Place, pipeVars
  <2> QED
    BY <1>0, <1>10, <2>1, <2>2, ReturnTypes DEF PutGood, TypeOK
<1> QED
  BY <1>1, <1>2, <1>3, <1>4, <1>5, <1>6, <1>7, <1>8, <1>9, <1>10 DEF Step

\* The steps of startOne keep the types.
LEMMA TypeStartOne ==
    ASSUME TypeOK, NEW w \in Worker, StartOne(w)
    PROVE  TypeOK'
<1>0. CallerTypeOK /\ WorkerTypeOK /\ quota \in BOOLEAN
  BY DEF TypeOK
<1>1. CASE Spawn(w)
  <2>1. WorkerTypeOK'
    BY <1>0, <1>1 DEF Spawn, WorkerTypeOK, Place, pipeVars
  <2> QED
    BY <1>0, <1>1, <2>1, SameCallerTypes DEF Spawn, TypeOK
<1>2. CASE WarmWrite(w)
  <2>1. CASE Replace(w)
    BY <1>0, <1>2, <2>1, ReplaceTypes, SameCallerTypes DEF WarmWrite, TypeOK
  <2>2. CASE /\ at' = [at EXCEPT ![w] = "asked"]
             /\ stdin' = [stdin EXCEPT ![w] = Append(@, Warmup)]
             /\ CountUse(w)
             /\ UNCHANGED <<starting, proc, stdout>>
    <3>1. Append(stdin[w], Warmup) \in Seq(Request \cup {Warmup})
      BY <1>0 DEF WorkerTypeOK
    <3>2. stdin' \in [Worker -> Seq(Request \cup {Warmup})]
      BY <1>0, <2>2, <3>1 DEF WorkerTypeOK
    <3>3. uses' \in [Worker -> 0 .. MaxUses]
      BY <1>0, <2>2, NumAssumption DEF WorkerTypeOK, CountUse
    <3>4. at' \in [Worker -> Place]
      BY <1>0, <2>2 DEF WorkerTypeOK, Place
    <3>5. WorkerTypeOK'
      BY <1>0, <2>2, <3>2, <3>3, <3>4 DEF WorkerTypeOK
    <3> QED
      BY <1>0, <1>2, <3>5, SameCallerTypes DEF WarmWrite, TypeOK
  <2> QED
    BY <1>2, <2>1, <2>2 DEF WarmWrite
<1>3. CASE WarmRead(w)
  <2>1. CASE Replace(w)
    BY <1>0, <1>3, <2>1, ReplaceTypes, SameCallerTypes DEF WarmRead, TypeOK
  <2>2. CASE /\ at' = [at EXCEPT ![w] = "ready"]
             /\ stdout' = [stdout EXCEPT ![w] = Tail(@)]
             /\ UNCHANGED <<starting, quota, proc, uses, stdin>>
    <3>1. Tail(stdout[w]) \in Seq(Result)
      BY <1>0, <1>3 DEF WarmRead, WorkerTypeOK
    <3>2. WorkerTypeOK'
      BY <1>0, <2>2, <3>1 DEF WorkerTypeOK, Place
    <3> QED
      BY <1>0, <1>3, <2>2, <3>2, SameCallerTypes DEF WarmRead, TypeOK
  <2> QED
    BY <1>3, <2>1, <2>2 DEF WarmRead
<1>4. CASE WarmFail(w)
  BY <1>0, <1>4, ReplaceTypes, SameCallerTypes DEF WarmFail, TypeOK
<1>5. CASE WarmSend(w)
  <2>1. WorkerTypeOK'
    BY <1>0, <1>5 DEF WarmSend, Send, WorkerTypeOK, Place, pipeVars
  <2> QED
    BY <1>0, <1>5, <2>1, SameCallerTypes DEF WarmSend, TypeOK
<1> QED
  BY <1>1, <1>2, <1>3, <1>4, <1>5 DEF StartOne

\* What a process prints is a result, and what it does keeps the types.
LEMMA TypeProcess ==
    ASSUME TypeOK, NEW w \in Worker, Process(w)
    PROVE  TypeOK'
<1>0. CallerTypeOK /\ WorkerTypeOK /\ quota \in BOOLEAN
  BY DEF TypeOK
<1>1. ASSUME NEW o \in Result, Emit(w, o) PROVE TypeOK'
  <2>1. Tail(stdin[w]) \in Seq(Request \cup {Warmup})
    BY <1>0, <1>1 DEF Emit, WorkerTypeOK
  <2>2. Append(stdout[w], o) \in Seq(Result)
    BY <1>0, <1>1 DEF WorkerTypeOK
  <2>3. WorkerTypeOK'
    BY <1>0, <1>1, <2>1, <2>2 DEF Emit, WorkerTypeOK, workerVars
  <2> QED
    BY <1>0, <1>1, <2>3, SameCallerTypes DEF Emit, TypeOK
<1>2. CASE Answer(w)
  <2>1. Head(stdin[w]) \in Request \cup {Warmup}
    BY <1>0, <1>2 DEF Answer, WorkerTypeOK
  <2> QED
    BY <1>1, <1>2, <2>1, ResultTypes DEF Answer
<1>3. CASE AnswerError(w) \/ AnswerQuota(w)
  BY <1>1, <1>3, ResultTypes DEF AnswerError, AnswerQuota
<1>4. CASE Crash(w) \/ Hang(w)
  <2>1. WorkerTypeOK'
    BY <1>0, <1>4 DEF Crash, Hang, WorkerTypeOK, workerVars, pipeVars
  <2> QED
    BY <1>0, <1>4, <2>1, SameCallerTypes DEF Crash, Hang, TypeOK
<1> QED
  BY <1>2, <1>3, <1>4 DEF Process

(***************************************************************************)
(* Who holds a worker.                                                     *)
(***************************************************************************)

\* A step that leaves the callers alone, and does not move a held worker.
LEMMA HeldSame ==
    ASSUME TypeOK, HeldByOne, UNCHANGED callerVars, NEW w \in Worker, at[w] # "held",
           NEW p \in Place \ {"held"}, at' = [at EXCEPT ![w] = p]
    PROVE  HeldByOne'
  BY DEF HeldByOne, TypeOK, CallerTypeOK, WorkerTypeOK, callerVars

\* A step that moves no worker and changes no caller but for c's progress.
LEMMA HeldGot ==
    ASSUME TypeOK, HeldByOne, NEW c \in Caller,
           UNCHANGED <<held, at>>,
           NEW p, pc' = [pc EXCEPT ![c] = p],
           p \in {"write", "read", "keep", "drop"} <=> pc[c] \in {"write", "read", "keep", "drop"}
    PROVE  HeldByOne'
  BY DEF HeldByOne, TypeOK, CallerTypeOK

\* A caller that ends an attempt gives its worker away.
LEMMA HeldGiven ==
    ASSUME TypeOK, HeldByOne, NEW c \in Caller, held[c] # NoWorker,
           NEW p \in {"idle", "check"}, pc' = [pc EXCEPT ![c] = p],
           held' = [held EXCEPT ![c] = NoWorker],
           NEW q \in {"none", "pool"}, at' = [at EXCEPT ![held[c]] = q]
    PROVE  HeldByOne'
  BY SlotAssumption DEF HeldByOne, TypeOK, CallerTypeOK, WorkerTypeOK

\* No step of the pool shares a worker or leaks one.
LEMMA HeldStep ==
    ASSUME TypeOK, HeldByOne, [Next]_vars
    PROVE  HeldByOne'
<1> DEFINE Busy == {"write", "read", "keep", "drop"}
<1>0. /\ \A c \in Caller : pc[c] \in Busy <=> held[c] # NoWorker
      /\ \A c \in Caller : pc[c] \in Busy => held[c] \in Worker /\ at[held[c]] = "held"
  BY DEF HeldByOne, TypeOK, CallerTypeOK
<1>1. ASSUME NEW c \in Caller, NEW r \in Request, Ask(c, r) PROVE HeldByOne'
  BY <1>1, HeldGot DEF Ask, workerVars
<1>2. ASSUME NEW c \in Caller, NEW w \in Worker, GetWorker(c, w) PROVE HeldByOne'
  <2>1. /\ pc' = [pc EXCEPT ![c] = "write"] /\ held' = [held EXCEPT ![c] = w]
        /\ pc \in [Caller -> {"idle", "check", "wait", "write", "read", "keep", "drop"}]
        /\ held \in [Caller -> Worker \cup {NoWorker}]
        /\ at' = [at EXCEPT ![w] = "held"] /\ at \in [Worker -> Place]
    BY <1>2 DEF GetWorker, TypeOK, CallerTypeOK, WorkerTypeOK
  <2>2. w # NoWorker /\ held[c] = NoWorker /\ \A d \in Caller : held[d] # w
    BY <1>2, SlotAssumption DEF GetWorker, HeldByOne
  <2>3. \A d \in Caller : held'[d] # NoWorker <=> pc'[d] \in Busy
    BY <2>1, <2>2 DEF HeldByOne
  <2>4. \A d \in Caller : held'[d] # NoWorker => at'[held'[d]] = "held"
    BY <2>1, <2>2 DEF HeldByOne
  <2>5. \A v \in Worker : at'[v] = "held" => \E d \in Caller : held'[d] = v
    <3> SUFFICES ASSUME NEW v \in Worker, at'[v] = "held" PROVE \E d \in Caller : held'[d] = v
      OBVIOUS
    <3>1. CASE v = w
      BY <2>1, <3>1
    <3>2. CASE v # w
      <4>1. PICK d \in Caller : held[d] = v
        BY <2>1, <3>2 DEF HeldByOne
      <4>2. d # c
        BY <2>2, <4>1, SlotAssumption
      <4> QED
        BY <2>1, <4>1, <4>2
    <3> QED
      BY <3>1, <3>2
  <2>6. \A d, e \in Caller : held'[d] = held'[e] /\ d # e => held'[d] = NoWorker
    BY <2>1, <2>2 DEF HeldByOne
  <2> QED
    BY <2>3, <2>4, <2>5, <2>6 DEF HeldByOne
<1>3. ASSUME NEW c \in Caller, pc[c] \notin Busy, UNCHANGED at,
             NEW p \in {"idle", "check", "wait"}, pc' = [pc EXCEPT ![c] = p],
             held' = held \/ held' = [held EXCEPT ![c] = NoWorker]
      PROVE  HeldByOne'
  <2>1. held[c] = NoWorker
    BY <1>0, <1>3
  <2>2. held' = held
    BY <1>3, <2>1 DEF TypeOK, CallerTypeOK
  <2> QED
    BY <1>3, <2>2, HeldGot
<1>4. ASSUME NEW c \in Caller, CheckQuota(c) \/ GetTimeout(c) PROVE HeldByOne'
  <2>1. CASE CheckQuota(c)
    BY <1>3, <2>1 DEF CheckQuota, Return, workerVars
  <2>2. CASE GetTimeout(c)
    BY <1>3, <2>2 DEF GetTimeout, NextAttempt, Return, workerVars
  <2> QED
    BY <1>4, <2>1, <2>2
<1>5. ASSUME NEW c \in Caller, Write(c) \/ ReadReply(c) \/ ReadEOF(c) \/ ReadTimeout(c)
      PROVE  HeldByOne'
  <2>1. UNCHANGED <<held, at>> /\ pc[c] \in Busy /\ \E p \in Busy : pc' = [pc EXCEPT ![c] = p]
    BY <1>5 DEF Write, ReadReply, ReadEOF, ReadTimeout, Got, workerVars
  <2> QED
    BY <2>1, HeldGot
<1>6. ASSUME NEW c \in Caller, PutBad(c) \/ PutRecycle(c) \/ PutGood(c) PROVE HeldByOne'
  <2>1. held[c] # NoWorker
    BY <1>0, <1>6 DEF PutBad, PutRecycle, PutGood
  <2>2. \E q \in {"none", "pool"} : at' = [at EXCEPT ![held[c]] = q]
    BY <1>6 DEF PutBad, PutRecycle, PutGood, Replace, Send
  <2>3. \E p \in {"idle", "check"} : pc' = [pc EXCEPT ![c] = p]
    BY <1>6 DEF PutBad, PutRecycle, PutGood, Return, NextAttempt
  <2>4. held' = [held EXCEPT ![c] = NoWorker]
    BY <1>6 DEF PutBad, PutRecycle, PutGood, Return, NextAttempt
  <2> QED
    BY <2>1, <2>2, <2>3, <2>4, HeldGiven
<1>7. ASSUME NEW w \in Worker, StartOne(w) PROVE HeldByOne'
  <2>1. at[w] # "held" /\ UNCHANGED callerVars
    BY <1>7 DEF StartOne, Spawn, WarmWrite, WarmRead, WarmFail, WarmSend
  <2>2. \E p \in Place \ {"held"} : at' = [at EXCEPT ![w] = p]
    BY <1>7 DEF StartOne, Spawn, WarmWrite, WarmRead, WarmFail, WarmSend, Replace, Send, Place
  <2> QED
    BY <2>1, <2>2, HeldSame
<1>8. ASSUME UNCHANGED <<callerVars, at>> PROVE HeldByOne'
  BY <1>8 DEF HeldByOne, callerVars
<1>9. ASSUME (\E w \in Worker : Process(w)) \/ SpawnQuota \/ QuotaExpires \/ UNCHANGED vars PROVE HeldByOne'
  BY <1>8, <1>9 DEF Process, Answer, AnswerError, AnswerQuota, Emit, Crash, Hang, SpawnQuota, QuotaExpires,
                    vars, workerVars
<1> QED
  BY StepCases, <1>1, <1>2, <1>4, <1>5, <1>6, <1>7, <1>9

\* The types are kept by every step.
LEMMA TypeStep ==
    ASSUME TypeOK, HeldByOne, [Next]_vars
    PROVE  TypeOK'
<1>1. ASSUME UNCHANGED <<callerVars, workerVars, proc, uses, pipeVars>>, quota' \in BOOLEAN
      PROVE  TypeOK'
  BY <1>1, SameCallerTypes, SameWorkerTypes DEF TypeOK
<1>2. CASE SpawnQuota \/ QuotaExpires \/ UNCHANGED vars
  BY <1>1, <1>2 DEF SpawnQuota, QuotaExpires, vars, TypeOK
<1> QED
  BY <1>2, TypeCaller, TypeStartOne, TypeProcess DEF Next

LEMMA InitTypes == Init => TypeOK /\ HeldByOne
<1> SUFFICES ASSUME Init PROVE TypeOK /\ HeldByOne
  OBVIOUS
<1>1. CallerTypeOK
  BY DEF Init, CallerTypeOK, MaxAttempts, NoResult, Result
<1>2. WorkerTypeOK
  BY NumAssumption DEF Init, WorkerTypeOK, Place
<1>3. HeldByOne
  BY DEF Init, HeldByOne
<1> QED
  BY <1>1, <1>2, <1>3 DEF Init, TypeOK

\* Callers, workers and pipes hold values of the right kinds in every
\* reachable state of every instance.
THEOREM TypeCorrect == Spec => []TypeOK
<1>1. Init => TypeOK /\ HeldByOne
  BY InitTypes
<1>2. TypeOK /\ HeldByOne /\ [Next]_vars => (TypeOK /\ HeldByOne)'
  BY TypeStep, HeldStep
<1> QED
  BY <1>1, <1>2, PTL DEF Spec

\* A worker out of the pool is always held by exactly one caller, who gives it
\* back on every path out of Ask.
THEOREM HeldCorrect == Spec => []HeldByOne
<1>1. Init => TypeOK /\ HeldByOne
  BY InitTypes
<1>2. TypeOK /\ HeldByOne /\ [Next]_vars => (TypeOK /\ HeldByOne)'
  BY TypeStep, HeldStep
<1> QED
  BY <1>1, <1>2, PTL DEF Spec

(***************************************************************************)
(* The number of workers.                                                  *)
(***************************************************************************)

\* The owned workers are finitely many.
LEMMA OwnedFinite == IsFiniteSet(Owned) /\ Cardinality(Owned) \in Nat
  BY SlotAssumption, FS_Subset, FS_CardinalityType DEF Owned

\* Closing an owned worker makes one fewer, and one more goroutine to start it.
LEMMA ReplaceConserves ==
    ASSUME TypeOK, WorkersConserved, NEW w \in Worker, at[w] # "none", Replace(w)
    PROVE  WorkersConserved'
<1>1. Owned' = Owned \ {w} /\ w \in Owned
  BY DEF Owned, Replace, TypeOK, WorkerTypeOK
<1>2. Cardinality(Owned') = Cardinality(Owned) - 1
  BY <1>1, OwnedFinite, FS_RemoveElement
<1>3. starting' = starting + 1 /\ starting \in Nat
  BY DEF Replace, TypeOK, WorkerTypeOK
<1> QED
  BY <1>2, <1>3, OwnedFinite, NumAssumption DEF WorkersConserved

\* Moving an owned worker about changes nothing.
LEMMA MoveConserves ==
    ASSUME TypeOK, WorkersConserved, UNCHANGED starting,
           at' = at \/ \E w \in Worker, p \in Place \ {"none"} :
                            at[w] # "none" /\ at' = [at EXCEPT ![w] = p]
    PROVE  WorkersConserved'
<1>1. Owned' = Owned
  BY DEF Owned, TypeOK, WorkerTypeOK
<1> QED
  BY <1>1 DEF WorkersConserved

LEMMA ConservedStep ==
    ASSUME TypeOK, HeldByOne, WorkersConserved, [Next]_vars
    PROVE  WorkersConserved'
<1>0. \A c \in Caller : pc[c] \in {"write", "read", "keep", "drop"}
                            => held[c] \in Worker /\ at[held[c]] = "held"
  BY DEF HeldByOne, TypeOK, CallerTypeOK
<1>1. ASSUME UNCHANGED workerVars PROVE WorkersConserved'
  BY <1>1, MoveConserves DEF workerVars
<1>2. ASSUME NEW c \in Caller, NEW r \in Request, Ask(c, r) PROVE WorkersConserved'
  BY <1>1, <1>2 DEF Ask
<1>3. ASSUME NEW c \in Caller, NEW w \in Worker, GetWorker(c, w) PROVE WorkersConserved'
  BY <1>3, MoveConserves DEF GetWorker, Place
<1>4. ASSUME NEW c \in Caller, CheckQuota(c) \/ GetTimeout(c) \/ Write(c)
      PROVE  WorkersConserved'
  BY <1>1, <1>4 DEF CheckQuota, GetTimeout, Write
<1>5. ASSUME NEW c \in Caller, ReadReply(c) \/ ReadEOF(c) \/ ReadTimeout(c)
      PROVE  WorkersConserved'
  BY <1>1, <1>5 DEF ReadReply, ReadEOF, ReadTimeout
<1>6. ASSUME NEW c \in Caller, PutBad(c) \/ PutRecycle(c) PROVE WorkersConserved'
  BY <1>0, <1>6, ReplaceConserves DEF PutBad, PutRecycle
<1>7. ASSUME NEW c \in Caller, PutGood(c) PROVE WorkersConserved'
  BY <1>0, <1>7, MoveConserves DEF PutGood, Send, Place
<1>8. ASSUME NEW w \in Worker, Spawn(w) PROVE WorkersConserved'
  <2>1. Owned' = Owned \cup {w} /\ w \notin Owned
    BY <1>8 DEF Owned, Spawn, TypeOK, WorkerTypeOK
  <2>2. Cardinality(Owned') = Cardinality(Owned) + 1
    BY <2>1, OwnedFinite, FS_AddElement
  <2>3. starting' = starting - 1 /\ starting \in Nat
    BY <1>8 DEF Spawn, TypeOK, WorkerTypeOK
  <2> QED
    BY <2>2, <2>3, OwnedFinite, NumAssumption DEF WorkersConserved
<1>9. ASSUME NEW w \in Worker, WarmWrite(w) \/ WarmRead(w) \/ WarmFail(w) \/ WarmSend(w)
      PROVE  WorkersConserved'
  <2>1. at[w] # "none"
    BY <1>9 DEF WarmWrite, WarmRead, WarmFail, WarmSend
  <2>2. \/ Replace(w)
        \/ UNCHANGED starting /\ \E p \in Place \ {"none"} : at' = [at EXCEPT ![w] = p]
    BY <1>9 DEF WarmWrite, WarmRead, WarmFail, WarmSend, Send, Place
  <2> QED
    BY <2>1, <2>2, ReplaceConserves, MoveConserves
<1>10. ASSUME (\E w \in Worker : Process(w)) \/ SpawnQuota \/ QuotaExpires \/ UNCHANGED vars
       PROVE  WorkersConserved'
  BY <1>1, <1>10 DEF Process, Answer, AnswerError, AnswerQuota, Emit, Crash, Hang, SpawnQuota, QuotaExpires, vars
<1> QED
  BY StepCases, <1>2, <1>3, <1>4, <1>5, <1>6, <1>7, <1>8, <1>9, <1>10 DEF StartOne

LEMMA InitConserved == Init => WorkersConserved
<1> SUFFICES ASSUME Init PROVE WorkersConserved
  OBVIOUS
<1>1. Owned = {} /\ starting = NumWorkers
  BY DEF Init, Owned
<1> QED
  BY <1>1, FS_EmptySet, NumAssumption DEF WorkersConserved

\* Workers are neither lost nor multiplied, whatever fails and whenever.
THEOREM ConservedCorrect == Spec => []WorkersConserved
<1>1. Init => TypeOK /\ HeldByOne /\ WorkersConserved
  BY InitTypes, InitConserved
<1>2. TypeOK /\ HeldByOne /\ WorkersConserved /\ [Next]_vars
        => (TypeOK /\ HeldByOne /\ WorkersConserved)'
  BY TypeStep, HeldStep, ConservedStep
<1> QED
  BY <1>1, <1>2, PTL DEF Spec

\* A sender is one of the NumWorkers workers and not in the channel, so the
\* channel holds fewer than its capacity: no send ever blocks.
THEOREM SendCorrect == Spec => []SendNeverBlocks
<1>1. TypeOK /\ WorkersConserved => SendNeverBlocks
  <2> SUFFICES ASSUME TypeOK, WorkersConserved, NEW w \in Worker, at[w] \in {"ready", "held"}
               PROVE  HasRoom
    BY DEF SendNeverBlocks
  <2>1. Pooled \subseteq Owned \ {w} /\ w \in Owned
    BY DEF Pooled, Owned
  <2>2. IsFiniteSet(Owned \ {w}) /\ Cardinality(Owned \ {w}) = Cardinality(Owned) - 1
    BY <2>1, OwnedFinite, FS_RemoveElement
  <2>3. Cardinality(Pooled) <= Cardinality(Owned \ {w}) /\ IsFiniteSet(Pooled)
    BY <2>1, <2>2, FS_Subset
  <2>4. starting \in Nat /\ Cardinality(Pooled) \in Nat
    BY <2>3, FS_CardinalityType DEF TypeOK, WorkerTypeOK
  <2> QED
    BY <2>2, <2>3, <2>4, OwnedFinite, NumAssumption DEF WorkersConserved, HasRoom
<1> QED
  BY <1>1, TypeCorrect, ConservedCorrect, PTL

(***************************************************************************)
(* Requests and replies.                                                   *)
(***************************************************************************)

\* What PipeInv says of one worker, and of one caller.
WorkerPipes(w) ==
    /\ at[w] \notin {"asked", "held"} => Quiet(w)
    /\ at[w] = "asked" => Exchange(w, Warmup)

CallerPipes(c) ==
    /\ pc[c] \in {"write", "keep"} => Quiet(held[c])
    /\ pc[c] = "read" => Exchange(held[c], req[c])
    /\ pc[c] \in {"keep", "idle"} /\ res[c].kind = "reply" => res[c].to = req[c]

\* The inductive invariant behind ReplyIsOwn.
PipeInv == PoolOwesNothing /\ OneExchange /\ ReplyIsOwn

\* A step that touches neither a caller nor a pipe.
LEMMA PipeSame ==
    ASSUME PipeInv, UNCHANGED <<callerVars, at, pipeVars>>
    PROVE  PipeInv'
  BY DEF PipeInv, PoolOwesNothing, OneExchange, Exchange, Quiet, ReplyIsOwn, callerVars, pipeVars

LEMMA PipeParts ==
    /\ PipeInv <=> (\A w \in Worker : WorkerPipes(w)) /\ (\A c \in Caller : CallerPipes(c))
    /\ PipeInv' <=> (\A w \in Worker : WorkerPipes(w)') /\ (\A c \in Caller : CallerPipes(c)')
  BY DEF PipeInv, PoolOwesNothing, OneExchange, ReplyIsOwn, WorkerPipes, CallerPipes

\* A worker that a step neither moves nor talks to.
LEMMA WorkerFrame ==
    ASSUME NEW w \in Worker, WorkerPipes(w),
           at'[w] = at[w], stdin'[w] = stdin[w], stdout'[w] = stdout[w]
    PROVE  WorkerPipes(w)'
  BY DEF WorkerPipes, Quiet, Exchange

\* A caller that a step does not concern.
LEMMA CallerFrame ==
    ASSUME NEW c \in Caller, CallerPipes(c),
           pc'[c] = pc[c], held'[c] = held[c], req'[c] = req[c], res'[c] = res[c],
           pc[c] \in {"write", "read", "keep"} =>
                stdin'[held[c]] = stdin[held[c]] /\ stdout'[held[c]] = stdout[held[c]]
    PROVE  CallerPipes(c)'
  BY DEF CallerPipes, Quiet, Exchange

\* A step that moves no worker, touches no pipe, and concerns at most caller c.
LEMMA PipesUntouched ==
    ASSUME TypeOK, PipeInv, NEW c \in Caller, UNCHANGED <<at, pipeVars>>, CallerPipes(c)',
           \A d \in Caller \ {c} : /\ pc'[d] = pc[d] /\ held'[d] = held[d]
                                   /\ req'[d] = req[d] /\ res'[d] = res[d]
    PROVE  PipeInv'
<1>1. \A w \in Worker : WorkerPipes(w)'
  BY PipeParts, WorkerFrame DEF pipeVars
<1>2. \A d \in Caller \ {c} : CallerPipes(d)'
  BY PipeParts, CallerFrame DEF pipeVars
<1> QED
  BY <1>1, <1>2, PipeParts

\* A step of caller c that concerns the pipes or the place of its worker w.
LEMMA PipesOfHeld ==
    ASSUME TypeOK, HeldByOne, PipeInv, NEW c \in Caller, NEW w \in Worker,
           w = held[c] \/ at[w] # "held",
           WorkerPipes(w)', CallerPipes(c)',
           \A d \in Caller \ {c} : /\ pc'[d] = pc[d] /\ held'[d] = held[d]
                                   /\ req'[d] = req[d] /\ res'[d] = res[d],
           \A v \in Worker \ {w} : /\ at'[v] = at[v] /\ stdin'[v] = stdin[v]
                                   /\ stdout'[v] = stdout[v]
    PROVE  PipeInv'
<1>1. \A v \in Worker \ {w} : WorkerPipes(v)'
  BY PipeParts, WorkerFrame
<1>2. ASSUME NEW d \in Caller \ {c} PROVE CallerPipes(d)'
  <2>1. pc[d] \in {"write", "read", "keep"} => held[d] \in Worker \ {w}
    BY SlotAssumption DEF HeldByOne, TypeOK, CallerTypeOK
  <2> QED
    BY <2>1, PipeParts, CallerFrame
<1> QED
  BY <1>1, <1>2, PipeParts

\* A step that leaves the callers alone and concerns the pipes or the place of
\* a worker w that no caller holds.
LEMMA PipesOfStarting ==
    ASSUME TypeOK, HeldByOne, PipeInv, NEW w \in Worker, at[w] # "held",
           WorkerPipes(w)', UNCHANGED callerVars,
           \A v \in Worker \ {w} : /\ at'[v] = at[v] /\ stdin'[v] = stdin[v]
                                   /\ stdout'[v] = stdout[v]
    PROVE  PipeInv'
<1>1. \A v \in Worker \ {w} : WorkerPipes(v)'
  BY PipeParts, WorkerFrame
<1>2. ASSUME NEW d \in Caller PROVE CallerPipes(d)'
  <2>1. pc[d] \in {"write", "read", "keep"} => held[d] \in Worker \ {w}
    BY SlotAssumption DEF HeldByOne, TypeOK, CallerTypeOK
  <2> QED
    BY <2>1, PipeParts, CallerFrame DEF callerVars
<1> QED
  BY <1>1, <1>2, PipeParts

\* A closed worker is quiet, and every other one is as before.
LEMMA ReplacePipes ==
    ASSUME TypeOK, NEW w \in Worker, Replace(w)
    PROVE  /\ WorkerPipes(w)'
           /\ \A v \in Worker \ {w} : /\ at'[v] = at[v] /\ stdin'[v] = stdin[v]
                                      /\ stdout'[v] = stdout[v]
  BY DEF Replace, Close, TypeOK, WorkerTypeOK, WorkerPipes, Quiet

\* A step of one caller leaves the others' variables alone.
LEMMA OtherCallers ==
    ASSUME CallerTypeOK, NEW c \in Caller,
           (\E o : Return(c, o) \/ Got(c, o)) \/ NextAttempt(c)
    PROVE  \A d \in Caller \ {c} : /\ pc'[d] = pc[d] /\ held'[d] = held[d]
                                   /\ req'[d] = req[d] /\ res'[d] = res[d]
<1>1. ASSUME NEW o, Return(c, o) \/ Got(c, o)
      PROVE  \A d \in Caller \ {c} : /\ pc'[d] = pc[d] /\ held'[d] = held[d]
                                     /\ req'[d] = req[d] /\ res'[d] = res[d]
  BY <1>1 DEF CallerTypeOK, Return, Got
<1>2. ASSUME NextAttempt(c)
      PROVE  \A d \in Caller \ {c} : /\ pc'[d] = pc[d] /\ held'[d] = held[d]
                                     /\ req'[d] = req[d] /\ res'[d] = res[d]
  BY <1>1, <1>2 DEF CallerTypeOK, NextAttempt
<1> QED
  BY <1>1, <1>2

\* An attempt that ends without a reply leaves nothing that could be wrong.
LEMMA FailedIsFine ==
    ASSUME CallerTypeOK, NEW c \in Caller,
           Return(c, QuotaResult) \/ NextAttempt(c) \/ Got(c, ErrorResult)
    PROVE  CallerPipes(c)'
<1>1. CASE Return(c, QuotaResult) \/ Return(c, ErrorResult)
  BY <1>1 DEF CallerTypeOK, Return, CallerPipes, QuotaResult, ErrorResult
<1>2. CASE Got(c, ErrorResult)
  BY <1>2 DEF CallerTypeOK, Got, CallerPipes, ErrorResult
<1>3. CASE NextAttempt(c)
  BY <1>1, <1>3 DEF CallerTypeOK, NextAttempt, CallerPipes
<1> QED
  BY <1>1, <1>2, <1>3

\* Reading the one line of a pipe empties it.
LEMMA OneLeft ==
    ASSUME NEW S, NEW s \in Seq(S), Len(s) = 1
    PROVE  Tail(s) = <<>>
<1>1. s # <<>>
  BY EmptySeq
<1>2. Tail(s) \in Seq(S) /\ Len(Tail(s)) = 0
  BY <1>1, HeadTailProperties
<1> QED
  BY <1>2, EmptySeq

\* The steps of a caller inside Ask.
LEMMA PipeCaller ==
    ASSUME TypeOK, HeldByOne, PipeInv, NEW c \in Caller, Step(c) \/ \E r \in Request : Ask(c, r)
    PROVE  PipeInv'
<1>0. /\ CallerTypeOK /\ WorkerTypeOK
      /\ pc[c] \in {"write", "read", "keep", "drop"} => held[c] \in Worker /\ at[held[c]] = "held"
      /\ CallerPipes(c)
  BY PipeParts DEF TypeOK, HeldByOne, CallerTypeOK
<1>1. CASE \E r \in Request : Ask(c, r)
  <2>1. CallerPipes(c)'
    BY <1>0, <1>1 DEF Ask, CallerTypeOK, CallerPipes
  <2> QED
    BY <1>0, <1>1, <2>1, PipesUntouched DEF Ask, CallerTypeOK, workerVars
<1>2. CASE CheckQuota(c)
  <2>1. CASE Return(c, QuotaResult)
    BY <1>0, <1>2, <2>1, FailedIsFine, OtherCallers, PipesUntouched DEF CheckQuota, workerVars
  <2>2. CASE pc' = [pc EXCEPT ![c] = "wait"] /\ UNCHANGED <<attempt, req, res, held>>
    <3>1. CallerPipes(c)'
      BY <1>0, <2>2 DEF CallerTypeOK, CallerPipes
    <3> QED
      BY <1>0, <1>2, <2>2, <3>1, PipesUntouched DEF CheckQuota, CallerTypeOK, workerVars
  <2> QED
    BY <1>2, <2>1, <2>2 DEF CheckQuota
<1>3. ASSUME NEW w \in Worker, GetWorker(c, w) PROVE PipeInv'
  <2>1. Quiet(w)
    BY <1>3, PipeParts DEF GetWorker, WorkerPipes
  <2>2. CallerPipes(c)' /\ WorkerPipes(w)'
    BY <1>0, <1>3, <2>1 DEF GetWorker, CallerTypeOK, WorkerTypeOK, pipeVars, CallerPipes, WorkerPipes, Quiet
  <2> QED
    BY <1>0, <1>3, <2>2, PipesOfHeld DEF GetWorker, CallerTypeOK, WorkerTypeOK, pipeVars
<1>4. CASE GetTimeout(c)
  BY <1>0, <1>4, FailedIsFine, OtherCallers, PipesUntouched DEF GetTimeout, workerVars
<1>5. CASE Write(c)
  <2>0. PICK w \in Worker : w = held[c]
    BY <1>0, <1>5 DEF Write
  <2>1. at[w] = "held" /\ Quiet(w) /\ req[c] \in Request
    BY <1>0, <1>5, <2>0 DEF Write, CallerPipes, CallerTypeOK
  <2>2. CASE Got(c, ErrorResult) /\ UNCHANGED stdin
    BY <1>0, <1>5, <2>2, FailedIsFine, OtherCallers, PipesUntouched DEF Write, workerVars, pipeVars
  <2>3. CASE /\ stdin' = [stdin EXCEPT ![w] = Append(@, req[c])]
             /\ pc' = [pc EXCEPT ![c] = "read"]
             /\ UNCHANGED <<attempt, req, res, held>>
    <3>1. stdin'[w] = <<req[c]>> /\ stdout'[w] = <<>>
      <4>1. Append(<<>>, req[c]) = <<req[c]>>
        OBVIOUS
      <4> QED
        BY <1>0, <1>5, <2>1, <2>3, <4>1 DEF Write, WorkerTypeOK, Quiet
    <3>2. CallerPipes(c)'
      BY <1>0, <2>0, <2>3, <3>1 DEF CallerTypeOK, CallerPipes, Exchange
    <3>3. WorkerPipes(w)'
      BY <1>5, <2>1 DEF Write, workerVars, WorkerPipes
    <3> QED
      BY <1>0, <1>5, <2>0, <2>1, <2>3, <3>2, <3>3, PipesOfHeld
         DEF Write, CallerTypeOK, WorkerTypeOK, workerVars
  <2> QED
    BY <1>5, <2>0, <2>2, <2>3 DEF Write
<1>6. CASE ReadReply(c)
  <2>0. PICK w \in Worker : w = held[c]
    BY <1>0, <1>6 DEF ReadReply
  <2> DEFINE o == Head(stdout[w])
  <2>1. at[w] = "held" /\ Exchange(w, req[c]) /\ stdout[w] # <<>>
    BY <1>0, <1>6, <2>0 DEF ReadReply, CallerPipes
  <2>2. stdin[w] = <<>> /\ Tail(stdout[w]) = <<>> /\ stdout[w] \in Seq(Result)
        /\ (o.kind = "reply" => o.to = req[c])
    BY <1>0, <2>1, OneLeft DEF Exchange, WorkerTypeOK
  <2>3. Got(c, o) /\ stdout' = [stdout EXCEPT ![w] = <<>>] /\ UNCHANGED <<at, stdin>>
    BY <1>6, <2>0, <2>2 DEF ReadReply, workerVars
  <2>4. CallerPipes(c)'
    BY <1>0, <1>6, <2>0, <2>1, <2>2, <2>3 DEF ReadReply, Got, CallerTypeOK, WorkerTypeOK, CallerPipes, Quiet
  <2>5. WorkerPipes(w)'
    BY <2>1, <2>3 DEF WorkerPipes
  <2> QED
    BY <1>0, <2>0, <2>1, <2>3, <2>4, <2>5, OtherCallers, PipesOfHeld DEF WorkerTypeOK
<1>7. CASE ReadEOF(c) \/ ReadTimeout(c)
  BY <1>0, <1>7, FailedIsFine, OtherCallers, PipesUntouched DEF ReadEOF, ReadTimeout, workerVars
<1>8. CASE PutBad(c)
  <2>1. PICK w \in Worker : w = held[c]
    BY <1>0, <1>8 DEF PutBad
  <2> QED
    BY <1>0, <1>8, <2>1, FailedIsFine, OtherCallers, ReplacePipes, PipesOfHeld DEF PutBad
<1>9. CASE PutRecycle(c)
  <2>1. CallerPipes(c)'
    BY <1>0, <1>9 DEF PutRecycle, Return, CallerTypeOK, CallerPipes
  <2>2. PICK w \in Worker : w = held[c]
    BY <1>0, <1>9 DEF PutRecycle
  <2> QED
    BY <1>0, <1>9, <2>1, <2>2, OtherCallers, ReplacePipes, PipesOfHeld DEF PutRecycle
<1>10. CASE PutGood(c)
  <2>1. PICK w \in Worker : w = held[c]
    BY <1>0, <1>10 DEF PutGood
  <2>2. /\ Quiet(w) /\ Return(c, res[c])
        /\ at' = [at EXCEPT ![w] = "pool"] /\ UNCHANGED <<stdin, stdout>>
    BY <1>0, <1>10, <2>1 DEF PutGood, Send, CallerPipes, pipeVars
  <2>3. CallerPipes(c)'
    BY <1>0, <1>10, <2>2 DEF PutGood, Return, CallerTypeOK, CallerPipes
  <2>4. WorkerPipes(w)'
    BY <1>0, <2>2 DEF WorkerTypeOK, WorkerPipes, Quiet
  <2> QED
    BY <1>0, <2>1, <2>2, <2>3, <2>4, OtherCallers, PipesOfHeld DEF WorkerTypeOK
<1> QED
  BY <1>1, <1>2, <1>3, <1>4, <1>5, <1>6, <1>7, <1>8, <1>9, <1>10 DEF Step

\* The steps of startOne.
LEMMA PipeStartOne ==
    ASSUME TypeOK, HeldByOne, PipeInv, NEW w \in Worker, StartOne(w)
    PROVE  PipeInv'
<1>0. WorkerTypeOK /\ WorkerPipes(w)
  BY PipeParts DEF TypeOK
<1>1. ASSUME Replace(w), at[w] # "held", UNCHANGED callerVars PROVE PipeInv'
  BY <1>1, ReplacePipes, PipesOfStarting
<1>2. CASE Spawn(w) \/ WarmSend(w)
  <2>1. WorkerPipes(w)'
    BY <1>0, <1>2 DEF Spawn, WarmSend, Send, WorkerTypeOK, WorkerPipes, Quiet, pipeVars
  <2> QED
    BY <1>0, <1>2, <2>1, PipesOfStarting DEF Spawn, WarmSend, Send, WorkerTypeOK, pipeVars
<1>3. CASE WarmWrite(w)
  <2>1. CASE Replace(w)
    BY <1>1, <1>3, <2>1 DEF WarmWrite
  <2>2. CASE /\ at' = [at EXCEPT ![w] = "asked"]
             /\ stdin' = [stdin EXCEPT ![w] = Append(@, Warmup)]
             /\ UNCHANGED stdout
    <3>1. stdin[w] = <<>> /\ stdout[w] = <<>>
      BY <1>0, <1>3 DEF WarmWrite, WorkerPipes, Quiet
    <3>2. Append(<<>>, Warmup) = <<Warmup>>
      OBVIOUS
    <3>3. WorkerPipes(w)'
      BY <1>0, <2>2, <3>1, <3>2 DEF WorkerTypeOK, WorkerPipes, Exchange
    <3> QED
      BY <1>0, <1>3, <2>2, <3>3, PipesOfStarting DEF WarmWrite, WorkerTypeOK
  <2> QED
    BY <1>3, <2>1, <2>2 DEF WarmWrite
<1>4. CASE WarmRead(w)
  <2>1. CASE Replace(w)
    BY <1>1, <1>4, <2>1 DEF WarmRead
  <2>2. CASE /\ at' = [at EXCEPT ![w] = "ready"]
             /\ stdout' = [stdout EXCEPT ![w] = Tail(@)]
             /\ UNCHANGED stdin
    <3>1. stdin[w] = <<>> /\ Tail(stdout[w]) = <<>>
      <4>1. Exchange(w, Warmup) /\ stdout[w] \in Seq(Result) /\ stdout[w] # <<>>
        BY <1>0, <1>4 DEF WarmRead, WorkerPipes, WorkerTypeOK
      <4> QED
        BY <4>1, OneLeft DEF Exchange
    <3>2. WorkerPipes(w)'
      BY <1>0, <2>2, <3>1 DEF WorkerTypeOK, WorkerPipes, Quiet
    <3> QED
      BY <1>0, <1>4, <2>2, <3>2, PipesOfStarting DEF WarmRead, WorkerTypeOK
  <2> QED
    BY <1>4, <2>1, <2>2 DEF WarmRead
<1>5. CASE WarmFail(w)
  BY <1>1, <1>5 DEF WarmFail
<1> QED
  BY <1>2, <1>3, <1>4, <1>5 DEF StartOne

\* What a process does.
LEMMA PipeProcess ==
    ASSUME TypeOK, HeldByOne, PipeInv, NEW w \in Worker, Process(w)
    PROVE  PipeInv'
<1>0. CallerTypeOK /\ WorkerTypeOK /\ WorkerPipes(w)
  BY PipeParts DEF TypeOK
<1>1. CASE Crash(w) \/ Hang(w)
  BY <1>1, PipeSame DEF Crash, Hang, workerVars
<1>2. ASSUME NEW o, Emit(w, o), o.kind \in {"reply", "error", "quota"},
             o.kind = "reply" => o = ReplyTo(Head(stdin[w])) PROVE PipeInv'
  <2>0. /\ stdin[w] # <<>> /\ UNCHANGED <<callerVars, at>>
        /\ stdin' = [stdin EXCEPT ![w] = Tail(@)]
        /\ stdout' = [stdout EXCEPT ![w] = Append(@, o)]
    BY <1>2 DEF Emit, workerVars
  <2>1. \A v \in Worker \ {w} : /\ at'[v] = at[v] /\ stdin'[v] = stdin[v]
                                /\ stdout'[v] = stdout[v]
    BY <1>0, <2>0 DEF WorkerTypeOK
  <2>2. ASSUME NEW r, stdin[w] = <<r>>, stdout[w] = <<>> PROVE Exchange(w, r)'
    <3>1. Tail(<<r>>) = <<>> /\ Append(<<>>, o) = <<o>> /\ Head(<<r>>) = r
      OBVIOUS
    <3>2. stdin'[w] = <<>> /\ stdout'[w] = <<o>>
      BY <1>0, <2>0, <2>2, <3>1 DEF WorkerTypeOK
    <3>3. o.kind = "reply" => o.to = r
      BY <1>2, <2>2, <3>1 DEF ReplyTo
    <3>4. Len(<<o>>) = 1 /\ Head(<<o>>) = o
      OBVIOUS
    <3> QED
      BY <1>2, <3>2, <3>3, <3>4 DEF Exchange
  <2>3. CASE at[w] = "asked"
    <3>1. stdin[w] = <<Warmup>> /\ stdout[w] = <<>>
      BY <1>0, <2>0, <2>3 DEF WorkerPipes, Exchange
    <3>2. Exchange(w, Warmup)'
      BY <2>2, <3>1
    <3>3. WorkerPipes(w)'
      BY <2>0, <2>3, <3>2 DEF WorkerPipes
    <3> QED
      BY <2>0, <2>1, <2>3, <3>3, PipesOfStarting
  <2>4. CASE at[w] = "held"
    <3>1. PICK c \in Caller : held[c] = w
      BY <2>4 DEF HeldByOne
    <3>2. pc[c] \in {"write", "read", "keep", "drop"} /\ w # NoWorker
      BY <3>1, SlotAssumption DEF HeldByOne
    <3>3. CallerPipes(c)
      BY PipeParts
    <3>4. pc[c] \in {"read", "drop"}
      BY <2>0, <3>1, <3>2, <3>3 DEF CallerPipes, Quiet
    <3>5. CallerPipes(c)'
      <4>1. CASE pc[c] = "drop"
        BY <2>0, <4>1 DEF CallerPipes, callerVars
      <4>2. CASE pc[c] = "read"
        <5>1. stdin[w] = <<req[c]>> /\ stdout[w] = <<>>
          BY <2>0, <3>1, <3>3, <4>2 DEF CallerPipes, Exchange
        <5>2. PICK r : r = req[c]
          OBVIOUS
        <5>3. Exchange(w, r)'
          BY <2>2, <5>1, <5>2
        <5>4. held'[c] = w /\ req'[c] = r /\ pc'[c] = "read"
          BY <2>0, <3>1, <4>2, <5>2 DEF callerVars
        <5> QED
          BY <5>3, <5>4 DEF CallerPipes, Exchange
      <4> QED
        BY <3>4, <4>1, <4>2
    <3>6. WorkerPipes(w)'
      BY <2>0, <2>4 DEF WorkerPipes
    <3> QED
      BY <2>0, <2>1, <3>1, <3>5, <3>6, PipesOfHeld DEF callerVars
  <2>5. at[w] \in {"asked", "held"}
    BY <1>0, <2>0 DEF WorkerPipes, Quiet
  <2> QED
    BY <2>3, <2>4, <2>5
<1>3. CASE Answer(w)
  BY <1>2, <1>3 DEF Answer, ReplyTo
<1>4. CASE AnswerError(w) \/ AnswerQuota(w)
  BY <1>2, <1>4 DEF AnswerError, AnswerQuota, ErrorResult, QuotaResult
<1> QED
  BY <1>1, <1>3, <1>4 DEF Process

LEMMA PipeStep ==
    ASSUME TypeOK, HeldByOne, PipeInv, [Next]_vars
    PROVE  PipeInv'
<1>1. CASE SpawnQuota \/ QuotaExpires \/ UNCHANGED vars
  BY <1>1, PipeSame DEF SpawnQuota, QuotaExpires, vars, workerVars
<1> QED
  BY <1>1, PipeCaller, PipeStartOne, PipeProcess DEF Next

LEMMA InitPipes == Init => PipeInv
  BY DEF Init, PipeInv, PoolOwesNothing, OneExchange, ReplyIsOwn, Quiet, NoResult

\* No worker waits in the pool, is handed out or is put back while it owes an
\* answer, and an exchange is one request and one answer.
THEOREM QuietCorrect == Spec => [](PoolOwesNothing /\ OneExchange)
<1>1. Init => TypeOK /\ HeldByOne /\ PipeInv
  BY InitTypes, InitPipes
<1>2. TypeOK /\ HeldByOne /\ PipeInv /\ [Next]_vars => (TypeOK /\ HeldByOne /\ PipeInv)'
  BY TypeStep, HeldStep, PipeStep
<1>3. PipeInv => PoolOwesNothing /\ OneExchange
  BY DEF PipeInv
<1> QED
  BY <1>1, <1>2, <1>3, PTL DEF Spec

\* The reply Ask returns answers the request it was called with, although
\* replies carry no identifier and workers are reused after failures.
THEOREM ReplyCorrect == Spec => []ReplyIsOwn
<1>1. Init => TypeOK /\ HeldByOne /\ PipeInv
  BY InitTypes, InitPipes
<1>2. TypeOK /\ HeldByOne /\ PipeInv /\ [Next]_vars => (TypeOK /\ HeldByOne /\ PipeInv)'
  BY TypeStep, HeldStep, PipeStep
<1>3. PipeInv => ReplyIsOwn
  BY DEF PipeInv
<1> QED
  BY <1>1, <1>2, <1>3, PTL DEF Spec

\* An exchange is one request and its one answer: the pipes of a worker that
\* somebody waits for never hold more.
THEOREM ExchangeCorrect == Spec => []OneExchange
<1>1. PoolOwesNothing /\ OneExchange => OneExchange
  OBVIOUS
<1> QED
  BY <1>1, QuietCorrect, PTL

(***************************************************************************)
(* The number of requests a worker answers.  put looks at it after the     *)
(* request, so the invariant says how far a worker in the channel, or one  *)
(* about to be asked, still is from its limit.                             *)
(***************************************************************************)

Limit == IF Recycle = 1 THEN 2 ELSE Recycle

Fresh(w) == uses[w] < Recycle \/ uses[w] <= 1

WorkerUses(w) ==
    /\ (at[w] \in {"none", "spawned"} => uses[w] = 0)
    /\ (at[w] \in {"asked", "ready"} => uses[w] <= 1)
    /\ (at[w] = "pool" => Fresh(w))
    /\ (at[w] = "held" => uses[w] <= Limit)

CallerUses(c) == pc[c] = "write" => Fresh(held[c])

UsesInv == (\A w \in Worker : WorkerUses(w)) /\ (\A c \in Caller : CallerUses(c))

\* A step that leaves the workers alone and puts nobody before a write.
LEMMA UsesSame ==
    ASSUME UsesInv, UNCHANGED <<at, uses>>,
           \A c \in Caller : pc'[c] = "write" => pc[c] = "write" /\ held'[c] = held[c]
    PROVE  UsesInv'
  BY DEF UsesInv, WorkerUses, CallerUses, Fresh

\* A step on one worker that nobody is about to write to afterwards.
LEMMA UsesOfOne ==
    ASSUME TypeOK, HeldByOne, UsesInv, NEW w \in Worker, WorkerUses(w)',
           \A v \in Worker \ {w} : at'[v] = at[v] /\ uses'[v] = uses[v],
           \A c \in Caller : pc'[c] = "write" =>
                                  pc[c] = "write" /\ held'[c] = held[c] /\ held[c] # w
    PROVE  UsesInv'
<1>1. \A v \in Worker : WorkerUses(v)'
  BY DEF UsesInv, WorkerUses, Fresh
<1>2. ASSUME NEW c \in Caller, pc'[c] = "write"
      PROVE  Fresh(held[c])'
  <2>1. held[c] \in Worker \ {w} /\ held'[c] = held[c] /\ pc[c] = "write"
    BY <1>2 DEF TypeOK, CallerTypeOK, HeldByOne
  <2> QED
    BY <2>1 DEF UsesInv, CallerUses, Fresh
<1> QED
  BY <1>1, <1>2 DEF UsesInv, CallerUses

\* Whoever starts a worker has nobody beside him who could be writing to it.
LEMMA UsesStartOne ==
    ASSUME TypeOK, HeldByOne, UsesInv, Recycle > 0, NEW w \in Worker, StartOne(w)
    PROVE  UsesInv'
<1>1. at[w] # "held" /\ UNCHANGED callerVars
  BY DEF StartOne, Spawn, WarmWrite, WarmRead, WarmFail, WarmSend
<1>2. \A c \in Caller : pc'[c] = "write" =>
                             pc[c] = "write" /\ held'[c] = held[c] /\ held[c] # w
  BY <1>1 DEF callerVars, HeldByOne
<1>3. \A v \in Worker \ {w} : at'[v] = at[v] /\ uses'[v] = uses[v]
  BY DEF StartOne, Spawn, WarmWrite, WarmRead, WarmFail, WarmSend, Replace, Close, Send,
         CountUse, TypeOK, WorkerTypeOK
<1>4. uses[w] \in Nat /\ WorkerUses(w)
  BY NumAssumption DEF TypeOK, WorkerTypeOK, UsesInv
<1>5. WorkerUses(w)'
  <2>1. CASE \/ at'[w] = "none" /\ uses'[w] = 0
             \/ at[w] = "none" /\ at'[w] = "spawned" /\ uses'[w] = uses[w]
             \/ at[w] = "asked" /\ at'[w] = "ready" /\ uses'[w] = uses[w]
             \/ at[w] = "ready" /\ at'[w] = "pool" /\ uses'[w] = uses[w]
    BY <1>4, <2>1 DEF WorkerUses, Fresh
  <2>2. CASE at[w] = "spawned" /\ at'[w] = "asked" /\ uses'[w] \in {uses[w], uses[w] + 1}
    BY <1>4, <2>2 DEF WorkerUses, Fresh
  <2>3. \/ at'[w] = "none" /\ uses'[w] = 0
        \/ at[w] = "none" /\ at'[w] = "spawned" /\ uses'[w] = uses[w]
        \/ at[w] = "asked" /\ at'[w] = "ready" /\ uses'[w] = uses[w]
        \/ at[w] = "ready" /\ at'[w] = "pool" /\ uses'[w] = uses[w]
        \/ at[w] = "spawned" /\ at'[w] = "asked" /\ uses'[w] \in {uses[w], uses[w] + 1}
    BY DEF StartOne, Spawn, WarmWrite, WarmRead, WarmFail, WarmSend, Replace, Close, Send,
           CountUse, TypeOK, WorkerTypeOK
  <2> QED
    BY <2>1, <2>2, <2>3
<1> QED
  BY <1>2, <1>3, <1>5, UsesOfOne

LEMMA UsesStep ==
    ASSUME TypeOK, HeldByOne, UsesInv, Recycle > 0, [Next]_vars
    PROVE  UsesInv'
<1>0. \A w \in Worker : uses[w] \in Nat
  BY NumAssumption DEF TypeOK, WorkerTypeOK
<1>1. ASSUME NEW c \in Caller, (\E r \in Request : Ask(c, r)) \/ CheckQuota(c) \/ GetTimeout(c)
      PROVE  UsesInv'
  <2>1. pc[c] # "write" /\ pc'[c] # "write" /\ UNCHANGED <<at, uses>>
    BY <1>1 DEF Ask, CheckQuota, GetTimeout, NextAttempt, Return, workerVars, TypeOK, CallerTypeOK
  <2>2. \A d \in Caller \ {c} : pc'[d] = pc[d] /\ held'[d] = held[d]
    BY <1>1 DEF Ask, CheckQuota, GetTimeout, NextAttempt, Return, TypeOK, CallerTypeOK
  <2> QED
    BY <2>1, <2>2, UsesSame
<1>2. ASSUME NEW c \in Caller, ReadReply(c) \/ ReadEOF(c) \/ ReadTimeout(c)
      PROVE  UsesInv'
  <2>1. pc'[c] # "write" /\ UNCHANGED <<at, uses, held>>
    BY <1>2 DEF ReadReply, ReadEOF, ReadTimeout, Got, workerVars, TypeOK, CallerTypeOK
  <2>2. \A d \in Caller \ {c} : pc'[d] = pc[d]
    BY <1>2 DEF ReadReply, ReadEOF, ReadTimeout, Got, TypeOK, CallerTypeOK
  <2> QED
    BY <2>1, <2>2, UsesSame
<1>3. ASSUME NEW c \in Caller, NEW w \in Worker, GetWorker(c, w)
      PROVE  UsesInv'
  <2>1. /\ at[w] = "pool" /\ at'[w] = "held" /\ UNCHANGED uses
        /\ \A v \in Worker \ {w} : at'[v] = at[v]
    BY <1>3 DEF GetWorker, TypeOK, WorkerTypeOK
  <2>2. Fresh(w) /\ Fresh(w)'
    BY <2>1 DEF UsesInv, WorkerUses, Fresh
  <2>3. \A v \in Worker : WorkerUses(v)'
    BY <1>0, <2>1, <2>2, NumAssumption DEF UsesInv, WorkerUses, Fresh, Limit
  <2>4. held'[c] = w /\ \A d \in Caller \ {c} : pc'[d] = pc[d] /\ held'[d] = held[d]
    BY <1>3 DEF GetWorker, TypeOK, CallerTypeOK
  <2> QED
    BY <2>1, <2>2, <2>3, <2>4 DEF UsesInv, CallerUses, Fresh
<1>4. ASSUME NEW c \in Caller, Write(c)
      PROVE  UsesInv'
  <2>1. PICK w \in Worker : w = held[c] /\ at[w] = "held" /\ Fresh(w)
    BY <1>4 DEF Write, TypeOK, CallerTypeOK, HeldByOne, UsesInv, CallerUses
  <2>2. UNCHANGED <<at, held>> /\ pc'[c] # "write"
    BY <1>4 DEF Write, Got, workerVars, TypeOK, CallerTypeOK
  <2>3. uses'[w] \in {uses[w], uses[w] + 1} /\ \A v \in Worker \ {w} : uses'[v] = uses[v]
    BY <1>4, <2>1 DEF Write, CountUse, TypeOK, WorkerTypeOK
  <2>4. \A d \in Caller \ {c} : pc'[d] = pc[d]
    BY <1>4 DEF Write, Got, TypeOK, CallerTypeOK
  <2>5. \A d \in Caller : pc'[d] = "write" =>
                              pc[d] = "write" /\ held'[d] = held[d] /\ held[d] # w
    BY <2>1, <2>2, <2>4, SlotAssumption DEF HeldByOne
  <2>6. uses'[w] <= Limit
    BY <1>0, <2>1, <2>3, NumAssumption DEF Fresh, Limit
  <2>7. WorkerUses(w)'
    BY <2>1, <2>2, <2>6 DEF WorkerUses
  <2> QED
    BY <2>1, <2>2, <2>3, <2>5, <2>7, UsesOfOne
<1>5. ASSUME NEW c \in Caller, PutBad(c) \/ PutRecycle(c) \/ PutGood(c)
      PROVE  UsesInv'
  <2>1. PICK w \in Worker : w = held[c]
    BY <1>5 DEF PutBad, PutRecycle, PutGood, TypeOK, CallerTypeOK, HeldByOne
  <2>2. \/ Replace(w)
        \/ Send(w) /\ UNCHANGED uses /\ ~WornOut(w)
    BY <1>5, <2>1 DEF PutBad, PutRecycle, PutGood
  <2>3. at \in [Worker -> Place] /\ uses \in [Worker -> 0 .. MaxUses]
    BY DEF TypeOK, WorkerTypeOK
  <2>4. \/ at'[w] = "none" /\ uses'[w] = 0
        \/ at'[w] = "pool" /\ uses'[w] = uses[w] /\ ~(uses[w] >= Recycle)
    BY <2>1, <2>2, <2>3 DEF Replace, Close, Send, WornOut
  <2>5. \A v \in Worker \ {w} : at'[v] = at[v] /\ uses'[v] = uses[v]
    BY <2>1, <2>2, <2>3 DEF Replace, Close, Send
  <2>6. /\ pc[c] # "write" /\ pc'[c] # "write"
        /\ \A d \in Caller \ {c} : pc'[d] = pc[d] /\ held'[d] = held[d]
    BY <1>5 DEF PutBad, PutRecycle, PutGood, Return, NextAttempt, TypeOK, CallerTypeOK
  <2>7. \A d \in Caller : pc'[d] = "write" =>
                              pc[d] = "write" /\ held'[d] = held[d] /\ held[d] # w
    BY <2>1, <2>6, SlotAssumption DEF HeldByOne
  <2>8. WorkerUses(w)'
    BY <1>0, <2>1, <2>4, NumAssumption DEF WorkerUses, Fresh
  <2> QED
    BY <2>1, <2>5, <2>7, <2>8, UsesOfOne
<1>6. CASE (\E w \in Worker : Process(w)) \/ SpawnQuota \/ QuotaExpires \/ UNCHANGED vars
  <2>1. UNCHANGED <<callerVars, at, uses>>
    BY <1>6 DEF Process, Answer, AnswerError, AnswerQuota, Emit, Crash, Hang, SpawnQuota, QuotaExpires,
                vars, workerVars
  <2> QED
    BY <2>1, UsesSame DEF callerVars
<1> QED
  BY StepCases, UsesStartOne, <1>1, <1>2, <1>3, <1>4, <1>5, <1>6

\* Pool's UsesBounded: whatever limit is configured, no worker is asked more often
\* than it allows, the warm-up included, or twice where the limit is 1.
THEOREM UsesCorrect == Spec => []UsesBounded
<1>1. Init => TypeOK /\ HeldByOne /\ (Recycle > 0 => UsesInv)
  <2>1. Init => UsesInv
    BY DEF Init, UsesInv, WorkerUses, CallerUses
  <2> QED
    BY <2>1, InitTypes
<1>2. /\ TypeOK /\ HeldByOne /\ (Recycle > 0 => UsesInv) /\ [Next]_vars
      => (TypeOK /\ HeldByOne /\ (Recycle > 0 => UsesInv))'
  BY TypeStep, HeldStep, UsesStep
<1>3. TypeOK /\ (Recycle > 0 => UsesInv) => UsesBounded
  <2> SUFFICES ASSUME TypeOK, Recycle > 0, UsesInv, NEW w \in Worker
               PROVE  uses[w] <= Limit
    BY DEF UsesBounded, Limit
  <2>1. uses[w] \in Nat /\ at[w] \in Place /\ WorkerUses(w)
    BY NumAssumption DEF TypeOK, WorkerTypeOK, UsesInv
  <2> QED
    BY <2>1, NumAssumption DEF WorkerUses, Fresh, Limit, Place
<1> QED
  BY <1>1, <1>2, <1>3, PTL DEF Spec

(***************************************************************************)
(* The contract of Judge.tla.                                              *)
(***************************************************************************)

\* What a caller keeps when it puts a sound worker back is a reply.
Kept == \A c \in Caller : pc[c] = "keep" => res[c].kind = "reply"

LEMMA KeptStep == ASSUME TypeOK, Kept, [Next]_vars PROVE Kept'
<1>1. CASE \E c \in Caller : Step(c) \/ \E r \in Request : Ask(c, r)
  <2>1. PICK c \in Caller : Step(c) \/ \E r \in Request : Ask(c, r)
    BY <1>1
  <2>2. \A d \in Caller \ {c} : pc'[d] = pc[d] /\ res'[d] = res[d]
    BY <2>1 DEF TypeOK, CallerTypeOK, Step, Ask, CheckQuota, GetTimeout, GetWorker, Write, ReadReply,
                ReadEOF, ReadTimeout, PutBad, PutRecycle, PutGood, NextAttempt, Return, Got
  <2>3. pc'[c] = "keep" => res'[c].kind = "reply"
    BY <2>1 DEF TypeOK, CallerTypeOK, Step, Ask, CheckQuota, GetTimeout, GetWorker, Write, ReadReply,
                ReadEOF, ReadTimeout, PutBad, PutRecycle, PutGood, NextAttempt, Return, Got
  <2> QED
    BY <2>2, <2>3 DEF Kept
<1>2. CASE UNCHANGED callerVars
  BY <1>2 DEF Kept, callerVars
<1>3. (\E w \in Worker : StartOne(w) \/ Process(w)) \/ SpawnQuota \/ QuotaExpires \/ UNCHANGED vars =>
          UNCHANGED callerVars
  BY DEF StartOne, Spawn, WarmWrite, WarmRead, WarmFail, WarmSend, Process, Answer, AnswerError,
         AnswerQuota, Emit, Crash, Hang, SpawnQuota, QuotaExpires, vars
<1> QED
  BY <1>1, <1>2, <1>3 DEF Next

\* A caller that stays inside Ask does not show.
LEMMA InsideAsk ==
    ASSUME NEW c \in Caller, TypeOK, pc[c] # "idle",
           NEW l, l # "idle", pc' = [pc EXCEPT ![c] = l],
           UNCHANGED req, \A d \in Caller \ {c} : res'[d] = res[d]
    PROVE  UNCHANGED J!judgeVars
<1>1. \A d \in Caller : (pc'[d] = "idle" <=> pc[d] = "idle") /\ (pc[d] = "idle" => res'[d] = res[d])
  BY DEF TypeOK, CallerTypeOK
<1> QED
  BY <1>1, Zenon DEF J!judgeVars

\* A caller that leaves it takes the one step of the contract.
LEMMA LeavesAsk ==
    ASSUME NEW c \in Caller, TypeOK, pc[c] # "idle", NEW o, Return(c, o),
           o \in {ReplyTo(req[c]), ErrorResult, QuotaResult}
    PROVE  J!Finish(c)
<1> DEFINE phase == [d \in Caller |-> IF pc[d] = "idle" THEN "idle" ELSE "pending"]
           shown == [d \in Caller |-> IF pc[d] = "idle" THEN res[d] ELSE NoResult]
<1>1. \A d \in Caller : /\ pc'[d] = IF d = c THEN "idle" ELSE pc[d]
                        /\ res'[d] = IF d = c THEN o ELSE res[d]
  BY DEF Return, TypeOK, CallerTypeOK
<1>2. phase[c] = "pending" /\ phase' = [phase EXCEPT ![c] = "idle"]
  BY <1>1
<1>3. shown' = [shown EXCEPT ![c] = o]
  BY <1>1
<1>4. o \in {J!ReplyTo(req[c]), J!ErrorResult, J!QuotaResult}
  BY DEF ReplyTo, ErrorResult, QuotaResult, J!ReplyTo, J!ErrorResult, J!QuotaResult
<1>5. UNCHANGED req
  BY DEF Return
<1>6. UNCHANGED req /\ phase[c] = "pending" /\ phase' = [phase EXCEPT ![c] = "idle"]
      /\ \E x \in {J!ReplyTo(req[c]), J!ErrorResult, J!QuotaResult} : shown' = [shown EXCEPT ![c] = x]
  BY <1>2, <1>3, <1>4, <1>5
<1> QED
  BY <1>6 DEF J!Finish

LEMMA GotInside ==
    ASSUME TypeOK, NEW c \in Caller, pc[c] # "idle", NEW o, Got(c, o)
    PROVE  UNCHANGED J!judgeVars
<1> DEFINE l == IF o.kind = "reply" THEN "keep" ELSE "drop"
<1>1. l # "idle"
  OBVIOUS
<1>2. pc' = [pc EXCEPT ![c] = l] /\ UNCHANGED req
  BY DEF Got, TypeOK, CallerTypeOK
<1>3. \A d \in Caller \ {c} : res'[d] = res[d]
  BY DEF Got, TypeOK, CallerTypeOK
<1> HIDE DEF l
<1> QED
  BY <1>1, <1>2, <1>3, InsideAsk

LEMMA NextAttemptInside ==
    ASSUME TypeOK, NEW c \in Caller, pc[c] # "idle", NextAttempt(c)
    PROVE  J!Finish(c) \/ UNCHANGED J!judgeVars
<1>1. CASE attempt[c] < MaxAttempts
  <2>1. pc' = [pc EXCEPT ![c] = "check"] /\ UNCHANGED req
    BY <1>1 DEF NextAttempt, TypeOK, CallerTypeOK
  <2>2. \A d \in Caller \ {c} : res'[d] = res[d]
    BY <1>1 DEF NextAttempt, TypeOK, CallerTypeOK
  <2> QED
    BY <2>1, <2>2, InsideAsk
<1>2. CASE ~(attempt[c] < MaxAttempts)
  BY <1>2, LeavesAsk DEF NextAttempt
<1> QED
  BY <1>1, <1>2

\* Every step of the pool is one of the contract's, or hidden from it.
LEMMA JudgeStep ==
    ASSUME TypeOK, Kept, ReplyIsOwn, [Next]_vars
    PROVE  [J!JudgeNext]_(J!judgeVars)
<1>1. CASE \E c \in Caller : \E r \in Request : Ask(c, r)
  <2>1. PICK c \in Caller, r \in Request : Ask(c, r)
    BY <1>1
  <2> DEFINE phase == [d \in Caller |-> IF pc[d] = "idle" THEN "idle" ELSE "pending"]
             shown == [d \in Caller |-> IF pc[d] = "idle" THEN res[d] ELSE NoResult]
  <2>2. \A d \in Caller : pc'[d] = IF d = c THEN "check" ELSE pc[d]
    BY <2>1 DEF Ask, TypeOK, CallerTypeOK
  <2>3. \A d \in Caller : res'[d] = IF d = c THEN NoResult ELSE res[d]
    BY <2>1 DEF Ask, TypeOK, CallerTypeOK
  <2>4. phase[c] = "idle" /\ phase' = [phase EXCEPT ![c] = "pending"]
    <3>1. pc[c] = "idle"
      BY <2>1 DEF Ask
    <3>2. \A d \in Caller : phase'[d] = IF d = c THEN "pending" ELSE phase[d]
      BY <2>2
    <3> QED
      BY <3>1, <3>2
  <2>5. shown' = [shown EXCEPT ![c] = J!NoResult] /\ req' = [req EXCEPT ![c] = r]
    BY <2>1, <2>2, <2>3 DEF Ask, NoResult, J!NoResult
  <2>6. J!AskJudge(c, r)
    BY <2>4, <2>5 DEF J!AskJudge
  <2> QED
    BY <2>6 DEF J!JudgeNext
<1>2. CASE \E c \in Caller : Step(c)
  <2>1. PICK c \in Caller : Step(c)
    BY <1>2
  <2> SUFFICES J!Finish(c) \/ UNCHANGED J!judgeVars
    BY DEF J!JudgeNext
  <2>2. CASE CheckQuota(c)
    <3>1. CASE quota /\ Return(c, QuotaResult)
      BY <2>2, <3>1, LeavesAsk DEF CheckQuota
    <3>2. CASE pc' = [pc EXCEPT ![c] = "wait"] /\ UNCHANGED <<attempt, req, res, held>>
      BY <2>2, <3>2, InsideAsk DEF CheckQuota
    <3> QED
      BY <2>2, <3>1, <3>2 DEF CheckQuota
  <2>3. CASE GetTimeout(c)
    BY <2>3, NextAttemptInside DEF GetTimeout
  <2>4. CASE \E w \in Worker : GetWorker(c, w)
    BY <2>4, InsideAsk DEF GetWorker
  <2>5. CASE Write(c)
    <3>1. CASE pc' = [pc EXCEPT ![c] = "read"] /\ UNCHANGED <<attempt, req, res, held>>
      BY <2>5, <3>1, InsideAsk DEF Write
    <3>2. CASE Got(c, ErrorResult)
      BY <2>5, <3>2, GotInside DEF Write
    <3> QED
      BY <2>5, <3>1, <3>2 DEF Write
  <2>6. CASE ReadReply(c) \/ ReadEOF(c) \/ ReadTimeout(c)
    BY <2>6, GotInside DEF ReadReply, ReadEOF, ReadTimeout
  <2>7. CASE PutBad(c)
    <3>1. pc[c] # "idle" /\ (Return(c, QuotaResult) \/ NextAttempt(c))
      BY <2>7 DEF PutBad
    <3> QED
      BY <3>1, LeavesAsk, NextAttemptInside
  <2>8. CASE PutRecycle(c) \/ PutGood(c)
    <3>1. pc[c] = "keep" /\ Return(c, res[c])
      BY <2>8 DEF PutRecycle, PutGood
    <3>2. res[c] \in Result /\ res[c].kind = "reply" /\ res[c].to = req[c]
      BY <3>1 DEF Kept, ReplyIsOwn, TypeOK, CallerTypeOK
    <3>3. res[c] = ReplyTo(req[c])
      BY <3>2 DEF Result, ReplyTo
    <3> QED
      BY <3>1, <3>3, LeavesAsk
  <2> QED
    BY <2>1, <2>2, <2>3, <2>4, <2>5, <2>6, <2>7, <2>8 DEF Step
<1>3. CASE UNCHANGED callerVars
  BY <1>3 DEF callerVars, J!judgeVars
<1>4. (\E w \in Worker : StartOne(w) \/ Process(w)) \/ SpawnQuota \/ QuotaExpires \/ UNCHANGED vars =>
          UNCHANGED callerVars
  BY DEF StartOne, Spawn, WarmWrite, WarmRead, WarmFail, WarmSend, Process, Answer, AnswerError,
         AnswerQuota, Emit, Crash, Hang, SpawnQuota, QuotaExpires, vars
<1> QED
  BY <1>1, <1>2, <1>3, <1>4 DEF Next

\* The pool keeps the contract that the daemon relies on: what a caller sees of
\* it is a behaviour of Judge.tla.  (That Ask returns, for
\* a request that fits the pipe, is left to the model checker.)
THEOREM JudgeCorrect == Spec => J!JudgeInit /\ [][J!JudgeNext]_(J!judgeVars)
<1>1. Init => J!JudgeInit /\ Kept
  BY DEF Init, J!JudgeInit, Kept, NoResult, J!NoResult
<1> QED
  BY <1>1, KeptStep, JudgeStep, TypeCorrect, ReplyCorrect, PTL DEF Spec
====
