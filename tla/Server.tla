---- MODULE Server ----
(***************************************************************************)
(* The daemon's request pipeline: internal/server/server.go.               *)
(*                                                                         *)
(* Every hook connection is served by a goroutine of its own (handle):     *)
(* decode, policy, cache, judge, limits, reply, audit.  The goroutines     *)
(* share the verdict cache and the denial counters, each access under      *)
(* s.mu, but a call takes and releases that mutex several times, and asks  *)
(* the judge in between with no lock held.  The daemon may be killed       *)
(* between any two steps, or told to stop, in which case the handlers go   *)
(* on until the process has ended; systemd starts it again with empty      *)
(* memory.                                                                 *)
(*                                                                         *)
(* The judge is the contract of Judge.tla.  What the deterministic policy  *)
(* says of a call is part of the call.                                     *)
(***************************************************************************)
EXTENDS Naturals, Sequences, FiniteSets

CONSTANTS
    Call,             \* hook connections, each used once
    Conv,             \* conversations
    Key,              \* values of cacheKey
    Body,             \* what the judge is shown of a call (BuildRequest)
    BigBody,          \* those larger than a worker's pipe: see Judge.tla
    Input,            \* the calls that may arrive
    MaxConsecutive,   \* 3 in the code
    MaxTotal,         \* 20 in the code
    MaxCache,         \* 4096 in the code
    DryRun,           \* -dry-run
    MayDie,           \* whether the daemon may be stopped or killed
    MayFill,          \* whether the disk of the audit file may be full
    NoInput, NoBody

\* kind is what decode and policy make of the connection: no usable header, a
\* payload that does not decode, or the verdict of policy.Decide.
InputType ==
    [event : {"pre", "post"}, kind : {"headerless", "garbled", "allow", "deny", "judge"},
     conv : Conv, key : Key, body : Body]

ASSUME InputAssumption == Input \subseteq InputType /\ NoInput \notin Input
ASSUME SetAssumption ==
    IsFiniteSet(Call) /\ IsFiniteSet(Key) /\ NoBody \notin Body /\ BigBody \subseteq Body
ASSUME LimitAssumption ==
    /\ MaxConsecutive \in Nat \ {0} /\ MaxTotal \in Nat \ {0} /\ MaxCache \in Nat \ {0}
    /\ DryRun \in BOOLEAN /\ MayDie \in BOOLEAN /\ MayFill \in BOOLEAN

VARIABLES
    life,        \* the daemon's process: "up", "stopping" from the signal on, "down"
    pc,          \* pc[c]: where the goroutine that handles c is
    input,       \* input[c]: what came over the connection
    decision,    \* decision[c]: the handler's local variable
    layer,       \* layer[c]: who decided
    escalated,   \* escalated[c]: isEscalated, for a denied call
    answer,      \* answer[c]: what was written to the connection, or "lost"
    cache,       \* s.cache: the verdict under a key, or "none"
    denials,     \* s.denials: counters of a conversation, zero if it has none
    audit,       \* the lines of the audit file
    phase, asked, result,  \* the judge's contract, see Judge.tla
    order,       \* history: the calls of this life, in the order they were counted
    judged,      \* history: <<key, body, verdict>> the judge gave in this life
    unwritten    \* history: the calls whose line was lost when it was written

J == INSTANCE Judge WITH
        Caller <- Call, Request <- Body, BigRequest <- BigBody, NoRequest <- NoBody

callVars == <<pc, input, decision, layer, escalated, answer>>
memVars == <<cache, denials>>
judgeVars == <<phase, asked, result>>
logVars == <<audit, unwritten>>
history == <<order, judged>>
vars == <<life, callVars, memVars, logVars, judgeVars, history>>

Limits == [consecutive : Nat, total : Nat]
Zero == [consecutive |-> 0, total |-> 0]

Cached == {k \in Key : cache[k] # "none"}

AuditLine == [call : Call, layer : {"policy", "cache", "judge"},
              decision : {"allow", "deny"}, escalated : BOOLEAN]

\* Every variable holds a value of its kind; a call has an input exactly when
\* it has arrived.
TypeOK ==
    /\ life \in {"up", "stopping", "down"}
    /\ pc \in [Call -> {"new", "refuse", "post", "lookup", "ask", "judging", "store", "limits",
                        "check", "reply", "audit", "done"}]
    /\ input \in [Call -> Input \cup {NoInput}]
    /\ \A c \in Call : pc[c] # "new" => input[c] \in Input
    /\ decision \in [Call -> {"none", "allow", "deny"}]
    /\ layer \in [Call -> {"none", "policy", "cache", "judge"}]
    /\ escalated \in [Call -> BOOLEAN]
    /\ answer \in [Call -> {"none", "allow", "deny", "continue", "terminate", "lost"}]
    /\ cache \in [Key -> {"none", "allow", "deny"}]
    /\ denials \in [Conv -> Limits]
    /\ audit \subseteq AuditLine
    /\ order \in Seq(Call)
    /\ judged \subseteq Key \X Body \X {"allow", "deny"}
    /\ unwritten \subseteq Call

Init ==
    /\ life = "up"
    /\ pc = [c \in Call |-> "new"]
    /\ input = [c \in Call |-> NoInput]
    /\ decision = [c \in Call |-> "none"]
    /\ layer = [c \in Call |-> "none"]
    /\ escalated = [c \in Call |-> FALSE]
    /\ answer = [c \in Call |-> "none"]
    /\ cache = [k \in Key |-> "none"]
    /\ denials = [v \in Conv |-> Zero]
    /\ audit = {}
    /\ J!JudgeInit
    /\ order = <<>>
    /\ judged = {}
    /\ unwritten = {}

----------------------------------------------------------------------------
(* Pieces shared by the actions. *)

conv(c) == input[c].conv

Goto(c, l) == pc' = [pc EXCEPT ![c] = l]

\* Mutated form of Settle: the answer is sent without being counted.
SettleUncounted(c, d, l) ==
    /\ decision' = [decision EXCEPT ![c] = d]
    /\ layer' = [layer EXCEPT ![c] = l]
    /\ Goto(c, "reply")

\* The handler's verdict is d, found by layer l; the limits come next.
Settle(c, d, l) ==
    /\ decision' = [decision EXCEPT ![c] = d]
    /\ layer' = [layer EXCEPT ![c] = l]
    /\ Goto(c, "limits")

\* Write a to the connection and return.
Finish(c, a) ==
    /\ answer' = [answer EXCEPT ![c] = a]
    /\ Goto(c, "done")

\* Mutated forms of OverLimit: one denial early, without the run, and without the
\* total.
OverLimitEarly(v) == denials[v].consecutive + 1 >= MaxConsecutive \/ denials[v].total >= MaxTotal
OverLimitTotalOnly(v) == denials[v].total >= MaxTotal
OverLimitRunOnly(v) == denials[v].consecutive >= MaxConsecutive

OverLimit(v) == denials[v].consecutive >= MaxConsecutive \/ denials[v].total >= MaxTotal

\* Mutated form of Remember: the map is never dropped.
RememberAll(k, d) == cache' = [cache EXCEPT ![k] = d]

\* The whole map is dropped when it is full.
Remember(k, d) ==
    cache' = IF Cardinality(Cached) >= MaxCache
             THEN [x \in Key |-> IF x = k THEN d ELSE "none"]
             ELSE [cache EXCEPT ![k] = d]

\* Mutated form of Counted: an allowed call does not end a run of denials.
CountedForEver(l, d) ==
    IF d = "deny" THEN [consecutive |-> l.consecutive + 1, total |-> l.total + 1] ELSE l

Counted(l, d) ==
    IF d = "deny" THEN [consecutive |-> l.consecutive + 1, total |-> l.total + 1]
                  ELSE [l EXCEPT !.consecutive = 0]

----------------------------------------------------------------------------
(* handle, one action per critical section, judge call or reply. *)

\* Accept, read, decode, and the policy, none of which looks at shared state.
Arrive(c, i) ==
    /\ life = "up"
    /\ pc[c] = "new"
    /\ input' = [input EXCEPT ![c] = i]
    /\ \/ /\ i.kind \in {"headerless", "garbled"}
          /\ Goto(c, "refuse")
          /\ UNCHANGED <<decision, layer>>
       \/ /\ i.kind \notin {"headerless", "garbled"} /\ i.event = "post"
          /\ Goto(c, "post")
          /\ UNCHANGED <<decision, layer>>
       \/ /\ i.kind \in {"allow", "deny"} /\ i.event = "pre"
          /\ Settle(c, i.kind, "policy")
       \/ /\ i.kind = "judge" /\ i.event = "pre"
          /\ Goto(c, "lookup")
          /\ UNCHANGED <<decision, layer>>
    /\ UNCHANGED <<life, answer, escalated, memVars, logVars, judgeVars, history>>

\* No usable header: close the connection.  No payload: a fixed answer, which
\* is not counted and not audited.
Refuse(c) ==
    /\ pc[c] = "refuse"
    /\ Finish(c, CASE input[c].kind = "headerless" -> "lost"
                   [] input[c].kind = "garbled" /\ input[c].event = "post" -> "continue"
                   [] OTHER -> "deny")
    /\ UNCHANGED <<life, input, decision, layer, escalated, memVars, logVars, judgeVars, history>>

\* PostInvocation: read the counters, tell the run to stop or not.
PostCheck(c) ==
    /\ pc[c] = "post"
    /\ Finish(c, IF OverLimit(conv(c)) THEN "terminate" ELSE "continue")
    /\ UNCHANGED <<life, input, decision, layer, escalated, memVars, logVars, judgeVars, history>>

Lookup(c) ==
    /\ pc[c] = "lookup"
    /\ LET d == cache[input[c].key] IN
       \/ d # "none" /\ Settle(c, d, "cache")
       \/ d = "none" /\ Goto(c, "ask") /\ UNCHANGED <<decision, layer>>
    /\ UNCHANGED <<life, input, escalated, answer, memVars, logVars, judgeVars, history>>

\* No lock is held from here until the judge has answered.
AskJudge(c) ==
    /\ pc[c] = "ask"
    /\ J!AskJudge(c, input[c].body)
    /\ Goto(c, "judging")
    /\ UNCHANGED <<life, input, decision, layer, escalated, answer, memVars, logVars, history>>

\* The handler has looked at what Ask returned, and keeps no more of it.
Take(c) ==
    /\ result' = [result EXCEPT ![c] = J!NoResult]
    /\ UNCHANGED <<phase, asked>>

\* Mutated forms of JudgeFailed: it fails open; it forgets the quota notice.
JudgeFailedOpen(c) ==
    /\ pc[c] = "judging"
    /\ phase[c] = "idle"
    /\ result[c].kind # "reply"
    /\ Settle(c, "allow", "judge")
    /\ Take(c)
    /\ UNCHANGED <<life, input, escalated, answer, memVars, logVars, history>>
JudgeFailedError(c) ==
    /\ pc[c] = "judging"
    /\ phase[c] = "idle"
    /\ result[c].kind = "error"
    /\ Settle(c, "deny", "judge")
    /\ Take(c)
    /\ UNCHANGED <<life, input, escalated, answer, memVars, logVars, history>>

\* Pool.Ask gave up, or the model's quota is exhausted.
JudgeFailed(c) ==
    /\ pc[c] = "judging"
    /\ phase[c] = "idle"
    /\ result[c].kind # "reply"
    /\ Settle(c, "deny", "judge")
    /\ Take(c)
    /\ UNCHANGED <<life, input, escalated, answer, memVars, logVars, history>>

\* Mutated form of JudgeMalformed: the denial is cached like a verdict.
JudgeMalformedCached(c) ==
    /\ pc[c] = "judging"
    /\ phase[c] = "idle"
    /\ result[c].kind = "reply"
    /\ decision' = [decision EXCEPT ![c] = "deny"]
    /\ layer' = [layer EXCEPT ![c] = "judge"]
    /\ Goto(c, "store")
    /\ Take(c)
    /\ UNCHANGED <<life, input, escalated, answer, memVars, logVars, history>>

\* ParseReply finds no verdict in the reply.
JudgeMalformed(c) ==
    /\ pc[c] = "judging"
    /\ phase[c] = "idle"
    /\ result[c].kind = "reply"
    /\ Settle(c, "deny", "judge")
    /\ Take(c)
    /\ UNCHANGED <<life, input, escalated, answer, memVars, logVars, history>>

\* ParseReply finds the verdict d, which is the judge's of the body it was shown.
JudgeVerdict(c, d) ==
    /\ pc[c] = "judging"
    /\ phase[c] = "idle"
    /\ result[c].kind = "reply"
    /\ decision' = [decision EXCEPT ![c] = d]
    /\ layer' = [layer EXCEPT ![c] = "judge"]
    /\ Goto(c, "store")
    /\ judged' = judged \cup {<<input[c].key, result[c].to, d>>}
    /\ Take(c)
    /\ UNCHANGED <<life, input, escalated, answer, memVars, logVars, order>>

Store(c) ==
    /\ pc[c] = "store"
    /\ Remember(input[c].key, decision[c])
    /\ Goto(c, "limits")
    /\ UNCHANGED <<life, input, decision, layer, escalated, answer, denials, logVars, judgeVars, history>>

Count(c) ==
    /\ pc[c] = "limits"
    /\ denials' = [denials EXCEPT ![conv(c)] = Counted(@, decision[c])]
    /\ order' = Append(order, c)
    /\ Goto(c, "check")
    /\ UNCHANGED <<life, input, decision, layer, escalated, answer, cache, logVars, judgeVars, judged>>

\* A second critical section reads the counters again.
Check(c) ==
    /\ pc[c] = "check"
    /\ escalated' = [escalated EXCEPT ![c] = decision[c] = "deny" /\ OverLimit(conv(c))]
    /\ Goto(c, "reply")
    /\ UNCHANGED <<life, input, decision, layer, answer, memVars, logVars, judgeVars, history>>

\* Mutated form of Reply: the dry run overrides the decision itself.
ReplyOverrides(c) ==
    /\ pc[c] = "reply"
    /\ decision' = [decision EXCEPT ![c] = IF DryRun THEN "allow" ELSE @]
    /\ answer' = [answer EXCEPT ![c] = decision'[c]]
    /\ Goto(c, "audit")
    /\ UNCHANGED <<life, input, layer, escalated, memVars, logVars, judgeVars, history>>

Reply(c) ==
    /\ pc[c] = "reply"
    /\ answer' = [answer EXCEPT ![c] = IF DryRun THEN "allow" ELSE decision[c]]
    /\ Goto(c, "audit")
    /\ UNCHANGED <<life, input, decision, layer, escalated, memVars, logVars, judgeVars, history>>

\* auditDecision is the decision before the dry run overrides it.  The error of
\* the write is not looked at: the disk may be full, and Stop may have closed the
\* file under the handlers that go on.
Audit(c) ==
    /\ pc[c] = "audit"
    /\ \/ /\ audit' = audit \cup {[call |-> c, layer |-> layer[c], decision |-> decision[c],
                                   escalated |-> escalated[c]]}
          /\ UNCHANGED unwritten
       \/ /\ MayFill \/ life = "stopping"
          /\ unwritten' = unwritten \cup {c}
          /\ UNCHANGED audit
    /\ Goto(c, "done")
    /\ UNCHANGED <<life, input, decision, layer, escalated, answer, memVars, judgeVars, history>>

----------------------------------------------------------------------------
(* The judge, and the life of the daemon. *)

JudgeFinishes(c) ==
    /\ J!Finish(c)
    /\ UNCHANGED <<life, callVars, memVars, logVars, history>>

\* The signal: the listener is closed, and Stop closes the audit file at some
\* moment before the process has ended.  Handlers are not waited for, nor stopped.
Stop ==
    /\ MayDie /\ life = "up"
    /\ life' = "stopping"
    /\ UNCHANGED <<callVars, memVars, logVars, judgeVars, history>>

\* The process ends, because main has returned or in a crash: no handler gets
\* any further, every open connection closes, and memory is lost.
Die ==
    /\ MayDie /\ life # "down"
    /\ life' = "down"
    /\ pc' = [c \in Call |-> IF pc[c] = "new" THEN "new" ELSE "done"]
    /\ answer' = [c \in Call |-> IF pc[c] # "new" /\ answer[c] = "none" THEN "lost" ELSE answer[c]]
    /\ cache' = [k \in Key |-> "none"]
    /\ denials' = [v \in Conv |-> Zero]
    /\ phase' = [c \in Call |-> "idle"]
    /\ order' = <<>>
    /\ judged' = {}
    /\ result' = [c \in Call |-> J!NoResult]
    /\ UNCHANGED <<input, decision, layer, escalated, logVars, asked>>

Restart ==
    /\ life = "down"
    /\ life' = "up"
    /\ UNCHANGED <<callVars, memVars, logVars, judgeVars, history>>

Handle(c) ==
    \/ Refuse(c) \/ PostCheck(c) \/ Lookup(c) \/ AskJudge(c)
    \/ JudgeFailed(c) \/ JudgeMalformed(c) \/ \E d \in {"allow", "deny"} : JudgeVerdict(c, d)
    \/ Store(c) \/ Count(c) \/ Check(c) \/ Reply(c) \/ Audit(c)

Next ==
    \/ \E c \in Call : \/ \E i \in Input : Arrive(c, i)
                       \/ Handle(c)
                       \/ JudgeFinishes(c)
    \/ Stop \/ Die \/ Restart

\* A handler is a goroutine, and the judge comes back from a request that fits
\* its worker's pipe (Pool.tla); from a larger one it may never.  A daemon that is
\* told to stop does.  Nothing makes a call arrive, or the daemon stop or crash.
Fairness ==
    /\ \A c \in Call : /\ WF_vars(Handle(c))
                       /\ WF_vars(asked[c] \notin BigBody /\ JudgeFinishes(c))
    /\ WF_vars(life = "stopping" /\ Die)
    /\ WF_vars(Restart)

Spec == Init /\ [][Next]_vars /\ Fairness

----------------------------------------------------------------------------
(* What is correct about the daemon. *)

\* The calls of conversation v that were counted in this life, as positions of
\* order; those that were denied; and those denied since the last allowed one.
OfConv(v) == {i \in DOMAIN order : conv(order[i]) = v}
Denied(v) == {i \in OfConv(v) : decision[order[i]] = "deny"}
DeniedRun(v) == {i \in Denied(v) : \A j \in OfConv(v) : j >= i => j \in Denied(v)}

\* The counters are those of a daemon that serves one call at a time: no
\* interleaving of handlers loses, doubles or misplaces a denial.
CountersExact ==
    \A v \in Conv : /\ denials[v].total = Cardinality(Denied(v))
                    /\ denials[v].consecutive = Cardinality(DeniedRun(v))

\* No agent is told ESCALATED before its conversation has as many denials as
\* the smaller limit, however the two critical sections of a call interleave
\* with those of others.
EscalationEarned ==
    \A c \in Call : escalated[c] /\ pc[c] \in {"reply", "audit"} =>
        \/ Cardinality(Denied(conv(c))) >= MaxConsecutive
        \/ Cardinality(Denied(conv(c))) >= MaxTotal

\* The handler's steps are atomic enough that PostInvocation lets a run go on
\* only when, counting call by call, neither limit is reached.
RunStopsAtLimit ==
    [][\A c \in Call : pc[c] = "post" /\ answer'[c] = "continue" =>
            /\ Cardinality(DeniedRun(conv(c))) < MaxConsecutive
            /\ Cardinality(Denied(conv(c))) < MaxTotal]_vars

\* The cache remembers only what the judge really said, in this life, of a call
\* with that key: never an error, a timeout, a quota notice or a garbled reply.
CacheHonest ==
    \A k \in Cached : \E b \in Body : <<k, b, cache[k]>> \in judged

\* The bound on the cache holds although the handlers look it up, ask the judge
\* and store in three separate steps.
CacheBounded == Cardinality(Cached) <= MaxCache

\* The audit file keeps the real decision, also when a dry run answers
\* otherwise: a line that says allow was justified when it was written.
AuditTellsTruth ==
    [][\A e \in audit' \ audit :
            e.decision = "allow" =>
                \/ input[e.call].kind = "allow"
                \/ \E b \in Body : <<input[e.call].key, b, "allow">> \in judged]_vars

Abstract == INSTANCE Gate WITH
    approved <- {k \in Key : \E b \in Body : <<k, b, "allow">> \in judged}

\* The daemon fails closed: it implements Gate.tla, so whatever handlers, cache
\* and judge do to each other, an allow is justified by the policy, or by the
\* judge since the daemon started.
FailsClosed == Abstract!GateSpec

\* Every call that arrives is answered, or lost with the daemon, unless the judge
\* is asked something that does not fit its pipe: that handler may stay for ever.
CallAnswered ==
    \A c \in Call : pc[c] # "new" /\ ~Abstract!MayHang(c) ~> answer[c] # "none"

----------------------------------------------------------------------------
(* What the documents say and the daemon does not do. *)

\* ARCHITECTURE.md:146: the cache is keyed by the "canonical args"; a verdict
\* taken from it is one the judge gave of the same request.
CacheServesSameRequest ==
    \A c \in Call : pc[c] = "limits" /\ layer[c] = "cache" =>
        <<input[c].key, input[c].body, decision[c]>> \in judged
====
