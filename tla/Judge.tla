---- MODULE Judge ----
(***************************************************************************)
(* What judge.Pool.Ask promises its callers (internal/judge/pool.go), with *)
(* no worker, pipe or queue in sight: a caller hands over one request and  *)
(* is eventually given back either the reply to that very request, or an   *)
(* error, or the notice that the model's quota is exhausted.  Only a       *)
(* request that is larger than a worker's stdin pipe has no such promise:  *)
(* it may be written to a process that no longer reads (worker.go:166).    *)
(*                                                                         *)
(* Pool.tla implements this contract; Server.tla relies on it.             *)
(***************************************************************************)
CONSTANTS
    Caller,      \* goroutines that call Ask
    Request,     \* request bodies
    BigRequest,  \* those for which Ask may never return
    NoRequest    \* stands for "no request"

VARIABLES
    phase,       \* phase[c]: "idle", or "pending" while c is inside Ask
    asked,       \* asked[c]: the request c last handed over
    result       \* result[c]: what its last Ask returned

judgeVars == <<phase, asked, result>>

Result == [kind : {"none", "reply", "error", "quota"}, to : Request \cup {NoRequest}]
NoResult == [kind |-> "none", to |-> NoRequest]
ErrorResult == [kind |-> "error", to |-> NoRequest]
QuotaResult == [kind |-> "quota", to |-> NoRequest]
ReplyTo(r) == [kind |-> "reply", to |-> r]

JudgeTypeOK ==
    /\ phase \in [Caller -> {"idle", "pending"}]
    /\ asked \in [Caller -> Request \cup {NoRequest}]
    /\ result \in [Caller -> Result]

JudgeInit ==
    /\ phase = [c \in Caller |-> "idle"]
    /\ asked = [c \in Caller |-> NoRequest]
    /\ result = [c \in Caller |-> NoResult]

AskJudge(c, r) ==
    /\ phase[c] = "idle"
    /\ phase' = [phase EXCEPT ![c] = "pending"]
    /\ asked' = [asked EXCEPT ![c] = r]
    /\ result' = [result EXCEPT ![c] = NoResult]

\* Ask returns: the reply to the caller's own request, or one of the two errors.
Finish(c) ==
    /\ phase[c] = "pending"
    /\ phase' = [phase EXCEPT ![c] = "idle"]
    /\ \E o \in {ReplyTo(asked[c]), ErrorResult, QuotaResult} :
          result' = [result EXCEPT ![c] = o]
    /\ UNCHANGED asked

JudgeNext == \E c \in Caller : Finish(c) \/ \E r \in Request : AskJudge(c, r)

JudgeSpec ==
    /\ JudgeInit
    /\ [][JudgeNext]_judgeVars
    /\ \A c \in Caller : WF_judgeVars(asked[c] \notin BigRequest /\ Finish(c))
====
