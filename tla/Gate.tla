---- MODULE Gate ----
(***************************************************************************)
(* What the gate promises about one tool call, without handlers, caches or *)
(* counters: a call is allowed only if the policy allows it or the judge,  *)
(* in this life of the daemon, has approved a call with the same key; it   *)
(* is answered once; and a call the gate loses is never allowed.           *)
(*                                                                         *)
(* Server.tla implements this.                                             *)
(***************************************************************************)
CONSTANTS
    Call,        \* tool calls, one hook connection each
    Key,         \* what the cache tells calls apart by
    Input,       \* what a call may be: see Server.tla
    BigBody,     \* what the judge may never come back from: see Judge.tla
    NoInput,     \* the input of a call that has not arrived
    DryRun       \* -dry-run: answer allow whatever was decided

VARIABLES
    input,       \* input[c]: the call c carries
    answer,      \* answer[c]: what the agent's side was told
    approved     \* keys the judge has approved in this life of the daemon

gateVars == <<input, answer, approved>>

GateInit ==
    /\ input = [c \in Call |-> NoInput]
    /\ answer = [c \in Call |-> "none"]
    /\ approved = {}

Submit(c, i) ==
    /\ input[c] = NoInput
    /\ input' = [input EXCEPT ![c] = i]
    /\ UNCHANGED <<answer, approved>>

Justified(c) ==
    \/ input[c].kind = "allow"
    \/ input[c].kind = "judge" /\ input[c].key \in approved
    \/ DryRun /\ input[c].kind \in {"allow", "deny", "judge"}

Decide(c, a) ==
    /\ input[c] # NoInput
    /\ answer[c] = "none"
    /\ \/ a = "allow" /\ input[c].event = "pre" /\ Justified(c)
       \/ a = "deny" /\ input[c].event = "pre"
       \/ a \in {"continue", "terminate"} /\ input[c].event = "post"
       \/ a = "lost"
    /\ answer' = [answer EXCEPT ![c] = a]
    /\ UNCHANGED <<input, approved>>

Approve(c) ==
    /\ input[c] # NoInput
    /\ answer[c] = "none"
    /\ input[c].kind = "judge"
    /\ approved' = approved \cup {input[c].key}
    /\ UNCHANGED <<input, answer>>

\* The daemon dies: whatever is pending is lost, and every approval with it.
Die ==
    /\ answer' = [c \in Call |-> IF input[c] # NoInput /\ answer[c] = "none"
                                 THEN "lost" ELSE answer[c]]
    /\ approved' = {}
    /\ UNCHANGED input

Answers == {"allow", "deny", "continue", "terminate", "lost"}

GateNext ==
    \/ \E c \in Call : \/ \E i \in Input : Submit(c, i)
                       \/ \E a \in Answers : Decide(c, a)
                       \/ Approve(c)
    \/ Die

\* The judge may have to be asked something that does not fit its worker's pipe.
MayHang(c) ==
    /\ input[c] # NoInput
    /\ input[c].event = "pre" /\ input[c].kind = "judge" /\ input[c].body \in BigBody

\* Every call that arrives is answered, or lost with the daemon, unless it may
\* hang with the judge.
GateSpec ==
    /\ GateInit
    /\ [][GateNext]_gateVars
    /\ \A c \in Call : WF_gateVars(~MayHang(c) /\ \E a \in Answers : Decide(c, a))
====
