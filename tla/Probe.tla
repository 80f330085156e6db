---- MODULE Probe ----
(***************************************************************************)
(* The probe: the inv event of the daemon (internal/server/server.go) and  *)
(* the incremental scan of internal/probe.                                 *)
(*                                                                         *)
(* Before each model call agy-gate-hook -inv asks the daemon to look at    *)
(* the tool output that is new in the transcript.  The daemon keeps the    *)
(* highest step it has seen of each conversation, reads it in one critical *)
(* section and raises it in another, and scans the file in between with no *)
(* lock held.  agy kills a hook that takes longer than 10 s; the daemon    *)
(* does not notice, and what it then writes is read by nobody.             *)
(***************************************************************************)
EXTENDS Naturals, Sequences, FiniteSetsExt

CONSTANTS
    Call,        \* inv connections, each used once
    Conv,        \* conversations
    MaxSteps,    \* bound on the steps of a transcript
    MayDie       \* whether the daemon may be killed

ASSUME NumAssumption == MaxSteps \in Nat /\ MayDie \in BOOLEAN

\* What the scan makes of a step: tool output (GENERIC) with one of the patterns
\* in its first 64 KiB, or anything else.  Steps count from 1.
StepKind == {"trigger", "other"}

Answer == {"none", "warn", "continue", "deny", "unread", "lost"}

VARIABLES
    up,          \* the daemon runs
    steps,       \* steps[v]: the transcript of v
    hwm,         \* s.hwm: the highest step seen of v, 0 if there is none
    pc,          \* pc[c]: where the handler of c is
    conv,        \* conv[c]: its conversation
    mark,        \* mark[c]: the mark it read
    seen,        \* seen[c]: the new mark its scan returned
    found,       \* found[c]: the step with the first match, 0 if there is none
    answer,      \* answer[c]: what was written to the connection
    audit,       \* the warnings in the audit file
    unwritten    \* history: the calls whose line was lost when it was written

logVars == <<audit, unwritten>>
vars == <<up, steps, hwm, pc, conv, mark, seen, found, answer, logVars>>
localVars == <<mark, seen, found>>

\* Every variable holds a value of its kind.
TypeOK ==
    /\ up \in BOOLEAN
    /\ steps \in [Conv -> Seq(StepKind)]
    /\ hwm \in [Conv -> 0 .. MaxSteps]
    /\ pc \in [Call -> {"new", "refuse", "mark", "scan", "raise", "reply", "audit", "done"}]
    /\ conv \in [Call -> Conv]
    /\ mark \in [Call -> 0 .. MaxSteps]
    /\ seen \in [Call -> 0 .. MaxSteps]
    /\ found \in [Call -> 0 .. MaxSteps]
    /\ answer \in [Call -> Answer]
    /\ audit \subseteq [call : Call, step : 1 .. MaxSteps]
    /\ unwritten \subseteq Call

Init ==
    /\ up = TRUE
    /\ steps = [v \in Conv |-> <<>>]
    /\ hwm = [v \in Conv |-> 0]
    /\ pc = [c \in Call |-> "new"]
    /\ conv \in [Call -> Conv]
    /\ mark = [c \in Call |-> 0]
    /\ seen = [c \in Call |-> 0]
    /\ found = [c \in Call |-> 0]
    /\ answer = [c \in Call |-> "none"]
    /\ audit = {}
    /\ unwritten = {}

Goto(c, l) == pc' = [pc EXCEPT ![c] = l]

----------------------------------------------------------------------------
(* agy, which writes the transcript and calls the hook. *)

\* A step is appended with the next number.
AddStep(v, k) ==
    /\ Len(steps[v]) < MaxSteps
    /\ steps' = [steps EXCEPT ![v] = Append(@, k)]
    /\ UNCHANGED <<up, hwm, pc, conv, localVars, answer, logVars>>

\* A connection whose payload decodes, or not.
Arrive(c) ==
    /\ up
    /\ pc[c] = "new"
    /\ Goto(c, "refuse") \/ Goto(c, "mark")
    /\ UNCHANGED <<up, steps, hwm, conv, localVars, answer, logVars>>

----------------------------------------------------------------------------
(* handle. *)

\* By now agy may have killed the hook; nobody looks at the error.
Write(c, a) == \E got \in {a, "unread"} : answer' = [answer EXCEPT ![c] = got]

\* Every event but post is refused in the same words.
Refuse(c) ==
    /\ pc[c] = "refuse"
    /\ Write(c, "deny")
    /\ Goto(c, "done")
    /\ UNCHANGED <<up, steps, hwm, conv, localVars, logVars>>

ReadMark(c) ==
    /\ pc[c] = "mark"
    /\ mark' = [mark EXCEPT ![c] = hwm[conv[c]]]
    /\ Goto(c, "scan")
    /\ UNCHANGED <<up, steps, hwm, conv, seen, found, answer, logVars>>

NewTriggers(s, m) == {i \in DOMAIN s : i > m /\ s[i] = "trigger"}

\* ScanTranscript reads to the end of the file, also after a match, and keeps
\* the first match.  It stops early at a line of more than 10 MiB, and before the
\* first line if the file cannot be opened: of the steps it reads the first n.
Scan(c) ==
    /\ pc[c] = "scan"
    /\ \E n \in 0 .. Len(steps[conv[c]]) :
       LET s == [i \in 1 .. n |-> steps[conv[c]][i]]
           new == NewTriggers(s, mark[c])
       IN  /\ seen' = [seen EXCEPT ![c] = Max({mark[c]} \cup DOMAIN s)]
           /\ found' = [found EXCEPT ![c] = IF new = {} THEN 0 ELSE Min(new)]
    /\ Goto(c, "raise")
    /\ UNCHANGED <<up, steps, hwm, conv, mark, answer, logVars>>

\* Mutated forms of Raise: the mark is set without looking at it again; it is
\* raised to the end of the file as it is by now.
RaiseBlindly(c) ==
    /\ pc[c] = "raise"
    /\ hwm' = [hwm EXCEPT ![conv[c]] = seen[c]]
    /\ Goto(c, "reply")
    /\ UNCHANGED <<up, steps, conv, localVars, answer, logVars>>
RaiseToEnd(c) ==
    /\ pc[c] = "raise"
    /\ hwm' = [hwm EXCEPT ![conv[c]] = Max({@, seen[c], Len(steps[conv[c]])})]
    /\ Goto(c, "reply")
    /\ UNCHANGED <<up, steps, conv, localVars, answer, logVars>>

\* The second critical section raises the mark unless somebody raised it more.
Raise(c) ==
    /\ pc[c] = "raise"
    /\ hwm' = [hwm EXCEPT ![conv[c]] = Max({@, seen[c]})]
    /\ Goto(c, "reply")
    /\ UNCHANGED <<up, steps, conv, localVars, answer, logVars>>

\* Mutated form of Reply: a warning that nobody reads is not recorded.
ReplyOrReturn(c) ==
    /\ pc[c] = "reply"
    /\ Write(c, IF found[c] # 0 THEN "warn" ELSE "continue")
    /\ Goto(c, IF answer'[c] = "warn" THEN "audit" ELSE "done")
    /\ UNCHANGED <<up, steps, hwm, conv, localVars, logVars>>

Reply(c) ==
    /\ pc[c] = "reply"
    /\ Write(c, IF found[c] # 0 THEN "warn" ELSE "continue")
    /\ Goto(c, IF found[c] # 0 THEN "audit" ELSE "done")
    /\ UNCHANGED <<up, steps, hwm, conv, localVars, logVars>>

\* The error of the write is dropped: the disk may be full, or Stop, shortly before
\* the daemon exits, may have closed the file.
Audit(c) ==
    /\ pc[c] = "audit"
    /\ \/ /\ audit' = audit \cup {[call |-> c, step |-> found[c]]}
          /\ UNCHANGED unwritten
       \/ /\ unwritten' = unwritten \cup {c}
          /\ UNCHANGED audit
    /\ Goto(c, "done")
    /\ UNCHANGED <<up, steps, hwm, conv, localVars, answer>>

----------------------------------------------------------------------------
(* The life of the daemon. *)

\* Memory is lost, the handlers' own with the rest.
Die ==
    /\ MayDie /\ up
    /\ up' = FALSE
    /\ hwm' = [v \in Conv |-> 0]
    /\ pc' = [c \in Call |-> IF pc[c] = "new" THEN "new" ELSE "done"]
    /\ answer' = [c \in Call |-> IF pc[c] # "new" /\ answer[c] = "none" THEN "lost" ELSE answer[c]]
    /\ mark' = [c \in Call |-> 0]
    /\ seen' = [c \in Call |-> 0]
    /\ found' = [c \in Call |-> 0]
    /\ UNCHANGED <<steps, conv, logVars>>

Restart ==
    /\ ~up
    /\ up' = TRUE
    /\ UNCHANGED <<steps, hwm, pc, conv, localVars, answer, logVars>>

Handle(c) == Refuse(c) \/ ReadMark(c) \/ Scan(c) \/ Raise(c) \/ Reply(c) \/ Audit(c)

Next ==
    \/ \E v \in Conv, k \in StepKind : AddStep(v, k)
    \/ \E c \in Call : Arrive(c) \/ Handle(c)
    \/ Die
    \/ Restart

\* Handlers are goroutines; agy is free to do nothing.
Fairness == \A c \in Call : WF_vars(Handle(c))

Spec == Init /\ [][Next]_vars /\ Fairness

----------------------------------------------------------------------------
(* What is correct. *)

\* However scans of one conversation overtake each other, the mark only goes
\* back when the daemon dies.
MarkNeverFalls == [][\A v \in Conv : hwm'[v] < hwm[v] => up /\ ~up']_vars

\* No pattern is passed over: if the mark of a conversation covers a step that
\* holds one, then some scan, made since the daemon started, covered that step,
\* found this pattern or an earlier one that was new to it, and has warned of it
\* or is about to, although its hook may be gone.
TriggersCovered ==
    \A v \in Conv : \A i \in DOMAIN steps[v] :
        steps[v][i] = "trigger" /\ i <= hwm[v] =>
            \E c \in Call : /\ conv[c] = v /\ mark[c] < i /\ i <= seen[c]
                            /\ found[c] \in 1 .. i
                            /\ (pc[c] = "reply" \/ answer[c] \in {"warn", "unread"})

\* A scan that finds something warns and then writes a line to the audit file, also
\* when its warning, which is not repeated, comes too late for a hook that agy has
\* killed; unless the daemon dies and forgets it.  Only a write that fails, which
\* nobody notices, leaves no line.
WarningGiven ==
    \A c \in Call : (found[c] # 0) ~>
        \/ found[c] = 0
        \/ /\ answer[c] \in {"warn", "unread"}
           /\ c \in unwritten \/ \E e \in audit : e.call = c /\ e.step = found[c]
====
