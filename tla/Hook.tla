---- MODULE Hook ----
(***************************************************************************)
(* The hook client (cmd/agy-gate-hook/main.go) between agy and the daemon. *)
(*                                                                         *)
(* agy starts one hook process for each event and waits for what it prints *)
(* up to a time limit of its own, set by agy-run (contrib).  The hook      *)
(* dials, sends, and reads until the daemon closes the connection or its   *)
(* own deadline passes; whatever goes wrong, it prints the answer that     *)
(* stands for "no".  The daemon does not notice that a hook has given up.  *)
(*                                                                         *)
(* The daemon is Server.tla, step by step.  Time is counted in ticks.  No  *)
(* tick passes while somebody can take a step that waits for nobody, a     *)
(* process that ends included: only the judge takes time, and a daemon     *)
(* that is down.                                                           *)
(***************************************************************************)
EXTENDS Server

CONSTANTS
    HookWait,    \* AGY_GATE_TIMEOUT, 55 s
    AgyWait      \* AgyWait[e]: how long agy waits for a hook, 60 s and 10 s

ASSUME WaitAssumption ==
    /\ HookWait \in Nat \ {0}
    /\ AgyWait \in [{"pre", "post"} -> Nat \ {0}]
    /\ HookWait < AgyWait["pre"]

VARIABLES
    hook,        \* hook[c]: "none", "open" while it is connected, or "over"
    age,         \* age[c]: while the hook of c is connected, the ticks since it dialled
    shown,       \* shown[c]: what the hook of c has printed
    cut,         \* history: the calls whose hook was connected when the daemon died
    told         \* history: the calls of this life whose counted denial was printed

hookVars == <<hook, age, shown, cut, told>>
hvars == <<vars, hookVars>>

\* Every variable holds a value of its kind, and a hook has printed something
\* exactly when it is over.
HookTypeOK ==
    /\ hook \in [Call -> {"none", "open", "over"}]
    /\ age \in [Call -> Nat]
    /\ shown \in [Call -> {"none", "allow", "deny", "continue", "terminate"}]
    /\ \A c \in Call : hook[c] = "over" <=> shown[c] # "none"
    /\ cut \subseteq Call
    /\ told \subseteq Call

HookInit ==
    /\ Init
    /\ hook = [c \in Call |-> "none"]
    /\ age = [c \in Call |-> 0]
    /\ shown = [c \in Call |-> "none"]
    /\ cut = {}
    /\ told = {}

----------------------------------------------------------------------------
(* The hook process. *)

\* What is printed when there is no answer.
failing(e) == IF e = "post" THEN "continue" ELSE "deny"

Say(c, a) ==
    /\ hook' = [hook EXCEPT ![c] = "over"]
    /\ age' = [age EXCEPT ![c] = 0]
    /\ shown' = [shown EXCEPT ![c] = a]

\* The hook dials, and its header and payload are read.
Start(c, i) ==
    /\ hook[c] = "none"
    /\ i.kind # "headerless"
    /\ Arrive(c, i)
    /\ hook' = [hook EXCEPT ![c] = "open"]
    /\ UNCHANGED <<age, shown, cut, told>>

\* No connection is made: the daemon is down, the hook belongs to a judge worker,
\* or its environment names no socket.
FailFast(c, i) ==
    /\ hook[c] = "none" /\ pc[c] = "new"
    /\ Say(c, failing(i.event))
    /\ UNCHANGED <<vars, cut, told>>

\* A connection that is no hook's: another daemon that starts looks whether
\* somebody answers, and hangs up.
Knock(c, i) ==
    /\ hook[c] = "none"
    /\ i.kind = "headerless"
    /\ Arrive(c, i)
    /\ UNCHANGED hookVars

\* The daemon closes a connection when its handler returns, or when it dies.
Closed(c) == pc[c] = "done"

\* A denial that Server.tla counts.
CountedDenial(c) == answer[c] = "deny" /\ input[c].kind # "garbled"

\* Mutated form of ReadReply: the hook prints what it has as soon as it has it.
ReadEarly(c) ==
    /\ hook[c] = "open"
    /\ Closed(c) \/ answer[c] # "none"
    /\ Say(c, IF answer[c] = "lost" THEN failing(input[c].event) ELSE answer[c])
    /\ told' = IF CountedDenial(c) /\ c \notin cut THEN told \cup {c} ELSE told
    /\ UNCHANGED <<vars, cut>>

\* ReadAll returns at the end of the stream: print what was read, if anything.
ReadReply(c) ==
    /\ hook[c] = "open"
    /\ Closed(c)
    /\ Say(c, IF answer[c] = "lost" THEN failing(input[c].event) ELSE answer[c])
    /\ told' = IF CountedDenial(c) /\ c \notin cut THEN told \cup {c} ELSE told
    /\ UNCHANGED <<vars, cut>>

\* Mutated form of Due: dialling and reading may take the whole time each.
DueLate(c) == hook[c] = "open" /\ age[c] >= 2 * HookWait

Due(c) == hook[c] = "open" /\ age[c] >= HookWait

\* Mutated form of GiveUp: the hook exits without a word.
GiveUpSilent(c) ==
    /\ Due(c)
    /\ hook' = [hook EXCEPT ![c] = "over"]
    /\ UNCHANGED <<vars, age, shown, cut, told>>

\* The deadline passes: what was read so far is thrown away.
GiveUp(c) ==
    /\ Due(c)
    /\ Say(c, failing(input[c].event))
    /\ UNCHANGED <<vars, cut, told>>

----------------------------------------------------------------------------
(* The daemon and the clock. *)

\* The process ends, as in Server.tla; the hooks that are connected see their stream end.
Fall ==
    /\ Die
    /\ cut' = cut \cup {c \in Call : hook[c] = "open"}
    /\ told' = {}
    /\ UNCHANGED <<hook, age, shown>>

Waiting(c) == pc[c] = "judging" /\ phase[c] = "pending"

Urgent ==
    \/ life = "stopping"
    \/ \E c \in Call : \/ pc[c] \notin {"new", "done"} /\ ~Waiting(c)
                       \/ hook[c] = "open" /\ (Closed(c) \/ Due(c))

Tick ==
    /\ ~Urgent
    /\ \E c \in Call : hook[c] = "open"
    /\ age' = [c \in Call |-> IF hook[c] = "open" THEN age[c] + 1 ELSE age[c]]
    /\ UNCHANGED <<vars, hook, shown, cut, told>>

HookNext ==
    \/ \E c \in Call : \/ \E i \in Input : Start(c, i) \/ FailFast(c, i) \/ Knock(c, i)
                       \/ ReadReply(c) \/ GiveUp(c)
                       \/ (Handle(c) \/ JudgeFinishes(c)) /\ UNCHANGED hookVars
    \/ Fall
    \/ (Stop \/ Restart) /\ UNCHANGED hookVars
    \/ Tick

\* Server.tla's fairness, a hook that can go on does, and time passes.
HookFairness ==
    /\ \A c \in Call : /\ WF_hvars(Handle(c) /\ UNCHANGED hookVars)
                       /\ WF_hvars(asked[c] \notin BigBody /\ JudgeFinishes(c) /\ UNCHANGED hookVars)
                       /\ WF_hvars(ReadReply(c) \/ GiveUp(c))
    /\ WF_hvars(life = "stopping" /\ Fall)
    /\ WF_hvars(Restart /\ UNCHANGED hookVars)
    /\ WF_hvars(Tick)

HookSpec == HookInit /\ [][HookNext]_hvars /\ HookFairness

----------------------------------------------------------------------------
(* What is correct about hook and daemon together. *)

\* No hook is still waiting when agy would give up on it, which would abort the
\* call: not that of a tool call, however long the judge takes, and not that of
\* PostInvocation, which has less time than the hook's own deadline and must
\* never be behind the judge.
InTime == \A c \in Call : hook[c] = "open" => age[c] < AgyWait[input[c].event]

\* A call that the agent was allowed is in the audit file, with the decision it
\* was given: the hook waits for the end of the stream, which comes after the
\* line.  What can come between the two is the death of the daemon, and a write
\* of the line that fails, which nobody looks at: the disk is full, or Stop has
\* closed the file and the process has not ended yet.
AllowOnRecord ==
    \A c \in Call : shown[c] = "allow" /\ c \notin cut \cup unwritten =>
        \E e \in audit : e.call = c /\ (e.decision = "allow" \/ DryRun)

ToldOf(v) == {c \in told : conv(c) = v}

\* The counters are never behind what the agent knows: a denial it has been shown
\* has been counted, unless the daemon has died since.  (The other way about is
\* not so: a hook that gave up has not shown what is counted later.)
ToldIsCounted == \A v \in Conv : Cardinality(ToldOf(v)) <= denials[v].total

\* An agent that has been shown as many denials as the total limit, by this
\* daemon, is not let go on by a PostInvocation that the daemon answers.
StopsAsTold ==
    [][\A c \in Call : pc[c] = "post" /\ answer'[c] = "continue" =>
            Cardinality(ToldOf(conv(c))) < MaxTotal]_hvars
====
