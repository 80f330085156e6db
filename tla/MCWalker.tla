---- MODULE MCWalker ----
(***************************************************************************)
(* Paths.tla and Walker.tla on a small file system: a home with a          *)
(* workspace, a secret, a startup file and agy's directory, a scratch      *)
(* directory and a system one.                                             *)
(***************************************************************************)
EXTENDS Walker

File == [kind |-> "file"]
Link(a, t) == [kind |-> "link", abs |-> a, target |-> t]

HomeDir == <<"h">>
TreeOf ==
    [p \in {<<"h">>, <<"h", "w">>, <<"h", "w", "d">>, <<"h", "w", "git">>, <<"h", "s">>,
            <<"h", "art">>, <<"h", "art", "logs">>, <<"t">>, <<"e">>} |-> Dir]
    @@ (<<"h", "s", "x">> :> File) @@ (<<"h", "w", "d", "x">> :> Link(FALSE, <<"..", "x">>))
    @@ (<<"h", "rc">> :> File) @@ (<<"l">> :> Link(TRUE, <<"h", "w">>))
    @@ (<<"h", "p">> :> Link(FALSE, <<"w", "d">>))
SlotOf == {<<"h", "w", "x">>, <<"h", "w", "git", "x">>}
EntryOf ==
    {Missing, File, Link(TRUE, <<"h", "s">>), Link(FALSE, <<"..">>), Link(FALSE, <<"d", "x">>)}

Name == {"d", "x", "s", "..", "git"}
Tuples(n) == [1 .. n -> Name]
GivenOf ==
    [base : {"cwd"}, parts : UNION {Tuples(n) : n \in 0 .. 2} \cup [1 .. 3 -> Name \ {"git"}]]
    \cup {[base |-> "root", parts |-> p \o q] :
             p \in {<<"l">>, <<"t">>, <<"h", "w">>, <<"h", "s">>}, q \in UNION {Tuples(n) : n \in 0 .. 2}}
    \cup {[base |-> "home", parts |-> p] :
             p \in {<<"rc">>, <<"art", "y">>, <<"art", "logs", "y">>, <<"w", "x", "..", "s", "x">>}}
    \cup {[base |-> "other", parts |-> <<"x">>], [base |-> "root", parts |-> <<"e", "y">>]}

WorkspaceOf == << <<"l">> >>
CwdOf == [base |-> "root", parts |-> <<"l">>]
ArtOf == <<"h", "art">>
SecretsOf == {<<"h", "s">>}
PersistenceOf == {<<"h", "rc">>}
ScratchOf == {<<"t">>}
SystemOf == {<<"e">>}

\* Scripts: one or two commands in every construct, and then one more.
Cmd(op, b, p) == [op |-> op, kind |-> "static", at |-> [base |-> b, parts |-> p]]
Dyn(c) == [c EXCEPT !.kind = "dynamic"]
RunOf(class) == [op |-> "run", class |-> class]
Quiet == RunOf("harmless")
Two(op, a, b) == [op |-> op, left |-> a, right |-> b]
In(op, a) == [op |-> op, body |-> a]
If(a, b, c) == [op |-> "if", cond |-> a, then |-> b, else |-> c]
While(a, b) == [op |-> "while", cond |-> a, body |-> b]

Elif(a, b, c) == [If(a, b, c) EXCEPT !.op = "elif"]

Rm(r, g) == [op |-> "rm", kind |-> "static", recursive |-> r, slash |-> FALSE, at |-> g]
Slash(c) == [c EXCEPT !.slash = TRUE]
Git(class) == [op |-> "git", class |-> class]
GitIn(d) == [op |-> "chdirgit", kind |-> d.kind, at |-> d.at, body |-> Git("changes")]
Build(out) == [op |-> "build", class |-> "step", kind |-> out.kind, at |-> out.at]

WriteX == Cmd("write", "cwd", <<"x">>)
CdOut == Cmd("cd", "root", <<"e">>)
CdTo(p) == Cmd("cd", "cwd", p)
Step == {Cmd("cd", "cwd", <<"d">>), Cmd("cd", "cwd", <<"..">>), CdOut, Cmd("cd", "cwd", <<"x">>),
           Dyn(CdOut)}
Still == {WriteX, Cmd("read", "cwd", <<"s", "x">>), Dyn(WriteX), RunOf("unknown"), RunOf("denied"),
          Cmd("read", "cwd", <<"key">>)}
Part ==
    Step \cup {WriteX, Cmd("read", "cwd", <<"s", "x">>), RunOf("denied")}
    \cup {Two("seq", m, WriteX) : m \in Step}

Construct(parts) ==
    {In(op, a) : op \in {"sub", "background", "shell"}, a \in parts}
    \cup {In(op, a) : op \in {"nohup", "command"}, a \in parts \cap (Step \cup Still)}
    \cup {In("shell", In("shell", a)) : a \in parts \cap {WriteX, CdOut}}
    \cup {Two(op, Quiet, a) : op \in {"and", "or", "pipe"}, a \in parts}
    \cup {If(Quiet, a, Quiet) : a \in parts} \cup {If(Quiet, Quiet, a) : a \in parts}
    \cup {While(Quiet, a) : a \in parts}

Afterwards ==
    {[op |-> "env", at |-> m.at, kind |-> m.kind, body |-> WriteX] : m \in Step}
    \cup {Two(op, m, WriteX) : op \in {"and", "or", "pipe"}, m \in Step}
    \cup {If(Quiet, m, WriteX) : m \in Step}

\* A way back from a system directory to a harmless one, which bash may not take.
CdBack == Cmd("cd", "root", <<"t">>)
Back ==
    {Two("seq", CdOut, Two("seq", k, WriteX)) :
        k \in {CdBack, In("sub", CdBack), In("shell", CdBack), If(Quiet, CdBack, Quiet),
               If(Quiet, Quiet, CdBack), Two("pipe", CdBack, Quiet), Two("pipe", Quiet, CdBack)}}

\* Branches of which the last ones are those of an elif, and wrappers in wrappers.
Elifs ==
    {Two("seq", If(Quiet, a, Elif(Quiet, b, Quiet)), WriteX) : a \in {Quiet, CdOut}, b \in {Quiet, CdOut, CdTo(<<"d">>)}}
Wrapped ==
    {In(v, In(w, a)) : v \in {"nohup", "command", "shell"}, w \in {"nohup", "command"}, a \in {WriteX, CdTo(<<"d">>)}}
    \cup {In("command", In("shell", WriteX)), In("nohup", In("command", In("nohup", WriteX)))}

\* Deletions by every path, repositories and builds; also after a step to elsewhere.
RmUp == Rm(TRUE, [base |-> "cwd", parts |-> <<"x", "w">>])
\* A way through a link, or none, and up again; of ~/p, the walker goes to the
\* workspace then, and bash to the home.
Up2 ==
    {Two("seq", CdTo(<<n>>), Two("seq", CdTo(<<"..">>), k)) : n \in {"d", "x"}, k \in {WriteX, RmUp}}
    \cup {Two("seq", Cmd("cd", "home", <<"p">>), Two("seq", CdTo(<<"..">>), k)) :
             k \in {WriteX, Rm(TRUE, [base |-> "cwd", parts |-> <<"w">>])}}
    \cup {Two("seq", CdTo(<<n, "..">>), k) : n \in {"d", "x"}, k \in {WriteX, RmUp}}

Removable ==
    [base : {"cwd"}, parts : Tuples(1) \cup Tuples(2)]
    \cup [base : {"root"}, parts : {<<>>, <<"h">>, <<"h", "w">>, <<"l">>, <<"t">>, <<"e", "y">>, <<"t", "y">>}]
    \cup {[base |-> "cwd", parts |-> <<"x", "..", "w">>], [base |-> "home", parts |-> <<"rc">>]}
Places ==
    {Rm(r, g) : r \in BOOLEAN, g \in Removable} \cup {Slash(Rm(TRUE, g)) : g \in Removable}
    \cup {Dyn(RmUp), Git("shows"), Git("changes"), Build(Dyn(WriteX))}
    \cup {GitIn(m) : m \in Step} \cup {Two("seq", GitIn(CdOut), RmUp)}
    \cup {Two(op, m, k) : op \in {"seq", "and"}, m \in Step, k \in {RmUp, Git("shows"), Git("changes"), Build(WriteX)}}

ScriptsOf ==
    Still \cup Places \cup Up2 \cup Elifs \cup Wrapped \cup Part \cup Construct(Part) \cup Afterwards \cup Back
    \cup {Two("seq", k, WriteX) : k \in Construct(Step) \cup Afterwards}

\* Moves, of which some fail.
MovesOf == {Two("seq", m, WriteX) : m \in Step \ {CdTo(<<"..">>)}}

\* Every command of a script, and what Walker.tla says of each, from its parts upwards.
RECURSIVE All(_), Moving(_), Leaking(_), Following(_)
All(s) == {s} \cup UNION {All(p) : p \in Range(Parts(s))}
Moving(s) == MayMove(s, Moving)
Leaking(s) == MayLeak(s, Leaking)
Following(s) == IsFollowed(s, Following, Moving, Leaking)

CommandOf == UNION {All(Sub(s)) : s \in ScriptsOf}
====
