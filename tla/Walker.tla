---- MODULE Walker ----
(***************************************************************************)
(* The walk over a shell command: internal/policy/shell.go, and the rules  *)
(* of rules.go that move the working directory, nest commands, or depend   *)
(* on where they run: rm, git and build steps.                             *)
(*                                                                         *)
(* The walker decides on a script before bash runs it.  It visits every    *)
(* command once, in the order of the text, and keeps the directory it      *)
(* believes bash is in.  Bash runs some commands not at all, some again    *)
(* and some in a subshell, and its cd can fail.  The module runs every     *)
(* script that is not denied, command by command, next to what the walker  *)
(* believed.                                                               *)
(*                                                                         *)
(* A script is a tree of commands, which are records.  A word is "static"  *)
(* or "dynamic"; a dynamic one has the value at, which the walker does not *)
(* know.  What a command with no path does to the verdict is its class;    *)
(* where its input comes from only chooses that class.  Globs, assignments,*)
(* here documents, functions and $PWD are left out, and files stand still  *)
(* while a script runs.                                                    *)
(*                                                                         *)
(* Other constructs come to those of the module: a block or time to its    *)
(* command; for to a while whose condition is a harmless run; a case of    *)
(* several items to an if with elif parts; a command substitution to a     *)
(* subshell before its command, a redirection to a write or read before    *)
(* it; a coprocess to an unknown run and then a background command.        *)
(***************************************************************************)
EXTENDS Paths

CONSTANTS
    Command,       \* parsed commands, with all their parts
    Scripts,       \* those a call may hold
    MaxDepth,      \* nested shells and wrappers; 8 in the code
    Credential,    \* names of files that usually hold credentials (secretName)
    NoScript       \* no script is being run

VARIABLES
    script,        \* the script of the call, or NoScript
    verdict,       \* what Decide said of it
    stack,         \* the commands the walker is in, see Call
    walker,        \* the walker, see Fresh
    todo,          \* what bash has left to do
    wd,            \* the directory bash is in
    pwd,           \* the name bash has for it, PWD: a path without ".."
    status,        \* whether its last command succeeded
    failed,        \* history: a cd of this script has failed
    climbed        \* history: a cd of this script has gone up from a link

whereVars == <<wd, pwd, failed, climbed>>
shellVars == <<script, verdict, stack, walker, todo, status, whereVars>>
walkerVars == <<vars, shellVars>>

----------------------------------------------------------------------------
(* shell.go.  A call of the walker for every command, and for every part of  *)
(* it in the order of the text.                                              *)

\* Commands that run no other.  rm has two flags: recursive, and whether its operand
\* ends in a slash.
Simple == {"cd", "read", "write", "rm", "git", "build", "run"}

\* Wrappers, which run the command in body: nohup is any that runs it in a
\* process of its own, command any that does not, env has -C.  chdirgit is git -C.
Wrapper == {"nohup", "command", "env"}

\* An elif is an if that stands for the last part of another one.
Compound == {"seq", "and", "or", "pipe", "sub", "background", "shell", "if", "elif", "while", "chdirgit"}
            \cup Wrapper

\* A subshell; a script is given to one, and so is each side of a pipe.
Sub(s) == [op |-> "sub", body |-> s]

\* Commands with a body, and those that are simple.
Within(s) ==
    CASE s.op = "while" -> <<s.cond, s.body>>
      [] s.op \in Simple -> <<>>
      [] OTHER -> <<s.body>>

\* Mutated forms of Parts: the last alternative is passed over; the sides of a
\* pipe share the walker.
PartsThen(s) ==
    CASE s.op \in {"seq", "and", "or"} -> <<s.left, s.right>>
      [] s.op = "pipe" -> <<Sub(s.left), Sub(s.right)>>
      [] s.op \in {"if", "elif"} -> <<s.cond, s.then>>
      [] OTHER -> Within(s)
PartsShared(s) ==
    CASE s.op \in {"seq", "and", "or", "pipe"} -> <<s.left, s.right>>
      [] s.op \in {"if", "elif"} -> <<s.cond, s.then, s.else>>
      [] OTHER -> Within(s)

\* stmt, cmd, env and shell: what they visit.  Background is not looked at.
Parts(s) ==
    CASE s.op \in {"seq", "and", "or"} -> <<s.left, s.right>>
      [] s.op = "pipe" -> <<Sub(s.left), Sub(s.right)>>
      [] s.op \in {"if", "elif"} -> <<s.cond, s.then, s.else>>
      [] OTHER -> Within(s)

\* What the rules without a path say.
Class == {"harmless", "unknown", "denied"}

\* Commands have their parts among them; those that move or open something have a
\* path, and those without a path of their own a class.
ASSUME CommandAssumption ==
    /\ \A s \in Scripts : Sub(s) \in Command
    /\ \A s \in Command :
          /\ s.op \in Simple \cup Compound /\ Range(Parts(s)) \subseteq Command
          /\ s.op \in {"cd", "env", "chdirgit", "read", "write", "rm", "build"} =>
                s.kind \in {"static", "dynamic"} /\ s.at \in GivenType
          /\ s.op = "run" => s.class \in Class
          /\ s.op = "git" => s.class \in Class \cup {"changes", "shows"}
          /\ s.op = "build" => s.class \in Class \cup {"step"}
          /\ s.op = "rm" => s.recursive \in BOOLEAN /\ s.slash \in BOOLEAN
    /\ MaxDepth \in Nat /\ NoScript \notin Scripts

\* The walker follows the links of the directory it was given and those of a path in
\* one walk, where bash, which is in that directory, starts anew: 255 are enough for 80.
ASSUME LinksAssumption == 2 * KernelLinks <= GoLinks

\* isRootOrAbove compares these as they are written (path.go:196), so a home that is
\* a link would not be found there.
ASSUME PlacesAssumption ==
    \A p \in {Home} \cup ScratchDirs : \A files \in [Slot -> Entry] : EntryIn(files, p).kind # "link"

\* The walker in command s: the directory it came from, those it was in before and
\* after each part it has visited, and how deep it is: nested shells, and wrappers
\* around s.
Call(s, from, cwd, depth, wraps) ==
    [s |-> s, from |-> from, at |-> <<cwd>>, depth |-> depth, wraps |-> wraps]

Visited(f, cwd) == [f EXCEPT !.at = Append(@, cwd)]

\* How deep its parts are.
Depth(f) == IF f.s.op = "shell" THEN f.depth + f.wraps + 1 ELSE f.depth
Wraps(f) ==
    CASE f.s.op \in Wrapper -> f.wraps + 1
      [] f.s.op = "chdirgit" -> f.wraps
      [] OTHER -> 0
TooDeep(f) == Depth(f) > MaxDepth \/ Wraps(f) > MaxDepth

\* A walker: its env.cwd, and the result.  checked is a history: the commands it
\* has judged, with the directories it believed to be in before and after.
Fresh == [cwd |-> cwdOf, deny |-> FALSE, notes |-> FALSE, checked |-> {}]

denyf(w) == [w EXCEPT !.deny = TRUE]
judgef(w) == [w EXCEPT !.notes = TRUE]

secretName(g) == g.parts # <<>> /\ Last(g.parts) \in Credential

\* read, of a path in zone z.
read(c, z, w) ==
    CASE c.kind = "dynamic" -> judgef(w)
      [] c.kind = "static" /\ (z = zoneSecret \/ (secretName(c.at) /\ z # zoneWorkspace)) -> denyf(w)
      [] c.kind = "static" /\ z = (IF secretName(c.at) THEN zoneWorkspace ELSE zoneUnknown) -> judgef(w)
      [] OTHER -> w

\* write, of a path in zone z.
write(c, z, w) ==
    CASE c.kind = "dynamic" \/ z \in {zoneOutside, zoneUnknown} -> judgef(w)
      [] c.kind = "static" /\ z \in {zoneSystem, zoneSecret} -> denyf(w)
      [] OTHER -> w

\* Mutated form of linkZone: the slash is not looked at.
linkZoneBare(cwd, g, slash) ==
    LET a == abs(cwd, g)
        lex == classify(Clean(a.parts))
    IN  CASE ~a.ok -> zoneOf(cwd, g)
          [] a.ok /\ lex \in {zoneSystem, zoneSecret} -> lex
          [] OTHER -> IF a.parts = <<>> THEN lex
                      ELSE classify(Join(realpath(Clean(Front(a.parts))), Last(a.parts)))

\* The entry a path names: a link at its end is not followed, unless a slash comes
\* after it.
linkZone(cwd, g, slash) ==
    LET a == abs(cwd, g)
        lex == classify(Clean(a.parts))
    IN  CASE ~a.ok \/ slash -> zoneOf(cwd, g)
          [] a.ok /\ ~slash /\ lex \in {zoneSystem, zoneSecret} -> lex
          [] OTHER -> IF a.parts = <<>> THEN lex
                      ELSE classify(Join(realpath(Clean(Front(a.parts))), Last(a.parts)))

\* Mutated form of isRootOrAbove: the path is taken lexically.
isRootLexically(cwd, g) ==
    LET a == abs(cwd, g)
        p == Clean(a.parts)
    IN  ~a.ok \/ p \in {<<>>, Home} \cup ScratchDirs \/ \E i \in DOMAIN Workspace : under(Roots[i], p)

\* What a recursive rm must never be given.
isRootOrAbove(cwd, g) ==
    LET a == abs(cwd, g)
        p == realpath(a.parts)
    IN  ~a.ok \/ p \in {<<>>, Home} \cup ScratchDirs \/ \E i \in DOMAIN Workspace : under(Roots[i], p)

\* rm of one operand.
rm(c, z, w) ==
    LET entry == linkZone(w.cwd, c.at, c.slash)
    IN  CASE c.kind = "dynamic" -> judgef(w)
          [] c.kind = "static" /\ c.recursive /\ isRootOrAbove(w.cwd, c.at) -> denyf(w)
          [] OTHER ->
                 CASE entry \in {zoneOutside, zoneUnknown} -> IF c.recursive THEN denyf(w) ELSE judgef(w)
                   [] entry \in {zoneWorkspace, zoneScratch} -> w
                   [] OTHER -> write(c, z, w)

\* Where a cd, env -C or git -C leads.  (A cd with no operand, which leads to the home
\* under the name it has, is left out.)
Target(c, cwd) ==
    IF c.kind = "static" /\ abs(cwd, c.at).ok THEN Known(realpath(abs(cwd, c.at).parts)) ELSE Unknown

cd(c, w) == [w EXCEPT !.cwd = Target(c, @)]

\* The commands that have a rule of their own, or none.
known(c, w) ==
    CASE c.class = "harmless" -> w
      [] c.class = "unknown" -> judgef(w)
      [] c.class = "denied" -> denyf(w)

\* The zones that matter to a command: of its path, and of the walker's directory.
ZoneOfPath(w, c) ==
    IF c.op \in {"read", "write", "rm", "build"} THEN zoneOf(w.cwd, c.at) ELSE zoneUnknown
ZoneHere(w) == IF w.cwd.ok THEN zoneAt(w.cwd.parts) ELSE zoneUnknown

\* git, whose subcommand makes its class: one that changes the repository belongs
\* in the workspace, one that shows something of it may run elsewhere.
git(c, here, w) ==
    CASE c.class = "changes" -> IF here = zoneWorkspace THEN w ELSE judgef(w)
      [] c.class = "shows" -> IF here = zoneSecret THEN denyf(w) ELSE w
      [] OTHER -> known(c, w)

\* A known build or test step, with one output path, belongs in the workspace.
build(c, z, here, w) ==
    CASE c.class = "step" -> IF here = zoneWorkspace THEN write(c, z, w) ELSE judgef(w)
      [] OTHER -> known(c, w)

\* exec, and what env and git do before their command.
exec(c, z, here, w) ==
    CASE c.op \in {"cd", "env", "chdirgit"} -> cd(c, w)
      [] c.op = "read" -> read(c, z, w)
      [] c.op = "write" -> write(c, z, w)
      [] c.op = "rm" -> rm(c, z, w)
      [] c.op = "git" -> git(c, here, w)
      [] c.op = "build" -> build(c, z, here, w)
      [] c.op = "run" -> known(c, w)
      [] OTHER -> w

\* The directory is forgotten if the branches have left it elsewhere.
branch(from, cwd) == IF cwd = from THEN cwd ELSE Unknown

\* The walker's directory after s, when it was in cwd at the end of it: a fork had
\* an env of its own, and all parts of an if, those of its elifs too, are one branch.
After(s, from, cwd) ==
    CASE s.op \in {"sub", "shell"} -> from
      [] s.op \in {"if", "while"} -> branch(from, cwd)
      [] OTHER -> cwd

\* decideShell and toVerdict: a denial outweighs every note.
VerdictOf(w) == CASE w.deny -> "deny" [] ~w.deny /\ w.notes -> "judge" [] OTHER -> "allow"

----------------------------------------------------------------------------
(* Bash.  Its cd, which is cd -L, takes ".." for the name before it; env -C, *)
(* git -C and every path that is opened go through links first.             *)

\* What is done if the last command has succeeded, and if not.
Choose(then, else) == [op |-> "choose", then |-> then, else |-> else]
Leave(d, n) == [op |-> "leave", to |-> d, name |-> n]

\* What a compound command comes to, in directory d of name n.
Expand(s, d, n) ==
    CASE s.op = "seq" -> <<s.left, s.right>>
      [] s.op = "and" -> <<s.left, Choose(<<s.right>>, <<>>)>>
      [] s.op = "or" -> <<s.left, Choose(<<>>, <<s.right>>)>>
      [] s.op = "pipe" -> <<Sub(s.left), Sub(s.right)>>
      [] s.op \in {"sub", "background", "shell", "nohup"} -> <<s.body, Leave(d, n)>>
      [] s.op = "command" -> <<s.body>>
      [] s.op \in {"env", "chdirgit"} ->
             <<[op |-> "chdir", kind |-> s.kind, at |-> s.at], Choose(<<s.body>>, <<>>), Leave(d, n)>>
      [] s.op \in {"if", "elif"} -> <<s.cond, Choose(<<s.then>>, <<s.else>>)>>
      [] s.op = "while" -> <<s.cond, Choose(<<s.body, s>>, <<>>)>>

Current == Head(todo)
Busy(ops) == todo # <<>> /\ Current.op \in ops

DecideScript(s) ==
    /\ path = NoPath /\ script = NoScript
    /\ script' = s
    /\ stack' = <<Call(Sub(s), cwdOf, cwdOf, 0, 0)>>
    /\ walker' = Fresh
    /\ UNCHANGED <<vars, verdict, todo, status, whereVars>>

Top == Head(stack)
Pending == stack # <<>> /\ Len(Top.at) <= Len(Parts(Top.s))
NextPart == Parts(Top.s)[Len(Top.at)]

\* The walker comes to the next command.
Visit ==
    /\ Pending /\ ~TooDeep(Top)
    /\ \E z \in {ZoneOfPath(walker, NextPart)}, here \in {ZoneHere(walker)} :
          walker' = exec(NextPart, z, here, walker)
    /\ stack' = <<Call(NextPart, walker.cwd, walker'.cwd, Depth(Top), Wraps(Top))>> \o stack
    /\ UNCHANGED <<vars, script, verdict, todo, status, whereVars>>

\* It does not look at what is too deep.
Refuse ==
    /\ Pending /\ TooDeep(Top)
    /\ walker' = denyf(walker)
    /\ stack' = <<Visited(Top, walker.cwd)>> \o Tail(stack)
    /\ UNCHANGED <<vars, script, verdict, todo, status, whereVars>>

\* A command and all its parts have been visited.
Return ==
    /\ stack # <<>> /\ ~Pending
    /\ \E cwd \in {After(Top.s, Top.from, walker.cwd)} :
          /\ walker' = [walker EXCEPT !.cwd = cwd, !.checked = @ \cup {<<Top.s, Top.from, cwd>>}]
          /\ stack' = IF Len(stack) = 1 THEN <<>>
                      ELSE <<Visited(stack[2], cwd)>> \o Tail(Tail(stack))
    /\ UNCHANGED <<vars, script, verdict, todo, status, whereVars>>

\* A path that leads to a directory.
IsDir(p) == Kernel(p).ok /\ EntryAt(Kernel(p).place).kind = "dir"

\* Bash can start in the directory of the call.
Starts == cwdOf.ok /\ IsDir(cwdOf.parts)

\* It does, and calls it by the name in its environment, if there is one that leads
\* there, or else by its place.
Start ==
    /\ Starts
    /\ todo' = <<script>>
    /\ wd' = Kernel(cwdOf.parts).place
    /\ \E n \in {Kernel(cwdOf.parts).place, Clean(cwdOf.parts)} : Kernel(n) = Kernel(cwdOf.parts) /\ pwd' = n

\* Mutated form of Answer: a denied script is run too.
AnswerRuns ==
    /\ script # NoScript /\ stack = <<>> /\ verdict = "none"
    /\ verdict' = VerdictOf(walker)
    /\ Start
    /\ UNCHANGED <<vars, script, stack, walker, status, failed, climbed>>

\* The walk is over.  Unless the call is denied, bash is started.
Answer ==
    /\ script # NoScript /\ stack = <<>> /\ verdict = "none"
    /\ verdict' = VerdictOf(walker)
    /\ \/ verdict' # "deny" /\ Start
       \/ (verdict' = "deny" \/ ~Starts) /\ UNCHANGED <<todo, wd, pwd>>
    /\ UNCHANGED <<vars, script, stack, walker, status, failed, climbed>>

Unfold ==
    /\ Busy(Compound)
    /\ todo' = Expand(Current, wd, pwd) \o Tail(todo)
    /\ UNCHANGED <<vars, script, verdict, stack, walker, status, whereVars>>

\* A command that does not move bash; it may succeed or not.
RunCommand ==
    /\ Busy(Simple \ {"cd"})
    /\ todo' = Tail(todo)
    /\ status' \in BOOLEAN
    /\ UNCHANGED <<vars, script, verdict, stack, walker, whereVars>>

\* What is before a ".." leads to a directory: only then does bash take it away.
NamesDirs(p) == \A i \in DOMAIN p : p[i] = ".." => IsDir(Clean(SubSeq(p, 1, i - 1)))

\* What is before some ".." is a link.
UpFromLink(p) ==
    \E i \in DOMAIN p :
        LET q == Clean(SubSeq(p, 1, i - 1)) IN p[i] = ".." /\ q # <<>> /\ Lstat(q).kind = "link"

MoveTo(d, n) == wd' = d /\ pwd' = n /\ status' = TRUE /\ UNCHANGED failed
StayHere == UNCHANGED <<wd, pwd>> /\ status' = FALSE /\ failed' = TRUE

\* cd goes by the names in its path, after PWD if it is relative; if that leads to no
\* directory, through links like everybody; or bash stays where it is.
ChangeDirectory ==
    /\ Busy({"cd"})
    /\ LET written == abs(Known(wd), Current.at).ok
           a == abs(Known(wd), Current.at).parts
           p == abs(Known(pwd), Current.at).parts
           byName == written /\ NamesDirs(p) /\ IsDir(Clean(p))
       IN  /\ \/ byName /\ MoveTo(Kernel(Clean(p)).place, Clean(p))
              \/ ~byName /\ written /\ IsDir(a) /\ MoveTo(Kernel(a).place, Kernel(a).place)
              \/ ~byName /\ ~(written /\ IsDir(a)) /\ StayHere
           /\ climbed' = (climbed \/ (byName /\ UpFromLink(p)))
    /\ todo' = Tail(todo)
    /\ UNCHANGED <<vars, script, verdict, stack, walker>>

\* env -C and git -C leave PWD to its old value, and a shell they run takes it only
\* if it still leads to its directory.
EnterDirectory ==
    /\ Busy({"chdir"})
    /\ LET a == abs(Known(wd), Current.at).parts
           found == abs(Known(wd), Current.at).ok /\ IsDir(a)
       IN  \/ found /\ MoveTo(Kernel(a).place, IF Kernel(a).place = wd THEN pwd ELSE Kernel(a).place)
           \/ ~found /\ StayHere
    /\ todo' = Tail(todo)
    /\ UNCHANGED <<vars, script, verdict, stack, walker, climbed>>

Branch ==
    /\ Busy({"choose"})
    /\ todo' = (IF status THEN Current.then ELSE Current.else) \o Tail(todo)
    /\ UNCHANGED <<vars, script, verdict, stack, walker, status, whereVars>>

LeaveSubshell ==
    /\ Busy({"leave"})
    /\ wd' = Current.to /\ pwd' = Current.name
    /\ todo' = Tail(todo)
    /\ UNCHANGED <<vars, script, verdict, stack, walker, status, failed, climbed>>

NoShell ==
    /\ script = NoScript
    /\ verdict = "none"
    /\ stack = <<>>
    /\ walker = Fresh
    /\ todo = <<>>
    /\ wd = <<>> /\ pwd = <<>>
    /\ status = TRUE
    /\ failed = FALSE /\ climbed = FALSE

\* The script is over, or was denied.
Ended ==
    /\ verdict # "none" /\ todo = <<>>
    /\ script' = NoScript
    /\ verdict' = "none"
    /\ walker' = Fresh
    /\ wd' = <<>> /\ pwd' = <<>>
    /\ status' = TRUE
    /\ failed' = FALSE /\ climbed' = FALSE
    /\ UNCHANGED <<vars, stack, todo>>

WalkerInit == Init /\ NoShell

WalkerNext ==
    \/ script = NoScript /\ Next /\ UNCHANGED shellVars
    \/ \E s \in Scripts : DecideScript(s)
    \/ Visit \/ Refuse \/ Return \/ Answer
    \/ Unfold \/ RunCommand \/ ChangeDirectory \/ EnterDirectory \/ Branch \/ LeaveSubshell \/ Ended

WalkerSpec == WalkerInit /\ [][WalkerNext]_walkerVars

----------------------------------------------------------------------------
(* What is correct. *)

\* Every variable, those of Paths.tla included, holds a value of its kind, a denied
\* script is not run, and bash's name for its directory leads there.
WalkerTypeOK ==
    /\ TypeOK
    /\ script # NoScript => script.op \in Simple \cup Compound
    /\ verdict \in {"none", "allow", "judge", "deny"}
    /\ verdict # "none" => script # NoScript /\ stack = <<>>
    /\ verdict \in {"none", "deny"} => todo = <<>>
    /\ EntryAt(wd).kind = "dir" /\ Kernel(pwd) = Place(wd)
    /\ status \in BOOLEAN /\ failed \in BOOLEAN /\ climbed \in BOOLEAN

\* Whatever way bash takes through a script, it runs no command the walker has
\* not judged.
CommandsChecked ==
    Busy(Simple) => \E e \in walker.checked : e[1] = Current

\* The command bash is about to run was judged in the directory bash is in, or
\* in an unknown one.
Tracked ==
    Busy(Simple \ {"run"}) =>
        \E e \in walker.checked : e[1] = Current /\ (e[2].ok => Kernel(e[2].parts).place = wd)

\* A command may leave the walker in another directory.
MayMove(s, Moves(_)) ==
    \/ s.op \in {"cd", "env", "chdirgit"}
    \/ s.op \notin {"sub", "shell"} /\ \E p \in Range(Parts(s)) : Moves(p)

\* It may leave it in a directory only one of its commands ran in: what env -C and
\* git -C do to their command is not taken back.
MayLeak(s, Leaks(_)) ==
    \/ s.op \in {"env", "chdirgit"}
    \/ s.op \notin {"sub", "shell"} /\ \E p \in Range(Parts(s)) : Leaks(p)

\* The walker follows its directory: a part that moves bash stands where bash cannot
\* pass it by, repeat it or run it in the background, or it is in the only branch that
\* moves, not an elif, and no path comes after it there; and in its shell nothing comes
\* after an env -C or a git -C.
IsFollowed(s, Followed(_), Moves(_), Leaks(_)) ==
    /\ \A p \in Range(Parts(s)) : Followed(p)
    /\ s.op \in {"seq", "and", "or"} => ~Leaks(s.left)
    /\ s.op \in {"and", "or"} => ~Moves(s.right)
    /\ s.op \in {"background", "nohup"} => ~Moves(s.body)
    /\ s.op = "elif" => ~Moves(s)
    /\ s.op = "if" => /\ ~Moves(s.cond) /\ ~Leaks(s.then) /\ ~Leaks(s.else)
                      /\ Moves(s.then) => ~Moves(s.else) /\ s.else.op = "run"
    /\ s.op = "while" => ~Moves(s.cond) /\ ~Moves(s.body)

\* What these say of a command, going down its parts.
CONSTANTS Moves(_), Leaks(_), Followed(_)
ASSUME FollowedAssumption ==
    \A s \in Command :
        /\ Moves(s) <=> MayMove(s, Moves)
        /\ Leaks(s) <=> MayLeak(s, Leaks)
        /\ Followed(s) <=> IsFollowed(s, Followed, Moves, Leaks)

\* In such a script, as long as no cd has failed or gone up from a link, the walker's
\* directory is that of bash or unknown, at every command and on every way through the
\* branches.
Trusted == todo # <<>> /\ ~failed /\ ~climbed /\ Followed(script)

FollowedIsTracked == Trusted => Tracked

Operand == abs(Known(wd), Current.at)

\* The entry rm removes: rm refuses "..", "/" and an empty word; a last link is not
\* followed, but after a slash it is, by a recursive rm, which empties the directory.
Removed ==
    LET a == Operand.parts
        named == a # <<>> /\ Last(a) \notin Dots /\ (Current.at.base = "cwd" => Current.at.parts # <<>>)
    IN  CASE named /\ ~Current.slash /\ IsDir(Front(a)) -> Place(Append(Kernel(Front(a)).place, Last(a)))
          [] named /\ Current.slash /\ Current.recursive /\ IsDir(a) -> Kernel(a)
          [] OTHER -> Fails

Builds == Busy({"build"}) /\ Current.class = "step"

\* And then an allow keeps its promise: what bash opens for writing lies in the
\* workspace or a scratch directory, as does what it removes, unless the path has no
\* slash at its end and goes up or ends in a link (linkZone takes ".." lexically); what
\* it reads is not secret; and a repository it changes, or a build, is in the workspace.
AllowKeepsPromise ==
    verdict = "allow" /\ Trusted =>
        /\ Busy({"read"}) /\ Opened(Operand.parts).ok => classify(Opened(Operand.parts).place) # zoneSecret
        /\ (Busy({"write"}) \/ Builds) /\ Opened(Operand.parts).ok =>
              classify(Opened(Operand.parts).place) \in {zoneWorkspace, zoneScratch}
        /\ Busy({"rm"}) /\ Removed.ok =>
              LET e == Removed.place
              IN  \/ ~Current.slash /\ (".." \in Range(cwdOf.parts \o Operand.parts) \/ EntryAt(e).kind = "link")
                  \/ classify(e) \in {zoneWorkspace, zoneScratch}
        /\ Builds \/ (Busy({"git"}) /\ Current.class = "changes") => classify(wd) = zoneWorkspace

\* Whatever the judge says of it, a recursive rm of a path that is written out,
\* however the path goes through links and up again, does not remove the root of
\* the file system, the home, a scratch directory, or a root of the workspace or
\* anything above it.
RootsSurvive ==
    Trusted /\ Busy({"rm"}) /\ Current.recursive /\ Current.kind = "static" /\ Operand.ok /\ Removed.ok =>
        /\ Removed.place \notin {Home} \cup ScratchDirs
        /\ \A i \in DOMAIN Workspace : ~under(Roots[i], Removed.place)

----------------------------------------------------------------------------
(* What the documents say and the walker does not do. *)

\* ARCHITECTURE.md:62: "The walk tracks the working directory through cd; once it
\* becomes unknown, no relative path is safe."  So in every script, not only in
\* those of Followed, and also after a cd that fails or goes up from a link, a command is judged in the
\* directory bash runs it in.
DirectoryTracked == Tracked
====
