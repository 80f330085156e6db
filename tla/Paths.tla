---- MODULE Paths ----
(***************************************************************************)
(* Where a path lives: internal/policy/path.go.                            *)
(*                                                                         *)
(* The rules judge a path by its zone.  A path may be relative, hold ".."  *)
(* before or after a symbolic link, and name something that does not exist *)
(* yet, and the zone must be that of what the kernel would open.  Between  *)
(* two calls the agent may change what lies at the places it can write to. *)
(*                                                                         *)
(* A path is the sequence of its components.  One call is one step: the    *)
(* file system does not change while it is judged.                         *)
(***************************************************************************)
EXTENDS Naturals, Sequences, SequencesExt

CONSTANTS
    Tree,          \* what never changes: a function from places to entries
    Slot,          \* places whose entry may change
    Entry,         \* what may be there
    Given,         \* the paths a call may name: [base, parts]
    Workspace,     \* the absolute workspace roots of the run, as given
    Cwd,           \* the directory a call runs in, as given
    Home, Art,     \* the user's home, and agy's directory of this conversation
    Logs,          \* the name of the directory of transcripts in Art
    Control,       \* names in a workspace that make tools run code (wsControl)
    Secrets, Persistence, ScratchDirs, SystemDirs,  \* the tables of rules.go
    KernelLinks,   \* links the kernel follows before it gives up; 40
    GoLinks,       \* links filepath.EvalSymlinks follows; 255
    Longest,       \* bound on the components of a link's target
    NoPath         \* no call is being judged

\* zone, ordered from most to least trusted for writes.
zoneWorkspace == 0
zoneScratch == 1
zoneOutside == 2
zoneSystem == 3
zoneSecret == 4
zoneUnknown == 5

Dots == {".", ".."}
Missing == [kind |-> "missing"]
Dir == [kind |-> "dir"]

\* The name of an entry, "." or "..".
Component == STRING

\* base says how the text of the path begins: with a slash, with a name, with
\* the user's tilde, or with somebody else's.
GivenType == [base : {"root", "cwd", "home", "other"}, parts : Seq(Component)]

\* What may be at a place.
EntryType == [kind : {"missing", "dir", "file"}]
             \cup [kind : {"link"}, abs : BOOLEAN, target : Seq(Component)]

ASSUME PathAssumption ==
    /\ Given \subseteq GivenType /\ Cwd \in GivenType /\ NoPath \notin Given
    /\ Workspace \in Seq(Seq(Component)) /\ Home \in Seq(Component)

ASSUME TreeAssumption ==
    /\ <<>> \notin Slot \cup DOMAIN Tree /\ Slot \cap DOMAIN Tree = {}
    /\ Tree \in [DOMAIN Tree -> EntryType] /\ Entry \subseteq EntryType
    /\ KernelLinks \in Nat /\ GoLinks \in Nat /\ KernelLinks <= GoLinks
    /\ Longest \in Nat
    /\ \A e \in Entry \cup Range(Tree) : e.kind = "link" => Len(e.target) <= Longest

VARIABLES
    slots,       \* slots[s]: what is at s
    path,        \* the path that was judged last, or NoPath
    zone         \* its zone

vars == <<slots, path, zone>>

----------------------------------------------------------------------------
(* The file system.  A link has a target: an absolute path, or one relative *)
(* to the directory the link is in.                                         *)

EntryIn(s, p) ==
    CASE p = <<>> -> Dir
      [] p \in Slot -> s[p]
      [] p \in DOMAIN Tree -> Tree[p]
      [] OTHER -> Missing

EntryAt(p) == EntryIn(slots, p)

Up(p) == IF p = <<>> THEN p ELSE Front(p)

\* A walk: the directory it is at, the components left, the links it may still
\* follow; or one that has failed.
At(at, rest, links) == [at |-> at, rest |-> rest, links |-> links, ok |-> TRUE]
Lost == [at |-> <<>>, rest |-> <<>>, links |-> 0, ok |-> FALSE]

\* What a walk does in a directory with the next name, which is that of entry.
Into(w, name, entry) ==
    CASE name = "." -> At(w.at, Tail(w.rest), w.links)
      [] name = ".." -> At(Up(w.at), Tail(w.rest), w.links)
      [] name \notin Dots /\ entry.kind \in {"dir", "file"} ->
             At(Append(w.at, name), Tail(w.rest), w.links)
      [] name \notin Dots /\ entry.kind = "link" /\ w.links > 0 ->
             At(IF entry.abs THEN <<>> ELSE w.at, entry.target \o Tail(w.rest), w.links - 1)
      [] OTHER -> Lost

\* The next component.  A link is replaced by its target before what follows it,
\* also "..", is looked at.
Look(s, w) ==
    CASE ~w.ok \/ w.rest = <<>> -> w
      [] w.ok /\ w.rest # <<>> /\ EntryIn(s, w.at).kind # "dir" -> Lost
      [] OTHER -> Into(w, Head(w.rest), EntryIn(s, Append(w.at, Head(w.rest))))

\* A walk of a from the root, step by step, and enough steps.
Steps(a, links) == Len(a) + links * Longest

Walk(s, a, links) ==
    LET walk[n \in 0 .. Steps(a, links)] ==
            IF n = 0 THEN At(<<>>, a, links) ELSE Look(s, walk[n - 1])
    IN  walk

\* Where a walk of a ends, if it does.
Place(p) == [ok |-> TRUE, place |-> p]
Fails == [ok |-> FALSE, place |-> <<>>]

End(w) == IF w.ok /\ w.rest = <<>> THEN Place(w.at) ELSE Fails
Reached(s, a, links) == End(Walk(s, a, links)[Steps(a, links)])

\* The way of the kernel, and of filepath.EvalSymlinks.
Kernel(a) == Reached(slots, a, KernelLinks)
EvalSymlinks(a) == Reached(slots, a, GoLinks)

----------------------------------------------------------------------------
(* path.go. *)

\* One component put at the end of a clean path, lexically.
Join(p, name) == CASE name = "." -> p [] name = ".." -> Up(p) [] OTHER -> Append(p, name)

\* The components of a, one after the other.
Joined(p, a) ==
    LET joined[n \in 0 .. Len(a)] == IF n = 0 THEN p ELSE Join(joined[n - 1], a[n])
    IN  joined
JoinAll(p, a) == Joined(p, a)[Len(a)]

\* filepath.Clean, which takes ".." for the name before it.
Clean(a) == JoinAll(<<>>, a)

under(a, dir) == IsPrefix(dir, a)
Below(a, dir) == SubSeq(a, Len(dir) + 1, Len(a))

\* The first n components are resolved and the rest appended: as many as exist.
From(a, n) == JoinAll(EvalSymlinks(SubSeq(a, 1, n)).place, SubSeq(a, n + 1, Len(a)))

\* Mutated form of realpath: ".." goes first.
realpathCleaned(a) ==
    LET c == Clean(a)
    IN  From(c, Max({i \in 0 .. Len(c) : EvalSymlinks(SubSeq(c, 1, i)).ok}))

realpath(a) == From(a, Max({i \in 0 .. Len(a) : EvalSymlinks(SubSeq(a, 1, i)).ok}))

\* A root of the run is a place that exists, and is the same whatever the agent
\* changes: rootPath keeps what it has resolved once.
ASSUME RootAssumption ==
    \A i \in DOMAIN Workspace : \A s, t \in [Slot -> Entry] :
        LET root(u) == Reached(u, Clean(Workspace[i]), GoLinks)
        IN  root(s).ok /\ root(s) = root(t)

\* newEnv, with the roots as rootPath resolves them.
Roots == [i \in DOMAIN Workspace |-> realpath(Clean(Workspace[i]))]

\* The root a path is below, the first of them.
Containing(a) == {i \in DOMAIN Workspace : under(a, Roots[i])}
RootOf(a) == Roots[Min(Containing(a))]

\* abs: absolute, but not clean, or unknown.
Unknown == [ok |-> FALSE, parts |-> <<>>]
Known(p) == [ok |-> TRUE, parts |-> p]

abs(cwd, g) ==
    CASE g.base = "root" -> Known(g.parts)
      [] g.base = "home" -> Known(Home \o g.parts)
      [] g.base = "cwd" /\ cwd.ok -> Known(cwd.parts \o g.parts)
      [] OTHER -> Unknown

\* The working directory: if none is given the first workspace directory, under the
\* name that Decide was given, and for "." the same one as newEnv resolves it.
cwdOf ==
    CASE Cwd.base = "cwd" /\ Cwd.parts = <<>> ->
             IF Workspace = <<>> THEN Unknown ELSE Known(Workspace[1])
      [] Cwd.base = "cwd" /\ Cwd.parts = <<".">> ->
             IF Roots = <<>> THEN Unknown ELSE Known(Roots[1])
      [] OTHER -> abs(Unknown, Cwd)

\* lstat of a place: the entry itself, through the links above it.
EntryUnder(above, name) ==
    IF above.ok /\ EntryAt(above.place).kind = "dir" THEN EntryAt(Append(above.place, name)) ELSE Missing
Lstat(p) == EntryUnder(Kernel(Front(p)), Last(p))

\* Mutated form of resolve: only the last component may be a link.
resolveLastOnly(a) ==
    LET c == Clean(a)
    IN  IF ".." \in Range(a) \/ Containing(c) = {} THEN realpath(a)
        ELSE IF c # <<>> /\ Lstat(c).kind = "link" THEN realpath(a) ELSE c

\* The fast path of realpath: without "..", below a root, up to the first
\* component that does not exist, and as long as none is a link.
Kind(c, i) == Lstat(SubSeq(c, 1, i)).kind
Special(c) == {i \in Len(RootOf(c)) + 1 .. Len(c) : Kind(c, i) \in {"missing", "link"}}
NoLink(c, special) == special = {} \/ Kind(c, Min(special)) = "missing"

resolve(a) ==
    IF ".." \notin Range(a) /\ Containing(Clean(a)) # {} /\ NoLink(Clean(a), Special(Clean(a)))
    THEN Clean(a) ELSE realpath(a)

secret(a) == \E s \in Secrets : under(a, s)
persistence(a) == \E s \in Persistence : under(a, s)

InWorkspace(rel) == IF rel # <<>> /\ Head(rel) \in Control THEN zoneSystem ELSE zoneWorkspace

\* The zone of a clean path, taken literally.  The order matters: the places
\* contain each other.
classify(a) ==
    CASE under(a, Art) ->
             IF Below(a, Art) # <<>> /\ Head(Below(a, Art)) = Logs THEN zoneSystem ELSE zoneWorkspace
      [] ~under(a, Art) /\ secret(a) -> zoneSecret
      [] ~under(a, Art) /\ ~secret(a) /\ Containing(a) # {} -> InWorkspace(Below(a, RootOf(a)))
      [] OTHER ->
             CASE persistence(a) -> zoneSystem
               [] ~persistence(a) /\ under(a, Home) -> zoneOutside
               [] ~under(a, Home) /\ (\E d \in ScratchDirs : under(a, d)) -> zoneScratch
               [] ~under(a, Home) /\ (\A d \in ScratchDirs : ~under(a, d))
                                  /\ (\E d \in SystemDirs : under(a, d)) -> zoneSystem
               [] OTHER -> zoneOutside

\* Mutated form of zoneOf: where a link leads is all that matters.
zoneOfTarget(cwd, g) ==
    IF abs(cwd, g).ok THEN classify(resolve(abs(cwd, g).parts)) ELSE zoneUnknown

\* A protected place stays protected under its own name, wherever a link leads;
\* otherwise the place that is reached decides.
Stricter(lex, res) == IF lex = zoneSecret \/ (lex = zoneSystem /\ res < zoneSystem) THEN lex ELSE res
zoneAt(a) == Stricter(classify(Clean(a)), classify(resolve(a)))

zoneOf(cwd, g) == IF abs(cwd, g).ok THEN zoneAt(abs(cwd, g).parts) ELSE zoneUnknown

----------------------------------------------------------------------------
(* Calls, and the agent's writes between them. *)

Init ==
    /\ slots \in [Slot -> Entry]
    /\ path = NoPath
    /\ zone = zoneUnknown

Decide(g) ==
    /\ path = NoPath
    /\ path' = g
    /\ zone' = zoneOf(cwdOf, g)
    /\ UNCHANGED slots

\* The call has run; a place may have changed.
Run ==
    /\ path # NoPath
    /\ path' = NoPath
    /\ zone' = zoneUnknown
    /\ \/ UNCHANGED slots
       \/ \E s \in Slot, e \in Entry : slots' = [slots EXCEPT ![s] = e]

Next == Run \/ \E g \in Given : Decide(g)

Spec == Init /\ [][Next]_vars

----------------------------------------------------------------------------
(* What is correct. *)

\* Every variable holds a value of its kind, and a place is unknown exactly when
\* the path depends on something the daemon does not know.
TypeOK ==
    /\ slots \in [Slot -> Entry]
    /\ path \in Given \cup {NoPath}
    /\ zone \in zoneWorkspace .. zoneUnknown
    /\ zone = zoneUnknown <=>
          path = NoPath \/ path.base = "other" \/ (path.base = "cwd" /\ ~cwdOf.ok)

\* What the kernel opens, or creates in a directory that exists.
Opened(a) ==
    LET all == Kernel(a)
        dir == Kernel(Up(a))
    IN  IF all.ok THEN all
        ELSE IF /\ dir.ok /\ EntryAt(dir.place).kind = "dir"
                /\ Last(a) \notin Dots /\ EntryAt(Append(dir.place, Last(a))) = Missing
             THEN Place(Append(dir.place, Last(a)))
             ELSE Fails

\* However a path is spelled, and whatever links lie on its way, it is not
\* trusted more than the place the kernel would open or create.
KernelDecides ==
    path # NoPath /\ abs(cwdOf, path).ok =>
        LET target == Opened(abs(cwdOf, path).parts)
        IN  target.ok => zone >= classify(target.place)

\* A path that names a protected place is not trusted more than that place,
\* although a link may lead from there to somewhere harmless.
NameStaysProtected ==
    path # NoPath /\ abs(cwdOf, path).ok =>
        LET named == classify(Clean(abs(cwdOf, path).parts))
        IN  named >= zoneSystem => zone >= zoneSystem /\ (named = zoneSecret => zone = zoneSecret)

\* A path is distrusted only for a reason: its name or where it leads.
NoNeedlessDistrust ==
    path # NoPath /\ abs(cwdOf, path).ok =>
        LET target == Opened(abs(cwdOf, path).parts)
        IN  target.ok =>
                zone \in {classify(target.place), classify(Clean(abs(cwdOf, path).parts))}
====
