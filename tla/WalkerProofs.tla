---- MODULE WalkerProofs ----
(***************************************************************************)
(* What Walker.tla guarantees for every file system, every script and      *)
(* every depth of it.                                                      *)
(*                                                                         *)
(*   - Walked is the invariant of the walk over a script: on the stack, a  *)
(*     command is a part of the one below it, and whatever was judged was  *)
(*     judged with all its parts, each from the directory the one before   *)
(*     it led to.  A recursion over the script is thus read off the        *)
(*     history walker.checked, one command at a time.                      *)
(*   - Running is the invariant of bash: it has left to do only commands   *)
(*     that were judged, in directories that exist, whose names lead to    *)
(*     them.  Walked and Running give WalkerTypeCorrect and                *)
(*     CommandsCheckedAlways.                                              *)
(*   - Bash's cd takes ".." lexically, the walker after links.  As long as *)
(*     no ".." comes after a link, both come to the same (NamesLead), also *)
(*     from a directory that bash has another name for (FromPlace).        *)
(*   - Following relates the two.  Good(todo, b) says that one belief      *)
(*     after the other leads through all bash has left to do, from a       *)
(*     belief b that holds of the directory bash is in, as long as no cd   *)
(*     has failed or gone up from a link.  It gives FollowedTracked.       *)
(*   - A path the walker looks at may be written from another directory    *)
(*     than the one bash is in; SeenFinds and RemovedFinds show that both  *)
(*     come to the same place, and RootsSurviveAlways and                  *)
(*     AllowKeepsPromiseAlways follow from the rules.                      *)
(***************************************************************************)
EXTENDS Walker, PathsProofs

----------------------------------------------------------------------------
(* Commands and their parts. *)

\* A command is its record of fields; what it visits, by the kind of command.
LEMMA PartsAre ==
    ASSUME NEW s
    PROVE  /\ s.op \in {"seq", "and", "or"} => Parts(s) = <<s.left, s.right>>
           /\ s.op = "pipe" => Parts(s) = <<Sub(s.left), Sub(s.right)>>
           /\ s.op \in {"if", "elif"} => Parts(s) = <<s.cond, s.then, s.else>>
           /\ s.op = "while" => Parts(s) = <<s.cond, s.body>>
           /\ s.op \in Simple => Parts(s) = <<>>
           /\ s.op \in {"sub", "background", "shell", "chdirgit", "nohup", "command", "env"} =>
                 Parts(s) = <<s.body>>
  BY DEF Parts, Within, Simple

\* The kinds of commands, in the groups the proofs treat alike.
LEMMA OpsAre ==
    /\ Simple \cup Compound = {"cd", "read", "write", "rm", "git", "build", "run"}
          \cup {"seq", "and", "or"} \cup {"pipe", "if", "elif", "while"}
          \cup {"sub", "background", "shell", "chdirgit", "nohup", "command", "env"}
    /\ Simple \cap Compound = {}
  BY DEF Simple, Compound, Wrapper

\* A command has at most three parts, which are commands; a simple one has none.
LEMMA CommandIs ==
    ASSUME NEW s \in Command
    PROVE  /\ s.op \in Simple \cup Compound
           /\ Parts(s) \in Seq(Command) /\ Len(Parts(s)) \in 0 .. 3
           /\ s.op \in Compound => Len(Parts(s)) > 0
           /\ s.op \in Simple => Parts(s) = <<>>
           /\ \A j \in 1 .. Len(Parts(s)) : Parts(s)[j] \in Command
<1>1. s.op \in Simple \cup Compound /\ Range(Parts(s)) \subseteq Command
  BY CommandAssumption
<1>2. \/ s.op \in Simple /\ Parts(s) = <<>>
      \/ \E a, b : s.op \in Compound /\ Parts(s) = <<a, b>>
      \/ \E a, b, c : s.op \in Compound /\ Parts(s) = <<a, b, c>>
      \/ \E a : s.op \in Compound /\ Parts(s) = <<a>>
  BY <1>1, OpsAre, PartsAre DEF Compound, Wrapper
<1>3. s.op \notin Simple \/ s.op \notin Compound
  BY OpsAre
<1> DEFINE q == Parts(s)
<1>5. ASSUME NEW a, s.op \in Compound, q = <<a>>
      PROVE  q \in Seq(Command) /\ Len(q) \in 0 .. 3 /\ Len(q) > 0
  BY <1>1, <1>5 DEF Range
<1>6. ASSUME NEW a, NEW b, s.op \in Compound, q = <<a, b>>
      PROVE  q \in Seq(Command) /\ Len(q) \in 0 .. 3 /\ Len(q) > 0
  BY <1>1, <1>6 DEF Range
<1>7. ASSUME NEW a, NEW b, NEW c, s.op \in Compound, q = <<a, b, c>>
      PROVE  q \in Seq(Command) /\ Len(q) \in 0 .. 3 /\ Len(q) > 0
  BY <1>1, <1>7 DEF Range
<1> HIDE DEF q
<1>8. q = <<>> => q \in Seq(Command) /\ Len(q) = 0
  OBVIOUS
<1>9. /\ q \in Seq(Command) /\ Len(q) \in 0 .. 3
      /\ s.op \in Compound => Len(q) > 0
      /\ s.op \in Simple => q = <<>>
  <2>1. CASE s.op \in Simple /\ q = <<>>
    BY <1>3, <1>8, <2>1
  <2>2. CASE s.op \in Compound /\ q \in Seq(Command) /\ Len(q) \in 0 .. 3 /\ Len(q) > 0
    BY <1>3, <2>2, Zenon
  <2> QED
    BY <1>2, <1>5, <1>6, <1>7, <2>1, <2>2 DEF q
<1>10. \A j \in 1 .. Len(q) : q[j] \in Command
  BY <1>9
<1> QED
  BY <1>1, <1>9, <1>10 DEF q

----------------------------------------------------------------------------
(* What the walker believes. *)

Belief == {Known(p) : p \in Path} \cup {Unknown}

\* A belief is the path of a directory, or Unknown.
LEMMA BeliefIs ==
    /\ \A b \in Belief : b.ok \in BOOLEAN /\ (b.ok => b.parts \in Path /\ b = Known(b.parts))
    /\ \A b \in Belief : ~b.ok => b = Unknown
    /\ Unknown \in Belief /\ \A p \in Path : Known(p) \in Belief
<1>1. \A b \in Belief : b = Unknown \/ \E p \in Path : b = Known(p)
  BY DEF Belief
<1>2. \A b \in Belief : b.ok \in BOOLEAN /\ (b.ok => b.parts \in Path /\ b = Known(b.parts))
  BY <1>1, KnownIs
<1>3. \A b \in Belief : ~b.ok => b = Unknown
  BY <1>1, KnownIs
<1> QED
  BY <1>2, <1>3 DEF Belief

\* As much of a path is resolved as exists: at least the root does.
LEMMA RealpathIs ==
    ASSUME slots \in Files, NEW a \in Path
    PROVE  realpath(a) \in Path
<1> DEFINE E == {i \in 0 .. Len(a) : EvalSymlinks(SubSeq(a, 1, i)).ok}
           m == Len(a)
<1>1. m \in Nat
  BY DEF Path
<1>2. E # {}
  <2>1. 0 \in 0 .. m /\ SubSeq(a, 1, 0) = <<>>
    BY <1>1, PrefixIs
  <2>2. <<>> \in Path
    BY DEF Path
  <2>3. EvalSymlinks(<<>>).ok
    BY <2>2, RealTop, RealReached, LinksAllowed DEF EvalSymlinks, Place
  <2> QED
    BY <2>1, <2>3
<1>3. PICK n \in E : \A i \in E : i <= n
  <2>1. E \in SUBSET (0 .. m)
    OBVIOUS
  <2> HIDE DEF E, m
  <2> QED
    BY <1>1, <1>2, <2>1, GreatestOfBounded
<1>4. Max(E) = n
  <2>1. E \in SUBSET (0 .. m)
    OBVIOUS
  <2> HIDE DEF E, m
  <2> QED
    BY <1>1, <1>3, <2>1, MaxIs
<1>5. n \in 0 .. m /\ EvalSymlinks(SubSeq(a, 1, n)).ok /\ SubSeq(a, 1, n) \in Path
  BY <1>1, <1>3, PrefixIs
<1>6. EvalSymlinks(SubSeq(a, 1, n)).place \in Path
  BY <1>5, LinksAllowed, ReachedType DEF EvalSymlinks
<1>7. SubSeq(a, n + 1, m) \in Path
  BY <1>1, <1>5 DEF Path
<1>8. realpath(a) = JoinAll(EvalSymlinks(SubSeq(a, 1, n)).place, SubSeq(a, n + 1, m))
  BY <1>4, Zenon DEF realpath, From
<1> QED
  BY <1>6, <1>7, <1>8, CleanType

\* A path taken from a belief is one, known where its base is.
LEMMA AbsBelief ==
    ASSUME NEW b \in Belief, NEW g \in GivenType
    PROVE  /\ abs(b, g) \in Belief
           /\ abs(b, g).ok <=> ~(g.base = "other" \/ (g.base = "cwd" /\ ~b.ok))
<1>1. abs(b, g) \in {Known(g.parts), Known(Home \o g.parts), Known(b.parts \o g.parts), Unknown}
  BY Zenon DEF abs
<1>2. /\ abs(b, g).ok \in BOOLEAN /\ (abs(b, g).ok => abs(b, g).parts \in Path)
      /\ abs(b, g).ok <=> ~(g.base = "other" \/ (g.base = "cwd" /\ ~b.ok))
  BY AbsType, BeliefIs
<1>3. abs(b, g).ok => abs(b, g) = Known(abs(b, g).parts)
  BY <1>1, KnownIs
<1>4. ~abs(b, g).ok => abs(b, g) = Unknown
  BY <1>1, KnownIs
<1> QED
  BY <1>2, <1>3, <1>4, BeliefIs

\* The directory of a call is a belief,
LEMMA CwdBelief == ASSUME slots \in Files PROVE cwdOf \in Belief
<1>1. \E p : cwdOf \in {Unknown, Known(p)}
  <2>0. <<>> # <<".">>
    OBVIOUS
  <2>1. CASE Cwd.base = "cwd" /\ Cwd.parts \in {<<>>, <<".">>}
    BY <2>0, <2>1, Zenon DEF cwdOf
  <2>2. CASE ~(Cwd.base = "cwd" /\ Cwd.parts \in {<<>>, <<".">>})
    <3>1. cwdOf = abs(Unknown, Cwd)
      BY <2>2, Zenon DEF cwdOf
    <3> QED
      BY <3>1, Zenon DEF abs
  <2> QED
    BY <2>1, <2>2
<1> QED
  BY <1>1, CwdType, KnownIs, BeliefIs

Movers == {"cd", "env", "chdirgit"}

\* and so is where a command leads the walker.
LEMMA TargetIs ==
    ASSUME slots \in Files, NEW s \in Command, s.op \in Movers, NEW b \in Belief
    PROVE  Target(s, b) \in Belief
<1>1. s.at \in GivenType
  BY CommandAssumption DEF Movers
<1>2. abs(b, s.at) \in Belief
  BY <1>1, AbsBelief
<1> QED
  BY <1>2, BeliefIs, RealpathIs DEF Target

----------------------------------------------------------------------------
(* What the rules do to a walker. *)

Record == Command \X Belief \X Belief
Walkers == [cwd : Belief, deny : BOOLEAN, notes : BOOLEAN, checked : SUBSET Record]

\* Where a command takes the walker before its parts are visited.
Begins(s, b) == IF s.op \in Movers THEN Target(s, b) ELSE b

\* Two walkers come off a rule in the same way.
Alike(v, w, v1, w1) ==
    \/ v = w /\ v1 = w1
    \/ v = denyf(w) /\ v1 = denyf(w1)
    \/ v = judgef(w) /\ v1 = judgef(w1)

\* What a rule says does not depend on what the walker has said before; here read,
LEMMA ReadAlike ==
    ASSUME NEW c, NEW z, NEW w, NEW w1
    PROVE  Alike(read(c, z, w), w, read(c, z, w1), w1)
<1> DEFINE secret1 == c.kind = "static" /\ (z = zoneSecret \/ (secretName(c.at) /\ z # zoneWorkspace))
           unknown1 == c.kind = "static" /\ z = (IF secretName(c.at) THEN zoneWorkspace ELSE zoneUnknown)
<1>1. ASSUME NEW v
      PROVE  read(c, z, v) = CASE c.kind = "dynamic" -> judgef(v) [] secret1 -> denyf(v)
                                [] unknown1 -> judgef(v) [] OTHER -> v
  BY Zenon DEF read
<1>2. secret1 => ~unknown1
  BY ZoneOrder
<1>3. c.kind = "dynamic" => ~secret1 /\ ~unknown1
  OBVIOUS
<1> HIDE DEF secret1, unknown1
<1>4. ASSUME NEW v
      PROVE  read(c, z, v) = IF c.kind = "dynamic" THEN judgef(v) ELSE IF secret1 THEN denyf(v)
                             ELSE IF unknown1 THEN judgef(v) ELSE v
  BY <1>1, <1>2, <1>3, Zenon
<1>5. /\ read(c, z, w) = IF c.kind = "dynamic" THEN judgef(w) ELSE IF secret1 THEN denyf(w)
                         ELSE IF unknown1 THEN judgef(w) ELSE w
      /\ read(c, z, w1) = IF c.kind = "dynamic" THEN judgef(w1) ELSE IF secret1 THEN denyf(w1)
                          ELSE IF unknown1 THEN judgef(w1) ELSE w1
  BY <1>4
<1> QED
  BY <1>5, Zenon DEF Alike

\* and write.
LEMMA WriteAlike ==
    ASSUME NEW c, NEW z, NEW w, NEW w1
    PROVE  Alike(write(c, z, w), w, write(c, z, w1), w1)
<1> DEFINE doubt == c.kind = "dynamic" \/ z \in {zoneOutside, zoneUnknown}
           worse == c.kind = "static" /\ z \in {zoneSystem, zoneSecret}
<1>1. ASSUME NEW v
      PROVE  write(c, z, v) = CASE doubt -> judgef(v) [] worse -> denyf(v) [] OTHER -> v
  BY Zenon DEF write
<1>2. worse => ~doubt
  BY ZoneOrder
<1> HIDE DEF doubt, worse
<1>3. ASSUME NEW v
      PROVE  write(c, z, v) = IF doubt THEN judgef(v) ELSE IF worse THEN denyf(v) ELSE v
  BY <1>1, <1>2, Zenon
<1>4. /\ write(c, z, w) = IF doubt THEN judgef(w) ELSE IF worse THEN denyf(w) ELSE w
      /\ write(c, z, w1) = IF doubt THEN judgef(w1) ELSE IF worse THEN denyf(w1) ELSE w1
  BY <1>3
<1> QED
  BY <1>4, Zenon DEF Alike

\* The cases of rm, one after the other.
LEMMA RmIs ==
    ASSUME NEW c, c.kind \in {"static", "dynamic"}, NEW z, NEW w
    PROVE  LET entry == linkZone(w.cwd, c.at, c.slash)
           IN  rm(c, z, w) =
                  IF c.kind = "dynamic" THEN judgef(w)
                  ELSE IF c.recursive /\ isRootOrAbove(w.cwd, c.at) THEN denyf(w)
                  ELSE IF entry \in {zoneOutside, zoneUnknown} THEN IF c.recursive THEN denyf(w) ELSE judgef(w)
                  ELSE IF entry \in {zoneWorkspace, zoneScratch} THEN w ELSE write(c, z, w)
<1> DEFINE entry == linkZone(w.cwd, c.at, c.slash)
           above == isRootOrAbove(w.cwd, c.at)
<1>1. rm(c, z, w) = CASE c.kind = "dynamic" -> judgef(w)
                      [] c.kind = "static" /\ c.recursive /\ above -> denyf(w)
                      [] OTHER ->
                           CASE entry \in {zoneOutside, zoneUnknown} -> IF c.recursive THEN denyf(w) ELSE judgef(w)
                             [] entry \in {zoneWorkspace, zoneScratch} -> w
                             [] OTHER -> write(c, z, w)
  BY Zenon DEF rm
<1>2. ~(entry \in {zoneOutside, zoneUnknown} /\ entry \in {zoneWorkspace, zoneScratch})
  BY ZoneOrder
<1> HIDE DEF entry, above
<1>3. CASE c.kind = "dynamic"
  BY <1>1, <1>3
<1>4. CASE c.kind = "static" /\ c.recursive /\ above
  BY <1>1, <1>4 DEF above
<1>5. CASE c.kind = "static" /\ ~(c.recursive /\ above)
  BY <1>1, <1>2, <1>5 DEF above, entry
<1> QED
  BY <1>3, <1>4, <1>5

\* What rm says depends on nothing else but the directory.
LEMMA RmAlike ==
    ASSUME NEW c, c.kind \in {"static", "dynamic"}, NEW z, NEW w, NEW w1, w.cwd = w1.cwd
    PROVE  Alike(rm(c, z, w), w, rm(c, z, w1), w1)
<1> DEFINE entry == linkZone(w.cwd, c.at, c.slash)
           above == isRootOrAbove(w.cwd, c.at)
           Rm(v) == IF c.kind = "dynamic" THEN judgef(v)
                    ELSE IF c.recursive /\ above THEN denyf(v)
                    ELSE IF entry \in {zoneOutside, zoneUnknown} THEN IF c.recursive THEN denyf(v) ELSE judgef(v)
                    ELSE IF entry \in {zoneWorkspace, zoneScratch} THEN v ELSE write(c, z, v)
<1>1. rm(c, z, w) = Rm(w) /\ rm(c, z, w1) = Rm(w1)
  BY RmIs
<1>2. Alike(write(c, z, w), w, write(c, z, w1), w1)
  BY WriteAlike
<1> HIDE DEF entry, above
<1>3. \/ Rm(w) = w /\ Rm(w1) = w1
      \/ Rm(w) = denyf(w) /\ Rm(w1) = denyf(w1)
      \/ Rm(w) = judgef(w) /\ Rm(w1) = judgef(w1)
      \/ Rm(w) = write(c, z, w) /\ Rm(w1) = write(c, z, w1)
  OBVIOUS
<1> HIDE DEF Rm
<1> QED
  BY <1>1, <1>2, <1>3, Zenon DEF Alike

\* The rules without a path,
LEMMA KnownAlike ==
    ASSUME NEW c, c.class \in Class, NEW w, NEW w1
    PROVE  Alike(known(c, w), w, known(c, w1), w1)
<1>1. ASSUME NEW v
      PROVE  /\ c.class = "harmless" => known(c, v) = v
             /\ c.class = "unknown" => known(c, v) = judgef(v)
             /\ c.class = "denied" => known(c, v) = denyf(v)
  BY DEF known
<1>2. c.class = "harmless" \/ c.class = "unknown" \/ c.class = "denied"
  BY DEF Class
<1> QED
  BY <1>1, <1>2, Zenon DEF Alike

\* any of the three ways to come off a rule,
LEMMA Plainly ==
    ASSUME NEW w, NEW w1
    PROVE  Alike(w, w, w1, w1) /\ Alike(denyf(w), w, denyf(w1), w1) /\ Alike(judgef(w), w, judgef(w1), w1)
  BY Zenon DEF Alike

\* The cases of git
LEMMA GitIs ==
    ASSUME NEW c, NEW here, NEW w
    PROVE  /\ c.class = "changes" => git(c, here, w) = IF here = zoneWorkspace THEN w ELSE judgef(w)
           /\ c.class = "shows" => git(c, here, w) = IF here = zoneSecret THEN denyf(w) ELSE w
           /\ c.class \in Class => git(c, here, w) = known(c, w)
  BY DEF git, Class

\* and of a build.
LEMMA BuildIs ==
    ASSUME NEW c, NEW z, NEW here, NEW w
    PROVE  /\ c.class = "step" => build(c, z, here, w) = IF here = zoneWorkspace THEN write(c, z, w) ELSE judgef(w)
           /\ c.class \in Class => build(c, z, here, w) = known(c, w)
  BY DEF build, Class

\* What git says depends on the zones it is given, not on what was said before;
LEMMA GitAlike ==
    ASSUME NEW c, c.class \in Class \cup {"changes", "shows"}, NEW here, NEW w, NEW w1
    PROVE  Alike(git(c, here, w), w, git(c, here, w1), w1)
<1> DEFINE G(v) == git(c, here, v)
<1>1. CASE c.class = "changes"
  <2>1. /\ G(w) = IF here = zoneWorkspace THEN w ELSE judgef(w)
        /\ G(w1) = IF here = zoneWorkspace THEN w1 ELSE judgef(w1)
    BY <1>1, GitIs
  <2> QED
    BY <2>1, Zenon DEF Alike
<1>2. CASE c.class = "shows"
  <2>1. /\ G(w) = IF here = zoneSecret THEN denyf(w) ELSE w
        /\ G(w1) = IF here = zoneSecret THEN denyf(w1) ELSE w1
    BY <1>2, GitIs
  <2> QED
    BY <2>1, Zenon DEF Alike
<1>3. CASE c.class \in Class
  <2>1. G(w) = known(c, w) /\ G(w1) = known(c, w1)
    BY <1>3, GitIs
  <2> QED
    BY <1>3, <2>1, KnownAlike
<1> QED
  BY <1>1, <1>2, <1>3

\* nor does what a build says.
LEMMA BuildAlike ==
    ASSUME NEW c, c.class \in Class \cup {"step"}, NEW z, NEW here, NEW w, NEW w1
    PROVE  Alike(build(c, z, here, w), w, build(c, z, here, w1), w1)
<1> DEFINE B(v) == build(c, z, here, v)
<1>1. CASE c.class = "step"
  <2>1. /\ B(w) = IF here = zoneWorkspace THEN write(c, z, w) ELSE judgef(w)
        /\ B(w1) = IF here = zoneWorkspace THEN write(c, z, w1) ELSE judgef(w1)
    BY <1>1, BuildIs
  <2>2. Alike(write(c, z, w), w, write(c, z, w1), w1)
    BY WriteAlike
  <2> QED
    BY <2>1, <2>2, Plainly
<1>2. CASE c.class \in Class
  <2>1. B(w) = known(c, w) /\ B(w1) = known(c, w1)
    BY <1>2, BuildIs
  <2> QED
    BY <1>2, <2>1, KnownAlike
<1> QED
  BY <1>1, <1>2

\* The rule of every simple command,
LEMMA ExecCases ==
    ASSUME NEW c, NEW z, NEW here, NEW w
    PROVE  /\ c.op \in Movers => exec(c, z, here, w) = cd(c, w)
           /\ c.op = "read" => exec(c, z, here, w) = read(c, z, w)
           /\ c.op = "write" => exec(c, z, here, w) = write(c, z, w)
           /\ c.op = "rm" => exec(c, z, here, w) = rm(c, z, w)
           /\ c.op = "git" => exec(c, z, here, w) = git(c, here, w)
           /\ c.op = "build" => exec(c, z, here, w) = build(c, z, here, w)
           /\ c.op = "run" => exec(c, z, here, w) = known(c, w)
           /\ c.op \notin Movers \cup {"read", "write", "rm", "git", "build", "run"} => exec(c, z, here, w) = w
  BY DEF exec, Movers

\* and what it says, which the directory and the command decide.
LEMMA ExecAlike ==
    ASSUME NEW c \in Command, c.op \notin Movers, NEW z, NEW here, NEW w, NEW w1, w.cwd = w1.cwd
    PROVE  Alike(exec(c, z, here, w), w, exec(c, z, here, w1), w1)
<1>1. /\ c.op = "run" => c.class \in Class
      /\ c.op = "git" => c.class \in Class \cup {"changes", "shows"}
      /\ c.op = "build" => c.class \in Class \cup {"step"}
      /\ c.op = "rm" => c.kind \in {"static", "dynamic"}
  BY CommandAssumption
<1> DEFINE E(v) == exec(c, z, here, v)
<1>2. CASE c.op = "read"
  BY <1>2, ExecCases, ReadAlike
<1>3. CASE c.op = "write"
  BY <1>3, ExecCases, WriteAlike
<1>4. CASE c.op = "rm"
  BY <1>1, <1>4, ExecCases, RmAlike
<1>5. CASE c.op = "git"
  BY <1>1, <1>5, ExecCases, GitAlike
<1>6. CASE c.op = "build"
  BY <1>1, <1>6, ExecCases, BuildAlike
<1>7. CASE c.op = "run"
  BY <1>1, <1>7, ExecCases, KnownAlike
<1>8. CASE c.op \notin Movers \cup {"read", "write", "rm", "git", "build", "run"}
  BY <1>8, ExecCases, Plainly
<1> QED
  BY <1>2, <1>3, <1>4, <1>5, <1>6, <1>7, <1>8

\* A walker and what denyf and judgef make of it.
LEMMA WalkerIs ==
    ASSUME NEW w \in Walkers
    PROVE  /\ w.cwd \in Belief /\ w.deny \in BOOLEAN /\ w.notes \in BOOLEAN /\ w.checked \in SUBSET Record
           /\ denyf(w) \in Walkers /\ denyf(w).deny /\ denyf(w).notes = w.notes
           /\ denyf(w).cwd = w.cwd /\ denyf(w).checked = w.checked
           /\ judgef(w) \in Walkers /\ judgef(w).notes /\ judgef(w).deny = w.deny
           /\ judgef(w).cwd = w.cwd /\ judgef(w).checked = w.checked
  BY DEF Walkers, denyf, judgef

\* A walker that has said nothing yet.
Alone(b) == [cwd |-> b, deny |-> FALSE, notes |-> FALSE, checked |-> {}]

\* What a rule says of a command in directory b, whatever was said before.
Says(c, b) == exec(c, ZoneOfPath(Alone(b), c), ZoneHere(Alone(b)), Alone(b))

\* The walker comes to the next command.
Comes(c, w) == exec(c, ZoneOfPath(w, c), ZoneHere(w), w)

\* A walker that comes to a command takes over what the rule says, and nothing else.
LEMMA ComesIs ==
    ASSUME slots \in Files, NEW c \in Command, NEW w \in Walkers
    PROVE  LET v == Comes(c, w)
           IN  /\ v \in Walkers /\ v.cwd = Begins(c, w.cwd) /\ v.checked = w.checked
               /\ v.deny <=> w.deny \/ Says(c, w.cwd).deny
               /\ v.notes <=> w.notes \/ Says(c, w.cwd).notes
<1> DEFINE a == Alone(w.cwd)
           z == ZoneOfPath(w, c)
           here == ZoneHere(w)
<1>1. a \in Walkers /\ a.cwd = w.cwd /\ ~a.deny /\ ~a.notes
  BY WalkerIs DEF Walkers, Alone
<1>2. ZoneOfPath(a, c) = z /\ ZoneHere(a) = here
  BY <1>1, Zenon DEF ZoneOfPath, ZoneHere
<1>3. Says(c, w.cwd) = exec(c, z, here, a) /\ Comes(c, w) = exec(c, z, here, w)
  BY <1>2 DEF Says, Comes
<1> HIDE DEF a, z, here
<1>4. CASE c.op \in Movers
  <2>1. exec(c, z, here, a) = cd(c, a) /\ exec(c, z, here, w) = cd(c, w)
    BY <1>4, ExecCases
  <2>2. Target(c, w.cwd) \in Belief
    BY <1>4, TargetIs, WalkerIs
  <2>3. cd(c, w) \in Walkers /\ cd(c, w).cwd = Target(c, w.cwd) /\ cd(c, w).checked = w.checked
        /\ cd(c, w).deny = w.deny /\ cd(c, w).notes = w.notes
    BY <2>2 DEF Walkers, cd
  <2>4. cd(c, a).deny = a.deny /\ cd(c, a).notes = a.notes
    BY <1>1 DEF Walkers, cd
  <2> QED
    BY <1>1, <1>3, <1>4, <2>1, <2>3, <2>4, WalkerIs DEF Begins
<1>5. CASE c.op \notin Movers
  <2> DEFINE v == exec(c, z, here, w)
             v1 == exec(c, z, here, a)
  <2>1. Alike(v, w, v1, a)
    BY <1>1, <1>5, ExecAlike
  <2> HIDE DEF v, v1
  <2>2. /\ v \in Walkers /\ v.cwd = w.cwd /\ v.checked = w.checked
        /\ v.deny <=> w.deny \/ v1.deny
        /\ v.notes <=> w.notes \/ v1.notes
    <3>1. CASE v = w /\ v1 = a
      BY <1>1, <3>1, WalkerIs
    <3>2. CASE v = denyf(w) /\ v1 = denyf(a)
      BY <1>1, <3>2, WalkerIs
    <3>3. CASE v = judgef(w) /\ v1 = judgef(a)
      BY <1>1, <3>3, WalkerIs
    <3> QED
      BY <2>1, <3>1, <3>2, <3>3 DEF Alike
  <2> QED
    BY <1>3, <1>5, <2>2 DEF Begins, v, v1
<1> QED
  BY <1>4, <1>5

----------------------------------------------------------------------------
(* Something put in front of a sequence, and taken away. *)

\* A sequence with an element in front,
LEMMA PushIs ==
    ASSUME NEW T, NEW x \in T, NEW q \in Seq(T)
    PROVE  LET p == <<x>> \o q
           IN  /\ p \in Seq(T) /\ p # <<>> /\ Len(p) = Len(q) + 1 /\ Len(q) \in Nat
               /\ p[1] = x /\ \A i \in 1 .. Len(q) : p[i + 1] = q[i]
               /\ Head(p) = x /\ Tail(p) = q
<1> DEFINE p == <<x>> \o q
<1>1. /\ p \in Seq(T) /\ Len(p) = Len(q) + 1 /\ Len(q) \in Nat /\ p # <<>>
      /\ p[1] = x /\ \A i \in 1 .. Len(q) : p[i + 1] = q[i]
  OBVIOUS
<1> HIDE DEF p
<1>2. Head(p) = x
  BY <1>1
<1>3. Tail(p) = q
  <2>1. Tail(p) \in Seq(T) /\ Len(Tail(p)) = Len(q) /\ \A i \in 1 .. Len(q) : Tail(p)[i] = p[i + 1]
    BY <1>1
  <2>2. \A i \in 1 .. Len(q) : Tail(p)[i] = q[i]
    BY <1>1, <2>1
  <2> DEFINE r == Tail(p)
  <2> HIDE DEF r
  <2>3. r \in Seq(T) /\ Len(r) = Len(q) /\ \A i \in 1 .. Len(q) : r[i] = q[i]
    BY <2>1, <2>2 DEF r
  <2>4. r = q
    BY <2>3, SeqEqual
  <2> QED
    BY <2>4 DEF r
<1> QED
  BY <1>1, <1>2, <1>3 DEF p

\* without its first,
LEMMA PopIs ==
    ASSUME NEW T, NEW q \in Seq(T), q # <<>>
    PROVE  /\ Len(q) \in Nat /\ Len(q) > 0 /\ Head(q) = q[1] /\ q[1] \in T
           /\ Tail(q) \in Seq(T) /\ Len(Tail(q)) = Len(q) - 1
           /\ \A i \in 1 .. Len(q) - 1 : Tail(q)[i] = q[i + 1]
           /\ Len(q) = 1 <=> Tail(q) = <<>>
<1>1. Len(q) \in Nat /\ Len(q) > 0 /\ Head(q) = q[1] /\ q[1] \in T
  BY EmptySeq
<1>2. /\ Tail(q) \in Seq(T) /\ Len(Tail(q)) = Len(q) - 1
      /\ \A i \in 1 .. Len(q) - 1 : Tail(q)[i] = q[i + 1]
  BY <1>1
<1>3. \A r \in Seq(T) : Len(r) = 0 <=> r = <<>>
  BY EmptySeq
<1> QED
  BY <1>1, <1>2, <1>3

\* the elements of one,
LEMMA EntryOf ==
    ASSUME NEW T, NEW q \in Seq(T)
    PROVE  /\ Len(q) \in Nat /\ \A i \in 1 .. Len(q) : q[i] \in T
           /\ q # <<>> <=> Len(q) > 0
  BY EmptySeq

\* and one with an element behind.
LEMMA LongerIs ==
    ASSUME NEW T, NEW x \in T, NEW q \in Seq(T)
    PROVE  LET p == Append(q, x)
           IN  /\ p \in Seq(T) /\ Len(p) = Len(q) + 1 /\ Len(q) \in Nat /\ p # <<>>
               /\ p[Len(q) + 1] = x /\ \A i \in 1 .. Len(q) : p[i] = q[i]
  OBVIOUS

----------------------------------------------------------------------------
(* The walk over a script.  On the stack, a command is a part of the one    *)
(* below it.  What was judged was judged with all its parts, one after the  *)
(* other, unless the script is denied.                                      *)

Frames == [s : Command, from : Belief, at : Seq(Belief), depth : Nat, wraps : Nat]

\* The walker has been in the parts of f one by one.
FrameOK(f, w) ==
    /\ Len(f.at) > 0 /\ Len(f.at) <= Len(Parts(f.s)) + 1
    /\ f.at[1] = Begins(f.s, f.from)
    /\ ~w.deny => \A j \in 1 .. Len(f.at) - 1 : <<Parts(f.s)[j], f.at[j], f.at[j + 1]>> \in w.checked

\* f is the part of g that the walker is in.
Nested(f, g) ==
    /\ Len(g.at) <= Len(Parts(g.s)) /\ f.s = Parts(g.s)[Len(g.at)]
    /\ f.from = g.at[Len(g.at)]

StackOK ==
    /\ \A i \in 1 .. Len(stack) : FrameOK(stack[i], walker)
    /\ \A i \in 1 .. Len(stack) - 1 : Nested(stack[i], stack[i + 1])
    /\ stack # <<>> => /\ stack[Len(stack)].s = Sub(script) /\ stack[Len(stack)].from = cwdOf
                       /\ walker.cwd = stack[1].at[Len(stack[1].at)]
    /\ stack = <<>> /\ script # NoScript /\ ~walker.deny =>
           \E a \in Belief : <<Sub(script), cwdOf, a>> \in walker.checked

\* The parts of a command s that was judged from b to a.
Chain(s, b, a, C) ==
    \E at \in Seq(Belief) :
        /\ Len(at) = Len(Parts(s)) + 1 /\ at[1] = Begins(s, b)
        /\ \A j \in 1 .. Len(Parts(s)) : <<Parts(s)[j], at[j], at[j + 1]>> \in C
        /\ a = After(s, b, at[Len(at)])

Closed == ~walker.deny => \A e \in walker.checked : Chain(e[1], e[2], e[3], walker.checked)

\* What does not move leaves the walker where it was.
Stays == ~walker.deny => \A e \in walker.checked : ~Moves(e[1]) => e[3] = e[2]

\* What the rules said has not been forgotten.
Heard(s, b, w) == (Says(s, b).deny => w.deny) /\ (Says(s, b).notes => w.notes)
Said ==
    /\ \A e \in walker.checked : Heard(e[1], e[2], walker)
    /\ \A i \in 1 .. Len(stack) : Heard(stack[i].s, stack[i].from, walker)

WalkTypes ==
    /\ slots \in Files /\ script \in Scripts \cup {NoScript}
    /\ verdict \in {"none", "allow", "judge", "deny"}
    /\ walker \in Walkers /\ stack \in Seq(Frames)
    /\ status \in BOOLEAN /\ failed \in BOOLEAN /\ climbed \in BOOLEAN

\* What happens when.
Phases ==
    /\ script = NoScript => /\ verdict = "none" /\ stack = <<>> /\ todo = <<>> /\ wd = <<>> /\ pwd = <<>>
                            /\ walker.checked = {}
    /\ verdict # "none" => stack = <<>> /\ verdict = VerdictOf(walker)
    /\ verdict \in {"none", "deny"} => todo = <<>>

Walked == WalkTypes /\ Phases /\ StackOK /\ Closed /\ Stays /\ Said

\* Files stand still while the script is walked over and run.
LEMMA FilesStand ==
    ASSUME slots' = slots
    PROVE  /\ cwdOf' = cwdOf
           /\ \A s, b : Begins(s, b)' = Begins(s, b)
           /\ \A s, b : Says(s, b)' = Says(s, b)
<1>1. /\ cwdOf' = cwdOf /\ Roots' = Roots
      /\ \A a : realpath(a)' = realpath(a) /\ classify(a)' = classify(a) /\ zoneAt(a)' = zoneAt(a)
      /\ \A cwd, g : zoneOf(cwd, g)' = zoneOf(cwd, g)
  BY Unchanged
<1>2. \A s, b : Target(s, b)' = Target(s, b)
  BY <1>1, Zenon DEF Target
<1>3. \A s, b : Begins(s, b)' = Begins(s, b)
  BY <1>2, Zenon DEF Begins
<1>4. \A b, g, l : linkZone(b, g, l)' = linkZone(b, g, l)
  BY <1>1, Zenon DEF linkZone
<1>5. \A b, g : isRootOrAbove(b, g)' = isRootOrAbove(b, g)
  BY <1>1, Zenon DEF isRootOrAbove
<1>6. \A c, z, w : rm(c, z, w)' = rm(c, z, w)
  BY <1>4, <1>5, Zenon DEF rm
<1>7. \A c, z, h, w : exec(c, z, h, w)' = exec(c, z, h, w)
  <2>1. \A c, w : cd(c, w)' = cd(c, w)
    BY <1>2 DEF cd
  <2> QED
    BY <1>6, <2>1 DEF exec
<1>8. \A w, c : ZoneOfPath(w, c)' = ZoneOfPath(w, c) /\ ZoneHere(w)' = ZoneHere(w)
  BY <1>1, Zenon DEF ZoneOfPath, ZoneHere
<1>9. \A s, b : Says(s, b)' = Says(s, b)
  BY <1>7, <1>8, Zenon DEF Says
<1> QED
  BY <1>1, <1>3, <1>9

\* The parts of a call on the stack.
LEMMA FramesAre ==
    ASSUME NEW f \in Frames
    PROVE  /\ f.s \in Command /\ f.from \in Belief /\ f.at \in Seq(Belief)
           /\ Len(f.at) \in Nat /\ \A j \in 1 .. Len(f.at) : f.at[j] \in Belief
           /\ Parts(f.s) \in Seq(Command) /\ Len(Parts(f.s)) \in Nat
           /\ \A j \in 1 .. Len(Parts(f.s)) : Parts(f.s)[j] \in Command
           /\ Depth(f) \in Nat /\ Wraps(f) \in Nat
<1>1. f.s \in Command /\ f.from \in Belief /\ f.at \in Seq(Belief) /\ f.depth \in Nat /\ f.wraps \in Nat
  BY DEF Frames
<1>2. Depth(f) \in Nat /\ Wraps(f) \in Nat
  BY <1>1 DEF Depth, Wraps
<1> QED
  BY <1>1, <1>2, EntryOf, CommandIs

\* A new call has visited nothing.
LEMMA CallIs ==
    ASSUME NEW s \in Command, NEW b \in Belief, NEW c \in Belief, NEW d \in Nat, NEW k \in Nat
    PROVE  LET f == Call(s, b, c, d, k)
           IN  f \in Frames /\ f.s = s /\ f.from = b /\ f.at = <<c>> /\ Len(f.at) = 1 /\ f.at[1] = c
  BY DEF Call, Frames

\* A call that has visited one more part.
LEMMA VisitedIs ==
    ASSUME NEW f \in Frames, NEW b \in Belief
    PROVE  LET g == Visited(f, b)
           IN  g \in Frames /\ g.s = f.s /\ g.from = f.from /\ g.at = Append(f.at, b)
  BY DEF Visited, Frames

\* So what is in order before a step is so after it.
LEMMA Standing ==
    ASSUME slots' = slots
    PROVE  /\ \A f, w : FrameOK(f, w)' <=> FrameOK(f, w)
           /\ \A s, b, w : Heard(s, b, w)' <=> Heard(s, b, w)
           /\ \A s, b, a, C : Chain(s, b, a, C)' <=> Chain(s, b, a, C)
<1>1. /\ \A s, b : Begins(s, b)' = Begins(s, b)
      /\ \A s, b : Says(s, b)' = Says(s, b)
  BY FilesStand
<1>2. \A f, w : FrameOK(f, w)' <=> FrameOK(f, w)
  BY <1>1, Zenon DEF FrameOK
<1>3. \A s, b, w : Heard(s, b, w)' <=> Heard(s, b, w)
  BY <1>1, Zenon DEF Heard
<1>4. \A s, b, a, C : Chain(s, b, a, C)' <=> Chain(s, b, a, C)
  BY <1>1, ZenonT(60) DEF Chain
<1> QED
  BY <1>2, <1>3, <1>4

\* A walker that knows more, or denies, is in order where the other is.
LEMMA FrameLater ==
    ASSUME NEW f, NEW w, NEW v, FrameOK(f, w), w.checked \subseteq v.checked, w.deny => v.deny
    PROVE  FrameOK(f, v)
  BY DEF FrameOK

\* A new call is in order: it is where its command begins.
LEMMA NewFrame ==
    ASSUME NEW f \in Frames, Len(f.at) = 1, f.at[1] = Begins(f.s, f.from), NEW w
    PROVE  FrameOK(f, w)
  BY FramesAre DEF FrameOK

\* A script is none of those that are not there, and is run in a subshell.
LEMMA NotNone == NoScript \notin Scripts /\ \A s \in Scripts : Sub(s) \in Command
  BY CommandAssumption

\* The walk begins.
LEMMA DecideStep == ASSUME Walked, NEW s \in Scripts, DecideScript(s) PROVE Walked'
<1> DEFINE f == Call(Sub(s), cwdOf, cwdOf, 0, 0)
<1>1. /\ slots' = slots /\ script = NoScript /\ script' = s /\ stack' = <<f>> /\ walker' = Fresh
      /\ verdict' = verdict /\ todo' = todo /\ wd' = wd /\ status' = status /\ failed' = failed /\ climbed' = climbed
  BY DEF DecideScript, vars, whereVars
<1>2. cwdOf \in Belief /\ slots \in Files
  BY CwdBelief DEF Walked, WalkTypes
<1>3. f \in Frames /\ f.s = Sub(s) /\ f.from = cwdOf /\ f.at = <<cwdOf>> /\ Len(f.at) = 1 /\ f.at[1] = cwdOf
  BY <1>2, NotNone, CallIs
<1>4. Fresh \in Walkers /\ Fresh.cwd = cwdOf /\ Fresh.checked = {} /\ ~Fresh.deny /\ ~Fresh.notes
  BY <1>2 DEF Walkers, Fresh
<1>5. cwdOf' = cwdOf /\ (\A x, b : Begins(x, b)' = Begins(x, b)) /\ \A x, b : Says(x, b)' = Says(x, b)
  BY <1>1, FilesStand
<1> HIDE DEF f
<1>6. Len(stack') = 1 /\ stack'[1] = f /\ stack' # <<>> /\ stack' \in Seq(Frames)
  BY <1>1, <1>3
<1>7. WalkTypes'
  BY <1>1, <1>2, <1>4, <1>6 DEF Walked, WalkTypes
<1>8. Phases'
  BY <1>1, NotNone DEF Walked, Phases
<1>9. StackOK'
  <2>1. Begins(Sub(s), cwdOf) = cwdOf
    BY DEF Begins, Movers, Sub
  <2>2. FrameOK(f, walker')
    BY <1>3, <2>1, NewFrame
  <2>3. \A i \in 1 .. Len(stack') : i = 1
    BY <1>6
  <2>4. \A i \in 1 .. Len(stack') : FrameOK(stack'[i], walker')
    BY <1>6, <2>2, <2>3
  <2> QED
    BY <1>1, <1>3, <1>4, <1>5, <1>6, <2>3, <2>4, Standing DEF StackOK
<1>10. Closed' /\ Stays'
  BY <1>1, <1>4 DEF Closed, Stays
<1>11. Said'
  <2>1. Says(Sub(s), cwdOf) = Alone(cwdOf)
    BY ExecCases DEF Says, Sub, Movers
  <2>2. Heard(f.s, f.from, walker')
    BY <1>3, <2>1 DEF Heard, Alone
  <2>3. \A i \in 1 .. Len(stack') : stack'[i] = f
    BY <1>6
  <2> QED
    BY <1>1, <1>4, <2>2, <2>3, Standing DEF Said
<1> QED
  BY <1>7, <1>8, <1>9, <1>10, <1>11 DEF Walked

\* The command the walker is in.
LEMMA TopIs ==
    ASSUME Walked, stack # <<>>
    PROVE  /\ Top = stack[1] /\ Top \in Frames /\ FrameOK(Top, walker)
           /\ Len(stack) \in Nat /\ Len(stack) > 0 /\ Tail(stack) \in Seq(Frames)
           /\ \A i \in 1 .. Len(stack) : stack[i] \in Frames
           /\ walker.cwd = Top.at[Len(Top.at)] /\ walker.cwd \in Belief
           /\ script \in Scripts /\ script # NoScript /\ verdict = "none" /\ todo = <<>>
           /\ slots \in Files /\ walker \in Walkers
<1>1. stack \in Seq(Frames) /\ slots \in Files /\ walker \in Walkers /\ script \in Scripts \cup {NoScript}
  BY DEF Walked, WalkTypes
<1>2. /\ Len(stack) \in Nat /\ Len(stack) > 0 /\ Head(stack) = stack[1] /\ stack[1] \in Frames
      /\ Tail(stack) \in Seq(Frames) /\ \A i \in 1 .. Len(stack) : stack[i] \in Frames
  BY <1>1, PopIs, EntryOf
<1>3. FrameOK(stack[1], walker) /\ walker.cwd = stack[1].at[Len(stack[1].at)]
  BY <1>2 DEF Walked, StackOK
<1>4. script # NoScript /\ verdict = "none" /\ todo = <<>>
  BY DEF Walked, Phases
<1> QED
  BY <1>1, <1>2, <1>3, <1>4, WalkerIs DEF Top

\* To visit a part puts a new call on the stack.
LEMMA VisitStep == ASSUME Walked, Visit PROVE Walked'
<1> DEFINE part == NextPart
           f == Call(part, walker.cwd, Comes(part, walker).cwd, Depth(Top), Wraps(Top))
           new == Comes(part, walker)
<1>1. stack # <<>> /\ Len(Top.at) <= Len(Parts(Top.s))
  BY DEF Visit, Pending
<1>2. /\ Top = stack[1] /\ Top \in Frames /\ FrameOK(Top, walker)
      /\ Len(stack) \in Nat /\ Len(stack) > 0
      /\ walker.cwd = Top.at[Len(Top.at)] /\ walker.cwd \in Belief
      /\ script \in Scripts /\ verdict = "none" /\ todo = <<>>
      /\ slots \in Files /\ walker \in Walkers /\ stack \in Seq(Frames)
  BY <1>1, TopIs DEF Walked, WalkTypes
<1>3. /\ part \in Command /\ part = Parts(Top.s)[Len(Top.at)]
      /\ Depth(Top) \in Nat /\ Wraps(Top) \in Nat
  <2>1. Len(Top.at) \in 1 .. Len(Parts(Top.s))
    BY <1>1, <1>2, FramesAre DEF FrameOK
  <2> QED
    BY <1>2, <2>1, FramesAre DEF NextPart
<1>4. /\ slots' = slots /\ script' = script /\ verdict' = verdict /\ todo' = todo /\ wd' = wd
      /\ status' = status /\ failed' = failed /\ climbed' = climbed /\ walker' = new /\ stack' = <<f>> \o stack
  BY DEF Visit, Comes, vars, whereVars
<1>5. /\ new \in Walkers /\ new.cwd = Begins(part, walker.cwd) /\ new.checked = walker.checked
      /\ new.deny <=> walker.deny \/ Says(part, walker.cwd).deny
      /\ new.notes <=> walker.notes \/ Says(part, walker.cwd).notes
  BY <1>2, <1>3, ComesIs
<1>6. /\ f \in Frames /\ f.s = part /\ f.from = walker.cwd
      /\ Len(f.at) = 1 /\ f.at[1] = new.cwd
  <2> DEFINE n == Depth(Top)
             k == Wraps(Top)
             c == new.cwd
             b == walker.cwd
  <2>1. c \in Belief /\ b \in Belief /\ n \in Nat /\ k \in Nat /\ part \in Command
    BY <1>2, <1>3, <1>5, WalkerIs
  <2>2. f = Call(part, b, c, n, k)
    OBVIOUS
  <2> HIDE DEF f, n, k, c, b, part, new
  <2>3. /\ f \in Frames /\ f.s = part /\ f.from = b
        /\ Len(f.at) = 1 /\ f.at[1] = c
    BY <2>1, <2>2, CallIs
  <2> QED
    BY <2>3 DEF b, c
<1> HIDE DEF part, f, new
<1>7. /\ stack' \in Seq(Frames) /\ stack' # <<>> /\ Len(stack') = Len(stack) + 1
      /\ stack'[1] = f /\ \A i \in 1 .. Len(stack) : stack'[i + 1] = stack[i]
  BY <1>2, <1>4, <1>6, PushIs
<1>8. \A i \in 1 .. Len(stack') : i = 1 \/ (i - 1 \in 1 .. Len(stack) /\ stack'[i] = stack[i - 1])
  <2> TAKE i \in 1 .. Len(stack')
  <2>1. i # 1 => i - 1 \in 1 .. Len(stack) /\ (i - 1) + 1 = i
    BY <1>2, <1>7
  <2> QED
    BY <1>7, <2>1
<1>9. WalkTypes' /\ Phases'
  BY <1>1, <1>2, <1>4, <1>5, <1>7 DEF Walked, WalkTypes, Phases
<1>10. StackOK'
  <2>1. \A i \in 1 .. Len(stack') : FrameOK(stack'[i], walker')
    <3> TAKE i \in 1 .. Len(stack')
    <3>1. FrameOK(f, walker')
      BY <1>5, <1>6, NewFrame
    <3>2. ASSUME i - 1 \in 1 .. Len(stack) PROVE FrameOK(stack[i - 1], walker')
      BY <1>4, <1>5, <3>2, FrameLater DEF Walked, StackOK
    <3> QED
      BY <1>7, <1>8, <3>1, <3>2
  <2>2. \A i \in 1 .. Len(stack') - 1 : Nested(stack'[i], stack'[i + 1])
    <3> TAKE i \in 1 .. Len(stack') - 1
    <3>1. Nested(f, stack[1])
      BY <1>1, <1>2, <1>3, <1>6 DEF Nested
    <3>2. CASE i = 1
      BY <1>2, <1>7, <3>1, <3>2
    <3>3. CASE i # 1
      <4>1. i - 1 \in 1 .. Len(stack) - 1 /\ (i - 1) + 1 = i /\ i \in 1 .. Len(stack)
        BY <1>2, <1>7, <3>3
      <4>2. Nested(stack[i - 1], stack[i])
        BY <4>1 DEF Walked, StackOK
      <4>3. stack'[i] = stack[i - 1] /\ stack'[i + 1] = stack[i]
        BY <1>7, <1>8, <4>1
      <4> QED
        BY <4>2, <4>3
    <3> QED
      BY <3>2, <3>3
  <2>3. stack'[Len(stack')] = stack[Len(stack)]
    BY <1>2, <1>7
  <2>4. stack[Len(stack)].s = Sub(script) /\ stack[Len(stack)].from = cwdOf
    BY <1>1 DEF Walked, StackOK
  <2>5. cwdOf' = cwdOf
    BY <1>4, FilesStand
  <2>6. walker'.cwd = stack'[1].at[Len(stack'[1].at)]
    BY <1>4, <1>6, <1>7
  <2> QED
    BY <1>4, <1>7, <2>1, <2>2, <2>3, <2>4, <2>5, <2>6, Standing DEF StackOK
<1>11. Closed' /\ Stays'
  BY <1>4, <1>5, Standing DEF Walked, Closed, Stays
<1>12. Said'
  <2>1. Heard(f.s, f.from, walker')
    BY <1>4, <1>5, <1>6 DEF Heard
  <2>2. \A s, b : Heard(s, b, walker) => Heard(s, b, walker')
    BY <1>4, <1>5 DEF Heard
  <2>3. \A i \in 1 .. Len(stack') : Heard(stack'[i].s, stack'[i].from, walker')
    BY <1>7, <1>8, <2>1, <2>2 DEF Walked, Said
  <2>4. \A e \in walker'.checked : Heard(e[1], e[2], walker')
    BY <1>4, <1>5, <2>2 DEF Walked, Said
  <2> QED
    BY <1>4, <2>3, <2>4, Standing DEF Said
<1> QED
  BY <1>9, <1>10, <1>11, <1>12 DEF Walked

\* The frame below the top is put back with one more directory.
LEMMA BelowIs ==
    ASSUME NEW q \in Seq(Frames), q # <<>>, NEW g \in Frames,
           NEW p, p = <<g>> \o Tail(q)
    PROVE  /\ p \in Seq(Frames) /\ p # <<>> /\ Len(p) = Len(q) /\ Len(q) \in Nat /\ Len(q) > 0
           /\ p[1] = g /\ \A i \in 1 .. Len(q) : i = 1 \/ p[i] = q[i]
<1>1. /\ Len(q) \in Nat /\ Len(q) > 0 /\ Tail(q) \in Seq(Frames) /\ Len(Tail(q)) = Len(q) - 1
      /\ \A i \in 1 .. Len(q) - 1 : Tail(q)[i] = q[i + 1]
  BY PopIs
<1>2. /\ p \in Seq(Frames) /\ p # <<>> /\ Len(p) = Len(Tail(q)) + 1
      /\ p[1] = g /\ \A i \in 1 .. Len(Tail(q)) : p[i + 1] = Tail(q)[i]
  BY <1>1, PushIs
<1>3. ASSUME NEW i \in 1 .. Len(q), i # 1
      PROVE  p[i] = q[i]
  <2>1. i - 1 \in 1 .. Len(q) - 1 /\ (i - 1) + 1 = i
    BY <1>1, <1>3
  <2> QED
    BY <1>1, <1>2, <2>1
<1> QED
  BY <1>1, <1>2, <1>3

\* What is refused denies the script, which then owes nothing.
LEMMA RefuseStep == ASSUME Walked, Refuse PROVE Walked'
<1> DEFINE g == Visited(Top, walker.cwd)
<1>1. stack # <<>> /\ Len(Top.at) <= Len(Parts(Top.s))
  BY DEF Refuse, Pending
<1>2. /\ Top = stack[1] /\ Top \in Frames /\ FrameOK(Top, walker)
      /\ walker.cwd \in Belief /\ script \in Scripts /\ verdict = "none" /\ todo = <<>>
      /\ slots \in Files /\ walker \in Walkers /\ stack \in Seq(Frames)
  BY <1>1, TopIs DEF Walked, WalkTypes
<1>3. /\ slots' = slots /\ script' = script /\ verdict' = verdict /\ todo' = todo /\ wd' = wd
      /\ status' = status /\ failed' = failed /\ climbed' = climbed /\ walker' = denyf(walker) /\ stack' = <<g>> \o Tail(stack)
  BY DEF Refuse, vars, whereVars
<1>4. g \in Frames /\ g.s = Top.s /\ g.from = Top.from /\ g.at = Append(Top.at, walker.cwd)
  BY <1>2, VisitedIs
<1>5. /\ walker' \in Walkers /\ walker'.deny /\ walker'.notes = walker.notes
      /\ walker'.cwd = walker.cwd /\ walker'.checked = walker.checked
  BY <1>2, <1>3, WalkerIs
<1> HIDE DEF g
<1>6. /\ stack' \in Seq(Frames) /\ stack' # <<>> /\ Len(stack') = Len(stack) /\ Len(stack) \in Nat /\ Len(stack) > 0
      /\ stack'[1] = g /\ \A i \in 1 .. Len(stack) : i = 1 \/ stack'[i] = stack[i]
  BY <1>1, <1>2, <1>3, <1>4, BelowIs
<1>7. WalkTypes' /\ Phases'
  BY <1>1, <1>2, <1>3, <1>5, <1>6 DEF Walked, WalkTypes, Phases
<1>8. /\ Len(g.at) = Len(Top.at) + 1 /\ g.at[1] = Top.at[1] /\ g.at[Len(g.at)] = walker.cwd
      /\ Len(Top.at) \in Nat
  <2> DEFINE q == Top.at
             b == walker.cwd
  <2>1. q \in Seq(Belief) /\ b \in Belief /\ g.at = Append(q, b)
    BY <1>2, <1>4, FramesAre
  <2>2. Len(q) \in Nat /\ Len(q) > 0
    BY <1>2, <2>1, EntryOf DEF FrameOK
  <2> HIDE DEF q, b
  <2>3. Len(g.at) = Len(q) + 1 /\ g.at[1] = q[1] /\ g.at[Len(g.at)] = b
    BY <2>1, <2>2, LongerIs
  <2> QED
    BY <2>2, <2>3 DEF q, b
<1>9. \A i \in 1 .. Len(stack) : stack'[i].s = stack[i].s /\ stack'[i].from = stack[i].from
  BY <1>2, <1>4, <1>6
<1>10. StackOK'
  <2>1. FrameOK(g, walker')
    <3>1. Len(Top.at) > 0 /\ Top.at[1] = Begins(Top.s, Top.from)
      BY <1>2 DEF FrameOK
    <3>2. Len(g.at) > 0 /\ Len(g.at) <= Len(Parts(g.s)) + 1
      <4>1. Len(Parts(Top.s)) \in Nat
        BY <1>2, FramesAre
      <4> QED
        BY <1>1, <1>4, <1>8, <3>1, <4>1
    <3>3. g.at[1] = Begins(g.s, g.from)
      BY <1>4, <1>8, <3>1
    <3> QED
      BY <1>5, <3>2, <3>3 DEF FrameOK
  <2>2. \A i \in 1 .. Len(stack') : FrameOK(stack'[i], walker')
    <3> TAKE i \in 1 .. Len(stack')
    <3>1. FrameOK(stack[i], walker')
      BY <1>5, <1>6, FrameLater DEF Walked, StackOK
    <3> QED
      BY <1>6, <2>1, <3>1
  <2>3. \A i \in 1 .. Len(stack') - 1 : Nested(stack'[i], stack'[i + 1])
    <3> TAKE i \in 1 .. Len(stack') - 1
    <3>1. Nested(stack[i], stack[i + 1])
      BY <1>6 DEF Walked, StackOK
    <3>2. i \in 1 .. Len(stack) /\ i + 1 \in 1 .. Len(stack) /\ i + 1 # 1
      BY <1>6
    <3> QED
      BY <1>6, <1>9, <3>1, <3>2 DEF Nested
  <2>4. stack'[Len(stack')].s = Sub(script) /\ stack'[Len(stack')].from = cwdOf
    BY <1>1, <1>6, <1>9 DEF Walked, StackOK
  <2>5. cwdOf' = cwdOf
    BY <1>3, FilesStand
  <2> QED
    BY <1>3, <1>5, <1>6, <1>8, <2>2, <2>3, <2>4, <2>5, Standing DEF StackOK
<1>11. Closed' /\ Stays'
  BY <1>5 DEF Closed, Stays
<1>12. Said'
  <2>1. \A s, b : Heard(s, b, walker) => Heard(s, b, walker')
    BY <1>5 DEF Heard
  <2> QED
    BY <1>3, <1>5, <1>6, <1>9, <2>1, Standing DEF Walked, Said
<1> QED
  BY <1>7, <1>10, <1>11, <1>12 DEF Walked

\* A command that cannot move, of parts that did not, has not moved.
LEMMA NotMoved ==
    ASSUME NEW s \in Command, ~Moves(s), NEW b, NEW at \in Seq(Belief), NEW C,
           Len(at) = Len(Parts(s)) + 1, at[1] = Begins(s, b),
           \A j \in 1 .. Len(Parts(s)) : <<Parts(s)[j], at[j], at[j + 1]>> \in C,
           \A e \in C : ~Moves(e[1]) => e[3] = e[2]
    PROVE  After(s, b, at[Len(at)]) = b
<1> DEFINE q == Parts(s)
<1>1. /\ s.op \notin Movers
      /\ s.op \in {"sub", "shell"} \/ \A p \in Range(q) : ~Moves(p)
  BY FollowedAssumption DEF MayMove, Movers
<1>2. CASE s.op \in {"sub", "shell"}
  BY <1>2 DEF After
<1>3. CASE \A p \in Range(q) : ~Moves(p)
  <2>1. q \in Seq(Command) /\ Len(q) \in 0 .. 3
    BY CommandIs
  <2>2. \A j \in 1 .. Len(q) : at[j + 1] = at[j]
    <3> TAKE j \in 1 .. Len(q)
    <3>1. q[j] \in Range(q)
      BY <2>1 DEF Range
    <3> DEFINE e == <<q[j], at[j], at[j + 1]>>
    <3>2. e \in C /\ e[1] = q[j] /\ e[2] = at[j] /\ e[3] = at[j + 1]
      OBVIOUS
    <3> QED
      BY <1>3, <3>1, <3>2
  <2>3. at[1] = b
    BY <1>1 DEF Begins
  <2>4. at[Len(at)] = b
    <3> DEFINE n == Len(q)
    <3>0. Len(at) = n + 1 /\ n \in 0 .. 3
      BY <2>1
    <3> HIDE DEF q
    <3>2. Len(q) >= 1 => at[2] = b
      BY <2>1, <2>2, <2>3
    <3>3. Len(q) >= 2 => at[3] = b
      BY <2>1, <2>2, <3>2
    <3>4. Len(q) >= 3 => at[4] = b
      BY <2>1, <2>2, <3>3
    <3> HIDE DEF n
    <3>5. (n >= 1 => at[2] = b) /\ (n >= 2 => at[3] = b) /\ (n >= 3 => at[4] = b)
      BY <3>2, <3>3, <3>4 DEF n
    <3>6. n = 0 \/ n = 1 \/ n = 2 \/ n = 3
      BY <3>0
    <3> QED
      BY <2>3, <3>0, <3>5, <3>6
  <2> QED
    BY <2>4 DEF After, branch
<1> QED
  BY <1>1, <1>2, <1>3

\* The directory after a command is a belief.
LEMMA AfterType ==
    ASSUME NEW s, NEW b \in Belief, NEW c \in Belief
    PROVE  After(s, b, c) \in Belief
<1>1. branch(b, c) \in Belief
  BY BeliefIs DEF branch
<1>2. After(s, b, c) \in {b, c, branch(b, c)}
  BY Zenon DEF After
<1> QED
  BY <1>1, <1>2

\* What a command that has been visited is noted as.
LEMMA ReturnWalker ==
    ASSUME Walked, stack # <<>>, ~Pending, NEW cwd, cwd = After(Top.s, Top.from, walker.cwd),
           NEW w, w = [walker EXCEPT !.cwd = cwd, !.checked = @ \cup {<<Top.s, Top.from, cwd>>}]
    PROVE  /\ cwd \in Belief /\ w \in Walkers /\ w.cwd = cwd
           /\ w.checked = walker.checked \cup {<<Top.s, Top.from, cwd>>}
           /\ w.deny = walker.deny /\ w.notes = walker.notes
           /\ ~w.deny => Chain(Top.s, Top.from, cwd, walker.checked)
           /\ ~w.deny /\ ~Moves(Top.s) => cwd = Top.from
<1>1. /\ Top \in Frames /\ FrameOK(Top, walker) /\ walker.cwd = Top.at[Len(Top.at)]
      /\ walker.cwd \in Belief /\ walker \in Walkers
  BY TopIs
<1>2. /\ Top.s \in Command /\ Top.from \in Belief /\ Top.at \in Seq(Belief) /\ Len(Top.at) \in Nat
      /\ Len(Parts(Top.s)) \in Nat
  BY <1>1, FramesAre
<1>3. cwd \in Belief
  BY <1>1, <1>2, AfterType
<1>4. <<Top.s, Top.from, cwd>> \in Record
  BY <1>2, <1>3 DEF Record
<1>5. /\ w \in Walkers /\ w.cwd = cwd
      /\ w.checked = walker.checked \cup {<<Top.s, Top.from, cwd>>}
      /\ w.deny = walker.deny /\ w.notes = walker.notes
  BY <1>1, <1>3, <1>4 DEF Walkers
<1>6. Len(Top.at) = Len(Parts(Top.s)) + 1
  BY <1>1, <1>2 DEF Pending, FrameOK
<1>7. ASSUME ~w.deny
      PROVE  /\ Top.at[1] = Begins(Top.s, Top.from)
             /\ \A j \in 1 .. Len(Parts(Top.s)) : <<Parts(Top.s)[j], Top.at[j], Top.at[j + 1]>> \in walker.checked
  <2>1. Len(Top.at) - 1 = Len(Parts(Top.s)) /\ ~walker.deny
    BY <1>2, <1>5, <1>6, <1>7
  <2> QED
    BY <1>1, <2>1 DEF FrameOK
<1>8. ~w.deny => Chain(Top.s, Top.from, cwd, walker.checked)
  BY <1>1, <1>2, <1>6, <1>7 DEF Chain
<1>9. ASSUME ~w.deny, ~Moves(Top.s)
      PROVE  cwd = Top.from
  <2>1. \A e \in walker.checked : ~Moves(e[1]) => e[3] = e[2]
    BY <1>5, <1>9 DEF Walked, Stays
  <2> DEFINE s == Top.s
             b == Top.from
             at == Top.at
             C == walker.checked
  <2>2. /\ s \in Command /\ ~Moves(s) /\ at \in Seq(Belief) /\ Len(at) = Len(Parts(s)) + 1
        /\ at[1] = Begins(s, b) /\ \A j \in 1 .. Len(Parts(s)) : <<Parts(s)[j], at[j], at[j + 1]>> \in C
    BY <1>2, <1>6, <1>7, <1>9
  <2>3. cwd = After(s, b, at[Len(at)])
    BY <1>1
  <2> HIDE DEF s, b, at, C
  <2>4. After(s, b, at[Len(at)]) = b
    BY <2>1, <2>2, NotMoved DEF C
  <2> QED
    BY <2>3, <2>4 DEF b
<1> QED
  BY <1>3, <1>5, <1>8, <1>9

\* A call that returns was judged with all its parts, and the one below goes on from it.
LEMMA ReturnStep == ASSUME Walked, Return PROVE Walked'
<1> DEFINE cwd == After(Top.s, Top.from, walker.cwd)
           note == <<Top.s, Top.from, cwd>>
<1>1. stack # <<>> /\ ~Pending
  BY DEF Return
<1>2. /\ Top = stack[1] /\ Top \in Frames /\ FrameOK(Top, walker)
      /\ walker.cwd \in Belief /\ script \in Scripts /\ verdict = "none" /\ todo = <<>>
      /\ slots \in Files /\ walker \in Walkers /\ stack \in Seq(Frames) /\ script # NoScript
  BY <1>1, TopIs DEF Walked, WalkTypes
<1>3. /\ slots' = slots /\ script' = script /\ verdict' = verdict /\ todo' = todo /\ wd' = wd
      /\ status' = status /\ failed' = failed /\ climbed' = climbed
      /\ walker' = [walker EXCEPT !.cwd = cwd, !.checked = @ \cup {note}]
      /\ stack' = IF Len(stack) = 1 THEN <<>> ELSE <<Visited(stack[2], cwd)>> \o Tail(Tail(stack))
  BY DEF Return, vars, whereVars
<1>4. /\ cwd \in Belief /\ walker' \in Walkers /\ walker'.cwd = cwd
      /\ walker'.checked = walker.checked \cup {note}
      /\ walker'.deny = walker.deny /\ walker'.notes = walker.notes
      /\ ~walker'.deny => Chain(Top.s, Top.from, cwd, walker.checked)
      /\ ~walker'.deny /\ ~Moves(Top.s) => cwd = Top.from
  BY <1>1, <1>3, ReturnWalker
<1>5. note[1] = Top.s /\ note[2] = Top.from /\ note[3] = cwd
  OBVIOUS
<1>6. cwdOf' = cwdOf
  BY <1>3, FilesStand
<1>7. /\ Len(stack) \in Nat /\ Len(stack) > 0 /\ Tail(stack) \in Seq(Frames)
      /\ Len(Tail(stack)) = Len(stack) - 1 /\ \A i \in 1 .. Len(stack) - 1 : Tail(stack)[i] = stack[i + 1]
      /\ Len(stack) = 1 <=> Tail(stack) = <<>>
  BY <1>1, <1>2, PopIs
<1> HIDE DEF cwd, note
<1>8. Closed' /\ Stays'
  <2>1. \A s, b, a : Chain(s, b, a, walker.checked) => Chain(s, b, a, walker'.checked)
    BY <1>4, Zenon DEF Chain
  <2>2. ~walker'.deny => \A e \in walker'.checked : Chain(e[1], e[2], e[3], walker'.checked)
    BY <1>4, <1>5, <2>1 DEF Walked, Closed
  <2>3. ~walker'.deny => \A e \in walker'.checked : ~Moves(e[1]) => e[3] = e[2]
    BY <1>4, <1>5 DEF Walked, Stays
  <2> QED
    BY <1>3, <2>2, <2>3, Standing DEF Closed, Stays
<1>9. /\ \A s, b : Heard(s, b, walker) => Heard(s, b, walker')
      /\ \A e \in walker'.checked : Heard(e[1], e[2], walker')
  <2>1. \A s, b : Heard(s, b, walker) => Heard(s, b, walker')
    BY <1>4 DEF Heard
  <2>2. Heard(Top.s, Top.from, walker)
    BY <1>2, <1>7 DEF Walked, Said
  <2> QED
    BY <1>4, <1>5, <2>1, <2>2 DEF Walked, Said
<1>10. CASE Len(stack) = 1
  <2>1. stack' = <<>> /\ stack' \in Seq(Frames) /\ Len(stack') = 0
    BY <1>3, <1>10
  <2>2. WalkTypes' /\ Phases'
    BY <1>2, <1>3, <1>4, <2>1 DEF Walked, WalkTypes, Phases
  <2>3. Top.s = Sub(script) /\ Top.from = cwdOf
    BY <1>1, <1>2, <1>10 DEF Walked, StackOK
  <2>4. <<Sub(script), cwdOf, cwd>> \in walker'.checked
    BY <1>4, <2>3 DEF note
  <2>5. StackOK'
    BY <1>3, <1>4, <1>6, <2>1, <2>4 DEF StackOK
  <2>6. Said'
    BY <1>3, <1>9, <2>1, Standing DEF Said
  <2> QED
    BY <1>8, <2>2, <2>5, <2>6 DEF Walked
<1>11. CASE Len(stack) # 1
  <2> DEFINE rest == Tail(stack)
             g == Visited(stack[2], cwd)
             n == Len(rest)
  <2>1. /\ rest \in Seq(Frames) /\ rest # <<>> /\ rest[1] = stack[2] /\ n = Len(stack) - 1
        /\ n \in Nat /\ n > 0 /\ \A i \in 1 .. n : rest[i] = stack[i + 1] /\ i + 1 \in 1 .. Len(stack)
        /\ stack[2] \in Frames
    <3>1. 1 \in 1 .. Len(stack) - 1 /\ 2 \in 1 .. Len(stack)
      BY <1>7, <1>11
    <3> QED
      BY <1>2, <1>7, <1>11, <3>1, EntryOf
  <2>2. g \in Frames /\ g.s = rest[1].s /\ g.from = rest[1].from /\ g.at = Append(rest[1].at, cwd)
    BY <1>4, <2>1, VisitedIs
  <2>3. stack' = <<g>> \o Tail(rest)
    BY <1>3, <1>11
  <2> HIDE DEF rest, g
  <2>4. /\ stack' \in Seq(Frames) /\ stack' # <<>> /\ Len(stack') = n
        /\ stack'[1] = g /\ \A i \in 1 .. n : i = 1 \/ stack'[i] = rest[i]
    BY <2>1, <2>2, <2>3, BelowIs DEF n
  <2> HIDE DEF n
  <2>5. \A i \in 1 .. n : stack'[i].s = rest[i].s /\ stack'[i].from = rest[i].from
    BY <2>1, <2>2, <2>4
  <2>6. WalkTypes' /\ Phases'
    BY <1>2, <1>3, <1>4, <2>4 DEF Walked, WalkTypes, Phases
  <2>7. FrameOK(rest[1], walker) /\ Nested(Top, rest[1])
    <3>1. 1 \in 1 .. n /\ 1 \in 1 .. Len(stack) - 1
      BY <1>7, <2>1
    <3> QED
      BY <1>2, <2>1, <3>1 DEF Walked, StackOK
  <2>8. FrameOK(g, walker') /\ g.at[Len(g.at)] = cwd
    <3> DEFINE f == rest[1]
               k == Len(f.at)
    <3>1. /\ f \in Frames /\ k \in Nat /\ k > 0 /\ k <= Len(Parts(f.s)) /\ Len(Parts(f.s)) \in Nat
          /\ f.at \in Seq(Belief) /\ Top.s = Parts(f.s)[k] /\ Top.from = f.at[k]
      BY <2>1, <2>7, FramesAre DEF Nested, FrameOK
    <3>2. Len(g.at) = k + 1 /\ g.at[k + 1] = cwd /\ \A j \in 1 .. k : g.at[j] = f.at[j]
      BY <1>4, <2>2, <3>1, LongerIs
    <3>3. /\ f.at[1] = Begins(f.s, f.from)
          /\ ~walker.deny => \A j \in 1 .. k - 1 : <<Parts(f.s)[j], f.at[j], f.at[j + 1]>> \in walker.checked
      BY <2>7 DEF FrameOK
    <3>4. g.s = f.s /\ g.from = f.from
      BY <2>2
    <3> HIDE DEF f, k
    <3>5. g.at[1] = Begins(g.s, g.from)
      BY <3>1, <3>2, <3>3, <3>4
    <3>6. ASSUME ~walker'.deny, NEW j \in 1 .. Len(g.at) - 1
          PROVE  <<Parts(g.s)[j], g.at[j], g.at[j + 1]>> \in walker'.checked
      <4>1. CASE j = k
        BY <1>4, <3>1, <3>2, <3>4, <4>1 DEF note
      <4>2. CASE j # k
        <5>1. j \in 1 .. k - 1 /\ j \in 1 .. k /\ j + 1 \in 1 .. k
          BY <3>1, <3>2, <4>2
        <5>2. <<Parts(f.s)[j], f.at[j], f.at[j + 1]>> \in walker.checked
          BY <1>4, <3>3, <3>6, <5>1
        <5> QED
          BY <1>4, <3>2, <3>4, <5>1, <5>2
      <4> QED
        BY <4>1, <4>2
    <3>7. Len(g.at) > 0 /\ Len(g.at) <= Len(Parts(g.s)) + 1
      BY <3>1, <3>2, <3>4
    <3> QED
      BY <3>1, <3>2, <3>5, <3>6, <3>7 DEF FrameOK
  <2>9. StackOK'
    <3>1. \A i \in 1 .. Len(stack') : FrameOK(stack'[i], walker')
      <4> TAKE i \in 1 .. Len(stack')
      <4>1. FrameOK(rest[i], walker)
        BY <2>1, <2>4 DEF Walked, StackOK
      <4>2. FrameOK(rest[i], walker')
        BY <1>4, <4>1, FrameLater
      <4> QED
        BY <2>4, <2>8, <4>2
    <3>2. \A i \in 1 .. Len(stack') - 1 : Nested(stack'[i], stack'[i + 1])
      <4> TAKE i \in 1 .. Len(stack') - 1
      <4>1. i \in 1 .. n /\ i + 1 \in 1 .. n /\ i + 1 # 1 /\ i + 1 \in 1 .. Len(stack) - 1
        BY <1>7, <2>1, <2>4
      <4>2. Nested(stack[i + 1], stack[(i + 1) + 1])
        BY <4>1 DEF Walked, StackOK
      <4>3. rest[i] = stack[i + 1] /\ rest[i + 1] = stack[(i + 1) + 1]
        BY <2>1, <4>1
      <4>4. Nested(rest[i], rest[i + 1])
        BY <4>2, <4>3
      <4> QED
        BY <2>4, <2>5, <4>1, <4>4 DEF Nested
    <3>3. stack'[Len(stack')].s = Sub(script) /\ stack'[Len(stack')].from = cwdOf
      <4>1. n \in 1 .. n /\ n + 1 = Len(stack)
        BY <1>7, <2>1
      <4>2. rest[n] = stack[Len(stack)]
        BY <2>1, <4>1
      <4> QED
        BY <1>1, <2>4, <2>5, <4>1, <4>2 DEF Walked, StackOK
    <3>4. walker'.cwd = stack'[1].at[Len(stack'[1].at)]
      BY <1>4, <2>4, <2>8
    <3> QED
      BY <1>3, <1>6, <2>4, <3>1, <3>2, <3>3, <3>4, Standing DEF StackOK
  <2>10. Said'
    <3>1. \A i \in 1 .. n : Heard(rest[i].s, rest[i].from, walker')
      BY <1>9, <2>1 DEF Walked, Said
    <3> QED
      BY <1>3, <1>9, <2>4, <2>5, <3>1, Standing DEF Said
  <2> QED
    BY <1>8, <2>6, <2>9, <2>10 DEF Walked
<1> QED
  BY <1>10, <1>11

\* Where nothing is being walked over.
LEMMA NothingWalked ==
    ASSUME stack = <<>>, script = NoScript, walker.checked = {}
    PROVE  StackOK /\ Closed /\ Stays /\ Said
  BY DEF StackOK, Closed, Stays, Said

\* A new walker has judged nothing.
LEMMA FreshIs ==
    ASSUME slots \in Files
    PROVE  Fresh \in Walkers /\ Fresh.checked = {}
  BY CwdBelief DEF Fresh, Walkers

\* The file system keeps its type.
LEMMA FilesTyped ==
    /\ Init => slots \in Files
    /\ slots \in Files /\ Next => slots' \in Files
<1>1. Init => slots \in Files
  BY DEF Init, Files
<1>2. slots \in Files /\ Run => slots' \in Files
  BY DEF Run, Files
<1>3. ASSUME slots \in Files, NEW g \in Given, Decide(g)
      PROVE  slots' \in Files
  BY <1>3 DEF Decide
<1> QED
  BY <1>1, <1>2, <1>3 DEF Next

\* A verdict is one of three.
LEMMA VerdictIs ==
    ASSUME NEW w \in Walkers
    PROVE  /\ VerdictOf(w) = IF w.deny THEN "deny" ELSE IF w.notes THEN "judge" ELSE "allow"
           /\ VerdictOf(w) \in {"deny", "judge", "allow"}
  BY WalkerIs DEF VerdictOf

\* Neither the script nor what was judged of it changes.
LEMMA WalkStands ==
    ASSUME StackOK, Closed, Stays, Said, slots' = slots, script' = script, walker' = walker, stack' = stack
    PROVE  StackOK' /\ Closed' /\ Stays' /\ Said'
<1>1. cwdOf' = cwdOf
  BY FilesStand
<1> QED
  BY <1>1, Standing DEF StackOK, Closed, Stays, Said

\* With the answer the walk is over; nothing of it changes.
LEMMA AnswerStep == ASSUME Walked, Answer PROVE Walked'
<1>1. /\ slots' = slots /\ script' = script /\ stack' = stack /\ walker' = walker
      /\ status' = status /\ failed' = failed /\ climbed' = climbed
      /\ script # NoScript /\ stack = <<>> /\ verdict' = VerdictOf(walker) /\ walker \in Walkers
      /\ verdict' = "deny" => todo' = todo
      /\ todo = <<>>
  BY DEF Answer, vars, Walked, WalkTypes, Phases
<1>2. VerdictOf(walker) \in {"deny", "judge", "allow"}
  BY <1>1, VerdictIs
<1>3. WalkTypes' /\ Phases'
  BY <1>1, <1>2 DEF Walked, WalkTypes, Phases
<1> QED
  BY <1>1, <1>3, WalkStands DEF Walked

\* The steps of bash.
Runs == Unfold \/ RunCommand \/ ChangeDirectory \/ EnterDirectory \/ Branch \/ LeaveSubshell

\* Bash runs only what is not denied, after the walk, and leaves the walk alone.
LEMMA RunsIs ==
    ASSUME Walked, Runs
    PROVE  /\ slots' = slots /\ script' = script /\ stack' = stack /\ walker' = walker /\ verdict' = verdict
           /\ todo # <<>> /\ verdict \in {"allow", "judge"} /\ script \in Scripts /\ script # NoScript
           /\ ~walker.deny /\ verdict = VerdictOf(walker) /\ stack = <<>>
           /\ status' \in BOOLEAN /\ failed' \in BOOLEAN /\ climbed' \in BOOLEAN
<1>1. /\ slots' = slots /\ script' = script /\ stack' = stack /\ walker' = walker /\ verdict' = verdict
      /\ todo # <<>>
  BY DEF Runs, Unfold, RunCommand, ChangeDirectory, EnterDirectory, Branch, LeaveSubshell, Busy, vars
<1>2. /\ verdict \in {"allow", "judge"} /\ script \in Scripts /\ script # NoScript
      /\ verdict = VerdictOf(walker) /\ stack = <<>> /\ walker \in Walkers
      /\ status \in BOOLEAN /\ failed \in BOOLEAN /\ climbed \in BOOLEAN
  BY <1>1 DEF Walked, WalkTypes, Phases
<1>3. ~walker.deny
  BY <1>2, VerdictIs
<1>4. status' \in BOOLEAN
  BY <1>2 DEF Runs, Unfold, RunCommand, ChangeDirectory, EnterDirectory, MoveTo, StayHere, Branch, LeaveSubshell
<1>5. failed' \in BOOLEAN
  BY <1>2 DEF Runs, Unfold, RunCommand, ChangeDirectory, EnterDirectory, MoveTo, StayHere, Branch, LeaveSubshell,
              whereVars
<1>6. climbed' \in BOOLEAN
  BY <1>2 DEF Runs, Unfold, RunCommand, ChangeDirectory, EnterDirectory, Branch, LeaveSubshell, whereVars
<1> QED
  BY <1>1, <1>2, <1>3, <1>4, <1>5, <1>6

\* So no step of bash disturbs the walk,
LEMMA RunsStep == ASSUME Walked, Runs PROVE Walked'
<1>1. WalkTypes' /\ Phases'
  BY RunsIs DEF Walked, WalkTypes, Phases
<1> QED
  BY <1>1, RunsIs, WalkStands DEF Walked

\* nor does its end, which forgets the script.
LEMMA EndedStep == ASSUME Walked, Ended PROVE Walked'
<1>1. /\ slots' = slots /\ script' = NoScript /\ verdict' = "none" /\ stack' = <<>> /\ todo' = <<>>
      /\ walker' = Fresh /\ wd' = <<>> /\ pwd' = <<>>
      /\ status' \in BOOLEAN /\ failed' \in BOOLEAN /\ climbed' \in BOOLEAN
  BY DEF Ended, vars, Walked, Phases
<1>2. slots \in Files
  BY DEF Walked, WalkTypes
<1>3. walker' \in Walkers /\ walker'.checked = {}
  BY <1>1, <1>2, FreshIs
<1>4. stack' \in Seq(Frames)
  BY <1>1
<1>5. WalkTypes' /\ Phases'
  BY <1>1, <1>2, <1>3, <1>4 DEF WalkTypes, Phases
<1>6. StackOK' /\ Closed' /\ Stays' /\ Said'
  BY <1>1, <1>3 DEF StackOK, Closed, Stays, Said
<1> QED
  BY <1>5, <1>6 DEF Walked

\* Between scripts.
LEMMA IdleStep == ASSUME Walked, script = NoScript, Next, UNCHANGED shellVars PROVE Walked'
<1>1. /\ script' = script /\ verdict' = verdict /\ stack' = stack /\ walker' = walker /\ todo' = todo
      /\ wd' = wd /\ pwd' = pwd /\ status' = status /\ failed' = failed /\ climbed' = climbed
  BY DEF shellVars, whereVars
<1>2. slots' \in Files
  BY FilesTyped DEF Walked, WalkTypes
<1>3. WalkTypes' /\ Phases'
  BY <1>1, <1>2 DEF Walked, WalkTypes, Phases
<1>4. StackOK' /\ Closed' /\ Stays' /\ Said'
  BY <1>1 DEF StackOK, Closed, Stays, Said, Walked, Phases
<1> QED
  BY <1>3, <1>4 DEF Walked

\* Nothing changes where nothing does.
LEMMA SameStep == ASSUME Walked, UNCHANGED walkerVars PROVE Walked'
<1>1. /\ slots' = slots /\ script' = script /\ verdict' = verdict /\ stack' = stack /\ walker' = walker
      /\ todo' = todo /\ wd' = wd /\ pwd' = pwd /\ status' = status /\ failed' = failed /\ climbed' = climbed
  BY DEF walkerVars, shellVars, whereVars, vars
<1>2. WalkTypes' /\ Phases'
  BY <1>1 DEF Walked, WalkTypes, Phases
<1> QED
  BY <1>1, <1>2, WalkStands DEF Walked

\* The walk is in order in every state.
LEMMA WalkedInductive == WalkerSpec => []Walked
<1>1. WalkerInit => Walked
  <2> SUFFICES ASSUME WalkerInit PROVE Walked
    OBVIOUS
  <2>1. slots \in Files /\ NoShell
    BY FilesTyped DEF WalkerInit
  <2>2. /\ script = NoScript /\ verdict = "none" /\ stack = <<>> /\ walker = Fresh /\ todo = <<>>
        /\ wd = <<>> /\ pwd = <<>> /\ status = TRUE /\ failed = FALSE /\ climbed = FALSE
    BY <2>1, Zenon DEF NoShell
  <2>3. WalkTypes /\ Phases
    <3>1. stack \in Seq(Frames)
      BY <2>2
    <3>2. status \in BOOLEAN /\ failed \in BOOLEAN /\ climbed \in BOOLEAN
      BY <2>2, Zenon
    <3> QED
      BY <2>1, <2>2, <3>1, <3>2, FreshIs DEF WalkTypes, Phases
  <2> QED
    BY <2>1, <2>2, <2>3, FreshIs, NothingWalked DEF Walked
<1>2. Walked /\ [WalkerNext]_walkerVars => Walked'
  <2> SUFFICES ASSUME Walked, [WalkerNext]_walkerVars PROVE Walked'
    OBVIOUS
  <2> QED
    BY IdleStep, DecideStep, VisitStep, RefuseStep, ReturnStep, AnswerStep, RunsStep, EndedStep, SameStep
       DEF WalkerNext, Runs
<1> QED
  BY <1>1, <1>2, PTL DEF WalkerSpec

----------------------------------------------------------------------------
(* What bash has left to do is made of commands that were judged.           *)

\* The commands that were judged.
Passed == {s \in Command : \E e \in walker.checked : e[1] = s}

\* Directories, by their real names.
Dirs == {p \in Path : Real(slots, p) /\ EntryAt(p).kind = "dir"}

Branches == {Choose(p, q) : p \in Seq(Passed), q \in Seq(Passed)}
Leaves == {x \in [op : {"leave"}, to : Dirs, name : Path] : Kernel(x.name) = Place(x.to)}
Chdirs == [op : {"chdir"}, kind : {"static", "dynamic"}, at : GivenType]
Items == Passed \cup Branches \cup Leaves \cup Chdirs

\* The name of a directory leads to it.
Names(n, d) == n \in Path /\ Kernel(n) = Place(d)

Running == todo \in Seq(Items) /\ wd \in Dirs /\ Names(pwd, wd)

\* What bash has left to do is of four kinds.
LEMMA ItemIs ==
    ASSUME NEW x \in Items
    PROVE  /\ \/ x \in Passed /\ x.op \in Simple \cup Compound
              \/ x.op = "choose" /\ x.then \in Seq(Passed) /\ x.else \in Seq(Passed) /\ x \in Branches
              \/ x.op = "leave" /\ x.to \in Dirs /\ Names(x.name, x.to) /\ x \in Leaves
              \/ x.op = "chdir" /\ x.kind \in {"static", "dynamic"} /\ x.at \in GivenType /\ x \in Chdirs
           /\ {"choose", "leave", "chdir"} \cap (Simple \cup Compound) = {}
<1>1. {"choose", "leave", "chdir"} \cap (Simple \cup Compound) = {}
  BY OpsAre
<1>2. ASSUME x \in Passed PROVE x.op \in Simple \cup Compound
  BY <1>2, CommandIs DEF Passed
<1>3. ASSUME x \in Branches PROVE x.op = "choose" /\ x.then \in Seq(Passed) /\ x.else \in Seq(Passed)
  BY <1>3 DEF Branches, Choose
<1>4. ASSUME x \in Leaves PROVE x.op = "leave" /\ x.to \in Dirs /\ Names(x.name, x.to)
  BY <1>4 DEF Leaves, Names
<1>5. ASSUME x \in Chdirs PROVE x.op = "chdir" /\ x.kind \in {"static", "dynamic"} /\ x.at \in GivenType
  BY <1>5 DEF Chdirs
<1> QED
  BY <1>1, <1>2, <1>3, <1>4, <1>5 DEF Items

\* Where there is something to do.
LEMMA TodoIs ==
    ASSUME Running, todo # <<>>
    PROVE  /\ Current \in Items /\ Current = todo[1] /\ Tail(todo) \in Seq(Items)
           /\ todo = <<Current>> \o Tail(todo)
<1>1. /\ todo \in Seq(Items) /\ Head(todo) = todo[1] /\ todo[1] \in Items /\ Tail(todo) \in Seq(Items)
      /\ Len(todo) \in Nat /\ Len(todo) > 0 /\ Len(Tail(todo)) = Len(todo) - 1
      /\ \A i \in 1 .. Len(todo) - 1 : Tail(todo)[i] = todo[i + 1]
  BY PopIs DEF Running
<1> DEFINE p == <<Current>> \o Tail(todo)
<1>2. Current = todo[1]
  BY <1>1 DEF Current
<1>3. /\ p \in Seq(Items) /\ Len(p) = Len(Tail(todo)) + 1 /\ p[1] = Current
      /\ \A i \in 1 .. Len(Tail(todo)) : p[i + 1] = Tail(todo)[i]
  BY <1>1, <1>2, PushIs
<1> HIDE DEF p
<1>4. ASSUME NEW i \in 1 .. Len(todo)
      PROVE  p[i] = todo[i]
  <2>1. i # 1 => i - 1 \in 1 .. Len(todo) - 1 /\ (i - 1) + 1 = i
    BY <1>1
  <2> QED
    BY <1>1, <1>2, <1>3, <2>1
<1>5. p = todo
  <2>1. Len(p) = Len(todo)
    BY <1>1, <1>3
  <2> QED
    BY <1>1, <1>3, <1>4, <2>1, SeqEqual
<1> QED
  BY <1>1, <1>2, <1>5 DEF p

\* With a command, its parts were judged.
LEMMA PartsPassed ==
    ASSUME Walked, ~walker.deny, NEW s \in Passed
    PROVE  \A j \in 1 .. Len(Parts(s)) : Parts(s)[j] \in Passed
<1>1. PICK e \in walker.checked : e[1] = s
  BY DEF Passed
<1>2. Chain(s, e[2], e[3], walker.checked)
  BY <1>1 DEF Walked, Closed
<1>3. PICK at \in Seq(Belief) : \A j \in 1 .. Len(Parts(s)) : <<Parts(s)[j], at[j], at[j + 1]>> \in walker.checked
  BY <1>2 DEF Chain
<1> TAKE j \in 1 .. Len(Parts(s))
<1>4. Parts(s)[j] \in Command
  BY CommandIs DEF Passed
<1> DEFINE n == <<Parts(s)[j], at[j], at[j + 1]>>
<1>5. n \in walker.checked /\ n[1] = Parts(s)[j]
  BY <1>3
<1> QED
  BY <1>4, <1>5 DEF Passed

\* The parts by their names.
LEMMA NamedParts ==
    ASSUME Walked, ~walker.deny, NEW s \in Passed
    PROVE  /\ s.op \in {"seq", "and", "or"} => s.left \in Passed /\ s.right \in Passed
           /\ s.op = "pipe" => Sub(s.left) \in Passed /\ Sub(s.right) \in Passed
           /\ s.op \in {"if", "elif"} => s.cond \in Passed /\ s.then \in Passed /\ s.else \in Passed
           /\ s.op = "while" => s.cond \in Passed /\ s.body \in Passed
           /\ s.op \in {"sub", "background", "shell", "chdirgit", "nohup", "command", "env"} => s.body \in Passed
<1>1. \A j \in 1 .. Len(Parts(s)) : Parts(s)[j] \in Passed
  BY PartsPassed
<1>2. \A a : Parts(s) = <<a>> => a \in Passed
  <2> TAKE a
  <2> HAVE Parts(s) = <<a>>
  <2>1. Len(Parts(s)) = 1 /\ Parts(s)[1] = a
    OBVIOUS
  <2> QED
    BY <1>1, <2>1
<1>3. \A a, b : Parts(s) = <<a, b>> => a \in Passed /\ b \in Passed
  <2> TAKE a, b
  <2> HAVE Parts(s) = <<a, b>>
  <2>1. Len(Parts(s)) = 2 /\ Parts(s)[1] = a /\ Parts(s)[2] = b
    OBVIOUS
  <2> QED
    BY <1>1, <2>1
<1>4. \A a, b, c : Parts(s) = <<a, b, c>> => a \in Passed /\ b \in Passed /\ c \in Passed
  <2> TAKE a, b, c
  <2> HAVE Parts(s) = <<a, b, c>>
  <2>1. Len(Parts(s)) = 3 /\ Parts(s)[1] = a /\ Parts(s)[2] = b /\ Parts(s)[3] = c
    OBVIOUS
  <2> QED
    BY <1>1, <2>1
<1> QED
  BY <1>2, <1>3, <1>4, PartsAre

\* The kinds of compound commands, as Expand groups them.
LEMMA CompoundIs ==
    ASSUME NEW s, s.op \in Compound
    PROVE  s.op \in {"seq", "and", "or"} \cup {"pipe", "if", "elif", "while"}
                    \cup {"sub", "background", "shell", "nohup"} \cup {"command"} \cup {"env", "chdirgit"}
  BY DEF Compound, Wrapper

\* Sequences of one, two and three elements.
LEMMA ShortSeq ==
    ASSUME NEW T
    PROVE  /\ \A x \in T : <<x>> \in Seq(T)
           /\ \A x, y \in T : <<x, y>> \in Seq(T)
           /\ \A x, y, z \in T : <<x, y, z>> \in Seq(T)
  OBVIOUS

\* What a command that was judged comes to.
LEMMA ExpandItems ==
    ASSUME Walked, ~walker.deny, NEW s \in Passed, s.op \in Compound, NEW d \in Dirs, NEW n, Names(n, d)
    PROVE  Expand(s, d, n) \in Seq(Items)
<1>1. Passed \subseteq Items /\ Leave(d, n) \in Items
  BY DEF Items, Leaves, Leave, Names
<1>2. \A p, q \in Seq(Passed) : Choose(p, q) \in Items
  BY DEF Items, Branches
<1>3. /\ <<>> \in Seq(Passed) /\ \A x \in Passed : <<x>> \in Seq(Passed)
      /\ \A x, y \in Passed : <<x, y>> \in Seq(Passed)
  BY ShortSeq
<1>0. /\ \A x \in Items : <<x>> \in Seq(Items)
      /\ \A x, y \in Items : <<x, y>> \in Seq(Items)
      /\ \A x, y, z \in Items : <<x, y, z>> \in Seq(Items)
  BY ShortSeq
<1>4. CASE s.op = "seq"
  <2>1. s.left \in Items /\ s.right \in Items
    BY <1>1, <1>4, NamedParts
  <2>9. Expand(s, d, n) = <<s.left, s.right>>
    BY <1>4 DEF Expand
  <2> QED
    BY <1>0, <2>1, <2>9
<1>5. CASE s.op = "and"
  <2> DEFINE o == Choose(<<s.right>>, <<>>)
  <2>1. s.left \in Items /\ s.right \in Passed
    BY <1>1, <1>5, NamedParts
  <2>9. Expand(s, d, n) = <<s.left, o>>
    BY <1>5 DEF Expand
  <2>2. o \in Items
    BY <1>2, <1>3, <2>1, Zenon
  <2> HIDE DEF o
  <2> QED
    BY <1>0, <2>1, <2>2, <2>9
<1>6. CASE s.op = "or"
  <2> DEFINE o == Choose(<<>>, <<s.right>>)
  <2>1. s.left \in Items /\ s.right \in Passed
    BY <1>1, <1>6, NamedParts
  <2>9. Expand(s, d, n) = <<s.left, o>>
    BY <1>6 DEF Expand
  <2>2. o \in Items
    BY <1>2, <1>3, <2>1, Zenon
  <2> HIDE DEF o
  <2> QED
    BY <1>0, <2>1, <2>2, <2>9
<1>7. CASE s.op = "pipe"
  <2>1. Sub(s.left) \in Items /\ Sub(s.right) \in Items
    BY <1>1, <1>7, NamedParts
  <2>9. Expand(s, d, n) = <<Sub(s.left), Sub(s.right)>>
    BY <1>7 DEF Expand
  <2> QED
    BY <1>0, <2>1, <2>9
<1>8. CASE s.op \in {"sub", "background", "shell", "nohup"}
  <2>1. s.body \in Items
    BY <1>1, <1>8, NamedParts
  <2>9. Expand(s, d, n) = <<s.body, Leave(d, n)>>
    BY <1>8 DEF Expand
  <2> QED
    BY <1>0, <1>1, <2>1, <2>9
<1>9. CASE s.op = "command"
  <2>1. s.body \in Items
    BY <1>1, <1>9, NamedParts
  <2>9. Expand(s, d, n) = <<s.body>>
    BY <1>9 DEF Expand
  <2> QED
    BY <1>0, <2>1, <2>9
<1>10. CASE s.op \in {"env", "chdirgit"}
  <2>1. s.body \in Passed /\ <<s.body>> \in Seq(Passed)
    BY <1>10, NamedParts
  <2>2. s.kind \in {"static", "dynamic"} /\ s.at \in GivenType
    BY <1>10, CommandAssumption DEF Passed
  <2> DEFINE c == [op |-> "chdir", kind |-> s.kind, at |-> s.at]
             o == Choose(<<s.body>>, <<>>)
  <2>3. c \in Items
    BY <2>2 DEF Items, Chdirs
  <2>4. o \in Items
    BY <1>2, <1>3, <2>1, Zenon
  <2>5. Expand(s, d, n) = <<c, o, Leave(d, n)>>
    BY <1>10 DEF Expand
  <2> HIDE DEF c, o
  <2> QED
    BY <1>0, <1>1, <2>3, <2>4, <2>5
<1>11. CASE s.op \in {"if", "elif"}
  <2> DEFINE o == Choose(<<s.then>>, <<s.else>>)
  <2>1. s.cond \in Items /\ s.then \in Passed /\ s.else \in Passed
    BY <1>1, <1>11, NamedParts
  <2>9. Expand(s, d, n) = <<s.cond, o>>
    BY <1>11 DEF Expand
  <2>2. o \in Items
    BY <1>2, <1>3, <2>1, Zenon
  <2> HIDE DEF o
  <2> QED
    BY <1>0, <2>1, <2>2, <2>9
<1>12. CASE s.op = "while"
  <2> DEFINE o == Choose(<<s.body, s>>, <<>>)
  <2>1. s.cond \in Items /\ s.body \in Passed
    BY <1>1, <1>12, NamedParts
  <2>9. Expand(s, d, n) = <<s.cond, o>>
    BY <1>12 DEF Expand
  <2>2. o \in Items
    BY <1>2, <1>3, <2>1, Zenon
  <2> HIDE DEF o
  <2> QED
    BY <1>0, <2>1, <2>2, <2>9
<1> QED
  BY <1>4, <1>5, <1>6, <1>7, <1>8, <1>9, <1>10, <1>11, <1>12, CompoundIs

\* While files and the walker stand still, so do the directories and what was judged.
LEMMA PassedStands ==
    /\ slots' = slots => Dirs' = Dirs /\ \A n, d : Names(n, d)' <=> Names(n, d)
    /\ slots' = slots /\ walker' = walker => Passed' = Passed /\ Items' = Items
<1>1. slots' = slots => Dirs' = Dirs
  BY DEF Dirs, EntryAt
<1>2. walker' = walker => Passed' = Passed
  BY DEF Passed
<1>3. slots' = slots => \A a : Kernel(a)' = Kernel(a)
  BY Unchanged
<1>4. slots' = slots => \A n, d : Names(n, d)' <=> Names(n, d)
  BY <1>3 DEF Names
<1>5. slots' = slots => Leaves' = Leaves
  BY <1>1, <1>3 DEF Leaves
<1> QED
  BY <1>1, <1>2, <1>4, <1>5 DEF Items, Branches

\* The root of the file system is a directory.
LEMMA TopDir == <<>> \in Dirs
<1>1. <<>> \in Path /\ EntryAt(<<>>) = Dir
  BY TreeAssumption DEF Path, EntryAt, EntryIn
<1> QED
  BY <1>1, RealTop DEF Dirs, Dir

\* What the kernel finds is a real place, and has itself for a name.
LEMMA KernelDir ==
    ASSUME slots \in Files, NEW a \in Path, IsDir(a)
    PROVE  LET d == Kernel(a).place IN d \in Dirs /\ Names(a, d) /\ Names(d, d)
<1>1. /\ Kernel(a).ok /\ EntryAt(Kernel(a).place).kind = "dir" /\ Kernel(a).place \in Path
      /\ Kernel(a) = Place(Kernel(a).place) /\ Real(slots, Kernel(a).place)
  BY LinksAllowed, ReachedType, WalkReal DEF IsDir, Kernel
<1>2. Kernel(Kernel(a).place) = Place(Kernel(a).place)
  BY <1>1, LinksAllowed, RealReached DEF Kernel
<1> QED
  BY <1>1, <1>2 DEF Dirs, Names

\* A step of bash leaves it only commands that were judged,
LEMMA RunsRunning == ASSUME Walked, Running, Runs PROVE Running'
<1>1. slots' = slots /\ walker' = walker /\ todo # <<>> /\ ~walker.deny /\ slots \in Files
  BY RunsIs DEF Walked, WalkTypes
<1>2. Dirs' = Dirs /\ Items' = Items /\ \A n, d : Names(n, d) => Names(n, d)'
  BY <1>1, PassedStands
<1>3. Current \in Items /\ Tail(todo) \in Seq(Items) /\ wd \in Dirs /\ Names(pwd, wd)
  BY <1>1, TodoIs DEF Running
<1>4. CASE Unfold
  <2>1. /\ Current.op \in Compound /\ todo' = Expand(Current, wd, pwd) \o Tail(todo)
        /\ wd' = wd /\ pwd' = pwd
    BY <1>4 DEF Unfold, Busy, whereVars
  <2>2. Current \in Passed
    BY <1>3, <2>1, ItemIs
  <2>3. Expand(Current, wd, pwd) \in Seq(Items)
    BY <1>1, <1>3, <2>1, <2>2, ExpandItems
  <2> HIDE DEF Current
  <2> QED
    BY <1>2, <1>3, <2>1, <2>3 DEF Running
<1>5. CASE RunCommand
  BY <1>2, <1>3, <1>5 DEF RunCommand, Running, whereVars
<1>6. CASE ChangeDirectory
  <2> DEFINE a == abs(Known(wd), Current.at)
             p == abs(Known(pwd), Current.at).parts
  <2>1. Current.op = "cd" /\ todo' = Tail(todo)
    BY <1>6 DEF ChangeDirectory, Busy
  <2>2. a.ok => a.parts \in Path /\ p \in Path /\ Clean(p) \in Path
    <3>1. Current.at \in GivenType
      BY <1>3, <2>1, ItemIs, CommandAssumption DEF Passed
    <3>2. Known(wd) \in Belief /\ Known(pwd) \in Belief /\ Known(wd).ok /\ Known(pwd).ok
      BY <1>3, BeliefIs, KnownIs DEF Dirs, Names
    <3>3. abs(Known(wd), Current.at) \in Belief /\ abs(Known(pwd), Current.at) \in Belief
      BY <3>1, <3>2, AbsBelief
    <3>4. a.ok => abs(Known(pwd), Current.at).ok
      BY <3>1, <3>2, AbsBelief
    <3>5. a.ok => a.parts \in Path /\ p \in Path
      BY <3>3, <3>4, BeliefIs
    <3> QED
      BY <3>5, CleanType
  <2>3. \/ a.ok /\ IsDir(Clean(p)) /\ wd' = Kernel(Clean(p)).place /\ pwd' = Clean(p)
        \/ a.ok /\ IsDir(a.parts) /\ wd' = Kernel(a.parts).place /\ pwd' = Kernel(a.parts).place
        \/ wd' = wd /\ pwd' = pwd
    BY <1>6 DEF ChangeDirectory, MoveTo, StayHere
  <2> HIDE DEF a, p
  <2>4. wd' \in Dirs /\ Names(pwd', wd')
    BY <1>1, <1>3, <2>2, <2>3, KernelDir
  <2> QED
    BY <1>2, <1>3, <2>1, <2>4 DEF Running
<1>9. CASE EnterDirectory
  <2> DEFINE a == abs(Known(wd), Current.at)
  <2>1. Current.op = "chdir" /\ todo' = Tail(todo)
    BY <1>9 DEF EnterDirectory, Busy
  <2>2. a.ok => a.parts \in Path
    <3>1. Current.at \in GivenType /\ wd \in Path
      BY <1>3, <2>1, ItemIs DEF Dirs
    <3> QED
      BY <3>1, AbsBelief, BeliefIs
  <2>3. \/ /\ a.ok /\ IsDir(a.parts) /\ wd' = Kernel(a.parts).place
           /\ pwd' = IF Kernel(a.parts).place = wd THEN pwd ELSE Kernel(a.parts).place
        \/ wd' = wd /\ pwd' = pwd
    BY <1>9 DEF EnterDirectory, MoveTo, StayHere
  <2> HIDE DEF a
  <2>4. wd' \in Dirs /\ Names(pwd', wd')
    BY <1>1, <1>3, <2>2, <2>3, KernelDir
  <2> QED
    BY <1>2, <1>3, <2>1, <2>4 DEF Running
<1>7. CASE Branch
  <2> DEFINE p == IF status THEN Current.then ELSE Current.else
  <2>1. Current.op = "choose" /\ todo' = p \o Tail(todo) /\ wd' = wd /\ pwd' = pwd
    BY <1>7 DEF Branch, Busy, whereVars
  <2>2. Current.then \in Seq(Passed) /\ Current.else \in Seq(Passed)
    BY <1>3, <2>1, ItemIs
  <2>3. p \in Seq(Passed)
    BY <2>2
  <2>4. p \in Seq(Items)
    BY <2>3 DEF Items
  <2> HIDE DEF p
  <2> QED
    BY <1>2, <1>3, <2>1, <2>4 DEF Running
<1>8. CASE LeaveSubshell
  <2>1. Current.op = "leave" /\ todo' = Tail(todo) /\ wd' = Current.to /\ pwd' = Current.name
    BY <1>8 DEF LeaveSubshell, Busy
  <2>2. Current.to \in Dirs /\ Names(Current.name, Current.to)
    BY <1>3, <2>1, ItemIs
  <2> QED
    BY <1>2, <1>3, <2>1, <2>2 DEF Running
<1> QED
  BY <1>4, <1>5, <1>6, <1>7, <1>8, <1>9 DEF Runs

\* The script itself was judged.
LEMMA ScriptPassed ==
    ASSUME Walked, script # NoScript, stack = <<>>, ~walker.deny
    PROVE  script \in Passed
<1>1. PICK a \in Belief : <<Sub(script), cwdOf, a>> \in walker.checked
  BY DEF Walked, StackOK
<1>2. Sub(script) \in Command
  BY NotNone DEF Walked, WalkTypes
<1>3. Sub(script) \in Passed
  <2> DEFINE n == <<Sub(script), cwdOf, a>>
  <2>1. n \in walker.checked /\ n[1] = Sub(script)
    BY <1>1
  <2> QED
    BY <1>2, <2>1 DEF Passed
<1> QED
  BY <1>3, NamedParts DEF Sub

\* Bash starts in the directory of the call, under a name that leads there,
LEMMA StartIs ==
    ASSUME slots \in Files, Start
    PROVE  wd' \in Dirs /\ Names(pwd', wd') /\ cwdOf.ok /\ Kernel(cwdOf.parts) = Place(wd')
<1> DEFINE d == Kernel(cwdOf.parts).place
<1>1. /\ cwdOf.ok /\ IsDir(cwdOf.parts) /\ wd' = d
      /\ Kernel(pwd') = Kernel(cwdOf.parts) /\ pwd' \in {d, Clean(cwdOf.parts)}
  BY DEF Start, Starts
<1>2. cwdOf.parts \in Path /\ Clean(cwdOf.parts) \in Path
  BY <1>1, CwdType, CleanType
<1>3. d \in Dirs /\ Names(cwdOf.parts, d)
  BY <1>1, <1>2, KernelDir
<1> QED
  BY <1>1, <1>2, <1>3 DEF Names, Dirs

\* and it begins with the script, which was.
LEMMA AnswerRunning == ASSUME Walked, Running, Answer PROVE Running'
<1>1. /\ slots' = slots /\ walker' = walker /\ slots \in Files /\ walker \in Walkers
      /\ script # NoScript /\ stack = <<>> /\ verdict' = VerdictOf(walker)
      /\ \/ verdict' # "deny" /\ Start
         \/ todo' = todo /\ wd' = wd /\ pwd' = pwd
  BY DEF Answer, vars, Walked, WalkTypes
<1>2. Dirs' = Dirs /\ Items' = Items /\ \A n, d : Names(n, d) => Names(n, d)'
  BY <1>1, PassedStands
<1>3. CASE verdict' # "deny" /\ Start
  <2>0. todo' = <<script>>
    BY <1>3 DEF Start
  <2>1. script \in Items
    BY <1>1, <1>3, VerdictIs, ScriptPassed DEF Items
  <2>2. wd' \in Dirs /\ Names(pwd', wd')
    BY <1>1, <1>3, StartIs
  <2> QED
    BY <1>2, <2>0, <2>1, <2>2 DEF Running
<1> QED
  BY <1>1, <1>2, <1>3 DEF Running

\* While nothing is run.
LEMMA NoneRunning ==
    ASSUME todo' = <<>>, wd \in Dirs, Names(pwd, wd), slots' \in Files,
           (wd' = <<>> /\ pwd' = <<>>) \/ (wd' = wd /\ pwd' = pwd /\ slots' = slots)
    PROVE  Running'
<1>1. CASE wd' = <<>> /\ pwd' = <<>>
  <2>1. <<>> \in Path /\ EntryIn(slots', <<>>) = Dir
    BY TreeAssumption DEF Path, EntryIn
  <2>2. Reached(slots', <<>>, KernelLinks) = Place(<<>>)
    BY <2>1, LinksAllowed, RealTop, RealReached
  <2> QED
    BY <1>1, <2>1, <2>2, RealTop DEF Running, Dirs, Dir, EntryAt, Names, Kernel
<1>2. CASE wd' = wd /\ pwd' = pwd /\ slots' = slots
  BY <1>2, PassedStands DEF Running
<1> QED
  BY <1>1, <1>2

\* Bash runs what was judged, in directories that exist, in every state.
LEMMA RunningInductive == WalkerSpec => []Running
<1>1. WalkerInit => Running
  <2> SUFFICES ASSUME WalkerInit PROVE Running
    OBVIOUS
  <2>1. slots \in Files /\ wd = <<>> /\ pwd = <<>> /\ todo = <<>>
    BY FilesTyped DEF WalkerInit, NoShell
  <2>2. Kernel(<<>>) = Place(<<>>)
    BY <2>1, TopDir, LinksAllowed, RealReached DEF Kernel, Dirs
  <2> QED
    BY <2>1, <2>2, TopDir DEF Running, Names, Dirs
<1>2. Walked /\ Running /\ [WalkerNext]_walkerVars => Running'
  <2> SUFFICES ASSUME Walked, Running, [WalkerNext]_walkerVars PROVE Running'
    OBVIOUS
  <2>0. wd \in Dirs /\ Names(pwd, wd) /\ slots \in Files
    BY DEF Running, Walked, WalkTypes
  <2>1. CASE script = NoScript /\ Next /\ UNCHANGED shellVars
    BY <2>0, <2>1, NoneRunning, FilesTyped DEF shellVars, whereVars, Walked, Phases
  <2>2. ASSUME NEW s \in Scripts, DecideScript(s) PROVE Running'
    BY <2>0, <2>2, NoneRunning DEF DecideScript, vars, whereVars, Walked, Phases
  <2>3. CASE Visit \/ Refuse \/ Return
    <3>1. stack # <<>> /\ todo' = todo /\ wd' = wd /\ pwd' = pwd /\ slots' = slots
      BY <2>3 DEF Visit, Refuse, Return, Pending, vars, whereVars
    <3> QED
      BY <2>0, <3>1, TopIs, NoneRunning
  <2>4. CASE Ended
    BY <2>0, <2>4, NoneRunning DEF Ended, vars
  <2>5. CASE UNCHANGED walkerVars
    <3>1. slots' = slots /\ walker' = walker /\ todo' = todo /\ wd' = wd /\ pwd' = pwd
      BY <2>5 DEF walkerVars, vars, shellVars, whereVars
    <3> QED
      BY <3>1, PassedStands DEF Running
  <2> QED
    BY <2>1, <2>2, <2>3, <2>4, <2>5, AnswerRunning, RunsRunning DEF WalkerNext, Runs
<1> QED
  BY <1>1, <1>2, WalkedInductive, PTL DEF WalkerSpec

----------------------------------------------------------------------------
(* The theorems that rest on it. *)

\* While a script is walked over and run no file changes and no path is judged, so
\* what was proved of the judgement of paths holds here too (path.go, shell.go:44).
THEOREM WalkerImplementsPaths == WalkerSpec => Spec
<1>1. WalkerInit => Init
  BY DEF WalkerInit
<1>2. [WalkerNext]_walkerVars => [Next]_vars
  <2> SUFFICES ASSUME [WalkerNext]_walkerVars PROVE Next \/ UNCHANGED vars
    OBVIOUS
  <2>1. CASE UNCHANGED walkerVars
    BY <2>1 DEF walkerVars
  <2>2. ASSUME NEW s \in Scripts, DecideScript(s) PROVE UNCHANGED vars
    BY <2>2 DEF DecideScript
  <2>3. CASE Visit \/ Refuse \/ Return \/ Answer \/ Ended
    BY <2>3 DEF Visit, Refuse, Return, Answer, Ended
  <2>4. CASE Unfold \/ RunCommand \/ ChangeDirectory \/ EnterDirectory \/ Branch \/ LeaveSubshell
    BY <2>4 DEF Unfold, RunCommand, ChangeDirectory, EnterDirectory, Branch, LeaveSubshell
  <2> QED
    BY <2>1, <2>2, <2>3, <2>4 DEF WalkerNext
<1> QED
  BY <1>1, <1>2, PTL DEF WalkerSpec, Spec

\* Every variable of the walk holds a value of its kind, bash is in a directory that
\* exists, its own name for it leads there, and a denied script is not run.
THEOREM WalkerTypeCorrect == WalkerSpec => []WalkerTypeOK
<1>1. TypeOK /\ Walked /\ Running => WalkerTypeOK
  <2> SUFFICES ASSUME TypeOK, Walked, Running PROVE WalkerTypeOK
    OBVIOUS
  <2>1. script # NoScript => script.op \in Simple \cup Compound
    <3> HAVE script # NoScript
    <3>1. Sub(script) \in Command /\ Parts(Sub(script)) = <<script>>
      BY NotNone, PartsAre DEF Walked, WalkTypes, Sub
    <3>2. script \in Range(Parts(Sub(script)))
      BY <3>1 DEF Range
    <3> QED
      BY <3>1, <3>2, CommandAssumption
  <2>2. /\ verdict \in {"none", "allow", "judge", "deny"}
        /\ verdict # "none" => script # NoScript /\ stack = <<>>
        /\ verdict \in {"none", "deny"} => todo = <<>>
    BY DEF Walked, WalkTypes, Phases
  <2>3. EntryAt(wd).kind = "dir" /\ Kernel(pwd) = Place(wd)
    BY DEF Running, Dirs, Names
  <2>4. status \in BOOLEAN /\ failed \in BOOLEAN /\ climbed \in BOOLEAN
    BY Zenon DEF Walked, WalkTypes
  <2> QED
    BY <2>1, <2>2, <2>3, <2>4, Zenon DEF WalkerTypeOK
<1> QED
  BY <1>1, WalkerImplementsPaths, TypeCorrect, WalkedInductive, RunningInductive, PTL

\* Whatever way bash takes through a script that is not denied, it runs no command
\* that the walker has not judged (cmd, shell.go:147).
THEOREM CommandsCheckedAlways == WalkerSpec => []CommandsChecked
<1>1. Running => CommandsChecked
  <2> SUFFICES ASSUME Running, Busy(Simple) PROVE \E e \in walker.checked : e[1] = Current
    BY DEF CommandsChecked
  <2>1. Current \in Items /\ Current.op \in Simple
    BY TodoIs DEF Busy
  <2>2. Current \in Passed
    BY <2>1, ItemIs
  <2> QED
    BY <2>2 DEF Passed
<1> QED
  BY <1>1, RunningInductive, PTL

----------------------------------------------------------------------------
(* What the names that bash's cd goes by come to.                           *)

\* The walk of b ends at d, and may follow i more links.
Ends(s, b, l, d, i) == Walk(s, b, l)[Steps(b, l)] = At(d, <<>>, i)

LEMMA EndsIs ==
    ASSUME NEW s \in Files, NEW b \in Path, NEW l \in Nat
    PROVE  /\ \A d \in Path, i \in Nat : Ends(s, b, l, d, i) => Reached(s, b, l) = Place(d)
           /\ \A d : Reached(s, b, l) = Place(d) => d \in Path /\ \E i \in Nat : Ends(s, b, l, d, i)
<1> DEFINE w == Walk(s, b, l)[Steps(b, l)]
<1>1. w \in Walking
  BY WalkIs
<1>2. Reached(s, b, l) = IF w.ok /\ w.rest = <<>> THEN Place(w.at) ELSE Fails
  BY Zenon DEF Reached, End
<1> HIDE DEF w
<1>3. ASSUME NEW d \in Path, NEW i \in Nat, w = At(d, <<>>, i)
      PROVE  Reached(s, b, l) = Place(d)
  BY <1>2, <1>3, AtIs
<1>4. ASSUME NEW d, Reached(s, b, l) = Place(d)
      PROVE  d \in Path /\ \E i \in Nat : w = At(d, <<>>, i)
  <2>0. Place(d).ok /\ ~Fails.ok
    BY DEF Place, Fails
  <2>1. w.ok /\ w.rest = <<>> /\ Place(w.at) = Place(d)
    BY <1>2, <1>4, <2>0
  <2>2. w.at = d
    BY <2>1 DEF Place
  <2> QED
    BY <1>1, <2>1, <2>2, AtIs
<1> QED
  BY <1>3, <1>4 DEF Ends, w

\* A walk that ends comes by there on its way to what is behind it.
LEMMA EndsBy ==
    ASSUME NEW s \in Files, NEW b \in Path, NEW l \in Nat, NEW d \in Path, NEW i \in Nat, Ends(s, b, l, d, i)
    PROVE  \E n \in Nat : \A q \in Path : Walk(s, b \o q, l)[n] = At(d, q, i) /\ n + Len(q) <= Steps(b \o q, l)
<1>1. Reached(s, b, l) = Place(d)
  BY EndsIs
<1>2. PICK n \in 0 .. Steps(b, l), j \in Nat :
          \A q \in Path : /\ Walk(s, b \o q, l)[n] = At(d, q, j)
                         /\ Steps(b, l) \in Nat /\ Steps(b \o q, l) = Steps(b, l) + Len(q) /\ Len(q) \in Nat
  BY <1>1, ComesBy
<1>3. <<>> \in Path /\ b \o <<>> = b
  BY ConcatIs DEF Path
<1>4. Walk(s, b, l)[n] = At(d, <<>>, j) /\ Steps(b, l) \in Nat
  BY <1>2, <1>3
<1>5. Walk(s, b, l)[Steps(b, l)] = At(d, <<>>, j)
  BY <1>4, AtIs, EndStays
<1>6. i = j
  BY <1>5, AtIs DEF Ends
<1>7. n \in Nat /\ \A q \in Path : n + Len(q) <= Steps(b \o q, l)
  BY <1>2, <1>4
<1> QED
  BY <1>2, <1>6, <1>7

\* Two walks from the same place go on alike, and what the one has left of links is
\* left to the other as well.
LEMMA Parallel ==
    ASSUME NEW s \in Files, NEW b \in Path, NEW c \in Path, NEW l \in Nat, NEW d \in Path, NEW i \in Nat, NEW x \in Nat,
           Ends(s, b, l, d, i), Ends(s, c, l, d, i + x),
           NEW q \in Path, NEW e \in Path, NEW j \in Nat, Ends(s, b \o q, l, e, j)
    PROVE  Ends(s, c \o q, l, e, j + x)
<1> DEFINE f == b \o q
           g == c \o q
           S == Steps(f, l)
           T == Steps(g, l)
           V == Walk(s, f, l)
           W == Walk(s, g, l)
<1>1. f \in Path /\ g \in Path /\ <<>> \in Path /\ i + x \in Nat /\ j + x \in Nat
  BY ConcatIs DEF Path
<1>2. PICK n \in Nat : V[n] = At(d, q, i) /\ n + Len(q) <= S
  BY EndsBy
<1>3. PICK m \in Nat : W[m] = At(d, q, i + x) /\ m + Len(q) <= T
  <2> DEFINE k == i + x
  <2>1. k \in Nat /\ Ends(s, c, l, d, k)
    BY <1>1
  <2> HIDE DEF k
  <2>2. \E m \in Nat : W[m] = At(d, q, k) /\ m + Len(q) <= T
    BY <2>1, EndsBy
  <2> QED
    BY <2>2 DEF k
<1>4. S \in Nat /\ T \in Nat /\ Len(q) \in Nat /\ n <= S /\ m <= T
  <2>0. Len(q) \in Nat
    BY ConcatIs
  <2> HIDE DEF f, g
  <2>1. S \in Nat /\ T \in Nat /\ Len(q) \in Nat
    BY <1>1, <2>0, WalkIs
  <2> HIDE DEF S, T
  <2> QED
    BY <1>2, <1>3, <2>1
<1>5. V[S] = At(e, <<>>, j) /\ V[S].ok
  BY AtIs DEF Ends
<1> HIDE DEF f, g
<1>6. \A k \in 0 .. S : V[k].ok
  <2> SUFFICES ASSUME NEW k \in 0 .. S, ~V[k].ok PROVE FALSE
    OBVIOUS
  <2>1. V[S] = V[k]
    BY <1>1, EndStays
  <2> QED
    BY <1>5, <2>1
<1>7. Ahead(s, f, l, n, g, l, m, <<>>, x)
  <2>1. q \o <<>> = q
    BY ConcatIs
  <2> HIDE DEF V, W
  <2>2. W[m] = Longer(V[n], <<>>, x)
    BY <1>2, <1>3, <2>1, AtIs DEF Longer
  <2> QED
    BY <2>2 DEF Ahead, V, W
<1>8. ASSUME NEW y \in Nat, NEW z \in Nat, y >= n, z - m = y - n, y <= S, z <= T
      PROVE  W[z] = Longer(V[y], <<>>, x)
  <2>1. V[y].ok
    BY <1>4, <1>6, <1>8
  <2> HIDE DEF S, T, V, W
  <2>2. Ahead(s, f, l, y, g, l, z, <<>>, x)
    BY <1>1, <1>7, <1>8, <2>1, WalkFurther DEF S, T, V
  <2> QED
    BY <2>2 DEF Ahead, V, W
<1>9. Longer(At(e, <<>>, j), <<>>, x) = At(e, <<>>, j + x)
  <2>1. <<>> \o <<>> = <<>>
    BY <1>1, ConcatIs
  <2> QED
    BY <2>1, AtIs DEF Longer
<1>10. CASE T - m >= S - n
  <2> DEFINE z == m + (S - n)
  <2> HIDE DEF S, T, V, W
  <2>1. z \in Nat /\ z - m = S - n /\ z <= T /\ S >= n /\ S <= S /\ z \in 0 .. T
    BY <1>4, <1>10
  <2> HIDE DEF z
  <2>2. W[z] = At(e, <<>>, j + x)
    BY <1>4, <1>5, <1>8, <1>9, <2>1
  <2>3. W[T] = W[z]
    <3>1. W[z].rest = <<>>
      BY <2>2, AtIs
    <3> QED
      BY <1>1, <2>1, <3>1, EndStays DEF T, W
  <2> QED
    BY <2>2, <2>3 DEF Ends, T, W, g
<1>11. CASE T - m < S - n
  <2> DEFINE y == n + (T - m)
  <2> HIDE DEF S, T, V, W
  <2>1. y \in Nat /\ T - m = y - n /\ y <= S /\ y >= n /\ T <= T /\ y \in 0 .. S
    BY <1>4, <1>11
  <2> HIDE DEF y
  <2>2. W[T] = Longer(V[y], <<>>, x) /\ V[y].ok /\ V[y] \in Walking
    BY <1>1, <1>4, <1>6, <1>8, <2>1, WalkIs DEF S, V
  <2>3. W[T].ok
    BY <2>2, AtIs DEF Longer
  <2>4. Reached(s, g, l).ok
    BY <1>1, <2>3, WalkEnds DEF T, W
  <2>5. W[T].rest = <<>>
    BY <2>3, <2>4, Zenon DEF Reached, End, Fails, T, W
  <2>6. V[y].rest = <<>>
    <3>1. V[y].rest \in Path /\ V[y].rest \o <<>> = V[y].rest
      BY <2>2, AtIs, ConcatIs
    <3> QED
      BY <2>2, <2>5, <3>1, AtIs DEF Longer
  <2>7. V[S] = V[y]
    BY <1>1, <2>1, <2>6, EndStays DEF S, V
  <2>8. W[T] = At(e, <<>>, j + x)
    BY <1>5, <1>9, <2>2, <2>7
  <2> QED
    BY <2>8 DEF Ends, T, W, g
<1> QED
  <2> HIDE DEF S, T
  <2> QED
    BY <1>4, <1>10, <1>11

\* A walk is never given back a link.
LEMMA LinksFall ==
    ASSUME NEW s \in Files, NEW b \in Path, NEW l \in Nat, NEW d \in Path, NEW i \in Nat, Ends(s, b, l, d, i)
    PROVE  i <= l
<1> DEFINE m == Steps(b, l)
           W == Walk(s, b, l)
           S == {n \in 0 .. m : W[n].ok => W[n].links <= l}
<1>1. /\ m \in Nat /\ (\A n \in 0 .. m : W[n] \in Walking)
      /\ W[0] = At(<<>>, b, l) /\ \A n \in 1 .. m : W[n] = Look(s, W[n - 1])
  BY WalkIs
<1>2. W[m] = At(d, <<>>, i)
  BY DEF Ends
<1> HIDE DEF m, W
<1>3. 0 \in S
  BY <1>1, AtIs
<1>4. ASSUME NEW w \in Walking, w.ok => w.links <= l, Look(s, w).ok
      PROVE  Look(s, w).links <= l
  <2>1. w.ok
    BY <1>4, AtIs, LookEnds
  <2> DEFINE p == w.at
             r == w.rest
             k == w.links
             new == Look(s, At(p, r, k))
  <2>2. p \in Path /\ r \in Path /\ k \in Nat /\ w = At(p, r, k) /\ new.ok /\ k <= l
    BY <1>4, <2>1, AtIs
  <2> HIDE DEF p, r, k
  <2>3. CASE r = <<>>
    BY <1>4, <2>1, <2>2, <2>3, AtIs, LookEnds
  <2>4. CASE r # <<>>
    <3>1. new # Lost
      BY <2>2, AtIs
    <3>2. \E q, t, j : new = At(q, t, j) /\ j \in {k, k - 1}
      <4> DEFINE name == Head(r)
               entry == EntryIn(s, Append(p, name))
               dir == EntryIn(s, p).kind = "dir"
    <4>1. /\ ~dir => new = Lost
          /\ dir /\ name = "." => new = At(p, Tail(r), k)
          /\ dir /\ name = ".." => new = At(Up(p), Tail(r), k)
          /\ dir /\ name \notin Dots /\ entry.kind \in {"dir", "file"} => new = At(Append(p, name), Tail(r), k)
          /\ dir /\ name \notin Dots /\ entry.kind = "link" /\ k > 0 =>
                 new = At(IF entry.abs THEN <<>> ELSE p, entry.target \o Tail(r), k - 1)
          /\ dir /\ name \notin Dots /\ entry.kind \notin {"dir", "file"}
                 /\ ~(entry.kind = "link" /\ k > 0) => new = Lost
      BY <2>2, <2>4, LookIs
    <4>2. name \in Dots => name = "." \/ name = ".."
      BY DEF Dots
    <4> HIDE DEF name, entry, dir, new
    <4> QED
      BY <3>1, <4>1, <4>2
    <3> HIDE DEF new
    <3>3. new.links \in {k, k - 1}
      BY <3>2, AtIs
    <3> QED
      BY <2>2, <3>3 DEF new
  <2> QED
    BY <2>3, <2>4
<1>5. ASSUME NEW n \in 1 .. m, n - 1 \in S
      PROVE  n \in S
  <2>1. W[n - 1] \in Walking /\ W[n] = Look(s, W[n - 1])
    BY <1>1
  <2> QED
    BY <1>4, <1>5, <2>1
<1> HIDE DEF S
<1>6. m \in S
  <2>1. m \in Nat /\ m \in 0 .. m
    BY <1>1
  <2>2. 0 .. m \subseteq S
    BY <1>3, <1>5, <2>1, InductionUpTo
  <2> QED
    BY <2>1, <2>2
<1> QED
  BY <1>2, <1>6, AtIs DEF S

\* A real place ends its own walk, with all links left.
LEMMA EndsReal ==
    ASSUME NEW s \in Files, NEW d \in Path, NEW l \in Nat, Real(s, d)
    PROVE  Ends(s, d, l, d, l)
<1>1. <<>> \in Path /\ d \o <<>> = d
  <2>1. <<>> \in Path
    BY DEF Path
  <2> QED
    BY <2>1, ConcatIs
<1>2. Len(d) \in Nat /\ Walk(s, d, l)[Len(d)] = At(d, <<>>, l)
  <2>1. \A q \in Path : Len(d) \in Nat /\ Walk(s, d \o q, l)[Len(d)] = At(d, q, l)
    BY RealThen
  <2>2. Len(d) \in Nat /\ Walk(s, d \o <<>>, l)[Len(d)] = At(d, <<>>, l)
    BY <1>1, <2>1
  <2> QED
    BY <1>1, <2>2
<1>3. Len(d) \in 0 .. Steps(d, l)
  BY <1>2, WalkIs
<1>4. Walk(s, d, l)[Len(d)].rest = <<>>
  BY <1>2, AtIs
<1> QED
  BY <1>2, <1>3, <1>4, EndStays DEF Ends

\* What a path after PWD leads to is what it leads to after the place PWD leads to.
LEMMA FromPlace ==
    ASSUME slots \in Files, NEW n \in Path, NEW d \in Path, Kernel(n) = Place(d), Real(slots, d),
           NEW q \in Path, NEW e \in Path, Kernel(n \o q) = Place(e)
    PROVE  Kernel(d \o q) = Place(e)
<1> DEFINE l == KernelLinks
<1>1. l \in Nat /\ n \o q \in Path /\ d \o q \in Path
  BY LinksAllowed, ConcatIs
<1>2. \A b \in Path, f \in Path : Kernel(b) = Place(f) <=> \E i \in Nat : Ends(slots, b, l, f, i)
  BY <1>1, EndsIs DEF Kernel
<1> HIDE DEF l
<1>3. PICK i \in Nat : Ends(slots, n, l, d, i)
  BY <1>2
<1>4. PICK j \in Nat : Ends(slots, n \o q, l, e, j)
  BY <1>1, <1>2
<1>5. l - i \in Nat /\ i + (l - i) = l /\ j + (l - i) \in Nat
  <2>1. i <= l
    BY <1>1, <1>3, LinksFall
  <2> QED
    BY <1>1, <2>1
<1>6. Ends(slots, d, l, d, l)
  BY <1>1, EndsReal
<1> DEFINE x == l - i
<1>7. x \in Nat /\ Ends(slots, d, l, d, i + x) /\ j + x \in Nat
  BY <1>5, <1>6
<1> HIDE DEF x
<1>8. Ends(slots, d \o q, l, e, j + x)
  BY <1>1, <1>3, <1>4, <1>7, Parallel
<1> QED
  BY <1>1, <1>2, <1>7, <1>8

\* A name more.
LEMMA NextLook ==
    ASSUME NEW s \in Files, NEW b \in Path, NEW l \in Nat, NEW d \in Path, NEW i \in Nat, Ends(s, b, l, d, i),
           NEW x \in Component
    PROVE  LET new == Look(s, At(d, <<x>>, i))
               a == Append(b, x)
           IN  /\ a \in Path
               /\ new.rest = <<>> \/ ~new.ok => Walk(s, a, l)[Steps(a, l)] = new
<1> DEFINE q == <<x>>
           a == b \o q
           W == Walk(s, a, l)
           m == Steps(a, l)
           new == Look(s, At(d, q, i))
<1>1. q \in Path /\ Len(q) = 1 /\ a = Append(b, x)
  BY DEF Path
<1>2. a \in Path
  BY <1>1, ConcatIs
<1>3. PICK n \in Nat : W[n] = At(d, q, i) /\ n + 1 <= m
  <2>1. PICK n \in Nat : \A r \in Path : Walk(s, b \o r, l)[n] = At(d, r, i) /\ n + Len(r) <= Steps(b \o r, l)
    BY EndsBy
  <2> HIDE DEF q
  <2> QED
    BY <1>1, <2>1
<1>4. m \in Nat
  BY <1>2, WalkIs
<1> HIDE DEF m, q, new
<1>5. n + 1 \in 1 .. m /\ n + 1 \in 0 .. m
  BY <1>3, <1>4
<1> HIDE DEF a
<1>6. W[n + 1] = new
  <2> DEFINE k == n + 1
  <2>1. k \in 1 .. Steps(a, l) /\ k - 1 = n
    BY <1>5 DEF m
  <2> HIDE DEF k
  <2>2. W[k] = Look(s, W[k - 1])
    BY <1>2, <2>1, WalkIs
  <2> QED
    BY <1>3, <2>1, <2>2 DEF k, new
<1>7. new.rest = <<>> \/ ~new.ok => W[m] = new
  BY <1>2, <1>5, <1>6, EndStays DEF m
<1> QED
  BY <1>1, <1>2, <1>7 DEF a, m, q, new

LEMMA Onto ==
    ASSUME NEW s \in Files, NEW b \in Path, NEW l \in Nat, NEW d \in Path, NEW i \in Nat, Ends(s, b, l, d, i),
           EntryIn(s, d).kind = "dir", NEW x \in Component
    PROVE  LET kind == EntryIn(s, Append(d, x)).kind
               Goes(e) == Ends(s, Append(b, x), l, e, i)
           IN  /\ x = "." => Goes(d)
               /\ x = ".." => Goes(Up(d))
               /\ x \notin Dots /\ kind \in {"dir", "file"} => Goes(Append(d, x))
               /\ x \notin Dots /\ kind \notin {"dir", "file", "link"} => ~Reached(s, Append(b, x), l).ok
<1> DEFINE a == Append(b, x)
           q == <<x>>
           new == Look(s, At(d, q, i))
<1>1. q \in Path /\ q # <<>> /\ Head(q) = x /\ Tail(q) = <<>>
  BY DEF Path
<1>2. a \in Path /\ (new.rest = <<>> \/ ~new.ok => Walk(s, a, l)[Steps(a, l)] = new)
  BY NextLook
<1> HIDE DEF a, q
<1>3. /\ x = "." => new = At(d, <<>>, i)
      /\ x = ".." => new = At(Up(d), <<>>, i)
      /\ x \notin Dots /\ EntryIn(s, Append(d, x)).kind \in {"dir", "file"} => new = At(Append(d, x), <<>>, i)
      /\ x \notin Dots /\ EntryIn(s, Append(d, x)).kind \notin {"dir", "file", "link"} => new = Lost
  <2> DEFINE dir == EntryIn(s, d).kind = "dir"
             entry == EntryIn(s, Append(d, x))
  <2>1. /\ dir /\ x = "." => new = At(d, Tail(q), i)
        /\ dir /\ x = ".." => new = At(Up(d), Tail(q), i)
        /\ dir /\ x \notin Dots /\ entry.kind \in {"dir", "file"} => new = At(Append(d, x), Tail(q), i)
        /\ dir /\ x \notin Dots /\ entry.kind \notin {"dir", "file"} /\ ~(entry.kind = "link" /\ i > 0) => new = Lost
    BY <1>1, LookIs
  <2> HIDE DEF new, entry
  <2> QED
    BY <1>1, <2>1 DEF entry
<1> HIDE DEF new
<1>4. \A e : new = At(e, <<>>, i) => Ends(s, a, l, e, i)
  BY <1>2, AtIs DEF Ends
<1>5. new = Lost => ~Reached(s, a, l).ok
  <2> HAVE new = Lost
  <2>1. Walk(s, a, l)[Steps(a, l)] = Lost /\ ~Lost.ok
    BY <1>2, AtIs
  <2> QED
    BY <2>1, Zenon DEF Reached, End, Fails
<1> QED
  BY <1>3, <1>4, <1>5 DEF a

\* What a path comes by before its last name is a directory.
LEMMA EndsFront ==
    ASSUME NEW s \in Files, NEW b \in Path, NEW x \in Component, NEW l \in Nat, Reached(s, Append(b, x), l).ok
    PROVE  \E d \in Path, i \in Nat : Ends(s, b, l, d, i) /\ EntryIn(s, d).kind = "dir"
<1> DEFINE a == Append(b, x)
           q == <<x>>
<1>1. q \in Path /\ q # <<>> /\ a = b \o q
  BY DEF Path
<1> HIDE DEF a
<1>2. Reached(s, b, l).ok
  <2> HIDE DEF q
  <2>1. Reached(s, b \o q, l).ok
    BY <1>1 DEF a
  <2> QED
    BY <1>1, <2>1, ReachedPrefix
<1>3. PICK d \in Path, i \in Nat : Ends(s, b, l, d, i)
  BY <1>2, ReachedType, EndsIs
<1>4. EntryIn(s, d).kind = "dir"
  <2> SUFFICES ASSUME EntryIn(s, d).kind # "dir" PROVE FALSE
    OBVIOUS
  <2> DEFINE new == Look(s, At(d, q, i))
  <2>1. new.rest = <<>> \/ ~new.ok => Walk(s, a, l)[Steps(a, l)] = new
    BY <1>3, NextLook DEF a
  <2> HIDE DEF q
  <2>2. new = Lost
    BY <1>1, LookIs
  <2> HIDE DEF new
  <2>3. Walk(s, a, l)[Steps(a, l)] = Lost /\ ~Lost.ok
    BY <2>1, <2>2, AtIs
  <2>4. ~Reached(s, a, l).ok
    BY <2>3, Zenon DEF Reached, End, Fails
  <2> QED
    BY <2>4 DEF a
<1> QED
  BY <1>3, <1>4

LEMMA AppendFront ==
    ASSUME NEW p \in Path, NEW x \in Component
    PROVE  /\ Append(p, x) \in Path /\ Append(p, x) # <<>>
           /\ Front(Append(p, x)) = p /\ Last(Append(p, x)) = x /\ Up(Append(p, x)) = p
<1> DEFINE g == Append(p, x)
           n == Len(p)
<1>1. g \in Path /\ Len(g) = n + 1 /\ n \in Nat /\ g # <<>> /\ g[n + 1] = x /\ n \in 0 .. n
      /\ \A j \in 0 .. n : SubSeq(g, 1, j) = SubSeq(p, 1, j)
  <2>1. n \in Nat /\ n \in 0 .. n
    BY DEF Path
  <2> QED
    BY <2>1, AppendIs
<1>2. SubSeq(p, 1, n) = p
  BY <1>1, PrefixIs
<1> HIDE DEF g, n
<1>3. Front(g) = SubSeq(g, 1, Len(g) - 1) /\ Last(g) = g[Len(g)] /\ Up(g) = Front(g)
  BY <1>1, FrontIs, UpType
<1>4. Len(g) - 1 = n
  BY <1>1
<1> QED
  BY <1>1, <1>2, <1>3, <1>4 DEF g

\* One component more, lexically and for the kernel: ".." comes to the same, unless what
\* is before it is a link.
LEMMA NameStep ==
    ASSUME NEW s \in Files, NEW b \in Path, NEW c \in Path, NEW x \in Component, NEW l \in Nat,
           \A n \in 1 .. Len(c) : c[n] \notin Dots,
           \A d \in Path, i \in Nat : Ends(s, c, l, d, i) /\ EntryIn(s, d).kind = "dir" => Ends(s, b, l, d, i),
           x = ".." => \E d \in Path, i \in Nat : Ends(s, c, l, d, i) /\ EntryIn(s, d).kind = "dir",
           x = ".." /\ c # <<>> =>
               \A d \in Path, i \in Nat :
                   Ends(s, Front(c), l, d, i) /\ EntryIn(s, d).kind = "dir" =>
                       EntryIn(s, Append(d, Last(c))).kind # "link",
           NEW d \in Path, NEW i \in Nat, Ends(s, Join(c, x), l, d, i), EntryIn(s, d).kind = "dir"
    PROVE  Ends(s, Append(b, x), l, d, i)
<1>1. /\ x = "." => Join(c, x) = c
      /\ x = ".." => Join(c, x) = Up(c)
      /\ x \notin Dots => Join(c, x) = Append(c, x)
      /\ x \in Dots <=> x = "." \/ x = ".."
  BY JoinIs
<1>2. CASE x = "."
  BY <1>1, <1>2, Onto
<1>3. CASE x \notin Dots
  <2>1. Ends(s, Append(c, x), l, d, i) /\ Append(c, x) \in Path
    BY <1>1, <1>3, AppendIs
  <2>2. Reached(s, Append(c, x), l).ok
    BY <2>1, EndsIs DEF Place
  <2>3. PICK f \in Path, j \in Nat : Ends(s, c, l, f, j) /\ EntryIn(s, f).kind = "dir"
    BY <2>2, EndsFront
  <2>4. Ends(s, b, l, f, j)
    BY <2>3
  <2> DEFINE q == <<x>>
  <2>5. q \in Path /\ c \o q = Append(c, x) /\ b \o q = Append(b, x)
    BY DEF Path
  <2> HIDE DEF q
  <2>6. Ends(s, c \o q, l, d, i) /\ 0 \in Nat /\ j + 0 = j /\ i + 0 = i
    BY <2>1, <2>5
  <2>7. Ends(s, b \o q, l, d, i + 0)
    <3>1. Ends(s, b, l, f, j + 0)
      BY <2>4, <2>6
    <3> QED
      BY <2>3, <2>5, <2>6, <3>1, Parallel
  <2> QED
    BY <2>5, <2>6, <2>7
<1>4. CASE x = ".."
  <2>1. PICK f \in Path, j \in Nat : Ends(s, c, l, f, j) /\ EntryIn(s, f).kind = "dir"
    BY <1>4
  <2>2. Ends(s, Append(b, x), l, Up(f), j)
    BY <1>4, <2>1, Onto
  <2>3. ASSUME NEW g, NEW k, Ends(s, c, l, g, k) PROVE g = f /\ k = j
    <3>1. At(g, <<>>, k) = At(f, <<>>, j)
      BY <2>1, <2>3 DEF Ends
    <3>2. At(g, <<>>, k).at = g /\ At(f, <<>>, j).at = f /\ At(g, <<>>, k).links = k /\ At(f, <<>>, j).links = j
      BY AtIs
    <3> QED
      BY <3>1, <3>2
  <2>4. Ends(s, Up(c), l, d, i)
    BY <1>1, <1>4
  <2>5. CASE c = <<>>
    <3>1. Ends(s, c, l, <<>>, l)
      BY <2>5, RealTop, EndsReal
    <3>2. Up(<<>>) = <<>>
      BY DEF Up
    <3> QED
      BY <2>2, <2>3, <2>4, <2>5, <3>1, <3>2
  <2>6. CASE c # <<>>
    <3> DEFINE t == Front(c)
               y == Last(c)
               g == Append(d, y)
    <3>1. t \in Path /\ y \in Component /\ c = Append(t, y) /\ Up(c) = t /\ y \notin Dots
      <4>1. t \in Path /\ y \in Component /\ c = Append(t, y) /\ Len(c) \in Nat \ {0} /\ y = c[Len(c)]
        BY <2>6, FrontIs
      <4>2. Len(c) \in 1 .. Len(c) /\ Up(c) = t
        BY <2>6, <4>1, UpType
      <4> HIDE DEF t, y
      <4> QED
        BY <4>1, <4>2
    <3>2. Ends(s, t, l, d, i) /\ EntryIn(s, g).kind # "link"
      BY <1>4, <2>4, <2>6, <3>1
    <3>3. g \in Path /\ Up(g) = d
      BY <3>1, AppendFront
    <3> HIDE DEF t, y, g
    <3>4. Reached(s, Append(t, y), l).ok
      BY <2>1, <3>1, EndsIs DEF Place
    <3>5. Ends(s, c, l, g, i)
      BY <3>1, <3>2, <3>4, Onto DEF g
    <3> QED
      BY <2>2, <2>3, <3>3, <3>5
  <2> QED
    BY <2>5, <2>6
<1> QED
  BY <1>1, <1>2, <1>3, <1>4

\* A path whose ".." are not after links leads where it does when it is taken lexically.
LEMMA NamesLead ==
    ASSUME slots \in Files, NEW p \in Path, NamesDirs(p), ~UpFromLink(p), IsDir(Clean(p))
    PROVE  Kernel(p) = Kernel(Clean(p))
<1> DEFINE l == KernelLinks
           U(n) == SubSeq(p, 1, n)
           Same(n) == \A d \in Path, i \in Nat :
                          Ends(slots, Clean(U(n)), l, d, i) /\ EntryIn(slots, d).kind = "dir" => Ends(slots, U(n), l, d, i)
           S == {n \in 0 .. Len(p) : Same(n)}
<1>1. l \in Nat /\ Len(p) \in Nat /\ Len(p) \in 0 .. Len(p) /\ U(Len(p)) = p /\ U(0) = <<>>
      /\ \A n \in 0 .. Len(p) : U(n) \in Path
  <2>1. Len(p) \in Nat
    BY DEF Path
  <2> QED
    BY <2>1, LinksAllowed, PrefixIs
<1>2. \A b \in Path : IsDir(b) =>
          \E d \in Path, i \in Nat : Ends(slots, b, l, d, i) /\ EntryIn(slots, d).kind = "dir" /\ Kernel(b) = Place(d)
  <2> SUFFICES ASSUME NEW b \in Path, IsDir(b)
               PROVE  \E d \in Path, i \in Nat : Ends(slots, b, l, d, i) /\ EntryIn(slots, d).kind = "dir" /\ Kernel(b) = Place(d)
    OBVIOUS
  <2>1. Kernel(b) = Place(Kernel(b).place) /\ Kernel(b).place \in Path /\ EntryIn(slots, Kernel(b).place).kind = "dir"
    BY <1>1, ReachedType DEF IsDir, Kernel, EntryAt
  <2> QED
    BY <1>1, <2>1, EndsIs DEF Kernel
<1>3. \A b \in Path, d \in Path, i \in Nat : Ends(slots, b, l, d, i) => Kernel(b) = Place(d)
  BY <1>1, EndsIs DEF Kernel
<1> HIDE DEF l
<1>4. 0 \in S
  <2>1. Clean(<<>>) = <<>>
    <3>1. <<>> \in Path
      BY DEF Path
    <3> QED
      BY <3>1, JoinNothing DEF Clean
  <2>2. Same(0)
    BY <1>1, <2>1
  <2>3. 0 \in 0 .. Len(p)
    BY <1>1
  <2> QED
    BY <2>2, <2>3
<1>5. ASSUME NEW n \in 1 .. Len(p), n - 1 \in S
      PROVE  n \in S
  <2> DEFINE b == U(n - 1)
             c == Clean(b)
             x == p[n]
  <2>1. n \in 0 .. Len(p) /\ n - 1 \in 0 .. Len(p) /\ n > 0 /\ n \in DOMAIN p
    BY <1>1 DEF Path
  <2>2. b \in Path /\ U(n) \in Path /\ U(n) = Append(b, x) /\ x \in Component /\ c \in Path
    <3>1. x \in Component
      BY <2>1 DEF Path
    <3> QED
      BY <1>1, <2>1, <3>1, PrefixIs, CleanType
  <2>3. Clean(U(n)) = Join(c, x)
    <3> HIDE DEF x
    <3>1. U(n) # <<>> /\ Front(U(n)) = b /\ Last(U(n)) = x
      <4> HIDE DEF b, U
      <4>1. Append(b, x) # <<>> /\ Front(Append(b, x)) = b /\ Last(Append(b, x)) = x
        BY <2>2, AppendFront
      <4> QED
        BY <2>2, <4>1
    <3> QED
      BY <2>2, <3>1, CleanStep
  <2>4. \A k \in 1 .. Len(c) : c[k] \notin Dots
    BY <2>2, CleanIsClean
  <2>5. Same(n - 1)
    BY <1>5
  <2>6. x = ".." => IsDir(c)
    BY <2>1 DEF NamesDirs
  <2>7. x = ".." /\ c # <<>> => Lstat(c).kind # "link"
    BY <2>1 DEF UpFromLink
  <2>8. x = ".." => \E d \in Path, i \in Nat : Ends(slots, c, l, d, i) /\ EntryIn(slots, d).kind = "dir"
    BY <1>2, <2>2, <2>6
  <2>9. ASSUME x = "..", c # <<>>, NEW d \in Path, NEW i \in Nat, Ends(slots, Front(c), l, d, i), EntryIn(slots, d).kind = "dir"
        PROVE  EntryIn(slots, Append(d, Last(c))).kind # "link"
    <3> HIDE DEF b, c, x
    <3>1. Kernel(Front(c)) = Place(d)
      BY <1>3, <2>2, <2>9, FrontIs
    <3>2. Place(d).ok /\ Place(d).place = d
      BY DEF Place
    <3>3. Lstat(c) = EntryIn(slots, Append(d, Last(c)))
      BY <2>9, <3>1, <3>2 DEF Lstat, EntryUnder, EntryAt
    <3> QED
      BY <2>7, <2>9, <3>3
  <2> HIDE DEF b, x
  <2>10. ASSUME NEW d \in Path, NEW i \in Nat, Ends(slots, Join(c, x), l, d, i), EntryIn(slots, d).kind = "dir"
         PROVE  Ends(slots, Append(b, x), l, d, i)
    <3>1. \A e \in Path, j \in Nat : Ends(slots, c, l, e, j) /\ EntryIn(slots, e).kind = "dir" => Ends(slots, b, l, e, j)
      BY <2>5 DEF b
    <3> HIDE DEF c, U
    <3> QED
      BY <1>1, <2>2, <2>4, <2>8, <2>9, <2>10, <3>1, NameStep
  <2> QED
    BY <2>1, <2>2, <2>3, <2>10
<1> HIDE DEF S
<1>6. Len(p) \in S
  <2>1. 0 .. Len(p) \subseteq S
    BY <1>1, <1>4, <1>5, InductionUpTo
  <2> QED
    BY <1>1, <2>1
<1>7. Same(Len(p))
  BY <1>6 DEF S
<1>8. Clean(p) \in Path
  BY CleanType
<1>9. PICK d \in Path, i \in Nat : Ends(slots, Clean(p), l, d, i) /\ EntryIn(slots, d).kind = "dir" /\ Kernel(Clean(p)) = Place(d)
  BY <1>2, <1>8
<1>10. Ends(slots, p, l, d, i)
  BY <1>1, <1>7, <1>9
<1> QED
  BY <1>3, <1>9, <1>10

----------------------------------------------------------------------------
(* What bash has left to do, next to what the walker believed.  Before     *)
(* every item there is a belief that holds of the directory bash will be   *)
(* in; nothing is believed where bash leaves a subshell.                   *)

Believes(b, d) == b.ok => Kernel(b.parts) = Place(d) /\ (b = cwdOf \/ b.parts = d)

\* A belief that holds after s is what the walker believed then.
Safe(s) == ~Leaks(s) \/ ~Moves(s)

\* The command s leads from belief b to belief c.
Leads(s, b, c) ==
    \/ \E a \in Belief : /\ <<s, b, a>> \in walker.checked /\ Followed(s)
                         /\ c.ok => Safe(s) /\ c = a
    \/ s.op = "run" /\ (c.ok => c = b)

Option(p, b, c) ==
    \/ p = <<>> /\ (c.ok => c = b)
    \/ \E s : p = <<s>> /\ Leads(s, b, c)
    \/ \E s, t : p = <<s, t>> /\ \E a \in Belief : Leads(s, b, a) /\ Leads(t, a, c)

Fit(x, b, c) ==
    /\ x.op \in Simple \cup Compound => Leads(x, b, c)
    /\ x.op = "choose" => Option(x.then, b, c) /\ Option(x.else, b, c)
    /\ x.op = "leave" => Believes(c, x.to)
    /\ x.op = "chdir" => (c.ok => c = Target(x, b))

Good(q, b) ==
    \E bs \in Seq(Belief) :
        /\ Len(bs) = Len(q) + 1 /\ bs[1] = b
        /\ \A i \in 1 .. Len(q) : Fit(q[i], bs[i], bs[i + 1])

Following ==
    Trusted => \E b \in Belief : Believes(b, wd) /\ Good(todo, b)

\* Nothing left to do is good from any belief;
LEMMA GoodNothing == ASSUME NEW b \in Belief PROVE Good(<<>>, b)
<1> DEFINE bs == <<b>>
<1>1. bs \in Seq(Belief) /\ Len(bs) = 1 /\ bs[1] = b
  OBVIOUS
<1>2. Len(<<>>) = 0
  OBVIOUS
<1>3. \A i \in 1 .. Len(<<>>) : Fit(<<>>[i], bs[i], bs[i + 1])
  BY <1>2
<1> HIDE DEF bs
<1> QED
  BY <1>1, <1>2, <1>3 DEF Good

\* so is an item in front of what is good from the belief it leads to,
LEMMA GoodFirst ==
    ASSUME NEW T, NEW x \in T, NEW q \in Seq(T), NEW b \in Belief, NEW c \in Belief,
           Fit(x, b, c), Good(q, c)
    PROVE  Good(<<x>> \o q, b)
<1> DEFINE p == <<x>> \o q
<1>1. /\ p \in Seq(T) /\ Len(p) = Len(q) + 1 /\ Len(q) \in Nat
      /\ p[1] = x /\ \A i \in 1 .. Len(q) : p[i + 1] = q[i]
  BY PushIs
<1>2. PICK bs \in Seq(Belief) :
          /\ Len(bs) = Len(q) + 1 /\ bs[1] = c
          /\ \A i \in 1 .. Len(q) : Fit(q[i], bs[i], bs[i + 1])
  BY DEF Good
<1> DEFINE cs == <<b>> \o bs
<1>3. /\ cs \in Seq(Belief) /\ Len(cs) = Len(bs) + 1 /\ Len(bs) \in Nat
      /\ cs[1] = b /\ \A i \in 1 .. Len(bs) : cs[i + 1] = bs[i]
  BY PushIs
<1> HIDE DEF p, cs
<1>4. ASSUME NEW i \in 1 .. Len(p)
      PROVE  Fit(p[i], cs[i], cs[i + 1])
  <2>1. CASE i = 1
    <3>1. cs[1 + 1] = bs[1]
      BY <1>1, <1>2, <1>3
    <3> QED
      BY <1>1, <1>2, <1>3, <2>1, <3>1
  <2>2. CASE i # 1
    <3> DEFINE j == i - 1
    <3>1. j \in 1 .. Len(q) /\ j \in 1 .. Len(bs) /\ j + 1 \in 1 .. Len(bs) /\ i = j + 1
      BY <1>1, <1>2, <2>2
    <3> HIDE DEF j
    <3>2. p[j + 1] = q[j] /\ cs[j + 1] = bs[j] /\ cs[(j + 1) + 1] = bs[j + 1]
      BY <1>1, <1>3, <3>1
    <3>3. Fit(q[j], bs[j], bs[j + 1])
      BY <1>2, <3>1
    <3> QED
      BY <3>1, <3>2, <3>3
  <2> QED
    BY <2>1, <2>2
<1>5. Good(p, b)
  <2>1. Len(cs) = Len(p) + 1
    BY <1>1, <1>2, <1>3
  <2> QED
    BY <1>3, <1>4, <2>1, Zenon DEF Good
<1> QED
  BY <1>5 DEF p

\* and what is left without its first item.
LEMMA GoodRest ==
    ASSUME NEW T, NEW q \in Seq(T), q # <<>>, NEW b \in Belief, Good(q, b)
    PROVE  \E c \in Belief : Fit(Head(q), b, c) /\ Good(Tail(q), c)
<1>1. /\ Len(q) \in Nat /\ Len(q) > 0 /\ Head(q) = q[1] /\ Tail(q) \in Seq(T)
      /\ Len(Tail(q)) = Len(q) - 1 /\ \A i \in 1 .. Len(q) - 1 : Tail(q)[i] = q[i + 1]
  BY PopIs
<1>2. PICK bs \in Seq(Belief) :
          /\ Len(bs) = Len(q) + 1 /\ bs[1] = b
          /\ \A i \in 1 .. Len(q) : Fit(q[i], bs[i], bs[i + 1])
  BY DEF Good
<1> DEFINE r == Tail(q)
           cs == Tail(bs)
<1>3. /\ cs \in Seq(Belief) /\ Len(cs) = Len(bs) - 1 /\ \A i \in 1 .. Len(bs) - 1 : cs[i] = bs[i + 1]
  <2>1. bs # <<>>
    BY <1>1, <1>2
  <2> QED
    BY <2>1, PopIs
<1>4. bs[1 + 1] \in Belief /\ cs[1] = bs[1 + 1]
  BY <1>1, <1>2, <1>3
<1>5. Fit(Head(q), b, bs[1 + 1])
  <2>1. 1 \in 1 .. Len(q)
    BY <1>1
  <2> QED
    BY <1>1, <1>2, <2>1
<1> HIDE DEF r, cs
<1>6. ASSUME NEW i \in 1 .. Len(r)
      PROVE  Fit(r[i], cs[i], cs[i + 1])
  <2>1. i \in 1 .. Len(q) - 1 /\ i + 1 \in 1 .. Len(q) /\ i \in 1 .. Len(bs) - 1 /\ i + 1 \in 1 .. Len(bs) - 1
    BY <1>1, <1>2 DEF r
  <2>2. r[i] = q[i + 1] /\ cs[i] = bs[i + 1] /\ cs[i + 1] = bs[(i + 1) + 1]
    BY <1>1, <1>3, <2>1 DEF r
  <2>3. Fit(q[i + 1], bs[i + 1], bs[(i + 1) + 1])
    BY <1>2, <2>1
  <2> QED
    BY <2>2, <2>3
<1>7. Good(r, bs[1 + 1])
  <2>1. Len(cs) = Len(r) + 1
    BY <1>1, <1>2, <1>3 DEF r
  <2> QED
    BY <1>3, <1>4, <1>6, <2>1 DEF Good
<1> QED
  BY <1>4, <1>5, <1>7 DEF r

\* Three parts, and the beliefs between them.
Through(s, b, a) ==
    \E x, y, z \in Belief :
        /\ <<Parts(s)[1], Begins(s, b), x>> \in walker.checked
        /\ <<Parts(s)[2], x, y>> \in walker.checked
        /\ <<Parts(s)[3], y, z>> \in walker.checked /\ a = After(s, b, z)

\* The parts of a command that was judged, with the beliefs between them.
LEMMA JudgedParts ==
    ASSUME Walked, ~walker.deny, NEW s, NEW b \in Belief, NEW a \in Belief, <<s, b, a>> \in walker.checked
    PROVE  LET p == Parts(s)
           IN  /\ s \in Command
               /\ p = <<>> => a = After(s, b, Begins(s, b))
               /\ Len(p) = 1 => \E x \in Belief : <<p[1], Begins(s, b), x>> \in walker.checked /\ a = After(s, b, x)
               /\ Len(p) = 2 => \E x, y \in Belief : /\ <<p[1], Begins(s, b), x>> \in walker.checked
                                                     /\ <<p[2], x, y>> \in walker.checked /\ a = After(s, b, y)
               /\ Len(p) = 3 => Through(s, b, a)
<1> DEFINE e == <<s, b, a>>
           p == Parts(s)
<1>1. e \in walker.checked /\ e[1] = s /\ e[2] = b /\ e[3] = a
  OBVIOUS
<1>2. s \in Command
  <2>1. walker.checked \in SUBSET Record
    BY WalkerIs DEF Walked, WalkTypes
  <2> QED
    BY <1>1, <2>1 DEF Record
<1>3. Chain(s, b, a, walker.checked)
  <2> HIDE DEF e
  <2> QED
    BY <1>1 DEF Walked, Closed
<1>4. PICK at \in Seq(Belief) :
          /\ Len(at) = Len(p) + 1 /\ at[1] = Begins(s, b)
          /\ \A j \in 1 .. Len(p) : <<p[j], at[j], at[j + 1]>> \in walker.checked
          /\ a = After(s, b, at[Len(at)])
  BY <1>3, Zenon DEF Chain
<1>5. \A j \in 1 .. Len(at) : at[j] \in Belief
  BY EntryOf
<1>6. 1 + 1 = 2 /\ 2 + 1 = 3 /\ 3 + 1 = 4 /\ Len(<<>>) = 0
  OBVIOUS
<1> HIDE DEF p
<1>7. ASSUME Len(p) = 0
      PROVE  a = After(s, b, Begins(s, b))
  BY <1>4, <1>7
<1>8. ASSUME Len(p) = 1
      PROVE  \E x \in Belief : <<p[1], Begins(s, b), x>> \in walker.checked /\ a = After(s, b, x)
  <2>1. Len(at) = 2 /\ 1 \in 1 .. Len(p) /\ 2 \in 1 .. Len(at)
    BY <1>4, <1>8
  <2> QED
    BY <1>4, <1>5, <1>6, <2>1
<1>9. ASSUME Len(p) = 2
      PROVE  \E x, y \in Belief : /\ <<p[1], Begins(s, b), x>> \in walker.checked
                                  /\ <<p[2], x, y>> \in walker.checked /\ a = After(s, b, y)
  <2>1. Len(at) = 3 /\ 1 \in 1 .. Len(p) /\ 2 \in 1 .. Len(p) /\ 2 \in 1 .. Len(at) /\ 3 \in 1 .. Len(at)
    BY <1>4, <1>9
  <2>2. <<p[1], at[1], at[1 + 1]>> \in walker.checked /\ <<p[2], at[2], at[2 + 1]>> \in walker.checked
    BY <1>4, <2>1, Zenon
  <2> QED
    BY <1>4, <1>5, <1>6, <2>1, <2>2
<1>10. ASSUME Len(p) = 3
       PROVE  Through(s, b, a)
  <2>1. /\ Len(at) = 4 /\ 1 \in 1 .. Len(p) /\ 2 \in 1 .. Len(p) /\ 3 \in 1 .. Len(p)
        /\ 2 \in 1 .. Len(at) /\ 3 \in 1 .. Len(at) /\ 4 \in 1 .. Len(at)
    BY <1>4, <1>10
  <2>2. /\ <<p[1], at[1], at[1 + 1]>> \in walker.checked /\ <<p[2], at[2], at[2 + 1]>> \in walker.checked
        /\ <<p[3], at[3], at[3 + 1]>> \in walker.checked
    BY <1>4, <2>1, Zenon
  <2> QED
    BY <1>4, <1>5, <1>6, <2>1, <2>2 DEF Through, p
<1>11. p = <<>> => Len(p) = 0
  BY <1>6
<1> QED
  BY <1>2, <1>7, <1>8, <1>9, <1>10, <1>11 DEF p

\* What cannot move has not.
LEMMA StayedIs ==
    ASSUME Walked, ~walker.deny, NEW s, NEW b, NEW a, <<s, b, a>> \in walker.checked, ~Moves(s)
    PROVE  a = b
<1> DEFINE e == <<s, b, a>>
<1>1. e \in walker.checked /\ e[1] = s /\ e[2] = b /\ e[3] = a
  OBVIOUS
<1> HIDE DEF e
<1> QED
  BY <1>1 DEF Walked, Stays

\* Of the parts of a command that is followed.
LEMMA FollowedIs ==
    ASSUME NEW s \in Command
    PROVE  /\ Followed(s) => \A p \in Range(Parts(s)) : Followed(p)
           /\ Followed(s) /\ s.op \in {"seq", "and", "or"} => ~Leaks(s.left)
           /\ Followed(s) /\ s.op \in {"and", "or"} => ~Moves(s.right)
           /\ Followed(s) /\ s.op \in {"background", "nohup"} => ~Moves(s.body)
           /\ Followed(s) /\ s.op = "elif" => ~Moves(s.cond) /\ ~Moves(s.then) /\ ~Moves(s.else)
           /\ Followed(s) /\ s.op = "if" =>
                 /\ ~Moves(s.cond) /\ ~Leaks(s.then) /\ ~Leaks(s.else)
                 /\ Moves(s.then) => ~Moves(s.else) /\ s.else.op = "run"
           /\ Followed(s) /\ s.op = "while" => ~Moves(s.cond) /\ ~Moves(s.body)
           /\ Safe(s) /\ s.op \notin {"sub", "shell"} => \A p \in Range(Parts(s)) : Safe(p)
           /\ Safe(s) => s.op \notin {"env", "chdirgit"}
           /\ s.op \in {"sub", "shell"} => Safe(s)
<1>1. /\ Moves(s) <=> MayMove(s, Moves)
      /\ Leaks(s) <=> MayLeak(s, Leaks)
      /\ Followed(s) <=> IsFollowed(s, Followed, Moves, Leaks)
  BY FollowedAssumption
<1>2. Safe(s) /\ s.op \notin {"sub", "shell"} => \A p \in Range(Parts(s)) : Safe(p)
  BY <1>1 DEF Safe, MayMove, MayLeak
<1>3. Safe(s) => s.op \notin {"env", "chdirgit"}
  BY <1>1 DEF Safe, MayMove, MayLeak
<1>4. s.op \in {"sub", "shell"} => Safe(s)
  BY <1>1 DEF Safe, MayLeak
<1>5. ASSUME Followed(s), s.op = "elif"
      PROVE  ~Moves(s.cond) /\ ~Moves(s.then) /\ ~Moves(s.else)
  <2>1. ~Moves(s)
    BY <1>1, <1>5 DEF IsFollowed
  <2>2. \A p \in Range(Parts(s)) : ~Moves(p)
    BY <1>1, <1>5, <2>1 DEF MayMove
  <2>3. s.cond \in Range(Parts(s)) /\ s.then \in Range(Parts(s)) /\ s.else \in Range(Parts(s))
    BY <1>5, PartsAre DEF Range
  <2> QED
    BY <2>2, <2>3
<1> QED
  BY <1>1, <1>2, <1>3, <1>4, <1>5 DEF IsFollowed

\* When an item leads from one belief to another.
LEMMA FitIs ==
    /\ \A x \in Command : \A b, c : Leads(x, b, c) => Fit(x, b, c)
    /\ \A p, q, b, c : Option(p, b, c) /\ Option(q, b, c) => Fit(Choose(p, q), b, c)
    /\ \A d, n, b, c : Believes(c, d) => Fit(Leave(d, n), b, c)
<1>1. {"choose", "leave", "chdir"} \cap (Simple \cup Compound) = {}
  BY OpsAre
<1>2. ASSUME NEW x \in Command, NEW b, NEW c, Leads(x, b, c)
      PROVE  Fit(x, b, c)
  <2>1. x.op \notin {"choose", "leave", "chdir"}
    BY <1>1, CommandIs
  <2> QED
    BY <1>2, <2>1 DEF Fit
<1>3. ASSUME NEW p, NEW q, NEW b, NEW c, Option(p, b, c), Option(q, b, c)
      PROVE  Fit(Choose(p, q), b, c)
  <2> DEFINE x == Choose(p, q)
  <2>1. x.op = "choose" /\ x.then = p /\ x.else = q
    BY DEF Choose
  <2>2. x.op \notin Simple \cup Compound
    BY <1>1, <2>1
  <2> HIDE DEF x
  <2>3. Fit(x, b, c)
    BY <1>3, <2>1, <2>2 DEF Fit
  <2> QED
    BY <2>3 DEF x
<1>4. ASSUME NEW d, NEW n, NEW b, NEW c, Believes(c, d)
      PROVE  Fit(Leave(d, n), b, c)
  <2> DEFINE x == Leave(d, n)
  <2>1. x.op = "leave" /\ x.to = d
    BY DEF Leave
  <2>2. x.op \notin Simple \cup Compound
    BY <1>1, <2>1
  <2> HIDE DEF x
  <2>3. Fit(x, b, c)
    BY <1>4, <2>1, <2>2 DEF Fit
  <2> QED
    BY <2>3 DEF x
<1> QED
  BY <1>2, <1>3, <1>4

\* When the alternatives of a choice do.
LEMMA OptionIs ==
    /\ \A b, c : (c.ok => c = b) => Option(<<>>, b, c)
    /\ \A s, b, c : Leads(s, b, c) => Option(<<s>>, b, c)
    /\ \A s, t, b, c : \A a \in Belief : Leads(s, b, a) /\ Leads(t, a, c) => Option(<<s, t>>, b, c)
<1>1. \A b, c : (c.ok => c = b) => Option(<<>>, b, c)
  BY Zenon DEF Option
<1>2. \A s, b, c : Leads(s, b, c) => Option(<<s>>, b, c)
  BY Zenon DEF Option
<1>3. \A s, t, b, c : \A a \in Belief : Leads(s, b, a) /\ Leads(t, a, c) => Option(<<s, t>>, b, c)
  BY Zenon DEF Option
<1> QED
  BY <1>1, <1>2, <1>3

\* Items put in front, each fit to lead on.
LEMMA GoodOnto ==
    ASSUME NEW T, NEW q \in Seq(T), NEW c \in Belief, Good(q, c)
    PROVE  /\ \A x, b : <<x>> \in Seq(T) /\ b \in Belief /\ Fit(x, b, c) => Good(<<x>> \o q, b)
           /\ \A x, y, b, b1 : <<x, y>> \in Seq(T) /\ b \in Belief /\ b1 \in Belief /\ Fit(x, b, b1) /\ Fit(y, b1, c) =>
                 Good(<<x, y>> \o q, b)
           /\ \A x, y, z, b, b1, b2 :
                 /\ <<x, y, z>> \in Seq(T) /\ b \in Belief /\ b1 \in Belief /\ b2 \in Belief
                 /\ Fit(x, b, b1) /\ Fit(y, b1, b2) /\ Fit(z, b2, c)
                 => Good(<<x, y, z>> \o q, b)
<1>1. ASSUME NEW x, NEW b, <<x>> \in Seq(T), b \in Belief, Fit(x, b, c)
      PROVE  Good(<<x>> \o q, b)
  <2>1. x \in T
    BY <1>1
  <2> QED
    BY <1>1, <2>1, GoodFirst
<1>2. ASSUME NEW x, NEW y, NEW b, NEW b1, <<x, y>> \in Seq(T), b \in Belief, b1 \in Belief,
             Fit(x, b, b1), Fit(y, b1, c)
      PROVE  Good(<<x, y>> \o q, b)
  <2>1. x \in T /\ y \in T
    BY <1>2
  <2> DEFINE r == <<y>> \o q
  <2>2. r \in Seq(T) /\ Good(r, b1)
    BY <1>2, <2>1, PushIs, GoodFirst
  <2>3. <<x, y>> \o q = <<x>> \o r
    <3>1. <<x, y>> = <<x>> \o <<y>>
      <4> DEFINE u == <<x>> \o <<y>>
      <4>1. u \in Seq(T) /\ Len(u) = 2
        BY <2>1
      <4>2. u[1] = x /\ u[2] = y
        BY <2>1
      <4> HIDE DEF u
      <4>3. u = <<x, y>>
        BY <2>1, <4>1, <4>2
      <4> QED
        BY <4>3 DEF u
    <3>2. <<x>> \in Seq(T) /\ <<y>> \in Seq(T)
      BY <2>1
    <3> QED
      BY <3>1, <3>2, ConcatAssociative
  <2> HIDE DEF r
  <2> QED
    BY <1>2, <2>1, <2>2, <2>3, GoodFirst
<1>3. ASSUME NEW x, NEW y, NEW z, NEW b, NEW b1, NEW b2, <<x, y, z>> \in Seq(T),
             b \in Belief, b1 \in Belief, b2 \in Belief, Fit(x, b, b1), Fit(y, b1, b2), Fit(z, b2, c)
      PROVE  Good(<<x, y, z>> \o q, b)
  <2>1. x \in T /\ y \in T /\ z \in T
    BY <1>3
  <2> DEFINE r == <<y, z>> \o q
  <2>2. <<y, z>> \in Seq(T)
    BY <2>1
  <2>3. r \in Seq(T) /\ Good(r, b1)
    BY <1>2, <1>3, <2>2
  <2>4. <<x, y, z>> \o q = <<x>> \o r
    <3>1. <<x, y, z>> = <<x>> \o <<y, z>>
      OBVIOUS
    <3>2. <<x>> \in Seq(T)
      BY <2>1
    <3> QED
      BY <2>2, <3>1, <3>2, ConcatAssociative
  <2> HIDE DEF r
  <2> QED
    BY <1>3, <2>1, <2>3, <2>4, GoodFirst
<1> QED
  BY <1>1, <1>2, <1>3

\* The same of its parts by number.
LEMMA FollowedParts ==
    ASSUME NEW s \in Command, Followed(s)
    PROVE  /\ \A p : Parts(s) = <<p>> =>
                 Followed(p) /\ (Safe(s) /\ s.op \notin {"sub", "shell"} => Safe(p))
           /\ \A p, q : Parts(s) = <<p, q>> =>
                 Followed(p) /\ Followed(q) /\ (Safe(s) /\ s.op \notin {"sub", "shell"} => Safe(q))
           /\ \A p, q, r : Parts(s) = <<p, q, r>> => Followed(p) /\ Followed(q) /\ Followed(r)
<1>1. /\ \A p \in Range(Parts(s)) : Followed(p)
      /\ Safe(s) /\ s.op \notin {"sub", "shell"} => \A p \in Range(Parts(s)) : Safe(p)
  BY FollowedIs
<1>2. ASSUME NEW p, Parts(s) = <<p>> PROVE p \in Range(Parts(s))
  BY <1>2 DEF Range
<1>3. ASSUME NEW p, NEW q, Parts(s) = <<p, q>> PROVE p \in Range(Parts(s)) /\ q \in Range(Parts(s))
  BY <1>3 DEF Range
<1>4. ASSUME NEW p, NEW q, NEW r, Parts(s) = <<p, q, r>>
      PROVE  p \in Range(Parts(s)) /\ q \in Range(Parts(s)) /\ r \in Range(Parts(s))
  BY <1>4 DEF Range
<1> QED
  BY <1>1, <1>2, <1>3, <1>4

\* What was judged leads where the walker went, and nowhere known.
LEMMA LeadsIs ==
    /\ \A p, c : \A x, y \in Belief :
          <<p, x, y>> \in walker.checked /\ Followed(p) /\ (c.ok => Safe(p) /\ c = y) => Leads(p, x, c)
    /\ \A p : \A x, y \in Belief : <<p, x, y>> \in walker.checked /\ Followed(p) => Leads(p, x, Unknown)
    /\ \A p, x, c : p.op \in Compound /\ Leads(p, x, c) =>
          \E y \in Belief : <<p, x, y>> \in walker.checked /\ Followed(p) /\ (c.ok => Safe(p) /\ c = y)
<1>1. \A p, c : \A x, y \in Belief :
          <<p, x, y>> \in walker.checked /\ Followed(p) /\ (c.ok => Safe(p) /\ c = y) => Leads(p, x, c)
  BY Zenon DEF Leads
<1>2. ~Unknown.ok
  BY KnownIs
<1>3. "run" \notin Compound
  BY DEF Compound, Wrapper
<1>4. \A p, x, c : p.op \in Compound /\ Leads(p, x, c) =>
          \E y \in Belief : <<p, x, y>> \in walker.checked /\ Followed(p) /\ (c.ok => Safe(p) /\ c = y)
  BY <1>3, Zenon DEF Leads
<1> QED
  BY <1>1, <1>2, <1>4

\* How many parts there are.
LEMMA PartsCount ==
    ASSUME NEW s
    PROVE  /\ s.op \in {"seq", "and", "or"} => Len(Parts(s)) = 2 /\ Parts(s)[1] = s.left /\ Parts(s)[2] = s.right
           /\ s.op = "pipe" => Len(Parts(s)) = 2 /\ Parts(s)[1] = Sub(s.left) /\ Parts(s)[2] = Sub(s.right)
           /\ s.op \in {"if", "elif"} => Len(Parts(s)) = 3 /\ Parts(s)[1] = s.cond /\ Parts(s)[2] = s.then /\ Parts(s)[3] = s.else
           /\ s.op = "while" => Len(Parts(s)) = 2 /\ Parts(s)[1] = s.cond /\ Parts(s)[2] = s.body
           /\ s.op \in {"sub", "background", "shell", "chdirgit", "nohup", "command", "env"} =>
                 Len(Parts(s)) = 1 /\ Parts(s)[1] = s.body
<1>1. CASE s.op \in {"seq", "and", "or"}
  BY <1>1, PartsAre
<1>2. CASE s.op = "pipe"
  BY <1>2, PartsAre
<1>3. CASE s.op \in {"if", "elif"}
  BY <1>3, PartsAre
<1>4. CASE s.op = "while"
  BY <1>4, PartsAre
<1>5. CASE s.op \in {"sub", "background", "shell", "chdirgit", "nohup", "command", "env"}
  BY <1>5, PartsAre
<1> QED
  BY <1>1, <1>2, <1>3, <1>4, <1>5

\* Where the walker is after a command.
LEMMA AfterIs ==
    ASSUME NEW s, NEW b, NEW y
    PROVE  /\ s.op \notin Movers => Begins(s, b) = b
           /\ s.op \in {"sub", "shell"} => After(s, b, y) = b
           /\ s.op \in {"if", "while"} =>
                 (After(s, b, y).ok => After(s, b, y) = b /\ y = b) /\ (y = b => After(s, b, y) = b)
           /\ s.op \notin {"sub", "shell", "if", "while"} => After(s, b, y) = y
<1>1. ~Unknown.ok
  BY KnownIs
<1>2. s.op \notin Movers => Begins(s, b) = b
  BY DEF Begins
<1>3. s.op \in {"sub", "shell"} => After(s, b, y) = b
  BY DEF After
<1>4. s.op \notin {"sub", "shell", "if", "while"} => After(s, b, y) = y
  BY DEF After
<1>5. ASSUME s.op \in {"if", "while"}
      PROVE  (After(s, b, y).ok => After(s, b, y) = b /\ y = b) /\ (y = b => After(s, b, y) = b)
  <2>1. After(s, b, y) = branch(b, y)
    BY <1>5 DEF After
  <2> QED
    BY <1>1, <2>1 DEF branch
<1> QED
  BY <1>2, <1>3, <1>4, <1>5

\* The two parts of a list.
LEMMA ListLeads ==
    ASSUME Walked, ~walker.deny, NEW s \in Command, s.op \in {"seq", "and", "or"},
           NEW b \in Belief, NEW c \in Belief, Leads(s, b, c)
    PROVE  \E x \in Belief : /\ Leads(s.left, b, x) /\ Leads(s.right, x, c)
                             /\ s.op \in {"and", "or"} => (c.ok => c = x)
<1>1. /\ s.op \in Compound /\ s.op \notin Movers /\ s.op \notin {"sub", "shell", "if", "while"}
      /\ Parts(s) = <<s.left, s.right>>
  BY PartsAre DEF Compound, Movers
<1>0. Len(Parts(s)) = 2 /\ Parts(s)[1] = s.left /\ Parts(s)[2] = s.right
  BY PartsCount
<1>2. PICK a \in Belief : <<s, b, a>> \in walker.checked /\ Followed(s) /\ (c.ok => Safe(s) /\ c = a)
  BY <1>1, LeadsIs
<1>3. PICK x, y \in Belief : /\ <<s.left, b, x>> \in walker.checked
                             /\ <<s.right, x, y>> \in walker.checked /\ a = y
  <2>1. Begins(s, b) = b /\ \A y : After(s, b, y) = y
    BY <1>1, AfterIs
  <2>2. PICK x, y \in Belief : /\ <<Parts(s)[1], Begins(s, b), x>> \in walker.checked
                               /\ <<Parts(s)[2], x, y>> \in walker.checked /\ a = After(s, b, y)
    BY <1>0, <1>2, JudgedParts
  <2> QED
    BY <1>0, <2>1, <2>2
<1>4. Followed(s.left) /\ Followed(s.right) /\ (Safe(s) => Safe(s.right))
  BY <1>1, <1>2, FollowedParts
<1>5. Safe(s.left)
  BY <1>2, FollowedIs DEF Safe
<1>6. Leads(s.left, b, x) /\ Leads(s.right, x, c)
  BY <1>2, <1>3, <1>4, <1>5, LeadsIs
<1>7. s.op \in {"and", "or"} => y = x
  BY <1>2, <1>3, FollowedIs, StayedIs
<1> QED
  BY <1>2, <1>3, <1>6, <1>7

\* Of what runs apart, the walker keeps nothing.
LEMMA ApartLeads ==
    ASSUME Walked, ~walker.deny, NEW s \in Command, s.op \in {"sub", "background", "shell", "nohup"},
           NEW b \in Belief, NEW c \in Belief, Leads(s, b, c)
    PROVE  Leads(s.body, b, Unknown) /\ (c.ok => c = b)
<1>1. s.op \in Compound /\ s.op \notin Movers /\ s.op \notin {"if", "while"} /\ Parts(s) = <<s.body>>
  BY PartsAre DEF Compound, Wrapper, Movers
<1>0. Len(Parts(s)) = 1 /\ Parts(s)[1] = s.body
  BY PartsCount
<1>2. PICK a \in Belief : <<s, b, a>> \in walker.checked /\ Followed(s) /\ (c.ok => Safe(s) /\ c = a)
  BY <1>1, LeadsIs
<1>3. PICK x \in Belief : <<s.body, b, x>> \in walker.checked /\ a = After(s, b, x)
  <2>1. Begins(s, b) = b
    BY <1>1, AfterIs
  <2>2. \E y \in Belief : <<Parts(s)[1], Begins(s, b), y>> \in walker.checked /\ a = After(s, b, y)
    BY <1>0, <1>2, JudgedParts
  <2> QED
    BY <1>0, <2>1, <2>2
<1>4. Leads(s.body, b, Unknown)
  BY <1>1, <1>2, <1>3, FollowedParts, LeadsIs
<1>5. a = b
  <2>1. CASE s.op \in {"sub", "shell"}
    BY <1>3, <2>1, AfterIs
  <2>2. CASE s.op \in {"background", "nohup"}
    <3>1. x = b
      BY <1>2, <1>3, <2>2, FollowedIs, StayedIs
    <3> QED
      BY <1>1, <1>3, <2>2, <3>1, AfterIs
  <2> QED
    BY <2>1, <2>2
<1> QED
  BY <1>2, <1>4, <1>5

\* The sides of a pipe are subshells, one after the other.
LEMMA PipeLeads ==
    ASSUME Walked, ~walker.deny, NEW s \in Passed, s.op = "pipe",
           NEW b \in Belief, NEW c \in Belief, Leads(s, b, c)
    PROVE  \E x \in Belief : Leads(Sub(s.left), b, x) /\ Leads(Sub(s.right), x, c)
<1>1. /\ s.op \in Compound /\ s.op \notin Movers /\ s.op \notin {"sub", "shell", "if", "while"}
      /\ Parts(s) = <<Sub(s.left), Sub(s.right)>> /\ s \in Command
  BY PartsAre DEF Compound, Movers, Passed
<1>0. Len(Parts(s)) = 2 /\ Parts(s)[1] = Sub(s.left) /\ Parts(s)[2] = Sub(s.right)
  BY PartsCount
<1>2. PICK a \in Belief : <<s, b, a>> \in walker.checked /\ Followed(s) /\ (c.ok => Safe(s) /\ c = a)
  BY <1>1, LeadsIs
<1>3. PICK x, y \in Belief : /\ <<Sub(s.left), b, x>> \in walker.checked
                             /\ <<Sub(s.right), x, y>> \in walker.checked /\ a = y
  <2>1. Begins(s, b) = b /\ \A y : After(s, b, y) = y
    BY <1>1, AfterIs
  <2>2. PICK x, y \in Belief : /\ <<Parts(s)[1], Begins(s, b), x>> \in walker.checked
                               /\ <<Parts(s)[2], x, y>> \in walker.checked /\ a = After(s, b, y)
    BY <1>0, <1>2, JudgedParts
  <2> QED
    BY <1>0, <2>1, <2>2
<1>4. Followed(Sub(s.left)) /\ Followed(Sub(s.right))
  BY <1>1, <1>2, FollowedParts
<1>5. Safe(Sub(s.left)) /\ Safe(Sub(s.right))
  <2>1. Sub(s.left) \in Command /\ Sub(s.right) \in Command
    BY NamedParts DEF Passed
  <2>2. Sub(s.left).op = "sub" /\ Sub(s.right).op = "sub"
    BY DEF Sub
  <2> QED
    BY <2>1, <2>2, FollowedIs
<1> QED
  BY <1>2, <1>3, <1>4, <1>5, LeadsIs

\* A wrapper in the same process leads where its body does.
LEMMA CommandLeads ==
    ASSUME Walked, ~walker.deny, NEW s \in Command, s.op = "command",
           NEW b \in Belief, NEW c \in Belief, Leads(s, b, c)
    PROVE  Leads(s.body, b, c)
<1>1. /\ s.op \in Compound /\ s.op \notin Movers /\ s.op \notin {"sub", "shell", "if", "while"}
      /\ Parts(s) = <<s.body>>
  BY PartsAre DEF Compound, Wrapper, Movers
<1>0. Len(Parts(s)) = 1 /\ Parts(s)[1] = s.body
  BY PartsCount
<1>2. PICK a \in Belief : <<s, b, a>> \in walker.checked /\ Followed(s) /\ (c.ok => Safe(s) /\ c = a)
  BY <1>1, LeadsIs
<1>3. PICK x \in Belief : <<s.body, b, x>> \in walker.checked /\ a = After(s, b, x)
  <2>1. Begins(s, b) = b
    BY <1>1, AfterIs
  <2>2. \E y \in Belief : <<Parts(s)[1], Begins(s, b), y>> \in walker.checked /\ a = After(s, b, y)
    BY <1>0, <1>2, JudgedParts
  <2> QED
    BY <1>0, <2>1, <2>2
<1>4. a = x
  BY <1>1, <1>3, AfterIs
<1>5. Followed(s.body) /\ (Safe(s) => Safe(s.body))
  BY <1>1, <1>2, FollowedParts
<1> QED
  BY <1>2, <1>3, <1>4, <1>5, LeadsIs

\* Nothing is believed after an env -C or a git -C.
LEMMA MoverLeads ==
    ASSUME Walked, ~walker.deny, NEW s \in Command, s.op \in {"env", "chdirgit"},
           NEW b \in Belief, NEW c \in Belief, Leads(s, b, c)
    PROVE  Leads(s.body, Target(s, b), Unknown) /\ ~c.ok
<1>1. s.op \in Compound /\ s.op \in Movers /\ Parts(s) = <<s.body>>
  BY PartsAre DEF Compound, Wrapper, Movers
<1>0. Len(Parts(s)) = 1 /\ Parts(s)[1] = s.body
  BY PartsCount
<1>2. PICK a \in Belief : <<s, b, a>> \in walker.checked /\ Followed(s) /\ (c.ok => Safe(s) /\ c = a)
  BY <1>1, LeadsIs
<1>3. Begins(s, b) = Target(s, b) /\ Target(s, b) \in Belief
  <2>1. slots \in Files
    BY DEF Walked, WalkTypes
  <2> QED
    BY <1>1, <2>1, TargetIs DEF Begins
<1>4. PICK x \in Belief : <<s.body, Target(s, b), x>> \in walker.checked
  BY <1>0, <1>2, <1>3, JudgedParts
<1>5. Leads(s.body, Target(s, b), Unknown)
  BY <1>1, <1>2, <1>3, <1>4, FollowedParts, LeadsIs
<1>6. ~Safe(s)
  BY FollowedIs
<1>7. c.ok \in BOOLEAN
  BY BeliefIs
<1> QED
  BY <1>2, <1>5, <1>6, <1>7

\* Both branches of an if lead to what is believed after it: one of them does not move.
LEMMA IfLeads ==
    ASSUME Walked, ~walker.deny, NEW s \in Command, s.op \in {"if", "elif"},
           NEW b \in Belief, NEW c \in Belief, Leads(s, b, c)
    PROVE  Leads(s.cond, b, b) /\ Leads(s.then, b, c) /\ Leads(s.else, b, c)
<1>1. s.op \in Compound /\ s.op \notin Movers /\ Parts(s) = <<s.cond, s.then, s.else>>
  BY PartsAre DEF Compound, Movers
<1>0. Len(Parts(s)) = 3 /\ Parts(s)[1] = s.cond /\ Parts(s)[2] = s.then /\ Parts(s)[3] = s.else
  BY PartsCount
<1>2. PICK a \in Belief : <<s, b, a>> \in walker.checked /\ Followed(s) /\ (c.ok => Safe(s) /\ c = a)
  BY <1>1, LeadsIs
<1>3. PICK x, y, z \in Belief :
          /\ <<s.cond, b, x>> \in walker.checked /\ <<s.then, x, y>> \in walker.checked
          /\ <<s.else, y, z>> \in walker.checked /\ a = After(s, b, z)
  <2>1. Begins(s, b) = b
    BY <1>1, AfterIs
  <2>2. PICK x, y, z \in Belief :
          /\ <<Parts(s)[1], Begins(s, b), x>> \in walker.checked /\ <<Parts(s)[2], x, y>> \in walker.checked
          /\ <<Parts(s)[3], y, z>> \in walker.checked /\ a = After(s, b, z)
    <3>1. <<s, b, a>> \in walker.checked
      BY <1>2
    <3>2. Through(s, b, a)
      BY <1>0, <3>1, JudgedParts
    <3> QED
      BY <3>2 DEF Through
  <2> QED
    BY <1>0, <2>1, <2>2
<1>4. /\ ~Moves(s.cond) /\ Safe(s.then) /\ Safe(s.else)
      /\ Moves(s.then) => ~Moves(s.else) /\ s.else.op = "run"
      /\ s.op = "elif" => ~Moves(s.then) /\ ~Moves(s.else)
  BY <1>2, FollowedIs DEF Safe
<1>5. Followed(s.cond) /\ Followed(s.then) /\ Followed(s.else)
  BY <1>1, <1>2, FollowedParts
<1>6. Safe(s.cond) /\ Safe(s.then) /\ Safe(s.else)
  BY <1>4 DEF Safe
<1>7. x = b
  BY <1>3, <1>4, StayedIs
<1>9. /\ ~Moves(s.then) => y = b
      /\ Moves(s.then) => z = y
      /\ ~Moves(s.else) => z = y
  BY <1>3, <1>4, <1>7, StayedIs
<1>8. c.ok => c = b /\ z = b
  <2>1. CASE s.op = "if"
    BY <1>2, <1>3, <2>1, AfterIs
  <2>2. CASE s.op = "elif"
    <3>1. a = z
      BY <1>3, <2>2, AfterIs
    <3> QED
      BY <1>2, <1>4, <1>9, <2>2, <3>1
  <2> QED
    BY <2>1, <2>2
<1>10. Leads(s.cond, b, b)
  BY <1>3, <1>5, <1>6, <1>7, LeadsIs
<1>11. Leads(s.then, b, c)
  <2>1. c.ok => c = y
    BY <1>8, <1>9
  <2> QED
    BY <1>3, <1>5, <1>6, <1>7, <2>1, LeadsIs
<1>12. Leads(s.else, b, c)
  <2>1. CASE Moves(s.then)
    BY <1>4, <1>8, <2>1 DEF Leads
  <2>2. CASE ~Moves(s.then)
    <3>1. <<s.else, b, z>> \in walker.checked /\ (c.ok => c = z)
      BY <1>3, <1>8, <1>9, <2>2
    <3> QED
      BY <1>5, <1>6, <3>1, LeadsIs
  <2> QED
    BY <2>1, <2>2
<1> QED
  BY <1>10, <1>11, <1>12

\* A loop that is followed does not move, however often it is run.
LEMMA WhileLeads ==
    ASSUME Walked, ~walker.deny, NEW s \in Command, s.op = "while",
           NEW b \in Belief, NEW c \in Belief, Leads(s, b, c)
    PROVE  Leads(s.cond, b, b) /\ Leads(s.body, b, b) /\ (c.ok => c = b)
<1>1. s.op \in Compound /\ s.op \notin Movers /\ Parts(s) = <<s.cond, s.body>>
  BY PartsAre DEF Compound, Movers
<1>0. Len(Parts(s)) = 2 /\ Parts(s)[1] = s.cond /\ Parts(s)[2] = s.body
  BY PartsCount
<1>2. PICK a \in Belief : <<s, b, a>> \in walker.checked /\ Followed(s) /\ (c.ok => Safe(s) /\ c = a)
  BY <1>1, LeadsIs
<1>3. PICK x, y \in Belief : /\ <<s.cond, b, x>> \in walker.checked
                             /\ <<s.body, x, y>> \in walker.checked /\ a = After(s, b, y)
  <2>1. Begins(s, b) = b
    BY <1>1, AfterIs
  <2>2. PICK x, y \in Belief : /\ <<Parts(s)[1], Begins(s, b), x>> \in walker.checked
                               /\ <<Parts(s)[2], x, y>> \in walker.checked /\ a = After(s, b, y)
    BY <1>0, <1>2, JudgedParts
  <2> QED
    BY <1>0, <2>1, <2>2
<1>4. ~Moves(s.cond) /\ ~Moves(s.body)
  BY <1>2, FollowedIs
<1>5. Followed(s.cond) /\ Followed(s.body)
  BY <1>1, <1>2, FollowedParts
<1>6. Safe(s.cond) /\ Safe(s.body)
  BY <1>4 DEF Safe
<1>7. x = b /\ y = b
  BY <1>3, <1>4, StayedIs
<1>8. Leads(s.cond, b, b) /\ Leads(s.body, b, b)
  BY <1>3, <1>5, <1>6, <1>7, LeadsIs
<1>9. c.ok => c = b
  BY <1>2, <1>3, AfterIs
<1> QED
  BY <1>8, <1>9

\* A compound command that leads on is replaced by items that do.
LEMMA ExpandGood ==
    ASSUME Walked, ~walker.deny, NEW s \in Passed, s.op \in Compound,
           NEW b \in Belief, NEW c \in Belief, Leads(s, b, c),
           NEW d \in Dirs, NEW n, Names(n, d), Believes(b, d), NEW q \in Seq(Items), Good(q, c)
    PROVE  Good(Expand(s, d, n) \o q, b)
<1>1. s \in Command /\ Expand(s, d, n) \in Seq(Items) /\ Unknown \in Belief /\ ~Unknown.ok /\ Passed \subseteq Command
  BY ExpandItems, BeliefIs, KnownIs DEF Passed
<1>2. ASSUME NEW x, <<x>> \in Seq(Items), Fit(x, b, c)
      PROVE  Good(<<x>> \o q, b)
  BY <1>2, GoodOnto
<1>3. ASSUME NEW x, NEW y, <<x, y>> \in Seq(Items), NEW b1 \in Belief, Fit(x, b, b1), Fit(y, b1, c)
      PROVE  Good(<<x, y>> \o q, b)
  BY <1>3, GoodOnto
<1>4. CASE s.op = "seq"
  <2>1. PICK x \in Belief : Leads(s.left, b, x) /\ Leads(s.right, x, c)
    BY <1>1, <1>4, ListLeads
  <2>2. s.left \in Command /\ s.right \in Command
    BY <1>1, <1>4, NamedParts
  <2>3. Fit(s.left, b, x) /\ Fit(s.right, x, c)
    BY <2>1, <2>2, FitIs
  <2>4. Expand(s, d, n) = <<s.left, s.right>>
    BY <1>4 DEF Expand
  <2> QED
    BY <1>1, <1>3, <2>3, <2>4
<1>5. CASE s.op \in {"and", "or"}
  <2>1. PICK x \in Belief : Leads(s.left, b, x) /\ Leads(s.right, x, c) /\ (c.ok => c = x)
    BY <1>1, <1>5, ListLeads
  <2>2. s.left \in Command
    BY <1>1, <1>5, NamedParts
  <2>3. Option(<<s.right>>, x, c) /\ Option(<<>>, x, c)
    BY <2>1, OptionIs
  <2> DEFINE u == Choose(<<s.right>>, <<>>)
             v == Choose(<<>>, <<s.right>>)
  <2>4. Fit(s.left, b, x) /\ Fit(u, x, c) /\ Fit(v, x, c)
    BY <2>1, <2>2, <2>3, FitIs, Zenon
  <2>5. Expand(s, d, n) \in {<<s.left, u>>, <<s.left, v>>}
    BY <1>5 DEF Expand
  <2> HIDE DEF u, v
  <2> QED
    BY <1>1, <1>3, <2>4, <2>5
<1>6. CASE s.op = "pipe"
  <2> DEFINE u == Sub(s.left)
             v == Sub(s.right)
  <2>1. PICK x \in Belief : Leads(u, b, x) /\ Leads(v, x, c)
    BY <1>1, <1>6, PipeLeads
  <2>2. u \in Command /\ v \in Command
    BY <1>1, <1>6, NamedParts
  <2>4. Expand(s, d, n) = <<u, v>>
    BY <1>6 DEF Expand
  <2> HIDE DEF u, v
  <2>3. Fit(u, b, x) /\ Fit(v, x, c)
    BY <2>1, <2>2, FitIs
  <2> QED
    BY <1>1, <1>3, <2>3, <2>4
<1>7. CASE s.op \in {"sub", "background", "shell", "nohup"}
  <2>1. Leads(s.body, b, Unknown) /\ (c.ok => c = b)
    BY <1>1, <1>7, ApartLeads
  <2>2. s.body \in Command
    BY <1>1, <1>7, NamedParts
  <2> DEFINE u == Leave(d, n)
  <2>3. Fit(s.body, b, Unknown) /\ Fit(u, Unknown, c)
    <3>1. Believes(c, d)
      BY <2>1 DEF Believes
    <3> QED
      BY <2>1, <2>2, <3>1, FitIs, Zenon
  <2>4. Expand(s, d, n) = <<s.body, u>>
    BY <1>7 DEF Expand
  <2> HIDE DEF u
  <2> QED
    BY <1>1, <1>3, <2>3, <2>4
<1>8. CASE s.op = "command"
  <2>1. Leads(s.body, b, c)
    BY <1>1, <1>8, CommandLeads
  <2>2. s.body \in Command
    BY <1>1, <1>8, NamedParts
  <2>3. Fit(s.body, b, c)
    BY <2>1, <2>2, FitIs
  <2>4. Expand(s, d, n) = <<s.body>>
    BY <1>8 DEF Expand
  <2> QED
    BY <1>1, <1>2, <2>3, <2>4
<1>9. CASE s.op \in {"env", "chdirgit"}
  <2> DEFINE t == Target(s, b)
             u == [op |-> "chdir", kind |-> s.kind, at |-> s.at]
             v == Choose(<<s.body>>, <<>>)
             w == Leave(d, n)
  <2>1. Leads(s.body, t, Unknown) /\ ~c.ok
    BY <1>1, <1>9, MoverLeads
  <2>2. t \in Belief
    BY <1>1, <1>9, TargetIs DEF Movers, Walked, WalkTypes
  <2>3. Fit(u, b, t)
    <3>1. u.op = "chdir" /\ u.kind = s.kind /\ u.at = s.at
      OBVIOUS
    <3> HIDE DEF u
    <3>2. Target(u, b) = t
      BY <3>1 DEF Target
    <3>3. {"choose", "leave", "chdir"} \cap (Simple \cup Compound) = {}
      BY OpsAre
    <3> HIDE DEF t
    <3> QED
      BY <3>1, <3>2, <3>3 DEF Fit
  <2>4. Option(<<s.body>>, t, Unknown) /\ Option(<<>>, t, Unknown)
    <3> HIDE DEF t
    <3> QED
      BY <1>1, <2>1, OptionIs
  <2>5. Believes(c, d)
    BY <2>1 DEF Believes
  <2>6. Fit(v, t, Unknown) /\ Fit(w, Unknown, c)
    <3> HIDE DEF t
    <3> QED
      BY <2>4, <2>5, FitIs, Zenon
  <2>7. Expand(s, d, n) = <<u, v, w>>
    BY <1>9 DEF Expand
  <2> HIDE DEF t, u, v, w
  <2> QED
    BY <1>1, <2>2, <2>3, <2>6, <2>7, GoodOnto
<1>10. CASE s.op \in {"if", "elif"}
  <2>1. Leads(s.cond, b, b) /\ Leads(s.then, b, c) /\ Leads(s.else, b, c)
    BY <1>1, <1>10, IfLeads
  <2>2. s.cond \in Command
    BY <1>1, <1>10, NamedParts
  <2>3. Option(<<s.then>>, b, c) /\ Option(<<s.else>>, b, c)
    BY <2>1, OptionIs
  <2> DEFINE u == Choose(<<s.then>>, <<s.else>>)
  <2>4. Fit(s.cond, b, b) /\ Fit(u, b, c)
    BY <2>1, <2>2, <2>3, FitIs, Zenon
  <2>5. Expand(s, d, n) = <<s.cond, u>>
    BY <1>10 DEF Expand
  <2> HIDE DEF u
  <2> QED
    BY <1>1, <1>3, <2>4, <2>5
<1>11. CASE s.op = "while"
  <2>1. Leads(s.cond, b, b) /\ Leads(s.body, b, b) /\ (c.ok => c = b)
    BY <1>1, <1>11, WhileLeads
  <2>2. s.cond \in Command
    BY <1>1, <1>11, NamedParts
  <2>3. Option(<<s.body, s>>, b, c) /\ Option(<<>>, b, c)
    BY <2>1, OptionIs
  <2> DEFINE u == Choose(<<s.body, s>>, <<>>)
  <2>4. Fit(s.cond, b, b) /\ Fit(u, b, c)
    BY <2>1, <2>2, <2>3, FitIs, Zenon
  <2>5. Expand(s, d, n) = <<s.cond, u>>
    BY <1>11 DEF Expand
  <2> HIDE DEF u
  <2> QED
    BY <1>1, <1>3, <2>4, <2>5
<1> QED
  BY <1>4, <1>5, <1>6, <1>7, <1>8, <1>9, <1>10, <1>11, CompoundIs

----------------------------------------------------------------------------
(* Every step of bash keeps to what the walker believed.                    *)

\* Where the walker believes a directory, a move takes both to the same place:
\* bash starts anew where it is, the walker from the text of all it has followed.
LEMMA MoveBelieved ==
    ASSUME slots \in Files, NEW x, x.at \in GivenType, NEW b \in Belief, NEW d \in Dirs, Believes(b, d),
           abs(Known(d), x.at).ok, NEW e \in Path, Kernel(abs(Known(d), x.at).parts) = Place(e)
    PROVE  Believes(Target(x, b), e)
<1> DEFINE g == x.at
           p == abs(b, g).parts
<1>1. KernelLinks \in Nat /\ GoLinks \in Nat /\ KernelLinks <= GoLinks /\ 2 * KernelLinks <= GoLinks
  BY LinksAllowed, LinksAssumption
<1>2. d \in Path /\ Known(d) \in Belief /\ Known(d).ok /\ Known(d).parts = d /\ g.parts \in Path
  BY BeliefIs, KnownIs DEF Dirs, GivenType, Path
<1>3. Place(e).ok /\ Place(e).place = e
  BY DEF Place
<1>4. Kernel(e) = Place(e)
  <2>1. abs(Known(d), g).parts \in Path
    BY <1>2, AbsBelief, BeliefIs
  <2>2. Real(slots, e)
    BY <1>1, <1>3, <2>1, WalkReal DEF Kernel
  <2> QED
    BY <1>1, <2>2, RealReached DEF Kernel
<1> SUFFICES ASSUME abs(b, g).ok
             PROVE  realpath(p) = e
  <2>1. abs(b, g).ok /\ realpath(p) = e => Target(x, b) \in {Known(e), Unknown}
    BY DEF Target
  <2>2. ~abs(b, g).ok => Target(x, b) = Unknown
    BY DEF Target
  <2> QED
    BY <1>4, <2>1, <2>2, KnownIs DEF Believes
<1>5. p \in Path
  BY AbsBelief, BeliefIs
<1>6. EvalSymlinks(p) = Place(e)
  <2>1. CASE g.base = "cwd"
    <3>1. b.ok /\ b.parts \in Path /\ Kernel(b.parts) = Place(d)
      BY <2>1, AbsBelief, BeliefIs DEF Believes
    <3>2. p = b.parts \o g.parts /\ abs(Known(d), g).parts = d \o g.parts
      BY <1>2, <2>1, <3>1, KnownIs DEF abs
    <3> QED
      BY <1>1, <1>2, <3>1, <3>2, Onward DEF Kernel, EvalSymlinks
  <2>2. CASE g.base # "cwd"
    <3>1. abs(b, g) = abs(Known(d), g)
      BY <2>2, Zenon DEF abs
    <3> QED
      BY <1>1, <1>3, <1>5, <3>1, MoreLinks DEF Kernel, EvalSymlinks
  <2> QED
    BY <2>1, <2>2
<1> QED
  BY <1>3, <1>5, <1>6, RealpathOfExisting

\* A command that is simple leads where it takes the walker.
LEMMA SimpleLeads ==
    ASSUME Walked, ~walker.deny, NEW s \in Command, s.op \in Simple, NEW b \in Belief, NEW c \in Belief,
           Leads(s, b, c)
    PROVE  /\ s.op = "cd" => (c.ok => c = Target(s, b))
           /\ s.op # "cd" => (c.ok => c = b)
<1>1. CASE \E a \in Belief : <<s, b, a>> \in walker.checked /\ (c.ok => c = a)
  <2>1. PICK a \in Belief : <<s, b, a>> \in walker.checked /\ (c.ok => c = a)
    BY <1>1
  <2>2. Parts(s) = <<>>
    BY CommandIs
  <2>3. a = After(s, b, Begins(s, b))
    BY <2>1, <2>2, JudgedParts
  <2>4. s.op \notin {"sub", "shell", "if", "while", "env", "chdirgit"}
    BY DEF Simple
  <2>5. a = Begins(s, b)
    BY <2>3, <2>4, AfterIs
  <2> QED
    BY <2>1, <2>4, <2>5 DEF Begins, Movers
<1>2. CASE s.op = "run" /\ (c.ok => c = b)
  BY <1>2
<1> QED
  BY <1>1, <1>2 DEF Leads

\* A way through a branch leads on.
LEMMA OptionGood ==
    ASSUME Walked, NEW p \in Seq(Passed), NEW b \in Belief, NEW c \in Belief, Option(p, b, c),
           NEW q \in Seq(Items), Good(q, c)
    PROVE  \E a \in Belief : (a.ok => a = b) /\ Good(p \o q, a)
<1>1. Passed \subseteq Command /\ p \in Seq(Items)
  BY DEF Passed, Items
<1>2. CASE p = <<>> /\ (c.ok => c = b)
  <2>1. p \o q = q
    BY <1>2
  <2> QED
    BY <1>2, <2>1
<1>3. CASE \E s : p = <<s>> /\ Leads(s, b, c)
  <2>1. PICK s : p = <<s>> /\ Leads(s, b, c)
    BY <1>3
  <2>2. s \in Command
    BY <1>1, <2>1
  <2>3. Fit(s, b, c)
    BY <2>1, <2>2, FitIs
  <2>4. Good(<<s>> \o q, b)
    BY <1>1, <2>1, <2>3, GoodOnto
  <2> QED
    BY <2>1, <2>4
<1>4. CASE \E s, t : p = <<s, t>> /\ \E a \in Belief : Leads(s, b, a) /\ Leads(t, a, c)
  <2>1. PICK s, t : p = <<s, t>> /\ \E a \in Belief : Leads(s, b, a) /\ Leads(t, a, c)
    BY <1>4
  <2>2. PICK a \in Belief : Leads(s, b, a) /\ Leads(t, a, c)
    BY <2>1
  <2>3. s \in Command /\ t \in Command
    BY <1>1, <2>1
  <2>4. Fit(s, b, a) /\ Fit(t, a, c)
    BY <2>2, <2>3, FitIs
  <2>5. Good(<<s, t>> \o q, b)
    BY <1>1, <2>1, <2>4, GoodOnto
  <2> QED
    BY <2>1, <2>5
<1> QED
  BY <1>2, <1>3, <1>4 DEF Option

\* While a script runs, what is believed stays so.
LEMMA GoodStands ==
    ASSUME slots' = slots, walker' = walker
    PROVE  /\ \A b, d : Believes(b, d)' <=> Believes(b, d)
           /\ \A q, b : Good(q, b)' <=> Good(q, b)
<1>1. /\ \A a : realpath(a)' = realpath(a)
      /\ \A a : Kernel(a)' = Kernel(a)
  BY Unchanged DEF Kernel
<1>2. \A s, b : Target(s, b)' = Target(s, b)
  BY <1>1, Zenon DEF Target
<1>3. \A b, d : Believes(b, d)' <=> Believes(b, d)
  <2>1. cwdOf' = cwdOf
    BY FilesStand
  <2> QED
    BY <1>1, <2>1, Zenon DEF Believes
<1>4. \A s, b, c : Leads(s, b, c)' <=> Leads(s, b, c)
  BY ZenonT(60) DEF Leads
<1>5. \A p, b, c : Option(p, b, c)' <=> Option(p, b, c)
  BY <1>4, Zenon DEF Option
<1>6. \A x, b, c : Fit(x, b, c)' <=> Fit(x, b, c)
  <2> TAKE x, b, c
  <2>1. /\ Leads(x, b, c)' <=> Leads(x, b, c)
        /\ Option(x.then, b, c)' <=> Option(x.then, b, c)
        /\ Option(x.else, b, c)' <=> Option(x.else, b, c)
        /\ Believes(c, x.to)' <=> Believes(c, x.to)
        /\ Target(x, b)' = Target(x, b)
    BY <1>2, <1>3, <1>4, <1>5
  <2> QED
    BY <2>1 DEF Fit
<1>7. \A q, b : Good(q, b)' <=> Good(q, b)
  BY <1>6, Zenon DEF Good
<1> QED
  BY <1>3, <1>7

\* A cd that does not fail, and does not go up from a link, leads where its path does.
LEMMA CdLeads ==
    ASSUME slots \in Files, wd \in Dirs, Names(pwd, wd), ChangeDirectory, Current.at \in GivenType,
           ~failed', ~climbed'
    PROVE  LET a == abs(Known(wd), Current.at)
           IN  a.ok /\ wd' \in Path /\ Kernel(a.parts) = Place(wd')
<1> DEFINE g == Current.at
           a == abs(Known(wd), g)
           p == abs(Known(pwd), g).parts
           byName == a.ok /\ NamesDirs(p) /\ IsDir(Clean(p))
<1>1. /\ \/ byName /\ wd' = Kernel(Clean(p)).place /\ ~UpFromLink(p)
         \/ a.ok /\ IsDir(a.parts) /\ wd' = Kernel(a.parts).place
  BY DEF ChangeDirectory, MoveTo, StayHere
<1>2. wd \in Path /\ pwd \in Path /\ Kernel(pwd) = Place(wd) /\ Real(slots, wd) /\ g.parts \in Path
  BY DEF Dirs, Names, GivenType, Path
<1>3. Known(wd) \in Belief /\ Known(pwd) \in Belief /\ Known(wd).ok /\ Known(pwd).ok
  BY <1>2, BeliefIs, KnownIs
<1>4. a.ok => a.parts \in Path /\ p \in Path /\ Clean(p) \in Path
  <2>1. abs(Known(wd), g) \in Belief /\ abs(Known(pwd), g) \in Belief /\ (a.ok => abs(Known(pwd), g).ok)
    BY <1>3, AbsBelief
  <2>2. a.ok => a.parts \in Path /\ p \in Path
    BY <2>1, BeliefIs
  <2> QED
    BY <2>2, CleanType
<1>5. CASE a.ok /\ IsDir(a.parts) /\ wd' = Kernel(a.parts).place
  BY <1>4, <1>5, KernelDir DEF Dirs, Names
<1>6. CASE byName /\ wd' = Kernel(Clean(p)).place /\ ~UpFromLink(p)
  <2>1. wd' \in Path /\ Kernel(Clean(p)) = Place(wd')
    BY <1>4, <1>6, KernelDir DEF Dirs, Names
  <2>2. Kernel(p) = Place(wd')
    BY <1>4, <1>6, <2>1, NamesLead
  <2>3. CASE g.base = "cwd"
    <3>1. p = pwd \o g.parts /\ a.parts = wd \o g.parts
      BY <1>3, <2>3, KnownIs DEF abs
    <3> QED
      BY <1>2, <1>6, <2>1, <2>2, <3>1, FromPlace
  <2>4. CASE g.base # "cwd"
    <3>1. a = abs(Known(pwd), g)
      BY <2>4, Zenon DEF abs
    <3> QED
      BY <1>6, <2>1, <2>2, <3>1
  <2> QED
    BY <2>3, <2>4
<1> QED
  BY <1>1, <1>5, <1>6

\* Every step of bash leads from a belief that holds to one that does.
LEMMA RunsFollowing == ASSUME Walked, Running, Following, Runs, Trusted' PROVE Following'
<1>1. /\ slots' = slots /\ walker' = walker /\ script' = script /\ todo # <<>> /\ ~walker.deny /\ slots \in Files
      /\ failed \in BOOLEAN /\ climbed \in BOOLEAN
  BY RunsIs DEF Walked, WalkTypes
<1>2. ~failed' /\ ~failed /\ ~climbed' /\ ~climbed
  <2>1. ~failed' /\ ~climbed'
    BY DEF Trusted
  <2>2. failed' = failed \/ failed' = TRUE
    BY DEF Runs, Unfold, RunCommand, ChangeDirectory, EnterDirectory, MoveTo, StayHere, Branch, LeaveSubshell,
           whereVars
  <2>3. climbed' = climbed \/ \E u : climbed' = (climbed \/ u)
    BY DEF Runs, Unfold, RunCommand, ChangeDirectory, EnterDirectory, Branch, LeaveSubshell, whereVars
  <2> QED
    BY <1>1, <2>1, <2>2, <2>3
<1>3. Trusted
  BY <1>1, <1>2 DEF Trusted
<1>4. PICK b \in Belief : Believes(b, wd) /\ Good(todo, b)
  BY <1>3 DEF Following
<1>5. Current \in Items /\ Tail(todo) \in Seq(Items) /\ wd \in Dirs /\ Names(pwd, wd) /\ todo \in Seq(Items)
  BY <1>1, TodoIs DEF Running
<1>6. PICK c \in Belief : Fit(Current, b, c) /\ Good(Tail(todo), c)
  BY <1>1, <1>4, <1>5, GoodRest DEF Current
<1> SUFFICES \E a \in Belief : Believes(a, wd') /\ Good(todo', a)
  BY <1>1, GoodStands DEF Following
<1>7. CASE Unfold
  <2>1. Current.op \in Compound /\ todo' = Expand(Current, wd, pwd) \o Tail(todo) /\ wd' = wd
    BY <1>7 DEF Unfold, Busy, whereVars
  <2>2. Current \in Passed
    BY <1>5, <2>1, ItemIs
  <2>3. Leads(Current, b, c)
    BY <1>6, <2>1 DEF Fit
  <2> DEFINE x == Current
             r == Tail(todo)
  <2> HIDE DEF x, r
  <2>4. Good(Expand(x, wd, pwd) \o r, b)
    BY <1>1, <1>4, <1>5, <1>6, <2>1, <2>2, <2>3, ExpandGood DEF x, r
  <2> QED
    BY <1>4, <2>1, <2>4 DEF x, r
<1>8. CASE RunCommand
  <2>1. Current.op \in Simple /\ Current.op # "cd" /\ todo' = Tail(todo) /\ wd' = wd
    BY <1>8 DEF RunCommand, Busy, whereVars
  <2>2. Current \in Command
    BY <1>5, <2>1, ItemIs DEF Passed
  <2>3. Leads(Current, b, c)
    BY <1>6, <2>1 DEF Fit
  <2>4. c.ok => c = b
    BY <1>1, <2>1, <2>2, <2>3, SimpleLeads
  <2> QED
    BY <1>4, <1>6, <2>1, <2>4 DEF Believes
<1>9. CASE ChangeDirectory
  <2> DEFINE a == abs(Known(wd), Current.at)
  <2>1. Current.op = "cd" /\ todo' = Tail(todo)
    BY <1>9 DEF ChangeDirectory, Busy
  <2>2. Current \in Command /\ Current.at \in GivenType /\ Current.op \in Simple
    BY <1>5, <2>1, ItemIs, CommandAssumption DEF Passed, Simple
  <2>3. a.ok /\ wd' \in Path /\ Kernel(a.parts) = Place(wd')
    BY <1>1, <1>2, <1>5, <1>9, <2>2, CdLeads
  <2>4. Believes(Target(Current, b), wd')
    BY <1>1, <1>4, <1>5, <2>2, <2>3, MoveBelieved
  <2>5. Leads(Current, b, c)
    BY <1>6, <2>2 DEF Fit
  <2>6. c.ok => c = Target(Current, b)
    BY <1>1, <2>1, <2>2, <2>5, SimpleLeads
  <2>7. Believes(c, wd')
    BY <2>4, <2>6 DEF Believes
  <2> QED
    BY <1>6, <2>1, <2>7
<1>12. CASE EnterDirectory
  <2> DEFINE a == abs(Known(wd), Current.at)
  <2>1. Current.op = "chdir" /\ todo' = Tail(todo)
    BY <1>12 DEF EnterDirectory, Busy
  <2>2. Current.at \in GivenType /\ (c.ok => c = Target(Current, b))
    BY <1>5, <1>6, <2>1, ItemIs DEF Fit
  <2>3. a.ok /\ IsDir(a.parts) /\ wd' = Kernel(a.parts).place
    BY <1>2, <1>12 DEF EnterDirectory, MoveTo, StayHere
  <2>4. a.parts \in Path
    BY <1>5, <2>2, <2>3, AbsBelief, BeliefIs DEF Dirs
  <2>5. wd' \in Path /\ Kernel(a.parts) = Place(wd')
    BY <1>1, <2>3, <2>4, KernelDir DEF Dirs, Names
  <2>6. Believes(Target(Current, b), wd')
    BY <1>1, <1>4, <1>5, <2>2, <2>3, <2>5, MoveBelieved
  <2>7. Believes(c, wd')
    BY <2>2, <2>6 DEF Believes
  <2> QED
    BY <1>6, <2>1, <2>7
<1>10. CASE Branch
  <2> DEFINE p == IF status THEN Current.then ELSE Current.else
             r == Tail(todo)
  <2>1. Current.op = "choose" /\ todo' = p \o r /\ wd' = wd
    BY <1>10 DEF Branch, Busy, whereVars
  <2>2. Current.then \in Seq(Passed) /\ Current.else \in Seq(Passed)
    BY <1>5, <2>1, ItemIs
  <2>3. Option(Current.then, b, c) /\ Option(Current.else, b, c)
    BY <1>6, <2>1 DEF Fit
  <2>4. p \in Seq(Passed) /\ Option(p, b, c) /\ r \in Seq(Items) /\ Good(r, c)
    BY <1>5, <1>6, <2>2, <2>3
  <2> HIDE DEF p, r
  <2>5. PICK a \in Belief : (a.ok => a = b) /\ Good(p \o r, a)
    BY <2>4, OptionGood
  <2> QED
    BY <1>4, <2>1, <2>5 DEF Believes
<1>11. CASE LeaveSubshell
  <2>1. Current.op = "leave" /\ todo' = Tail(todo) /\ wd' = Current.to
    BY <1>11 DEF LeaveSubshell, Busy
  <2> QED
    BY <1>6, <2>1 DEF Fit
<1> QED
  BY <1>7, <1>8, <1>9, <1>10, <1>11, <1>12 DEF Runs

\* Bash starts in the directory of the call, and the script leads from there.
LEMMA AnswerFollowing == ASSUME Walked, Answer, Trusted' PROVE Following'
<1>1. /\ slots' = slots /\ walker' = walker /\ slots \in Files /\ walker \in Walkers /\ script' = script
      /\ script # NoScript /\ stack = <<>> /\ verdict' = VerdictOf(walker) /\ todo = <<>>
      /\ (verdict' # "deny" /\ Start) \/ todo' = todo
  BY DEF Answer, vars, Walked, WalkTypes, Phases
<1>2. todo' # <<>> /\ Followed(script)
  BY <1>1 DEF Trusted
<1>3. verdict' # "deny" /\ Start /\ todo' = <<script>> /\ ~walker.deny
  BY <1>1, <1>2, VerdictIs DEF Start
<1>4. cwdOf \in Belief
  BY <1>1, CwdBelief
<1>5. Believes(cwdOf, wd')
  BY <1>1, <1>3, StartIs DEF Believes
<1>6. PICK a \in Belief : <<script, cwdOf, a>> \in walker.checked
  <2> DEFINE s == Sub(script)
  <2>1. PICK y \in Belief : <<s, cwdOf, y>> \in walker.checked
    BY <1>1, <1>3 DEF Walked, StackOK
  <2>2. s \in Command
    BY <1>1, NotNone DEF Walked, WalkTypes
  <2>3. s.op = "sub" /\ s.body = script
    BY DEF Sub
  <2>4. Len(Parts(s)) = 1 /\ Parts(s)[1] = script
    BY <2>3, PartsCount
  <2>5. Begins(s, cwdOf) = cwdOf
    BY <2>3 DEF Begins, Movers
  <2> HIDE DEF s
  <2>6. \E x \in Belief : <<Parts(s)[1], Begins(s, cwdOf), x>> \in walker.checked
    BY <1>3, <1>4, <2>1, <2>4, JudgedParts
  <2> QED
    BY <2>4, <2>5, <2>6
<1>7. Unknown \in Belief /\ ~Unknown.ok
  BY BeliefIs, KnownIs
<1>8. Leads(script, cwdOf, Unknown)
  BY <1>2, <1>4, <1>6, LeadsIs
<1>9. script \in Command /\ script \in Passed
  BY <1>1, <1>3, ScriptPassed DEF Passed
<1>10. Fit(script, cwdOf, Unknown)
  BY <1>8, <1>9, FitIs
<1>11. Good(<<script>> \o <<>>, cwdOf)
  <2>1. Good(<<>>, Unknown) /\ <<>> \in Seq(Items) /\ script \in Items
    BY <1>7, <1>9, GoodNothing DEF Items
  <2> QED
    BY <1>4, <1>7, <1>10, <2>1, GoodFirst
<1>12. <<script>> \o <<>> = todo'
  BY <1>3
<1> QED
  BY <1>1, <1>4, <1>5, <1>11, <1>12, GoodStands DEF Following

\* One belief after the other leads through what bash has left to do, in every state.
LEMMA FollowingInductive == WalkerSpec => []Following
<1>1. WalkerInit => Following
  BY DEF WalkerInit, NoShell, Following, Trusted
<1>2. Walked /\ Running /\ Following /\ [WalkerNext]_walkerVars => Following'
  <2> SUFFICES ASSUME Walked, Running, Following, [WalkerNext]_walkerVars, Trusted' PROVE Following'
    BY DEF Following
  <2>0. todo' # <<>>
    BY DEF Trusted
  <2>1. CASE script = NoScript /\ Next /\ UNCHANGED shellVars
    BY <2>0, <2>1 DEF shellVars, whereVars, Walked, Phases
  <2>2. ASSUME NEW s \in Scripts, DecideScript(s) PROVE Following'
    BY <2>0, <2>2 DEF DecideScript, vars, Walked, Phases
  <2>3. CASE Visit \/ Refuse \/ Return
    <3>1. stack # <<>> /\ todo' = todo
      BY <2>3 DEF Visit, Refuse, Return, Pending, vars
    <3>2. todo = <<>>
      BY <3>1, TopIs
    <3> QED
      BY <2>0, <3>1, <3>2
  <2>4. CASE Ended
    BY <2>0, <2>4 DEF Ended
  <2>5. CASE UNCHANGED walkerVars
    <3>1. slots' = slots /\ walker' = walker /\ todo' = todo /\ wd' = wd /\ Trusted
      BY <2>5 DEF walkerVars, vars, shellVars, whereVars, Trusted
    <3> QED
      BY <3>1, GoodStands DEF Following
  <2> QED
    BY <2>1, <2>2, <2>3, <2>4, <2>5, AnswerFollowing, RunsFollowing DEF WalkerNext, Runs
<1> QED
  BY <1>1, <1>2, WalkedInductive, RunningInductive, PTL DEF WalkerSpec

\* What bash is about to run, and the belief it was judged with.
LEMMA CurrentJudged ==
    ASSUME Walked, Running, Following, Trusted, Busy(Simple \ {"run"})
    PROVE  \E b, a \in Belief : <<Current, b, a>> \in walker.checked /\ Believes(b, wd)
<1>1. todo # <<>> /\ Current.op \in Simple /\ Current.op # "run"
  BY DEF Busy
<1>2. PICK b \in Belief : Believes(b, wd) /\ Good(todo, b)
  BY DEF Following
<1>3. PICK c \in Belief : Fit(Current, b, c)
  BY <1>1, <1>2, GoodRest DEF Current, Running
<1>4. Leads(Current, b, c)
  BY <1>1, <1>3 DEF Fit
<1> QED
  BY <1>1, <1>2, <1>4 DEF Leads

\* In a script that it follows, and as long as no cd has failed or gone up from a link,
\* the walker judged what bash is about to run in the directory bash is in, or in an
\* unknown one, whatever way bash took (branch, shell.go:213).
THEOREM FollowedTracked == WalkerSpec => []FollowedIsTracked
<1>1. Walked /\ Running /\ Following => FollowedIsTracked
  <2> SUFFICES ASSUME Walked, Running, Following, Trusted, Busy(Simple \ {"run"})
               PROVE  \E e \in walker.checked : e[1] = Current /\ (e[2].ok => Kernel(e[2].parts).place = wd)
    BY DEF FollowedIsTracked, Tracked
  <2>1. PICK b, a \in Belief : <<Current, b, a>> \in walker.checked /\ Believes(b, wd)
    BY CurrentJudged
  <2> DEFINE e == <<Current, b, a>>
  <2>2. e \in walker.checked /\ e[1] = Current /\ e[2] = b
    BY <2>1
  <2>3. b.ok => Kernel(b.parts).place = wd
    BY <2>1 DEF Believes, Place
  <2> HIDE DEF e
  <2> QED
    BY <2>2, <2>3
<1> QED
  BY <1>1, WalkedInductive, RunningInductive, FollowingInductive, PTL

----------------------------------------------------------------------------
(* What an allow and a denial are good for.  The walker looks at a path     *)
(* from the directory it believes in, which may be written in another way   *)
(* than the one bash is in, and finds what bash will open.                  *)

\* All but the last of two paths joined.
LEMMA FrontMore ==
    ASSUME NEW d \in Path, NEW q \in Path, q # <<>>
    PROVE  /\ Front(d \o q) = d \o Front(q) /\ Last(d \o q) = Last(q)
           /\ d \o q # <<>> /\ d \o q \in Path /\ Front(q) \in Path
<1> DEFINE a == d \o q
           u == Front(a)
           f == Front(q)
           v == d \o f
<1>1. /\ Len(d) \in Nat /\ Len(q) \in Nat \ {0} /\ Len(f) = Len(q) - 1 /\ f \in Path
      /\ \A i \in 1 .. Len(q) - 1 : f[i] = q[i]
      /\ Last(q) = q[Len(q)]
  BY FrontIs, ConcatIs
<1>2. a \in Path /\ Len(a) = Len(d) + Len(q)
  BY ConcatIs
<1>3. /\ \A i \in 1 .. Len(d) : a[i] = d[i]
      /\ \A i \in 1 .. Len(q) : a[Len(d) + i] = q[i]
  BY DEF Path
<1> HIDE DEF a, f
<1>4. v \in Path /\ Len(v) = Len(d) + (Len(q) - 1)
  <2>1. v \in Path /\ Len(v) = Len(d) + Len(f)
    BY <1>1, ConcatIs
  <2> HIDE DEF v
  <2> QED
    BY <1>1, <2>1
<1>5. /\ \A i \in 1 .. Len(d) : v[i] = d[i]
      /\ \A i \in 1 .. Len(q) - 1 : v[Len(d) + i] = f[i]
  BY <1>1 DEF Path
<1>6. a # <<>>
  BY <1>1, <1>2, EmptySeq DEF Path
<1>7. /\ u \in Path /\ Len(u) = Len(a) - 1 /\ \A i \in 1 .. Len(a) - 1 : u[i] = a[i] /\ Last(a) = a[Len(a)]
  BY <1>2, <1>6, FrontIs
<1> HIDE DEF u, v
<1>8. Last(a) = a[Len(a)]
  BY <1>2, <1>6, FrontIs
<1>9. u = v
  <2>1. Len(u) = Len(v)
    BY <1>1, <1>2, <1>4, <1>7
  <2>2. ASSUME NEW i \in 1 .. Len(u) PROVE u[i] = v[i]
    <3>1. CASE i \in 1 .. Len(d)
      BY <1>1, <1>2, <1>3, <1>5, <1>7, <3>1
    <3>2. CASE i \notin 1 .. Len(d)
      <4> DEFINE j == i - Len(d)
      <4>1. j \in 1 .. Len(q) - 1 /\ j \in 1 .. Len(q) /\ i = Len(d) + j /\ i \in 1 .. Len(a) - 1
        BY <1>1, <1>2, <1>7, <3>2
      <4> HIDE DEF j
      <4>2. u[i] = a[i] /\ a[i] = q[j] /\ v[i] = f[j] /\ f[j] = q[j]
        BY <1>1, <1>3, <1>5, <1>7, <4>1
      <4> QED
        BY <4>2
    <3> QED
      BY <3>1, <3>2
  <2> QED
    BY <1>4, <1>7, <2>1, <2>2, SeqEqual DEF Path
<1>10. Last(a) = Last(q)
  <2>1. Len(q) \in 1 .. Len(q)
    BY <1>1
  <2> QED
    BY <1>1, <1>2, <1>3, <1>8, <2>1
<1> QED
  BY <1>1, <1>2, <1>6, <1>9, <1>10 DEF a, u, v, f

\* Path g of a directory d of bash, and of a belief b in it.
LEMMA BothPaths ==
    ASSUME slots \in Files, NEW g \in GivenType, NEW b \in Belief, NEW d \in Dirs, Believes(b, d), abs(b, g).ok
    PROVE  LET a == abs(Known(d), g).parts
               p == abs(b, g).parts
           IN  /\ abs(Known(d), g).ok /\ a \in Path /\ p \in Path /\ d \in Path /\ Kernel(d) = Place(d)
               /\ \/ g.base # "cwd" /\ p = a
                  \/ /\ g.base = "cwd" /\ b.parts \in Path /\ g.parts \in Path /\ Kernel(b.parts) = Place(d)
                     /\ p = b.parts \o g.parts /\ a = d \o g.parts /\ (b = cwdOf \/ b.parts = d)
<1>1. d \in Path /\ Known(d) \in Belief /\ Known(d).ok /\ Known(d).parts = d /\ g.parts \in Path
  BY BeliefIs, KnownIs DEF Dirs, GivenType, Path
<1>2. Kernel(d) = Place(d)
  BY <1>1, LinksAllowed, RealReached DEF Dirs, Kernel
<1>3. abs(Known(d), g).ok /\ abs(Known(d), g).parts \in Path /\ abs(b, g).parts \in Path
  BY <1>1, AbsBelief, BeliefIs
<1>4. CASE g.base = "cwd"
  <2>1. b.ok /\ b.parts \in Path /\ Kernel(b.parts) = Place(d) /\ (b = cwdOf \/ b.parts = d)
    BY <1>4, AbsBelief, BeliefIs DEF Believes
  <2>2. abs(b, g).parts = b.parts \o g.parts /\ abs(Known(d), g).parts = d \o g.parts
    BY <1>1, <1>4, <2>1, KnownIs DEF abs
  <2> QED
    BY <1>1, <1>2, <1>3, <1>4, <2>1, <2>2
<1>5. CASE g.base # "cwd"
  <2>1. abs(b, g) = abs(Known(d), g)
    BY <1>5, Zenon DEF abs
  <2> QED
    BY <1>1, <1>2, <1>3, <1>5, <2>1
<1> QED
  BY <1>4, <1>5

\* What the kernel finds there, so does EvalSymlinks.
LEMMA SeenThere ==
    ASSUME slots \in Files, NEW g \in GivenType, NEW b \in Belief, NEW d \in Dirs, Believes(b, d), abs(b, g).ok,
           NEW e, Kernel(abs(Known(d), g).parts) = Place(e)
    PROVE  EvalSymlinks(abs(b, g).parts) = Place(e)
<1> DEFINE a == abs(Known(d), g).parts
           p == abs(b, g).parts
<1>1. KernelLinks \in Nat /\ GoLinks \in Nat /\ KernelLinks <= GoLinks /\ 2 * KernelLinks <= GoLinks
  BY LinksAllowed, LinksAssumption
<1>2. /\ abs(Known(d), g).ok /\ a \in Path /\ p \in Path /\ d \in Path /\ Kernel(d) = Place(d)
      /\ \/ g.base # "cwd" /\ p = a
         \/ /\ g.base = "cwd" /\ b.parts \in Path /\ g.parts \in Path /\ Kernel(b.parts) = Place(d)
            /\ p = b.parts \o g.parts /\ a = d \o g.parts /\ (b = cwdOf \/ b.parts = d)
  BY BothPaths, ZenonT(30)
<1>3. CASE p = a
  <2>1. Reached(slots, a, KernelLinks).ok /\ Reached(slots, a, KernelLinks) = Place(e)
    BY DEF Kernel, Place
  <2> HIDE DEF a
  <2>2. Reached(slots, a, GoLinks) = Place(e)
    BY <1>1, <1>2, <2>1, MoreLinks
  <2> QED
    BY <1>3, <2>2 DEF EvalSymlinks
<1>4. CASE /\ b.parts \in Path /\ g.parts \in Path /\ Kernel(b.parts) = Place(d)
           /\ p = b.parts \o g.parts /\ a = d \o g.parts
  <2> DEFINE r == b.parts
             q == g.parts
  <2>1. Reached(slots, r, KernelLinks) = Place(d) /\ Reached(slots, d \o q, KernelLinks) = Place(e)
    BY <1>4 DEF Kernel
  <2>2. r \in Path /\ q \in Path
    BY <1>4
  <2> HIDE DEF r, q
  <2>3. Reached(slots, r \o q, GoLinks) = Place(e)
    BY <1>1, <1>2, <2>1, <2>2, Onward
  <2> QED
    BY <1>4, <2>3 DEF EvalSymlinks, r, q
<1> QED
  BY <1>2, <1>3, <1>4

\* And the directory of a name.
LEMMA SeenAbove ==
    ASSUME slots \in Files, NEW g \in GivenType, NEW b \in Belief, NEW d \in Dirs, Believes(b, d), abs(b, g).ok,
           abs(Known(d), g).parts # <<>>, g.base = "cwd" => g.parts # <<>>,
           NEW f, Kernel(Front(abs(Known(d), g).parts)) = Place(f)
    PROVE  LET p == abs(b, g).parts
           IN  p # <<>> /\ EvalSymlinks(Front(p)) = Place(f) /\ Last(p) = Last(abs(Known(d), g).parts)
<1> DEFINE a == abs(Known(d), g).parts
           p == abs(b, g).parts
<1>1. KernelLinks \in Nat /\ GoLinks \in Nat /\ KernelLinks <= GoLinks /\ 2 * KernelLinks <= GoLinks
  BY LinksAllowed, LinksAssumption
<1>2. /\ abs(Known(d), g).ok /\ a \in Path /\ p \in Path /\ d \in Path /\ Kernel(d) = Place(d)
      /\ \/ g.base # "cwd" /\ p = a
         \/ /\ g.base = "cwd" /\ b.parts \in Path /\ g.parts \in Path /\ Kernel(b.parts) = Place(d)
            /\ p = b.parts \o g.parts /\ a = d \o g.parts /\ (b = cwdOf \/ b.parts = d)
  BY BothPaths, ZenonT(30)
<1>3. CASE p = a
  <2>1. Front(a) \in Path
    BY <1>2, FrontIs
  <2>2. Reached(slots, Front(a), KernelLinks).ok /\ Reached(slots, Front(a), KernelLinks) = Place(f)
    BY DEF Kernel, Place
  <2>3. EvalSymlinks(Front(a)) = Place(f)
    BY <1>1, <2>1, <2>2, MoreLinks DEF EvalSymlinks
  <2> QED
    BY <1>3, <2>3
<1>4. CASE /\ g.base = "cwd" /\ b.parts \in Path /\ g.parts \in Path /\ Kernel(b.parts) = Place(d)
           /\ p = b.parts \o g.parts /\ a = d \o g.parts
  <2> DEFINE q == g.parts
             h == b.parts
  <2>1. q # <<>> /\ q \in Path /\ h \in Path
    BY <1>4
  <2>2. /\ Front(h \o q) = h \o Front(q) /\ Last(h \o q) = Last(q) /\ h \o q # <<>> /\ Front(q) \in Path
        /\ Front(d \o q) = d \o Front(q) /\ Last(d \o q) = Last(q)
    BY <1>2, <2>1, FrontMore
  <2>3. Kernel(d \o Front(q)) = Place(f) /\ Kernel(h) = Place(d)
    BY <1>4, <2>2
  <2>4. EvalSymlinks(h \o Front(q)) = Place(f)
    <3> HIDE DEF q, h
    <3> QED
      BY <1>1, <1>2, <2>1, <2>2, <2>3, Onward DEF Kernel, EvalSymlinks
  <2> QED
    BY <1>4, <2>2, <2>4
<1> QED
  BY <1>2, <1>3, <1>4

\* So what bash opens is what the walker finds.
LEMMA SeenFinds ==
    ASSUME slots \in Files, NEW g \in GivenType, NEW b \in Belief, NEW d \in Dirs, Believes(b, d), abs(b, g).ok,
           Opened(abs(Known(d), g).parts).ok
    PROVE  Finds(abs(b, g).parts, Opened(abs(Known(d), g).parts).place)
<1> DEFINE a == abs(Known(d), g).parts
           p == abs(b, g).parts
<1>1. a \in Path /\ p \in Path /\ d \in Path /\ Kernel(d) = Place(d) /\ (g.base = "cwd" => a = d \o g.parts)
  BY BothPaths
<1>2. CASE Kernel(a).ok /\ Opened(a) = Kernel(a)
  <2>1. Kernel(a) = Place(Kernel(a).place)
    BY <1>1, <1>2, LinksAllowed, ReachedType DEF Kernel
  <2>2. EvalSymlinks(p) = Place(Kernel(a).place)
    BY <2>1, SeenThere
  <2> QED
    BY <1>2, <2>2 DEF Finds
<1>3. CASE /\ ~Kernel(a).ok /\ a # <<>> /\ Front(a) \in Path /\ Kernel(Front(a)).ok
           /\ Last(a) \notin Dots /\ EntryAt(Append(Kernel(Front(a)).place, Last(a))).kind = "missing"
           /\ Opened(a) = Place(Append(Kernel(Front(a)).place, Last(a)))
  <2> DEFINE f == Kernel(Front(a)).place
  <2>1. g.base = "cwd" => g.parts # <<>>
    <3>1. d \o <<>> = d
      BY <1>1, ConcatIs
    <3>2. Kernel(d).ok
      BY <1>1 DEF Place
    <3>3. ASSUME g.base = "cwd", g.parts = <<>> PROVE a = d
      <4> HIDE DEF a
      <4> QED
        BY <1>1, <3>1, <3>3
    <3> QED
      BY <1>3, <3>2, <3>3
  <2>2. Kernel(Front(a)) = Place(f)
    BY <1>3, LinksAllowed, ReachedType DEF Kernel
  <2> HIDE DEF f
  <2>3. p # <<>> /\ EvalSymlinks(Front(p)) = Place(f) /\ Last(p) = Last(a)
    BY <1>3, <2>1, <2>2, SeenAbove
  <2>4. Opened(a).place = Append(f, Last(a)) /\ EntryAt(Append(f, Last(a))).kind = "missing"
    BY <1>3 DEF Place, f
  <2>5. EvalSymlinks(Front(p)).ok /\ EvalSymlinks(Front(p)).place = f
    BY <2>3 DEF Place
  <2> HIDE DEF a, p
  <2> QED
    BY <1>3, <2>3, <2>4, <2>5 DEF Finds, a, p
<1> QED
  BY <1>1, <1>2, <1>3, OpenedIs

\* The name that rm removes, in its directory, or the directory it empties.
LEMMA RemovedIs ==
    ASSUME Removed.ok
    PROVE  LET a == Operand.parts
           IN  \/ /\ ~Current.slash
                  /\ a # <<>> /\ Last(a) \notin Dots /\ (Current.at.base = "cwd" => Current.at.parts # <<>>)
                  /\ Kernel(Front(a)).ok /\ EntryAt(Kernel(Front(a)).place).kind = "dir"
                  /\ Removed.place = Append(Kernel(Front(a)).place, Last(a))
               \/ Current.slash /\ IsDir(a) /\ Removed = Kernel(a)
<1> DEFINE a == Operand.parts
           named == a # <<>> /\ Last(a) \notin Dots /\ (Current.at.base = "cwd" => Current.at.parts # <<>>)
           there == named /\ ~Current.slash /\ IsDir(Front(a))
           full == named /\ Current.slash /\ Current.recursive /\ IsDir(a)
           e == Append(Kernel(Front(a)).place, Last(a))
<1>1. Removed = CASE there -> Place(e) [] full -> Kernel(a) [] OTHER -> Fails
  BY Zenon DEF Removed
<1>2. ~Fails.ok /\ Place(e).place = e
  BY DEF Fails, Place
<1>3. there => ~full
  OBVIOUS
<1>4. CASE there
  <2>1. Removed = Place(e)
    <3> HIDE DEF there, full, e
    <3> QED
      BY <1>1, <1>3, <1>4
  <2> QED
    BY <1>2, <1>4, <2>1 DEF IsDir
<1>5. CASE full
  <2>1. Removed = Kernel(a)
    <3> HIDE DEF there, full, e
    <3> QED
      BY <1>1, <1>3, <1>5
  <2> QED
    BY <1>5, <2>1
<1>6. there \/ full
  <2> HIDE DEF there, full, e
  <2> QED
    BY <1>1, <1>2
<1> QED
  BY <1>4, <1>5, <1>6

\* Unless it is a link, the walker finds that too.
LEMMA RemovedFinds ==
    ASSUME slots \in Files, Current.at \in GivenType, wd \in Dirs, NEW b \in Belief, Believes(b, wd),
           abs(b, Current.at).ok, Removed.ok, ~Current.slash
    PROVE  LET p == abs(b, Current.at).parts
               e == Removed.place
               f == Kernel(Front(Operand.parts)).place
           IN  /\ p \in Path /\ p # <<>> /\ f \in Path /\ EvalSymlinks(Front(p)) = Place(f) /\ Last(p) \notin Dots
               /\ e = Append(f, Last(p)) /\ EntryAt(f).kind = "dir"
               /\ EntryAt(e).kind # "link" => Finds(p, e)
<1> DEFINE g == Current.at
           a == Operand.parts
           p == abs(b, g).parts
           f == Kernel(Front(a)).place
           e == Removed.place
<1>1. a = abs(Known(wd), g).parts /\ p \in Path /\ a \in Path
  BY BothPaths DEF Operand
<1>2. /\ a # <<>> /\ Last(a) \notin Dots /\ (g.base = "cwd" => g.parts # <<>>)
      /\ Kernel(Front(a)).ok /\ EntryAt(f).kind = "dir" /\ e = Append(f, Last(a))
  BY RemovedIs
<1>3. Kernel(Front(a)) = Place(f) /\ f \in Path /\ Last(a) \in Component
  <2>1. Front(a) \in Path /\ Last(a) \in Component
    BY <1>1, <1>2, FrontIs
  <2> QED
    BY <1>2, <2>1, LinksAllowed, ReachedType DEF Kernel
<1> HIDE DEF f, e, a
<1>4. p # <<>> /\ EvalSymlinks(Front(p)) = Place(f) /\ Last(p) = Last(a)
  BY <1>1, <1>2, <1>3, SeenAbove
<1>5. ASSUME EntryAt(e).kind # "link"
      PROVE  Finds(p, e)
  <2> DEFINE x == Last(p)
             u == Front(p)
  <2>1. p = Append(u, x) /\ u \in Path /\ x \in Component /\ x \notin Dots
    BY <1>1, <1>2, <1>4, FrontIs
  <2>2. e \in Path /\ e = Append(f, x)
    BY <1>2, <1>3, <1>4, AppendIs
  <2> HIDE DEF p, x, u
  <2>3. EntryIn(slots, e) \in EntryType
    BY <2>2, EntryTyped
  <2>4. EntryAt(e).kind \in {"dir", "file", "missing"}
    BY <1>5, <2>3 DEF EntryType, EntryAt
  <2>5. CASE EntryAt(e).kind \in {"dir", "file"}
    <3>1. EntryIn(slots, f).kind = "dir" /\ EntryIn(slots, Append(f, x)).kind \in {"dir", "file"}
      BY <1>2, <2>2, <2>5 DEF EntryAt
    <3>2. Reached(slots, u, GoLinks) = Place(f)
      BY <1>4 DEF EvalSymlinks, u
    <3>3. Reached(slots, Append(u, x), GoLinks) = Place(Append(f, x))
      BY <1>3, <2>1, <3>1, <3>2, LinksAllowed, NamedThere
    <3>4. EvalSymlinks(p) = Place(e)
      BY <2>1, <2>2, <3>3 DEF EvalSymlinks
    <3> QED
      BY <3>4 DEF Finds
  <2>6. CASE EntryAt(e).kind = "missing"
    <3>1. EvalSymlinks(Front(p)).ok /\ EvalSymlinks(Front(p)).place = f
      BY <1>4 DEF Place
    <3> QED
      BY <1>4, <2>1, <2>2, <2>6, <3>1 DEF Finds, x
  <2> QED
    BY <2>4, <2>5, <2>6
<1> QED
  BY <1>1, <1>2, <1>3, <1>4, <1>5 DEF f, e, a

\* The directory it empties, without a link, the walker finds in any case.
LEMMA EmptiedFinds ==
    ASSUME slots \in Files, Current.at \in GivenType, wd \in Dirs, NEW b \in Belief, Believes(b, wd),
           abs(b, Current.at).ok, Removed.ok, Current.slash
    PROVE  LET p == abs(b, Current.at).parts
           IN  p \in Path /\ Finds(p, Removed.place) /\ EntryAt(Removed.place).kind = "dir"
<1> DEFINE g == Current.at
           a == Operand.parts
           e == Removed.place
<1>1. a = abs(Known(wd), g).parts /\ abs(b, g).parts \in Path /\ a \in Path
  BY BothPaths DEF Operand
<1>2. IsDir(a) /\ Removed = Kernel(a)
  BY RemovedIs
<1>3. Kernel(a) = Place(e) /\ EntryAt(e).kind = "dir"
  BY <1>1, <1>2, LinksAllowed, ReachedType DEF Kernel, IsDir
<1>4. EvalSymlinks(abs(b, g).parts) = Place(e)
  BY <1>1, <1>3, SeenThere
<1> QED
  BY <1>1, <1>3, <1>4 DEF Finds

\* Says of a script that is run.
LEMMA RunsSaid ==
    ASSUME Walked, todo # <<>>, NEW c, NEW b, NEW a, <<c, b, a>> \in walker.checked
    PROVE  /\ ~Says(c, b).deny
           /\ verdict = "allow" => ~Says(c, b).notes
<1>1. verdict \in {"allow", "judge"} /\ verdict = VerdictOf(walker) /\ walker \in Walkers
  BY DEF Walked, WalkTypes, Phases
<1>2. ~walker.deny /\ (verdict = "allow" => ~walker.notes)
  BY <1>1, VerdictIs
<1> DEFINE e == <<c, b, a>>
<1>3. Heard(e[1], e[2], walker)
  BY DEF Walked, Said
<1>4. Heard(c, b, walker)
  BY <1>3
<1> QED
  BY <1>2, <1>4 DEF Heard

\* Running a recursive rm, bash leaves these where they are.
LEMMA RmSpares ==
    ASSUME Walked, Running, Following, Trusted, Busy({"rm"}), Current.recursive, Current.kind = "static", Operand.ok,
           Removed.ok
    PROVE  /\ Removed.place \notin {Home} \cup ScratchDirs
           /\ \A i \in DOMAIN Workspace : ~under(Roots[i], Removed.place)
<1> DEFINE c == Current
           g == Current.at
           e == Removed.place
<1>1. todo # <<>> /\ c.op = "rm" /\ slots \in Files /\ wd \in Dirs
  BY DEF Busy, Walked, WalkTypes, Running
<1>2. Busy(Simple \ {"run"})
  BY <1>1 DEF Busy, Simple
<1>3. PICK b, a \in Belief : <<c, b, a>> \in walker.checked /\ Believes(b, wd)
  BY <1>2, CurrentJudged
<1>4. c \in Command /\ g \in GivenType
  <2>1. c \in Passed
    BY <1>1, TodoIs, ItemIs DEF Simple
  <2> QED
    BY <1>1, <2>1, CommandAssumption DEF Passed
<1>5. ~Says(c, b).deny
  BY <1>1, <1>3, RunsSaid
<1>6. ~isRootOrAbove(b, g)
  <2> DEFINE w == Alone(b)
             z == ZoneOfPath(w, c)
  <2>1. Says(c, b) = rm(c, z, w) /\ w.cwd = b
    BY <1>1, ExecCases DEF Says, Alone
  <2>2. isRootOrAbove(b, g) => rm(c, z, w) = denyf(w)
    <3> HIDE DEF w, z
    <3> QED
      BY <2>1, RmIs
  <2>3. denyf(w).deny
    BY DEF denyf, Alone
  <2> QED
    BY <1>5, <2>1, <2>2, <2>3
<1> DEFINE p == abs(b, g).parts
<1>7. /\ abs(b, g).ok /\ realpath(p) \notin {Home} \cup ScratchDirs
      /\ \A i \in DOMAIN Workspace : ~under(Roots[i], realpath(p))
  BY <1>6, Zenon DEF isRootOrAbove
<1>8. /\ p \in Path /\ (EntryAt(e).kind # "link" => Finds(p, e))
      /\ EntryAt(e).kind = "link" => \E f \in Path : e = Append(f, Last(p)) /\ p # <<>>
  <2>1. CASE ~c.slash
    BY <1>1, <1>3, <1>4, <1>7, <2>1, RemovedFinds
  <2>2. CASE c.slash
    BY <1>1, <1>3, <1>4, <1>7, <2>2, EmptiedFinds
  <2> QED
    BY <2>1, <2>2
<1>9. CASE EntryAt(e).kind # "link"
  <2>1. realpath(p) = e
    BY <1>1, <1>8, <1>9, RealpathFinds
  <2> QED
    BY <1>7, <2>1
<1>10. CASE EntryAt(e).kind = "link"
  <2>1. e \notin {Home} \cup ScratchDirs
    BY <1>1, <1>10, PlacesAssumption DEF EntryAt, Files
  <2>2. e \in Path
    <3>1. PICK f \in Path : e = Append(f, Last(p)) /\ p # <<>>
      BY <1>8, <1>10
    <3>2. Last(p) \in Component
      BY <1>8, <3>1, FrontIs
    <3> QED
      BY <3>1, <3>2, AppendIs
  <2>3. ASSUME NEW i \in DOMAIN Workspace, under(Roots[i], e) PROVE FALSE
    <3> DEFINE r == Roots[i]
    <3>1. r \in Path /\ Real(slots, r)
      BY <1>1, RootsAreReal
    <3> HIDE DEF r, e
    <3>2. Len(e) <= Len(r) /\ SubSeq(r, 1, Len(e)) = SubSeq(e, 1, Len(e))
      BY <2>3 DEF under, IsPrefix, r
    <3>3. Len(e) \in Nat /\ Len(r) \in Nat /\ Len(e) \in 0 .. Len(r) /\ Len(e) \in 0 .. Len(e)
      BY <2>2, <3>1, <3>2 DEF Path
    <3>4. SubSeq(e, 1, Len(e)) = e
      BY <2>2, <3>3, PrefixIs
    <3>5. Real(slots, e)
      BY <3>1, <3>2, <3>3, <3>4, RealPrefix
    <3> QED
      BY <1>10, <3>5 DEF Real, EntryAt
  <2> QED
    BY <2>1, <2>3
<1> QED
  BY <1>9, <1>10

\* As long as the walker is Trusted, a recursive rm that is not denied spares the home
\* and the scratch directories, which are no links, and the roots of the workspace with
\* all that is above them, although its path may go through links and up again, or end
\* in a slash (isRootOrAbove, path.go:189).
THEOREM RootsSurviveAlways == WalkerSpec => []RootsSurvive
<1>1. Walked /\ Running /\ Following => RootsSurvive
  BY RmSpares DEF RootsSurvive
<1> QED
  BY <1>1, WalkedInductive, RunningInductive, FollowingInductive, PTL

\* What an allow says of the zones that were judged.
LEMMA ReadAllowed ==
    ASSUME NEW c, NEW b, LET v == read(c, zoneOf(b, c.at), Alone(b)) IN ~v.deny /\ ~v.notes, c.kind \in {"static", "dynamic"}
    PROVE  zoneOf(b, c.at) \notin {zoneSecret, zoneUnknown}
<1> DEFINE z == zoneOf(b, c.at)
           w == Alone(b)
           v == read(c, z, w)
           bad == z = zoneSecret \/ (secretName(c.at) /\ z # zoneWorkspace)
           odd == z = (IF secretName(c.at) THEN zoneWorkspace ELSE zoneUnknown)
<1>1. denyf(w).deny /\ judgef(w).notes
  BY DEF denyf, judgef, Alone
<1>2. v = CASE c.kind = "dynamic" -> judgef(w)
            [] c.kind = "static" /\ bad -> denyf(w)
            [] c.kind = "static" /\ odd -> judgef(w)
            [] OTHER -> w
  BY Zenon DEF read
<1>3. ~v.deny /\ ~v.notes
  OBVIOUS
<1>4. bad => ~odd
  BY ZoneOrder
<1> HIDE DEF v, w
<1>5. ~bad /\ ~odd /\ c.kind = "static"
  <2> HIDE DEF bad, odd
  <2>1. CASE c.kind = "dynamic"
    BY <1>1, <1>2, <1>3, <2>1
  <2>2. CASE c.kind = "static" /\ bad
    BY <1>1, <1>2, <1>3, <1>4, <2>2
  <2>3. CASE c.kind = "static" /\ ~bad /\ odd
    BY <1>1, <1>2, <1>3, <2>3
  <2> QED
    BY <2>1, <2>2, <2>3
<1> QED
  BY <1>5, ZoneOrder

\* A write that is neither denied nor noted is into the workspace or a scratch directory.
LEMMA WriteAllowed ==
    ASSUME NEW c, NEW z \in 0 .. 5, NEW w, LET v == write(c, z, w) IN ~v.deny /\ ~v.notes, c.kind \in {"static", "dynamic"},
           denyf(w).deny, judgef(w).notes
    PROVE  z \in {zoneWorkspace, zoneScratch}
<1> DEFINE v == write(c, z, w)
           doubt == c.kind = "dynamic" \/ z \in {zoneOutside, zoneUnknown}
           worse == c.kind = "static" /\ z \in {zoneSystem, zoneSecret}
<1>1. v = CASE doubt -> judgef(w) [] worse -> denyf(w) [] OTHER -> w
  BY Zenon DEF write
<1>2. ~v.deny /\ ~v.notes
  OBVIOUS
<1>3. worse => ~doubt
  BY ZoneOrder
<1> HIDE DEF v
<1>4. ~worse /\ ~doubt
  <2> HIDE DEF doubt, worse
  <2>1. CASE doubt
    BY <1>1, <1>2, <1>3, <2>1
  <2>2. CASE worse
    BY <1>1, <1>2, <1>3, <2>2
  <2> QED
    BY <2>1, <2>2
<1> QED
  BY <1>4, ZoneOrder

\* A path the walker has found.
LEMMA ZoneFound ==
    ASSUME slots \in Files, NEW g \in GivenType, NEW b \in Belief
    PROVE  LET p == abs(b, g).parts
           IN  /\ zoneOf(b, g) \in 0 .. 5 /\ (zoneOf(b, g) # zoneUnknown => abs(b, g).ok)
               /\ \A e : abs(b, g).ok /\ Finds(p, e) =>
                      /\ zoneOf(b, g) \in {zoneWorkspace, zoneScratch} => classify(e) = zoneOf(b, g)
                      /\ zoneOf(b, g) # zoneSecret => classify(e) # zoneSecret
<1> DEFINE p == abs(b, g).parts
<1>1. zoneOf(b, g) = IF abs(b, g).ok THEN zoneAt(p) ELSE zoneUnknown
  BY Zenon DEF zoneOf
<1>2. /\ zoneAt(p) \in 0 .. 4 /\ zoneAt(p) >= classify(resolve(p))
      /\ zoneAt(p) < 3 => zoneAt(p) = classify(resolve(p))
  BY ZoneAtIs
<1>3. abs(b, g).ok => p \in Path
  BY AbsBelief, BeliefIs
<1>4. ASSUME NEW e, abs(b, g).ok, Finds(p, e) PROVE resolve(p) = e
  BY <1>3, <1>4, ResolveFinds
<1>5. ASSUME NEW e, abs(b, g).ok, Finds(p, e)
      PROVE  /\ zoneOf(b, g) \in {zoneWorkspace, zoneScratch} => classify(e) = zoneOf(b, g)
             /\ zoneOf(b, g) # zoneSecret => classify(e) # zoneSecret
  <2>1. classify(e) \in 0 .. 4
    BY ClassifyType
  <2> DEFINE z == zoneOf(b, g)
             k == classify(e)
  <2>2. z \in 0 .. 4 /\ z >= k /\ (z < 3 => z = k)
    BY <1>1, <1>2, <1>4, <1>5
  <2> HIDE DEF z, k
  <2>3. /\ z \in {0, 1} => k = z
        /\ z # 4 => k # 4
    BY <2>1, <2>2 DEF k
  <2> QED
    BY <2>3, ZoneOrder DEF z, k
<1>6. zoneOf(b, g) \in 0 .. 5 /\ (zoneOf(b, g) # zoneUnknown => abs(b, g).ok)
  BY <1>1, <1>2, ZoneOrder
<1> QED
  BY <1>5, <1>6

\* What rm is allowed to remove is looked up by the name of its entry, in a directory
\* that is found without its "..".
LEMMA EntryZone ==
    ASSUME slots \in Files, NEW g \in GivenType, NEW b \in Belief, abs(b, g).ok, NEW slash, ~slash, NEW f \in Path,
           abs(b, g).parts # <<>>, EvalSymlinks(Front(abs(b, g).parts)) = Place(f), Last(abs(b, g).parts) \notin Dots,
           \A i \in 1 .. Len(abs(b, g).parts) : abs(b, g).parts[i] # ".."
    PROVE  \/ linkZone(b, g, slash) \in {zoneSystem, zoneSecret}
           \/ linkZone(b, g, slash) = classify(Append(f, Last(abs(b, g).parts)))
<1> DEFINE p == abs(b, g).parts
           u == Front(p)
           x == Last(p)
           lex == classify(Clean(p))
<1>1. p \in Path
  BY AbsBelief, BeliefIs
<1>2. /\ u \in Path /\ x \in Component /\ Len(u) = Len(p) - 1 /\ Len(p) \in Nat
      /\ \A i \in 1 .. Len(p) - 1 : u[i] = p[i]
  BY <1>1, FrontIs
<1>3. \A i \in 1 .. Len(u) : u[i] # ".."
  <2> HIDE DEF p, u
  <2> QED
    BY <1>2 DEF p
<1>4. EvalSymlinks(Clean(u)) = Place(f)
  <2> HIDE DEF u
  <2>1. Reached(slots, u, GoLinks) = Place(f)
    BY DEF EvalSymlinks, u
  <2>2. Reached(slots, Clean(u), GoLinks) = Place(f)
    BY <1>2, <1>3, <2>1, LinksAllowed, CleanReached
  <2> QED
    BY <2>2 DEF EvalSymlinks
<1>5. realpath(Clean(u)) = f
  <2>1. Clean(u) \in Path
    BY <1>2, CleanType
  <2> HIDE DEF u
  <2> QED
    BY <1>4, <2>1, RealpathOfExisting DEF Place
<1>6. Join(f, x) = Append(f, x)
  BY <1>2, JoinIs
<1> DEFINE entry == linkZone(b, g, slash)
           up == classify(Join(realpath(Clean(u)), x))
<1>9. entry = CASE ~abs(b, g).ok \/ slash -> zoneOf(b, g)
                [] abs(b, g).ok /\ ~slash /\ lex \in {zoneSystem, zoneSecret} -> lex
                [] OTHER -> IF p = <<>> THEN lex ELSE up
  BY Zenon DEF linkZone
<1>10. entry = IF lex \in {zoneSystem, zoneSecret} THEN lex ELSE up
  <2> HIDE DEF entry, lex, up, p
  <2> QED
    BY <1>9 DEF p
<1>7. CASE lex \in {zoneSystem, zoneSecret}
  BY <1>7, <1>10, Zenon
<1>8. CASE lex \notin {zoneSystem, zoneSecret}
  <2>1. entry = up
    BY <1>8, <1>10, Zenon
  <2> QED
    BY <1>5, <1>6, <2>1
<1> QED
  BY <1>7, <1>8
\* A component is in neither of two paths if it is not in both joined.
LEMMA BothFree ==
    ASSUME NEW p \in Path, NEW q \in Path, NEW x
    PROVE  x \notin Range(p \o q) <=> (\A i \in 1 .. Len(p) : p[i] # x) /\ (\A i \in 1 .. Len(q) : q[i] # x)
<1> DEFINE a == p \o q
<1>1. a \in Path /\ Len(a) = Len(p) + Len(q) /\ Len(p) \in Nat /\ Len(q) \in Nat
  BY ConcatIs
<1>2. /\ \A i \in 1 .. Len(p) : a[i] = p[i]
      /\ \A i \in 1 .. Len(q) : a[Len(p) + i] = q[i]
  BY DEF Path
<1> HIDE DEF a
<1>3. x \notin Range(a) <=> \A i \in 1 .. Len(a) : a[i] # x
  BY <1>1 DEF Path, Range
<1>4. ASSUME \A i \in 1 .. Len(a) : a[i] # x
      PROVE  (\A i \in 1 .. Len(p) : p[i] # x) /\ (\A i \in 1 .. Len(q) : q[i] # x)
  <2>1. ASSUME NEW i \in 1 .. Len(p) PROVE p[i] # x
    BY <1>1, <1>2, <1>4
  <2>2. ASSUME NEW i \in 1 .. Len(q) PROVE q[i] # x
    <3>1. Len(p) + i \in 1 .. Len(a)
      BY <1>1
    <3> QED
      BY <1>2, <1>4, <3>1
  <2> QED
    BY <2>1, <2>2
<1>5. ASSUME \A i \in 1 .. Len(p) : p[i] # x, \A i \in 1 .. Len(q) : q[i] # x, NEW i \in 1 .. Len(a)
      PROVE  a[i] # x
  <2>1. CASE i \in 1 .. Len(p)
    BY <1>2, <1>5, <2>1
  <2>2. CASE i \notin 1 .. Len(p)
    <3> DEFINE j == i - Len(p)
    <3>1. j \in 1 .. Len(q) /\ i = Len(p) + j
      BY <1>1, <2>2
    <3> HIDE DEF j
    <3> QED
      BY <1>2, <1>5, <3>1
  <2> QED
    BY <2>1, <2>2
<1> QED
  BY <1>3, <1>4, <1>5 DEF a

\* Where neither the directory of the call nor the path of bash goes up, that of the
\* walker does not.
LEMMA NotUp ==
    ASSUME slots \in Files, NEW g \in GivenType, NEW b \in Belief, NEW d \in Dirs, Believes(b, d), abs(b, g).ok,
           ".." \notin Range(cwdOf.parts \o abs(Known(d), g).parts)
    PROVE  \A i \in 1 .. Len(abs(b, g).parts) : abs(b, g).parts[i] # ".."
<1> DEFINE a == abs(Known(d), g).parts
           p == abs(b, g).parts
           h == cwdOf.parts
<1>1. /\ a \in Path /\ p \in Path /\ d \in Path
      /\ \/ g.base # "cwd" /\ p = a
         \/ /\ g.base = "cwd" /\ b.parts \in Path /\ g.parts \in Path
            /\ p = b.parts \o g.parts /\ a = d \o g.parts /\ (b = cwdOf \/ b.parts = d)
  BY BothPaths
<1>2. h \in Path
  <2>1. cwdOf \in Belief
    BY CwdBelief
  <2>2. Unknown.parts \in Path
    BY DEF Unknown, Path
  <2> QED
    BY <2>1, <2>2, BeliefIs
<1>3. (\A i \in 1 .. Len(h) : h[i] # "..") /\ (\A i \in 1 .. Len(a) : a[i] # "..")
  <2> HIDE DEF h, a
  <2> QED
    BY <1>1, <1>2, BothFree DEF h, a
<1>4. CASE p = a
  BY <1>3, <1>4
<1>5. CASE /\ b.parts \in Path /\ g.parts \in Path
           /\ p = b.parts \o g.parts /\ a = d \o g.parts /\ (b = cwdOf \/ b.parts = d)
  <2> DEFINE r == b.parts
             q == g.parts
  <2>1. ".." \notin Range(a)
    <3>1. DOMAIN a = 1 .. Len(a)
      BY <1>1 DEF Path
    <3> HIDE DEF a
    <3> QED
      BY <1>3, <3>1 DEF Range
  <2>2. (\A i \in 1 .. Len(d) : d[i] # "..") /\ (\A i \in 1 .. Len(q) : q[i] # "..")
    <3>1. ".." \notin Range(d \o q)
      BY <1>5, <2>1
    <3> HIDE DEF q
    <3> QED
      BY <1>1, <1>5, <3>1, BothFree DEF q
  <2>3. \A i \in 1 .. Len(r) : r[i] # ".."
    BY <1>3, <1>5, <2>2
  <2>4. ".." \notin Range(r \o q)
    <3>0. r \in Path /\ q \in Path
      BY <1>5
    <3> HIDE DEF r, q
    <3> QED
      BY <2>2, <2>3, <3>0, BothFree
  <2>5. ".." \notin Range(p)
    BY <1>5, <2>4
  <2> HIDE DEF p
  <2>6. DOMAIN p = 1 .. Len(p)
    BY <1>1 DEF Path
  <2>7. \A i \in 1 .. Len(p) : p[i] # ".."
    BY <2>5, <2>6 DEF Range
  <2> QED
    BY <2>7 DEF p
<1> QED
  BY <1>1, <1>4, <1>5

----------------------------------------------------------------------------
(* An allow. *)

\* A command of a script that was allowed.
LEMMA Permitted ==
    ASSUME Walked, Running, Following, verdict = "allow", Trusted, Busy(Simple \ {"run"})
    PROVE  /\ slots \in Files /\ wd \in Dirs /\ Current \in Command
           /\ \E b \in Belief : Believes(b, wd) /\ ~Says(Current, b).deny /\ ~Says(Current, b).notes
<1>1. todo # <<>> /\ slots \in Files /\ wd \in Dirs /\ Current.op \in Simple
  BY DEF Busy, Walked, WalkTypes, Running
<1>2. PICK b, a \in Belief : <<Current, b, a>> \in walker.checked /\ Believes(b, wd)
  BY CurrentJudged
<1>3. Current \in Command
  <2>1. Current \in Passed
    BY <1>1, TodoIs, ItemIs
  <2> QED
    BY <2>1 DEF Passed
<1>4. ~Says(Current, b).deny /\ ~Says(Current, b).notes
  BY <1>1, <1>2, RunsSaid
<1> QED
  BY <1>1, <1>2, <1>3, <1>4

\* A walker that has said nothing and comes off a rule denied, or noted.
LEMMA AloneIs == \A b : /\ denyf(Alone(b)).deny /\ judgef(Alone(b)).notes /\ Alone(b).cwd = b
BY DEF denyf, judgef, Alone

\* What a script that was allowed reads is not secret.
LEMMA ReadKept ==
    ASSUME Walked, Running, Following, verdict = "allow", Trusted, Busy({"read"}), Opened(Operand.parts).ok
    PROVE  classify(Opened(Operand.parts).place) # zoneSecret
<1> DEFINE c == Current
           g == Current.at
<1>1. c.op = "read" /\ Busy(Simple \ {"run"})
  BY DEF Busy, Simple
<1>2. slots \in Files /\ wd \in Dirs /\ c \in Command
  BY <1>1, Permitted
<1>3. PICK b \in Belief : Believes(b, wd) /\ ~Says(c, b).deny /\ ~Says(c, b).notes
  BY <1>1, Permitted
<1>4. c.kind \in {"static", "dynamic"} /\ g \in GivenType
  BY <1>1, <1>2, CommandAssumption
<1>5. Says(c, b) = read(c, zoneOf(b, g), Alone(b))
  <2>1. ZoneOfPath(Alone(b), c) = zoneOf(b, g)
    BY <1>1, AloneIs DEF ZoneOfPath
  <2> QED
    BY <1>1, <2>1, ExecCases DEF Says
<1>6. zoneOf(b, g) \notin {zoneSecret, zoneUnknown}
  BY <1>3, <1>4, <1>5, ReadAllowed
<1>7. abs(b, g).ok
  BY <1>2, <1>4, <1>6, ZoneFound
<1>8. Finds(abs(b, g).parts, Opened(Operand.parts).place)
  BY <1>2, <1>3, <1>4, <1>7, SeenFinds DEF Operand
<1> QED
  BY <1>2, <1>4, <1>6, <1>7, <1>8, ZoneFound

\* A build or test step is allowed where its output is.
LEMMA StepAllowed ==
    ASSUME NEW c, c.class = "step", NEW z, NEW here, NEW b, ~build(c, z, here, Alone(b)).notes,
           ~build(c, z, here, Alone(b)).deny
    PROVE  here = zoneWorkspace /\ ~write(c, z, Alone(b)).deny /\ ~write(c, z, Alone(b)).notes
<1>1. build(c, z, here, Alone(b)) = IF here = zoneWorkspace THEN write(c, z, Alone(b)) ELSE judgef(Alone(b))
  BY BuildIs
<1> QED
  BY <1>1, AloneIs

\* What it writes is in the workspace or a scratch directory,
LEMMA WriteKept ==
    ASSUME Walked, Running, Following, verdict = "allow", Trusted, Busy({"write"}) \/ Builds, Opened(Operand.parts).ok
    PROVE  classify(Opened(Operand.parts).place) \in {zoneWorkspace, zoneScratch}
<1> DEFINE c == Current
           g == Current.at
<1>1. /\ c.op = "write" \/ (c.op = "build" /\ c.class = "step")
      /\ Busy(Simple \ {"run"})
  BY DEF Busy, Simple, Builds
<1>2. slots \in Files /\ wd \in Dirs /\ c \in Command
  BY <1>1, Permitted
<1>3. PICK b \in Belief : Believes(b, wd) /\ ~Says(c, b).deny /\ ~Says(c, b).notes
  BY <1>1, Permitted
<1>4. c.kind \in {"static", "dynamic"} /\ g \in GivenType
  BY <1>1, <1>2, CommandAssumption
<1> DEFINE z == zoneOf(b, g)
           w == Alone(b)
<1>5. ZoneOfPath(w, c) = z
  BY <1>1, AloneIs DEF ZoneOfPath
<1>6. ~write(c, z, w).deny /\ ~write(c, z, w).notes
  <2>1. CASE c.op = "write"
    BY <1>3, <1>5, <2>1, ExecCases DEF Says
  <2>2. CASE c.op = "build" /\ c.class = "step"
    <3>1. Says(c, b) = build(c, z, ZoneHere(w), w)
      BY <1>5, <2>2, ExecCases DEF Says
    <3> QED
      BY <1>3, <2>2, <3>1, StepAllowed
  <2> QED
    BY <1>1, <2>1, <2>2
<1>7. z \in 0 .. 5 /\ (z # zoneUnknown => abs(b, g).ok)
  BY <1>2, <1>4, ZoneFound
<1>8. z \in {zoneWorkspace, zoneScratch}
  <2>1. denyf(w).deny /\ judgef(w).notes
    BY AloneIs
  <2> HIDE DEF z, w
  <2> QED
    BY <1>4, <1>6, <1>7, <2>1, WriteAllowed
<1>9. abs(b, g).ok
  BY <1>7, <1>8, ZoneOrder
<1>10. Finds(abs(b, g).parts, Opened(Operand.parts).place)
  BY <1>2, <1>3, <1>4, <1>9, SeenFinds DEF Operand
<1> QED
  BY <1>2, <1>4, <1>8, <1>9, <1>10, ZoneFound

\* The walker's directory is that of bash.
LEMMA HereFound ==
    ASSUME slots \in Files, wd \in Dirs, NEW b \in Belief, Believes(b, wd), ZoneHere(Alone(b)) = zoneWorkspace
    PROVE  classify(wd) = zoneWorkspace
<1>1. ZoneHere(Alone(b)) = IF b.ok THEN zoneAt(b.parts) ELSE zoneUnknown
  BY AloneIs, Zenon DEF ZoneHere
<1>2. b.ok /\ zoneAt(b.parts) = 0
  <2>1. b.ok \in BOOLEAN
    BY BeliefIs
  <2>2. b.ok
    <3> SUFFICES ASSUME ~b.ok PROVE FALSE
      BY <2>1
    <3>1. zoneUnknown = zoneWorkspace
      BY <1>1, Zenon
    <3> QED
      BY <3>1 DEF zoneUnknown, zoneWorkspace
  <2>3. ZoneHere(Alone(b)) = zoneAt(b.parts)
    BY <1>1, <2>2, Zenon
  <2> QED
    BY <2>2, <2>3, ZoneOrder
<1>3. b.parts \in Path /\ Kernel(b.parts) = Place(wd)
  BY <1>2, BeliefIs DEF Believes
<1>4. EvalSymlinks(b.parts) = Place(wd)
  <2>1. Reached(slots, b.parts, KernelLinks).ok /\ Reached(slots, b.parts, KernelLinks) = Place(wd)
    BY <1>3 DEF Kernel, Place
  <2> QED
    BY <1>3, <2>1, LinksAllowed, MoreLinks DEF EvalSymlinks
<1>5. resolve(b.parts) = wd
  BY <1>3, <1>4, ResolveFinds DEF Finds
<1>6. zoneAt(b.parts) < 3 => zoneAt(b.parts) = classify(resolve(b.parts))
  BY ZoneAtIs
<1> QED
  BY <1>2, <1>5, <1>6, ZoneOrder

\* what it builds, or changes of a repository, in the workspace,
LEMMA HereKept ==
    ASSUME Walked, Running, Following, verdict = "allow", Trusted,
           Builds \/ (Busy({"git"}) /\ Current.class = "changes")
    PROVE  classify(wd) = zoneWorkspace
<1> DEFINE c == Current
<1>1. /\ (c.op = "build" /\ c.class = "step") \/ (c.op = "git" /\ c.class = "changes")
      /\ Busy(Simple \ {"run"})
  BY DEF Busy, Simple, Builds
<1>2. slots \in Files /\ wd \in Dirs /\ c \in Command
  BY <1>1, Permitted
<1>3. PICK b \in Belief : Believes(b, wd) /\ ~Says(c, b).deny /\ ~Says(c, b).notes
  BY <1>1, Permitted
<1> DEFINE z == ZoneOfPath(Alone(b), c)
           here == ZoneHere(Alone(b))
           w == Alone(b)
<1>4. here = zoneWorkspace
  <2>1. CASE c.op = "build" /\ c.class = "step"
    <3>1. Says(c, b) = build(c, z, here, w)
      BY <2>1, ExecCases DEF Says
    <3> QED
      BY <1>3, <2>1, <3>1, StepAllowed
  <2>2. CASE c.op = "git" /\ c.class = "changes"
    <3>1. Says(c, b) = git(c, here, w)
      BY <2>2, ExecCases DEF Says
    <3>2. git(c, here, w) = IF here = zoneWorkspace THEN w ELSE judgef(w)
      BY <2>2, GitIs
    <3>3. judgef(w).notes
      BY AloneIs
    <3> HIDE DEF w, here
    <3> QED
      BY <1>3, <3>1, <3>2, <3>3
  <2> QED
    BY <1>1, <2>1, <2>2
<1> QED
  BY <1>2, <1>3, <1>4, HereFound

\* and what it removes where linkZone found it.
LEMMA RmKept ==
    ASSUME Walked, Running, Following, verdict = "allow", Trusted, Busy({"rm"}), Removed.ok
    PROVE  \/ /\ ~Current.slash
              /\ ".." \in Range(cwdOf.parts \o Operand.parts) \/ EntryAt(Removed.place).kind = "link"
           \/ classify(Removed.place) \in {zoneWorkspace, zoneScratch}
<1> DEFINE c == Current
           g == Current.at
           e == Removed.place
<1> SUFFICES ASSUME c.slash \/ (".." \notin Range(cwdOf.parts \o Operand.parts) /\ EntryAt(e).kind # "link")
             PROVE  classify(e) \in {zoneWorkspace, zoneScratch}
  OBVIOUS
<1>1. c.op = "rm" /\ Busy(Simple \ {"run"})
  BY DEF Busy, Simple
<1>2. slots \in Files /\ wd \in Dirs /\ c \in Command
  BY <1>1, Permitted
<1>3. PICK b \in Belief : Believes(b, wd) /\ ~Says(c, b).deny /\ ~Says(c, b).notes
  BY <1>1, Permitted
<1>4. c.kind \in {"static", "dynamic"} /\ g \in GivenType
  BY <1>1, <1>2, CommandAssumption
<1> DEFINE z == zoneOf(b, g)
           w == Alone(b)
           entry == linkZone(b, g, c.slash)
<1>5. Says(c, b) = rm(c, z, w) /\ w.cwd = b
  <2>1. ZoneOfPath(Alone(b), c) = zoneOf(b, g)
    BY <1>1, AloneIs DEF ZoneOfPath
  <2> QED
    BY <1>1, <2>1, AloneIs, ExecCases DEF Says
<1>6. denyf(w).deny /\ judgef(w).notes
  BY AloneIs
<1>7. /\ entry \notin {zoneOutside, zoneUnknown}
      /\ \/ entry \in {zoneWorkspace, zoneScratch}
         \/ ~write(c, z, w).deny /\ ~write(c, z, w).notes
  <2>1. rm(c, z, w) =
            IF c.kind = "dynamic" THEN judgef(w)
            ELSE IF c.recursive /\ isRootOrAbove(w.cwd, g) THEN denyf(w)
            ELSE IF linkZone(w.cwd, g, c.slash) \in {zoneOutside, zoneUnknown} THEN IF c.recursive THEN denyf(w) ELSE judgef(w)
            ELSE IF linkZone(w.cwd, g, c.slash) \in {zoneWorkspace, zoneScratch} THEN w ELSE write(c, z, w)
    BY <1>4, RmIs
  <2> HIDE DEF w, z
  <2>2. /\ ~(linkZone(w.cwd, g, c.slash) \in {zoneOutside, zoneUnknown})
        /\ linkZone(w.cwd, g, c.slash) \in {zoneWorkspace, zoneScratch} \/ rm(c, z, w) = write(c, z, w)
    BY <1>3, <1>5, <1>6, <2>1
  <2> QED
    BY <1>3, <1>5, <2>2
<1>8. abs(b, g).ok
  <2>1. ~abs(b, g).ok => entry = z
    BY SMT DEF linkZone
  <2>2. ~abs(b, g).ok => z = zoneUnknown
    BY Zenon DEF zoneOf
  <2> QED
    BY <1>7, <2>1, <2>2
<1> DEFINE p == abs(b, g).parts
           f == Kernel(Front(Operand.parts)).place
<1>9. Finds(p, e)
  <2>1. CASE c.slash
    BY <1>2, <1>3, <1>4, <1>8, <2>1, EmptiedFinds
  <2>2. CASE ~c.slash /\ EntryAt(e).kind # "link"
    BY <1>2, <1>3, <1>4, <1>8, <2>2, RemovedFinds
  <2> QED
    BY <2>1, <2>2
<1>10. z \in {zoneWorkspace, zoneScratch} => classify(e) = z
  BY <1>2, <1>4, <1>8, <1>9, ZoneFound
<1>11. entry \in {zoneSystem, zoneSecret} \/ entry = classify(e) \/ entry = z
  <2>1. CASE c.slash
    BY <2>1, SMT DEF linkZone
  <2>2. CASE ~c.slash
    <3>1. ".." \notin Range(cwdOf.parts \o Operand.parts)
      BY <2>2
    <3>2. \A i \in 1 .. Len(p) : p[i] # ".."
      BY <1>2, <1>3, <1>4, <1>8, <3>1, NotUp DEF Operand
    <3>3. /\ p # <<>> /\ f \in Path /\ EvalSymlinks(Front(p)) = Place(f) /\ Last(p) \notin Dots
          /\ e = Append(f, Last(p))
      BY <1>2, <1>3, <1>4, <1>8, <2>2, RemovedFinds
    <3> HIDE DEF f, e
    <3> QED
      BY <1>2, <1>4, <1>8, <2>2, <3>2, <3>3, EntryZone
  <2> QED
    BY <2>1, <2>2
<1>12. CASE entry \in {zoneWorkspace, zoneScratch}
  BY <1>10, <1>11, <1>12, ZoneOrder
<1>13. CASE entry \notin {zoneWorkspace, zoneScratch}
  <2>1. z \in 0 .. 5
    BY <1>2, <1>4, ZoneFound
  <2>2. z \in {zoneWorkspace, zoneScratch}
    <3> HIDE DEF z, w, entry
    <3> QED
      BY <1>4, <1>6, <1>7, <1>13, <2>1, WriteAllowed
  <2>3. classify(e) = z
    BY <1>10, <2>2
  <2> QED
    BY <2>2, <2>3
<1> QED
  BY <1>12, <1>13

\* As long as the walker is Trusted, a script that is allowed writes nothing outside
\* the workspace and the scratch directories, reads no secret, and changes repositories
\* and builds only in the workspace, whatever way bash takes through it; and it removes
\* nothing elsewhere, but links, and what is named after a ".." without a slash at its
\* end, which linkZone does not see (exec, rules.go:142).
THEOREM AllowKeepsPromiseAlways == WalkerSpec => []AllowKeepsPromise
<1>1. Walked /\ Running /\ Following => AllowKeepsPromise
  BY ReadKept, WriteKept, RmKept, HereKept, Zenon DEF AllowKeepsPromise
<1> QED
  BY <1>1, WalkedInductive, RunningInductive, FollowingInductive, PTL
====
