---- MODULE PathsProofs ----
(***************************************************************************)
(* What Paths.tla guarantees for every file system, every path and every   *)
(* set of roots that exist.                                                *)
(*                                                                         *)
(* The invariants follow from one theorem, ResolveIsOpened: when the       *)
(* kernel opens or creates something at a path, that is the place the      *)
(* policy takes the path for, whichever way it resolves it.                *)
(*                                                                         *)
(*   - realpath follows links as the kernel does, only more of them: a     *)
(*     walk that ends ends at the same place when it may follow more       *)
(*     links (MoreLinks), and what a name that is missing in a directory   *)
(*     comes to, whichever way its path is written and however many links  *)
(*     it takes, is what the kernel creates there (Onward, ComesBy,        *)
(*     WalkEnds);                                                          *)
(*   - the fast path asks lstat for every component below the root.  The   *)
(*     places walks reach are real, every prefix a directory (WalkReal),   *)
(*     so the root is, lstat finds what is there (LstatIs), no component   *)
(*     that can be reached is a link (PlainIsLinkless), and without ".."   *)
(*     the kernel's walk stays on the clean path (LinklessWalk).           *)
(*                                                                         *)
(* A walk is a function on the numbers of its steps; what is said of every *)
(* step is proved by induction on the set of those of which it holds.      *)
(***************************************************************************)
EXTENDS Paths, Recursion, TLAPS, SequenceTheorems

Path == Seq(Component)
Files == [Slot -> Entry]

----------------------------------------------------------------------------
(* Joining components. *)

\* The components of a path but the last, and the last.
LEMMA FrontIs ==
    ASSUME NEW p \in Path, p # <<>>
    PROVE  /\ Front(p) \in Path /\ Len(Front(p)) = Len(p) - 1 /\ Len(p) \in Nat \ {0}
           /\ Front(p) = SubSeq(p, 1, Len(p) - 1)
           /\ \A i \in 1 .. Len(p) - 1 : Front(p)[i] = p[i]
           /\ Last(p) = p[Len(p)] /\ Last(p) \in Component
           /\ p = Append(Front(p), Last(p))
<1>1. Len(p) \in Nat \ {0} /\ p \in Seq(Component)
  BY EmptySeq DEF Path
<1>2. Front(p) = SubSeq(p, 1, Len(p) - 1) /\ Last(p) = p[Len(p)]
  BY DEF Front, Last
<1>3. /\ SubSeq(p, 1, Len(p) - 1) \in Seq(Component) /\ Len(SubSeq(p, 1, Len(p) - 1)) = Len(p) - 1
      /\ \A i \in 1 .. Len(p) - 1 : SubSeq(p, 1, Len(p) - 1)[i] = p[i]
  BY <1>1
<1>4. p[Len(p)] \in Component
  BY <1>1
<1>5. p = Append(SubSeq(p, 1, Len(p) - 1), p[Len(p)])
  <2> DEFINE q == SubSeq(p, 1, Len(p) - 1)
             r == Append(q, p[Len(p)])
  <2> HIDE DEF q
  <2>1. /\ r \in Seq(Component) /\ Len(r) = Len(p)
        /\ \A i \in 1 .. Len(p) : r[i] = IF i = Len(p) THEN p[Len(p)] ELSE q[i]
    BY <1>1, <1>3, <1>4 DEF q
  <2>2. \A i \in 1 .. Len(p) : r[i] = p[i]
    BY <1>1, <1>3, <2>1 DEF q
  <2> HIDE DEF r
  <2>3. p = r
    BY <1>1, <2>1, <2>2, SeqEqual
  <2> QED
    BY <2>3 DEF q, r
<1> QED
  BY <1>1, <1>2, <1>3, <1>4, <1>5 DEF Path

LEMMA UpType == ASSUME NEW p \in Path PROVE Up(p) \in Path /\ (p # <<>> => Up(p) = Front(p))
BY FrontIs DEF Up

LEMMA JoinType ==
    ASSUME NEW p \in Path, NEW name \in Component
    PROVE  Join(p, name) \in Path
<1>1. Append(p, name) \in Path
  BY DEF Path
<1> QED
  BY <1>1, UpType DEF Join

LEMMA JoinedIs ==
    ASSUME NEW p \in Path, NEW a \in Path
    PROVE  /\ \A n \in 0 .. Len(a) : Joined(p, a)[n] \in Path
           /\ Joined(p, a)[0] = p
           /\ \A n \in 1 .. Len(a) : Joined(p, a)[n] = Join(Joined(p, a)[n - 1], a[n])
<1> DEFINE m == Len(a)
           step == [n \in 1 .. m |-> [q \in Path |-> Join(q, a[n])]]
           Is(f) == f = [n \in 0 .. m |-> IF n = 0 THEN p ELSE Join(f[n - 1], a[n])]
<1>1. m \in Nat /\ \A n \in 1 .. m : a[n] \in Component
  BY DEF Path
<1>2. step \in [1 .. m -> [Path -> Path]]
  <2> HIDE DEF m
  <2> QED
    BY <1>1, JoinType
<1>3. PICK f : Recursive(f, m, Path, p, step)
  <2> HIDE DEF m, step
  <2> QED
    BY <1>1, <1>2, RecursionUpTo
<1>4. \A n \in 1 .. m : f[n] = Join(f[n - 1], a[n])
  <2> TAKE n \in 1 .. m
  <2>1. n - 1 \in 0 .. m
    BY <1>1
  <2>2. f[n - 1] \in Path /\ f[n] = step[n][f[n - 1]]
    BY <1>3, <2>1 DEF Recursive
  <2> QED
    BY <2>2
<1>5. Is(f)
  <2> HIDE DEF m
  <2> QED
    BY <1>1, <1>3, <1>4 DEF Recursive
<1>6. Joined(p, a) = CHOOSE g : Is(g)
  BY DEF Joined
<1>7. Is(Joined(p, a))
  <2> HIDE DEF Is
  <2> QED
    BY <1>5, <1>6, Zenon
<1> DEFINE J == Joined(p, a)
           S == {n \in 0 .. m : J[n] \in Path}
<1>8. J[0] = p /\ \A n \in 1 .. m : J[n] = Join(J[n - 1], a[n])
  BY <1>1, <1>7
<1> HIDE DEF m, J
<1>9. 0 \in S /\ \A n \in 1 .. m : n - 1 \in S => n \in S
  <2>1. 0 \in S
    BY <1>1, <1>8
  <2>2. ASSUME NEW n \in 1 .. m, n - 1 \in S
        PROVE  n \in S
    <3>1. J[n] = Join(J[n - 1], a[n]) /\ J[n - 1] \in Path /\ a[n] \in Component
      BY <1>1, <1>8, <2>2
    <3> QED
      BY <3>1, JoinType
  <2> QED
    BY <2>1, <2>2
<1> HIDE DEF S
<1>10. 0 .. m \subseteq S
  BY <1>1, <1>9, InductionUpTo
<1> QED
  BY <1>8, <1>10 DEF S, J, m

LEMMA CleanType ==
    ASSUME NEW p \in Path, NEW a \in Path
    PROVE  JoinAll(p, a) \in Path /\ Clean(a) \in Path
<1>1. Len(a) \in 0 .. Len(a) /\ <<>> \in Path
  BY DEF Path
<1> QED
  BY <1>1, JoinedIs DEF JoinAll, Clean

----------------------------------------------------------------------------
(* Walks. *)

Walking == [at : Path, rest : Path, links : Nat, ok : {TRUE}] \cup {Lost}

LEMMA EntryTyped ==
    ASSUME NEW s \in Files, NEW p \in Path
    PROVE  /\ EntryIn(s, p) \in EntryType
           /\ EntryIn(s, p).kind = "link" =>
                  /\ EntryIn(s, p).abs \in BOOLEAN /\ EntryIn(s, p).target \in Path
                  /\ Len(EntryIn(s, p).target) <= Longest
<1>1. Missing \in EntryType /\ Dir \in EntryType
  BY DEF Missing, Dir, EntryType
<1>2. CASE p \in Slot
  <2>1. EntryIn(s, p) = s[p]
    BY <1>2, TreeAssumption, Zenon DEF EntryIn
  <2> QED
    BY <1>2, <2>1, TreeAssumption DEF Files, EntryType, Path
<1>3. CASE p \in DOMAIN Tree
  <2>1. EntryIn(s, p) = Tree[p]
    <3>1. p # <<>> /\ p \notin Slot
      BY <1>3, TreeAssumption
    <3> QED
      BY <1>3, <3>1, Zenon DEF EntryIn
  <2>2. Tree[p] \in EntryType /\ Tree[p] \in Range(Tree)
    BY <1>3, TreeAssumption DEF Range
  <2> QED
    BY <2>1, <2>2, TreeAssumption DEF EntryType, Path
<1>4. CASE p \notin Slot /\ p \notin DOMAIN Tree
  <2>1. EntryIn(s, p) \in {Missing, Dir}
    <3>1. CASE p = <<>>
      BY <1>4, <3>1, Zenon DEF EntryIn
    <3>2. CASE p # <<>>
      BY <1>4, <3>2, Zenon DEF EntryIn
    <3> QED
      BY <3>1, <3>2
  <2>2. Missing.kind # "link" /\ Dir.kind # "link"
    BY DEF Missing, Dir
  <2> QED
    BY <1>1, <2>1, <2>2
<1> QED
  BY <1>2, <1>3, <1>4

LEMMA AtIs ==
    /\ \A w \in Walking : \/ w = Lost /\ ~w.ok
                         \/ /\ w.at \in Path /\ w.rest \in Path /\ w.links \in Nat /\ w.ok
                            /\ w = At(w.at, w.rest, w.links)
    /\ \A p, r \in Path, l \in Nat : At(p, r, l) \in Walking
    /\ \A p, r, l : /\ At(p, r, l).at = p /\ At(p, r, l).rest = r
                   /\ At(p, r, l).links = l /\ At(p, r, l).ok
    /\ Lost \in Walking /\ ~Lost.ok
<1>1. \A w \in Walking : \/ w = Lost /\ ~w.ok
                        \/ /\ w.at \in Path /\ w.rest \in Path /\ w.links \in Nat /\ w.ok
                           /\ w = At(w.at, w.rest, w.links)
  <2>1. ~Lost.ok
    BY DEF Lost
  <2>2. ASSUME NEW w \in [at : Path, rest : Path, links : Nat, ok : {TRUE}]
        PROVE  /\ w.at \in Path /\ w.rest \in Path /\ w.links \in Nat /\ w.ok
               /\ w = At(w.at, w.rest, w.links)
    BY DEF At
  <2> QED
    BY <2>1, <2>2, Zenon DEF Walking
<1>2. \A p, r \in Path, l \in Nat : At(p, r, l) \in Walking
  BY DEF Walking, At
<1>3. \A p, r, l : /\ At(p, r, l).at = p /\ At(p, r, l).rest = r
                  /\ At(p, r, l).links = l /\ At(p, r, l).ok
  BY DEF At
<1>4. Lost \in Walking /\ ~Lost.ok
  BY DEF Walking, Lost
<1> QED
  BY <1>1, <1>2, <1>3, <1>4

\* What a step of a walk does, case by case.
LEMMA LookCases ==
    ASSUME NEW s, NEW w, w.ok, w.rest # <<>>
    PROVE  LET name == Head(w.rest)
               next == Append(w.at, name)
               entry == EntryIn(s, next)
               new == Look(s, w)
               dir == EntryIn(s, w.at).kind = "dir"
           IN  /\ ~dir => new = Lost
               /\ dir /\ name = "." => new = At(w.at, Tail(w.rest), w.links)
               /\ dir /\ name = ".." => new = At(Up(w.at), Tail(w.rest), w.links)
               /\ dir /\ name \notin Dots /\ entry.kind \in {"dir", "file"} =>
                      new = At(next, Tail(w.rest), w.links)
               /\ dir /\ name \notin Dots /\ entry.kind = "link" /\ w.links > 0 =>
                      new = At(IF entry.abs THEN <<>> ELSE w.at, entry.target \o Tail(w.rest), w.links - 1)
               /\ dir /\ name \notin Dots /\ entry.kind \notin {"dir", "file"}
                      /\ ~(entry.kind = "link" /\ w.links > 0) => new = Lost
<1> DEFINE name == Head(w.rest)
           next == Append(w.at, name)
           entry == EntryIn(s, next)
           new == Look(s, w)
           dir == EntryIn(s, w.at).kind = "dir"
<1>1. "." \in Dots /\ ".." \in Dots /\ "." # ".."
  BY DEF Dots
<1>2. entry.kind = "link" => entry.kind \notin {"dir", "file"}
  OBVIOUS
<1>3. ~dir => new = Lost
  BY Zenon DEF Look, Into
<1>4. dir /\ name = "." => new = At(w.at, Tail(w.rest), w.links)
  BY <1>1, Zenon DEF Look, Into
<1>5. dir /\ name = ".." => new = At(Up(w.at), Tail(w.rest), w.links)
  BY <1>1, Zenon DEF Look, Into
<1>6. dir /\ name \notin Dots /\ entry.kind \in {"dir", "file"} => new = At(next, Tail(w.rest), w.links)
  BY <1>1, <1>2, Zenon DEF Look, Into
<1>7. dir /\ name \notin Dots /\ entry.kind = "link" /\ w.links > 0 =>
          new = At(IF entry.abs THEN <<>> ELSE w.at, entry.target \o Tail(w.rest), w.links - 1)
  BY <1>1, <1>2, Zenon DEF Look, Into
<1>8. dir /\ name \notin Dots /\ entry.kind \notin {"dir", "file"}
          /\ ~(entry.kind = "link" /\ w.links > 0) => new = Lost
  BY <1>1, Zenon DEF Look, Into
<1> QED
  BY <1>3, <1>4, <1>5, <1>6, <1>7, <1>8

LEMMA LookIs ==
    ASSUME NEW s \in Files, NEW p \in Path, NEW r \in Path, r # <<>>, NEW l \in Nat
    PROVE  LET name == Head(r)
               next == Append(p, name)
               entry == EntryIn(s, next)
               new == Look(s, At(p, r, l))
               dir == EntryIn(s, p).kind = "dir"
           IN  /\ name \in Component /\ Tail(r) \in Path /\ next \in Path
               /\ ~dir => new = Lost
               /\ dir /\ name = "." => new = At(p, Tail(r), l)
               /\ dir /\ name = ".." => new = At(Up(p), Tail(r), l)
               /\ dir /\ name \notin Dots /\ entry.kind \in {"dir", "file"} => new = At(next, Tail(r), l)
               /\ dir /\ name \notin Dots /\ entry.kind = "link" /\ l > 0 =>
                      new = At(IF entry.abs THEN <<>> ELSE p, entry.target \o Tail(r), l - 1)
               /\ dir /\ name \notin Dots /\ entry.kind \notin {"dir", "file"}
                      /\ ~(entry.kind = "link" /\ l > 0) => new = Lost
<1>1. Head(r) \in Component /\ Tail(r) \in Path /\ Append(p, Head(r)) \in Path
  BY DEF Path
<1> DEFINE w == At(p, r, l)
<1>2. w.at = p /\ w.rest = r /\ w.links = l /\ w.ok
  BY AtIs
<1> HIDE DEF w
<1> QED
  BY <1>1, <1>2, LookCases DEF w

LEMMA LookEnds ==
    ASSUME NEW s, NEW w, ~w.ok \/ w.rest = <<>>
    PROVE  Look(s, w) = w
BY Zenon DEF Look

LEMMA LookType ==
    ASSUME NEW s \in Files, NEW w \in Walking
    PROVE  Look(s, w) \in Walking
<1>1. CASE w = Lost \/ w.rest = <<>>
  <2>1. Look(s, w) = w
    BY <1>1, AtIs, LookEnds
  <2> QED
    BY <2>1
<1>2. CASE w # Lost /\ w.rest # <<>>
  <2> DEFINE p == w.at
             r == w.rest
             l == w.links
             next == Append(p, Head(r))
             entry == EntryIn(s, next)
  <2>1. p \in Path /\ r \in Path /\ l \in Nat /\ w = At(p, r, l) /\ r # <<>>
    BY <1>2, AtIs
  <2> HIDE DEF p, r, l
  <2>2. Tail(r) \in Path /\ next \in Path /\ Up(p) \in Path
    BY <2>1, LookIs, UpType
  <2>3. entry.kind = "link" => entry.target \o Tail(r) \in Path
    <3>1. entry.kind = "link" => entry.target \in Path
      BY <2>2, EntryTyped
    <3> HIDE DEF entry
    <3> QED
      BY <2>2, <3>1 DEF Path
  <2>4. (IF entry.abs THEN <<>> ELSE p) \in Path
    BY <2>1 DEF Path
  <2>5. l > 0 => l - 1 \in Nat
    BY <2>1
  <2>6. \E q, t \in Path, k \in Nat : Look(s, At(p, r, l)) \in {Lost, At(q, t, k)}
    <3> DEFINE new == Look(s, At(p, r, l))
               dir == EntryIn(s, p).kind = "dir"
    <3>1. /\ ~dir => new = Lost
          /\ dir /\ Head(r) = "." => new = At(p, Tail(r), l)
          /\ dir /\ Head(r) = ".." => new = At(Up(p), Tail(r), l)
          /\ dir /\ Head(r) \notin Dots /\ entry.kind \in {"dir", "file"} => new = At(next, Tail(r), l)
          /\ dir /\ Head(r) \notin Dots /\ entry.kind = "link" /\ l > 0 =>
                 new = At(IF entry.abs THEN <<>> ELSE p, entry.target \o Tail(r), l - 1)
          /\ dir /\ Head(r) \notin Dots /\ entry.kind \notin {"dir", "file"}
                 /\ ~(entry.kind = "link" /\ l > 0) => new = Lost
      BY <2>1, LookIs
    <3>2. Head(r) \in Dots => Head(r) \in {".", ".."}
      BY DEF Dots
    <3> HIDE DEF next, entry, new, dir
    <3> QED
      BY <2>1, <2>2, <2>3, <2>4, <2>5, <3>1, <3>2 DEF new
  <2> QED
    BY <2>1, <2>6, AtIs
<1> QED
  BY <1>1, <1>2

\* A walk is its steps.
LEMMA WalkIs ==
    ASSUME NEW s \in Files, NEW a \in Path, NEW l \in Nat
    PROVE  /\ Steps(a, l) \in Nat /\ Len(a) <= Steps(a, l)
           /\ \A n \in 0 .. Steps(a, l) : Walk(s, a, l)[n] \in Walking
           /\ Walk(s, a, l)[0] = At(<<>>, a, l)
           /\ \A n \in 1 .. Steps(a, l) : Walk(s, a, l)[n] = Look(s, Walk(s, a, l)[n - 1])
<1> DEFINE m == Steps(a, l)
           step == [n \in 1 .. m |-> [w \in Walking |-> Look(s, w)]]
           Is(f) == f = [n \in 0 .. m |-> IF n = 0 THEN At(<<>>, a, l) ELSE Look(s, f[n - 1])]
<1>1. m \in Nat /\ Len(a) <= m
  <2>1. Len(a) \in Nat /\ Longest \in Nat
    BY TreeAssumption DEF Path
  <2>2. l * Longest \in Nat
    BY <2>1
  <2> QED
    BY <2>1, <2>2 DEF Steps
<1>2. At(<<>>, a, l) \in Walking
  <2>1. <<>> \in Path
    BY DEF Path
  <2> QED
    BY <2>1, AtIs
<1>3. step \in [1 .. m -> [Walking -> Walking]]
  <2> HIDE DEF m
  <2> QED
    BY LookType
<1>4. PICK f : Recursive(f, m, Walking, At(<<>>, a, l), step)
  <2> HIDE DEF m, step
  <2> QED
    BY <1>1, <1>2, <1>3, RecursionUpTo
<1>5. \A n \in 1 .. m : f[n] = Look(s, f[n - 1])
  <2> TAKE n \in 1 .. m
  <2> HIDE DEF m
  <2>1. n - 1 \in 0 .. m
    BY <1>1
  <2>2. f[n - 1] \in Walking /\ f[n] = step[n][f[n - 1]]
    BY <1>4, <2>1 DEF Recursive
  <2> QED
    BY <2>2
<1>6. Is(f)
  <2> HIDE DEF m
  <2> QED
    BY <1>1, <1>4, <1>5 DEF Recursive
<1>7. Walk(s, a, l) = CHOOSE g : Is(g)
  BY DEF Walk
<1>8. Is(Walk(s, a, l))
  <2> HIDE DEF Is
  <2> QED
    BY <1>6, <1>7, Zenon
<1> DEFINE W == Walk(s, a, l)
           S == {n \in 0 .. m : W[n] \in Walking}
<1>9. W[0] = At(<<>>, a, l) /\ \A n \in 1 .. m : W[n] = Look(s, W[n - 1])
  <2> HIDE DEF m
  <2> QED
    BY <1>1, <1>8
<1> HIDE DEF m, W
<1>10. 0 \in S
  BY <1>1, <1>2, <1>9
<1>11. ASSUME NEW n \in 1 .. m, n - 1 \in S
       PROVE  n \in S
  <2>1. W[n] = Look(s, W[n - 1]) /\ W[n - 1] \in Walking
    BY <1>1, <1>9, <1>11
  <2> QED
    BY <2>1, LookType
<1> HIDE DEF S
<1>12. 0 .. m \subseteq S
  BY <1>1, <1>10, <1>11, InductionUpTo
<1> QED
  BY <1>1, <1>9, <1>12 DEF S, W, m

\* A walk that has ended, or failed, stays as it is.
LEMMA EndStays ==
    ASSUME NEW s \in Files, NEW a \in Path, NEW l \in Nat, NEW n \in 0 .. Steps(a, l),
           ~Walk(s, a, l)[n].ok \/ Walk(s, a, l)[n].rest = <<>>
    PROVE  /\ Walk(s, a, l)[Steps(a, l)] = Walk(s, a, l)[n]
           /\ Reached(s, a, l) = IF Walk(s, a, l)[n].ok THEN Place(Walk(s, a, l)[n].at) ELSE Fails
<1> DEFINE m == Steps(a, l)
           W == Walk(s, a, l)
           S == {k \in 0 .. m : k >= n => W[k] = W[n]}
<1>1. m \in Nat /\ \A k \in 1 .. m : W[k] = Look(s, W[k - 1]) /\ W[k - 1] \in Walking
  BY WalkIs
<1>2. Look(s, W[n]) = W[n]
  BY LookEnds
<1> HIDE DEF W, m
<1>3. 0 \in S
  <2>1. n \in Nat /\ (0 >= n => n = 0)
    BY <1>1 DEF m
  <2> QED
    BY <1>1, <2>1
<1>4. ASSUME NEW k \in 1 .. m, k - 1 \in S
      PROVE  k \in S
  <2>1. CASE k >= n + 1
    <3>1. W[k - 1] = W[n]
      BY <1>1, <1>4, <2>1 DEF m
    <3> QED
      BY <1>1, <1>2, <3>1
  <2>2. CASE ~(k >= n + 1)
    <3>1. k >= n => k = n
      BY <1>1, <2>2 DEF m
    <3> QED
      BY <1>1, <3>1
  <2> QED
    BY <2>1, <2>2
<1> HIDE DEF S
<1>5. 0 .. m \subseteq S
  BY <1>1, <1>3, <1>4, InductionUpTo
<1>6. W[m] = W[n]
  <2>1. m \in 0 .. m /\ m >= n
    BY <1>1 DEF m
  <2> QED
    BY <1>5, <2>1 DEF S
<1> QED
  BY <1>6, Zenon DEF Reached, End, W, m

LEMMA ReachedType ==
    ASSUME NEW s \in Files, NEW a \in Path, NEW l \in Nat
    PROVE  /\ Reached(s, a, l).ok => /\ Reached(s, a, l).place \in Path
                                     /\ Reached(s, a, l) = Place(Reached(s, a, l).place)
           /\ ~Reached(s, a, l).ok => Reached(s, a, l) = Fails
           /\ Reached(s, a, l).ok \in BOOLEAN
<1> DEFINE end == Walk(s, a, l)[Steps(a, l)]
<1>1. end \in Walking
  BY WalkIs
<1>2. Reached(s, a, l) = IF end.ok /\ end.rest = <<>> THEN Place(end.at) ELSE Fails
  BY Zenon DEF Reached, End
<1> HIDE DEF end
<1>3. end.ok => end.at \in Path
  BY <1>1, AtIs
<1>4. \A p : Place(p).ok = TRUE /\ Place(p).place = p
  BY DEF Place
<1>5. Fails.ok = FALSE
  BY DEF Fails
<1> QED
  BY <1>2, <1>3, <1>4, <1>5

\* A walk with more components at the end, and more links to follow.
Longer(w, q, d) == At(w.at, w.rest \o q, w.links + d)

LEMMA ConcatIs ==
    ASSUME NEW p \in Path, NEW q \in Path
    PROVE  /\ p \o q \in Path /\ Len(p \o q) = Len(p) + Len(q) /\ Len(p) \in Nat /\ Len(q) \in Nat
           /\ p \o <<>> = p /\ <<>> \o p = p
           /\ p # <<>> => /\ p \o q # <<>> /\ Head(p \o q) = Head(p) /\ Tail(p \o q) = Tail(p) \o q
<1>1. p \in Seq(Component) /\ q \in Seq(Component)
  BY DEF Path
<1>3. ASSUME p # <<>>
      PROVE  p \o q # <<>> /\ Head(p \o q) = Head(p) /\ Tail(p \o q) = Tail(p) \o q
  <2> DEFINE u == Tail(p \o q)
             v == Tail(p) \o q
  <2>1. Len(p) \in Nat /\ Len(p) > 0 /\ Len(q) \in Nat
    BY <1>1, <1>3, EmptySeq
  <2>2. p \o q \in Seq(Component) /\ Len(p \o q) = Len(p) + Len(q) /\ p \o q # <<>> /\ Head(p \o q) = Head(p)
    BY <1>1, <2>1
  <2>3. u \in Seq(Component) /\ v \in Seq(Component) /\ Len(u) = Len(v)
    BY <1>1, <1>3, <2>1, <2>2
  <2>4. \A i \in 1 .. Len(u) : u[i] = v[i]
    BY <1>1, <1>3, <2>1, <2>2
  <2>5. u = v
    <3> HIDE DEF u, v
    <3> QED
      BY <2>3, <2>4, SeqEqual
  <2> QED
    BY <2>2, <2>5
<1> QED
  BY <1>1, <1>3, ConcatProperties, ConcatEmptySeq DEF Path

LEMMA ConcatMore ==
    ASSUME NEW p \in Path, NEW q \in Path, NEW r \in Path
    PROVE  (p \o q) \o r = p \o (q \o r)
<1>1. p \in Seq(Component) /\ q \in Seq(Component) /\ r \in Seq(Component)
  BY DEF Path
<1> QED
  BY <1>1, ConcatAssociative, SMTT(40)

\* It does the same.
LEMMA LookFurther ==
    ASSUME NEW s \in Files, NEW w \in Walking, Look(s, w).ok, NEW q \in Path, NEW d \in Nat,
           w.rest # <<>> \/ q = <<>>
    PROVE  w.ok /\ Look(s, Longer(w, q, d)) = Longer(Look(s, w), q, d)
<1>1. w.ok
  BY AtIs, LookEnds
<1> DEFINE p == w.at
           r == w.rest
           i == w.links
<1>2. p \in Path /\ r \in Path /\ i \in Nat /\ w = At(p, r, i)
  BY <1>1, AtIs
<1>3. CASE r = <<>>
  <2>1. r \o q = <<>>
    BY <1>2, <1>3, ConcatIs
  <2> QED
    BY <1>1, <1>3, <2>1, AtIs, LookEnds DEF Longer
<1>4. CASE r # <<>>
  <2> DEFINE name == Head(r)
             next == Append(p, name)
             entry == EntryIn(s, next)
             new == Look(s, At(p, r, i))
             more == Look(s, At(p, r \o q, i + d))
             dir == EntryIn(s, p).kind = "dir"
  <2> HIDE DEF p, r, i
  <2>1. /\ r \o q \in Path /\ r \o q # <<>> /\ Head(r \o q) = name /\ Tail(r \o q) = Tail(r) \o q
        /\ i + d \in Nat
    <3>1. i + d \in Nat
      BY <1>2
    <3>2. r \in Path /\ r # <<>>
      BY <1>2, <1>4
    <3> HIDE DEF name
    <3>3. r \o q \in Path /\ r \o q # <<>> /\ Head(r \o q) = Head(r) /\ Tail(r \o q) = Tail(r) \o q
      BY <3>2, ConcatIs
    <3> QED
      BY <3>1, <3>3, Zenon DEF name
  <2>2. /\ name \in Component /\ Tail(r) \in Path
        /\ ~dir => new = Lost
        /\ dir /\ name = "." => new = At(p, Tail(r), i)
        /\ dir /\ name = ".." => new = At(Up(p), Tail(r), i)
        /\ dir /\ name \notin Dots /\ entry.kind \in {"dir", "file"} => new = At(next, Tail(r), i)
        /\ dir /\ name \notin Dots /\ entry.kind = "link" /\ i > 0 =>
               new = At(IF entry.abs THEN <<>> ELSE p, entry.target \o Tail(r), i - 1)
        /\ dir /\ name \notin Dots /\ entry.kind \notin {"dir", "file"}
               /\ ~(entry.kind = "link" /\ i > 0) => new = Lost
        /\ next \in Path
    BY <1>2, <1>4, LookIs
  <2>3. ASSUME NEW u \in Path, u # <<>>, Head(u) = name
        PROVE  LET longer == Look(s, At(p, u, i + d))
               IN  /\ dir /\ name = "." => longer = At(p, Tail(u), i + d)
                   /\ dir /\ name = ".." => longer = At(Up(p), Tail(u), i + d)
                   /\ dir /\ name \notin Dots /\ entry.kind \in {"dir", "file"} => longer = At(next, Tail(u), i + d)
                   /\ dir /\ name \notin Dots /\ entry.kind = "link" /\ i + d > 0 =>
                          longer = At(IF entry.abs THEN <<>> ELSE p, entry.target \o Tail(u), (i + d) - 1)
    <3>1. LET first == Head(u)
              there == Append(p, first)
              e == EntryIn(s, there)
              longer == Look(s, At(p, u, i + d))
              here == EntryIn(s, p).kind = "dir"
          IN  /\ here /\ first = "." => longer = At(p, Tail(u), i + d)
              /\ here /\ first = ".." => longer = At(Up(p), Tail(u), i + d)
              /\ here /\ first \notin Dots /\ e.kind \in {"dir", "file"} => longer = At(there, Tail(u), i + d)
              /\ here /\ first \notin Dots /\ e.kind = "link" /\ i + d > 0 =>
                     longer = At(IF e.abs THEN <<>> ELSE p, e.target \o Tail(u), (i + d) - 1)
      BY <1>2, <2>1, <2>3, LookIs
    <3> QED
      BY <2>3, <3>1
  <2>4. /\ dir /\ name = "." => more = At(p, Tail(r) \o q, i + d)
        /\ dir /\ name = ".." => more = At(Up(p), Tail(r) \o q, i + d)
        /\ dir /\ name \notin Dots /\ entry.kind \in {"dir", "file"} => more = At(next, Tail(r) \o q, i + d)
        /\ dir /\ name \notin Dots /\ entry.kind = "link" /\ i + d > 0 =>
               more = At(IF entry.abs THEN <<>> ELSE p, entry.target \o (Tail(r) \o q), (i + d) - 1)
    BY <2>1, <2>3
  <2>5. entry.kind = "link" => entry.target \o (Tail(r) \o q) = (entry.target \o Tail(r)) \o q
    <3>1. entry.kind = "link" => entry.target \in Path
      BY <2>2, EntryTyped
    <3> HIDE DEF entry
    <3> DEFINE u == Tail(r)
               x == entry.target
    <3>2. u \in Path
      BY <2>2
    <3> HIDE DEF u, x
    <3>3. x \in Path => x \o (u \o q) = (x \o u) \o q
      BY <3>2, ConcatMore
    <3> QED
      BY <3>1, <3>3 DEF u, x
  <2>6. dir /\ new # Lost
    BY <1>2, <2>2, AtIs
  <2>7. name \in Dots => name \in {".", ".."}
    BY DEF Dots
  <2> HIDE DEF dir, name, next, entry, new, more
  <2>8. \E t, u, j : new = At(t, u, j) /\ more = At(t, u \o q, j + d)
    <3>1. CASE name \notin Dots /\ entry.kind = "link"
      <4>1. i > 0 /\ i + d > 0 /\ (i + d) - 1 = (i - 1) + d
        BY <1>2, <2>2, <2>6, <3>1
      <4> QED
        BY <2>2, <2>4, <2>5, <2>6, <3>1, <4>1
    <3>2. CASE name \in Dots
      BY <2>2, <2>4, <2>6, <2>7, <3>2
    <3>3. CASE name \notin Dots /\ entry.kind # "link"
      BY <2>2, <2>4, <2>6, <3>3
    <3> QED
      BY <3>1, <3>2, <3>3
  <2>9. more = At(new.at, new.rest \o q, new.links + d)
    BY <2>8, AtIs
  <2> QED
    BY <1>1, <1>2, <2>9 DEF new, more, p, r, i, Longer
<1> QED
  BY <1>3, <1>4

\* Step j of the walk of b is step i of that of a, but for that.
Ahead(s, a, k, i, b, l, j, q, d) == Walk(s, b, l)[j] = Longer(Walk(s, a, k)[i], q, d)

\* And so are the steps after it.
LEMMA WalkFurther ==
    ASSUME NEW s \in Files, NEW a \in Path, NEW k \in Nat, NEW b \in Path, NEW l \in Nat,
           NEW i \in Nat, NEW j \in Nat, NEW q \in Path, NEW d \in Nat,
           Ahead(s, a, k, i, b, l, j, q, d),
           NEW x \in Nat, NEW y \in Nat, x >= i, y - j = x - i, x <= Steps(a, k), y <= Steps(b, l),
           \A n \in Nat : i <= n /\ n < x => Walk(s, a, k)[n].rest # <<>> \/ q = <<>>,
           Walk(s, a, k)[x].ok
    PROVE  Ahead(s, a, k, x, b, l, y, q, d)
<1> DEFINE V == Walk(s, a, k)
           W == Walk(s, b, l)
           m == x - i
           S == {n \in 0 .. m : V[i + n].ok => W[j + n] = Longer(V[i + n], q, d)}
<1>1. /\ Steps(a, k) \in Nat /\ Steps(b, l) \in Nat
      /\ \A n \in 0 .. Steps(a, k) : V[n] \in Walking
      /\ \A n \in 1 .. Steps(a, k) : V[n] = Look(s, V[n - 1])
      /\ \A n \in 1 .. Steps(b, l) : W[n] = Look(s, W[n - 1])
  BY WalkIs
<1>2. /\ V[i + 0] = V[i] /\ W[j + 0] = W[j] /\ m \in Nat /\ i + m = x /\ j + m = y
      /\ i + m <= Steps(a, k) /\ j + m <= Steps(b, l)
  OBVIOUS
<1> HIDE DEF V, W, m
<1>3. 0 \in S
  BY <1>2 DEF V, W, Ahead
<1>4. ASSUME NEW n \in 1 .. m, n - 1 \in S
      PROVE  n \in S
  <2> SUFFICES ASSUME V[i + n].ok PROVE W[j + n] = Longer(V[i + n], q, d)
    OBVIOUS
  <2>1. /\ i + n \in 1 .. Steps(a, k) /\ j + n \in 1 .. Steps(b, l)
        /\ (i + n) - 1 = i + (n - 1) /\ (j + n) - 1 = j + (n - 1)
        /\ i + (n - 1) \in Nat /\ i <= i + (n - 1) /\ i + (n - 1) < x /\ i + (n - 1) \in 0 .. Steps(a, k)
    <3> DEFINE u == Steps(a, k)
               v == Steps(b, l)
    <3>1. u \in Nat /\ v \in Nat /\ m \in Nat /\ i + m = x /\ i + m <= u /\ j + m <= v
      BY <1>1, <1>2
    <3> HIDE DEF u, v, S
    <3>4. n \in Nat /\ 1 <= n /\ n <= m
      BY <3>1
    <3>5. (i + n) - 1 = i + (n - 1) /\ (j + n) - 1 = j + (n - 1)
      BY <3>4
    <3>6. i + n \in 1 .. u
      BY <3>1, <3>4
    <3>7. j + n \in 1 .. v
      BY <3>1, <3>4
    <3>2. /\ i + n \in 1 .. u /\ j + n \in 1 .. v
          /\ (i + n) - 1 = i + (n - 1) /\ (j + n) - 1 = j + (n - 1)
      BY <3>5, <3>6, <3>7
    <3>3. i + (n - 1) \in Nat /\ i <= i + (n - 1) /\ i + (n - 1) < x /\ i + (n - 1) \in 0 .. u
      BY <3>1, <3>4
    <3> QED
      BY <3>2, <3>3 DEF u, v
  <2>2. /\ V[i + n] = Look(s, V[i + (n - 1)]) /\ W[j + n] = Look(s, W[j + (n - 1)])
        /\ V[i + (n - 1)] \in Walking
    BY <1>1, <2>1
  <2>3. V[i + (n - 1)].rest # <<>> \/ q = <<>>
    BY <2>1 DEF V
  <2>4. V[i + (n - 1)].ok
    BY <2>2, <2>3, LookFurther
  <2>5. W[j + (n - 1)] = Longer(V[i + (n - 1)], q, d)
    BY <1>4, <2>4
  <2> QED
    BY <2>2, <2>3, <2>5, LookFurther
<1>5. m \in S
  <2> HIDE DEF S
  <2>1. 0 .. m \subseteq S
    BY <1>2, <1>3, <1>4, InductionUpTo
  <2> QED
    BY <1>2, <2>1
<1>6. V[x].ok => W[y] = Longer(V[x], q, d)
  BY <1>2, <1>5
<1> QED
  BY <1>6 DEF V, W, Ahead

\* A walk that ends with few links ends there with more.
LEMMA MoreLinks ==
    ASSUME NEW s \in Files, NEW a \in Path, NEW k \in Nat, NEW g \in Nat, k <= g,
           Reached(s, a, k).ok
    PROVE  Reached(s, a, g) = Reached(s, a, k)
<1> DEFINE m == Steps(a, k)
           V == Walk(s, a, k)
           W == Walk(s, a, g)
           d == g - k
<1>1. d \in Nat /\ k + d = g
  OBVIOUS
<1>2. m \in Nat /\ Steps(a, g) \in Nat /\ m <= Steps(a, g)
  <2> DEFINE x == k * Longest
             y == d * Longest
  <2>1. Longest \in Nat /\ Len(a) \in Nat
    BY TreeAssumption DEF Path
  <2>2. g * Longest = x + y /\ x \in Nat /\ y \in Nat
    BY <1>1, <2>1
  <2>3. m = Len(a) + x /\ Steps(a, g) = Len(a) + (x + y)
    BY <2>2 DEF Steps
  <2> HIDE DEF x, y, m
  <2> QED
    BY <2>1, <2>2, <2>3
<1>3. V[m].ok /\ V[m].rest = <<>> /\ Reached(s, a, k) = Place(V[m].at)
  <2>1. Reached(s, a, k) = IF V[m].ok /\ V[m].rest = <<>> THEN Place(V[m].at) ELSE Fails
    BY Zenon DEF Reached, End
  <2> QED
    BY <2>1 DEF Fails
<1>4. <<>> \in Path /\ a \o <<>> = a /\ <<>> \o <<>> = <<>>
  BY ConcatIs DEF Path
<1>5. Ahead(s, a, k, 0, a, g, 0, <<>>, d)
  <2>1. V[0] = At(<<>>, a, k) /\ W[0] = At(<<>>, a, g)
    BY WalkIs
  <2>2. W[0] = Longer(V[0], <<>>, d)
    <3> HIDE DEF V, W, d
    <3> QED
      BY <1>1, <1>4, <2>1, AtIs DEF Longer
  <2> QED
    BY <2>2 DEF Ahead
<1>6. Ahead(s, a, k, m, a, g, m, <<>>, d)
  <2>1. m >= 0 /\ m - 0 = m - 0 /\ m <= Steps(a, k)
    BY <1>2
  <2> HIDE DEF m, d
  <2> QED
    BY <1>1, <1>2, <1>3, <1>4, <1>5, <2>1, WalkFurther
<1>7. W[m].ok /\ W[m].rest = <<>> /\ W[m].at = V[m].at
  <2>1. W[m] = Longer(V[m], <<>>, d)
    BY <1>6 DEF Ahead
  <2> HIDE DEF V, W, m, d
  <2> QED
    BY <1>3, <1>4, <2>1, AtIs DEF Longer
<1>8. m \in 0 .. Steps(a, g)
  BY <1>2
<1> QED
  BY <1>3, <1>7, <1>8, EndStays

\* The step at which a walk ends.
LEMMA FirstEnd ==
    ASSUME NEW s \in Files, NEW b \in Path, NEW l \in Nat, Reached(s, b, l).ok
    PROVE  \E n \in 0 .. Steps(b, l), i \in Nat :
              /\ Walk(s, b, l)[n] = At(Reached(s, b, l).place, <<>>, i)
              /\ \A k \in 0 .. n - 1 : Walk(s, b, l)[k].rest # <<>>
<1> DEFINE m == Steps(b, l)
           V == Walk(s, b, l)
           Z == {n \in 0 .. m : V[n].ok /\ V[n].rest = <<>>}
<1>1. /\ m \in Nat /\ \A n \in 0 .. m : V[n] \in Walking
  BY WalkIs
<1>2. m \in Z
  <2>1. Reached(s, b, l) = IF V[m].ok /\ V[m].rest = <<>> THEN Place(V[m].at) ELSE Fails
    BY Zenon DEF Reached, End
  <2>2. V[m].ok /\ V[m].rest = <<>>
    BY <2>1 DEF Fails
  <2> QED
    BY <1>1, <2>2
<1>3. PICK n \in Z : \A k \in Z : n <= k
  <2>1. Z \in SUBSET Nat
    BY <1>1
  <2> QED
    BY <1>2, <2>1, LeastOfNaturals
<1>4. /\ n \in 0 .. m /\ V[n].ok /\ V[n].rest = <<>> /\ Reached(s, b, l) = Place(V[n].at)
  <2>1. n \in 0 .. m /\ V[n].ok /\ V[n].rest = <<>>
    OBVIOUS
  <2> QED
    BY <2>1, EndStays
<1>5. V[n] = At(Reached(s, b, l).place, <<>>, V[n].links) /\ V[n].links \in Nat
  BY <1>1, <1>4, AtIs DEF Place
<1>6. ASSUME NEW k \in 0 .. n - 1, V[k].rest = <<>> PROVE FALSE
  <2>1. k \in 0 .. m /\ ~(n <= k)
    BY <1>1, <1>4
  <2>2. V[k].ok
    <3>1. V[k] # Lost
      <4>1. ~Lost.ok
        BY AtIs
      <4>2. V[k] = Lost => V[m] = Lost
        BY <2>1, <4>1, EndStays
      <4>3. V[m].ok
        BY <1>2
      <4> QED
        BY <4>1, <4>2, <4>3
    <3> QED
      BY <1>1, <2>1, <3>1, AtIs
  <2>3. k \in Z
    BY <1>6, <2>1, <2>2
  <2> QED
    BY <1>3, <2>1, <2>3
<1> QED
  BY <1>4, <1>5, <1>6

----------------------------------------------------------------------------
(* Prefixes. *)

LEMMA PrefixIs ==
    ASSUME NEW p \in Path, NEW j \in 0 .. Len(p)
    PROVE  /\ Len(p) \in Nat /\ j \in Nat
           /\ SubSeq(p, 1, j) \in Path /\ Len(SubSeq(p, 1, j)) = j
           /\ \A i \in 1 .. j : SubSeq(p, 1, j)[i] = p[i] /\ p[i] \in Component
           /\ \A k \in 0 .. j : SubSeq(SubSeq(p, 1, j), 1, k) = SubSeq(p, 1, k)
           /\ SubSeq(p, 1, Len(p)) = p /\ SubSeq(p, 1, 0) = <<>>
           /\ j > 0 => SubSeq(p, 1, j) = Append(SubSeq(p, 1, j - 1), p[j])
<1>1. p \in Seq(Component) /\ Len(p) \in Nat /\ j \in Nat /\ j <= Len(p)
  BY DEF Path
<1>2. /\ SubSeq(p, 1, j) \in Seq(Component) /\ Len(SubSeq(p, 1, j)) = j
      /\ \A i \in 1 .. j : SubSeq(p, 1, j)[i] = p[i] /\ p[i] \in Component
  BY <1>1
<1>3. SubSeq(p, 1, Len(p)) = p /\ SubSeq(p, 1, 0) = <<>>
  BY <1>1, SeqEqual
<1>4. ASSUME NEW k \in 0 .. j
      PROVE  SubSeq(SubSeq(p, 1, j), 1, k) = SubSeq(p, 1, k)
  <2> DEFINE q == SubSeq(p, 1, j)
             u == SubSeq(q, 1, k)
             v == SubSeq(p, 1, k)
  <2>1. v \in Seq(Component) /\ Len(v) = k /\ \A i \in 1 .. k : v[i] = p[i]
    BY <1>1
  <2> HIDE DEF q
  <2>2. u \in Seq(Component) /\ Len(u) = k /\ \A i \in 1 .. k : u[i] = p[i]
    BY <1>1, <1>2 DEF q
  <2> HIDE DEF u, v
  <2>3. u = v
    BY <2>1, <2>2, SeqEqual
  <2> QED
    BY <2>3 DEF u, v, q
<1>5. ASSUME j > 0
      PROVE  SubSeq(p, 1, j) = Append(SubSeq(p, 1, j - 1), p[j])
  <2> DEFINE q == SubSeq(p, 1, j - 1)
             u == Append(q, p[j])
             v == SubSeq(p, 1, j)
  <2>1. q \in Seq(Component) /\ Len(q) = j - 1 /\ \A i \in 1 .. j - 1 : q[i] = p[i]
    BY <1>1, <1>5
  <2>2. p[j] \in Component /\ (j - 1) + 1 = j
    BY <1>1, <1>5
  <2> HIDE DEF q
  <2>3. u \in Seq(Component) /\ Len(u) = j /\ \A i \in 1 .. j : u[i] = p[i]
    BY <1>1, <1>5, <2>1, <2>2
  <2>4. v \in Seq(Component) /\ Len(v) = j /\ \A i \in 1 .. j : v[i] = p[i]
    BY <1>2
  <2> HIDE DEF u, v
  <2>5. u = v
    BY <2>3, <2>4, SeqEqual
  <2> QED
    BY <2>5 DEF u, v, q
<1> QED
  BY <1>1, <1>2, <1>3, <1>4, <1>5 DEF Path

LEMMA AppendIs ==
    ASSUME NEW p \in Path, NEW x \in Component
    PROVE  /\ Append(p, x) \in Path /\ Len(Append(p, x)) = Len(p) + 1 /\ Len(p) \in Nat
           /\ Append(p, x)[Len(p) + 1] = x /\ Append(p, x) # <<>>
           /\ \A i \in 1 .. Len(p) : Append(p, x)[i] = p[i]
           /\ \A j \in 0 .. Len(p) : SubSeq(Append(p, x), 1, j) = SubSeq(p, 1, j)
<1> DEFINE q == Append(p, x)
<1>1. /\ q \in Seq(Component) /\ Len(q) = Len(p) + 1 /\ Len(p) \in Nat
      /\ q[Len(p) + 1] = x /\ q # <<>> /\ \A i \in 1 .. Len(p) : q[i] = p[i]
  BY DEF Path
<1> HIDE DEF q
<1>2. ASSUME NEW j \in 0 .. Len(p)
      PROVE  SubSeq(q, 1, j) = SubSeq(p, 1, j)
  <2> DEFINE u == SubSeq(q, 1, j)
             v == SubSeq(p, 1, j)
  <2>1. v \in Seq(Component) /\ Len(v) = j /\ \A i \in 1 .. j : v[i] = p[i]
    BY PrefixIs DEF Path
  <2>2. u \in Seq(Component) /\ Len(u) = j /\ \A i \in 1 .. j : u[i] = p[i]
    BY <1>1
  <2> HIDE DEF u, v
  <2>3. u = v
    BY <2>1, <2>2, SeqEqual
  <2> QED
    BY <2>3 DEF u, v
<1> QED
  BY <1>1, <1>2 DEF q, Path

\* What is left of a path after some components.
LEMMA RestIs ==
    ASSUME NEW a \in Path, NEW n \in 1 .. Len(a)
    PROVE  /\ SubSeq(a, n, Len(a)) \in Path /\ SubSeq(a, n, Len(a)) # <<>>
           /\ Head(SubSeq(a, n, Len(a))) = a[n] /\ a[n] \in Component
           /\ Tail(SubSeq(a, n, Len(a))) = SubSeq(a, n + 1, Len(a))
           /\ SubSeq(a, Len(a) + 1, Len(a)) = <<>>
<1> DEFINE r == SubSeq(a, n, Len(a))
           t == Tail(r)
           u == SubSeq(a, n + 1, Len(a))
<1>1. Len(a) \in Nat /\ a \in Seq(Component)
  BY DEF Path
<1>2. /\ r \in Seq(Component) /\ Len(r) = Len(a) - n + 1
      /\ \A i \in 1 .. Len(a) - n + 1 : r[i] = a[n + i - 1]
  BY <1>1
<1>3. /\ u \in Seq(Component) /\ Len(u) = Len(a) - n
      /\ \A i \in 1 .. Len(a) - n : u[i] = a[n + i]
  BY <1>1
<1> HIDE DEF r, u
<1>4. r # <<>> /\ Head(r) = a[n] /\ a[n] \in Component
  <2>1. a[n] \in Component /\ Len(a) - n + 1 > 0 /\ 1 \in 1 .. Len(a) - n + 1 /\ n + 1 - 1 = n
    BY <1>1
  <2>2. Len(r) > 0 /\ r[1] = a[n]
    BY <1>2, <2>1
  <2> QED
    BY <1>2, <2>1, <2>2
<1>5. /\ t \in Seq(Component) /\ Len(t) = Len(a) - n
      /\ \A i \in 1 .. Len(a) - n : t[i] = a[n + i]
  <2>1. t \in Seq(Component) /\ Len(t) = Len(r) - 1 /\ \A i \in 1 .. Len(r) - 1 : t[i] = r[i + 1]
    BY <1>2, <1>4
  <2>2. Len(r) - 1 = Len(a) - n
    BY <1>1, <1>2
  <2> HIDE DEF t
  <2>3. ASSUME NEW i \in 1 .. Len(a) - n
        PROVE  t[i] = a[n + i]
    <3>1. i + 1 \in 1 .. Len(a) - n + 1 /\ n + (i + 1) - 1 = n + i
      BY <1>1
    <3> QED
      BY <1>2, <2>1, <2>2, <3>1
  <2> QED
    BY <2>1, <2>2, <2>3
<1> HIDE DEF t
<1>6. t = u
  BY <1>3, <1>5, SeqEqual
<1>7. SubSeq(a, Len(a) + 1, Len(a)) = <<>>
  BY <1>1
<1> QED
  BY <1>2, <1>4, <1>6, <1>7 DEF r, t, u, Path

----------------------------------------------------------------------------
(* Places that walks reach: no component is a link. *)

Real(s, p) ==
    /\ \A i \in 1 .. Len(p) : p[i] \notin Dots
    /\ \A j \in 0 .. Len(p) - 1 : EntryIn(s, SubSeq(p, 1, j)).kind = "dir"
    /\ EntryIn(s, p).kind \in {"dir", "file"}

LEMMA RealTop == ASSUME NEW s PROVE Real(s, <<>>)
<1>1. EntryIn(s, <<>>) = Dir
  BY TreeAssumption, Zenon DEF EntryIn
<1> QED
  BY <1>1 DEF Real, Dir

LEMMA RealPrefix ==
    ASSUME NEW s, NEW p \in Path, Real(s, p), NEW j \in 0 .. Len(p)
    PROVE  Real(s, SubSeq(p, 1, j))
<1> DEFINE q == SubSeq(p, 1, j)
<1>1. /\ q \in Path /\ Len(q) = j /\ j \in Nat /\ Len(p) \in Nat
      /\ \A i \in 1 .. j : q[i] = p[i] 
      /\ \A k \in 0 .. j : SubSeq(q, 1, k) = SubSeq(p, 1, k)
      /\ j = Len(p) => q = p
  BY PrefixIs
<1>2. EntryIn(s, q).kind \in {"dir", "file"}
  <2>1. CASE j = Len(p)
    BY <1>1, <2>1 DEF Real
  <2>2. CASE j # Len(p)
    BY <1>1, <2>2 DEF Real
  <2> QED
    BY <2>1, <2>2
<1> HIDE DEF q
<1>3. ASSUME NEW k \in 0 .. Len(q) - 1
      PROVE  EntryIn(s, SubSeq(q, 1, k)).kind = "dir"
  <2>1. k \in 0 .. j /\ k \in 0 .. Len(p) - 1
    BY <1>1
  <2>2. EntryIn(s, SubSeq(p, 1, k)).kind = "dir"
    BY <2>1 DEF Real
  <2> QED
    BY <1>1, <2>1, <2>2
<1>4. \A i \in 1 .. Len(q) : q[i] \notin Dots
  BY <1>1 DEF Real
<1>5. Real(s, q)
  BY <1>2, <1>3, <1>4 DEF Real
<1> QED
  BY <1>5 DEF q

LEMMA RealUp ==
    ASSUME NEW s, NEW p \in Path, Real(s, p)
    PROVE  Real(s, Up(p))
<1>1. CASE p = <<>>
  BY <1>1 DEF Up
<1>2. CASE p # <<>>
  <2>1. Up(p) = SubSeq(p, 1, Len(p) - 1) /\ Len(p) - 1 \in 0 .. Len(p)
    BY <1>2, FrontIs, UpType
  <2> QED
    BY <2>1, RealPrefix
<1> QED
  BY <1>1, <1>2

LEMMA RealAppend ==
    ASSUME NEW s, NEW p \in Path, NEW x \in Component, Real(s, p),
           EntryIn(s, p).kind = "dir", x \notin Dots,
           EntryIn(s, Append(p, x)).kind \in {"dir", "file"}
    PROVE  Real(s, Append(p, x))
<1> DEFINE q == Append(p, x)
<1>1. /\ Len(q) = Len(p) + 1 /\ Len(p) \in Nat /\ q[Len(p) + 1] = x
      /\ \A i \in 1 .. Len(p) : q[i] = p[i]
      /\ \A j \in 0 .. Len(p) : SubSeq(q, 1, j) = SubSeq(p, 1, j)
      /\ SubSeq(p, 1, Len(p)) = p
  BY AppendIs, PrefixIs
<1> HIDE DEF q
<1>2. \A i \in 1 .. Len(q) : q[i] \notin Dots
  BY <1>1 DEF Real
<1>3. ASSUME NEW j \in 0 .. Len(q) - 1
      PROVE  EntryIn(s, SubSeq(q, 1, j)).kind = "dir"
  <2>1. j \in 0 .. Len(p) /\ SubSeq(q, 1, j) = SubSeq(p, 1, j)
    BY <1>1
  <2>2. CASE j = Len(p)
    BY <1>1, <2>1, <2>2
  <2>3. CASE j # Len(p)
    <3>1. j \in 0 .. Len(p) - 1
      <4>1. Len(p) \in Nat
        BY <1>1
      <4> QED
        BY <2>1, <2>3, <4>1
    <3> QED
      BY <2>1, <3>1 DEF Real
  <2> QED
    BY <2>2, <2>3
<1> QED
  BY <1>2, <1>3 DEF Real, q

\* Every place a walk comes to is real.
LEMMA WalkReal ==
    ASSUME NEW s \in Files, NEW a \in Path, NEW l \in Nat, Reached(s, a, l).ok
    PROVE  Real(s, Reached(s, a, l).place)
<1> DEFINE m == Steps(a, l)
           W == Walk(s, a, l)
           S == {n \in 0 .. m : W[n].ok => Real(s, W[n].at)}
<1>1. m \in Nat /\ \A n \in 0 .. m : W[n] \in Walking
  BY WalkIs
<1>2. W[0] = At(<<>>, a, l) /\ \A n \in 1 .. m : W[n] = Look(s, W[n - 1])
  BY WalkIs
<1>3. Reached(s, a, l) = IF W[m].ok /\ W[m].rest = <<>> THEN Place(W[m].at) ELSE Fails
  BY Zenon DEF Reached, End
<1> HIDE DEF m, W
<1>4. 0 \in S
  BY <1>1, <1>2, AtIs, RealTop
<1>5. ASSUME NEW w \in Walking, w.ok => Real(s, w.at), Look(s, w).ok
      PROVE  Real(s, Look(s, w).at)
  <2>1. w.ok
    BY <1>5, AtIs, LookEnds
  <2> DEFINE p == w.at
             r == w.rest
             l1 == w.links
             name == Head(r)
             next == Append(p, name)
             entry == EntryIn(s, next)
             new == Look(s, At(p, r, l1))
             dir == EntryIn(s, p).kind = "dir"
  <2>2. p \in Path /\ r \in Path /\ l1 \in Nat /\ w = At(p, r, l1) /\ new.ok /\ Real(s, p)
    BY <1>5, <2>1, AtIs
  <2> HIDE DEF p, r, l1
  <2>3. CASE r = <<>>
    BY <2>2, <2>3, AtIs, LookEnds
  <2>4. CASE r # <<>>
    <3>1. /\ name \in Component
          /\ ~dir => new = Lost
          /\ dir /\ name = "." => new = At(p, Tail(r), l1)
          /\ dir /\ name = ".." => new = At(Up(p), Tail(r), l1)
          /\ dir /\ name \notin Dots /\ entry.kind \in {"dir", "file"} => new = At(next, Tail(r), l1)
          /\ dir /\ name \notin Dots /\ entry.kind = "link" /\ l1 > 0 =>
                 new = At(IF entry.abs THEN <<>> ELSE p, entry.target \o Tail(r), l1 - 1)
          /\ dir /\ name \notin Dots /\ entry.kind \notin {"dir", "file"}
                 /\ ~(entry.kind = "link" /\ l1 > 0) => new = Lost
      BY <2>2, <2>4, LookIs
    <3>2. dir /\ new # Lost
      BY <2>2, <3>1, AtIs
    <3>3. dir /\ name \notin Dots /\ entry.kind \in {"dir", "file"} => Real(s, next)
      BY <2>2, <3>1, RealAppend
    <3>4. Real(s, Up(p)) /\ Real(s, <<>>)
      BY <2>2, RealUp, RealTop
    <3>5. name \in Dots => name \in {".", ".."}
      BY DEF Dots
    <3> HIDE DEF dir, name, next, entry, new
    <3>6. Real(s, new.at)
      BY <2>2, <3>1, <3>2, <3>3, <3>4, <3>5, AtIs
    <3> QED
      BY <2>2, <3>6 DEF new
  <2> QED
    BY <2>3, <2>4
<1>6. ASSUME NEW n \in 1 .. m, n - 1 \in S
      PROVE  n \in S
  <2>1. W[n - 1] \in Walking /\ W[n] = Look(s, W[n - 1])
    BY <1>1, <1>2
  <2> QED
    BY <1>5, <1>6, <2>1
<1> HIDE DEF S
<1>7. m \in S
  BY <1>1, <1>4, <1>6, InductionUpTo
<1> QED
  BY <1>3, <1>7 DEF S, Place, Fails

\* The way to a real place takes no link.
LEMMA RealWalk ==
    ASSUME NEW s \in Files, NEW p \in Path, NEW l \in Nat, Real(s, p)
    PROVE  \A n \in 0 .. Len(p) : Walk(s, p, l)[n] = At(SubSeq(p, 1, n), SubSeq(p, n + 1, Len(p)), l)
<1> DEFINE m == Len(p)
           W == Walk(s, p, l)
           S == {n \in 0 .. m : W[n] = At(SubSeq(p, 1, n), SubSeq(p, n + 1, m), l)}
<1>1. /\ m \in Nat /\ m \in 0 .. Steps(p, l) /\ W[0] = At(<<>>, p, l)
      /\ \A n \in 1 .. m : W[n] = Look(s, W[n - 1])
  <2>1. Len(p) \in Nat
    BY DEF Path
  <2> QED
    BY <2>1, WalkIs
<1>2. /\ SubSeq(p, 1, 0) = <<>> /\ SubSeq(p, 1, m) = p /\ SubSeq(p, m + 1, m) = <<>>
  BY <1>1, PrefixIs DEF Path
<1>3. 0 \in S
  <2>1. SubSeq(p, 0 + 1, m) = p
    BY <1>2
  <2> HIDE DEF m, W
  <2>2. W[0] = At(SubSeq(p, 1, 0), SubSeq(p, 0 + 1, m), l)
    BY <1>1, <1>2, <2>1, Zenon
  <2> QED
    BY <1>1, <2>2
<1>4. ASSUME NEW n \in 1 .. m, n - 1 \in S
      PROVE  n \in S
  <2> DEFINE at == SubSeq(p, 1, n - 1)
             r == SubSeq(p, n, m)
             next == Append(at, Head(r))
  <2>1. n \in 0 .. m /\ n - 1 \in 0 .. m - 1 /\ n - 1 \in 0 .. m /\ (n - 1) + 1 = n
    BY <1>1
  <2>2. /\ at \in Path /\ r \in Path /\ r # <<>> /\ Head(r) = p[n]
        /\ Tail(r) = SubSeq(p, n + 1, m) /\ next = SubSeq(p, 1, n)
    BY <2>1, PrefixIs, RestIs
  <2>3. W[n] = Look(s, At(at, r, l))
    BY <1>1, <1>4, <2>1
  <2>4. EntryIn(s, at).kind = "dir" /\ Head(r) \notin Dots
    BY <2>1, <2>2 DEF Real
  <2>5. EntryIn(s, next).kind \in {"dir", "file"}
    BY <2>1, <2>2, RealPrefix DEF Real
  <2>6. W[n] = At(next, Tail(r), l)
    <3> HIDE DEF at, r, next
    <3> QED
      BY <2>2, <2>3, <2>4, <2>5, LookIs DEF next
  <2> QED
    BY <2>1, <2>2, <2>6
<1> HIDE DEF S, m
<1>5. 0 .. m \subseteq S
  BY <1>1, <1>3, <1>4, InductionUpTo
<1> QED
  BY <1>5 DEF S, W, m

\* And a real place is found by its own name.
LEMMA RealReached ==
    ASSUME NEW s \in Files, NEW p \in Path, NEW l \in Nat, Real(s, p)
    PROVE  Reached(s, p, l) = Place(p)
<1> DEFINE m == Len(p)
           W == Walk(s, p, l)
<1>1. m \in Nat /\ m \in 0 .. Steps(p, l) /\ m \in 0 .. m
  <2>1. Len(p) \in Nat
    BY DEF Path
  <2> QED
    BY <2>1, WalkIs
<1>2. SubSeq(p, 1, m) = p /\ SubSeq(p, m + 1, m) = <<>>
  BY <1>1, PrefixIs DEF Path
<1>3. W[m] = At(p, <<>>, l)
  <2> HIDE DEF m
  <2> QED
    BY <1>1, <1>2, RealWalk DEF m
<1>4. W[m].ok /\ W[m].rest = <<>> /\ W[m].at = p
  <2> HIDE DEF W
  <2> QED
    BY <1>3, AtIs
<1> QED
  BY <1>1, <1>4, EndStays

\* What is after it is looked at from there, with as many links.
LEMMA RealThen ==
    ASSUME NEW s \in Files, NEW p \in Path, NEW q \in Path, NEW l \in Nat, Real(s, p)
    PROVE  /\ Len(p) \in Nat /\ Steps(p \o q, l) = Len(p) + Steps(q, l)
           /\ Walk(s, p \o q, l)[Len(p)] = At(p, q, l)
<1> DEFINE m == Len(p)
           V == Walk(s, p, l)
           W == Walk(s, p \o q, l)
<1>1. /\ p \o q \in Path /\ m \in Nat /\ Len(q) \in Nat /\ Len(p \o q) = m + Len(q)
      /\ p \o <<>> = p /\ <<>> \o q = q /\ <<>> \in Path
  BY ConcatIs DEF Path
<1>2. l * Longest \in Nat
  BY TreeAssumption
<1>3. Steps(p \o q, l) = m + Steps(q, l) /\ m <= Steps(p, l) /\ m <= Steps(p \o q, l)
  BY <1>1, <1>2 DEF Steps
<1>4. V[0] = At(<<>>, p, l) /\ W[0] = At(<<>>, p \o q, l)
  <2>1. \A a \in Path : Walk(s, a, l)[0] = At(<<>>, a, l)
    BY WalkIs
  <2> QED
    BY <1>1, <2>1
<1>5. \A n \in 0 .. m : V[n] = At(SubSeq(p, 1, n), SubSeq(p, n + 1, m), l)
  BY RealWalk
<1>6. SubSeq(p, 1, m) = p /\ SubSeq(p, m + 1, m) = <<>>
  BY <1>1, PrefixIs DEF Path
<1>7. V[m] = At(p, <<>>, l)
  <2>1. m \in 0 .. m
    BY <1>1
  <2> HIDE DEF V, m
  <2> QED
    BY <1>5, <1>6, <2>1
<1>8. ASSUME NEW n \in Nat, n < m
      PROVE  V[n].rest # <<>>
  <2>1. n \in 0 .. m /\ n + 1 \in 1 .. m
    BY <1>1, <1>8
  <2>2. SubSeq(p, n + 1, m) # <<>>
    BY <2>1, RestIs
  <2>3. V[n] = At(SubSeq(p, 1, n), SubSeq(p, n + 1, m), l)
    BY <1>5, <2>1
  <2> HIDE DEF V, m
  <2> QED
    BY <2>2, <2>3 DEF At
<1>9. Ahead(s, p, l, 0, p \o q, l, 0, q, 0)
  <2>1. l + 0 = l
    OBVIOUS
  <2>2. W[0] = Longer(V[0], q, 0)
    <3> HIDE DEF V, W
    <3> QED
      BY <1>4, <2>1, AtIs DEF Longer
  <2> QED
    BY <2>2 DEF Ahead
<1>10. Ahead(s, p, l, m, p \o q, l, m, q, 0)
  <2>1. V[m].ok
    <3> HIDE DEF V, m
    <3> QED
      BY <1>7, AtIs
  <2>2. m \in Nat /\ m >= 0 /\ m - 0 = m - 0
    BY <1>1
  <2> HIDE DEF m
  <2> QED
    BY <1>1, <1>3, <1>8, <1>9, <2>1, <2>2, WalkFurther
<1>11. W[m] = Longer(At(p, <<>>, l), q, 0)
  BY <1>7, <1>10 DEF Ahead
<1>12. Longer(At(p, <<>>, l), q, 0) = At(p, q, l)
  <2> DEFINE w == At(p, <<>>, l)
  <2>1. l + 0 = l /\ w.at = p /\ w.rest = <<>> /\ w.links = l
    BY AtIs
  <2> HIDE DEF w
  <2>2. Longer(w, q, 0) = At(p, q, l)
    BY <1>1, <2>1 DEF Longer
  <2> QED
    BY <2>2 DEF w
<1> QED
  BY <1>1, <1>3, <1>11, <1>12

\* To go on from where a walk has ended is to walk on, with the links of both.
LEMMA Onward ==
    ASSUME NEW s \in Files, NEW b \in Path, NEW d \in Path, NEW q \in Path, NEW e,
           NEW k \in Nat, NEW g \in Nat, 2 * k <= g,
           Reached(s, b, k) = Place(d), Reached(s, d \o q, k) = Place(e)
    PROVE  Reached(s, b \o q, g) = Place(e)
<1> DEFINE V == Walk(s, b, k)
           U == Walk(s, d \o q, k)
           W == Walk(s, b \o q, g)
           c == Len(d)
<1>1. /\ b \o q \in Path /\ d \o q \in Path /\ Len(b) \in Nat /\ Len(q) \in Nat
      /\ Len(b \o q) = Len(b) + Len(q) /\ <<>> \o q = q
  BY ConcatIs
<1>2. Reached(s, b, k).ok /\ Reached(s, b, k).place = d /\ Reached(s, d \o q, k).ok
      /\ Reached(s, d \o q, k).place = e
  BY DEF Place
<1>3. Real(s, d)
  BY <1>2, WalkReal
<1>4. PICK n \in 0 .. Steps(b, k), i \in Nat :
          V[n] = At(d, <<>>, i) /\ \A x \in 0 .. n - 1 : V[x].rest # <<>>
  BY <1>2, FirstEnd
<1>5. c \in Nat /\ Steps(d \o q, k) = c + Steps(q, k) /\ U[c] = At(d, q, k)
  BY <1>3, RealThen
<1>6. PICK f : f \in Nat /\ g = 2 * k + f
  <2>1. g - 2 * k \in Nat /\ g = 2 * k + (g - 2 * k)
    OBVIOUS
  <2> QED
    BY <2>1
<1>7. /\ Steps(b, k) \in Nat /\ Steps(q, k) \in Nat /\ Steps(b \o q, g) \in Nat
      /\ Steps(b, k) + Steps(q, k) <= Steps(b \o q, g)
  <2> DEFINE x == k * Longest
             y == f * Longest
  <2>1. Longest \in Nat
    BY TreeAssumption
  <2>2. g * Longest = x + x + y /\ x \in Nat /\ y \in Nat
    BY <1>6, <2>1
  <2>3. Steps(b, k) = Len(b) + x /\ Steps(q, k) = Len(q) + x /\ Steps(b \o q, g) = Len(b \o q) + (x + x + y)
    BY <2>2 DEF Steps
  <2> HIDE DEF x, y
  <2> QED
    BY <1>1, <2>2, <2>3
<1>8. V[0] = At(<<>>, b, k) /\ W[0] = At(<<>>, b \o q, g)
  BY <1>1, WalkIs
<1> DEFINE t == k + f
           m == Steps(q, k)
           z == i + f
<1>9. W[n] = At(d, q, i + t)
  <2>1. Ahead(s, b, k, 0, b \o q, g, 0, q, t)
    <3>1. k + t = g
      BY <1>6
    <3>2. W[0] = Longer(V[0], q, t)
      <4> HIDE DEF V, W, t
      <4> QED
        BY <1>1, <1>8, <3>1, AtIs DEF Longer
    <3> QED
      BY <3>2 DEF Ahead
  <2>2. /\ n \in Nat /\ n <= Steps(b, k) /\ n <= Steps(b \o q, g) /\ t \in Nat
    BY <1>4, <1>6, <1>7
  <2>3. V[n].ok
    BY <1>4, AtIs
  <2>4. Ahead(s, b, k, n, b \o q, g, n, q, t)
    <3>1. \A x \in Nat : x < n => V[x].rest # <<>>
      BY <1>4, <2>2
    <3>2. n >= 0 /\ n - 0 = n - 0
      BY <2>2
    <3> HIDE DEF t
    <3> QED
      BY <1>1, <2>1, <2>2, <2>3, <3>1, <3>2, WalkFurther
  <2>5. W[n] = Longer(At(d, <<>>, i), q, t)
    BY <1>4, <2>4 DEF Ahead
  <2> DEFINE w == At(d, <<>>, i)
  <2>6. w.at = d /\ w.rest = <<>> /\ w.links = i
    BY AtIs
  <2> HIDE DEF w, W, t
  <2> QED
    BY <1>1, <2>5, <2>6 DEF Longer, w
<1>10. W[n + m] = Longer(U[c + m], <<>>, z)
  <2>1. Ahead(s, d \o q, k, c, b \o q, g, n, <<>>, z)
    <3>1. k + z = i + t /\ q \o <<>> = q
      BY <1>6, ConcatIs
    <3>2. W[n] = Longer(U[c], <<>>, z)
      <4> HIDE DEF U, W, t, z, c
      <4> QED
        BY <1>5, <1>9, <3>1, AtIs DEF Longer
    <3> QED
      BY <3>2 DEF Ahead
  <2>2. /\ n \in Nat /\ m \in Nat /\ c + m <= Steps(d \o q, k) /\ n + m <= Steps(b \o q, g)
        /\ z \in Nat /\ <<>> \in Path
    <3>1. n <= Steps(b, k) /\ n \in Nat
      BY <1>7
    <3>2. <<>> \in Path
      BY DEF Path
    <3> QED
      BY <1>5, <1>6, <1>7, <3>1, <3>2
  <2>3. U[c + m].ok
    <3>1. U[Steps(d \o q, k)].ok
      <4>1. Reached(s, d \o q, k) = End(U[Steps(d \o q, k)])
        BY DEF Reached
      <4> QED
        BY <1>2, <4>1 DEF End, Fails
    <3> QED
      BY <1>5, <3>1
  <2>4. c + m \in Nat /\ n + m \in Nat /\ c + m >= c /\ (n + m) - n = (c + m) - c /\ c \in Nat
    BY <1>5, <2>2
  <2> DEFINE x == c + m
             y == n + m
  <2>5. Ahead(s, d \o q, k, x, b \o q, g, y, <<>>, z)
    <3>1. U[x].ok /\ x \in Nat /\ y \in Nat /\ x >= c /\ y - n = x - c
          /\ x <= Steps(d \o q, k) /\ y <= Steps(b \o q, g)
      BY <2>2, <2>3, <2>4
    <3> HIDE DEF z, m, c, x, y
    <3> QED
      BY <1>1, <2>1, <2>2, <2>4, <3>1, WalkFurther
  <2> QED
    BY <2>5 DEF Ahead
<1>11. U[c + m].ok /\ U[c + m].rest = <<>> /\ U[c + m].at = e
  <2>1. Reached(s, d \o q, k) = End(U[c + m])
    BY <1>5 DEF Reached
  <2> HIDE DEF U, m, c
  <2> QED
    BY <1>2, <2>1 DEF End, Fails, Place
<1>12. W[n + m].ok /\ W[n + m].rest = <<>> /\ W[n + m].at = e
  <2>1. <<>> \o <<>> = <<>>
    OBVIOUS
  <2> HIDE DEF U, W, m, c, z
  <2> QED
    BY <1>10, <1>11, <2>1, AtIs DEF Longer
<1>13. n + m \in 0 .. Steps(b \o q, g)
  BY <1>7
<1> QED
  BY <1>1, <1>12, <1>13, EndStays

----------------------------------------------------------------------------
(* Clean paths. *)

LEMMA JoinIs ==
    ASSUME NEW p \in Path, NEW x \in Component
    PROVE  /\ x = "." => Join(p, x) = p
           /\ x = ".." => Join(p, x) = Up(p)
           /\ x \notin Dots => Join(p, x) = Append(p, x)
           /\ x \in Dots <=> x = "." \/ x = ".."
<1>1. x \in Dots <=> x = "." \/ x = ".."
  BY DEF Dots
<1>2. "." # ".."
  OBVIOUS
<1>3. x = "." => Join(p, x) = p
  BY <1>2, Zenon DEF Join
<1>4. x = ".." => Join(p, x) = Up(p)
  BY <1>2, Zenon DEF Join
<1>5. x \notin Dots => Join(p, x) = Append(p, x)
  BY <1>1, Zenon DEF Join
<1> QED
  BY <1>1, <1>3, <1>4, <1>5

\* No "." and no ".." is left in a clean path.
LEMMA CleanIsClean ==
    ASSUME NEW a \in Path, NEW i \in 1 .. Len(Clean(a))
    PROVE  Clean(a)[i] \notin Dots
<1> DEFINE m == Len(a)
           J == Joined(<<>>, a)
           Clear(p) == \A k \in 1 .. Len(p) : p[k] \notin Dots
           S == {n \in 0 .. m : Clear(J[n])}
<1>1. m \in Nat /\ <<>> \in Path /\ \A n \in 1 .. m : a[n] \in Component
  BY DEF Path
<1>2. /\ \A n \in 0 .. m : J[n] \in Path
      /\ J[0] = <<>> /\ \A n \in 1 .. m : J[n] = Join(J[n - 1], a[n])
  BY <1>1, JoinedIs
<1>3. Clean(a) = J[m]
  BY DEF Clean, JoinAll
<1> HIDE DEF m, J
<1>4. ASSUME NEW p \in Path, NEW x \in Component, Clear(p)
      PROVE  Clear(Join(p, x))
  <2>1. CASE x = "."
    BY <1>4, <2>1, JoinIs
  <2>2. CASE x = ".."
    <3>1. CASE p = <<>>
      BY <1>4, <2>2, <3>1, JoinIs DEF Up
    <3>2. CASE p # <<>>
      <4>1. Join(p, x) = Front(p)
        BY <2>2, <3>2, JoinIs, UpType
      <4>2. Len(Front(p)) = Len(p) - 1 /\ Len(p) \in Nat \ {0} /\ \A k \in 1 .. Len(p) - 1 : Front(p)[k] = p[k]
        BY <3>2, FrontIs
      <4>3. ASSUME NEW k \in 1 .. Len(Front(p))
            PROVE  Front(p)[k] \notin Dots
        <5>1. k \in 1 .. Len(p) - 1 /\ k \in 1 .. Len(p)
          BY <4>2
        <5> QED
          BY <1>4, <4>2, <5>1
      <4> QED
        BY <4>1, <4>3
    <3> QED
      BY <3>1, <3>2
  <2>3. CASE x \notin Dots
    <3>1. /\ Join(p, x) = Append(p, x) /\ Len(Append(p, x)) = Len(p) + 1 /\ Len(p) \in Nat
          /\ Append(p, x)[Len(p) + 1] = x /\ \A k \in 1 .. Len(p) : Append(p, x)[k] = p[k]
      BY <2>3, JoinIs, AppendIs
    <3> QED
      BY <1>4, <2>3, <3>1
  <2> QED
    BY <2>1, <2>2, <2>3, JoinIs
<1> HIDE DEF Clear
<1>5. 0 \in S
  BY <1>1, <1>2 DEF Clear
<1>6. ASSUME NEW n \in 1 .. m, n - 1 \in S
      PROVE  n \in S
  <2>1. J[n - 1] \in Path /\ J[n] = Join(J[n - 1], a[n]) /\ a[n] \in Component /\ Clear(J[n - 1])
    BY <1>1, <1>2, <1>6
  <2> QED
    BY <1>1, <1>4, <2>1
<1> HIDE DEF S
<1>7. m \in S
  <2>1. m \in Nat
    BY <1>1
  <2>2. 0 .. m \subseteq S
    BY <2>1, <1>5, <1>6, InductionUpTo
  <2> QED
    BY <2>1, <2>2
<1> QED
  BY <1>3, <1>7 DEF S, Clear

\* Without "..", what a path has named so far stays a prefix.
LEMMA JoinedGrows ==
    ASSUME NEW a \in Path, \A i \in 1 .. Len(a) : a[i] # "..", NEW n \in 0 .. Len(a)
    PROVE  LET p == Joined(<<>>, a)[n]
           IN  /\ p \in Path /\ Clean(a) \in Path /\ Len(p) \in 0 .. Len(Clean(a))
               /\ p = SubSeq(Clean(a), 1, Len(p))
<1> DEFINE m == Len(a)
           J == Joined(<<>>, a)
           S == {k \in 0 .. m : k >= n => Len(J[n]) \in 0 .. Len(J[k]) /\ J[n] = SubSeq(J[k], 1, Len(J[n]))}
<1>1. m \in Nat /\ n \in Nat /\ n <= m /\ <<>> \in Path /\ \A k \in 1 .. m : a[k] \in Component /\ a[k] # ".."
  BY DEF Path
<1>2. /\ \A k \in 0 .. m : J[k] \in Path
      /\ \A k \in 1 .. m : J[k] = Join(J[k - 1], a[k])
  BY <1>1, JoinedIs
<1>3. Clean(a) = J[m] /\ J[m] \in Path
  BY <1>1, <1>2 DEF Clean, JoinAll
<1> HIDE DEF m, J
<1>4. J[n] \in Path /\ Len(J[n]) \in 0 .. Len(J[n]) /\ J[n] = SubSeq(J[n], 1, Len(J[n]))
  <2>1. J[n] \in Path
    BY <1>1, <1>2
  <2>2. Len(J[n]) \in 0 .. Len(J[n])
    BY <2>1 DEF Path
  <2> QED
    BY <2>1, <2>2, PrefixIs
<1>5. 0 \in S
  <2>1. 0 >= n => n = 0
    BY <1>1
  <2> QED
    BY <1>1, <1>4, <2>1
<1>6. ASSUME NEW k \in 1 .. m, k - 1 \in S
      PROVE  k \in S
  <2>1. CASE k = n
    BY <1>1, <1>4, <2>1
  <2>2. CASE k < n
    BY <1>1, <2>2
  <2>3. CASE k > n
    <3> DEFINE q == J[k - 1]
    <3>1. /\ q \in Path /\ J[k] = Join(q, a[k]) /\ a[k] \in Component /\ a[k] # ".."
          /\ Len(J[n]) \in 0 .. Len(q) /\ J[n] = SubSeq(q, 1, Len(J[n]))
      <4>1. k - 1 \in 0 .. m /\ k - 1 >= n
        BY <1>1, <2>3
      <4> QED
        BY <1>1, <1>2, <1>6, <4>1
    <3> HIDE DEF q
    <3>2. J[k] \in {q, Append(q, a[k])}
      BY <3>1, JoinIs
    <3>3. /\ Len(Append(q, a[k])) = Len(q) + 1 /\ Len(q) \in Nat
          /\ \A j \in 0 .. Len(q) : SubSeq(Append(q, a[k]), 1, j) = SubSeq(q, 1, j)
      BY <3>1, AppendIs
    <3>4. Len(J[n]) \in 0 .. Len(J[k])
      BY <3>1, <3>2, <3>3
    <3>5. J[n] = SubSeq(J[k], 1, Len(J[n]))
      BY <3>1, <3>2, <3>3
    <3> QED
      BY <1>1, <3>4, <3>5
  <2> QED
    BY <1>1, <2>1, <2>2, <2>3
<1> HIDE DEF S
<1>7. m \in S
  <2>1. m \in Nat
    BY <1>1
  <2>2. 0 .. m \subseteq S
    BY <2>1, <1>5, <1>6, InductionUpTo
  <2> QED
    BY <2>1, <2>2
<1> QED
  BY <1>1, <1>3, <1>4, <1>7 DEF S, J

\* The clean form of a path and of what is above its last component.
LEMMA CleanStep ==
    ASSUME NEW a \in Path, a # <<>>
    PROVE  Clean(a) = Join(Clean(Front(a)), Last(a))
<1> DEFINE m == Len(Front(a))
           I == Joined(<<>>, Front(a))
           J == Joined(<<>>, a)
           S == {n \in 0 .. m : I[n] = J[n]}
<1>1. /\ m \in Nat /\ Len(a) = m + 1 /\ Front(a) \in Path /\ <<>> \in Path
      /\ a[m + 1] = Last(a) /\ Last(a) \in Component
      /\ \A n \in 1 .. m : Front(a)[n] = a[n]
  <2>1. <<>> \in Path
    BY DEF Path
  <2> QED
    BY <2>1, FrontIs
<1>2. /\ I[0] = <<>> /\ J[0] = <<>>
      /\ \A n \in 1 .. m : I[n] = Join(I[n - 1], a[n])
      /\ \A n \in 1 .. m + 1 : J[n] = Join(J[n - 1], a[n])
      /\ \A n \in 0 .. m + 1 : J[n] \in Path
  <2>1. I[0] = <<>> /\ \A n \in 1 .. m : I[n] = Join(I[n - 1], Front(a)[n])
    BY <1>1, JoinedIs
  <2>2. J[0] = <<>> /\ (\A n \in 1 .. Len(a) : J[n] = Join(J[n - 1], a[n])) /\ \A n \in 0 .. Len(a) : J[n] \in Path
    BY <1>1, JoinedIs
  <2> HIDE DEF I, J, m
  <2>3. \A n \in 1 .. m : I[n] = Join(I[n - 1], a[n])
    BY <1>1, <2>1
  <2> QED
    BY <1>1, <2>1, <2>2, <2>3
<1>3. Clean(Front(a)) = I[m] /\ Clean(a) = J[m + 1]
  BY <1>1 DEF Clean, JoinAll
<1> HIDE DEF m, I, J
<1>4. 0 \in S
  BY <1>1, <1>2
<1>5. ASSUME NEW n \in 1 .. m, n - 1 \in S
      PROVE  n \in S
  <2>1. n \in 1 .. m + 1 /\ n \in 0 .. m
    BY <1>1
  <2> QED
    BY <1>2, <1>5, <2>1
<1> HIDE DEF S
<1>6. I[m] = J[m]
  <2>0. m \in Nat /\ m \in 0 .. m
    BY <1>1
  <2>1. m \in S
    BY <1>4, <1>5, <2>0, InductionUpTo, SMTT(40)
  <2> QED
    BY <2>1 DEF S
<1>7. J[m + 1] = Join(J[m], Last(a)) /\ J[m] \in Path
  <2>1. m + 1 \in 1 .. m + 1 /\ m \in 0 .. m + 1 /\ (m + 1) - 1 = m
    BY <1>1
  <2> QED
    BY <1>1, <1>2, <2>1
<1> QED
  BY <1>1, <1>3, <1>6, <1>7

LEMMA CleanFront ==
    ASSUME NEW a \in Path, a # <<>>, Last(a) \notin Dots
    PROVE  Clean(a) = Append(Clean(Front(a)), Last(a))
<1>1. Front(a) \in Path /\ Last(a) \in Component /\ Clean(Front(a)) \in Path
  BY FrontIs, CleanType
<1> QED
  BY <1>1, CleanStep, JoinIs

----------------------------------------------------------------------------
(* Where the kernel comes without links, and when it comes nowhere. *)

\* No prefix of p that has directories above it is a link.
Linkless(s, p) ==
    \A i \in 1 .. Len(p) :
        (\A j \in 0 .. i - 1 : EntryIn(s, SubSeq(p, 1, j)).kind = "dir")
            => EntryIn(s, SubSeq(p, 1, i)).kind # "link"

LEMMA LinklessPrefix ==
    ASSUME NEW s, NEW p \in Path, Linkless(s, p), NEW k \in 0 .. Len(p)
    PROVE  Linkless(s, SubSeq(p, 1, k))
<1> DEFINE q == SubSeq(p, 1, k)
<1>1. Len(q) = k /\ k \in Nat /\ k <= Len(p) /\ Len(p) \in Nat /\ \A j \in 0 .. k : SubSeq(q, 1, j) = SubSeq(p, 1, j)
  BY PrefixIs
<1> HIDE DEF q
<1>2. ASSUME NEW i \in 1 .. Len(q), \A j \in 0 .. i - 1 : EntryIn(s, SubSeq(q, 1, j)).kind = "dir"
      PROVE  EntryIn(s, SubSeq(q, 1, i)).kind # "link"
  <2>1. i \in 1 .. Len(p) /\ i \in 0 .. k
    BY <1>1
  <2>2. ASSUME NEW j \in 0 .. i - 1
        PROVE  EntryIn(s, SubSeq(p, 1, j)).kind = "dir"
    <3>1. j \in 0 .. k
      BY <1>1, <2>1
    <3>2. SubSeq(q, 1, j) = SubSeq(p, 1, j)
      BY <1>1, <3>1
    <3> QED
      BY <1>2, <3>2
  <2>3. EntryIn(s, SubSeq(p, 1, i)).kind # "link"
    BY <2>1, <2>2 DEF Linkless
  <2>4. SubSeq(q, 1, i) = SubSeq(p, 1, i)
    BY <1>1, <2>1
  <2> QED
    BY <2>3, <2>4
<1> QED
  BY <1>2 DEF Linkless, q

\* Without ".." and without links, a walk ends at the clean path, or nowhere.
LEMMA LinklessWalk ==
    ASSUME NEW s \in Files, NEW a \in Path, NEW l \in Nat,
           \A i \in 1 .. Len(a) : a[i] # "..", Linkless(s, Clean(a)), Reached(s, a, l).ok
    PROVE  Reached(s, a, l) = Place(Clean(a))
<1> DEFINE m == Len(a)
           c == Clean(a)
           W == Walk(s, a, l)
           J == Joined(<<>>, a)
           Dirs(p) == \A j \in 0 .. Len(p) - 1 : EntryIn(s, SubSeq(p, 1, j)).kind = "dir"
           S == {n \in 0 .. m : W[n].ok => W[n] = At(J[n], SubSeq(a, n + 1, m), l) /\ Dirs(J[n])}
<1>1. m \in Nat /\ m \in 0 .. Steps(a, l)
  <2>1. Len(a) \in Nat
    BY DEF Path
  <2> QED
    BY <2>1, WalkIs
<1>2. /\ W[0] = At(<<>>, a, l)
      /\ \A n \in 1 .. m : W[n] = Look(s, W[n - 1])
  BY <1>1, WalkIs
<1>3. /\ J[0] = <<>> /\ \A n \in 1 .. m : J[n] = Join(J[n - 1], a[n])
  <2>1. <<>> \in Path
    BY DEF Path
  <2> QED
    BY <2>1, JoinedIs
<1>4. \A n \in 0 .. m : J[n] \in Path /\ c \in Path /\ Len(J[n]) \in 0 .. Len(c) /\ J[n] = SubSeq(c, 1, Len(J[n]))
  BY JoinedGrows
<1>5. J[m] = c
  BY DEF Clean, JoinAll
<1>6. SubSeq(a, m + 1, m) = <<>> /\ SubSeq(a, 1, m) = a
  BY <1>1, PrefixIs DEF Path
<1>7. 0 \in S
  <2>1. SubSeq(a, 0 + 1, m) = a
    BY <1>6
  <2> HIDE DEF m, W, J
  <2>2. W[0] = At(J[0], SubSeq(a, 0 + 1, m), l)
    BY <1>2, <1>3, <2>1, Zenon
  <2>3. Dirs(J[0])
    BY <1>3
  <2> QED
    BY <1>1, <2>2, <2>3
<1>8. ASSUME NEW n \in 1 .. m, n - 1 \in S, W[n].ok
      PROVE  W[n] = At(J[n], SubSeq(a, n + 1, m), l) /\ Dirs(J[n])
  <2> DEFINE p == J[n - 1]
             r == SubSeq(a, n, m)
             name == Head(r)
             next == Append(p, name)
             entry == EntryIn(s, next)
             new == Look(s, At(p, r, l))
             dir == EntryIn(s, p).kind = "dir"
  <2>1. n - 1 \in 0 .. m /\ n \in 0 .. m /\ (n - 1) + 1 = n
    BY <1>1
  <2>2. p \in Path /\ c \in Path /\ J[n] \in Path /\ Len(J[n]) \in 0 .. Len(c) /\ J[n] = SubSeq(c, 1, Len(J[n])) /\ J[n] = Join(p, a[n])
    BY <1>3, <1>4, <2>1
  <2>3. /\ r \in Path /\ r # <<>> /\ Head(r) = a[n] /\ a[n] \in Component /\ a[n] # ".."
        /\ Tail(r) = SubSeq(a, n + 1, m)
    BY RestIs
  <2>4. W[n] = Look(s, W[n - 1])
    BY <1>2
  <2>5. W[n - 1].ok
    <3>1. ~W[n - 1].ok => Look(s, W[n - 1]) = W[n - 1]
      <4> HIDE DEF W
      <4> QED
        BY LookEnds
    <3> QED
      BY <1>8, <2>4, <3>1
  <2>6. W[n - 1] = At(p, r, l) /\ Dirs(p)
    BY <1>8, <2>1, <2>5
  <2> HIDE DEF m, c, W, J, p, r, S
  <2>7. /\ name \in Component
        /\ ~dir => new = Lost
        /\ dir /\ name = "." => new = At(p, Tail(r), l)
        /\ dir /\ name = ".." => new = At(Up(p), Tail(r), l)
        /\ dir /\ name \notin Dots /\ entry.kind \in {"dir", "file"} => new = At(next, Tail(r), l)
        /\ dir /\ name \notin Dots /\ entry.kind \notin {"dir", "file"}
               /\ ~(entry.kind = "link" /\ l > 0) => new = Lost
    BY <2>2, <2>3, LookIs
  <2>8. new = W[n] /\ new.ok
    BY <1>8, <2>4, <2>6
  <2>9. dir /\ new # Lost
    BY <2>7, <2>8, AtIs
  <2>10. CASE name = "."
    <3>1. J[n] = p
      BY <2>2, <2>3, <2>10, JoinIs
    <3> QED
      BY <2>3, <2>6, <2>7, <2>8, <2>9, <2>10, <3>1
  <2>11. CASE name # "."
    <3>1. name \notin Dots
      BY <2>3, <2>11 DEF Dots
    <3>2. J[n] = next
      BY <2>2, <2>3, <3>1, JoinIs
    <3>3. /\ Len(next) = Len(p) + 1 /\ Len(p) \in Nat /\ SubSeq(p, 1, Len(p)) = p
          /\ \A j \in 0 .. Len(p) : SubSeq(next, 1, j) = SubSeq(p, 1, j)
      BY <2>2, <2>7, AppendIs, PrefixIs
    <3> HIDE DEF next
    <3>4. Dirs(next)
      <4> SUFFICES ASSUME NEW j \in 0 .. Len(next) - 1
                   PROVE  EntryIn(s, SubSeq(next, 1, j)).kind = "dir"
        OBVIOUS
      <4>1. j \in 0 .. Len(p)
        BY <3>3
      <4>2. SubSeq(next, 1, j) = SubSeq(p, 1, j)
        BY <3>3, <4>1
      <4>3. CASE j = Len(p)
        BY <2>9, <3>3, <4>2, <4>3
      <4>4. CASE j # Len(p)
        <5>1. Len(p) \in Nat
          BY <3>3
        <5>2. j \in 0 .. Len(p) - 1
          BY <4>1, <4>4, <5>1
        <5> QED
          BY <2>6, <4>2, <5>2
      <4> QED
        BY <4>3, <4>4
    <3>5. entry.kind # "link"
      <4> DEFINE k == Len(next)
      <4>1. k \in 1 .. Len(c) /\ next = SubSeq(c, 1, k) /\ k \in 0 .. Len(c) /\ next \in Path
        <5>1. k \in 0 .. Len(c) /\ next = SubSeq(c, 1, k) /\ next \in Path
          BY <2>2, <3>2
        <5>2. Len(c) \in Nat
          BY <2>2 DEF Path
        <5> QED
          BY <3>3, <5>1, <5>2
      <4>2. \A j \in 0 .. k : SubSeq(SubSeq(c, 1, k), 1, j) = SubSeq(c, 1, j)
        BY <2>2, <4>1, PrefixIs
      <4> HIDE DEF k
      <4>3. ASSUME NEW j \in 0 .. k - 1
            PROVE  EntryIn(s, SubSeq(c, 1, j)).kind = "dir"
        <5>1. j \in 0 .. k
          BY <4>1
        <5>2. SubSeq(c, 1, j) = SubSeq(next, 1, j)
          BY <4>1, <4>2, <5>1
        <5> QED
          BY <3>4, <5>2 DEF k
      <4>4. EntryIn(s, SubSeq(c, 1, k)).kind # "link"
        BY <4>1, <4>3 DEF Linkless, c
      <4> QED
        BY <4>1, <4>4
    <3>6. new = At(next, Tail(r), l)
      <4> HIDE DEF new, entry, dir, name
      <4> QED
        BY <2>7, <2>9, <3>1, <3>5
    <3> QED
      BY <2>3, <2>8, <3>2, <3>4, <3>6
  <2> QED
    BY <2>10, <2>11
<1> HIDE DEF S, m
<1>9. m \in S
  <2>1. \A n \in 1 .. m : n - 1 \in S => n \in S
    BY <1>1, <1>8 DEF S
  <2>2. 0 .. m \subseteq S
    BY <1>1, <1>7, <2>1, InductionUpTo
  <2> QED
    BY <1>1, <2>2
<1>10. W[m].ok => W[m] = At(c, <<>>, l)
  BY <1>5, <1>6, <1>9 DEF S
<1>11. W[m].ok => W[m].rest = <<>> /\ W[m].at = c
  <2> HIDE DEF W, c
  <2> QED
    BY <1>10, AtIs
<1>12. CASE W[m].ok
  BY <1>1, <1>11, <1>12, EndStays
<1>13. CASE ~W[m].ok
  <2>1. Reached(s, a, l) = Fails
    BY <1>1, <1>13, EndStays
  <2> QED
    BY <2>1 DEF Fails
<1> QED
  BY <1>12, <1>13

\* Whatever comes after a path that leads somewhere, a walk comes by there.
LEMMA ComesBy ==
    ASSUME NEW s \in Files, NEW b \in Path, NEW l \in Nat, NEW p, Reached(s, b, l) = Place(p)
    PROVE  \E n \in 0 .. Steps(b, l), i \in Nat :
              \A q \in Path : /\ Walk(s, b \o q, l)[n] = At(p, q, i)
                             /\ Steps(b, l) \in Nat /\ Steps(b \o q, l) = Steps(b, l) + Len(q) /\ Len(q) \in Nat
<1> DEFINE V == Walk(s, b, l)
<1>1. Steps(b, l) \in Nat /\ l * Longest \in Nat
  BY WalkIs, TreeAssumption
<1>2. PICK n \in 0 .. Steps(b, l), i \in Nat : V[n] = At(p, <<>>, i) /\ \A k \in 0 .. n - 1 : V[k].rest # <<>>
  <2>1. Reached(s, b, l).ok /\ Reached(s, b, l).place = p
    BY DEF Place
  <2> QED
    BY <2>1, FirstEnd
<1> SUFFICES ASSUME NEW q \in Path
             PROVE  Walk(s, b \o q, l)[n] = At(p, q, i) /\ Steps(b \o q, l) = Steps(b, l) + Len(q) /\ Len(q) \in Nat
  BY <1>1
<1> DEFINE a == b \o q
           W == Walk(s, a, l)
<1>3. a \in Path /\ Len(a) = Len(b) + Len(q) /\ Len(b) \in Nat /\ Len(q) \in Nat /\ <<>> \o q = q
  BY ConcatIs
<1>4. Steps(a, l) = Steps(b, l) + Len(q)
  BY <1>1, <1>3 DEF Steps
<1> HIDE DEF a
<1>5. Ahead(s, b, l, 0, a, l, 0, q, 0)
  <2>1. V[0] = At(<<>>, b, l) /\ W[0] = At(<<>>, a, l) /\ l + 0 = l
    BY <1>3, WalkIs
  <2>2. W[0] = Longer(V[0], q, 0)
    <3> HIDE DEF V, W
    <3> QED
      BY <2>1, AtIs DEF Longer, a
  <2> QED
    BY <2>2 DEF Ahead
<1>6. Ahead(s, b, l, n, a, l, n, q, 0)
  <2>1. n \in Nat /\ n >= 0 /\ n - 0 = n - 0 /\ n <= Steps(b, l) /\ n <= Steps(a, l)
    BY <1>1, <1>3, <1>4
  <2>2. \A k \in Nat : k < n => V[k].rest # <<>>
    BY <1>2, <2>1
  <2>3. V[n].ok
    BY <1>2, AtIs
  <2> QED
    BY <1>3, <1>5, <2>1, <2>2, <2>3, WalkFurther
<1>7. W[n] = At(p, q, i)
  <2> DEFINE w == At(p, <<>>, i)
  <2>1. w.at = p /\ w.rest = <<>> /\ w.links = i /\ i + 0 = i
    BY AtIs
  <2>2. W[n] = Longer(w, q, 0)
    BY <1>2, <1>6 DEF Ahead
  <2> HIDE DEF w, W
  <2> QED
    BY <1>3, <2>1, <2>2 DEF Longer
<1> QED
  BY <1>3, <1>4, <1>7 DEF a

\* The next step from there.
LEMMA ThenLook ==
    ASSUME NEW s \in Files, NEW b \in Path, NEW l \in Nat, NEW p, Reached(s, b, l) = Place(p), NEW q \in Path, q # <<>>
    PROVE  \E n \in 1 .. Steps(b \o q, l), i \in Nat :
              Walk(s, b \o q, l)[n] = Look(s, At(p, q, i)) /\ Walk(s, b \o Tail(q), l)[n - 1] = At(p, Tail(q), i)
<1>1. PICK n \in 0 .. Steps(b, l), i \in Nat :
              \A r \in Path : /\ Walk(s, b \o r, l)[n] = At(p, r, i)
                             /\ Steps(b, l) \in Nat /\ Steps(b \o r, l) = Steps(b, l) + Len(r) /\ Len(r) \in Nat
  BY ComesBy
<1>2. Tail(q) \in Path /\ Len(q) > 0 /\ b \o q \in Path
  BY EmptySeq DEF Path
<1>3. n + 1 \in 1 .. Steps(b \o q, l) /\ (n + 1) - 1 = n
  BY <1>1, <1>2
<1>4. Walk(s, b \o q, l)[n + 1] = Look(s, Walk(s, b \o q, l)[(n + 1) - 1])
  <2> DEFINE a == b \o q
             k == n + 1
  <2>1. a \in Path /\ k \in 1 .. Steps(a, l)
    BY <1>2, <1>3
  <2> HIDE DEF a, k
  <2>2. Walk(s, a, l)[k] = Look(s, Walk(s, a, l)[k - 1])
    BY <2>1, WalkIs
  <2> QED
    BY <2>2 DEF a, k
<1>5. Walk(s, b \o q, l)[n + 1] = Look(s, At(p, q, i))
  BY <1>1, <1>3, <1>4
<1>6. Walk(s, b \o Tail(q), l)[(n + 1) - 1] = At(p, Tail(q), i)
  BY <1>1, <1>2, <1>3
<1> QED
  BY <1>3, <1>5, <1>6

\* A name in a directory that is reached, where something is found under it or not.
LEMMA NamedThere ==
    ASSUME NEW s \in Files, NEW b \in Path, NEW x \in Component, NEW l \in Nat, NEW p \in Path,
           Reached(s, b, l) = Place(p), x \notin Dots
    PROVE  LET kind == EntryIn(s, Append(p, x)).kind
           IN  /\ EntryIn(s, p).kind = "dir" /\ kind \in {"dir", "file"} =>
                      Reached(s, Append(b, x), l) = Place(Append(p, x))
               /\ kind = "missing" => ~Reached(s, Append(b, x), l).ok
<1> DEFINE q == <<x>>
           a == b \o q
           W == Walk(s, a, l)
           kind == EntryIn(s, Append(p, x)).kind
<1>1. q \in Path /\ q # <<>> /\ Head(q) = x /\ Tail(q) = <<>> /\ a = Append(b, x)
  <2>1. q \in Path /\ q # <<>> /\ Head(q) = x /\ Tail(q) = <<>>
    BY DEF Path
  <2>2. a = Append(b, x)
    BY AppendIsConcat DEF Path
  <2> QED
    BY <2>1, <2>2
<1>2. a \in Path
  BY <1>1, ConcatIs
<1> HIDE DEF q, a
<1>3. PICK n \in 1 .. Steps(b \o q, l), i \in Nat :
          /\ Walk(s, b \o q, l)[n] = Look(s, At(p, q, i))
          /\ Walk(s, b \o Tail(q), l)[n - 1] = At(p, Tail(q), i)
  BY <1>1, ThenLook
<1>4. n \in 0 .. Steps(a, l) /\ W[n] = Look(s, At(p, q, i))
  <2>1. n \in 0 .. Steps(a, l)
    BY <1>2, WalkIs DEF a
  <2> QED
    BY <1>3, <2>1 DEF a
<1>5. CASE EntryIn(s, p).kind = "dir" /\ kind \in {"dir", "file"}
  <2>1. /\ Head(q) \notin Dots /\ EntryIn(s, Append(p, Head(q))).kind \in {"dir", "file"}
        /\ EntryIn(s, p).kind = "dir"
    BY <1>1, <1>5
  <2>2. Look(s, At(p, q, i)) = At(Append(p, x), <<>>, i)
    <3>1. Look(s, At(p, q, i)) = At(Append(p, Head(q)), Tail(q), i)
      BY <1>1, <2>1, LookIs
    <3> QED
      BY <1>1, <3>1
  <2>3. W[n].ok /\ W[n].rest = <<>> /\ W[n].at = Append(p, x)
    <3>1. W[n] = At(Append(p, x), <<>>, i)
      BY <1>4, <2>2
    <3> HIDE DEF W
    <3> QED
      BY <3>1 DEF At
  <2>4. Reached(s, a, l) = Place(W[n].at)
    BY <1>2, <1>4, <2>3, EndStays
  <2> QED
    BY <1>1, <1>5, <2>3, <2>4
<1>6. CASE kind = "missing"
  <2>1. Head(q) \notin Dots /\ EntryIn(s, Append(p, Head(q))).kind = "missing"
    BY <1>1, <1>6
  <2>2. Look(s, At(p, q, i)) = Lost
    BY <1>1, <2>1, LookIs
  <2>3. ~W[n].ok
    BY <1>4, <2>2, AtIs
  <2> QED
    BY <1>1, <1>2, <1>4, <1>6, <2>3, EndStays DEF Fails
<1> QED
  BY <1>5, <1>6

\* A step that fails does so whatever comes after.
LEMMA LookLost ==
    ASSUME NEW s \in Files, NEW w \in Walking, w.ok, w.rest # <<>>, ~Look(s, w).ok, NEW q \in Path
    PROVE  ~Look(s, Longer(w, q, 0)).ok
<1> DEFINE p == w.at
           r == w.rest
           i == w.links
           v == Longer(w, q, 0)
           name == Head(r)
           entry == EntryIn(s, Append(p, name))
           dir == EntryIn(s, p).kind = "dir"
<1>1. p \in Path /\ r \in Path /\ i \in Nat /\ r # <<>>
  BY AtIs
<1>2. v.ok /\ v.at = p /\ v.rest = r \o q /\ v.links = i
  <2>1. i + 0 = i
    BY <1>1
  <2>2. v = At(p, r \o q, i + 0)
    BY DEF Longer
  <2> HIDE DEF v, p, r, i
  <2>3. v = At(p, r \o q, i)
    BY <2>1, <2>2
  <2> QED
    BY <2>3 DEF At
<1>3. r \o q # <<>> /\ Head(r \o q) = name
  BY <1>1, ConcatIs
<1>4. \/ ~dir
      \/ name \notin Dots /\ entry.kind \notin {"dir", "file"} /\ ~(entry.kind = "link" /\ i > 0)
  <2>1. name \in Dots => name \in {".", ".."}
    BY DEF Dots
  <2> QED
    BY <2>1, AtIs, LookCases
<1> HIDE DEF v, p, r, i
<1>5. Look(s, v) = Lost
  <2>1. v.ok /\ v.rest # <<>> /\ Head(v.rest) = name /\ v.at = p /\ v.links = i
    BY <1>2, <1>3
  <2>2. CASE ~dir
    BY <2>1, <2>2, LookCases
  <2>3. CASE dir /\ name \notin Dots /\ entry.kind \notin {"dir", "file"} /\ ~(entry.kind = "link" /\ i > 0)
    BY <2>1, <2>3, LookCases
  <2> QED
    BY <1>4, <2>2, <2>3
<1> QED
  BY <1>5, AtIs DEF v

\* A name is taken off, or a link and at most Longest names put in its place.
LEMMA LookShrinks ==
    ASSUME NEW s \in Files, NEW w \in Walking, w.ok, w.rest # <<>>, Look(s, w).ok
    PROVE  Len(Look(s, w).rest) + Look(s, w).links * Longest < Len(w.rest) + w.links * Longest
<1> DEFINE p == w.at
           r == w.rest
           i == w.links
           v == Look(s, w)
           name == Head(r)
           entry == EntryIn(s, Append(p, name))
<1>1. p \in Path /\ r \in Path /\ i \in Nat /\ r # <<>> /\ Longest \in Nat /\ i * Longest \in Nat
  BY AtIs, TreeAssumption
<1>2. Len(r) \in Nat /\ Len(Tail(r)) = Len(r) - 1 /\ Tail(r) \in Path /\ Len(Tail(r)) \in Nat
  BY <1>1, EmptySeq DEF Path
<1>3. \/ \E t : v = At(t, Tail(r), i)
      \/ \E t : /\ v = At(t, entry.target \o Tail(r), i - 1) /\ i > 0 /\ entry.kind = "link"
  <2>1. name \in Dots => name \in {".", ".."}
    BY DEF Dots
  <2> QED
    BY <2>1, AtIs, LookCases
<1>4. CASE \E t : v = At(t, Tail(r), i)
  <2>1. v.rest = Tail(r) /\ v.links = i
    BY <1>4, AtIs
  <2> HIDE DEF v, r, i
  <2>2. Len(v.rest) + v.links * Longest = (Len(r) - 1) + i * Longest
    BY <1>2, <2>1
  <2> QED
    BY <1>1, <1>2, <2>2 DEF v, r, i
<1>5. CASE \E t : v = At(t, entry.target \o Tail(r), i - 1) /\ i > 0 /\ entry.kind = "link"
  <2> DEFINE u == entry.target
  <2>1. v.rest = u \o Tail(r) /\ v.links = i - 1 /\ i > 0
    <3>1. PICK t : v = At(t, u \o Tail(r), i - 1) /\ i > 0
      BY <1>5
    <3>2. At(t, u \o Tail(r), i - 1).rest = u \o Tail(r) /\ At(t, u \o Tail(r), i - 1).links = i - 1
      BY DEF At
    <3> QED
      BY <3>1, <3>2, Zenon
  <2>2. u \in Path /\ Len(u) <= Longest
    <3>1. Append(p, name) \in Path
      BY <1>1, EmptySeq DEF Path
    <3> QED
      BY <1>5, <3>1, EntryTyped
  <2> HIDE DEF v, r, i, u
  <2>3. Len(v.rest) = Len(u) + (Len(r) - 1) /\ Len(u) \in Nat
    <3> DEFINE t == Tail(r)
    <3>1. t \in Path /\ Len(t) = Len(r) - 1
      BY <1>2
    <3> HIDE DEF t
    <3>2. Len(u \o t) = Len(u) + Len(t) /\ Len(u) \in Nat
      BY <2>2, <3>1, ConcatIs
    <3> QED
      BY <2>1, <3>1, <3>2 DEF t
  <2>4. (i - 1) * Longest = i * Longest - Longest
    BY <1>1, <2>1
  <2> DEFINE k == i * Longest
  <2>5. v.links * Longest = k - Longest /\ k \in Nat
    BY <1>1, <2>1, <2>4
  <2> HIDE DEF k
  <2>6. Len(v.rest) + v.links * Longest < Len(r) + k
    BY <1>1, <1>2, <2>2, <2>3, <2>5
  <2> QED
    BY <2>6 DEF v, r, i, k
<1> QED
  BY <1>3, <1>4, <1>5

\* The steps of a walk are enough: it has failed, or nothing is left of the path.
LEMMA WalkEnds ==
    ASSUME NEW s \in Files, NEW a \in Path, NEW l \in Nat, Walk(s, a, l)[Steps(a, l)].ok
    PROVE  Reached(s, a, l).ok
<1> DEFINE m == Steps(a, l)
           W == Walk(s, a, l)
           Left(w) == Len(w.rest) + w.links * Longest
           S == {n \in 0 .. m : W[n].ok /\ W[n].rest # <<>> => Left(W[n]) + n <= m}
<1>1. /\ m \in Nat /\ \A n \in 0 .. m : W[n] \in Walking
      /\ W[0] = At(<<>>, a, l) /\ \A n \in 1 .. m : W[n] = Look(s, W[n - 1])
  BY WalkIs
<1>2. \A w \in Walking : w.ok => Left(w) \in Nat /\ Len(w.rest) \in Nat /\ w.links * Longest \in Nat
  <2> TAKE w \in Walking
  <2> HAVE w.ok
  <2>1. w.rest \in Path /\ w.links \in Nat /\ Longest \in Nat
    BY AtIs, TreeAssumption
  <2>2. Len(w.rest) \in Nat /\ w.links * Longest \in Nat
    BY <2>1 DEF Path
  <2> QED
    BY <2>2
<1>3. Left(W[0]) + 0 <= m
  <2>1. W[0].rest = a /\ W[0].links = l /\ W[0].ok
    BY <1>1, AtIs
  <2>2. Left(W[0]) = m
    BY <2>1 DEF Steps
  <2> QED
    BY <1>1, <2>2
<1> HIDE DEF W, m
<1>4. 0 \in S
  BY <1>1, <1>3
<1>5. ASSUME NEW k \in 1 .. m, k - 1 \in S
      PROVE  k \in S
  <2> SUFFICES ASSUME W[k].ok, W[k].rest # <<>>
               PROVE  Left(W[k]) + k <= m
    BY <1>1
  <2>1. W[k] = Look(s, W[k - 1]) /\ W[k - 1] \in Walking /\ W[k] \in Walking /\ k - 1 \in 0 .. m
    BY <1>1
  <2>2. W[k - 1].ok /\ W[k - 1].rest # <<>>
    BY <2>1, LookEnds
  <2>3. Left(W[k]) < Left(W[k - 1])
    BY <2>1, <2>2, LookShrinks
  <2>4. Left(W[k - 1]) + (k - 1) <= m
    BY <1>5, <2>2
  <2>5. Left(W[k]) \in Nat /\ Left(W[k - 1]) \in Nat
    BY <1>2, <2>1, <2>2
  <2> HIDE DEF Left
  <2> QED
    BY <1>1, <2>3, <2>4, <2>5
<1> HIDE DEF S
<1>6. 0 .. m \subseteq S
  BY <1>1, <1>4, <1>5, InductionUpTo
<1>7. W[m].rest = <<>>
  <2> SUFFICES ASSUME W[m].rest # <<>> PROVE FALSE
    OBVIOUS
  <2>1. W[m] \in Walking /\ W[m].ok /\ m \in S
    BY <1>1, <1>6 DEF W, m
  <2>2. Left(W[m]) + m <= m
    BY <2>1 DEF S
  <2>3. Len(W[m].rest) > 0
    <3>1. W[m].rest \in Path
      BY <2>1, AtIs
    <3> QED
      BY <3>1, EmptySeq DEF Path
  <2>4. Left(W[m]) > 0
    BY <1>2, <2>1, <2>3
  <2>5. Left(W[m]) \in Nat
    BY <1>2, <2>1
  <2> HIDE DEF Left
  <2> QED
    BY <1>1, <2>2, <2>4, <2>5
<1>8. m \in 0 .. m
  BY <1>1
<1>9. Reached(s, a, l) = Place(W[m].at)
  BY <1>1, <1>7, <1>8, EndStays DEF W, m
<1> QED
  BY <1>9 DEF Place
\* Where a longer path leads somewhere, so does the path.
LEMMA ReachedPrefix ==
    ASSUME NEW s \in Files, NEW u \in Path, NEW q \in Path, NEW l \in Nat, Reached(s, u \o q, l).ok
    PROVE  Reached(s, u, l).ok
<1> DEFINE V == Walk(s, u, l)
           W == Walk(s, u \o q, l)
           m == Steps(u, l)
           Z == {n \in 0 .. m : ~V[n].ok}
<1> SUFFICES ASSUME ~Reached(s, u, l).ok PROVE FALSE
  OBVIOUS
<1>1. /\ m \in Nat /\ V[0] = At(<<>>, u, l) /\ W[0] = At(<<>>, u \o q, l)
      /\ \A n \in 0 .. m : V[n] \in Walking
      /\ \A n \in 1 .. m : V[n] = Look(s, V[n - 1])
      /\ \A n \in 1 .. Steps(u \o q, l) : W[n] = Look(s, W[n - 1])
  <2>1. u \o q \in Path
    BY ConcatIs
  <2>2. \A a \in Path : Walk(s, a, l)[0] = At(<<>>, a, l)
    BY WalkIs
  <2>3. \A n \in 1 .. Steps(u \o q, l) : W[n] = Look(s, W[n - 1])
    BY <2>1, WalkIs
  <2> QED
    BY <2>1, <2>2, <2>3, WalkIs
<1>2. u \o q \in Path /\ m <= Steps(u \o q, l) /\ <<>> \in Path
  <2>1. u \o q \in Path /\ Len(u \o q) = Len(u) + Len(q) /\ Len(q) \in Nat /\ Len(u) \in Nat
    BY ConcatIs
  <2>2. l * Longest \in Nat
    BY TreeAssumption
  <2> QED
    BY <2>1, <2>2 DEF Steps, Path
<1>3. m \in Z
  <2>1. ~V[m].ok
    BY WalkEnds
  <2> QED
    BY <1>1, <2>1
<1>4. PICK n \in Z : \A k \in Z : n <= k
  <2>1. Z \in SUBSET Nat
    BY <1>1
  <2> QED
    BY <1>3, <2>1, LeastOfNaturals
<1>5. n \in 0 .. m /\ ~V[n].ok /\ \A k \in 0 .. m : k < n => V[k].ok
  BY <1>1, <1>4
<1>6. V[0].ok
  BY <1>1, AtIs
<1>7. n \in 1 .. m /\ n - 1 \in 0 .. m /\ n - 1 \in Nat /\ n \in 1 .. Steps(u \o q, l) /\ n - 1 < n
  <2>1. n # 0
    BY <1>5, <1>6
  <2>2. Steps(u \o q, l) \in Nat
    BY <1>2, WalkIs
  <2> HIDE DEF m
  <2> QED
    BY <1>1, <1>2, <1>5, <2>1, <2>2
<1>8. \A k \in 0 .. n - 1 : V[k].ok /\ V[k].rest # <<>>
  <2> TAKE k \in 0 .. n - 1
  <2>1. k \in 0 .. m /\ k < n
    BY <1>1, <1>5, <1>7
  <2>2. V[k].ok
    BY <1>5, <2>1
  <2>3. ~(V[k].ok /\ V[k].rest = <<>>)
    BY <2>1, EndStays DEF Place
  <2> QED
    BY <2>2, <2>3
<1>9. Ahead(s, u, l, 0, u \o q, l, 0, q, 0)
  <2>1. l + 0 = l
    OBVIOUS
  <2>2. W[0] = Longer(V[0], q, 0)
    <3> HIDE DEF V, W
    <3> QED
      BY <1>1, <2>1, AtIs DEF Longer
  <2> QED
    BY <2>2 DEF Ahead
<1>10. Ahead(s, u, l, n - 1, u \o q, l, n - 1, q, 0)
  <2>1. n - 1 >= 0 /\ (n - 1) - 0 = (n - 1) - 0 /\ n - 1 <= m /\ n - 1 <= Steps(u \o q, l)
    <3>1. Steps(u \o q, l) \in Nat
      BY <1>2, WalkIs
    <3> HIDE DEF m
    <3> QED
      BY <1>1, <1>2, <1>7, <3>1
  <2>2. \A k \in Nat : 0 <= k /\ k < n - 1 => V[k].rest # <<>> \/ q = <<>>
    <3> TAKE k \in Nat
    <3> HAVE 0 <= k /\ k < n - 1
    <3>1. k \in 0 .. n - 1
      BY <1>7
    <3> QED
      BY <1>8, <3>1
  <2>3. V[n - 1].ok /\ n - 1 \in 0 .. n - 1
    BY <1>7, <1>8
  <2> DEFINE j == n - 1
  <2> HIDE DEF j
  <2>4. Ahead(s, u, l, j, u \o q, l, j, q, 0)
    BY <1>2, <1>7, <1>9, <2>1, <2>2, <2>3, WalkFurther DEF j
  <2> QED
    BY <2>4 DEF j
<1>11. ~Look(s, V[n - 1]).ok /\ V[n - 1].ok /\ V[n - 1].rest # <<>> /\ V[n - 1] \in Walking
  BY <1>1, <1>5, <1>7, <1>8
<1>12. ~Look(s, W[n - 1]).ok
  BY <1>10, <1>11, LookLost DEF Ahead
<1>13. ~W[n].ok /\ n \in 0 .. Steps(u \o q, l)
  BY <1>1, <1>7, <1>12
<1>14. Reached(s, u \o q, l) = Fails
  BY <1>2, <1>13, EndStays
<1> QED
  BY <1>14 DEF Fails

\* Nothing is lost with a dot.
LEMMA WithoutDot ==
    ASSUME NEW s \in Files, NEW u \in Path, NEW v \in Path, NEW l \in Nat, NEW f,
           NEW x \in Component, x = ".", Reached(s, u \o (<<x>> \o v), l) = Place(f)
    PROVE  Reached(s, u \o v, l) = Place(f)
<1> DEFINE q == <<x>> \o v
           a == u \o q
           b == u \o v
           W == Walk(s, a, l)
           X == Walk(s, b, l)
           m == Steps(a, l)
           k == Steps(b, l)
<1>1. /\ q \in Path /\ q # <<>> /\ Head(q) = "." /\ Tail(q) = v /\ Len(q) = Len(v) + 1 /\ Len(v) \in Nat
  <2> DEFINE o == <<x>>
  <2>1. o \in Path /\ o # <<>> /\ Head(o) = x /\ Tail(o) = <<>> /\ Len(o) = 1
    BY DEF Path
  <2>3. q = o \o v
    OBVIOUS
  <2> HIDE DEF o, q
  <2>2. /\ o \o v \in Path /\ Len(o \o v) = Len(o) + Len(v) /\ Len(v) \in Nat
        /\ o \o v # <<>> /\ Head(o \o v) = Head(o) /\ Tail(o \o v) = Tail(o) \o v /\ <<>> \o v = v
    BY <2>1, ConcatIs
  <2>4. Tail(q) = v
    BY <2>1, <2>2, <2>3, Zenon
  <2>5. q \in Path /\ q # <<>> /\ Head(q) = "."
    BY <2>1, <2>2, <2>3, Zenon
  <2>6. Len(q) = Len(v) + 1 /\ Len(v) \in Nat
    BY <2>1, <2>2, <2>3
  <2> QED
    BY <2>4, <2>5, <2>6
<1> HIDE DEF q
<1>2. a \in Path /\ b \in Path /\ Len(a) = Len(u) + Len(q) /\ Len(b) = Len(u) + Len(v) /\ Len(u) \in Nat
  BY <1>1, ConcatIs
<1>3. m \in Nat /\ k \in Nat /\ m = k + 1
  <2>1. l * Longest \in Nat
    BY TreeAssumption
  <2> QED
    BY <1>1, <1>2, <2>1 DEF Steps
<1>4. Reached(s, a, l).ok /\ Reached(s, a, l) = Place(f)
  BY DEF Place, q
<1>5. Reached(s, u, l).ok
  BY <1>1, <1>4, ReachedPrefix
<1> DEFINE p == Reached(s, u, l).place
<1>6. p \in Path /\ Reached(s, u, l) = Place(p)
  BY <1>5, ReachedType
<1> HIDE DEF p
<1>0. PICK n \in 1 .. Steps(u \o q, l), i \in Nat :
          /\ Walk(s, u \o q, l)[n] = Look(s, At(p, q, i))
          /\ Walk(s, u \o Tail(q), l)[n - 1] = At(p, Tail(q), i)
  BY <1>1, <1>6, ThenLook
<1>7. n \in 1 .. m /\ W[n] = Look(s, At(p, q, i)) /\ X[n - 1] = At(p, v, i)
  BY <1>0, <1>1
<1>8. W[n] = At(p, v, i)
  <2>1. W[n].ok
    <3>1. ~W[n].ok => Reached(s, a, l) = Fails
      <4>1. n \in 0 .. m
        BY <1>3
      <4> QED
        BY <1>2, <4>1, EndStays
    <3> QED
      BY <1>4, <3>1 DEF Fails
  <2>2. \/ Look(s, At(p, q, i)) = Lost
        \/ Look(s, At(p, q, i)) = At(p, Tail(q), i)
    BY <1>1, <1>6, LookIs
  <2>3. ~Lost.ok
    BY AtIs
  <2> HIDE DEF W
  <2> QED
    BY <1>1, <1>7, <2>1, <2>2, <2>3
<1>9. Ahead(s, a, l, n, b, l, n - 1, <<>>, 0)
  <2> DEFINE w == At(p, v, i)
  <2>1. w.at = p /\ w.rest = v /\ w.links = i /\ i + 0 = i /\ v \o <<>> = v
    BY AtIs, ConcatIs DEF Path
  <2> HIDE DEF w
  <2>2. Longer(w, <<>>, 0) = At(p, v, i)
    BY <2>1 DEF Longer
  <2> HIDE DEF W, X
  <2>3. X[n - 1] = Longer(W[n], <<>>, 0)
    BY <1>7, <1>8, <2>2 DEF w
  <2> QED
    BY <2>3 DEF Ahead, W, X
<1>10. W[m].ok /\ W[m].rest = <<>> /\ W[m].at = f
  <2>1. Reached(s, a, l) = IF W[m].ok /\ W[m].rest = <<>> THEN Place(W[m].at) ELSE Fails
    BY Zenon DEF Reached, End
  <2> HIDE DEF W
  <2> QED
    BY <1>4, <2>1 DEF Fails, Place
<1>11. Ahead(s, a, l, m, b, l, k, <<>>, 0)
  <2>1. /\ n \in Nat /\ n - 1 \in Nat /\ m >= n /\ k - (n - 1) = m - n /\ <<>> \in Path
    BY <1>3 DEF Path
  <2>2. m \in Nat /\ k \in Nat /\ m <= Steps(a, l) /\ k <= Steps(b, l) /\ Walk(s, a, l)[m].ok
    BY <1>3, <1>10, <2>1
  <2> DEFINE j == n - 1
  <2> HIDE DEF j, m, k, a, b
  <2>3. Ahead(s, a, l, m, b, l, k, <<>>, 0)
    BY <1>2, <1>9, <2>1, <2>2, WalkFurther DEF j
  <2> QED
    BY <2>3
<1>12. X[k].ok /\ X[k].rest = <<>> /\ X[k].at = f
  <2>1. X[k] = Longer(W[m], <<>>, 0)
    BY <1>11 DEF Ahead
  <2>2. <<>> \o <<>> = <<>>
    BY ConcatIs DEF Path
  <2> HIDE DEF W, X, m, k
  <2> QED
    BY <1>10, <2>1, <2>2 DEF Longer, At
<1>13. Reached(s, b, l) = Place(X[k].at)
  <2>1. k \in 0 .. k
    BY <1>3
  <2> QED
    BY <1>2, <1>12, <2>1, EndStays
<1> QED
  BY <1>12, <1>13

LEMMA HeadThenTail == ASSUME NEW w \in Path, w # <<>> PROVE w = <<Head(w)>> \o Tail(w)
<1> DEFINE o == <<Head(w)>>
           q == Tail(w)
           u == o \o q
<1>1. /\ Head(w) \in Component /\ q \in Seq(Component) /\ Len(w) \in Nat /\ Len(w) > 0 /\ Len(q) = Len(w) - 1
      /\ Head(w) = w[1] /\ \A i \in 1 .. Len(w) - 1 : q[i] = w[i + 1]
  BY EmptySeq DEF Path
<1> HIDE DEF q
<1>2. u \in Seq(Component) /\ Len(u) = Len(w) /\ u[1] = w[1] /\ \A i \in 1 .. Len(w) - 1 : u[i + 1] = q[i]
  BY <1>1
<1> HIDE DEF u
<1>3. ASSUME NEW i \in 1 .. Len(w) PROVE u[i] = w[i]
  <2>1. i # 1 => i - 1 \in 1 .. Len(w) - 1 /\ (i - 1) + 1 = i
    BY <1>1
  <2> QED
    BY <1>1, <1>2, <2>1
<1>4. u = w
  BY <1>1, <1>2, <1>3, SeqEqual DEF Path
<1> QED
  BY <1>4 DEF u, q

\* Where there is no "..", to clean a path is to leave out its dots.
LEMMA CleanReached ==
    ASSUME NEW s \in Files, NEW r \in Path, NEW l \in Nat, NEW f, Reached(s, r, l) = Place(f),
           \A i \in 1 .. Len(r) : r[i] # ".."
    PROVE  Reached(s, Clean(r), l) = Place(f)
<1> DEFINE m == Len(r)
           c == Joined(<<>>, r)
           t(n) == SubSeq(r, n + 1, m)
           S == {n \in 0 .. m : Reached(s, c[n] \o t(n), l) = Place(f)}
<1>1. m \in Nat /\ <<>> \in Path
  BY DEF Path
<1>2. /\ \A n \in 0 .. m : c[n] \in Path
      /\ c[0] = <<>> /\ \A n \in 1 .. m : c[n] = Join(c[n - 1], r[n])
  BY <1>1, JoinedIs
<1> HIDE DEF c
<1>3. 0 \in S
  <2>1. t(0) = r
    <3>1. SubSeq(r, 1, m) = r /\ 0 + 1 = 1
      BY <1>1, PrefixIs
    <3> QED
      BY <3>1
  <2>2. <<>> \o r = r
    BY ConcatIs
  <2>3. c[0] \o t(0) = r
    BY <1>2, <2>1, <2>2
  <2>4. 0 \in 0 .. m
    BY <1>1
  <2> HIDE DEF t, m
  <2> QED
    BY <2>3, <2>4
<1>4. ASSUME NEW n \in 1 .. m, n - 1 \in S
      PROVE  n \in S
  <2> DEFINE x == r[n]
             b == c[n - 1]
             v == t(n)
  <2>1. /\ n - 1 \in 0 .. m /\ n \in 0 .. m /\ (n - 1) + 1 = n
    BY <1>1
  <2>2. x \in Component /\ v \in Path /\ b \in Path /\ x # ".."
    BY <1>1, <1>2, <2>1 DEF Path
  <2>3. t(n - 1) = <<x>> \o v
    <3>1. /\ SubSeq(r, n, m) # <<>> /\ Head(SubSeq(r, n, m)) = x /\ Tail(SubSeq(r, n, m)) = v
          /\ SubSeq(r, n, m) \in Path
      BY RestIs
    <3>2. t(n - 1) = SubSeq(r, n, m)
      BY <2>1
    <3> DEFINE w == SubSeq(r, n, m)
    <3> HIDE DEF w, x, v, t
    <3>3. w = <<Head(w)>> \o Tail(w)
      BY <3>1, HeadThenTail DEF w
    <3> QED
      BY <3>1, <3>2, <3>3 DEF w
  <2>4. Reached(s, b \o (<<x>> \o v), l) = Place(f)
    <3>1. Reached(s, c[n - 1] \o t(n - 1), l) = Place(f)
      BY <1>4
    <3> HIDE DEF t, x, v
    <3> QED
      BY <2>3, <3>1
  <2> HIDE DEF x, v, b, t
  <2>5. CASE x = "."
    <3>1. c[n] = b
      BY <1>2, <2>1, <2>2, <2>5, JoinIs DEF x, b
    <3>2. Reached(s, b \o v, l) = Place(f)
      BY <2>2, <2>4, <2>5, WithoutDot
    <3> QED
      BY <2>1, <3>1, <3>2 DEF v
  <2>6. CASE x # "."
    <3>1. c[n] = Append(b, x)
      <4>1. x \notin Dots
        BY <2>2, <2>6 DEF Dots
      <4> QED
        BY <1>2, <2>1, <2>2, <4>1, JoinIs DEF x, b
    <3>2. Append(b, x) = b \o <<x>>
      BY <2>2, AppendIsConcat DEF Path
    <3>3. (b \o <<x>>) \o v = b \o (<<x>> \o v)
      <4> DEFINE o == <<x>>
      <4>1. o \in Path
        BY <2>2 DEF Path
      <4> HIDE DEF o
      <4>2. (b \o o) \o v = b \o (o \o v)
        BY <2>2, <4>1, ConcatMore, SMTT(40)
      <4> QED
        BY <4>2 DEF o
    <3> QED
      BY <2>1, <2>4, <3>1, <3>2, <3>3 DEF v
  <2> QED
    BY <2>5, <2>6
<1> HIDE DEF S
<1>5. 0 .. m \subseteq S
  BY <1>1, <1>3, <1>4, InductionUpTo
<1>6. m \in S
  <2>1. m \in 0 .. m
    BY <1>1
  <2> HIDE DEF m
  <2> QED
    BY <1>5, <2>1
<1>7. t(m) = <<>> /\ c[m] \o <<>> = c[m] /\ c[m] = Clean(r)
  <2>1. t(m) = <<>>
    BY <1>1, RestIs
  <2>2. m \in 0 .. m
    BY <1>1
  <2>3. c[m] \in Path
    BY <1>2, <2>2
  <2>4. c[m] \o <<>> = c[m]
    BY <1>1, <2>3, ConcatIs
  <2> QED
    BY <2>1, <2>4 DEF c, Clean, JoinAll
<1> HIDE DEF m, t, c
<1> QED
  BY <1>6, <1>7 DEF S

----------------------------------------------------------------------------
(* What the policy takes a path for is what the kernel opens. *)

LEMMA LinksAllowed == KernelLinks \in Nat /\ GoLinks \in Nat /\ KernelLinks <= GoLinks
BY TreeAssumption

LEMMA JoinNothing ==
    ASSUME NEW p \in Path
    PROVE  /\ JoinAll(p, <<>>) = p
           /\ \A x \in Component : x \notin Dots => JoinAll(p, <<x>>) = Append(p, x)
<1>1. <<>> \in Path /\ Len(<<>>) = 0
  BY DEF Path
<1>2. JoinAll(p, <<>>) = p
  BY <1>1, JoinedIs DEF JoinAll
<1>3. ASSUME NEW x \in Component, x \notin Dots
      PROVE  JoinAll(p, <<x>>) = Append(p, x)
  <2> DEFINE a == <<x>>
  <2>1. a \in Path /\ Len(a) = 1 /\ a[1] = x
    BY DEF Path
  <2> HIDE DEF a
  <2>2. Joined(p, a)[0] = p /\ Joined(p, a)[1] = Join(Joined(p, a)[1 - 1], a[1])
    BY <2>1, JoinedIs
  <2>3. JoinAll(p, a) = Join(p, x)
    BY <2>1, <2>2 DEF JoinAll
  <2> QED
    BY <1>3, <2>3, JoinIs DEF a
<1> QED
  BY <1>2, <1>3

LEMMA MaxIs ==
    ASSUME NEW n \in Nat, NEW S \in SUBSET (0 .. n), NEW k \in S, \A i \in S : i <= k
    PROVE  Max(S) = k
<1>1. Max(S) = CHOOSE x \in S : \A y \in S : x >= y
  BY DEF Max
<1>2. \A x, y \in S : x \in Nat /\ y \in Nat
  OBVIOUS
<1>3. \A y \in S : k >= y
  BY <1>2
<1>4. Max(S) \in S /\ Max(S) >= k
  <2>1. \E x \in S : \A y \in S : x >= y
    BY <1>3
  <2> QED
    BY <1>1, <2>1, Zenon
<1> DEFINE M == Max(S)
<1> HIDE DEF M
<1>5. M \in Nat /\ k \in Nat /\ M >= k /\ k >= M
  BY <1>2, <1>3, <1>4 DEF M
<1>6. M = k
  BY <1>5
<1> QED
  BY <1>6 DEF M

LEMMA MinIs ==
    ASSUME NEW S \in SUBSET Nat, S # {}
    PROVE  Min(S) \in S /\ \A y \in S : Min(S) <= y
<1>1. Min(S) = CHOOSE x \in S : \A y \in S : x <= y
  BY DEF Min
<1>2. \E x \in S : \A y \in S : x <= y
  BY LeastOfNaturals
<1> QED
  BY <1>1, <1>2, Zenon

\* A path that exists is taken for the place it leads to.
LEMMA RealpathOfExisting ==
    ASSUME slots \in Files, NEW a \in Path, EvalSymlinks(a).ok
    PROVE  realpath(a) = EvalSymlinks(a).place
<1> DEFINE E == {i \in 0 .. Len(a) : EvalSymlinks(SubSeq(a, 1, i)).ok}
           m == Len(a)
<1>1. m \in Nat /\ SubSeq(a, 1, m) = a /\ SubSeq(a, m + 1, m) = <<>>
  <2>1. Len(a) \in Nat /\ Len(a) \in 0 .. Len(a)
    BY DEF Path
  <2> QED
    BY <2>1, PrefixIs DEF Path
<1>2. Max(E) = m
  <2>1. E \in SUBSET (0 .. m)
    OBVIOUS
  <2>2. m \in E
    <3>1. m \in 0 .. m
      BY <1>1
    <3> QED
      BY <1>1, <3>1
  <2>3. \A i \in E : i <= m
    BY <1>1
  <2> HIDE DEF E, m
  <2> QED
    BY <1>1, <2>1, <2>2, <2>3, MaxIs
<1>3. realpath(a) = JoinAll(EvalSymlinks(SubSeq(a, 1, Max(E))).place, SubSeq(a, Max(E) + 1, m))
  BY Zenon DEF realpath, From
<1>4. EvalSymlinks(a).place \in Path
  BY LinksAllowed, ReachedType DEF EvalSymlinks
<1> HIDE DEF E, m
<1> QED
  BY <1>1, <1>2, <1>3, <1>4, JoinNothing

\* One that can be created is taken for its name in the directory it leads to.
LEMMA RealpathOfNew ==
    ASSUME slots \in Files, NEW a \in Path, a # <<>>,
           EvalSymlinks(Front(a)).ok, ~EvalSymlinks(a).ok, Last(a) \notin Dots
    PROVE  realpath(a) = Append(EvalSymlinks(Front(a)).place, Last(a))
<1> DEFINE E == {i \in 0 .. Len(a) : EvalSymlinks(SubSeq(a, 1, i)).ok}
           m == Len(a)
           x == Last(a)
<1>1. /\ m \in Nat \ {0} /\ SubSeq(a, 1, m) = a /\ SubSeq(a, 1, m - 1) = Front(a)
      /\ Front(a) \in Path /\ x = a[m] /\ x \in Component
  BY FrontIs, PrefixIs
<1>2. SubSeq(a, m, m) = <<x>>
  <2>1. a \in Seq(Component)
    BY DEF Path
  <2> HIDE DEF m, x
  <2>2. /\ SubSeq(a, m, m) \in Seq(Component) /\ Len(SubSeq(a, m, m)) = 1 /\ SubSeq(a, m, m)[1] = x
    BY <1>1, <2>1 DEF m
  <2> DEFINE q == SubSeq(a, m, m)
             r == <<x>>
  <2>3. r \in Seq(Component) /\ Len(r) = 1 /\ r[1] = x
    BY <1>1
  <2>4. q \in Seq(Component) /\ Len(q) = 1 /\ q[1] = x
    BY <2>2
  <2> HIDE DEF q, r
  <2>5. \A i \in 1 .. 1 : q[i] = r[i]
    BY <2>3, <2>4
  <2>6. q = r
    BY <2>3, <2>4, <2>5, SeqEqual
  <2> QED
    BY <2>6 DEF q, r
<1>3. Max(E) = m - 1
  <2>1. E \in SUBSET (0 .. m) /\ m \notin E
    BY <1>1
  <2>4. m - 1 \in E
    <3>1. m - 1 \in 0 .. m
      BY <1>1
    <3> QED
      BY <1>1, <3>1
  <2> HIDE DEF E, m
  <2>2. \A i \in E : i <= m - 1
    BY <1>1, <2>1
  <2>3. m \in Nat
    BY <1>1
  <2> QED
    BY <2>1, <2>2, <2>3, <2>4, MaxIs
<1>4. realpath(a) = JoinAll(EvalSymlinks(SubSeq(a, 1, Max(E))).place, SubSeq(a, Max(E) + 1, m))
  BY Zenon DEF realpath, From
<1>5. EvalSymlinks(Front(a)).place \in Path
  BY <1>1, LinksAllowed, ReachedType DEF EvalSymlinks
<1> HIDE DEF E, m, x
<1>6. realpath(a) = JoinAll(EvalSymlinks(Front(a)).place, <<x>>)
  <2>1. (m - 1) + 1 = m
    BY <1>1
  <2> QED
    BY <1>1, <1>2, <1>3, <1>4, <2>1
<1> QED
  BY <1>1, <1>5, <1>6, JoinNothing DEF x

\* The kernel opens what a walk finds, or creates a name in a directory.
LEMMA OpenedIs ==
    ASSUME slots \in Files, NEW a \in Path, Opened(a).ok
    PROVE  \/ Kernel(a).ok /\ Opened(a) = Kernel(a)
           \/ /\ ~Kernel(a).ok /\ a # <<>> /\ Front(a) \in Path /\ Kernel(Front(a)).ok
              /\ Last(a) \notin Dots /\ EntryAt(Append(Kernel(Front(a)).place, Last(a))).kind = "missing"
              /\ Opened(a) = Place(Append(Kernel(Front(a)).place, Last(a)))
<1>1. a = <<>> => Kernel(a).ok
  <2>1. <<>> \in Path /\ Real(slots, <<>>)
    BY RealTop DEF Path
  <2>2. Reached(slots, <<>>, KernelLinks) = Place(<<>>)
    BY <2>1, LinksAllowed, RealReached
  <2> QED
    BY <2>2 DEF Kernel, Place
<1>2. CASE Kernel(a).ok
  BY <1>2, Zenon DEF Opened
<1>3. CASE ~Kernel(a).ok
  <2>1. a # <<>> /\ Up(a) = Front(a) /\ Front(a) \in Path
    BY <1>1, <1>3, UpType, FrontIs
  <2> DEFINE dir == Kernel(Front(a))
             new == dir.ok /\ EntryAt(dir.place).kind = "dir" /\ Last(a) \notin Dots
                    /\ EntryAt(Append(dir.place, Last(a))) = Missing
  <2>2. Opened(a) = IF new THEN Place(Append(dir.place, Last(a))) ELSE Fails
    BY <1>3, <2>1, Zenon DEF Opened
  <2>3. new
    BY <2>2 DEF Fails
  <2>4. EntryAt(Append(dir.place, Last(a))).kind = "missing"
    BY <2>3 DEF Missing
  <2> QED
    BY <1>3, <2>1, <2>2, <2>3, <2>4
<1> QED
  BY <1>2, <1>3

\* EvalSymlinks finds e at a, or finds the directory in which e would be a new name.
Finds(a, e) ==
    \/ EvalSymlinks(a) = Place(e)
    \/ /\ a # <<>> /\ Last(a) \notin Dots
       /\ EvalSymlinks(Front(a)).ok
       /\ EntryAt(Append(EvalSymlinks(Front(a)).place, Last(a))).kind = "missing"
       /\ e = Append(EvalSymlinks(Front(a)).place, Last(a))

\* The kernel follows fewer links.
LEMMA OpenedFinds ==
    ASSUME slots \in Files, NEW a \in Path, Opened(a).ok
    PROVE  Finds(a, Opened(a).place)
<1>1. \A b \in Path : Kernel(b).ok => EvalSymlinks(b) = Kernel(b)
  BY LinksAllowed, MoreLinks DEF Kernel, EvalSymlinks
<1>2. CASE Kernel(a).ok /\ Opened(a) = Kernel(a)
  <2>1. Kernel(a) = Place(Kernel(a).place)
    BY <1>2, LinksAllowed, ReachedType DEF Kernel
  <2> QED
    BY <1>1, <1>2, <2>1 DEF Finds
<1>3. CASE /\ a # <<>> /\ Front(a) \in Path /\ Kernel(Front(a)).ok
           /\ Last(a) \notin Dots /\ EntryAt(Append(Kernel(Front(a)).place, Last(a))).kind = "missing"
           /\ Opened(a) = Place(Append(Kernel(Front(a)).place, Last(a)))
  BY <1>1, <1>3 DEF Finds, Place
<1> QED
  BY <1>2, <1>3, OpenedIs

LEMMA RealpathFinds ==
    ASSUME slots \in Files, NEW a \in Path, NEW e, Finds(a, e)
    PROVE  realpath(a) = e
<1>1. CASE EvalSymlinks(a) = Place(e)
  BY <1>1, RealpathOfExisting DEF Place
<1>2. CASE /\ a # <<>> /\ Last(a) \notin Dots
           /\ EvalSymlinks(Front(a)).ok
           /\ EntryAt(Append(EvalSymlinks(Front(a)).place, Last(a))).kind = "missing"
           /\ e = Append(EvalSymlinks(Front(a)).place, Last(a))
  <2> DEFINE b == Front(a)
             x == Last(a)
  <2>1. b \in Path /\ x \in Component /\ a = Append(b, x)
    BY <1>2, FrontIs
  <2>2. ~EvalSymlinks(Append(b, x)).ok
    <3>1. Reached(slots, b, GoLinks).ok /\ EntryIn(slots, Append(Reached(slots, b, GoLinks).place, x)).kind = "missing"
      BY <1>2 DEF EvalSymlinks, EntryAt
    <3> HIDE DEF b, x
    <3>2. x \notin Dots
      BY <1>2 DEF x
    <3>3. PICK p \in Path : Reached(slots, b, GoLinks) = Place(p)
      BY <2>1, <3>1, LinksAllowed, ReachedType
    <3>4. EntryIn(slots, Append(p, x)).kind = "missing"
      BY <3>1, <3>3 DEF Place
    <3> QED
      BY <2>1, <3>2, <3>3, <3>4, LinksAllowed, NamedThere DEF EvalSymlinks
  <2>3. realpath(a) = Append(EvalSymlinks(b).place, x)
    BY <1>2, <2>1, <2>2, RealpathOfNew
  <2> QED
    BY <1>2, <2>3
<1> QED
  BY <1>1, <1>2 DEF Finds

\* The roots of the run are real places, whatever the agent has changed.
LEMMA RootsAreReal ==
    ASSUME slots \in Files
    PROVE  /\ DOMAIN Roots = DOMAIN Workspace /\ DOMAIN Workspace \subseteq Nat
           /\ \A i \in DOMAIN Roots : Roots[i] \in Path /\ Real(slots, Roots[i])
<1>1. Workspace \in Seq(Path)
  BY PathAssumption DEF Path
<1>2. DOMAIN Roots = DOMAIN Workspace /\ \A i \in DOMAIN Workspace : Roots[i] = realpath(Clean(Workspace[i]))
  BY DEF Roots
<1>3. ASSUME NEW i \in DOMAIN Workspace
      PROVE  Roots[i] \in Path /\ Real(slots, Roots[i])
  <2> DEFINE c == Clean(Workspace[i])
  <2>1. Workspace[i] \in Path
    BY <1>1
  <2>2. c \in Path
    BY <2>1, CleanType
  <2>3. Reached(slots, c, GoLinks).ok
    BY RootAssumption DEF Files
  <2>4. Roots[i] = realpath(c)
    BY <1>2
  <2> HIDE DEF c
  <2>5. Roots[i] = Reached(slots, c, GoLinks).place
    BY <2>2, <2>3, <2>4, RealpathOfExisting DEF EvalSymlinks
  <2> QED
    BY <2>2, <2>3, <2>5, LinksAllowed, ReachedType, WalkReal
<1> QED
  BY <1>1, <1>2, <1>3

LEMMA RootOfIs ==
    ASSUME slots \in Files, NEW c \in Path, Containing(c) # {}
    PROVE  /\ RootOf(c) \in Path /\ Real(slots, RootOf(c)) /\ Len(RootOf(c)) \in 0 .. Len(c)
           /\ RootOf(c) = SubSeq(c, 1, Len(RootOf(c)))
<1> DEFINE C == Containing(c)
           k == Min(C)
           R == Roots[k]
<1>1. C \subseteq DOMAIN Roots /\ C \in SUBSET Nat /\ \A i \in C : IsPrefix(Roots[i], c)
  BY RootsAreReal DEF Containing, under
<1>2. k \in C
  <2> HIDE DEF C
  <2> QED
    BY <1>1, MinIs DEF C
<1> HIDE DEF C, k
<1>3. R \in Path /\ Real(slots, R) /\ IsPrefix(R, c)
  BY <1>1, <1>2, RootsAreReal
<1> HIDE DEF R
<1>4. Len(R) \in 0 .. Len(c) /\ R = SubSeq(c, 1, Len(R))
  <2>1. Len(R) <= Len(c) /\ SubSeq(R, 1, Len(R)) = SubSeq(c, 1, Len(R))
    BY <1>3 DEF IsPrefix
  <2>2. Len(R) \in Nat /\ Len(R) \in 0 .. Len(R)
    BY <1>3 DEF Path
  <2>3. SubSeq(R, 1, Len(R)) = R
    BY <1>3, <2>2, PrefixIs
  <2>4. Len(c) \in Nat
    BY DEF Path
  <2> QED
    BY <2>1, <2>2, <2>3, <2>4
<1>5. RootOf(c) = R
  BY DEF RootOf, R, k, C
<1> QED
  BY <1>3, <1>4, <1>5

\* Where directories lead, lstat finds what is there.
LEMMA LstatIs ==
    ASSUME slots \in Files, NEW c \in Path, NEW i \in 1 .. Len(c),
           \A j \in 1 .. Len(c) : c[j] \notin Dots,
           \A j \in 0 .. i - 1 : EntryAt(SubSeq(c, 1, j)).kind = "dir"
    PROVE  Lstat(SubSeq(c, 1, i)) = EntryAt(SubSeq(c, 1, i))
<1> DEFINE p == SubSeq(c, 1, i)
           q == SubSeq(c, 1, i - 1)
<1>1. i \in 0 .. Len(c) /\ i - 1 \in 0 .. Len(c) /\ i > 0 /\ i \in Nat /\ i - 1 \in 0 .. i
  <2>1. Len(c) \in Nat
    BY DEF Path
  <2> QED
    BY <2>1
<1>2. /\ p \in Path /\ Len(p) = i /\ p = Append(q, c[i]) /\ SubSeq(p, 1, i - 1) = q /\ p[i] = c[i]
  <2>1. i \in 1 .. i
    BY <1>1
  <2> QED
    BY <1>1, <2>1, PrefixIs
<1>3. /\ q \in Path /\ Len(q) = i - 1 /\ \A k \in 1 .. i - 1 : q[k] = c[k]
      /\ \A k \in 0 .. i - 1 : SubSeq(q, 1, k) = SubSeq(c, 1, k)
  BY <1>1, PrefixIs
<1>4. Real(slots, q)
  <2>1. EntryIn(slots, q).kind = "dir"
    <3>1. i - 1 \in 0 .. i - 1
      BY <1>1
    <3> QED
      BY <3>1 DEF EntryAt
  <2> HIDE DEF q
  <2>2. ASSUME NEW k \in 1 .. Len(q)
        PROVE  q[k] \notin Dots
    <3>1. k \in 1 .. i - 1 /\ k \in 1 .. Len(c)
      BY <1>1, <1>3
    <3> QED
      BY <1>3, <3>1
  <2>3. ASSUME NEW k \in 0 .. Len(q) - 1
        PROVE  EntryIn(slots, SubSeq(q, 1, k)).kind = "dir"
    <3>1. k \in 0 .. i - 1
      BY <1>1, <1>3
    <3>2. EntryIn(slots, SubSeq(c, 1, k)).kind = "dir"
      BY <3>1 DEF EntryAt
    <3> QED
      BY <1>3, <3>1, <3>2
  <2> QED
    BY <2>1, <2>2, <2>3 DEF Real
<1>5. Kernel(q) = Place(q)
  BY <1>3, <1>4, LinksAllowed, RealReached DEF Kernel
<1>6. Front(p) = q /\ Last(p) = c[i]
  <2>1. p # <<>>
    BY <1>1, <1>2
  <2> HIDE DEF p, q
  <2> QED
    BY <1>1, <1>2, <2>1, FrontIs
<1>7. EntryAt(q).kind = "dir"
  <2>1. i - 1 \in 0 .. i - 1
    BY <1>1
  <2> QED
    BY <2>1
<1>8. Place(q).ok /\ Place(q).place = q
  BY DEF Place
<1> HIDE DEF p, q
<1>9. Lstat(p) = EntryAt(Append(q, c[i]))
  BY <1>5, <1>6, <1>7, <1>8, Zenon DEF Lstat, EntryUnder
<1> QED
  BY <1>2, <1>9 DEF p

Plain(a) ==
    /\ ".." \notin Range(a)
    /\ Containing(Clean(a)) # {}
    /\ Special(Clean(a)) = {} \/ Lstat(SubSeq(Clean(a), 1, Min(Special(Clean(a))))).kind = "missing"

LEMMA ResolveIs == ASSUME NEW a PROVE resolve(a) = IF Plain(a) THEN Clean(a) ELSE realpath(a)
BY Zenon DEF resolve, Plain, NoLink, Kind

\* The fast path is only taken where no link can be on the way.
LEMMA PlainIsLinkless ==
    ASSUME slots \in Files, NEW a \in Path, Plain(a)
    PROVE  Linkless(slots, Clean(a))
<1> DEFINE c == Clean(a)
           R == RootOf(c)
           kind(i) == Lstat(SubSeq(c, 1, i)).kind
           Z == Special(c)
<1>1. c \in Path /\ Len(c) \in Nat /\ \A j \in 1 .. Len(c) : c[j] \notin Dots
  <2>1. c \in Path
    BY CleanType
  <2>2. \A j \in 1 .. Len(c) : c[j] \notin Dots
    BY CleanIsClean
  <2> HIDE DEF c
  <2> QED
    BY <2>1, <2>2 DEF Path
<1>2. R \in Path /\ Real(slots, R) /\ Len(R) \in 0 .. Len(c) /\ R = SubSeq(c, 1, Len(R))
  <2>1. Containing(c) # {}
    BY DEF Plain
  <2> HIDE DEF c
  <2> QED
    BY <1>1, <2>1, RootOfIs
<1>3. Z = {} \/ kind(Min(Z)) = "missing"
  BY DEF Plain
<1>4. Z = {i \in Len(R) + 1 .. Len(c) : kind(i) \in {"missing", "link"}}
  BY DEF Special, Kind
<1> SUFFICES ASSUME NEW i \in 1 .. Len(c),
                    \A j \in 0 .. i - 1 : EntryAt(SubSeq(c, 1, j)).kind = "dir",
                    EntryAt(SubSeq(c, 1, i)).kind = "link"
             PROVE  FALSE
  BY DEF Linkless, EntryAt
<1> HIDE DEF c, R, Z
<1>5. kind(i) = "link"
  BY <1>1, LstatIs
<1>6. i > Len(R)
  <2>1. SUFFICES ASSUME i <= Len(R) PROVE FALSE
    BY <1>2
  <2>2. i \in 0 .. Len(R)
    BY <1>2, <2>1
  <2>3. SubSeq(R, 1, i) = SubSeq(c, 1, i)
    BY <1>1, <1>2, <2>2, PrefixIs
  <2>4. Real(slots, SubSeq(c, 1, i))
    BY <1>2, <2>2, <2>3, RealPrefix
  <2> QED
    BY <2>4 DEF Real, EntryAt
<1>7. i \in Z
  <2>1. i \in Len(R) + 1 .. Len(c)
    BY <1>1, <1>2, <1>6
  <2> QED
    BY <1>4, <1>5, <2>1
<1> DEFINE k == Min(Z)
<1>8. k \in Z /\ k <= i /\ k \in 1 .. Len(c)
  <2>1. Z \in SUBSET (1 .. Len(c))
    BY <1>1, <1>2, <1>4
  <2>2. Z \in SUBSET Nat /\ Z # {}
    BY <1>7, <2>1
  <2> QED
    BY <1>7, <2>1, <2>2, MinIs
<1>9. kind(k) = "missing"
  BY <1>3, <1>7
<1> HIDE DEF k
<1>10. k # i
  BY <1>5, <1>9
<1>11. k \in 0 .. i - 1 /\ \A j \in 0 .. k - 1 : j \in 0 .. i - 1
  BY <1>1, <1>8, <1>10
<1>12. EntryAt(SubSeq(c, 1, k)).kind = "dir"
  BY <1>11
<1>13. Lstat(SubSeq(c, 1, k)) = EntryAt(SubSeq(c, 1, k))
  BY <1>1, <1>8, <1>11, LstatIs
<1> QED
  BY <1>9, <1>12, <1>13

LEMMA ResolveFinds ==
    ASSUME slots \in Files, NEW a \in Path, NEW e, Finds(a, e)
    PROVE  resolve(a) = e
<1>1. CASE ~Plain(a)
  BY <1>1, ResolveIs, RealpathFinds
<1>2. CASE Plain(a)
  <2> DEFINE c == Clean(a)
  <2>1. c \in Path /\ Linkless(slots, c) /\ resolve(a) = c
    BY <1>2, CleanType, PlainIsLinkless, ResolveIs
  <2>2. \A i \in 1 .. Len(a) : a[i] # ".."
    BY <1>2 DEF Plain, Range, Path
  <2>3. CASE EvalSymlinks(a) = Place(e)
    <3>0. EvalSymlinks(a).ok
      BY <2>3 DEF Place
    <3>1. EvalSymlinks(a) = Place(c)
      <4> HIDE DEF c
      <4>1. Reached(slots, a, GoLinks).ok /\ Linkless(slots, Clean(a)) /\ GoLinks \in Nat
        BY <2>1, <3>0, LinksAllowed DEF EvalSymlinks, c
      <4> QED
        BY <2>2, <4>1, LinklessWalk DEF EvalSymlinks, c
    <3> QED
      BY <2>1, <2>3, <3>1 DEF Place
  <2>4. CASE /\ a # <<>> /\ EvalSymlinks(Front(a)).ok /\ Last(a) \notin Dots
             /\ e = Append(EvalSymlinks(Front(a)).place, Last(a))
    <3> DEFINE b == Front(a)
               d == Clean(b)
    <3>0. b \in Path
      BY <2>4, FrontIs
    <3>1. c = Append(d, Last(a)) /\ d \in Path /\ Last(a) \in Component
      BY <2>4, CleanFront, CleanType, FrontIs
    <3>2. Linkless(slots, d)
      <4>1. Len(d) \in 0 .. Len(c) /\ SubSeq(c, 1, Len(d)) = d
        <5> HIDE DEF c, d
        <5>1. Len(c) = Len(d) + 1 /\ Len(d) \in Nat /\ Len(d) \in 0 .. Len(d)
          BY <3>1, AppendIs
        <5>2. SubSeq(c, 1, Len(d)) = SubSeq(d, 1, Len(d))
          BY <3>1, <5>1, AppendIs
        <5>3. SubSeq(d, 1, Len(d)) = d
          BY <3>1, <5>1, PrefixIs
        <5> QED
          BY <5>1, <5>2, <5>3
      <4> HIDE DEF c, d
      <4> QED
        BY <2>1, <4>1, LinklessPrefix
    <3>3. \A i \in 1 .. Len(b) : b[i] # ".."
      <4>1. Len(b) = Len(a) - 1 /\ Len(a) \in Nat \ {0} /\ \A i \in 1 .. Len(a) - 1 : b[i] = a[i]
        BY <2>4, FrontIs
      <4> HIDE DEF b
      <4> QED
        BY <2>2, <4>1
    <3>4. EvalSymlinks(b) = Place(d)
      BY <2>4, <3>0, <3>2, <3>3, LinksAllowed, LinklessWalk DEF EvalSymlinks
    <3> QED
      BY <2>1, <2>4, <3>1, <3>4 DEF Place
  <2> QED
    BY <2>3, <2>4 DEF Finds
<1> QED
  BY <1>1, <1>2

\* Whatever way a path is resolved, it is taken for what the kernel opens
\* (realpath and resolve, path.go:222).
THEOREM ResolveIsOpened ==
    ASSUME slots \in Files, NEW a \in Path, Opened(a).ok
    PROVE  resolve(a) = Opened(a).place
BY OpenedFinds, ResolveFinds

----------------------------------------------------------------------------
(* The invariants. *)

\* Judging a call reads the file system and does not change it.
LEMMA Unchanged ==
    ASSUME slots' = slots
    PROVE  /\ cwdOf' = cwdOf /\ Roots' = Roots
           /\ \A p : EntryAt(p)' = EntryAt(p)
           /\ \A a : /\ Kernel(a)' = Kernel(a) /\ EvalSymlinks(a)' = EvalSymlinks(a)
                     /\ realpath(a)' = realpath(a) /\ resolve(a)' = resolve(a)
                     /\ classify(a)' = classify(a) /\ zoneAt(a)' = zoneAt(a)
           /\ \A cwd, g : zoneOf(cwd, g)' = zoneOf(cwd, g)
<1>1. /\ \A a : Kernel(a)' = Kernel(a)
      /\ \A a : EvalSymlinks(a)' = EvalSymlinks(a)
      /\ \A p : EntryAt(p)' = EntryAt(p)
  BY DEF Kernel, EvalSymlinks, EntryAt
<1>2. ASSUME NEW a
      PROVE  realpath(a)' = realpath(a)
  <2> DEFINE E == {i \in 0 .. Len(a) : EvalSymlinks(SubSeq(a, 1, i)).ok}
  <2>1. E' = E
    BY <1>1
  <2>2. realpath(a) = JoinAll(EvalSymlinks(SubSeq(a, 1, Max(E))).place, SubSeq(a, Max(E) + 1, Len(a)))
    BY Zenon DEF realpath, From
  <2>3. realpath(a)' = JoinAll(EvalSymlinks(SubSeq(a, 1, Max(E)))'.place, SubSeq(a, Max(E') + 1, Len(a)))
    BY <2>1, Zenon DEF realpath, From
  <2> HIDE DEF E
  <2> QED
    BY <1>1, <2>1, <2>2, <2>3, Zenon
<1>3. Roots' = Roots
  BY <1>2 DEF Roots
<1>4. cwdOf' = cwdOf
  BY <1>3 DEF cwdOf, abs
<1>5. \A a : Containing(a)' = Containing(a)
  BY <1>3 DEF Containing
<1>6. \A a : RootOf(a)' = RootOf(a)
  BY <1>3, <1>5 DEF RootOf
<1>7. \A p : Lstat(p)' = Lstat(p)
  BY <1>1 DEF Lstat, EntryUnder
<1>8. \A c : Special(c)' = Special(c)
  BY <1>6, <1>7 DEF Special, Kind
<1>9. \A a : resolve(a)' = resolve(a)
  <2> TAKE a
  <2>1. Plain(a)' <=> Plain(a)
    BY <1>5, <1>7, <1>8 DEF Plain
  <2>2. resolve(a)' = IF Plain(a)' THEN Clean(a) ELSE realpath(a)'
    BY Zenon DEF resolve, Plain, NoLink, Kind
  <2> QED
    BY <1>2, <2>1, <2>2, ResolveIs
<1>10. \A a : classify(a)' = classify(a)
  BY <1>5, <1>6, Zenon DEF classify
<1>11. \A a : zoneAt(a)' = zoneAt(a)
  BY <1>9, <1>10, Zenon DEF zoneAt
<1>12. \A cwd, g : zoneOf(cwd, g)' = zoneOf(cwd, g)
  BY <1>11, Zenon DEF zoneOf, abs
<1> QED
  BY <1>1, <1>2, <1>3, <1>4, <1>9, <1>10, <1>11, <1>12

LEMMA ZoneOrder ==
    /\ zoneWorkspace = 0 /\ zoneScratch = 1 /\ zoneOutside = 2 /\ zoneSystem = 3
    /\ zoneSecret = 4 /\ zoneUnknown = 5
BY DEF zoneWorkspace, zoneScratch, zoneOutside, zoneSystem, zoneSecret, zoneUnknown

\* Every place has a zone, and is never unknown.
LEMMA ClassifyType == ASSUME NEW a PROVE classify(a) \in 0 .. 4
<1>1. InWorkspace(Below(a, RootOf(a))) \in {zoneSystem, zoneWorkspace}
  BY Zenon DEF InWorkspace
<1>2. classify(a) \in {zoneWorkspace, zoneScratch, zoneOutside, zoneSystem, zoneSecret}
  BY <1>1, Zenon DEF classify
<1> QED
  BY <1>2, ZoneOrder

\* The order of the zones in which a path is put.
LEMMA ZoneAtIs ==
    ASSUME NEW a
    PROVE  LET named == classify(Clean(a))
               found == classify(resolve(a))
           IN  /\ zoneAt(a) \in {named, found} /\ zoneAt(a) \in 0 .. 4
               /\ zoneAt(a) >= found /\ (zoneAt(a) < 3 => zoneAt(a) = found)
               /\ named >= 3 => zoneAt(a) >= 3
               /\ named = 4 => zoneAt(a) = 4
<1> DEFINE named == classify(Clean(a))
           found == classify(resolve(a))
<1>1. named \in 0 .. 4 /\ found \in 0 .. 4
  BY ClassifyType
<1>2. zoneAt(a) = IF named = 4 \/ (named = 3 /\ found < 3) THEN named ELSE found
  BY ZoneOrder DEF zoneAt, Stricter
<1> HIDE DEF named, found
<1>3. /\ zoneAt(a) \in {named, found} /\ zoneAt(a) \in 0 .. 4 /\ zoneAt(a) >= found
      /\ zoneAt(a) < 3 => zoneAt(a) = found
      /\ named >= 3 => zoneAt(a) >= 3
      /\ named = 4 => zoneAt(a) = 4
  BY <1>1, <1>2
<1> QED
  BY <1>3 DEF named, found

LEMMA KnownIs == Unknown.ok = FALSE /\ \A p : Known(p).ok = TRUE /\ Known(p).parts = p
BY DEF Unknown, Known

LEMMA AbsType ==
    ASSUME NEW h \in GivenType, NEW cwd, cwd.ok \in BOOLEAN, cwd.ok => cwd.parts \in Path
    PROVE  /\ abs(cwd, h).ok \in BOOLEAN
           /\ abs(cwd, h).ok => abs(cwd, h).parts \in Path
           /\ abs(cwd, h).ok <=> ~(h.base = "other" \/ (h.base = "cwd" /\ ~cwd.ok))
<1>1. h.parts \in Path /\ h.base \in {"root", "cwd", "home", "other"}
  BY DEF GivenType, Path
<1>2. Home \o h.parts \in Path /\ (cwd.ok => cwd.parts \o h.parts \in Path)
  BY <1>1, PathAssumption DEF Path
<1>3. CASE h.base = "root"
  <2>1. abs(cwd, h) = Known(h.parts)
    BY <1>3, Zenon DEF abs
  <2> QED
    BY KnownIs, <1>1, <1>3, <2>1
<1>4. CASE h.base = "home"
  <2>1. abs(cwd, h) = Known(Home \o h.parts)
    BY <1>4, Zenon DEF abs
  <2> QED
    BY KnownIs, <1>2, <1>4, <2>1
<1>5. CASE h.base = "cwd" /\ cwd.ok
  <2>1. abs(cwd, h) = Known(cwd.parts \o h.parts)
    BY <1>5, Zenon DEF abs
  <2> QED
    BY KnownIs, <1>2, <1>5, <2>1
<1>6. CASE h.base = "other" \/ (h.base = "cwd" /\ ~cwd.ok)
  <2>1. abs(cwd, h) = Unknown
    BY <1>6, Zenon DEF abs
  <2> QED
    BY KnownIs, <1>6, <2>1
<1> QED
  BY <1>1, <1>3, <1>4, <1>5, <1>6

LEMMA CwdType ==
    ASSUME slots \in Files
    PROVE  cwdOf.ok \in BOOLEAN /\ (cwdOf.ok => cwdOf.parts \in Path)
<1>0. <<>> # <<".">>
  OBVIOUS
<1>1. CASE Cwd.base = "cwd" /\ Cwd.parts = <<>>
  <2>1. cwdOf = IF Workspace = <<>> THEN Unknown ELSE Known(Workspace[1])
    BY <1>0, <1>1, Zenon DEF cwdOf
  <2>2. Workspace # <<>> => Workspace[1] \in Path
    BY PathAssumption DEF Path
  <2> QED
    BY KnownIs, <2>1, <2>2
<1>2. CASE Cwd.base = "cwd" /\ Cwd.parts = <<".">> /\ Roots # <<>>
  <2>1. cwdOf = Known(Roots[1])
    BY <1>0, <1>2, Zenon DEF cwdOf
  <2>2. 1 \in DOMAIN Roots
    <3>1. DOMAIN Roots = 1 .. Len(Workspace) /\ Len(Workspace) \in Nat
      BY PathAssumption, RootsAreReal
    <3>2. Roots \in Seq(Path)
      BY <3>1, RootsAreReal DEF Roots
    <3> QED
      BY <1>2, <3>1, <3>2
  <2> QED
    BY KnownIs, <2>1, <2>2, RootsAreReal
<1>4. CASE Cwd.base = "cwd" /\ Cwd.parts = <<".">> /\ Roots = <<>>
  <2>1. cwdOf = Unknown
    BY <1>0, <1>4, Zenon DEF cwdOf
  <2> QED
    BY KnownIs, <2>1
<1>3. CASE ~(Cwd.base = "cwd" /\ Cwd.parts \in {<<>>, <<".">>})
  <2>1. cwdOf = abs(Unknown, Cwd)
    BY <1>3, Zenon DEF cwdOf
  <2>2. Cwd \in GivenType
    BY PathAssumption
  <2>3. ~Unknown.ok /\ Unknown.ok \in BOOLEAN
    BY KnownIs
  <2>4. abs(Unknown, Cwd).ok \in BOOLEAN /\ (abs(Unknown, Cwd).ok => abs(Unknown, Cwd).parts \in Path)
    BY AbsType, <2>2, <2>3
  <2> QED
    BY <2>1, <2>4
<1> QED
  BY <1>1, <1>2, <1>3, <1>4

LEMMA AbsIs ==
    ASSUME slots \in Files, NEW g \in GivenType
    PROVE  /\ abs(cwdOf, g).ok => abs(cwdOf, g).parts \in Path
           /\ abs(cwdOf, g).ok <=> ~(g.base = "other" \/ (g.base = "cwd" /\ ~cwdOf.ok))
BY AbsType, CwdType

\* The zone is that of the path that was judged last.
Judged == path # NoPath => zone = zoneOf(cwdOf, path)

Inv == TypeOK /\ Judged

LEMMA ZoneOfIs ==
    ASSUME slots \in Files, NEW g \in GivenType
    PROVE  /\ zoneOf(cwdOf, g) \in 0 .. 5
           /\ zoneOf(cwdOf, g) = 5 <=> g.base = "other" \/ (g.base = "cwd" /\ ~cwdOf.ok)
           /\ abs(cwdOf, g).ok => zoneOf(cwdOf, g) = zoneAt(abs(cwdOf, g).parts)
<1>1. abs(cwdOf, g).ok <=> ~(g.base = "other" \/ (g.base = "cwd" /\ ~cwdOf.ok))
  BY AbsIs
<1>2. zoneAt(abs(cwdOf, g).parts) \in 0 .. 4
  BY ZoneAtIs
<1>3. zoneOf(cwdOf, g) = IF abs(cwdOf, g).ok THEN zoneAt(abs(cwdOf, g).parts) ELSE 5
  BY ZoneOrder, Zenon DEF zoneOf
<1> QED
  BY <1>1, <1>2, <1>3

LEMMA InvInductive == Spec => []Inv
<1>1. Init => Inv
  <2> SUFFICES ASSUME Init PROVE Inv
    OBVIOUS
  <2>1. slots \in Files /\ path = NoPath /\ zone = 5
    BY ZoneOrder DEF Init, Files
  <2> QED
    BY <2>1, ZoneOrder DEF Inv, TypeOK, Judged, Files
<1>2. Inv /\ [Next]_vars => Inv'
  <2> SUFFICES ASSUME Inv, [Next]_vars PROVE Inv'
    OBVIOUS
  <2>1. slots \in Files /\ NoPath \notin Given /\ Given \subseteq GivenType
    BY PathAssumption DEF Inv, TypeOK, Files
  <2>2. CASE UNCHANGED vars
    <3>1. slots' = slots /\ path' = path /\ zone' = zone
      BY <2>2 DEF vars
    <3>2. cwdOf' = cwdOf /\ zoneOf(cwdOf, path)' = zoneOf(cwdOf, path)
      <4>1. cwdOf' = cwdOf
        BY <3>1, Unchanged
      <4>2. zoneOf(cwdOf, path)' = zoneOf(cwdOf, path)
        BY <3>1, Unchanged
      <4> QED
        BY <4>1, <4>2
    <3> QED
      BY <3>1, <3>2 DEF Inv, TypeOK, Judged
  <2>3. ASSUME NEW g \in Given, Decide(g)
        PROVE  Inv'
    <3>1. slots' = slots /\ path' = g /\ zone' = zoneOf(cwdOf, g) /\ g # NoPath /\ g \in GivenType
      BY <2>1, <2>3 DEF Decide
    <3>2. cwdOf' = cwdOf /\ zoneOf(cwdOf, g)' = zoneOf(cwdOf, g)
      BY <3>1, Unchanged
    <3>3. Judged'
      BY <3>1, <3>2 DEF Judged
    <3>4. TypeOK'
      <4>1. zone' \in 0 .. 5 /\ (zone' = 5 <=> g.base = "other" \/ (g.base = "cwd" /\ ~cwdOf.ok))
        BY <2>1, <3>1, ZoneOfIs
      <4> QED
        BY <2>1, <3>1, <3>2, <4>1, ZoneOrder DEF TypeOK, Files
    <3> QED
      BY <3>3, <3>4 DEF Inv
  <2>4. CASE Run
    <3>1. path' = NoPath /\ zone' = 5
      BY <2>4, ZoneOrder DEF Run
    <3>2. slots' \in Files
      BY <2>1, <2>4 DEF Run, Files
    <3> QED
      BY <3>1, <3>2, ZoneOrder DEF Inv, TypeOK, Judged, Files
  <2> QED
    BY <2>2, <2>3, <2>4 DEF Next
<1> QED
  BY <1>1, <1>2, PTL DEF Spec

\* Every variable holds a value of its kind, and a path is of unknown place
\* exactly when it depends on something the daemon does not know.
THEOREM TypeCorrect == Spec => []TypeOK
<1>1. Inv => TypeOK
  BY DEF Inv
<1> QED
  BY <1>1, InvInductive, PTL

\* What the judgement of a path that is known rests on.
LEMMA JudgedKnown ==
    ASSUME Inv, path # NoPath, abs(cwdOf, path).ok
    PROVE  /\ slots \in Files /\ abs(cwdOf, path).parts \in Path
           /\ zone = zoneAt(abs(cwdOf, path).parts)
<1>1. slots \in Files /\ path \in GivenType
  BY PathAssumption DEF Inv, TypeOK, Files
<1>2. zone = zoneOf(cwdOf, path)
  BY DEF Inv, Judged
<1>3. path \in GivenType => abs(cwdOf, path).parts \in Path
  <2> SUFFICES ASSUME NEW g \in GivenType, abs(cwdOf, g).ok PROVE abs(cwdOf, g).parts \in Path
    OBVIOUS
  <2> QED
    BY <1>1, AbsIs
<1> QED
  BY <1>1, <1>2, <1>3, Zenon DEF zoneOf

\* However a path is spelled, and whatever links lie on its way, zoneOf does not
\* trust it more than the place the kernel would open or create.
THEOREM KernelDecidesAlways == Spec => []KernelDecides
<1>1. Inv => KernelDecides
  <2> SUFFICES ASSUME Inv, path # NoPath, abs(cwdOf, path).ok
               PROVE  LET target == Opened(abs(cwdOf, path).parts)
                      IN  target.ok => zone >= classify(target.place)
    BY DEF KernelDecides
  <2> DEFINE a == abs(cwdOf, path).parts
  <2>1. slots \in Files /\ a \in Path /\ zone = zoneAt(a)
    BY JudgedKnown
  <2> HIDE DEF a
  <2>2. Opened(a).ok => zone >= classify(Opened(a).place)
    BY <2>1, ResolveIsOpened, ZoneAtIs
  <2> QED
    BY <2>2 DEF a
<1> QED
  BY <1>1, InvInductive, PTL

\* A path that names a protected place is not trusted more than that place,
\* although a link may lead from there to somewhere harmless.
THEOREM NameProtectsAlways == Spec => []NameStaysProtected
<1>1. Inv => NameStaysProtected
  <2> SUFFICES ASSUME Inv, path # NoPath, abs(cwdOf, path).ok
               PROVE  LET named == classify(Clean(abs(cwdOf, path).parts))
                      IN  named >= zoneSystem => zone >= zoneSystem /\ (named = zoneSecret => zone = zoneSecret)
    BY DEF NameStaysProtected
  <2>1. zone = zoneAt(abs(cwdOf, path).parts)
    BY JudgedKnown
  <2> QED
    BY <2>1, ZoneAtIs, ZoneOrder
<1> QED
  BY <1>1, InvInductive, PTL

\* A path is distrusted only for its name or for where it leads.
THEOREM DistrustHasReason == Spec => []NoNeedlessDistrust
<1>1. Inv => NoNeedlessDistrust
  <2> SUFFICES ASSUME Inv, path # NoPath, abs(cwdOf, path).ok
               PROVE  LET target == Opened(abs(cwdOf, path).parts)
                      IN  target.ok =>
                              zone \in {classify(target.place), classify(Clean(abs(cwdOf, path).parts))}
    BY DEF NoNeedlessDistrust
  <2> DEFINE a == abs(cwdOf, path).parts
  <2>1. slots \in Files /\ a \in Path /\ zone = zoneAt(a)
    BY JudgedKnown
  <2> HIDE DEF a
  <2>2. Opened(a).ok => zone \in {classify(Opened(a).place), classify(Clean(a))}
    BY <2>1, ResolveIsOpened, ZoneAtIs
  <2> QED
    BY <2>2 DEF a
<1> QED
  BY <1>1, InvInductive, PTL
====
