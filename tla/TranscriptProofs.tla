---- MODULE TranscriptProofs ----
(***************************************************************************)
(* What Transcript.tla guarantees for any number of readers and            *)
(* conversations, all texts, and files of any length.                      *)
(*                                                                         *)
(*   RequestsType, RequestsGrow   what is found in a file                  *)
(*   RoundsGood, WindowIs         what the loop over the requests takes    *)
(*   TypeOK |- PinsGrow                                                    *)
(*          |- Pinned |- ConsistentHistory                                 *)
(*          |- Honest |- AlarmHasCause                                     *)
(*          |- Shown |- ShownLongest, by WindowIs                          *)
(***************************************************************************)
EXTENDS Transcript, Recursion, TLAPS, FiniteSetTheorems, SequenceTheorems

(***************************************************************************)
(* Sets of numbers.                                                        *)
(***************************************************************************)

\* How many elements of S there are up to k.
Upto(S, k) == Cardinality({j \in S : j <= k})

LEMMA FiniteParts ==
    ASSUME NEW n \in Nat, NEW S \in SUBSET (1 .. n)
    PROVE  /\ IsFiniteSet(S) /\ Cardinality(S) \in Nat
           /\ \A k \in Nat : /\ IsFiniteSet({j \in S : j <= k})
                             /\ Upto(S, k) \in 0 .. Cardinality(S)
<1>1. IsFiniteSet(S)
  <2>1. IsFiniteSet(1 .. n)
    BY FS_Interval
  <2> QED
    BY <2>1, FS_Subset
<1>2. Cardinality(S) \in Nat
  BY <1>1, FS_CardinalityType
<1>3. ASSUME NEW k \in Nat
      PROVE  IsFiniteSet({j \in S : j <= k}) /\ Upto(S, k) \in 0 .. Cardinality(S)
  <2> DEFINE T == {j \in S : j <= k}
  <2>1. T \subseteq S
    OBVIOUS
  <2> HIDE DEF T
  <2>2. IsFiniteSet(T) /\ Cardinality(T) <= Cardinality(S)
    BY <1>1, <2>1, FS_Subset
  <2>3. Cardinality(T) \in Nat
    BY <2>2, FS_CardinalityType
  <2> QED
    BY <1>2, <2>2, <2>3 DEF Upto, T
<1> QED
  BY <1>1, <1>2, <1>3

\* Later elements have more up to them.
LEMMA UptoGrows ==
    ASSUME NEW n \in Nat, NEW S \in SUBSET (1 .. n), NEW k \in S, NEW m \in S, k < m
    PROVE  Upto(S, k) < Upto(S, m)
<1> DEFINE A == {j \in S : j <= k}
           B == {j \in S : j <= m}
<1>1. A \subseteq B /\ m \in B /\ m \notin A
  <2>1. k \in Nat /\ m \in Nat /\ \A j \in S : j \in Nat
    OBVIOUS
  <2>2. (\A j \in S : j <= k => j <= m) /\ m <= m /\ ~(m <= k)
    BY <2>1
  <2> QED
    BY <2>2, Zenon
<1>2. IsFiniteSet(A) /\ IsFiniteSet(B) /\ Cardinality(A) \in Nat /\ Cardinality(B) \in Nat
  <2>1. k \in Nat /\ m \in Nat
    OBVIOUS
  <2>2. IsFiniteSet(A) /\ IsFiniteSet(B)
    BY <2>1, FiniteParts
  <2> HIDE DEF A, B
  <2> QED
    BY <2>2, FS_CardinalityType
<1> HIDE DEF A, B
<1>3. Cardinality(A) <= Cardinality(B) /\ Cardinality(A) # Cardinality(B)
  BY <1>1, <1>2, FS_Subset
<1> QED
  BY <1>2, <1>3 DEF Upto, A, B

\* There is an i-th smallest element.
LEMMA NthExists ==
    ASSUME NEW n \in Nat, NEW S \in SUBSET (1 .. n), NEW i \in 1 .. Cardinality(S)
    PROVE  \E k \in S : Upto(S, k) = i
<1> DEFINE T == {k \in S : Upto(S, k) >= i}
<1>0. /\ Cardinality(S) \in Nat /\ i \in Nat
      /\ \A k \in S : k \in Nat /\ Upto(S, k) \in Nat
  <2>1. Cardinality(S) \in Nat
    BY FiniteParts
  <2>2. \A k \in Nat : Upto(S, k) \in 0 .. Cardinality(S)
    BY FiniteParts
  <2>3. \A k \in S : k \in Nat
    OBVIOUS
  <2> QED
    BY <2>1, <2>2, <2>3
<1>1. T # {}
  <2>1. S # {}
    BY <1>0, FS_EmptySet
  <2>2. PICK x \in S : \A y \in S : y <= x
    <3>1. S \in SUBSET (0 .. n)
      OBVIOUS
    <3> QED
      BY <2>1, <3>1, GreatestOfBounded
  <2>3. {j \in S : j <= x} = S
    BY <2>2
  <2>4. Upto(S, x) = Cardinality(S)
    BY <2>3 DEF Upto
  <2> QED
    BY <2>4, <1>0
<1>2. S \in SUBSET Nat /\ T \in SUBSET Nat
  BY <1>0
<1>3. PICK m \in T : \A y \in T : m <= y
  BY <1>1, <1>2, LeastOfNaturals
<1> DEFINE Before == {j \in S : j < m}
<1>4. /\ IsFiniteSet(Before) /\ Cardinality(Before) \in Nat
      /\ Upto(S, m) = Cardinality(Before) + 1
  <2>1. {j \in S : j <= m} = Before \cup {m} /\ m \notin Before
    <3>1. m \in S /\ \A j \in S : j \in Nat
      BY <1>0
    <3>2. (\A j \in S : j <= m <=> j < m \/ j = m) /\ ~(m < m)
      BY <3>1
    <3> QED
      BY <3>1, <3>2, Zenon
  <2>2. Before \subseteq S
    OBVIOUS
  <2>3. IsFiniteSet(S)
    BY FiniteParts
  <2>4. Upto(S, m) = Cardinality(Before \cup {m})
    BY <2>1 DEF Upto
  <2> HIDE DEF Before
  <2>5. IsFiniteSet(Before)
    BY <2>2, <2>3, FS_Subset
  <2> QED
    BY <2>1, <2>4, <2>5, FS_AddElement, FS_CardinalityType
<1>5. CASE Upto(S, m) = i
  BY <1>5
<1>6. CASE Upto(S, m) # i
  <2>1. Cardinality(Before) >= i /\ Before # {}
    <3>1. Upto(S, m) > i
      BY <1>0, <1>6
    <3>2. Cardinality(Before) >= i
      BY <1>0, <1>4, <3>1
    <3> HIDE DEF Before
    <3> QED
      BY <1>0, <3>2, FS_EmptySet
  <2>2. PICK p \in Before : \A y \in Before : y <= p
    <3>1. Before \in SUBSET (0 .. n)
      <4>1. Before \subseteq S /\ S \subseteq 0 .. n
        OBVIOUS
      <4> QED
        BY <4>1
    <3> HIDE DEF Before
    <3> QED
      BY <2>1, <3>1, GreatestOfBounded
  <2>3. {j \in S : j <= p} = Before
    <3>1. p \in S /\ m \in S /\ p < m /\ \A j \in S : j \in Nat
      BY <1>0
    <3>2. \A j \in S : j <= p => j < m
      BY <3>1
    <3>3. \A j \in S : j < m => j <= p
      BY <2>2
    <3> QED
      BY <3>2, <3>3, Zenon
  <2>4. Upto(S, p) = Cardinality(Before)
    BY <2>3 DEF Upto
  <2>5. p \in T
    BY <2>1, <2>4
  <2> QED
    BY <1>3, <2>2, <2>5, <1>2
<1> QED
  BY <1>5, <1>6

\* And Nth is it.
LEMMA NthIs ==
    ASSUME NEW n \in Nat, NEW S \in SUBSET (1 .. n), NEW i \in 1 .. Cardinality(S)
    PROVE  /\ Nth(S, i) \in S /\ Upto(S, Nth(S, i)) = i
           /\ \A k \in S : Upto(S, k) = i => k = Nth(S, i)
<1>1. Nth(S, i) \in S /\ Upto(S, Nth(S, i)) = i
  <2>1. \E k \in S : Cardinality({j \in S : j <= k}) = i
    BY NthExists DEF Upto
  <2> QED
    BY <2>1, Zenon DEF Nth, Upto
<1>2. ASSUME NEW k \in S, Upto(S, k) = i
      PROVE  k = Nth(S, i)
  <2> DEFINE m == Nth(S, i)
  <2>1. m \in S /\ Upto(S, m) = i /\ i \in Int
    BY <1>1
  <2> HIDE DEF m
  <2>2. ~(k < m) /\ ~(m < k)
    BY <1>2, <2>1, UptoGrows
  <2>3. k \in Nat /\ m \in Nat
    BY <2>1
  <2>4. k = m
    BY <2>2, <2>3
  <2> QED
    BY <2>4 DEF m
<1> QED
  BY <1>1, <1>2

(***************************************************************************)
(* The requests of a file.                                                 *)
(***************************************************************************)

LEMMA AskedIs ==
    ASSUME NEW lines \in Seq(Line)
    PROVE  /\ Len(lines) \in Nat /\ Asked(lines) \in SUBSET (1 .. Len(lines))
           /\ \A k \in Asked(lines) : lines[k].kind = "request" /\ lines[k].text \in Text
<1>1. Len(lines) \in Nat /\ DOMAIN lines = 1 .. Len(lines)
  OBVIOUS
<1>2. Asked(lines) \in SUBSET (1 .. Len(lines)) /\ \A k \in Asked(lines) : lines[k].kind = "request"
  BY <1>1 DEF Asked
<1>3. \A k \in 1 .. Len(lines) : lines[k] \in Line
  BY <1>1
<1>4. \A l \in Line : l.kind = "request" => l.text \in Text
  BY DEF Line
<1> QED
  BY <1>1, <1>2, <1>3, <1>4

LEMMA RequestsType ==
    ASSUME NEW lines \in Seq(Line)
    PROVE  /\ Requests(lines) \in Seq(Text)
           /\ Len(Requests(lines)) = Cardinality(Asked(lines))
<1> DEFINE n == Cardinality(Asked(lines))
<1>1. n \in Nat
  BY AskedIs, FiniteParts
<1>2. \A i \in 1 .. n : Nth(Asked(lines), i) \in Asked(lines)
  BY AskedIs, NthIs
<1>3. \A i \in 1 .. n : lines[Nth(Asked(lines), i)].text \in Text
  BY <1>2, AskedIs
<1> HIDE DEF n
<1>4. Requests(lines) = [i \in 1 .. n |-> lines[Nth(Asked(lines), i)].text]
  BY DEF Requests, n
<1>5. Requests(lines) \in [1 .. n -> Text]
  BY <1>3, <1>4
<1>6. Requests(lines) \in Seq(Text) /\ Len(Requests(lines)) = n
  BY <1>1, <1>5
<1> QED
  BY <1>6 DEF n

\* IsPrefix, element by element.
LEMMA PrefixIs ==
    ASSUME NEW S, NEW s \in Seq(S), NEW t \in Seq(S)
    PROVE  IsPrefix(s, t) <=> Len(s) <= Len(t) /\ \A i \in 1 .. Len(s) : s[i] = t[i]
<1>1. SubSeq(s, 1, Len(s)) = s
  OBVIOUS
<1>2. CASE Len(s) <= Len(t)
  <2>1. /\ SubSeq(t, 1, Len(s)) \in Seq(S) /\ Len(SubSeq(t, 1, Len(s))) = Len(s)
        /\ \A i \in 1 .. Len(s) : SubSeq(t, 1, Len(s))[i] = t[i]
    BY <1>2
  <2>2. s = SubSeq(t, 1, Len(s)) <=> \A i \in 1 .. Len(s) : s[i] = SubSeq(t, 1, Len(s))[i]
    BY <2>1, SeqEqual
  <2> QED
    BY <1>1, <1>2, <2>1, <2>2 DEF IsPrefix
<1>3. CASE ~(Len(s) <= Len(t))
  BY <1>3 DEF IsPrefix
<1> QED
  BY <1>2, <1>3

LEMMA PrefixFacts ==
    ASSUME NEW S, NEW s \in Seq(S), NEW t \in Seq(S), NEW u \in Seq(S)
    PROVE  /\ IsPrefix(s, s) /\ IsPrefix(<<>>, s)
           /\ IsPrefix(s, t) /\ IsPrefix(t, u) => IsPrefix(s, u)
           /\ IsPrefix(s, u) /\ IsPrefix(t, u) => IsPrefix(s, t) \/ IsPrefix(t, s)
           /\ IsPrefix(s, t) /\ IsPrefix(t, s) => s = t
<1>1. IsPrefix(s, s) /\ IsPrefix(<<>>, s)
  <2>1. IsPrefix(s, s)
    BY PrefixIs
  <2>2. <<>> \in Seq(S) /\ Len(<<>>) = 0 /\ Len(s) \in Nat
    OBVIOUS
  <2>3. SubSeq(<<>>, 1, 0) = SubSeq(s, 1, 0)
    BY <2>2, SubSeqEmpty
  <2>4. IsPrefix(<<>>, s)
    BY <2>2, <2>3 DEF IsPrefix
  <2> QED
    BY <2>1, <2>4
<1>2. /\ Len(s) \in Nat /\ Len(t) \in Nat /\ Len(u) \in Nat
      /\ IsPrefix(s, t) <=> Len(s) <= Len(t) /\ \A i \in 1 .. Len(s) : s[i] = t[i]
      /\ IsPrefix(t, s) <=> Len(t) <= Len(s) /\ \A i \in 1 .. Len(t) : t[i] = s[i]
      /\ IsPrefix(s, u) <=> Len(s) <= Len(u) /\ \A i \in 1 .. Len(s) : s[i] = u[i]
      /\ IsPrefix(t, u) <=> Len(t) <= Len(u) /\ \A i \in 1 .. Len(t) : t[i] = u[i]
  BY PrefixIs
<1>3. IsPrefix(s, t) /\ IsPrefix(t, u) => IsPrefix(s, u)
  BY <1>2
<1>4. IsPrefix(s, u) /\ IsPrefix(t, u) => IsPrefix(s, t) \/ IsPrefix(t, s)
  BY <1>2
<1>5. IsPrefix(s, t) /\ IsPrefix(t, s) => s = t
  BY <1>2, SeqEqual
<1> QED
  BY <1>1, <1>3, <1>4, <1>5

\* A file that grows by a line keeps the requests it had.
LEMMA RequestsGrow ==
    ASSUME NEW lines \in Seq(Line), NEW l \in Line
    PROVE  IsPrefix(Requests(lines), Requests(Append(lines, l)))
<1> DEFINE n == Len(lines)
           more == Append(lines, l)
           A == Asked(lines)
           B == Asked(more)
<1>1. /\ n \in Nat /\ more \in Seq(Line) /\ Len(more) = n + 1
      /\ \A i \in 1 .. n : more[i] = lines[i]
      /\ DOMAIN lines = 1 .. n /\ DOMAIN more = 1 .. (n + 1)
  OBVIOUS
<1>2. A \in SUBSET (1 .. n) /\ B \in SUBSET (1 .. (n + 1))
  BY <1>1, AskedIs
<1>3. \A k \in 1 .. n : k \in A <=> k \in B
  <2> SUFFICES ASSUME NEW k \in 1 .. n
               PROVE  k \in A <=> k \in B
    OBVIOUS
  <2>1. k \in 1 .. (n + 1) /\ \A i \in 1 .. k : i \in 1 .. n
    BY <1>1
  <2>2. more[k] = lines[k] /\ \A i \in 1 .. k : more[i] = lines[i]
    BY <1>1, <2>1
  <2> HIDE DEF more, n
  <2> QED
    BY <1>1, <2>1, <2>2 DEF Asked
<1>4. A \subseteq B /\ \A k \in B : k \in A \/ k = n + 1
  BY <1>1, <1>2, <1>3
<1>5. IsFiniteSet(B) /\ Cardinality(A) \in Nat /\ Cardinality(B) \in Nat
  <2>1. n + 1 \in Nat
    BY <1>1
  <2> HIDE DEF A, B, n, more
  <2> QED
    BY <1>1, <1>2, <2>1, FiniteParts
<1>6. Cardinality(A) <= Cardinality(B)
  <2> HIDE DEF A, B
  <2> QED
    BY <1>4, <1>5, FS_Subset
<1>7. ASSUME NEW i \in 1 .. Cardinality(A)
      PROVE  Nth(A, i) = Nth(B, i) /\ Nth(A, i) \in 1 .. n
  <2> DEFINE k == Nth(A, i)
  <2> HIDE DEF A, B, n, more
  <2>1. k \in A /\ Upto(A, k) = i
    BY <1>1, <1>2, NthIs
  <2> HIDE DEF k
  <2>2. {j \in B : j <= k} = {j \in A : j <= k}
    <3>1. k \in 1 .. n /\ k < n + 1
      BY <1>1, <1>2, <2>1
    <3>2. \A j \in B : j <= k => j \in A
      BY <1>1, <1>4, <3>1
    <3> QED
      BY <1>4, <3>2
  <2>3. Upto(B, k) = i /\ k \in B
    BY <1>4, <2>1, <2>2 DEF Upto
  <2>4. i \in 1 .. Cardinality(B) /\ n + 1 \in Nat
    BY <1>1, <1>5, <1>6
  <2>5. k = Nth(B, i)
    BY <1>2, <2>3, <2>4, NthIs
  <2> QED
    BY <1>2, <2>1, <2>5 DEF k
<1>8. \A i \in 1 .. Cardinality(A) : Requests(lines)[i] = Requests(more)[i]
  <2> SUFFICES ASSUME NEW i \in 1 .. Cardinality(A)
               PROVE  Requests(lines)[i] = Requests(more)[i]
    OBVIOUS
  <2> HIDE DEF A, B, n, more
  <2>1. i \in 1 .. Cardinality(B)
    BY <1>5, <1>6
  <2>2. Requests(lines)[i] = lines[Nth(A, i)].text
    BY DEF Requests, A
  <2>3. Requests(more)[i] = more[Nth(B, i)].text
    BY <2>1 DEF Requests, B
  <2> QED
    BY <1>1, <1>7, <2>2, <2>3
<1>9. /\ Requests(lines) \in Seq(Text) /\ Len(Requests(lines)) = Cardinality(A)
      /\ Requests(more) \in Seq(Text) /\ Len(Requests(more)) = Cardinality(B)
  BY <1>1, RequestsType
<1> HIDE DEF A, B, more, n
<1> QED
  BY <1>6, <1>8, <1>9, PrefixIs DEF more

(***************************************************************************)
(* Types, and pins that grow.                                              *)
(***************************************************************************)

\* A step is the file's or a reader's.
LEMMA StepCases ==
    ASSUME [Next]_vars
    PROVE  \/ \E v \in Conv : Rewrite(v)
           \/ \E v \in Conv, l \in Line : AppendLine(v, l)
           \/ \E r \in Reader : Pin(r)
           \/ \E r \in Reader, v \in Conv : NoTranscript(r, v)
           \/ \E r \in Reader, v \in Conv : Read(r, v)
           \/ UNCHANGED vars
  BY DEF Next


LEMMA LinesType == ASSUME TypeOK, NEW v \in Conv PROVE Lines(v) \in Seq(Line)
<1>1. file[v] \in Seq(Line) \cup {NoFile}
  BY DEF TypeOK
<1>2. <<>> \in Seq(Line)
  OBVIOUS
<1> QED
  BY <1>1, <1>2 DEF Lines

LEMMA TypeStep == ASSUME TypeOK, [Next]_vars PROVE TypeOK'
<1>1. CASE \E v \in Conv : Rewrite(v)
  <2>1. PICK v \in Conv : Rewrite(v)
    BY <1>1
  <2>2. file[v] \in Seq(Line)
    BY <2>1 DEF Rewrite, TypeOK
  <2>3. \A i \in DOMAIN file[v], l \in Line : [file[v] EXCEPT ![i] = l] \in Seq(Line)
    BY <2>2, ExceptSeq
  <2>4. \A n \in 0 .. Len(file[v]) - 1 : SubSeq(file[v], 1, n) \in Seq(Line)
    BY <2>2
  <2>5. \E f \in Seq(Line) : file' = [file EXCEPT ![v] = f]
    <3>1. CASE \E i \in DOMAIN file[v], l \in Line : file' = [file EXCEPT ![v][i] = l]
      BY <3>1, <2>3
    <3>2. CASE \E n \in 0 .. Len(file[v]) - 1 : file' = [file EXCEPT ![v] = SubSeq(@, 1, n)]
      BY <3>2, <2>4
    <3> QED
      BY <2>1, <3>1, <3>2 DEF Rewrite
  <2> QED
    BY <2>1, <2>5 DEF Rewrite, TypeOK, readerVars
<1>2. CASE \E v \in Conv, l \in Line : AppendLine(v, l)
  <2>1. PICK v \in Conv, l \in Line : AppendLine(v, l)
    BY <1>2
  <2>2. Append(Lines(v), l) \in Seq(Line)
    BY LinesType
  <2> QED
    BY <2>1, <2>2 DEF AppendLine, TypeOK, readerVars
<1>3. CASE \E r \in Reader : Pin(r)
  BY <1>3 DEF Pin, Return, TypeOK
<1>4. CASE \E r \in Reader, v \in Conv : NoTranscript(r, v)
  <2>1. <<>> \in Seq(Text)
    OBVIOUS
  <2> QED
    BY <1>4, <2>1 DEF NoTranscript, Return, TypeOK
<1>5. CASE \E r \in Reader, v \in Conv : Read(r, v)
  <2>1. PICK r \in Reader, v \in Conv : Read(r, v)
    BY <1>5
  <2>2. file[v] \in Seq(Line)
    BY <2>1 DEF Read, TypeOK
  <2>3. Requests(file[v]) \in Seq(Text)
    BY <2>2, RequestsType
  <2> QED
    BY <2>1, <2>3 DEF Read, TypeOK
<1>6. CASE UNCHANGED vars
  BY <1>6 DEF vars, TypeOK
<1> QED
  BY <1>1, <1>2, <1>3, <1>4, <1>5, <1>6, StepCases

LEMMA TypeInit == Init => TypeOK
<1>1. <<>> \in Seq(Text)
  OBVIOUS
<1> QED
  BY <1>1 DEF Init, TypeOK

\* Transcript's TypeOK: files, pins and what readers have found keep their types.
THEOREM TypeCorrect == Spec => []TypeOK
  BY TypeInit, TypeStep, PTL DEF Spec

\* The code's check, in other words: what was found continues what is pinned.
LEMMA MatchesIs ==
    ASSUME TypeOK, NEW v \in Conv, NEW found \in Seq(Text)
    PROVE  Matches(v, found) <=> (pinned[v] # NoPin => IsPrefix(pinned[v], found))
<1>1. CASE pinned[v] = NoPin
  BY <1>1 DEF Matches
<1>2. CASE pinned[v] # NoPin
  <2>1. pinned[v] \in Seq(Text)
    BY <1>2 DEF TypeOK
  <2>2. DOMAIN pinned[v] = 1 .. Len(pinned[v]) /\ Len(pinned[v]) \in Nat /\ Len(found) \in Nat
    BY <2>1
  <2> QED
    BY <1>2, <2>1, <2>2, PrefixIs DEF Matches
<1> QED
  BY <1>1, <1>2

\* What a reader does in the critical section.
LEMMA PinCases ==
    ASSUME TypeOK, NEW r \in Reader, Pin(r)
    PROVE  LET v == conv[r]
               found == requests[r]
           IN  /\ v \in Conv /\ found \in Seq(Text) /\ pc[r] = "pin"
               /\ UNCHANGED <<file, conv, requests, rewritten>>
               /\ \/ /\ pinned[v] # NoPin => IsPrefix(pinned[v], found)
                     /\ pinned' = [pinned EXCEPT ![v] = found]
                     /\ pc' = [pc EXCEPT ![r] = "ok"]
                  \/ /\ pinned[v] # NoPin /\ ~IsPrefix(pinned[v], found)
                     /\ pinned' = pinned
                     /\ pc' = [pc EXCEPT ![r] = "tampered"]
<1>1. conv[r] \in Conv /\ requests[r] \in Seq(Text)
  BY DEF TypeOK
<1>2. Matches(conv[r], requests[r]) <=>
          (pinned[conv[r]] # NoPin => IsPrefix(pinned[conv[r]], requests[r]))
  BY <1>1, MatchesIs
<1> QED
  BY <1>1, <1>2 DEF Pin, Return

LEMMA PinsStep ==
    ASSUME TypeOK, [Next]_vars, NEW v \in Conv, pinned[v] # NoPin
    PROVE  pinned'[v] # NoPin /\ IsPrefix(pinned[v], pinned'[v])
<1>0. pinned[v] \in Seq(Text) /\ IsPrefix(pinned[v], pinned[v])
  <2>1. pinned[v] \in Seq(Text)
    BY DEF TypeOK
  <2> QED
    BY <2>1, PrefixFacts
<1>1. CASE \E r \in Reader : Pin(r)
  <2>1. PICK r \in Reader : Pin(r)
    BY <1>1
  <2> DEFINE found == requests[r]
  <2>2. /\ found \in Seq(Text)
        /\ \/ /\ pinned[conv[r]] # NoPin => IsPrefix(pinned[conv[r]], found)
              /\ pinned' = [pinned EXCEPT ![conv[r]] = found]
           \/ pinned' = pinned
    BY <2>1, PinCases
  <2>3. found # NoPin
    BY <2>2, NoneAssumption
  <2> HIDE DEF found
  <2> QED
    BY <1>0, <2>2, <2>3 DEF TypeOK
<1>2. CASE pinned' = pinned
  BY <1>0, <1>2
<1> QED
  BY <1>1, <1>2, StepCases DEF Rewrite, AppendLine, NoTranscript, Read, vars

\* A pin is never taken back, whatever happens to the file.
THEOREM PinsCorrect == Spec => PinsGrow
<1>1. TypeOK /\ [Next]_vars =>
          [\A v \in Conv : pinned[v] # NoPin => IsPrefix(pinned[v], pinned'[v])]_vars
  BY PinsStep
<1> QED
  BY <1>1, TypeCorrect, PTL DEF Spec, PinsGrow

(***************************************************************************)
(* One history for the judge.                                              *)
(***************************************************************************)

\* What a reader has returned is the beginning of what is pinned now.
Pinned ==
    \A r \in Reader : pc[r] = "ok" =>
        \/ requests[r] = <<>>
        \/ pinned[conv[r]] # NoPin /\ IsPrefix(requests[r], pinned[conv[r]])

LEMMA PinnedStep == ASSUME TypeOK, Pinned, [Next]_vars PROVE Pinned'
<1> SUFFICES ASSUME NEW s \in Reader, pc'[s] = "ok", requests'[s] # <<>>
             PROVE  pinned'[conv'[s]] # NoPin /\ IsPrefix(requests'[s], pinned'[conv'[s]])
  BY DEF Pinned
<1>0. TypeOK'
  BY TypeStep
\* A reader that had returned already: the pin has only grown.
<1>1. CASE pc[s] = "ok" /\ conv'[s] = conv[s] /\ requests'[s] = requests[s]
  <2>1. /\ conv[s] \in Conv /\ requests[s] \in Seq(Text)
        /\ pinned[conv[s]] # NoPin /\ IsPrefix(requests[s], pinned[conv[s]])
    BY <1>1 DEF Pinned, TypeOK
  <2>2. pinned'[conv[s]] # NoPin /\ IsPrefix(pinned[conv[s]], pinned'[conv[s]])
    BY <2>1, PinsStep
  <2>3. pinned[conv[s]] \in Seq(Text) /\ pinned'[conv[s]] \in Seq(Text)
    BY <1>0, <2>1, <2>2 DEF TypeOK
  <2> QED
    BY <1>1, <2>1, <2>2, <2>3, PrefixFacts
<1>2. CASE \E r \in Reader : Pin(r)
  <2>1. PICK r \in Reader : Pin(r)
    BY <1>2
  <2>2. CASE s = r
    <3> DEFINE v == conv[r]
               found == requests[r]
    <3>1. /\ v \in Conv /\ found \in Seq(Text) /\ UNCHANGED <<conv, requests>>
          /\ \/ pinned' = [pinned EXCEPT ![v] = found]
             \/ pc' = [pc EXCEPT ![r] = "tampered"]
      BY <2>1, PinCases
    <3>2. pc'[r] = "ok" => pinned'[v] = found
      BY <3>1 DEF TypeOK
    <3>3. found # NoPin /\ IsPrefix(found, found)
      BY <3>1, NoneAssumption, PrefixFacts
    <3> QED
      BY <2>2, <3>1, <3>2, <3>3
  <2>3. CASE s # r
    <3>1. UNCHANGED <<conv, requests>> /\ pc'[s] = pc[s]
      BY <2>1, <2>3 DEF Pin, Return, TypeOK
    <3> QED
      BY <1>1, <3>1
  <2> QED
    BY <2>2, <2>3
<1>3. CASE \E r \in Reader, v \in Conv : NoTranscript(r, v)
  <2>1. PICK r \in Reader, v \in Conv : NoTranscript(r, v)
    BY <1>3
  <2>2. s # r
    BY <2>1 DEF NoTranscript, TypeOK
  <2> QED
    BY <1>1, <2>1, <2>2 DEF NoTranscript, Return, TypeOK
<1>4. CASE \E r \in Reader, v \in Conv : Read(r, v)
  <2>1. PICK r \in Reader, v \in Conv : Read(r, v)
    BY <1>4
  <2>2. s # r
    BY <2>1 DEF Read, TypeOK
  <2> QED
    BY <1>1, <2>1, <2>2 DEF Read, TypeOK
<1>5. CASE \/ \E v \in Conv : Rewrite(v)
           \/ \E v \in Conv, l \in Line : AppendLine(v, l)
           \/ UNCHANGED vars
  BY <1>1, <1>5 DEF Rewrite, AppendLine, readerVars, vars
<1> QED
  BY <1>2, <1>3, <1>4, <1>5, StepCases

LEMMA AlwaysPinned == Spec => [](TypeOK /\ Pinned)
<1>1. Init => Pinned
  BY DEF Init, Pinned
<1> QED
  BY <1>1, PinnedStep, TypeCorrect, PTL DEF Spec

\* The judge is never shown two histories of a
\* conversation that contradict each other, whoever writes the file.
THEOREM ConsistentCorrect == Spec => []ConsistentHistory
<1>1. TypeOK /\ Pinned => ConsistentHistory
  <2> SUFFICES ASSUME TypeOK, Pinned, NEW r \in Reader, NEW s \in Reader,
                      pc[r] = "ok", pc[s] = "ok", conv[r] = conv[s]
               PROVE  IsPrefix(requests[r], requests[s]) \/ IsPrefix(requests[s], requests[r])
    BY DEF ConsistentHistory
  <2>1. requests[r] \in Seq(Text) /\ requests[s] \in Seq(Text) /\ conv[r] \in Conv
    BY DEF TypeOK
  <2>2. CASE requests[r] = <<>> \/ requests[s] = <<>>
    BY <2>1, <2>2, PrefixFacts
  <2>3. CASE requests[r] # <<>> /\ requests[s] # <<>>
    <3>1. /\ pinned[conv[r]] # NoPin
          /\ IsPrefix(requests[r], pinned[conv[r]]) /\ IsPrefix(requests[s], pinned[conv[r]])
      BY <2>3 DEF Pinned
    <3>2. pinned[conv[r]] \in Seq(Text)
      BY <2>1, <3>1 DEF TypeOK
    <3> QED
      BY <2>1, <3>1, <3>2, PrefixFacts
  <2> QED
    BY <2>2, <2>3
<1> QED
  BY <1>1, AlwaysPinned, PTL

(***************************************************************************)
(* False alarms.                                                           *)
(***************************************************************************)

\* Of a file that was only appended to, everything read or pinned is a beginning.
Honest ==
    ~rewritten =>
        /\ \A v \in Conv : pinned[v] # NoPin => IsPrefix(pinned[v], Requests(Lines(v)))
        /\ \A r \in Reader, v \in Conv :
               pc[r] = "pin" /\ conv[r] = v => IsPrefix(requests[r], Requests(Lines(v)))

\* AlarmHasCause, with something pinned.
Overtaken ==
    \A r \in Reader : pc[r] = "tampered" =>
        \/ rewritten
        \/ pinned[conv[r]] # NoPin /\ IsStrictPrefix(requests[r], pinned[conv[r]])

LEMMA StillHonest == ASSUME [Next]_vars, ~rewritten' PROVE ~rewritten
  BY StepCases DEF Rewrite, AppendLine, Pin, NoTranscript, Read, vars

\* The requests of a file stay where they are, unless it is rewritten.
LEMMA FilesGrow ==
    ASSUME TypeOK, [Next]_vars, ~rewritten', NEW v \in Conv
    PROVE  ~rewritten /\ IsPrefix(Requests(Lines(v)), Requests(Lines(v)'))
<1>1. Lines(v) \in Seq(Line) /\ Requests(Lines(v)) \in Seq(Text)
  BY LinesType, RequestsType
<1>2. CASE \E w \in Conv, l \in Line : AppendLine(w, l)
  <2>1. PICK w \in Conv, l \in Line : AppendLine(w, l)
    BY <1>2
  <2>2. Append(Lines(w), l) \in Seq(Line)
    BY LinesType
  <2>3. file'[v] = IF v = w THEN Append(Lines(w), l) ELSE file[v]
    BY <2>1 DEF AppendLine, TypeOK
  <2>4. Lines(v)' = IF v = w THEN Append(Lines(v), l) ELSE Lines(v)
    BY <2>2, <2>3, NoneAssumption DEF Lines
  <2>5. IsPrefix(Requests(Lines(v)), Requests(Append(Lines(v), l)))
    BY <1>1, RequestsGrow
  <2> QED
    BY <1>1, <2>1, <2>4, <2>5, PrefixFacts DEF AppendLine
<1>3. CASE UNCHANGED <<file, rewritten>>
  <2>1. Lines(v)' = Lines(v)
    BY <1>3 DEF Lines
  <2> QED
    BY <1>1, <1>3, <2>1, PrefixFacts
<1>4. CASE \E w \in Conv : Rewrite(w)
  BY <1>4 DEF Rewrite
<1> QED
  BY <1>2, <1>3, <1>4, StepCases DEF Pin, NoTranscript, Read, vars

LEMMA LinesTypeNext == ASSUME TypeOK', NEW v \in Conv PROVE Lines(v)' \in Seq(Line)
<1>1. file'[v] \in Seq(Line) \cup {NoFile}
  BY DEF TypeOK
<1>2. <<>> \in Seq(Line)
  OBVIOUS
<1> QED
  BY <1>1, <1>2 DEF Lines

LEMMA HonestStep == ASSUME TypeOK, Honest, [Next]_vars PROVE Honest'
<1> SUFFICES ASSUME ~rewritten'
             PROVE  /\ \A v \in Conv : pinned'[v] # NoPin => IsPrefix(pinned'[v], Requests(Lines(v)'))
                    /\ \A r \in Reader, v \in Conv : pc'[r] = "pin" /\ conv'[r] = v =>
                           IsPrefix(requests'[r], Requests(Lines(v)'))
  BY DEF Honest
<1>1. TypeOK' /\ ~rewritten
  BY TypeStep, StillHonest
<1>2. ASSUME NEW v \in Conv, NEW reqs \in Seq(Text), IsPrefix(reqs, Requests(Lines(v)))
      PROVE  IsPrefix(reqs, Requests(Lines(v)'))
  <2>1. Requests(Lines(v)) \in Seq(Text) /\ Requests(Lines(v)') \in Seq(Text)
    BY <1>1, LinesType, LinesTypeNext, RequestsType
  <2>2. IsPrefix(Requests(Lines(v)), Requests(Lines(v)'))
    BY FilesGrow
  <2> QED
    BY <1>2, <2>1, <2>2, PrefixFacts
<1>3. ASSUME NEW v \in Conv, pinned'[v] # NoPin
      PROVE  IsPrefix(pinned'[v], Requests(Lines(v)'))
  <2>1. pinned'[v] \in Seq(Text)
    BY <1>1, <1>3 DEF TypeOK
  <2>2. IsPrefix(pinned'[v], Requests(Lines(v)))
    <3>1. CASE pinned' = pinned
      BY <1>1, <1>3, <3>1 DEF Honest
    <3>2. CASE \E r \in Reader : Pin(r)
      <4>1. PICK r \in Reader : Pin(r)
        BY <3>2
      <4>2. /\ pc[r] = "pin" /\ conv[r] \in Conv
            /\ \/ pinned' = [pinned EXCEPT ![conv[r]] = requests[r]]
               \/ pinned' = pinned
        BY <4>1, PinCases
      <4>3. pinned'[v] = pinned[v] \/ (v = conv[r] /\ pinned'[v] = requests[r])
        BY <4>2 DEF TypeOK
      <4> QED
        BY <1>1, <1>3, <4>2, <4>3 DEF Honest
    <3> QED
      BY <3>1, <3>2, StepCases DEF Rewrite, AppendLine, NoTranscript, Read, vars
  <2> QED
    BY <1>2, <2>1, <2>2
<1>4. ASSUME NEW r \in Reader, NEW v \in Conv, pc'[r] = "pin", conv'[r] = v
      PROVE  IsPrefix(requests'[r], Requests(Lines(v)'))
  <2>1. requests'[r] \in Seq(Text)
    BY <1>1 DEF TypeOK
  <2>2. IsPrefix(requests'[r], Requests(Lines(v)))
    <3>1. CASE pc[r] = "pin" /\ requests'[r] = requests[r] /\ conv'[r] = conv[r]
      BY <1>1, <1>4, <3>1 DEF Honest
    <3>2. CASE \E s \in Reader, w \in Conv : Read(s, w)
      <4>1. PICK s \in Reader, w \in Conv : Read(s, w)
        BY <3>2
      <4>2. CASE s # r
        BY <3>1, <1>4, <4>1, <4>2 DEF Read, TypeOK
      <4>3. CASE s = r
        <5>1. requests'[r] = Requests(Lines(v))
          BY <1>4, <4>1, <4>3 DEF Read, Lines, TypeOK
        <5> QED
          BY <2>1, <5>1, PrefixFacts
      <4> QED
        BY <4>2, <4>3
    <3>3. CASE \E s \in Reader : Pin(s)
      <4>1. PICK s \in Reader : Pin(s)
        BY <3>3
      <4>2. s # r /\ pc'[r] = pc[r] /\ UNCHANGED <<requests, conv>>
        BY <1>4, <4>1 DEF Pin, Return, TypeOK
      <4> QED
        BY <1>4, <3>1, <4>2
    <3>4. CASE \E s \in Reader, w \in Conv : NoTranscript(s, w)
      <4>1. PICK s \in Reader, w \in Conv : NoTranscript(s, w)
        BY <3>4
      <4>2. s # r
        BY <1>4, <4>1 DEF NoTranscript, Return, TypeOK
      <4> QED
        BY <1>4, <3>1, <4>1, <4>2 DEF NoTranscript, Return, TypeOK
    <3> QED
      BY <1>4, <3>1, <3>2, <3>3, <3>4, StepCases DEF Rewrite, AppendLine, readerVars, vars
  <2> QED
    BY <1>2, <2>1, <2>2
<1> QED
  BY <1>3, <1>4

LEMMA OvertakenStep == ASSUME TypeOK, Honest, Overtaken, [Next]_vars PROVE Overtaken'
<1> SUFFICES ASSUME NEW s \in Reader, pc'[s] = "tampered", ~rewritten'
             PROVE  pinned'[conv'[s]] # NoPin /\ IsStrictPrefix(requests'[s], pinned'[conv'[s]])
  BY DEF Overtaken
<1>0. TypeOK' /\ ~rewritten
  BY TypeStep, StillHonest
\* A reader that has returned: the pin has only grown.
<1>1. CASE pc[s] = "tampered" /\ conv'[s] = conv[s] /\ requests'[s] = requests[s]
  <2>1. /\ conv[s] \in Conv /\ requests[s] \in Seq(Text)
        /\ pinned[conv[s]] # NoPin /\ IsStrictPrefix(requests[s], pinned[conv[s]])
    BY <1>0, <1>1 DEF Overtaken, TypeOK
  <2>2. pinned'[conv[s]] # NoPin /\ IsPrefix(pinned[conv[s]], pinned'[conv[s]])
    BY <2>1, PinsStep
  <2>3. pinned[conv[s]] \in Seq(Text) /\ pinned'[conv[s]] \in Seq(Text)
    BY <1>0, <2>1, <2>2 DEF TypeOK
  <2>4. IsPrefix(requests[s], pinned'[conv[s]]) /\ requests[s] # pinned'[conv[s]]
    BY <2>1, <2>2, <2>3, PrefixFacts DEF IsStrictPrefix
  <2> QED
    BY <1>1, <2>2, <2>4 DEF IsStrictPrefix
<1>2. CASE \E r \in Reader : Pin(r)
  <2>1. PICK r \in Reader : Pin(r)
    BY <1>2
  <2>2. CASE s = r
    <3> DEFINE v == conv[r]
               found == requests[r]
    <3>1. /\ v \in Conv /\ found \in Seq(Text) /\ UNCHANGED <<conv, requests>> /\ pc[r] = "pin"
          /\ \/ pc' = [pc EXCEPT ![r] = "ok"]
             \/ pinned[v] # NoPin /\ ~IsPrefix(pinned[v], found) /\ pinned' = pinned
      BY <2>1, PinCases
    <3>2. pinned[v] # NoPin /\ ~IsPrefix(pinned[v], found) /\ pinned' = pinned
      BY <2>2, <3>1 DEF TypeOK
    <3>3. IsPrefix(found, Requests(Lines(v))) /\ IsPrefix(pinned[v], Requests(Lines(v)))
      BY <1>0, <3>1, <3>2 DEF Honest
    <3>4. pinned[v] \in Seq(Text) /\ Requests(Lines(v)) \in Seq(Text)
      BY <3>1, <3>2, LinesType, RequestsType DEF TypeOK
    <3> HIDE DEF v, found
    <3>5. IsPrefix(found, pinned[v]) /\ found # pinned[v]
      BY <3>1, <3>2, <3>3, <3>4, PrefixFacts
    <3> QED
      BY <2>2, <3>1, <3>2, <3>5 DEF IsStrictPrefix, v, found
  <2>3. CASE s # r
    <3>1. UNCHANGED <<conv, requests>> /\ pc'[s] = pc[s]
      BY <2>1, <2>3 DEF Pin, Return, TypeOK
    <3> QED
      BY <1>1, <3>1
  <2> QED
    BY <2>2, <2>3
<1>3. CASE \E r \in Reader, v \in Conv : NoTranscript(r, v)
  <2>1. PICK r \in Reader, v \in Conv : NoTranscript(r, v)
    BY <1>3
  <2>2. s # r
    BY <2>1 DEF NoTranscript, Return, TypeOK
  <2> QED
    BY <1>1, <2>1, <2>2 DEF NoTranscript, Return, TypeOK
<1>4. CASE \E r \in Reader, v \in Conv : Read(r, v)
  <2>1. PICK r \in Reader, v \in Conv : Read(r, v)
    BY <1>4
  <2>2. s # r
    BY <2>1 DEF Read, TypeOK
  <2> QED
    BY <1>1, <2>1, <2>2 DEF Read, TypeOK
<1>5. CASE \/ \E v \in Conv : Rewrite(v)
           \/ \E v \in Conv, l \in Line : AppendLine(v, l)
           \/ UNCHANGED vars
  BY <1>1, <1>5 DEF Rewrite, AppendLine, readerVars, vars
<1> QED
  BY <1>2, <1>3, <1>4, <1>5, StepCases

\* Of an honest file, only a reader that was
\* overtaken by a later one is told that it was tampered with.
THEOREM AlarmCorrect == Spec => []AlarmHasCause
<1>1. Init => Honest /\ Overtaken
  BY DEF Init, Honest, Overtaken
<1>2. Overtaken => AlarmHasCause
  BY DEF Overtaken, AlarmHasCause
<1> QED
  BY <1>1, <1>2, HonestStep, OvertakenStep, TypeCorrect, PTL DEF Spec

(***************************************************************************)
(* What is shown: the loop over the requests, and the sums it stops at.    *)
(***************************************************************************)

LEMMA ClippedType == ASSUME NEW t \in Text PROVE Clipped(t) \in Nat
BY NumAssumption DEF Clipped

LEMMA FromEndType ==
    ASSUME NEW reqs \in Seq(Text), NEW n \in 1 .. Len(reqs)
    PROVE  FromEnd(reqs, n) \in Text
BY DEF FromEnd

\* Bytes is the sum its definition describes.
LEMMA BytesIs ==
    ASSUME NEW reqs \in Seq(Text)
    PROVE  /\ Bytes(reqs) \in [0 .. Len(reqs) -> Nat]
           /\ Bytes(reqs)[0] = 0
           /\ \A n \in 1 .. Len(reqs) :
                  Bytes(reqs)[n] = Bytes(reqs)[n - 1] + Clipped(FromEnd(reqs, n))
<1> DEFINE m == Len(reqs)
           step == [n \in 1 .. m |-> [sum \in Nat |-> sum + Clipped(FromEnd(reqs, n))]]
           Is(f) == f = [n \in 0 .. m |-> IF n = 0 THEN 0
                                          ELSE f[n - 1] + Clipped(FromEnd(reqs, n))]
<1>1. m \in Nat /\ 0 \in Nat
  OBVIOUS
<1>2. step \in [1 .. m -> [Nat -> Nat]]
  BY ClippedType, FromEndType
<1>3. PICK f : Recursive(f, m, Nat, 0, step)
  <2> HIDE DEF m, step
  <2> QED
    BY <1>1, <1>2, RecursionUpTo, ZenonT(40)
<1>4. \A n \in 1 .. m : f[n] = f[n - 1] + Clipped(FromEnd(reqs, n))
  <2> TAKE n \in 1 .. m
  <2>1. f[n - 1] \in Nat /\ f[n] = step[n][f[n - 1]]
    <3>1. n \in 1 .. m /\ n - 1 \in 0 .. m
      BY <1>1
    <3> HIDE DEF m, step
    <3> QED
      BY <1>3, <3>1 DEF Recursive
  <2> QED
    BY <2>1
<1>5. Is(f)
  BY <1>3, <1>4 DEF Recursive
<1>6. Bytes(reqs) = CHOOSE g : Is(g)
  BY DEF Bytes
<1>7. Is(Bytes(reqs))
  <2> HIDE DEF Is
  <2> QED
    BY <1>5, <1>6, Zenon
<1> DEFINE B == Bytes(reqs)
<1>8. B[0] = 0 /\ \A n \in 1 .. m : B[n] = B[n - 1] + Clipped(FromEnd(reqs, n))
  BY <1>7
<1>9. 0 .. m \subseteq {n \in 0 .. m : B[n] \in Nat}
  <2> DEFINE S == {n \in 0 .. m : B[n] \in Nat}
  <2>1. 0 \in S
    BY <1>8
  <2>2. \A n \in 1 .. m : n - 1 \in S => n \in S
    BY <1>8, ClippedType, FromEndType
  <2> HIDE DEF S, m
  <2> QED
    BY <1>1, <2>1, <2>2, InductionUpTo DEF S
<1> QED
  BY <1>7, <1>8, <1>9

State == [taken : Seq(Text), total : Nat, ended : BOOLEAN]

\* One round of the loop.
Round(reqs, n, acc) ==
    IF acc.ended \/ ~Fits(acc.total, FromEnd(reqs, n), Len(acc.taken))
    THEN [acc EXCEPT !.ended = TRUE]
    ELSE [taken |-> <<FromEnd(reqs, n)>> \o acc.taken,
          total |-> acc.total + Clipped(FromEnd(reqs, n)), ended |-> FALSE]

NoRound == [taken |-> <<>>, total |-> 0, ended |-> FALSE]

\* Rounds is the loop its definition describes.
LEMMA RoundsIs ==
    ASSUME NEW reqs \in Seq(Text)
    PROVE  /\ \A n \in 0 .. Len(reqs) : Rounds(reqs)[n] \in State
           /\ Rounds(reqs)[0] = NoRound
           /\ \A n \in 1 .. Len(reqs) : Rounds(reqs)[n] = Round(reqs, n, Rounds(reqs)[n - 1])
<1> DEFINE m == Len(reqs)
           step == [n \in 1 .. m |-> [acc \in State |-> Round(reqs, n, acc)]]
           Is(f) == f = [n \in 0 .. m |-> IF n = 0 THEN NoRound ELSE Round(reqs, n, f[n - 1])]
<1>1. m \in Nat /\ NoRound \in State
  BY DEF NoRound, State
<1>2. ASSUME NEW n \in 1 .. m, NEW acc \in State
      PROVE  Round(reqs, n, acc) \in State
  <2>1. FromEnd(reqs, n) \in Text /\ Clipped(FromEnd(reqs, n)) \in Nat
    BY ClippedType, FromEndType
  <2> DEFINE t == FromEnd(reqs, n)
  <2> HIDE DEF t
  <2>2. <<t>> \o acc.taken \in Seq(Text) /\ acc.total + Clipped(t) \in Nat
    BY <2>1 DEF State, t
  <2> QED
    BY <2>2 DEF Round, State, t
<1>3. step \in [1 .. m -> [State -> State]]
  <2> HIDE DEF m
  <2> QED
    BY <1>2
<1>4. PICK f : Recursive(f, m, State, NoRound, step)
  <2> HIDE DEF m, step
  <2> QED
    BY <1>1, <1>3, RecursionUpTo
<1>5. \A n \in 1 .. m : f[n] = Round(reqs, n, f[n - 1])
  <2> TAKE n \in 1 .. m
  <2>1. f[n - 1] \in State /\ f[n] = step[n][f[n - 1]]
    BY <1>4 DEF Recursive
  <2> QED
    BY <2>1
<1>6. Is(f)
  BY <1>4, <1>5 DEF Recursive
<1>7. Rounds(reqs) = CHOOSE g : Is(g)
  BY DEF Rounds, Round, NoRound
<1>8. Is(Rounds(reqs))
  <2> HIDE DEF Is
  <2> QED
    BY <1>6, <1>7, Zenon
<1> DEFINE R == Rounds(reqs)
           S == {n \in 0 .. m : R[n] \in State}
<1>9. R[0] = NoRound /\ \A n \in 1 .. m : R[n] = Round(reqs, n, R[n - 1])
  BY <1>8
<1> HIDE DEF m, R
<1>10. 0 \in S /\ \A n \in 1 .. m : n - 1 \in S => n \in S
  BY <1>1, <1>2, <1>9
<1> HIDE DEF S
<1>11. 0 .. m \subseteq S
  BY <1>1, <1>10, InductionUpTo
<1> QED
  BY <1>9, <1>11 DEF S, R, m

\* More requests are more bytes.
LEMMA BytesGrow ==
    ASSUME NEW reqs \in Seq(Text)
    PROVE  \A n \in 0 .. Len(reqs) : \A i \in 0 .. n : Bytes(reqs)[i] <= Bytes(reqs)[n]
<1> DEFINE m == Len(reqs)
           B == Bytes(reqs)
           S == {n \in 0 .. m : \A i \in 0 .. n : B[i] <= B[n]}
<1>1. m \in Nat /\ \A i \in 0 .. m : B[i] \in Nat
  BY BytesIs
<1>2. 0 \in S
  BY <1>1
<1>3. ASSUME NEW n \in 1 .. m, n - 1 \in S
      PROVE  n \in S
  <2>1. B[n - 1] <= B[n]
    <3>1. B[n] = B[n - 1] + Clipped(FromEnd(reqs, n))
      BY BytesIs
    <3>2. Clipped(FromEnd(reqs, n)) \in Nat
      BY ClippedType, FromEndType
    <3> QED
      BY <1>1, <3>1, <3>2
  <2>2. ASSUME NEW i \in 0 .. n
        PROVE  B[i] <= B[n]
    <3>1. CASE i = n
      BY <1>1, <3>1
    <3>2. CASE i # n
      <4>1. i \in 0 .. n - 1 /\ B[i] <= B[n - 1]
        BY <1>3, <3>2
      <4> QED
        BY <1>1, <2>1, <4>1
    <3> QED
      BY <3>1, <3>2
  <2> QED
    BY <2>2
<1> HIDE DEF m, S
<1>4. 0 .. m \subseteq S
  BY <1>1, <1>2, <1>3, InductionUpTo
<1> QED
  BY <1>4 DEF S, m

\* The newest n requests, of at least n.
LEMMA NewestIs ==
    ASSUME NEW reqs \in Seq(Text), NEW n \in 0 .. Len(reqs)
    PROVE  /\ Newest(reqs, n) = SubSeq(reqs, Len(reqs) - n + 1, Len(reqs))
           /\ Newest(reqs, n) \in Seq(Text) /\ Len(Newest(reqs, n)) = n
           /\ \A i \in 1 .. n : Newest(reqs, n)[i] = reqs[Len(reqs) - n + i]
<1>1. (IF Len(reqs) > n THEN Len(reqs) - n + 1 ELSE 1) = Len(reqs) - n + 1
  OBVIOUS
<1>2. Newest(reqs, n) = SubSeq(reqs, Len(reqs) - n + 1, Len(reqs))
  BY <1>1, Zenon DEF Newest
<1> QED
  BY <1>2

LEMMA OneMore ==
    ASSUME NEW reqs \in Seq(Text), NEW n \in 1 .. Len(reqs)
    PROVE  <<FromEnd(reqs, n)>> \o Newest(reqs, n - 1) = Newest(reqs, n)
<1> DEFINE m == Len(reqs)
           k == m - n + 1
<1>1. k \in 1 .. m /\ m \in k .. m /\ k + 1 = m - (n - 1) + 1
  OBVIOUS
<1>2. Newest(reqs, n) = SubSeq(reqs, k, m) /\ Newest(reqs, n - 1) = SubSeq(reqs, k + 1, m)
  <2>1. n \in 0 .. m /\ n - 1 \in 0 .. m
    OBVIOUS
  <2>2. Newest(reqs, n) = SubSeq(reqs, k, m)
    BY <2>1, NewestIs
  <2>3. Newest(reqs, n - 1) = SubSeq(reqs, m - (n - 1) + 1, m)
    BY <2>1, NewestIs
  <2> QED
    BY <1>1, <2>2, <2>3
<1> HIDE DEF m, k
<1>3. SubSeq(reqs, k, m) = <<reqs[k]>> \o SubSeq(reqs, k + 1, m)
  BY <1>1, SubSeqRecursiveFirst DEF m
<1> QED
  BY <1>2, <1>3 DEF FromEnd, m, k

\* After n rounds the k newest requests are taken: all n, or as many as fit.
Good(reqs, n, k, acc) ==
    /\ acc.ended \in BOOLEAN
    /\ acc.taken = Newest(reqs, k)
    /\ acc.total = Bytes(reqs)[k]
    /\ k <= 1 \/ Bytes(reqs)[k] <= Room
    /\ IF acc.ended THEN 1 <= k /\ k < n /\ Bytes(reqs)[k + 1] > Room ELSE k = n

LEMMA RoundsGood ==
    ASSUME NEW reqs \in Seq(Text)
    PROVE  \A n \in 0 .. Len(reqs) : \E k \in 0 .. n : Good(reqs, n, k, Rounds(reqs)[n])
<1> DEFINE m == Len(reqs)
           B == Bytes(reqs)
           R == Rounds(reqs)
           S == {n \in 0 .. m : \E k \in 0 .. n : Good(reqs, n, k, R[n])}
<1>1. m \in Nat /\ Room \in Nat /\ \A i \in 0 .. m : B[i] \in Nat
  BY BytesIs, NumAssumption, SMTT(30)
<1>2. 0 \in S
  <2>1. Newest(reqs, 0) = <<>>
    BY NewestIs
  <2>2. Good(reqs, 0, 0, R[0])
    BY <2>1, RoundsIs, BytesIs DEF Good, NoRound
  <2> QED
    BY <2>2
<1>3. ASSUME NEW n \in 1 .. m, n - 1 \in S
      PROVE  n \in S
  <2> DEFINE acc == R[n - 1]
             t == FromEnd(reqs, n)
  <2>1. PICK k \in 0 .. n - 1 : Good(reqs, n - 1, k, acc)
    BY <1>3
  <2>2. R[n] = Round(reqs, n, acc)
    BY RoundsIs
  <2>3. Len(acc.taken) = k /\ B[k] \in Nat
    <3>1. k \in 0 .. m /\ acc.taken = Newest(reqs, k)
      BY <2>1 DEF Good
    <3> HIDE DEF acc
    <3> QED
      BY <1>1, <3>1, NewestIs
  <2>4. B[n] = B[n - 1] + Clipped(t) /\ Clipped(t) \in Nat
    BY BytesIs, ClippedType, FromEndType
  <2>5. n - 1 \in 0 .. m /\ B[n - 1] \in Nat /\ B[n] \in Nat
    BY <1>1
  <2>6. acc \in State
    BY RoundsIs
  <2> HIDE DEF acc, t, m, B, R
  <2>7. CASE acc.ended
    <3>1. R[n] = [acc EXCEPT !.ended = TRUE]
      BY <2>2, <2>7 DEF Round
    <3>2. Good(reqs, n, k, R[n])
      BY <2>1, <2>6, <2>7, <3>1 DEF Good, State
    <3> QED
      BY <3>2 DEF R, m
  <2>8. CASE ~acc.ended /\ Fits(acc.total, t, Len(acc.taken))
    <3>1. R[n] = [taken |-> <<t>> \o acc.taken, total |-> acc.total + Clipped(t), ended |-> FALSE]
      BY <2>2, <2>8 DEF Round, t
    <3>2. k = n - 1 /\ acc.taken = Newest(reqs, n - 1) /\ acc.total = B[n - 1]
      BY <2>1, <2>8 DEF Good, B
    <3>3. <<t>> \o acc.taken = Newest(reqs, n)
      BY <3>2, OneMore DEF t, m
    <3>4. n <= 1 \/ B[n] <= Room
      BY <2>3, <2>4, <2>8, <3>2 DEF Fits
    <3>5. Good(reqs, n, n, R[n])
      BY <2>4, <3>1, <3>2, <3>3, <3>4 DEF Good, B
    <3> QED
      BY <3>5 DEF R, m
  <2>9. CASE ~acc.ended /\ ~Fits(acc.total, t, Len(acc.taken))
    <3>1. R[n] = [acc EXCEPT !.ended = TRUE]
      BY <2>2, <2>9 DEF Round, t
    <3>2. k = n - 1 /\ acc.total = B[n - 1]
      BY <2>1, <2>9 DEF Good, B
    <3>3. k # 0 /\ B[k + 1] > Room
      BY <1>1, <2>3, <2>4, <2>5, <2>9, <3>2 DEF Fits
    <3>4. Good(reqs, n, k, R[n])
      BY <2>1, <2>6, <2>9, <3>1, <3>2, <3>3 DEF Good, State, B
    <3> QED
      BY <3>4 DEF R, m
  <2> QED
    BY <2>1, <2>7, <2>8, <2>9
<1> HIDE DEF m, S
<1>4. 0 .. m \subseteq S
  BY <1>1, <1>2, <1>3, InductionUpTo
<1> QED
  BY <1>4 DEF S, m

\* The newest requests of the newest ones.
LEMMA NewestOfNewest ==
    ASSUME NEW reqs \in Seq(Text), NEW n \in 0 .. Len(reqs)
    PROVE  LET w == Newest(reqs, n)
           IN  \A k \in 0 .. n : /\ Newest(w, k) = Newest(reqs, k)
                                 /\ Bytes(w)[k] = Bytes(reqs)[k]
<1> DEFINE w == Newest(reqs, n)
           m == Len(reqs)
<1>1. w \in Seq(Text) /\ Len(w) = n /\ \A i \in 1 .. n : w[i] = reqs[m - n + i]
  BY NewestIs
<1> HIDE DEF w
<1>2. ASSUME NEW k \in 0 .. n
      PROVE  Newest(w, k) = Newest(reqs, k)
  <2>1. k \in 0 .. Len(w) /\ k \in 0 .. m
    BY <1>1
  <2>2. /\ Newest(w, k) \in Seq(Text) /\ Len(Newest(w, k)) = k
        /\ \A i \in 1 .. k : Newest(w, k)[i] = w[n - k + i]
    BY <1>1, <2>1, NewestIs
  <2>3. /\ Newest(reqs, k) \in Seq(Text) /\ Len(Newest(reqs, k)) = k
        /\ \A i \in 1 .. k : Newest(reqs, k)[i] = reqs[m - k + i]
    BY <2>1, NewestIs
  <2>4. \A i \in 1 .. k : n - k + i \in 1 .. n /\ m - n + (n - k + i) = m - k + i
    OBVIOUS
  <2>5. \A i \in 1 .. k : Newest(w, k)[i] = Newest(reqs, k)[i]
    BY <1>1, <2>2, <2>3, <2>4
  <2> QED
    BY <2>2, <2>3, <2>5, SeqEqual
<1> DEFINE S == {k \in 0 .. n : Bytes(w)[k] = Bytes(reqs)[k]}
<1>3. 0 \in S
  BY <1>1, BytesIs
<1>4. ASSUME NEW k \in 1 .. n, k - 1 \in S
      PROVE  k \in S
  <2>1. FromEnd(w, k) = FromEnd(reqs, k)
    <3>1. n - k + 1 \in 1 .. n /\ m - n + (n - k + 1) = m - k + 1
      OBVIOUS
    <3> QED
      BY <1>1, <3>1 DEF FromEnd
  <2>2. Bytes(w)[k] = Bytes(w)[k - 1] + Clipped(FromEnd(w, k))
    BY <1>1, BytesIs
  <2>3. Bytes(reqs)[k] = Bytes(reqs)[k - 1] + Clipped(FromEnd(reqs, k))
    BY BytesIs
  <2> QED
    BY <1>4, <2>1, <2>2, <2>3
<1> HIDE DEF S
<1>5. 0 .. n \subseteq S
  BY <1>3, <1>4, InductionUpTo
<1> QED
  BY <1>2, <1>5 DEF S, w

LEMMA WindowIs ==
    ASSUME NEW reqs \in Seq(Text)
    PROVE  LET Fitting == {n \in 0 .. Len(reqs) : n <= Keep /\ (n <= 1 \/ Bytes(reqs)[n] <= Room)}
           IN  Window(reqs) = Newest(reqs, Max(Fitting))
<1> DEFINE m == Len(reqs)
           B == Bytes(reqs)
           n == IF m > Keep THEN Keep ELSE m
           w == Newest(reqs, Keep)
           Fitting == {i \in 0 .. m : i <= Keep /\ (i <= 1 \/ B[i] <= Room)}
<1>1. m \in Nat /\ Keep \in Nat /\ Room \in Nat /\ n \in 0 .. m /\ \A i \in 0 .. m : B[i] \in Nat
  BY BytesIs, NumAssumption, SMTT(30)
<1>2. w = Newest(reqs, n)
  <2>1. (IF m > Keep THEN m - Keep + 1 ELSE 1) = (IF m > n THEN m - n + 1 ELSE 1)
    <3>1. CASE m > Keep
      BY <1>1, <3>1
    <3>2. CASE ~(m > Keep)
      BY <1>1, <3>2
    <3> QED
      BY <3>1, <3>2
  <2> QED
    BY <2>1, Zenon DEF Newest
<1>3. w \in Seq(Text) /\ Len(w) = n
  BY <1>1, <1>2, NewestIs
<1>4. PICK k \in 0 .. n : Good(w, n, k, Rounds(w)[n])
  BY <1>1, <1>3, RoundsGood
<1>5. \A i \in 0 .. n : Newest(w, i) = Newest(reqs, i) /\ Bytes(w)[i] = B[i]
  BY <1>1, <1>2, NewestOfNewest
<1>6. Window(reqs) = Newest(reqs, k)
  BY <1>3, <1>4, <1>5 DEF Window, Taken, Good
<1>7. k \in Fitting
  BY <1>1, <1>4, <1>5 DEF Good
<1>8. ASSUME NEW i \in Fitting
      PROVE  i <= k
  <2>1. SUFFICES ASSUME k < i PROVE FALSE
    BY <1>1
  <2>2. i <= n /\ k < n
    BY <1>1, <2>1
  <2>3. 1 <= k /\ B[k + 1] > Room
    BY <1>1, <1>4, <1>5, <2>2 DEF Good
  <2>4. B[k + 1] <= B[i]
    BY <1>1, <2>1, BytesGrow
  <2> QED
    BY <1>1, <2>1, <2>3, <2>4
<1> HIDE DEF Fitting
<1>9. Max(Fitting) = k
  <2>1. \A i \in Fitting : i \in Int
    BY DEF Fitting
  <2>2. k \in Fitting /\ \A i \in Fitting : k >= i
    BY <1>7, <1>8, <2>1
  <2>3. Max(Fitting) \in Fitting /\ \A i \in Fitting : Max(Fitting) >= i
    BY <2>2, Zenon DEF Max
  <2> DEFINE x == Max(Fitting)
  <2> HIDE DEF x, n, m
  <2>4. x >= k /\ k >= x /\ x \in Int /\ k \in Int
    BY <2>1, <2>2, <2>3 DEF x
  <2>5. x = k
    BY <2>4
  <2> QED
    BY <2>5 DEF x
<1> QED
  BY <1>6, <1>9 DEF Fitting

LEMMA EmptyWindow == Window(<<>>) = <<>>
<1>1. Newest(<<>>, Keep) = <<>>
  <2>1. ~(0 > Keep) /\ Len(<<>>) = 0
    BY NumAssumption
  <2>2. Newest(<<>>, Keep) = SubSeq(<<>>, 1, 0)
    BY <2>1 DEF Newest
  <2> QED
    BY <2>2, SubSeqEmpty
<1>2. <<>> \in Seq(Text) /\ Len(<<>>) = 0
  OBVIOUS
<1>3. Rounds(<<>>)[0] = NoRound
  BY <1>2, RoundsIs
<1> QED
  BY <1>1, <1>2, <1>3 DEF Window, Taken, NoRound

\* What was returned was chosen from what was read.
Shown ==
    /\ shown = [r \in Reader |-> shown[r]]
    /\ \A r \in Reader : pc[r] = "ok" => shown[r] = Window(requests[r])

LEMMA ShownStep == ASSUME TypeOK, Shown, [Next]_vars PROVE Shown'
<1> SUFFICES /\ shown' = [r \in Reader |-> shown'[r]]
             /\ \A r \in Reader : pc'[r] = "ok" => shown'[r] = Window(requests'[r])
  BY DEF Shown
<1>1. CASE \E q \in Reader, v \in Conv : NoTranscript(q, v)
  <2>1. PICK q \in Reader, v \in Conv : NoTranscript(q, v)
    BY <1>1
  <2>2. shown'[q] = <<>> /\ requests'[q] = <<>>
    BY <2>1 DEF NoTranscript, Return, TypeOK, Shown
  <2> QED
    BY <2>1, <2>2, EmptyWindow DEF NoTranscript, Return, TypeOK, Shown
<1>2. CASE \E q \in Reader, v \in Conv : Read(q, v)
  BY <1>2 DEF Read, TypeOK, Shown
<1>3. CASE \E q \in Reader : Pin(q)
  BY <1>3, ZenonT(40) DEF Pin, Return, TypeOK, Shown
<1>4. CASE \/ \E v \in Conv : Rewrite(v)
           \/ \E v \in Conv, l \in Line : AppendLine(v, l)
           \/ UNCHANGED vars
  BY <1>4 DEF Rewrite, AppendLine, readerVars, vars, Shown
<1> QED
  BY <1>1, <1>2, <1>3, <1>4, StepCases

\* The judge is shown the longest end of what was read that is short enough.
THEOREM ShownCorrect == Spec => []ShownLongest
<1>1. Init => Shown
  BY DEF Init, Shown
<1>2. TypeOK /\ Shown => ShownLongest
  BY WindowIs DEF TypeOK, Shown, ShownLongest
<1> QED
  BY <1>1, <1>2, ShownStep, TypeCorrect, PTL DEF Spec
====
