---- MODULE Transcript ----
(***************************************************************************)
(* The judge's view of a conversation: internal/judge/transcript.go.       *)
(*                                                                         *)
(* agy appends to a transcript file while handlers of the daemon read it.  *)
(* ReadTranscript first reads the file, with no lock held, and then, under *)
(* cache.mu, compares the user's requests it found with those it pinned    *)
(* for the conversation before.  What it returns goes to the judge.        *)
(***************************************************************************)
EXTENDS Naturals, Sequences, SequencesExt

CONSTANTS
    Reader,        \* goroutines of handle
    Conv,          \* conversations
    Text,          \* what a user may ask
    Length,        \* Length[t]: bytes of t
    Keep,          \* 8 in the code: requests shown at most
    Clip, Room,    \* 1500 and 6000: bytes shown of one request, and in all
    MaxLines,      \* bound on the length of a file
    Rewrites,      \* whether somebody rewrites the file
    NoFile, NoPin  \* no such file; nothing pinned

\* A line is one entry: a request of the user; something else, or a line that
\* does not parse; or a line longer than the scanner takes (64 KiB).
Line == [kind : {"request"}, text : Text] \cup [kind : {"other", "huge"}]

ASSUME NumAssumption ==
    /\ Keep \in Nat \ {0} /\ Clip \in Nat /\ Room \in Nat /\ MaxLines \in Nat
    /\ Length \in [Text -> Nat \ {0}] /\ Rewrites \in BOOLEAN

ASSUME NoneAssumption == NoFile \notin Seq(Line) /\ NoPin \notin Seq(Text)

VARIABLES
    file,        \* file[v]: the lines of the transcript of v, or NoFile
    pinned,      \* cache.pinned: the requests seen of v, or NoPin
    pc,          \* pc[r]: where reader r is in ReadTranscript
    conv,        \* conv[r]: the conversation it reads
    requests,    \* requests[r]: what it found in the file
    shown,       \* shown[r]: what it returned
    rewritten    \* history: whether a file was ever rewritten

vars == <<file, pinned, pc, conv, requests, shown, rewritten>>
readerVars == <<pc, conv, requests, shown>>

\* Every variable holds a value of its kind; what is shown is for ShownLongest to say.
TypeOK ==
    /\ file \in [Conv -> Seq(Line) \cup {NoFile}]
    /\ pinned \in [Conv -> Seq(Text) \cup {NoPin}]
    /\ pc \in [Reader -> {"idle", "pin", "ok", "tampered"}]
    /\ conv \in [Reader -> Conv]
    /\ requests \in [Reader -> Seq(Text)]
    /\ rewritten \in BOOLEAN

Init ==
    /\ file = [v \in Conv |-> NoFile]
    /\ pinned = [v \in Conv |-> NoPin]
    /\ pc = [r \in Reader |-> "idle"]
    /\ conv \in [Reader -> Conv]
    /\ requests = [r \in Reader |-> <<>>]
    /\ shown = [r \in Reader |-> <<>>]
    /\ rewritten = FALSE

----------------------------------------------------------------------------
(* What is read and what is shown. *)

\* The lines that are requests.  The scanner stops, without an error, at the first
\* line it cannot hold.
Asked(lines) ==
    {k \in DOMAIN lines : lines[k].kind = "request" /\ \A i \in 1 .. k : lines[i].kind # "huge"}

\* The i-th smallest of a set of numbers.
Nth(S, i) == CHOOSE k \in S : Cardinality({j \in S : j <= k}) = i

Requests(lines) == [i \in 1 .. Cardinality(Asked(lines)) |-> lines[Nth(Asked(lines), i)].text]

\* A request is cut after Clip bytes and marked with three dots.
Clipped(t) == IF Length[t] > Clip THEN Clip + 3 ELSE Length[t]

\* Mutated form of Fits: a request is measured before it is cut.
FitsUncut(total, t, taken) == total + Length[t] <= Room \/ taken = 0

Fits(total, t, taken) == total + Clipped(t) <= Room \/ taken = 0

\* The n-th newest request.
FromEnd(reqs, n) == reqs[Len(reqs) - n + 1]

\* The loop from the newest request back: what is taken after n rounds, how many
\* bytes that is, and whether the loop has ended.
Rounds(reqs) ==
    LET round[n \in 0 .. Len(reqs)] ==
            IF n = 0 THEN [taken |-> <<>>, total |-> 0, ended |-> FALSE]
            ELSE LET acc == round[n - 1]
                     t == FromEnd(reqs, n)
                 IN  IF acc.ended \/ ~Fits(acc.total, t, Len(acc.taken))
                     THEN [acc EXCEPT !.ended = TRUE]
                     ELSE [taken |-> <<t>> \o acc.taken, total |-> acc.total + Clipped(t),
                           ended |-> FALSE]
    IN  round

Taken(reqs) == Rounds(reqs)[Len(reqs)].taken

Newest(reqs, n) == SubSeq(reqs, IF Len(reqs) > n THEN Len(reqs) - n + 1 ELSE 1, Len(reqs))

Window(reqs) == Taken(Newest(reqs, Keep))

\* Mutated forms of Matches: the requests are compared up to the shorter of the
\* two; only their number is; there must be a new one.
MatchesShorter(v, found) ==
    pinned[v] # NoPin =>
        \A i \in DOMAIN pinned[v] : i \in DOMAIN found => found[i] = pinned[v][i]
MatchesLength(v, found) == pinned[v] # NoPin => Len(found) >= Len(pinned[v])
MatchesLonger(v, found) ==
    pinned[v] # NoPin =>
        /\ Len(found) > Len(pinned[v])
        /\ \A i \in DOMAIN pinned[v] : found[i] = pinned[v][i]

\* Nothing pinned yet, or what is pinned is where it was.
Matches(v, found) ==
    pinned[v] # NoPin =>
        /\ Len(found) >= Len(pinned[v])
        /\ \A i \in DOMAIN pinned[v] : found[i] = pinned[v][i]

----------------------------------------------------------------------------
(* The file. *)

Lines(v) == IF file[v] = NoFile THEN <<>> ELSE file[v]

\* agy creates the file with its first line and appends a line at a time.
AppendLine(v, l) ==
    /\ Len(Lines(v)) < MaxLines
    /\ file' = [file EXCEPT ![v] = Append(Lines(v), l)]
    /\ UNCHANGED <<pinned, readerVars, rewritten>>

\* Somebody changes a line, or cuts the file.
Rewrite(v) ==
    /\ Rewrites
    /\ file[v] # NoFile
    /\ \/ \E i \in DOMAIN file[v], l \in Line : file' = [file EXCEPT ![v][i] = l]
       \/ \E n \in 0 .. Len(file[v]) - 1 : file' = [file EXCEPT ![v] = SubSeq(@, 1, n)]
    /\ rewritten' = TRUE
    /\ UNCHANGED <<pinned, readerVars>>

----------------------------------------------------------------------------
(* ReadTranscript. *)

Return(r, outcome, what) ==
    /\ pc' = [pc EXCEPT ![r] = outcome]
    /\ shown' = [shown EXCEPT ![r] = what]

\* No file is no error: there is nothing to show, and nothing is pinned.  Any other
\* error of the open, which ReadTranscript returns and the daemon answers like a
\* missing file, by asking the judge with no request, has the same effect and no
\* step of its own.
NoTranscript(r, v) ==
    /\ pc[r] # "pin"
    /\ file[v] = NoFile
    /\ conv' = [conv EXCEPT ![r] = v]
    /\ requests' = [requests EXCEPT ![r] = <<>>]
    /\ Return(r, "ok", <<>>)
    /\ UNCHANGED <<file, pinned, rewritten>>

\* Read to the end of the file, as it is when the end is reached.
Read(r, v) ==
    /\ pc[r] # "pin"
    /\ file[v] # NoFile
    /\ conv' = [conv EXCEPT ![r] = v]
    /\ requests' = [requests EXCEPT ![r] = Requests(file[v])]
    /\ shown' = [shown EXCEPT ![r] = <<>>]
    /\ pc' = [pc EXCEPT ![r] = "pin"]
    /\ UNCHANGED <<file, pinned, rewritten>>

\* Under cache.mu: compare, pin, and choose what to show.
Pin(r) ==
    /\ pc[r] = "pin"
    /\ IF Matches(conv[r], requests[r])
       THEN /\ pinned' = [pinned EXCEPT ![conv[r]] = requests[r]]
            /\ Return(r, "ok", Window(requests[r]))
       ELSE /\ Return(r, "tampered", <<>>)
            /\ UNCHANGED pinned
    /\ UNCHANGED <<file, conv, requests, rewritten>>

Next ==
    \/ \E v \in Conv : Rewrite(v) \/ \E l \in Line : AppendLine(v, l)
    \/ \E r \in Reader : Pin(r) \/ \E v \in Conv : NoTranscript(r, v) \/ Read(r, v)

Spec == Init /\ [][Next]_vars

----------------------------------------------------------------------------
(* What is correct. *)

\* In one life of the daemon the judge is never shown two histories of one
\* conversation of which neither continues the other, whoever writes the file
\* and however readers overtake each other.
ConsistentHistory ==
    \A r, s \in Reader :
        pc[r] = "ok" /\ pc[s] = "ok" /\ conv[r] = conv[s] =>
            IsPrefix(requests[r], requests[s]) \/ IsPrefix(requests[s], requests[r])

\* A pin is never taken back: later readers are held to all that any reader
\* has seen, also one that read the file earlier and pins later.
PinsGrow ==
    [][\A v \in Conv : pinned[v] # NoPin => IsPrefix(pinned[v], pinned'[v])]_vars

\* Bytes(reqs)[n]: how much the n newest requests are, shown one by one.
Bytes(reqs) ==
    LET sum[n \in 0 .. Len(reqs)] == IF n = 0 THEN 0 ELSE sum[n - 1] + Clipped(FromEnd(reqs, n))
    IN  sum

\* What the judge is shown ends with the newest request read, and is the longest
\* such piece that has at most Keep requests and either fits or is a single one.
ShownLongest ==
    \A r \in Reader : pc[r] = "ok" =>
        LET reqs == requests[r]
            Fitting == {n \in 0 .. Len(reqs) : n <= Keep /\ (n <= 1 \/ Bytes(reqs)[n] <= Room)}
        IN  shown[r] = Newest(reqs, Max(Fitting))

\* Only a reader that was overtaken calls an honest conversation tampered with:
\* the file was never rewritten, but somebody pinned more than it has read.
AlarmHasCause ==
    \A r \in Reader : pc[r] = "tampered" =>
        rewritten \/ IsStrictPrefix(requests[r], pinned[conv[r]])

----------------------------------------------------------------------------
(* What the documents say and the code does not do. *)

\* ARCHITECTURE.md:116-117: "the first user requests seen for a conversation are
\* pinned in memory; a transcript whose seen prefix changes is treated as
\* tampered", and no other.
NoFalseAlarm == \A r \in Reader : pc[r] = "tampered" => rewritten
====
