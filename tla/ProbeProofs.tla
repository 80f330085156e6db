---- MODULE ProbeProofs ----
(***************************************************************************)
(* What Probe.tla guarantees for any number of calls, conversations and    *)
(* steps.                                                                  *)
(*                                                                         *)
(*   TypeOK |- Scanned   what a scan covers, and what it has found there   *)
(*          |- Covered   every step below a mark was covered by a scan     *)
(*          |- TriggersCovered                                             *)
(***************************************************************************)
EXTENDS Probe, TLAPS, FiniteSetTheorems

(***************************************************************************)
(* The greatest and the least of a set of numbers.                         *)
(***************************************************************************)

LEMMA MaxOfTwo ==
    ASSUME NEW a \in Nat, NEW b \in Nat
    PROVE  Max({a, b}) = IF a >= b THEN a ELSE b
  BY DEF Max

LEMMA MaxWithRange ==
    ASSUME NEW a \in Nat, NEW n \in Nat
    PROVE  Max({a} \cup 1 .. n) = IF a >= n THEN a ELSE n
  BY DEF Max

\* Initial segments are ordered by inclusion as their ends are, and inclusion is
\* well founded on finite sets.
LEMMA MinOfNaturals ==
    ASSUME NEW S \in SUBSET Nat, S # {}
    PROVE  Min(S) \in S /\ \A x \in S : Min(S) <= x
<1> DEFINE Below == {0 .. x : x \in S}
<1>1. Below \subseteq FiniteSubsetsOf(Nat) /\ Below # {}
  <2>1. \A x \in S : IsFiniteSet(0 .. x) /\ 0 .. x \in SUBSET Nat
    BY FS_Interval
  <2> QED
    BY <2>1 DEF FiniteSubsetsOf
<1>2. \E A \in Below : \A B \in Below : ~(<<B, A>> \in StrictSubsetOrdering(Nat))
  BY <1>1, WFMin, FS_StrictSubsetOrderingWellFounded
<1>3. PICK x \in S : \A y \in S : ~(<<0 .. y, 0 .. x>> \in StrictSubsetOrdering(Nat))
  BY <1>2
<1>4. ASSUME NEW y \in S
      PROVE  x <= y
  <2>1. x \in Nat /\ y \in Nat
    OBVIOUS
  <2> DEFINE A == 0 .. x
             B == 0 .. y
  <2>2. A \in SUBSET Nat /\ B \in SUBSET Nat
    BY <2>1
  <2>3. y < x => B \subseteq A /\ x \in A /\ x \notin B
    BY <2>1
  <2>4. <<B, A>> \notin StrictSubsetOrdering(Nat)
    BY <1>3
  <2> HIDE DEF A, B
  <2>5. ~(B \subseteq A /\ B # A)
    BY <2>2, <2>4 DEF StrictSubsetOrdering
  <2> QED
    BY <2>1, <2>3, <2>5
<1> QED
  BY <1>4 DEF Min

(***************************************************************************)
(* Types.                                                                  *)
(***************************************************************************)

\* A step is agy's, a handler's, or the daemon's death or start.
LEMMA StepCases ==
    ASSUME [Next]_vars
    PROVE  \/ \E v \in Conv, k \in StepKind : AddStep(v, k)
           \/ \E c \in Call : Arrive(c) \/ Refuse(c) \/ ReadMark(c)
           \/ \E c \in Call : Scan(c)
           \/ \E c \in Call : Raise(c)
           \/ \E c \in Call : Reply(c) \/ Audit(c)
           \/ Die
           \/ Restart \/ UNCHANGED vars
  BY DEF Next, Handle

\* No mark, read, scanned or kept, is past the end of its transcript; only a scan
\* that is about to raise the mark, or has, has looked at anything.
Bounds ==
    /\ \A v \in Conv : Len(steps[v]) <= MaxSteps /\ hwm[v] <= Len(steps[v])
    /\ \A c \in Call : /\ mark[c] <= Len(steps[conv[c]])
                       /\ seen[c] <= Len(steps[conv[c]])
                       /\ found[c] <= seen[c]
                       /\ pc[c] = "audit" => found[c] # 0
                       /\ pc[c] \in {"new", "refuse", "mark", "scan"} => seen[c] = 0

Typed == TypeOK /\ Bounds

\* What a scan returns: it has read the first n steps.
LEMMA ScanReturns ==
    ASSUME Typed, NEW c \in Call, Scan(c)
    PROVE  /\ pc' = [pc EXCEPT ![c] = "raise"]
           /\ UNCHANGED <<up, steps, hwm, conv, mark, answer, audit, unwritten>>
           /\ \E n \in 0 .. Len(steps[conv[c]]), f \in 0 .. MaxSteps :
                  /\ seen' = [seen EXCEPT ![c] = IF mark[c] >= n THEN mark[c] ELSE n]
                  /\ found' = [found EXCEPT ![c] = f]
                  /\ f <= n
                  /\ \A i \in 1 .. n : mark[c] < i /\ steps[conv[c]][i] = "trigger" => f # 0 /\ f <= i
<1>0. Len(steps[conv[c]]) \in Nat /\ Len(steps[conv[c]]) <= MaxSteps /\ mark[c] \in Nat /\ MaxSteps \in Nat
  BY NumAssumption DEF Typed, TypeOK, Bounds
<1> DEFINE s(n) == [i \in 1 .. n |-> steps[conv[c]][i]]
           new(n) == NewTriggers(s(n), mark[c])
           f(n) == IF new(n) = {} THEN 0 ELSE Min(new(n))
<1>1. PICK n \in 0 .. Len(steps[conv[c]]) :
        /\ seen' = [seen EXCEPT ![c] = Max({mark[c]} \cup DOMAIN s(n))]
        /\ found' = [found EXCEPT ![c] = f(n)]
  BY DEF Scan
<1>2. n \in Nat /\ n <= MaxSteps /\ DOMAIN s(n) = 1 .. n
  BY <1>0
<1>3. new(n) = {i \in 1 .. n : i > mark[c] /\ steps[conv[c]][i] = "trigger"}
  BY DEF NewTriggers
<1>4. new(n) # {} => Min(new(n)) \in new(n) /\ \A i \in new(n) : Min(new(n)) <= i
  <2>1. new(n) \in SUBSET Nat
    BY <1>3
  <2> HIDE DEF new
  <2> QED
    BY <2>1, MinOfNaturals
<1>5. f(n) \in 0 .. MaxSteps /\ f(n) <= n /\ \A i \in new(n) : f(n) # 0 /\ f(n) <= i
  <2>1. new(n) \in SUBSET (1 .. n)
    BY <1>3
  <2> HIDE DEF new
  <2> QED
    BY <1>0, <1>2, <1>4, <2>1
<1>6. \A i \in 1 .. n : mark[c] < i /\ steps[conv[c]][i] = "trigger" => i \in new(n)
  BY <1>0, <1>2, <1>3
<1>7. Max({mark[c]} \cup 1 .. n) = IF mark[c] >= n THEN mark[c] ELSE n
  BY <1>0, <1>2, MaxWithRange
<1>8. seen' = [seen EXCEPT ![c] = IF mark[c] >= n THEN mark[c] ELSE n]
  BY <1>1, <1>2, <1>7
<1>9. pc' = [pc EXCEPT ![c] = "raise"] /\ UNCHANGED <<up, steps, hwm, conv, mark, answer, audit, unwritten>>
  BY DEF Scan, Goto, logVars
<1> HIDE DEF f, new, s
<1> QED
  BY <1>1, <1>5, <1>6, <1>8, <1>9

\* What the second critical section does to the mark.
LEMMA RaiseReturns ==
    ASSUME TypeOK, NEW c \in Call, Raise(c)
    PROVE  LET m == hwm[conv[c]]
           IN  /\ hwm' = [hwm EXCEPT ![conv[c]] = IF m >= seen[c] THEN m ELSE seen[c]]
               /\ pc[c] = "raise" /\ pc' = [pc EXCEPT ![c] = "reply"]
               /\ UNCHANGED <<up, steps, conv, mark, seen, found, answer, audit, unwritten>>
<1> DEFINE m == hwm[conv[c]]
<1>1. m \in Nat /\ seen[c] \in Nat
  BY NumAssumption DEF TypeOK
<1>2. Max({m, seen[c]}) = IF m >= seen[c] THEN m ELSE seen[c]
  BY <1>1, MaxOfTwo
<1>3. hwm' = [hwm EXCEPT ![conv[c]] = Max({m, seen[c]})]
  BY DEF Raise
<1> QED
  BY <1>2, <1>3 DEF Raise, Goto, localVars, logVars

LEMMA TypedStep == ASSUME Typed, [Next]_vars PROVE Typed'
<1> USE NumAssumption DEF Typed, Answer
<1>1. ASSUME NEW v \in Conv, NEW k \in StepKind, AddStep(v, k)
      PROVE  Typed'
  <2>1. steps' \in [Conv -> Seq(StepKind)]
    BY <1>1 DEF AddStep, TypeOK
  <2>2. \A w \in Conv : /\ Len(steps'[w]) \in Nat /\ Len(steps[w]) \in Nat
                        /\ Len(steps[w]) <= Len(steps'[w])
                        /\ Len(steps'[w]) <= MaxSteps
    BY <1>1 DEF AddStep, TypeOK, Bounds
  <2>3. TypeOK'
    BY <1>1, <2>1 DEF AddStep, TypeOK, localVars, logVars
  <2>4. UNCHANGED <<hwm, mark, seen, found, pc, conv>>
    BY <1>1 DEF AddStep, localVars, logVars
  <2> QED
    BY <2>2, <2>3, <2>4 DEF TypeOK, Bounds
<1>2. ASSUME NEW c \in Call, Arrive(c) \/ Refuse(c) \/ ReadMark(c)
      PROVE  Typed'
  <2>1. TypeOK'
    BY <1>2 DEF Arrive, Refuse, ReadMark, Goto, Write, TypeOK, Bounds, localVars, logVars
  <2> QED
    <3>1. UNCHANGED <<steps, hwm, conv, seen, found>>
      BY <1>2 DEF Arrive, Refuse, ReadMark, localVars, logVars
    <3>2. pc[c] \in {"new", "refuse", "mark"} /\ pc'[c] \in {"refuse", "mark", "scan", "done"}
      BY <1>2 DEF Arrive, Refuse, ReadMark, Goto, TypeOK
    <3>3. mark'[c] = mark[c] \/ mark'[c] = hwm[conv[c]]
      BY <1>2 DEF Arrive, Refuse, ReadMark, localVars, logVars, TypeOK
    <3>4. \A d \in Call \ {c} : pc'[d] = pc[d] /\ mark'[d] = mark[d]
      BY <1>2 DEF Arrive, Refuse, ReadMark, Goto, localVars, logVars, TypeOK
    <3>5. conv[c] \in Conv
      BY DEF TypeOK
    <3> QED
      BY <2>1, <3>1, <3>2, <3>3, <3>4, <3>5 DEF Bounds
<1>3. ASSUME NEW c \in Call, Scan(c)
      PROVE  Typed'
  <2> DEFINE l == Len(steps[conv[c]])
  <2>0. l \in Nat /\ mark[c] <= l /\ l <= MaxSteps /\ mark[c] \in Nat
    <3>1. conv[c] \in Conv /\ steps[conv[c]] \in Seq(StepKind) /\ mark[c] \in Nat
      BY DEF TypeOK
    <3>2. l \in Nat
      BY <3>1
    <3>3. l <= MaxSteps
      BY <3>1 DEF Bounds
    <3>4. mark[c] <= l
      BY DEF Bounds
    <3> QED
      BY <3>1, <3>2, <3>3, <3>4
  <2>1. /\ pc' = [pc EXCEPT ![c] = "raise"]
        /\ UNCHANGED <<up, steps, hwm, conv, mark, answer, audit, unwritten>>
    BY <1>3, ScanReturns
  <2>2. PICK n \in 0 .. l, f \in 0 .. MaxSteps :
          /\ seen' = [seen EXCEPT ![c] = IF mark[c] >= n THEN mark[c] ELSE n]
          /\ found' = [found EXCEPT ![c] = f]
          /\ f <= n
    BY <1>3, ScanReturns
  <2>4. TypeOK'
    BY <2>0, <2>1, <2>2 DEF TypeOK
  <2> QED
    <3>1. \A d \in Call \ {c} : pc'[d] = pc[d] /\ seen'[d] = seen[d] /\ found'[d] = found[d]
      BY <2>1, <2>2 DEF TypeOK
    <3>2. pc'[c] = "raise" /\ seen'[c] = (IF mark[c] >= n THEN mark[c] ELSE n) /\ found'[c] = f
      BY <2>1, <2>2 DEF TypeOK
    <3>3. seen'[c] <= l /\ found'[c] <= seen'[c]
      BY <2>0, <2>2, <3>2
    <3> QED
      BY <2>1, <2>4, <3>1, <3>2, <3>3 DEF Bounds
<1>4. ASSUME NEW c \in Call, Raise(c)
      PROVE  Typed'
  <2> DEFINE m == hwm[conv[c]]
  <2>1. /\ hwm' = [hwm EXCEPT ![conv[c]] = IF m >= seen[c] THEN m ELSE seen[c]]
        /\ pc[c] = "raise" /\ pc' = [pc EXCEPT ![c] = "reply"]
        /\ UNCHANGED <<up, steps, conv, mark, seen, found, answer, audit, unwritten>>
    BY <1>4, RaiseReturns
  <2>2. TypeOK'
    BY <2>1 DEF TypeOK
  <2>3. ASSUME NEW v \in Conv
        PROVE  Len(steps[v]) <= MaxSteps /\ hwm'[v] <= Len(steps[v])
    <3>1. hwm[v] <= Len(steps[v]) /\ Len(steps[v]) <= MaxSteps /\ seen[c] <= Len(steps[conv[c]])
      BY DEF Bounds
    <3>2. CASE v = conv[c]
      BY <2>1, <3>1, <3>2 DEF TypeOK
    <3>3. CASE v # conv[c]
      BY <2>1, <3>1, <3>3 DEF TypeOK
    <3> QED
      BY <3>2, <3>3
  <2>4. \A d \in Call : pc'[d] = "audit" => pc[d] = "audit"
    BY <2>1 DEF TypeOK
  <2>5. \A d \in Call : pc'[d] \in {"new", "refuse", "mark", "scan"} => pc'[d] = pc[d]
    BY <2>1 DEF TypeOK
  <2> HIDE DEF m
  <2> QED
    BY <2>1, <2>2, <2>3, <2>4, <2>5 DEF Bounds
<1>5. ASSUME NEW c \in Call, Reply(c) \/ Audit(c)
      PROVE  Typed'
  <2>0. pc[c] = "audit" => found[c] \in 1 .. MaxSteps
    BY DEF TypeOK, Bounds
  <2>1. audit' \subseteq [call : Call, step : 1 .. MaxSteps]
    <3>1. CASE Reply(c)
      BY <3>1 DEF Reply, logVars, TypeOK
    <3>2. CASE Audit(c)
      <4>1. [call |-> c, step |-> found[c]] \in [call : Call, step : 1 .. MaxSteps]
        BY <2>0, <3>2 DEF Audit
      <4>2. audit' = audit \/ audit' = audit \cup {[call |-> c, step |-> found[c]]}
        BY <3>2 DEF Audit
      <4> QED
        BY <4>1, <4>2 DEF TypeOK
    <3> QED
      BY <1>5, <3>1, <3>2
  <2>2. pc' \in [Call -> {"new", "refuse", "mark", "scan", "raise", "reply", "audit", "done"}]
    BY <1>5 DEF Reply, Audit, Goto, TypeOK
  <2>3. answer' \in [Call -> Answer]
    BY <1>5 DEF Reply, Audit, Write, TypeOK
  <2>4. UNCHANGED <<up, steps, hwm, conv, mark, seen, found>>
    BY <1>5 DEF Reply, Audit, localVars, logVars
  <2>5. unwritten' \subseteq Call
    BY <1>5 DEF Reply, Audit, logVars, TypeOK
  <2>6. TypeOK'
    BY <2>1, <2>2, <2>3, <2>4, <2>5 DEF TypeOK
  <2> QED
    BY <1>5, <2>4, <2>6 DEF Reply, Audit, Goto, TypeOK, Bounds
<1>6. CASE Die
  <2>1. \A v \in Conv : Len(steps[v]) \in Nat
    BY DEF TypeOK
  <2>2. pc' \in [Call -> {"new", "refuse", "mark", "scan", "raise", "reply", "audit", "done"}]
    BY <1>6 DEF Die, TypeOK
  <2>3. answer' \in [Call -> Answer]
    BY <1>6 DEF Die, TypeOK
  <2>4. /\ hwm' \in [Conv -> 0 .. MaxSteps]
        /\ mark' \in [Call -> 0 .. MaxSteps]
        /\ seen' \in [Call -> 0 .. MaxSteps]
        /\ found' \in [Call -> 0 .. MaxSteps]
    BY <1>6 DEF Die
  <2>5. up' = FALSE /\ UNCHANGED <<steps, conv, audit, unwritten>>
    BY <1>6 DEF Die, logVars
  <2>6. TypeOK'
    BY <2>2, <2>3, <2>4, <2>5 DEF TypeOK
  <2> QED
    BY <1>6, <2>1, <2>6 DEF Die, TypeOK, Bounds
<1>7. CASE Restart \/ UNCHANGED vars
  BY <1>7 DEF Restart, vars, localVars, logVars, TypeOK, Bounds
<1> QED
  BY <1>1, <1>2, <1>3, <1>4, <1>5, <1>6, <1>7, StepCases

LEMMA TypedAlways == Spec => []Typed
<1>1. Init => Typed
  BY NumAssumption DEF Init, Typed, TypeOK, Bounds, Answer
<1> QED
  BY <1>1, TypedStep, PTL DEF Spec

\* Probe's TypeOK: every variable of the probe holds a value of its kind.
THEOREM TypeCorrect == Spec => []TypeOK
<1>1. Typed => TypeOK
  BY DEF Typed
<1> QED
  BY <1>1, TypedAlways, PTL

(***************************************************************************)
(* The mark.                                                               *)
(***************************************************************************)

\* Probe's MarkNeverFalls: of two scans of a conversation that overtake each other
\* between their critical sections, the later one to raise the mark never sets it
\* back; only the death of the daemon does.
THEOREM MarkCorrect == Spec => MarkNeverFalls
<1>1. ASSUME Typed, [Next]_vars
      PROVE  [\A v \in Conv : hwm'[v] < hwm[v] => up /\ ~up']_vars
  <2>1. ASSUME NEW c \in Call, Raise(c), NEW v \in Conv
        PROVE  ~(hwm'[v] < hwm[v])
    <3>1. hwm' = [hwm EXCEPT ![conv[c]] = IF @ >= seen[c] THEN @ ELSE seen[c]]
      BY <1>1, <2>1, RaiseReturns DEF Typed
    <3> QED
      BY <1>1, <3>1 DEF Typed, TypeOK
  <2>2. \/ UNCHANGED hwm
        \/ \E c \in Call : Raise(c)
        \/ Die
    BY <1>1 DEF Next, Handle, AddStep, Arrive, Refuse, ReadMark, Scan, Reply, Audit, Restart, vars
  <2>3. CASE UNCHANGED hwm
    BY <1>1, <2>3 DEF Typed, TypeOK
  <2> QED
    BY <2>1, <2>2, <2>3 DEF Die
<1> QED
  BY <1>1, TypedAlways, PTL DEF Spec, MarkNeverFalls

(***************************************************************************)
(* What a mark covers.                                                     *)
(***************************************************************************)

\* A scan has found the first pattern of the steps it covers.
Scanned ==
    \A c \in Call : \A i \in DOMAIN steps[conv[c]] :
        /\ steps[conv[c]][i] = "trigger"
        /\ mark[c] < i /\ i <= seen[c]
        => found[c] \in 1 .. i

\* A finding has been told once the handler is past its reply.
Told ==
    \A c \in Call : found[c] # 0 /\ pc[c] \in {"audit", "done"} => answer[c] \in {"warn", "unread"}

\* What a scan has read of the mark is still below it when it raises it.
Followed ==
    \A c \in Call : pc[c] \in {"scan", "raise"} => mark[c] <= hwm[conv[c]]

\* Every step below a mark was covered by a scan that has raised it.
Covered ==
    \A v \in Conv : \A i \in 1 .. hwm[v] :
        \E c \in Call : /\ conv[c] = v /\ mark[c] < i /\ i <= seen[c]
                        /\ pc[c] \in {"reply", "audit", "done"}

Marked == Scanned /\ Told /\ Followed /\ Covered

LEMMA ScannedStep == ASSUME Typed, Scanned, [Next]_vars PROVE Scanned'
<1>0. \A v \in Conv : Len(steps[v]) \in Nat /\ DOMAIN steps[v] = 1 .. Len(steps[v])
  BY DEF Typed, TypeOK
<1>1. ASSUME NEW v \in Conv, NEW k \in StepKind, AddStep(v, k)
      PROVE  Scanned'
  <2>1. ASSUME NEW c \in Call, NEW i \in Nat, 0 < i, i <= seen[c]
        PROVE  i \in DOMAIN steps[conv[c]] /\ steps'[conv[c]][i] = steps[conv[c]][i]
    <3>1. conv[c] \in Conv /\ seen[c] \in Nat /\ seen[c] <= Len(steps[conv[c]])
      BY NumAssumption DEF Typed, TypeOK, Bounds
    <3>2. i \in DOMAIN steps[conv[c]]
      BY <1>0, <2>1, <3>1
    <3>3. CASE v = conv[c]
      BY <1>1, <3>1, <3>2, <3>3 DEF AddStep, Typed, TypeOK
    <3>4. CASE v # conv[c]
      BY <1>1, <3>1, <3>2, <3>4 DEF AddStep, Typed, TypeOK
    <3> QED
      BY <3>2, <3>3, <3>4
  <2>2. UNCHANGED <<conv, mark, seen, found>>
    BY <1>1 DEF AddStep, localVars, logVars
  <2>3. \A c \in Call : DOMAIN steps'[conv[c]] \subseteq Nat \ {0}
    <3>1. TypeOK' /\ UNCHANGED conv
      BY <1>1, TypedStep DEF Typed, AddStep
    <3>2. \A c \in Call : steps'[conv[c]] \in Seq(StepKind)
      BY <3>1 DEF TypeOK
    <3> QED
      BY <3>2
  <2> QED
    BY <2>1, <2>2, <2>3 DEF Scanned
<1>2. ASSUME NEW c \in Call, Arrive(c) \/ Refuse(c) \/ ReadMark(c)
      PROVE  Scanned'
  <2>1. \A d \in Call : seen[d] = 0 \/ mark'[d] = mark[d]
    BY <1>2 DEF Arrive, Refuse, ReadMark, localVars, logVars, Typed, TypeOK, Bounds
  <2>2. UNCHANGED <<steps, conv, seen, found>>
    BY <1>2 DEF Arrive, Refuse, ReadMark, localVars, logVars
  <2>3. \A d \in Call : \A i \in DOMAIN steps[conv[d]] : seen[d] = 0 => ~(i <= seen[d])
    BY <1>0 DEF Typed, TypeOK
  <2> QED
    BY <2>1, <2>2, <2>3 DEF Scanned
<1>3. ASSUME NEW c \in Call, Scan(c)
      PROVE  Scanned'
  <2>1. PICK n \in 0 .. Len(steps[conv[c]]), f \in 0 .. MaxSteps :
          /\ seen' = [seen EXCEPT ![c] = IF mark[c] >= n THEN mark[c] ELSE n]
          /\ found' = [found EXCEPT ![c] = f]
          /\ \A i \in 1 .. n : mark[c] < i /\ steps[conv[c]][i] = "trigger" => f # 0 /\ f <= i
    BY <1>3, ScanReturns
  <2>2. \A d \in Call \ {c} : seen'[d] = seen[d] /\ found'[d] = found[d]
    BY <2>1 DEF Typed, TypeOK
  <2>3. found'[c] = f /\ seen'[c] = IF mark[c] >= n THEN mark[c] ELSE n
    BY <2>1 DEF Typed, TypeOK
  <2>4. UNCHANGED <<steps, conv, mark>>
    BY <1>3 DEF Scan
  <2>5. ASSUME NEW i \in DOMAIN steps[conv[c]], steps[conv[c]][i] = "trigger", mark[c] < i, i <= seen'[c]
        PROVE  f \in 1 .. i
    <3>0. n \in Nat /\ mark[c] \in Nat /\ i \in Nat \ {0}
      BY <1>0, NumAssumption DEF Typed, TypeOK
    <3>1. i \in 1 .. n
      BY <2>3, <2>5, <3>0
    <3> QED
      BY <2>1, <2>5, <3>0, <3>1, NumAssumption
  <2> QED
    BY <2>2, <2>3, <2>4, <2>5 DEF Scanned
<1>4. ASSUME NEW c \in Call, Raise(c) \/ Reply(c) \/ Audit(c)
      PROVE  Scanned'
  BY <1>4 DEF Raise, Reply, Audit, localVars, logVars, Scanned
<1>5. CASE Die
  <2>1. \A c \in Call : seen'[c] = 0
    BY <1>5 DEF Die
  <2>2. \A c \in Call : \A i \in DOMAIN steps'[conv'[c]] : ~(i <= 0)
    BY <1>0, <1>5 DEF Die, Typed, TypeOK
  <2> QED
    BY <2>1, <2>2 DEF Scanned
<1>6. CASE Restart \/ UNCHANGED vars
  BY <1>6 DEF Restart, vars, localVars, logVars, Scanned
<1> QED
  BY <1>1, <1>2, <1>3, <1>4, <1>5, <1>6, StepCases

LEMMA ToldStep == ASSUME Typed, Told, [Next]_vars PROVE Told'
<1>0. \A c \in Call : pc[c] \in {"new", "refuse", "mark", "scan"} => ~(found[c] # 0)
  <2>1. ASSUME NEW c \in Call, pc[c] \in {"new", "refuse", "mark", "scan"}
        PROVE  found[c] = 0
    <3>1. found[c] \in Nat /\ found[c] <= seen[c] /\ seen[c] = 0
      BY <2>1, NumAssumption DEF Typed, TypeOK, Bounds
    <3> QED
      BY <3>1
  <2> QED
    BY <2>1
<1>1. ASSUME NEW v \in Conv, NEW k \in StepKind, AddStep(v, k)
      PROVE  Told'
  BY <1>1 DEF AddStep, localVars, logVars, Told
<1>2. ASSUME NEW c \in Call, Arrive(c) \/ Refuse(c) \/ ReadMark(c)
      PROVE  Told'
  <2>1. UNCHANGED found /\ found[c] = 0
    BY <1>0, <1>2 DEF Arrive, Refuse, ReadMark, localVars, logVars
  <2>2. \A d \in Call \ {c} : pc'[d] = pc[d] /\ answer'[d] = answer[d]
    BY <1>2 DEF Arrive, Refuse, ReadMark, Write, Goto, Typed, TypeOK
  <2> QED
    BY <2>1, <2>2 DEF Told
<1>3. ASSUME NEW c \in Call, Scan(c) \/ Raise(c)
      PROVE  Told'
  <2>1. pc'[c] \notin {"audit", "done"} /\ UNCHANGED answer
    BY <1>3 DEF Scan, Raise, Goto, Typed, TypeOK
  <2>2. \A d \in Call \ {c} : pc'[d] = pc[d] /\ found'[d] = found[d]
    BY <1>3 DEF Scan, Raise, Goto, localVars, logVars, Typed, TypeOK
  <2> QED
    BY <2>1, <2>2 DEF Told
<1>4. ASSUME NEW c \in Call, Reply(c) \/ Audit(c)
      PROVE  Told'
  <2>1. found[c] # 0 => answer'[c] \in {"warn", "unread"}
    BY <1>4 DEF Reply, Audit, Write, Typed, TypeOK, Told
  <2>2. \A d \in Call \ {c} : pc'[d] = pc[d] /\ answer'[d] = answer[d]
    BY <1>4 DEF Reply, Audit, Write, Goto, Typed, TypeOK
  <2>3. UNCHANGED found
    BY <1>4 DEF Reply, Audit, localVars, logVars
  <2> QED
    BY <2>1, <2>2, <2>3 DEF Told
<1>5. CASE Die
  BY <1>5 DEF Die, Told
<1>6. CASE Restart \/ UNCHANGED vars
  BY <1>6 DEF Restart, vars, localVars, logVars, Told
<1> QED
  BY <1>1, <1>2, <1>3, <1>4, <1>5, <1>6, StepCases

LEMMA FollowedStep == ASSUME Typed, Followed, [Next]_vars PROVE Followed'
<1>0. \A c \in Call : /\ mark[c] \in Nat /\ seen[c] \in Nat
                      /\ hwm[conv[c]] \in Nat /\ conv[c] \in Conv
  BY NumAssumption DEF Typed, TypeOK
<1>1. ASSUME NEW v \in Conv, NEW k \in StepKind, AddStep(v, k)
      PROVE  Followed'
  BY <1>1 DEF AddStep, localVars, logVars, Followed
<1>2. ASSUME NEW c \in Call, Arrive(c) \/ Refuse(c) \/ ReadMark(c)
      PROVE  Followed'
  <2>1. pc'[c] \in {"scan", "raise"} => mark'[c] = hwm[conv[c]]
    BY <1>2 DEF Arrive, Refuse, ReadMark, Goto, Typed, TypeOK
  <2>2. \A d \in Call \ {c} : pc'[d] = pc[d] /\ mark'[d] = mark[d]
    BY <1>2 DEF Arrive, Refuse, ReadMark, localVars, logVars, Goto, Typed, TypeOK
  <2>3. UNCHANGED <<hwm, conv>>
    BY <1>2 DEF Arrive, Refuse, ReadMark
  <2> QED
    BY <1>0, <2>1, <2>2, <2>3 DEF Followed
<1>3. ASSUME NEW c \in Call, Scan(c)
      PROVE  Followed'
  <2>1. pc[c] = "scan" /\ UNCHANGED <<hwm, conv, mark>>
    BY <1>3 DEF Scan
  <2>2. \A d \in Call \ {c} : pc'[d] = pc[d]
    BY <1>3 DEF Scan, Goto, Typed, TypeOK
  <2> QED
    BY <2>1, <2>2 DEF Followed
<1>4. ASSUME NEW c \in Call, Raise(c)
      PROVE  Followed'
  <2>1. \A v \in Conv : hwm[v] \in Nat /\ hwm'[v] \in Nat /\ hwm[v] <= hwm'[v]
    <3> DEFINE m == hwm[conv[c]]
               r == IF m >= seen[c] THEN m ELSE seen[c]
    <3>1. hwm' = [hwm EXCEPT ![conv[c]] = r]
      BY <1>4, RaiseReturns DEF Typed
    <3>2. r \in Nat /\ m <= r
      BY <1>0
    <3>3. hwm \in [Conv -> Nat]
      BY NumAssumption DEF Typed, TypeOK
    <3> HIDE DEF r
    <3> QED
      BY <3>1, <3>2, <3>3
  <2>2. \A d \in Call : pc'[d] \in {"scan", "raise"} => pc[d] = pc'[d]
    BY <1>4, RaiseReturns DEF Typed, TypeOK
  <2>3. UNCHANGED <<conv, mark>>
    BY <1>4 DEF Raise, localVars, logVars
  <2>4. ASSUME NEW d \in Call, pc[d] \in {"scan", "raise"}
        PROVE  mark[d] <= hwm'[conv[d]]
    <3>1. mark[d] <= hwm[conv[d]]
      BY <2>4 DEF Followed
    <3> QED
      BY <1>0, <2>1, <3>1
  <2> QED
    BY <2>2, <2>3, <2>4 DEF Followed
<1>5. ASSUME NEW c \in Call, Reply(c) \/ Audit(c)
      PROVE  Followed'
  BY <1>5 DEF Reply, Audit, Goto, localVars, logVars, Followed, Typed, TypeOK
<1>6. CASE Die
  BY <1>6 DEF Die, Followed
<1>7. CASE Restart \/ UNCHANGED vars
  BY <1>7 DEF Restart, vars, localVars, logVars, Followed
<1> QED
  BY <1>1, <1>2, <1>3, <1>4, <1>5, <1>6, <1>7, StepCases

\* The steps a scan adds to the mark are above the mark it has read.
LEMMA CoveredStep == ASSUME Typed, Followed, Covered, [Next]_vars PROVE Covered'
<1>0. \A c \in Call : /\ mark[c] \in Nat /\ seen[c] \in Nat
                      /\ hwm[conv[c]] \in Nat /\ conv[c] \in Conv
  BY NumAssumption DEF Typed, TypeOK
<1>1. ASSUME UNCHANGED <<hwm, conv>>,
             \A c \in Call : pc[c] \in {"reply", "audit", "done"} =>
                 /\ pc'[c] \in {"reply", "audit", "done"}
                 /\ mark'[c] = mark[c]
                 /\ seen'[c] = seen[c]
      PROVE  Covered'
  BY <1>1 DEF Covered
<1>2. ASSUME NEW v \in Conv, NEW k \in StepKind, AddStep(v, k)
      PROVE  Covered'
  BY <1>2 DEF AddStep, localVars, logVars, Covered
<1>3. ASSUME NEW c \in Call, Arrive(c) \/ Refuse(c) \/ ReadMark(c)
      PROVE  Covered'
  <2>1. \A d \in Call : pc[d] \in {"reply", "audit", "done"} => d # c
    BY <1>3 DEF Arrive, Refuse, ReadMark
  <2>2. \A d \in Call \ {c} : pc'[d] = pc[d] /\ mark'[d] = mark[d]
    BY <1>3 DEF Arrive, Refuse, ReadMark, Goto, localVars, logVars, Typed, TypeOK
  <2>3. UNCHANGED <<hwm, conv, seen>>
    BY <1>3 DEF Arrive, Refuse, ReadMark, localVars, logVars
  <2> QED
    BY <1>1, <2>1, <2>2, <2>3
<1>4. ASSUME NEW c \in Call, Scan(c)
      PROVE  Covered'
  <2>1. pc[c] = "scan" /\ UNCHANGED <<hwm, conv, mark>>
    BY <1>4 DEF Scan
  <2>2. \A d \in Call \ {c} : pc'[d] = pc[d] /\ seen'[d] = seen[d]
    BY <1>4 DEF Scan, Goto, Typed, TypeOK
  <2> QED
    BY <1>1, <2>1, <2>2
<1>5. ASSUME NEW c \in Call, Raise(c)
      PROVE  Covered'
  <2>1. /\ hwm' = [hwm EXCEPT ![conv[c]] = IF hwm[conv[c]] >= seen[c] THEN hwm[conv[c]] ELSE seen[c]]
        /\ pc[c] = "raise" /\ pc' = [pc EXCEPT ![c] = "reply"]
        /\ UNCHANGED <<conv, mark, seen>>
    BY <1>5, RaiseReturns DEF Typed
  <2>2. pc'[c] = "reply"
        /\ \A d \in Call : pc[d] \in {"reply", "audit", "done"} => pc'[d] = pc[d]
    BY <2>1 DEF Typed, TypeOK
  <2>3. ASSUME NEW v \in Conv, NEW i \in 1 .. hwm'[v]
        PROVE  \E d \in Call : /\ conv[d] = v /\ mark[d] < i /\ i <= seen[d]
                               /\ pc'[d] \in {"reply", "audit", "done"}
    <3>0. hwm[v] \in Nat /\ hwm'[v] \in Nat /\ i \in Nat
      BY <1>0, <2>1, TypedStep, NumAssumption DEF Typed, TypeOK
    <3>1. CASE i <= hwm[v]
      <4>1. i \in 1 .. hwm[v]
        BY <3>0, <3>1
      <4>2. \E d \in Call : /\ conv[d] = v /\ mark[d] < i /\ i <= seen[d]
                            /\ pc[d] \in {"reply", "audit", "done"}
        BY <4>1 DEF Covered
      <4> QED
        BY <2>2, <4>2
    <3>2. CASE ~(i <= hwm[v])
      <4>1. v = conv[c] /\ i <= seen[c]
        BY <1>0, <2>1, <3>0, <3>2 DEF Typed, TypeOK
      <4>2. mark[c] <= hwm[v]
        BY <2>1, <4>1 DEF Followed
      <4>3. mark[c] < i
        BY <1>0, <3>0, <3>2, <4>2
      <4> QED
        BY <2>2, <4>1, <4>3
    <3> QED
      BY <3>1, <3>2
  <2> QED
    BY <2>1, <2>3 DEF Covered
<1>6. ASSUME NEW c \in Call, Reply(c) \/ Audit(c)
      PROVE  Covered'
  <2>1. \A d \in Call : pc[d] \in {"reply", "audit", "done"} => pc'[d] \in {"reply", "audit", "done"}
    BY <1>6 DEF Reply, Audit, Goto, Typed, TypeOK
  <2>2. UNCHANGED <<hwm, conv, mark, seen>>
    BY <1>6 DEF Reply, Audit, localVars, logVars
  <2> QED
    BY <1>1, <2>1, <2>2
<1>7. CASE Die
  <2>1. \A v \in Conv : 1 .. hwm'[v] = {}
    BY <1>7 DEF Die
  <2> QED
    BY <2>1 DEF Covered
<1>8. CASE Restart \/ UNCHANGED vars
  BY <1>8 DEF Restart, vars, localVars, logVars, Covered
<1> QED
  BY <1>2, <1>3, <1>4, <1>5, <1>6, <1>7, <1>8, StepCases

\* Probe's TriggersCovered: however scans overlap and the daemon dies, a pattern
\* below the mark was found, or an earlier one with it, by a scan that has warned
\* or is about to.
THEOREM CoveredCorrect == Spec => []TriggersCovered
<1>1. Init => Marked
  <2>1. ASSUME Init
        PROVE  Scanned
    <3>1. \A c \in Call : steps[conv[c]] = <<>>
      BY <2>1 DEF Init
    <3>2. \A c \in Call : DOMAIN steps[conv[c]] = {}
      BY <3>1
    <3> QED
      BY <3>2 DEF Scanned
  <2>2. ASSUME Init
        PROVE  Covered
    <3>1. \A v \in Conv : hwm[v] = 0
      BY <2>2 DEF Init
    <3> QED
      BY <3>1 DEF Covered
  <2> QED
    BY <2>1, <2>2 DEF Init, Marked, Told, Followed
<1>2. Marked /\ Typed /\ [Next]_vars => Marked'
  BY ScannedStep, ToldStep, FollowedStep, CoveredStep DEF Marked
<1>3. ASSUME Marked, Typed
      PROVE  TriggersCovered
  <2> SUFFICES ASSUME NEW v \in Conv, NEW i \in DOMAIN steps[v],
                      steps[v][i] = "trigger", i <= hwm[v]
               PROVE  \E c \in Call :
                          /\ conv[c] = v /\ mark[c] < i /\ i <= seen[c]
                          /\ found[c] \in 1 .. i
                          /\ (pc[c] = "reply" \/ answer[c] \in {"warn", "unread"})
    BY DEF TriggersCovered
  <2>1. i \in 1 .. hwm[v]
    BY <1>3, NumAssumption DEF Typed, TypeOK
  <2>2. PICK c \in Call : /\ conv[c] = v /\ mark[c] < i /\ i <= seen[c]
                          /\ pc[c] \in {"reply", "audit", "done"}
    BY <1>3, <2>1 DEF Marked, Covered
  <2>3. found[c] \in 1 .. i
    BY <1>3, <2>2 DEF Marked, Scanned
  <2>4. pc[c] = "reply" \/ answer[c] \in {"warn", "unread"}
    BY <1>3, <2>1, <2>2, <2>3 DEF Marked, Told
  <2> QED
    BY <2>2, <2>3, <2>4
<1> QED
  BY <1>1, <1>2, <1>3, TypedAlways, PTL DEF Spec
====
