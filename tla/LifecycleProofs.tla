---- MODULE LifecycleProofs ----
(***************************************************************************)
(* What Lifecycle.tla guarantees for any number of daemons, of which any   *)
(* may be units.                                                           *)
(*                                                                         *)
(*   LifeTypeOK |- Orderly |- OneInPlace         no start crosses another  *)
(*              |- Lonely  |- StartsUnlessMet    no other daemon lives     *)
(***************************************************************************)
EXTENDS Lifecycle, TLAPS

\* A step is one daemon's.
LEMMA StepCases ==
    ASSUME [Next]_vars
    PROVE  \/ \E d \in Daemon : Launch(d)
           \/ \E d \in Daemon : MakeDir(d) \/ Stat(d) \/ Dial(d) \/ Remove(d)
           \/ \E d \in Daemon : Listen(d)
           \/ \E d \in Daemon : Signal(d) \/ Close(d) \/ Crash(d) \/ Clean(d)
           \/ UNCHANGED vars
  BY DEF Next, Run

\* The types alone.
Types ==
    /\ dir \in BOOLEAN /\ sock \in Daemon \cup {"none", "stale"}
    /\ pc \in [Daemon -> Starting \cup {"off", "left", "serve"}]
    /\ stopping \in [Daemon -> BOOLEAN]
    /\ outcome \in [Daemon -> {"none", "answered", "error", "signal", "crash"}]
    /\ company \in [Daemon -> BOOLEAN] /\ crossed \in BOOLEAN

LEMMA ExitTypes ==
    ASSUME Types, NEW d \in Daemon, NEW o \in {"answered", "error", "signal", "crash"}, Exit(d, o)
    PROVE  /\ pc' \in [Daemon -> Starting \cup {"off", "left", "serve"}]
           /\ outcome' \in [Daemon -> {"none", "answered", "error", "signal", "crash"}]
           /\ crossed' \in BOOLEAN /\ UNCHANGED <<stopping, company>>
           /\ pc'[d] \notin Starting \cup {"serve"}
           /\ \A e \in Daemon : e # d => pc'[e] = pc[e]
<1>1. PICK l \in {"left", "off"} : pc' = [pc EXCEPT ![d] = l]
  BY DEF Exit, Goto
<1>2. outcome' = [outcome EXCEPT ![d] = o] /\ crossed' \in BOOLEAN /\ UNCHANGED <<stopping, company>>
  BY DEF Exit
<1> QED
  BY <1>1, <1>2 DEF Types, Starting

LEMMA LifeTypeStep == LifeTypeOK /\ [Next]_vars => LifeTypeOK'
<1> SUFFICES ASSUME LifeTypeOK, [Next]_vars PROVE LifeTypeOK'
  OBVIOUS
<1>t. Types /\ (~dir => sock = "none") /\ (sock \in Daemon => pc[sock] = "serve")
  BY DEF LifeTypeOK, Types
<1> SUFFICES Types' /\ (~dir' => sock' = "none") /\ (sock' \in Daemon => pc'[sock'] = "serve")
  BY DEF LifeTypeOK, Types
<1> USE UnitAssumption DEF Goto, Starting, history
<1>1. CASE \E d \in Daemon : Launch(d)
  <2> PICK d \in Daemon : Launch(d)
    BY <1>1
  <2>1. /\ pc' = [pc EXCEPT ![d] = "mkdir"] /\ pc[d] = "off"
        /\ stopping' = [stopping EXCEPT ![d] = FALSE]
        /\ outcome' = [outcome EXCEPT ![d] = "none"]
        /\ sock' = sock
    BY DEF Launch
  <2>2. dir' \in BOOLEAN /\ (dir => dir') /\ crossed' \in BOOLEAN
    BY <1>t DEF Launch, Types
  <2>3. company' \in [Daemon -> BOOLEAN]
    BY <1>t DEF Launch, Types, Alive, Others
  <2> QED
    BY <1>t, <2>1, <2>2, <2>3 DEF Types
<1>2. CASE \E d \in Daemon : MakeDir(d) \/ Stat(d) \/ Remove(d)
  <2> PICK d \in Daemon : MakeDir(d) \/ Stat(d) \/ Remove(d)
    BY <1>2
  <2>1. PICK l \in {"stat", "dial", "listen"} : pc' = [pc EXCEPT ![d] = l]
    BY DEF MakeDir, Stat, Remove
  <2>2. pc[d] \in Starting
    BY DEF MakeDir, Stat, Remove
  <2>3. UNCHANGED <<stopping, outcome, company, crossed>> /\ (dir' = dir \/ dir' = TRUE)
    BY DEF MakeDir, Stat, Remove
  <2>4. sock' = sock \/ sock' = "none"
    BY DEF MakeDir, Stat, Remove
  <2> QED
    BY <1>t, <2>1, <2>2, <2>3, <2>4 DEF Types
<1>3. CASE \E d \in Daemon : Dial(d)
  <2> PICK d \in Daemon : Dial(d)
    BY <1>3
  <2>1. UNCHANGED <<dir, sock>> /\ pc[d] = "dial"
    BY DEF Dial
  <2>2. CASE Exit(d, "answered")
    BY <1>t, <2>1, <2>2, ExitTypes DEF Types
  <2>3. CASE /\ Goto(d, "remove") /\ UNCHANGED <<stopping, outcome, company>>
             /\ crossed' \in {crossed, TRUE}
    BY <1>t, <2>1, <2>3 DEF Types
  <2> QED
    BY <2>2, <2>3 DEF Dial
<1>4. CASE \E d \in Daemon : Listen(d)
  <2> PICK d \in Daemon : Listen(d)
    BY <1>4
  <2>1. UNCHANGED dir /\ pc[d] = "listen"
    BY DEF Listen
  <2>2. CASE Exit(d, "error") /\ UNCHANGED sock
    BY <1>t, <2>1, <2>2, ExitTypes DEF Types
  <2>3. CASE dir /\ sock' = d /\ Goto(d, "serve") /\ UNCHANGED <<stopping, outcome, history>>
    BY <1>t, <2>1, <2>3 DEF Types
  <2> QED
    BY <2>2, <2>3 DEF Listen
<1>5. CASE \E d \in Daemon : Close(d) \/ Crash(d)
  <2> PICK d \in Daemon, o \in {"signal", "crash"} : Exit(d, o) /\ (Close(d) \/ Crash(d))
    BY <1>5 DEF Close, Crash
  <2>1. UNCHANGED dir /\ (sock' \in {"none", "stale"} \/ (sock' = sock /\ sock # d))
    BY DEF Close, Crash
  <2>2. ~dir' => sock' = "none"
    BY <1>t DEF Close, Crash
  <2> QED
    BY <1>t, <2>1, <2>2, ExitTypes DEF Types
<1>6. CASE \E d \in Daemon : Signal(d)
  BY <1>t, <1>6 DEF Signal, Types
<1>8. CASE \E d \in Daemon : Clean(d)
  BY <1>t, <1>8 DEF Clean, Types
<1>7. CASE UNCHANGED vars
  BY <1>t, <1>7 DEF vars, Types
<1> QED
  BY <1>1, <1>2, <1>3, <1>4, <1>5, <1>6, <1>7, <1>8, StepCases

\* The path never names a listener that is closed, nor exists without its directory.
THEOREM LifeTypeCorrect == Spec => []LifeTypeOK
<1>1. Init => LifeTypeOK
  BY UnitAssumption DEF Init, LifeTypeOK, Starting
<1> QED
  BY <1>1, LifeTypeStep, PTL DEF Spec

(***************************************************************************)
(* One daemon at the path.                                                 *)
(***************************************************************************)

Busy == Starting \cup {"left"}

\* While nothing has crossed, at most one daemon is starting or has left a
\* directory to be cleaned, which it does alone; who serves is at the path; and a
\* daemon that is past its dial found nobody there, and still does.
Orderly ==
    ~crossed =>
        /\ \A d, e \in Daemon : pc[d] \in Busy /\ pc[e] \in Busy => d = e
        /\ \A d, e \in Daemon : pc[d] = "left" /\ Alive(e) => d = e
        /\ \A d \in Daemon : pc[d] = "serve" => sock = d
        /\ \A d \in Daemon : pc[d] \in {"remove", "listen"} => sock \notin Daemon

LEMMA OrderlyStep == LifeTypeOK /\ Orderly /\ [Next]_vars => Orderly'
<1> SUFFICES ASSUME LifeTypeOK, Orderly, [Next]_vars, ~crossed' PROVE Orderly'
  BY DEF Orderly
<1>t. Types /\ (sock \in Daemon => pc[sock] = "serve")
  BY DEF LifeTypeOK, Types
<1>c. ~crossed
  <2>1. ASSUME NEW d \in Daemon, NEW o, Exit(d, o) PROVE ~crossed
    BY <2>1 DEF Exit
  <2> QED
    BY <2>1, StepCases DEF Launch, MakeDir, Stat, Dial, Remove, Listen, Signal, Close, Crash,
                           Clean, history, vars
<1>o. /\ \A d, e \in Daemon : pc[d] \in Busy /\ pc[e] \in Busy => d = e
      /\ \A d, e \in Daemon : pc[d] = "left" /\ Alive(e) => d = e
      /\ \A d \in Daemon : pc[d] = "serve" => sock = d
      /\ \A d \in Daemon : pc[d] \in {"remove", "listen"} => sock \notin Daemon
  BY <1>c DEF Orderly
<1> SUFFICES /\ \A d, e \in Daemon : pc'[d] \in Busy /\ pc'[e] \in Busy => d = e
             /\ \A d, e \in Daemon : pc'[d] = "left" /\ pc'[e] # "off" => d = e
             /\ \A d \in Daemon : pc'[d] = "serve" => sock' = d
             /\ \A d \in Daemon : pc'[d] \in {"remove", "listen"} => sock' \notin Daemon
  BY DEF Orderly, Alive
<1> USE UnitAssumption DEF Goto, Starting, Busy, Alive, Types
\* Whoever exits is alone if it is a unit, and otherwise gone at once.
<1>e. ASSUME NEW d \in Daemon, NEW o \in {"answered", "error", "signal", "crash"}, Exit(d, o),
             pc[d] # "off"
      PROVE  /\ \A e, f \in Daemon : pc'[e] \in Busy /\ pc'[f] \in Busy => e = f
             /\ \A e, f \in Daemon : pc'[e] = "left" /\ pc'[f] # "off" => e = f
             /\ \A e \in Daemon : pc'[e] = "serve" => e # d /\ pc[e] = "serve" /\ sock = e
             /\ \A e \in Daemon : pc'[e] \in {"remove", "listen"} => sock \notin Daemon
  <2>1. CASE d \in Unit
    <3>1. pc' = [pc EXCEPT ![d] = "left"] /\ \A e \in Daemon : e # d => pc[e] = "off"
      BY <1>e, <2>1 DEF Exit, Others
    <3> QED
      BY <1>t, <3>1
  <2>2. CASE d \notin Unit
    <3>1. pc' = [pc EXCEPT ![d] = "off"]
      BY <1>e, <2>2 DEF Exit
    <3> QED
      BY <1>t, <1>o, <3>1
  <2> QED
    BY <2>1, <2>2
<1>1. CASE \E d \in Daemon : Launch(d)
  <2> PICK d \in Daemon : Launch(d)
    BY <1>1
  <2>1. /\ pc[d] = "off" /\ pc' = [pc EXCEPT ![d] = "mkdir"] /\ sock' = sock
        /\ \A e \in Daemon : e # d => pc[e] \notin Busy
    BY DEF Launch, Others
  <2> QED
    BY <1>t, <1>o, <2>1
<1>2. CASE \E d \in Daemon : MakeDir(d) \/ Stat(d) \/ Remove(d)
  <2> PICK d \in Daemon : MakeDir(d) \/ Stat(d) \/ Remove(d)
    BY <1>2
  <2>1. PICK l \in {"stat", "dial", "listen"} : pc' = [pc EXCEPT ![d] = l]
    BY DEF MakeDir, Stat, Remove
  <2>2. pc[d] \in Starting /\ (pc[d] = "remove" => sock \notin Daemon)
    BY <1>o DEF MakeDir, Stat, Remove
  <2>3. sock' = sock \/ (sock' = "none" /\ sock \notin Daemon)
    BY <2>2 DEF MakeDir, Stat, Remove
  <2>4. l = "listen" => sock' \notin Daemon
    <3>1. CASE MakeDir(d)
      BY <1>t, <2>1, <3>1 DEF MakeDir
    <3>2. CASE Stat(d)
      BY <1>t, <2>1, <3>2 DEF Stat
    <3>3. CASE Remove(d)
      BY <3>3 DEF Remove
    <3> QED
      BY <3>1, <3>2, <3>3
  <2> QED
    BY <1>t, <1>o, <2>1, <2>2, <2>3, <2>4
<1>3. CASE \E d \in Daemon : Dial(d)
  <2> PICK d \in Daemon : Dial(d)
    BY <1>3
  <2>1. sock' = sock /\ pc[d] = "dial"
    BY DEF Dial
  <2>2. CASE Exit(d, "answered")
    BY <1>e, <2>1, <2>2
  <2>3. CASE sock \notin Daemon /\ Goto(d, "remove")
    BY <1>t, <1>o, <2>1, <2>3
  <2> QED
    BY <2>2, <2>3 DEF Dial
<1>4. CASE \E d \in Daemon : Listen(d)
  <2> PICK d \in Daemon : Listen(d)
    BY <1>4
  <2>1. pc[d] = "listen"
    BY DEF Listen
  <2>2. CASE Exit(d, "error") /\ sock' = sock
    BY <1>e, <2>1, <2>2
  <2>3. CASE sock' = d /\ Goto(d, "serve")
    BY <1>t, <1>o, <2>1, <2>3
  <2> QED
    BY <2>2, <2>3 DEF Listen
<1>5. CASE \E d \in Daemon : Close(d) \/ Crash(d)
  <2> PICK d \in Daemon, o \in {"signal", "crash"} : Exit(d, o) /\ (Close(d) \/ Crash(d))
    BY <1>5 DEF Close, Crash
  <2>1. pc[d] # "off" /\ (pc[d] = "serve" => sock = d)
    BY <1>o DEF Close, Crash
  <2>2. sock' = sock \/ (sock' \in {"none", "stale"} /\ sock = d)
    BY <2>1 DEF Close, Crash
  <2> QED
    BY <1>t, <1>e, <2>1, <2>2
<1>6. CASE \E d \in Daemon : Signal(d)
  BY <1>o, <1>6 DEF Signal
<1>7. CASE \E d \in Daemon : Clean(d)
  <2> PICK d \in Daemon : Clean(d)
    BY <1>7
  <2>1. pc[d] = "left" /\ pc' = [pc EXCEPT ![d] = "off"] /\ sock' = "none"
    BY DEF Clean
  <2>2. \A e \in Daemon : e # d => pc[e] = "off"
    BY <1>o, <2>1
  <2> QED
    BY <1>t, <2>1, <2>2
<1>8. CASE UNCHANGED vars
  BY <1>o, <1>8 DEF vars
<1> QED
  BY <1>1, <1>2, <1>3, <1>4, <1>5, <1>6, <1>7, <1>8, StepCases

\* Unless starts cross, a unit leaves the others or a live listener was not reached,
\* whoever serves is at the path, so that at most one does.
THEOREM OneCorrect == Spec => []OneInPlace
<1>1. Init => Orderly
  BY DEF Init, Orderly, Starting, Busy, Alive
<1>2. Orderly => OneInPlace
  BY DEF Orderly, OneInPlace
<1> QED
  BY <1>1, <1>2, LifeTypeCorrect, OrderlyStep, PTL DEF Spec

(***************************************************************************)
(* A daemon without company.                                               *)
(***************************************************************************)

\* A daemon that lives without company is the only one; past its first step it
\* has its directory, and when it comes to listen nothing is in its way.
Lonely ==
    /\ \A d, e \in Daemon : Alive(d) /\ ~company[d] /\ Alive(e) => d = e
    /\ \A d \in Daemon : ~company[d] /\ pc[d] \in Starting \ {"mkdir"} => dir
    /\ \A d \in Daemon : ~company[d] /\ pc[d] = "listen" => sock = "none"

LEMMA LonelyStep ==
    LifeTypeOK /\ Lonely /\ StartsUnlessMet /\ [Next]_vars => Lonely' /\ StartsUnlessMet'
<1> SUFFICES ASSUME LifeTypeOK, Lonely, StartsUnlessMet, [Next]_vars
             PROVE  Lonely' /\ StartsUnlessMet'
  OBVIOUS
<1>t. Types /\ (~dir => sock = "none") /\ (sock \in Daemon => pc[sock] = "serve")
  BY DEF LifeTypeOK, Types
<1>o. /\ \A d, e \in Daemon : pc[d] # "off" /\ ~company[d] /\ pc[e] # "off" => d = e
      /\ \A d \in Daemon : ~company[d] /\ pc[d] \in Starting \ {"mkdir"} => dir
      /\ \A d \in Daemon : ~company[d] /\ pc[d] = "listen" => sock = "none"
      /\ \A d \in Daemon : outcome[d] \in {"answered", "error"} => company[d]
  BY DEF Lonely, StartsUnlessMet, Alive
<1> SUFFICES
      /\ \A d, e \in Daemon : pc'[d] # "off" /\ ~company'[d] /\ pc'[e] # "off" => d = e
      /\ \A d \in Daemon : ~company'[d] /\ pc'[d] \in Starting \ {"mkdir"} => dir'
      /\ \A d \in Daemon : ~company'[d] /\ pc'[d] = "listen" => sock' = "none"
      /\ \A d \in Daemon : outcome'[d] \in {"answered", "error"} => company'[d]
  BY DEF Lonely, StartsUnlessMet, Alive
<1> USE UnitAssumption DEF Goto, Starting, Types, history
\* An exit leaves nobody alive who was not, and only the met are refused.
<1>e. ASSUME NEW d \in Daemon, NEW o \in {"answered", "error", "signal", "crash"}, Exit(d, o),
             pc[d] # "off", o \in {"answered", "error"} => company[d],
             UNCHANGED dir, sock' # sock => sock' \in {"none", "stale"} /\ pc[d] = "serve"
      PROVE  /\ \A e, f \in Daemon : pc'[e] # "off" /\ ~company'[e] /\ pc'[f] # "off" => e = f
             /\ \A e \in Daemon : ~company'[e] /\ pc'[e] \in Starting \ {"mkdir"} => dir'
             /\ \A e \in Daemon : ~company'[e] /\ pc'[e] = "listen" => sock' = "none"
             /\ \A e \in Daemon : outcome'[e] \in {"answered", "error"} => company'[e]
  <2>1. PICK l \in {"left", "off"} : pc' = [pc EXCEPT ![d] = l]
    BY <1>e DEF Exit
  <2>2. outcome' = [outcome EXCEPT ![d] = o] /\ company' = company
    BY <1>e DEF Exit
  <2>3. ASSUME NEW e \in Daemon, ~company[e], pc'[e] = "listen" PROVE sock' = "none"
    <3>1. pc[e] = "listen" /\ e # d
      BY <1>t, <2>1, <2>3
    <3> QED
      BY <1>e, <1>o, <2>3, <3>1
  <2> QED
    BY <1>t, <1>o, <1>e, <2>1, <2>2, <2>3
<1>1. CASE \E d \in Daemon : Launch(d)
  <2> PICK d \in Daemon : Launch(d)
    BY <1>1
  <2>1. /\ pc[d] = "off" /\ pc' = [pc EXCEPT ![d] = "mkdir"] /\ sock' = sock
        /\ dir' = (dir \/ d \in Unit) /\ outcome' = [outcome EXCEPT ![d] = "none"]
    BY DEF Launch
  <2>2. /\ company'[d] = (\E e \in Daemon : e # d /\ pc[e] # "off")
        /\ \A e \in Daemon : e # d => company'[e] = (company[e] \/ pc[e] # "off")
    BY <1>t DEF Launch, Others, Alive
  <2> QED
    BY <1>t, <1>o, <2>1, <2>2
<1>2. CASE \E d \in Daemon : MakeDir(d) \/ Stat(d) \/ Remove(d)
  <2> PICK d \in Daemon : MakeDir(d) \/ Stat(d) \/ Remove(d)
    BY <1>2
  <2>1. PICK l \in {"stat", "dial", "listen"} : pc' = [pc EXCEPT ![d] = l]
    BY DEF MakeDir, Stat, Remove
  <2>2. UNCHANGED <<outcome, company>> /\ pc[d] \in Starting
    BY DEF MakeDir, Stat, Remove
  <2>3. dir' = TRUE \/ (dir' = dir /\ pc[d] # "mkdir")
    BY DEF MakeDir, Stat, Remove
  <2>4. sock' = sock \/ sock' = "none"
    BY DEF MakeDir, Stat, Remove
  <2>5. l = "listen" => sock' = "none"
    <3>1. CASE MakeDir(d)
      BY <1>t, <2>1, <3>1 DEF MakeDir
    <3>2. CASE Stat(d)
      BY <1>t, <2>1, <3>2 DEF Stat
    <3>3. CASE Remove(d)
      BY <3>3 DEF Remove
    <3> QED
      BY <3>1, <3>2, <3>3
  <2>6. \A e \in Daemon : e # d => pc'[e] = pc[e]
    BY <1>t, <2>1
  <2>7. pc'[d] = l
    BY <1>t, <2>1
  <2> QED
    BY <1>o, <2>2, <2>3, <2>4, <2>5, <2>6, <2>7
<1>3. CASE \E d \in Daemon : Dial(d)
  <2> PICK d \in Daemon : Dial(d)
    BY <1>3
  <2>1. UNCHANGED <<dir, sock>> /\ pc[d] = "dial"
    BY DEF Dial
  <2>2. CASE sock \in Daemon /\ Exit(d, "answered")
    <3>1. company[d]
      BY <1>t, <1>o, <2>1, <2>2
    <3> QED
      BY <1>e, <2>1, <2>2, <3>1
  <2>3. CASE /\ Goto(d, "remove") /\ UNCHANGED <<stopping, outcome, company>>
             /\ crossed' \in {crossed, TRUE}
    BY <1>t, <1>o, <2>1, <2>3
  <2> QED
    BY <2>2, <2>3 DEF Dial
<1>4. CASE \E d \in Daemon : Listen(d)
  <2> PICK d \in Daemon : Listen(d)
    BY <1>4
  <2>1. UNCHANGED dir /\ pc[d] = "listen"
    BY DEF Listen
  <2>2. CASE ~(dir /\ sock = "none") /\ Exit(d, "error") /\ UNCHANGED sock
    <3>1. company[d]
      BY <1>o, <2>1, <2>2
    <3> QED
      BY <1>e, <2>1, <2>2, <3>1
  <2>3. CASE dir /\ sock' = d /\ Goto(d, "serve") /\ UNCHANGED <<stopping, outcome, history>>
    BY <1>t, <1>o, <2>1, <2>3
  <2> QED
    BY <2>2, <2>3 DEF Listen
<1>5. CASE \E d \in Daemon : Close(d) \/ Crash(d)
  <2> PICK d \in Daemon, o \in {"signal", "crash"} : Exit(d, o) /\ (Close(d) \/ Crash(d))
    BY <1>5 DEF Close, Crash
  <2>1. UNCHANGED dir /\ pc[d] # "off"
    BY DEF Close, Crash
  <2>2. sock' # sock => sock' \in {"none", "stale"} /\ pc[d] = "serve"
    BY <1>t DEF Close, Crash
  <2> QED
    BY <1>e, <2>1, <2>2
<1>6. CASE \E d \in Daemon : Signal(d)
  BY <1>o, <1>6 DEF Signal
<1>7. CASE \E d \in Daemon : Clean(d)
  <2> PICK d \in Daemon : Clean(d)
    BY <1>7
  <2>1. /\ pc[d] = "left" /\ pc' = [pc EXCEPT ![d] = "off"] /\ sock' = "none"
        /\ UNCHANGED <<outcome, company>>
    BY DEF Clean
  <2>2. \A e \in Daemon : pc'[e] # "off" => e # d /\ pc'[e] = pc[e]
    BY <1>t, <2>1
  <2>3. \A e \in Daemon : pc'[e] # "off" => company[e]
    BY <1>o, <2>1, <2>2
  <2> QED
    BY <1>o, <2>1, <2>3
<1>8. CASE UNCHANGED vars
  BY <1>o, <1>8 DEF vars
<1> QED
  BY <1>1, <1>2, <1>3, <1>4, <1>5, <1>6, <1>7, <1>8, StepCases

\* Whatever earlier daemons have left at the path, a daemon only refuses or fails
\* to start when another one has lived at the same time.
THEOREM StartsCorrect == Spec => []StartsUnlessMet
<1>1. Init => Lonely /\ StartsUnlessMet
  BY DEF Init, Lonely, StartsUnlessMet, Starting, Alive
<1> QED
  BY <1>1, LifeTypeCorrect, LonelyStep, PTL DEF Spec
====
