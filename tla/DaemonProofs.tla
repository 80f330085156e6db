---- MODULE DaemonProofs ----
(***************************************************************************)
(* What the daemon of Server.tla guarantees for every number of concurrent *)
(* calls, every set of inputs and every value of the limits, and what it   *)
(* guarantees together with the hooks of Hook.tla, for all waiting times   *)
(* with the hook's below agy's for a tool call.                            *)
(*                                                                         *)
(*   TypeOK, Bodies, Stages      what kind of call is where in handle      *)
(*     |- CacheHonest, Verdicts  where each verdict comes from             *)
(*     |- Earned |- GateStep     no allow without its reason: Gate.tla     *)
(*     |- Counted |- CountersExact |- EscalationEarned, RunStopsAtLimit    *)
(*                                                                         *)
(*   DaemonStep    every step of both is one of Server.tla, or none of the *)
(*                 daemon                                                  *)
(*     |- HookTypes, Ages |- InTime                                        *)
(*     |- Recorded        |- AllowOnRecord                                 *)
(*     |- Traced          |- ToldIsCounted |- StopsAsTold                  *)
(*                                                                         *)
(* Each invariant is inductive relative to the ones before it.             *)
(***************************************************************************)
EXTENDS Hook, TLAPS, FiniteSetTheorems

\* The disjuncts of the next-state relation.
LEMMA StepCases ==
    ASSUME [Next]_vars
    PROVE  \/ \E c \in Call : \E i \in Input : Arrive(c, i)
           \/ \E c \in Call : Refuse(c) \/ PostCheck(c)
           \/ \E c \in Call : Lookup(c)
           \/ \E c \in Call : AskJudge(c)
           \/ \E c \in Call : JudgeFailed(c) \/ JudgeMalformed(c)
           \/ \E c \in Call : \E d \in {"allow", "deny"} : JudgeVerdict(c, d)
           \/ \E c \in Call : Store(c)
           \/ \E c \in Call : Count(c)
           \/ \E c \in Call : Check(c)
           \/ \E c \in Call : Reply(c)
           \/ \E c \in Call : Audit(c)
           \/ \E c \in Call : JudgeFinishes(c)
           \/ Die
           \/ Stop \/ Restart
           \/ UNCHANGED vars
  BY DEF Next, Handle

\* An input has the fields of its type.
LEMMA InputFields ==
    ASSUME NEW i \in Input
    PROVE  /\ i.event \in {"pre", "post"}
           /\ i.kind \in {"headerless", "garbled", "allow", "deny", "judge"}
           /\ i.conv \in Conv /\ i.key \in Key /\ i.body \in Body
  BY InputAssumption DEF InputType

(***************************************************************************)
(* Types, and the calls that may be at each stage of handle.               *)
(***************************************************************************)

\* The judge is only ever asked about bodies, and answers about them.
Bodies ==
    \A c \in Call : /\ phase[c] = "pending" => asked[c] \in Body
                    /\ result[c].kind = "reply" => result[c].to \in Body

\* The stages of handle, and who gets there.
Arrival == \A c \in Call : pc[c] = "new" => input[c] = NoInput
Unanswered ==
    \A c \in Call : /\ pc[c] \notin {"audit", "done"} => answer[c] = "none"
                    /\ pc[c] \in {"audit", "done"} => answer[c] # "none"
Routes ==
    \A c \in Call :
        /\ pc[c] = "refuse" => input[c].kind \in {"headerless", "garbled"}
        /\ pc[c] = "post" => input[c].event = "post"
        /\ pc[c] \in {"lookup", "ask", "judging", "store"} =>
              input[c].event = "pre" /\ input[c].kind = "judge"
        /\ pc[c] \in {"limits", "check", "reply"} =>
              /\ input[c].event = "pre"
              /\ input[c].kind \in {"allow", "deny", "judge"}
Decided ==
    \A c \in Call : pc[c] \in {"store", "limits", "check", "reply", "audit"} =>
        decision[c] \in {"allow", "deny"} /\ layer[c] \in {"policy", "cache", "judge"}

Stages == Arrival /\ Unanswered /\ Routes /\ Decided

Base == TypeOK /\ J!JudgeTypeOK /\ Bodies /\ Stages

LEMMA InitBase == Init => Base
<1> SUFFICES ASSUME Init PROVE Base
  OBVIOUS
<1>1. TypeOK
  BY DEF Init, TypeOK, Limits, Zero
<1>2. J!JudgeTypeOK /\ Bodies
  BY DEF Init, J!JudgeInit, J!JudgeTypeOK, J!Result, J!NoResult, Bodies
<1>3. Stages
  BY DEF Init, Stages, Arrival, Unanswered, Routes, Decided
<1> QED
  BY <1>1, <1>2, <1>3 DEF Base

\* A conversation of a call that has arrived.
LEMMA ConvType ==
    ASSUME TypeOK, NEW c \in Call, pc[c] # "new"
    PROVE  input[c] \in Input /\ conv(c) \in Conv /\ input[c].key \in Key /\ input[c].body \in Body
  BY InputFields DEF TypeOK, conv

LEMMA TypeStep == Base /\ [Next]_vars => TypeOK'
<1> SUFFICES ASSUME Base, [Next]_vars PROVE TypeOK'
  OBVIOUS
<1> USE DEF Base, memVars, logVars, judgeVars, history, callVars
<1>1. CASE \E c \in Call : \E i \in Input : Arrive(c, i)
  BY <1>1 DEF TypeOK, Arrive, Settle, Goto
<1>2. CASE \E c \in Call : Refuse(c) \/ PostCheck(c)
  BY <1>2 DEF TypeOK, Refuse, PostCheck, Finish, Goto
<1>3. CASE \E c \in Call : Lookup(c)
  <2> PICK c \in Call : Lookup(c)
    BY <1>3
  <2>1. cache[input[c].key] \in {"none", "allow", "deny"}
    BY ConvType DEF TypeOK, Lookup
  <2> QED
    BY <2>1, ZenonT(40) DEF TypeOK, Lookup, Settle, Goto
<1>4. CASE \E c \in Call : AskJudge(c)
  BY <1>4 DEF TypeOK, AskJudge, Goto
<1>5. CASE \E c \in Call : JudgeFailed(c) \/ JudgeMalformed(c)
  <2> PICK c \in Call : JudgeFailed(c) \/ JudgeMalformed(c)
    BY <1>5
  <2>1. Settle(c, "deny", "judge") /\ pc[c] = "judging"
        /\ UNCHANGED <<life, input, escalated, answer, memVars, logVars, phase, asked, history>>
    BY DEF JudgeFailed, JudgeMalformed, Take
  <2> QED
    BY <2>1 DEF TypeOK, Settle, Goto
<1>6. CASE \E c \in Call : \E d \in {"allow", "deny"} : JudgeVerdict(c, d)
  <2> PICK c \in Call, d \in {"allow", "deny"} : JudgeVerdict(c, d)
    BY <1>6
  <2>1. input[c].key \in Key /\ result[c].to \in Body
    BY ConvType DEF JudgeVerdict, Bodies
  <2> QED
    BY <2>1 DEF TypeOK, JudgeVerdict, Take, Goto
<1>7. CASE \E c \in Call : Store(c)
  <2> PICK c \in Call : Store(c)
    BY <1>7
  <2>1. decision[c] \in {"none", "allow", "deny"}
    BY DEF TypeOK
  <2>2. cache' \in [Key -> {"none", "allow", "deny"}]
    BY <2>1 DEF TypeOK, Store, Remember
  <2>3. pc' \in [Call -> {"new", "refuse", "post", "lookup", "ask", "judging", "store", "limits",
                          "check", "reply", "audit", "done"}]
    BY DEF TypeOK, Store, Goto
  <2> QED
    BY <2>2, <2>3 DEF TypeOK, Store, Goto
<1>8. CASE \E c \in Call : Count(c)
  <2> PICK c \in Call : Count(c)
    BY <1>8
  <2>1. Counted(denials[conv(c)], decision[c]) \in Limits
    <3>1. denials[conv(c)] \in Limits
      BY ConvType DEF TypeOK, Count
    <3> QED
      BY <3>1 DEF Counted, Limits
  <2>2. denials' \in [Conv -> Limits]
    BY <2>1, ConvType DEF TypeOK, Count
  <2>3. order' \in Seq(Call)
    BY DEF TypeOK, Count
  <2> QED
    BY <2>2, <2>3 DEF TypeOK, Count, Goto
<1>9. CASE \E c \in Call : Check(c)
  BY <1>9 DEF TypeOK, Check, Goto
<1>10. CASE \E c \in Call : Reply(c)
  <2> PICK c \in Call : Reply(c)
    BY <1>10
  <2>1. decision[c] \in {"allow", "deny"}
    BY DEF Reply, Stages, Decided
  <2> QED
    BY <2>1 DEF TypeOK, Reply, Goto
<1>11. CASE \E c \in Call : Audit(c)
  <2> PICK c \in Call : Audit(c)
    BY <1>11
  <2>1. decision[c] \in {"allow", "deny"} /\ layer[c] \in {"policy", "cache", "judge"}
    BY DEF Audit, Stages, Decided
  <2>2. audit' \subseteq AuditLine
    BY <2>1 DEF TypeOK, Audit, AuditLine
  <2> QED
    BY <2>2 DEF TypeOK, Audit, Goto
<1>12. CASE \E c \in Call : JudgeFinishes(c)
  BY <1>12 DEF TypeOK, JudgeFinishes
<1>13. CASE Die
  <2>1. /\ pc' \in [Call -> {"new", "refuse", "post", "lookup", "ask", "judging", "store",
                              "limits", "check", "reply", "audit", "done"}]
        /\ \A c \in Call : pc'[c] # "new" => pc[c] # "new"
    BY <1>13 DEF TypeOK, Die
  <2>2. answer' \in [Call -> {"none", "allow", "deny", "continue", "terminate", "lost"}]
    BY <1>13 DEF TypeOK, Die
  <2>3. Zero \in Limits
    BY DEF Zero, Limits
  <2>4. /\ cache' \in [Key -> {"none", "allow", "deny"}]
        /\ denials' \in [Conv -> Limits]
    BY <1>13, <2>3 DEF Die
  <2>5. life' \in {"up", "stopping", "down"} /\ judged' \subseteq Key \X Body \X {"allow", "deny"}
    BY <1>13 DEF Die
  <2>6. order' \in Seq(Call)
    BY <1>13 DEF Die
  <2>7. UNCHANGED <<input, decision, layer, escalated, audit, unwritten>>
    BY <1>13 DEF Die
  <2> QED
    BY <2>1, <2>2, <2>4, <2>5, <2>6, <2>7 DEF TypeOK
<1>14. CASE Stop \/ Restart \/ UNCHANGED vars
  BY <1>14 DEF TypeOK, Stop, Restart, vars
<1> QED
  BY <1>1, <1>2, <1>3, <1>4, <1>5, <1>6, <1>7, <1>8, <1>9, <1>10, <1>11, <1>12, <1>13, <1>14, StepCases

LEMMA JudgeStep == Base /\ [Next]_vars => J!JudgeTypeOK' /\ Bodies'
<1> SUFFICES ASSUME Base, [Next]_vars PROVE J!JudgeTypeOK' /\ Bodies'
  OBVIOUS
<1> USE DEF Base, judgeVars
<1>1. CASE UNCHANGED judgeVars
  BY <1>1 DEF J!JudgeTypeOK, Bodies
<1>2. CASE \E c \in Call : AskJudge(c)
  <2> PICK c \in Call : AskJudge(c)
    BY <1>2
  <2>1. input[c].body \in Body
    BY ConvType DEF AskJudge
  <2>2. J!NoResult \in J!Result /\ J!NoResult.kind # "reply"
    BY DEF J!NoResult, J!Result
  <2> QED
    BY <2>1, <2>2 DEF AskJudge, J!AskJudge, J!JudgeTypeOK, Bodies
<1>3. CASE \E c \in Call : JudgeFinishes(c)
  <2> PICK c \in Call : JudgeFinishes(c)
    BY <1>3
  <2>1. PICK o \in {J!ReplyTo(asked[c]), J!ErrorResult, J!QuotaResult} :
            result' = [result EXCEPT ![c] = o]
    BY DEF JudgeFinishes, J!Finish
  <2>2. asked[c] \in Body
    BY DEF JudgeFinishes, J!Finish, Bodies
  <2>3. o \in J!Result /\ (o.kind = "reply" => o.to \in Body)
    BY <2>1, <2>2 DEF J!ReplyTo, J!ErrorResult, J!QuotaResult, J!Result
  <2> QED
    BY <2>1, <2>3 DEF JudgeFinishes, J!Finish, J!JudgeTypeOK, Bodies
<1>4. CASE Die
  <2>1. J!NoResult \in J!Result /\ J!NoResult.kind # "reply"
    BY DEF J!NoResult, J!Result
  <2> QED
    BY <1>4, <2>1 DEF Die, J!JudgeTypeOK, Bodies
<1>5. CASE \E c \in Call : Take(c)
  <2>1. J!NoResult \in J!Result /\ J!NoResult.kind # "reply"
    BY DEF J!NoResult, J!Result
  <2> QED
    BY <1>5, <2>1 DEF Take, J!JudgeTypeOK, Bodies
<1> QED
  BY <1>1, <1>2, <1>3, <1>4, <1>5, StepCases
     DEF Arrive, Refuse, PostCheck, Lookup, JudgeFailed, JudgeMalformed, JudgeVerdict, Store,
         Count, Check, Reply, Audit, Stop, Restart, vars

LEMMA StagesStep == Base /\ [Next]_vars => Stages'
<1> SUFFICES ASSUME Base, [Next]_vars PROVE Stages'
  OBVIOUS
<1> USE DEF Base, memVars, logVars, judgeVars, history, callVars, Stages, Arrival, Unanswered, Routes, Decided
<1>1. CASE \E c \in Call : \E i \in Input : Arrive(c, i)
  <2> PICK c \in Call, i \in Input : Arrive(c, i)
    BY <1>1
  <2>1. input' = [input EXCEPT ![c] = i] /\ pc[c] = "new" /\ UNCHANGED answer
    BY DEF Arrive
  <2>2. CASE i.kind \in {"headerless", "garbled"} /\ Goto(c, "refuse") /\ UNCHANGED <<decision, layer>>
    BY <2>1, <2>2 DEF TypeOK, Goto
  <2>3. CASE i.event = "post" /\ Goto(c, "post") /\ UNCHANGED <<decision, layer>>
    BY <2>1, <2>3 DEF TypeOK, Goto
  <2>4. CASE i.kind \in {"allow", "deny"} /\ i.event = "pre" /\ Settle(c, i.kind, "policy")
    BY <2>1, <2>4 DEF TypeOK, Goto, Settle
  <2>5. CASE i.kind = "judge" /\ i.event = "pre" /\ Goto(c, "lookup") /\ UNCHANGED <<decision, layer>>
    BY <2>1, <2>5 DEF TypeOK, Goto
  <2> QED
    BY <2>2, <2>3, <2>4, <2>5 DEF Arrive
<1>2. CASE \E c \in Call : Refuse(c) \/ PostCheck(c)
  <2> PICK c \in Call : Refuse(c) \/ PostCheck(c)
    BY <1>2
  <2>1. PICK a \in {"lost", "continue", "deny", "terminate"} : Finish(c, a)
    BY DEF Refuse, PostCheck
  <2>2. pc[c] \in {"refuse", "post"} /\ UNCHANGED <<input, decision, layer>>
    BY DEF Refuse, PostCheck
  <2> QED
    BY <2>1, <2>2 DEF TypeOK, Finish, Goto
<1>3. CASE \E c \in Call : Lookup(c)
  <2> PICK c \in Call : Lookup(c)
    BY <1>3
  <2>1. pc[c] = "lookup" /\ UNCHANGED <<input, answer>>
    BY DEF Lookup
  <2>2. CASE Goto(c, "ask") /\ UNCHANGED <<decision, layer>>
    BY <2>1, <2>2 DEF TypeOK, Goto
  <2>3. CASE cache[input[c].key] # "none" /\ Settle(c, cache[input[c].key], "cache")
    <3>1. cache[input[c].key] \in {"allow", "deny"}
      BY <2>1, <2>3, ConvType DEF TypeOK
    <3> QED
      BY <2>1, <2>3, <3>1 DEF TypeOK, Settle, Goto
  <2> QED
    BY <2>2, <2>3 DEF Lookup
<1>4. CASE \E c \in Call : AskJudge(c)
  BY <1>4 DEF TypeOK, AskJudge, Goto
<1>5. CASE \E c \in Call : JudgeFailed(c) \/ JudgeMalformed(c)
  <2> PICK c \in Call : JudgeFailed(c) \/ JudgeMalformed(c)
    BY <1>5
  <2>1. Settle(c, "deny", "judge") /\ pc[c] = "judging" /\ UNCHANGED <<input, answer>>
    BY DEF JudgeFailed, JudgeMalformed
  <2> QED
    BY <2>1 DEF TypeOK, Settle, Goto
<1>6. CASE \E c \in Call : \E d \in {"allow", "deny"} : JudgeVerdict(c, d)
  BY <1>6 DEF TypeOK, JudgeVerdict, Goto
<1>7. CASE \E c \in Call : Store(c)
  BY <1>7 DEF TypeOK, Store, Goto
<1>8. CASE \E c \in Call : Count(c) \/ Check(c)
  BY <1>8 DEF TypeOK, Count, Check, Goto
<1>9. CASE \E c \in Call : Reply(c)
  <2> PICK c \in Call : Reply(c)
    BY <1>9
  <2>1. /\ pc[c] = "reply" /\ pc' = [pc EXCEPT ![c] = "audit"]
        /\ answer' = [answer EXCEPT ![c] = IF DryRun THEN "allow" ELSE decision[c]]
        /\ UNCHANGED <<input, decision, layer>>
    BY DEF Reply, Goto
  <2>2. decision[c] \in {"allow", "deny"}
    BY <2>1
  <2> QED
    BY <2>1, <2>2 DEF TypeOK
<1>10. CASE \E c \in Call : Audit(c)
  BY <1>10 DEF TypeOK, Audit, Goto
<1>11. CASE \E c \in Call : JudgeFinishes(c)
  BY <1>11 DEF JudgeFinishes
<1>12. CASE Die
  BY <1>12 DEF TypeOK, Die
<1>13. CASE Stop \/ Restart \/ UNCHANGED vars
  BY <1>13 DEF Stop, Restart, vars
<1> QED
  BY <1>1, <1>2, <1>3, <1>4, <1>5, <1>6, <1>7, <1>8, <1>9, <1>10, <1>11, <1>12, <1>13, StepCases

LEMMA BaseCorrect == Spec => []Base
<1>1. Base /\ [Next]_vars => Base'
  BY TypeStep, JudgeStep, StagesStep DEF Base
<1> QED
  BY <1>1, InitBase, PTL DEF Spec

\* Every variable keeps its type, however the handlers interleave: in
\* particular no counter of denials goes below zero.
THEOREM TypeCorrect == Spec => []TypeOK
<1>1. Base => TypeOK
  BY DEF Base
<1> QED
  BY <1>1, BaseCorrect, PTL

(***************************************************************************)
(* Where a verdict comes from.                                             *)
(***************************************************************************)

\* A verdict about to be stored is one the judge gave.
Verdicts ==
    \A c \in Call : pc[c] = "store" =>
        \E b \in Body : <<input[c].key, b, decision[c]>> \in judged

\* Judged steps only add to judged, or forget everything.
Approved(k) == \E b \in Body : <<k, b, "allow">> \in judged

\* An allow is the policy's, or the judge's.
Earned ==
    \A c \in Call : pc[c] \in {"limits", "check", "reply", "audit"} /\ decision[c] = "allow" =>
        \/ input[c].kind = "allow"
        \/ input[c].kind = "judge" /\ Approved(input[c].key)

Sources == CacheHonest /\ Verdicts /\ Earned

LEMMA InitSources == Init => Sources
  BY DEF Init, Sources, CacheHonest, Cached, Verdicts, Earned

\* Steps that leave the verdicts, the cache and the call's own data alone.
LEMMA SameSources ==
    ASSUME Sources, UNCHANGED <<input, decision, cache, judged>>,
           \A c \in Call : /\ pc'[c] = "store" => pc[c] = "store"
                           /\ pc'[c] \in {"limits", "check", "reply", "audit"} =>
                                 pc[c] \in {"limits", "check", "reply", "audit"}
    PROVE  Sources'
  BY DEF Sources, CacheHonest, Cached, Verdicts, Earned, Approved

LEMMA SourcesStep == Base /\ Sources /\ [Next]_vars => Sources'
<1> SUFFICES ASSUME Base, Sources, [Next]_vars PROVE Sources'
  OBVIOUS
<1> USE DEF Base, memVars, logVars, judgeVars, history, callVars
<1>1. CASE \E c \in Call : \E i \in Input : Arrive(c, i)
  <2> PICK c \in Call, i \in Input : Arrive(c, i)
    BY <1>1
  <2>0. input' = [input EXCEPT ![c] = i] /\ pc[c] = "new" /\ UNCHANGED <<cache, judged>>
    BY DEF TypeOK, Arrive, Settle, Goto
  <2>6. \A d \in Call \ {c} : UNCHANGED <<pc[d], input[d], decision[d]>>
    BY DEF TypeOK, Arrive, Settle, Goto
  <2>7. /\ pc'[c] # "store"
        /\ pc'[c] \in {"limits", "check", "reply", "audit"} => decision'[c] = i.kind
    <3>1. \/ Goto(c, "refuse") \/ Goto(c, "post") \/ Goto(c, "lookup")
          \/ Settle(c, i.kind, "policy")
      BY DEF Arrive
    <3>2. \A p : Goto(c, p) => pc'[c] = p
      BY DEF TypeOK, Goto
    <3>3. Settle(c, i.kind, "policy") => decision'[c] = i.kind /\ Goto(c, "limits")
      BY DEF TypeOK, Settle
    <3> QED
      BY <3>1, <3>2, <3>3
  <2>1. /\ input' = [input EXCEPT ![c] = i] /\ pc[c] = "new" /\ UNCHANGED <<cache, judged>>
        /\ \A d \in Call \ {c} : UNCHANGED <<pc[d], input[d], decision[d]>>
        /\ pc'[c] # "store"
        /\ pc'[c] \in {"limits", "check", "reply", "audit"} => decision'[c] = i.kind
    BY <2>0, <2>6, <2>7
  <2>2. CacheHonest' /\ Verdicts'
    <3>1. CacheHonest'
      BY <2>1 DEF Sources, CacheHonest, Cached
    <3>2. Verdicts'
      BY <2>1 DEF TypeOK, Sources, Verdicts
    <3> QED
      BY <3>1, <3>2
  <2>3. Earned'
    <3> SUFFICES ASSUME NEW d \in Call, (pc[d])' \in {"limits", "check", "reply", "audit"}, (decision[d])' = "allow"
                 PROVE  (input[d].kind = "allow" \/ (input[d].kind = "judge" /\ Approved(input[d].key)))'
      BY DEF Earned
    <3>1. CASE d = c
      BY <2>1, <3>1 DEF TypeOK
    <3>2. CASE d # c
      <4>1. UNCHANGED <<pc[d], input[d], decision[d], judged>>
        BY <2>1, <3>2
      <4> QED
        BY <4>1 DEF Sources, Earned, Approved
    <3> QED
      BY <3>1, <3>2
  <2> QED
    BY <2>2, <2>3 DEF Sources
<1>2. CASE \E c \in Call : Refuse(c) \/ PostCheck(c)
  BY <1>2, SameSources DEF TypeOK, Refuse, PostCheck, Finish, Goto
<1>3. CASE \E c \in Call : Lookup(c)
  <2> PICK c \in Call : Lookup(c)
    BY <1>3
  <2>1. pc[c] = "lookup" /\ UNCHANGED <<input, cache, judged>>
    BY DEF Lookup
  <2>2. CASE Goto(c, "ask") /\ UNCHANGED decision
    BY <2>1, <2>2, SameSources DEF TypeOK, Goto
  <2>3. CASE cache[input[c].key] # "none" /\ Settle(c, cache[input[c].key], "cache")
    <3>1. input[c].key \in Cached /\ input[c].kind = "judge"
      BY <2>1, <2>3, ConvType DEF TypeOK, Cached, Stages, Routes
    <3>2. cache[input[c].key] = "allow" => Approved(input[c].key)
      BY <3>1 DEF Sources, CacheHonest, Approved
    <3>3. CacheHonest' /\ Verdicts'
      BY <2>1, <2>3 DEF TypeOK, Sources, CacheHonest, Cached, Verdicts, Settle, Goto
    <3>4. Earned'
      BY <2>1, <2>3, <3>1, <3>2 DEF TypeOK, Sources, Earned, Approved, Settle, Goto
    <3> QED
      BY <3>3, <3>4 DEF Sources
  <2> QED
    BY <2>2, <2>3 DEF Lookup
<1>4. CASE \E c \in Call : AskJudge(c)
  BY <1>4, SameSources DEF TypeOK, AskJudge, Goto
<1>5. CASE \E c \in Call : JudgeFailed(c) \/ JudgeMalformed(c)
  <2> PICK c \in Call : JudgeFailed(c) \/ JudgeMalformed(c)
    BY <1>5
  <2>1. Settle(c, "deny", "judge") /\ pc[c] = "judging" /\ UNCHANGED <<input, cache, judged>>
    BY DEF JudgeFailed, JudgeMalformed
  <2> QED
    BY <2>1 DEF TypeOK, Settle, Goto, Sources, CacheHonest, Cached, Verdicts, Earned, Approved
<1>6. CASE \E c \in Call : \E d \in {"allow", "deny"} : JudgeVerdict(c, d)
  <2> PICK c \in Call, d \in {"allow", "deny"} : JudgeVerdict(c, d)
    BY <1>6
  <2>1. /\ decision' = [decision EXCEPT ![c] = d] /\ pc' = [pc EXCEPT ![c] = "store"]
        /\ judged' = judged \cup {<<input[c].key, result[c].to, d>>}
        /\ UNCHANGED <<input, cache>>
    BY DEF JudgeVerdict, Goto
  <2>2. result[c].to \in Body
    BY DEF JudgeVerdict, Bodies
  <2>3. CacheHonest'
    BY <2>1 DEF Sources, CacheHonest, Cached
  <2>4. Verdicts'
    BY <2>1, <2>2 DEF TypeOK, Sources, Verdicts
  <2>5. Earned'
    BY <2>1 DEF TypeOK, Sources, Earned, Approved
  <2> QED
    BY <2>3, <2>4, <2>5 DEF Sources
<1>7. CASE \E c \in Call : Store(c)
  <2> PICK c \in Call : Store(c)
    BY <1>7
  <2>1. /\ pc[c] = "store" /\ pc' = [pc EXCEPT ![c] = "limits"]
        /\ UNCHANGED <<input, decision, judged>>
        /\ Remember(input[c].key, decision[c])
    BY DEF Store, Goto
  <2>2. PICK b \in Body : <<input[c].key, b, decision[c]>> \in judged
    BY <2>1 DEF Sources, Verdicts
  <2>3. \A k \in Key : \/ cache'[k] \in {cache[k], "none"}
                       \/ k = input[c].key /\ cache'[k] = decision[c]
    <3>1. cache \in [Key -> {"none", "allow", "deny"}]
      BY DEF TypeOK
    <3>2. CASE cache' = [x \in Key |-> IF x = input[c].key THEN decision[c] ELSE "none"]
      BY <3>2
    <3>3. CASE cache' = [cache EXCEPT ![input[c].key] = decision[c]]
      BY <3>1, <3>3
    <3> QED
      BY <2>1, <3>2, <3>3 DEF Remember
  <2>4. CacheHonest'
    BY <2>1, <2>2, <2>3 DEF Sources, CacheHonest, Cached
  <2>5. Verdicts'
    BY <2>1 DEF TypeOK, Sources, Verdicts
  <2>6. input[c].kind = "judge"
    BY <2>1 DEF Stages, Routes
  <2>7. Earned'
    BY <2>1, <2>2, <2>6 DEF TypeOK, Sources, Earned, Approved
  <2> QED
    BY <2>4, <2>5, <2>7 DEF Sources
<1>8. CASE \E c \in Call : Count(c) \/ Check(c) \/ Reply(c) \/ Audit(c)
  BY <1>8, SameSources DEF TypeOK, Count, Check, Reply, Audit, Goto
<1>9. CASE \E c \in Call : JudgeFinishes(c)
  BY <1>9, SameSources DEF JudgeFinishes
<1>10. CASE Die
  BY <1>10 DEF TypeOK, Die, Sources, CacheHonest, Cached, Verdicts, Earned
<1>11. CASE Stop \/ Restart \/ UNCHANGED vars
  BY <1>11, SameSources DEF Stop, Restart, vars
<1> QED
  BY <1>1, <1>2, <1>3, <1>4, <1>5, <1>6, <1>7, <1>8, <1>9, <1>10, <1>11, StepCases

LEMMA SourcesCorrect == Spec => []Sources
<1> QED
  BY InitSources, SourcesStep, BaseCorrect, PTL DEF Spec

\* The verdict cache holds nothing but verdicts of the judge, given in this life
\* of the daemon: no interleaving of lookups, judge calls, stores and drops puts
\* an error or another key's verdict there.
THEOREM CacheCorrect == Spec => []CacheHonest
<1>1. Sources => CacheHonest
  BY DEF Sources
<1> QED
  BY <1>1, SourcesCorrect, PTL

\* The audit file says allow only of a call that was allowed for a reason, in a
\* dry run too.
THEOREM AuditCorrect == Spec => AuditTellsTruth
<1> DEFINE Truth ==
      \A e \in audit' \ audit :
          e.decision = "allow" =>
              \/ input[e.call].kind = "allow"
              \/ \E b \in Body : <<input[e.call].key, b, "allow">> \in judged
<1>1. Base /\ Sources /\ [Next]_vars => [Truth]_vars
  <2> SUFFICES ASSUME Base, Sources, Next PROVE Truth
    OBVIOUS
  <2>1. CASE \E c \in Call : Audit(c)
    <3> PICK c \in Call : Audit(c)
      BY <2>1
    <3>1. audit' \ audit \subseteq {[call |-> c, layer |-> layer[c], decision |-> decision[c],
                                     escalated |-> escalated[c]]}
      BY DEF Audit
    <3>2. decision[c] = "allow" => input[c].kind = "allow" \/ Approved(input[c].key)
      BY DEF Audit, Sources, Earned
    <3> QED
      BY <3>1, <3>2 DEF Approved
  <2>2. CASE UNCHANGED audit
    BY <2>2
  <2> QED
    BY <2>1, <2>2, StepCases
       DEF Arrive, Refuse, PostCheck, Lookup, AskJudge, JudgeFailed, JudgeMalformed, JudgeVerdict,
           logVars, Store, Count, Check, Reply, JudgeFinishes, Die, Stop, Restart, vars
<1>2. [][Next]_vars /\ []Base /\ []Sources => [][Truth]_vars
  BY <1>1, PTL
<1> QED
  BY <1>2, BaseCorrect, SourcesCorrect, PTL DEF Spec, AuditTellsTruth

(***************************************************************************)
(* The bound on the cache.                                                 *)
(***************************************************************************)

\* Whatever is stored, and whatever other handlers stored since the lookup, the
\* cache never holds more verdicts than it may.
THEOREM CacheBoundCorrect == Spec => []CacheBounded
<1>1. Init => CacheBounded
  <2> SUFFICES ASSUME Init PROVE CacheBounded
    OBVIOUS
  <2>1. Cached = {}
    BY DEF Init, Cached
  <2> QED
    BY <2>1, FS_EmptySet, LimitAssumption DEF CacheBounded
<1>2. CacheBounded /\ Base /\ [Next]_vars => CacheBounded'
  <2> SUFFICES ASSUME CacheBounded, Base, [Next]_vars PROVE CacheBounded'
    OBVIOUS
  <2>1. CASE \E c \in Call : Store(c)
    <3> PICK c \in Call : Store(c)
      BY <2>1
    <3>1. Remember(input[c].key, decision[c]) /\ cache \in [Key -> {"none", "allow", "deny"}]
      BY DEF Store, Base, TypeOK
    <3>2. IsFiniteSet(Cached) /\ Cardinality(Cached) \in Nat
      BY FS_Subset, FS_CardinalityType, SetAssumption DEF Cached
    <3>3. CASE Cardinality(Cached) >= MaxCache
      <4>1. Cached' \subseteq {input[c].key}
        BY <3>1, <3>3 DEF Remember, Cached
      <4>2. IsFiniteSet({input[c].key}) /\ Cardinality({input[c].key}) = 1
        BY FS_Singleton
      <4>3. Cardinality(Cached') <= 1 /\ Cardinality(Cached') \in Nat
        BY <4>1, <4>2, FS_Subset, FS_CardinalityType
      <4> QED
        BY <4>3, LimitAssumption DEF CacheBounded
    <3>4. CASE ~(Cardinality(Cached) >= MaxCache)
      <4>1. Cached' \subseteq Cached \cup {input[c].key}
        BY <3>1, <3>4 DEF Remember, Cached
      <4>2. /\ IsFiniteSet(Cached \cup {input[c].key})
            /\ Cardinality(Cached \cup {input[c].key}) =
                  IF input[c].key \in Cached THEN Cardinality(Cached) ELSE Cardinality(Cached) + 1
        BY <3>2, FS_AddElement
      <4>3. IsFiniteSet(Cached') /\ Cardinality(Cached') <= Cardinality(Cached \cup {input[c].key})
        BY <4>1, <4>2, FS_Subset
      <4>4. Cardinality(Cached') \in Nat /\ Cardinality(Cached \cup {input[c].key}) \in Nat
        BY <4>2, <4>3, FS_CardinalityType
      <4> QED
        BY <3>2, <3>4, <4>2, <4>3, <4>4, LimitAssumption DEF CacheBounded
    <3> QED
      BY <3>3, <3>4
  <2>2. CASE Die
    <3>1. Cached' = {}
      BY <2>2 DEF Die, Cached
    <3> QED
      BY <3>1, FS_EmptySet, LimitAssumption DEF CacheBounded
  <2>3. CASE UNCHANGED cache
    BY <2>3 DEF CacheBounded, Cached
  <2> QED
    BY <2>1, <2>2, <2>3, StepCases
       DEF Arrive, Refuse, PostCheck, Lookup, AskJudge, JudgeFailed, JudgeMalformed, JudgeVerdict,
           Count, Check, Reply, Audit, JudgeFinishes, Stop, Restart, vars, memVars
<1> QED
  BY <1>1, <1>2, BaseCorrect, PTL DEF Spec

(***************************************************************************)
(* The denial counters.                                                    *)
(***************************************************************************)

\* Only calls past the first critical section have been counted.
Counts ==
    \A i \in DOMAIN order : pc[order[i]] \in {"check", "reply", "audit", "done"}

CountersInv == Counts /\ CountersExact

\* Steps that neither count nor decide a counted call keep the counters exact.
LEMMA SameCounters ==
    ASSUME TypeOK, CountersInv, UNCHANGED <<order, denials>>,
           \A c \in Call : pc[c] \in {"check", "reply", "audit", "done"} =>
              /\ pc'[c] \in {"check", "reply", "audit", "done"}
              /\ UNCHANGED <<input[c], decision[c]>>
    PROVE  CountersInv'
<1>1. \A i \in DOMAIN order : order[i] \in Call
  BY DEF TypeOK
<1>2. Counts'
  BY <1>1 DEF CountersInv, Counts
<1>3. \A i \in DOMAIN order : UNCHANGED <<input[order[i]], decision[order[i]]>>
  BY <1>1 DEF CountersInv, Counts
<1>4. \A v \in Conv : OfConv(v)' = OfConv(v)
  BY <1>3 DEF OfConv, conv
<1>5. \A v \in Conv : Denied(v)' = Denied(v)
  BY <1>3, <1>4 DEF Denied, OfConv
<1>6. \A v \in Conv : DeniedRun(v)' = DeniedRun(v)
  BY <1>4, <1>5 DEF DeniedRun
<1>7. CountersExact'
  BY <1>5, <1>6 DEF CountersInv, CountersExact
<1> QED
  BY <1>2, <1>7 DEF CountersInv

\* The positions of a conversation are finite sets of positions.
LEMMA PositionsFinite ==
    ASSUME TypeOK, NEW v
    PROVE  /\ OfConv(v) \subseteq 1 .. Len(order) /\ IsFiniteSet(OfConv(v))
           /\ Denied(v) \subseteq OfConv(v) /\ IsFiniteSet(Denied(v))
           /\ DeniedRun(v) \subseteq Denied(v) /\ IsFiniteSet(DeniedRun(v))
           /\ Cardinality(Denied(v)) \in Nat /\ Cardinality(DeniedRun(v)) \in Nat
           /\ Cardinality(DeniedRun(v)) <= Cardinality(Denied(v))
<1>1. OfConv(v) \subseteq 1 .. Len(order) /\ Len(order) \in Nat
  BY DEF OfConv, TypeOK
<1>2. Denied(v) \subseteq OfConv(v) /\ DeniedRun(v) \subseteq Denied(v)
  BY DEF Denied, DeniedRun
<1>3. IsFiniteSet(1 .. Len(order))
  BY <1>1, FS_Interval
<1> QED
  BY <1>1, <1>2, <1>3, FS_Subset, FS_CardinalityType

\* The handler's first critical section counts exactly the call it handles.
LEMMA CountExact ==
    ASSUME Base, CountersInv, NEW c \in Call, Count(c)
    PROVE  CountersInv'
<1> USE DEF Base
<1>u. PICK u \in Conv : u = conv(c)
  BY ConvType DEF Count
<1>n. PICK n \in Nat : n = Len(order) + 1
  BY DEF TypeOK
<1>1. /\ pc[c] = "limits" /\ pc' = [pc EXCEPT ![c] = "check"]
      /\ order' = Append(order, c) /\ order \in Seq(Call) /\ Len(order) \in Nat
      /\ denials' = [denials EXCEPT ![u] = Counted(denials[u], decision[c])]
      /\ denials \in [Conv -> Limits]
      /\ UNCHANGED <<input, decision>>
  BY <1>u DEF Count, TypeOK, Goto
<1>2. /\ DOMAIN order = 1 .. Len(order) /\ DOMAIN order' = 1 .. n
      /\ n \notin DOMAIN order /\ DOMAIN order' = DOMAIN order \cup {n}
      /\ order'[n] = c /\ \A i \in DOMAIN order : order'[i] = order[i] /\ i \in Nat /\ i < n
  BY <1>1, <1>n
<1>3. \A i \in DOMAIN order : order[i] \in Call
  BY <1>1
<1>4. Counts'
  BY <1>1, <1>2, <1>3 DEF CountersInv, Counts, TypeOK
<1>5. \A v : OfConv(v)' = IF v = u THEN OfConv(v) \cup {n} ELSE OfConv(v)
  BY <1>1, <1>2, <1>u DEF OfConv, conv
<1>6. \A v : Denied(v)' = IF v = u /\ decision[c] = "deny" THEN Denied(v) \cup {n} ELSE Denied(v)
  <2>1. \A v : \A i \in OfConv(v) : order'[i] = order[i] /\ i # n
    BY <1>2 DEF OfConv
  <2>2. \A v : Denied(v)' = {i \in OfConv(v)' : decision[order'[i]] = "deny"}
    BY <1>1 DEF Denied
  <2>3. order'[n] = c
    BY <1>2
  <2>4. ASSUME NEW v PROVE Denied(v)' = IF v = u /\ decision[c] = "deny"
                                        THEN Denied(v) \cup {n} ELSE Denied(v)
    <3>1. CASE v = u
      <4>1. Denied(v)' = {i \in OfConv(v) \cup {n} : decision[order'[i]] = "deny"}
        BY <1>5, <2>2, <3>1
      <4> QED
        BY <2>1, <2>3, <3>1, <4>1 DEF Denied
    <3>2. CASE v # u
      <4>1. Denied(v)' = {i \in OfConv(v) : decision[order'[i]] = "deny"}
        BY <1>5, <2>2, <3>2
      <4> QED
        BY <2>1, <3>2, <4>1 DEF Denied
    <3> QED
      BY <3>1, <3>2
  <2> QED
    BY <2>4
<1>7. \A v : v # u => DeniedRun(v)' = DeniedRun(v)
  BY <1>5, <1>6 DEF DeniedRun
<1>8. \A i \in OfConv(u) : i \in Nat /\ i < n
  BY <1>2 DEF OfConv
<1>9. n \in Nat /\ n \notin OfConv(u)
  BY <1>1, <1>2 DEF OfConv
<1>10. CASE decision[c] = "deny"
  <2>1. OfConv(u)' = OfConv(u) \cup {n} /\ Denied(u)' = Denied(u) \cup {n}
    BY <1>5, <1>6, <1>10
  <2>2. DeniedRun(u)' = DeniedRun(u) \cup {n}
    BY <1>8, <1>9, <2>1 DEF DeniedRun, Denied
  <2>3. n \notin Denied(u) /\ n \notin DeniedRun(u)
    BY <1>9 DEF Denied, DeniedRun
  <2>4. /\ Cardinality(Denied(u)') = Cardinality(Denied(u)) + 1
        /\ Cardinality(DeniedRun(u)') = Cardinality(DeniedRun(u)) + 1
    BY <2>1, <2>2, <2>3, PositionsFinite, FS_AddElement
  <2>5. /\ denials'[u].total = denials[u].total + 1
        /\ denials'[u].consecutive = denials[u].consecutive + 1
        /\ \A v \in Conv : v # u => denials'[v] = denials[v]
    BY <1>1, <1>10 DEF Counted
  <2>6. CountersExact'
    BY <1>6, <1>7, <2>4, <2>5 DEF CountersInv, CountersExact
  <2> QED
    BY <1>4, <2>6 DEF CountersInv
<1>11. CASE decision[c] # "deny"
  <2>1. OfConv(u)' = OfConv(u) \cup {n} /\ Denied(u)' = Denied(u)
    BY <1>5, <1>6, <1>11
  <2>2. DeniedRun(u)' = {}
    BY <1>8, <1>9, <2>1 DEF DeniedRun, Denied
  <2>3. /\ denials'[u].total = denials[u].total
        /\ denials'[u].consecutive = 0
        /\ \A v \in Conv : v # u => denials'[v] = denials[v]
    BY <1>1, <1>11 DEF Counted, Limits
  <2>4. CountersExact'
    BY <1>6, <1>7, <1>11, <2>1, <2>2, <2>3, FS_EmptySet DEF CountersInv, CountersExact
  <2> QED
    BY <1>4, <2>4 DEF CountersInv
<1> QED
  BY <1>10, <1>11

LEMMA EmptyCounts ==
    ASSUME order = <<>>, denials = [v \in Conv |-> Zero]
    PROVE  CountersInv
<1>1. \A v : Denied(v) = {} /\ DeniedRun(v) = {}
  BY DEF OfConv, Denied, DeniedRun
<1>2. CountersExact
  BY <1>1, FS_EmptySet DEF CountersExact, Zero
<1> QED
  BY <1>2 DEF CountersInv, Counts

LEMMA CountersStep == Base /\ CountersInv /\ [Next]_vars => CountersInv'
<1> SUFFICES ASSUME Base, CountersInv, [Next]_vars PROVE CountersInv'
  OBVIOUS
<1> USE DEF Base, memVars, logVars, judgeVars, history, callVars
<1>1. CASE \E c \in Call : \E i \in Input : Arrive(c, i)
  BY <1>1, SameCounters DEF TypeOK, Arrive, Settle, Goto
<1>2. CASE \E c \in Call : Refuse(c) \/ PostCheck(c)
  BY <1>2, SameCounters DEF TypeOK, Refuse, PostCheck, Finish, Goto
<1>3. CASE \E c \in Call : Lookup(c)
  BY <1>3, SameCounters DEF TypeOK, Lookup, Settle, Goto
<1>4. CASE \E c \in Call : AskJudge(c)
  BY <1>4, SameCounters DEF TypeOK, AskJudge, Goto
<1>5. CASE \E c \in Call : JudgeFailed(c) \/ JudgeMalformed(c)
  BY <1>5, SameCounters DEF TypeOK, JudgeFailed, JudgeMalformed, Settle, Goto
<1>6. CASE \E c \in Call : \E d \in {"allow", "deny"} : JudgeVerdict(c, d)
  BY <1>6, SameCounters DEF TypeOK, JudgeVerdict, Goto
<1>7. CASE \E c \in Call : Store(c)
  BY <1>7, SameCounters DEF TypeOK, Store, Goto
<1>8. CASE \E c \in Call : Count(c)
  BY <1>8, CountExact
<1>9. CASE \E c \in Call : Check(c) \/ Reply(c) \/ Audit(c)
  BY <1>9, SameCounters DEF TypeOK, Check, Reply, Audit, Goto
<1>10. CASE \E c \in Call : JudgeFinishes(c)
  BY <1>10, SameCounters DEF JudgeFinishes
<1>11. CASE Die
  <2>1. order' = <<>> /\ denials' = [v \in Conv |-> Zero]
    BY <1>11 DEF Die
  <2>2. \A v : Denied(v)' = {} /\ DeniedRun(v)' = {}
    BY <2>1 DEF OfConv, Denied, DeniedRun
  <2>3. CountersExact'
    BY <2>1, <2>2, FS_EmptySet DEF CountersExact, Zero
  <2> QED
    BY <2>1, <2>3 DEF CountersInv, Counts
<1>12. CASE Stop \/ Restart \/ UNCHANGED vars
  BY <1>12, SameCounters DEF Stop, Restart, vars
<1> QED
  BY <1>1, <1>2, <1>3, <1>4, <1>5, <1>6, <1>7, <1>8, <1>9, <1>10, <1>11, <1>12, StepCases

LEMMA CountersInvCorrect == Spec => []CountersInv
<1>1. Init => CountersInv
  BY EmptyCounts DEF Init
<1> QED
  BY <1>1, CountersStep, BaseCorrect, PTL DEF Spec

\* The counters of a conversation are what they would be had the calls been
\* served one after the other, in the order of their first critical sections.
THEOREM CountersCorrect == Spec => []CountersExact
<1>1. CountersInv => CountersExact
  BY DEF CountersInv
<1> QED
  BY <1>1, CountersInvCorrect, PTL

\* A conversation that was told ESCALATED has the denials for it, kept until
\* the daemon dies.
Escalations ==
    \A c \in Call : escalated[c] /\ pc[c] \in {"reply", "audit"} =>
        \/ denials[conv(c)].total >= MaxConsecutive
        \/ denials[conv(c)].total >= MaxTotal

\* Both limits are reached only with that many denials.
LEMMA OverLimitEarned ==
    ASSUME TypeOK, CountersExact, NEW v \in Conv, OverLimit(v)
    PROVE  denials[v].total >= MaxConsecutive \/ denials[v].total >= MaxTotal
<1>1. denials[v].total \in Nat /\ denials[v].consecutive \in Nat
  BY DEF TypeOK, Limits
<1>2. denials[v].consecutive <= denials[v].total
  BY <1>1, PositionsFinite DEF CountersExact
<1> QED
  BY <1>1, <1>2, LimitAssumption DEF OverLimit

\* Steps that take no denial away and escalate nobody.
LEMMA SameEscalations ==
    ASSUME TypeOK, Escalations, UNCHANGED escalated,
           \A v \in Conv : denials'[v].total \in Nat /\ denials'[v].total >= denials[v].total,
           \A c \in Call : pc'[c] \in {"reply", "audit"} =>
              pc[c] \in {"reply", "audit"} /\ UNCHANGED input[c]
    PROVE  Escalations'
<1> SUFFICES ASSUME NEW c \in Call, escalated'[c], pc'[c] \in {"reply", "audit"}
             PROVE  \/ denials'[conv(c)'].total >= MaxConsecutive
                    \/ denials'[conv(c)'].total >= MaxTotal
  BY DEF Escalations
<1>1. pc[c] \in {"reply", "audit"} /\ conv(c)' = conv(c) /\ escalated[c]
  BY DEF conv
<1>2. conv(c) \in Conv
  BY <1>1, ConvType
<1>3. denials[conv(c)].total \in Nat
  BY <1>2 DEF TypeOK, Limits
<1>4. denials[conv(c)].total >= MaxConsecutive \/ denials[conv(c)].total >= MaxTotal
  BY <1>1 DEF Escalations
<1> QED
  BY <1>1, <1>2, <1>3, <1>4, LimitAssumption

LEMMA EscalationsStep == Base /\ CountersExact /\ Escalations /\ [Next]_vars => Escalations'
<1> SUFFICES ASSUME Base, CountersExact, Escalations, [Next]_vars PROVE Escalations'
  OBVIOUS
<1>0. TypeOK
  BY DEF Base
<1>1. CASE \E c \in Call : Check(c)
  <2> PICK c \in Call : Check(c)
    BY <1>1
  <2>1. /\ pc[c] = "check" /\ pc' = [pc EXCEPT ![c] = "reply"]
        /\ escalated' = [escalated EXCEPT ![c] = decision[c] = "deny" /\ OverLimit(conv(c))]
        /\ UNCHANGED <<input, denials>>
    BY DEF Check, Goto, memVars
  <2>2. conv(c) \in Conv
    BY <1>0, <2>1, ConvType
  <2>3. OverLimit(conv(c)) => \/ denials[conv(c)].total >= MaxConsecutive
                              \/ denials[conv(c)].total >= MaxTotal
    BY <1>0, <2>2, OverLimitEarned
  <2> QED
    BY <1>0, <2>1, <2>3 DEF TypeOK, Escalations, conv
<1>2. CASE \E c \in Call : Count(c)
  <2> PICK c \in Call : Count(c)
    BY <1>2
  <2>1. /\ pc[c] = "limits" /\ pc' = [pc EXCEPT ![c] = "check"]
        /\ denials' = [denials EXCEPT ![conv(c)] = Counted(denials[conv(c)], decision[c])]
        /\ UNCHANGED <<input, escalated>>
    BY DEF Count, Goto
  <2>2. conv(c) \in Conv /\ denials \in [Conv -> Limits]
    BY <1>0, <2>1, ConvType DEF TypeOK
  <2>3. \A v \in Conv : denials[v].total \in Nat
    BY <2>2 DEF Limits
  <2>4. /\ Counted(denials[conv(c)], decision[c]).total \in Nat
        /\ Counted(denials[conv(c)], decision[c]).total >= denials[conv(c)].total
    <3>1. denials[conv(c)] \in Limits
      BY <2>2
    <3> QED
      BY <3>1 DEF Counted, Limits
  <2>5. \A v \in Conv : denials'[v].total \in Nat /\ denials'[v].total >= denials[v].total
    BY <2>1, <2>2, <2>3, <2>4
  <2>6. \A d \in Call : pc'[d] \in {"reply", "audit"} => pc[d] \in {"reply", "audit"}
    BY <1>0, <2>1 DEF TypeOK
  <2> QED
    BY <1>0, <2>1, <2>5, <2>6, SameEscalations
<1>3. CASE Die
  <2>1. \A c \in Call : pc'[c] \notin {"reply", "audit"}
    BY <1>3 DEF Die
  <2> QED
    BY <2>1 DEF Escalations
<1>4. CASE UNCHANGED <<denials, escalated>>
            /\ \A c \in Call : pc'[c] \in {"reply", "audit"} =>
                  pc[c] \in {"reply", "audit"} /\ UNCHANGED input[c]
  <2>1. \A v \in Conv : denials[v].total \in Nat
    BY <1>0 DEF TypeOK, Limits
  <2> QED
    BY <1>0, <1>4, <2>1, SameEscalations
<1>5. \/ \E c \in Call : Check(c) \/ Count(c)
      \/ Die
      \/ /\ UNCHANGED <<denials, escalated>>
         /\ \A c \in Call : pc'[c] \in {"reply", "audit"} =>
               pc[c] \in {"reply", "audit"} /\ UNCHANGED input[c]
  <2> USE <1>0 DEF memVars, callVars, TypeOK
  <2>1. CASE \E c \in Call : \E i \in Input : Arrive(c, i)
    BY <2>1 DEF Arrive, Settle, Goto
  <2>2. CASE \E c \in Call : Refuse(c) \/ PostCheck(c)
    BY <2>2 DEF Refuse, PostCheck, Finish, Goto
  <2>3. CASE \E c \in Call : Lookup(c)
    BY <2>3 DEF Lookup, Settle, Goto
  <2>4. CASE \E c \in Call : JudgeFailed(c) \/ JudgeMalformed(c)
    BY <2>4 DEF JudgeFailed, JudgeMalformed, Settle, Goto
  <2>5. CASE \E c \in Call : AskJudge(c) \/ \E d \in {"allow", "deny"} : JudgeVerdict(c, d)
    BY <2>5 DEF AskJudge, JudgeVerdict, Goto
  <2>6. CASE \E c \in Call : Store(c) \/ Reply(c) \/ Audit(c)
    BY <2>6 DEF Store, Reply, Audit, Goto
  <2>7. CASE \E c \in Call : JudgeFinishes(c)
    BY <2>7 DEF JudgeFinishes
  <2>8. CASE Stop \/ Restart \/ UNCHANGED vars
    BY <2>8 DEF Stop, Restart, vars
  <2> QED
    BY <2>1, <2>2, <2>3, <2>4, <2>5, <2>6, <2>7, <2>8, StepCases
<1> QED
  BY <1>1, <1>2, <1>3, <1>4, <1>5

\* ESCALATED is never said of a conversation that has not been denied often
\* enough, whatever other calls do between the two critical sections.
THEOREM EscalationCorrect == Spec => []EscalationEarned
<1>1. Init => Escalations
  BY DEF Init, Escalations
<1>2. Base /\ Escalations /\ CountersExact => EscalationEarned
  <2> SUFFICES ASSUME Base, Escalations, CountersExact, NEW c \in Call,
                      escalated[c], pc[c] \in {"reply", "audit"}
               PROVE  \/ Cardinality(Denied(conv(c))) >= MaxConsecutive
                      \/ Cardinality(Denied(conv(c))) >= MaxTotal
    BY DEF EscalationEarned
  <2>1. conv(c) \in Conv
    BY ConvType DEF Base
  <2> QED
    BY <2>1 DEF Escalations, CountersExact
<1> QED
  BY <1>1, <1>2, EscalationsStep, BaseCorrect, CountersCorrect, PTL DEF Spec

\* PostInvocation lets a run go on only below both limits.
THEOREM RunStopCorrect == Spec => RunStopsAtLimit
<1> DEFINE Below ==
      \A c \in Call : pc[c] = "post" /\ answer'[c] = "continue" =>
          /\ Cardinality(DeniedRun(conv(c))) < MaxConsecutive
          /\ Cardinality(Denied(conv(c))) < MaxTotal
<1>1. Base /\ CountersExact /\ [Next]_vars => [Below]_vars
  <2> SUFFICES ASSUME Base, CountersExact, [Next]_vars, NEW c \in Call,
                      pc[c] = "post", answer'[c] = "continue"
               PROVE  /\ Cardinality(DeniedRun(conv(c))) < MaxConsecutive
                      /\ Cardinality(Denied(conv(c))) < MaxTotal
    OBVIOUS
  <2>1. TypeOK /\ answer[c] = "none" /\ conv(c) \in Conv
    BY ConvType DEF Base, Stages, Unanswered
  <2>2. \E d \in Call : Refuse(d) \/ PostCheck(d)
    <3>1. CASE UNCHANGED answer
      BY <2>1, <3>1
    <3>2. CASE \E d \in Call : Reply(d)
      BY <2>1, <3>2 DEF Reply, TypeOK
    <3>3. CASE Die
      BY <2>1, <3>3 DEF Die
    <3> QED
      BY <3>1, <3>2, <3>3, StepCases
         DEF Arrive, Lookup, AskJudge, JudgeFailed, JudgeMalformed, JudgeVerdict, Store, Count,
             Check, Audit, JudgeFinishes, Stop, Restart, vars, callVars
  <2>3. PostCheck(c)
    BY <2>1, <2>2 DEF Refuse, PostCheck, Finish, TypeOK
  <2>4. ~OverLimit(conv(c))
    BY <2>1, <2>3 DEF PostCheck, Finish, TypeOK
  <2>5. denials[conv(c)].consecutive \in Nat /\ denials[conv(c)].total \in Nat
    BY <2>1 DEF TypeOK, Limits
  <2>6. denials[conv(c)].consecutive < MaxConsecutive /\ denials[conv(c)].total < MaxTotal
    BY <2>4, <2>5, LimitAssumption DEF OverLimit
  <2> QED
    BY <2>1, <2>6 DEF CountersExact
<1> QED
  BY <1>1, BaseCorrect, CountersCorrect, PTL DEF Spec, RunStopsAtLimit

(***************************************************************************)
(* The daemon implements the abstract gate.                                *)
(***************************************************************************)

\* What Gate.tla calls approved.
Approvals == {k \in Key : \E b \in Body : <<k, b, "allow">> \in judged}

\* A step that neither answers nor judges is a stutter of the gate.
LEMMA GateStutter ==
    ASSUME UNCHANGED <<input, answer, judged>>
    PROVE  UNCHANGED Abstract!gateVars
  BY DEF Abstract!gateVars

\* A handler that answers takes the gate's Decide.
LEMMA GateDecides ==
    ASSUME TypeOK, NEW c \in Call, NEW a \in Abstract!Answers,
           input[c] \in Input, answer[c] = "none",
           \/ a = "allow" /\ input[c].event = "pre" /\ Abstract!Justified(c)
           \/ a = "deny" /\ input[c].event = "pre"
           \/ a \in {"continue", "terminate"} /\ input[c].event = "post"
           \/ a = "lost",
           answer' = [answer EXCEPT ![c] = a],
           UNCHANGED <<input, judged>>
    PROVE  Abstract!GateNext
<1>1. input[c] # NoInput
  BY InputAssumption
<1>2. Abstract!Decide(c, a)
  BY <1>1 DEF Abstract!Decide
<1> QED
  BY <1>2 DEF Abstract!GateNext

LEMMA GateStep == Base /\ Sources /\ [Next]_vars => [Abstract!GateNext]_(Abstract!gateVars)
<1> SUFFICES ASSUME Base, Sources, [Next]_vars
             PROVE  Abstract!GateNext \/ UNCHANGED Abstract!gateVars
  OBVIOUS
<1>0. TypeOK
  BY DEF Base
<1>1. CASE \E c \in Call : \E i \in Input : Arrive(c, i)
  <2> PICK c \in Call, i \in Input : Arrive(c, i)
    BY <1>1
  <2>1. input[c] = NoInput
    BY DEF Arrive, Base, Stages, Arrival
  <2>2. Abstract!Submit(c, i)
    BY <2>1 DEF Arrive, Abstract!Submit, history
  <2> QED
    BY <2>2 DEF Abstract!GateNext
<1>2. CASE \E c \in Call : Refuse(c)
  <2> PICK c \in Call : Refuse(c)
    BY <1>2
  <2>1. /\ input[c] \in Input /\ answer[c] = "none"
        /\ input[c].kind \in {"headerless", "garbled"} /\ input[c].event \in {"pre", "post"}
    BY <1>0, InputFields DEF Refuse, TypeOK, Base, Stages, Unanswered, Routes
  <2>2. PICK a \in {"lost", "continue", "deny"} :
            /\ answer' = [answer EXCEPT ![c] = a]
            /\ a = "continue" => input[c].event = "post"
            /\ a = "deny" => input[c].event = "pre"
    BY <2>1 DEF Refuse, Finish
  <2>3. UNCHANGED <<input, judged>>
    BY DEF Refuse, history
  <2> QED
    BY <1>0, <2>1, <2>2, <2>3, GateDecides DEF Abstract!Answers
<1>3. CASE \E c \in Call : PostCheck(c)
  <2> PICK c \in Call : PostCheck(c)
    BY <1>3
  <2>1. input[c] \in Input /\ answer[c] = "none" /\ input[c].event = "post"
    BY <1>0 DEF PostCheck, TypeOK, Base, Stages, Unanswered, Routes
  <2>2. PICK a \in {"terminate", "continue"} : answer' = [answer EXCEPT ![c] = a]
    BY DEF PostCheck, Finish
  <2>3. UNCHANGED <<input, judged>>
    BY DEF PostCheck, history
  <2> QED
    BY <1>0, <2>1, <2>2, <2>3, GateDecides DEF Abstract!Answers
<1>4. CASE \E c \in Call : Reply(c)
  <2> PICK c \in Call : Reply(c)
    BY <1>4
  <2>1. /\ pc[c] = "reply" /\ UNCHANGED <<input, judged>>
        /\ answer' = [answer EXCEPT ![c] = IF DryRun THEN "allow" ELSE decision[c]]
    BY DEF Reply, history
  <2>2. /\ input[c] \in Input /\ answer[c] = "none" /\ input[c].event = "pre"
        /\ input[c].kind \in {"allow", "deny", "judge"} /\ decision[c] \in {"allow", "deny"}
    BY <1>0, <2>1 DEF TypeOK, Base, Stages, Unanswered, Routes, Decided
  <2>3. input[c].key \in Key
    BY <2>2, InputFields
  <2>4. CASE DryRun
    <3>1. Abstract!Justified(c)
      BY <2>2, <2>4 DEF Abstract!Justified
    <3> QED
      BY <1>0, <2>1, <2>2, <2>4, <3>1, GateDecides DEF Abstract!Answers
  <2>5. CASE ~DryRun
    <3>1. decision[c] = "allow" => Abstract!Justified(c)
      BY <2>1, <2>3 DEF Sources, Earned, Approved, Abstract!Justified
    <3> QED
      BY <1>0, <2>1, <2>2, <2>5, <3>1, GateDecides DEF Abstract!Answers
  <2> QED
    BY <2>4, <2>5
<1>5. CASE \E c \in Call : \E d \in {"allow", "deny"} : JudgeVerdict(c, d)
  <2> PICK c \in Call, d \in {"allow", "deny"} : JudgeVerdict(c, d)
    BY <1>5
  <2>1. /\ pc[c] = "judging" /\ UNCHANGED <<input, answer>>
        /\ judged' = judged \cup {<<input[c].key, result[c].to, d>>}
    BY DEF JudgeVerdict
  <2>2. /\ input[c] \in Input /\ answer[c] = "none" /\ input[c].kind = "judge"
        /\ result[c].to \in Body
    BY <1>0, <2>1 DEF JudgeVerdict, TypeOK, Base, Stages, Unanswered, Routes, Bodies
  <2>3. input[c].key \in Key /\ input[c] # NoInput
    BY <2>2, InputFields, InputAssumption
  <2>4. CASE d = "allow"
    <3>1. Approvals' = Approvals \cup {input[c].key}
      BY <2>1, <2>2, <2>3, <2>4 DEF Approvals
    <3>2. Abstract!Approve(c)
      BY <2>1, <2>2, <2>3, <3>1 DEF Abstract!Approve, Approvals
    <3> QED
      BY <3>2 DEF Abstract!GateNext
  <2>5. CASE d = "deny"
    <3>1. Approvals' = Approvals
      BY <2>1, <2>5 DEF Approvals
    <3> QED
      BY <2>1, <3>1 DEF Abstract!gateVars, Approvals
  <2> QED
    BY <2>4, <2>5
<1>6. CASE Die
  <2>1. \A c \in Call : pc[c] # "new" <=> input[c] # NoInput
    BY <1>0, InputAssumption DEF TypeOK, Base, Stages, Arrival
  <2>2. answer' = [c \in Call |-> IF input[c] # NoInput /\ answer[c] = "none"
                                  THEN "lost" ELSE answer[c]]
    BY <1>6, <2>1 DEF Die
  <2>3. Approvals' = {} /\ UNCHANGED input
    BY <1>6 DEF Die, Approvals
  <2>4. Abstract!Die
    BY <2>2, <2>3 DEF Abstract!Die, Approvals
  <2> QED
    BY <2>4 DEF Abstract!GateNext
<1>7. CASE UNCHANGED <<input, answer, judged>>
  BY <1>7, GateStutter
<1> QED
  BY <1>1, <1>2, <1>3, <1>4, <1>5, <1>6, <1>7, StepCases
     DEF Lookup, AskJudge, JudgeFailed, JudgeMalformed, Store, Count, Check, Audit, JudgeFinishes,
         Stop, Restart, vars, callVars, history

\* The daemon fails closed: every behaviour of it is one of the abstract gate,
\* where an allow needs the policy or the judge.  (That every call is answered
\* as well is left to the model checker.)
THEOREM FailsClosedCorrect ==
    Spec => Abstract!GateInit /\ [][Abstract!GateNext]_(Abstract!gateVars)
<1>1. Init => Abstract!GateInit
  BY DEF Init, Abstract!GateInit
<1> QED
  BY <1>1, GateStep, BaseCorrect, SourcesCorrect, PTL DEF Spec

----------------------------------------------------------------------------
(* Hook and daemon together. *)

\* Hook and daemon together never do what the daemon alone could not.
LEMMA DaemonStep == [HookNext]_hvars => [Next]_vars
  BY DEF HookNext, Start, FailFast, Knock, ReadReply, GiveUp, Fall, Tick, Next, hvars

\* The steps as the hooks see them.
LEMMA HookCases ==
    ASSUME [HookNext]_hvars
    PROVE  \/ \E c \in Call : \E i \in Input : Start(c, i)
           \/ \E c \in Call : \E i \in Input : FailFast(c, i)
           \/ \E c \in Call : ReadReply(c)
           \/ \E c \in Call : GiveUp(c)
           \/ Fall
           \/ Tick
           \/ [Next]_vars /\ UNCHANGED hookVars /\ ~Die
  <1> DEFINE Own == \E c \in Call : \/ \E i \in Input : Arrive(c, i)
                                    \/ Handle(c) \/ JudgeFinishes(c)
  <1>1. Own \/ Stop \/ Restart \/ UNCHANGED vars => [Next]_vars
    BY DEF Next
  <1>2. Own \/ Stop \/ Restart \/ UNCHANGED vars => ~Die
    BY DEF Handle, Arrive, Refuse, PostCheck, Lookup, AskJudge, JudgeFailed, JudgeMalformed,
           JudgeVerdict, Store, Count, Check, Reply, Audit, JudgeFinishes, Stop, Restart, Die, vars
  <1> QED
    BY <1>1, <1>2 DEF HookNext, Knock, hvars

\* The daemon behind the hooks behaves like
\* Server.tla, so every invariant proved of the one holds of the other.
THEOREM DaemonRefined == HookSpec => Init /\ [][Next]_vars
  <1>1. HookInit => Init
    BY DEF HookInit
  <1> QED
    BY <1>1, DaemonStep, PTL DEF HookSpec

LEMMA DaemonCorrect == HookSpec => [](Base /\ CountersInv)
  <1>1. Init => CountersInv
    BY EmptyCounts DEF Init
  <1>2. Base /\ [Next]_vars => Base'
    BY TypeStep, JudgeStep, StagesStep DEF Base
  <1> QED
    BY <1>1, <1>2, InitBase, CountersStep, DaemonRefined, PTL

\* What the daemon's steps leave alone: a call that has arrived keeps its input,
\* one that is done keeps its outcome, and the audit file, and what
\* should be in it, only grow.
LEMMA Kept ==
    ASSUME Base, [Next]_vars
    PROVE  /\ audit \subseteq audit' /\ unwritten \subseteq unwritten'
           /\ \A c \in Call : pc[c] # "new" => pc'[c] # "new" /\ input'[c] = input[c]
           /\ \A c \in Call : pc[c] = "done" =>
                 pc'[c] = "done" /\ answer'[c] = answer[c] /\ decision'[c] = decision[c]
<1> USE DEF Base, TypeOK, Goto, memVars, logVars, judgeVars, history, callVars
<1>1. CASE \E c \in Call : \E i \in Input : Arrive(c, i)
  BY <1>1 DEF Arrive, Settle
<1>2. CASE \E c \in Call : Refuse(c) \/ PostCheck(c)
  BY <1>2 DEF Refuse, PostCheck, Finish
<1>3. CASE \E c \in Call : Lookup(c)
  BY <1>3 DEF Lookup, Settle
<1>4. CASE \E c \in Call : AskJudge(c)
  BY <1>4 DEF AskJudge
<1>5. CASE \E c \in Call : JudgeFailed(c) \/ JudgeMalformed(c)
  BY <1>5 DEF JudgeFailed, JudgeMalformed, Settle
<1>6. CASE \E c \in Call : \E d \in {"allow", "deny"} : JudgeVerdict(c, d)
  BY <1>6 DEF JudgeVerdict
<1>7. CASE \E c \in Call : Store(c) \/ Count(c) \/ Check(c)
  BY <1>7 DEF Store, Count, Check
<1>8. CASE \E c \in Call : Reply(c) \/ Audit(c)
  BY <1>8 DEF Reply, Audit
<1>9. CASE \E c \in Call : JudgeFinishes(c)
  BY <1>9 DEF JudgeFinishes
<1>10. CASE Die
  BY <1>10, StagesStep DEF Die, Stages, Unanswered
<1>11. CASE Stop \/ Restart \/ UNCHANGED vars
  BY <1>11 DEF Stop, Restart, vars
<1> QED
  BY <1>1, <1>2, <1>3, <1>4, <1>5, <1>6, <1>7, <1>8, <1>9, <1>10, <1>11, StepCases
(***************************************************************************)
(* Types and deadlines.                                                    *)
(***************************************************************************)

\* Only a hook that is connected ages: one of a tool call up to its deadline, one
\* of PostInvocation not at all, since it is never behind the judge.
Ages ==
    \A c \in Call :
        /\ hook[c] # "open" => age[c] = 0
        /\ hook[c] = "open" => /\ pc[c] # "new"
                               /\ age[c] = 0 \/ (input[c].event = "pre" /\ age[c] <= HookWait)

\* An answer that is not lost can be printed.
LEMMA AnswerTypes ==
    ASSUME Base, NEW c \in Call, pc[c] = "done"
    PROVE  answer[c] \in {"allow", "deny", "continue", "terminate", "lost"}
  BY DEF Base, TypeOK, Stages, Unanswered

LEMMA HookTypeStep == Base /\ HookTypeOK /\ [HookNext]_hvars => HookTypeOK'
<1> SUFFICES ASSUME Base, HookTypeOK, [HookNext]_hvars PROVE HookTypeOK'
  OBVIOUS
<1> USE DEF HookTypeOK, Say, failing
<1>1. CASE \E c \in Call : \E i \in Input : Start(c, i)
  BY <1>1 DEF Start
<1>2. CASE \E c \in Call : \E i \in Input : FailFast(c, i)
  BY <1>2 DEF FailFast
<1>3. CASE \E c \in Call : ReadReply(c)
  <2> PICK c \in Call : ReadReply(c)
    BY <1>3
  <2>1. PICK a \in {"allow", "deny", "continue", "terminate"} : Say(c, a)
    BY AnswerTypes DEF ReadReply, Closed
  <2> QED
    BY <2>1 DEF ReadReply
<1>4. CASE \E c \in Call : GiveUp(c)
  BY <1>4 DEF GiveUp, Due
<1>5. CASE Fall
  BY <1>5 DEF Fall
<1>6. CASE Tick
  BY <1>6 DEF Tick
<1>7. CASE UNCHANGED hookVars
  BY <1>7 DEF hookVars
<1> QED
  BY <1>1, <1>2, <1>3, <1>4, <1>5, <1>6, <1>7, HookCases

LEMMA AgesStep == Base /\ HookTypeOK /\ Ages /\ [HookNext]_hvars => Ages'
<1> SUFFICES ASSUME Base, HookTypeOK, Ages, [HookNext]_hvars PROVE Ages'
  OBVIOUS
<1> USE DEF HookTypeOK, Say, Ages
<1>k. \A c \in Call : pc[c] # "new" => pc'[c] # "new" /\ input'[c] = input[c]
  BY DaemonStep, Kept
<1>1. CASE \E c \in Call : \E i \in Input : Start(c, i)
  <2> PICK c \in Call, i \in Input : Start(c, i)
    BY <1>1
  <2>1. pc'[c] # "new" /\ age[c] = 0
    BY DEF Start, Arrive, Goto, Settle, Base, TypeOK
  <2>2. hook' = [hook EXCEPT ![c] = "open"] /\ age' = age
    BY DEF Start
  <2> SUFFICES ASSUME NEW d \in Call
               PROVE  /\ hook'[d] # "open" => age'[d] = 0
                      /\ hook'[d] = "open" =>
                            /\ pc'[d] # "new"
                            /\ age'[d] = 0 \/ (input'[d].event = "pre" /\ age'[d] <= HookWait)
    OBVIOUS
  <2>3. CASE d = c
    BY <2>1, <2>2, <2>3
  <2>4. CASE d # c
    BY <2>2, <2>4, <1>k
  <2> QED
    BY <2>3, <2>4
<1>2. CASE \E c \in Call : \E i \in Input : FailFast(c, i)
  BY <1>2, <1>k DEF FailFast
<1>3. CASE \E c \in Call : ReadReply(c) \/ GiveUp(c)
  BY <1>3, <1>k DEF ReadReply, GiveUp, Due
<1>4. CASE Fall
  BY <1>4, <1>k DEF Fall
<1>5. CASE Tick
  <2> SUFFICES ASSUME NEW c \in Call, hook[c] = "open"
               PROVE  pc[c] # "new" /\ input[c].event = "pre" /\ age[c] + 1 <= HookWait
    BY <1>5 DEF Tick, vars, callVars
  <2>1. ~Due(c) /\ ~Closed(c) /\ (pc[c] \in {"new", "done"} \/ Waiting(c))
    BY <1>5 DEF Tick, Urgent
  <2>2. pc[c] = "judging"
    BY <2>1 DEF Closed, Waiting
  <2> QED
    BY <2>1, <2>2, WaitAssumption DEF Due, Base, Stages, Routes
<1>6. CASE UNCHANGED hookVars
  BY <1>6, <1>k DEF hookVars
<1> QED
  BY <1>1, <1>2, <1>3, <1>4, <1>5, <1>6, HookCases

LEMMA HookBase == HookSpec => [](Base /\ CountersInv /\ HookTypeOK /\ Ages)
<1>1. HookInit => HookTypeOK /\ Ages
  BY DEF HookInit, HookTypeOK, Ages
<1>2. HookSpec => [](Base /\ CountersInv)
  BY DaemonCorrect
<1> QED
  BY <1>1, <1>2, HookTypeStep, AgesStep, PTL DEF HookSpec

\* A hook that is over has printed something, and nothing before.
THEOREM HookTypeCorrect == HookSpec => []HookTypeOK
  BY HookBase, PTL

\* No hook keeps agy waiting for longer than agy waits.
THEOREM InTimeCorrect == HookSpec => []InTime
<1>1. Base /\ HookTypeOK /\ Ages => InTime
  <2> SUFFICES ASSUME Base, HookTypeOK, Ages, NEW c \in Call, hook[c] = "open"
               PROVE  age[c] < AgyWait[input[c].event]
    BY DEF InTime
  <2>1. input[c].event \in {"pre", "post"}
    BY ConvType, InputFields DEF Base, Ages
  <2>2. AgyWait[input[c].event] \in Nat \ {0} /\ age[c] \in Nat
    BY <2>1, WaitAssumption DEF HookTypeOK
  <2> QED
    BY <2>1, <2>2, WaitAssumption DEF Ages
<1> QED
  BY <1>1, HookBase, PTL

(***************************************************************************)
(* What the agent was allowed is on record.                                *)
(***************************************************************************)

OnRecord(c) ==
    \/ c \in unwritten
    \/ \E e \in audit : e.call = c /\ (e.decision = "allow" \/ DryRun)

\* An allow on its way to a connected hook was decided, and its line is written,
\* or was to be, before the connection is closed.
Recorded ==
    \A c \in Call :
        /\ pc[c] = "audit" /\ answer[c] = "allow" => decision[c] = "allow" \/ DryRun
        /\ hook[c] = "open" /\ Closed(c) /\ answer[c] = "allow" /\ c \notin cut => OnRecord(c)

\* How a handler's steps establish it.
LEMMA RecordedStep == Base /\ Recorded /\ [Next]_vars /\ ~Die /\ UNCHANGED <<hook, cut>> => Recorded'
<1> SUFFICES ASSUME Base, Recorded, [Next]_vars, ~Die, UNCHANGED <<hook, cut>> PROVE Recorded'
  OBVIOUS
<1> USE DEF Base, TypeOK, Goto, memVars, logVars, judgeVars, history, callVars, Closed, OnRecord
<1>a. audit \subseteq audit' /\ unwritten \subseteq unwritten'
  BY Kept
<1>1. CASE \E c \in Call : \E i \in Input : Arrive(c, i)
  BY <1>1 DEF Arrive, Settle, Recorded
<1>2. CASE \E c \in Call : Refuse(c) \/ PostCheck(c)
  <2> PICK c \in Call : Refuse(c) \/ PostCheck(c)
    BY <1>2
  <2>1. PICK a \in {"lost", "continue", "deny", "terminate"} : Finish(c, a)
    BY DEF Refuse, PostCheck
  <2>2. UNCHANGED <<audit, unwritten, decision>>
    BY DEF Refuse, PostCheck
  <2> QED
    BY <2>1, <2>2 DEF Finish, Recorded
<1>3. CASE \E c \in Call : Lookup(c)
  BY <1>3 DEF Lookup, Settle, Recorded
<1>4. CASE \E c \in Call : AskJudge(c)
  BY <1>4 DEF AskJudge, Recorded
<1>5. CASE \E c \in Call : JudgeFailed(c) \/ JudgeMalformed(c)
  BY <1>5 DEF JudgeFailed, JudgeMalformed, Settle, Recorded
<1>6. CASE \E c \in Call : \E d \in {"allow", "deny"} : JudgeVerdict(c, d)
  BY <1>6 DEF JudgeVerdict, Recorded
<1>7. CASE \E c \in Call : Store(c) \/ Count(c) \/ Check(c)
  BY <1>7 DEF Store, Count, Check, Recorded
<1>8. CASE \E c \in Call : Reply(c)
  BY <1>8 DEF Reply, Recorded
<1>9. CASE \E c \in Call : Audit(c)
  <2> PICK c \in Call : Audit(c)
    BY <1>9
  <2>1. /\ pc[c] = "audit" /\ pc' = [pc EXCEPT ![c] = "done"]
        /\ UNCHANGED <<answer, decision>>
    BY DEF Audit
  <2>4. \A d \in Call : OnRecord(d) => OnRecord(d)'
    BY <1>a
  <2>7. CASE c \in unwritten'
    BY <2>1, <2>4, <2>7 DEF Recorded
  <2>8. CASE c \notin unwritten'
    <3> DEFINE line == [call |-> c, layer |-> layer[c], decision |-> decision[c],
                        escalated |-> escalated[c]]
    <3>1. line \in audit'
      BY <2>8 DEF Audit
    <3>2. line.call = c /\ line.decision = decision[c]
      OBVIOUS
    <3> HIDE DEF line
    <3>3. \E e \in audit' : e.call = c /\ e.decision = decision[c]
      BY <3>1, <3>2
    <3>4. answer[c] = "allow" => OnRecord(c)'
      BY <2>1, <3>3 DEF Recorded
    <3> QED
      BY <2>1, <2>4, <3>4 DEF Recorded
  <2> QED
    BY <2>7, <2>8
<1>10. CASE \E c \in Call : JudgeFinishes(c)
  BY <1>10 DEF JudgeFinishes, Recorded
<1>11. CASE Stop \/ Restart \/ UNCHANGED vars
  BY <1>11 DEF Stop, Restart, vars, Recorded
<1> QED
  BY <1>1, <1>2, <1>3, <1>4, <1>5, <1>6, <1>7, <1>8, <1>9, <1>10, <1>11, StepCases

\* An agent that was allowed a call finds it in the audit file, unless the daemon
\* died under the connected hook or the write of the line failed.
THEOREM RecordCorrect == HookSpec => []AllowOnRecord
<1> DEFINE Inv == Recorded /\ AllowOnRecord
<1>1. HookInit => Inv
  BY DEF HookInit, Init, Recorded, AllowOnRecord
<1>2. Base /\ HookTypeOK /\ Ages /\ Inv /\ [HookNext]_hvars => Inv'
  <2> SUFFICES ASSUME Base, HookTypeOK, Ages, Recorded, AllowOnRecord, [HookNext]_hvars PROVE Inv'
    OBVIOUS
  <2>a. audit \subseteq audit' /\ unwritten \subseteq unwritten'
    BY DaemonStep, Kept
  <2>b. ASSUME UNCHANGED shown, cut \subseteq cut' PROVE AllowOnRecord'
    BY <2>a, <2>b DEF AllowOnRecord
  <2>1. CASE \E c \in Call : \E i \in Input : Start(c, i)
    <3> PICK c \in Call, i \in Input : Start(c, i)
      BY <2>1
    <3>1. /\ UNCHANGED <<shown, cut, answer, logVars>> /\ hook' = [hook EXCEPT ![c] = "open"]
          /\ pc[c] = "new"
      BY DEF Start, Arrive
    <3>2. pc'[c] \notin {"audit", "done"} /\ \A d \in Call : d # c => UNCHANGED <<pc[d], decision[d]>>
      BY DEF Start, Arrive, Goto, Settle, Base, TypeOK
    <3>3. Recorded'
      BY <3>1, <3>2 DEF Recorded, OnRecord, Closed, HookTypeOK, logVars
    <3> QED
      BY <2>b, <3>1, <3>3
  <2>2. CASE \E c \in Call : \E i \in Input : FailFast(c, i)
    BY <2>2 DEF FailFast, Say, failing, vars, callVars, logVars, Recorded, AllowOnRecord, OnRecord, Closed, HookTypeOK
  <2>3. CASE \E c \in Call : ReadReply(c)
    <3> PICK c \in Call : ReadReply(c)
      BY <2>3
    <3>1. /\ UNCHANGED <<pc, answer, decision, audit, unwritten, cut>>
          /\ hook' = [hook EXCEPT ![c] = "over"]
      BY DEF ReadReply, Say, vars, callVars, logVars
    <3>2. Recorded'
      BY <3>1 DEF Recorded, OnRecord, Closed, HookTypeOK
    <3> DEFINE a == IF answer[c] = "lost" THEN failing(input[c].event) ELSE answer[c]
    <3>3. shown' = [shown EXCEPT ![c] = a] /\ (a = "allow" => answer[c] = "allow")
      BY DEF ReadReply, Say, failing
    <3> HIDE DEF a
    <3>4. a = "allow" /\ c \notin cut => OnRecord(c)
      BY <3>3 DEF Recorded, ReadReply
    <3>5. ASSUME NEW d \in Call, shown'[d] = "allow", d \notin cut PROVE OnRecord(d)
      <4>1. CASE d = c
        BY <3>3, <3>4, <3>5, <4>1 DEF HookTypeOK
      <4>2. CASE d # c
        BY <3>3, <3>5, <4>2 DEF AllowOnRecord, OnRecord, HookTypeOK
      <4> QED
        BY <4>1, <4>2
    <3>6. AllowOnRecord'
      BY <3>1, <3>5 DEF AllowOnRecord, OnRecord
    <3> QED
      BY <3>2, <3>6
  <2>4. CASE \E c \in Call : GiveUp(c)
    BY <2>4 DEF GiveUp, Say, failing, vars, callVars, logVars, Recorded, AllowOnRecord, OnRecord, Closed, HookTypeOK
  <2>5. CASE Fall
    BY <2>5, <2>b, DaemonStep, Kept DEF Fall, Die, Recorded, OnRecord, Closed, Base, TypeOK, HookTypeOK
  <2>6. CASE Tick
    BY <2>6, <2>b DEF Tick, vars, callVars, logVars, Recorded, OnRecord, Closed
  <2>7. CASE [Next]_vars /\ UNCHANGED hookVars /\ ~Die
    BY <2>7, <2>b, RecordedStep DEF hookVars
  <2> QED
    BY <2>1, <2>2, <2>3, <2>4, <2>5, <2>6, <2>7, HookCases
<1> QED
  BY <1>1, <1>2, HookBase, PTL DEF HookSpec

(***************************************************************************)
(* What the agent has been told is counted.                                *)
(***************************************************************************)

InOrder(c) == \E i \in DOMAIN order : order[i] = c

\* From its first critical section on, a call has its place in order; a denial on
\* its way to a connected hook has one too.
Traced ==
    \A c \in Call :
        /\ pc[c] \in {"check", "reply", "audit"} => InOrder(c)
        /\ pc[c] = "audit" /\ CountedDenial(c) => decision[c] = "deny"
        /\ hook[c] = "open" /\ Closed(c) /\ CountedDenial(c) /\ c \notin cut =>
              InOrder(c) /\ decision[c] = "deny"

\* So has a denial that was printed.
ToldTraced == \A c \in told : pc[c] = "done" /\ InOrder(c) /\ decision[c] = "deny"

\* The order only grows, but for the daemon's death.
LEMMA OrderGrows ==
    ASSUME Base, [Next]_vars, ~Die, NEW c \in Call, InOrder(c)
    PROVE  InOrder(c)'
<1> USE DEF memVars, logVars, judgeVars, history, callVars
<1>1. CASE \E d \in Call : Count(d)
  <2> PICK d \in Call : Count(d)
    BY <1>1
  <2>1. order \in Seq(Call) /\ order' = Append(order, d)
    BY DEF Count, Base, TypeOK
  <2> QED
    BY <2>1 DEF InOrder
<1>2. CASE UNCHANGED order
  BY <1>2 DEF InOrder
<1> QED
  BY <1>1, <1>2, StepCases
     DEF Arrive, Refuse, PostCheck, Lookup, AskJudge, JudgeFailed, JudgeMalformed, JudgeVerdict,
         Store, Check, Reply, Audit, JudgeFinishes, Stop, Restart, vars

LEMMA TracedStep == Base /\ Traced /\ [Next]_vars /\ ~Die /\ UNCHANGED <<hook, cut>> => Traced'
<1> SUFFICES ASSUME Base, Traced, [Next]_vars, ~Die, UNCHANGED <<hook, cut>> PROVE Traced'
  OBVIOUS
<1> USE DEF Base, TypeOK, Goto, memVars, logVars, judgeVars, history, callVars, Closed, CountedDenial
<1>a. \A c \in Call : InOrder(c) => InOrder(c)'
  BY OrderGrows
<1>b. \A c \in Call : pc[c] # "new" => input'[c] = input[c]
  BY Kept
<1>1. CASE \E c \in Call : \E i \in Input : Arrive(c, i)
  BY <1>1, <1>a DEF Arrive, Settle, Traced
<1>2. CASE \E c \in Call : Refuse(c)
  <2> PICK c \in Call : Refuse(c)
    BY <1>2
  <2>1. /\ pc' = [pc EXCEPT ![c] = "done"] /\ UNCHANGED <<input, decision>>
        /\ \A d \in Call : d # c => answer'[d] = answer[d]
    BY DEF Refuse, Finish
  <2>2. pc[c] = "refuse" /\ answer'[c] = "deny" => input[c].kind = "garbled"
    BY DEF Refuse, Finish, Stages, Routes
  <2>3. pc[c] = "refuse"
    BY DEF Refuse
  <2> QED
    BY <1>a, <2>1, <2>2, <2>3 DEF Traced
<1>3. CASE \E c \in Call : PostCheck(c)
  BY <1>3, <1>a DEF PostCheck, Finish, Traced
<1>4. CASE \E c \in Call : Lookup(c)
  BY <1>4, <1>a DEF Lookup, Settle, Traced
<1>5. CASE \E c \in Call : AskJudge(c)
  BY <1>5, <1>a DEF AskJudge, Traced
<1>6. CASE \E c \in Call : JudgeFailed(c) \/ JudgeMalformed(c)
  BY <1>6, <1>a DEF JudgeFailed, JudgeMalformed, Settle, Traced
<1>7. CASE \E c \in Call : \E d \in {"allow", "deny"} : JudgeVerdict(c, d)
  BY <1>7, <1>a DEF JudgeVerdict, Traced
<1>8. CASE \E c \in Call : Store(c)
  BY <1>8, <1>a DEF Store, Traced
<1>9. CASE \E c \in Call : Count(c)
  <2> PICK c \in Call : Count(c)
    BY <1>9
  <2>1. order \in Seq(Call) /\ order' = Append(order, c)
    BY DEF Count
  <2>2. InOrder(c)'
    BY <2>1 DEF InOrder
  <2> QED
    BY <1>a, <2>2 DEF Count, Traced
<1>10. CASE \E c \in Call : Check(c) \/ Reply(c) \/ Audit(c)
  BY <1>10, <1>a DEF Check, Reply, Audit, Traced
<1>11. CASE \E c \in Call : JudgeFinishes(c)
  BY <1>11, <1>a DEF JudgeFinishes, Traced
<1>12. CASE Stop \/ Restart \/ UNCHANGED vars
  BY <1>12, <1>a DEF Stop, Restart, vars, Traced
<1> QED
  BY <1>1, <1>2, <1>3, <1>4, <1>5, <1>6, <1>7, <1>8, <1>9, <1>10, <1>11, <1>12, StepCases

LEMMA ToldStep ==
    ASSUME Base, HookTypeOK, Ages, Traced, ToldTraced, [HookNext]_hvars
    PROVE  Traced' /\ ToldTraced'
<1> USE DEF Closed, CountedDenial, InOrder
<1>k. \A c \in Call : pc[c] = "done" => pc'[c] = "done" /\ decision'[c] = decision[c]
  BY DaemonStep, Kept
<1>t. told \subseteq Call
  BY DEF HookTypeOK
<1>1. CASE \E c \in Call : \E i \in Input : Start(c, i)
  <2> PICK c \in Call, i \in Input : Start(c, i)
    BY <1>1
  <2>1. /\ UNCHANGED <<cut, told, answer, order>> /\ hook' = [hook EXCEPT ![c] = "open"]
        /\ pc[c] = "new"
    BY DEF Start, Arrive, history
  <2>2. /\ pc'[c] \notin {"check", "reply", "audit", "done"}
        /\ \A d \in Call : d # c => UNCHANGED <<pc[d], decision[d], input[d]>>
    BY DEF Start, Arrive, Goto, Settle, Base, TypeOK
  <2>3. Traced'
    BY <2>1, <2>2 DEF Traced, HookTypeOK
  <2> QED
    BY <1>k, <1>t, <2>1, <2>3 DEF ToldTraced
<1>2. CASE \E c \in Call : \E i \in Input : FailFast(c, i)
  BY <1>2 DEF FailFast, Say, vars, callVars, history, Traced, ToldTraced, HookTypeOK
<1>3. CASE \E c \in Call : ReadReply(c)
  BY <1>3 DEF ReadReply, Say, vars, callVars, history, Traced, ToldTraced, HookTypeOK
<1>4. CASE \E c \in Call : GiveUp(c)
  BY <1>4 DEF GiveUp, Say, vars, callVars, history, Traced, ToldTraced, HookTypeOK
<1>5. CASE Fall
  <2>1. \A c \in Call : pc'[c] \in {"new", "done"} /\ (hook'[c] = "open" => c \in cut')
    BY <1>5 DEF Fall, Die, Base, TypeOK
  <2> QED
    BY <1>5, <2>1 DEF Fall, Traced, ToldTraced
<1>6. CASE Tick
  BY <1>6 DEF Tick, vars, callVars, history, Traced, ToldTraced
<1>7. CASE [Next]_vars /\ UNCHANGED hookVars /\ ~Die
  <2>1. Traced'
    BY <1>7, TracedStep DEF hookVars
  <2>2. \A c \in Call : InOrder(c) => InOrder(c)'
    BY <1>7, OrderGrows
  <2> QED
    BY <1>7, <1>k, <1>t, <2>1, <2>2 DEF hookVars, ToldTraced
<1> QED
  BY <1>1, <1>2, <1>3, <1>4, <1>5, <1>6, <1>7, HookCases

\* As many positions of order hold denials as denials were printed, or more.
LEMMA ToldCounted ==
    ASSUME Base, CountersInv, HookTypeOK, ToldTraced
    PROVE  ToldIsCounted
<1> SUFFICES ASSUME NEW v \in Conv PROVE Cardinality(ToldOf(v)) <= denials[v].total
  BY DEF ToldIsCounted
<1> DEFINE place == [c \in ToldOf(v) |-> CHOOSE i \in Denied(v) : order[i] = c]
<1>1. \A c \in ToldOf(v) : \E i \in Denied(v) : order[i] = c
  <2> SUFFICES ASSUME NEW c \in ToldOf(v) PROVE \E i \in Denied(v) : order[i] = c
    OBVIOUS
  <2>1. c \in told /\ conv(c) = v
    BY DEF ToldOf
  <2>2. PICK i \in DOMAIN order : order[i] = c /\ decision[c] = "deny"
    BY <2>1 DEF ToldTraced, InOrder
  <2>3. i \in Denied(v)
    BY <2>1, <2>2 DEF Denied, OfConv
  <2> QED
    BY <2>2, <2>3
<1>2. \A c \in ToldOf(v) : place[c] \in Denied(v) /\ order[place[c]] = c
  BY <1>1
<1>3. place \in Injection(ToldOf(v), Denied(v))
  BY <1>2 DEF Injection, IsInjective
<1>4. IsFiniteSet(Denied(v)) /\ denials[v].total = Cardinality(Denied(v))
  BY PositionsFinite DEF Base, CountersInv, CountersExact
<1> QED
  BY <1>3, <1>4, FS_Injection

\* The daemon's counters are never behind what its hooks have printed.
THEOREM ToldCorrect == HookSpec => []ToldIsCounted
<1>1. HookInit => Traced /\ ToldTraced
  BY DEF HookInit, Init, Traced, ToldTraced, CountedDenial, Closed
<1>2. Base /\ HookTypeOK /\ Ages /\ Traced /\ ToldTraced /\ [HookNext]_hvars => Traced' /\ ToldTraced'
  BY ToldStep
<1>3. Base /\ CountersInv /\ HookTypeOK /\ ToldTraced => ToldIsCounted
  BY ToldCounted
<1> QED
  BY <1>1, <1>2, <1>3, HookBase, PTL DEF HookSpec

\* A run that was told of as many denials as it may have is stopped by the next
\* PostInvocation that this daemon answers.
THEOREM StopsCorrect == HookSpec => StopsAsTold
<1>1. Base /\ HookTypeOK /\ ToldIsCounted /\ [HookNext]_hvars =>
        [\A c \in Call : pc[c] = "post" /\ answer'[c] = "continue" =>
            Cardinality(ToldOf(conv(c))) < MaxTotal]_hvars
  <2> SUFFICES ASSUME Base, HookTypeOK, ToldIsCounted, [HookNext]_hvars,
                      NEW c \in Call, pc[c] = "post", answer'[c] = "continue"
               PROVE  Cardinality(ToldOf(conv(c))) < MaxTotal
    OBVIOUS
  <2>1. answer[c] = "none" /\ answer \in [Call -> {"none", "allow", "deny", "continue", "terminate", "lost"}]
    BY DEF Base, Stages, Unanswered, TypeOK
  <2>2. PICK u \in Conv : u = conv(c)
    BY ConvType DEF Base
  <2>3. PostCheck(c)
    BY <2>1, StepCases, DaemonStep, ZenonT(40)
       DEF Arrive, Refuse, PostCheck, Lookup, AskJudge, JudgeFailed, JudgeMalformed, JudgeVerdict,
           Store, Count, Check, Reply, Audit, JudgeFinishes, Die, Stop, Restart, vars, callVars, Finish
  <2>4. ~OverLimit(conv(c))
    BY <2>1, <2>3 DEF PostCheck, Finish
  <2>5. denials[u].total \in Nat /\ MaxTotal \in Nat /\ ~(denials[u].total >= MaxTotal)
    BY <2>2, <2>4, LimitAssumption DEF OverLimit, Base, TypeOK, Limits
  <2>6. Cardinality(ToldOf(u)) <= denials[u].total /\ Cardinality(ToldOf(u)) \in Nat
    BY FS_Subset, FS_CardinalityType, SetAssumption DEF ToldIsCounted, ToldOf, HookTypeOK
  <2> QED
    BY <2>2, <2>5, <2>6
<1> QED
  BY <1>1, HookBase, ToldCorrect, PTL DEF HookSpec, StopsAsTold
====
