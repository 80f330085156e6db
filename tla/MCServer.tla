---- MODULE MCServer ----
(***************************************************************************)
(* Server.tla on small instances.  Each .cfg takes the calls that may      *)
(* arrive from the sets below.                                             *)
(***************************************************************************)
EXTENDS Server, TLC

CONSTANTS v1, v2, k1, k2, b1, b2

Pre(kind, v, k, b) == [event |-> "pre", kind |-> kind, conv |-> v, key |-> k, body |-> b]
Post(v) == [event |-> "post", kind |-> "allow", conv |-> v, key |-> k1, body |-> b1]

\* One conversation, and every kind of call.
InputOneConv ==
    {Pre(kind, v1, k1, b1) : kind \in {"allow", "deny", "judge", "garbled"}} \cup {Post(v1)}

\* Bound: at most one of the calls is not for the rules to decide.
OneBeyondRules ==
    Cardinality({c \in Call : pc[c] # "new" /\ input[c].kind \in {"judge", "garbled"}}) <= 1

\* What goes to the judge: two keys, and two requests that share the first.
InputJudge == {Pre("judge", v1, k1, b1), Pre("judge", v1, k1, b2), Pre("judge", v1, k2, b1)}

Symmetry == Permutations(Call)
====
