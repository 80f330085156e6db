---- MODULE MCHook ----
(***************************************************************************)
(* Hook.tla on a small instance: two connections of every kind, and a      *)
(* judge that may take longer than the hook and agy wait, or for ever: the *)
(* request of the second key does not fit its worker's pipe.               *)
(***************************************************************************)
EXTENDS Hook

CONSTANTS v1, k1, k2, b1, b2

Pre(kind, k) ==
    [event |-> "pre", kind |-> kind, conv |-> v1, key |-> k, body |-> IF k = k1 THEN b1 ELSE b2]

\* What a hook may send, and one connection that is no hook's.
InputAll ==
    {Pre("allow", k1), Pre("deny", k1), Pre("garbled", k1), Pre("judge", k1), Pre("judge", k2),
     Pre("headerless", k1), [Pre("allow", k1) EXCEPT !.event = "post"]}

\* agy waits 60 s for PreToolUse, longer than the hook, and 10 s for
\* PostInvocation, less.
Waits == [pre |-> 3, post |-> 1]
====
