---- MODULE MCTranscript ----
(***************************************************************************)
(* Transcript.tla on small instances: a short request and a long one that  *)
(* is cut, with Clip and Room scaled down.                                 *)
(***************************************************************************)
EXTENDS Transcript

CONSTANTS short, long

LengthOf == [t \in Text |-> CASE t = short -> 1 [] t = long -> 9]

Symmetry == Permutations(Reader)
====
