---- MODULE MCPool ----
(***************************************************************************)
(* Pool.tla on small instances.  The .cfg files choose the sets; symmetry  *)
(* is used in the runs that check invariants only.                         *)
(***************************************************************************)
EXTENDS Pool, TLC

Symmetry == Permutations(Worker) \cup Permutations(Caller) \cup Permutations(Request)
====
