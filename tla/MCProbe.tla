---- MODULE MCProbe ----
(***************************************************************************)
(* Probe.tla on a small instance.                                          *)
(***************************************************************************)
EXTENDS Probe
====
