---- MODULE MCLifecycle ----
(***************************************************************************)
(* Lifecycle.tla with the systemd unit and two daemons started by hand.    *)
(***************************************************************************)
EXTENDS Lifecycle

Daemons == {"unit", "first", "second"}
Units == {"unit"}
====
