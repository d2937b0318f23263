--------------------------- MODULE MCContextSwitch ----------------------------
(* Instances of ContextSwitch: few workers, slots and iterations. *)
EXTENDS ContextSwitch
===============================================================================
