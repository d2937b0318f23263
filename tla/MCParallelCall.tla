---------------------------- MODULE MCParallelCall ----------------------------
(* Instances of ParallelCall: a few workers, a few iterations. *)
EXTENDS ParallelCall
===============================================================================
