------------------------------- MODULE MCMemory -------------------------------
(* Instances of MemoryManager: a pool of nine quantas. *)
EXTENDS MemoryManager
===============================================================================
