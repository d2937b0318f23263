------------------------------- MODULE MCFifio --------------------------------
(* Instances of Fifio for a worker of two, three and four slots. *)
EXTENDS Fifio
===============================================================================
