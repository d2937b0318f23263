----------------------------- MODULE ParallelLoop -----------------------------
(* What a call of a parallel function promises its caller: the iterations   *)
(* of the loop begin in order, each begins once and ends once, and the call *)
(* returns when all of them have ended.                                     *)
EXTENDS Naturals

CONSTANT Loops      \* the numbers of iterations a call may ask for

VARIABLES
  running,          \* whether a call is under way
  iterations,       \* how many iterations it asked for
  begun, ended      \* the iterations of the call that have begun and ended

vars == <<running, iterations, begun, ended>>

Iterations == 0 .. (iterations - 1)

Init == ~ running /\ iterations = 0 /\ begun = {} /\ ended = {}

Call(n) ==
  /\ ~ running
  /\ running' = TRUE
  /\ iterations' = n
  /\ begun' = {} /\ ended' = {}

(* In one cycle several workers may end an iteration while one begins. *)
Progress ==
  /\ running /\ running'
  /\ begun' = begun \/ \E i \in Iterations : begun = 0 .. (i - 1) /\ begun' = 0 .. i
  /\ ended \subseteq ended' /\ ended' \subseteq begun
  /\ UNCHANGED iterations

Return ==
  /\ running
  /\ ended = Iterations
  /\ running' = FALSE
  /\ UNCHANGED <<iterations, begun, ended>>

Next == (\E n \in Loops : Call(n)) \/ Progress \/ Return

Spec == Init /\ [][Next]_vars
===============================================================================
