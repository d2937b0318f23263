----------------------------- MODULE StepOrdering -----------------------------
(***************************************************************************)
(* What the design flow manager promises to the steps it schedules, with   *)
(* neither a graph nor a queue: a step completes only when everything it   *)
(* asked for has completed, and when work is undone, everything that was   *)
(* built on it is undone in the same breath.                               *)
(*                                                                         *)
(* DesignFlowManager implements this module (RefinesStepOrdering there).   *)
(***************************************************************************)
CONSTANT Step      \* the steps a flow may contain

VARIABLES
  known,           \* the steps the flow has met so far
  done,            \* the steps whose result currently stands
  needs            \* needs[s]: what s asked for when it last completed

vars == <<known, done, needs>>

TypeOK ==
  /\ known \in SUBSET Step
  /\ done \in SUBSET known
  /\ needs \in [Step -> SUBSET Step]

Init ==
  /\ known = {}
  /\ done = {}
  /\ needs = [s \in Step |-> {}]

(* New steps enter the flow, not yet completed. *)
Discover ==
  /\ known' \in SUBSET Step /\ known \subseteq known'
  /\ UNCHANGED <<done, needs>>

(* s completes; whatever it asked for stands at that moment. *)
Complete(s) ==
  /\ s \in known \ done
  /\ done' = done \cup {s}
  /\ needs' \in [Step -> SUBSET Step] /\ needs'[s] \subseteq done
  /\ \A r \in Step \ {s} : needs'[r] = needs[r]
  /\ UNCHANGED known

(* Results are withdrawn; nothing that was built on them still stands. *)
Withdraw ==
  /\ done' \in SUBSET done
  /\ \A s \in done' : needs[s] \subseteq done'
  /\ UNCHANGED <<known, needs>>

Next ==
  \/ Discover
  \/ \E s \in Step : Complete(s)
  \/ Withdraw

Spec == Init /\ [][Next]_vars

(* No result outlives what it was built on. *)
Grounded == \A s \in done : needs[s] \subseteq done
===============================================================================
