----------------------------- MODULE MCDesignFlow -----------------------------
(* Instances of DesignFlowManager: four steps and what they may answer. *)
EXTENDS DesignFlowManager

CONSTANTS a, b, c, d

Steps == {a, b, c, d}

Nothing == [s \in Steps |-> {{}}]

(* Answers that grow and shrink: d rests on c and sometimes on b, c on a;  *)
(* b must only precede d; c may send the flow back to a, d to b.           *)
ChangingDependence ==
  [Nothing EXCEPT ![b] = {{}, {a}}, ![c] = {{a}}, ![d] = {{c}, {b, c}}]
ChangingPrecedence ==
  [Nothing EXCEPT ![c] = {{b}, {}}, ![d] = {{b}, {}}]
ChangingInvalidation ==
  [Nothing EXCEPT ![c] = {{}, {a}}, ![d] = {{}, {b}, {a, c}}]

(* Answers that never change: d rests on c, c on a, and b, which rests on  *)
(* a, only precedes d.                                                     *)
FixedDependence == [Nothing EXCEPT ![b] = {{a}}, ![c] = {{a}}, ![d] = {{c}}]
FixedPrecedence == [Nothing EXCEPT ![d] = {{b}}]
FixedInvalidation == [Nothing EXCEPT ![c] = {{}, {a}}, ![d] = {{}, {a, c}}]

(* As above, but nothing else rests on a, which is skipped like b: d may   *)
(* send the flow back to both.                                             *)
SkippedDependence == [Nothing EXCEPT ![b] = {{a}}, ![d] = {{c}}]
SkippedToBoth == [Nothing EXCEPT ![d] = {{}, {a, b}}]

(* d may send the flow back to b alone, whose dependence a was skipped.    *)
SkippedToOne == [Nothing EXCEPT ![d] = {{}, {b}}]

===============================================================================
