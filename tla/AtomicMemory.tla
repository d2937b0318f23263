----------------------------- MODULE AtomicMemory -----------------------------
(* What the memory of the context-switch architecture promises its tasks:   *)
(* a request is performed once and then answered once, to the task that     *)
(* made it; and from the load to the store of an atomic operation nobody    *)
(* else writes the bank, nor begins an atomic operation there.              *)
CONSTANTS
  Task, Bank,
  NoRequest, NoBank      \* no request is outstanding; no atomic operation is open

VARIABLES
  request,     \* request[t]: what t waits for, [task, kind, bank], or NoRequest
  owes,        \* owes[t]: the bank whose atomic load t got and has to store to
  performed    \* the tasks whose request the memory has performed

vars == <<request, owes, performed>>

Init ==
  /\ request = [t \in Task |-> NoRequest]
  /\ owes = [t \in Task |-> NoBank]
  /\ performed = {}

-------------------------------------------------------------------------------
Is(t, kind) == request[t] # NoRequest /\ request[t].kind = kind

(* t is between the load and the store of an atomic operation on b. *)
Holds(t, b) ==
  \/ Is(t, "atomic load") /\ t \in performed /\ request[t].bank = b
  \/ owes[t] = b /\ ~ (Is(t, "atomic store") /\ t \in performed)

Stays(t) ==
  request'[t] = request[t] /\ owes'[t] = owes[t] /\ (t \in performed' <=> t \in performed)

Issue(t) ==
  /\ request[t] = NoRequest
  /\ request'[t] # NoRequest /\ request'[t].task = t
  /\ IF owes[t] = NoBank THEN request'[t].kind # "atomic store"
                         ELSE request'[t].kind = "atomic store" /\ request'[t].bank = owes[t]
  /\ owes'[t] = owes[t] /\ t \notin performed'

Perform(t) ==
  /\ request[t] # NoRequest /\ t \notin performed
  /\ Is(t, "load") \/ \A u \in Task \ {t} : LET b == request[t].bank IN ~ Holds(u, b) /\ ~ Holds(u, b)'
  /\ request'[t] = request[t] /\ owes'[t] = owes[t] /\ t \in performed'

Answer(t) ==
  /\ t \in performed /\ t \notin performed'
  /\ request'[t] = NoRequest
  /\ owes'[t] = IF Is(t, "atomic load") THEN request[t].bank
                ELSE IF Is(t, "atomic store") THEN NoBank
                ELSE owes[t]

(* In one cycle each task may take a step. *)
Next == \A t \in Task : Stays(t) \/ Issue(t) \/ Perform(t) \/ Answer(t)

Spec == Init /\ [][Next]_vars
===============================================================================
