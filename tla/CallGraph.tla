------------------------------ MODULE CallGraph -------------------------------
(* CallGraphManager: the call graph of the program under compilation, kept  *)
(* by increments.  Bodies are read when a function is first met, and the    *)
(* passes of the front end rewrite them, so that calls come and go.         *)
EXTENDS Integers, FiniteSets

CONSTANTS
  Function,   \* the functions of the program and of its libraries
  Root,       \* those given with --top-fname
  WithBody,   \* those with an implementation
  Body        \* Body[f]: the call points that reading the statements of f finds

CallType == {"direct_call", "indirect_call", "function_address"}

(* A call point: the statement call_id of caller calls called, or takes its *)
(* address.                                                                 *)
CallPointOf(f) == [caller : {f}, called : Function, call_id : Nat, call_type : CallType]

ASSUME ProgramAssumption ==
  /\ Root \subseteq WithBody /\ WithBody \subseteq Function
  /\ \A f \in Function : Body[f] \subseteq CallPointOf(f)

VARIABLES
  functions,             \* the vertices
  call_points,           \* direct_call_points, indirect_call_points and function_addresses of all edges
  called_by,             \* called_by[f]: the functions that f calls
  acyclic,               \* the edges with STD_SELECTOR; the others have FEEDBACK_SELECTOR
  addressed_functions,
  reached_body_functions,
  reached_library_functions,
  to_add                 \* call points of addCallPointAndExpand still to be added

graph == <<functions, call_points, called_by, acyclic, addressed_functions,
           reached_body_functions, reached_library_functions, to_add>>

-------------------------------------------------------------------------------
Between(points, f, g) == {p \in points : p.caller = f /\ p.called = g}

Closed(calls, X) == \A f \in X : calls[f] \subseteq X

(* What depth_first_visit reaches from S: the least set with S and, of each *)
(* function in it, the functions called.                                    *)
ReachedFrom(calls, S) ==
  {f \in Function : \A X \in SUBSET Function : S \subseteq X /\ Closed(calls, X) => f \in X}

(* GetReachedFunctionsFrom *)
GetReachedFunctionsFrom(f) == ReachedFrom(called_by, {f}) \cap WithBody

(* TopologicalSort succeeds: every nonempty set of functions has one that   *)
(* no other of the set calls.                                               *)
Sorts(edges) ==
  \A X \in (SUBSET Function) \ {{}} : \E f \in X : \A g \in X : <<g, f>> \notin edges

(* ComputeRootAndReachedFunctions, with the calls as they have just become. *)
(* Only a root that is a vertex is visited.                                 *)
RecomputedFromAll ==   \* mutant: a function that nobody calls any more stays
  LET reached == ReachedFrom(called_by', functions')
  IN  /\ reached_body_functions' = reached \cap WithBody
      /\ reached_library_functions' = reached \ WithBody
EveryVertexIsBody ==   \* mutant: has_implementation is not asked
  LET reached == ReachedFrom(called_by', Root \cap functions')
  IN  /\ reached_body_functions' = reached
      /\ reached_library_functions' = reached \ WithBody
ComputeRootAndReachedFunctions ==
  LET reached == ReachedFrom(called_by', Root \cap functions')
  IN  /\ reached_body_functions' = reached \cap WithBody
      /\ reached_library_functions' = reached \ WithBody

(* back_edge: allow_recursive_functions is false, and a cycle that a visit  *)
(* meets is an error that ends the program.                                 *)
Recursive ==
  \E X \in (SUBSET (reached_body_functions \cup reached_library_functions)) \ {{}} :
    \A f \in X : \E g \in X : f \in called_by[g]

-------------------------------------------------------------------------------
(* AddFunctionAndCallPoint of a call point that addCallPointAndExpand was   *)
(* given or met in a body it reads: the body of a function first met, if it *)
(* has one, is read next.                                                   *)
NewBodyOf(f) == IF f \in WithBody \ functions THEN Body[f] ELSE {}

AcyclicWithEvery(e) == acyclic \cup {e}   \* mutant: the sort is not tried
AcyclicWith(e) == IF Sorts(acyclic \cup {e}) THEN acyclic \cup {e} ELSE acyclic

AddCallPoint(p) ==
  LET isNewCall == p.called \notin called_by[p.caller]
  IN  /\ p \in to_add
      /\ to_add' = (to_add \ {p}) \cup NewBodyOf(p.called)
      /\ functions' = functions \cup {p.called}
      /\ call_points' = call_points \cup {p}
      /\ called_by' = [called_by EXCEPT ![p.caller] = @ \cup {p.called}]
      /\ acyclic' = IF isNewCall THEN AcyclicWith(<<p.caller, p.called>>) ELSE acyclic
      /\ addressed_functions' = addressed_functions \cup
           (IF p.call_type = "direct_call" THEN {} ELSE {p.called})
      /\ ComputeRootAndReachedFunctions

(* RemoveCallPoint of a direct call that a pass takes out of a body.  The   *)
(* edge goes with its last call point.  Then the edge's indirect calls and  *)
(* addresses are looked at, whatever those of the other edges into the      *)
(* function: of an edge that is gone they are freed memory, which may be    *)
(* read either way.                                                         *)
RemoveCallPoint(p) ==
  LET rest == Between(call_points \ {p}, p.caller, p.called)
      gone == rest = {}
      noAddress == \A q \in rest : q.call_type = "direct_call"
  IN  /\ p \in call_points /\ p.call_type = "direct_call"
      /\ call_points' = call_points \ {p}
      /\ called_by' = IF gone THEN [called_by EXCEPT ![p.caller] = @ \ {p.called}] ELSE called_by
      /\ acyclic' = IF gone THEN acyclic \ {<<p.caller, p.called>>} ELSE acyclic
      /\ \/ noAddress /\ addressed_functions' = addressed_functions \ {p.called}
         \/ (gone \/ ~noAddress) /\ UNCHANGED addressed_functions
      /\ functions' = functions
      /\ ComputeRootAndReachedFunctions

-------------------------------------------------------------------------------
(* call_graph_computation: the roots are added, and their bodies read.      *)
GraphInit ==
  /\ functions = Root
  /\ call_points = {}
  /\ called_by = [f \in Function |-> {}]
  /\ acyclic = {}
  /\ addressed_functions = {}
  /\ reached_body_functions = Root
  /\ reached_library_functions = {}
  /\ to_add = UNION {Body[f] : f \in Root}

Expanding == to_add # {}

-------------------------------------------------------------------------------
CallPoint == [caller : Function, called : Function, call_id : Nat, call_type : CallType]

GraphTypeOK ==
  /\ functions \subseteq Function
  /\ call_points \subseteq CallPoint /\ to_add \subseteq CallPoint
  /\ called_by \in [Function -> SUBSET Function]
  /\ acyclic \subseteq Function \X Function
  /\ addressed_functions \subseteq functions
  /\ reached_body_functions \subseteq WithBody
  /\ reached_library_functions \subseteq Function \ WithBody

(* The three representations of an edge agree: an edge is in called_by as   *)
(* long as it has a call point, and no edge of the acyclic view is left     *)
(* over from one that was removed.                                          *)
EdgesAgree ==
  /\ \A f, g \in Function : g \in called_by[f] <=> Between(call_points, f, g) # {}
  /\ \A f, g \in Function : <<f, g>> \in acyclic => g \in called_by[f]

(* The acyclic version of the call graph has no cycle, in whatever order    *)
(* calls came and went.                                                     *)
AcyclicIsAcyclic == Sorts(acyclic)

(* The reached functions, computed when an edge is drawn or removed and     *)
(* read by every pass, are those the call points lead to.                   *)
CallsByPoints == [f \in Function |-> {p.called : p \in {q \in call_points : q.caller = f}}]
ReachedIsCurrent ==
  reached_body_functions \cup reached_library_functions = ReachedFrom(CallsByPoints, Root)

(* addressed_functions is the set of functions whose address is taken.      *)
AddressTaken == {p.called : p \in {q \in call_points : q.call_type # "direct_call"}}
AddressedIsAddressTaken == addressed_functions = AddressTaken
===============================================================================
