----------------------------- MODULE FunctionSteps ----------------------------
(* The steps of the flow and the versions of what they work on.  A pass     *)
(* that changes the representation of a function gives it a new version,    *)
(* and every step notes the versions it has seen; asked by the manager      *)
(* whether it has to be executed, it compares.  Meanwhile passes rewrite    *)
(* the calls of the CallGraph, and with them the functions a step depends   *)
(* on.                                                                      *)
EXTENDS CallGraph

CONSTANTS
  NewCalls,    \* NewCalls[f]: call points that passes may put in the body of f
  Synthesised, \* the functions whose synthesis step is looked at: it changes nothing others read
  MaxChanges   \* bound of the instance: how often anything is changed

ASSUME ChangesAssumption ==
  /\ MaxChanges \in Nat /\ Synthesised \subseteq Function
  /\ \A f \in Function : NewCalls[f] \subseteq CallPointOf(f)

VARIABLES
  bb_version, bitvalue_version,   \* of FunctionBehavior
  memory_version,                 \* of HLS_manager
  pass,        \* pass[f]: version of f noted by a pass over its basic blocks
  bit_value,   \* bit_value[f]: versions of f noted by BIT_VALUE
  hls,         \* hls[f]: what an HLSFunctionStep of f noted
  allocation,  \* what memory_allocation noted
  built,       \* built[f]: what the last execution of the HLS step of f worked on
  allocated,   \* what the last execution of memory_allocation worked on
  changes

versions == <<bb_version, bitvalue_version, memory_version>>
notes == <<pass, bit_value, hls, allocation, built, allocated>>
vars == <<graph, versions, notes, changes>>

-------------------------------------------------------------------------------
NoVersion == <<0, 0>>
Version == [f \in Function |-> <<bb_version[f], bitvalue_version[f]>>]

(* The versions of the functions in X as a map; those of an older map for   *)
(* the others, since the maps of a step are never cleared.                  *)
Noted(version, X, map) == [f \in Function |-> IF f \in X THEN version[f] ELSE map[f]]
NoNotes == [f \in Function |-> NoVersion]
Current(X) == Noted(Version, X, NoNotes)

Called(f) == GetReachedFunctionsFrom(f) \ {f}

(* HasToBeExecuted of the steps *)
PassHasToBeExecuted(f) == pass[f] # bb_version[f]
BitValueHasToBeExecuted(f) == bit_value[f] # Version[f]

HlsHasToBeExecuted(f) ==
  /\ f \in reached_body_functions
  /\ \/ hls[f].own # Version[f]
     \/ hls[f].memory # memory_version
     \/ Current(Called(f)) # hls[f].last

AllocationHasToBeExecuted ==
  \/ allocation.memory # memory_version
  \/ Current(reached_body_functions) # allocation.last

-------------------------------------------------------------------------------
(* The manager executes one step at a time, and nothing else happens until  *)
(* the bodies of functions newly called are read.                           *)
Step == ~Expanding /\ ~Recursive
Analysed(f) == f \in functions \cap WithBody

Changed == changes < MaxChanges /\ changes' = changes + 1

(* Exec of a pass over the basic blocks of f.  Of a function that is no     *)
(* longer reached it notes the version all the same.                        *)
VersionKept(f) ==   \* mutant: a pass changes the calls of f and not its version
  UNCHANGED <<bb_version, bitvalue_version>>
Rewritten(f) ==
  /\ bb_version' = [bb_version EXCEPT ![f] = @ + 1]
  /\ bitvalue_version' \in {bitvalue_version, [bitvalue_version EXCEPT ![f] = @ + 1]}

Rewrite(f) ==
  \E new \in SUBSET {p \in NewCalls[f] : \A q \in call_points : q.call_id # p.call_id} :
    /\ Changed
    /\ to_add' = new
    /\ \/ \E p \in Body[f] \cup NewCalls[f] : RemoveCallPoint(p)
       \/ UNCHANGED <<functions, call_points, called_by, acyclic, addressed_functions,
                      reached_body_functions, reached_library_functions>>

PassNotesNothing(f) == UNCHANGED pass   \* mutant
PassNotes(f) == pass' = [pass EXCEPT ![f] = bb_version'[f]]

ExecPass(f) ==
  /\ Step /\ Analysed(f) /\ PassHasToBeExecuted(f)
  /\ \/ f \in reached_body_functions /\ Rewrite(f) /\ Rewritten(f)
     \/ UNCHANGED <<graph, bb_version, bitvalue_version, changes>>
  /\ PassNotes(f)
  /\ UNCHANGED <<memory_version, bit_value, hls, allocation, built, allocated>>

(* Exec of BIT_VALUE of f *)
ExecBitValue(f) ==
  /\ Step /\ Analysed(f) /\ BitValueHasToBeExecuted(f)
  /\ \/ /\ f \in reached_body_functions /\ Changed
        /\ bitvalue_version' = [bitvalue_version EXCEPT ![f] = @ + 1]
     \/ UNCHANGED <<bitvalue_version, changes>>
  /\ bit_value' = [bit_value EXCEPT ![f] = <<bb_version[f], bitvalue_version'[f]>>]
  /\ UNCHANGED <<graph, bb_version, memory_version, pass, hls, allocation, built, allocated>>

(* Exec of a step of the synthesis of f *)
ExecHls(f) ==
  /\ Step /\ f \in Synthesised /\ HlsHasToBeExecuted(f)
  /\ hls' = [hls EXCEPT ![f] = [own |-> Version[f], memory |-> memory_version,
                                last |-> Noted(Version, Called(f), @.last)]]
  /\ built' = [built EXCEPT ![f] = [functions |-> Current(GetReachedFunctionsFrom(f)),
                                    memory |-> memory_version]]
  /\ UNCHANGED <<graph, versions, pass, bit_value, allocation, allocated, changes>>

(* Exec of memory_allocation, which alone changes the memory version.       *)
ExecAllocation ==
  /\ Step /\ AllocationHasToBeExecuted
  /\ \/ Changed /\ memory_version' = memory_version + 1
     \/ UNCHANGED <<memory_version, changes>>
  /\ allocation' = [memory |-> memory_version',
                    last |-> Noted(Version, reached_body_functions, allocation.last)]
  /\ allocated' = [functions |-> Current(reached_body_functions), memory |-> memory_version']
  /\ UNCHANGED <<graph, bb_version, bitvalue_version, pass, bit_value, hls, built>>

Expand ==
  /\ ~Recursive
  /\ \E p \in to_add : AddCallPoint(p)
  /\ UNCHANGED <<versions, notes, changes>>

-------------------------------------------------------------------------------
Init ==
  /\ GraphInit
  /\ bb_version = [f \in Function |-> 1] /\ bitvalue_version = [f \in Function |-> 1]
  /\ memory_version = 1
  /\ pass = [f \in Function |-> 0]
  /\ bit_value = NoNotes
  /\ hls = [f \in Function |-> [own |-> NoVersion, memory |-> 0, last |-> NoNotes]]
  /\ allocation = [memory |-> 0, last |-> NoNotes]
  /\ built = [f \in Function |-> [functions |-> NoNotes, memory |-> 0]]
  /\ allocated = [functions |-> NoNotes, memory |-> 0]
  /\ changes = 0

Next ==
  \/ Expand
  \/ \E f \in Function : ExecPass(f) \/ ExecBitValue(f) \/ ExecHls(f)
  \/ ExecAllocation

Spec == Init /\ [][Next]_vars

(* The manager executes what is to be executed; it never leaves a step for  *)
(* ever in favour of others.                                                *)
FairSpec ==
  /\ Spec
  /\ WF_vars(Expand)
  /\ \A f \in Function : WF_vars(ExecPass(f)) /\ WF_vars(ExecBitValue(f))

-------------------------------------------------------------------------------
Pair == Nat \X Nat
TypeOK ==
  /\ GraphTypeOK
  /\ {bb_version, bitvalue_version} \subseteq [Function -> Nat \ {0}]
  /\ memory_version \in Nat \ {0}
  /\ pass \in [Function -> Nat]
  /\ bit_value \in [Function -> Pair]
  /\ hls \in [Function -> [own : Pair, memory : Nat, last : [Function -> Pair]]]
  /\ allocation \in [memory : Nat, last : [Function -> Pair]]
  /\ built \in [Function -> [functions : [Function -> Pair], memory : Nat]]
  /\ allocated \in [functions : [Function -> Pair], memory : Nat]
  /\ changes \in Nat

(* A step of the synthesis, or the allocation of the memory, that says it   *)
(* need not be executed has worked on what there is: since it was executed, *)
(* nothing about its function, about those this leads to, or about the      *)
(* memory has changed, and it led to the same functions then.  The maps     *)
(* that the answer is computed from are never cleared, and hold functions   *)
(* which the step has not seen the last time.                               *)
NothingMissed ==
  /\ \A f \in reached_body_functions \cap Synthesised :
       ~HlsHasToBeExecuted(f) =>
         built[f] = [functions |-> Current(GetReachedFunctionsFrom(f)), memory |-> memory_version]
  /\ ~AllocationHasToBeExecuted =>
       allocated = [functions |-> Current(reached_body_functions), memory |-> memory_version]

(* Once nothing is left to improve, the passes over a function agree with   *)
(* each other that there is nothing to do, although each of them undoes the *)
(* agreement whenever it changes something.                                 *)
PassesSettle ==
  <>[](\A f \in functions \cap WithBody :
         Recursive \/ (~PassHasToBeExecuted(f) /\ ~BitValueHasToBeExecuted(f)))
===============================================================================
