------------------------- MODULE FunctionSteps_proofs --------------------------
(* Type correctness, the invariants of the call graph, and that no step     *)
(* misses a change, for any program and any number of changes; before them  *)
(* what holds of the call graph of any program, and what adding and         *)
(* removing a call point leave.                                             *)
EXTENDS FunctionSteps, TLAPS

-------------------------------------------------------------------------------
(* The functions reached from S *)

(* S is reached, and so is what a reached function calls: the visit misses  *)
(* nothing.                                                                 *)
LEMMA ReachedIsClosed ==
  ASSUME NEW calls \in [Function -> SUBSET Function], NEW S \in SUBSET Function
  PROVE  /\ ReachedFrom(calls, S) \subseteq Function
         /\ S \subseteq ReachedFrom(calls, S)
         /\ Closed(calls, ReachedFrom(calls, S))
<1> DEFINE R == ReachedFrom(calls, S)
<1>1. R \subseteq Function /\ S \subseteq R
  BY DEF ReachedFrom
<1>2. ASSUME NEW f \in R, NEW g \in calls[f] PROVE g \in R
  <2>1. f \in Function /\ g \in Function
    BY <1>1, <1>2
  <2>2. ASSUME NEW X \in SUBSET Function, S \subseteq X, Closed(calls, X) PROVE g \in X
    <3>1. f \in X
      BY <1>2, <2>2 DEF ReachedFrom
    <3>2. QED
      BY <1>2, <2>2, <3>1 DEF Closed
  <2>3. QED
    BY <2>1, <2>2 DEF ReachedFrom
<1>3. QED
  BY <1>1, <1>2 DEF Closed

(* Nothing else is: a closed set that holds S holds all that is reached.    *)
LEMMA ReachedIsLeast ==
  ASSUME NEW calls, NEW S, NEW X \in SUBSET Function, S \subseteq X, Closed(calls, X)
  PROVE  ReachedFrom(calls, S) \subseteq X
BY DEF ReachedFrom

(* What functions that are not reached call makes no difference.            *)
LEMMA ReachedDependsOnReached ==
  ASSUME NEW calls \in [Function -> SUBSET Function], NEW other \in [Function -> SUBSET Function],
         NEW S \in SUBSET Function,
         \A f \in ReachedFrom(calls, S) : other[f] = calls[f]
  PROVE  ReachedFrom(other, S) = ReachedFrom(calls, S)
<1> DEFINE R == ReachedFrom(calls, S)
           O == ReachedFrom(other, S)
<1>1. R \subseteq Function /\ S \subseteq R /\ Closed(calls, R)
  BY ReachedIsClosed
<1>2. O \subseteq Function /\ S \subseteq O /\ Closed(other, O)
  BY ReachedIsClosed
<1>3. O \subseteq R
  <2>1. Closed(other, R)
    BY <1>1 DEF Closed
  <2>2. QED
    BY <1>1, <2>1, ReachedIsLeast
<1>4. R \subseteq O
  <2>1. Closed(calls, O)
    BY <1>2, <1>3 DEF Closed
  <2>2. QED
    BY <1>2, <2>1, ReachedIsLeast
<1>5. QED
  BY <1>3, <1>4

-------------------------------------------------------------------------------
(* Sorting *)

LEMMA NothingSorts == Sorts({})
BY DEF Sorts

(* Removing edges leaves no cycle where there was none.                     *)
LEMMA FewerEdgesSort ==
  ASSUME NEW E, NEW D, D \subseteq E, Sorts(E)
  PROVE  Sorts(D)
<1>1. ASSUME NEW X \in (SUBSET Function) \ {{}}
      PROVE  \E f \in X : \A g \in X : <<g, f>> \notin D
  BY DEF Sorts
<1>2. QED
  BY <1>1 DEF Sorts

-------------------------------------------------------------------------------
(* The invariant *)

(* Beside the types and the agreement of the representations: only bodies   *)
(* hold call points, roots and whatever is called are vertices, and the     *)
(* sets of reached functions are up to date.                                *)
VerticesInv ==
  /\ Root \subseteq functions
  /\ \A p \in call_points \cup to_add : p.caller \in WithBody
  /\ \A f \in Function : called_by[f] \subseteq functions

ReachedInv ==
  /\ reached_body_functions = ReachedFrom(called_by, Root) \cap WithBody
  /\ reached_library_functions = ReachedFrom(called_by, Root) \ WithBody

GraphInv == GraphTypeOK /\ EdgesAgree /\ AcyclicIsAcyclic /\ VerticesInv /\ ReachedInv

LEMMA GraphInitially == GraphInit => GraphInv
<1> SUFFICES ASSUME GraphInit PROVE GraphInv
  OBVIOUS
<1> USE DEF GraphInit
<1>1. \A f \in Function : Body[f] \subseteq CallPoint /\ \A p \in Body[f] : p.caller = f
  BY ProgramAssumption DEF CallPointOf, CallPoint
<1>2. to_add \subseteq CallPoint /\ \A p \in to_add : p.caller \in WithBody
  BY <1>1, ProgramAssumption
<1>3. ReachedFrom(called_by, Root) = Root
  <2>1. Closed(called_by, Root)
    BY ProgramAssumption DEF Closed
  <2>2. QED
    BY <2>1, ReachedIsClosed, ReachedIsLeast, ProgramAssumption
<1>4. GraphTypeOK
  BY <1>2, ProgramAssumption DEF GraphTypeOK
<1>5. EdgesAgree
  BY DEF EdgesAgree, Between
<1>6. AcyclicIsAcyclic
  BY NothingSorts DEF AcyclicIsAcyclic
<1>7. VerticesInv
  BY <1>2 DEF VerticesInv
<1>8. ReachedInv
  BY <1>3, ProgramAssumption DEF ReachedInv
<1>9. QED
  BY <1>4, <1>5, <1>6, <1>7, <1>8 DEF GraphInv

(* The common end of the two operations: the reached functions follow.      *)
LEMMA RecomputedIsReached ==
  ASSUME ComputeRootAndReachedFunctions, Root \subseteq functions',
         called_by' \in [Function -> SUBSET Function]
  PROVE  /\ ReachedInv'
         /\ reached_body_functions' \subseteq WithBody
         /\ reached_library_functions' \subseteq Function \ WithBody
<1>1. Root \cap functions' = Root
  OBVIOUS
<1>2. ReachedFrom(called_by', Root) \subseteq Function
  BY ProgramAssumption, ReachedIsClosed
<1>3. QED
  BY <1>1, <1>2 DEF ComputeRootAndReachedFunctions, ReachedInv

LEMMA AddKeepsGraph ==
  ASSUME GraphInv, NEW p, AddCallPoint(p)
  PROVE  GraphInv'
<1> USE DEF AddCallPoint
<1>1. p \in CallPoint /\ p.caller \in Function /\ p.called \in Function /\ p.caller \in WithBody
  BY DEF GraphInv, GraphTypeOK, VerticesInv, CallPoint
<1>2. NewBodyOf(p.called) \subseteq CallPoint /\ \A q \in NewBodyOf(p.called) : q.caller \in WithBody
  BY <1>1, ProgramAssumption DEF NewBodyOf, CallPointOf, CallPoint
<1>3. /\ functions \subseteq functions' /\ functions' \subseteq Function
      /\ Root \subseteq functions'
      /\ called_by' \in [Function -> SUBSET Function]
  BY <1>1 DEF GraphInv, GraphTypeOK, VerticesInv
<1>4. acyclic' \subseteq Function \X Function
  BY <1>1 DEF GraphInv, GraphTypeOK, AcyclicWith
<1>5. GraphTypeOK'
  <2>1. call_points' \subseteq CallPoint /\ to_add' \subseteq CallPoint
    BY <1>1, <1>2 DEF GraphInv, GraphTypeOK
  <2>2. addressed_functions' \subseteq functions'
    BY DEF GraphInv, GraphTypeOK
  <2>3. QED
    BY <1>3, <1>4, <2>1, <2>2, RecomputedIsReached DEF GraphTypeOK
<1>6. EdgesAgree'
  <2>1. ASSUME NEW f \in Function, NEW g \in Function
        PROVE  g \in called_by'[f] <=> Between(call_points', f, g) # {}
    <3>1. g \in called_by[f] <=> Between(call_points, f, g) # {}
      BY DEF GraphInv, EdgesAgree
    <3>2. CASE f = p.caller /\ g = p.called
      <4>1. p \in Between(call_points', f, g)
        BY <3>2 DEF Between
      <4>2. g \in called_by'[f]
        BY <1>1, <3>2 DEF GraphInv, GraphTypeOK
      <4>3. QED
        BY <4>1, <4>2
    <3>3. CASE ~(f = p.caller /\ g = p.called)
      <4>1. Between(call_points', f, g) = Between(call_points, f, g)
        BY <3>3 DEF Between
      <4>2. g \in called_by'[f] <=> g \in called_by[f]
        BY <1>1, <3>3 DEF GraphInv, GraphTypeOK
      <4>3. QED
        BY <3>1, <4>1, <4>2
    <3>4. QED
      BY <3>2, <3>3
  <2>2. ASSUME NEW f \in Function, NEW g \in Function, <<f, g>> \in acyclic'
        PROVE  g \in called_by'[f]
    <3>1. <<f, g>> \in acyclic \/ <<f, g>> = <<p.caller, p.called>>
      BY <2>2 DEF AcyclicWith
    <3>2. <<f, g>> \in acyclic => g \in called_by[f]
      BY DEF GraphInv, EdgesAgree
    <3>3. QED
      BY <1>1, <3>1, <3>2 DEF GraphInv, GraphTypeOK
  <2>3. QED
    BY <2>1, <2>2 DEF EdgesAgree
<1>7. AcyclicIsAcyclic'
  BY DEF GraphInv, AcyclicIsAcyclic, AcyclicWith
<1>8. VerticesInv'
  <2>1. \A q \in call_points' \cup to_add' : q.caller \in WithBody
    BY <1>1, <1>2 DEF GraphInv, VerticesInv
  <2>2. \A f \in Function : called_by'[f] \subseteq functions'
    BY <1>1 DEF GraphInv, GraphTypeOK, VerticesInv
  <2>3. QED
    BY <1>3, <2>1, <2>2 DEF VerticesInv
<1>9. QED
  BY <1>3, <1>5, <1>6, <1>7, <1>8, RecomputedIsReached DEF GraphInv

LEMMA RemoveKeepsGraph ==
  ASSUME GraphInv, NEW p, RemoveCallPoint(p),
         to_add' \subseteq CallPoint, \A q \in to_add' : q.caller \in WithBody
  PROVE  GraphInv'
<1> DEFINE rest == Between(call_points \ {p}, p.caller, p.called)
<1> USE DEF RemoveCallPoint
<1>1. p \in CallPoint /\ p.caller \in Function /\ p.called \in Function
  BY DEF GraphInv, GraphTypeOK, CallPoint
<1>2. called_by' = IF rest = {} THEN [called_by EXCEPT ![p.caller] = @ \ {p.called}] ELSE called_by
  OBVIOUS
<1>3. acyclic' = IF rest = {} THEN acyclic \ {<<p.caller, p.called>>} ELSE acyclic
  OBVIOUS
<1>4. addressed_functions' \subseteq addressed_functions
  OBVIOUS
<1>5. functions' = functions /\ call_points' = call_points \ {p}
  OBVIOUS
<1>6. ComputeRootAndReachedFunctions
  OBVIOUS
<1> HIDE DEF RemoveCallPoint
<1>7. called_by' \in [Function -> SUBSET Function] /\ Root \subseteq functions'
  BY <1>2, <1>5 DEF GraphInv, GraphTypeOK, VerticesInv
<1>8. GraphTypeOK'
  BY <1>3, <1>4, <1>5, <1>6, <1>7, RecomputedIsReached DEF GraphInv, GraphTypeOK
<1>9. EdgesAgree'
  <2>1. ASSUME NEW f \in Function, NEW g \in Function
        PROVE  /\ g \in called_by'[f] <=> Between(call_points', f, g) # {}
               /\ <<f, g>> \in acyclic' => g \in called_by'[f]
    <3>1. /\ g \in called_by[f] <=> Between(call_points, f, g) # {}
          /\ <<f, g>> \in acyclic => g \in called_by[f]
      BY DEF GraphInv, EdgesAgree
    <3>2. CASE f = p.caller /\ g = p.called
      <4>1. Between(call_points', f, g) = rest
        BY <1>5, <3>2
      <4>2. CASE rest = {}
        BY <1>1, <1>2, <1>3, <3>2, <4>1, <4>2 DEF GraphInv, GraphTypeOK
      <4>3. CASE rest # {}
        <5>1. Between(call_points, f, g) # {}
          BY <3>2, <4>3 DEF Between
        <5>2. QED
          BY <1>2, <1>3, <3>1, <4>1, <4>3, <5>1
      <4>4. QED
        BY <4>2, <4>3
    <3>3. CASE ~(f = p.caller /\ g = p.called)
      <4>1. Between(call_points', f, g) = Between(call_points, f, g)
        BY <1>5, <3>3 DEF Between
      <4>2. g \in called_by'[f] <=> g \in called_by[f]
        BY <1>1, <1>2, <3>3 DEF GraphInv, GraphTypeOK
      <4>3. acyclic' \subseteq acyclic
        BY <1>3
      <4>4. QED
        BY <3>1, <4>1, <4>2, <4>3
    <3>4. QED
      BY <3>2, <3>3
  <2>2. QED
    BY <2>1 DEF EdgesAgree
<1>10. AcyclicIsAcyclic'
  <2>1. acyclic' \subseteq acyclic
    BY <1>3
  <2>2. QED
    BY <2>1, FewerEdgesSort DEF GraphInv, AcyclicIsAcyclic
<1>11. VerticesInv'
  <2>1. \A f \in Function : called_by'[f] \subseteq called_by[f]
    BY <1>1, <1>2 DEF GraphInv, GraphTypeOK
  <2>2. QED
    BY <1>5, <2>1 DEF GraphInv, VerticesInv
<1>12. QED
  BY <1>6, <1>7, <1>8, <1>9, <1>10, <1>11, RecomputedIsReached DEF GraphInv

(* ReachedIsCurrent, from the invariant: the map called_by and the call     *)
(* points lead to the same functions.                                       *)
LEMMA CurrentFromInvariant == GraphInv => ReachedIsCurrent
<1> SUFFICES ASSUME GraphInv PROVE ReachedIsCurrent
  OBVIOUS
<1>1. ASSUME NEW f \in Function PROVE CallsByPoints[f] = called_by[f]
  <2>1. ASSUME NEW g \in Function
        PROVE  g \in called_by[f] <=> \E p \in call_points : p.caller = f /\ p.called = g
    BY DEF GraphInv, EdgesAgree, Between
  <2>2. called_by[f] \subseteq Function /\ \A p \in call_points : p.called \in Function
    BY DEF GraphInv, GraphTypeOK, CallPoint
  <2>3. CallsByPoints[f] = {p.called : p \in {q \in call_points : q.caller = f}}
    BY DEF CallsByPoints
  <2>4. QED
    BY <2>1, <2>2, <2>3
<1>2. CallsByPoints = called_by
  BY <1>1 DEF CallsByPoints, GraphInv, GraphTypeOK
<1>3. QED
  BY <1>2 DEF GraphInv, ReachedInv, ReachedIsCurrent

-------------------------------------------------------------------------------
(* What an execution has seen *)

(* An execution notes the versions seen of the functions it worked on; of   *)
(* the others NoVersion, which no function ever has.                        *)
Seen(seen) == {f \in Function : seen[f] # NoVersion}

(* The functions of which the first of the versions seen is still current.  *)
Unchanged(seen) == \A f \in Seen(seen) : seen[f][1] = bb_version[f]

(* As long as the functions seen keep their basic blocks, the execution's   *)
(* starting points lead to these functions and no others: what a function   *)
(* calls changes only after its version has, at once or when the call       *)
(* points found in a rewritten body are added.                              *)
SeenInv(seen, S) ==
  /\ seen \in [Function -> Pair]
  /\ Seen(seen) \subseteq functions
  /\ \A f \in Seen(seen) : seen[f][1] <= bb_version[f]
  /\ \A p \in to_add : p.caller \in Seen(seen) => seen[p.caller][1] < bb_version[p.caller]
  /\ Unchanged(seen) => ReachedFrom(called_by, S) \cap WithBody = Seen(seen)

(* The notes of a synthesis step: what it compares with is what it worked   *)
(* on, for the functions it worked on.                                      *)
HlsInv(f) ==
  /\ SeenInv(built[f].functions, {f})
  /\ hls[f].own = built[f].functions[f]
  /\ hls[f].memory = built[f].memory
  /\ \A g \in Seen(built[f].functions) \ {f} : hls[f].last[g] = built[f].functions[g]

AllocationInv ==
  /\ SeenInv(allocated.functions, Root)
  /\ allocation.memory = allocated.memory
  /\ \A g \in Seen(allocated.functions) : allocation.last[g] = allocated.functions[g]

NotesInv ==
  /\ \A f \in Function : hls[f].own # NoVersion => HlsInv(f)
  /\ allocation.memory # 0 => AllocationInv

-------------------------------------------------------------------------------
(* Versions as maps *)

LEMMA VersionIsReal ==
  ASSUME TypeOK
  PROVE  /\ Version \in [Function -> Pair]
         /\ \A f \in Function : Version[f] = <<bb_version[f], bitvalue_version[f]>> /\ Version[f] # NoVersion
BY DEF TypeOK, Version, Pair, NoVersion

LEMMA CurrentIsSeen ==
  ASSUME TypeOK, NEW X \in SUBSET Function
  PROVE  /\ Current(X) \in [Function -> Pair]
         /\ Seen(Current(X)) = X
         /\ \A f \in X : Current(X)[f] = Version[f]
         /\ \A f \in Function \ X : Current(X)[f] = NoVersion
<1>1. \A f \in Function : Current(X)[f] = IF f \in X THEN Version[f] ELSE NoVersion
  BY DEF Current, Noted, NoNotes
<1>2. NoVersion \in Pair
  BY DEF NoVersion, Pair
<1>3. Current(X) \in [Function -> Pair]
  BY <1>2, VersionIsReal DEF Current, Noted, NoNotes
<1>4. QED
  BY <1>1, <1>3, VersionIsReal DEF Seen

(* A map with the versions that are current, of the functions it holds, and *)
(* with just the functions of X, is the current one.                        *)
LEMMA SeenIsCurrent ==
  ASSUME TypeOK, NEW seen \in [Function -> Pair], NEW X \in SUBSET Function,
         Seen(seen) = X, \A f \in X : seen[f] = Version[f]
  PROVE  seen = Current(X)
<1>1. \A f \in Function : seen[f] = Current(X)[f]
  BY CurrentIsSeen DEF Seen
<1>2. QED
  BY <1>1, CurrentIsSeen

LEMMA ReachedAreFunctions ==
  ASSUME GraphInv
  PROVE  /\ \A f \in functions : ReachedFrom(called_by, {f}) \subseteq functions
         /\ ReachedFrom(called_by, Root) \subseteq functions
<1>1. functions \subseteq Function /\ Closed(called_by, functions) /\ Root \subseteq functions
  BY DEF GraphInv, GraphTypeOK, VerticesInv, Closed
<1>2. QED
  BY <1>1, ReachedIsLeast

-------------------------------------------------------------------------------
(* SeenInv is kept *)

(* A step that changes what y calls, or its version, and adds call points   *)
(* only of functions not seen or seen in an older version.                  *)
LEMMA SeenKept ==
  ASSUME NEW seen, NEW S \in SUBSET Function, SeenInv(seen, S), NEW y \in WithBody,
         called_by \in [Function -> SUBSET Function], called_by' \in [Function -> SUBSET Function],
         bb_version \in [Function -> Nat], bb_version' \in [Function -> Nat],
         \A f \in Function : bb_version[f] <= bb_version'[f],
         \A f \in Function \ {y} : called_by'[f] = called_by[f],
         y \in Seen(seen) => seen[y][1] < bb_version'[y],
         functions \subseteq functions',
         \A p \in to_add' : p.caller \in Seen(seen) => seen[p.caller][1] < bb_version'[p.caller]
  PROVE  SeenInv(seen, S)'
<1>1. \A f \in Seen(seen) : seen[f][1] \in Nat /\ f \in Function
  BY DEF SeenInv, Seen, Pair
<1>2. \A f \in Seen(seen) : seen[f][1] <= bb_version'[f]
  BY <1>1 DEF SeenInv
<1>3. ASSUME Unchanged(seen)' PROVE ReachedFrom(called_by', S) \cap WithBody = Seen(seen)
  <2>1. \A f \in Seen(seen) : seen[f][1] = bb_version'[f]
    BY <1>3 DEF Unchanged, Seen
  <2>2. ASSUME NEW f \in Seen(seen) PROVE seen[f][1] = bb_version[f] /\ f # y
    <3>1. seen[f][1] <= bb_version[f] /\ bb_version[f] <= bb_version'[f]
      BY <1>1 DEF SeenInv
    <3>2. bb_version[f] \in Nat /\ bb_version'[f] \in Nat /\ seen[f][1] \in Nat
      BY <1>1
    <3>3. QED
      BY <2>1, <3>1, <3>2
  <2>3. Unchanged(seen) /\ y \notin Seen(seen)
    BY <2>2 DEF Unchanged
  <2>4. ReachedFrom(called_by, S) \cap WithBody = Seen(seen)
    BY <2>3 DEF SeenInv
  <2>5. ReachedFrom(called_by', S) = ReachedFrom(called_by, S)
    <3>1. \A f \in ReachedFrom(called_by, S) : called_by'[f] = called_by[f]
      BY <2>3, <2>4, ReachedIsClosed
    <3>2. QED
      BY <3>1, ReachedDependsOnReached
  <2>6. QED
    BY <2>4, <2>5
<1>4. QED
  BY <1>2, <1>3 DEF SeenInv, Seen

(* A step that leaves the graph and the versions of the basic blocks alone. *)
LEMMA SeenUntouched ==
  ASSUME NEW seen, NEW S, SeenInv(seen, S), UNCHANGED <<graph, bb_version>>
  PROVE  SeenInv(seen, S)'
BY DEF SeenInv, Seen, Unchanged, graph

(* What an execution that has just taken place has seen.                    *)
LEMMA SeenNow ==
  ASSUME TypeOK, GraphInv, to_add = {}, NEW S \in SUBSET functions,
         ReachedFrom(called_by, S) \subseteq functions
  PROVE  SeenInv(Current(ReachedFrom(called_by, S) \cap WithBody), S)
<1> DEFINE X == ReachedFrom(called_by, S) \cap WithBody
           C == Current(X)
<1>1. X \subseteq functions /\ X \in SUBSET Function
  BY DEF GraphInv, GraphTypeOK
<1>2. Seen(C) = X /\ C \in [Function -> Pair]
  BY <1>1, CurrentIsSeen
<1>3. ASSUME NEW f \in X PROVE C[f][1] = bb_version[f] /\ bb_version[f] \in Nat
  <2>1. C[f] = Version[f] /\ f \in Function
    BY <1>1, CurrentIsSeen
  <2>2. C[f] = <<bb_version[f], bitvalue_version[f]>>
    BY <2>1, VersionIsReal
  <2>3. bb_version[f] \in Nat
    BY <2>1 DEF TypeOK
  <2>4. QED
    BY <2>2, <2>3
<1> HIDE DEF C
<1>4. \A f \in Seen(C) : C[f][1] <= bb_version[f]
  BY <1>2, <1>3
<1>5. Unchanged(C) => ReachedFrom(called_by, S) \cap WithBody = Seen(C)
  BY <1>2
<1>6. SeenInv(C, S)
  BY <1>1, <1>2, <1>4, <1>5 DEF SeenInv
<1>7. QED
  BY <1>6 DEF C

-------------------------------------------------------------------------------
(* The steps *)

(* A step of the front end keeps what the notes say as long as it keeps     *)
(* SeenInv of whatever was seen.                                            *)
LEMMA NotesKept ==
  ASSUME TypeOK, NotesInv, UNCHANGED <<hls, allocation, built, allocated>>,
         ASSUME NEW seen \in [Function -> Pair], NEW S \in SUBSET Function, SeenInv(seen, S)
         PROVE  SeenInv(seen, S)'
  PROVE  NotesInv'
<1>1. ASSUME NEW f \in Function, hls'[f].own # NoVersion PROVE HlsInv(f)'
  <2>1. HlsInv(f)
    BY <1>1 DEF NotesInv
  <2>2. PICK seen \in [Function -> Pair] : seen = built[f].functions
    BY DEF TypeOK
  <2>3. SeenInv(seen, {f})
    BY <2>1, <2>2 DEF HlsInv
  <2>4. SeenInv(seen, {f})'
    BY <2>3
  <2>5. SeenInv(built[f].functions, {f})'
    BY <2>2, <2>4 DEF SeenInv, Seen, Unchanged
  <2>6. QED
    BY <2>1, <2>5 DEF HlsInv, Seen
<1>2. ASSUME allocation'.memory # 0 PROVE AllocationInv'
  <2>1. AllocationInv
    BY <1>2 DEF NotesInv
  <2>2. PICK seen \in [Function -> Pair] : seen = allocated.functions
    BY DEF TypeOK
  <2>3. SeenInv(seen, Root)
    BY <2>1, <2>2 DEF AllocationInv
  <2>4. SeenInv(seen, Root)'
    BY <2>3, ProgramAssumption
  <2>5. SeenInv(allocated.functions, Root)'
    BY <2>2, <2>4 DEF SeenInv, Seen, Unchanged
  <2>6. QED
    BY <2>1, <2>5 DEF AllocationInv, Seen
<1>3. QED
  BY <1>1, <1>2 DEF NotesInv

LEMMA ExpandKeeps ==
  ASSUME TypeOK, GraphInv, NotesInv, Expand
  PROVE  TypeOK' /\ GraphInv' /\ NotesInv'
<1>1. PICK p \in to_add : AddCallPoint(p)
  BY DEF Expand
<1>2. UNCHANGED <<versions, notes, changes>>
  BY DEF Expand
<1>3. GraphInv'
  BY <1>1, AddKeepsGraph
<1>4. TypeOK'
  BY <1>2, <1>3 DEF TypeOK, GraphInv, versions, notes
<1>5. ASSUME NEW seen \in [Function -> Pair], NEW S \in SUBSET Function, SeenInv(seen, S)
      PROVE  SeenInv(seen, S)'
  <2>1. p.caller \in WithBody /\ p.caller \in Function /\ p.called \in Function
    BY DEF GraphInv, VerticesInv, GraphTypeOK, CallPoint
  <2>2. called_by \in [Function -> SUBSET Function] /\ called_by' \in [Function -> SUBSET Function]
    BY <1>3 DEF GraphInv, GraphTypeOK
  <2>3. \A f \in Function \ {p.caller} : called_by'[f] = called_by[f]
    BY <1>1, <2>1, <2>2 DEF AddCallPoint
  <2>4. bb_version \in [Function -> Nat] /\ bb_version' = bb_version
    BY <1>2 DEF TypeOK, versions
  <2>5. p.caller \in Seen(seen) => seen[p.caller][1] < bb_version'[p.caller]
    BY <1>5, <2>4 DEF SeenInv
  <2>6. ASSUME NEW q \in to_add', q.caller \in Seen(seen)
        PROVE  seen[q.caller][1] < bb_version'[q.caller]
    <3>1. CASE q \in to_add
      BY <1>5, <2>4, <2>6, <3>1 DEF SeenInv
    <3>2. CASE q \in NewBodyOf(p.called)
      <4>1. q.caller = p.called /\ p.called \notin functions
        BY <2>1, <3>2, ProgramAssumption DEF NewBodyOf, CallPointOf
      <4>2. QED
        BY <1>5, <2>6, <4>1 DEF SeenInv
    <3>3. QED
      BY <1>1, <3>1, <3>2 DEF AddCallPoint
  <2>7. functions \subseteq functions'
    BY <1>1 DEF AddCallPoint
  <2>8. \A f \in Function : bb_version[f] <= bb_version'[f]
    BY <2>4
  <2>9. QED
    BY <1>5, <2>1, <2>2, <2>3, <2>4, <2>5, <2>6, <2>7, <2>8, SeenKept
<1>6. NotesInv'
  BY <1>2, <1>5, NotesKept DEF notes
<1>7. QED
  BY <1>3, <1>4, <1>6

LEMMA PassKeeps ==
  ASSUME TypeOK, GraphInv, NotesInv, NEW y \in Function, ExecPass(y)
  PROVE  TypeOK' /\ GraphInv' /\ NotesInv'
<1> USE DEF ExecPass
<1>1. y \in WithBody
  BY DEF Analysed
<1>2. /\ bb_version' \in [Function -> Nat \ {0}] /\ bitvalue_version' \in [Function -> Nat \ {0}]
      /\ changes' \in Nat
  <2>1. /\ {bb_version, bitvalue_version} \subseteq [Function -> Nat \ {0}]
        /\ changes \in Nat /\ \A n \in Nat \ {0} : n + 1 \in Nat \ {0}
    BY DEF TypeOK
  <2>2. CASE UNCHANGED <<bb_version, bitvalue_version, changes>>
    BY <2>1, <2>2
  <2>3. CASE Rewrite(y) /\ Rewritten(y)
    <3>1. changes' = changes + 1
      BY <2>3 DEF Rewrite, Changed
    <3>2. /\ bb_version' = [bb_version EXCEPT ![y] = @ + 1]
          /\ bitvalue_version' \in {bitvalue_version, [bitvalue_version EXCEPT ![y] = @ + 1]}
      BY <2>3 DEF Rewritten
    <3>3. bb_version' \in [Function -> Nat \ {0}]
      BY <2>1, <3>2
    <3>4. bitvalue_version' \in [Function -> Nat \ {0}]
      BY <2>1, <3>2
    <3>5. QED
      BY <2>1, <3>1, <3>3, <3>4
  <2>4. QED
    BY <2>2, <2>3
<1>3. GraphInv'
  <2>1. CASE UNCHANGED graph
    BY <2>1 DEF graph, GraphInv, GraphTypeOK, EdgesAgree, AcyclicIsAcyclic, VerticesInv, ReachedInv
  <2>2. CASE Rewrite(y)
    <3>1. PICK new \in SUBSET NewCalls[y] :
            /\ to_add' = new
            /\ \/ \E p \in Body[y] \cup NewCalls[y] : RemoveCallPoint(p)
               \/ UNCHANGED <<functions, call_points, called_by, acyclic, addressed_functions,
                              reached_body_functions, reached_library_functions>>
      BY <2>2 DEF Rewrite
    <3>2. to_add' \subseteq CallPoint /\ \A q \in to_add' : q.caller \in WithBody
      BY <1>1, <3>1, ChangesAssumption DEF CallPointOf, CallPoint
    <3>3. CASE \E p \in Body[y] \cup NewCalls[y] : RemoveCallPoint(p)
      BY <3>2, <3>3, RemoveKeepsGraph
    <3>4. CASE UNCHANGED <<functions, call_points, called_by, acyclic, addressed_functions,
                           reached_body_functions, reached_library_functions>>
      BY <3>2, <3>4 DEF GraphInv, GraphTypeOK, EdgesAgree, AcyclicIsAcyclic, VerticesInv, ReachedInv
    <3>5. QED
      BY <3>1, <3>3, <3>4
  <2>3. QED
    BY <2>1, <2>2
<1>4. TypeOK'
  <2>1. pass' \in [Function -> Nat]
    BY <1>2 DEF PassNotes, TypeOK
  <2>2. UNCHANGED <<memory_version, bit_value, hls, allocation, built, allocated>>
    OBVIOUS
  <2>3. QED
    BY <1>2, <1>3, <2>1, <2>2 DEF TypeOK, GraphInv
<1>5. ASSUME NEW seen \in [Function -> Pair], NEW S \in SUBSET Function, SeenInv(seen, S)
      PROVE  SeenInv(seen, S)'
  <2>1. CASE UNCHANGED <<graph, bb_version>>
    BY <1>5, <2>1, SeenUntouched
  <2>2. CASE Rewrite(y) /\ Rewritten(y)
    <3>1. /\ bb_version \in [Function -> Nat] /\ bb_version' \in [Function -> Nat]
          /\ bb_version'[y] = bb_version[y] + 1
          /\ \A f \in Function \ {y} : bb_version'[f] = bb_version[f]
      BY <1>2, <2>2 DEF TypeOK, Rewritten
    <3>2. \A f \in Function : bb_version[f] <= bb_version'[f]
      BY <3>1
    <3>3. y \in Seen(seen) => seen[y][1] < bb_version'[y]
      <4>1. y \in Seen(seen) => seen[y][1] <= bb_version[y]
        BY <1>5 DEF SeenInv
      <4>2. seen[y][1] \in Nat
        BY DEF Pair
      <4>3. QED
        BY <3>1, <4>1, <4>2
    <3>4. \A q \in to_add' : q.caller = y
      BY <2>2, ChangesAssumption DEF Rewrite, CallPointOf
    <3>5. called_by \in [Function -> SUBSET Function] /\ called_by' \in [Function -> SUBSET Function]
      BY <1>3 DEF GraphInv, GraphTypeOK
    <3>6. \A f \in Function \ {y} : called_by'[f] = called_by[f]
      <4>1. \A p \in Body[y] \cup NewCalls[y] : p.caller = y
        BY ProgramAssumption, ChangesAssumption DEF CallPointOf
      <4>2. CASE called_by' = called_by
        BY <4>2
      <4>3. CASE \E p \in Body[y] \cup NewCalls[y] : RemoveCallPoint(p)
        <5>1. PICK p \in Body[y] \cup NewCalls[y] : RemoveCallPoint(p)
          BY <4>3
        <5>2. \/ called_by' = [called_by EXCEPT ![p.caller] = @ \ {p.called}]
              \/ called_by' = called_by
          BY <5>1 DEF RemoveCallPoint
        <5>3. QED
          BY <3>5, <4>1, <5>2
      <4>4. QED
        BY <2>2, <4>2, <4>3 DEF Rewrite
    <3>7. functions \subseteq functions'
      BY <2>2 DEF Rewrite, RemoveCallPoint
    <3>8. QED
      BY <1>1, <1>5, <3>1, <3>2, <3>3, <3>4, <3>5, <3>6, <3>7, SeenKept
  <2>3. QED
    BY <2>1, <2>2 DEF graph
<1>6. NotesInv'
  BY <1>5, NotesKept
<1>7. QED
  BY <1>3, <1>4, <1>6

(* The other steps leave the graph alone. *)
LEMMA SameGraph ==
  ASSUME GraphInv, UNCHANGED graph
  PROVE  GraphInv'
BY DEF graph, GraphInv, GraphTypeOK, EdgesAgree, AcyclicIsAcyclic, VerticesInv, ReachedInv

LEMMA BitValueKeeps ==
  ASSUME TypeOK, GraphInv, NotesInv, NEW y \in Function, ExecBitValue(y)
  PROVE  TypeOK' /\ GraphInv' /\ NotesInv'
<1> USE DEF ExecBitValue
<1>1. GraphInv'
  BY SameGraph
<1>2. bitvalue_version' \in [Function -> Nat \ {0}] /\ changes' \in Nat
  <2>1. bitvalue_version \in [Function -> Nat \ {0}] /\ changes \in Nat
    BY DEF TypeOK
  <2>2. \A n \in Nat \ {0} : n + 1 \in Nat \ {0}
    OBVIOUS
  <2>3. CASE UNCHANGED <<bitvalue_version, changes>>
    BY <2>1, <2>3
  <2>4. CASE Changed /\ bitvalue_version' = [bitvalue_version EXCEPT ![y] = @ + 1]
    BY <2>1, <2>2, <2>4 DEF Changed
  <2>5. QED
    BY <2>3, <2>4
<1>3. bit_value' \in [Function -> Pair]
  BY <1>2 DEF TypeOK, Pair
<1>4. UNCHANGED <<bb_version, memory_version, pass, hls, allocation, built, allocated>>
  OBVIOUS
<1>5. TypeOK'
  BY <1>1, <1>2, <1>3, <1>4 DEF TypeOK, GraphInv
<1>6. NotesInv'
  BY <1>4, SeenUntouched, NotesKept
<1>7. QED
  BY <1>1, <1>5, <1>6

LEMMA HlsKeeps ==
  ASSUME TypeOK, GraphInv, NotesInv, NEW y \in Function, ExecHls(y)
  PROVE  TypeOK' /\ GraphInv' /\ NotesInv'
<1> DEFINE X == GetReachedFunctionsFrom(y)
<1> USE DEF ExecHls
<1>1. UNCHANGED <<graph, versions, pass, bit_value, allocation, allocated, changes>>
  OBVIOUS
<1>2. to_add = {} /\ y \in reached_body_functions
  BY DEF Step, Expanding, HlsHasToBeExecuted
<1>3. GraphInv'
  BY <1>1, SameGraph
<1>4. y \in functions /\ y \in WithBody /\ ReachedFrom(called_by, {y}) \subseteq functions
  BY <1>2, ReachedAreFunctions DEF GraphInv, ReachedInv
<1>5. X = ReachedFrom(called_by, {y}) \cap WithBody /\ X \in SUBSET Function
  BY <1>4 DEF GetReachedFunctionsFrom, GraphInv, GraphTypeOK
<1>6. y \in X /\ Called(y) = X \ {y}
  <2>1. y \in ReachedFrom(called_by, {y})
    BY DEF ReachedFrom
  <2>2. QED
    BY <1>4, <1>5, <2>1 DEF Called
<1>7. PICK C \in [Function -> Pair] : C = Current(X)
  BY <1>5, CurrentIsSeen
<1>8. SeenInv(C, {y})'
  <2>1. SeenInv(C, {y})
    <3>1. {y} \in SUBSET functions
      BY <1>4
    <3>2. SeenInv(Current(ReachedFrom(called_by, {y}) \cap WithBody), {y})
      BY <1>2, <1>4, <3>1, SeenNow
    <3>3. C = Current(ReachedFrom(called_by, {y}) \cap WithBody)
      BY <1>5, <1>7
    <3>4. QED
      BY <3>2, <3>3
  <2>2. QED
    BY <1>1, <2>1, SeenUntouched DEF versions
<1>9. /\ hls' = [hls EXCEPT ![y] = [own |-> Version[y], memory |-> memory_version,
                                    last |-> Noted(Version, Called(y), @.last)]]
      /\ built' = [built EXCEPT ![y] = [functions |-> C, memory |-> memory_version]]
  BY <1>7
<1> HIDE DEF ExecHls, X
<1>10. TypeOK'
  <2>1. Noted(Version, Called(y), hls[y].last) \in [Function -> Pair]
    BY VersionIsReal DEF Noted, TypeOK
  <2>2. hls' \in [Function -> [own : Pair, memory : Nat, last : [Function -> Pair]]]
    <3>1. Version[y] \in Pair /\ memory_version \in Nat
      BY VersionIsReal DEF TypeOK
    <3>2. hls \in [Function -> [own : Pair, memory : Nat, last : [Function -> Pair]]]
      BY DEF TypeOK
    <3>3. QED
      BY <1>9, <2>1, <3>1, <3>2
  <2>3. built' \in [Function -> [functions : [Function -> Pair], memory : Nat]]
    BY <1>9 DEF TypeOK
  <2>4. QED
    BY <1>1, <1>3, <2>2, <2>3 DEF TypeOK, GraphInv, versions
<1>11. HlsInv(y)'
  <2>1. /\ hls'[y].own = Version[y] /\ hls'[y].memory = memory_version
        /\ hls'[y].last = Noted(Version, Called(y), hls[y].last)
        /\ built'[y].functions = C /\ built'[y].memory = memory_version
    BY <1>9 DEF TypeOK
  <2>2. Seen(C) = X /\ \A f \in X : C[f] = Version[f]
    BY <1>5, <1>7, CurrentIsSeen
  <2>3. \A f \in Called(y) : f \in Function /\ Noted(Version, Called(y), hls[y].last)[f] = Version[f]
    BY <1>5, <1>6 DEF Noted
  <2>4. SeenInv(built[y].functions, {y})'
    BY <1>8, <2>1 DEF SeenInv, Seen, Unchanged
  <2>5. Seen(built[y].functions)' = X
    BY <2>1, <2>2 DEF Seen
  <2>6. \A f \in Seen(built[y].functions)' \ {y} : hls'[y].last[f] = built'[y].functions[f]
    BY <1>6, <2>1, <2>2, <2>3, <2>5
  <2>7. QED
    BY <1>6, <2>1, <2>2, <2>4, <2>6 DEF HlsInv
<1>12. ASSUME NEW f \in Function \ {y}, hls'[f].own # NoVersion PROVE HlsInv(f)'
  <2>1. hls'[f] = hls[f] /\ built'[f] = built[f]
    BY <1>9 DEF TypeOK
  <2>2. HlsInv(f)
    BY <1>12, <2>1 DEF NotesInv
  <2>3. PICK seen \in [Function -> Pair] : seen = built[f].functions
    BY DEF TypeOK
  <2>4. SeenInv(seen, {f})'
    BY <1>1, <2>2, <2>3, SeenUntouched DEF HlsInv, versions
  <2>5. SeenInv(built[f].functions, {f})'
    BY <2>1, <2>3, <2>4 DEF SeenInv, Seen, Unchanged
  <2>6. QED
    BY <2>1, <2>2, <2>5 DEF HlsInv, Seen
<1>13. allocation'.memory # 0 => AllocationInv'
  BY <1>1 DEF NotesInv, AllocationInv, SeenInv, Seen, Unchanged, graph, versions
<1>14. QED
  BY <1>3, <1>10, <1>11, <1>12, <1>13 DEF NotesInv

LEMMA AllocationKeeps ==
  ASSUME TypeOK, GraphInv, NotesInv, ExecAllocation
  PROVE  TypeOK' /\ GraphInv' /\ NotesInv'
<1> DEFINE X == reached_body_functions
<1> USE DEF ExecAllocation
<1>1. UNCHANGED <<graph, bb_version, bitvalue_version, pass, bit_value, hls, built>>
  OBVIOUS
<1>2. to_add = {}
  BY DEF Step, Expanding
<1>3. GraphInv'
  BY <1>1, SameGraph
<1>4. X = ReachedFrom(called_by, Root) \cap WithBody /\ X \in SUBSET Function
  BY ProgramAssumption DEF GraphInv, ReachedInv
<1>5. memory_version' \in Nat \ {0} /\ changes' \in Nat
  BY DEF TypeOK, Changed
<1>6. PICK C \in [Function -> Pair] : C = Current(X)
  BY <1>4, CurrentIsSeen
<1>7. SeenInv(C, Root)'
  <2>1. SeenInv(C, Root)
    <3>1. Root \subseteq functions /\ ReachedFrom(called_by, Root) \subseteq functions
      BY ReachedAreFunctions DEF GraphInv, VerticesInv
    <3>2. QED
      BY <1>2, <1>4, <1>6, <3>1, SeenNow
  <2>2. QED
    BY <1>1, <2>1, SeenUntouched
<1>8. /\ allocation' = [memory |-> memory_version', last |-> Noted(Version, X, allocation.last)]
      /\ allocated' = [functions |-> C, memory |-> memory_version']
  BY <1>6
<1> HIDE DEF ExecAllocation, X
<1>9. TypeOK'
  <2>1. Noted(Version, X, allocation.last) \in [Function -> Pair]
    BY VersionIsReal DEF Noted, TypeOK
  <2>2. QED
    BY <1>1, <1>3, <1>5, <1>8, <2>1 DEF TypeOK, GraphInv
<1>10. AllocationInv'
  <2>1. Seen(C) = X /\ \A f \in X : C[f] = Version[f]
    BY <1>4, <1>6, CurrentIsSeen
  <2>2. \A f \in X : f \in Function /\ Noted(Version, X, allocation.last)[f] = Version[f]
    BY <1>4 DEF Noted
  <2>3. SeenInv(allocated.functions, Root)'
    BY <1>7, <1>8 DEF SeenInv, Seen, Unchanged
  <2>4. Seen(allocated.functions)' = X
    BY <1>8, <2>1 DEF Seen
  <2>5. QED
    BY <1>8, <2>1, <2>2, <2>3, <2>4 DEF AllocationInv
<1>11. ASSUME NEW f \in Function, hls'[f].own # NoVersion PROVE HlsInv(f)'
  BY <1>1, <1>11 DEF NotesInv, HlsInv, SeenInv, Seen, Unchanged, graph
<1>12. QED
  BY <1>3, <1>9, <1>10, <1>11 DEF NotesInv

-------------------------------------------------------------------------------
(* The theorems *)

LEMMA InvInitially == Init => TypeOK /\ GraphInv /\ NotesInv
<1> SUFFICES ASSUME Init PROVE TypeOK /\ GraphInv /\ NotesInv
  OBVIOUS
<1>1. GraphInv
  BY GraphInitially DEF Init
<1>2. NoVersion \in Pair /\ NoNotes \in [Function -> Pair]
  BY DEF NoVersion, Pair, NoNotes
<1>3. TypeOK
  BY <1>1, <1>2 DEF Init, TypeOK, GraphInv
<1>4. NotesInv
  BY DEF Init, NotesInv
<1>5. QED
  BY <1>1, <1>3, <1>4

LEMMA InvKept == TypeOK /\ GraphInv /\ NotesInv /\ [Next]_vars => (TypeOK /\ GraphInv /\ NotesInv)'
<1> SUFFICES ASSUME TypeOK, GraphInv, NotesInv, [Next]_vars PROVE (TypeOK /\ GraphInv /\ NotesInv)'
  OBVIOUS
<1>1. CASE Expand
  BY <1>1, ExpandKeeps
<1>2. ASSUME NEW f \in Function, ExecPass(f) PROVE (TypeOK /\ GraphInv /\ NotesInv)'
  BY <1>2, PassKeeps
<1>3. ASSUME NEW f \in Function, ExecBitValue(f) PROVE (TypeOK /\ GraphInv /\ NotesInv)'
  BY <1>3, BitValueKeeps
<1>4. ASSUME NEW f \in Function, ExecHls(f) PROVE (TypeOK /\ GraphInv /\ NotesInv)'
  BY <1>4, HlsKeeps
<1>5. CASE ExecAllocation
  BY <1>5, AllocationKeeps
<1>6. CASE UNCHANGED vars
  <2>1. GraphInv'
    BY <1>6, SameGraph DEF vars
  <2>2. TypeOK'
    BY <1>6, <2>1 DEF vars, versions, notes, TypeOK, GraphInv
  <2>3. NotesInv'
    BY <1>6, SeenUntouched, NotesKept DEF vars, versions, notes
  <2>4. QED
    BY <2>1, <2>2, <2>3
<1>7. QED
  BY <1>1, <1>2, <1>3, <1>4, <1>5, <1>6 DEF Next

LEMMA InvAlways == Spec => [](TypeOK /\ GraphInv /\ NotesInv)
BY InvInitially, InvKept, PTL DEF Spec

(* Versions, notes and call graph are well formed, for any program and any  *)
(* number of changes.                                                       *)
THEOREM StepsTypeCorrect == Spec => []TypeOK
BY InvAlways, PTL

(* The acyclic version of the call graph has no cycle.                      *)
THEOREM AcyclicStaysAcyclic == Spec => []AcyclicIsAcyclic
<1>1. TypeOK /\ GraphInv /\ NotesInv => AcyclicIsAcyclic
  BY DEF GraphInv
<1>2. QED
  BY <1>1, InvAlways, PTL

(* The cached set of reached functions is what the call points lead to.     *)
THEOREM ReachedStaysCurrent == Spec => []ReachedIsCurrent
<1>1. TypeOK /\ GraphInv /\ NotesInv => ReachedIsCurrent
  BY CurrentFromInvariant
<1>2. QED
  BY <1>1, InvAlways, PTL

(* What a synthesis step compares is enough: when its notes agree with the  *)
(* versions of the functions it leads to now, it has worked on them.        *)
LEMMA HlsMissesNothing ==
  ASSUME TypeOK, GraphInv, NotesInv, NEW f \in reached_body_functions, ~HlsHasToBeExecuted(f)
  PROVE  built[f] = [functions |-> Current(GetReachedFunctionsFrom(f)), memory |-> memory_version]
<1> DEFINE X == GetReachedFunctionsFrom(f)
           B == built[f].functions
<1>1. /\ hls[f].own = Version[f] /\ hls[f].memory = memory_version
      /\ Current(Called(f)) = hls[f].last
  BY DEF HlsHasToBeExecuted
<1>2. f \in WithBody /\ f \in Function
  BY ProgramAssumption DEF GraphInv, GraphTypeOK
<1>3. HlsInv(f)
  BY <1>1, <1>2, VersionIsReal DEF NotesInv
<1>4. X = ReachedFrom(called_by, {f}) \cap WithBody /\ X \in SUBSET Function /\ Called(f) = X \ {f}
  BY DEF GetReachedFunctionsFrom, ReachedFrom, Called
<1>5. ASSUME NEW g \in Seen(B) PROVE B[g] = Version[g]
  <2>1. CASE g = f
    BY <1>1, <1>3, <2>1 DEF HlsInv
  <2>2. CASE g # f
    <3>1. g \in Function /\ B[g] # NoVersion
      BY DEF Seen
    <3>2. Current(Called(f))[g] = B[g]
      BY <1>1, <1>3, <2>2 DEF HlsInv
    <3>3. g \in Called(f)
      BY <1>4, <3>1, <3>2, CurrentIsSeen
    <3>4. QED
      BY <1>4, <3>2, <3>3, CurrentIsSeen
  <2>3. QED
    BY <2>1, <2>2
<1>6. Unchanged(B)
  <2>1. ASSUME NEW g \in Seen(B) PROVE B[g][1] = bb_version[g]
    <3>1. g \in Function /\ B[g] = <<bb_version[g], bitvalue_version[g]>>
      BY <1>5, VersionIsReal DEF Seen
    <3>2. QED
      BY <3>1
  <2>2. QED
    BY <2>1 DEF Unchanged
<1>7. Seen(B) = X
  BY <1>3, <1>4, <1>6 DEF HlsInv, SeenInv
<1>8. B = Current(X)
  <2>1. B \in [Function -> Pair]
    BY <1>2 DEF TypeOK
  <2>2. QED
    BY <1>4, <1>5, <1>7, <2>1, SeenIsCurrent
<1>9. built[f] = [functions |-> B, memory |-> built[f].memory]
  BY <1>2 DEF TypeOK
<1>10. QED
  BY <1>1, <1>3, <1>8, <1>9 DEF HlsInv

LEMMA AllocationMissesNothing ==
  ASSUME TypeOK, GraphInv, NotesInv, ~AllocationHasToBeExecuted
  PROVE  allocated = [functions |-> Current(reached_body_functions), memory |-> memory_version]
<1> DEFINE X == reached_body_functions
           B == allocated.functions
<1>1. allocation.memory = memory_version /\ Current(X) = allocation.last
  BY DEF AllocationHasToBeExecuted
<1>2. AllocationInv
  BY <1>1 DEF NotesInv, TypeOK
<1>3. X = ReachedFrom(called_by, Root) \cap WithBody /\ X \in SUBSET Function
  BY ProgramAssumption DEF GraphInv, ReachedInv
<1>4. ASSUME NEW g \in Seen(B) PROVE B[g] = Version[g]
  <2>1. g \in Function /\ B[g] # NoVersion
    BY DEF Seen
  <2>2. Current(X)[g] = B[g]
    BY <1>1, <1>2 DEF AllocationInv
  <2>3. g \in X
    BY <1>3, <2>1, <2>2, CurrentIsSeen
  <2>4. QED
    BY <1>3, <2>2, <2>3, CurrentIsSeen
<1>5. Unchanged(B)
  <2>1. ASSUME NEW g \in Seen(B) PROVE B[g][1] = bb_version[g]
    <3>1. g \in Function /\ B[g] = <<bb_version[g], bitvalue_version[g]>>
      BY <1>4, VersionIsReal DEF Seen
    <3>2. QED
      BY <3>1
  <2>2. QED
    BY <2>1 DEF Unchanged
<1>6. Seen(B) = X
  BY <1>2, <1>3, <1>5 DEF AllocationInv, SeenInv
<1>7. B = Current(X)
  <2>1. B \in [Function -> Pair]
    BY DEF TypeOK
  <2>2. QED
    BY <1>3, <1>4, <1>6, <2>1, SeenIsCurrent
<1>8. allocated = [functions |-> B, memory |-> allocated.memory]
  BY DEF TypeOK
<1>9. QED
  BY <1>1, <1>2, <1>7, <1>8 DEF AllocationInv

(* A step of the synthesis, or memory_allocation, that says it need not be  *)
(* executed has worked on exactly what there is.                            *)
THEOREM NothingIsMissed == Spec => []NothingMissed
<1>1. TypeOK /\ GraphInv /\ NotesInv => NothingMissed
  BY HlsMissesNothing, AllocationMissesNothing DEF NothingMissed
<1>2. QED
  BY <1>1, InvAlways, PTL
===============================================================================
