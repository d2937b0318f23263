------------------------- MODULE ParallelCall_proofs --------------------------
(* The controller of a parallel function keeps its promise, for any number  *)
(* of workers of any speed and any number of calls of any length.           *)
EXTENDS ParallelCall, ParallelController_proofs

-------------------------------------------------------------------------------
(* The inductive invariant *)

(* The workers hold, each for itself, what was given and has not ended.     *)
WorkInv ==
  /\ running <=> InCall
  /\ running => given = 0 .. (number_req_tasks - 1)
  /\ ~ running => given = ended
  /\ DoneCounter = IF running THEN Cardinality(ended) ELSE 0
  /\ ended \subseteq given
  /\ UNION {held[w] : w \in Workers} = given \ ended
  /\ \A v, w \in Workers : v # w => held[v] \cap held[w] = {}

IInv == TypeOK /\ ControlInv /\ WorkInv

(* Every iteration has been given when task_pool_end is up, and has ended   *)
(* when completed is.                                                       *)
LEMMA GivenFinite ==
  ASSUME IInv
  PROVE  /\ IsFiniteSet(ended) /\ Cardinality(ended) \in Nat /\ IsFiniteSet(given)
         /\ running => Cardinality(given) = number_req_tasks
<1>2. IsFiniteSet(Iteration)
  BY MaxLoopAssumption, FS_Interval DEF Iteration
<1>3. IsFiniteSet(ended) /\ Cardinality(ended) \in Nat /\ IsFiniteSet(given)
  BY <1>2, FS_Subset, FS_CardinalityType DEF IInv, TypeOK
<1>4. ASSUME running PROVE Cardinality(given) = number_req_tasks
  <2>1. given = 0 .. (number_req_tasks - 1) /\ number_req_tasks \in Nat
    BY <1>4, Ranges DEF IInv, WorkInv
  <2>2. Cardinality(0 .. (number_req_tasks - 1)) =
          IF 0 > number_req_tasks - 1 THEN 0 ELSE number_req_tasks - 1 - 0 + 1
    BY <2>1, FS_Interval
  <2> QED
    BY <2>1, <2>2
<1> QED
  BY <1>3, <1>4

LEMMA AllGiven ==
  ASSUME IInv, task_pool_end
  PROVE  given = 0 .. (LoopIteration - 1)
  BY EndOfPool DEF IInv, WorkInv

LEMMA AllEnded ==
  ASSUME IInv, completed
  PROVE  running /\ given = 0 .. (LoopIteration - 1) /\ ended = given
<1>1. running /\ given = 0 .. (LoopIteration - 1)
  BY Completed DEF IInv, WorkInv
<1>2. DoneCounter = number_req_tasks /\ DoneCounter = Cardinality(ended)
  BY <1>1, Completed DEF IInv, WorkInv
<1>3. Cardinality(given) = Cardinality(ended) /\ ended \subseteq given /\ IsFiniteSet(given)
  BY <1>1, <1>2, GivenFinite DEF IInv, WorkInv
<1> QED
  BY <1>1, <1>3, FS_Subset

-------------------------------------------------------------------------------
(* The workers *)

(* The iterations that end were given and had not ended, and as many        *)
(* workers raise done_port_accelerator.                                     *)
LEMMA EndsWereGiven ==
  ASSUME IInv, NEW d \in Ends
  PROVE  /\ d \subseteq given \ ended
         /\ Cardinality(ended \cup d) = Cardinality(ended) + Cardinality(d)
         /\ Cardinality({w \in Workers : held[w] \cap d # {}}) = Cardinality(d)
         /\ Cardinality(d) \in Nat
<1>1. d \subseteq UNION {held[w] : w \in Workers} /\ \A w \in Workers : Cardinality(d \cap held[w]) <= 1
  BY DEF Ends
<1>2. d \subseteq given \ ended
  BY <1>1 DEF IInv, WorkInv
<1>3. IsFiniteSet(d) /\ Cardinality(d) \in Nat
  BY <1>2, GivenFinite, FS_Subset, FS_CardinalityType
<1>4. ended \cap d = {}
  BY <1>2
<1>5. Cardinality(ended \cup d) = Cardinality(ended) + Cardinality(d)
  BY <1>3, <1>4, GivenFinite, FS_Union, FS_EmptySet
<1> DEFINE h == [w \in Workers |-> d \cap held[w]]
<1>6. h \in [Workers -> SUBSET d]
  OBVIOUS
<1>7. d = UNION {h[w] : w \in Workers}
  BY <1>1
<1>8. \A v, w \in Workers : v # w => h[v] \cap h[w] = {}
  BY DEF IInv, WorkInv
<1>9. \A w \in Workers : Cardinality(h[w]) <= 1
  BY <1>1
<1>10. {w \in Workers : h[w] # {}} = {w \in Workers : held[w] \cap d # {}}
  OBVIOUS
<1> HIDE DEF h
<1>11. Cardinality({w \in Workers : h[w] # {}}) = Cardinality(d)
  BY <1>3, <1>6, <1>7, <1>8, <1>9, OneEach
<1> QED
  BY <1>2, <1>3, <1>5, <1>10, <1>11

(* What is given in a cycle nobody has yet. *)
LEMMA GivingNew ==
  ASSUME IInv, call_state = 1
  PROVE  running /\ number_req_tasks \notin given
<1>1. running
  BY Giving DEF IInv, WorkInv
<1>2. number_req_tasks \in Nat /\ given = 0 .. (number_req_tasks - 1)
  BY <1>1, Ranges DEF IInv, WorkInv
<1> QED
  BY <1>1, <1>2

LEMMA HeldKept ==
  ASSUME IInv, NEW d \in Ends, Hold(d)
  PROVE  /\ ended' \subseteq given' /\ ended' = ended \cup d
         /\ UNION {held'[w] : w \in Workers} = given' \ ended'
         /\ \A v, w \in Workers : v # w => held'[v] \cap held'[w] = {}
         /\ given' = given \cup (IF call_state = 1 THEN {number_req_tasks} ELSE {})
         /\ given' \subseteq Iteration /\ held' \in [Workers -> SUBSET Iteration]
<1>1. d \subseteq given \ ended
  BY EndsWereGiven
<1>2. /\ held \in [Workers -> SUBSET Iteration]
      /\ UNION {held[w] : w \in Workers} = given \ ended /\ ended \subseteq given
      /\ \A v, w \in Workers : v # w => held[v] \cap held[w] = {}
      /\ given \subseteq Iteration
  BY DEF IInv, WorkInv, TypeOK
<1>3. /\ \A w \in Workers :
            held'[w] = (held[w] \ d) \cup (IF w \in selected_worker THEN {request} ELSE {})
      /\ ended' = ended \cup d
      /\ given' = given \cup {request : w \in selected_worker}
  BY DEF Hold
<1>4. CASE call_state = 0
  <2>1. given' = given /\ \A w \in Workers : held'[w] = held[w] \ d
    BY <1>3, <1>4, Giving DEF IInv
  <2>2. UNION {held'[w] : w \in Workers} = given' \ ended'
    BY <1>2, <1>3, <2>1
  <2>3. held' \in [Workers -> SUBSET Iteration]
    BY <1>2, <1>4, Giving DEF IInv, Hold
  <2> QED
    BY <1>1, <1>2, <1>3, <1>4, <2>1, <2>2, <2>3
<1>5. CASE call_state = 1
  <2>1. PICK w \in Workers : selected_worker = {w}
    BY <1>5, Giving DEF IInv
  <2>2. request = number_req_tasks /\ number_req_tasks \notin given /\ request \in Iteration
    <3>1. number_req_tasks < LoopIteration /\ LoopIteration <= MaxLoop
      BY <1>5, Giving, Ranges DEF IInv
    <3>2. number_req_tasks \in Iteration
      BY <3>1, Ranges, MaxLoopAssumption DEF IInv, Iteration
    <3> QED
      BY <1>5, <3>2, Giving, GivingNew DEF IInv
  <2>3. /\ given' = given \cup {request}
        /\ held'[w] = (held[w] \ d) \cup {request}
        /\ \A v \in Workers \ {w} : held'[v] = held[v] \ d
    BY <1>3, <2>1
  <2>4. \A v \in Workers : request \notin held[v]
    BY <1>2, <2>2
  <2>5. UNION {held'[v] : v \in Workers} = given' \ ended'
    <3>1. ASSUME NEW v \in Workers, NEW i \in held'[v] PROVE i \in given' \ ended'
      <4>1. i = request \/ i \in held[v] \ d
        BY <2>3, <3>1
      <4>2. held[v] \subseteq given \ ended
        BY <1>2
      <4> QED
        BY <1>1, <1>2, <1>3, <2>2, <2>3, <4>1, <4>2
    <3>2. ASSUME NEW i \in given' \ ended' PROVE \E v \in Workers : i \in held'[v]
      <4>1. CASE i = request
        BY <2>3, <4>1
      <4>2. CASE i # request
        <5>1. i \in given \ ended /\ i \notin d
          BY <1>3, <2>3, <3>2, <4>2
        <5>2. PICK v \in Workers : i \in held[v]
          BY <1>2, <5>1
        <5> QED
          BY <2>3, <5>1, <5>2
      <4> QED
        BY <4>1, <4>2
    <3> QED
      BY <3>1, <3>2
  <2>6. \A u, v \in Workers : u # v => held'[u] \cap held'[v] = {}
    BY <1>2, <2>3, <2>4
  <2>7. held' \in [Workers -> SUBSET Iteration]
    <3>1. held' = [v \in Workers |->
                     (held[v] \ d) \cup (IF v \in selected_worker THEN {request} ELSE {})]
      BY DEF Hold
    <3>2. \A v \in Workers :
            (held[v] \ d) \cup (IF v \in selected_worker THEN {request} ELSE {}) \in SUBSET Iteration
      BY <1>2, <2>2
    <3> QED
      BY <3>1, <3>2
  <2> QED
    BY <1>1, <1>2, <1>3, <1>5, <2>2, <2>3, <2>5, <2>6, <2>7
<1> QED
  BY <1>4, <1>5, Selection DEF IInv

-------------------------------------------------------------------------------
(* The actions *)

LEMMA CycleCounts ==
  ASSUME IInv, NEW d \in Ends, NEW ask \in SUBSET worker_status, Cycle(d, ask)
  PROVE  /\ DoneCounter' = (IF Cleared THEN 0 ELSE DoneCounter + Cardinality(d))
         /\ number_req_tasks' = (IF Cleared THEN 0 ELSE number_req_tasks + call_state)
         /\ ~ running => d = {}
         /\ ControlInv' /\ LoopIteration' = LoopIteration /\ (running' <=> InCall')
<1> DEFINE done == {w \in Workers : held[w] \cap d # {}}
<1>1. Datapath(done, ask) /\ Hold(d) /\ PassIterations /\ running' = (running /\ ~ done_port)
  BY DEF Cycle, Work
<1>2. Cardinality(done) = Cardinality(d) /\ Cardinality(d) \in Nat
  BY EndsWereGiven
<1> HIDE DEF done
<1>3. Clocked(done)
  BY <1>1, EdgeCounts DEF IInv
<1>4. ~ running => d = {}
  BY EndsWereGiven DEF IInv, WorkInv
<1>5. DoneCounter + Cardinality(d) <= number_req_tasks
  <2>1. CASE running
    <3>1. ended \cup d \subseteq given /\ IsFiniteSet(given) /\ Cardinality(given) = number_req_tasks
      BY <2>1, EndsWereGiven, GivenFinite DEF IInv, WorkInv
    <3>2. Cardinality(ended \cup d) <= number_req_tasks
      BY <3>1, FS_Subset
    <3> QED
      BY <2>1, <3>2, EndsWereGiven DEF IInv, WorkInv
  <2>2. CASE ~ running
    <3>1. DoneCounter = 0 /\ Cardinality(d) = 0
      BY <1>4, <2>2, FS_EmptySet DEF IInv, WorkInv
    <3> QED
      BY <3>1, Ranges DEF IInv
  <2> QED
    BY <2>1, <2>2
<1>6. ControlInv' /\ LoopIteration' = LoopIteration /\ (InCall' <=> InCall /\ ~ done_port)
  BY <1>1, <1>2, <1>5, EdgeKeeps DEF IInv
<1>7. running' <=> InCall'
  BY <1>1, <1>6 DEF IInv, WorkInv
<1> QED
  BY <1>2, <1>3, <1>4, <1>6, <1>7 DEF Clocked

LEMMA CycleKeeps ==
  ASSUME IInv, NEW d \in Ends, NEW ask \in SUBSET worker_status, Cycle(d, ask)
  PROVE  IInv'
<1>1. Hold(d) /\ running' = (running /\ ~ done_port) /\ calls' = calls
  BY DEF Cycle, Work
<1>2. ControlInv' /\ (running' <=> InCall')
  BY CycleCounts
<1>3. TypeOK'
  <2>1. /\ ended' \subseteq Iteration /\ given' \subseteq Iteration
        /\ held' \in [Workers -> SUBSET Iteration]
    BY <1>1, HeldKept
  <2>2. running' \in BOOLEAN /\ calls' \in 0 .. Calls
    BY <1>1 DEF IInv, TypeOK
  <2>3. SignalTypes'
    BY <1>2 DEF ControlInv
  <2> QED
    BY <2>1, <2>2, <2>3 DEF TypeOK, SignalTypes
<1>6. WorkInv'
  <2>1. /\ ended' \subseteq given' /\ ended' = ended \cup d
        /\ UNION {held'[w] : w \in Workers} = given' \ ended'
        /\ \A v, w \in Workers : v # w => held'[v] \cap held'[w] = {}
        /\ given' = given \cup (IF call_state = 1 THEN {number_req_tasks} ELSE {})
    BY <1>1, HeldKept
  <2>2. CASE ~ running
    <3>1. ~ running' /\ d = {} /\ call_state = 0
      BY <1>1, <2>2, CycleCounts, GivingNew, Giving DEF IInv
    <3>2. given' = ended' /\ DoneCounter' = 0
      BY <2>1, <2>2, <3>1, CycleCounts, FS_EmptySet DEF IInv, WorkInv
    <3> QED
      BY <1>2, <2>1, <3>1, <3>2 DEF WorkInv
  <2>3. CASE running /\ completed
    <3>1. ~ running' /\ given = ended /\ call_state = 0 /\ Cleared
      BY <1>1, <2>3, Completed, AllEnded DEF IInv, done_port, Cleared
    <3>2. given' = ended' /\ DoneCounter' = 0
      BY <2>1, <3>1, CycleCounts
    <3> QED
      BY <1>2, <2>1, <3>1, <3>2 DEF WorkInv
  <2>4. CASE running /\ ~ completed
    <3>1. running' /\ ~ Cleared
      BY <1>1, <2>4 DEF done_port, Cleared, IInv, WorkInv, ControlInv, MachineInv
    <3>2. number_req_tasks' = number_req_tasks + call_state /\ number_req_tasks \in Nat
      BY <3>1, CycleCounts, Ranges DEF IInv
    <3>3. given = 0 .. (number_req_tasks - 1)
      BY <2>4 DEF IInv, WorkInv
    <3>4. given' = 0 .. (number_req_tasks' - 1)
      <4>1. CASE call_state = 0
        BY <2>1, <3>2, <3>3, <4>1
      <4>2. CASE call_state = 1
        <5>1. 0 .. number_req_tasks = 0 .. (number_req_tasks - 1) \cup {number_req_tasks}
          BY <3>2
        <5> QED
          BY <2>1, <3>2, <3>3, <4>2, <5>1
      <4> QED
        BY <4>1, <4>2, Selection DEF IInv
    <3>5. DoneCounter' = Cardinality(ended')
      BY <2>1, <2>4, <3>1, CycleCounts, EndsWereGiven DEF IInv, WorkInv
    <3> QED
      BY <1>2, <2>1, <3>1, <3>4, <3>5 DEF WorkInv
  <2> QED
    BY <2>2, <2>3, <2>4
<1> QED
  BY <1>2, <1>3, <1>6 DEF IInv

LEMMA CallKeeps ==
  ASSUME IInv, NEW n \in Loops, Call(n)
  PROVE  IInv'
<1>1. PICK ask \in SUBSET worker_status : Datapath({}, ask)
  BY DEF Call
<1>2. /\ Called(n) /\ n \in 0 .. MaxLoop /\ ~ running
      /\ running' = TRUE /\ calls' = calls + 1 /\ calls < Calls
      /\ given' = {} /\ ended' = {} /\ held' = held
  BY LoopsAssumption DEF Call
<1>3. ControlInv' /\ InCall' /\ DoneCounter' = 0 /\ number_req_tasks' = 0
  BY <1>1, <1>2, CallKeepsControl DEF IInv
<1>4. TypeOK'
  <2>1. calls' \in 0 .. Calls
    BY <1>2, CallsAssumption DEF IInv, TypeOK
  <2>2. held' \in [Workers -> SUBSET Iteration]
    BY <1>2 DEF IInv, TypeOK
  <2>3. SignalTypes'
    BY <1>3 DEF ControlInv
  <2> QED
    BY <1>2, <2>1, <2>2, <2>3 DEF TypeOK, SignalTypes
<1>5. WorkInv'
  <2>1. given' = 0 .. (number_req_tasks' - 1)
    BY <1>2, <1>3
  <2>2. DoneCounter' = Cardinality(ended')
    BY <1>2, <1>3, FS_EmptySet
  <2>3. /\ UNION {held'[w] : w \in Workers} = given' \ ended'
        /\ \A v, w \in Workers : v # w => held'[v] \cap held'[w] = {}
    BY <1>2 DEF IInv, WorkInv
  <2> QED
    BY <1>2, <1>3, <2>1, <2>2, <2>3 DEF WorkInv
<1> QED
  BY <1>3, <1>4, <1>5 DEF IInv

LEMMA InitHolds ==
  ASSUME AllInit
  PROVE  IInv
<1>1. ControlInv /\ ~ InCall
  BY InitControl DEF AllInit
<1>2. TypeOK
  <2>1. 0 \in 0 .. Calls
    BY CallsAssumption
  <2>2. /\ running = FALSE /\ given = {} /\ ended = {} /\ calls = 0
        /\ held \in [Workers -> SUBSET Iteration]
    BY DEF AllInit
  <2>3. SignalTypes
    BY <1>1 DEF ControlInv
  <2> QED
    BY <2>1, <2>2, <2>3 DEF TypeOK, SignalTypes
<1>3. WorkInv
  BY <1>1, FS_EmptySet DEF AllInit, Init, WorkInv
<1> QED
  BY <1>1, <1>2, <1>3 DEF IInv

LEMMA StepKeeps ==
  ASSUME IInv, [Next]_vars
  PROVE  IInv'
<1>1. CASE \E d \in Ends, ask \in SUBSET worker_status : Cycle(d, ask)
  BY <1>1, CycleKeeps
<1>2. CASE \E n \in Loops : Call(n)
  BY <1>2, CallKeeps
<1>3. CASE UNCHANGED vars
  <2> USE <1>3 DEF vars, caller
  <2>1. ControlInv' /\ (InCall' <=> InCall)
    BY StutterControl DEF IInv
  <2>2. TypeOK'
    <3>1. SignalTypes'
      BY <2>1 DEF ControlInv
    <3> QED
      BY <3>1 DEF IInv, TypeOK, SignalTypes
  <2>3. WorkInv'
    <3>1. UNCHANGED <<DoneCounter, number_req_tasks>>
      BY DEF controller, counters
    <3> QED
      BY <2>1, <3>1 DEF IInv, WorkInv
  <2> QED
    BY <2>1, <2>2, <2>3 DEF IInv
<1> QED
  BY <1>1, <1>2, <1>3 DEF Next, Clock

LEMMA Invariance == Spec => []IInv
<1>1. AllInit => IInv
  BY InitHolds
<1>2. IInv /\ [Next]_vars => IInv'
  BY StepKeeps
<1> QED
  BY <1>1, <1>2, PTL DEF Spec

-------------------------------------------------------------------------------
(* The theorems *)

(* Every register keeps to its width: no counter of iterations passes the   *)
(* largest loop, whatever the workers do.                                   *)
THEOREM CallTypeCorrect == Spec => []TypeOK
<1>1. IInv => TypeOK
  BY DEF IInv
<1> QED
  BY <1>1, Invariance, PTL

(* task_pool_end and completed are up only when they say the truth: there   *)
(* is nothing more to give, and nothing more to wait for.                   *)
THEOREM SignalsStayFinal == Spec => []SignalsAreFinal
<1>1. IInv => SignalsAreFinal
  BY AllGiven, AllEnded, Completed DEF SignalsAreFinal, IInv
<1> QED
  BY <1>1, Invariance, PTL

(* The controller never writes the full FIFO nor reads the empty one. *)
THEOREM FifoNeverOverrun == Spec => []NeverOverrun
<1>1. IInv => NeverOverrun
  BY FifoSafe DEF NeverOverrun, IInv
<1> QED
  BY <1>1, Invariance, PTL

-------------------------------------------------------------------------------
(* The refinement *)

LEMMA CycleImplements ==
  ASSUME IInv, NEW d \in Ends, NEW ask \in SUBSET worker_status, Cycle(d, ask)
  PROVE  [Loop!Next]_(Loop!vars)
<1>1. /\ Hold(d) /\ running' = (running /\ ~ done_port)
      /\ LoopIteration' = LoopIteration /\ running \in BOOLEAN
  BY CycleCounts DEF Cycle, Work, IInv, TypeOK
<1>2. /\ ended' = ended \cup d /\ ended' \subseteq given' /\ d \subseteq given \ ended
      /\ given' = given \cup (IF call_state = 1 THEN {number_req_tasks} ELSE {})
      /\ ended \subseteq given
  BY <1>1, HeldKept, EndsWereGiven DEF IInv, WorkInv
<1>3. CASE ~ running
  <2>1. d = {} /\ call_state = 0
    BY <1>3, CycleCounts, GivingNew, Giving DEF IInv
  <2>2. UNCHANGED <<running, LoopIteration, given, ended>>
    BY <1>1, <1>2, <1>3, <2>1
  <2> QED
    BY <2>2 DEF Loop!vars
<1>4. CASE running /\ completed
  <2>1. ~ running' /\ given = ended /\ call_state = 0 /\ ended = 0 .. (LoopIteration - 1)
    BY <1>1, <1>4, Completed, AllEnded DEF IInv, done_port
  <2>2. UNCHANGED <<LoopIteration, given, ended>> /\ running' = FALSE
    BY <1>1, <1>2, <2>1
  <2> QED
    BY <1>4, <2>1, <2>2 DEF Loop!Next, Loop!Return, Loop!Iterations
<1>5. CASE running /\ ~ completed
  <2>1. running'
    BY <1>1, <1>5 DEF done_port
  <2>2. given' = given \/ \E i \in 0 .. (LoopIteration - 1) : given = 0 .. (i - 1) /\ given' = 0 .. i
    <3>1. CASE call_state = 0
      BY <1>2, <3>1
    <3>2. CASE call_state = 1
      <4> DEFINE i == number_req_tasks
      <4>1. given = 0 .. (i - 1) /\ i \in Nat /\ i < LoopIteration /\ LoopIteration \in Nat
        BY <1>5, <3>2, Giving, Ranges DEF IInv, WorkInv
      <4>2. i \in 0 .. (LoopIteration - 1) /\ 0 .. i = 0 .. (i - 1) \cup {i}
        BY <4>1
      <4>3. given' = 0 .. i
        BY <1>2, <3>2, <4>1, <4>2
      <4> QED
        BY <4>1, <4>2, <4>3
    <3> QED
      BY <3>1, <3>2, Selection DEF IInv
  <2>3. ended' \subseteq given
    BY <1>2
  <2> QED
    BY <1>1, <1>2, <1>5, <2>1, <2>2, <2>3 DEF Loop!Next, Loop!Progress, Loop!Iterations
<1> QED
  BY <1>3, <1>4, <1>5

(* The controller implements ParallelLoop: it gives the iterations in       *)
(* order, each once, and returns when, and not before, all have ended.      *)
THEOREM ImplementsLoop == Spec => RefinesLoop
<1>1. AllInit => Loop!Init
  BY DEF AllInit, Init, Loop!Init
<1>2. ASSUME IInv, [Next]_vars PROVE [Loop!Next]_(Loop!vars)
  <2>1. CASE \E d \in Ends, ask \in SUBSET worker_status : Cycle(d, ask)
    BY <1>2, <2>1, CycleImplements
  <2>2. CASE \E n \in Loops : Call(n)
    BY <2>2 DEF Call, Called, Loop!Next, Loop!Call
  <2>3. CASE UNCHANGED vars
    BY <2>3 DEF vars, controller, caller, machine, Loop!vars
  <2> QED
    BY <1>2, <2>1, <2>2, <2>3 DEF Next, Clock
<1>3. IInv /\ [Next]_vars => [Loop!Next]_(Loop!vars)
  BY <1>2
<1> QED
  BY <1>1, <1>3, Invariance, PTL DEF Spec, RefinesLoop, Loop!Spec
===============================================================================
