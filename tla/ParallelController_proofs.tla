----------------------- MODULE ParallelController_proofs -----------------------
(* What the controller of parallel calls guarantees by itself, whoever its  *)
(* workers are: lemmas for the modules that give it some.                   *)
EXTENDS ParallelController, FiniteSetTheorems, WellFoundedInduction, TLAPS

-------------------------------------------------------------------------------
(* The invariant of the controller *)

SignalTypes ==
  /\ present_state \in {"S_0", "S_1", "S_2", "S_3", "S_4", "S_5", "S_6"}
  /\ {reg_0, reg_1, LoopIteration, q, data_out} \subseteq 0 .. (MaxLoop + 1)
  /\ ram \in [Cells -> Iteration]
  /\ {wr_pointer, rd_pointer, call_state} \subseteq 0 .. 1
  /\ status_cnt \in 0 .. 2
  /\ {available_data, reset_counter} \subseteq BOOLEAN
  /\ {StartCounter, DoneCounter, number_req_tasks} \subseteq 0 .. MaxLoop
  /\ worker_status \subseteq Workers

InCall == present_state \notin {"S_0", "S_5"}

(* What the dispatcher has read from the FIFO: the iterations it gave away  *)
(* and, in the cycle after a read, the one it gives in this cycle.          *)
words_read == number_req_tasks + call_state

(* The FIFO holds the iterations pushed and not yet read, in the cells from *)
(* rd_pointer on; the word its memory shows is the next one whenever the    *)
(* dispatcher may act on it.                                                *)
FifoInv ==
  /\ StartCounter = words_read + status_cnt
  /\ status_cnt = 1 <=> wr_pointer # rd_pointer
  /\ status_cnt > 0 => ram[rd_pointer] = words_read
  /\ status_cnt = 2 => ram[1 - rd_pointer] = words_read + 1
  /\ call_state = 0 /\ available_data => status_cnt > 0 /\ q = words_read
  /\ call_state = 1 => data_out = number_req_tasks /\ available_workers

(* Where the state machine stands, as many iterations have been pushed; and *)
(* while it has more to push, after the first, there is always one that the *)
(* dispatcher has not given away.                                           *)
MachineInv ==
  /\ LoopIteration <= MaxLoop
  /\ InCall => reset_counter
  /\ present_state \in {"S_0", "S_5", "S_1"} => StartCounter = 0
  /\ present_state = "S_4" =>
       /\ reg_0 = StartCounter /\ reg_0 <= LoopIteration
       /\ StartCounter > 0 => status_cnt > 0 /\ reg_1 = reg_0
  /\ present_state = "S_2" =>
       /\ reg_0 = StartCounter /\ reg_0 < LoopIteration /\ reg_1 = reg_0 + 1
       /\ status_cnt < 2
       /\ StartCounter > 0 => status_cnt + call_state > 0
  /\ present_state = "S_3" =>
       /\ reg_0 = StartCounter /\ reg_0 <= LoopIteration /\ reg_1 = reg_0
       /\ status_cnt > 0 /\ status_cnt + call_state > 1
  /\ present_state = "S_6" => StartCounter = LoopIteration

(* The workers end no more than they are given. *)
DoneInv == DoneCounter <= number_req_tasks

ControlInv == SignalTypes /\ FifoInv /\ MachineInv /\ DoneInv

-------------------------------------------------------------------------------
(* What the signals mean *)

LEMMA Least ==
  ASSUME NEW S \in SUBSET Nat, S # {}
  PROVE  \E m \in S : \A k \in S : m <= k
<1>1. \E m \in S : \A k \in S : <<k, m>> \notin OpToRel(<, Nat)
  BY NatLessThanWellFounded, WFMin, Zenon
<1>2. \A k, m \in S : <<k, m>> \in OpToRel(<, Nat) <=> k < m
  BY DEF OpToRel
<1>3. \E m \in S : \A k \in S : ~ (k < m)
  BY <1>1, <1>2, Zenon
<1> QED
  BY <1>3

(* The iterations that end in a cycle are as many as the workers that end   *)
(* one.                                                                     *)
LEMMA OneEach ==
  ASSUME NEW S, NEW d, IsFiniteSet(d), NEW h \in [S -> SUBSET d],
         d = UNION {h[w] : w \in S},
         \A v, w \in S : v # w => h[v] \cap h[w] = {},
         \A w \in S : Cardinality(h[w]) <= 1
  PROVE  Cardinality({w \in S : h[w] # {}}) = Cardinality(d)
<1> DEFINE W == {w \in S : h[w] # {}}
           f == [i \in d |-> CHOOSE w \in W : i \in h[w]]
<1>1. ASSUME NEW i \in d PROVE f[i] \in W /\ i \in h[f[i]]
  <2>1. \E w \in W : i \in h[w]
    BY <1>1
  <2>2. f[i] = CHOOSE w \in W : i \in h[w]
    OBVIOUS
  <2> QED
    BY <2>1, <2>2
<1>2. ASSUME NEW i \in d, NEW j \in d, f[i] = f[j] PROVE i = j
  <2> DEFINE T == h[f[i]]
  <2>1. f[i] \in S /\ T \in SUBSET d /\ i \in T /\ j \in T
    BY <1>1, <1>2
  <2>2. IsFiniteSet(T) /\ Cardinality(T) \in Nat /\ Cardinality(T) <= 1
    BY <2>1, FS_Subset, FS_CardinalityType
  <2>3. IsFiniteSet(T \ {i}) /\ Cardinality(T \ {i}) = Cardinality(T) - 1
    BY <2>1, <2>2, FS_RemoveElement
  <2>4. Cardinality(T \ {i}) = 0
    BY <2>2, <2>3, FS_CardinalityType
  <2>5. T \ {i} = {}
    BY <2>3, <2>4, FS_EmptySet
  <2> QED
    BY <2>1, <2>5
<1>3. ASSUME NEW w \in W PROVE \E i \in d : f[i] = w
  <2>1. PICK i \in h[w] : TRUE
    BY <1>3
  <2>2. i \in d
    BY <1>3, <2>1
  <2>3. f[i] = w
    BY <1>1, <1>3, <2>1, <2>2
  <2> QED
    BY <2>2, <2>3
<1>4. f \in [d -> W]
  BY <1>1
<1> HIDE DEF f, W
<1>5. f \in Bijection(d, W)
  BY <1>2, <1>3, <1>4 DEF Bijection, Injection, IsInjective, Surjection
<1>6. ExistsBijection(d, W)
  BY <1>5 DEF ExistsBijection
<1>7. Cardinality(W) = Cardinality(d)
  BY <1>6, FS_Bijection
<1> QED
  BY <1>7 DEF W

(* In the cycle after a read exactly one worker is started; in the others   *)
(* none is.                                                                 *)
LEMMA Selection ==
  ASSUME ControlInv
  PROVE  /\ call_state = 0 => selected_worker = {}
         /\ call_state = 1 => \E w \in Workers \ worker_status : selected_worker = {w}
         /\ Given = call_state /\ call_state \in 0 .. 1
<1>1. call_state \in 0 .. 1
  BY DEF ControlInv, SignalTypes
<1>2. ASSUME call_state = 0 PROVE selected_worker = {}
  BY <1>2 DEF selected_worker
<1>3. ASSUME call_state = 1 PROVE \E w \in Workers \ worker_status : selected_worker = {w}
  <2> DEFINE Idle == Workers \ worker_status
  <2>1. Idle # {} /\ Idle \in SUBSET Nat
    BY <1>3, KernNumAssumption DEF ControlInv, FifoInv, available_workers, Workers
  <2>2. PICK w \in Idle : \A v \in Idle : w <= v
    BY <2>1, Least
  <2>3. \A v \in Idle : (\A u \in Idle : v <= u) => v = w
    <3> SUFFICES ASSUME NEW v \in Idle, v <= w PROVE v = w
      BY <2>2
    <3> QED
      BY <2>1, <2>2
  <2>4. selected_worker = {w}
    BY <1>3, <2>2, <2>3 DEF selected_worker
  <2> QED
    BY <2>4
<1>4. Given = call_state
  <2>1. CASE call_state = 0
    BY <1>2, <2>1, FS_EmptySet DEF Given
  <2>2. CASE call_state = 1
    BY <1>3, <2>2, FS_Singleton DEF Given
  <2> QED
    BY <1>1, <2>1, <2>2
<1> QED
  BY <1>1, <1>2, <1>3, <1>4

(* The FIFO is neither overrun nor read when empty, so that its counter     *)
(* follows every push and every read.                                       *)
LEMMA FifoSafe ==
  ASSUME ControlInv
  PROVE  /\ push => status_cnt < 2
         /\ read => status_cnt > 0
         /\ Entries = status_cnt + Pushed - (IF read THEN 1 ELSE 0)
         /\ status_cnt \in 0 .. 2
<1>1. status_cnt \in 0 .. 2
  BY DEF ControlInv, SignalTypes
<1>2. push => status_cnt < 2
  BY DEF ControlInv, MachineInv, push
<1>3. read => status_cnt > 0
  BY DEF ControlInv, FifoInv, read
<1>4. Entries = status_cnt + Pushed - (IF read THEN 1 ELSE 0)
  <2>1. CASE read /\ ~ push
    BY <1>1, <1>3, <2>1 DEF Entries, Pushed
  <2>2. CASE push /\ ~ read
    BY <1>1, <1>2, <2>2 DEF Entries, Pushed
  <2>3. CASE push /\ read
    BY <1>1, <2>3 DEF Entries, Pushed
  <2>4. CASE ~ push /\ ~ read
    BY <1>1, <2>4 DEF Entries, Pushed
  <2> QED
    BY <2>1, <2>2, <2>3, <2>4
<1> QED
  BY <1>1, <1>2, <1>3, <1>4

LEMMA Ranges ==
  ASSUME ControlInv
  PROVE  /\ {StartCounter, DoneCounter, number_req_tasks, reg_0, reg_1, LoopIteration} \subseteq Nat
         /\ LoopIteration <= MaxLoop
  BY MaxLoopAssumption DEF ControlInv, SignalTypes, MachineInv

(* When as many iterations have been given as were pushed, and not none,    *)
(* the state machine has pushed all of them.                                *)
LEMMA AllPushed ==
  ASSUME ControlInv, StartCounter # 0, status_cnt = 0, call_state = 0
  PROVE  present_state = "S_6" /\ InCall /\ number_req_tasks = LoopIteration
<1>1. StartCounter \in Nat /\ number_req_tasks \in Nat
  BY Ranges
<1>2. present_state \in {"S_0", "S_1", "S_2", "S_3", "S_4", "S_5", "S_6"}
  BY DEF ControlInv, SignalTypes
<1>3. present_state \notin {"S_0", "S_5", "S_1", "S_4", "S_2", "S_3"}
  BY <1>1 DEF ControlInv, MachineInv
<1>4. present_state = "S_6"
  BY <1>2, <1>3
<1> QED
  BY <1>1, <1>4 DEF InCall, ControlInv, MachineInv, FifoInv, words_read

LEMMA EndOfPool ==
  ASSUME ControlInv, task_pool_end
  PROVE  /\ present_state = "S_6" /\ InCall
         /\ call_state = 0 /\ status_cnt = 0 /\ number_req_tasks = LoopIteration
<1>1. StartCounter \in Nat /\ number_req_tasks \in Nat /\ status_cnt \in Nat /\ call_state \in Nat
  BY Ranges, Selection, FifoSafe
<1>2. StartCounter # 0 /\ status_cnt = 0 /\ call_state = 0
  BY <1>1 DEF task_pool_end, ControlInv, FifoInv, words_read
<1> QED
  BY <1>2, AllPushed

LEMMA Completed ==
  ASSUME ControlInv, completed
  PROVE  /\ status_cnt = 0 /\ call_state = 0
         /\ present_state = "S_6" /\ InCall
         /\ number_req_tasks = LoopIteration /\ DoneCounter = number_req_tasks
<1>1. /\ StartCounter \in Nat /\ number_req_tasks \in Nat /\ call_state \in Nat /\ status_cnt \in Nat
      /\ DoneCounter \in Nat
  BY Ranges, Selection, FifoSafe
<1>2. StartCounter = DoneCounter /\ StartCounter # 0 /\ status_cnt = 0
  BY DEF completed, fifo_empty
<1>3. call_state = 0 /\ DoneCounter = number_req_tasks
  BY <1>1, <1>2 DEF ControlInv, FifoInv, DoneInv, words_read
<1> QED
  BY <1>2, <1>3, AllPushed

(* The counters are cleared only while nothing is pushed, read or given.    *)
LEMMA ClearedIsIdle ==
  ASSUME ControlInv, Cleared
  PROVE  /\ status_cnt = 0 /\ call_state = 0 /\ ~ available_data
         /\ ~ push /\ ~ read /\ present_state \in {"S_0", "S_5", "S_6"}
         /\ present_state = "S_6" => completed
<1>1. present_state \in {"S_0", "S_5", "S_6"} /\ (present_state = "S_6" => completed)
  BY Completed DEF Cleared, ControlInv, MachineInv, InCall
<1>2. status_cnt = 0 /\ call_state = 0
  <2>1. CASE completed
    BY <2>1, Completed
  <2>2. CASE ~ completed
    <3>1. StartCounter = 0
      BY <1>1, <2>2 DEF ControlInv, MachineInv
    <3>2. number_req_tasks \in Nat /\ call_state \in Nat /\ status_cnt \in Nat
      BY Ranges, Selection, FifoSafe
    <3> QED
      BY <3>1, <3>2 DEF ControlInv, FifoInv, words_read
  <2> QED
    BY <2>1, <2>2
<1>3. ~ available_data
  BY <1>2 DEF ControlInv, FifoInv
<1> QED
  BY <1>1, <1>2, <1>3 DEF push, read

(* What is given in a cycle is the next iteration. *)
LEMMA Giving ==
  ASSUME ControlInv
  PROVE  \/ /\ call_state = 0 /\ selected_worker = {}
            /\ {request : w \in selected_worker} = {}
         \/ /\ call_state = 1 /\ InCall
            /\ request = number_req_tasks
            /\ {request : w \in selected_worker} = {number_req_tasks}
            /\ number_req_tasks < LoopIteration
            /\ \E w \in Workers \ worker_status : selected_worker = {w}
<1>1. CASE call_state = 0
  BY <1>1, Selection
<1>2. CASE call_state = 1
  <2>1. request = number_req_tasks
    BY <1>2 DEF ControlInv, FifoInv, request
  <2>2. PICK w \in Workers \ worker_status : selected_worker = {w}
    BY <1>2, Selection
  <2>3. {request : v \in selected_worker} = {number_req_tasks}
    BY <2>1, <2>2
  <2>4. number_req_tasks \in Nat /\ status_cnt \in Nat /\ StartCounter \in Nat
    BY Ranges, FifoSafe
  <2>5. StartCounter > number_req_tasks
    BY <1>2, <2>4 DEF ControlInv, FifoInv, words_read
  <2>6. InCall /\ StartCounter <= LoopIteration
    <3>1. present_state \in {"S_0", "S_1", "S_2", "S_3", "S_4", "S_5", "S_6"}
      BY DEF ControlInv, SignalTypes
    <3> QED
      BY <2>4, <2>5, <3>1, Ranges DEF ControlInv, MachineInv, InCall
  <2> QED
    BY <1>2, <2>1, <2>2, <2>3, <2>4, <2>5, <2>6, Ranges
<1> QED
  BY <1>1, <1>2, Selection

-------------------------------------------------------------------------------
(* One edge of the clock *)

(* The counters that the invariant is about, after an edge.                 *)
Clocked(done) ==
  /\ status_cnt' = status_cnt + Pushed - (IF read THEN 1 ELSE 0)
  /\ call_state' = IF read THEN 1 ELSE 0
  /\ reset_counter' = ~ completed
  /\ StartCounter' = IF Cleared THEN 0 ELSE StartCounter + Pushed
  /\ number_req_tasks' = IF Cleared THEN 0 ELSE number_req_tasks + call_state
  /\ DoneCounter' = IF Cleared THEN 0 ELSE DoneCounter + Cardinality(done)

LEMMA EdgeCounts ==
  ASSUME ControlInv, NEW done, NEW ask, Datapath(done, ask)
  PROVE  Clocked(done)
BY FifoSafe, Selection DEF Datapath, Fifo, CallDispatcher, Counters, Clocked

(* What is pushed is the number of the next iteration. *)
LEMMA PushedIsNext ==
  ASSUME ControlInv, push
  PROVE  reg_0 = StartCounter /\ reg_0 < LoopIteration /\ reg_0 \in Iteration
<1>1. reg_0 = StartCounter /\ reg_0 < LoopIteration /\ LoopIteration <= MaxLoop
  BY DEF ControlInv, MachineInv, push
<1> QED
  BY <1>1, Ranges, MaxLoopAssumption DEF Iteration

LEMMA EdgeTypes ==
  ASSUME ControlInv, NEW done, NEW ask, Datapath(done, ask)
  PROVE  /\ {q', data_out'} \subseteq 0 .. (MaxLoop + 1)
         /\ ram' \in [Cells -> Iteration]
         /\ {wr_pointer', rd_pointer', call_state'} \subseteq 0 .. 1
         /\ status_cnt' \in 0 .. 2
         /\ {available_data', reset_counter'} \subseteq BOOLEAN
         /\ worker_status' \subseteq Workers
<1>1. ram' \in [Cells -> Iteration]
  BY PushedIsNext DEF Datapath, Fifo, Stored, ControlInv, SignalTypes
<1>2. ram[rd_pointer] \in 0 .. (MaxLoop + 1)
  BY MaxLoopAssumption DEF ControlInv, SignalTypes, Cells, Iteration
<1>3. {q', data_out'} \subseteq 0 .. (MaxLoop + 1)
  BY <1>2 DEF Datapath, Fifo, ControlInv, SignalTypes
<1>4. {wr_pointer', rd_pointer', call_state'} \subseteq 0 .. 1
  BY DEF Datapath, Fifo, CallDispatcher, ControlInv, SignalTypes
<1>5. status_cnt' \in 0 .. 2
  BY FifoSafe, EdgeCounts DEF Clocked, Pushed
<1>6. {available_data', reset_counter'} \subseteq BOOLEAN
  BY DEF Datapath, CallDispatcher, DataSeen, Counters
<1>7. worker_status' \subseteq Workers
  BY Selection DEF Datapath, ControlInv, SignalTypes
<1> QED
  BY <1>1, <1>3, <1>4, <1>5, <1>6, <1>7

LEMMA FifoKept ==
  ASSUME ControlInv, NEW done, NEW ask, Datapath(done, ask)
  PROVE  FifoInv'
<1>1. /\ status_cnt \in 0 .. 2 /\ call_state \in 0 .. 1
      /\ StartCounter \in Nat /\ number_req_tasks \in Nat /\ words_read \in Nat
      /\ wr_pointer \in 0 .. 1 /\ rd_pointer \in 0 .. 1
  BY FifoSafe, Selection, Ranges DEF words_read, ControlInv, SignalTypes
<1>2. Clocked(done)
  BY EdgeCounts
<1>3. /\ q' = ram[rd_pointer]
      /\ data_out' = IF read THEN q ELSE data_out
      /\ wr_pointer' = IF push THEN 1 - wr_pointer ELSE wr_pointer
      /\ rd_pointer' = IF read THEN 1 - rd_pointer ELSE rd_pointer
      /\ available_data' <=> status_cnt # 0
      /\ \A c \in 0 .. 1 : ram'[c] = IF push /\ c = wr_pointer THEN reg_0 ELSE ram[c]
  BY DEF Datapath, Fifo, CallDispatcher, DataSeen, fifo_empty, Stored, Cells
<1>4. CASE Cleared
  <2>1. /\ status_cnt = 0 /\ ~ push /\ ~ read
        /\ words_read' = 0 /\ status_cnt' = 0 /\ StartCounter' = 0 /\ call_state' = 0
    BY <1>2, <1>4, ClearedIsIdle DEF Clocked, Pushed, words_read
  <2>2. wr_pointer' = rd_pointer'
    BY <1>1, <1>3, <2>1 DEF ControlInv, FifoInv
  <2> QED
    BY <1>3, <2>1, <2>2 DEF FifoInv
<1>5. CASE ~ Cleared
  <2>1. /\ words_read' = words_read + (IF read THEN 1 ELSE 0)
        /\ StartCounter' = StartCounter + Pushed
        /\ number_req_tasks' = number_req_tasks + call_state
    BY <1>1, <1>2, <1>5 DEF Clocked, words_read
  <2>2. /\ StartCounter = words_read + status_cnt
        /\ status_cnt = 1 <=> wr_pointer # rd_pointer
        /\ status_cnt > 0 => ram[rd_pointer] = words_read
        /\ status_cnt = 2 => ram[1 - rd_pointer] = words_read + 1
        /\ push => status_cnt < 2 /\ reg_0 = StartCounter
        /\ read => status_cnt > 0 /\ call_state = 0 /\ q = words_read /\ available_workers
    BY FifoSafe, PushedIsNext DEF ControlInv, FifoInv, read
  <2>3. status_cnt' = status_cnt + Pushed - (IF read THEN 1 ELSE 0)
    BY <1>2 DEF Clocked
  <2>4. /\ StartCounter' = words_read' + status_cnt'
        /\ status_cnt' = 1 <=> wr_pointer' # rd_pointer'
        /\ status_cnt' > 0 => ram'[rd_pointer'] = words_read'
        /\ status_cnt' = 2 => ram'[1 - rd_pointer'] = words_read' + 1
    <3>1. CASE push /\ read
      BY <1>1, <1>3, <2>1, <2>2, <2>3, <3>1 DEF Pushed
    <3>2. CASE push /\ ~ read
      BY <1>1, <1>3, <2>1, <2>2, <2>3, <3>2 DEF Pushed
    <3>3. CASE ~ push /\ read
      BY <1>1, <1>3, <2>1, <2>2, <2>3, <3>3 DEF Pushed
    <3>4. CASE ~ push /\ ~ read
      BY <1>1, <1>3, <2>1, <2>2, <2>3, <3>4 DEF Pushed
    <3> QED
      BY <3>1, <3>2, <3>3, <3>4
  <2>5. ASSUME call_state' = 0, available_data' PROVE status_cnt' > 0 /\ q' = words_read'
    <3>1. ~ read /\ status_cnt > 0
      BY <1>1, <1>2, <1>3, <2>5 DEF Clocked
    <3> QED
      BY <1>1, <1>3, <2>1, <2>2, <2>3, <3>1 DEF Pushed
  <2>6. ASSUME call_state' = 1 PROVE data_out' = number_req_tasks' /\ available_workers'
    <3>1. read /\ call_state = 0
      BY <1>2, <2>2, <2>6 DEF Clocked
    <3>2. data_out' = number_req_tasks'
      BY <1>1, <1>3, <2>1, <2>2, <3>1 DEF words_read
    <3>3. worker_status' \subseteq worker_status
      BY <3>1, Selection DEF Datapath
    <3> QED
      BY <2>2, <3>1, <3>2, <3>3 DEF available_workers
  <2> QED
    BY <2>4, <2>5, <2>6 DEF FifoInv
<1> QED
  BY <1>4, <1>5

(* The counters, when the workers end no more than they were given.         *)
LEMMA CountersKept ==
  ASSUME ControlInv, NEW done, NEW ask, Datapath(done, ask),
         Cardinality(done) \in Nat, DoneCounter + Cardinality(done) <= number_req_tasks
  PROVE  {StartCounter', DoneCounter', number_req_tasks'} \subseteq 0 .. MaxLoop /\ DoneInv'
<1>1. Clocked(done)
  BY EdgeCounts
<1>2. {StartCounter, DoneCounter, number_req_tasks} \subseteq 0 .. MaxLoop /\ MaxLoop \in Nat
  BY MaxLoopAssumption DEF ControlInv, SignalTypes
<1>3. StartCounter' \in 0 .. MaxLoop
  <2>1. push => StartCounter < MaxLoop
    BY <1>2, PushedIsNext, Ranges
  <2> QED
    BY <1>1, <1>2, <2>1 DEF Clocked, Pushed
<1>4. number_req_tasks' \in 0 .. MaxLoop
  <2>1. call_state = 1 => number_req_tasks < MaxLoop
    BY <1>2, Giving, Ranges
  <2> QED
    BY <1>1, <1>2, <2>1, Selection DEF Clocked
<1>5. DoneCounter' \in 0 .. MaxLoop /\ DoneCounter' <= number_req_tasks'
  BY <1>1, <1>2, Selection DEF Clocked
<1> QED
  BY <1>3, <1>4, <1>5 DEF DoneInv

LEMMA MachineKept ==
  ASSUME ControlInv, NEW done, NEW ask, Datapath(done, ask), PassIterations
  PROVE  /\ MachineInv'
         /\ InCall' <=> InCall /\ ~ done_port
         /\ LoopIteration' = LoopIteration
         /\ present_state' \in {"S_0", "S_1", "S_2", "S_3", "S_4", "S_5", "S_6"}
         /\ {reg_0', reg_1'} \subseteq 0 .. (MaxLoop + 1)
<1>2. Clocked(done)
  BY EdgeCounts
<1>4. /\ status_cnt \in 0 .. 2 /\ call_state \in 0 .. 1
      /\ StartCounter \in Nat /\ reg_0 \in 0 .. (MaxLoop + 1) /\ reg_1 \in 0 .. (MaxLoop + 1)
      /\ LoopIteration \in Nat /\ LoopIteration <= MaxLoop /\ MaxLoop \in Nat
  BY FifoSafe, Selection, Ranges, MaxLoopAssumption DEF ControlInv, SignalTypes
<1>5. read => call_state = 0 /\ status_cnt > 0
  BY FifoSafe DEF read
<1>6. ~ push /\ StartCounter = 0 => StartCounter' = 0
  BY <1>2 DEF Clocked, Pushed
<1>7. InCall /\ ~ completed =>
        /\ ~ Cleared /\ reset_counter'
        /\ StartCounter' = StartCounter + Pushed
  BY <1>2 DEF Clocked, Cleared, ControlInv, MachineInv
<1>8. completed => present_state = "S_6" /\ Cleared /\ StartCounter' = 0
  BY <1>2, Completed DEF Clocked, Cleared
<1>9. present_state \in {"S_1", "S_2", "S_3", "S_4"} =>
        /\ InCall /\ ~ completed /\ ~ done_port /\ reset_counter'
        /\ StartCounter' = StartCounter + Pushed
  BY <1>7, <1>8 DEF InCall, done_port
<1>10. /\ status_cnt' = status_cnt + Pushed - (IF read THEN 1 ELSE 0)
       /\ call_state' = IF read THEN 1 ELSE 0
  BY <1>2 DEF Clocked
<1>11. CASE NotCalled
  BY <1>4, <1>6, <1>11 DEF NotCalled, machine, ControlInv, MachineInv, InCall, push, SignalTypes
<1>12. CASE FirstIteration
  BY <1>4, <1>9, <1>12 DEF FirstIteration, ControlInv, MachineInv, InCall, push, Pushed
<1>13. CASE MoreIterations
  BY <1>4, <1>5, <1>9, <1>10, <1>13 DEF MoreIterations, ControlInv, MachineInv, InCall, push, Pushed, fifo_full
<1>14. CASE NoRoom
  <2>1. StartCounter > 0
    BY <1>4, <1>14, Selection, Ranges DEF NoRoom, fifo_full, ControlInv, FifoInv, words_read
  <2> QED
    BY <1>4, <1>5, <1>9, <1>10, <1>14, <2>1 DEF NoRoom, ControlInv, MachineInv, InCall, push, Pushed, fifo_full
<1>15. CASE NoMoreIterations
  BY <1>4, <1>9, <1>15 DEF NoMoreIterations, ControlInv, MachineInv, InCall, push, Pushed
<1>16. CASE PushIteration
  BY <1>4, <1>5, <1>9, <1>10, <1>16 DEF PushIteration, ControlInv, MachineInv, InCall, push, Pushed, fifo_full
<1>17. CASE WaitForRoom
  BY <1>4, <1>5, <1>9, <1>10, <1>17 DEF WaitForRoom, ControlInv, MachineInv, InCall, push, Pushed, fifo_full
<1>18. CASE WaitForWorkers
  <2>1. /\ present_state' = IF completed THEN "S_5" ELSE "S_6"
        /\ UNCHANGED <<reg_0, reg_1, LoopIteration>>
        /\ present_state = "S_6" /\ InCall /\ Pushed = 0 /\ StartCounter = LoopIteration
    BY <1>18 DEF WaitForWorkers, ControlInv, MachineInv, InCall, push, Pushed
  <2>2. CASE completed
    <3>1. present_state' = "S_5" /\ ~ InCall' /\ StartCounter' = 0 /\ done_port
      BY <1>8, <2>1, <2>2 DEF InCall, done_port
    <3> QED
      BY <1>4, <2>1, <3>1 DEF MachineInv
  <2>3. CASE ~ completed
    <3>1. present_state' = "S_6" /\ InCall' /\ ~ done_port
      BY <2>1, <2>3 DEF InCall, done_port
    <3>2. reset_counter'
      BY <1>7, <2>1, <2>3
    <3>3. StartCounter' = LoopIteration'
      BY <1>4, <1>7, <2>1, <2>3
    <3> QED
      BY <1>4, <2>1, <3>1, <3>2, <3>3 DEF MachineInv
  <2> QED
    BY <2>2, <2>3
<1>19. CASE Finished
  BY <1>4, <1>6, <1>19 DEF Finished, ControlInv, MachineInv, InCall, push
<1> QED
  BY <1>11, <1>12, <1>13, <1>14, <1>15, <1>16, <1>17, <1>18, <1>19 DEF PassIterations

(* An edge of the clock keeps the invariant, when a call is under way and   *)
(* when none is.                                                            *)
LEMMA EdgeKeeps ==
  ASSUME ControlInv, NEW done, NEW ask, Datapath(done, ask), PassIterations,
         Cardinality(done) \in Nat, DoneCounter + Cardinality(done) <= number_req_tasks
  PROVE  /\ ControlInv' /\ LoopIteration' = LoopIteration
         /\ InCall' <=> InCall /\ ~ done_port
<1>1. LoopIteration' \in 0 .. (MaxLoop + 1)
  BY MachineKept DEF ControlInv, SignalTypes
<1>2. SignalTypes'
  BY <1>1, MachineKept, EdgeTypes, CountersKept DEF SignalTypes
<1> QED
  BY <1>2, MachineKept, FifoKept, CountersKept DEF ControlInv

(* A call finds the counters at 0. *)
LEMMA CallKeepsControl ==
  ASSUME ControlInv, NEW n \in 0 .. MaxLoop, NEW ask, Called(n), Datapath({}, ask)
  PROVE  /\ ControlInv' /\ ~ InCall /\ InCall' /\ LoopIteration' = n
         /\ call_state = 0 /\ selected_worker = {} /\ ~ task_pool_end
         /\ StartCounter' = 0 /\ DoneCounter' = 0 /\ number_req_tasks' = 0
         /\ status_cnt' = 0 /\ call_state' = 0
<1>2. /\ Clocked({}) /\ Cardinality({}) = 0
  BY EdgeCounts, FS_EmptySet
<1>3. /\ present_state = "S_0" /\ present_state' = "S_1" /\ LoopIteration' = n
      /\ UNCHANGED <<reg_0, reg_1>>
  BY DEF Called
<1>5. StartCounter = 0 /\ StartCounter \in Nat /\ ~ push /\ ~ completed
  BY <1>3, Ranges DEF ControlInv, MachineInv, push, completed
<1>6. status_cnt = 0 /\ call_state = 0 /\ number_req_tasks = 0 /\ selected_worker = {} /\ DoneCounter = 0
  <2>1. StartCounter = words_read + status_cnt /\ words_read = number_req_tasks + call_state
    BY DEF ControlInv, FifoInv, words_read
  <2>2. DoneCounter <= number_req_tasks /\ DoneCounter \in Nat
    BY Ranges DEF ControlInv, DoneInv
  <2>3. status_cnt = 0 /\ call_state = 0 /\ number_req_tasks = 0
    BY <1>5, <2>1, FifoSafe, Selection, Ranges
  <2> QED
    BY <2>2, <2>3, Selection
<1>7. /\ StartCounter' = 0 /\ DoneCounter' = 0 /\ number_req_tasks' = 0 /\ reset_counter'
      /\ status_cnt' = 0 /\ call_state' = 0
  <2>1. ~ read
    BY <1>6, FifoSafe
  <2>2. reset_counter'
    BY <1>2, <1>5 DEF Clocked
  <2>3. StartCounter' = 0 /\ DoneCounter' = 0 /\ number_req_tasks' = 0
    BY <1>2, <1>5, <1>6 DEF Clocked, Pushed
  <2>4. status_cnt' = 0 /\ call_state' = 0
    BY <1>2, <1>5, <1>6, <2>1 DEF Clocked, Pushed
  <2> QED
    BY <2>2, <2>3, <2>4
<1>8. SignalTypes'
  <2>1. {reg_0', reg_1', LoopIteration'} \subseteq 0 .. (MaxLoop + 1)
    BY <1>3, MaxLoopAssumption DEF ControlInv, SignalTypes
  <2>2. {StartCounter', DoneCounter', number_req_tasks'} \subseteq 0 .. MaxLoop
    BY <1>7, MaxLoopAssumption
  <2> QED
    BY <1>3, <2>1, <2>2, EdgeTypes DEF SignalTypes
<1>9. FifoInv'
  BY FifoKept
<1>10. MachineInv' /\ DoneInv' /\ InCall' /\ ~ InCall
  BY <1>3, <1>7, MaxLoopAssumption DEF MachineInv, DoneInv, InCall
<1> QED
  BY <1>3, <1>5, <1>6, <1>7, <1>8, <1>9, <1>10 DEF ControlInv, task_pool_end

LEMMA InitControl ==
  ASSUME Init
  PROVE  ControlInv /\ ~ InCall
<1>1. SignalTypes
  <2>1. 0 \in 0 .. MaxLoop /\ 0 \in 0 .. (MaxLoop + 1)
    BY MaxLoopAssumption
  <2>2. ram \in [Cells -> Iteration]
    BY <2>1 DEF Init, Iteration
  <2>3. /\ {reg_0, reg_1, LoopIteration, q, data_out} = {0}
        /\ {wr_pointer, rd_pointer, call_state} = {0} /\ status_cnt = 0
        /\ {StartCounter, DoneCounter, number_req_tasks} = {0}
    BY DEF Init
  <2>4. {available_data, reset_counter} \subseteq BOOLEAN
    <3>1. available_data = FALSE /\ reset_counter = FALSE
      BY DEF Init
    <3> QED
      BY <3>1
  <2>5. present_state = "S_0" /\ worker_status \subseteq Workers
    BY DEF Init
  <2>6. /\ {reg_0, reg_1, LoopIteration, q, data_out} \subseteq 0 .. (MaxLoop + 1)
        /\ {wr_pointer, rd_pointer, call_state} \subseteq 0 .. 1 /\ status_cnt \in 0 .. 2
        /\ {StartCounter, DoneCounter, number_req_tasks} \subseteq 0 .. MaxLoop
    BY <2>1, <2>3
  <2> QED
    BY <2>2, <2>4, <2>5, <2>6 DEF SignalTypes
<1>2. FifoInv /\ DoneInv /\ ~ InCall
  BY DEF Init, FifoInv, DoneInv, InCall, words_read
<1>3. MachineInv
  BY MaxLoopAssumption DEF Init, MachineInv, InCall
<1> QED
  BY <1>1, <1>2, <1>3 DEF ControlInv

LEMMA StutterControl ==
  ASSUME ControlInv, UNCHANGED controller
  PROVE  ControlInv' /\ (InCall' <=> InCall)
<1> USE DEF controller, machine, fifo, dispatcher, counters
<1>1. SignalTypes'
  BY DEF ControlInv, SignalTypes
<1>2. FifoInv'
  BY DEF ControlInv, FifoInv, words_read, available_workers
<1>3. MachineInv' /\ DoneInv' /\ (InCall' <=> InCall)
  BY DEF ControlInv, MachineInv, DoneInv, InCall
<1> QED
  BY <1>1, <1>2, <1>3 DEF ControlInv
===============================================================================
