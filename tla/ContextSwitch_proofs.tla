------------------------- MODULE ContextSwitch_proofs --------------------------
(* Proofs about the context-switch architecture: for any number of workers, *)
(* slots and iterations, from the reset to the end of the first call.       *)
EXTENDS ContextSwitch, ParallelController_proofs, SequenceTheorems

-------------------------------------------------------------------------------
(* FIFOs without repetitions. *)

NoDup(f) == \A i, j \in DOMAIN f : f[i] = f[j] => i = j
Read(f, rd) == IF rd THEN {Head(f)} ELSE {}

LEMMA ElementsTyped ==
  ASSUME NEW S, NEW f \in Seq(S)
  PROVE  Elements(f) \subseteq S /\ (f = << >> <=> Elements(f) = {})
<1>1. Len(f) \in Nat /\ DOMAIN f = 1 .. Len(f) /\ \A i \in 1 .. Len(f) : f[i] \in S
  BY LenProperties, ElementOfSeq
<1>2. f # << >> => Len(f) # 0
  BY EmptySeq
<1>3. f # << >> => f[1] \in Elements(f)
  BY <1>1, <1>2 DEF Elements
<1>4. f = << >> => Elements(f) = {}
  <2>1. f = << >> => Len(f) = 0
    BY EmptySeq
  <2> QED
    BY <1>1, <2>1 DEF Elements
<1> QED
  BY <1>1, <1>3, <1>4 DEF Elements

LEMMA TailFifo ==
  ASSUME NEW S, NEW f \in Seq(S), NoDup(f), f # << >>
  PROVE  /\ Tail(f) \in Seq(S) /\ NoDup(Tail(f)) /\ Head(f) \in Elements(f)
         /\ Elements(Tail(f)) = Elements(f) \ {Head(f)}
<1>1. /\ Len(f) \in Nat \ {0} /\ DOMAIN f = 1 .. Len(f) /\ Head(f) = f[1]
      /\ Tail(f) \in Seq(S) /\ DOMAIN Tail(f) = 1 .. (Len(f) - 1)
      /\ \A i \in 1 .. (Len(f) - 1) : Tail(f)[i] = f[i + 1]
  BY HeadTailProperties, EmptySeq, LenProperties
<1>2. NoDup(Tail(f))
  <2>1. ASSUME NEW i \in 1 .. (Len(f) - 1), NEW j \in 1 .. (Len(f) - 1), Tail(f)[i] = Tail(f)[j] PROVE i = j
    <3>1. i + 1 \in DOMAIN f /\ j + 1 \in DOMAIN f /\ f[i + 1] = f[j + 1]
      BY <1>1, <2>1
    <3>2. i + 1 = j + 1
      BY <3>1 DEF NoDup
    <3> QED
      BY <1>1, <3>2
  <2> QED
    BY <1>1, <2>1 DEF NoDup
<1>3. ASSUME NEW x \in Elements(Tail(f)) PROVE x \in Elements(f) \ {Head(f)}
  <2>1. PICK i \in 1 .. (Len(f) - 1) : x = Tail(f)[i]
    BY <1>1 DEF Elements
  <2>2. x = f[i + 1] /\ i + 1 \in DOMAIN f /\ i + 1 # 1 /\ 1 \in DOMAIN f
    BY <1>1, <2>1
  <2> QED
    BY <1>1, <2>2 DEF Elements, NoDup
<1>4. ASSUME NEW x \in Elements(f) \ {Head(f)} PROVE x \in Elements(Tail(f))
  <2>1. PICK i \in DOMAIN f : x = f[i]
    BY DEF Elements
  <2>2. i - 1 \in 1 .. (Len(f) - 1) /\ (i - 1) + 1 = i
    BY <1>1, <2>1
  <2>3. x = Tail(f)[i - 1]
    BY <1>1, <2>1, <2>2
  <2> QED
    BY <1>1, <2>2, <2>3 DEF Elements
<1>5. Head(f) \in Elements(f)
  BY <1>1 DEF Elements
<1> QED
  BY <1>1, <1>2, <1>3, <1>4, <1>5

LEMMA EnterFifo ==
  ASSUME NEW S, NEW f \in Seq(S), NoDup(f), NEW x \in S, x \notin Elements(f)
  PROVE  /\ f \o <<x>> \in Seq(S) /\ NoDup(f \o <<x>>)
         /\ Elements(f \o <<x>>) = Elements(f) \cup {x}
<1> DEFINE g == f \o <<x>>
<1>1. /\ Len(f) \in Nat /\ DOMAIN f = 1 .. Len(f)
      /\ g \in Seq(S) /\ DOMAIN g = 1 .. (Len(f) + 1)
      /\ \A i \in 1 .. Len(f) : g[i] = f[i]
      /\ g[Len(f) + 1] = x
  <2>1. <<x>> \in Seq(S) /\ Len(<<x>>) = 1 /\ <<x>>[1] = x
    OBVIOUS
  <2> QED
    BY <2>1, ConcatProperties, LenProperties
<1> HIDE DEF g
<1>2. \A i \in DOMAIN g : i \in DOMAIN f \/ i = Len(f) + 1
  BY <1>1
<1>3. \A i \in DOMAIN f : i \in DOMAIN g /\ g[i] = f[i] /\ f[i] # x
  BY <1>1 DEF Elements
<1>4. NoDup(g)
  BY <1>1, <1>2, <1>3 DEF NoDup
<1>5. Len(f) + 1 \in DOMAIN g
  BY <1>1
<1>6. ASSUME NEW y \in Elements(g) PROVE y \in Elements(f) \cup {x}
  BY <1>1, <1>2, <1>3 DEF Elements
<1>7. ASSUME NEW y \in Elements(f) \cup {x} PROVE y \in Elements(g)
  BY <1>1, <1>3, <1>5 DEF Elements
<1> QED
  BY <1>1, <1>4, <1>6, <1>7 DEF g

(* A FIFO after an edge that reads it, writes it, or both. *)
LEMMA AfterFifo ==
  ASSUME NEW S, NEW f \in Seq(S), NoDup(f), NEW rd, rd => f # << >>,
         NEW D, D \subseteq S, \A x, y \in D : x = y, D \cap Elements(f) = {}
  PROVE  /\ After(f, rd, D) \in Seq(S) /\ NoDup(After(f, rd, D))
         /\ Elements(After(f, rd, D)) = (Elements(f) \ Read(f, rd)) \cup D
<1> DEFINE rest == IF rd THEN Tail(f) ELSE f
<1>1. /\ rest \in Seq(S) /\ NoDup(rest) /\ Elements(rest) = Elements(f) \ Read(f, rd)
  <2>1. CASE rd
    <3>1. rest = Tail(f) /\ Read(f, rd) = {Head(f)} /\ f # << >>
      BY <2>1 DEF Read
    <3> HIDE DEF rest
    <3> QED
      BY <3>1, TailFifo
  <2>2. CASE ~rd
    BY <2>2 DEF Read
  <2> QED
    BY <2>1, <2>2
<1>2. After(f, rd, D) = rest \o (IF D = {} THEN << >> ELSE <<CHOOSE d \in D : TRUE>>)
  BY DEF After
<1> HIDE DEF rest
<1>3. CASE D = {}
  <2>1. rest \o << >> = rest
    BY <1>1, ConcatEmptySeq
  <2> QED
    BY <1>1, <1>2, <1>3, <2>1
<1>4. CASE D # {}
  <2>1. PICK x \in D : TRUE
    BY <1>4
  <2>2. D = {x}
    BY <2>1
  <2>3. (CHOOSE d \in D : TRUE) = x
    BY <2>2
  <2>4. x \in S /\ x \notin Elements(rest)
    BY <1>1, <2>2
  <2>5. /\ rest \o <<x>> \in Seq(S) /\ NoDup(rest \o <<x>>)
        /\ Elements(rest \o <<x>>) = Elements(rest) \cup {x}
    BY <1>1, <2>4, EnterFifo
  <2> QED
    BY <1>1, <1>2, <1>4, <2>2, <2>3, <2>5
<1> QED
  BY <1>3, <1>4

(* A FIFO is no longer than its slots are many, and then holds all of them. *)
LEMMA LenOfFifo ==
  ASSUME NEW S, IsFiniteSet(S), NEW f \in Seq(S), NoDup(f)
  PROVE  Len(f) <= Cardinality(S) /\ (Len(f) = Cardinality(S) => Elements(f) = S)
<1> DEFINE n == Len(f)
<1>1. n \in Nat /\ DOMAIN f = 1 .. n /\ f \in [1 .. n -> S]
  BY LenProperties
<1>2. Elements(f) \subseteq S
  BY ElementsTyped
<1>3. f \in Bijection(1 .. n, Elements(f))
  BY <1>1 DEF Elements, NoDup, Bijection, Injection, IsInjective, Surjection
<1>4. ExistsBijection(1 .. n, Elements(f))
  BY <1>3 DEF ExistsBijection
<1>5. IsFiniteSet(1 .. n) /\ Cardinality(1 .. n) = n
  BY <1>1, FS_Interval
<1>6. Cardinality(Elements(f)) = n
  BY <1>4, <1>5, FS_Bijection
<1> QED
  BY <1>2, <1>6, FS_Subset

-------------------------------------------------------------------------------
(* The inductive invariant *)

(* The one call is over. *)
Returned == calls = 1 /\ ~ running

(* No more iterations will be given. *)
Late == task_pool_end \/ Returned

(* The slots whose task has begun and not ended; whether the selected one   *)
(* is moving.                                                               *)
Live(w) == {s \in Slots : task[w][s] \in {"running", "waiting"}}
Runs(w) ==
  \/ current(w) = "running"
  \/ current(w) = "waiting" /\ M_DataRdy[w]

TypesInv ==
  /\ scheduler_state \in [Workers -> {"S_0", "S_1", "S_2", "S_3", "S_4", "S_5"}]
  /\ selector \in [Workers -> Slots]
  /\ free \in [Workers -> Seq(Slots)]
  /\ ready \in [Workers -> Seq(Slots)]
  /\ wait \in [Workers -> Seq(Slots)]
  /\ M_DataRdy \in [Workers -> BOOLEAN]
  /\ done_request \in [Workers -> BOOLEAN]
  /\ task \in [Workers -> [Slots -> {"idle", "running", "waiting", "ending"}]]
  /\ iteration \in [Workers -> [Slots -> Iteration]]
  /\ done_port_accelerator \in [Workers -> BOOLEAN]
  /\ pending \in [Workers -> SUBSET Slots]
  /\ calls \in {0, 1} /\ running \in BOOLEAN

(* What has begun are the iterations that the controller has given; the     *)
(* controller counts an end a cycle after it.                               *)
CallInv ==
  /\ running <=> InCall
  /\ running => calls = 1 /\ begun = 0 .. (number_req_tasks - 1)
  /\ ~ running => begun = ended
  /\ ended \subseteq begun /\ begun \subseteq 0 .. (MaxLoop - 1)
  /\ DoneCounter + Cardinality({w \in Workers : done_port_accelerator[w]})
       = IF running THEN Cardinality(ended) ELSE 0

(* Each task that has begun and not ended has an iteration of its own. *)
LiveInv ==
  /\ \A w \in Workers : \A s \in Live(w) : iteration[w][s] \in begun \ ended
  /\ \A v, w \in Workers : \A r \in Live(v), s \in Live(w) :
       iteration[v][r] = iteration[w][s] => v = w /\ r = s

(* l is where the answer is that the task of slot s waits for. *)
Place == {"none", "wait", "memory", "ready", "selected"}
Spot(w, s, l) ==
  /\ l # "none" <=> task[w][s] = "waiting"
  /\ l = "wait" <=> s \in Elements(wait[w])
  /\ l = "memory" <=> s \in pending[w]
  /\ l = "ready" <=> s \in Elements(ready[w])
  /\ l = "selected" <=> M_DataRdy[w] /\ selector[w] = s

PlaceInv(w) ==
  /\ \A s \in Slots : \E l \in Place : Spot(w, s, l)
  /\ NoDup(wait[w]) /\ NoDup(ready[w]) /\ NoDup(free[w])
  /\ \A s \in Elements(free[w]) : task[w][s] \in {"idle", "ending"}

(* What the selected slot is doing in each state of the scheduler, and what *)
(* the controller knows of the worker while it may be given an iteration.   *)
StateInv(w) ==
  /\ scheduler_state[w] = "S_0" =>
       \/ Late
       \/ call_state = 0 /\ current(w) = "idle" /\ selector[w] \notin Elements(free[w])
  /\ scheduler_state[w] = "S_5" /\ ~ Returned =>
       /\ selector[w] \notin Elements(free[w])
       /\ current(w) \in {"idle", "ending"} /\ (current(w) = "ending" => done_request[w])
  /\ scheduler_state[w] \in {"S_1", "S_3"} => Runs(w)
  /\ scheduler_state[w] = "S_2" =>
       free[w] = << >> /\ ready[w] = << >> /\ current(w) = "waiting" /\ ~ M_DataRdy[w]
  /\ scheduler_state[w] \in {"S_3", "S_4"} => Late
  /\ scheduler_state[w] = "S_4" /\ Runs(w) => free[w] # << >>
  /\ ~ Late /\ w \notin worker_status => scheduler_state[w] \in {"S_0", "S_5"} /\ ~ done_request[w]
  /\ ~ Late /\ done_request[w] => scheduler_state[w] = "S_5"

CallerInv == TypesInv /\ ControlInv /\ CallInv /\ LiveInv
IInv == CallerInv /\ \A w \in Workers : PlaceInv(w) /\ StateInv(w)

-------------------------------------------------------------------------------
(* The controller and its workers *)

LEMMA LateFacts ==
  ASSUME ControlInv, CallInv
  PROVE  /\ task_pool_end => running
         /\ Late => selected_worker = {}
         /\ Late /\ running => task_pool_end
         /\ selected_worker # {} => running /\ call_state = 1
<1>1. task_pool_end => running /\ selected_worker = {}
  <2>1. SUFFICES ASSUME task_pool_end PROVE running /\ selected_worker = {}
    OBVIOUS
  <2>2. InCall /\ call_state = 0
    BY <2>1, EndOfPool
  <2> QED
    BY <2>2, Selection DEF CallInv
<1>2. selected_worker # {} => running /\ call_state = 1
  BY Giving DEF CallInv
<1> QED
  BY <1>1, <1>2 DEF Late, Returned

(* While nothing is under way no task is. *)
LEMMA NoneLive ==
  ASSUME LiveInv, begun = ended, NEW w \in Workers
  PROVE  Live(w) = {}
  BY DEF LiveInv

LEMMA LiveIsRunning ==
  ASSUME CallerInv, NEW w \in Workers, Live(w) # {}
  PROVE  running /\ (Late => task_pool_end) /\ ~ Returned
  BY NoneLive, LateFacts DEF CallerInv, CallInv, Returned

LEMMA RunsIsLive ==
  ASSUME TypesInv, NEW w \in Workers, Runs(w)
  PROVE  selector[w] \in Live(w) /\ selector[w] \in Slots
  BY DEF TypesInv, Runs, Live, current

(* An iteration comes to a worker that waits for one. *)
LEMMA Heard ==
  ASSUME CallerInv, NEW w \in Workers, StateInv(w), w \in selected_worker
  PROVE  /\ scheduler_state[w] = "S_5" /\ current(w) = "idle"
         /\ selector[w] \notin Elements(free[w]) /\ ~ Late /\ w \notin worker_status
<1>1. ~ Late /\ call_state = 1 /\ w \notin worker_status
  <2>1. selected_worker # {}
    OBVIOUS
  <2>2. ~ Late /\ call_state = 1
    BY <2>1, LateFacts DEF CallerInv
  <2>3. w \notin worker_status
    BY Giving, <2>1 DEF CallerInv
  <2> QED
    BY <2>2, <2>3
<1> QED
  BY <1>1 DEF StateInv, Late

(* Once late, late for good: a second call is what would end it. *)
LEMMA LateStays ==
  ASSUME Calls <= 1, CallerInv, [Next]_vars
  PROVE  (Late => Late') /\ (Returned => Returned')
<1>1. ASSUME NEW n \in Loops, Call(n) PROVE ~ Late
  <2>1. calls < Calls /\ ~ running /\ calls \in {0, 1} /\ Calls \in Nat
    BY <1>1, CallsAssumption DEF Call, CallerInv, TypesInv
  <2>2. calls = 0
    BY <2>1
  <2>3. ~ task_pool_end
    BY <2>1, LateFacts DEF CallerInv
  <2> QED
    BY <2>2, <2>3 DEF Late, Returned
<1>2. ASSUME NEW act, NEW reply, NEW accepted, Cycle(act, reply, accepted)
      PROVE  (Late => Late') /\ (Returned => Returned')
  <2>1. PICK done, ask : Datapath(done, ask)
    BY <1>2 DEF Cycle, Datapaths
  <2>2. calls' = calls /\ running' = (running /\ ~ done_port)
    BY <1>2 DEF Cycle
  <2>3. Returned => Returned'
    BY <2>2 DEF Returned
  <2>4. ASSUME task_pool_end PROVE Late'
    <3>1. present_state = "S_6" /\ InCall /\ call_state = 0 /\ status_cnt = 0 /\ number_req_tasks = LoopIteration
      BY <2>4, EndOfPool DEF CallerInv
    <3>2. running /\ calls = 1
      BY <3>1 DEF CallerInv, CallInv
    <3>3. CASE completed
      <4>1. done_port
        BY <3>1, <3>3 DEF done_port
      <4>2. ~ running'
        BY <2>2, <4>1
      <4> QED
        BY <2>2, <3>2, <4>2 DEF Late, Returned
    <3>4. CASE ~ completed
      <4>1. Clocked(done)
        BY <2>1, EdgeCounts DEF CallerInv
      <4>2. ~ Cleared
        BY <3>1, <3>4 DEF Cleared, CallerInv, ControlInv, MachineInv
      <4>3. Pushed = 0
        BY <3>1 DEF Pushed, push
      <4>4. StartCounter \in Nat /\ number_req_tasks \in Nat
        BY Ranges DEF CallerInv
      <4>5. StartCounter' = StartCounter /\ number_req_tasks' = number_req_tasks
        BY <3>1, <4>1, <4>2, <4>3, <4>4 DEF Clocked
      <4> QED
        BY <2>4, <4>5 DEF Late, task_pool_end
    <3> QED
      BY <3>3, <3>4
  <2> QED
    BY <2>3, <2>4 DEF Late
<1>3. CASE UNCHANGED vars
  BY <1>3 DEF vars, controller, counters, Late, Returned, task_pool_end
<1> QED
  BY <1>1, <1>2, <1>3 DEF Next, Clock, Late


-------------------------------------------------------------------------------
(* One worker in one cycle *)

(* Worker w, where the selected task does a, the memory answers r, and acc  *)
(* says whether it accepts a request.                                       *)
WorkerStep(w, a, r, acc) ==
  /\ a \in Acts(w) /\ r \in Replies(w) /\ (acc => wait[w] # << >>)
  /\ scheduler_state'[w] = next_state(w, a, r)
  /\ selector'[w] = next_selector(w, a, r)
  /\ free'[w] = After(free[w], fifo_rd_en_free(w, a, r),
                      IF fifo_wr_en_free(w, a, r) THEN {selector[w]} ELSE {})
  /\ ready'[w] = After(ready[w], fifo_rd_en_ready(w, a, r),
                       IF fifo_wr_en_ready(w, a, r) THEN r ELSE {})
  /\ wait'[w] = After(wait[w], acc, IF suspension(a) THEN {selector[w]} ELSE {})
  /\ M_DataRdy'[w] <=> mux_fifo_sel(w, a, r)
  /\ done_request'[w] <=> done_request_next(w, a, r)
  /\ task'[w] = [task[w] EXCEPT ![selector[w]] = Moved(w, a)]
  /\ pending'[w] = (pending[w] \ r) \cup Read(wait[w], acc)

LEMMA ActFacts ==
  ASSUME TypesInv, NEW w \in Workers, NEW a \in Acts(w)
  PROVE  /\ a \in {"none", "suspend", "end"} /\ (leaves(a) <=> a # "none")
         /\ leaves(a) => Runs(w)
         /\ a = "suspend" => current(w) = "running"
<1>1. Acts(w) = IF current(w) = "running" THEN {"none", "suspend", "end"}
                ELSE IF current(w) = "waiting" /\ M_DataRdy[w] THEN {"none", "end"}
                ELSE {"none"}
  BY DEF Acts
<1> QED
  BY <1>1 DEF leaves, done_scheduler, suspension, Runs

LEMMA MovedFacts ==
  ASSUME TypesInv, NEW w \in Workers, NEW a \in Acts(w)
  PROVE  /\ a = "suspend" => Moved(w, a) = "waiting"
         /\ a = "end" => Moved(w, a) = "ending"
         /\ a = "none" =>
              /\ current(w) = "idle" =>
                   Moved(w, a) = IF start_port_task(w) THEN "running" ELSE "idle"
              /\ Runs(w) => Moved(w, a) = "running"
              /\ current(w) = "waiting" /\ ~ M_DataRdy[w] => Moved(w, a) = "waiting"
              /\ current(w) = "ending" => Moved(w, a) = "idle"
         /\ Moved(w, a) \in {"idle", "running", "waiting", "ending"}
<1>1. current(w) \in {"idle", "running", "waiting", "ending"}
  BY DEF TypesInv, current
<1>2. Moved(w, a) = IF a = "suspend" THEN "waiting"
                    ELSE IF a = "end" THEN "ending"
                    ELSE IF current(w) = "idle" /\ start_port_task(w) THEN "running"
                    ELSE IF current(w) = "waiting" /\ M_DataRdy[w] THEN "running"
                    ELSE IF current(w) = "ending" THEN "idle"
                    ELSE current(w)
  BY <1>1 DEF Moved, suspension, done_scheduler
<1> QED
  BY <1>1, <1>2, ActFacts DEF Runs

(* The reply is of a request the memory has, and alone. *)
LEMMA ReplyFacts ==
  ASSUME TypesInv, NEW w \in Workers, NEW r \in Replies(w)
  PROVE  r \subseteq pending[w] /\ r \subseteq Slots /\ \A x, y \in r : x = y
BY DEF Replies, TypesInv

(* What the memory, fifo_ready and fifo_wait hold are waiting tasks, each   *)
(* in one of them; none of them runs or is free.                            *)
LEMMA Apart ==
  ASSUME TypesInv, NEW w \in Workers, PlaceInv(w)
  PROVE  /\ pending[w] \cap Elements(ready[w]) = {}
         /\ pending[w] \cap Elements(wait[w]) = {}
         /\ Elements(ready[w]) \cap Elements(wait[w]) = {}
         /\ \A s \in Elements(wait[w]) \cup Elements(ready[w]) \cup pending[w] :
              s \in Slots /\ task[w][s] = "waiting" /\ (s = selector[w] => ~ M_DataRdy[w])
         /\ Elements(free[w]) \subseteq Slots
         /\ Runs(w) => /\ selector[w] \notin Elements(free[w])
                       /\ selector[w] \notin Elements(wait[w])
                       /\ selector[w] \notin Elements(ready[w])
                       /\ selector[w] \notin pending[w]
<1>1. /\ Elements(wait[w]) \subseteq Slots /\ Elements(ready[w]) \subseteq Slots
      /\ pending[w] \subseteq Slots /\ Elements(free[w]) \subseteq Slots
  BY ElementsTyped DEF TypesInv
<1>2. ASSUME NEW s \in Slots
      PROVE  /\ s \in pending[w] => s \notin Elements(ready[w]) /\ s \notin Elements(wait[w])
             /\ s \in Elements(ready[w]) => s \notin Elements(wait[w])
             /\ s \in Elements(wait[w]) \/ s \in Elements(ready[w]) \/ s \in pending[w] =>
                  task[w][s] = "waiting" /\ (s = selector[w] => ~ M_DataRdy[w])
  <2>1. PICK l \in Place : Spot(w, s, l)
    BY DEF PlaceInv
  <2> QED
    BY <2>1 DEF Spot
<1>3. ASSUME Runs(w)
      PROVE  /\ selector[w] \notin Elements(free[w]) /\ selector[w] \notin Elements(wait[w])
             /\ selector[w] \notin Elements(ready[w]) /\ selector[w] \notin pending[w]
  <2>1. selector[w] \in Slots
    BY DEF TypesInv
  <2>2. task[w][selector[w]] = "running" \/ (task[w][selector[w]] = "waiting" /\ M_DataRdy[w])
    BY <1>3 DEF Runs, current
  <2>3. selector[w] \notin Elements(free[w])
    BY <2>2 DEF PlaceInv
  <2> QED
    BY <1>2, <2>1, <2>2, <2>3
<1>4. \A s \in Elements(wait[w]) \cup Elements(ready[w]) \cup pending[w] : s \in Slots
  BY <1>1
<1> QED
  BY <1>1, <1>2, <1>3, <1>4

(* The FIFO of the answers: what was there or arrives stays, but for the    *)
(* slot that takes over.                                                    *)
Takes(w) == IF M_DataRdy'[w] THEN {selector'[w]} ELSE {}

LEMMA ReadyKept ==
  ASSUME TypesInv, NEW w \in Workers, PlaceInv(w), NEW a, NEW r, NEW acc, WorkerStep(w, a, r, acc)
  PROVE  /\ ready'[w] \in Seq(Slots) /\ NoDup(ready'[w])
         /\ Takes(w) \subseteq Elements(ready[w]) \cup r
         /\ Elements(ready'[w]) = (Elements(ready[w]) \cup r) \ Takes(w)
<1> DEFINE mux == mux_fifo_sel(w, a, r)
           rd == fifo_rd_en_ready(w, a, r)
           D == IF fifo_wr_en_ready(w, a, r) THEN r ELSE {}
<1>1. /\ ready[w] \in Seq(Slots) /\ NoDup(ready[w])
      /\ r \subseteq Slots /\ (\A x, y \in r : x = y) /\ r \cap Elements(ready[w]) = {}
  BY ReplyFacts, Apart DEF WorkerStep, TypesInv, PlaceInv
<1>2. ready'[w] = After(ready[w], rd, D) /\ (M_DataRdy'[w] <=> mux)
  BY DEF WorkerStep
<1>3. rd => ready[w] # << >>
  BY DEF fifo_rd_en_ready, mux_fifo_sel, resumable, selectorByMemory, fifo_empty_ready
<1>4. /\ ready'[w] \in Seq(Slots) /\ NoDup(ready'[w])
      /\ Elements(ready'[w]) = (Elements(ready[w]) \ Read(ready[w], rd)) \cup D
  <2>1. D \subseteq Slots /\ (\A x, y \in D : x = y) /\ D \cap Elements(ready[w]) = {}
    BY <1>1
  <2> HIDE DEF D, rd
  <2> QED
    BY <1>1, <1>2, <1>3, <2>1, AfterFifo
<1>5. CASE ~ mux
  <2>1. ~ rd /\ D = r
    BY <1>5 DEF fifo_rd_en_ready, fifo_wr_en_ready
  <2>2. Takes(w) = {}
    BY <1>2, <1>5 DEF Takes
  <2> QED
    BY <1>4, <2>1, <2>2 DEF Read
<1>6. CASE mux
  <2>1. selector'[w] = data_ready(w, r) /\ Takes(w) = {selector'[w]} /\ resumable(w, r)
    BY <1>2, <1>6 DEF WorkerStep, next_selector, Takes, mux_fifo_sel
  <2>2. CASE ready[w] = << >>
    <3>1. r # {} /\ ~ rd /\ D = {}
      BY <1>6, <2>1, <2>2 DEF resumable, fifo_empty_ready, selectorByMemory, fifo_rd_en_ready, fifo_wr_en_ready
    <3>2. selector'[w] = CHOOSE s \in r : TRUE
      BY <2>1, <2>2, <3>1 DEF data_ready, selectorByMemory, fifo_empty_ready
    <3>3. r = {selector'[w]}
      BY <1>1, <3>1, <3>2
    <3>4. Elements(ready[w]) = {}
      BY <1>1, <2>2, ElementsTyped
    <3> QED
      BY <1>4, <2>1, <3>1, <3>3, <3>4
  <2>3. CASE ready[w] # << >>
    <3>1. rd /\ D = r
      BY <1>6, <2>3 DEF fifo_empty_ready, selectorByMemory, fifo_rd_en_ready, fifo_wr_en_ready
    <3>2. selector'[w] = Head(ready[w])
      BY <2>1, <2>3 DEF data_ready, selectorByMemory, fifo_empty_ready
    <3>3. Head(ready[w]) \in Elements(ready[w])
      BY <1>1, <2>3, TailFifo
    <3> QED
      BY <1>1, <1>4, <2>1, <3>1, <3>2, <3>3 DEF Read
  <2> QED
    BY <2>2, <2>3
<1> QED
  BY <1>4, <1>5, <1>6

LEMMA WaitKept ==
  ASSUME TypesInv, NEW w \in Workers, PlaceInv(w), NEW a, NEW r, NEW acc, WorkerStep(w, a, r, acc)
  PROVE  /\ wait'[w] \in Seq(Slots) /\ NoDup(wait'[w])
         /\ Read(wait[w], acc) \subseteq Elements(wait[w])
         /\ Elements(wait'[w]) = (Elements(wait[w]) \ Read(wait[w], acc))
                                   \cup (IF a = "suspend" THEN {selector[w]} ELSE {})
<1> DEFINE D == IF suspension(a) THEN {selector[w]} ELSE {}
<1>1. /\ wait[w] \in Seq(Slots) /\ NoDup(wait[w]) /\ selector[w] \in Slots
      /\ wait'[w] = After(wait[w], acc, D) /\ (acc => wait[w] # << >>)
  BY DEF WorkerStep, TypesInv, PlaceInv
<1>2. suspension(a) => selector[w] \notin Elements(wait[w])
  <2>1. a \in Acts(w)
    BY DEF WorkerStep
  <2> QED
    BY <2>1, ActFacts, Apart DEF leaves, suspension
<1>3. D \subseteq Slots /\ (\A x, y \in D : x = y) /\ D \cap Elements(wait[w]) = {}
  BY <1>1, <1>2
<1>4. D = IF a = "suspend" THEN {selector[w]} ELSE {}
  BY DEF suspension
<1>5. Read(wait[w], acc) \subseteq Elements(wait[w])
  BY <1>1, TailFifo DEF Read
<1> HIDE DEF D
<1> QED
  BY <1>1, <1>3, <1>4, <1>5, AfterFifo

(* A slot leaves fifo_free when a running task leaves, no answer is there   *)
(* and more iterations will come.                                           *)
Fresh(w, a, r) == leaves(a) /\ ~ resumable(w, r) /\ free[w] # << >> /\ ~ task_pool_end

LEMMA Turn ==
  ASSUME TypesInv, NEW w \in Workers, PlaceInv(w), NEW a, NEW r, NEW acc, WorkerStep(w, a, r, acc)
  PROVE  /\ ~ M_DataRdy'[w] => selector'[w] = IF Fresh(w, a, r) THEN Head(free[w]) ELSE selector[w]
         /\ fifo_rd_en_free(w, a, r) <=> Fresh(w, a, r)
         /\ M_DataRdy'[w] => ~ Fresh(w, a, r)
         /\ Fresh(w, a, r) => Head(free[w]) \in Elements(free[w])
         /\ selector'[w] \in Slots
<1>1. /\ M_DataRdy'[w] <=> mux_fifo_sel(w, a, r)
      /\ selector'[w] = next_selector(w, a, r)
  BY DEF WorkerStep
<1>2. leaves(a) /\ ~ mux_fifo_sel(w, a, r) => ~ resumable(w, r)
  BY DEF mux_fifo_sel
<1>3. mux_fifo_sel(w, a, r) => resumable(w, r)
  BY DEF mux_fifo_sel
<1>4. fifo_rd_en_free(w, a, r) <=> Fresh(w, a, r)
  BY <1>2, <1>3 DEF fifo_rd_en_free, mux_switching_logic, Fresh, fifo_empty_free
<1>5. mux_switching_logic(w, a, r) <=> mux_fifo_sel(w, a, r) \/ Fresh(w, a, r)
  BY <1>2 DEF mux_switching_logic, Fresh, fifo_empty_free
<1>6. ~ M_DataRdy'[w] => selector'[w] = IF Fresh(w, a, r) THEN Head(free[w]) ELSE selector[w]
  BY <1>1, <1>5 DEF next_selector
<1>7. Fresh(w, a, r) => Head(free[w]) \in Elements(free[w])
  <2>1. free[w] \in Seq(Slots) /\ NoDup(free[w])
    BY DEF TypesInv, PlaceInv
  <2> QED
    BY <2>1, TailFifo DEF Fresh
<1>8. selector'[w] \in Slots
  <2>1. CASE M_DataRdy'[w]
    <3>1. selector'[w] \in Elements(ready[w]) \cup r
      BY <2>1, ReadyKept DEF Takes
    <3> QED
      BY <3>1, Apart, ReplyFacts DEF WorkerStep
  <2>2. CASE ~ M_DataRdy'[w]
    BY <1>6, <1>7, <2>2, Apart DEF TypesInv
  <2> QED
    BY <2>1, <2>2
<1> QED
  BY <1>1, <1>3, <1>4, <1>6, <1>7, <1>8 DEF Fresh

LEMMA FreeKept ==
  ASSUME CallerInv, NEW w \in Workers, PlaceInv(w), StateInv(w),
         NEW a, NEW r, NEW acc, WorkerStep(w, a, r, acc)
  PROVE  /\ free'[w] \in Seq(Slots) /\ NoDup(free'[w])
         /\ Elements(free'[w]) = (Elements(free[w]) \ Read(free[w], Fresh(w, a, r)))
              \cup (IF fifo_wr_en_free(w, a, r) THEN {selector[w]} ELSE {})
         /\ fifo_wr_en_free(w, a, r) =>
              selector[w] \notin Elements(free[w]) /\ (a # "end" => current(w) \in {"idle", "ending"})
<1> DEFINE D == IF fifo_wr_en_free(w, a, r) THEN {selector[w]} ELSE {}
           rd == fifo_rd_en_free(w, a, r)
<1>1. /\ free[w] \in Seq(Slots) /\ NoDup(free[w]) /\ selector[w] \in Slots
      /\ free'[w] = After(free[w], rd, D) /\ a \in Acts(w) /\ TypesInv
  BY DEF WorkerStep, CallerInv, TypesInv, PlaceInv
<1>2. rd <=> Fresh(w, a, r)
  BY <1>1, Turn
<1>3. rd => free[w] # << >>
  BY <1>2 DEF Fresh
<1>4. fifo_wr_en_free(w, a, r) =>
        selector[w] \notin Elements(free[w]) /\ (a # "end" => current(w) \in {"idle", "ending"})
  <2>1. CASE a = "end"
    BY <1>1, <2>1, ActFacts, Apart DEF leaves, done_scheduler
  <2>2. CASE a # "end" /\ scheduler_state[w] = "S_5" /\ task_pool_end
    <3>1. running
      BY <2>2, LateFacts DEF CallerInv
    <3> QED
      BY <2>2, <3>1 DEF StateInv, Returned
  <2> QED
    BY <2>1, <2>2 DEF fifo_wr_en_free, done_scheduler
<1>5. D \subseteq Slots /\ (\A x, y \in D : x = y) /\ D \cap Elements(free[w]) = {}
  BY <1>1, <1>4
<1>6. /\ free'[w] \in Seq(Slots) /\ NoDup(free'[w])
      /\ Elements(free'[w]) = (Elements(free[w]) \ Read(free[w], rd)) \cup D
  <2>1. free[w] \in Seq(Slots) /\ NoDup(free[w]) /\ free'[w] = After(free[w], rd, D)
    BY <1>1
  <2> HIDE DEF D, rd
  <2> QED
    BY <1>3, <1>5, <2>1, AfterFifo
<1> HIDE DEF D, rd
<1>7. Read(free[w], rd) = Read(free[w], Fresh(w, a, r))
  BY <1>2 DEF Read
<1> QED
  BY <1>4, <1>6, <1>7 DEF D

(* What the selected slot is after the cycle. *)
LEMMA TaskAfter ==
  ASSUME TypesInv, NEW w \in Workers, NEW a, NEW r, NEW acc, WorkerStep(w, a, r, acc)
  PROVE  /\ \A s \in Slots \ {selector[w]} : task'[w][s] = task[w][s]
         /\ task'[w][selector[w]] = Moved(w, a)
         /\ task'[w] \in [Slots -> {"idle", "running", "waiting", "ending"}]
<1>1. Moved(w, a) \in {"idle", "running", "waiting", "ending"}
  BY MovedFacts DEF WorkerStep
<1>2. /\ task'[w] = [task[w] EXCEPT ![selector[w]] = Moved(w, a)]
      /\ task[w] \in [Slots -> {"idle", "running", "waiting", "ending"}] /\ selector[w] \in Slots
  BY DEF WorkerStep, TypesInv
<1> HIDE DEF Moved
<1> QED
  BY <1>1, <1>2

LEMMA SpotKept ==
  ASSUME CallerInv, NEW w \in Workers, PlaceInv(w), StateInv(w),
         NEW a, NEW r, NEW acc, WorkerStep(w, a, r, acc), NEW s \in Slots
  PROVE  \E l \in Place : Spot(w, s, l)'
<1>0. TypesInv /\ a \in Acts(w) /\ r \in Replies(w)
  BY DEF CallerInv, WorkerStep
<1>1. PICK l \in Place : Spot(w, s, l)
  BY DEF PlaceInv
<1> DEFINE R == Elements(ready[w])
           W == Elements(wait[w])
           P == pending[w]
           took == s \in Takes(w)
           entered == s \in Read(wait[w], acc)
<1>2. /\ s \in Elements(ready'[w]) <=> (s \in R \/ s \in r) /\ ~ took
      /\ took => s \in R \/ s \in r
      /\ took <=> M_DataRdy'[w] /\ selector'[w] = s
  BY <1>0, ReadyKept DEF Takes
<1>3. /\ s \in Elements(wait'[w]) <=> (s \in W /\ ~ entered) \/ (a = "suspend" /\ s = selector[w])
      /\ entered => s \in W
  BY <1>0, WaitKept
<1>4. s \in pending'[w] <=> (s \in P /\ s \notin r) \/ entered
  BY DEF WorkerStep
<1>5. s \in r => s \in P
  BY <1>0, ReplyFacts
<1>6. task'[w][s] = IF s = selector[w] THEN Moved(w, a) ELSE task[w][s]
  BY <1>0, TaskAfter
<1>7. /\ l # "none" <=> task[w][s] = "waiting"
      /\ l = "wait" <=> s \in W
      /\ l = "memory" <=> s \in P
      /\ l = "ready" <=> s \in R
      /\ l = "selected" <=> M_DataRdy[w] /\ selector[w] = s
  BY <1>1 DEF Spot
<1>8. selector[w] = s => current(w) = task[w][s]
  BY DEF current
<1>9. ASSUME NEW k \in Place,
             /\ k # "none" <=> task'[w][s] = "waiting"
             /\ k = "wait" <=> s \in Elements(wait'[w])
             /\ k = "memory" <=> s \in pending'[w]
             /\ k = "ready" <=> s \in Elements(ready'[w])
             /\ k = "selected" <=> took
      PROVE  Spot(w, s, k)'
  BY <1>2, <1>9 DEF Spot
<1>10. /\ "none" \in Place /\ "wait" \in Place /\ "memory" \in Place
       /\ "ready" \in Place /\ "selected" \in Place
  BY DEF Place
<1> HIDE DEF R, W, P, took, entered
<1>11. CASE l = "none"
  <2>1. s \notin W /\ s \notin P /\ s \notin R /\ ~ entered /\ s \notin r /\ ~ took
    BY <1>2, <1>3, <1>5, <1>7, <1>11
  <2>2. CASE a = "suspend" /\ s = selector[w]
    <3>1. task'[w][s] = "waiting"
      BY <1>0, <1>6, <2>2, MovedFacts
    <3> QED
      BY <1>2, <1>3, <1>4, <1>9, <1>10, <2>1, <2>2, <3>1
  <2>3. CASE ~ (a = "suspend" /\ s = selector[w])
    <3>1. task'[w][s] # "waiting"
      <4>1. CASE s = selector[w]
        <5>1. a # "suspend" /\ current(w) # "waiting" /\ current(w) \in {"idle", "running", "ending", "waiting"}
          BY <1>0, <1>7, <1>8, <1>11, <2>3, <4>1 DEF current, TypesInv
        <5>2. Moved(w, a) # "waiting"
          BY <1>0, <5>1, MovedFacts, ActFacts DEF Runs
        <5> QED
          BY <1>6, <4>1, <5>2
      <4>2. CASE s # selector[w]
        BY <1>6, <1>7, <1>11, <4>2
      <4> QED
        BY <4>1, <4>2
    <3> QED
      BY <1>2, <1>3, <1>4, <1>9, <1>10, <2>1, <2>3, <3>1
  <2> QED
    BY <2>2, <2>3
<1>12. CASE l \in {"wait", "memory", "ready"}
  <2>1. task'[w][s] = "waiting" /\ ~ (a = "suspend" /\ s = selector[w])
    <3>1. CASE s = selector[w]
      <4>1. current(w) = "waiting" /\ ~ M_DataRdy[w]
        BY <1>7, <1>8, <1>12, <3>1
      <4>2. a = "none"
        BY <1>0, <4>1, ActFacts DEF Runs
      <4> QED
        BY <1>0, <1>6, <3>1, <4>1, <4>2, MovedFacts
    <3>2. CASE s # selector[w]
      BY <1>6, <1>7, <1>12, <3>2
    <3> QED
      BY <3>1, <3>2
  <2>2. CASE l = "wait"
    <3>1. s \in W /\ s \notin P /\ s \notin R /\ s \notin r /\ ~ took
      BY <1>2, <1>5, <1>7, <2>2
    <3>2. CASE entered
      BY <1>2, <1>3, <1>4, <1>9, <1>10, <2>1, <3>1, <3>2
    <3>3. CASE ~ entered
      BY <1>2, <1>3, <1>4, <1>9, <1>10, <2>1, <3>1, <3>3
    <3> QED
      BY <3>2, <3>3
  <2>3. CASE l = "memory"
    <3>1. s \notin W /\ s \in P /\ s \notin R /\ ~ entered
      BY <1>3, <1>7, <2>3
    <3>2. CASE s \notin r
      BY <1>2, <1>3, <1>4, <1>9, <1>10, <2>1, <3>1, <3>2
    <3>3. CASE s \in r /\ took
      BY <1>2, <1>3, <1>4, <1>9, <1>10, <2>1, <3>1, <3>3
    <3>4. CASE s \in r /\ ~ took
      BY <1>2, <1>3, <1>4, <1>9, <1>10, <2>1, <3>1, <3>4
    <3> QED
      BY <3>2, <3>3, <3>4
  <2>4. CASE l = "ready"
    <3>1. s \notin W /\ s \notin P /\ s \in R /\ s \notin r /\ ~ entered
      BY <1>3, <1>5, <1>7, <2>4
    <3>2. CASE took
      BY <1>2, <1>3, <1>4, <1>9, <1>10, <2>1, <3>1, <3>2
    <3>3. CASE ~ took
      BY <1>2, <1>3, <1>4, <1>9, <1>10, <2>1, <3>1, <3>3
    <3> QED
      BY <3>2, <3>3
  <2> QED
    BY <1>12, <2>2, <2>3, <2>4
<1>13. CASE l = "selected"
  <2>1. s = selector[w] /\ current(w) = "waiting" /\ M_DataRdy[w]
    BY <1>7, <1>8, <1>13
  <2>2. s \notin W /\ s \notin P /\ s \notin R /\ s \notin r /\ ~ entered /\ ~ took
    BY <1>2, <1>3, <1>5, <1>7, <1>13
  <2>3. a # "suspend" /\ Moved(w, a) # "waiting"
    BY <1>0, <2>1, ActFacts, MovedFacts DEF Runs
  <2> QED
    BY <1>2, <1>3, <1>4, <1>6, <1>9, <1>10, <2>1, <2>2, <2>3
<1> QED
  BY <1>11, <1>12, <1>13 DEF Place

LEMMA PlaceStep ==
  ASSUME CallerInv, NEW w \in Workers, PlaceInv(w), StateInv(w),
         NEW a, NEW r, NEW acc, WorkerStep(w, a, r, acc)
  PROVE  PlaceInv(w)'
<1>0. TypesInv /\ a \in Acts(w)
  BY DEF CallerInv, WorkerStep
<1>1. ASSUME NEW s \in Elements(free'[w]) PROVE task'[w][s] \in {"idle", "ending"}
  <2>1. /\ s \in Elements(free[w]) \/ (s = selector[w] /\ fifo_wr_en_free(w, a, r))
        /\ fifo_wr_en_free(w, a, r) =>
              selector[w] \notin Elements(free[w]) /\ (a # "end" => current(w) \in {"idle", "ending"})
    BY <1>1, FreeKept
  <2>2. s \in Elements(free[w]) => s \in Slots /\ task[w][s] \in {"idle", "ending"}
    BY <1>0, Apart DEF PlaceInv
  <2>3. CASE s # selector[w]
    BY <1>0, <2>1, <2>2, <2>3, TaskAfter
  <2>4. CASE s = selector[w] /\ a = "end"
    BY <1>0, <2>4, TaskAfter, MovedFacts
  <2>5. CASE s = selector[w] /\ a # "end"
    <3>1. current(w) \in {"idle", "ending"}
      BY <2>1, <2>2, <2>5 DEF current
    <3>2. a = "none"
      BY <1>0, <3>1, ActFacts DEF Runs
    <3>3. ~ start_port_task(w)
      <4>1. SUFFICES ASSUME w \in selected_worker PROVE FALSE
        BY DEF start_port_task
      <4>2. selector[w] \notin Elements(free[w]) /\ scheduler_state[w] = "S_5" /\ ~ task_pool_end
        BY <4>1, Heard DEF Late
      <4> QED
        BY <2>1, <2>5, <3>2, <4>2 DEF fifo_wr_en_free, done_scheduler
    <3>4. Moved(w, a) \in {"idle", "ending"}
      BY <1>0, <3>1, <3>2, <3>3, MovedFacts
    <3> QED
      BY <1>0, <2>5, <3>4, TaskAfter
  <2> QED
    BY <2>3, <2>4, <2>5
<1>2. NoDup(wait'[w]) /\ NoDup(ready'[w]) /\ NoDup(free'[w])
  BY <1>0, WaitKept, ReadyKept, FreeKept
<1>3. \A s \in Slots : \E l \in Place : Spot(w, s, l)'
  BY SpotKept
<1> QED
  BY <1>1, <1>2, <1>3 DEF PlaceInv

(* Who is selected after the cycle. *)
LEMMA SelectedAfter ==
  ASSUME CallerInv, NEW w \in Workers, PlaceInv(w), StateInv(w),
         NEW a, NEW r, NEW acc, WorkerStep(w, a, r, acc)
  PROVE  /\ M_DataRdy'[w] => Runs(w)'
         /\ Fresh(w, a, r) => /\ current(w)' \in {"idle", "ending"} /\ ~ M_DataRdy'[w]
                              /\ selector'[w] \notin Elements(free'[w])
         /\ ~ M_DataRdy'[w] /\ ~ Fresh(w, a, r) =>
              selector'[w] = selector[w] /\ current(w)' = Moved(w, a)
<1>0. TypesInv /\ a \in Acts(w) /\ r \in Replies(w) /\ selector[w] \in Slots
  BY DEF CallerInv, WorkerStep, TypesInv
<1>1. ASSUME M_DataRdy'[w] PROVE Runs(w)'
  <2> DEFINE d == selector'[w]
  <2>1. d \in Elements(ready[w]) \cup r
    BY <1>0, <1>1, ReadyKept DEF Takes
  <2>2. d \in Slots /\ task[w][d] = "waiting" /\ (d = selector[w] => ~ M_DataRdy[w])
    BY <1>0, <2>1, Apart, ReplyFacts
  <2> HIDE DEF d
  <2>3. task'[w][d] = "waiting"
    <3>1. CASE d = selector[w]
      <4>1. current(w) = "waiting" /\ ~ M_DataRdy[w]
        BY <2>2, <3>1 DEF current
      <4>2. a = "none"
        BY <1>0, <4>1, ActFacts DEF Runs
      <4> QED
        BY <1>0, <3>1, <4>1, <4>2, MovedFacts, TaskAfter
    <3>2. CASE d # selector[w]
      BY <1>0, <2>2, <3>2, TaskAfter
    <3> QED
      BY <3>1, <3>2
  <2> QED
    BY <1>1, <2>3 DEF Runs, current, d
<1>2. ASSUME Fresh(w, a, r)
      PROVE  /\ current(w)' \in {"idle", "ending"} /\ ~ M_DataRdy'[w]
             /\ selector'[w] \notin Elements(free'[w])
  <2>1. /\ ~ M_DataRdy'[w] /\ selector'[w] = Head(free[w]) /\ Head(free[w]) \in Elements(free[w])
    BY <1>0, <1>2, Turn
  <2>2. Runs(w) /\ selector[w] \notin Elements(free[w])
    BY <1>0, <1>2, ActFacts, Apart DEF Fresh
  <2>3. selector'[w] \in Slots \ {selector[w]} /\ task[w][selector'[w]] \in {"idle", "ending"}
    BY <1>0, <2>1, <2>2, Apart DEF PlaceInv
  <2>4. task'[w][selector'[w]] \in {"idle", "ending"}
    BY <1>0, <2>3, TaskAfter
  <2>5. selector'[w] \in Read(free[w], Fresh(w, a, r))
    BY <1>2, <2>1 DEF Read
  <2>6. selector'[w] \notin Elements(free'[w])
    BY <2>3, <2>5, FreeKept
  <2> QED
    BY <2>1, <2>4, <2>6 DEF current
<1>3. ASSUME ~ M_DataRdy'[w], ~ Fresh(w, a, r)
      PROVE  selector'[w] = selector[w] /\ current(w)' = Moved(w, a)
  <2>1. selector'[w] = selector[w]
    BY <1>0, <1>3, Turn
  <2>2. task'[w][selector[w]] = Moved(w, a)
    BY <1>0, TaskAfter
  <2> QED
    BY <2>1, <2>2 DEF current
<1> QED
  BY <1>1, <1>2, <1>3

(* The state machine, by state. *)
LEMMA NextStates ==
  ASSUME TypesInv, NEW w \in Workers, NEW a, NEW r
  PROVE  /\ scheduler_state[w] = "S_0" => next_state(w, a, r) = from_S_0
         /\ scheduler_state[w] = "S_5" => next_state(w, a, r) = from_S_5(w, r)
         /\ scheduler_state[w] = "S_1" => next_state(w, a, r) = from_S_1(w, a, r)
         /\ scheduler_state[w] = "S_2" => next_state(w, a, r) = from_S_2(r)
         /\ scheduler_state[w] = "S_3" => next_state(w, a, r) = from_S_3(w, a, r)
         /\ scheduler_state[w] = "S_4" => next_state(w, a, r) = from_S_4(w, r)
         /\ next_state(w, a, r) \in {"S_0", "S_1", "S_2", "S_3", "S_4", "S_5"}
<1>1. scheduler_state[w] \in {"S_0", "S_1", "S_2", "S_3", "S_4", "S_5"}
  BY DEF TypesInv
<1>2. next_state(w, a, r) =
        IF scheduler_state[w] = "S_0" THEN from_S_0
        ELSE IF scheduler_state[w] = "S_5" THEN from_S_5(w, r)
        ELSE IF scheduler_state[w] = "S_1" THEN from_S_1(w, a, r)
        ELSE IF scheduler_state[w] = "S_2" THEN from_S_2(r)
        ELSE IF scheduler_state[w] = "S_3" THEN from_S_3(w, a, r)
        ELSE from_S_4(w, r)
  BY <1>1 DEF next_state
<1>3. /\ from_S_0 \in {"S_0", "S_5"} /\ from_S_5(w, r) \in {"S_1", "S_3", "S_4", "S_5"}
      /\ from_S_3(w, a, r) \in {"S_3", "S_4"} /\ from_S_2(r) \in {"S_1", "S_2"}
      /\ from_S_4(w, r) \in {"S_0", "S_3", "S_4"}
  BY DEF from_S_0, from_S_5, from_S_3, from_S_2, from_S_4
<1>4. from_S_1(w, a, r) \in {"S_1", "S_2", "S_3", "S_4", "S_5"}
  BY <1>3 DEF from_S_1
<1> QED
  BY <1>1, <1>2, <1>3, <1>4

(* When a running task leaves, no answer being there, more iterations come  *)
(* or task_pool_end is up; and only S_1, S_3 and S_4 know running tasks.    *)
LEMMA LeavingFacts ==
  ASSUME CallerInv, NEW w \in Workers, StateInv(w), Runs(w)
  PROVE  /\ Late => task_pool_end
         /\ ~ Returned
         /\ ~ Late => scheduler_state[w] = "S_1"
<1>1. selector[w] \in Live(w)
  BY RunsIsLive DEF CallerInv
<1>2. (Late => task_pool_end) /\ ~ Returned
  BY <1>1, LiveIsRunning
<1>3. ~ Late => scheduler_state[w] = "S_1"
  <2>1. SUFFICES ASSUME ~ Late PROVE scheduler_state[w] = "S_1"
    OBVIOUS
  <2>2. current(w) = "running" \/ (current(w) = "waiting" /\ M_DataRdy[w])
    BY DEF Runs
  <2>3. scheduler_state[w] \in {"S_0", "S_1", "S_2", "S_3", "S_4", "S_5"}
    BY DEF CallerInv, TypesInv
  <2> QED
    BY <1>2, <2>1, <2>2, <2>3 DEF StateInv
<1> QED
  BY <1>2, <1>3

(* What the clauses of StateInv need to know of the step, by the state it   *)
(* leads to.                                                                *)
LEMMA WaitsAfter ==
  ASSUME CallerInv, NEW w \in Workers, PlaceInv(w), StateInv(w),
         NEW a, NEW r, NEW acc, WorkerStep(w, a, r, acc),
         scheduler_state'[w] = "S_5", ~ Late
  PROVE  /\ selector'[w] \notin Elements(free'[w])
         /\ current(w)' \in {"idle", "ending"} /\ (current(w)' = "ending" => done_request'[w])
<1>0. TypesInv /\ a \in Acts(w) /\ r \in Replies(w) /\ ~ task_pool_end /\ ~ Returned
  BY DEF CallerInv, WorkerStep, Late
<1>1. /\ M_DataRdy'[w] <=> mux_fifo_sel(w, a, r)
      /\ done_request'[w] <=> done_request_next(w, a, r)
      /\ next_state(w, a, r) = "S_5"
  BY DEF WorkerStep
<1>2. CASE scheduler_state[w] \in {"S_0", "S_5"}
  <2>1. ~ Runs(w)
    BY <1>2, LeavingFacts
  <2>2. a = "none" /\ ~ leaves(a)
    BY <1>0, <2>1, ActFacts
  <2>3. /\ ~ M_DataRdy'[w] /\ ~ Fresh(w, a, r) /\ ~ fifo_wr_en_free(w, a, r)
    BY <1>0, <1>1, <1>2, <2>2 DEF mux_fifo_sel, Fresh, fifo_wr_en_free, leaves
  <2>4. selector'[w] = selector[w] /\ current(w)' = Moved(w, a)
    BY <2>3, SelectedAfter
  <2>5. selector[w] \notin Elements(free[w]) /\ current(w) \in {"idle", "ending"}
    BY <1>0, <1>2 DEF StateInv, Late
  <2>6. selector'[w] \notin Elements(free'[w])
    BY <2>3, <2>4, <2>5, FreeKept
  <2>7. ~ start_port_task(w)
    <3>1. CASE scheduler_state[w] = "S_0"
      BY <3>1, Heard DEF start_port_task
    <3>2. CASE scheduler_state[w] = "S_5"
      BY <1>0, <1>1, <3>2, NextStates DEF from_S_5
    <3> QED
      BY <1>2, <3>1, <3>2
  <2>8. Moved(w, a) = "idle"
    BY <1>0, <2>2, <2>5, <2>7, MovedFacts
  <2> QED
    BY <2>4, <2>6, <2>8
<1>3. CASE scheduler_state[w] = "S_1"
  <2>1. leaves(a) /\ ~ resumable(w, r) /\ ~ (suspension(a) /\ fifo_empty_free(w))
    BY <1>0, <1>1, <1>3, NextStates DEF from_S_1
  <2>2. CASE free[w] # << >>
    <3>1. Fresh(w, a, r)
      BY <1>0, <2>1, <2>2 DEF Fresh
    <3>2. done_request'[w]
      BY <1>0, <1>1, <3>1, Turn DEF done_request_next
    <3> QED
      BY <3>1, <3>2, SelectedAfter
  <2>3. CASE free[w] = << >>
    <3>1. a = "end" /\ fifo_empty_free(w)
      BY <1>0, <2>1, <2>3, ActFacts DEF suspension, fifo_empty_free
    <3>2. done_request'[w]
      BY <1>1, <2>1, <3>1 DEF done_request_next, done_scheduler
    <3>3. ~ M_DataRdy'[w] /\ ~ Fresh(w, a, r) /\ ~ fifo_wr_en_free(w, a, r)
      BY <1>0, <1>1, <1>3, <2>1, <2>3 DEF mux_fifo_sel, Fresh, fifo_wr_en_free, fifo_empty_free
    <3>4. selector'[w] = selector[w] /\ current(w)' = "ending"
      BY <1>0, <3>1, <3>3, SelectedAfter, MovedFacts
    <3>5. selector[w] \notin Elements(free[w])
      BY <1>0, <2>1, ActFacts, Apart
    <3>6. selector'[w] \notin Elements(free'[w])
      BY <3>3, <3>4, <3>5, FreeKept
    <3> QED
      BY <3>2, <3>4, <3>6
  <2> QED
    BY <2>2, <2>3
<1>4. CASE scheduler_state[w] \in {"S_2", "S_3", "S_4"}
  BY <1>0, <1>1, <1>4, NextStates DEF from_S_2, from_S_3, from_S_4
<1> QED
  BY <1>0, <1>2, <1>3, <1>4 DEF TypesInv

LEMMA RunsAfter ==
  ASSUME CallerInv, NEW w \in Workers, PlaceInv(w), StateInv(w),
         NEW a, NEW r, NEW acc, WorkerStep(w, a, r, acc),
         scheduler_state'[w] \in {"S_1", "S_3"}
  PROVE  Runs(w)'
<1>0. TypesInv /\ a \in Acts(w) /\ r \in Replies(w)
  BY DEF CallerInv, WorkerStep
<1>1. /\ M_DataRdy'[w] <=> mux_fifo_sel(w, a, r)
      /\ next_state(w, a, r) \in {"S_1", "S_3"}
  BY DEF WorkerStep
<1>2. ASSUME Runs(w), scheduler_state[w] \in {"S_1", "S_3"}, ~ M_DataRdy'[w] PROVE Runs(w)'
  <2>1. ~ (leaves(a) /\ ~ resumable(w, r))
    <3>1. CASE scheduler_state[w] = "S_3"
      BY <1>0, <1>1, <3>1, NextStates DEF from_S_3
    <3>2. CASE scheduler_state[w] = "S_1"
      BY <1>0, <1>1, <3>2, NextStates DEF from_S_1, from_S_3
    <3> QED
      BY <1>2, <3>1, <3>2
  <2>2. ~ leaves(a) /\ ~ Fresh(w, a, r)
    BY <1>1, <1>2, <2>1 DEF mux_fifo_sel, Fresh
  <2>3. a = "none"
    BY <1>0, <2>2, ActFacts
  <2>4. current(w)' = "running"
    BY <1>0, <1>2, <2>2, <2>3, SelectedAfter, MovedFacts
  <2> QED
    BY <2>4 DEF Runs
<1>3. CASE scheduler_state[w] = "S_5" /\ ~ M_DataRdy'[w]
  <2>1. ~ task_pool_end
    BY <1>0, <1>1, <1>3, NextStates DEF from_S_5, mux_fifo_sel, resumable
  <2>2. w \in selected_worker
    BY <1>0, <1>1, <1>3, <2>1, NextStates DEF from_S_5, start_port_task
  <2>3. current(w) = "idle"
    BY <2>2, Heard
  <2>4. a = "none" /\ ~ Fresh(w, a, r)
    BY <1>0, <2>3, ActFacts DEF Fresh, Runs
  <2>5. current(w)' = "running"
    BY <1>0, <1>3, <2>2, <2>3, <2>4, SelectedAfter, MovedFacts DEF start_port_task
  <2> QED
    BY <2>5 DEF Runs
<1>4. CASE scheduler_state[w] = "S_2"
  <2>1. r # {}
    BY <1>0, <1>1, <1>4, NextStates DEF from_S_2
  <2>2. M_DataRdy'[w]
    BY <1>1, <1>4, <2>1 DEF mux_fifo_sel, resumable
  <2> QED
    BY <2>2, SelectedAfter
<1>5. CASE scheduler_state[w] = "S_4"
  <2>1. resumable(w, r)
    BY <1>0, <1>1, <1>5, NextStates DEF from_S_4
  <2>2. M_DataRdy'[w]
    BY <1>1, <1>5, <2>1 DEF mux_fifo_sel
  <2> QED
    BY <2>2, SelectedAfter
<1>6. CASE scheduler_state[w] = "S_0"
  BY <1>0, <1>1, <1>6, NextStates DEF from_S_0
<1>7. scheduler_state[w] \in {"S_1", "S_3"} => Runs(w)
  BY DEF StateInv
<1> QED
  BY <1>0, <1>2, <1>3, <1>4, <1>5, <1>6, <1>7, SelectedAfter DEF TypesInv

LEMMA FullAfter ==
  ASSUME CallerInv, NEW w \in Workers, PlaceInv(w), StateInv(w),
         NEW a, NEW r, NEW acc, WorkerStep(w, a, r, acc),
         scheduler_state'[w] = "S_2"
  PROVE  free'[w] = << >> /\ ready'[w] = << >> /\ current(w)' = "waiting" /\ ~ M_DataRdy'[w]
<1>0. TypesInv /\ a \in Acts(w) /\ r \in Replies(w) /\ selector[w] \in Slots
  BY DEF CallerInv, WorkerStep, TypesInv
<1>1. /\ M_DataRdy'[w] <=> mux_fifo_sel(w, a, r)
      /\ next_state(w, a, r) = "S_2"
  BY DEF WorkerStep
<1>2. /\ free[w] = << >> /\ ready[w] = << >> /\ r = {}
      /\ \/ a = "suspend"
         \/ a = "none" /\ current(w) = "waiting" /\ ~ M_DataRdy[w]
      /\ scheduler_state[w] \in {"S_1", "S_2"}
  <2>1. CASE scheduler_state[w] = "S_1"
    BY <1>0, <1>1, <2>1, NextStates
       DEF from_S_1, from_S_3, resumable, fifo_empty_ready, fifo_empty_free, suspension
  <2>2. CASE scheduler_state[w] = "S_2"
    <3>1. r = {}
      BY <1>0, <1>1, <2>2, NextStates DEF from_S_2
    <3>2. free[w] = << >> /\ ready[w] = << >> /\ current(w) = "waiting" /\ ~ M_DataRdy[w]
      BY <2>2 DEF StateInv
    <3>3. a = "none"
      BY <1>0, <3>2, ActFacts DEF Runs
    <3> QED
      BY <2>2, <3>1, <3>2, <3>3
  <2>3. CASE scheduler_state[w] \in {"S_0", "S_3", "S_4", "S_5"}
    BY <1>0, <1>1, <2>3, NextStates DEF from_S_0, from_S_3, from_S_4, from_S_5
  <2> QED
    BY <1>0, <2>1, <2>2, <2>3 DEF TypesInv
<1>3. ~ resumable(w, r) /\ ~ M_DataRdy'[w] /\ ~ Fresh(w, a, r) /\ ~ fifo_wr_en_free(w, a, r)
  BY <1>1, <1>2 DEF resumable, fifo_empty_ready, mux_fifo_sel, Fresh, fifo_wr_en_free, done_scheduler
<1>4. current(w)' = "waiting"
  BY <1>0, <1>2, <1>3, SelectedAfter, MovedFacts
<1>5. free'[w] = << >>
  <2>1. Elements(free[w]) = {} /\ free'[w] \in Seq(Slots)
    BY <1>0, <1>2, ElementsTyped, FreeKept DEF TypesInv
  <2>2. Elements(free'[w]) = {}
    BY <1>3, <2>1, FreeKept
  <2> QED
    BY <2>1, <2>2, ElementsTyped
<1>6. ready'[w] = << >>
  <2>1. Elements(ready[w]) = {} /\ ready'[w] \in Seq(Slots)
    BY <1>0, <1>2, ElementsTyped, ReadyKept DEF TypesInv
  <2>2. Elements(ready'[w]) = {}
    BY <1>0, <1>2, <2>1, ReadyKept
  <2> QED
    BY <2>1, <2>2, ElementsTyped
<1> QED
  BY <1>3, <1>4, <1>5, <1>6

LEMMA LastAfter ==
  ASSUME CallerInv, NEW w \in Workers, PlaceInv(w), StateInv(w),
         NEW a, NEW r, NEW acc, WorkerStep(w, a, r, acc),
         scheduler_state'[w] = "S_4", Runs(w)'
  PROVE  free'[w] # << >>
<1>0. TypesInv /\ a \in Acts(w) /\ r \in Replies(w) /\ selector[w] \in Slots
  BY DEF CallerInv, WorkerStep, TypesInv
<1>1. /\ M_DataRdy'[w] <=> mux_fifo_sel(w, a, r)
      /\ next_state(w, a, r) = "S_4"
  BY DEF WorkerStep
<1>2. free'[w] \in Seq(Slots) /\ (free'[w] = << >> <=> Elements(free'[w]) = {})
  BY FreeKept, ElementsTyped
<1>3. CASE scheduler_state[w] = "S_5"
  <2>1. fifo_wr_en_free(w, a, r)
    BY <1>0, <1>1, <1>3, NextStates DEF from_S_5, fifo_wr_en_free
  <2>2. selector[w] \in Elements(free'[w])
    BY <2>1, FreeKept
  <2> QED
    BY <1>2, <2>2
<1>4. CASE scheduler_state[w] \in {"S_1", "S_3"}
  <2>1. leaves(a) /\ ~ resumable(w, r) /\ (scheduler_state[w] = "S_3" \/ task_pool_end)
    <3>1. CASE scheduler_state[w] = "S_3"
      BY <1>0, <1>1, <3>1, NextStates DEF from_S_3
    <3>2. CASE scheduler_state[w] = "S_1"
      BY <1>0, <1>1, <3>2, NextStates DEF from_S_1, from_S_3
    <3> QED
      BY <1>4, <3>1, <3>2
  <2>2. Runs(w)
    BY <1>0, <2>1, ActFacts
  <2>3. task_pool_end
    BY <2>1, <2>2, LeavingFacts DEF StateInv
  <2>4. ~ M_DataRdy'[w] /\ ~ Fresh(w, a, r)
    BY <1>1, <2>1, <2>3 DEF mux_fifo_sel, Fresh
  <2>5. current(w)' \in {"waiting", "ending"}
    BY <1>0, <2>1, <2>4, SelectedAfter, MovedFacts, ActFacts
  <2> QED
    BY <2>4, <2>5 DEF Runs
<1>5. CASE scheduler_state[w] = "S_4"
  <2>1. ~ resumable(w, r)
    BY <1>0, <1>1, <1>5, NextStates DEF from_S_4
  <2>2. ~ Fresh(w, a, r)
    <3>1. leaves(a) => task_pool_end
      BY <1>0, <1>5, ActFacts, LeavingFacts DEF StateInv
    <3> QED
      BY <3>1 DEF Fresh
  <2>3. ~ M_DataRdy'[w]
    BY <1>1, <2>1 DEF mux_fifo_sel
  <2>4. CASE Runs(w)
    <3>1. Elements(free[w]) # {} /\ Read(free[w], Fresh(w, a, r)) = {}
      <4>1. free[w] # << >> /\ free[w] \in Seq(Slots)
        BY <1>0, <1>5, <2>4 DEF StateInv, TypesInv
      <4> QED
        BY <2>2, <4>1, ElementsTyped DEF Read
    <3> QED
      BY <1>2, <3>1, FreeKept
  <2>5. CASE ~ Runs(w)
    <3>1. a = "none" /\ current(w)' = Moved(w, a)
      BY <1>0, <2>2, <2>3, <2>5, ActFacts, SelectedAfter
    <3>2. ~ start_port_task(w)
      BY <1>5, Heard DEF start_port_task
    <3>3. current(w) \in {"idle", "waiting", "ending"} /\ (current(w) = "waiting" => ~ M_DataRdy[w])
      BY <1>0, <2>5 DEF Runs, current, TypesInv
    <3>4. Moved(w, a) \in {"idle", "waiting"}
      BY <1>0, <3>1, <3>2, <3>3, MovedFacts
    <3> QED
      BY <2>3, <3>1, <3>4 DEF Runs
  <2> QED
    BY <2>4, <2>5
<1>6. CASE scheduler_state[w] \in {"S_0", "S_2"}
  BY <1>0, <1>1, <1>6, NextStates DEF from_S_0, from_S_2
<1> QED
  BY <1>0, <1>3, <1>4, <1>5, <1>6 DEF TypesInv

(* The last states of a worker, and its first after the call, are late. *)
LEMMA LateAfter ==
  ASSUME CallerInv, NEW w \in Workers, StateInv(w),
         NEW a, NEW r, NEW acc, WorkerStep(w, a, r, acc),
         scheduler_state'[w] \in {"S_0", "S_3", "S_4"}
  PROVE  Late
<1>1. /\ next_state(w, a, r) \in {"S_0", "S_3", "S_4"} /\ TypesInv
      /\ scheduler_state[w] \in {"S_0", "S_1", "S_2", "S_3", "S_4", "S_5"}
  BY DEF WorkerStep, CallerInv, TypesInv
<1>2. CASE scheduler_state[w] = "S_0"
  BY <1>1, <1>2, NextStates DEF from_S_0, Late
<1>3. CASE scheduler_state[w] = "S_5"
  BY <1>1, <1>3, NextStates DEF from_S_5, Late
<1>4. CASE scheduler_state[w] = "S_1"
  BY <1>1, <1>4, NextStates DEF from_S_1, Late
<1>5. CASE scheduler_state[w] = "S_2"
  BY <1>1, <1>5, NextStates DEF from_S_2
<1>6. CASE scheduler_state[w] \in {"S_3", "S_4"}
  BY <1>6 DEF StateInv
<1> QED
  BY <1>1, <1>2, <1>3, <1>4, <1>5, <1>6

(* A worker asks for an iteration when it has a slot for it.  *)
LEMMA AskAfter ==
  ASSUME CallerInv, NEW w \in Workers, StateInv(w),
         NEW a, NEW r, NEW acc, WorkerStep(w, a, r, acc), ~ Late, PlaceInv(w)
  PROVE  /\ done_request'[w] => scheduler_state[w] = "S_1" /\ scheduler_state'[w] = "S_5"
         /\ scheduler_state[w] \in {"S_0", "S_5"} /\ w \notin selected_worker =>
              scheduler_state'[w] = "S_5"
<1>0. TypesInv /\ a \in Acts(w) /\ ~ task_pool_end
  BY DEF CallerInv, WorkerStep, Late
<1>1. ASSUME done_request'[w] PROVE scheduler_state[w] = "S_1" /\ scheduler_state'[w] = "S_5"
  <2>1. /\ leaves(a) /\ ~ resumable(w, r)
        /\ free[w] # << >> \/ a = "end"
    <3>1. done_request_next(w, a, r)
      BY <1>1 DEF WorkerStep
    <3> QED
      BY <1>0, <3>1, Turn DEF done_request_next, Fresh, leaves, done_scheduler
  <2>2. scheduler_state[w] = "S_1"
    BY <1>0, <2>1, ActFacts, LeavingFacts
  <2>3. ~ (suspension(a) /\ fifo_empty_free(w))
    BY <2>1 DEF suspension, fifo_empty_free
  <2> QED
    BY <1>0, <2>1, <2>2, <2>3, NextStates DEF from_S_1, WorkerStep
<1>2. ASSUME scheduler_state[w] \in {"S_0", "S_5"}, w \notin selected_worker
      PROVE  scheduler_state'[w] = "S_5"
  BY <1>0, <1>2, NextStates DEF WorkerStep, from_S_0, from_S_5, start_port_task
<1> QED
  BY <1>1, <1>2

LEMMA StateStep ==
  ASSUME CallerInv, NEW w \in Workers, PlaceInv(w), StateInv(w),
         NEW a, NEW r, NEW acc, WorkerStep(w, a, r, acc),
         Late => Late', Returned => Returned',
         w \in worker_status' <=> (w \in worker_status \/ w \in selected_worker) /\ ~ done_request[w]
  PROVE  StateInv(w)'
<1>1. scheduler_state'[w] = "S_5" /\ ~ Returned' =>
        /\ selector'[w] \notin Elements(free'[w])
        /\ current(w)' \in {"idle", "ending"} /\ (current(w)' = "ending" => done_request'[w])
  <2>1. ASSUME scheduler_state'[w] = "S_5", task_pool_end PROVE FALSE
    <3>1. next_state(w, a, r) = "S_5" /\ TypesInv
      BY <2>1 DEF WorkerStep, CallerInv
    <3> QED
      BY <2>1, <3>1, NextStates
         DEF from_S_0, from_S_1, from_S_2, from_S_3, from_S_4, from_S_5, TypesInv
  <2> QED
    BY <2>1, WaitsAfter DEF Late
<1>2. scheduler_state'[w] \in {"S_1", "S_3"} => Runs(w)'
  BY RunsAfter
<1>3. scheduler_state'[w] = "S_2" =>
        free'[w] = << >> /\ ready'[w] = << >> /\ current(w)' = "waiting" /\ ~ M_DataRdy'[w]
  BY FullAfter
<1>4. scheduler_state'[w] \in {"S_0", "S_3", "S_4"} => Late'
  BY LateAfter
<1>5. scheduler_state'[w] = "S_4" /\ Runs(w)' => free'[w] # << >>
  BY LastAfter
<1>6. ~ Late' /\ done_request'[w] => scheduler_state'[w] = "S_5"
  BY AskAfter
<1>7. ASSUME ~ Late', w \notin worker_status'
      PROVE  scheduler_state'[w] \in {"S_0", "S_5"} /\ ~ done_request'[w]
  <2>1. ~ Late /\ (done_request[w] \/ (w \notin worker_status /\ w \notin selected_worker))
    BY <1>7
  <2>2. scheduler_state[w] \in {"S_0", "S_5"}
    BY <2>1 DEF StateInv
  <2>3. w \notin selected_worker
    <3>1. SUFFICES ASSUME w \in selected_worker PROVE FALSE
      OBVIOUS
    <3>2. w \notin worker_status
      BY <3>1, Heard
    <3> QED
      BY <2>1, <3>1, <3>2 DEF StateInv
  <2> QED
    BY <2>1, <2>2, <2>3, AskAfter
<1> QED
  BY <1>1, <1>2, <1>3, <1>4, <1>5, <1>6, <1>7 DEF StateInv

-------------------------------------------------------------------------------
(* All workers in one cycle *)

(* act, reply and accepted are what the tasks and the memory may do.        *)
Inputs(act, reply, accepted) ==
  act \in ActsOfAll /\ reply \in RepliesToAll /\ accepted \in SUBSET Requests

LEMMA WorkersStep ==
  ASSUME TypesInv, NEW act, NEW reply, NEW accepted,
         Inputs(act, reply, accepted), Datapaths(act, reply, accepted), NEW w \in Workers
  PROVE  /\ WorkerStep(w, act[w], reply[w], w \in accepted)
         /\ iteration'[w] = IF w \in selected_worker THEN [iteration[w] EXCEPT ![selector[w]] = request]
                            ELSE iteration[w]
         /\ w \in worker_status' <=> (w \in worker_status \/ w \in selected_worker) /\ ~ done_request[w]
         /\ done_port_accelerator'[w] <=> act[w] = "end"
<1>1. act[w] \in Acts(w) /\ reply[w] \in Replies(w) /\ (w \in accepted => wait[w] # << >>)
  BY DEF Inputs, ActsOfAll, RepliesToAll, Requests
<1>2. Schedule(act, reply, accepted) /\ RunTasks(act) /\ Memory(reply, accepted)
  BY DEF Datapaths
<1>3. /\ scheduler_state'[w] = next_state(w, act[w], reply[w])
      /\ selector'[w] = next_selector(w, act[w], reply[w])
      /\ free'[w] = After(free[w], fifo_rd_en_free(w, act[w], reply[w]),
             IF fifo_wr_en_free(w, act[w], reply[w]) THEN {selector[w]} ELSE {})
      /\ ready'[w] = After(ready[w], fifo_rd_en_ready(w, act[w], reply[w]),
             IF fifo_wr_en_ready(w, act[w], reply[w]) THEN reply[w] ELSE {})
      /\ wait'[w] = After(wait[w], w \in accepted, IF suspension(act[w]) THEN {selector[w]} ELSE {})
  BY <1>2 DEF Schedule
<1>4. M_DataRdy'[w] <=> mux_fifo_sel(w, act[w], reply[w])
  BY <1>2, Zenon DEF Schedule
<1>5. done_request'[w] <=> done_request_next(w, act[w], reply[w])
  BY <1>2, Zenon DEF Schedule
<1>6. /\ task'[w] = [task[w] EXCEPT ![selector[w]] = Moved(w, act[w])]
      /\ iteration'[w] = IF w \in selected_worker THEN [iteration[w] EXCEPT ![selector[w]] = request]
                         ELSE iteration[w]
  BY <1>2 DEF RunTasks, start_port_task
<1>7. pending'[w] = (pending[w] \ reply[w]) \cup Read(wait[w], w \in accepted)
  BY <1>2 DEF Memory, Read
<1>8. w \in worker_status' <=> (w \in worker_status \/ w \in selected_worker) /\ ~ done_request[w]
  BY DEF Datapaths, Datapath
<1>9. done_port_accelerator'[w] <=> act[w] = "end"
  BY <1>2 DEF RunTasks, done_scheduler
<1> QED
  BY <1>1, <1>3, <1>4, <1>5, <1>6, <1>7, <1>8, <1>9 DEF WorkerStep

(* A task has begun and not ended after the cycle if it had before and does *)
(* not end, or if it starts.                                                *)
LEMMA LiveAfter ==
  ASSUME CallerInv, NEW w \in Workers, StateInv(w), NEW a, NEW r, NEW acc, WorkerStep(w, a, r, acc),
         iteration'[w] = IF w \in selected_worker THEN [iteration[w] EXCEPT ![selector[w]] = request]
                         ELSE iteration[w],
         NEW s \in Slots, task'[w][s] \in {"running", "waiting"}
  PROVE  \/ /\ s \in Live(w) /\ ~ (a = "end" /\ s = selector[w])
            /\ iteration'[w][s] = iteration[w][s]
         \/ w \in selected_worker /\ s = selector[w] /\ iteration'[w][s] = request
<1>1. TypesInv /\ a \in Acts(w) /\ selector[w] \in Slots /\ iteration[w] \in [Slots -> Iteration]
  BY DEF CallerInv, TypesInv, WorkerStep
<1>2. CASE s # selector[w]
  <2>1. iteration'[w][s] = iteration[w][s]
    BY <1>1, <1>2
  <2>2. s \in Live(w)
    BY <1>1, <1>2, TaskAfter DEF Live
  <2> QED
    BY <1>2, <2>1, <2>2
<1>3. CASE s = selector[w] /\ w \in selected_worker
  BY <1>1, <1>3
<1>4. CASE s = selector[w] /\ w \notin selected_worker
  <2>1. task'[w][s] = Moved(w, a) /\ task[w][s] = current(w)
    BY <1>1, <1>4, TaskAfter DEF current
  <2>2. a # "end"
    BY <1>1, <2>1, MovedFacts
  <2>3. current(w) \in {"running", "waiting"}
    <3>1. CASE a = "suspend"
      BY <1>1, <3>1, ActFacts
    <3>2. CASE a = "none"
      <4>1. current(w) \in {"idle", "running", "waiting", "ending"}
        BY <1>1 DEF TypesInv, current
      <4>2. current(w) # "idle" /\ current(w) # "ending"
        BY <1>1, <1>4, <2>1, <3>2, MovedFacts DEF start_port_task
      <4> QED
        BY <4>1, <4>2
    <3> QED
      BY <1>1, <2>2, <3>1, <3>2, ActFacts
  <2> QED
    BY <1>4, <2>1, <2>2, <2>3 DEF Live
<1> QED
  BY <1>2, <1>3, <1>4

(* The iterations that end were begun and had not ended, and as many        *)
(* workers end one.                                                         *)
EndsNow(act) == {iteration[w][selector[w]] : w \in {v \in Workers : act[v] = "end"}}

LEMMA BegunFinite ==
  ASSUME ControlInv, CallInv
  PROVE  /\ IsFiniteSet(ended) /\ Cardinality(ended) \in Nat /\ IsFiniteSet(begun)
         /\ running => Cardinality(begun) = number_req_tasks
         /\ Cardinality(ended) <= Cardinality(begun)
         /\ Cardinality(ended) = Cardinality(begun) => ended = begun
<1>1. IsFiniteSet(0 .. (MaxLoop - 1))
  BY MaxLoopAssumption, FS_Interval
<1>2. IsFiniteSet(ended) /\ Cardinality(ended) \in Nat /\ IsFiniteSet(begun) /\ ended \subseteq begun
  BY <1>1, FS_Subset, FS_CardinalityType DEF CallInv
<1>3. ASSUME running PROVE Cardinality(begun) = number_req_tasks
  <2>1. begun = 0 .. (number_req_tasks - 1) /\ number_req_tasks \in Nat
    BY <1>3, Ranges DEF CallInv
  <2>2. Cardinality(0 .. (number_req_tasks - 1)) =
          IF 0 > number_req_tasks - 1 THEN 0 ELSE number_req_tasks - 1 - 0 + 1
    BY <2>1, FS_Interval
  <2> QED
    BY <2>1, <2>2
<1> QED
  BY <1>2, <1>3, FS_Subset

LEMMA UnionCount ==
  ASSUME NEW S, NEW T, IsFiniteSet(S), IsFiniteSet(T), S \cap T = {}
  PROVE  Cardinality(S \cup T) = Cardinality(S) + Cardinality(T)
<1>1. Cardinality(S \cup T) = Cardinality(S) + Cardinality(T) - Cardinality(S \cap T)
  BY FS_Union
<1>2. Cardinality(S) \in Nat /\ Cardinality(T) \in Nat /\ Cardinality(S \cap T) = 0
  BY FS_CardinalityType, FS_EmptySet
<1> QED
  BY <1>1, <1>2

LEMMA EndsFacts ==
  ASSUME CallerInv, NEW act, \A w \in Workers : act[w] \in Acts(w)
  PROVE  /\ EndsNow(act) \subseteq begun \ ended
         /\ \A w \in Workers : act[w] = "end" => selector[w] \in Live(w)
         /\ Cardinality({w \in Workers : act[w] = "end"}) = Cardinality(EndsNow(act))
         /\ Cardinality(ended \cup EndsNow(act)) = Cardinality(ended) + Cardinality(EndsNow(act))
         /\ Cardinality(EndsNow(act)) \in Nat
<1>1. \A w \in Workers : act[w] = "end" => selector[w] \in Live(w)
  BY ActFacts, RunsIsLive DEF CallerInv, leaves, done_scheduler
<1>2. PICK d : d = EndsNow(act)
  OBVIOUS
<1>3. PICK h : h = [w \in Workers |-> IF act[w] = "end" THEN {iteration[w][selector[w]]} ELSE {}]
  OBVIOUS
<1>4. d \subseteq begun \ ended
  BY <1>1, <1>2 DEF EndsNow, CallerInv, LiveInv
<1>5. IsFiniteSet(d) /\ Cardinality(d) \in Nat
  BY <1>4, BegunFinite, FS_Subset, FS_CardinalityType DEF CallerInv
<1>6. Cardinality(ended \cup d) = Cardinality(ended) + Cardinality(d)
  BY <1>4, <1>5, BegunFinite, UnionCount DEF CallerInv
<1>7. h \in [Workers -> SUBSET d]
  BY <1>2, <1>3 DEF EndsNow
<1>8. d = UNION {h[w] : w \in Workers}
  BY <1>2, <1>3 DEF EndsNow
<1>9. \A v, w \in Workers : v # w => h[v] \cap h[w] = {}
  BY <1>1, <1>3 DEF CallerInv, LiveInv
<1>10. \A w \in Workers : Cardinality(h[w]) <= 1
  <2>1. SUFFICES ASSUME NEW w \in Workers PROVE Cardinality(h[w]) <= 1
    OBVIOUS
  <2>2. h[w] = {} \/ \E x : h[w] = {x}
    BY <1>3
  <2>3. Cardinality(h[w]) \in {0, 1}
    BY <2>2, FS_EmptySet, FS_Singleton
  <2> QED
    BY <2>3
<1>11. {w \in Workers : h[w] # {}} = {w \in Workers : act[w] = "end"}
  BY <1>3
<1>12. Cardinality({w \in Workers : h[w] # {}}) = Cardinality(d)
  BY <1>5, <1>7, <1>8, <1>9, <1>10, OneEach
<1> QED
  BY <1>1, <1>2, <1>4, <1>5, <1>6, <1>11, <1>12

LEMMA TypesStep ==
  ASSUME CallerInv, \A w \in Workers : PlaceInv(w) /\ StateInv(w),
         NEW act, NEW reply, NEW accepted,
         Inputs(act, reply, accepted), Datapaths(act, reply, accepted),
         calls' \in {0, 1}, running' \in BOOLEAN
  PROVE  TypesInv'
<1>0. TypesInv
  BY DEF CallerInv
<1>1. Schedule(act, reply, accepted) /\ RunTasks(act) /\ Memory(reply, accepted)
  BY DEF Datapaths
<1>2. \A w \in Workers : WorkerStep(w, act[w], reply[w], w \in accepted)
  BY <1>0, WorkersStep
<1>3. scheduler_state' \in [Workers -> {"S_0", "S_1", "S_2", "S_3", "S_4", "S_5"}]
  <2>1. \A w \in Workers : next_state(w, act[w], reply[w]) \in {"S_0", "S_1", "S_2", "S_3", "S_4", "S_5"}
    BY <1>0, NextStates
  <2> QED
    BY <1>1, <2>1 DEF Schedule
<1>4. selector' \in [Workers -> Slots]
  <2>1. \A w \in Workers : selector'[w] \in Slots
    BY <1>0, <1>2, Turn
  <2> QED
    BY <1>1, <2>1 DEF Schedule
<1>5. free' \in [Workers -> Seq(Slots)]
  <2>1. \A w \in Workers : free'[w] \in Seq(Slots)
    BY <1>2, FreeKept
  <2> QED
    BY <1>1, <2>1 DEF Schedule
<1>6. ready' \in [Workers -> Seq(Slots)]
  <2>1. \A w \in Workers : ready'[w] \in Seq(Slots)
    BY <1>0, <1>2, ReadyKept
  <2> QED
    BY <1>1, <2>1 DEF Schedule
<1>7. wait' \in [Workers -> Seq(Slots)]
  <2>1. \A w \in Workers : wait'[w] \in Seq(Slots)
    BY <1>0, <1>2, WaitKept
  <2> QED
    BY <1>1, <2>1 DEF Schedule
<1>8. M_DataRdy' \in [Workers -> BOOLEAN] /\ done_request' \in [Workers -> BOOLEAN]
  <2>1. \A w \in Workers : mux_fifo_sel(w, act[w], reply[w]) \in BOOLEAN
    BY DEF mux_fifo_sel
  <2>2. \A w \in Workers : done_request_next(w, act[w], reply[w]) \in BOOLEAN
    BY DEF done_request_next
  <2> QED
    BY <1>1, <2>1, <2>2 DEF Schedule
<1>9. task' \in [Workers -> [Slots -> {"idle", "running", "waiting", "ending"}]]
  <2>1. \A w \in Workers : task'[w] \in [Slots -> {"idle", "running", "waiting", "ending"}]
    BY <1>0, <1>2, TaskAfter
  <2> QED
    BY <1>1, <2>1 DEF RunTasks
<1>10. iteration' \in [Workers -> [Slots -> Iteration]]
  <2>1. \A w \in Workers : iteration'[w] \in [Slots -> Iteration]
    <3>1. SUFFICES ASSUME NEW w \in Workers PROVE iteration'[w] \in [Slots -> Iteration]
      OBVIOUS
    <3>2. iteration[w] \in [Slots -> Iteration]
      BY <1>0 DEF TypesInv
    <3>3. w \in selected_worker => request \in Iteration
      <4>1. SUFFICES ASSUME w \in selected_worker PROVE request \in Iteration
        OBVIOUS
      <4>2. request = number_req_tasks /\ number_req_tasks < LoopIteration
        BY <4>1, Giving DEF CallerInv
      <4> QED
        BY <4>2, Ranges, MaxLoopAssumption DEF CallerInv, Iteration
    <3>4. iteration'[w] = IF w \in selected_worker THEN [iteration[w] EXCEPT ![selector[w]] = request]
                          ELSE iteration[w]
      BY <1>0, WorkersStep
    <3> QED
      BY <3>2, <3>3, <3>4
  <2> QED
    BY <1>1, <2>1 DEF RunTasks
<1>11. done_port_accelerator' \in [Workers -> BOOLEAN]
  BY <1>1 DEF RunTasks, done_scheduler
<1>12. pending' \in [Workers -> SUBSET Slots]
  <2>1. \A w \in Workers : pending'[w] \subseteq Slots
    <3>1. \A w \in Workers : /\ pending'[w] = (pending[w] \ reply[w]) \cup Read(wait[w], w \in accepted)
                             /\ Read(wait[w], w \in accepted) \subseteq Elements(wait[w])
      BY <1>0, <1>2, WaitKept DEF WorkerStep
    <3>2. \A w \in Workers : pending[w] \subseteq Slots /\ Elements(wait[w]) \subseteq Slots
      BY <1>0, ElementsTyped DEF TypesInv
    <3> QED
      BY <3>1, <3>2
  <2> QED
    BY <1>1, <2>1 DEF Memory
<1> QED
  BY <1>3, <1>4, <1>5, <1>6, <1>7, <1>8, <1>9, <1>10, <1>11, <1>12 DEF TypesInv

(* Iterations under way stay with their tasks; the new one is nobody's yet. *)
LEMMA LiveStep ==
  ASSUME CallerInv, \A w \in Workers : PlaceInv(w) /\ StateInv(w),
         NEW act, NEW reply, NEW accepted,
         Inputs(act, reply, accepted), Datapaths(act, reply, accepted), Note(act)
  PROVE  LiveInv'
<1> DEFINE Old(w, s) == /\ s \in Live(w) /\ ~ (act[w] = "end" /\ s = selector[w])
                        /\ iteration'[w][s] = iteration[w][s]
           New(w, s) == w \in selected_worker /\ s = selector[w] /\ iteration'[w][s] = request
<1>1. \A w \in Workers : \A s \in Live(w)' : s \in Slots /\ (Old(w, s) \/ New(w, s))
  <2>1. SUFFICES ASSUME NEW w \in Workers, NEW s \in Live(w)' PROVE s \in Slots /\ (Old(w, s) \/ New(w, s))
    OBVIOUS
  <2>2. s \in Slots /\ task'[w][s] \in {"running", "waiting"}
    BY <2>1 DEF Live
  <2>3. /\ WorkerStep(w, act[w], reply[w], w \in accepted) /\ StateInv(w)
        /\ iteration'[w] = IF w \in selected_worker THEN [iteration[w] EXCEPT ![selector[w]] = request]
                           ELSE iteration[w]
    BY WorkersStep DEF CallerInv
  <2> QED
    BY <2>2, <2>3, LiveAfter
<1>2. /\ begun' = begun \cup {request : w \in selected_worker}
      /\ ended' = ended \cup EndsNow(act)
  BY DEF Note, EndsNow
<1>3. /\ \A w \in Workers : act[w] \in Acts(w)
      /\ EndsNow(act) \subseteq begun \ ended
      /\ \A w \in Workers : act[w] = "end" => selector[w] \in Live(w)
  BY EndsFacts DEF Inputs, ActsOfAll
<1>4. ASSUME NEW w \in Workers, NEW s, Old(w, s)
      PROVE  iteration[w][s] \in begun \ ended /\ iteration[w][s] \notin EndsNow(act)
  <2>1. iteration[w][s] \in begun \ ended
    BY <1>4 DEF CallerInv, LiveInv
  <2>2. ASSUME NEW v \in Workers, act[v] = "end", iteration[w][s] = iteration[v][selector[v]] PROVE FALSE
    BY <1>3, <1>4, <2>2 DEF CallerInv, LiveInv
  <2> QED
    BY <2>1, <2>2 DEF EndsNow
<1>5. ASSUME selected_worker # {}
      PROVE  /\ request \notin begun /\ ended \subseteq begun
             /\ \A v, w \in selected_worker : v = w
  <2>1. running /\ request = number_req_tasks /\ \E w \in Workers : selected_worker = {w}
    BY <1>5, Giving, LateFacts DEF CallerInv
  <2>2. number_req_tasks \in Nat /\ begun = 0 .. (number_req_tasks - 1) /\ ended \subseteq begun
    BY <2>1, Ranges DEF CallerInv, CallInv
  <2> QED
    BY <2>1, <2>2
<1>6. ASSUME NEW w \in Workers, NEW s \in Live(w)' PROVE iteration'[w][s] \in begun' \ ended'
  <2>1. CASE Old(w, s)
    BY <1>2, <1>4, <2>1
  <2>2. CASE New(w, s)
    <3>1. request \in begun' /\ request \notin ended'
      BY <1>2, <1>3, <1>5, <2>2
    <3> QED
      BY <2>2, <3>1
  <2> QED
    BY <1>1, <1>6, <2>1, <2>2
<1>7. ASSUME NEW v \in Workers, NEW w \in Workers, NEW r \in Live(v)', NEW s \in Live(w)',
             iteration'[v][r] = iteration'[w][s]
      PROVE  v = w /\ r = s
  <2>1. CASE Old(v, r) /\ Old(w, s)
    BY <1>7, <2>1 DEF CallerInv, LiveInv
  <2>2. CASE New(v, r) /\ New(w, s)
    BY <1>5, <2>2
  <2>3. CASE Old(v, r) /\ New(w, s)
    BY <1>4, <1>5, <1>7, <2>3
  <2>4. CASE New(v, r) /\ Old(w, s)
    BY <1>4, <1>5, <1>7, <2>4
  <2> QED
    BY <1>1, <1>7, <2>1, <2>2, <2>3, <2>4
<1> QED
  BY <1>6, <1>7 DEF LiveInv

-------------------------------------------------------------------------------
(* The actions *)

LEMMA WorkersKept ==
  ASSUME Calls <= 1, IInv, [Next]_vars, NEW act, NEW reply, NEW accepted,
         Inputs(act, reply, accepted), Datapaths(act, reply, accepted)
  PROVE  \A w \in Workers : PlaceInv(w)' /\ StateInv(w)'
<1>1. SUFFICES ASSUME NEW w \in Workers PROVE PlaceInv(w)' /\ StateInv(w)'
  OBVIOUS
<1>2. CallerInv /\ PlaceInv(w) /\ StateInv(w) /\ TypesInv
  BY DEF IInv, CallerInv
<1>3. PICK a, r, acc : a = act[w] /\ r = reply[w] /\ (acc <=> w \in accepted)
  OBVIOUS
<1>4. /\ WorkerStep(w, act[w], reply[w], w \in accepted)
      /\ w \in worker_status' <=> (w \in worker_status \/ w \in selected_worker) /\ ~ done_request[w]
  BY <1>2, WorkersStep
<1>5. (Late => Late') /\ (Returned => Returned')
  BY <1>2, LateStays
<1>6. PlaceInv(w)'
  BY <1>2, <1>4, PlaceStep
<1>7. StateInv(w)'
  BY <1>2, <1>4, <1>5, StateStep
<1> QED
  BY <1>6, <1>7

(* The workers that raise done_port_accelerator in this cycle. *)
Raising == {w \in Workers : done_port_accelerator[w]}

LEMMA RaisingFinite ==
  IsFiniteSet(Raising) /\ Cardinality(Raising) \in Nat /\ (Cardinality(Raising) = 0 => Raising = {})
<1>1. IsFiniteSet(Workers)
  BY KernNumAssumption, FS_Interval DEF Workers
<1> QED
  BY <1>1, FS_Subset, FS_CardinalityType, FS_EmptySet DEF Raising

LEMMA CycleCounts ==
  ASSUME IInv, NEW act, NEW reply, NEW accepted,
         Inputs(act, reply, accepted), Cycle(act, reply, accepted)
  PROVE  /\ DoneCounter' = (IF Cleared THEN 0 ELSE DoneCounter + Cardinality(Raising))
         /\ number_req_tasks' = (IF Cleared THEN 0 ELSE number_req_tasks + call_state)
         /\ Cardinality(Raising') = Cardinality(EndsNow(act))
         /\ ~ running => EndsNow(act) = {}
         /\ ControlInv' /\ LoopIteration' = LoopIteration /\ (running' <=> InCall')
<1>0. CallerInv /\ TypesInv /\ ControlInv /\ CallInv /\ \A w \in Workers : act[w] \in Acts(w)
  BY DEF IInv, CallerInv, Inputs, ActsOfAll
<1>1. /\ Datapaths(act, reply, accepted) /\ PassIterations
      /\ running' = (running /\ ~ done_port)
  BY DEF Cycle
<1>2. PICK ask : Datapath(Raising, ask)
  BY <1>1 DEF Datapaths, Raising
<1>3. Clocked(Raising)
  BY <1>0, <1>2, EdgeCounts
<1>4. EndsNow(act) \subseteq begun \ ended
  BY <1>0, EndsFacts
<1>5. ~ running => EndsNow(act) = {}
  BY <1>0, <1>4 DEF CallInv
<1>6. Cardinality(Raising) \in Nat /\ DoneCounter \in Nat /\ number_req_tasks \in Nat
  BY <1>0, RaisingFinite, Ranges
<1>7. DoneCounter + Cardinality(Raising) = IF running THEN Cardinality(ended) ELSE 0
  BY <1>0 DEF CallInv, Raising
<1>8. DoneCounter + Cardinality(Raising) <= number_req_tasks
  <2>1. CASE running
    <3>1. Cardinality(ended) <= number_req_tasks
      BY <1>0, <2>1, BegunFinite
    <3> QED
      BY <1>7, <2>1, <3>1
  <2>2. CASE ~ running
    BY <1>6, <1>7, <2>2
  <2> QED
    BY <2>1, <2>2
<1>9. ControlInv' /\ LoopIteration' = LoopIteration /\ (InCall' <=> InCall /\ ~ done_port)
  BY <1>0, <1>1, <1>2, <1>6, <1>8, EdgeKeeps
<1>10. Cardinality(Raising') = Cardinality(EndsNow(act))
  <2>1. \A w \in Workers : done_port_accelerator'[w] <=> act[w] = "end"
    BY <1>0, <1>1, WorkersStep
  <2>2. Raising' = {w \in Workers : act[w] = "end"}
    BY <2>1 DEF Raising
  <2> QED
    BY <1>0, <2>2, EndsFacts
<1>11. running' <=> InCall'
  BY <1>0, <1>1, <1>9 DEF CallInv
<1> QED
  BY <1>3, <1>5, <1>9, <1>10, <1>11 DEF Clocked

(* Every iteration has ended, and been counted, when completed is up. *)
LEMMA AllEnded ==
  ASSUME ControlInv, CallInv, completed
  PROVE  /\ running /\ ended = begun /\ begun = 0 .. (LoopIteration - 1)
         /\ call_state = 0 /\ selected_worker = {} /\ Cardinality(Raising) = 0 /\ done_port
<1>1. /\ call_state = 0 /\ present_state = "S_6" /\ running
      /\ number_req_tasks = LoopIteration /\ DoneCounter = number_req_tasks
  BY Completed DEF CallInv
<1>2. /\ DoneCounter + Cardinality(Raising) = Cardinality(ended)
      /\ begun = 0 .. (LoopIteration - 1)
  BY <1>1 DEF CallInv, Raising
<1>3. /\ Cardinality(begun) = number_req_tasks
      /\ Cardinality(ended) <= Cardinality(begun)
      /\ Cardinality(ended) = Cardinality(begun) => ended = begun
  BY <1>1, BegunFinite
<1>4. Cardinality(Raising) \in Nat /\ DoneCounter \in Nat
  BY RaisingFinite, Ranges
<1>5. Cardinality(Raising) = 0 /\ Cardinality(ended) = Cardinality(begun)
  BY <1>1, <1>2, <1>3, <1>4
<1>6. selected_worker = {}
  BY <1>1, Selection
<1> QED
  BY <1>1, <1>2, <1>3, <1>5, <1>6 DEF done_port

(* What has begun and ended after a cycle. *)
LEMMA CycleHistory ==
  ASSUME IInv, NEW act, NEW reply, NEW accepted,
         Inputs(act, reply, accepted), Cycle(act, reply, accepted)
  PROVE  /\ ended' = ended \cup EndsNow(act) /\ EndsNow(act) \subseteq begun \ ended
         /\ begun' = begun \cup (IF call_state = 1 THEN {number_req_tasks} ELSE {})
         /\ call_state = 1 => running /\ number_req_tasks < LoopIteration
<1>1. Note(act) /\ ControlInv /\ CallerInv /\ CallInv /\ \A w \in Workers : act[w] \in Acts(w)
  BY DEF Cycle, IInv, CallerInv, Inputs, ActsOfAll
<1>2. begun' = begun \cup {request : w \in selected_worker} /\ ended' = ended \cup EndsNow(act)
  BY <1>1 DEF Note, EndsNow
<1>3. {request : w \in selected_worker} = IF call_state = 1 THEN {number_req_tasks} ELSE {}
  <2>1. \/ call_state = 0 /\ {request : w \in selected_worker} = {}
        \/ call_state = 1 /\ {request : w \in selected_worker} = {number_req_tasks}
    BY <1>1, Giving
  <2> QED
    BY <2>1
<1>4. call_state = 1 => running /\ number_req_tasks < LoopIteration
  BY <1>1, Giving DEF CallInv
<1> QED
  BY <1>1, <1>2, <1>3, <1>4, EndsFacts

LEMMA CycleCall ==
  ASSUME IInv, NEW act, NEW reply, NEW accepted,
         Inputs(act, reply, accepted), Cycle(act, reply, accepted)
  PROVE  CallInv'
<1>0. ControlInv /\ CallInv /\ CallerInv /\ TypesInv /\ \A w \in Workers : act[w] \in Acts(w)
  BY DEF IInv, CallerInv, Inputs, ActsOfAll
<1>1. /\ running' = (running /\ ~ done_port) /\ calls' = calls
      /\ ended' = ended \cup EndsNow(act) /\ EndsNow(act) \subseteq begun \ ended
      /\ begun' = begun \cup (IF call_state = 1 THEN {number_req_tasks} ELSE {})
      /\ running' <=> InCall'
  BY CycleHistory, CycleCounts DEF Cycle
<1>2. ended \subseteq begun /\ begun \subseteq 0 .. (MaxLoop - 1)
  BY <1>0 DEF CallInv
<1>3. ended' \subseteq begun'
  BY <1>1, <1>2
<1>4. begun' \subseteq 0 .. (MaxLoop - 1)
  <2>1. call_state = 1 => number_req_tasks \in 0 .. (MaxLoop - 1)
    BY <1>0, CycleHistory, Ranges, MaxLoopAssumption
  <2> QED
    BY <1>1, <1>2, <2>1
<1>5. DoneCounter + Cardinality(Raising) = IF running THEN Cardinality(ended) ELSE 0
  BY <1>0 DEF CallInv, Raising
<1>6. /\ Cardinality(Raising) \in Nat /\ DoneCounter \in Nat /\ number_req_tasks \in Nat
      /\ Cardinality(ended) \in Nat /\ Cardinality(EndsNow(act)) \in Nat
      /\ Cardinality(ended') = Cardinality(ended) + Cardinality(EndsNow(act))
  BY <1>0, <1>1, RaisingFinite, Ranges, BegunFinite, EndsFacts
<1>7. CASE ~ running
  <2>1. ~ running' /\ EndsNow(act) = {} /\ call_state = 0 /\ begun = ended
    <3>1. ~ running' /\ EndsNow(act) = {} /\ begun = ended
      BY <1>0, <1>1, <1>7, CycleCounts DEF CallInv
    <3>2. call_state \in 0 .. 1 /\ call_state # 1
      BY <1>0, <1>7, CycleHistory, Selection
    <3> QED
      BY <3>1, <3>2
  <2>2. begun' = ended' /\ DoneCounter' = 0 /\ Cardinality(Raising') = 0
    BY <1>1, <1>5, <1>6, <1>7, <2>1, CycleCounts, FS_EmptySet
  <2> QED
    BY <1>1, <1>3, <1>4, <2>1, <2>2 DEF CallInv, Raising
<1>8. CASE running /\ completed
  <2>1. ended = begun /\ call_state = 0 /\ done_port /\ Cleared
    BY <1>0, <1>8, AllEnded DEF Cleared
  <2>2. ~ running' /\ EndsNow(act) = {}
    BY <1>1, <2>1
  <2>3. begun' = ended' /\ DoneCounter' = 0 /\ Cardinality(Raising') = 0
    BY <1>1, <2>1, <2>2, CycleCounts, FS_EmptySet
  <2> QED
    BY <1>1, <1>3, <1>4, <2>2, <2>3 DEF CallInv, Raising
<1>9. CASE running /\ ~ completed
  <2>1. running' /\ ~ Cleared
    BY <1>0, <1>1, <1>9 DEF done_port, Cleared, CallInv, ControlInv, MachineInv
  <2>2. number_req_tasks' = number_req_tasks + call_state
    BY <2>1, CycleCounts
  <2>3. begun = 0 .. (number_req_tasks - 1) /\ calls = 1
    BY <1>0, <1>9 DEF CallInv
  <2>4. begun' = 0 .. (number_req_tasks' - 1)
    <3>1. CASE call_state = 0
      BY <1>1, <1>6, <2>2, <2>3, <3>1
    <3>2. CASE call_state = 1
      <4>1. 0 .. number_req_tasks = 0 .. (number_req_tasks - 1) \cup {number_req_tasks}
        <5>1. number_req_tasks \in Nat
          BY <1>6
        <5> QED
          BY <5>1
      <4>2. number_req_tasks' - 1 = number_req_tasks
        BY <1>6, <2>2, <3>2
      <4> QED
        BY <1>1, <2>3, <3>2, <4>1, <4>2
    <3> QED
      BY <1>0, <3>1, <3>2, Selection
  <2>5. DoneCounter' + Cardinality(Raising') = Cardinality(ended')
    BY <1>5, <1>6, <1>9, <2>1, CycleCounts
  <2> QED
    BY <1>1, <1>3, <1>4, <2>1, <2>3, <2>4, <2>5 DEF CallInv, Raising
<1> QED
  BY <1>7, <1>8, <1>9

LEMMA CycleKeeps ==
  ASSUME Calls <= 1, IInv, [Next]_vars, NEW act, NEW reply, NEW accepted,
         Inputs(act, reply, accepted), Cycle(act, reply, accepted)
  PROVE  IInv'
<1>1. /\ Datapaths(act, reply, accepted) /\ Note(act) /\ calls' = calls
      /\ running' = (running /\ ~ done_port)
      /\ CallerInv /\ \A w \in Workers : PlaceInv(w) /\ StateInv(w)
  BY DEF Cycle, IInv
<1>2. calls' \in {0, 1} /\ running' \in BOOLEAN
  BY <1>1 DEF CallerInv, TypesInv
<1>3. TypesInv'
  BY <1>1, <1>2, TypesStep
<1>4. LiveInv'
  BY <1>1, LiveStep
<1>5. CallInv' /\ ControlInv'
  BY CycleCall, CycleCounts
<1>6. \A w \in Workers : PlaceInv(w)' /\ StateInv(w)'
  BY <1>1, WorkersKept
<1> QED
  BY <1>3, <1>4, <1>5, <1>6 DEF IInv, CallerInv

LEMMA QuietInputs == Inputs(Quiet, NoReply, {})
<1>1. \A w \in Workers : Quiet[w] = "none" /\ NoReply[w] = {}
  BY DEF Quiet, NoReply
<1>2. \A w \in Workers : "none" \in Acts(w)
  BY DEF Acts
<1>3. \A w \in Workers : {} \in Replies(w)
  BY DEF Replies
<1>4. Quiet \in [Workers -> {"none", "suspend", "end"}]
  BY DEF Quiet
<1>5. NoReply \in [Workers -> {{}} \cup {{s} : s \in Slots}]
  BY DEF NoReply
<1>6. Quiet \in ActsOfAll
  BY <1>1, <1>2, <1>4 DEF ActsOfAll
<1>7. NoReply \in RepliesToAll
  BY <1>1, <1>3, <1>5 DEF RepliesToAll
<1> QED
  BY <1>6, <1>7 DEF Inputs

(* A call finds no task under way and no end uncounted. *)
LEMMA CallKeeps ==
  ASSUME Calls <= 1, IInv, [Next]_vars, NEW n \in Loops, Call(n)
  PROVE  IInv'
<1>1. /\ Datapaths(Quiet, NoReply, {}) /\ Called(n)
      /\ calls < Calls /\ ~ running /\ calls' = calls + 1 /\ running' = TRUE
      /\ begun' = {} /\ ended' = {}
      /\ CallerInv /\ TypesInv /\ ControlInv /\ CallInv /\ LiveInv
      /\ \A w \in Workers : PlaceInv(w) /\ StateInv(w)
  BY DEF Call, IInv, CallerInv
<1>2. Inputs(Quiet, NoReply, {})
  BY QuietInputs
<1>3. calls' = 1
  <2>1. calls \in {0, 1} /\ Calls \in Nat
    BY <1>1, CallsAssumption DEF TypesInv
  <2> QED
    BY <1>1, <2>1
<1>4. TypesInv'
  BY <1>1, <1>2, <1>3, TypesStep
<1>5. Raising = {} /\ DoneCounter = 0 /\ begun = ended
  <2>1. Cardinality(Raising) \in Nat /\ DoneCounter \in Nat /\ DoneCounter + Cardinality(Raising) = 0
    BY <1>1, RaisingFinite, Ranges DEF CallInv, Raising
  <2> QED
    BY <1>1, <2>1, RaisingFinite DEF CallInv
<1>6. /\ ControlInv' /\ InCall' /\ DoneCounter' = 0 /\ number_req_tasks' = 0
      /\ selected_worker = {}
  <2>1. PICK ask : Datapath({}, ask)
    BY <1>1, <1>5 DEF Datapaths, Raising
  <2>2. n \in 0 .. MaxLoop
    BY LoopsAssumption
  <2> QED
    BY <1>1, <2>1, <2>2, CallKeepsControl
<1>7. \A w \in Workers : Live(w)' = {}
  <2>1. SUFFICES ASSUME NEW w \in Workers, NEW s \in Live(w)' PROVE FALSE
    OBVIOUS
  <2>2. s \in Slots /\ task'[w][s] \in {"running", "waiting"}
    BY <2>1 DEF Live
  <2>3. s \in Live(w)
    <3>1. /\ WorkerStep(w, Quiet[w], NoReply[w], w \in {}) /\ StateInv(w)
          /\ iteration'[w] = IF w \in selected_worker THEN [iteration[w] EXCEPT ![selector[w]] = request]
                             ELSE iteration[w]
      BY <1>1, <1>2, WorkersStep
    <3>2. w \notin selected_worker
      BY <1>6
    <3> QED
      BY <1>1, <2>2, <3>1, <3>2, LiveAfter
  <2> QED
    BY <1>1, <1>5, <2>3, NoneLive
<1>8. LiveInv'
  BY <1>7 DEF LiveInv
<1>9. CallInv'
  <2>1. Raising' = {}
    <3>1. \A w \in Workers : done_port_accelerator'[w] <=> Quiet[w] = "end"
      BY <1>1, <1>2, WorkersStep
    <3>2. \A w \in Workers : Quiet[w] # "end"
      BY DEF Quiet
    <3> QED
      BY <3>1, <3>2 DEF Raising
  <2>2. begun' = 0 .. (number_req_tasks' - 1)
    BY <1>1, <1>6
  <2>3. DoneCounter' + Cardinality(Raising') = 0 /\ Cardinality(ended') = 0
    BY <1>1, <1>6, <2>1, FS_EmptySet
  <2> QED
    BY <1>1, <1>3, <1>6, <2>2, <2>3 DEF CallInv, Raising
<1>10. \A w \in Workers : PlaceInv(w)' /\ StateInv(w)'
  BY <1>1, <1>2, WorkersKept
<1> QED
  BY <1>4, <1>6, <1>8, <1>9, <1>10 DEF IInv, CallerInv

LEMMA InitHolds ==
  ASSUME AllInit
  PROVE  IInv
<1>1. ControlInv /\ ~ InCall
  BY InitControl DEF AllInit
<1>2. 0 \in Slots /\ 0 \in Iteration
  BY NumTasksAssumption, MaxLoopAssumption DEF Slots, Iteration
<1>3. /\ << >> \in Seq(Slots) /\ Elements(<< >>) = {} /\ NoDup(<< >>)
  <2>1. << >> \in Seq(Slots)
    OBVIOUS
  <2>2. DOMAIN << >> = {}
    OBVIOUS
  <2> QED
    BY <2>1, <2>2 DEF Elements, NoDup
<1>4. PICK f : f = [i \in 1 .. (NUM_TASKS - 1) |-> i]
  OBVIOUS
<1>5. f \in Seq(Slots) /\ NoDup(f) /\ 0 \notin Elements(f)
  <2>1. NUM_TASKS - 1 \in Nat
    BY NumTasksAssumption
  <2>2. f \in [1 .. (NUM_TASKS - 1) -> Slots]
    BY <1>4, <2>1 DEF Slots
  <2>3. f \in Seq(Slots)
    BY <2>1, <2>2, SeqDef
  <2>4. DOMAIN f = 1 .. (NUM_TASKS - 1) /\ \A i \in 1 .. (NUM_TASKS - 1) : f[i] = i /\ i # 0
    BY <1>4, <2>1
  <2> QED
    BY <2>3, <2>4 DEF NoDup, Elements
<1>6. \A w \in Workers :
        /\ scheduler_state[w] = "S_0" /\ selector[w] = 0 /\ free[w] = f
        /\ ready[w] = << >> /\ wait[w] = << >> /\ M_DataRdy[w] = FALSE /\ done_request[w] = FALSE
        /\ pending[w] = {} /\ done_port_accelerator[w] = FALSE
        /\ \A s \in Slots : task[w][s] = "idle"
  BY <1>4 DEF AllInit, SchedulerInit
<1>7. TypesInv
  <2>1. scheduler_state \in [Workers -> {"S_0", "S_1", "S_2", "S_3", "S_4", "S_5"}]
    BY DEF AllInit, SchedulerInit
  <2>2. selector \in [Workers -> Slots] /\ iteration \in [Workers -> [Slots -> Iteration]]
    BY <1>2 DEF AllInit, SchedulerInit
  <2>3. free \in [Workers -> Seq(Slots)]
    BY <1>4, <1>5 DEF AllInit, SchedulerInit
  <2>4. ready \in [Workers -> Seq(Slots)] /\ wait \in [Workers -> Seq(Slots)]
    BY <1>3 DEF AllInit, SchedulerInit
  <2>5. /\ M_DataRdy \in [Workers -> BOOLEAN] /\ done_request \in [Workers -> BOOLEAN]
        /\ done_port_accelerator \in [Workers -> BOOLEAN]
    BY DEF AllInit, SchedulerInit
  <2>6. /\ task \in [Workers -> [Slots -> {"idle", "running", "waiting", "ending"}]]
        /\ pending \in [Workers -> SUBSET Slots] /\ calls \in {0, 1} /\ running \in BOOLEAN
    BY DEF AllInit
  <2> QED
    BY <2>1, <2>2, <2>3, <2>4, <2>5, <2>6 DEF TypesInv
<1>8. CallInv
  <2>1. {w \in Workers : done_port_accelerator[w]} = {}
    BY <1>6
  <2>2. DoneCounter = 0 /\ running = FALSE /\ begun = {} /\ ended = {}
    BY DEF AllInit, Init
  <2> QED
    BY <1>1, <2>1, <2>2, FS_EmptySet DEF CallInv
<1>9. LiveInv
  BY <1>6 DEF LiveInv, Live
<1>10. ASSUME NEW w \in Workers PROVE PlaceInv(w)
  <2>1. \A s \in Slots : Spot(w, s, "none")
    BY <1>3, <1>6 DEF Spot
  <2>2. "none" \in Place
    BY DEF Place
  <2>3. \A s \in Elements(free[w]) : task[w][s] \in {"idle", "ending"}
    BY <1>5, <1>6, ElementsTyped
  <2> QED
    BY <1>3, <1>5, <1>6, <2>1, <2>2, <2>3 DEF PlaceInv
<1>11. ASSUME NEW w \in Workers PROVE StateInv(w)
  <2>1. call_state = 0 /\ current(w) = "idle" /\ selector[w] \notin Elements(free[w])
    BY <1>2, <1>5, <1>6 DEF AllInit, Init, current
  <2> QED
    BY <1>6, <2>1 DEF StateInv
<1> QED
  BY <1>1, <1>7, <1>8, <1>9, <1>10, <1>11 DEF IInv, CallerInv

LEMMA StutterKeeps ==
  ASSUME IInv, UNCHANGED vars
  PROVE  IInv'
<1> USE DEF vars, controller, scheduler, tasks, history
<1>1. ControlInv' /\ (InCall' <=> InCall)
  BY StutterControl DEF IInv, CallerInv
<1>2. TypesInv'
  BY DEF IInv, CallerInv, TypesInv
<1>3. CallInv'
  <2>1. UNCHANGED <<DoneCounter, number_req_tasks>>
    BY DEF counters
  <2> QED
    BY <1>1, <2>1 DEF IInv, CallerInv, CallInv
<1>4. LiveInv'
  BY DEF IInv, CallerInv, LiveInv, Live
<1>5. ASSUME NEW w \in Workers PROVE PlaceInv(w)'
  <2>1. PlaceInv(w)
    BY DEF IInv
  <2> QED
    BY <2>1 DEF PlaceInv, Spot
<1>6. ASSUME NEW w \in Workers PROVE StateInv(w)'
  <2>1. StateInv(w)
    BY DEF IInv
  <2>2. UNCHANGED <<call_state, worker_status, StartCounter, number_req_tasks>>
    BY DEF dispatcher, counters
  <2> QED
    BY <2>1, <2>2 DEF StateInv, Late, Returned, Runs, current, task_pool_end
<1> QED
  BY <1>1, <1>2, <1>3, <1>4, <1>5, <1>6 DEF IInv, CallerInv

LEMMA StepKeeps ==
  ASSUME Calls <= 1, IInv, [Next]_vars
  PROVE  IInv'
<1>1. ASSUME NEW act \in ActsOfAll, NEW reply \in RepliesToAll, NEW accepted \in SUBSET Requests,
             Cycle(act, reply, accepted)
      PROVE  IInv'
  <2>1. Inputs(act, reply, accepted)
    BY DEF Inputs
  <2> QED
    BY <1>1, <2>1, CycleKeeps
<1>2. ASSUME NEW n \in Loops, Call(n) PROVE IInv'
  BY <1>2, CallKeeps
<1>3. CASE UNCHANGED vars
  BY <1>3, StutterKeeps
<1> QED
  BY <1>1, <1>2, <1>3 DEF Next, Clock

LEMMA Invariance ==
  ASSUME Calls <= 1
  PROVE  Spec => []IInv
<1>1. AllInit => IInv
  BY InitHolds
<1>2. IInv /\ [Next]_vars => IInv'
  BY StepKeeps
<1> QED
  BY <1>1, <1>2, PTL DEF Spec

-------------------------------------------------------------------------------
(* The theorems *)

(* The registers of the schedulers, of the tasks and of the memory keep to  *)
(* their widths, and no FIFO of slots is ever written when full.            *)
THEOREM RegistersKeepWidths ==
  ASSUME Calls <= 1
  PROVE  Spec => []TypeOK
<1>1. ASSUME IInv PROVE TypeOK
  <2>1. TypesInv /\ CallInv /\ \A w \in Workers : PlaceInv(w)
    BY <1>1 DEF IInv, CallerInv
  <2>2. IsFiniteSet(Slots) /\ Cardinality(Slots) = NUM_TASKS
    <3>1. Cardinality(0 .. (NUM_TASKS - 1)) = IF 0 > NUM_TASKS - 1 THEN 0 ELSE NUM_TASKS - 1 - 0 + 1
      BY NumTasksAssumption, FS_Interval
    <3>2. IsFiniteSet(Slots)
      BY NumTasksAssumption, FS_Interval DEF Slots
    <3> QED
      BY <3>1, <3>2, NumTasksAssumption DEF Slots
  <2>3. ASSUME NEW f \in Seq(Slots), NoDup(f)
        PROVE  Len(f) \in 0 .. NUM_TASKS /\ Elements(f) \subseteq Slots
    <3>1. Len(f) \in Nat /\ Len(f) <= NUM_TASKS
      BY <2>2, <2>3, LenOfFifo, LenProperties
    <3> QED
      BY <3>1, ElementsTyped, NumTasksAssumption
  <2>4. ASSUME NEW w \in Workers
        PROVE  /\ Elements(free[w]) \cup Elements(ready[w]) \cup Elements(wait[w]) \subseteq Slots
               /\ {Len(free[w]), Len(ready[w]), Len(wait[w])} \subseteq 0 .. NUM_TASKS
               /\ pending[w] \subseteq Slots
    <3>1. /\ free[w] \in Seq(Slots) /\ NoDup(free[w]) /\ ready[w] \in Seq(Slots) /\ NoDup(ready[w])
          /\ wait[w] \in Seq(Slots) /\ NoDup(wait[w]) /\ pending[w] \subseteq Slots
      BY <2>1 DEF TypesInv, PlaceInv
    <3> QED
      BY <2>3, <3>1
  <2>5. begun \cup ended \subseteq 0 .. (MaxLoop - 1)
    BY <2>1 DEF CallInv
  <2> QED
    BY <2>1, <2>4, <2>5 DEF TypesInv, TypeOK
<1>2. IInv => TypeOK
  BY <1>1
<1> QED
  BY <1>2, Invariance, PTL

(* The answer a suspended task waits for is in exactly one place, and a     *)
(* free slot has no task and is free once: the FIFOs, the memory and the    *)
(* selection neither lose nor double a slot.                                *)
THEOREM SlotsKeepPlaces ==
  ASSUME Calls <= 1
  PROVE  Spec => []SlotsInPlace
<1>1. ASSUME IInv PROVE FreeIsFree
  BY <1>1 DEF IInv, PlaceInv, FreeIsFree, NoDup, Elements
<1>2. ASSUME IInv PROVE OneAnswerEach
  <2>1. SUFFICES ASSUME NEW w \in Workers, NEW s \in Slots
                 PROVE  LET places == {i \in DOMAIN wait[w] : wait[w][i] = s} \X {"wait"}
                               \cup {i \in DOMAIN ready[w] : ready[w][i] = s} \X {"ready"}
                               \cup {p \in {<<0, "memory">>} : s \in pending[w]}
                               \cup {p \in {<<0, "selected">>} : selector[w] = s /\ M_DataRdy[w]}
                        IN  Cardinality(places) = IF task[w][s] = "waiting" THEN 1 ELSE 0
    BY DEF OneAnswerEach
  <2> DEFINE A == {i \in DOMAIN wait[w] : wait[w][i] = s}
             B == {i \in DOMAIN ready[w] : ready[w][i] = s}
             C == {p \in {<<0, "memory">>} : s \in pending[w]}
             D == {p \in {<<0, "selected">>} : selector[w] = s /\ M_DataRdy[w]}
             places == A \X {"wait"} \cup B \X {"ready"} \cup C \cup D
  <2>2. PICK l \in Place : Spot(w, s, l)
    BY <1>2 DEF IInv, PlaceInv
  <2>3. PlaceInv(w)
    BY <1>2 DEF IInv
  <2>4. IF l = "wait" THEN \E i : A = {i} ELSE A = {}
    <3>1. s \in Elements(wait[w]) <=> A # {}
      BY DEF Elements
    <3>2. \A i, j \in A : i = j
      BY <2>3 DEF PlaceInv, NoDup
    <3>3. l = "wait" <=> A # {}
      BY <2>2, <3>1 DEF Spot
    <3> HIDE DEF A
    <3>4. A # {} => \E i : A = {i}
      BY <3>2
    <3> QED
      BY <3>3, <3>4
  <2>5. IF l = "ready" THEN \E i : B = {i} ELSE B = {}
    <3>1. s \in Elements(ready[w]) <=> B # {}
      BY DEF Elements
    <3>2. \A i, j \in B : i = j
      BY <2>3 DEF PlaceInv, NoDup
    <3>3. l = "ready" <=> B # {}
      BY <2>2, <3>1 DEF Spot
    <3> HIDE DEF B
    <3>4. B # {} => \E i : B = {i}
      BY <3>2
    <3> QED
      BY <3>3, <3>4
  <2>6. C = IF l = "memory" THEN {<<0, "memory">>} ELSE {}
    BY <2>2 DEF Spot
  <2>7. D = IF l = "selected" THEN {<<0, "selected">>} ELSE {}
    BY <2>2 DEF Spot
  <2>8. (l # "none" <=> task[w][s] = "waiting") /\ l \in {"none", "wait", "memory", "ready", "selected"}
    BY <2>2 DEF Spot, Place
  <2> HIDE DEF A, B, C, D
  <2>9. IF l = "none" THEN places = {} ELSE \E x : places = {x}
    <3>1. CASE l = "none"
      BY <2>4, <2>5, <2>6, <2>7, <3>1
    <3>2. CASE l = "wait"
      <4>1. PICK i : A = {i}
        BY <2>4, <3>2
      <4>2. places = {<<i, "wait">>}
        BY <2>5, <2>6, <2>7, <3>2, <4>1
      <4> QED
        BY <3>2, <4>2
    <3>3. CASE l = "ready"
      <4>1. PICK i : B = {i}
        BY <2>5, <3>3
      <4>2. places = {<<i, "ready">>}
        BY <2>4, <2>6, <2>7, <3>3, <4>1
      <4> QED
        BY <3>3, <4>2
    <3>4. CASE l = "memory"
      BY <2>4, <2>5, <2>6, <2>7, <3>4
    <3>5. CASE l = "selected"
      BY <2>4, <2>5, <2>6, <2>7, <3>5
    <3> QED
      BY <2>8, <3>1, <3>2, <3>3, <3>4, <3>5
  <2> HIDE DEF places
  <2>10. Cardinality(places) = IF task[w][s] = "waiting" THEN 1 ELSE 0
    BY <2>8, <2>9, FS_EmptySet, FS_Singleton
  <2> QED
    BY <2>10 DEF places, A, B, C, D
<1>3. IInv => SlotsInPlace
  BY <1>1, <1>2 DEF SlotsInPlace
<1> QED
  BY <1>3, Invariance, PTL

(* The dispatcher gives an iteration only to a worker whose selected state  *)
(* machine is in the state that looks at start_port.                        *)
THEOREM NoStartIsMissed ==
  ASSUME Calls <= 1
  PROVE  Spec => []StartsAreHeard
<1>1. ASSUME IInv PROVE StartsAreHeard
  <2>1. SUFFICES ASSUME NEW w \in selected_worker
                 PROVE  scheduler_state[w] = "S_5" /\ current(w) = "idle"
    BY DEF StartsAreHeard
  <2>2. w \in Workers
    BY <2>1 DEF selected_worker
  <2> QED
    BY <1>1, <2>2, Heard DEF IInv
<1>2. IInv => StartsAreHeard
  BY <1>1
<1> QED
  BY <1>2, Invariance, PTL

-------------------------------------------------------------------------------
(* With two slots a task that takes over when no new one will come finds    *)
(* nobody to displace: were one running in S_4, a third slot would be free. *)

OnlySelected == \A w \in Workers : \A s \in Slots : task[w][s] = "running" => selector[w] = s

LEMMA NobodyDisplaced ==
  ASSUME NUM_TASKS <= 2, CallerInv, NEW w \in Workers, PlaceInv(w), StateInv(w),
         NEW a, NEW r, NEW acc, WorkerStep(w, a, r, acc),
         \A s \in Slots : task[w][s] = "running" => selector[w] = s,
         NEW s \in Slots, task'[w][s] = "running"
  PROVE  selector'[w] = s
<1>0. TypesInv /\ a \in Acts(w) /\ r \in Replies(w)
  BY DEF CallerInv, WorkerStep
<1>1. s = selector[w] /\ Moved(w, a) = "running"
  BY <1>0, TaskAfter
<1>2. a = "none" /\ ~ leaves(a) /\ (Runs(w) \/ w \in selected_worker)
  <2>1. a = "none"
    BY <1>0, <1>1, MovedFacts, ActFacts
  <2>2. current(w) \in {"idle", "running", "waiting", "ending"}
    BY <1>0 DEF TypesInv, current
  <2>3. Runs(w) \/ w \in selected_worker
    BY <1>0, <1>1, <2>1, <2>2, MovedFacts DEF Runs, start_port_task
  <2> QED
    BY <1>0, <2>1, <2>3, ActFacts
<1>3. ~ Fresh(w, a, r)
  BY <1>2 DEF Fresh
<1>4. CASE M_DataRdy'[w]
  <2>1. /\ scheduler_state[w] \in {"S_2", "S_4"} \/ (scheduler_state[w] = "S_5" /\ task_pool_end)
        /\ selector'[w] \in Elements(ready[w]) \cup r
    <3>1. mux_fifo_sel(w, a, r)
      BY <1>4 DEF WorkerStep
    <3>2. scheduler_state[w] \in {"S_2", "S_4"} \/ (scheduler_state[w] = "S_5" /\ task_pool_end)
      BY <1>2, <3>1 DEF mux_fifo_sel
    <3>3. selector'[w] \in Elements(ready[w]) \cup r
      BY <1>0, <1>4, ReadyKept DEF Takes
    <3> QED
      BY <3>2, <3>3
  <2>2. Runs(w)
    <3>1. w \in selected_worker => scheduler_state[w] = "S_5" /\ ~ task_pool_end
      BY Heard DEF Late
    <3> QED
      BY <1>2, <2>1, <3>1
  <2>3. scheduler_state[w] = "S_4"
    BY <2>1, <2>2, LeavingFacts DEF StateInv, Runs
  <2>4. free[w] # << >> /\ free[w] \in Seq(Slots) /\ NoDup(free[w])
    BY <1>0, <2>2, <2>3 DEF StateInv, TypesInv, PlaceInv
  <2>5. PICK f \in Elements(free[w]) : TRUE
    BY <2>4, TailFifo
  <2>6. f \in Slots /\ f # selector[w] /\ task[w][f] \in {"idle", "ending"}
    BY <1>0, <2>2, <2>5, Apart DEF PlaceInv
  <2>7. /\ selector'[w] \in Slots /\ task[w][selector'[w]] = "waiting"
        /\ selector'[w] # selector[w]
    BY <1>0, <2>1, <2>2, Apart, ReplyFacts
  <2>8. \A x \in Slots : x = 0 \/ x = 1
    BY NumTasksAssumption DEF Slots
  <2> QED
    BY <1>1, <2>6, <2>7, <2>8
<1>5. CASE ~ M_DataRdy'[w]
  BY <1>1, <1>3, <1>5, SelectedAfter
<1> QED
  BY <1>4, <1>5

LEMMA SelectedKept ==
  ASSUME NUM_TASKS <= 2, IInv, OnlySelected, [Next]_vars
  PROVE  OnlySelected'
<1>1. ASSUME NEW act, NEW reply, NEW accepted,
             Inputs(act, reply, accepted), Datapaths(act, reply, accepted)
      PROVE  OnlySelected'
  <2>1. SUFFICES ASSUME NEW w \in Workers, NEW s \in Slots, task'[w][s] = "running"
                 PROVE  selector'[w] = s
    BY DEF OnlySelected
  <2>2. /\ CallerInv /\ TypesInv /\ PlaceInv(w) /\ StateInv(w)
        /\ \A x \in Slots : task[w][x] = "running" => selector[w] = x
    BY DEF IInv, CallerInv, OnlySelected
  <2>3. WorkerStep(w, act[w], reply[w], w \in accepted)
    BY <1>1, <2>2, WorkersStep
  <2> QED
    BY <2>1, <2>2, <2>3, NobodyDisplaced
<1>2. ASSUME NEW act \in ActsOfAll, NEW reply \in RepliesToAll, NEW accepted \in SUBSET Requests,
             Cycle(act, reply, accepted)
      PROVE  OnlySelected'
  BY <1>1, <1>2 DEF Cycle, Inputs
<1>3. ASSUME NEW n \in Loops, Call(n) PROVE OnlySelected'
  BY <1>1, <1>3, QuietInputs DEF Call
<1>4. CASE UNCHANGED vars
  BY <1>4 DEF vars, scheduler, tasks, OnlySelected
<1> QED
  BY <1>2, <1>3, <1>4 DEF Next, Clock

(* With two slots a running task is never displaced.  With more it is: see  *)
(* the run that finds it.                                                   *)
THEOREM TwoSlotsForgetNone ==
  ASSUME Calls <= 1, NUM_TASKS <= 2
  PROVE  Spec => []NoTaskForgotten
<1>1. AllInit => OnlySelected
  BY DEF AllInit, OnlySelected
<1>2. IInv /\ OnlySelected /\ [Next]_vars => OnlySelected'
  BY SelectedKept
<1>3. OnlySelected => NoTaskForgotten
  BY DEF OnlySelected, NoTaskForgotten
<1> QED
  BY <1>1, <1>2, <1>3, Invariance, PTL DEF Spec

-------------------------------------------------------------------------------
(* The refinement *)

LEMMA CycleImplements ==
  ASSUME IInv, NEW act, NEW reply, NEW accepted,
         Inputs(act, reply, accepted), Cycle(act, reply, accepted)
  PROVE  [Loop!Next]_(Loop!vars)
<1>0. ControlInv /\ CallInv /\ running \in BOOLEAN
  BY DEF IInv, CallerInv, TypesInv
<1>1. running' = (running /\ ~ done_port) /\ LoopIteration' = LoopIteration
  BY CycleCounts DEF Cycle
<1>2. /\ ended' = ended \cup EndsNow(act) /\ EndsNow(act) \subseteq begun \ ended
      /\ begun' = begun \cup (IF call_state = 1 THEN {number_req_tasks} ELSE {})
      /\ ended \subseteq begun /\ ended' \subseteq begun'
  BY <1>0, CycleHistory DEF CallInv
<1>3. CASE ~ running
  <2>1. EndsNow(act) = {} /\ call_state # 1
    BY <1>3, CycleCounts, CycleHistory
  <2>2. UNCHANGED <<running, LoopIteration, begun, ended>>
    BY <1>0, <1>1, <1>2, <1>3, <2>1
  <2> QED
    BY <2>2 DEF Loop!vars
<1>4. CASE running /\ completed
  <2>1. begun = ended /\ call_state = 0 /\ done_port /\ ended = 0 .. (LoopIteration - 1)
    BY <1>0, <1>4, AllEnded
  <2>2. EndsNow(act) = {} /\ begun' = begun
    BY <1>2, <2>1
  <2>3. running' = FALSE
    BY <1>0, <1>1, <2>1
  <2>4. UNCHANGED <<LoopIteration, begun, ended>>
    BY <1>1, <1>2, <2>2
  <2> QED
    BY <1>4, <2>1, <2>3, <2>4 DEF Loop!Next, Loop!Return, Loop!Iterations
<1>5. CASE running /\ ~ completed
  <2>1. running'
    BY <1>1, <1>5 DEF done_port
  <2>2. begun' = begun \/ \E i \in 0 .. (LoopIteration - 1) : begun = 0 .. (i - 1) /\ begun' = 0 .. i
    <3>1. CASE call_state # 1
      BY <1>2, <3>1
    <3>2. CASE call_state = 1
      <4> DEFINE i == number_req_tasks
      <4>1. begun = 0 .. (i - 1) /\ i \in Nat /\ i < LoopIteration /\ LoopIteration \in Nat
        BY <1>0, <1>5, <3>2, CycleHistory, Ranges DEF CallInv
      <4>2. i \in 0 .. (LoopIteration - 1) /\ 0 .. i = 0 .. (i - 1) \cup {i}
        BY <4>1
      <4>3. begun' = 0 .. i
        BY <1>2, <3>2, <4>1, <4>2
      <4> QED
        BY <4>1, <4>2, <4>3
    <3> QED
      BY <3>1, <3>2
  <2>3. ended' \subseteq begun
    BY <1>2
  <2> QED
    BY <1>1, <1>2, <1>5, <2>1, <2>2, <2>3 DEF Loop!Next, Loop!Progress, Loop!Iterations
<1> QED
  BY <1>3, <1>4, <1>5

(* The architecture implements ParallelLoop: the iterations are begun in    *)
(* order, each once, whatever order the answers come in, and the call       *)
(* returns when, and not before, all have ended.                            *)
THEOREM SwitchingImplementsLoop ==
  ASSUME Calls <= 1
  PROVE  Spec => RefinesLoop
<1>1. AllInit => Loop!Init
  BY DEF AllInit, Init, Loop!Init
<1>2. ASSUME IInv, [Next]_vars PROVE [Loop!Next]_(Loop!vars)
  <2>1. ASSUME NEW act \in ActsOfAll, NEW reply \in RepliesToAll, NEW accepted \in SUBSET Requests,
               Cycle(act, reply, accepted)
        PROVE  [Loop!Next]_(Loop!vars)
    <3>1. Inputs(act, reply, accepted)
      BY DEF Inputs
    <3> QED
      BY <1>2, <2>1, <3>1, CycleImplements
  <2>2. CASE \E n \in Loops : Call(n)
    BY <2>2 DEF Call, Called, Loop!Next, Loop!Call
  <2>3. CASE UNCHANGED vars
    BY <2>3 DEF vars, controller, history, machine, Loop!vars
  <2> QED
    BY <1>2, <2>1, <2>2, <2>3 DEF Next, Clock
<1>3. IInv /\ [Next]_vars => [Loop!Next]_(Loop!vars)
  BY <1>2
<1> QED
  BY <1>1, <1>3, Invariance, PTL DEF Spec, RefinesLoop, Loop!Spec
===============================================================================
