---------------------------- MODULE ContextSwitch -----------------------------
(* A parallel function with context switch: the controller, the schedulers  *)
(* of the workers, the tasks they run and the external memory, all on one   *)
(* clock.                                                                   *)
EXTENDS TaskScheduler

CONSTANTS
  Loops,       \* the numbers of iterations a call may ask for
  Calls        \* bound: how many calls are made

ASSUME LoopsAssumption == Loops \subseteq 1 .. MaxLoop
ASSUME CallsAssumption == Calls \in Nat

VARIABLES
  task,        \* task[w][s]: where the state machine of slot s of worker w is
  iteration,   \* iteration[w][s]: the register with the parameter of the task
  done_port_accelerator,   \* done_port of the worker: done_scheduler, a cycle later
  pending,     \* pending[w]: slots whose request the memory has accepted
  calls, running,          \* calls made so far; whether one is under way
  begun, ended             \* history: iterations given to a worker, and ended

tasks == <<task, iteration, done_port_accelerator>>
history == <<begun, ended>>
vars == <<controller, scheduler, tasks, pending, calls, running, history>>

AllInit ==
  /\ Init
  /\ SchedulerInit
  /\ task = [w \in Workers |-> [s \in Slots |-> "idle"]]
  /\ iteration = [w \in Workers |-> [s \in Slots |-> 0]]
  /\ done_port_accelerator = [w \in Workers |-> FALSE]
  /\ pending = [w \in Workers |-> {}]
  /\ calls = 0 /\ running = FALSE
  /\ begun = {} /\ ended = {}

-------------------------------------------------------------------------------
(* The tasks.  Only the state machine of the selected slot moves: from idle *)
(* by start_port, from waiting, where an access to the memory leaves it, by *)
(* M_DataRdy, and from its last state (ending) back to idle.  An access can *)
(* start in any cycle of a running task but the one that ends another.      *)
current(w) == task[w][selector[w]]

Acts(w) ==
  CASE current(w) = "running" -> {"none", "suspend", "end"}
    [] current(w) = "waiting" /\ M_DataRdy[w] -> {"none", "end"}
    [] OTHER -> {"none"}

Moved(w, a) ==
  IF suspension(a) THEN "waiting"
  ELSE IF done_scheduler(a) THEN "ending"
  ELSE CASE current(w) = "idle" /\ start_port_task(w) -> "running"
         [] current(w) = "waiting" /\ M_DataRdy[w] -> "running"
         [] current(w) = "ending" -> "idle"
         [] OTHER -> current(w)

RunTasks(act) ==
  /\ task' = [w \in Workers |-> [task[w] EXCEPT ![selector[w]] = Moved(w, act[w])]]
  /\ iteration' = [w \in Workers |->
       IF start_port_task(w) THEN [iteration[w] EXCEPT ![selector[w]] = request]
       ELSE iteration[w]]
  /\ done_port_accelerator' = [w \in Workers |-> done_scheduler(act[w])]

(* The memory answers accepted requests in any order, at any time. *)
Replies(w) == {{}} \cup {{s} : s \in pending[w]}
Requests == {w \in Workers : wait[w] # << >>}

Memory(reply, accepted) ==
  pending' = [w \in Workers |->
    (pending[w] \ reply[w]) \cup (IF w \in accepted THEN {Head(wait[w])} ELSE {})]

Datapaths(act, reply, accepted) ==
  /\ Datapath({w \in Workers : done_port_accelerator[w]}, {w \in Workers : done_request[w]})
  /\ Schedule(act, reply, accepted)
  /\ RunTasks(act)
  /\ Memory(reply, accepted)

Note(act) ==
  /\ begun' = begun \cup {request : w \in selected_worker}
  /\ ended' = ended \cup {iteration[w][selector[w]] : w \in {v \in Workers : act[v] = "end"}}

-------------------------------------------------------------------------------
Quiet == [w \in Workers |-> "none"]
NoReply == [w \in Workers |-> {}]

Call(n) ==
  /\ calls < Calls /\ ~ running
  /\ Called(n)
  /\ Datapaths(Quiet, NoReply, {})
  /\ calls' = calls + 1 /\ running' = TRUE
  /\ begun' = {} /\ ended' = {}

Cycle(act, reply, accepted) ==
  /\ PassIterations
  /\ Datapaths(act, reply, accepted)
  /\ Note(act)
  /\ running' = (running /\ ~ done_port)
  /\ UNCHANGED calls

ActsOfAll == {act \in [Workers -> {"none", "suspend", "end"}] : \A w \in Workers : act[w] \in Acts(w)}
RepliesToAll == {reply \in [Workers -> {{}} \cup {{s} : s \in Slots}] :
                   \A w \in Workers : reply[w] \in Replies(w)}

Clock ==
  \E act \in ActsOfAll, reply \in RepliesToAll, accepted \in SUBSET Requests :
    Cycle(act, reply, accepted)

(* The clock ticks; the memory accepts every request and answers each one   *)
(* it has accepted; a task that gets to run again and again ends.           *)
Ends(w) ==
  \E act \in ActsOfAll, reply \in RepliesToAll, accepted \in SUBSET Requests :
    act[w] = "end" /\ Cycle(act, reply, accepted)
Accepts(w) ==
  \E act \in ActsOfAll, reply \in RepliesToAll, accepted \in SUBSET Requests :
    w \in accepted /\ Cycle(act, reply, accepted)
Answers(w, s) ==
  \E act \in ActsOfAll, reply \in RepliesToAll, accepted \in SUBSET Requests :
    s \in reply[w] /\ Cycle(act, reply, accepted)

Next == Clock \/ \E n \in Loops : Call(n)

Spec == AllInit /\ [][Next]_vars
FairSpec ==
  /\ Spec
  /\ WF_vars(Clock)
  /\ \A w \in Workers :
       /\ SF_vars(Ends(w)) /\ WF_vars(Accepts(w))
       /\ \A s \in Slots : WF_vars(Answers(w, s))

-------------------------------------------------------------------------------
Elements(fifo_) == {fifo_[i] : i \in DOMAIN fifo_}

(* Registers keep to their widths, and no FIFO of the scheduler is ever     *)
(* written when full.                                                       *)
TypeOK ==
  /\ scheduler_state \in [Workers -> {"S_0", "S_1", "S_2", "S_3", "S_4", "S_5"}]
  /\ selector \in [Workers -> Slots]
  /\ \A w \in Workers :
       /\ Elements(free[w]) \cup Elements(ready[w]) \cup Elements(wait[w]) \subseteq Slots
       /\ {Len(free[w]), Len(ready[w]), Len(wait[w])} \subseteq 0 .. NUM_TASKS
       /\ pending[w] \subseteq Slots
  /\ M_DataRdy \in [Workers -> BOOLEAN]
  /\ done_request \in [Workers -> BOOLEAN]
  /\ task \in [Workers -> [Slots -> {"idle", "running", "waiting", "ending"}]]
  /\ iteration \in [Workers -> [Slots -> Iteration]]
  /\ begun \cup ended \subseteq 0 .. (MaxLoop - 1)

(* A task that runs is the selected one: no answer of the memory and no end *)
(* of the pool of tasks takes the worker from a task that has neither       *)
(* suspended nor ended, which nothing would ever resume.                    *)
NoTaskForgotten ==
  \A w \in Workers : \A s \in Slots : task[w][s] = "running" => selector[w] = s

(* The answer a suspended task waits for is on its way in exactly one       *)
(* place: its request waits to be accepted, or the memory works on it, or   *)
(* its slot is in fifo_ready, or it is selected with M_DataRdy.  So no      *)
(* answer is lost and no task is resumed twice.                             *)
OneAnswerEach ==
  \A w \in Workers : \A s \in Slots :
    LET places == {i \in DOMAIN wait[w] : wait[w][i] = s} \X {"wait"}
             \cup {i \in DOMAIN ready[w] : ready[w][i] = s} \X {"ready"}
             \cup {p \in {<<0, "memory">>} : s \in pending[w]}
             \cup {p \in {<<0, "selected">>} : selector[w] = s /\ M_DataRdy[w]}
    IN  Cardinality(places) = IF task[w][s] = "waiting" THEN 1 ELSE 0

(* A slot in fifo_free has no task, and is there once. *)
FreeIsFree ==
  \A w \in Workers : \A i \in DOMAIN free[w] :
    /\ task[w][free[w][i]] \in {"idle", "ending"}
    /\ \A j \in DOMAIN free[w] : free[w][j] = free[w][i] => j = i

(* No slot is lost and none is in two places.                               *)
SlotsInPlace == OneAnswerEach /\ FreeIsFree

(* A worker that is given an iteration has a slot ready for it, selected    *)
(* and with its state machine in the state that looks at start_port: the    *)
(* iteration is neither ignored nor written over the parameter of another.  *)
StartsAreHeard ==
  \A w \in selected_worker : scheduler_state[w] = "S_5" /\ current(w) = "idle"

(* The whole keeps the promise of ParallelLoop. *)
Loop == INSTANCE ParallelLoop WITH iterations <- LoopIteration
RefinesLoop == Loop!Spec

(* A call of the parallel function returns. *)
CallReturns == running ~> ~ running
===============================================================================
