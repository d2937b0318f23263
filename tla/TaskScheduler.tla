---------------------------- MODULE TaskScheduler -----------------------------
(* The scheduler inside each worker of a parallel function: a worker holds  *)
(* NUM_TASKS iterations at once, each in a slot of its register files, and  *)
(* runs the one whose slot is selected.  A task that starts an access to    *)
(* the external memory suspends; its slot comes back with the answer of the *)
(* memory.  The scheduler also keeps the requests of the suspended tasks    *)
(* until the memory accepts them.  FIFOs are sequences: Fifio shows when    *)
(* their pointers and memories amount to that.                              *)
EXTENDS ParallelController, Sequences

CONSTANT NUM_TASKS     \* slots of a worker (option context_switch)

ASSUME NumTasksAssumption == NUM_TASKS \in Nat \ {0}

Slots == 0 .. (NUM_TASKS - 1)

VARIABLES
  scheduler_state,     \* _present_state of the scheduler of each worker
  selector,            \* selector_register_file: the slot that runs
  free, ready, wait,   \* fifo_free, fifo_ready, fifo_wait: sequences of slots
  M_DataRdy,           \* the slot selected in this cycle has its answer
  done_request         \* the worker asks for an iteration

scheduler == <<scheduler_state, selector, free, ready, wait, M_DataRdy, done_request>>

SchedulerInit ==
  /\ scheduler_state = [w \in Workers |-> "S_0"]
  /\ selector = [w \in Workers |-> 0]
  /\ free = [w \in Workers |-> [i \in 1 .. (NUM_TASKS - 1) |-> i]]
  /\ ready = [w \in Workers |-> << >>]
  /\ wait = [w \in Workers |-> << >>]
  /\ M_DataRdy = [w \in Workers |-> FALSE]
  /\ done_request = [w \in Workers |-> FALSE]

-------------------------------------------------------------------------------
(* Signals of worker w.  In this cycle the selected task does a ("suspend", *)
(* "end" or "none"), and r is the set of the slots, at most one, for which  *)
(* an answer of the memory arrives.                                         *)
done_scheduler(a) == a = "end"
suspension(a) == a = "suspend"
leaves(a) == done_scheduler(a) \/ suspension(a)

fifo_empty_ready(w) == ready[w] = << >>
fifo_empty_free(w) == free[w] = << >>
fifo_full_free(w) == Len(free[w]) > NUM_TASKS - 1

selectorByMemory(w, r) == fifo_empty_ready(w) /\ r # {}
resumable(w, r) == ~ fifo_empty_ready(w) \/ r # {}

(* A task that has its answer takes over when the running one leaves, when  *)
(* none runs (S_2, S_4) and when no new task will come (S_5, at the end).   *)
OnAnyAnswer(w, a, r) == resumable(w, r)   \* mutant
mux_fifo_sel(w, a, r) ==
  /\ resumable(w, r)
  /\ \/ leaves(a)
     \/ scheduler_state[w] \in {"S_2", "S_4"}
     \/ scheduler_state[w] = "S_5" /\ task_pool_end

mux_switching_logic(w, a, r) ==
  \/ mux_fifo_sel(w, a, r)
  \/ leaves(a) /\ ~ fifo_empty_free(w) /\ ~ task_pool_end

data_ready(w, r) == IF selectorByMemory(w, r) THEN CHOOSE s \in r : TRUE ELSE Head(ready[w])

next_selector(w, a, r) ==
  IF mux_fifo_sel(w, a, r) THEN data_ready(w, r)
  ELSE IF mux_switching_logic(w, a, r) THEN Head(free[w])
  ELSE selector[w]

fifo_rd_en_free(w, a, r) == mux_switching_logic(w, a, r) /\ ~ mux_fifo_sel(w, a, r)
FreeWhenDone(w, a, r) ==   \* mutant
  done_scheduler(a) \/ (scheduler_state[w] = "S_5" /\ task_pool_end)
FreeAgain(w, a, r) ==   \* mutant
  done_scheduler(a) \/ (scheduler_state[w] \in {"S_4", "S_5"} /\ task_pool_end)
fifo_wr_en_free(w, a, r) ==
  \/ done_scheduler(a) /\ (~ fifo_empty_free(w) \/ resumable(w, r) \/ task_pool_end)
  \/ scheduler_state[w] = "S_5" /\ task_pool_end
fifo_rd_en_ready(w, a, r) == mux_fifo_sel(w, a, r) /\ ~ selectorByMemory(w, r)
ReadyAlways(w, a, r) == r # {}   \* mutant
fifo_wr_en_ready(w, a, r) == r # {} /\ ~ (mux_fifo_sel(w, a, r) /\ selectorByMemory(w, r))

AskWhenDone(w, a, r) == fifo_rd_en_free(w, a, r) \/ done_scheduler(a)   \* mutant
done_request_next(w, a, r) ==
  \/ fifo_rd_en_free(w, a, r)
  \/ done_scheduler(a) /\ fifo_empty_free(w) /\ ~ resumable(w, r)

-------------------------------------------------------------------------------
(* The state machine.  S_5 waits for a new task, S_1 runs one; S_2 waits    *)
(* for an answer because every slot is taken.  S_3 and S_4 are S_1 and S_2  *)
(* when no new task will come.                                              *)
start_port_task(w) == w \in selected_worker

from_S_0 == IF task_pool_end THEN "S_0" ELSE "S_5"

from_S_5(w, r) ==
  IF task_pool_end THEN IF r # {} THEN "S_3" ELSE "S_4"
  ELSE IF start_port_task(w) THEN "S_1" ELSE "S_5"

from_S_3(w, a, r) == IF leaves(a) /\ ~ resumable(w, r) THEN "S_4" ELSE "S_3"

from_S_1(w, a, r) ==
  IF task_pool_end THEN from_S_3(w, a, r)
  ELSE IF ~ leaves(a) \/ resumable(w, r) THEN "S_1"
  ELSE IF suspension(a) /\ fifo_empty_free(w) THEN "S_2" ELSE "S_5"

from_S_2(r) == IF r # {} THEN "S_1" ELSE "S_2"

from_S_4(w, r) ==
  IF resumable(w, r) THEN "S_3" ELSE IF fifo_full_free(w) THEN "S_0" ELSE "S_4"

next_state(w, a, r) ==
  CASE scheduler_state[w] = "S_0" -> from_S_0
    [] scheduler_state[w] = "S_5" -> from_S_5(w, r)
    [] scheduler_state[w] = "S_1" -> from_S_1(w, a, r)
    [] scheduler_state[w] = "S_2" -> from_S_2(r)
    [] scheduler_state[w] = "S_3" -> from_S_3(w, a, r)
    [] scheduler_state[w] = "S_4" -> from_S_4(w, r)

-------------------------------------------------------------------------------
(* A FIFO after an edge that reads it, if rd, and writes the slots of       *)
(* entering, at most one.                                                   *)
After(fifo_, rd, entering) ==
  (IF rd THEN Tail(fifo_) ELSE fifo_)
    \o (IF entering = {} THEN << >> ELSE <<CHOOSE s \in entering : TRUE>>)

(* One edge of the clock in all workers.  accepted are those whose request, *)
(* the one at the head of fifo_wait, the memory takes in this cycle.        *)
Schedule(act, reply, accepted) ==
  /\ scheduler_state' = [w \in Workers |-> next_state(w, act[w], reply[w])]
  /\ selector' = [w \in Workers |-> next_selector(w, act[w], reply[w])]
  /\ free' = [w \in Workers |->
       After(free[w], fifo_rd_en_free(w, act[w], reply[w]),
             IF fifo_wr_en_free(w, act[w], reply[w]) THEN {selector[w]} ELSE {})]
  /\ ready' = [w \in Workers |->
       After(ready[w], fifo_rd_en_ready(w, act[w], reply[w]),
             IF fifo_wr_en_ready(w, act[w], reply[w]) THEN reply[w] ELSE {})]
  /\ wait' = [w \in Workers |->
       After(wait[w], w \in accepted, IF suspension(act[w]) THEN {selector[w]} ELSE {})]
  /\ M_DataRdy' = [w \in Workers |-> mux_fifo_sel(w, act[w], reply[w])]
  /\ done_request' = [w \in Workers |-> done_request_next(w, act[w], reply[w])]
===============================================================================
