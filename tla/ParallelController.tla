-------------------------- MODULE ParallelController --------------------------
(* The controller of a parallel function, __controller_parallel: a state    *)
(* machine that pushes the numbers of the iterations into a FIFO, the       *)
(* dispatcher that takes them out and gives them to workers, the counters   *)
(* that tell when all of them have been given and have ended.  This module  *)
(* has its registers and how one edge of the clock changes them; the        *)
(* workers and the caller are for the modules that extend it.               *)
EXTENDS Naturals, FiniteSets

CONSTANTS
  KERN_NUM,    \* how many accelerators there are
  MaxLoop      \* the largest number of iterations

ASSUME KernNumAssumption == KERN_NUM \in Nat \ {0}
ASSUME MaxLoopAssumption == MaxLoop \in Nat \ {0}

Workers == 1 .. KERN_NUM
Cells == 0 .. 1          \* of the FIFO, whose ADDR_WIDTH is 1
Iteration == 0 .. MaxLoop

VARIABLES
  present_state, reg_0, reg_1,                      \* state machine
  LoopIteration,                                    \* what the caller drives
  ram, q, data_out, wr_pointer, rd_pointer, status_cnt,    \* fifo
  call_state, available_data,                       \* CallDispatcher
  StartCounter, DoneCounter, number_req_tasks, reset_counter,
  worker_status                                     \* the busy workers

machine == <<present_state, reg_0, reg_1, LoopIteration>>
fifo == <<ram, q, data_out, wr_pointer, rd_pointer, status_cnt>>
dispatcher == <<call_state, available_data>>
counters == <<StartCounter, DoneCounter, number_req_tasks, reset_counter>>
controller == <<machine, fifo, dispatcher, counters, worker_status>>

-------------------------------------------------------------------------------
(* Signals: functions of the registers. *)
FullLate == status_cnt > 2   \* mutant
fifo_full == status_cnt > 1
fifo_empty == status_cnt = 0

available_workers == Workers \ worker_status # {}

push == present_state = "S_2"
ReadAtOnce == call_state = 0 /\ available_workers /\ ~ fifo_empty   \* mutant
read == call_state = 0 /\ available_workers /\ available_data

(* The worker the dispatcher starts, if any: the first idle one. *)
selected_worker ==
  IF call_state = 0 THEN {}
  ELSE {w \in Workers \ worker_status : \A v \in Workers \ worker_status : w <= v}
request == data_out

CompletedWhenGiven ==   \* mutant
  fifo_empty /\ StartCounter = number_req_tasks /\ StartCounter # 0
completed ==
  /\ fifo_empty
  /\ StartCounter = DoneCounter
  /\ StartCounter # 0 /\ DoneCounter # 0

task_pool_end ==
  /\ number_req_tasks = StartCounter
  /\ StartCounter # 0 /\ number_req_tasks # 0

done_port == present_state = "S_6" /\ completed

-------------------------------------------------------------------------------
Init ==
  /\ present_state = "S_0" /\ reg_0 = 0 /\ reg_1 = 0 /\ LoopIteration = 0
  /\ ram = [c \in Cells |-> 0] /\ q = 0 /\ data_out = 0
  /\ wr_pointer = 0 /\ rd_pointer = 0 /\ status_cnt = 0
  /\ call_state = 0 /\ available_data = FALSE
  /\ StartCounter = 0 /\ DoneCounter = 0 /\ number_req_tasks = 0
  /\ reset_counter = FALSE
  /\ worker_status = {}

(* The state machine.  S_0 waits for a call. *)
Called(n) ==
  /\ present_state = "S_0" /\ present_state' = "S_1"
  /\ LoopIteration' = n
  /\ UNCHANGED <<reg_0, reg_1>>

NotCalled ==
  /\ present_state = "S_0"
  /\ UNCHANGED machine

FirstIteration ==
  /\ present_state = "S_1" /\ present_state' = "S_4"
  /\ reg_0' = 0
  /\ UNCHANGED <<reg_1, LoopIteration>>

MoreIterations ==
  /\ present_state = "S_4" /\ ~ fifo_full /\ reg_0 # LoopIteration
  /\ present_state' = "S_2"
  /\ reg_1' = reg_0 + 1
  /\ UNCHANGED <<reg_0, LoopIteration>>

NoRoom ==
  /\ present_state = "S_4" /\ fifo_full
  /\ present_state' = "S_3"
  /\ UNCHANGED <<reg_0, reg_1, LoopIteration>>

NoMoreIterations ==
  /\ present_state = "S_4" /\ ~ fifo_full /\ reg_0 = LoopIteration
  /\ present_state' = "S_6"
  /\ reg_1' = reg_0 + 1
  /\ UNCHANGED <<reg_0, LoopIteration>>

(* The iteration in reg_0 enters the FIFO. *)
PushIteration ==
  /\ push
  /\ present_state' = IF fifo_full THEN "S_3" ELSE "S_4"
  /\ reg_0' = IF fifo_full THEN reg_0 ELSE reg_1
  /\ UNCHANGED <<reg_1, LoopIteration>>

WaitForRoom ==
  /\ present_state = "S_3"
  /\ present_state' = IF fifo_full THEN "S_3" ELSE "S_4"
  /\ reg_0' = IF fifo_full THEN reg_0 ELSE reg_1
  /\ UNCHANGED <<reg_1, LoopIteration>>

WaitForWorkers ==
  /\ present_state = "S_6"
  /\ present_state' = IF completed THEN "S_5" ELSE "S_6"
  /\ UNCHANGED <<reg_0, reg_1, LoopIteration>>

Finished ==
  /\ present_state = "S_5" /\ present_state' = "S_0"
  /\ UNCHANGED <<reg_0, reg_1, LoopIteration>>

PassIterations ==
  \/ NotCalled \/ FirstIteration \/ MoreIterations \/ NoRoom \/ NoMoreIterations
  \/ PushIteration \/ WaitForRoom \/ WaitForWorkers \/ Finished

(* The FIFO.  Its memory answers a cycle late: q is the word rd_pointer     *)
(* pointed at before the edge, as it was before a write at the same edge.   *)
Stored == [c \in Cells |-> IF push /\ c = wr_pointer THEN reg_0 ELSE ram[c]]

EntriesReadFirst ==   \* mutant
  IF read THEN status_cnt - 1 ELSE IF push THEN status_cnt + 1 ELSE status_cnt
Entries ==
  CASE read /\ ~ push /\ status_cnt # 0 -> status_cnt - 1
    [] push /\ ~ read /\ status_cnt # 2 -> status_cnt + 1
    [] OTHER -> status_cnt

Fifo ==
  /\ ram' = Stored
  /\ q' = ram[rd_pointer]
  /\ data_out' = IF read THEN q ELSE data_out
  /\ wr_pointer' = IF push THEN 1 - wr_pointer ELSE wr_pointer
  /\ rd_pointer' = IF read THEN 1 - rd_pointer ELSE rd_pointer
  /\ status_cnt' = Entries

DataSeen == ~ fifo_empty

CallDispatcher ==
  /\ call_state' = IF read THEN 1 ELSE 0
  /\ available_data' = DataSeen

Pushed == IF push THEN 1 ELSE 0
GivenAtRead == IF read THEN 1 ELSE 0   \* mutant
Given == Cardinality(selected_worker)

(* The counters are cleared by reset_counter, without waiting for the edge: *)
(* in the cycle after completed they are zero already.                      *)
ClearedNever == FALSE   \* mutant
Cleared == completed \/ ~ reset_counter

Counters(done) ==
  /\ reset_counter' = ~ completed
  /\ StartCounter' = IF Cleared THEN 0 ELSE StartCounter + Pushed
  /\ DoneCounter' = IF Cleared THEN 0 ELSE DoneCounter + Cardinality(done)
  /\ number_req_tasks' = IF Cleared THEN 0 ELSE number_req_tasks + Given

(* One edge of the clock, all but the state machine: done and done_request  *)
(* are the workers that raise done_port_accelerator and                     *)
(* done_request_accelerator.                                                *)
Datapath(done, done_request) ==
  /\ Fifo
  /\ CallDispatcher
  /\ Counters(done)
  /\ worker_status' = (worker_status \cup selected_worker) \ done_request

===============================================================================
