----------------------------- MODULE ParallelCall -----------------------------
(* __controller_parallel with a caller and with workers of which nothing is *)
(* assumed but what their ports show: a worker that is given an iteration   *)
(* asks for another, or not, and ends what it was given, in any order.      *)
EXTENDS ParallelController

CONSTANTS
  Loops,       \* the numbers of iterations a call may ask for
  Calls        \* bound: how many calls are made

ASSUME LoopsAssumption == Loops \subseteq 0 .. MaxLoop
ASSUME CallsAssumption == Calls \in Nat

VARIABLES
  calls,       \* calls made so far
  running,     \* whether a call is under way
  given,       \* history: iterations of this call the dispatcher gave away
  held,        \* held[w]: iterations worker w was given and has not ended
  ended        \* history: iterations of this call that have ended

caller == <<calls, running>>
vars == <<controller, caller, given, held, ended>>

AllInit ==
  /\ Init
  /\ calls = 0 /\ running = FALSE
  /\ given = {} /\ held = [w \in Workers |-> {}] /\ ended = {}

-------------------------------------------------------------------------------
(* The workers end the iterations of d, at most one each, and those in ask  *)
(* request another; what the dispatcher selects they hold from now on.      *)
Ends == {d \in SUBSET UNION {held[w] : w \in Workers} :
           \A w \in Workers : Cardinality(d \cap held[w]) <= 1}

Hold(d) ==
  /\ held' = [w \in Workers |->
                (held[w] \ d) \cup (IF w \in selected_worker THEN {request} ELSE {})]
  /\ ended' = ended \cup d
  /\ given' = given \cup {request : w \in selected_worker}

Work(d, ask) ==
  /\ Datapath({w \in Workers : held[w] \cap d # {}}, ask)
  /\ Hold(d)

Call(n) ==
  /\ calls < Calls /\ ~ running
  /\ Called(n)
  /\ \E ask \in SUBSET worker_status : Datapath({}, ask)
  /\ calls' = calls + 1 /\ running' = TRUE
  /\ given' = {} /\ ended' = {}
  /\ UNCHANGED held

Cycle(d, ask) ==
  /\ PassIterations
  /\ Work(d, ask)
  /\ running' = (running /\ ~ done_port)
  /\ UNCHANGED calls

Clock == \E d \in Ends, ask \in SUBSET worker_status : Cycle(d, ask)

Next == Clock \/ \E n \in Loops : Call(n)

(* The clock ticks; a worker ends what it was given and asks for more.      *)
EndsOne(w) == \E d \in Ends, ask \in SUBSET worker_status : held[w] \cap d # {} /\ Cycle(d, ask)
Asks(w) == \E d \in Ends, ask \in SUBSET worker_status : w \in ask /\ Cycle(d, ask)

Spec == AllInit /\ [][Next]_vars
FairSpec ==
  /\ Spec
  /\ WF_vars(Clock)
  /\ \A w \in Workers : WF_vars(EndsOne(w)) /\ WF_vars(Asks(w))

-------------------------------------------------------------------------------
(* Registers keep to their widths; sets are of workers and iterations. *)
TypeOK ==
  /\ present_state \in {"S_0", "S_1", "S_2", "S_3", "S_4", "S_5", "S_6"}
  /\ {reg_0, reg_1, LoopIteration, q, data_out} \subseteq 0 .. (MaxLoop + 1)
  /\ ram \in [Cells -> Iteration]
  /\ {wr_pointer, rd_pointer, call_state} \subseteq 0 .. 1
  /\ status_cnt \in 0 .. 2
  /\ {available_data, reset_counter, running} \subseteq BOOLEAN
  /\ {StartCounter, DoneCounter, number_req_tasks} \subseteq 0 .. MaxLoop
  /\ worker_status \subseteq Workers
  /\ given \subseteq Iteration /\ ended \subseteq Iteration
  /\ held \in [Workers -> SUBSET Iteration]
  /\ calls \in 0 .. Calls

(* When task_pool_end is up, every iteration of the loop has been given to  *)
(* a worker: the counters of pushed and of given iterations, which grow in  *)
(* different cycles, are never equal by chance in between.  The schedulers  *)
(* stop waiting for work on this signal.  And completed, which clears the   *)
(* counters whatever the state machine is doing, comes up only when every   *)
(* iteration has ended, and only when the state machine waits for it.       *)
SignalsAreFinal ==
  /\ task_pool_end => given = 0 .. (LoopIteration - 1)
  /\ completed => ended = 0 .. (LoopIteration - 1) /\ present_state = "S_6"

(* The FIFO is never written when full nor read when empty, although its    *)
(* reader trusts a copy of its status that is a cycle old.                  *)
NeverOverrun == (push => status_cnt < 2) /\ (read => status_cnt > 0)

(* The controller keeps the promise of ParallelLoop: iterations are given   *)
(* in order, each once, though the memory of the FIFO answers a cycle late, *)
(* and done_port follows the end of all of them.                            *)
Loop == INSTANCE ParallelLoop WITH
  iterations <- LoopIteration, begun <- given
RefinesLoop == Loop!Spec

(* A call returns, if the workers end what they are given and ask for more. *)
CallReturns == running ~> ~ running
===============================================================================
