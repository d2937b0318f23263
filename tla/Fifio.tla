-------------------------------- MODULE Fifio ---------------------------------
(* The FIFOs of the context-switch scheduler: fifio (tasks ready to resume) *)
(* and fifio_free (slots without a task), with their pointers, their memory *)
(* and their status counter.  Both hold numbers of slots and are read and   *)
(* written by the scheduler alone.                                          *)
EXTENDS Naturals, Sequences

CONSTANTS
  NUM_TASKS,   \* slots of a worker, and the parameter DEPTH of both FIFOs
  Addresses,   \* 2**ADDR_WIDTH, with ADDR_WIDTH the log of NUM_TASKS, at least 1
  Undefined    \* what an initial or missing cell of the memory holds

ASSUME NumTasksAssumption == NUM_TASKS \in Nat \ {0}
ASSUME AddressesAssumption ==
  /\ Addresses \in Nat \ {0}
  /\ NUM_TASKS <= Addresses
  /\ Addresses = 2 \/ Addresses < 2 * NUM_TASKS
ASSUME WidthAssumption == \E w \in 1 .. NUM_TASKS : Addresses = 2 ^ w
ASSUME UndefinedAssumption == Undefined \notin Nat

Slots == 0 .. (NUM_TASKS - 1)
Cells == 0 .. (NUM_TASKS - 1)

VARIABLES ram, rd_addr, wr_addr, status_cnt

vars == <<ram, rd_addr, wr_addr, status_cnt>>

-------------------------------------------------------------------------------
full == status_cnt > NUM_TASKS - 1
empty == status_cnt = 0

Cell(a) == IF a \in Cells THEN ram[a] ELSE Undefined
data_out == Cell(rd_addr)

(* A pointer has ADDR_WIDTH bits. *)
IncrementedWide(a) == a + 1   \* mutant
Incremented(a) == IF a + 1 = Addresses THEN 0 ELSE a + 1

(* A write beyond the last cell is lost. *)
WrittenAtRead(w) == [c \in Cells |-> IF c = rd_addr THEN w ELSE ram[c]]   \* mutant
Written(w) == [c \in Cells |-> IF c = wr_addr THEN w ELSE ram[c]]

(* fifio starts empty; fifio_free with every slot but 0, which the reset of *)
(* the selector makes the running one.                                      *)
InitReady ==
  /\ ram = [c \in Cells |-> 0]
  /\ rd_addr = 0 /\ wr_addr = 0 /\ status_cnt = 0

InitFree ==
  /\ ram = [c \in Cells |-> IF c = 0 THEN Undefined ELSE c]
  /\ rd_addr = 1 /\ wr_addr = 0 /\ status_cnt = NUM_TASKS - 1

Init == InitReady \/ InitFree

(* The scheduler reads only a FIFO that is not empty, and has no more slots *)
(* to write than fit.                                                       *)
Read ==
  /\ ~ empty
  /\ rd_addr' = Incremented(rd_addr)
  /\ status_cnt' = status_cnt - 1
  /\ UNCHANGED <<ram, wr_addr>>

Write(w) ==
  /\ ~ full
  /\ ram' = Written(w)
  /\ wr_addr' = Incremented(wr_addr)
  /\ status_cnt' = status_cnt + 1
  /\ UNCHANGED rd_addr

ReadWrite(w) ==
  /\ ~ empty
  /\ ram' = Written(w)
  /\ rd_addr' = Incremented(rd_addr)
  /\ wr_addr' = Incremented(wr_addr)
  /\ UNCHANGED status_cnt

Next == Read \/ \E w \in Slots : Write(w) \/ ReadWrite(w)

Spec == Init /\ [][Next]_vars

-------------------------------------------------------------------------------
(* Pointers and counter keep to their registers. *)
TypeOK ==
  /\ ram \in [Cells -> Slots \cup {Undefined}]
  /\ rd_addr \in 0 .. (Addresses - 1)
  /\ wr_addr \in 0 .. (Addresses - 1)
  /\ status_cnt \in 0 .. NUM_TASKS

(* The cell the i-th waiting word is in. *)
Nth(i) == IF rd_addr + i - 1 < Addresses
          THEN rd_addr + i - 1
          ELSE rd_addr + i - 1 - Addresses

Waiting == [i \in 1 .. status_cnt |-> Cell(Nth(i))]

Queue == INSTANCE BoundedQueue WITH
  Word <- Slots, Capacity <- NUM_TASKS, queue <- Waiting

(* The memory, the two pointers and the counter together are a queue: slots *)
(* come out of the FIFO in the order in which they went in, none twice and  *)
(* none lost, also when a read and a write meet in one cycle.               *)
RefinesQueue == Queue!Spec

===============================================================================
