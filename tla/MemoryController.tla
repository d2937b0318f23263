--------------------------- MODULE MemoryController ---------------------------
(* The memory controllers of the context-switch architecture:               *)
(* memory_ctrl_parallel, which lets one accelerator at a time use a channel *)
(* of its function, and memory_ctrl, which spreads the requests of the      *)
(* channels over the banks, brings the answers back, and locks a bank from  *)
(* the load to the store of an atomic operation.  Each bank has a FIFO of   *)
(* requests and one of answers; the FIFOs of a lane form a ring over the    *)
(* channels, along which what is not for this bank, or not for this         *)
(* channel, moves on.  Data and addresses within a bank are left out.       *)
EXTENDS Naturals, Sequences, FiniteSets, Functions

CONSTANTS
  NUM_CHANNEL, NUM_BANK, NUM_ACC,   \* powers of two
  FifoDepth,   \* depth of the FIFOs: 2**(ADDR_TASKS+ADDR_ACC)
  Task,        \* tasks: pairs of an accelerator and a slot
  Access,      \* requests a task may make of its own: [task, kind, bank]
  NoRequest, NoBank

Banks == 0 .. (NUM_BANK - 1)
Channels == 0 .. (NUM_CHANNEL - 1)
Accelerators == 0 .. (NUM_ACC - 1)

ASSUME SizesAssumption ==
  /\ {NUM_CHANNEL, NUM_BANK, NUM_ACC} \subseteq Nat \ {0}
  /\ \E k \in 2 .. NUM_BANK : NUM_BANK = k * NUM_CHANNEL
  /\ \E k \in 1 .. NUM_ACC : NUM_ACC = k * NUM_CHANNEL
ASSUME TaskAssumption ==
  /\ Task \subseteq Accelerators \X Nat /\ IsFiniteSet(Task)
  /\ FifoDepth \in Nat /\ Cardinality(Task) <= FifoDepth
ASSUME AccessAssumption ==
  Access \subseteq [task : Task, kind : {"load", "store", "atomic load"}, bank : Banks]
ASSUME NoBankAssumption ==
  /\ NoBank \notin Banks
  /\ NoRequest \notin [task : Task, kind : {"load", "store", "atomic load", "atomic store"}, bank : Banks]

RATIO == NUM_BANK \div NUM_CHANNEL          \* lanes of a channel
ACC_RATIO == NUM_ACC \div NUM_CHANNEL       \* accelerators of a channel

Group(b) == b \div RATIO                    \* the channel bank b belongs to
Lane(b) == b % RATIO
Previous(b) == (NUM_BANK + b - RATIO) % NUM_BANK
Following(b) == (b + RATIO) % NUM_BANK
Channel(t) == t[1] \div ACC_RATIO           \* the channel task t gets its answers on

VARIABLES
  wait,              \* wait[a]: requests in fifo_wait of accelerator a
  to_memory,         \* to_memory[b]: FIFO of requests
  from_memory,       \* from_memory[b]: FIFO of answers, each the tag of a task
  status,            \* status[b]: state of the bank
  top_register,      \* top_register[b]: the request the bank works on
  atomic_register,   \* atomic_register[b]: the atomic store that ends the lock
  counter,           \* of all round-robin arbiters, which run freely
  request, owes      \* the tasks: what each waits for, and must store to

fifos == <<wait, to_memory, from_memory>>
registers == <<status, top_register, atomic_register, counter>>
vars == <<fifos, registers, request, owes>>

Init ==
  /\ wait = [a \in Accelerators |-> << >>]
  /\ to_memory = [b \in Banks |-> << >>]
  /\ from_memory = [b \in Banks |-> << >>]
  /\ status = [b \in Banks |-> "S_0"]
  /\ top_register = [b \in Banks |-> NoRequest]
  /\ atomic_register = [b \in Banks |-> NoRequest]
  /\ counter = 0
  /\ request = [t \in Task |-> NoRequest]
  /\ owes = [t \in Task |-> NoBank]

-------------------------------------------------------------------------------
empty(fifo) == fifo = << >>
full(fifo) == Len(fifo) >= FifoDepth

(* The word that fifo shows, if it is not empty. *)
data_out(fifo) == IF empty(fifo) THEN {} ELSE {Head(fifo)}

(* PT_RR_FU: of the requesters S among n, the first one from counter on. *)
Selected(S, n) ==
  {i \in S : \A j \in S : (n + i - (counter % n)) % n <= (n + j - (counter % n)) % n}

(* memory_ctrl_parallel: the accelerator that uses channel c. *)
Granted(c) ==
  LET R == {k \in 0 .. (ACC_RATIO - 1) : ~ empty(wait[c * ACC_RATIO + k])}
  IN  {c * ACC_RATIO + k : k \in Selected(R, ACC_RATIO)}

(* What enters from channel c in this cycle. *)
Driven(c) == {Head(wait[a]) : a \in Granted(c)}

(* The FIFOs of requests. *)
Foreign(b) == \E r \in data_out(to_memory[b]) : Group(r.bank) # Group(b)

from_channel_to_bank(b) ==
  {r \in Driven(Group(b)) :
     ~ full(to_memory[b]) /\ Lane(r.bank) = Lane(b) /\ r.kind # "atomic store"}

rotate_inter(b) == Foreign(Previous(b)) /\ ~ full(to_memory[b])

Locked == {"S_3", "S_4", "S_5"}

rotate_single(b) ==
  /\ status[b] \in Locked
  /\ \E r \in data_out(to_memory[b]) : r.kind # "load"
  /\ ~ rotate_inter(Following(b))
  /\ from_channel_to_bank(b) = {}

CopyAnyhow(b) ==   \* mutant: an atomic load passes the lock
  /\ ~ empty(to_memory[b]) /\ ~ Foreign(b)
  /\ status[b] = "S_0" \/ (status[b] = "S_3" /\ atomic_register[b] = NoRequest)
copy_from_fifo(b) ==
  /\ ~ empty(to_memory[b]) /\ ~ Foreign(b)
  /\ \/ status[b] = "S_0"
     \/ /\ status[b] = "S_3" /\ atomic_register[b] = NoRequest
        /\ Head(to_memory[b]).kind # "atomic load"

to_memory_rd_en(b) ==
  \/ rotate_inter(Following(b))
  \/ rotate_single(b) /\ ~ rotate_inter(b)
  \/ copy_from_fifo(b)

(* The word that enters: from the previous FIFO, from the channel, or its own. *)
to_memory_data_in(b) ==
  IF rotate_inter(b) THEN {Head(to_memory[Previous(b)])}
  ELSE IF rotate_single(b) THEN {Head(to_memory[b])}
  ELSE from_channel_to_bank(b)

Passed(fifo, rd_en, data_in) ==
  LET rest == IF rd_en THEN Tail(fifo) ELSE fifo
  IN  IF data_in = {} THEN rest ELSE Append(rest, CHOOSE d \in data_in : TRUE)

ToMemory ==
  to_memory' = [b \in Banks |-> Passed(to_memory[b], to_memory_rd_en(b), to_memory_data_in(b))]

(* A request leaves fifo_wait when a FIFO takes it; an atomic store always. *)
AcceptedNever(c) == {r \in Driven(c) : r.kind = "atomic store"}   \* mutant
AcceptedAnyhow(c) ==   \* mutant: also when a rotation takes the FIFO
  {r \in Driven(c) :
     r.kind = "atomic store" \/ \E b \in Banks : Group(b) = c /\ r \in from_channel_to_bank(b)}
request_accepted(c) ==
  {r \in Driven(c) :
     \/ r.kind = "atomic store"
     \/ \E b \in Banks : Group(b) = c /\ r \in from_channel_to_bank(b) /\ ~ rotate_inter(b)}

Wait(issue) ==
  wait' = [a \in Accelerators |->
    Passed(wait[a],
           a \in Granted(a \div ACC_RATIO) /\ request_accepted(a \div ACC_RATIO) # {},
           {r \in issue : r.task[1] = a})]

(* The registers of a bank: the atomic store in its register goes first. *)
next_request(b) ==
  IF atomic_register[b] # NoRequest THEN atomic_register[b] ELSE Head(to_memory[b])

top_register_we(b) ==
  copy_from_fifo(b) \/ (status[b] = "S_3" /\ atomic_register[b] # NoRequest)

IncomingWhenIdle(b) ==   \* mutant: not seen while a load passes the lock
  {r \in UNION {Driven(c) : c \in Channels} :
     r.kind = "atomic store" /\ r.bank = b /\ status[b] = "S_3"}
incoming_atomic_store(b) ==
  {r \in UNION {Driven(c) : c \in Channels} : r.kind = "atomic store" /\ r.bank = b}

reset_atomic_register(b) ==
  \/ atomic_register[b] # NoRequest /\ top_register_we(b)
  \/ top_register[b] # NoRequest /\ top_register[b].kind = "atomic store"

atomic_register_we(b) ==
  \/ incoming_atomic_store(b) # {}
  \/ top_register_we(b) /\ next_request(b).kind \in {"atomic load", "atomic store"}

NextAtomic(b) ==
  IF ~ atomic_register_we(b) THEN atomic_register[b]
  ELSE IF reset_atomic_register(b) \/ incoming_atomic_store(b) = {} THEN NoRequest
  ELSE CHOOSE r \in incoming_atomic_store(b) : TRUE

(* The FIFOs of answers. *)
source_rotation(b) ==
  /\ \E t \in data_out(from_memory[b]) : Channel(t) # Group(b)
  /\ ~ full(from_memory[Following(b)])

(* The result of bank b can enter its FIFO. *)
free_to_enter(b) == ~ source_rotation(Previous(b)) /\ ~ full(from_memory[b])

Unlocked(b, ready) ==   \* mutant: a load that passes the lock opens it
  CASE status[b] = "S_0" /\ copy_from_fifo(b) ->
         IF next_request(b).kind = "atomic load" THEN "S_4" ELSE "S_1"
    [] status[b] \in {"S_1", "S_4"} /\ b \in ready ->
         IF ~ free_to_enter(b) THEN "S_2"
         ELSE IF top_register[b].kind = "atomic load" THEN "S_3" ELSE "S_0"
    [] status[b] = "S_2" /\ free_to_enter(b) -> "S_0"
    [] status[b] = "S_3" /\ top_register_we(b) -> "S_1"
    [] OTHER -> status[b]
next_status(b, ready) ==
  CASE status[b] = "S_0" /\ copy_from_fifo(b) ->
         IF next_request(b).kind = "atomic load" THEN "S_4" ELSE "S_1"
    [] status[b] = "S_1" /\ b \in ready -> IF free_to_enter(b) THEN "S_0" ELSE "S_2"
    [] status[b] = "S_2" /\ free_to_enter(b) -> "S_0"
    [] status[b] = "S_3" /\ atomic_register[b] # NoRequest -> "S_1"
    [] status[b] = "S_3" /\ copy_from_fifo(b) -> "S_4"
    [] status[b] = "S_4" /\ b \in ready -> IF free_to_enter(b) THEN "S_3" ELSE "S_5"
    [] status[b] = "S_5" /\ free_to_enter(b) -> "S_3"
    [] OTHER -> status[b]

Registers(ready) ==
  /\ status' = [b \in Banks |-> next_status(b, ready)]
  /\ top_register' = [b \in Banks |->
       IF top_register_we(b) THEN next_request(b) ELSE top_register[b]]
  /\ atomic_register' = [b \in Banks |-> NextAtomic(b)]
  /\ counter' = (counter + 1) % (RATIO * ACC_RATIO)

(* The lane of channel c whose answer goes out. *)
Out(c) ==
  {c * RATIO + k : k \in Selected(
     {l \in 0 .. (RATIO - 1) : c \in {Channel(t) : t \in data_out(from_memory[c * RATIO + l])}}, RATIO)}

from_memory_data_in(b, ready) ==
  IF full(from_memory[b]) THEN {}
  ELSE IF source_rotation(Previous(b)) THEN {Head(from_memory[Previous(b)])}
  ELSE IF b \in ready \/ status[b] \in {"S_2", "S_5"} THEN {top_register[b].task}
  ELSE {}

FromMemory(ready) ==
  from_memory' = [b \in Banks |->
    Passed(from_memory[b], source_rotation(b) \/ b \in Out(Group(b)), from_memory_data_in(b, ready))]

(* The tasks that get M_DataRdy in this cycle. *)
Answered == {Head(from_memory[b]) : b \in UNION {Out(c) : c \in Channels}}

-------------------------------------------------------------------------------
(* The tasks.  One task of an accelerator, at most, makes a request in a    *)
(* cycle; a task waits for its answer, and an atomic operation is a load    *)
(* and then a store.                                                        *)
Issuable ==
  {r \in Access : request[r.task] = NoRequest /\ owes[r.task] = NoBank}
  \cup {[task |-> t, kind |-> "atomic store", bank |-> owes[t]] :
          t \in {u \in Task : request[u] = NoRequest /\ owes[u] # NoBank}}

Issues ==
  {{issue[a] : a \in Accelerators} \ {NoRequest} :
     issue \in {f \in [Accelerators -> Issuable \cup {NoRequest}] :
                 \A a \in Accelerators : f[a] = NoRequest \/ f[a].task[1] = a}}

Tasks(issue) ==
  /\ request' = [t \in Task |->
       IF t \in Answered THEN NoRequest
       ELSE IF \E r \in issue : r.task = t THEN CHOOSE r \in issue : r.task = t
       ELSE request[t]]
  /\ owes' = [t \in Task |->
       CASE t \in Answered /\ request[t].kind = "atomic load" -> request[t].bank
         [] t \in Answered /\ request[t].kind = "atomic store" -> NoBank
         [] OTHER -> owes[t]]

(* The memory answers the request of a bank at any time. *)
Busy == {b \in Banks : status[b] \in {"S_1", "S_4"}}

Cycle(issue, ready) ==
  /\ Wait(issue)
  /\ ToMemory
  /\ Registers(ready)
  /\ FromMemory(ready)
  /\ Tasks(issue)

Next == \E issue \in Issues, ready \in SUBSET Busy : Cycle(issue, ready)

(* The clock ticks, a bank answers what it works on, and a task that has    *)
(* done the load of an atomic operation comes to the store.                 *)
Spec == Init /\ [][Next]_vars
FairSpec ==
  /\ Spec
  /\ []<>(counter = 0) /\ []<>(counter # 0)
  /\ \A b \in Banks : []<>(b \notin Busy)
  /\ \A t \in Task : []<>(owes[t] = NoBank \/ request[t] # NoRequest)

-------------------------------------------------------------------------------
Request == Access \cup [task : Task, kind : {"atomic store"}, bank : Banks]

(* Registers and FIFOs hold requests and tags of tasks, and no FIFO more    *)
(* than there are tasks, which is what their depths allow for.              *)
TypeOK ==
  /\ \A fifo \in Range(wait) \cup Range(to_memory) :
       Len(fifo) <= Cardinality(Task) /\ Range(fifo) \subseteq Request
  /\ \A fifo \in Range(from_memory) :
       Len(fifo) <= Cardinality(Task) /\ Range(fifo) \subseteq Task
  /\ status \in [Banks -> {"S_0", "S_1", "S_2", "S_3", "S_4", "S_5"}]
  /\ top_register \in [Banks -> Request \cup {NoRequest}]
  /\ atomic_register \in [Banks -> Request \cup {NoRequest}]
  /\ counter \in 0 .. (RATIO * ACC_RATIO - 1)
  /\ request \in [Task -> Request \cup {NoRequest}]
  /\ owes \in [Task -> Banks \cup {NoBank}]

(* Where the request of t is: on its way to the bank, or, once performed,   *)
(* on its way back.                                                         *)
Coming(t) ==
  {<<"wait", t[1], i>> : i \in {j \in DOMAIN wait[t[1]] : wait[t[1]][j].task = t}}
  \cup (UNION {{<<"to memory", b, i>> : i \in {j \in DOMAIN to_memory[b] : to_memory[b][j].task = t}} : b \in Banks})
  \cup {<<"atomic", b, 0>> : b \in {c \in Banks : atomic_register[c] # NoRequest /\ atomic_register[c].task = t}}

Working(b) == status[b] \in {"S_1", "S_2", "S_4", "S_5"}

Leaving(t) ==
  {<<"top", b, 0>> : b \in {c \in Banks : Working(c) /\ top_register[c].task = t}}
  \cup UNION {{<<"from memory", b, i>> : i \in {j \in DOMAIN from_memory[b] : from_memory[b][j] = t}} : b \in Banks}

(* What a task waits for is in exactly one place of the controllers, from   *)
(* fifo_wait to the FIFO its answer leaves by, whatever rotates, is stalled *)
(* or meets in one cycle; and no place holds what nobody waits for.         *)
OnePlaceEach ==
  \A t \in Task :
    Cardinality(Coming(t)) + Cardinality(Leaving(t)) = IF request[t] = NoRequest THEN 0 ELSE 1

(* The controllers implement AtomicMemory: a request counts as performed    *)
(* from the moment it is in the register of its bank.                       *)
Memory == INSTANCE AtomicMemory WITH
  Bank <- Banks, performed <- {t \in Task : Leaving(t) # {}}
RefinesMemory == Memory!Spec

(* A bank is locked when, and only when, a task is between the load and the *)
(* store of an atomic operation on it: a lock is neither lost to the loads  *)
(* that pass it nor left behind by the store.                               *)
LockedIsHeld ==
  \A b \in Banks : status[b] \in Locked <=> \E t \in Task : Memory!Holds(t, b)

(* While a task holds a bank, "only corresponding atomic read an all the    *)
(* non-atomic reads can go ahead" (the comment on S_4): no plain store is   *)
(* performed between the load and the store of an atomic operation.         *)
StoresKeptOut ==
  \A b \in Banks, t \in Task :
    Memory!Holds(t, b) /\ Working(b) => top_register[b].kind # "store"

(* Every request is answered, though a bank may be locked, a FIFO may have  *)
(* to give way to those that pass, and arbiters choose.                     *)
RequestsAnswered == \A t \in Task : request[t] # NoRequest ~> request[t] = NoRequest
===============================================================================
