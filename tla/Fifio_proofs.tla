----------------------------- MODULE Fifio_proofs -----------------------------
(* A FIFO whose depth is the number of its addresses is a queue.            *)
EXTENDS Fifio, SequenceTheorems, TLAPS

(* The number of slots is a power of two, from 2 on: a pointer that wraps   *)
(* around at Addresses then passes through cells of the memory only.        *)
FullWidth == Addresses = NUM_TASKS /\ NUM_TASKS >= 2

(* The pointers are as far apart as there are words in the FIFO, and each   *)
(* of these is a slot.                                                      *)
PointersInv ==
  /\ rd_addr + status_cnt = wr_addr \/ rd_addr + status_cnt = wr_addr + Addresses
  /\ \A i \in 1 .. status_cnt : Cell(Nth(i)) \in Slots

IInv == TypeOK /\ PointersInv

-------------------------------------------------------------------------------
(* The arithmetic of the pointers: the i-th word waiting is in a cell of    *)
(* the memory, no two are in the same, and the next word to be written goes *)
(* behind the last.                                                         *)
LEMMA Places ==
  ASSUME FullWidth, IInv
  PROVE  /\ \A i \in 1 .. NUM_TASKS : Nth(i) \in Cells
         /\ \A i, j \in 1 .. NUM_TASKS : Nth(i) = Nth(j) => i = j
         /\ status_cnt < NUM_TASKS => Nth(status_cnt + 1) = wr_addr
         /\ status_cnt = NUM_TASKS => wr_addr = rd_addr
BY NumTasksAssumption DEF FullWidth, IInv, TypeOK, PointersInv, Nth, Cells

(* Reading a word moves every other one place up. *)
LEMMA PlacesMove ==
  ASSUME FullWidth, IInv, rd_addr' = Incremented(rd_addr)
  PROVE  \A i \in 1 .. (NUM_TASKS - 1) : Nth(i)' = Nth(i + 1)
BY NumTasksAssumption DEF FullWidth, IInv, TypeOK, Nth, Incremented

(* The words that wait, before and after a step. *)
LEMMA WaitingIsSeq ==
  ASSUME IInv
  PROVE  /\ Waiting \in Seq(Slots) /\ Len(Waiting) = status_cnt
         /\ \A i \in 1 .. status_cnt : Waiting[i] = Cell(Nth(i))
<1>1. status_cnt \in Nat
  BY NumTasksAssumption DEF IInv, TypeOK
<1>2. Waiting \in [1 .. status_cnt -> Slots]
  BY DEF IInv, PointersInv, Waiting
<1> QED
  BY <1>1, <1>2 DEF Waiting

LEMMA WaitingNext ==
  ASSUME IInv'
  PROVE  /\ Waiting' \in Seq(Slots) /\ Len(Waiting') = status_cnt'
         /\ \A i \in 1 .. status_cnt' : Waiting'[i] = Cell(Nth(i))'
<1>1. status_cnt' \in Nat
  BY NumTasksAssumption DEF IInv, TypeOK
<1>2. Waiting' \in [1 .. status_cnt' -> Slots]
  BY DEF IInv, PointersInv, Waiting
<1> QED
  BY <1>1, <1>2 DEF Waiting

-------------------------------------------------------------------------------
LEMMA InitIsQueue ==
  ASSUME FullWidth, Init
  PROVE  IInv
<1>1. CASE InitReady
  BY <1>1, NumTasksAssumption DEF FullWidth, InitReady, IInv, TypeOK, PointersInv, Slots, Cells
<1>2. CASE InitFree
  <2>1. TypeOK
    BY <1>2, NumTasksAssumption DEF FullWidth, InitFree, TypeOK, Slots, Cells
  <2>2. \A i \in 1 .. status_cnt : Cell(Nth(i)) \in Slots
    <3> SUFFICES ASSUME NEW i \in 1 .. (NUM_TASKS - 1) PROVE Cell(Nth(i)) \in Slots
      BY <1>2 DEF InitFree
    <3>1. Nth(i) = i /\ i \in Cells /\ i # 0
      BY <1>2, NumTasksAssumption DEF FullWidth, InitFree, Nth, Cells
    <3> QED
      BY <1>2, <3>1 DEF InitFree, Cell, Slots, Cells
  <2> QED
    BY <1>2, <2>1, <2>2, NumTasksAssumption DEF FullWidth, InitFree, IInv, PointersInv
<1> QED
  BY <1>1, <1>2 DEF Init

(* A read takes the first word and leaves the others.                       *)
LEMMA ReadKeeps ==
  ASSUME FullWidth, IInv, Read
  PROVE  IInv' /\ Queue!Get
<1>1. status_cnt \in 1 .. NUM_TASKS /\ status_cnt' = status_cnt - 1
  BY NumTasksAssumption DEF IInv, TypeOK, Read, empty
<1>2. TypeOK'
  BY <1>1, NumTasksAssumption DEF IInv, TypeOK, Read, Incremented, FullWidth
<1>3. \A i \in 1 .. status_cnt' : Cell(Nth(i))' = Cell(Nth(i + 1)) /\ i + 1 \in 1 .. status_cnt
  <2>1. \A i \in 1 .. status_cnt' : Nth(i)' = Nth(i + 1) /\ i + 1 \in 1 .. status_cnt
    BY <1>1, PlacesMove, NumTasksAssumption DEF Read
  <2> QED
    BY <2>1 DEF Read, Cell
<1>4. rd_addr' + status_cnt' = wr_addr' \/ rd_addr' + status_cnt' = wr_addr' + Addresses
  BY <1>1, NumTasksAssumption DEF IInv, TypeOK, PointersInv, Read, Incremented, FullWidth
<1>5. IInv'
  BY <1>2, <1>3, <1>4 DEF IInv, PointersInv
<1>6. Waiting # << >>
  BY <1>1, WaitingIsSeq
<1>7. Waiting' = Tail(Waiting)
  <2>1. /\ Tail(Waiting) \in Seq(Slots) /\ Len(Tail(Waiting)) = Len(Waiting) - 1
        /\ \A i \in 1 .. Len(Tail(Waiting)) : Tail(Waiting)[i] = Waiting[i + 1]
    BY <1>6, WaitingIsSeq, HeadTailProperties
  <2>2. \A i \in 1 .. status_cnt' : Waiting'[i] = Tail(Waiting)[i]
    BY <1>1, <1>3, <1>5, <2>1, WaitingIsSeq, WaitingNext
  <2> QED
    BY <1>1, <1>5, <2>1, <2>2, WaitingIsSeq, WaitingNext, SeqEqual
<1> QED
  BY <1>5, <1>6, <1>7 DEF Queue!Get

(* A write puts its word behind the others, in a cell none of them is in.   *)
LEMMA WriteKeeps ==
  ASSUME FullWidth, IInv, NEW w \in Slots, Write(w)
  PROVE  IInv' /\ Queue!Put(w)
<1>1. status_cnt \in 0 .. (NUM_TASKS - 1) /\ status_cnt' = status_cnt + 1
  BY NumTasksAssumption DEF IInv, TypeOK, Write, full
<1>2. wr_addr \in Cells /\ wr_addr = Nth(status_cnt + 1)
  BY <1>1, Places, NumTasksAssumption
<1>3. \A a \in Cells : ram'[a] = IF a = wr_addr THEN w ELSE ram[a]
  BY DEF Write, Written
<1>4. ram' \in [Cells -> Slots \cup {Undefined}]
  BY DEF Write, Written, IInv, TypeOK
<1>5. TypeOK'
  BY <1>1, <1>4, NumTasksAssumption DEF IInv, TypeOK, Write, Incremented, FullWidth
<1>6. \A i \in 1 .. status_cnt' : Nth(i)' = Nth(i)
  BY DEF Write, Nth
<1>7. Cell(Nth(status_cnt))' = w
  BY <1>1, <1>2, <1>3, <1>6, NumTasksAssumption DEF Cell
<1>8. ASSUME NEW i \in 1 .. status_cnt PROVE Cell(Nth(i))' = Cell(Nth(i))
  <2>1. i \in 1 .. NUM_TASKS /\ status_cnt + 1 \in 1 .. NUM_TASKS /\ i # status_cnt + 1 /\ i \in 1 .. status_cnt'
    BY <1>1, NumTasksAssumption
  <2>2. Nth(i) \in Cells /\ Nth(i) # wr_addr
    BY <1>2, <2>1, Places
  <2> QED
    BY <1>3, <1>6, <2>1, <2>2 DEF Cell
<1>9. rd_addr' + status_cnt' = wr_addr' \/ rd_addr' + status_cnt' = wr_addr' + Addresses
  BY <1>1, NumTasksAssumption DEF IInv, TypeOK, PointersInv, Write, Incremented, FullWidth
<1>10. IInv'
  <2>1. \A i \in 1 .. status_cnt' : i \in 1 .. status_cnt \/ i = status_cnt'
    BY <1>1
  <2>2. \A i \in 1 .. status_cnt' : Cell(Nth(i))' \in Slots
    BY <1>7, <1>8, <2>1 DEF IInv, PointersInv
  <2> QED
    BY <1>5, <1>9, <2>2 DEF IInv, PointersInv
<1>11. Waiting' = Append(Waiting, w)
  <2>1. /\ Append(Waiting, w) \in Seq(Slots) /\ Len(Append(Waiting, w)) = status_cnt + 1
        /\ \A i \in 1 .. status_cnt : Append(Waiting, w)[i] = Waiting[i]
        /\ Append(Waiting, w)[status_cnt + 1] = w
    BY WaitingIsSeq, AppendProperties
  <2>2. \A i \in 1 .. status_cnt' : Waiting'[i] = Append(Waiting, w)[i]
    <3>1. \A i \in 1 .. status_cnt : i \in 1 .. status_cnt' /\ Waiting'[i] = Waiting[i]
      BY <1>1, <1>8, <1>10, WaitingIsSeq, WaitingNext
    <3>2. status_cnt' \in 1 .. status_cnt' /\ Waiting'[status_cnt'] = w
      BY <1>1, <1>7, <1>10, WaitingNext
    <3> QED
      BY <1>1, <2>1, <3>1, <3>2
  <2> QED
    BY <1>1, <1>10, <2>1, <2>2, WaitingNext, SeqEqual
<1> QED
  BY <1>1, <1>10, <1>11, WaitingIsSeq, NumTasksAssumption DEF Queue!Put

(* Both at once: the word that is read leaves its cell to the one written,  *)
(* if the FIFO is full.                                                     *)
LEMMA ReadWriteKeeps ==
  ASSUME FullWidth, IInv, NEW w \in Slots, ReadWrite(w)
  PROVE  IInv' /\ Queue!Exchange(w)
<1>1. status_cnt \in 1 .. NUM_TASKS /\ status_cnt' = status_cnt
  BY NumTasksAssumption DEF IInv, TypeOK, ReadWrite, empty
<1>2. /\ wr_addr \in Cells
      /\ \A i \in 2 .. status_cnt : Nth(i) \in Cells /\ Nth(i) # wr_addr
      /\ Nth(status_cnt)' = wr_addr
  <2>1. wr_addr \in Cells /\ \A i \in 2 .. status_cnt : Nth(i) \in Cells
    BY <1>1, Places, NumTasksAssumption DEF IInv, TypeOK, FullWidth, Cells
  <2>2. \A i \in 2 .. status_cnt : Nth(i) # wr_addr
    BY <1>1, NumTasksAssumption DEF FullWidth, IInv, TypeOK, PointersInv, Nth
  <2>3. Nth(status_cnt)' = wr_addr
    BY <1>1, NumTasksAssumption DEF FullWidth, IInv, TypeOK, PointersInv, Nth, ReadWrite, Incremented
  <2> QED
    BY <2>1, <2>2, <2>3
<1>3. \A a \in Cells : ram'[a] = IF a = wr_addr THEN w ELSE ram[a]
  BY DEF ReadWrite, Written
<1>4. ram' \in [Cells -> Slots \cup {Undefined}]
  BY DEF ReadWrite, Written, IInv, TypeOK
<1>5. TypeOK'
  BY <1>1, <1>4, NumTasksAssumption DEF IInv, TypeOK, ReadWrite, Incremented, FullWidth
<1>6. Cell(Nth(status_cnt))' = w
  BY <1>1, <1>2, <1>3 DEF Cell
<1>7. ASSUME NEW i \in 1 .. (status_cnt - 1) PROVE Cell(Nth(i))' = Cell(Nth(i + 1))
  <2>1. Nth(i)' = Nth(i + 1) /\ i + 1 \in 2 .. status_cnt
    BY <1>1, PlacesMove, NumTasksAssumption DEF ReadWrite
  <2> QED
    BY <1>2, <1>3, <2>1 DEF Cell
<1>8. rd_addr' + status_cnt' = wr_addr' \/ rd_addr' + status_cnt' = wr_addr' + Addresses
  BY <1>1, NumTasksAssumption DEF IInv, TypeOK, PointersInv, ReadWrite, Incremented, FullWidth
<1>9. IInv'
  <2>1. \A i \in 1 .. (status_cnt - 1) : Cell(Nth(i))' \in Slots
    BY <1>1, <1>7 DEF IInv, PointersInv
  <2>2. \A i \in 1 .. status_cnt : i \in 1 .. (status_cnt - 1) \/ i = status_cnt
    BY <1>1
  <2>3. \A i \in 1 .. status_cnt' : Cell(Nth(i))' \in Slots
    BY <1>1, <1>6, <2>1, <2>2
  <2> QED
    BY <1>5, <1>8, <2>3 DEF IInv, PointersInv
<1>10. Waiting # << >>
  BY <1>1, WaitingIsSeq
<1>11. Waiting' = Append(Tail(Waiting), w)
  <2>1. /\ Tail(Waiting) \in Seq(Slots) /\ Len(Tail(Waiting)) = status_cnt - 1
        /\ \A i \in 1 .. (status_cnt - 1) : Tail(Waiting)[i] = Waiting[i + 1]
    BY <1>10, WaitingIsSeq, HeadTailProperties
  <2> DEFINE next == Append(Tail(Waiting), w)
  <2>2. /\ next \in Seq(Slots) /\ Len(next) = status_cnt - 1 + 1
        /\ \A i \in 1 .. (status_cnt - 1) : next[i] = Waiting[i + 1]
        /\ next[status_cnt - 1 + 1] = w
    BY <2>1, AppendProperties
  <2> HIDE DEF next
  <2>3. \A i \in 1 .. status_cnt' : Waiting'[i] = next[i]
    <3>1. \A i \in 1 .. (status_cnt - 1) : Waiting'[i] = next[i]
      BY <1>1, <1>7, <1>9, <2>2, WaitingIsSeq, WaitingNext
    <3>2. Waiting'[status_cnt] = next[status_cnt]
      BY <1>1, <1>6, <1>9, <2>2, WaitingNext
    <3> QED
      BY <1>1, <3>1, <3>2
  <2>4. Waiting' = next
    BY <1>1, <1>9, <2>2, <2>3, WaitingNext, SeqEqual
  <2> QED
    BY <2>4 DEF next
<1> QED
  BY <1>9, <1>10, <1>11 DEF Queue!Exchange

-------------------------------------------------------------------------------
LEMMA StepKeeps ==
  ASSUME FullWidth, IInv, [Next]_vars
  PROVE  IInv' /\ [Queue!Next]_Waiting
<1>1. CASE Read
  BY <1>1, ReadKeeps DEF Queue!Next
<1>2. CASE \E w \in Slots : Write(w)
  BY <1>2, WriteKeeps DEF Queue!Next
<1>3. CASE \E w \in Slots : ReadWrite(w)
  BY <1>3, ReadWriteKeeps DEF Queue!Next
<1>4. CASE UNCHANGED vars
  <2>1. IInv' = IInv /\ Waiting' = Waiting
    BY <1>4 DEF vars, IInv, TypeOK, PointersInv, Waiting, Cell, Nth
  <2> QED
    BY <2>1
<1> QED
  BY <1>1, <1>2, <1>3, <1>4 DEF Next

(* Pointers, counter and memory keep to their ranges, for any number of     *)
(* slots that is a power of two.                                            *)
THEOREM FifoTypeCorrect ==
  ASSUME FullWidth
  PROVE  Spec => []TypeOK
<1>1. Init => IInv
  BY InitIsQueue
<1>2. IInv /\ [Next]_vars => IInv'
  BY StepKeeps
<1>3. IInv => TypeOK
  BY DEF IInv
<1> QED
  BY <1>1, <1>2, <1>3, PTL DEF Spec

(* The FIFOs of the scheduler are queues, for any number of slots that is a *)
(* power of two.                                                            *)
THEOREM ImplementsQueue ==
  ASSUME FullWidth
  PROVE  Spec => RefinesQueue
<1>1. Init => IInv
  BY InitIsQueue
<1>2. IInv /\ [Next]_vars => IInv' /\ [Queue!Next]_Waiting
  BY StepKeeps
<1>3. IInv => Queue!Init
  BY WaitingIsSeq, NumTasksAssumption DEF Queue!Init, IInv, TypeOK
<1> QED
  BY <1>1, <1>2, <1>3, PTL DEF Spec, RefinesQueue, Queue!Spec
===============================================================================
