----------------------------- MODULE BoundedQueue -----------------------------
(* What a FIFO promises the circuits around it: words leave in the order in *)
(* which they came, each once, and at most Capacity of them wait.           *)
EXTENDS Naturals, Sequences

CONSTANTS Word, Capacity

VARIABLE queue

Init == queue \in Seq(Word) /\ Len(queue) <= Capacity

Put(w) ==
  /\ Len(queue) < Capacity
  /\ queue' = Append(queue, w)

Get ==
  /\ queue # << >>
  /\ queue' = Tail(queue)

Exchange(w) ==
  /\ queue # << >>
  /\ queue' = Append(Tail(queue), w)

Next == Get \/ \E w \in Word : Put(w) \/ Exchange(w)

Spec == Init /\ [][Next]_queue
===============================================================================
