--------------------------------- MODULE Heap ---------------------------------
(* What a program expects of malloc and free: the blocks it holds lie in   *)
(* the pool, no two of them overlap, and a block stays as it is until it   *)
(* is freed.                                                               *)
EXTENDS Integers

CONSTANTS First, Last   \* the quantas that may be handed out

VARIABLE held           \* the blocks the program holds, in quantas

Extent(b) == b.start .. (b.start + b.length - 1)
Block == [start : First .. (Last + 1), length : 0 .. (Last + 1 - First)]

Init == held = {}

Allocate(b) ==
  /\ Extent(b) \subseteq First .. Last
  /\ \A c \in held : b # c /\ Extent(b) \cap Extent(c) = {}
  /\ held' = held \cup {b}

Release(b) == held' = held \ {b}

Next == (\E b \in Block : Allocate(b)) \/ (\E b \in held : Release(b))

Spec == Init /\ [][Next]_held
===============================================================================
