----------------------------- MODULE MemoryManager -----------------------------
(***************************************************************************)
(* The allocator that bambu links into the circuits it generates, whose    *)
(* heap is a static pool: src/etc/libbambu/memmgr.c.                       *)
(*                                                                         *)
(* Free blocks form a circular list in address order, which begins and     *)
(* ends at the empty block base; malloc searches it from the place where   *)
(* the last search ended (freep), splits a block that is too big and       *)
(* returns its tail, and when the list has been searched in vain takes     *)
(* more of the pool by freeing it; free looks for the place of a block and *)
(* merges it with its neighbours.                                          *)
(*                                                                         *)
(* Addresses are counted in quantas of sizeof(SAMM_header_t); the pointer  *)
(* the program gets is one quanta above the header.  next has the headers  *)
(* on the free list as its domain, size those of all blocks: reading a     *)
(* header that is no longer one is an error.                               *)
(***************************************************************************)
EXTENDS Integers, Functions

CONSTANTS
  HeaderSize,      \* sizeof(SAMM_header_t), in bytes
  PoolSize,        \* POOL_SIZE, in bytes
  MinPoolAlloc,    \* MIN_POOL_ALLOC_QUANTAS
  Word,            \* the number of values of size_t
  Pool, Base,      \* the addresses of SAMM_pool and base
  Sizes,           \* the sizes the program asks for, in bytes
  Counts,          \* the counts it passes to calloc
  Alignments       \* the alignments it passes to memalign

Null == 0
PoolQuantas == PoolSize \div HeaderSize

ASSUME LayoutAssumption ==
  /\ HeaderSize \in Nat \ {0} /\ PoolSize \in Nat /\ MinPoolAlloc \in Nat \ {0} /\ Word \in Nat \ {0}
  /\ Pool \in Nat \ {0} /\ Base \in Nat \ {0}
  /\ Base \notin Pool .. (Pool + PoolQuantas)   \* base neither in the pool nor right after it
ASSUME CallAssumption ==
  /\ Sizes \subseteq 0 .. (Word - 1) /\ Counts \subseteq 0 .. (Word - 1)
  /\ Alignments \subseteq Nat \ {0}

VARIABLES
  next, size,      \* the fields of the headers
  freep,           \* where the next search begins
  free_pos,        \* SAMM_pool_free_pos: how much of the pool is in use, in bytes
  pc,              \* in the program, in the loop of malloc or of free, or returning
  prevp, p,        \* the locals of these loops
  nquantas,        \* what malloc looks for
  block,           \* the block that is freed or returned
  refill,          \* free was called by __hide_get_mem_from_pool
  asked,           \* bytes and alignment of the call
  live             \* the pointers the program holds, with the bytes it asked for

locals == <<prevp, p, nquantas, block, refill, asked>>
vars == <<next, size, freep, free_pos, pc, locals, live>>

(* A function with one more, or another, value; and with fewer. *)
With(f, x, v) == [y \in DOMAIN f \cup {x} |-> IF y = x THEN v ELSE f[y]]
Without(f, X) == Restrict(f, DOMAIN f \ X)

NoRequest == [bytes |-> 0, align |-> 0]

(* Back in the program: what the locals held is gone. *)
Leave ==
  /\ pc' = "program"
  /\ prevp' = Null /\ p' = Null /\ nquantas' = 0 /\ block' = Null /\ refill' = FALSE
  /\ asked' = NoRequest

-------------------------------------------------------------------------------
(* malloc *)

QuantasWithoutHeader(nbytes) == ((nbytes + HeaderSize - 1) % Word) \div HeaderSize   \* mutant
Quantas(nbytes) == ((nbytes + HeaderSize - 1) % Word) \div HeaderSize + 1

(* The first call makes base the whole list. *)
Malloc(nbytes) ==
  /\ IF freep = Null
     THEN next' = With(next, Base, Base) /\ size' = With(size, Base, 0) /\ freep' = Base
     ELSE UNCHANGED <<next, size, freep>>
  /\ nquantas' = Quantas(nbytes)
  /\ prevp' = freep' /\ p' = next'[freep']
  /\ pc' = "malloc"
  /\ UNCHANGED <<free_pos, block, refill, live>>

CallMalloc(n) ==
  /\ pc = "program"
  /\ asked' = [bytes |-> n, align |-> 0]
  /\ Malloc(n)

(* The operands and the product are cut to the bits of POOL_SIZE; when the *)
(* product does not fit, NULL is returned at once.                         *)
Field == CHOOSE w \in {2 ^ k : k \in 0 .. 30} : PoolSize < w /\ w <= 2 * PoolSize
CallCalloc(nmemb, n) ==
  LET product == (nmemb % Field) * (n % Field)
  IN /\ pc = "program"
     /\ nmemb = 0 \/ (product \div Field) % Field = 0
     /\ asked' = [bytes |-> nmemb * n, align |-> 0]
     /\ Malloc(product % Word)

(* NULL is returned at once unless the alignment is a power of two. *)
PowerOfTwo(align) == \E k \in 0 .. align : align = 2 ^ k
CallMemalign(align, len) ==
  /\ pc = "program"
  /\ PowerOfTwo(align)
  /\ IF align <= HeaderSize
     THEN asked' = [bytes |-> len, align |-> 0] /\ Malloc(len)
     ELSE asked' = [bytes |-> len, align |-> align] /\ Malloc((len + align - 1) % Word)

FitsWithoutHeader(q) == size[q] + 1 >= nquantas   \* mutant: the header is not counted
Fits(q) == size[q] >= nquantas

(* A block of that very size leaves the list. *)
TakeBlock ==
  /\ pc = "malloc" /\ Fits(p) /\ size[p] = nquantas
  /\ next' = Without([next EXCEPT ![prevp] = next[p]], {p})
  /\ freep' = prevp /\ block' = p
  /\ pc' = "return"
  /\ UNCHANGED <<size, free_pos, prevp, p, nquantas, refill, asked, live>>

(* The tail of a bigger block becomes a block. *)
TailAt(q) == q + size[q] - nquantas
TakeTail ==
  /\ pc = "malloc" /\ Fits(p) /\ size[p] # nquantas
  /\ size' = With([size EXCEPT ![p] = @ - nquantas], TailAt(p), nquantas)
  /\ freep' = prevp /\ block' = TailAt(p)
  /\ pc' = "return"
  /\ UNCHANGED <<next, free_pos, prevp, p, nquantas, refill, asked, live>>

SearchedEarly == next[p] = freep   \* mutant: the last block is not looked at
Searched == p = freep

Advance ==
  /\ pc = "malloc" /\ ~Fits(p) /\ ~Searched
  /\ prevp' = p /\ p' = next[p]
  /\ UNCHANGED <<next, size, freep, free_pos, pc, nquantas, block, refill, asked, live>>

(* __hide_get_mem_from_pool *)
PoolRequest == IF nquantas < MinPoolAlloc THEN MinPoolAlloc ELSE nquantas
PoolRequestSize == (PoolRequest * HeaderSize) % Word
PoolHasRoomBefore == free_pos < PoolSize   \* mutant: what is asked for is not counted
PoolHasRoom == (free_pos + PoolRequestSize) % Word <= PoolSize

Extend ==
  /\ pc = "malloc" /\ ~Fits(p) /\ Searched
  /\ PoolHasRoom
  /\ block' = Pool + free_pos \div HeaderSize
  /\ size' = With(size, block', PoolRequest)
  /\ p' = freep /\ refill' = TRUE
  /\ pc' = "free"
  /\ UNCHANGED <<next, freep, free_pos, prevp, nquantas, asked, live>>

Fail ==
  /\ pc = "malloc" /\ ~Fits(p) /\ Searched
  /\ ~PoolHasRoom
  /\ Leave
  /\ UNCHANGED <<next, size, freep, free_pos, live>>

-------------------------------------------------------------------------------
(* free *)

CallFree(ptr) ==
  /\ pc = "program" /\ ptr \in DOMAIN live
  /\ live' = Without(live, {ptr})
  /\ block' = ptr - 1 /\ p' = freep
  /\ pc' = "free"
  /\ UNCHANGED <<next, size, freep, free_pos, prevp, nquantas, refill, asked>>

(* Between two neighbours, or at the one link that leads back to a lower   *)
(* address.                                                                *)
BetweenNeighbours(q) == q < block /\ block < next[q]                     \* mutant
BetweenAnyhow(q) == (q < block /\ block < next[q]) \/ q >= next[q]       \* mutant
Between(q) ==
  \/ q < block /\ block < next[q]
  \/ q >= next[q] /\ (q < block \/ block < next[q])

Seek ==
  /\ pc = "free" /\ ~Between(p)
  /\ p' = next[p]
  /\ UNCHANGED <<next, size, freep, free_pos, pc, prevp, nquantas, block, refill, asked, live>>

(* The block is put after p and merged with the next block and with p if   *)
(* they are adjacent.                                                      *)
MeetsUpper == block + size[block] = next[p]
MeetsLower == p + size[p] = block
Absorbed == (IF MeetsUpper THEN {next[p]} ELSE {}) \cup (IF MeetsLower THEN {block} ELSE {})

Linked ==
  LET after == IF MeetsUpper THEN next[next[p]] ELSE next[p]
  IN IF MeetsLower THEN [next EXCEPT ![p] = after]
     ELSE With([next EXCEPT ![p] = block], block, after)
JoinedSizeShort == size[block]   \* mutant: the upper block is lost
JoinedSize == size[block] + (IF MeetsUpper THEN size[next[p]] ELSE 0)
Joined == IF MeetsLower THEN [size EXCEPT ![p] = @ + JoinedSize] ELSE [size EXCEPT ![block] = JoinedSize]

Insert ==
  /\ next' = Without(Linked, Absorbed)
  /\ size' = Without(Joined, Absorbed)
  /\ freep' = p

(* Called by the program, or by memalign for the front of its block. *)
Free ==
  /\ pc = "free" /\ Between(p) /\ ~refill
  /\ Insert
  /\ Leave
  /\ UNCHANGED <<free_pos, live>>

(* Called for a piece of the pool: the search goes on after freep. *)
Refill ==
  /\ pc = "free" /\ Between(p) /\ refill
  /\ Insert
  /\ free_pos' = (free_pos + PoolRequestSize) % Word
  /\ prevp' = freep' /\ p' = next'[freep']
  /\ block' = Null /\ refill' = FALSE
  /\ pc' = "malloc"
  /\ UNCHANGED <<nquantas, asked, live>>

-------------------------------------------------------------------------------
(* The end of memalign: a block that is not aligned is cut in two, and the *)
(* front is freed.  The sizes of both are set in bytes, as the code does.  *)
AlignedUp(addr) ==
  LET step == asked.align \div HeaderSize IN step * ((addr + step - 1) \div step)

Return ==
  LET mem == block + 1
      new == IF asked.align = 0 THEN mem ELSE AlignedUp(mem)
  IN /\ pc = "return"
     /\ live' = With(live, new, asked.bytes)
     /\ IF new = mem THEN Leave /\ UNCHANGED size
        ELSE /\ size' = With([size EXCEPT ![block] = (new - mem) * HeaderSize], new - 1, asked.bytes)
             /\ p' = freep /\ pc' = "free"
             /\ UNCHANGED <<prevp, nquantas, block, refill, asked>>
     /\ UNCHANGED <<next, freep, free_pos>>

Init ==
  /\ next = <<>> /\ size = <<>>
  /\ freep = Null /\ free_pos = 0
  /\ pc = "program"
  /\ prevp = Null /\ p = Null /\ nquantas = 0 /\ block = Null /\ refill = FALSE
  /\ asked = NoRequest
  /\ live = <<>>

Program ==
  \/ \E n \in Sizes : CallMalloc(n)
  \/ \E nmemb \in Counts, n \in Sizes : CallCalloc(nmemb, n)
  \/ \E align \in Alignments, len \in Sizes : CallMemalign(align, len)
  \/ \E ptr \in DOMAIN live : CallFree(ptr)

Allocator == TakeBlock \/ TakeTail \/ Advance \/ Extend \/ Fail \/ Seek \/ Free \/ Refill \/ Return

Next == Program \/ Allocator

Spec == Init /\ [][Next]_vars
FairSpec == Spec /\ WF_vars(Allocator)

-------------------------------------------------------------------------------
(* Properties. *)

Headers == {Base} \cup (Pool .. (Pool + PoolQuantas - 1))
Pointer == (Pool + 1) .. (Pool + PoolQuantas)

(* Type invariant: headers are in the pool, but for base, and no field     *)
(* overflows.                                                              *)
TypeOK ==
  /\ DOMAIN next \subseteq DOMAIN size /\ DOMAIN size \subseteq Headers
  /\ \A q \in DOMAIN next : next[q] \in DOMAIN next
  /\ \A q \in DOMAIN size : size[q] \in 0 .. PoolQuantas
  /\ freep = Null \/ freep \in DOMAIN next
  /\ free_pos \in 0 .. PoolSize
  /\ pc \in {"program", "malloc", "free", "return"}
  /\ IF pc = "malloc" THEN prevp \in DOMAIN next ELSE prevp \in {Null} \cup Headers
  /\ IF pc \in {"malloc", "free"} THEN p \in DOMAIN next ELSE p \in {Null} \cup Headers
  /\ nquantas \in 0 .. (Word \div HeaderSize + 1)
  /\ IF pc \in {"free", "return"} THEN block \in DOMAIN size ELSE block = Null
  /\ refill \in BOOLEAN
  /\ asked.bytes \in Nat /\ asked.align \in {0} \cup Alignments
  /\ DOMAIN live \subseteq Pointer

(* The free list is one circle in address order, whatever was inserted,    *)
(* merged and split, also while a search is under way: what lets free find *)
(* the place of a block, and a search come back to where it began.         *)
FreeListInOrder ==
  \A q \in DOMAIN next :
    LET higher == {r \in DOMAIN next : r > q}
        from == IF higher = {} THEN DOMAIN next ELSE higher
    IN next[q] \in from /\ \A r \in from : next[q] <= r

(* Nothing is lost and nothing is in two blocks: between calls, the used   *)
(* part of the pool is made of the blocks the program holds and those of   *)
(* the free list, end to end.                                              *)
Extent(q) == q .. (q + size[q] - 1)
Tiled ==
  pc = "program" =>
    LET held == {ptr - 1 : ptr \in DOMAIN live}
        free == DOMAIN next \ {Base}
    IN /\ held \cap free = {}
       /\ \A q, r \in held \cup free : q # r => Extent(q) \cap Extent(r) = {}
       /\ UNION {Extent(q) : q \in held \cup free} = Pool .. (Pool + free_pos \div HeaderSize - 1)

(* Freed space is found again as a whole: two blocks of the free list are  *)
(* never adjacent.                                                         *)
NoAdjacentFree == \A q \in DOMAIN next \ {Base} : q + size[q] \notin DOMAIN next

(* Both: the pool is tiled, with free blocks as large as they can be.      *)
HeapTiled == Tiled /\ NoAdjacentFree

(* A block houses what the program asked for.                              *)
EnoughForTheRequest ==
  \A ptr \in DOMAIN live : live[ptr] <= (size[ptr - 1] - 1) * HeaderSize

(* malloc returns NULL only if no block of the free list is big enough,    *)
(* although its search begins in the middle of the list.                   *)
FailsOnlyWhenFull ==
  [][Fail => \A q \in DOMAIN next : size[q] < nquantas]_vars

(* What the program holds is a Heap. *)
Held == {[start |-> ptr, length |-> size[ptr - 1] - 1] : ptr \in DOMAIN live}
AbstractHeap == INSTANCE Heap WITH held <- Held, First <- Pool + 1, Last <- Pool + PoolQuantas - 1
RefinesHeap == AbstractHeap!Spec

(* Every call returns. *)
CallsReturn == []<>(pc = "program")
===============================================================================
