------------------------- MODULE MemoryManager_proofs -------------------------
(* Proofs about MemoryManager: for pools of every size, the blocks a       *)
(* program holds never overlap, the free list stays in order, the pool is  *)
(* tiled, and malloc gives up only when no block is big enough, as long as *)
(* the requests are modest.                                                *)
EXTENDS MemoryManager, TLAPS

-------------------------------------------------------------------------------
(* What the program must not ask for: alignments that make memalign cut a  *)
(* block, and sizes for which the arithmetic on size_t wraps around or     *)
(* calloc loses bits.                                                      *)
WithoutWrapping(nbytes) == nbytes + 2 * HeaderSize + PoolSize <= Word
Modest ==
  /\ \A align \in Alignments : PowerOfTwo(align) => align <= HeaderSize
  /\ MinPoolAlloc * HeaderSize + PoolSize < Word
  /\ \A n \in Sizes : WithoutWrapping(n)
  /\ \A nmemb \in Counts, n \in Sizes :
       nmemb % Field = nmemb /\ n % Field = n /\ WithoutWrapping(nmemb * n)

-------------------------------------------------------------------------------
(* Lists in order. *)

Ordered(f) ==
  \A q \in DOMAIN f :
    \/ f[q] > q /\ \A r \in DOMAIN f : r > q => f[q] <= r
    \/ \A r \in DOMAIN f : r <= q /\ f[q] <= r
List(f) ==
  /\ f \in [DOMAIN f -> DOMAIN f]
  /\ DOMAIN f \subseteq Int
  /\ Ordered(f)

Unlink(f, q) == Without([f EXCEPT ![q] = f[f[q]]], {f[q]})
Splice(f, q, b) == With([f EXCEPT ![q] = b], b, f[q])

(* Ordered is another form of FreeListInOrder. *)
LEMMA OrderedIsInOrder ==
  ASSUME next \in [DOMAIN next -> DOMAIN next], DOMAIN next \subseteq Int
  PROVE  Ordered(next) <=> FreeListInOrder
<1>1. ASSUME Ordered(next), NEW q \in DOMAIN next
      PROVE  LET higher == {r \in DOMAIN next : r > q}
                 from == IF higher = {} THEN DOMAIN next ELSE higher
             IN next[q] \in from /\ \A r \in from : next[q] <= r
  <2>1. CASE next[q] > q /\ \A r \in DOMAIN next : r > q => next[q] <= r
    BY <2>1
  <2>2. CASE \A r \in DOMAIN next : r <= q /\ next[q] <= r
    BY <2>2
  <2> QED
    BY <1>1, <2>1, <2>2 DEF Ordered
<1>2. ASSUME FreeListInOrder, NEW q \in DOMAIN next
      PROVE  \/ next[q] > q /\ \A r \in DOMAIN next : r > q => next[q] <= r
             \/ \A r \in DOMAIN next : r <= q /\ next[q] <= r
  <2>1. CASE \E r \in DOMAIN next : r > q
    BY <1>2, <2>1 DEF FreeListInOrder
  <2>2. CASE \A r \in DOMAIN next : r <= q
    BY <1>2, <2>2 DEF FreeListInOrder
  <2> QED
    BY <2>1, <2>2
<1> QED
  BY <1>1, <1>2 DEF Ordered, FreeListInOrder

(* In a list of more than one header no header follows itself, and no two  *)
(* headers are followed by the same one.                                   *)
LEMMA ListIsCircle ==
  ASSUME NEW f, List(f)
  PROVE  /\ \A q \in DOMAIN f : f[q] = q => DOMAIN f = {q}
         /\ \A q, r \in DOMAIN f : f[q] = f[r] => q = r
  BY DEF List, Ordered

(* Taking out the header after q leaves a list. *)
LEMMA UnlinkList ==
  ASSUME NEW f, List(f), NEW q \in DOMAIN f, f[q] # q
  PROVE  List(Unlink(f, q)) /\ DOMAIN Unlink(f, q) = DOMAIN f \ {f[q]}
<1> DEFINE n == f[q]
           g == Unlink(f, q)
<1>1. n \in DOMAIN f /\ f[n] \in DOMAIN f
  BY DEF List
<1>2. /\ DOMAIN g = DOMAIN f \ {n}
      /\ g[q] = f[n]
      /\ \A s \in DOMAIN g : s # q => g[s] = f[s]
  BY <1>1 DEF Unlink, Without, Restrict
<1>3. f[n] # n
  BY <1>1, ListIsCircle
<1>4. \A s \in DOMAIN g : g[s] \in DOMAIN g
  BY <1>1, <1>2, <1>3, ListIsCircle DEF List
<1>5. g \in [DOMAIN g -> DOMAIN g]
  BY <1>4 DEF Unlink, Without, Restrict
<1>6. ASSUME NEW s \in DOMAIN g
      PROVE  \/ g[s] > s /\ \A r \in DOMAIN g : r > s => g[s] <= r
             \/ \A r \in DOMAIN g : r <= s /\ g[s] <= r
  <2> HIDE DEF g, n
  <2>1. CASE s # q
    BY <1>2, <2>1 DEF List, Ordered
  <2>2. CASE s = q
    BY <1>1, <1>2, <1>3, <2>2 DEF List, Ordered, n
  <2> QED
    BY <2>1, <2>2
<1> QED
  BY <1>2, <1>5, <1>6 DEF List, Ordered

(* Putting b after q, where it belongs, leaves a list. *)
LEMMA SpliceList ==
  ASSUME NEW f, List(f), NEW q \in DOMAIN f, NEW b \in Int, b \notin DOMAIN f,
         \/ q < b /\ b < f[q]
         \/ q >= f[q] /\ (q < b \/ b < f[q])
  PROVE  List(Splice(f, q, b)) /\ DOMAIN Splice(f, q, b) = DOMAIN f \cup {b}
<1> DEFINE g == Splice(f, q, b)
<1>1. /\ DOMAIN g = DOMAIN f \cup {b}
      /\ g[q] = b /\ g[b] = f[q]
      /\ \A s \in DOMAIN f : s # q => g[s] = f[s]
  BY DEF Splice, With
<1>2. g \in [DOMAIN g -> DOMAIN g]
  BY <1>1 DEF List, Splice, With
<1>3. ASSUME NEW s \in DOMAIN g
      PROVE  \/ g[s] > s /\ \A r \in DOMAIN g : r > s => g[s] <= r
             \/ \A r \in DOMAIN g : r <= s /\ g[s] <= r
  <2> HIDE DEF g
  <2>1. CASE s = b
    BY <1>1, <2>1 DEF List, Ordered
  <2>2. CASE s = q
    BY <1>1, <2>2 DEF List, Ordered
  <2>3. CASE s # b /\ s # q
    BY <1>1, <2>3, ListIsCircle DEF List, Ordered
  <2> QED
    BY <2>1, <2>2, <2>3
<1> QED
  BY <1>1, <1>2, <1>3 DEF List, Ordered

-------------------------------------------------------------------------------
(* The inductive invariant. *)

Blocks == DOMAIN size \ {Base}

(* The end of the part of the pool that is in use, as soon as a header has *)
(* been written there.                                                     *)
Edge == Pool + (free_pos \div HeaderSize) + (IF refill THEN PoolRequest ELSE 0)

HeadersInv ==
  /\ List(next)
  /\ size \in [DOMAIN size -> Nat]
  /\ live \in [DOMAIN live -> Nat]
  /\ DOMAIN next \subseteq DOMAIN size
  /\ \A ptr \in DOMAIN live : ptr \in Nat /\ ptr - 1 \in Blocks \ DOMAIN next

BaseInv ==
  \/ freep = Null /\ DOMAIN next = {} /\ DOMAIN size = {} /\ pc = "program"
  \/ freep # Null /\ freep \in DOMAIN next /\ Base \in DOMAIN next /\ size[Base] = 0

BlocksInv ==
  /\ \A q \in Blocks : q \in Nat /\ Pool <= q /\ size[q] >= 1 /\ q + size[q] <= Edge
  /\ \A q, r \in Blocks : q < r => q + size[q] <= r

PoolInv ==
  /\ free_pos \in 0 .. PoolSize
  /\ refill \in BOOLEAN
  /\ refill => pc = "free" /\ free_pos + PoolRequest * HeaderSize <= PoolSize

Looking == pc \in {"malloc", "return"} \/ refill
CallInv ==
  /\ pc \in {"program", "malloc", "free", "return"}
  /\ asked \in [bytes : Nat, align : {0}]
  /\ nquantas \in Nat /\ nquantas * HeaderSize + PoolSize < Word
  /\ Looking => nquantas # 0 /\ asked.bytes <= (nquantas - 1) * HeaderSize
  /\ pc = "malloc" => prevp \in DOMAIN next /\ p = next[prevp]
  /\ pc = "free" => p \in DOMAIN next
  /\ IF pc \in {"free", "return"}
     THEN block \in Blocks \ DOMAIN next /\ block + 1 \notin DOMAIN live
     ELSE block = Null
  /\ pc = "return" => size[block] = nquantas
  /\ prevp \in {Null} \cup Headers /\ p \in {Null} \cup Headers

IInv ==
  /\ HeadersInv /\ BaseInv /\ BlocksInv /\ PoolInv /\ CallInv
  /\ EnoughForTheRequest
(* A step leaves the blocks of the program as they are. *)
LiveKept == live' = live /\ \A ptr \in DOMAIN live : size'[ptr - 1] = size[ptr - 1]

-------------------------------------------------------------------------------
(* Arithmetic. *)

(* The quantas of a modest request hold the request and a header, and the  *)
(* pool could not be asked for so many that the sum wraps around.          *)
LEMMA QuantasFacts ==
  ASSUME NEW nbytes \in Nat, WithoutWrapping(nbytes)
  PROVE  /\ Quantas(nbytes) \in Nat \ {0}
         /\ Quantas(nbytes) * HeaderSize + PoolSize < Word
         /\ nbytes <= (Quantas(nbytes) - 1) * HeaderSize
<1> DEFINE k == (nbytes + HeaderSize - 1) \div HeaderSize
<1>1. (nbytes + HeaderSize - 1) % Word = nbytes + HeaderSize - 1
  BY LayoutAssumption DEF WithoutWrapping
<1>2. k \in Nat /\ nbytes <= k * HeaderSize /\ k * HeaderSize <= nbytes + HeaderSize - 1
  BY LayoutAssumption
<1>3. Quantas(nbytes) = k + 1
  BY <1>1 DEF Quantas
<1>4. (k + 1) * HeaderSize = k * HeaderSize + HeaderSize
  BY <1>2, LayoutAssumption
<1> HIDE DEF k
<1> QED
  BY <1>2, <1>3, <1>4, LayoutAssumption DEF WithoutWrapping

(* Taking k quantas from the pool moves its edge by k. *)
LEMMA DivAdd ==
  ASSUME NEW a \in Nat, NEW k \in Nat, NEW h \in Nat \ {0}
  PROVE  (a + k * h) \div h = (a \div h) + k
  OBVIOUS

LEMMA DivMonotonic ==
  ASSUME NEW a \in Nat, NEW b \in Nat, NEW h \in Nat \ {0}, a <= b
  PROVE  a \div h \in Nat /\ a \div h <= b \div h
  OBVIOUS

(* No block reaches beyond the pool; base is not right behind one. *)
LEMMA EdgeInPool ==
  ASSUME PoolInv, CallInv
  PROVE  /\ PoolQuantas \in Nat
         /\ Edge \in Nat /\ Pool <= Edge /\ Edge <= Pool + PoolQuantas
         /\ PoolRequest \in Nat \ {0}
<1>1. PoolRequest \in Nat \ {0}
  BY LayoutAssumption DEF PoolRequest, CallInv
<1>2. PoolQuantas \in Nat /\ free_pos \div HeaderSize \in Nat /\ free_pos \div HeaderSize <= PoolQuantas
  BY DivMonotonic, LayoutAssumption DEF PoolInv, PoolQuantas
<1>3. CASE ~refill
  BY <1>1, <1>2, <1>3, LayoutAssumption DEF Edge
<1>4. CASE refill
  <2>1. free_pos \in Nat /\ PoolRequest * HeaderSize \in Nat /\ free_pos + PoolRequest * HeaderSize <= PoolSize
    BY <1>1, <1>4, LayoutAssumption DEF PoolInv
  <2>2. (free_pos + PoolRequest * HeaderSize) \div HeaderSize = (free_pos \div HeaderSize) + PoolRequest
    BY <1>1, <2>1, DivAdd, LayoutAssumption
  <2>3. (free_pos + PoolRequest * HeaderSize) \div HeaderSize <= PoolQuantas
    BY <2>1, DivMonotonic, LayoutAssumption DEF PoolQuantas
  <2> QED
    BY <1>1, <1>2, <1>4, <2>2, <2>3, LayoutAssumption DEF Edge
<1> QED
  BY <1>3, <1>4 DEF PoolInv
-------------------------------------------------------------------------------
(* free. *)

(* Where a block is to be inserted. *)
Inserting ==
  /\ pc = "free" /\ p \in DOMAIN next
  /\ block \in Blocks \ DOMAIN next /\ block + 1 \notin DOMAIN live
  /\ Between(p)

(* The addresses of headers; base is adjacent to no block. *)
LEMMA Layout ==
  ASSUME HeadersInv, BaseInv, BlocksInv, PoolInv, CallInv, freep # Null
  PROVE  /\ DOMAIN size \subseteq Nat /\ Base \in DOMAIN size /\ Base \in DOMAIN next
         /\ \A q \in Blocks : Base # q + size[q] /\ size[q] \in Nat \ {0}
         /\ \A q \in DOMAIN next : next[q] \in DOMAIN next
         /\ DOMAIN next \subseteq DOMAIN size
         /\ size[Base] = 0
<1>1. Edge \in Nat /\ Edge <= Pool + PoolQuantas /\ Pool + PoolQuantas \in Nat
  BY EdgeInPool, LayoutAssumption
<1>2. Base \in DOMAIN next /\ size[Base] = 0
  BY DEF BaseInv
<1>3. ASSUME NEW q \in Blocks
      PROVE  q \in Nat /\ Base # q + size[q] /\ size[q] \in Nat \ {0}
  <2>1. q \in Nat /\ Pool <= q /\ size[q] \in Nat \ {0} /\ q + size[q] <= Edge
    BY DEF BlocksInv, HeadersInv, Blocks
  <2> QED
    BY <1>1, <2>1, LayoutAssumption
<1> QED
  BY <1>2, <1>3, LayoutAssumption DEF HeadersInv, Blocks, List

(* What insertion does to the list: nothing when the block is merged with  *)
(* the one before it, else it is spliced in; when it is merged with the    *)
(* next one, that one is unlinked.                                         *)
LEMMA InsertedList ==
  ASSUME HeadersInv, BaseInv, BlocksInv, PoolInv, CallInv, freep # Null, Inserting, Insert
  PROVE  /\ List(next')
         /\ p \in DOMAIN next' /\ Base \in DOMAIN next'
         /\ DOMAIN next' = (DOMAIN next \cup {block}) \ Absorbed
         /\ Absorbed \subseteq DOMAIN size \ {p, Base}
         /\ MeetsUpper => next[p] \in Blocks /\ next[p] # p /\ next[p] # block
         /\ MeetsLower => p \in Blocks
<1>1. /\ List(next) /\ p \in DOMAIN next /\ next[p] \in DOMAIN next
      /\ block \in Int /\ block \notin DOMAIN next /\ block \in DOMAIN size /\ block # Base
      /\ DOMAIN next \subseteq DOMAIN size /\ DOMAIN size \subseteq Nat
  BY Layout DEF HeadersInv, Inserting, Blocks
<1>2. MeetsUpper => next[p] \in Blocks /\ block < next[p]
  <2>1. block + size[block] # Base /\ size[block] \in Nat \ {0}
    BY Layout DEF Inserting
  <2> QED
    BY <1>1, <2>1 DEF MeetsUpper, Blocks
<1>3. MeetsLower => p \in Blocks /\ p < block
  <2>1. CASE p = Base
    BY <1>1, <2>1, Layout DEF MeetsLower
  <2>2. CASE p # Base
    <3>1. p \in Blocks /\ size[p] \in Nat \ {0}
      BY <1>1, <2>2, Layout DEF Blocks
    <3> QED
      BY <1>1, <3>1 DEF MeetsLower
  <2> QED
    BY <2>1, <2>2
<1>4. MeetsUpper => next[p] # p
  <2>1. SUFFICES ASSUME MeetsUpper, next[p] = p PROVE FALSE
    OBVIOUS
  <2>2. DOMAIN next = {p}
    BY <1>1, <2>1, ListIsCircle
  <2> QED
    BY <1>2, <2>1, <2>2, Layout DEF Blocks
<1>5. List(Splice(next, p, block)) /\ DOMAIN Splice(next, p, block) = DOMAIN next \cup {block}
  BY <1>1, SpliceList DEF Inserting, Between
<1>6. CASE ~MeetsUpper /\ ~MeetsLower
  <2>1. next' = Splice(next, p, block)
    BY <1>6 DEF Insert, Linked, Absorbed, Without, Restrict, Splice, With
  <2> QED
    BY <1>1, <1>5, <1>6, <2>1, Layout DEF Absorbed
<1>7. CASE MeetsUpper /\ ~MeetsLower
  <2> DEFINE f == Splice(next, p, block)
  <2>1. f[block] = next[p] /\ f[next[p]] = next[next[p]] /\ block \in DOMAIN f
    BY <1>1, <1>4, <1>7 DEF Splice, With
  <2>2. next' = Unlink(f, block)
    <3>1. Absorbed = {next[p]}
      BY <1>7 DEF Absorbed
    <3>2. next' = Without(With([next EXCEPT ![p] = block], block, next[next[p]]), {next[p]})
      BY <1>7, <3>1 DEF Insert, Linked
    <3>3. Unlink(f, block) = Without([f EXCEPT ![block] = next[next[p]]], {next[p]})
      BY <2>1 DEF Unlink
    <3>4. [f EXCEPT ![block] = next[next[p]]] = With([next EXCEPT ![p] = block], block, next[next[p]])
      BY <1>1 DEF Splice, With
    <3> QED
      BY <3>2, <3>3, <3>4
  <2>3. List(Unlink(f, block)) /\ DOMAIN Unlink(f, block) = DOMAIN f \ {next[p]}
    BY <1>1, <1>5, <2>1, UnlinkList
  <2> QED
    BY <1>1, <1>2, <1>4, <1>5, <1>7, <2>2, <2>3, Layout DEF Absorbed, Blocks
<1>8. CASE ~MeetsUpper /\ MeetsLower
  <2>1. next' = next
    <3>1. Absorbed = {block}
      BY <1>8 DEF Absorbed
    <3>2. next' = Without([next EXCEPT ![p] = next[p]], {block})
      BY <1>8, <3>1 DEF Insert, Linked
    <3> QED
      BY <1>1, <3>2 DEF Without, Restrict, List
  <2> QED
    BY <1>1, <1>3, <1>8, <2>1, Layout DEF Absorbed, Blocks
<1>9. CASE MeetsUpper /\ MeetsLower
  <2>1. next' = Unlink(next, p)
    <3>1. Absorbed = {next[p], block}
      BY <1>9 DEF Absorbed
    <3>2. next' = Without([next EXCEPT ![p] = next[next[p]]], {next[p], block})
      BY <1>9, <3>1 DEF Insert, Linked
    <3>3. DOMAIN [next EXCEPT ![p] = next[next[p]]] \ {next[p], block} = DOMAIN [next EXCEPT ![p] = next[next[p]]] \ {next[p]}
      BY <1>1
    <3> QED
      BY <3>2, <3>3 DEF Without, Unlink
  <2>2. List(Unlink(next, p)) /\ DOMAIN Unlink(next, p) = DOMAIN next \ {next[p]}
    BY <1>1, <1>4, <1>9, UnlinkList
  <2> QED
    BY <1>1, <1>2, <1>3, <1>4, <1>9, <2>1, <2>2, Layout DEF Absorbed, Blocks
<1> QED
  BY <1>6, <1>7, <1>8, <1>9

(* What insertion does to the sizes: the blocks that remain are disjoint   *)
(* and do not reach further than before, and no other block changes.       *)
LEMMA InsertedSizes ==
  ASSUME HeadersInv, BaseInv, BlocksInv, PoolInv, CallInv, freep # Null, Inserting, Insert
  PROVE  /\ size' \in [DOMAIN size' -> Nat]
         /\ DOMAIN size' = DOMAIN size \ Absorbed
         /\ size'[Base] = 0
         /\ \A q \in DOMAIN size' \ {Base} : size'[q] >= 1 /\ q + size'[q] <= Edge
         /\ \A q, r \in DOMAIN size' \ {Base} : q < r => q + size'[q] <= r
         /\ \A q \in DOMAIN size' : q \notin {p, block} => size'[q] = size[q]
<1> DEFINE n == next[p]
<1>1. /\ size \in [DOMAIN size -> Nat] /\ DOMAIN size \subseteq Nat
      /\ block \in Blocks /\ p \in DOMAIN size /\ block # p /\ Base \in DOMAIN size /\ size[Base] = 0
      /\ n \in DOMAIN size /\ Absorbed \subseteq DOMAIN size \ {p, Base}
      /\ MeetsUpper => n \in Blocks /\ n # p /\ n # block
      /\ MeetsLower => p \in Blocks
  BY Layout, InsertedList DEF HeadersInv, Inserting
<1>2. /\ \A q \in Blocks : size[q] >= 1 /\ q + size[q] <= Edge
      /\ \A q, r \in Blocks : q < r => q + size[q] <= r
  BY DEF BlocksInv
<1>3. Edge \in Nat
  BY EdgeInPool
<1>4. MeetsUpper => block + size[block] = n
  BY DEF MeetsUpper
<1>5. MeetsLower => p + size[p] = block
  BY DEF MeetsLower
<1>6. /\ size' = [q \in DOMAIN Joined \ Absorbed |-> Joined[q]]
      /\ DOMAIN Joined = DOMAIN size
  BY DEF Insert, Without, Restrict, Joined
<1>7. JoinedSize = size[block] + (IF MeetsUpper THEN size[n] ELSE 0) /\ JoinedSize \in Nat
  BY <1>1 DEF JoinedSize, Blocks
<1>8. Absorbed = (IF MeetsUpper THEN {n} ELSE {}) \cup (IF MeetsLower THEN {block} ELSE {})
  BY DEF Absorbed
<1>9. CASE ~MeetsLower
  <2>1. Joined = [size EXCEPT ![block] = JoinedSize]
    BY <1>9 DEF Joined
  <2>2. /\ DOMAIN size' = DOMAIN size \ Absorbed /\ size' \in [DOMAIN size' -> Nat]
        /\ size'[block] = JoinedSize /\ block \in DOMAIN size'
        /\ \A q \in DOMAIN size' : q # block => size'[q] = size[q]
    BY <1>1, <1>6, <1>7, <1>8, <1>9, <2>1 DEF Blocks
  <2> HIDE DEF n
  <2>3. CASE MeetsUpper
    BY <1>1, <1>2, <1>3, <1>4, <1>7, <1>8, <1>9, <2>2, <2>3 DEF Blocks
  <2>4. CASE ~MeetsUpper
    BY <1>1, <1>2, <1>3, <1>7, <1>8, <1>9, <2>2, <2>4 DEF Blocks
  <2> QED
    BY <2>3, <2>4
<1>10. CASE MeetsLower
  <2>1. Joined = [size EXCEPT ![p] = size[p] + JoinedSize]
    BY <1>10 DEF Joined
  <2>2. /\ DOMAIN size' = DOMAIN size \ Absorbed /\ size' \in [DOMAIN size' -> Nat]
        /\ size'[p] = size[p] + JoinedSize /\ p \in DOMAIN size'
        /\ \A q \in DOMAIN size' : q # p => size'[q] = size[q]
    BY <1>1, <1>6, <1>7, <1>8, <1>10, <2>1 DEF Blocks
  <2> HIDE DEF n
  <2>3. CASE MeetsUpper
    BY <1>1, <1>2, <1>3, <1>4, <1>5, <1>7, <1>8, <1>10, <2>2, <2>3 DEF Blocks
  <2>4. CASE ~MeetsUpper
    BY <1>1, <1>2, <1>3, <1>5, <1>7, <1>8, <1>10, <2>2, <2>4 DEF Blocks
  <2> QED
    BY <2>3, <2>4
<1> QED
  BY <1>9, <1>10

(* Every header but base is in the pool. *)
LEMMA HeadersInPool ==
  ASSUME HeadersInv, BaseInv, BlocksInv, PoolInv, CallInv
  PROVE  DOMAIN size \subseteq Headers /\ Null \notin DOMAIN size
<1>1. /\ Edge \in Nat /\ Edge <= Pool + PoolQuantas /\ PoolQuantas \in Nat
  BY EdgeInPool
<1>2. ASSUME NEW q \in Blocks
      PROVE  q \in Pool .. (Pool + PoolQuantas - 1)
  <2>1. q \in Nat /\ Pool <= q /\ size[q] \in Nat \ {0} /\ q + size[q] <= Edge
    BY DEF BlocksInv, HeadersInv, Blocks
  <2> QED
    BY <1>1, <2>1, LayoutAssumption
<1> QED
  BY <1>2, LayoutAssumption DEF Headers, Blocks, Null

(* Hence an insertion preserves what concerns headers and blocks. *)
LEMMA InsertKeeps ==
  ASSUME HeadersInv, BaseInv, BlocksInv, PoolInv, CallInv, freep # Null, EnoughForTheRequest,
         Inserting, Insert, UNCHANGED live, Edge' = Edge
  PROVE  /\ HeadersInv' /\ BaseInv' /\ BlocksInv' /\ EnoughForTheRequest'
         /\ p \in DOMAIN next' /\ freep' = p /\ LiveKept
<1>1. \A ptr \in DOMAIN live : ptr \in Nat /\ ptr - 1 \in Blocks \ DOMAIN next /\ ptr - 1 # block
  BY DEF HeadersInv, Inserting
<1>2. p \in DOMAIN next /\ Absorbed \subseteq DOMAIN next \cup {block}
  BY InsertedList, Layout DEF Inserting, Absorbed
<1>3. \A ptr \in DOMAIN live : /\ ptr - 1 \in (DOMAIN size' \ {Base}) \ DOMAIN next'
                              /\ size'[ptr - 1] = size[ptr - 1]
  BY <1>1, <1>2, InsertedList, InsertedSizes DEF Blocks
<1>4. DOMAIN next' \subseteq DOMAIN size'
  BY InsertedList, InsertedSizes, Layout DEF Inserting, Blocks
<1>5. HeadersInv'
  BY <1>1, <1>3, <1>4, InsertedList, InsertedSizes DEF HeadersInv, Blocks
<1>6. freep' = p /\ p \in DOMAIN next'
  BY InsertedList DEF Insert
<1>7. BaseInv'
  BY <1>2, <1>6, HeadersInPool, InsertedList, InsertedSizes DEF BaseInv, HeadersInv
<1>8. BlocksInv'
  BY InsertedSizes DEF BlocksInv, Blocks
<1>9. EnoughForTheRequest'
  BY <1>3 DEF EnoughForTheRequest
<1> QED
  BY <1>3, <1>5, <1>6, <1>7, <1>8, <1>9 DEF LiveKept
-------------------------------------------------------------------------------
(* The inductive invariant is preserved by every step. *)

(* The beginning of malloc, calloc and memalign. *)
LEMMA MallocStarts ==
  ASSUME IInv, pc = "program", NEW nbytes \in Nat, WithoutWrapping(nbytes),
         asked' = [bytes |-> nbytes, align |-> 0], Malloc(nbytes)
  PROVE  IInv' /\ LiveKept
<1> USE DEF IInv
<1>1. /\ nquantas' \in Nat \ {0} /\ nquantas' * HeaderSize + PoolSize < Word
      /\ nbytes <= (nquantas' - 1) * HeaderSize
  BY QuantasFacts DEF Malloc
<1>2. ~refill /\ refill' = refill /\ free_pos' = free_pos /\ live' = live /\ block' = block /\ block = Null
  BY DEF Malloc, PoolInv, CallInv
<1>3. Edge' = Edge
  BY <1>2 DEF Edge
<1>4. PoolInv'
  BY <1>2 DEF PoolInv
<1>5. CASE freep = Null
  <2>1. DOMAIN next = {} /\ DOMAIN size = {} /\ DOMAIN live = {}
    BY <1>5, LayoutAssumption DEF BaseInv, HeadersInv, Blocks, Null, List
  <2>2. /\ next' = [y \in {Base} |-> Base] /\ size' = [y \in {Base} |-> 0] /\ freep' = Base
        /\ prevp' = Base /\ p' = Base /\ pc' = "malloc"
    BY <1>5, <2>1 DEF Malloc, With
  <2>3. List(next')
    BY <2>2, LayoutAssumption DEF List, Ordered
  <2>4. HeadersInv' /\ BaseInv' /\ BlocksInv' /\ EnoughForTheRequest'
    BY <1>2, <2>1, <2>2, <2>3, LayoutAssumption DEF HeadersInv, BaseInv, BlocksInv, Blocks, EnoughForTheRequest, Null
  <2>5. CallInv'
    BY <1>1, <1>2, <2>2 DEF CallInv, Looking, Headers
  <2> QED
    BY <1>2, <1>4, <2>1, <2>4, <2>5 DEF LiveKept
<1>6. CASE freep # Null
  <2>1. UNCHANGED <<next, size, freep>> /\ prevp' = freep /\ p' = next[freep] /\ pc' = "malloc"
    BY <1>6 DEF Malloc
  <2>2. freep \in DOMAIN next /\ next[freep] \in DOMAIN next /\ DOMAIN next \subseteq Headers
    BY <1>6, HeadersInPool DEF BaseInv, HeadersInv, List
  <2>3. HeadersInv' /\ BaseInv' /\ BlocksInv' /\ EnoughForTheRequest'
    BY <1>2, <1>3, <1>6, <2>1, <2>2 DEF HeadersInv, BaseInv, BlocksInv, Blocks, EnoughForTheRequest
  <2>4. CallInv'
    BY <1>1, <1>2, <2>1, <2>2 DEF CallInv, Looking
  <2> QED
    BY <1>2, <1>4, <2>1, <2>3, <2>4 DEF LiveKept
<1> QED
  BY <1>5, <1>6

LEMMA CallMallocStep ==
  ASSUME Modest, IInv, NEW n \in Sizes, CallMalloc(n)
  PROVE  IInv' /\ LiveKept
  BY MallocStarts, CallAssumption DEF CallMalloc, Modest

LEMMA CallCallocStep ==
  ASSUME Modest, IInv, NEW nmemb \in Counts, NEW n \in Sizes, CallCalloc(nmemb, n)
  PROVE  IInv' /\ LiveKept
<1>1. nmemb \in Nat /\ n \in Nat /\ nmemb * n \in Nat
  BY CallAssumption, LayoutAssumption
<1>2. nmemb % Field = nmemb /\ n % Field = n /\ WithoutWrapping(nmemb * n)
  BY DEF Modest
<1>3. (nmemb * n) % Word = nmemb * n
  BY <1>1, <1>2, LayoutAssumption DEF WithoutWrapping
<1>4. pc = "program" /\ asked' = [bytes |-> nmemb * n, align |-> 0] /\ Malloc(nmemb * n)
  BY <1>2, <1>3 DEF CallCalloc
<1> QED
  BY <1>1, <1>2, <1>4, MallocStarts

LEMMA CallMemalignStep ==
  ASSUME Modest, IInv, NEW align \in Alignments, NEW len \in Sizes, CallMemalign(align, len)
  PROVE  IInv' /\ LiveKept
<1>1. align <= HeaderSize
  BY DEF CallMemalign, Modest
<1>2. pc = "program" /\ asked' = [bytes |-> len, align |-> 0] /\ Malloc(len)
  BY <1>1 DEF CallMemalign
<1> QED
  BY <1>2, MallocStarts, CallAssumption DEF Modest

LEMMA CallFreeStep ==
  ASSUME IInv, NEW ptr \in DOMAIN live, CallFree(ptr)
  PROVE  IInv'
<1> USE DEF IInv
<1>1. ptr \in Nat /\ ptr - 1 \in Blocks \ DOMAIN next /\ freep # Null /\ freep \in DOMAIN next
  BY DEF HeadersInv, BaseInv, Blocks
<1>2. /\ UNCHANGED <<next, size, freep, free_pos, prevp, nquantas, refill, asked>>
      /\ live' = [x \in DOMAIN live \ {ptr} |-> live[x]]
      /\ block' = ptr - 1 /\ p' = freep /\ pc' = "free" /\ pc = "program"
  BY DEF CallFree, Without, Restrict
<1>3. Edge' = Edge /\ PoolInv'
  BY <1>2 DEF Edge, PoolInv, PoolRequest
<1>4. HeadersInv' /\ BaseInv' /\ BlocksInv' /\ EnoughForTheRequest'
  BY <1>1, <1>2, <1>3 DEF HeadersInv, BaseInv, BlocksInv, Blocks, EnoughForTheRequest
<1>5. ptr - 1 + 1 \notin DOMAIN live'
  BY <1>1, <1>2
<1>6. freep \in Headers
  BY <1>1, HeadersInPool DEF HeadersInv
<1>7. CallInv'
  BY <1>1, <1>2, <1>5, <1>6 DEF CallInv, Looking, Blocks, PoolInv
<1> QED
  BY <1>3, <1>4, <1>7

LEMMA TakeBlockStep ==
  ASSUME IInv, TakeBlock
  PROVE  IInv' /\ LiveKept
<1> USE DEF IInv
<1>1. /\ UNCHANGED <<size, free_pos, prevp, p, nquantas, refill, asked, live>>
      /\ next' = Without([next EXCEPT ![prevp] = next[p]], {p})
      /\ freep' = prevp /\ block' = p /\ pc' = "return" /\ pc = "malloc"
      /\ size[p] = nquantas
  BY DEF TakeBlock
<1>2. /\ List(next) /\ prevp \in DOMAIN next /\ p = next[prevp] /\ p \in DOMAIN next
      /\ freep # Null /\ Base \in DOMAIN next /\ size[Base] = 0
      /\ nquantas \in Nat \ {0} /\ ~refill
  BY <1>1 DEF HeadersInv, BaseInv, CallInv, PoolInv, Looking, List
<1>3. p # Base /\ p # prevp
  BY <1>1, <1>2, ListIsCircle
<1>4. next' = Unlink(next, prevp)
  BY <1>1, <1>2 DEF Unlink
<1>5. List(next') /\ DOMAIN next' = DOMAIN next \ {p}
  BY <1>2, <1>3, <1>4, UnlinkList
<1>6. prevp # Null /\ p \in Blocks
  BY <1>2, <1>3, HeadersInPool DEF HeadersInv, Blocks
<1>7. Edge' = Edge /\ PoolInv'
  BY <1>1, <1>2 DEF Edge, PoolInv
<1>8. HeadersInv' /\ BaseInv' /\ BlocksInv' /\ EnoughForTheRequest'
  BY <1>1, <1>2, <1>3, <1>5, <1>6, <1>7 DEF HeadersInv, BaseInv, BlocksInv, Blocks, EnoughForTheRequest
<1>9. p + 1 \notin DOMAIN live
  BY <1>2 DEF HeadersInv, List
<1>10. CallInv'
  BY <1>1, <1>2, <1>5, <1>6, <1>9 DEF CallInv, Looking, Blocks
<1> QED
  BY <1>1, <1>7, <1>8, <1>10 DEF LiveKept

LEMMA TakeTailStep ==
  ASSUME IInv, TakeTail
  PROVE  IInv' /\ LiveKept
<1> DEFINE t == p + size[p] - nquantas
<1> USE DEF IInv
<1>1. /\ UNCHANGED <<next, free_pos, prevp, p, nquantas, refill, asked, live>>
      /\ size' = With([size EXCEPT ![p] = size[p] - nquantas], t, nquantas)
      /\ freep' = prevp /\ block' = t /\ pc' = "return" /\ pc = "malloc"
      /\ size[p] >= nquantas /\ size[p] # nquantas
  BY DEF TakeTail, TailAt, Fits
<1>2. /\ List(next) /\ prevp \in DOMAIN next /\ p \in DOMAIN next /\ DOMAIN next \subseteq DOMAIN size
      /\ freep # Null /\ Base \in DOMAIN next /\ size[Base] = 0
      /\ nquantas \in Nat \ {0} /\ ~refill
      /\ size \in [DOMAIN size -> Nat]
  BY <1>1 DEF HeadersInv, BaseInv, CallInv, PoolInv, Looking, List
<1>3. p \in Blocks /\ prevp # Null
  BY <1>1, <1>2, HeadersInPool DEF Blocks
<1>4. /\ p \in Nat /\ Pool <= p /\ size[p] \in Nat /\ p + size[p] <= Edge
      /\ Edge \in Nat /\ Edge <= Pool + PoolQuantas /\ PoolQuantas \in Nat
  BY <1>2, <1>3, EdgeInPool DEF BlocksInv, Blocks
<1>5. t \in Nat /\ p < t /\ t + nquantas = p + size[p] /\ t \in Pool .. (Pool + PoolQuantas - 1)
  BY <1>1, <1>2, <1>4, LayoutAssumption
<1>6. t \notin DOMAIN size
  BY <1>2, <1>3, <1>4, <1>5, LayoutAssumption DEF BlocksInv, Blocks
<1>7. /\ DOMAIN size' = DOMAIN size \cup {t}
      /\ size'[t] = nquantas /\ size'[p] = size[p] - nquantas
      /\ \A q \in DOMAIN size \ {p} : size'[q] = size[q]
  BY <1>1, <1>2, <1>5, <1>6 DEF With
<1>8. size' \in [DOMAIN size' -> Nat]
  <2>1. size' = [q \in DOMAIN size' |-> size'[q]]
    BY <1>1 DEF With
  <2>2. size[p] - nquantas \in Nat
    BY <1>1, <1>2, <1>4
  <2>3. ASSUME NEW q \in DOMAIN size' PROVE size'[q] \in Nat
    <3>1. q = t \/ q = p \/ q \in DOMAIN size \ {p}
      BY <1>7
    <3> QED
      BY <1>2, <1>7, <2>2, <3>1
  <2> QED
    BY <2>1, <2>3
<1>9. Edge' = Edge /\ PoolInv'
  BY <1>1, <1>2 DEF Edge, PoolInv
<1> HIDE DEF t
<1>10. ASSUME NEW ptr \in DOMAIN live
       PROVE  /\ ptr \in Nat /\ ptr - 1 \in (DOMAIN size' \ {Base}) \ DOMAIN next
              /\ ptr - 1 # p /\ ptr - 1 # t /\ size'[ptr - 1] = size[ptr - 1]
  BY <1>2, <1>6, <1>7 DEF HeadersInv, Blocks
<1>11. HeadersInv' /\ BaseInv' /\ EnoughForTheRequest'
  BY <1>1, <1>2, <1>3, <1>7, <1>8, <1>10 DEF HeadersInv, BaseInv, EnoughForTheRequest, Blocks
<1>12. BlocksInv'
  <2>1. ASSUME NEW q \in Blocks'
        PROVE  q \in Nat /\ Pool <= q /\ size'[q] >= 1 /\ q + size'[q] <= Edge
    <3>1. CASE q = t
      BY <1>2, <1>4, <1>5, <1>7, <3>1
    <3>2. CASE q = p
      BY <1>1, <1>2, <1>4, <1>5, <1>7, <3>2
    <3>3. CASE q \in Blocks \ {p}
      BY <1>7, <3>3 DEF BlocksInv, Blocks
    <3> QED
      BY <1>7, <3>1, <3>2, <3>3 DEF Blocks
  <2>2. ASSUME NEW q \in Blocks', NEW r \in Blocks', q < r
        PROVE  q + size'[q] <= r
    <3>1. CASE q = t
      BY <1>2, <1>3, <1>4, <1>5, <1>6, <1>7, <2>2, <3>1 DEF BlocksInv, Blocks
    <3>2. CASE q = p
      BY <1>2, <1>3, <1>4, <1>5, <1>6, <1>7, <2>2, <3>2 DEF BlocksInv, Blocks
    <3>3. CASE q \in Blocks \ {p} /\ r \in Blocks
      BY <1>7, <2>2, <3>3 DEF BlocksInv, Blocks
    <3>4. CASE q \in Blocks \ {p} /\ r = t
      <4>1. q \in Nat /\ size[q] \in Nat \ {0} /\ (q < p => q + size[q] <= p) /\ (p < q => p + size[p] <= q)
        BY <1>2, <1>3, <3>4 DEF BlocksInv, Blocks
      <4> QED
        BY <1>2, <1>4, <1>5, <1>7, <2>2, <3>4, <4>1 DEF Blocks
    <3> QED
      BY <1>7, <3>1, <3>2, <3>3, <3>4 DEF Blocks
  <2> QED
    BY <1>9, <2>1, <2>2 DEF BlocksInv
<1>13. t + 1 \notin DOMAIN live
  BY <1>5, <1>10
<1>14. t # Base /\ t \notin DOMAIN next
  BY <1>2, <1>6 DEF HeadersInv
<1>15. CallInv'
  BY <1>1, <1>2, <1>3, <1>7, <1>13, <1>14 DEF CallInv, Looking, Blocks
<1> QED
  BY <1>1, <1>9, <1>10, <1>11, <1>12, <1>15 DEF LiveKept

LEMMA AdvanceStep ==
  ASSUME IInv, Advance
  PROVE  IInv' /\ LiveKept
<1> USE DEF IInv
<1>1. /\ UNCHANGED <<next, size, freep, free_pos, pc, nquantas, block, refill, asked, live>>
      /\ prevp' = p /\ p' = next[p] /\ pc = "malloc"
  BY DEF Advance
<1>2. p \in DOMAIN next /\ next[p] \in DOMAIN next /\ DOMAIN next \subseteq Headers
  BY <1>1, HeadersInPool DEF CallInv, HeadersInv, List
<1>3. Edge' = Edge /\ PoolInv'
  BY <1>1 DEF Edge, PoolInv, PoolRequest
<1>4. HeadersInv' /\ BaseInv' /\ BlocksInv' /\ EnoughForTheRequest'
  BY <1>1, <1>3 DEF HeadersInv, BaseInv, BlocksInv, Blocks, EnoughForTheRequest
<1>5. CallInv'
  BY <1>1, <1>2 DEF CallInv, Looking, Blocks
<1> QED
  BY <1>1, <1>3, <1>4, <1>5 DEF LiveKept

(* The piece that is taken from the pool begins where all blocks end. *)
LEMMA ExtendStep ==
  ASSUME Modest, IInv, Extend
  PROVE  /\ IInv' /\ LiveKept
         /\ Edge' = Edge + PoolRequest /\ PoolRequest' = PoolRequest /\ PoolRequest \in Nat \ {0}
         /\ block' = Edge /\ Edge \notin DOMAIN size /\ Edge # Base
         /\ DOMAIN size' = DOMAIN size \cup {Edge} /\ size'[Edge] = PoolRequest
         /\ \A q \in DOMAIN size : size'[q] = size[q]
<1> DEFINE b == Pool + (free_pos \div HeaderSize)
<1> USE DEF IInv
<1>1. /\ UNCHANGED <<next, freep, free_pos, prevp, nquantas, asked, live>>
      /\ size' = With(size, b, PoolRequest)
      /\ block' = b /\ p' = freep /\ refill' = TRUE /\ pc' = "free" /\ pc = "malloc"
      /\ PoolHasRoom
  BY DEF Extend
<1>2. ~refill /\ nquantas \in Nat \ {0} /\ free_pos \in Nat /\ free_pos <= PoolSize
      /\ nquantas * HeaderSize + PoolSize < Word
      /\ PoolRequest \in Nat \ {0} /\ PoolQuantas \in Nat
  BY <1>1, EdgeInPool, LayoutAssumption DEF PoolInv, CallInv, Looking
<1>3. PoolRequest * HeaderSize \in Nat /\ PoolRequest * HeaderSize + PoolSize < Word
  BY <1>2, LayoutAssumption DEF PoolRequest, Modest
<1>4. free_pos + PoolRequest * HeaderSize <= PoolSize
  <2> DEFINE m == PoolRequest * HeaderSize
  <2>1. m \in Nat /\ m + PoolSize < Word /\ (free_pos + (m % Word)) % Word <= PoolSize
    BY <1>1, <1>3 DEF PoolHasRoom, PoolRequestSize
  <2> HIDE DEF m
  <2>2. m % Word = m /\ (free_pos + m) % Word = free_pos + m
    BY <1>2, <2>1, LayoutAssumption
  <2>3. free_pos + m <= PoolSize
    BY <2>1, <2>2
  <2> QED
    BY <2>3 DEF m
<1>5. PoolRequest' = PoolRequest /\ PoolInv'
  BY <1>1, <1>2, <1>4 DEF PoolRequest, PoolInv
<1>6. /\ Edge = b /\ Edge' = b + PoolRequest
      /\ b \in Nat /\ Pool <= b /\ b + PoolRequest <= Pool + PoolQuantas
  <2>1. Edge = b /\ Edge \in Nat /\ Pool <= Edge
    BY <1>2, EdgeInPool, LayoutAssumption DEF Edge
  <2>2. (free_pos + PoolRequest * HeaderSize) \div HeaderSize = (free_pos \div HeaderSize) + PoolRequest
    BY <1>2, DivAdd, LayoutAssumption
  <2>5. (free_pos + PoolRequest * HeaderSize) \div HeaderSize <= PoolQuantas
    BY <1>2, <1>3, <1>4, DivMonotonic, LayoutAssumption DEF PoolQuantas
  <2>3. Edge' = b + PoolRequest
    BY <1>1, <1>5 DEF Edge
  <2>4. free_pos \div HeaderSize \in Nat
    BY <1>2, DivMonotonic, LayoutAssumption
  <2> QED
    BY <1>2, <2>1, <2>2, <2>3, <2>4, <2>5, LayoutAssumption
<1> HIDE DEF b
<1>7. b \notin DOMAIN size /\ b # Base /\ b # Null /\ b \in Headers
  <2>1. \A q \in Blocks : q < b
    BY <1>6 DEF BlocksInv, HeadersInv, Blocks
  <2>2. b \in Pool .. (Pool + PoolQuantas - 1)
    BY <1>2, <1>6, LayoutAssumption
  <2> QED
    BY <1>2, <1>6, <2>1, <2>2, LayoutAssumption DEF Blocks, Headers, Null
<1>8. /\ DOMAIN size' = DOMAIN size \cup {b} /\ size'[b] = PoolRequest
      /\ \A q \in DOMAIN size : size'[q] = size[q]
      /\ size' \in [DOMAIN size' -> Nat]
  BY <1>1, <1>2, <1>7 DEF With, HeadersInv
<1>9. /\ DOMAIN next \subseteq DOMAIN size /\ freep \in DOMAIN next /\ freep # Null
      /\ Base \in DOMAIN next /\ size[Base] = 0 /\ freep \in Headers
  BY <1>1, HeadersInPool DEF HeadersInv, BaseInv
<1>10. HeadersInv' /\ BaseInv' /\ EnoughForTheRequest'
  <2>1. \A ptr \in DOMAIN live : ptr \in Nat /\ ptr - 1 \in Blocks \ DOMAIN next
    BY DEF HeadersInv
  <2> QED
    BY <1>1, <1>7, <1>8, <1>9, <2>1 DEF HeadersInv, BaseInv, EnoughForTheRequest, Blocks
<1>11. BlocksInv'
  <2>1. ASSUME NEW q \in Blocks'
        PROVE  q \in Nat /\ Pool <= q /\ size'[q] >= 1 /\ q + size'[q] <= Edge'
    <3>1. CASE q = b
      BY <1>2, <1>6, <1>8, <3>1
    <3>2. CASE q \in Blocks
      <4>1. q \in Nat /\ Pool <= q /\ size[q] \in Nat \ {0} /\ q + size[q] <= Edge
        BY <3>2 DEF BlocksInv, Blocks, HeadersInv
      <4> QED
        BY <1>2, <1>6, <1>8, <3>2, <4>1 DEF Blocks
    <3> QED
      BY <1>8, <3>1, <3>2 DEF Blocks
  <2>2. ASSUME NEW q \in Blocks', NEW r \in Blocks', q < r
        PROVE  q + size'[q] <= r
    <3>1. CASE q = b
      <4>1. r \in Blocks
        BY <1>8, <2>2, <3>1, <1>6 DEF Blocks
      <4>2. r \in Nat /\ size[r] \in Nat \ {0} /\ r + size[r] <= b
        BY <1>6, <4>1 DEF BlocksInv, Blocks, HeadersInv
      <4> QED
        BY <1>6, <2>2, <3>1, <4>2
    <3>2. CASE q \in Blocks
      BY <1>6, <1>8, <2>2, <3>2 DEF BlocksInv, Blocks
    <3> QED
      BY <1>8, <3>1, <3>2 DEF Blocks
  <2> QED
    BY <2>1, <2>2 DEF BlocksInv
<1>12. b + 1 \notin DOMAIN live /\ b \notin DOMAIN next
  BY <1>6, <1>7, <1>9 DEF HeadersInv, Blocks
<1>13. CallInv'
  BY <1>1, <1>2, <1>7, <1>8, <1>9, <1>12 DEF CallInv, Looking, Blocks
<1>14. IInv' /\ LiveKept
  BY <1>1, <1>5, <1>8, <1>10, <1>11, <1>13 DEF LiveKept, HeadersInv, Blocks
<1> QED
  BY <1>1, <1>2, <1>5, <1>6, <1>7, <1>8, <1>14

(* What Leave establishes. *)
LEMMA LeaveStep ==
  ASSUME Modest, Leave
  PROVE  CallInv'
<1>1. PoolSize < Word
  BY LayoutAssumption DEF Modest
<1>2. 0 * HeaderSize = 0
  BY LayoutAssumption
<1> QED
  BY <1>1, <1>2, LayoutAssumption DEF Leave, CallInv, Looking, NoRequest

LEMMA FailStep ==
  ASSUME Modest, IInv, Fail
  PROVE  IInv' /\ LiveKept
<1> USE DEF IInv
<1>1. UNCHANGED <<next, size, freep, free_pos, live>> /\ Leave /\ pc = "malloc"
  BY DEF Fail
<1>2. ~refill /\ ~refill' /\ refill' = refill
  BY <1>1 DEF PoolInv, Leave
<1>3. Edge' = Edge /\ PoolInv'
  BY <1>1, <1>2 DEF Edge, PoolInv
<1>4. HeadersInv' /\ BaseInv' /\ BlocksInv' /\ EnoughForTheRequest'
  BY <1>1, <1>3 DEF HeadersInv, BaseInv, BlocksInv, Blocks, EnoughForTheRequest
<1> QED
  BY <1>1, <1>3, <1>4, LeaveStep DEF LiveKept

LEMMA SeekStep ==
  ASSUME IInv, Seek
  PROVE  IInv' /\ LiveKept
<1> USE DEF IInv
<1>1. /\ UNCHANGED <<next, size, freep, free_pos, pc, prevp, nquantas, block, refill, asked, live>>
      /\ p' = next[p] /\ pc = "free"
  BY DEF Seek
<1>2. next[p] \in DOMAIN next /\ DOMAIN next \subseteq Headers
  BY <1>1, HeadersInPool DEF CallInv, HeadersInv, List
<1>3. Edge' = Edge /\ PoolInv'
  BY <1>1 DEF Edge, PoolInv, PoolRequest
<1>4. HeadersInv' /\ BaseInv' /\ BlocksInv' /\ EnoughForTheRequest'
  BY <1>1, <1>3 DEF HeadersInv, BaseInv, BlocksInv, Blocks, EnoughForTheRequest
<1>5. CallInv'
  BY <1>1, <1>2 DEF CallInv, Looking, Blocks
<1> QED
  BY <1>1, <1>3, <1>4, <1>5 DEF LiveKept

LEMMA FreeStep ==
  ASSUME Modest, IInv, Free
  PROVE  IInv' /\ LiveKept
<1> USE DEF IInv
<1>1. Insert /\ Leave /\ UNCHANGED <<free_pos, live>> /\ ~refill /\ pc = "free" /\ Between(p)
  BY DEF Free
<1>2. Inserting /\ freep # Null
  BY <1>1 DEF Inserting, CallInv, BaseInv
<1>3. ~refill' /\ refill' = refill
  BY <1>1 DEF PoolInv, Leave
<1>4. Edge' = Edge /\ PoolInv'
  BY <1>1, <1>3 DEF Edge, PoolInv
<1>5. HeadersInv' /\ BaseInv' /\ BlocksInv' /\ EnoughForTheRequest' /\ LiveKept
  BY <1>1, <1>2, <1>4, InsertKeeps
<1> QED
  BY <1>1, <1>4, <1>5, LeaveStep

LEMMA RefillStep ==
  ASSUME Modest, IInv, Refill
  PROVE  IInv' /\ LiveKept /\ Edge' = Edge
<1> USE DEF IInv
<1>1. /\ Insert /\ refill /\ pc = "free" /\ Between(p) /\ live' = live
      /\ free_pos' = (free_pos + PoolRequestSize) % Word
      /\ prevp' = freep' /\ p' = next'[freep'] /\ block' = Null /\ refill' = FALSE /\ pc' = "malloc"
      /\ nquantas' = nquantas /\ asked' = asked
  BY DEF Refill
<1>2. Inserting /\ freep # Null
  BY <1>1 DEF Inserting, CallInv, BaseInv
<1>3. PoolRequest \in Nat \ {0} /\ free_pos \in Nat
  BY EdgeInPool, LayoutAssumption DEF PoolInv
<1>4. free_pos' = free_pos + PoolRequest * HeaderSize /\ free_pos' \in 0 .. PoolSize
  <2> DEFINE m == PoolRequest * HeaderSize
  <2>1. m \in Nat /\ free_pos + m <= PoolSize /\ free_pos' = (free_pos + (m % Word)) % Word
    BY <1>1, <1>3, LayoutAssumption DEF PoolInv, PoolRequestSize
  <2>2. PoolSize < Word
    BY LayoutAssumption DEF Modest
  <2> HIDE DEF m
  <2>3. m % Word = m /\ (free_pos + m) % Word = free_pos + m
    BY <1>3, <2>1, <2>2, LayoutAssumption
  <2>4. free_pos' = free_pos + m /\ free_pos' \in 0 .. PoolSize
    BY <1>3, <2>1, <2>3, LayoutAssumption
  <2> QED
    BY <2>4 DEF m
<1>5. Edge' = Edge /\ PoolInv'
  <2>1. free_pos' \div HeaderSize = (free_pos \div HeaderSize) + PoolRequest
    BY <1>3, <1>4, DivAdd, LayoutAssumption
  <2>2. free_pos \div HeaderSize \in Nat
    BY <1>3, DivMonotonic, LayoutAssumption
  <2>3. PoolInv'
    BY <1>1, <1>4 DEF PoolInv
  <2>4. Edge = Pool + (free_pos \div HeaderSize) + PoolRequest
    BY <1>1 DEF Edge
  <2>5. Edge' = Pool + (free_pos' \div HeaderSize) + 0
    BY <1>1 DEF Edge
  <2> QED
    BY <1>3, <2>1, <2>2, <2>3, <2>4, <2>5, LayoutAssumption
<1>6. HeadersInv' /\ BaseInv' /\ BlocksInv' /\ EnoughForTheRequest' /\ LiveKept /\ p \in DOMAIN next' /\ freep' = p
  BY <1>1, <1>2, <1>5, InsertKeeps
<1>7. DOMAIN next' \subseteq Headers /\ next'[p] \in DOMAIN next'
  BY <1>2, <1>1, <1>6, HeadersInPool, InsertedSizes DEF HeadersInv, List
<1>8. CallInv'
  BY <1>1, <1>6, <1>7 DEF CallInv, Looking
<1> QED
  BY <1>5, <1>6, <1>8

(* Without alignment the block is handed out as it is. *)
LEMMA ReturnStep ==
  ASSUME Modest, IInv, Return
  PROVE  /\ IInv'
         /\ block + 1 \notin DOMAIN live /\ block \in Blocks
         /\ live' = With(live, block + 1, asked.bytes) /\ UNCHANGED size
<1> USE DEF IInv
<1>1. asked.align = 0 /\ asked.bytes \in Nat
  BY DEF CallInv
<1>2. /\ live' = With(live, block + 1, asked.bytes) /\ Leave /\ pc = "return"
      /\ UNCHANGED <<next, size, freep, free_pos>>
  BY <1>1 DEF Return
<1>3. /\ block \in Blocks \ DOMAIN next /\ block + 1 \notin DOMAIN live /\ block \in Nat
      /\ size[block] = nquantas /\ asked.bytes <= (nquantas - 1) * HeaderSize
  BY <1>2 DEF CallInv, Looking, BlocksInv
<1>4. ~refill /\ ~refill' /\ refill' = refill
  BY <1>2 DEF PoolInv, Leave
<1>5. Edge' = Edge /\ PoolInv'
  BY <1>2, <1>4 DEF Edge, PoolInv
<1>6. /\ DOMAIN live' = DOMAIN live \cup {block + 1} /\ live' \in [DOMAIN live' -> Nat]
      /\ live'[block + 1] = asked.bytes
      /\ \A ptr \in DOMAIN live : live'[ptr] = live[ptr]
  BY <1>1, <1>2, <1>3 DEF With, HeadersInv
<1>7. HeadersInv'
  BY <1>2, <1>3, <1>6 DEF HeadersInv, Blocks
<1>8. BaseInv' /\ BlocksInv'
  BY <1>2, <1>5 DEF BaseInv, BlocksInv, Blocks
<1>9. EnoughForTheRequest'
  BY <1>2, <1>3, <1>6 DEF EnoughForTheRequest
<1> QED
  BY <1>2, <1>3, <1>5, <1>7, <1>8, <1>9, LeaveStep

LEMMA InitStep ==
  ASSUME Modest, Init
  PROVE  IInv
<1>1. /\ DOMAIN next = {} /\ DOMAIN size = {} /\ DOMAIN live = {}
      /\ next \in [{} -> {}] /\ size \in [{} -> Nat] /\ live \in [{} -> Nat]
  BY DEF Init
<1>2. /\ freep = Null /\ free_pos = 0 /\ pc = "program" /\ prevp = Null /\ p = Null
      /\ nquantas = 0 /\ block = Null /\ refill = FALSE /\ asked = [bytes |-> 0, align |-> 0]
  BY DEF Init, NoRequest
<1>3. HeadersInv /\ BaseInv /\ BlocksInv /\ EnoughForTheRequest
  BY <1>1, <1>2 DEF HeadersInv, List, Ordered, BaseInv, BlocksInv, Blocks, EnoughForTheRequest
<1>4. PoolInv
  <2>1. free_pos \in 0 .. PoolSize
    BY <1>2, LayoutAssumption
  <2>2. refill \in BOOLEAN /\ ~refill
    BY <1>2
  <2> QED
    BY <2>1, <2>2 DEF PoolInv
<1>5. PoolSize < Word /\ 0 * HeaderSize = 0
  BY LayoutAssumption DEF Modest
<1>6. CallInv
  BY <1>2, <1>5, LayoutAssumption DEF CallInv, Looking
<1> QED
  BY <1>3, <1>4, <1>6 DEF IInv

(* What a step does to the blocks of the program: nothing, unless it       *)
(* returns from malloc or begins free.                                     *)
LEMMA StepKeeps ==
  ASSUME Modest, IInv, Next
  PROVE  /\ IInv'
         /\ LiveKept \/ Return \/ \E ptr \in DOMAIN live : CallFree(ptr)
<1>1. ASSUME NEW n \in Sizes, CallMalloc(n) PROVE IInv' /\ LiveKept
  BY <1>1, CallMallocStep
<1>2. ASSUME NEW nmemb \in Counts, NEW n \in Sizes, CallCalloc(nmemb, n) PROVE IInv' /\ LiveKept
  BY <1>2, CallCallocStep
<1>3. ASSUME NEW align \in Alignments, NEW len \in Sizes, CallMemalign(align, len) PROVE IInv' /\ LiveKept
  BY <1>3, CallMemalignStep
<1>4. ASSUME NEW ptr \in DOMAIN live, CallFree(ptr) PROVE IInv'
  BY <1>4, CallFreeStep
<1>5. CASE TakeBlock
  BY <1>5, TakeBlockStep
<1>6. CASE TakeTail
  BY <1>6, TakeTailStep
<1>7. CASE Advance
  BY <1>7, AdvanceStep
<1>8. CASE Extend
  BY <1>8, ExtendStep
<1>9. CASE Fail
  BY <1>9, FailStep
<1>10. CASE Seek
  BY <1>10, SeekStep
<1>11. CASE Free
  BY <1>11, FreeStep
<1>12. CASE Refill
  BY <1>12, RefillStep
<1>13. CASE Return
  BY <1>13, ReturnStep
<1> QED
  BY <1>1, <1>2, <1>3, <1>4, <1>5, <1>6, <1>7, <1>8, <1>9, <1>10, <1>11, <1>12, <1>13
     DEF Next, Program, Allocator

LEMMA StutterKeeps ==
  ASSUME IInv, UNCHANGED vars
  PROVE  IInv' /\ LiveKept
<1>1. UNCHANGED <<next, size, freep, free_pos, pc, prevp, p, nquantas, block, refill, asked, live>>
  BY DEF vars, locals
<1>2. Edge' = Edge
  BY <1>1 DEF Edge, PoolRequest
<1>3. HeadersInv' /\ BaseInv' /\ BlocksInv' /\ EnoughForTheRequest'
  BY <1>1, <1>2 DEF IInv, HeadersInv, BaseInv, BlocksInv, Blocks, EnoughForTheRequest
<1>4. PoolInv' /\ CallInv'
  BY <1>1 DEF IInv, PoolInv, CallInv, Looking, Blocks, PoolRequest
<1> QED
  BY <1>1, <1>3, <1>4 DEF IInv, LiveKept

(* The inductive invariant holds in every reachable state.                 *)
THEOREM Invariance ==
  ASSUME Modest
  PROVE  Spec => []IInv
<1>1. Init => IInv
  BY InitStep
<1>2. IInv /\ [Next]_vars => IInv'
  BY StepKeeps, StutterKeeps
<1> QED
  BY <1>1, <1>2, PTL DEF Spec

-------------------------------------------------------------------------------
(* What follows from it. *)

(* No header is outside the pool and no field of one overflows, whatever   *)
(* the modest requests are: malloc, calloc, memalign and free.             *)
THEOREM TypeCorrectness ==
  ASSUME Modest
  PROVE  Spec => []TypeOK
<1>1. ASSUME IInv PROVE TypeOK
  <2> USE <1>1 DEF IInv
  <2>1. /\ PoolQuantas \in Nat /\ Edge \in Nat /\ Edge <= Pool + PoolQuantas /\ Pool \in Nat \ {0}
    BY EdgeInPool, LayoutAssumption
  <2>2. \A q \in Blocks : /\ q \in Nat /\ size[q] \in Nat \ {0} /\ Pool <= q
                           /\ q + size[q] <= Edge
    BY DEF BlocksInv, HeadersInv, Blocks
  <2>3. \A q \in Blocks : q \in Pool .. (Pool + PoolQuantas - 1) /\ size[q] \in 0 .. PoolQuantas
    BY <2>1, <2>2
  <2>4. DOMAIN next \subseteq DOMAIN size /\ DOMAIN size \subseteq Headers
    BY <2>3 DEF HeadersInv, Headers, Blocks
  <2>5. \A q \in DOMAIN next : next[q] \in DOMAIN next
    BY DEF HeadersInv, List
  <2>6. \A q \in DOMAIN size : size[q] \in 0 .. PoolQuantas
    BY <2>1, <2>3 DEF BaseInv, Blocks
  <2>7. freep = Null \/ freep \in DOMAIN next
    BY DEF BaseInv
  <2>8. free_pos \in 0 .. PoolSize /\ refill \in BOOLEAN
    BY DEF PoolInv
  <2>9. /\ pc \in {"program", "malloc", "free", "return"}
        /\ IF pc = "malloc" THEN prevp \in DOMAIN next ELSE prevp \in {Null} \cup Headers
        /\ IF pc \in {"malloc", "free"} THEN p \in DOMAIN next ELSE p \in {Null} \cup Headers
        /\ IF pc \in {"free", "return"} THEN block \in DOMAIN size ELSE block = Null
        /\ asked.bytes \in Nat /\ asked.align \in {0} \cup Alignments
    BY <2>5 DEF CallInv, Blocks
  <2>10. nquantas \in 0 .. (Word \div HeaderSize + 1)
    <3>1. nquantas \in Nat /\ nquantas * HeaderSize <= Word
      BY LayoutAssumption DEF CallInv
    <3>2. (0 + nquantas * HeaderSize) \div HeaderSize = (0 \div HeaderSize) + nquantas
      BY <3>1, DivAdd, LayoutAssumption
    <3>3. nquantas * HeaderSize \in Nat /\ 0 \div HeaderSize = 0
      BY <3>1, LayoutAssumption
    <3>4. (nquantas * HeaderSize) \div HeaderSize <= Word \div HeaderSize /\ Word \div HeaderSize \in Nat
      BY <3>1, <3>3, DivMonotonic, LayoutAssumption
    <3> QED
      BY <3>1, <3>2, <3>3, <3>4
  <2>11. DOMAIN live \subseteq Pointer
    <3>1. \A ptr \in DOMAIN live : ptr \in Nat /\ ptr - 1 \in Blocks
      BY DEF HeadersInv
    <3> QED
      BY <2>1, <2>3, <3>1 DEF Pointer
  <2> QED
    BY <2>4, <2>5, <2>6, <2>7, <2>8, <2>9, <2>10, <2>11 DEF TypeOK
<1> QED
  BY <1>1, Invariance, PTL

(* The free list is a circle in address order after every step: free finds *)
(* the place of every block, and a search of malloc meets every header.    *)
THEOREM FreeListStaysInOrder ==
  ASSUME Modest
  PROVE  Spec => []FreeListInOrder
<1>1. IInv => FreeListInOrder
  BY OrderedIsInOrder DEF IInv, HeadersInv, List
<1> QED
  BY <1>1, Invariance, PTL

(* A block that malloc returned has room for all the bytes asked for, and  *)
(* no later call takes any of it away.                                     *)
THEOREM BlocksStayBigEnough ==
  ASSUME Modest
  PROVE  Spec => []EnoughForTheRequest
<1>1. IInv => EnoughForTheRequest
  BY DEF IInv
<1> QED
  BY <1>1, Invariance, PTL

(* The allocator implements Heap: what malloc hands out lies in the pool,  *)
(* overlaps nothing that the program holds, and stays as it is until the   *)
(* program frees it.                                                       *)
THEOREM ImplementsHeap ==
  ASSUME Modest
  PROVE  Spec => RefinesHeap
<1>1. Init => AbstractHeap!Init
  BY DEF Init, AbstractHeap!Init, Held
<1>2. ASSUME IInv, IInv', LiveKept PROVE Held' = Held
  BY <1>2 DEF LiveKept, Held
<1>3. ASSUME Modest, IInv, Return PROVE AbstractHeap!Next
  <2> DEFINE b == [start |-> block + 1, length |-> size[block] - 1]
  <2> USE <1>3 DEF IInv
  <2>1. /\ block + 1 \notin DOMAIN live /\ block \in Blocks
        /\ live' = With(live, block + 1, asked.bytes) /\ size' = size
    BY ReturnStep
  <2>2. /\ PoolQuantas \in Nat /\ Edge \in Nat /\ Edge <= Pool + PoolQuantas /\ Pool \in Nat \ {0}
    BY EdgeInPool, LayoutAssumption
  <2>3. \A q \in Blocks : /\ q \in Nat /\ size[q] \in Nat \ {0} /\ Pool <= q
                           /\ q + size[q] <= Edge
    BY DEF BlocksInv, HeadersInv, Blocks
  <2>4. b \in AbstractHeap!Block
    BY <2>1, <2>2, <2>3 DEF AbstractHeap!Block
  <2>5. AbstractHeap!Extent(b) \subseteq (Pool + 1) .. (Pool + PoolQuantas - 1)
    BY <2>1, <2>2, <2>3 DEF AbstractHeap!Extent
  <2>6. ASSUME NEW c \in Held PROVE b # c /\ AbstractHeap!Extent(b) \cap AbstractHeap!Extent(c) = {}
    <3>1. PICK ptr \in DOMAIN live : c = [start |-> ptr, length |-> size[ptr - 1] - 1]
      BY <2>6 DEF Held
    <3>2. ptr \in Nat /\ ptr - 1 \in Blocks /\ ptr # block + 1
      BY <2>1 DEF HeadersInv
    <3>3. block \in Nat /\ ptr - 1 \in Nat /\ size[block] \in Nat /\ size[ptr - 1] \in Nat
      BY <2>1, <2>3, <3>2
    <3>4. \/ block + size[block] <= ptr - 1
          \/ ptr - 1 + size[ptr - 1] <= block
      BY <2>1, <3>2, <3>3 DEF BlocksInv
    <3>5. b # c
      BY <3>1, <3>2, <3>3
    <3>6. AbstractHeap!Extent(b) \cap AbstractHeap!Extent(c) = {}
      BY <3>1, <3>2, <3>3, <3>4 DEF AbstractHeap!Extent
    <3> QED
      BY <3>5, <3>6
  <2>7. Held' = Held \cup {b}
    <3>1. DOMAIN live' = DOMAIN live \cup {block + 1} /\ block \in Nat
      BY <2>1, <2>3 DEF With
    <3>2. block + 1 - 1 = block
      BY <3>1
    <3> QED
      BY <2>1, <3>1, <3>2 DEF Held
  <2> HIDE DEF b
  <2>8. AbstractHeap!Allocate(b)
    BY <2>5, <2>6, <2>7 DEF AbstractHeap!Allocate
  <2> QED
    BY <2>4, <2>8 DEF AbstractHeap!Next
<1>4. ASSUME IInv, NEW ptr \in DOMAIN live, CallFree(ptr) PROVE AbstractHeap!Next
  <2> DEFINE b == [start |-> ptr, length |-> size[ptr - 1] - 1]
  <2>1. b \in Held
    BY DEF Held
  <2>2. DOMAIN live' = DOMAIN live \ {ptr} /\ size' = size
    BY <1>4 DEF CallFree, Without, Restrict
  <2>3. Held' = Held \ {b}
    BY <2>2 DEF Held
  <2> HIDE DEF b
  <2> QED
    BY <2>1, <2>3 DEF AbstractHeap!Next, AbstractHeap!Release
<1>5. IInv /\ IInv' /\ [Next]_vars => [AbstractHeap!Next]_Held
  BY <1>2, <1>3, <1>4, StepKeeps, StutterKeeps
<1> QED
  BY <1>1, <1>5, Invariance, PTL DEF Spec, RefinesHeap, AbstractHeap!Spec

-------------------------------------------------------------------------------
(* The pool is tiled, and a search looks at every block. *)

(* Every quanta in use belongs to a block, every block to the free list, to *)
(* the program or to the call under way.                                    *)
CoverInv == \A a \in Pool .. (Edge - 1) : \E q \in Blocks : q <= a /\ a < q + size[q]
OwnedInv ==
  \A q \in Blocks :
    q \in DOMAIN next \/ q + 1 \in DOMAIN live \/ (pc \in {"free", "return"} /\ q = block)

(* The headers that a search of malloc, begun after freep, has left behind  *)
(* are those on the circle from freep to prevp; they are too small.         *)
Passed(q) == IF freep <= prevp THEN freep < q /\ q <= prevp ELSE q > freep \/ q <= prevp
SearchInv == pc = "malloc" => \A q \in DOMAIN next : Passed(q) => size[q] < nquantas

TileInv == IInv /\ CoverInv /\ OwnedInv /\ NoAdjacentFree /\ SearchInv

(* The block that results from an insertion, and its size. *)
LEMMA InsertedBlock ==
  ASSUME HeadersInv, BaseInv, BlocksInv, PoolInv, CallInv, freep # Null, Inserting, Insert,
         NEW j, j = IF MeetsLower THEN p ELSE block
  PROVE  /\ j \in Blocks /\ j \in DOMAIN size' /\ j \in DOMAIN next'
         /\ size'[j] = (IF MeetsLower THEN size[p] ELSE 0) + size[block]
                        + (IF MeetsUpper THEN size[next[p]] ELSE 0)
         /\ \A q \in DOMAIN size' : q # j => size'[q] = size[q]
<1>1. /\ size \in [DOMAIN size -> Nat] /\ block \in Blocks /\ p \in DOMAIN size /\ block # p
      /\ next[p] \in DOMAIN size /\ p \in DOMAIN next /\ block \notin DOMAIN next
      /\ MeetsUpper => next[p] # p /\ next[p] # block
      /\ MeetsLower => p \in Blocks
  BY Layout, InsertedList DEF HeadersInv, Inserting
<1>2. /\ size' = [q \in DOMAIN Joined \ Absorbed |-> Joined[q]]
      /\ DOMAIN Joined = DOMAIN size
  BY DEF Insert, Without, Restrict, Joined
<1>3. JoinedSize = size[block] + (IF MeetsUpper THEN size[next[p]] ELSE 0)
      /\ size[block] \in Nat /\ size[p] \in Nat /\ size[next[p]] \in Nat
  BY <1>1 DEF JoinedSize, Blocks
<1>4. j \in Blocks /\ j \notin Absorbed
  BY <1>1 DEF Absorbed
<1>5. /\ j \in DOMAIN Joined /\ Joined[j] = (IF MeetsLower THEN size[p] ELSE 0) + JoinedSize
      /\ \A q \in DOMAIN Joined : q # j => Joined[q] = size[q]
  <2>1. CASE MeetsLower
    <3>1. Joined = [size EXCEPT ![p] = size[p] + JoinedSize] /\ j = p
      BY <2>1 DEF Joined
    <3> QED
      BY <1>1, <2>1, <3>1
  <2>2. CASE ~MeetsLower
    <3>1. Joined = [size EXCEPT ![block] = JoinedSize] /\ j = block /\ JoinedSize \in Nat
      BY <1>3, <2>2 DEF Joined
    <3> QED
      BY <1>1, <2>2, <3>1 DEF Blocks
  <2> QED
    BY <2>1, <2>2
<1>6. j \in DOMAIN next'
  BY <1>1, <1>4, InsertedList
<1> QED
  BY <1>1, <1>2, <1>3, <1>4, <1>5, <1>6 DEF Blocks

(* The place where a block is inserted is between its neighbours: no free   *)
(* block is adjacent to it but p and next[p].                               *)
LEMMA InsertedBetween ==
  ASSUME HeadersInv, BaseInv, BlocksInv, PoolInv, CallInv, freep # Null, Inserting
  PROVE  /\ \A q \in DOMAIN next \ {Base} : q + size[q] = block => q = p
         /\ \A q \in DOMAIN next : block + size[block] = q => q = next[p]
<1>1. /\ List(next) /\ p \in DOMAIN next /\ next[p] \in DOMAIN next /\ DOMAIN next \subseteq Nat
      /\ block \in Blocks /\ DOMAIN next \subseteq DOMAIN size /\ block \notin DOMAIN next
      /\ size[block] \in Nat \ {0} /\ block + size[block] # Base
      /\ DOMAIN size \subseteq Nat
  BY Layout DEF HeadersInv, Inserting
<1>2. /\ \A q \in Blocks : q \in Nat /\ size[q] \in Nat \ {0} /\ Pool <= q /\ q + size[q] <= Edge
      /\ \A q, r \in Blocks : q < r => q + size[q] <= r
      /\ Edge \in Nat /\ Edge <= Pool + PoolQuantas /\ PoolQuantas \in Nat
  BY EdgeInPool DEF BlocksInv, HeadersInv, Blocks
<1>3. Base < Pool \/ Base > Edge
  BY <1>2, LayoutAssumption
<1>4. /\ \A r \in DOMAIN next : r < block => r <= p /\ p < block
      /\ \A r \in DOMAIN next : r > block => next[p] <= r /\ block < next[p]
  <2>1. block \in Nat /\ \A r \in DOMAIN next : r \in Nat
    BY <1>1, <1>2
  <2>2. \/ p < block /\ block < next[p]
        \/ p >= next[p] /\ (p < block \/ block < next[p])
    BY DEF Inserting, Between
  <2>3. \/ next[p] > p /\ \A r \in DOMAIN next : r > p => next[p] <= r
        \/ \A r \in DOMAIN next : r <= p /\ next[p] <= r
    BY <1>1 DEF List, Ordered
  <2> QED
    BY <1>1, <2>1, <2>2, <2>3
<1>5. ASSUME NEW q \in DOMAIN next \ {Base}, q + size[q] = block PROVE q = p
  <2>1. q \in Blocks /\ q < block
    BY <1>1, <1>2, <1>5 DEF Blocks
  <2>2. q <= p /\ p < block /\ p \in Nat /\ q \in Nat /\ block \in Nat
    BY <1>1, <1>2, <1>4, <2>1
  <2>3. ASSUME q < p PROVE FALSE
    <3>1. CASE p = Base
      <4>1. Pool <= q /\ block + size[block] <= Edge /\ size[block] \in Nat /\ Pool \in Nat
        BY <1>1, <1>2, <2>1, LayoutAssumption
      <4> QED
        BY <1>2, <1>3, <2>2, <2>3, <3>1, <4>1
    <3>2. CASE p # Base
      <4>1. p \in Blocks
        BY <1>1, <3>2 DEF Blocks
      <4> QED
        BY <1>2, <1>5, <2>1, <2>2, <2>3, <4>1
    <3> QED
      BY <3>1, <3>2
  <2> QED
    BY <1>1, <2>1, <2>2, <2>3, <1>2
<1>6. ASSUME NEW q \in DOMAIN next, block + size[block] = q PROVE q = next[p]
  <2>1. q \in Blocks /\ block < q
    BY <1>1, <1>6 DEF Blocks
  <2>2. next[p] <= q /\ block < next[p] /\ next[p] \in Nat /\ q \in Nat /\ block \in Nat
    BY <1>1, <1>2, <1>4, <2>1
  <2>3. ASSUME next[p] < q PROVE FALSE
    <3>1. CASE next[p] = Base
      <4>1. Pool <= block /\ q + size[q] <= Edge /\ size[q] \in Nat /\ Pool \in Nat
        BY <1>1, <1>2, <2>1, LayoutAssumption
      <4> QED
        BY <1>2, <1>3, <2>2, <2>3, <3>1, <4>1
    <3>2. CASE next[p] # Base
      <4>1. next[p] \in Blocks
        BY <1>1, <3>2 DEF Blocks
      <4>2. block + size[block] <= next[p]
        BY <1>1, <1>2, <2>2, <4>1
      <4> QED
        BY <1>1, <1>6, <2>3, <4>2
    <3> QED
      BY <3>1, <3>2
  <2> QED
    BY <1>1, <2>2, <2>3
<1> QED
  BY <1>5, <1>6

(* An insertion loses no quanta and leaves no two free blocks adjacent.     *)
LEMMA InsertTiles ==
  ASSUME IInv, CoverInv, OwnedInv, NoAdjacentFree, freep # Null, Inserting, Insert,
         UNCHANGED live, Edge' = Edge
  PROVE  /\ CoverInv' /\ NoAdjacentFree'
         /\ \A q \in Blocks' : q \in DOMAIN next' \/ q + 1 \in DOMAIN live'
<1> DEFINE j == IF MeetsLower THEN p ELSE block
           n == next[p]
<1>0. HeadersInv /\ BaseInv /\ BlocksInv /\ PoolInv /\ CallInv
  BY DEF IInv
<1>1. /\ j \in Blocks /\ j \in DOMAIN size' /\ j \in DOMAIN next'
      /\ size'[j] = (IF MeetsLower THEN size[p] ELSE 0) + size[block] + (IF MeetsUpper THEN size[n] ELSE 0)
      /\ \A q \in DOMAIN size' : q # j => size'[q] = size[q]
  BY <1>0, InsertedBlock
<1>2. /\ DOMAIN next' = (DOMAIN next \cup {block}) \ Absorbed
      /\ DOMAIN size' = DOMAIN size \ Absorbed
      /\ MeetsUpper => n \in Blocks /\ n # p /\ n # block
      /\ MeetsLower => p \in Blocks
      /\ block \in Blocks /\ block \notin DOMAIN next /\ p \in DOMAIN next /\ n \in DOMAIN next
  BY <1>0, InsertedList, InsertedSizes, Layout DEF Inserting
<1>3. /\ \A q \in Blocks : q \in Nat /\ size[q] \in Nat \ {0}
      /\ \A q \in DOMAIN next : q \in Nat
      /\ Edge \in Nat /\ Pool \in Nat
  BY <1>0, Layout, EdgeInPool, LayoutAssumption DEF Blocks, HeadersInv
<1>4. /\ MeetsUpper <=> block + size[block] = n
      /\ MeetsLower <=> p + size[p] = block
      /\ Absorbed = (IF MeetsUpper THEN {n} ELSE {}) \cup (IF MeetsLower THEN {block} ELSE {})
  BY DEF MeetsUpper, MeetsLower, Absorbed
<1>5. /\ \A q \in DOMAIN next \ {Base} : q + size[q] = block => q = p
      /\ \A q \in DOMAIN next : block + size[block] = q => q = n
  BY <1>0, InsertedBetween
<1>6. /\ j + size'[j] = IF MeetsUpper THEN n + size[n] ELSE block + size[block]
      /\ j <= block
  BY <1>1, <1>2, <1>3, <1>4
<1>7. size'[j] \in Nat
  BY <1>1, <1>2, <1>3
<1>8. MeetsUpper => block < n
  BY <1>2, <1>3, <1>4
<1>9. j = p \/ j = block
  OBVIOUS
<1>10. MeetsLower <=> j # block
  BY <1>2
<1> HIDE DEF n
<1> HIDE DEF j
<1>11. ASSUME NEW a \in Pool .. (Edge - 1)
       PROVE  \E q \in Blocks' : q <= a /\ a < q + size'[q]
  <2>1. PICK q \in Blocks : q <= a /\ a < q + size[q]
    BY DEF CoverInv
  <2>2. CASE q = block \/ (MeetsUpper /\ q = n) \/ (MeetsLower /\ q = p)
    <3>1. j <= a /\ a < j + size'[j]
      <4>1. CASE q = block
        BY <1>1, <1>2, <1>3, <1>4, <1>6, <1>8, <2>1, <4>1
      <4>2. CASE MeetsUpper /\ q = n
        BY <1>1, <1>2, <1>3, <1>4, <1>6, <1>8, <2>1, <4>2
      <4>3. CASE MeetsLower /\ q = p
        <5>1. j = p
          BY <1>9, <1>10, <4>3
        <5>2. p + size[p] = block /\ block <= j + size'[j]
          BY <1>1, <1>2, <1>3, <1>4, <1>6, <1>8, <4>3
        <5> QED
          BY <1>2, <1>3, <1>7, <2>1, <4>3, <5>1, <5>2
      <4> QED
        BY <2>2, <4>1, <4>2, <4>3
    <3>2. j \in Blocks'
      BY <1>1 DEF Blocks
    <3> QED
      BY <3>1, <3>2
  <2>3. CASE ~(q = block \/ (MeetsUpper /\ q = n) \/ (MeetsLower /\ q = p))
    <3>1. q \notin Absorbed /\ q # j
      BY <1>4, <1>9, <1>10, <2>3
    <3>2. q \in Blocks' /\ size'[q] = size[q]
      BY <1>1, <1>2, <3>1 DEF Blocks
    <3> QED
      BY <2>1, <3>2
  <2> QED
    BY <2>2, <2>3
<1>12. ASSUME NEW q \in DOMAIN next' \ {Base}
       PROVE  q + size'[q] \notin DOMAIN next'
  <2>1. CASE q = j
    <3>1. CASE MeetsUpper
      <4>1. n + size[n] \notin DOMAIN next
        BY <1>2, <3>1 DEF NoAdjacentFree, Blocks
      <4>2. n + size[n] # block
        BY <1>2, <1>3, <1>8, <3>1
      <4> QED
        BY <1>2, <1>6, <2>1, <3>1, <4>1, <4>2
    <3>2. CASE ~MeetsUpper
      <4>1. block + size[block] \notin DOMAIN next
        BY <1>4, <1>5, <3>2
      <4>2. block + size[block] # block
        BY <1>2, <1>3
      <4> QED
        BY <1>2, <1>6, <2>1, <3>2, <4>1, <4>2
    <3> QED
      BY <3>1, <3>2
  <2>2. CASE q # j
    <3>1. q \in DOMAIN next
      <4>1. q # block
        BY <1>2, <1>4, <1>9, <1>10, <2>2
      <4> QED
        BY <1>2, <4>1
    <3>2. q \in DOMAIN size' /\ size'[q] = size[q]
      BY <1>0, <1>1, <1>2, <2>2, <3>1 DEF HeadersInv
    <3>3. q + size[q] \notin DOMAIN next
      BY <3>1 DEF NoAdjacentFree
    <3>4. CASE q + size[q] = block
      <4>1. q = p
        BY <1>5, <3>1, <3>4
      <4> QED
        BY <1>2, <1>4, <3>2, <3>4, <4>1
    <3>5. CASE q + size[q] # block
      BY <1>2, <3>2, <3>3, <3>5
    <3> QED
      BY <3>4, <3>5
  <2> QED
    BY <2>1, <2>2
<1>13. ASSUME NEW q \in Blocks' PROVE q \in DOMAIN next' \/ q + 1 \in DOMAIN live'
  <2>1. q \in Blocks /\ q \notin Absorbed
    BY <1>2, <1>13 DEF Blocks
  <2>2. CASE q = block \/ q \in DOMAIN next
    BY <1>2, <2>1, <2>2
  <2>3. CASE q # block /\ q + 1 \in DOMAIN live
    BY <2>3
  <2> QED
    BY <2>1, <2>2, <2>3 DEF OwnedInv
<1> QED
  BY <1>11, <1>12, <1>13 DEF CoverInv, NoAdjacentFree

(* Every step preserves the four.  A search begins with nothing behind it.  *)
TileParts == CoverInv /\ OwnedInv /\ NoAdjacentFree /\ SearchInv

LEMMA NothingPassed ==
  ASSUME HeadersInv, freep \in DOMAIN next, prevp = freep
  PROVE  SearchInv
  BY DEF SearchInv, Passed, HeadersInv, List

LEMMA MallocStartsTile ==
  ASSUME TileInv, IInv', pc = "program", NEW nbytes \in Nat, Malloc(nbytes)
  PROVE  TileParts'
<1> USE DEF TileInv, IInv
<1>1. /\ refill' = refill /\ ~refill /\ free_pos' = free_pos /\ live' = live /\ pc' = "malloc"
      /\ prevp' = freep'
  BY DEF Malloc, PoolInv
<1>2. Edge' = Edge
  BY <1>1 DEF Edge
<1>3. SearchInv'
  BY <1>1, NothingPassed DEF BaseInv, SearchInv, Passed, HeadersInv, List
<1>4. CASE freep = Null
  <2>1. DOMAIN next = {} /\ DOMAIN size = {}
    BY <1>4, LayoutAssumption DEF BaseInv, HeadersInv, Blocks, Null, List
  <2>2. next' = [y \in {Base} |-> Base] /\ size' = [y \in {Base} |-> 0]
    BY <1>4, <2>1 DEF Malloc, With
  <2>3. DOMAIN next' = {Base} /\ DOMAIN size' = {Base} /\ Blocks' = {} /\ Blocks = {}
    BY <2>1, <2>2 DEF Blocks
  <2>4. CoverInv' /\ OwnedInv' /\ NoAdjacentFree'
    BY <1>2, <2>3 DEF CoverInv, OwnedInv, NoAdjacentFree
  <2> QED
    BY <1>3, <2>4 DEF TileParts
<1>5. CASE freep # Null
  <2>1. UNCHANGED <<next, size>>
    BY <1>5 DEF Malloc
  <2>2. Blocks' = Blocks
    BY <2>1 DEF Blocks
  <2> QED
    BY <1>1, <1>2, <1>3, <2>1, <2>2 DEF CoverInv, OwnedInv, NoAdjacentFree, TileParts
<1> QED
  BY <1>4, <1>5

LEMMA ProgramTile ==
  ASSUME Modest, TileInv, IInv', Program
  PROVE  TileParts'
<1> USE DEF TileInv
<1>1. ASSUME NEW n \in Sizes, CallMalloc(n) PROVE TileParts'
  BY <1>1, MallocStartsTile, CallAssumption DEF CallMalloc
<1>2. ASSUME NEW nmemb \in Counts, NEW n \in Sizes, CallCalloc(nmemb, n) PROVE TileParts'
  <2>1. nmemb \in Nat /\ n \in Nat /\ nmemb * n \in Nat
    BY CallAssumption, LayoutAssumption
  <2>2. nmemb % Field = nmemb /\ n % Field = n /\ WithoutWrapping(nmemb * n)
    BY DEF Modest
  <2>3. (nmemb * n) % Word = nmemb * n
    BY <2>1, <2>2, LayoutAssumption DEF WithoutWrapping
  <2>4. pc = "program" /\ Malloc(nmemb * n)
    BY <1>2, <2>2, <2>3 DEF CallCalloc
  <2> QED
    BY <2>1, <2>4, MallocStartsTile
<1>3. ASSUME NEW align \in Alignments, NEW len \in Sizes, CallMemalign(align, len) PROVE TileParts'
  <2>1. align <= HeaderSize
    BY <1>3 DEF CallMemalign, Modest
  <2>2. pc = "program" /\ Malloc(len)
    BY <1>3, <2>1 DEF CallMemalign
  <2> QED
    BY <2>2, MallocStartsTile, CallAssumption
<1>4. ASSUME NEW ptr \in DOMAIN live, CallFree(ptr) PROVE TileParts'
  <2>1. /\ UNCHANGED <<next, size, free_pos, refill, nquantas>>
        /\ DOMAIN live' = DOMAIN live \ {ptr}
        /\ block' = ptr - 1 /\ pc' = "free" /\ pc = "program"
    BY <1>4 DEF CallFree, Without, Restrict
  <2>2. Edge' = Edge /\ Blocks' = Blocks
    BY <2>1 DEF Edge, PoolRequest, Blocks
  <2>3. ptr \in Nat /\ \A q \in Blocks : q \in Nat
    BY DEF IInv, HeadersInv, BlocksInv
  <2>4. \A q \in Blocks : q + 1 = ptr => q = ptr - 1
    BY <2>3
  <2> QED
    BY <2>1, <2>2, <2>4 DEF CoverInv, OwnedInv, NoAdjacentFree, SearchInv, TileParts
<1> QED
  BY <1>1, <1>2, <1>3, <1>4 DEF Program

LEMMA TakeBlockTile ==
  ASSUME TileInv, TakeBlock
  PROVE  TileParts'
<1> USE DEF TileInv, IInv
<1>1. /\ UNCHANGED <<size, free_pos, nquantas, refill, live>>
      /\ next' = Without([next EXCEPT ![prevp] = next[p]], {p})
      /\ block' = p /\ pc' = "return" /\ pc = "malloc"
  BY DEF TakeBlock
<1>2. DOMAIN next' = DOMAIN next \ {p}
  BY <1>1 DEF Without, Restrict
<1>3. Edge' = Edge /\ Blocks' = Blocks
  BY <1>1 DEF Edge, PoolRequest, Blocks
<1> QED
  BY <1>1, <1>2, <1>3 DEF CoverInv, OwnedInv, NoAdjacentFree, SearchInv, TileParts

LEMMA TakeTailTile ==
  ASSUME TileInv, TakeTail
  PROVE  TileParts'
<1> DEFINE t == p + size[p] - nquantas
<1> USE DEF TileInv, IInv
<1>1. /\ UNCHANGED <<next, free_pos, nquantas, refill, live>>
      /\ size' = With([size EXCEPT ![p] = size[p] - nquantas], t, nquantas)
      /\ block' = t /\ pc' = "return" /\ pc = "malloc"
      /\ size[p] >= nquantas /\ size[p] # nquantas
  BY DEF TakeTail, TailAt, Fits
<1>2. /\ List(next) /\ p \in DOMAIN next /\ DOMAIN next \subseteq DOMAIN size
      /\ freep # Null /\ Base \in DOMAIN next /\ size[Base] = 0
      /\ nquantas \in Nat \ {0} /\ ~refill
      /\ size \in [DOMAIN size -> Nat]
  BY <1>1 DEF HeadersInv, BaseInv, CallInv, PoolInv, Looking, List
<1>3. p \in Blocks
  BY <1>1, <1>2 DEF Blocks
<1>4. /\ p \in Nat /\ Pool <= p /\ size[p] \in Nat /\ p + size[p] <= Edge
      /\ Edge \in Nat /\ Edge <= Pool + PoolQuantas /\ PoolQuantas \in Nat
  BY <1>2, <1>3, EdgeInPool DEF BlocksInv, Blocks
<1>5. t \in Nat /\ p < t /\ t + nquantas = p + size[p] /\ t \in Pool .. (Pool + PoolQuantas - 1)
  BY <1>1, <1>2, <1>4, LayoutAssumption
<1>6. t \notin DOMAIN size /\ t # Base
  BY <1>2, <1>3, <1>4, <1>5, LayoutAssumption DEF BlocksInv, Blocks
<1>7. /\ DOMAIN size' = DOMAIN size \cup {t}
      /\ size'[t] = nquantas /\ size'[p] = size[p] - nquantas
      /\ \A q \in DOMAIN size \ {p} : size'[q] = size[q]
  BY <1>1, <1>2, <1>5, <1>6 DEF With
<1>8. Edge' = Edge /\ Blocks' = Blocks \cup {t}
  BY <1>1, <1>6, <1>7 DEF Edge, Blocks, PoolRequest
<1> HIDE DEF t
<1>9. CoverInv'
  <2>1. ASSUME NEW a \in Pool .. (Edge - 1)
        PROVE  \E q \in Blocks' : q <= a /\ a < q + size'[q]
    <3>1. PICK q \in Blocks : q <= a /\ a < q + size[q]
      BY DEF CoverInv
    <3>2. CASE q # p
      BY <1>7, <1>8, <3>1, <3>2 DEF Blocks
    <3>3. CASE q = p /\ a < t
      <4>1. p + size'[p] = t
        BY <1>2, <1>4, <1>5, <1>7
      <4> QED
        BY <1>3, <1>8, <3>1, <3>3, <4>1
    <3>4. CASE q = p /\ ~(a < t)
      <4>1. t <= a /\ a < t + size'[t]
        BY <1>4, <1>5, <1>7, <3>1, <3>4, LayoutAssumption
      <4> QED
        BY <1>8, <4>1
    <3> QED
      BY <3>2, <3>3, <3>4
  <2> QED
    BY <1>1, <1>8, <2>1 DEF CoverInv
<1>10. OwnedInv'
  BY <1>1, <1>8 DEF OwnedInv
<1>11. NoAdjacentFree'
  <2>1. ASSUME NEW q \in DOMAIN next \ {Base} PROVE q + size'[q] \notin DOMAIN next
    <3>1. CASE q = p
      <4>1. p + size'[p] = t
        BY <1>2, <1>4, <1>5, <1>7
      <4> QED
        BY <1>2, <1>6, <3>1, <4>1
    <3>2. CASE q # p
      BY <1>2, <1>7, <3>2 DEF NoAdjacentFree
    <3> QED
      BY <3>1, <3>2
  <2> QED
    BY <1>1, <2>1 DEF NoAdjacentFree
<1>12. SearchInv'
  BY <1>1 DEF SearchInv
<1> QED
  BY <1>9, <1>10, <1>11, <1>12 DEF TileParts

(* The next header on the circle is the only one that is passed anew.      *)
LEMMA AdvanceTile ==
  ASSUME TileInv, Advance
  PROVE  TileParts'
<1> USE DEF TileInv, IInv
<1>1. /\ UNCHANGED <<next, size, freep, free_pos, pc, nquantas, block, refill, live>>
      /\ prevp' = p /\ pc = "malloc" /\ ~(size[p] >= nquantas) /\ p # freep
  BY DEF Advance, Fits, Searched
<1>2. Edge' = Edge /\ Blocks' = Blocks
  BY <1>1 DEF Edge, PoolRequest, Blocks
<1>3. /\ List(next) /\ prevp \in DOMAIN next /\ p = next[prevp] /\ p \in DOMAIN next
      /\ freep \in DOMAIN next /\ DOMAIN next \subseteq Int
      /\ size[p] \in Nat /\ nquantas \in Nat
  BY <1>1 DEF HeadersInv, BaseInv, CallInv, List
<1>4. \/ p > prevp /\ \A r \in DOMAIN next : r > prevp => p <= r
      \/ \A r \in DOMAIN next : r <= prevp /\ p <= r
  BY <1>3 DEF List, Ordered
<1>5. ASSUME NEW q \in DOMAIN next, q # p, IF freep <= p THEN freep < q /\ q <= p ELSE q > freep \/ q <= p
      PROVE  IF freep <= prevp THEN freep < q /\ q <= prevp ELSE q > freep \/ q <= prevp
  <2>1. q \in Int /\ p \in Int /\ prevp \in Int /\ freep \in Int
    BY <1>3
  <2>2. \/ p > prevp /\ (q > prevp => p <= q) /\ (freep > prevp => p <= freep)
        \/ q <= prevp /\ p <= q /\ freep <= prevp /\ p <= freep
    BY <1>3, <1>4
  <2> QED
    BY <1>1, <1>5, <2>1, <2>2
<1>6. ASSUME NEW q \in DOMAIN next, IF freep <= p THEN freep < q /\ q <= p ELSE q > freep \/ q <= p
      PROVE  size[q] < nquantas
  <2>1. CASE q = p
    BY <1>1, <1>3, <2>1
  <2>2. CASE q # p
    BY <1>1, <1>5, <1>6, <2>2 DEF SearchInv, Passed
  <2> QED
    BY <2>1, <2>2
<1>7. SearchInv'
  BY <1>1, <1>6 DEF SearchInv, Passed
<1> QED
  BY <1>1, <1>2, <1>7 DEF CoverInv, OwnedInv, NoAdjacentFree, TileParts

LEMMA ExtendTile ==
  ASSUME Modest, TileInv, Extend
  PROVE  TileParts'
<1> USE DEF TileInv
<1>1. /\ UNCHANGED <<next, live>> /\ pc' = "free" /\ pc = "malloc"
  BY DEF Extend
<1>2. /\ Edge' = Edge + PoolRequest /\ PoolRequest \in Nat \ {0}
      /\ block' = Edge /\ Edge \notin DOMAIN size /\ Edge # Base
      /\ DOMAIN size' = DOMAIN size \cup {Edge} /\ size'[Edge] = PoolRequest
      /\ \A q \in DOMAIN size : size'[q] = size[q]
  BY ExtendStep
<1>3. Blocks' = Blocks \cup {Edge} /\ Blocks \subseteq DOMAIN size
  BY <1>2 DEF Blocks
<1>4. Edge \in Nat /\ Pool \in Nat
  BY EdgeInPool, LayoutAssumption DEF IInv
<1> HIDE DEF Edge
<1>5. CoverInv'
  <2>1. ASSUME NEW a \in Pool .. (Edge' - 1)
        PROVE  \E q \in Blocks' : q <= a /\ a < q + size'[q]
    <3>1. CASE a < Edge
      <4>1. a \in Pool .. (Edge - 1)
        BY <1>2, <1>4, <3>1
      <4>2. PICK q \in Blocks : q <= a /\ a < q + size[q]
        BY <4>1 DEF CoverInv
      <4> QED
        BY <1>2, <1>3, <4>2
    <3>2. CASE ~(a < Edge)
      <4>1. Edge <= a /\ a < Edge + size'[Edge]
        BY <1>2, <1>4, <3>2
      <4> QED
        BY <1>3, <4>1
    <3> QED
      BY <3>1, <3>2
  <2> QED
    BY <2>1 DEF CoverInv
<1>6. OwnedInv'
  BY <1>1, <1>2, <1>3 DEF OwnedInv
<1>7. NoAdjacentFree'
  BY <1>1, <1>2 DEF NoAdjacentFree, IInv, HeadersInv
<1>8. SearchInv'
  BY <1>1 DEF SearchInv
<1> QED
  BY <1>5, <1>6, <1>7, <1>8 DEF TileParts

(* A step that leaves the blocks and the lists as they are. *)
LEMMA QuietTile ==
  ASSUME TileInv, UNCHANGED <<next, size, Edge>>,
         \A q \in Blocks :
           q + 1 \in DOMAIN live \/ (pc \in {"free", "return"} /\ q = block) =>
             q + 1 \in DOMAIN live' \/ (pc' \in {"free", "return"} /\ q = block'),
         pc' # "malloc"
  PROVE  TileParts'
<1>1. Blocks' = Blocks
  BY DEF Blocks
<1> QED
  BY <1>1 DEF TileInv, CoverInv, OwnedInv, NoAdjacentFree, SearchInv, TileParts

LEMMA FailTile ==
  ASSUME TileInv, Fail
  PROVE  TileParts'
<1>1. /\ UNCHANGED <<next, size, free_pos, live>>
      /\ pc = "malloc" /\ pc' = "program" /\ ~refill /\ ~refill'
  BY DEF Fail, Leave, TileInv, IInv, PoolInv
<1>2. Edge' = Edge
  BY <1>1 DEF Edge
<1> QED
  BY <1>1, <1>2, QuietTile

LEMMA SeekTile ==
  ASSUME TileInv, Seek
  PROVE  TileParts'
<1>1. /\ UNCHANGED <<next, size, free_pos, pc, nquantas, block, refill, live>> /\ pc = "free"
  BY DEF Seek
<1>2. Edge' = Edge
  BY <1>1 DEF Edge, PoolRequest
<1> QED
  BY <1>1, <1>2, QuietTile

LEMMA ReturnTile ==
  ASSUME Modest, TileInv, Return
  PROVE  TileParts'
<1>1. /\ live' = With(live, block + 1, asked.bytes) /\ UNCHANGED size
  BY ReturnStep DEF TileInv
<1>2. UNCHANGED <<next, free_pos>> /\ pc = "return" /\ ~refill /\ ~refill' /\ pc' = "program"
  <2>1. asked.align = 0
    BY DEF TileInv, IInv, CallInv
  <2> QED
    BY <2>1 DEF Return, Leave, TileInv, IInv, PoolInv
<1>3. Edge' = Edge
  BY <1>2 DEF Edge
<1>4. DOMAIN live' = DOMAIN live \cup {block + 1}
  BY <1>1 DEF With
<1> QED
  BY <1>1, <1>2, <1>3, <1>4, QuietTile

LEMMA FreeTile ==
  ASSUME TileInv, Free
  PROVE  TileParts'
<1> USE DEF TileInv, IInv
<1>1. Insert /\ UNCHANGED <<free_pos, live>> /\ ~refill /\ ~refill' /\ pc = "free" /\ pc' = "program" /\ Between(p)
  BY DEF Free, Leave
<1>2. Inserting /\ freep # Null
  BY <1>1 DEF Inserting, CallInv, BaseInv
<1>3. Edge' = Edge
  BY <1>1 DEF Edge
<1>4. CoverInv' /\ NoAdjacentFree' /\ \A q \in Blocks' : q \in DOMAIN next' \/ q + 1 \in DOMAIN live'
  BY <1>1, <1>2, <1>3, InsertTiles
<1> QED
  BY <1>1, <1>4 DEF OwnedInv, SearchInv, TileParts

LEMMA RefillTile ==
  ASSUME Modest, TileInv, Refill
  PROVE  TileParts'
<1> USE DEF TileInv
<1>1. /\ Insert /\ refill /\ pc = "free" /\ Between(p) /\ live' = live
      /\ prevp' = freep' /\ pc' = "malloc"
  BY DEF Refill
<1>2. Inserting /\ freep # Null
  BY <1>1 DEF Inserting, CallInv, BaseInv, IInv
<1>3. Edge' = Edge /\ IInv'
  BY RefillStep
<1>4. CoverInv' /\ NoAdjacentFree' /\ \A q \in Blocks' : q \in DOMAIN next' \/ q + 1 \in DOMAIN live'
  BY <1>1, <1>2, <1>3, InsertTiles
<1>5. SearchInv'
  BY <1>1, <1>3, NothingPassed DEF SearchInv, Passed, IInv, HeadersInv, List, BaseInv
<1> QED
  BY <1>4, <1>5 DEF OwnedInv, TileParts

LEMMA StutterTile ==
  ASSUME TileInv, UNCHANGED vars
  PROVE  TileParts'
<1>1. UNCHANGED <<next, size, freep, free_pos, pc, prevp, p, nquantas, block, refill, asked, live>>
  BY DEF vars, locals
<1>2. Edge' = Edge /\ Blocks' = Blocks
  BY <1>1 DEF Edge, PoolRequest, Blocks
<1> QED
  BY <1>1, <1>2 DEF TileInv, CoverInv, OwnedInv, NoAdjacentFree, SearchInv, Passed, TileParts

(* The second inductive invariant holds in every reachable state.          *)
THEOREM TileInvariance ==
  ASSUME Modest
  PROVE  Spec => []TileInv
<1>1. Init => TileInv
  <2>1. ASSUME Init PROVE TileParts
    <3>1. DOMAIN next = {} /\ DOMAIN size = {} /\ free_pos = 0 /\ refill = FALSE /\ pc = "program"
      BY <2>1 DEF Init
    <3>2. 0 \div HeaderSize = 0
      BY LayoutAssumption
    <3>3. Edge = Pool /\ Blocks = {}
      BY <3>1, <3>2, LayoutAssumption DEF Edge, Blocks
    <3> QED
      BY <3>1, <3>3, LayoutAssumption DEF TileParts, CoverInv, OwnedInv, NoAdjacentFree, SearchInv
  <2> QED
    BY <2>1, InitStep DEF TileInv, TileParts
<1>2. TileInv /\ [Next]_vars => TileInv'
  <2> SUFFICES ASSUME TileInv, [Next]_vars PROVE TileInv'
    OBVIOUS
  <2>1. IInv'
    BY StepKeeps, StutterKeeps DEF TileInv
  <2>2. ASSUME Program PROVE TileParts'
    BY <2>1, <2>2, ProgramTile
  <2>3. ASSUME Allocator PROVE TileParts'
    BY <2>3, TakeBlockTile, TakeTailTile, AdvanceTile, ExtendTile, FailTile, SeekTile, FreeTile, RefillTile, ReturnTile
       DEF Allocator
  <2>4. ASSUME UNCHANGED vars PROVE TileParts'
    BY <2>4, StutterTile
  <2>5. TileParts'
    BY <2>2, <2>3, <2>4 DEF Next
  <2> QED
    BY <2>1, <2>5 DEF TileInv, TileParts
<1> QED
  BY <1>1, <1>2, PTL DEF Spec

(* Between calls the used part of the pool is tiled by the blocks of the   *)
(* program and those of the free list, of which no two are adjacent:       *)
(* splitting, merging and taking from the pool lose no quanta and hand     *)
(* none out twice.                                                         *)
THEOREM HeapStaysTiled ==
  ASSUME Modest
  PROVE  Spec => []HeapTiled
<1>1. ASSUME TileInv PROVE HeapTiled
  <2> DEFINE held == {ptr - 1 : ptr \in DOMAIN live}
             free == DOMAIN next \ {Base}
  <2> USE <1>1 DEF TileInv, IInv
  <2>1. ASSUME pc = "program"
        PROVE  /\ held \cap free = {}
               /\ \A q, r \in held \cup free : q # r => Extent(q) \cap Extent(r) = {}
               /\ UNION {Extent(q) : q \in held \cup free} = Pool .. (Pool + free_pos \div HeaderSize - 1)
    <3>1. ~refill
      BY <2>1 DEF PoolInv
    <3>2. /\ Edge = Pool + free_pos \div HeaderSize /\ Edge \in Nat /\ Pool \in Nat
          /\ free_pos \div HeaderSize \in Nat
      <4>1. Edge \in Nat /\ free_pos \div HeaderSize \in Nat
        BY EdgeInPool, DivMonotonic, LayoutAssumption DEF PoolInv
      <4> QED
        BY <3>1, <4>1, LayoutAssumption DEF Edge
    <3>3. /\ \A q \in Blocks : q \in Nat /\ size[q] \in Nat \ {0} /\ Pool <= q /\ q + size[q] <= Edge
          /\ \A q, r \in Blocks : q < r => q + size[q] <= r
      BY DEF BlocksInv, HeadersInv, Blocks
    <3>4. /\ \A ptr \in DOMAIN live : ptr \in Nat /\ ptr - 1 \in Blocks \ DOMAIN next
          /\ DOMAIN next \subseteq DOMAIN size
      BY DEF HeadersInv
    <3>5. held \cup free = Blocks
      <4>1. held \cup free \subseteq Blocks
        BY <3>4 DEF Blocks
      <4>2. ASSUME NEW q \in Blocks PROVE q \in held \cup free
        <5>1. q \in DOMAIN next \/ q + 1 \in DOMAIN live
          BY <2>1 DEF OwnedInv
        <5>2. q = (q + 1) - 1
          BY <3>3
        <5> QED
          BY <5>1, <5>2 DEF Blocks
      <4> QED
        BY <4>1, <4>2
    <3>6. held \cap free = {}
      BY <3>4
    <3> HIDE DEF held, free
    <3>7. ASSUME NEW q \in Blocks, NEW r \in Blocks, q # r PROVE Extent(q) \cap Extent(r) = {}
      <4>1. q \in Nat /\ r \in Nat /\ size[q] \in Nat /\ size[r] \in Nat
            /\ (q + size[q] <= r \/ r + size[r] <= q)
        BY <3>3, <3>7
      <4> QED
        BY <4>1 DEF Extent
    <3>8. UNION {Extent(q) : q \in Blocks} = Pool .. (Edge - 1)
      <4>1. ASSUME NEW q \in Blocks PROVE Extent(q) \subseteq Pool .. (Edge - 1)
        BY <3>2, <3>3 DEF Extent
      <4>2. ASSUME NEW a \in Pool .. (Edge - 1) PROVE \E q \in Blocks : a \in Extent(q)
        <5>1. PICK q \in Blocks : q <= a /\ a < q + size[q]
          BY DEF CoverInv
        <5>2. q \in Nat /\ size[q] \in Nat /\ a \in Int
          BY <3>2, <3>3
        <5> QED
          BY <5>1, <5>2 DEF Extent
      <4> QED
        BY <4>1, <4>2
    <3>9. UNION {Extent(q) : q \in held \cup free} = Pool .. (Pool + free_pos \div HeaderSize - 1)
      <4>1. Pool .. (Edge - 1) = Pool .. (Pool + free_pos \div HeaderSize - 1)
        <5>1. Edge - 1 = Pool + free_pos \div HeaderSize - 1
          BY <3>2
        <5> QED
          BY <5>1
      <4>2. UNION {Extent(q) : q \in held \cup free} = UNION {Extent(q) : q \in Blocks}
        BY <3>5, Zenon
      <4> QED
        BY <3>8, <4>1, <4>2
    <3> QED
      BY <3>5, <3>6, <3>7, <3>9
  <2> QED
    BY <2>1 DEF HeapTiled, Tiled
<1> QED
  BY <1>1, TileInvariance, PTL

(* malloc gives up only when no block of the free list is big enough: the  *)
(* search that comes back to freep has met every header, wherever it began.*)
THEOREM FailureMeansFull ==
  ASSUME Modest
  PROVE  Spec => FailsOnlyWhenFull
<1>1. ASSUME TileInv, Fail PROVE \A q \in DOMAIN next : size[q] < nquantas
  <2> USE <1>1 DEF TileInv, IInv
  <2>1. pc = "malloc" /\ ~(size[p] >= nquantas) /\ p = freep
    BY DEF Fail, Fits, Searched
  <2>2. /\ List(next) /\ prevp \in DOMAIN next /\ p = next[prevp] /\ p \in DOMAIN next
        /\ DOMAIN next \subseteq Int
        /\ size[p] \in Nat /\ nquantas \in Nat
    BY <2>1 DEF HeadersInv, CallInv, List
  <2>3. \/ p > prevp /\ \A r \in DOMAIN next : r > prevp => p <= r
        \/ \A r \in DOMAIN next : r <= prevp /\ p <= r
    BY <2>2 DEF List, Ordered
  <2>4. ASSUME NEW q \in DOMAIN next PROVE size[q] < nquantas
    <3>1. CASE q = p
      BY <2>1, <2>2, <3>1
    <3>2. CASE q # p
      <4>1. q \in Int /\ p \in Int /\ prevp \in Int
        BY <2>2
      <4>2. \/ p > prevp /\ (q > prevp => p <= q)
            \/ q <= prevp /\ p <= q /\ p <= prevp
        BY <2>2, <2>3
      <4>3. Passed(q)
        BY <2>1, <3>2, <4>1, <4>2 DEF Passed
      <4> QED
        BY <2>1, <4>3 DEF SearchInv
    <3> QED
      BY <3>1, <3>2
  <2> QED
    BY <2>4
<1>2. TileInv /\ [Next]_vars => [Fail => \A q \in DOMAIN next : size[q] < nquantas]_vars
  BY <1>1
<1> QED
  BY <1>2, TileInvariance, PTL DEF Spec, FailsOnlyWhenFull
===============================================================================
