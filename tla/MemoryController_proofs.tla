------------------------ MODULE MemoryController_proofs ------------------------
(* Proofs about the memory controllers: for any number of channels, banks,  *)
(* accelerators and tasks.                                                  *)
EXTENDS MemoryController, FiniteSetTheorems, SequenceTheorems, TLAPS

-------------------------------------------------------------------------------
(* Arithmetic. *)

LEMMA DivOfSum ==
  ASSUME NEW n \in Nat \ {0}, NEW g \in Nat, NEW l \in 0 .. (n - 1)
  PROVE  (g * n + l) \div n = g /\ (g * n + l) % n = l
  OBVIOUS

LEMMA SplitIndex ==
  ASSUME NEW n \in Nat \ {0}, NEW m \in Nat \ {0}, NEW i \in 0 .. (n * m - 1)
  PROVE  /\ i \div n \in 0 .. (m - 1) /\ i % n \in 0 .. (n - 1)
         /\ i = (i \div n) * n + (i % n)
<1>1. i \div n \in Nat /\ i % n \in 0 .. (n - 1) /\ i = (i \div n) * n + (i % n)
  <2>1. i \in Nat
    OBVIOUS
  <2>2. i % n \in 0 .. (n - 1)
    BY <2>1
  <2>3. i \div n \in Nat
    BY <2>1
  <2>4. i = n * (i \div n) + (i % n)
    BY <2>1
  <2>5. n * (i \div n) = (i \div n) * n
    BY <2>3
  <2> QED
    BY <2>2, <2>3, <2>4, <2>5
<1>2. ASSUME i \div n >= m PROVE FALSE
  <2> DEFINE g == i \div n
  <2>1. g \in Nat /\ g >= m /\ i >= g * n
    BY <1>1, <1>2
  <2> HIDE DEF g
  <2>2. g * n >= m * n
    BY <2>1
  <2> QED
    BY <2>1, <2>2
<1> QED
  BY <1>1, <1>2

LEMMA JoinIndex ==
  ASSUME NEW n \in Nat \ {0}, NEW m \in Nat \ {0}, NEW g \in 0 .. (m - 1), NEW l \in 0 .. (n - 1)
  PROVE  /\ g * n + l \in 0 .. (n * m - 1)
         /\ (g * n + l) \div n = g /\ (g * n + l) % n = l
<1>1. g * n <= (m - 1) * n /\ g * n \in Nat /\ (m - 1) * n = m * n - n /\ m * n = n * m
  OBVIOUS
<1> QED
  BY <1>1, DivOfSum

(* Banks are the pairs of a channel and a lane, accelerators those of a     *)
(* channel and an index.                                                    *)
LEMMA Sizes ==
  /\ RATIO \in Nat \ {0} /\ ACC_RATIO \in Nat \ {0} /\ NUM_CHANNEL \in Nat \ {0}
  /\ NUM_BANK \in Nat \ {0} /\ NUM_ACC \in Nat \ {0}
  /\ NUM_BANK = RATIO * NUM_CHANNEL /\ NUM_ACC = ACC_RATIO * NUM_CHANNEL
<1>1. PICK k \in 2 .. NUM_BANK : NUM_BANK = k * NUM_CHANNEL
  BY SizesAssumption
<1>2. PICK j \in 1 .. NUM_ACC : NUM_ACC = j * NUM_CHANNEL
  BY SizesAssumption
<1>3. k \in Nat \ {0} /\ j \in Nat \ {0} /\ NUM_CHANNEL \in Nat \ {0} /\ NUM_BANK \in Nat \ {0} /\ NUM_ACC \in Nat \ {0}
  BY SizesAssumption
<1>4. (k * NUM_CHANNEL + 0) \div NUM_CHANNEL = k /\ (j * NUM_CHANNEL + 0) \div NUM_CHANNEL = j
  BY <1>3, DivOfSum
<1>5. RATIO = k /\ ACC_RATIO = j
  BY <1>1, <1>2, <1>3, <1>4 DEF RATIO, ACC_RATIO
<1> QED
  BY <1>1, <1>2, <1>3, <1>5

LEMMA BankIsPair ==
  ASSUME NEW b \in Banks
  PROVE  /\ Group(b) \in Channels /\ Lane(b) \in 0 .. (RATIO - 1)
         /\ b = Group(b) * RATIO + Lane(b)
<1>1. b \in 0 .. (RATIO * NUM_CHANNEL - 1)
  BY Sizes DEF Banks
<1>2. /\ b \div RATIO \in 0 .. (NUM_CHANNEL - 1) /\ b % RATIO \in 0 .. (RATIO - 1)
      /\ b = (b \div RATIO) * RATIO + (b % RATIO)
  BY <1>1, Sizes, SplitIndex
<1> QED
  BY <1>2 DEF Channels, Group, Lane

LEMMA PairIsBank ==
  ASSUME NEW c \in Channels, NEW l \in 0 .. (RATIO - 1)
  PROVE  /\ c * RATIO + l \in Banks
         /\ Group(c * RATIO + l) = c /\ Lane(c * RATIO + l) = l
  BY Sizes, JoinIndex DEF Banks, Channels, Group, Lane

LEMMA SamePair ==
  ASSUME NEW b \in Banks, NEW d \in Banks, Group(b) = Group(d), Lane(b) = Lane(d)
  PROVE  b = d
  BY BankIsPair

LEMMA PairIsAccelerator ==
  ASSUME NEW c \in Channels, NEW k \in 0 .. (ACC_RATIO - 1)
  PROVE  c * ACC_RATIO + k \in Accelerators /\ (c * ACC_RATIO + k) \div ACC_RATIO = c
  BY Sizes, JoinIndex DEF Accelerators, Channels

LEMMA AcceleratorChannel ==
  ASSUME NEW a \in Accelerators
  PROVE  a \div ACC_RATIO \in Channels
  BY Sizes, SplitIndex DEF Accelerators, Channels

(* The ring of a lane. *)
LEMMA Ring ==
  ASSUME NEW b \in Banks
  PROVE  /\ Following(b) \in Banks /\ Previous(b) \in Banks
         /\ Previous(Following(b)) = b /\ Following(Previous(b)) = b
         /\ Lane(Following(b)) = Lane(b) /\ Lane(Previous(b)) = Lane(b)
<1> DEFINE R == RATIO
           N == NUM_BANK
<1>1. b \in Nat /\ b < N /\ R \in Nat \ {0} /\ N \in Nat \ {0} /\ R <= N
  <2>1. RATIO <= RATIO * NUM_CHANNEL
    BY Sizes
  <2> QED
    BY <2>1, Sizes DEF Banks
<1>2. Following(b) = IF b + R < N THEN b + R ELSE b + R - N
  <2> HIDE DEF R, N
  <2>1. (b + R) % N = IF b + R < N THEN b + R ELSE b + R - N
    BY <1>1
  <2> QED
    BY <2>1 DEF Following, R, N
<1>3. Previous(b) = IF b < R THEN N + b - R ELSE b - R
  <2> HIDE DEF R, N
  <2>1. (N + b - R) % N = IF b < R THEN N + b - R ELSE b - R
    BY <1>1
  <2> QED
    BY <2>1 DEF Previous, R, N
<1>4. Following(b) \in Banks /\ Previous(b) \in Banks
  <2> HIDE DEF R, N
  <2>1. Following(b) \in 0 .. (N - 1) /\ Previous(b) \in 0 .. (N - 1)
    BY <1>1, <1>2, <1>3
  <2> QED
    BY <2>1 DEF Banks, N
<1>5. Previous(Following(b)) = b
  <2> DEFINE f == Following(b)
  <2>1. f \in Nat /\ f < N
    BY <1>4, Sizes DEF Banks
  <2>2. f = IF b + R < N THEN b + R ELSE b + R - N
    BY <1>2
  <2> HIDE DEF R, N, f
  <2>3. (N + f - R) % N = b
    BY <1>1, <2>1, <2>2
  <2> QED
    BY <2>3 DEF Previous, R, N, f
<1>6. Following(Previous(b)) = b
  <2> DEFINE f == Previous(b)
  <2>1. f \in Nat /\ f < N
    BY <1>4, Sizes DEF Banks
  <2>2. f = IF b < R THEN N + b - R ELSE b - R
    BY <1>3
  <2> HIDE DEF R, N, f
  <2>3. (f + R) % N = b
    BY <1>1, <2>1, <2>2
  <2> QED
    BY <2>3 DEF Following, R, N, f
<1>7. ASSUME NEW d \in Banks PROVE Lane(Following(d)) = Lane(d)
  <2> DEFINE g == Group(d)
             l == Lane(d)
             M == NUM_CHANNEL
  <2>1. g \in 0 .. (M - 1) /\ l \in 0 .. (R - 1) /\ d = g * R + l /\ M \in Nat \ {0} /\ N = R * M
    BY BankIsPair, Sizes DEF Channels
  <2>2. Following(d) = (d + R) % N
    BY DEF Following
  <2> HIDE DEF R, N, g, l, M
  <2>3. d + R = (g + 1) * R + l
    BY <1>1, <2>1
  <2>4. CASE g + 1 < M
    <3>1. (g + 1) * R + l \in 0 .. (R * M - 1) /\ ((g + 1) * R + l) % R = l
      BY <1>1, <2>1, <2>4, JoinIndex
    <3>2. (d + R) % N = d + R
      BY <1>1, <2>1, <2>3, <3>1
    <3> QED
      BY <2>2, <2>3, <3>1, <3>2 DEF Lane, R, l
  <2>5. CASE ~(g + 1 < M)
    <3>1. d + R = N + l
      BY <1>1, <2>1, <2>3, <2>5
    <3>2. l < N
      BY <1>1, <2>1
    <3>3. (N + l) % N = l
      BY <1>1, <2>1, <3>2
    <3>4. l % R = l
      BY <1>1, <2>1
    <3> QED
      BY <2>2, <3>1, <3>3, <3>4 DEF Lane, R, l
  <2> QED
    BY <2>4, <2>5
<1> QED
  BY <1>4, <1>5, <1>6, <1>7

(* An arbiter selects at most one. *)
LEMMA SelectedOne ==
  ASSUME NEW n \in Nat \ {0}, NEW S \in SUBSET (0 .. (n - 1)), counter \in Nat,
         NEW i \in Selected(S, n), NEW j \in Selected(S, n)
  PROVE  i = j
<1> DEFINE k == counter % n
<1>1. k \in 0 .. (n - 1)
  OBVIOUS
<1>2. i \in 0 .. (n - 1) /\ j \in 0 .. (n - 1)
      /\ (n + i - k) % n <= (n + j - k) % n /\ (n + j - k) % n <= (n + i - k) % n
  BY DEF Selected
<1> HIDE DEF k
<1>3. (n + i - k) % n = IF i < k THEN n + i - k ELSE i - k
  BY <1>1, <1>2
<1>4. (n + j - k) % n = IF j < k THEN n + j - k ELSE j - k
  BY <1>1, <1>2
<1> QED
  BY <1>1, <1>2, <1>3, <1>4

-------------------------------------------------------------------------------
(* FIFOs without repetitions. *)

NoDup(f) == \A i, j \in DOMAIN f : f[i] = f[j] => i = j
Read(f, rd) == IF rd THEN {Head(f)} ELSE {}

LEMMA TailFifo ==
  ASSUME NEW S, NEW f \in Seq(S), NoDup(f), f # <<>>
  PROVE  /\ Tail(f) \in Seq(S) /\ NoDup(Tail(f)) /\ Head(f) \in Range(f)
         /\ Range(Tail(f)) = Range(f) \ {Head(f)}
<1>1. /\ Len(f) \in Nat \ {0} /\ DOMAIN f = 1 .. Len(f) /\ Head(f) = f[1]
      /\ Tail(f) \in Seq(S) /\ DOMAIN Tail(f) = 1 .. (Len(f) - 1)
      /\ \A i \in 1 .. (Len(f) - 1) : Tail(f)[i] = f[i + 1]
  BY HeadTailProperties, EmptySeq, LenProperties
<1>2. NoDup(Tail(f))
  <2>1. ASSUME NEW i \in 1 .. (Len(f) - 1), NEW j \in 1 .. (Len(f) - 1), Tail(f)[i] = Tail(f)[j] PROVE i = j
    <3>1. i + 1 \in DOMAIN f /\ j + 1 \in DOMAIN f /\ f[i + 1] = f[j + 1]
      BY <1>1, <2>1
    <3>2. i + 1 = j + 1
      BY <3>1 DEF NoDup
    <3> QED
      BY <1>1, <3>2
  <2> QED
    BY <1>1, <2>1 DEF NoDup
<1>3. ASSUME NEW x \in Range(Tail(f)) PROVE x \in Range(f) \ {Head(f)}
  <2>1. PICK i \in 1 .. (Len(f) - 1) : x = Tail(f)[i]
    BY <1>1 DEF Range
  <2>2. x = f[i + 1] /\ i + 1 \in DOMAIN f /\ i + 1 # 1 /\ 1 \in DOMAIN f
    BY <1>1, <2>1
  <2> QED
    BY <1>1, <2>2 DEF Range, NoDup
<1>4. ASSUME NEW x \in Range(f) \ {Head(f)} PROVE x \in Range(Tail(f))
  <2>1. PICK i \in DOMAIN f : x = f[i]
    BY DEF Range
  <2>2. i - 1 \in 1 .. (Len(f) - 1) /\ (i - 1) + 1 = i
    BY <1>1, <2>1
  <2>3. x = Tail(f)[i - 1]
    BY <1>1, <2>1, <2>2
  <2> QED
    BY <1>1, <2>2, <2>3 DEF Range
<1>5. Head(f) \in Range(f)
  BY <1>1 DEF Range
<1> QED
  BY <1>1, <1>2, <1>3, <1>4, <1>5

LEMMA AppendFifo ==
  ASSUME NEW S, NEW f \in Seq(S), NoDup(f), NEW x \in S, x \notin Range(f)
  PROVE  /\ Append(f, x) \in Seq(S) /\ NoDup(Append(f, x))
         /\ Range(Append(f, x)) = Range(f) \cup {x}
<1> DEFINE g == Append(f, x)
<1>1. /\ Len(f) \in Nat /\ DOMAIN f = 1 .. Len(f)
      /\ g \in Seq(S) /\ DOMAIN g = 1 .. (Len(f) + 1)
      /\ \A i \in 1 .. Len(f) : g[i] = f[i]
      /\ g[Len(f) + 1] = x
  BY AppendProperties, LenProperties
<1> HIDE DEF g
<1>2. \A i \in DOMAIN g : i \in DOMAIN f \/ i = Len(f) + 1
  BY <1>1
<1>3. \A i \in DOMAIN f : i \in DOMAIN g /\ g[i] = f[i] /\ f[i] # x
  BY <1>1 DEF Range
<1>4. NoDup(g)
  BY <1>1, <1>2, <1>3 DEF NoDup
<1>5. Len(f) + 1 \in DOMAIN g
  BY <1>1
<1>6. ASSUME NEW y \in Range(g) PROVE y \in Range(f) \cup {x}
  BY <1>1, <1>2, <1>3 DEF Range
<1>7. ASSUME NEW y \in Range(f) \cup {x} PROVE y \in Range(g)
  BY <1>1, <1>3, <1>5 DEF Range
<1> QED
  BY <1>1, <1>4, <1>6, <1>7 DEF g

(* What passes through a FIFO in a cycle. *)
LEMMA PassedFifo ==
  ASSUME NEW S, NEW f \in Seq(S), NoDup(f), NEW rd, rd => f # <<>>,
         NEW D, D \subseteq S, \A x, y \in D : x = y, D \cap Range(f) \subseteq Read(f, rd)
  PROVE  /\ Passed(f, rd, D) \in Seq(S) /\ NoDup(Passed(f, rd, D))
         /\ Range(Passed(f, rd, D)) = (Range(f) \ Read(f, rd)) \cup D
<1> DEFINE rest == IF rd THEN Tail(f) ELSE f
<1>1. /\ rest \in Seq(S) /\ NoDup(rest) /\ Range(rest) = Range(f) \ Read(f, rd)
  <2>1. CASE rd
    <3>1. rest = Tail(f) /\ Read(f, rd) = {Head(f)} /\ f # <<>>
      BY <2>1 DEF Read
    <3> HIDE DEF rest
    <3> QED
      BY <3>1, TailFifo
  <2>2. CASE ~rd
    BY <2>2 DEF Read
  <2> QED
    BY <2>1, <2>2
<1>2. Passed(f, rd, D) = IF D = {} THEN rest ELSE Append(rest, CHOOSE d \in D : TRUE)
  BY DEF Passed
<1> HIDE DEF rest
<1>3. CASE D = {}
  BY <1>1, <1>2, <1>3
<1>4. CASE D # {}
  <2>1. PICK x \in D : TRUE
    BY <1>4
  <2>2. D = {x}
    BY <2>1
  <2>3. (CHOOSE d \in D : TRUE) = x
    BY <2>2
  <2>4. x \in S /\ x \notin Range(rest)
    BY <1>1, <2>2
  <2>5. /\ Append(rest, x) \in Seq(S) /\ NoDup(Append(rest, x))
        /\ Range(Append(rest, x)) = Range(rest) \cup {x}
    BY <1>1, <2>4, AppendFifo
  <2> QED
    BY <1>1, <1>2, <1>4, <2>2, <2>3, <2>5
<1> QED
  BY <1>3, <1>4

-------------------------------------------------------------------------------
(* The inductive invariant. *)

(* What the tasks must not ask for: plain stores to a bank on which there   *)
(* are atomic operations.                                                   *)
StoresApart ==
  \A r, s \in Access : r.kind = "store" /\ s.kind = "atomic load" => r.bank # s.bank

TypesInv ==
  /\ wait \in [Accelerators -> Seq(Request)]
  /\ to_memory \in [Banks -> Seq(Request)]
  /\ from_memory \in [Banks -> Seq(Task)]
  /\ status \in [Banks -> {"S_0", "S_1", "S_2", "S_3", "S_4", "S_5"}]
  /\ top_register \in [Banks -> Request \cup {NoRequest}]
  /\ atomic_register \in [Banks -> Request \cup {NoRequest}]
  /\ counter \in 0 .. (RATIO * ACC_RATIO - 1)
  /\ request \in [Task -> Request \cup {NoRequest}]
  /\ owes \in [Task -> Banks \cup {NoBank}]

Current(r) == request[r.task] = r

QueuesInv ==
  /\ \A a \in Accelerators :
       NoDup(wait[a]) /\ \A r \in Range(wait[a]) : Current(r) /\ r.task[1] = a
  /\ \A b \in Banks :
       /\ NoDup(to_memory[b])
       /\ \A r \in Range(to_memory[b]) : Current(r) /\ Lane(r.bank) = Lane(b) /\ r.kind # "atomic store"
  /\ \A b \in Banks : NoDup(from_memory[b])

(* The atomic store that a bank keeps is for a lock; a bank that works does *)
(* what its state says.                                                     *)
BanksInv ==
  \A b \in Banks :
    /\ atomic_register[b] # NoRequest =>
         /\ Current(atomic_register[b]) /\ atomic_register[b].kind = "atomic store"
         /\ atomic_register[b].bank = b /\ status[b] \in Locked
    /\ Working(b) => top_register[b] # NoRequest /\ Current(top_register[b]) /\ top_register[b].bank = b
    /\ status[b] \in {"S_1", "S_2"} => top_register[b].kind # "atomic load"
    /\ status[b] \in Locked =>
         top_register[b] # NoRequest /\ top_register[b].kind \in {"load", "atomic load"}

(* A task that has done the load of an atomic operation asks for the store  *)
(* next, and for nothing else.                                              *)
TasksInv ==
  \A t \in Task :
    /\ request[t] # NoRequest =>
         /\ request[t].task = t
         /\ request[t].kind = "atomic store" => owes[t] = request[t].bank
         /\ request[t].kind # "atomic store" => owes[t] = NoBank /\ request[t] \in Access
    /\ owes[t] # NoBank => \E s \in Access : s.kind = "atomic load" /\ s.bank = owes[t]

(* l is the one place where the request of t is. *)
Nowhere == <<"none", 0>>
Place == {Nowhere} \cup ({"wait"} \X Accelerators) \cup ({"to", "atomic", "top", "from"} \X Banks)
Spot(t, l) ==
  /\ l = Nowhere <=> request[t] = NoRequest
  /\ \A a \in Accelerators : request[t] \in Range(wait[a]) <=> l = <<"wait", a>>
  /\ \A b \in Banks :
       /\ request[t] \in Range(to_memory[b]) <=> l = <<"to", b>>
       /\ request[t] # NoRequest /\ atomic_register[b] = request[t] <=> l = <<"atomic", b>>
       /\ Working(b) /\ top_register[b] = request[t] <=> l = <<"top", b>>
       /\ t \in Range(from_memory[b]) <=> l = <<"from", b>>
PlaceInv == \A t \in Task : \E l \in Place : Spot(t, l)

LockInv ==
  /\ LockedIsHeld
  /\ \A b \in Banks : \A t, u \in Task : Memory!Holds(t, b) /\ Memory!Holds(u, b) => t = u

StateInv == TypesInv /\ QueuesInv /\ BanksInv /\ TasksInv /\ PlaceInv
IInv == StateInv /\ LockInv

-------------------------------------------------------------------------------
(* What a state that satisfies the invariant says of the wires. *)

LEMMA TaskFacts ==
  ASSUME NEW t \in Task
  PROVE  t[1] \in Accelerators /\ Channel(t) \in Channels /\ Channel(t) = t[1] \div ACC_RATIO
<1>1. t[1] \in Accelerators
  BY TaskAssumption
<1> QED
  BY <1>1, AcceleratorChannel DEF Channel

LEMMA RequestFacts ==
  ASSUME NEW r \in Request
  PROVE  /\ r.task \in Task /\ r.bank \in Banks /\ r # NoRequest
         /\ r.kind \in {"load", "store", "atomic load", "atomic store"}
         /\ r.kind # "atomic store" => r \in Access
<1> DEFINE All == [task : Task, kind : {"load", "store", "atomic load", "atomic store"}, bank : Banks]
<1>1. r \in All
  BY AccessAssumption DEF Request
<1>2. r # NoRequest
  BY <1>1, NoBankAssumption
<1>3. r.kind # "atomic store" => r \in Access
  BY DEF Request
<1> QED
  BY <1>1, <1>2, <1>3

LEMMA AccessFacts ==
  ASSUME NEW r \in Access
  PROVE  r \in Request /\ r.kind # "atomic store"
  BY AccessAssumption DEF Request

LEMMA GrantedFacts ==
  ASSUME TypesInv, NEW c \in Channels, NEW a \in Granted(c)
  PROVE  /\ a \in Accelerators /\ a \div ACC_RATIO = c /\ wait[a] # <<>>
         /\ \A d \in Granted(c) : d = a
<1> DEFINE S == {k \in 0 .. (ACC_RATIO - 1) : ~ empty(wait[c * ACC_RATIO + k])}
<1>1. Granted(c) = {c * ACC_RATIO + k : k \in Selected(S, ACC_RATIO)}
  BY DEF Granted
<1>2. Selected(S, ACC_RATIO) \subseteq S
  BY DEF Selected
<1>3. S \in SUBSET (0 .. (ACC_RATIO - 1))
  OBVIOUS
<1>4. counter \in Nat
  BY DEF TypesInv
<1>5. \A i, j \in Selected(S, ACC_RATIO) : i = j
  <2> HIDE DEF S
  <2> QED
    BY <1>3, <1>4, Sizes, SelectedOne
<1>6. PICK k \in Selected(S, ACC_RATIO) : a = c * ACC_RATIO + k
  BY <1>1
<1>7. k \in 0 .. (ACC_RATIO - 1) /\ wait[a] # <<>>
  BY <1>2, <1>6 DEF empty
<1>8. \A d \in Granted(c) : d = a
  BY <1>1, <1>5, <1>6
<1> QED
  BY <1>6, <1>7, <1>8, PairIsAccelerator

LEMMA DrivenFacts ==
  ASSUME TypesInv, QueuesInv, NEW c \in Channels, NEW r \in Driven(c)
  PROVE  /\ r.task[1] \in Granted(c) /\ r = Head(wait[r.task[1]]) /\ wait[r.task[1]] # <<>>
         /\ r \in Range(wait[r.task[1]]) /\ r \in Request /\ Current(r) /\ Channel(r.task) = c
         /\ \A s \in Driven(c) : s = r
<1>1. PICK a \in Granted(c) : r = Head(wait[a])
  BY DEF Driven
<1>2. a \in Accelerators /\ a \div ACC_RATIO = c /\ wait[a] # <<>> /\ \A d \in Granted(c) : d = a
  BY <1>1, GrantedFacts
<1>3. wait[a] \in Seq(Request) /\ NoDup(wait[a])
  BY <1>2 DEF TypesInv, QueuesInv
<1>4. r \in Range(wait[a])
  BY <1>1, <1>2, <1>3, TailFifo
<1>5. r \in Request
  BY <1>1, <1>2, <1>3, HeadTailProperties, EmptySeq
<1>6. Current(r) /\ r.task[1] = a
  BY <1>2, <1>4 DEF QueuesInv
<1>7. \A s \in Driven(c) : s = r
  BY <1>1, <1>2 DEF Driven
<1> QED
  BY <1>1, <1>2, <1>4, <1>5, <1>6, <1>7 DEF Channel

LEMMA DrivenAnywhere ==
  ASSUME TypesInv, QueuesInv, NEW r
  PROVE  r \in UNION {Driven(c) : c \in Channels} <=>
           r \in Request /\ r \in Driven(Channel(r.task))
<1>1. ASSUME r \in UNION {Driven(c) : c \in Channels} PROVE r \in Request /\ r \in Driven(Channel(r.task))
  <2>1. PICK c \in Channels : r \in Driven(c)
    BY <1>1
  <2> QED
    BY <2>1, DrivenFacts
<1>2. ASSUME r \in Request, r \in Driven(Channel(r.task)) PROVE r \in UNION {Driven(c) : c \in Channels}
  BY <1>2, RequestFacts, TaskFacts
<1> QED
  BY <1>1, <1>2

LEMMA ToHead ==
  ASSUME TypesInv, QueuesInv, NEW b \in Banks, to_memory[b] # <<>>
  PROVE  /\ Head(to_memory[b]) \in Range(to_memory[b]) /\ Head(to_memory[b]) \in Request
         /\ Current(Head(to_memory[b])) /\ Lane(Head(to_memory[b]).bank) = Lane(b)
         /\ Head(to_memory[b]).kind # "atomic store" /\ data_out(to_memory[b]) = {Head(to_memory[b])}
         /\ Foreign(b) <=> Group(Head(to_memory[b]).bank) # Group(b)
<1>1. to_memory[b] \in Seq(Request) /\ NoDup(to_memory[b])
  BY DEF TypesInv, QueuesInv
<1>2. Head(to_memory[b]) \in Range(to_memory[b]) /\ Head(to_memory[b]) \in Request
  BY <1>1, TailFifo, HeadTailProperties, EmptySeq
<1>3. data_out(to_memory[b]) = {Head(to_memory[b])}
  BY DEF data_out, empty
<1> QED
  BY <1>2, <1>3 DEF QueuesInv, Foreign

LEMMA FromHead ==
  ASSUME TypesInv, QueuesInv, NEW b \in Banks, from_memory[b] # <<>>
  PROVE  /\ Head(from_memory[b]) \in Range(from_memory[b]) /\ Head(from_memory[b]) \in Task
         /\ data_out(from_memory[b]) = {Head(from_memory[b])}
<1>1. from_memory[b] \in Seq(Task) /\ NoDup(from_memory[b])
  BY DEF TypesInv, QueuesInv
<1>2. Head(from_memory[b]) \in Range(from_memory[b]) /\ Head(from_memory[b]) \in Task
  BY <1>1, TailFifo, HeadTailProperties, EmptySeq
<1> QED
  BY <1>2 DEF data_out, empty

LEMMA OutFacts ==
  ASSUME TypesInv, QueuesInv, NEW c \in Channels, NEW b \in Out(c)
  PROVE  /\ b \in Banks /\ Group(b) = c /\ from_memory[b] # <<>>
         /\ Channel(Head(from_memory[b])) = c
<1>1. PICK k \in 0 .. (RATIO - 1) :
        b = c * RATIO + k /\ c \in {Channel(t) : t \in data_out(from_memory[c * RATIO + k])}
  BY DEF Out, Selected
<1>2. b \in Banks /\ Group(b) = c
  BY <1>1, PairIsBank
<1>3. PICK t \in data_out(from_memory[b]) : Channel(t) = c
  BY <1>1
<1>4. from_memory[b] # <<>> /\ t = Head(from_memory[b])
  BY <1>3 DEF data_out, empty
<1> QED
  BY <1>2, <1>3, <1>4

LEMMA AnsweredFacts ==
  ASSUME TypesInv, QueuesInv, NEW t \in Answered
  PROVE  \E b \in Banks : /\ b \in Out(Group(b)) /\ from_memory[b] # <<>>
                          /\ t = Head(from_memory[b]) /\ Channel(t) = Group(b)
  BY OutFacts DEF Answered

LEMMA IssueFacts ==
  ASSUME TypesInv, NEW issue \in Issues, NEW r \in issue
  PROVE  /\ r \in Request /\ request[r.task] = NoRequest
         /\ IF owes[r.task] = NoBank THEN r.kind # "atomic store" /\ r \in Access
            ELSE r.kind = "atomic store" /\ r.bank = owes[r.task]
         /\ \A s \in issue : s.task[1] = r.task[1] => s = r
<1>1. PICK f \in [Accelerators -> Issuable \cup {NoRequest}] :
        /\ \A a \in Accelerators : f[a] = NoRequest \/ f[a].task[1] = a
        /\ issue = {f[a] : a \in Accelerators} \ {NoRequest}
  BY DEF Issues
<1>2. r \in Issuable
  BY <1>1
<1>3. \A s \in issue : s.task[1] \in Accelerators /\ s = f[s.task[1]]
  BY <1>1
<1>4. CASE r \in {s \in Access : request[s.task] = NoRequest /\ owes[s.task] = NoBank}
  BY <1>3, <1>4, AccessFacts
<1>5. CASE r \in {[task |-> t, kind |-> "atomic store", bank |-> owes[t]] :
                    t \in {u \in Task : request[u] = NoRequest /\ owes[u] # NoBank}}
  <2>1. PICK t \in Task : /\ request[t] = NoRequest /\ owes[t] # NoBank
                          /\ r = [task |-> t, kind |-> "atomic store", bank |-> owes[t]]
    BY <1>5
  <2>2. owes[t] \in Banks
    BY <2>1 DEF TypesInv
  <2>3. r \in Request
    BY <2>1, <2>2 DEF Request
  <2> QED
    BY <1>3, <2>1, <2>3
<1> QED
  BY <1>2, <1>4, <1>5 DEF Issuable

(* A bank that serves an atomic operation is asked for no plain store. *)
LEMMA NoPlainStore ==
  ASSUME StoresApart, TypesInv, TasksInv, LockInv, NEW b \in Banks, status[b] \in Locked,
         NEW r \in Request, r.bank = b
  PROVE  r.kind # "store"
<1>1. PICK t \in Task : Memory!Holds(t, b)
  BY DEF LockInv, LockedIsHeld
<1>2. \E s \in Access : s.kind = "atomic load" /\ s.bank = b
  <2>1. CASE Memory!Is(t, "atomic load") /\ request[t].bank = b
    BY <2>1 DEF TasksInv, Memory!Is
  <2>2. CASE owes[t] = b
    <3>1. owes[t] # NoBank
      BY <2>2, NoBankAssumption
    <3>2. PICK s \in Access : s.kind = "atomic load" /\ s.bank = owes[t]
      BY <3>1 DEF TasksInv
    <3> QED
      BY <2>2, <3>2
  <2> QED
    BY <1>1, <2>1, <2>2 DEF Memory!Holds
<1> QED
  BY <1>2, RequestFacts DEF StoresApart

-------------------------------------------------------------------------------
(* The registers of a bank. *)

(* The result of bank b leaves its register in this cycle. *)
Done(b, ready) == (b \in ready \/ status[b] \in {"S_2", "S_5"}) /\ free_to_enter(b)

LEMMA LeavingPlace ==
  ASSUME TypesInv, BanksInv, TasksInv, NEW t \in Task, NEW l \in Place, Spot(t, l)
  PROVE  Leaving(t) # {} <=> \E b \in Banks : l = <<"top", b>> \/ l = <<"from", b>>
<1>1. ASSUME NEW b \in Banks PROVE Working(b) /\ top_register[b].task = t <=> l = <<"top", b>>
  <2>1. Working(b) => top_register[b] \in Request /\ Current(top_register[b]) /\ top_register[b].task \in Task
    <3>1. top_register[b] \in Request \cup {NoRequest}
      BY DEF TypesInv
    <3>2. Working(b) => top_register[b] # NoRequest /\ Current(top_register[b])
      BY DEF BanksInv
    <3> QED
      BY <3>1, <3>2, RequestFacts
  <2>2. Working(b) /\ top_register[b] = request[t] => top_register[b].task = t
    BY <2>1, RequestFacts DEF TasksInv
  <2>3. Working(b) /\ top_register[b].task = t => top_register[b] = request[t]
    BY <2>1 DEF Current
  <2> QED
    BY <2>2, <2>3 DEF Spot
<1>2. ASSUME NEW b \in Banks PROVE (\E i \in DOMAIN from_memory[b] : from_memory[b][i] = t) <=> l = <<"from", b>>
  BY DEF Spot, Range
<1>3. Leaving(t) # {} <=> \E b \in Banks : \/ Working(b) /\ top_register[b].task = t
                                           \/ \E i \in DOMAIN from_memory[b] : from_memory[b][i] = t
  <2> DEFINE tops == {<<"top", b, 0>> : b \in {c \in Banks : Working(c) /\ top_register[c].task = t}}
             row(b) == {<<"from memory", b, i>> : i \in {j \in DOMAIN from_memory[b] : from_memory[b][j] = t}}
             rows == UNION {row(b) : b \in Banks}
  <2>1. tops # {} <=> \E b \in Banks : Working(b) /\ top_register[b].task = t
    OBVIOUS
  <2>2. ASSUME NEW b \in Banks PROVE row(b) # {} <=> \E i \in DOMAIN from_memory[b] : from_memory[b][i] = t
    OBVIOUS
  <2>3. Leaving(t) = tops \cup rows
    BY DEF Leaving
  <2> HIDE DEF row, tops
  <2>4. rows # {} <=> \E b \in Banks : row(b) # {}
    OBVIOUS
  <2> HIDE DEF rows
  <2> QED
    BY <2>1, <2>2, <2>3, <2>4
<1> QED
  BY <1>1, <1>2, <1>3

(* An atomic store that is still on its way holds the lock of its bank. *)
LEMMA StoreHolds ==
  ASSUME StateInv, NEW r \in Request, Current(r), r.kind = "atomic store", Leaving(r.task) = {}
  PROVE  r.task \in Task /\ Memory!Holds(r.task, r.bank)
<1>1. r.task \in Task /\ r # NoRequest
  BY RequestFacts
<1>2. owes[r.task] = r.bank
  <2>1. request[r.task] = r
    BY DEF Current
  <2>2. request[r.task] # NoRequest /\ request[r.task].kind = "atomic store" => owes[r.task] = request[r.task].bank
    BY <1>1 DEF StateInv, TasksInv
  <2> QED
    BY <1>1, <2>1, <2>2
<1> QED
  BY <1>1, <1>2 DEF Memory!Holds

LEMMA SameStore ==
  ASSUME StateInv, LockInv,
         NEW r \in Request, Current(r), r.kind = "atomic store", Leaving(r.task) = {},
         NEW s \in Request, Current(s), s.kind = "atomic store", Leaving(s.task) = {},
         r.bank = s.bank
  PROVE  r = s
<1>1. r.bank \in Banks
  BY RequestFacts
<1>2. r.task = s.task
  BY <1>1, StoreHolds DEF LockInv
<1> QED
  BY <1>2 DEF Current

LEMMA WaitingNotLeaving ==
  ASSUME StateInv, NEW t \in Task, NEW a \in Accelerators, request[t] \in Range(wait[a])
  PROVE  Leaving(t) = {} /\ \A b \in Banks : request[t] # NoRequest => atomic_register[b] # request[t]
<1>1. PICK l \in Place : Spot(t, l)
  BY DEF StateInv, PlaceInv
<1>2. l = <<"wait", a>>
  BY <1>1 DEF Spot
<1> QED
  BY <1>1, <1>2, LeavingPlace DEF StateInv, Spot

LEMMA KeptNotLeaving ==
  ASSUME StateInv, NEW b \in Banks, atomic_register[b] # NoRequest
  PROVE  /\ atomic_register[b] \in Request /\ Current(atomic_register[b])
         /\ atomic_register[b].kind = "atomic store" /\ atomic_register[b].bank = b
         /\ Leaving(atomic_register[b].task) = {}
<1> DEFINE r == atomic_register[b]
<1>1. r \in Request /\ Current(r) /\ r.kind = "atomic store" /\ r.bank = b /\ r # NoRequest
  <2>1. r \in Request \cup {NoRequest}
    BY DEF StateInv, TypesInv
  <2>2. Current(r) /\ r.kind = "atomic store" /\ r.bank = b
    BY DEF StateInv, BanksInv
  <2> QED
    BY <2>1, <2>2
<1> HIDE DEF r
<1>2. r.task \in Task /\ request[r.task] = r
  BY <1>1, RequestFacts DEF Current
<1>3. PICK l \in Place : Spot(r.task, l)
  BY <1>2 DEF StateInv, PlaceInv
<1>4. l = <<"atomic", b>>
  BY <1>1, <1>2, <1>3 DEF Spot, r
<1>5. Leaving(r.task) = {}
  BY <1>2, <1>3, <1>4, LeavingPlace DEF StateInv
<1> QED
  BY <1>1, <1>5 DEF r

LEMMA IncomingFacts ==
  ASSUME StateInv, LockInv, NEW b \in Banks, NEW r \in incoming_atomic_store(b)
  PROVE  /\ r \in Request /\ Current(r) /\ r.kind = "atomic store" /\ r.bank = b
         /\ r \in Driven(Channel(r.task))
         /\ status[b] \in Locked /\ atomic_register[b] = NoRequest
         /\ \A s \in incoming_atomic_store(b) : s = r
<1>1. ASSUME NEW s \in incoming_atomic_store(b)
      PROVE  /\ s \in Request /\ Current(s) /\ s.kind = "atomic store" /\ s.bank = b
             /\ s \in Driven(Channel(s.task)) /\ Leaving(s.task) = {} /\ atomic_register[b] # s
  <2>1. s.kind = "atomic store" /\ s.bank = b /\ s \in Request /\ s \in Driven(Channel(s.task))
    BY DrivenAnywhere DEF incoming_atomic_store, StateInv
  <2>2. s.task \in Task /\ s # NoRequest /\ s.task[1] \in Accelerators /\ Channel(s.task) \in Channels
    BY <2>1, RequestFacts, TaskFacts
  <2>3. Current(s) /\ s \in Range(wait[s.task[1]])
    BY <2>1, <2>2, DrivenFacts DEF StateInv
  <2>4. request[s.task] = s
    BY <2>3 DEF Current
  <2>5. Leaving(s.task) = {} /\ atomic_register[b] # s
    BY <2>2, <2>3, <2>4, WaitingNotLeaving
  <2> QED
    BY <2>1, <2>3, <2>5
<1>2. atomic_register[b] = NoRequest
  <2>1. SUFFICES ASSUME atomic_register[b] # NoRequest PROVE FALSE
    OBVIOUS
  <2> DEFINE k == atomic_register[b]
  <2>3. k \in Request /\ Current(k) /\ k.kind = "atomic store" /\ k.bank = b /\ Leaving(k.task) = {}
    BY <2>1, KeptNotLeaving
  <2>4. r \in Request /\ Current(r) /\ r.kind = "atomic store" /\ r.bank = b /\ Leaving(r.task) = {}
    BY <1>1
  <2> HIDE DEF k
  <2>5. k = r
    BY <2>3, <2>4, SameStore
  <2>2. atomic_register[b] = r
    BY <2>5 DEF k
  <2> QED
    BY <1>1, <2>2
<1>3. status[b] \in Locked
  <2>1. \E t \in Task : Memory!Holds(t, b)
    BY <1>1, StoreHolds
  <2> QED
    BY <2>1 DEF LockInv, LockedIsHeld
<1>4. \A s \in incoming_atomic_store(b) : s = r
  BY <1>1, SameStore
<1> QED
  BY <1>1, <1>2, <1>3, <1>4

LEMMA CopyFacts ==
  ASSUME StoresApart, StateInv, LockInv, NEW b \in Banks, copy_from_fifo(b)
  PROVE  /\ to_memory[b] # <<>> /\ Head(to_memory[b]).bank = b
         /\ ~ rotate_inter(Following(b)) /\ ~ rotate_single(b)
         /\ status[b] \in {"S_0", "S_3"} /\ atomic_register[b] = NoRequest
         /\ next_request(b) = Head(to_memory[b])
         /\ status[b] = "S_3" => Head(to_memory[b]).kind = "load"
<1> DEFINE r == Head(to_memory[b])
<1>1. to_memory[b] # <<>> /\ ~ Foreign(b)
  BY DEF copy_from_fifo, empty
<1>2. /\ r \in Request /\ Lane(r.bank) = Lane(b) /\ r.kind # "atomic store" /\ data_out(to_memory[b]) = {r}
      /\ Group(r.bank) = Group(b)
  BY <1>1, ToHead DEF StateInv
<1>3. r.bank = b
  BY <1>2, RequestFacts, SamePair
<1>4. ~ rotate_inter(Following(b))
  BY <1>1, Ring DEF rotate_inter
<1>5. status[b] = "S_0" \/ (status[b] = "S_3" /\ atomic_register[b] = NoRequest /\ r.kind # "atomic load")
  BY DEF copy_from_fifo
<1>6. atomic_register[b] = NoRequest
  BY <1>5 DEF StateInv, BanksInv, Locked
<1>7. status[b] = "S_3" => r.kind = "load"
  <2>1. status[b] = "S_3" => r.kind # "store"
    BY <1>2, <1>3, NoPlainStore DEF Locked, StateInv
  <2>2. r.kind \in {"load", "store", "atomic load", "atomic store"}
    BY <1>2, RequestFacts
  <2> QED
    BY <1>2, <1>5, <2>1, <2>2
<1>8. ~ rotate_single(b)
  BY <1>2, <1>5, <1>7 DEF rotate_single, Locked
<1> QED
  BY <1>1, <1>3, <1>4, <1>5, <1>6, <1>7, <1>8 DEF next_request

LEMMA WriteFacts ==
  ASSUME StoresApart, StateInv, LockInv, NEW b \in Banks, top_register_we(b)
  PROVE  /\ next_request(b) \in Request /\ Current(next_request(b)) /\ next_request(b).bank = b
         /\ \/ /\ copy_from_fifo(b) /\ atomic_register[b] = NoRequest /\ to_memory[b] # <<>>
               /\ next_request(b) = Head(to_memory[b]) /\ next_request(b).kind # "atomic store"
               /\ \/ status[b] = "S_0"
                  \/ status[b] = "S_3" /\ next_request(b).kind = "load"
            \/ /\ ~ copy_from_fifo(b) /\ atomic_register[b] # NoRequest /\ status[b] = "S_3"
               /\ next_request(b) = atomic_register[b] /\ next_request(b).kind = "atomic store"
<1>1. CASE copy_from_fifo(b)
  <2>1. to_memory[b] # <<>>
    BY <1>1, CopyFacts
  <2>2. /\ Head(to_memory[b]).bank = b /\ status[b] \in {"S_0", "S_3"} /\ atomic_register[b] = NoRequest
        /\ next_request(b) = Head(to_memory[b])
        /\ status[b] = "S_3" => Head(to_memory[b]).kind = "load"
    BY <1>1, CopyFacts
  <2>3. /\ Head(to_memory[b]) \in Request /\ Current(Head(to_memory[b]))
        /\ Head(to_memory[b]).kind # "atomic store"
    BY <2>1, ToHead DEF StateInv
  <2> QED
    BY <1>1, <2>1, <2>2, <2>3
<1>2. CASE ~ copy_from_fifo(b)
  <2>1. status[b] = "S_3" /\ atomic_register[b] # NoRequest
    BY <1>2 DEF top_register_we
  <2>2. next_request(b) = atomic_register[b]
    BY <2>1 DEF next_request
  <2> QED
    BY <1>2, <2>1, <2>2, KeptNotLeaving
<1> QED
  BY <1>1, <1>2

LEMMA AtomicStep ==
  ASSUME StoresApart, StateInv, LockInv, NEW b \in Banks
  PROVE  /\ \A r \in incoming_atomic_store(b) : NextAtomic(b) = r
         /\ incoming_atomic_store(b) = {} =>
              NextAtomic(b) = IF status[b] = "S_3" THEN NoRequest ELSE atomic_register[b]
<1>1. ASSUME NEW r \in incoming_atomic_store(b) PROVE NextAtomic(b) = r
  <2>1. /\ status[b] \in Locked /\ atomic_register[b] = NoRequest
        /\ \A s \in incoming_atomic_store(b) : s = r
    BY IncomingFacts
  <2>2. ~ reset_atomic_register(b)
    BY <2>1 DEF reset_atomic_register, StateInv, BanksInv
  <2>3. atomic_register_we(b)
    BY DEF atomic_register_we
  <2>4. (CHOOSE s \in incoming_atomic_store(b) : TRUE) = r
    BY <2>1
  <2> QED
    BY <2>2, <2>3, <2>4 DEF NextAtomic
<1>2. ASSUME incoming_atomic_store(b) = {}
      PROVE  NextAtomic(b) = IF status[b] = "S_3" THEN NoRequest ELSE atomic_register[b]
  <2>1. NextAtomic(b) = IF atomic_register_we(b) THEN NoRequest ELSE atomic_register[b]
    <3>1. CASE ~ atomic_register_we(b)
      BY <3>1 DEF NextAtomic
    <3>2. CASE atomic_register_we(b)
      BY <1>2, <3>2 DEF NextAtomic
    <3> QED
      BY <3>1, <3>2
  <2>2. atomic_register_we(b) <=> top_register_we(b) /\ next_request(b).kind \in {"atomic load", "atomic store"}
    BY <1>2 DEF atomic_register_we
  <2>3. CASE atomic_register[b] = NoRequest
    BY <2>1, <2>3
  <2>4. CASE atomic_register[b] # NoRequest
    <3>1. top_register_we(b) <=> status[b] = "S_3"
      BY <2>4, WriteFacts DEF top_register_we
    <3>2. top_register_we(b) => next_request(b).kind = "atomic store"
      BY <2>4, WriteFacts
    <3> QED
      BY <2>1, <2>2, <3>1, <3>2
  <2> QED
    BY <2>3, <2>4
<1> QED
  BY <1>1, <1>2

LEMMA StatusStep ==
  ASSUME StoresApart, StateInv, LockInv, NEW ready \in SUBSET Busy, NEW b \in Banks
  PROVE  LET s == next_status(b, ready) IN
         /\ s \in {"S_0", "S_1", "S_2", "S_3", "S_4", "S_5"}
         /\ top_register_we(b) =>
              /\ ~ Working(b)
              /\ s = IF next_request(b).kind \in {"atomic load"} \/ (status[b] = "S_3" /\ next_request(b).kind = "load")
                     THEN "S_4" ELSE "S_1"
         /\ ~ top_register_we(b) =>
              /\ s \in {"S_1", "S_2", "S_4", "S_5"} <=> Working(b) /\ ~ Done(b, ready)
              /\ s \in {"S_1", "S_2"} => status[b] \in {"S_1", "S_2"}
              /\ s \in Locked <=> status[b] \in Locked
<1> DEFINE s == next_status(b, ready)
<1>1. status[b] \in {"S_0", "S_1", "S_2", "S_3", "S_4", "S_5"}
  BY DEF StateInv, TypesInv
<1>2. b \in ready => status[b] \in {"S_1", "S_4"}
  BY DEF Busy
<1>3. s = CASE status[b] = "S_0" /\ copy_from_fifo(b) ->
                 IF next_request(b).kind = "atomic load" THEN "S_4" ELSE "S_1"
            [] status[b] = "S_1" /\ b \in ready -> IF free_to_enter(b) THEN "S_0" ELSE "S_2"
            [] status[b] = "S_2" /\ free_to_enter(b) -> "S_0"
            [] status[b] = "S_3" /\ atomic_register[b] # NoRequest -> "S_1"
            [] status[b] = "S_3" /\ copy_from_fifo(b) -> "S_4"
            [] status[b] = "S_4" /\ b \in ready -> IF free_to_enter(b) THEN "S_3" ELSE "S_5"
            [] status[b] = "S_5" /\ free_to_enter(b) -> "S_3"
            [] OTHER -> status[b]
  BY DEF next_status
<1>4. top_register_we(b) <=> copy_from_fifo(b) \/ (status[b] = "S_3" /\ atomic_register[b] # NoRequest)
  BY DEF top_register_we
<1>5. Working(b) <=> status[b] \in {"S_1", "S_2", "S_4", "S_5"}
  BY DEF Working
<1>6. Done(b, ready) <=> (b \in ready \/ status[b] \in {"S_2", "S_5"}) /\ free_to_enter(b)
  BY DEF Done
<1> HIDE DEF s
<1>7. s \in {"S_0", "S_1", "S_2", "S_3", "S_4", "S_5"}
  BY <1>1, <1>3
<1>8. ASSUME top_register_we(b)
      PROVE  /\ ~ Working(b)
             /\ s = IF next_request(b).kind \in {"atomic load"} \/ (status[b] = "S_3" /\ next_request(b).kind = "load")
                    THEN "S_4" ELSE "S_1"
  BY <1>3, <1>5, <1>8, WriteFacts
<1>9. ASSUME ~ top_register_we(b)
      PROVE  /\ s \in {"S_1", "S_2", "S_4", "S_5"} <=> Working(b) /\ ~ Done(b, ready)
             /\ s \in {"S_1", "S_2"} => status[b] \in {"S_1", "S_2"}
             /\ s \in Locked <=> status[b] \in Locked
  <2>1. s = CASE status[b] = "S_1" /\ b \in ready -> IF free_to_enter(b) THEN "S_0" ELSE "S_2"
            [] status[b] = "S_2" /\ free_to_enter(b) -> "S_0"
            [] status[b] = "S_4" /\ b \in ready -> IF free_to_enter(b) THEN "S_3" ELSE "S_5"
            [] status[b] = "S_5" /\ free_to_enter(b) -> "S_3"
            [] OTHER -> status[b]
    BY <1>3, <1>4, <1>9
  <2> QED
    BY <1>1, <1>2, <1>5, <1>6, <2>1 DEF Locked
<1> QED
  BY <1>7, <1>8, <1>9 DEF s

-------------------------------------------------------------------------------
(* What goes into the FIFOs and out of them in a cycle. *)

LEMMA CurrentSpot ==
  ASSUME StateInv, NEW r \in Request, Current(r)
  PROVE  /\ r.task \in Task /\ request[r.task] = r /\ r # NoRequest
         /\ \E l \in Place : l # Nowhere /\ Spot(r.task, l)
<1>1. r.task \in Task /\ request[r.task] = r /\ r # NoRequest
  BY RequestFacts DEF Current
<1>2. PICK l \in Place : Spot(r.task, l)
  BY <1>1 DEF StateInv, PlaceInv
<1>3. l # Nowhere
  BY <1>1, <1>2 DEF Spot
<1> QED
  BY <1>1, <1>2, <1>3

LEMMA QueuedOnce ==
  ASSUME StateInv, NEW b \in Banks, NEW r \in Range(to_memory[b])
  PROVE  /\ r \in Request /\ Current(r)
         /\ \A a \in Accelerators : r \notin Range(wait[a])
         /\ \A d \in Banks : r \in Range(to_memory[d]) => d = b
<1>1. to_memory[b] \in Seq(Request)
  BY DEF StateInv, TypesInv
<1>2. r \in Request
  BY <1>1 DEF Range
<1>3. Current(r)
  BY DEF StateInv, QueuesInv
<1>4. PICK l \in Place : Spot(r.task, l)
  BY <1>2, <1>3, CurrentSpot
<1>5. r.task \in Task /\ request[r.task] = r
  BY <1>2, <1>3, CurrentSpot
<1>6. l = <<"to", b>>
  BY <1>4, <1>5 DEF Spot
<1>7. \A a \in Accelerators : r \notin Range(wait[a])
  BY <1>4, <1>5, <1>6 DEF Spot
<1>8. \A d \in Banks : r \in Range(to_memory[d]) => d = b
  BY <1>4, <1>5, <1>6 DEF Spot
<1> QED
  BY <1>2, <1>3, <1>7, <1>8

LEMMA ChannelFacts ==
  ASSUME StateInv, NEW b \in Banks, NEW r \in from_channel_to_bank(b)
  PROVE  /\ r \in Request /\ Current(r) /\ r.kind # "atomic store" /\ Lane(r.bank) = Lane(b)
         /\ r.task[1] \in Accelerators /\ r \in Range(wait[r.task[1]])
         /\ r \in Driven(Group(b)) /\ Channel(r.task) = Group(b)
         /\ \A s \in from_channel_to_bank(b) : s = r
<1>1. Group(b) \in Channels
  BY BankIsPair
<1>2. r \in Driven(Group(b)) /\ r.kind # "atomic store" /\ Lane(r.bank) = Lane(b)
  BY DEF from_channel_to_bank
<1>3. /\ r \in Request /\ Current(r) /\ r \in Range(wait[r.task[1]]) /\ Channel(r.task) = Group(b)
      /\ \A s \in Driven(Group(b)) : s = r
  BY <1>1, <1>2, DrivenFacts DEF StateInv
<1>4. r.task[1] \in Accelerators
  BY <1>3, RequestFacts, TaskFacts
<1>5. \A s \in from_channel_to_bank(b) : s = r
  BY <1>3 DEF from_channel_to_bank
<1> QED
  BY <1>2, <1>3, <1>4, <1>5

LEMMA ToInput ==
  ASSUME StateInv, NEW b \in Banks, NEW r
  PROVE  r \in to_memory_data_in(b) <=>
           \/ rotate_inter(b) /\ r = Head(to_memory[Previous(b)])
           \/ ~ rotate_inter(b) /\ rotate_single(b) /\ r = Head(to_memory[b])
           \/ ~ rotate_inter(b) /\ r \in from_channel_to_bank(b)
<1>1. CASE rotate_inter(b)
  BY <1>1 DEF to_memory_data_in
<1>2. CASE ~ rotate_inter(b) /\ rotate_single(b)
  <2>1. from_channel_to_bank(b) = {}
    BY <1>2 DEF rotate_single
  <2> QED
    BY <1>2, <2>1 DEF to_memory_data_in
<1>3. CASE ~ rotate_inter(b) /\ ~ rotate_single(b)
  BY <1>3 DEF to_memory_data_in
<1> QED
  BY <1>1, <1>2, <1>3

LEMMA RotateFacts ==
  ASSUME NEW b \in Banks
  PROVE  /\ rotate_inter(b) => to_memory[Previous(b)] # <<>>
         /\ rotate_single(b) => to_memory[b] # <<>>
         /\ to_memory_rd_en(b) => to_memory[b] # <<>>
<1>1. \A d \in Banks : Foreign(d) => to_memory[d] # <<>>
  BY DEF Foreign, data_out, empty
<1>2. rotate_inter(b) => to_memory[Previous(b)] # <<>>
  BY <1>1, Ring DEF rotate_inter
<1>3. rotate_single(b) => to_memory[b] # <<>>
  BY DEF rotate_single, data_out, empty
<1>4. rotate_inter(Following(b)) => to_memory[b] # <<>>
  BY <1>1, Ring DEF rotate_inter
<1>5. copy_from_fifo(b) => to_memory[b] # <<>>
  BY DEF copy_from_fifo, empty
<1> QED
  BY <1>2, <1>3, <1>4, <1>5 DEF to_memory_rd_en

LEMMA ToInputFacts ==
  ASSUME StateInv, NEW b \in Banks, NEW r \in to_memory_data_in(b)
  PROVE  /\ r \in Request /\ Current(r) /\ r.kind # "atomic store" /\ Lane(r.bank) = Lane(b)
         /\ r \in Range(to_memory[b]) => r \in Read(to_memory[b], to_memory_rd_en(b))
         /\ \A s \in to_memory_data_in(b) : s = r
<1>1. Previous(b) \in Banks /\ Following(Previous(b)) = b /\ Lane(Previous(b)) = Lane(b)
  BY Ring
<1>2. CASE rotate_inter(b)
  <2>1. r = Head(to_memory[Previous(b)]) /\ to_memory[Previous(b)] # <<>> /\ \A s \in to_memory_data_in(b) : s = r
    BY <1>2, ToInput, RotateFacts
  <2>2. /\ r \in Range(to_memory[Previous(b)]) /\ r \in Request /\ Current(r) /\ r.kind # "atomic store"
        /\ Lane(r.bank) = Lane(b)
    BY <1>1, <2>1, ToHead DEF StateInv
  <2>3. ASSUME r \in Range(to_memory[b]) PROVE r \in Read(to_memory[b], to_memory_rd_en(b))
    <3>1. Previous(b) = b
      BY <1>1, <2>2, <2>3, QueuedOnce
    <3>2. to_memory_rd_en(b)
      BY <1>1, <1>2, <3>1 DEF to_memory_rd_en
    <3> QED
      BY <2>1, <3>1, <3>2 DEF Read
  <2> QED
    BY <2>1, <2>2, <2>3
<1>3. CASE ~ rotate_inter(b) /\ rotate_single(b)
  <2>1. from_channel_to_bank(b) = {}
    BY <1>3 DEF rotate_single
  <2>2. r = Head(to_memory[b]) /\ to_memory[b] # <<>> /\ \A s \in to_memory_data_in(b) : s = r
    BY <1>3, <2>1, ToInput, RotateFacts
  <2>3. r \in Request /\ Current(r) /\ r.kind # "atomic store" /\ Lane(r.bank) = Lane(b)
    BY <2>2, ToHead DEF StateInv
  <2>4. r \in Read(to_memory[b], to_memory_rd_en(b))
    BY <1>3, <2>2 DEF Read, to_memory_rd_en
  <2> QED
    BY <2>2, <2>3, <2>4
<1>4. CASE ~ rotate_inter(b) /\ ~ rotate_single(b)
  <2>1. r \in from_channel_to_bank(b) /\ \A s \in to_memory_data_in(b) : s \in from_channel_to_bank(b)
    BY <1>4, ToInput
  <2>2. /\ r \in Request /\ Current(r) /\ r.kind # "atomic store" /\ Lane(r.bank) = Lane(b)
        /\ r.task[1] \in Accelerators /\ r \in Range(wait[r.task[1]])
        /\ \A s \in to_memory_data_in(b) : s = r
    BY <2>1, ChannelFacts
  <2>3. r \notin Range(to_memory[b])
    BY <2>2, QueuedOnce
  <2> QED
    BY <2>2, <2>3
<1> QED
  BY <1>2, <1>3, <1>4

LEMMA ToStep ==
  ASSUME StateInv, ToMemory, NEW b \in Banks
  PROVE  /\ to_memory'[b] \in Seq(Request) /\ NoDup(to_memory'[b])
         /\ Range(to_memory'[b]) =
              (Range(to_memory[b]) \ Read(to_memory[b], to_memory_rd_en(b))) \cup to_memory_data_in(b)
<1> DEFINE D == to_memory_data_in(b)
           rd == to_memory_rd_en(b)
<1>1. D \subseteq Request /\ (\A x, y \in D : x = y) /\ D \cap Range(to_memory[b]) \subseteq Read(to_memory[b], rd)
  BY ToInputFacts
<1>2. rd => to_memory[b] # <<>>
  BY RotateFacts
<1>3. to_memory[b] \in Seq(Request) /\ NoDup(to_memory[b])
  BY DEF StateInv, TypesInv, QueuesInv
<1>4. to_memory'[b] = Passed(to_memory[b], rd, D)
  BY DEF ToMemory
<1> HIDE DEF D, rd
<1>5. /\ Passed(to_memory[b], rd, D) \in Seq(Request) /\ NoDup(Passed(to_memory[b], rd, D))
      /\ Range(Passed(to_memory[b], rd, D)) = (Range(to_memory[b]) \ Read(to_memory[b], rd)) \cup D
  BY <1>1, <1>2, <1>3, PassedFifo
<1> QED
  BY <1>4, <1>5 DEF D, rd

PopWait(a) == a \in Granted(a \div ACC_RATIO) /\ request_accepted(a \div ACC_RATIO) # {}

LEMMA WaitingFacts ==
  ASSUME StateInv, NEW a \in Accelerators, NEW r \in Range(wait[a])
  PROVE  /\ r \in Request /\ Current(r) /\ r.task[1] = a
         /\ PopWait(a) /\ r = Head(wait[a]) <=> r \in request_accepted(Channel(r.task))
<1> DEFINE c == a \div ACC_RATIO
<1>1. wait[a] \in Seq(Request)
  BY DEF StateInv, TypesInv
<1>2. r \in Request
  BY <1>1 DEF Range
<1>3. Current(r) /\ r.task[1] = a
  BY DEF StateInv, QueuesInv
<1>4. Channel(r.task) = c /\ c \in Channels
  BY <1>3, AcceleratorChannel DEF Channel
<1>5. request_accepted(c) \subseteq Driven(c)
  BY DEF request_accepted
<1>6. PopWait(a) <=> a \in Granted(c) /\ request_accepted(c) # {}
  BY DEF PopWait
<1> HIDE DEF c
<1>7. ASSUME PopWait(a), r = Head(wait[a]) PROVE r \in request_accepted(c)
  <2>1. r \in Driven(c)
    BY <1>6, <1>7 DEF Driven
  <2>2. \A s \in Driven(c) : s = r
    BY <1>4, <2>1, DrivenFacts DEF StateInv
  <2> QED
    BY <1>5, <1>6, <1>7, <2>2
<1>8. ASSUME r \in request_accepted(c) PROVE PopWait(a) /\ r = Head(wait[a])
  <2>1. r \in Driven(c)
    BY <1>5, <1>8
  <2>2. a \in Granted(c) /\ r = Head(wait[a])
    BY <1>3, <1>4, <2>1, DrivenFacts DEF StateInv
  <2> QED
    BY <1>6, <1>8, <2>2
<1> QED
  BY <1>2, <1>3, <1>4, <1>7, <1>8

LEMMA WaitStep ==
  ASSUME StateInv, NEW issue \in Issues, Wait(issue), NEW a \in Accelerators
  PROVE  /\ wait'[a] \in Seq(Request) /\ NoDup(wait'[a])
         /\ Range(wait'[a]) = (Range(wait[a]) \ Read(wait[a], PopWait(a))) \cup {r \in issue : r.task[1] = a}
<1> DEFINE D == {r \in issue : r.task[1] = a}
           rd == PopWait(a)
<1>1. D \subseteq Request /\ \A x, y \in D : x = y
  <2>1. ASSUME NEW x \in D PROVE x \in Request /\ \A y \in D : y = x
    <3>1. x \in issue /\ x.task[1] = a
      OBVIOUS
    <3>2. x \in Request /\ \A y \in issue : y.task[1] = x.task[1] => y = x
      BY <3>1, IssueFacts DEF StateInv
    <3> QED
      BY <3>1, <3>2
  <2> QED
    BY <2>1
<1>2. D \cap Range(wait[a]) = {}
  <2>1. SUFFICES ASSUME NEW r \in issue, r \in Range(wait[a]) PROVE FALSE
    OBVIOUS
  <2>2. r \in Request /\ request[r.task] = NoRequest
    BY IssueFacts DEF StateInv
  <2>3. Current(r)
    BY <2>1, WaitingFacts
  <2> QED
    BY <2>2, <2>3, RequestFacts DEF Current
<1>3. rd => wait[a] # <<>>
  BY AcceleratorChannel, GrantedFacts DEF PopWait, StateInv
<1>4. wait[a] \in Seq(Request) /\ NoDup(wait[a])
  BY DEF StateInv, TypesInv, QueuesInv
<1>5. wait'[a] = Passed(wait[a], rd, D)
  BY DEF Wait, PopWait
<1> HIDE DEF D, rd
<1>6. /\ Passed(wait[a], rd, D) \in Seq(Request) /\ NoDup(Passed(wait[a], rd, D))
      /\ Range(Passed(wait[a], rd, D)) = (Range(wait[a]) \ Read(wait[a], rd)) \cup D
  BY <1>1, <1>2, <1>3, <1>4, PassedFifo
<1> QED
  BY <1>5, <1>6 DEF D, rd

(* The FIFOs of answers. *)
PopFrom(b) == source_rotation(b) \/ b \in Out(Group(b))

LEMMA ReturnedOnce ==
  ASSUME StateInv, NEW b \in Banks, NEW t \in Range(from_memory[b])
  PROVE  /\ t \in Task /\ \A d \in Banks : t \in Range(from_memory[d]) => d = b
         /\ \A d \in Banks : Working(d) => top_register[d].task # t
<1>1. from_memory[b] \in Seq(Task)
  BY DEF StateInv, TypesInv
<1>2. t \in Task
  BY <1>1 DEF Range
<1>3. PICK l \in Place : Spot(t, l)
  BY <1>2 DEF StateInv, PlaceInv
<1>4. l = <<"from", b>>
  BY <1>3 DEF Spot
<1>5. \A d \in Banks : t \in Range(from_memory[d]) => d = b
  BY <1>3, <1>4 DEF Spot
<1>6. ASSUME NEW d \in Banks, Working(d), top_register[d].task = t PROVE FALSE
  <2>1. Current(top_register[d])
    BY <1>6 DEF StateInv, BanksInv
  <2>2. top_register[d] = request[t]
    BY <1>6, <2>1 DEF Current
  <2> QED
    BY <1>3, <1>4, <1>6, <2>2 DEF Spot
<1> QED
  BY <1>2, <1>5, <1>6

LEMMA PopFromFacts ==
  ASSUME StateInv, NEW b \in Banks
  PROVE  /\ PopFrom(b) => from_memory[b] # <<>>
         /\ source_rotation(b) => /\ from_memory[b] # <<>> /\ Channel(Head(from_memory[b])) # Group(b)
                                  /\ ~ full(from_memory[Following(b)])
<1>1. source_rotation(b) => /\ from_memory[b] # <<>> /\ Channel(Head(from_memory[b])) # Group(b)
                            /\ ~ full(from_memory[Following(b)])
  BY DEF source_rotation, data_out, empty
<1>2. Group(b) \in Channels
  BY BankIsPair
<1>3. b \in Out(Group(b)) => from_memory[b] # <<>>
  BY <1>2, OutFacts DEF StateInv
<1> QED
  BY <1>1, <1>3 DEF PopFrom

LEMMA FromInput ==
  ASSUME StateInv, NEW ready \in SUBSET Busy, NEW b \in Banks, NEW t
  PROVE  t \in from_memory_data_in(b, ready) <=>
           \/ source_rotation(Previous(b)) /\ t = Head(from_memory[Previous(b)])
           \/ Done(b, ready) /\ t = top_register[b].task
<1>1. source_rotation(Previous(b)) => ~ full(from_memory[b])
  BY PopFromFacts, Ring
<1>2. Done(b, ready) <=> /\ b \in ready \/ status[b] \in {"S_2", "S_5"}
                         /\ ~ source_rotation(Previous(b)) /\ ~ full(from_memory[b])
  BY DEF Done, free_to_enter
<1>3. CASE full(from_memory[b])
  BY <1>1, <1>2, <1>3 DEF from_memory_data_in
<1>4. CASE ~ full(from_memory[b]) /\ source_rotation(Previous(b))
  BY <1>2, <1>4 DEF from_memory_data_in
<1>5. CASE ~ full(from_memory[b]) /\ ~ source_rotation(Previous(b))
  BY <1>2, <1>5 DEF from_memory_data_in
<1> QED
  BY <1>3, <1>4, <1>5

LEMMA FromInputFacts ==
  ASSUME StateInv, NEW ready \in SUBSET Busy, NEW b \in Banks, NEW t \in from_memory_data_in(b, ready)
  PROVE  /\ t \in Task /\ \A u \in from_memory_data_in(b, ready) : u = t
         /\ t \in Range(from_memory[b]) => t \in Read(from_memory[b], PopFrom(b))
<1>1. Previous(b) \in Banks
  BY Ring
<1>2. CASE source_rotation(Previous(b))
  <2>1. ~ Done(b, ready)
    BY <1>2 DEF Done, free_to_enter
  <2>2. t = Head(from_memory[Previous(b)]) /\ \A u \in from_memory_data_in(b, ready) : u = t
    BY <1>2, <2>1, FromInput
  <2>3. from_memory[Previous(b)] # <<>>
    BY <1>1, <1>2, PopFromFacts
  <2>4. t \in Range(from_memory[Previous(b)]) /\ t \in Task
    BY <1>1, <2>2, <2>3, FromHead DEF StateInv
  <2>5. ASSUME t \in Range(from_memory[b]) PROVE t \in Read(from_memory[b], PopFrom(b))
    <3>1. Previous(b) = b
      BY <1>1, <2>4, <2>5, ReturnedOnce
    <3> QED
      BY <1>2, <2>2, <3>1 DEF PopFrom, Read
  <2> QED
    BY <2>2, <2>4, <2>5
<1>3. CASE ~ source_rotation(Previous(b))
  <2>1. t = top_register[b].task /\ Done(b, ready) /\ \A u \in from_memory_data_in(b, ready) : u = t
    BY <1>3, FromInput
  <2>2. Working(b)
    BY <2>1 DEF Done, Busy, Working
  <2>3. top_register[b] \in Request \cup {NoRequest}
    BY DEF StateInv, TypesInv
  <2>4. top_register[b] # NoRequest
    BY <2>2 DEF StateInv, BanksInv
  <2>5. t \in Task
    BY <2>1, <2>3, <2>4, RequestFacts
  <2>6. t \notin Range(from_memory[b])
    BY <2>1, <2>2, ReturnedOnce
  <2> QED
    BY <2>1, <2>5, <2>6
<1> QED
  BY <1>2, <1>3

LEMMA FromStep ==
  ASSUME StateInv, NEW ready \in SUBSET Busy, FromMemory(ready), NEW b \in Banks
  PROVE  /\ from_memory'[b] \in Seq(Task) /\ NoDup(from_memory'[b])
         /\ Range(from_memory'[b]) =
              (Range(from_memory[b]) \ Read(from_memory[b], PopFrom(b))) \cup from_memory_data_in(b, ready)
<1> DEFINE D == from_memory_data_in(b, ready)
           rd == PopFrom(b)
<1>1. D \subseteq Task /\ (\A x, y \in D : x = y) /\ D \cap Range(from_memory[b]) \subseteq Read(from_memory[b], rd)
  BY FromInputFacts
<1>2. rd => from_memory[b] # <<>>
  BY PopFromFacts
<1>3. from_memory[b] \in Seq(Task) /\ NoDup(from_memory[b])
  BY DEF StateInv, TypesInv, QueuesInv
<1>4. from_memory'[b] = Passed(from_memory[b], rd, D)
  BY DEF FromMemory, PopFrom
<1> HIDE DEF D, rd
<1>5. /\ Passed(from_memory[b], rd, D) \in Seq(Task) /\ NoDup(Passed(from_memory[b], rd, D))
      /\ Range(Passed(from_memory[b], rd, D)) = (Range(from_memory[b]) \ Read(from_memory[b], rd)) \cup D
  BY <1>1, <1>2, <1>3, PassedFifo
<1> QED
  BY <1>4, <1>5 DEF D, rd

-------------------------------------------------------------------------------
(* Where the request of a task, or its answer, goes from its place l. *)

GoesTo(t, l, b) ==
  \/ l = <<"to", b>> /\ ~ (to_memory_rd_en(b) /\ request[t] = Head(to_memory[b]))
  \/ l = <<"to", Previous(b)>> /\ rotate_inter(b) /\ request[t] = Head(to_memory[Previous(b)])
  \/ l = <<"to", b>> /\ ~ rotate_inter(b) /\ rotate_single(b) /\ request[t] = Head(to_memory[b])
  \/ l = <<"wait", t[1]>> /\ ~ rotate_inter(b) /\ request[t] \in from_channel_to_bank(b)
GoesAtomic(t, l, b) ==
  \/ l = <<"atomic", b>> /\ status[b] # "S_3"
  \/ l = <<"wait", t[1]>> /\ request[t] \in incoming_atomic_store(b)
GoesTop(t, l, b) ==
  \/ l = <<"to", b>> /\ copy_from_fifo(b) /\ request[t] = Head(to_memory[b])
  \/ l = <<"atomic", b>> /\ status[b] = "S_3"
GoesFrom(t, l, b, ready) ==
  \/ l = <<"from", b>> /\ ~ (PopFrom(b) /\ t = Head(from_memory[b]))
  \/ l = <<"from", Previous(b)>> /\ source_rotation(Previous(b)) /\ t = Head(from_memory[Previous(b)])
  \/ l = <<"top", b>> /\ Done(b, ready)

LEMMA RequestStep ==
  ASSUME StateInv, NEW issue \in Issues, Tasks(issue), NEW t \in Task
  PROVE  /\ t \in Answered => request'[t] = NoRequest
         /\ t \notin Answered => \A r \in issue : r.task = t => request'[t] = r
         /\ t \notin Answered /\ (\A r \in issue : r.task # t) => request'[t] = request[t]
         /\ t \notin Answered /\ request[t] # NoRequest => request'[t] = request[t]
<1>1. request'[t] = IF t \in Answered THEN NoRequest
                    ELSE IF \E r \in issue : r.task = t THEN CHOOSE r \in issue : r.task = t
                    ELSE request[t]
  BY DEF Tasks
<1>2. ASSUME NEW r \in issue, r.task = t PROVE (CHOOSE s \in issue : s.task = t) = r
  <2>1. \A s \in issue : s.task = t => s = r
    BY <1>2, IssueFacts DEF StateInv
  <2> QED
    BY <1>2, <2>1
<1>3. \A r \in issue : r.task = t => request[t] = NoRequest
  BY IssueFacts DEF StateInv
<1> QED
  BY <1>1, <1>2, <1>3

LEMMA AnsweredFrom ==
  ASSUME StateInv, NEW t \in Answered, NEW l \in Place, Spot(t, l)
  PROVE  \E b \in Banks : /\ l = <<"from", b>> /\ b \in Out(Group(b)) /\ t = Head(from_memory[b])
                          /\ Channel(t) = Group(b)
<1>1. PICK b \in Banks : /\ b \in Out(Group(b)) /\ from_memory[b] # <<>>
                         /\ t = Head(from_memory[b]) /\ Channel(t) = Group(b)
  BY AnsweredFacts DEF StateInv
<1>2. t \in Range(from_memory[b])
  BY <1>1, FromHead DEF StateInv
<1> QED
  BY <1>1, <1>2 DEF Spot

LEMMA KeepsRequest ==
  ASSUME StateInv, NEW issue \in Issues, Tasks(issue),
         NEW t \in Task, NEW l \in Place, l # Nowhere, Spot(t, l), \A b \in Banks : l # <<"from", b>>
  PROVE  request'[t] = request[t] /\ t \notin Answered
<1>1. t \notin Answered
  BY AnsweredFrom
<1>2. request[t] # NoRequest
  BY DEF Spot
<1> QED
  BY <1>1, <1>2, RequestStep

(* The request of a task in terms of types and the place. *)
LEMMA PlacedRequest ==
  ASSUME StateInv, NEW t \in Task, NEW l \in Place, l # Nowhere, Spot(t, l)
  PROVE  request[t] # NoRequest /\ request[t] \in Request /\ request[t].task = t /\ Current(request[t])
<1>1. request[t] # NoRequest
  BY DEF Spot
<1>2. request[t] \in Request \cup {NoRequest}
  BY DEF StateInv, TypesInv
<1>3. request[t].task = t
  BY <1>1 DEF StateInv, TasksInv
<1> QED
  BY <1>1, <1>2, <1>3 DEF Current

LEMMA FateWait ==
  ASSUME StateInv, NEW issue \in Issues, Wait(issue),
         NEW t \in Task, NEW l \in Place, l # Nowhere, Spot(t, l), NEW a \in Accelerators
  PROVE  request[t] \in Range(wait'[a]) <=> l = <<"wait", a>> /\ request[t] \notin request_accepted(Channel(t))
<1> DEFINE r == request[t]
<1>1. r \in Request /\ r.task = t /\ r # NoRequest
  BY PlacedRequest
<1>2. Range(wait'[a]) = (Range(wait[a]) \ Read(wait[a], PopWait(a))) \cup {s \in issue : s.task[1] = a}
  BY WaitStep
<1>3. r \notin issue
  BY <1>1, IssueFacts DEF StateInv
<1>4. r \in Range(wait[a]) <=> l = <<"wait", a>>
  BY DEF Spot
<1>5. r \in Range(wait[a]) => (r \in Read(wait[a], PopWait(a)) <=> r \in request_accepted(Channel(t)))
  <2>1. ASSUME r \in Range(wait[a]) PROVE PopWait(a) /\ r = Head(wait[a]) <=> r \in request_accepted(Channel(t))
    BY <1>1, <2>1, WaitingFacts
  <2> QED
    BY <2>1 DEF Read
<1> QED
  BY <1>2, <1>3, <1>4, <1>5

LEMMA FateTo ==
  ASSUME StateInv, ToMemory,
         NEW t \in Task, NEW l \in Place, l # Nowhere, Spot(t, l), NEW b \in Banks
  PROVE  request[t] \in Range(to_memory'[b]) <=> GoesTo(t, l, b)
<1> DEFINE r == request[t]
<1>1. r \in Request /\ r.task = t /\ r # NoRequest
  BY PlacedRequest
<1>2. Previous(b) \in Banks
  BY Ring
<1>3. Range(to_memory'[b]) =
        (Range(to_memory[b]) \ Read(to_memory[b], to_memory_rd_en(b))) \cup to_memory_data_in(b)
  BY ToStep
<1>4. \A d \in Banks : r \in Range(to_memory[d]) <=> l = <<"to", d>>
  BY DEF Spot
<1>5. rotate_inter(b) /\ r = Head(to_memory[Previous(b)]) => r \in Range(to_memory[Previous(b)])
  BY <1>2, RotateFacts, ToHead DEF StateInv
<1>6. rotate_single(b) /\ r = Head(to_memory[b]) => r \in Range(to_memory[b])
  BY RotateFacts, ToHead DEF StateInv
<1>7. r \in from_channel_to_bank(b) => l = <<"wait", t[1]>>
  <2>1. r \in from_channel_to_bank(b) => t[1] \in Accelerators /\ r \in Range(wait[t[1]])
    BY <1>1, ChannelFacts
  <2> QED
    BY <2>1 DEF Spot
<1>8. r \in to_memory_data_in(b) <=>
           \/ rotate_inter(b) /\ r = Head(to_memory[Previous(b)])
           \/ ~ rotate_inter(b) /\ rotate_single(b) /\ r = Head(to_memory[b])
           \/ ~ rotate_inter(b) /\ r \in from_channel_to_bank(b)
  BY ToInput
<1>9. r \in Read(to_memory[b], to_memory_rd_en(b)) <=> to_memory_rd_en(b) /\ r = Head(to_memory[b])
  BY DEF Read
<1>10. GoesTo(t, l, b) <=>
         \/ l = <<"to", b>> /\ ~ (to_memory_rd_en(b) /\ r = Head(to_memory[b]))
         \/ l = <<"to", Previous(b)>> /\ rotate_inter(b) /\ r = Head(to_memory[Previous(b)])
         \/ l = <<"to", b>> /\ ~ rotate_inter(b) /\ rotate_single(b) /\ r = Head(to_memory[b])
         \/ l = <<"wait", t[1]>> /\ ~ rotate_inter(b) /\ r \in from_channel_to_bank(b)
  BY DEF GoesTo
<1> HIDE DEF r
<1>11. r \in Range(to_memory'[b]) <=> \/ l = <<"to", b>> /\ ~ (to_memory_rd_en(b) /\ r = Head(to_memory[b]))
                                      \/ r \in to_memory_data_in(b)
  BY <1>3, <1>4, <1>9
<1>12. r \in to_memory_data_in(b) <=>
         \/ l = <<"to", Previous(b)>> /\ rotate_inter(b) /\ r = Head(to_memory[Previous(b)])
         \/ l = <<"to", b>> /\ ~ rotate_inter(b) /\ rotate_single(b) /\ r = Head(to_memory[b])
         \/ l = <<"wait", t[1]>> /\ ~ rotate_inter(b) /\ r \in from_channel_to_bank(b)
  <2>1. rotate_inter(b) /\ r = Head(to_memory[Previous(b)]) => l = <<"to", Previous(b)>>
    BY <1>2, <1>4, <1>5
  <2>2. rotate_single(b) /\ r = Head(to_memory[b]) => l = <<"to", b>>
    BY <1>4, <1>6
  <2> QED
    BY <1>7, <1>8, <2>1, <2>2, Zenon
<1>13. r \in Range(to_memory'[b]) <=> GoesTo(t, l, b)
  BY <1>10, <1>11, <1>12, Zenon
<1> QED
  BY <1>13 DEF r

LEMMA FateAtomic ==
  ASSUME StoresApart, StateInv, LockInv, NEW ready \in SUBSET Busy, Registers(ready),
         NEW t \in Task, NEW l \in Place, l # Nowhere, Spot(t, l), NEW b \in Banks
  PROVE  atomic_register'[b] = request[t] <=> GoesAtomic(t, l, b)
<1> DEFINE r == request[t]
<1>1. r \in Request /\ r.task = t /\ r # NoRequest
  BY PlacedRequest
<1>2. atomic_register'[b] = NextAtomic(b)
  BY DEF Registers
<1>3. atomic_register[b] = r <=> l = <<"atomic", b>>
  BY <1>1 DEF Spot
<1>4. ASSUME r \in incoming_atomic_store(b) PROVE l = <<"wait", t[1]>>
  <2>1. r \in Driven(Channel(t))
    BY <1>1, <1>4, IncomingFacts
  <2>2. t[1] \in Accelerators /\ Channel(t) \in Channels
    BY TaskFacts
  <2>3. r \in Range(wait[t[1]])
    BY <1>1, <2>1, <2>2, DrivenFacts DEF StateInv
  <2> QED
    BY <2>2, <2>3 DEF Spot
<1>5. CASE incoming_atomic_store(b) = {}
  <2>1. NextAtomic(b) = IF status[b] = "S_3" THEN NoRequest ELSE atomic_register[b]
    BY <1>5, AtomicStep
  <2> QED
    BY <1>1, <1>2, <1>3, <1>5, <2>1 DEF GoesAtomic
<1>6. CASE incoming_atomic_store(b) # {}
  <2>1. PICK s \in incoming_atomic_store(b) : TRUE
    BY <1>6
  <2>2. NextAtomic(b) = s /\ atomic_register[b] = NoRequest /\ \A u \in incoming_atomic_store(b) : u = s
    BY AtomicStep, IncomingFacts
  <2>3. l # <<"atomic", b>>
    BY <1>1, <1>3, <2>2
  <2>4. NextAtomic(b) = r <=> r \in incoming_atomic_store(b)
    BY <2>2
  <2> QED
    BY <1>2, <1>4, <2>3, <2>4 DEF GoesAtomic
<1> QED
  BY <1>5, <1>6

LEMMA FateTop ==
  ASSUME StoresApart, StateInv, LockInv, NEW ready \in SUBSET Busy, Registers(ready),
         NEW t \in Task, NEW l \in Place, l # Nowhere, Spot(t, l), NEW b \in Banks
  PROVE  /\ Working(b)' /\ top_register'[b] = request[t] <=>
              GoesTop(t, l, b) \/ (l = <<"top", b>> /\ ~ Done(b, ready))
         /\ GoesTop(t, l, b) <=> top_register_we(b) /\ next_request(b) = request[t]
<1> DEFINE r == request[t]
<1>1. r \in Request /\ r.task = t /\ r # NoRequest
  BY PlacedRequest
<1>2. /\ status'[b] = next_status(b, ready)
      /\ top_register'[b] = IF top_register_we(b) THEN next_request(b) ELSE top_register[b]
  BY DEF Registers
<1>3. /\ Working(b)' <=> status'[b] \in {"S_1", "S_2", "S_4", "S_5"}
      /\ Working(b) <=> status[b] \in {"S_1", "S_2", "S_4", "S_5"}
  BY DEF Working
<1>4. /\ atomic_register[b] = r <=> l = <<"atomic", b>>
      /\ r \in Range(to_memory[b]) <=> l = <<"to", b>>
      /\ Working(b) /\ top_register[b] = r <=> l = <<"top", b>>
  BY <1>1 DEF Spot
<1>5. GoesTop(t, l, b) <=> top_register_we(b) /\ next_request(b) = r
  <2>1. ASSUME top_register_we(b), next_request(b) = r PROVE GoesTop(t, l, b)
    <3>1. CASE copy_from_fifo(b)
      <4>1. to_memory[b] # <<>> /\ next_request(b) = Head(to_memory[b])
        BY <3>1, CopyFacts
      <4>2. r \in Range(to_memory[b])
        BY <2>1, <4>1, ToHead DEF StateInv
      <4> QED
        BY <1>4, <2>1, <3>1, <4>1, <4>2 DEF GoesTop
    <3>2. CASE ~ copy_from_fifo(b)
      <4>1. status[b] = "S_3" /\ next_request(b) = atomic_register[b]
        BY <2>1, <3>2, WriteFacts
      <4> QED
        BY <1>4, <2>1, <4>1 DEF GoesTop
    <3> QED
      BY <3>1, <3>2
  <2>2. ASSUME GoesTop(t, l, b) PROVE top_register_we(b) /\ next_request(b) = r
    <3>1. CASE l = <<"to", b>> /\ copy_from_fifo(b) /\ r = Head(to_memory[b])
      BY <3>1, CopyFacts DEF top_register_we
    <3>2. CASE l = <<"atomic", b>> /\ status[b] = "S_3"
      BY <1>1, <1>4, <3>2 DEF top_register_we, next_request
    <3> QED
      BY <2>2, <3>1, <3>2 DEF GoesTop
  <2> QED
    BY <2>1, <2>2
<1>6. CASE top_register_we(b)
  <2>1. ~ Working(b) /\ next_status(b, ready) \in {"S_1", "S_4"}
    BY <1>6, StatusStep
  <2> QED
    BY <1>2, <1>3, <1>4, <1>5, <1>6, <2>1
<1>7. CASE ~ top_register_we(b)
  <2>1. next_status(b, ready) \in {"S_1", "S_2", "S_4", "S_5"} <=> Working(b) /\ ~ Done(b, ready)
    BY <1>7, StatusStep
  <2> QED
    BY <1>2, <1>3, <1>4, <1>5, <1>7, <2>1
<1> QED
  BY <1>6, <1>7

LEMMA FateFrom ==
  ASSUME StateInv, NEW ready \in SUBSET Busy, FromMemory(ready),
         NEW t \in Task, NEW l \in Place, l # Nowhere, Spot(t, l), NEW b \in Banks
  PROVE  t \in Range(from_memory'[b]) <=> GoesFrom(t, l, b, ready)
<1>1. Previous(b) \in Banks
  BY Ring
<1>2. Range(from_memory'[b]) =
        (Range(from_memory[b]) \ Read(from_memory[b], PopFrom(b))) \cup from_memory_data_in(b, ready)
  BY FromStep
<1>3. \A d \in Banks : t \in Range(from_memory[d]) <=> l = <<"from", d>>
  BY DEF Spot
<1>4. source_rotation(Previous(b)) /\ t = Head(from_memory[Previous(b)]) => t \in Range(from_memory[Previous(b)])
  BY <1>1, PopFromFacts, FromHead DEF StateInv
<1>5. Done(b, ready) /\ t = top_register[b].task <=> l = <<"top", b>> /\ Done(b, ready)
  <2>1. Done(b, ready) => Working(b)
    BY DEF Done, Busy, Working
  <2>2. Working(b) => Current(top_register[b])
    BY DEF StateInv, BanksInv
  <2>3. request[t].task = t
    BY PlacedRequest
  <2>4. Working(b) => (t = top_register[b].task <=> top_register[b] = request[t])
    BY <2>2, <2>3 DEF Current
  <2>5. Working(b) /\ top_register[b] = request[t] <=> l = <<"top", b>>
    BY DEF Spot
  <2> QED
    BY <2>1, <2>4, <2>5
<1>6. t \in from_memory_data_in(b, ready) <=>
           \/ source_rotation(Previous(b)) /\ t = Head(from_memory[Previous(b)])
           \/ Done(b, ready) /\ t = top_register[b].task
  BY FromInput
<1>7. t \in Read(from_memory[b], PopFrom(b)) <=> PopFrom(b) /\ t = Head(from_memory[b])
  BY DEF Read
<1> QED
  BY <1>1, <1>2, <1>3, <1>4, <1>5, <1>6, <1>7 DEF GoesFrom

-------------------------------------------------------------------------------
(* What is in the FIFOs and registers after a cycle. *)

LEMMA NextTo ==
  ASSUME StateInv, NEW issue \in Issues, Tasks(issue), ToMemory, NEW b \in Banks, NEW r \in Range(to_memory'[b])
  PROVE  /\ r \in Request /\ Current(r) /\ Current(r)'
         /\ Lane(r.bank) = Lane(b) /\ r.kind # "atomic store"
<1>1. /\ to_memory'[b] \in Seq(Request)
      /\ r \in (Range(to_memory[b]) \ Read(to_memory[b], to_memory_rd_en(b))) \cup to_memory_data_in(b)
  BY ToStep
<1>2. r \in Request
  BY <1>1 DEF Range
<1>3. Current(r) /\ Lane(r.bank) = Lane(b) /\ r.kind # "atomic store"
  BY <1>1, ToInputFacts DEF StateInv, QueuesInv
<1>4. PICK l \in Place : l # Nowhere /\ Spot(r.task, l)
  BY <1>2, <1>3, CurrentSpot
<1>5. r.task \in Task /\ request[r.task] = r
  BY <1>2, <1>3, CurrentSpot
<1>6. GoesTo(r.task, l, b)
  BY <1>4, <1>5, FateTo
<1>7. \A d \in Banks : l # <<"from", d>>
  BY <1>6 DEF GoesTo
<1>8. request'[r.task] = r
  BY <1>4, <1>5, <1>7, KeepsRequest
<1> QED
  BY <1>2, <1>3, <1>8 DEF Current

LEMMA NextWait ==
  ASSUME StateInv, NEW issue \in Issues, Tasks(issue), Wait(issue), NEW a \in Accelerators, NEW r \in Range(wait'[a])
  PROVE  /\ r \in Request /\ Current(r)' /\ r.task[1] = a
         /\ Current(r) \/ r \in issue
<1>1. /\ wait'[a] \in Seq(Request)
      /\ r \in (Range(wait[a]) \ Read(wait[a], PopWait(a))) \cup {s \in issue : s.task[1] = a}
  BY WaitStep
<1>2. r \in Request /\ r.task \in Task
  <2>1. r \in Request
    BY <1>1 DEF Range
  <2> QED
    BY <2>1, RequestFacts
<1>3. CASE r \in Range(wait[a])
  <2>1. Current(r) /\ r.task[1] = a
    BY <1>3, WaitingFacts
  <2>2. PICK l \in Place : l # Nowhere /\ Spot(r.task, l)
    BY <1>2, <2>1, CurrentSpot
  <2>3. request[r.task] = r
    BY <1>2, <2>1, CurrentSpot
  <2>4. l = <<"wait", a>>
    BY <1>3, <2>2, <2>3 DEF Spot
  <2>5. \A d \in Banks : l # <<"from", d>>
    BY <2>4
  <2>6. request'[r.task] = r
    BY <1>2, <2>2, <2>3, <2>5, KeepsRequest
  <2> QED
    BY <1>2, <2>1, <2>6 DEF Current
<1>4. CASE r \in issue /\ r.task[1] = a
  <2>1. request[r.task] = NoRequest
    BY <1>4, IssueFacts DEF StateInv
  <2>2. r.task \notin Answered
    <3>1. PICK l \in Place : Spot(r.task, l)
      BY <1>2 DEF StateInv, PlaceInv
    <3>2. l = Nowhere
      BY <2>1, <3>1 DEF Spot
    <3> QED
      BY <3>1, <3>2, AnsweredFrom DEF Nowhere
  <2>3. request'[r.task] = r
    BY <1>2, <1>4, <2>2, RequestStep
  <2> QED
    BY <1>2, <1>4, <2>3 DEF Current
<1> QED
  BY <1>1, <1>3, <1>4

LEMMA NextKept ==
  ASSUME StoresApart, StateInv, LockInv, NEW issue \in Issues, Tasks(issue),
         NEW ready \in SUBSET Busy, Registers(ready), NEW b \in Banks, atomic_register'[b] # NoRequest
  PROVE  LET r == atomic_register'[b] IN
         /\ r \in Request /\ Current(r) /\ request'[r.task] = r
         /\ r.kind = "atomic store" /\ r.bank = b /\ status'[b] \in Locked
<1> DEFINE r == atomic_register'[b]
<1>1. r = NextAtomic(b) /\ status'[b] = next_status(b, ready)
  BY DEF Registers
<1>2. r \in Request /\ Current(r) /\ r.kind = "atomic store" /\ r.bank = b /\ status'[b] \in Locked
  <2>1. CASE incoming_atomic_store(b) = {}
    <3>1. r = atomic_register[b] /\ status[b] # "S_3"
      BY <1>1, <2>1, AtomicStep
    <3>2. atomic_register[b] # NoRequest
      BY <3>1
    <3>3. status[b] \in Locked
      BY <3>2 DEF StateInv, BanksInv
    <3>4. ~ top_register_we(b)
      BY <3>1, <3>3, WriteFacts DEF Locked
    <3>5. status'[b] \in Locked
      BY <1>1, <3>3, <3>4, StatusStep
    <3> QED
      BY <3>1, <3>2, <3>5, KeptNotLeaving
  <2>2. CASE incoming_atomic_store(b) # {}
    <3>1. PICK s \in incoming_atomic_store(b) : TRUE
      BY <2>2
    <3>2. r = s
      BY <1>1, AtomicStep
    <3>3. /\ s \in Request /\ Current(s) /\ s.kind = "atomic store" /\ s.bank = b
          /\ status[b] \in Locked /\ atomic_register[b] = NoRequest
      BY IncomingFacts
    <3>4. status'[b] \in Locked
      <4>1. CASE top_register_we(b)
        <5>1. status[b] = "S_3" /\ next_request(b).kind = "load"
          BY <3>3, <4>1, WriteFacts DEF Locked
        <5>2. next_status(b, ready) = "S_4"
          BY <4>1, <5>1, StatusStep
        <5> QED
          BY <1>1, <5>2 DEF Locked
      <4>2. CASE ~ top_register_we(b)
        BY <1>1, <3>3, <4>2, StatusStep
      <4> QED
        BY <4>1, <4>2
    <3> QED
      BY <3>2, <3>3, <3>4
  <2> QED
    BY <2>1, <2>2
<1> HIDE DEF r
<1>3. r.task \in Task /\ request[r.task] = r /\ r # NoRequest
  BY <1>2, CurrentSpot
<1>4. PICK l \in Place : l # Nowhere /\ Spot(r.task, l)
  BY <1>2, CurrentSpot
<1>5. GoesAtomic(r.task, l, b)
  <2>1. atomic_register'[b] = request[r.task]
    BY <1>3 DEF r
  <2> QED
    BY <1>3, <1>4, <2>1, FateAtomic
<1>6. \A d \in Banks : l # <<"from", d>>
  BY <1>5 DEF GoesAtomic
<1>7. request'[r.task] = r
  BY <1>3, <1>4, <1>6, KeepsRequest
<1> QED
  BY <1>2, <1>7 DEF r

LEMMA NextTop ==
  ASSUME StoresApart, StateInv, LockInv, NEW issue \in Issues, Tasks(issue),
         NEW ready \in SUBSET Busy, Registers(ready), NEW b \in Banks
  PROVE  LET r == top_register'[b] IN
         /\ r \in Request \cup {NoRequest}
         /\ Working(b)' => r \in Request /\ Current(r) /\ request'[r.task] = r /\ r.bank = b
         /\ status'[b] \in {"S_1", "S_2"} => r.kind # "atomic load"
         /\ status'[b] \in Locked => r # NoRequest /\ r.kind \in {"load", "atomic load"}
<1> DEFINE r == top_register'[b]
<1>1. /\ r = IF top_register_we(b) THEN next_request(b) ELSE top_register[b]
      /\ status'[b] = next_status(b, ready)
      /\ Working(b)' <=> status'[b] \in {"S_1", "S_2", "S_4", "S_5"}
  BY DEF Registers, Working
<1>2. top_register[b] \in Request \cup {NoRequest}
  BY DEF StateInv, TypesInv
<1>3. CASE top_register_we(b)
  <2>1. r = next_request(b) /\ r \in Request /\ Current(r) /\ r.bank = b /\ r # NoRequest
    BY <1>1, <1>3, WriteFacts, RequestFacts
  <2>2. status'[b] = IF r.kind \in {"atomic load"} \/ (status[b] = "S_3" /\ r.kind = "load")
                     THEN "S_4" ELSE "S_1"
    BY <1>1, <1>3, <2>1, StatusStep
  <2>3. r.kind \in {"load", "store", "atomic load", "atomic store"}
    BY <2>1, RequestFacts
  <2>4. status'[b] \in {"S_1", "S_2"} => r.kind # "atomic load"
    BY <2>2
  <2>5. status'[b] \in Locked => r.kind \in {"load", "atomic load"}
    BY <2>2 DEF Locked
  <2> HIDE DEF r
  <2>6. PICK l \in Place : l # Nowhere /\ Spot(r.task, l)
    BY <2>1, CurrentSpot
  <2>7. r.task \in Task /\ request[r.task] = r
    BY <2>1, CurrentSpot
  <2>8. GoesTop(r.task, l, b)
    <3>1. next_request(b) = request[r.task]
      BY <2>1, <2>7
    <3> QED
      BY <1>3, <2>6, <2>7, <3>1, FateTop
  <2>9. \A d \in Banks : l # <<"from", d>>
    BY <2>8 DEF GoesTop
  <2>10. request'[r.task] = r
    BY <2>6, <2>7, <2>9, KeepsRequest
  <2> QED
    BY <2>1, <2>4, <2>5, <2>10 DEF r
<1>4. CASE ~ top_register_we(b)
  <2>1. r = top_register[b]
    BY <1>1, <1>4
  <2>2. /\ status'[b] \in {"S_1", "S_2", "S_4", "S_5"} => Working(b)
        /\ status'[b] \in {"S_1", "S_2"} => status[b] \in {"S_1", "S_2"}
        /\ status'[b] \in Locked => status[b] \in Locked
    BY <1>1, <1>4, StatusStep
  <2>3. /\ Working(b) => r # NoRequest /\ Current(r) /\ r.bank = b
        /\ status[b] \in {"S_1", "S_2"} => r.kind # "atomic load"
        /\ status[b] \in Locked => r # NoRequest /\ r.kind \in {"load", "atomic load"}
    BY <2>1 DEF StateInv, BanksInv
  <2>4. r \in Request \cup {NoRequest}
    BY <1>2, <2>1
  <2>5. Working(b)' => Working(b)
    BY <1>1, <2>2
  <2>6. ASSUME Working(b) PROVE request'[r.task] = r
    <3> HIDE DEF r
    <3>1. r \in Request /\ Current(r)
      BY <2>3, <2>4, <2>6
    <3>2. PICK l \in Place : l # Nowhere /\ Spot(r.task, l)
      BY <3>1, CurrentSpot
    <3>3. r.task \in Task /\ request[r.task] = r
      BY <3>1, CurrentSpot
    <3>4. l = <<"top", b>>
      BY <2>1, <2>6, <3>2, <3>3 DEF Spot
    <3>5. \A d \in Banks : l # <<"from", d>>
      BY <3>4
    <3> QED
      BY <3>2, <3>3, <3>5, KeepsRequest
  <2> HIDE DEF r
  <2>7. Working(b)' => r \in Request /\ Current(r) /\ request'[r.task] = r /\ r.bank = b
    BY <2>3, <2>4, <2>5, <2>6
  <2> QED
    BY <2>2, <2>3, <2>4, <2>7 DEF r
<1> QED
  BY <1>3, <1>4

-------------------------------------------------------------------------------
(* The place after a cycle. *)

LEMMA SpotNext ==
  ASSUME StoresApart, StateInv, LockInv, NEW issue \in Issues, NEW ready \in SUBSET Busy, Cycle(issue, ready),
         NEW t \in Task, NEW l \in Place, l # Nowhere, Spot(t, l), request'[t] = request[t],
         NEW m \in Place, m # Nowhere,
         \A a \in Accelerators : m = <<"wait", a>> <=> l = <<"wait", a>> /\ request[t] \notin request_accepted(Channel(t)),
         \A b \in Banks :
           /\ m = <<"to", b>> <=> GoesTo(t, l, b)
           /\ m = <<"atomic", b>> <=> GoesAtomic(t, l, b)
           /\ m = <<"top", b>> <=> GoesTop(t, l, b) \/ (l = <<"top", b>> /\ ~ Done(b, ready))
           /\ m = <<"from", b>> <=> GoesFrom(t, l, b, ready)
  PROVE  Spot(t, m)'
<1>1. Wait(issue) /\ ToMemory /\ Registers(ready) /\ FromMemory(ready)
  BY DEF Cycle
<1>2. request[t] # NoRequest
  BY DEF Spot
<1>3. \A a \in Accelerators : request'[t] \in Range(wait'[a]) <=> m = <<"wait", a>>
  BY <1>1, FateWait
<1>4. ASSUME NEW b \in Banks
      PROVE  /\ request'[t] \in Range(to_memory'[b]) <=> m = <<"to", b>>
             /\ atomic_register'[b] = request'[t] <=> m = <<"atomic", b>>
             /\ Working(b)' /\ top_register'[b] = request'[t] <=> m = <<"top", b>>
             /\ t \in Range(from_memory'[b]) <=> m = <<"from", b>>
  BY <1>1, FateTo, FateAtomic, FateTop, FateFrom
<1> QED
  BY <1>2, <1>3, <1>4 DEF Spot

LEMMA SpotNowhere ==
  ASSUME StoresApart, StateInv, LockInv, NEW issue \in Issues, NEW ready \in SUBSET Busy, Cycle(issue, ready),
         NEW t \in Task, request'[t] = NoRequest, \A b \in Banks : t \notin Range(from_memory'[b])
  PROVE  Spot(t, Nowhere)'
<1>1. Wait(issue) /\ ToMemory /\ Registers(ready) /\ FromMemory(ready) /\ Tasks(issue)
  BY DEF Cycle
<1>2. \A r \in Request : r # NoRequest
  BY RequestFacts
<1>3. \A a \in Accelerators : NoRequest \notin Range(wait'[a])
  BY <1>1, <1>2, NextWait
<1>4. \A b \in Banks : NoRequest \notin Range(to_memory'[b])
  BY <1>1, <1>2, NextTo
<1>5. \A b \in Banks : Working(b)' => top_register'[b] # NoRequest
  BY <1>1, <1>2, NextTop
<1> QED
  BY <1>3, <1>4, <1>5 DEF Spot, Nowhere

LEMMA WaitMoves ==
  ASSUME StoresApart, StateInv, LockInv, NEW issue \in Issues, NEW ready \in SUBSET Busy, Cycle(issue, ready),
         NEW t \in Task, NEW a \in Accelerators, NEW l \in Place, l = <<"wait", a>>, Spot(t, l)
  PROVE  /\ request'[t] = request[t]
         /\ \/ Spot(t, l)'
            \/ \E b \in Banks : Spot(t, <<"to", b>>)' \/ Spot(t, <<"atomic", b>>)'
<1> DEFINE r == request[t]
<1>1. l # Nowhere /\ \A b \in Banks : l # <<"from", b>>
  BY DEF Nowhere
<1>2. r # NoRequest /\ r \in Request /\ r.task = t /\ Current(r)
  BY <1>1, PlacedRequest
<1>3. request'[t] = r
  BY <1>1, KeepsRequest DEF Cycle
<1>4. r \in Range(wait[a])
  BY DEF Spot
<1>5. a = t[1] /\ Channel(t) \in Channels
  BY <1>2, <1>4, WaitingFacts, TaskFacts
<1>6. \A b \in Banks : /\ GoesTo(t, l, b) <=> ~ rotate_inter(b) /\ r \in from_channel_to_bank(b)
                       /\ GoesAtomic(t, l, b) <=> r \in incoming_atomic_store(b)
                       /\ ~ GoesTop(t, l, b) /\ ~ GoesFrom(t, l, b, ready)
  BY <1>5 DEF GoesTo, GoesAtomic, GoesTop, GoesFrom
<1>7. /\ r \in request_accepted(Channel(t)) => r \in Driven(Channel(t))
      /\ r \in request_accepted(Channel(t)) <=>
           /\ r \in Driven(Channel(t))
           /\ \/ r.kind = "atomic store"
              \/ \E b \in Banks : Group(b) = Channel(t) /\ r \in from_channel_to_bank(b) /\ ~ rotate_inter(b)
  BY DEF request_accepted
<1>8. \A b \in Banks : r \in from_channel_to_bank(b) =>
        /\ r.kind # "atomic store" /\ Lane(r.bank) = Lane(b)
        /\ Group(b) = Channel(t) /\ r \in Driven(Channel(t))
  BY <1>2, ChannelFacts
<1>9. \A b \in Banks : r \in incoming_atomic_store(b) <=>
        r.kind = "atomic store" /\ r.bank = b /\ r \in Driven(Channel(t))
  BY <1>2, DrivenAnywhere DEF incoming_atomic_store, StateInv
<1> HIDE DEF r
<1>10. CASE r \notin request_accepted(Channel(t))
  <2>1. \A b \in Banks : ~ GoesTo(t, l, b) /\ ~ GoesAtomic(t, l, b)
    BY <1>6, <1>7, <1>8, <1>9, <1>10
  <2>2. Spot(t, l)'
    BY <1>1, <1>3, <1>6, <1>10, <2>1, SpotNext DEF r
  <2> QED
    BY <1>3, <2>2 DEF r
<1>11. CASE r \in request_accepted(Channel(t)) /\ r.kind = "atomic store"
  <2>9. r.bank \in Banks
    BY <1>2, RequestFacts
  <2>10. PICK d \in Banks : d = r.bank
    BY <2>9
  <2> DEFINE m == <<"atomic", d>>
  <2>1. m \in Place /\ m # Nowhere
    BY DEF Place, Nowhere
  <2>2. \A b \in Banks : ~ GoesTo(t, l, b) /\ (GoesAtomic(t, l, b) <=> m = <<"atomic", b>>)
    BY <1>6, <1>7, <1>8, <1>9, <1>11, <2>10
  <2>3. Spot(t, m)'
    BY <1>1, <1>3, <1>6, <1>11, <2>1, <2>2, SpotNext DEF r
  <2>4. \E b \in Banks : Spot(t, <<"atomic", b>>)'
    BY <2>3
  <2> QED
    BY <1>3, <2>4 DEF r
<1>12. CASE r \in request_accepted(Channel(t)) /\ r.kind # "atomic store"
  <2>1. PICK b \in Banks : Group(b) = Channel(t) /\ r \in from_channel_to_bank(b) /\ ~ rotate_inter(b)
    BY <1>7, <1>12
  <2> DEFINE m == <<"to", b>>
  <2>2. m \in Place /\ m # Nowhere
    BY DEF Place, Nowhere
  <2>3. \A d \in Banks : r \in from_channel_to_bank(d) => d = b
    BY <1>8, <2>1, SamePair
  <2>4. \A d \in Banks : ~ GoesAtomic(t, l, d) /\ (GoesTo(t, l, d) <=> m = <<"to", d>>)
    BY <1>6, <1>9, <1>12, <2>1, <2>3
  <2>5. Spot(t, m)'
    BY <1>1, <1>3, <1>6, <1>12, <2>2, <2>4, SpotNext DEF r
  <2> QED
    BY <1>3, <2>5 DEF r
<1> QED
  BY <1>10, <1>11, <1>12

LEMMA ToMoves ==
  ASSUME StoresApart, StateInv, LockInv, NEW issue \in Issues, NEW ready \in SUBSET Busy, Cycle(issue, ready),
         NEW t \in Task, NEW b \in Banks, NEW l \in Place, l = <<"to", b>>, Spot(t, l)
  PROVE  /\ request'[t] = request[t]
         /\ \/ \E d \in Banks : Spot(t, <<"to", d>>)'
            \/ Spot(t, <<"top", b>>)' /\ GoesTop(t, l, b)
<1> DEFINE r == request[t]
           f == Following(b)
           leaves == to_memory_rd_en(b) /\ r = Head(to_memory[b])
<1>1. l # Nowhere /\ (\A d \in Banks : l # <<"from", d>>) /\ \A a \in Accelerators : l # <<"wait", a>>
  BY DEF Nowhere
<1>2. request'[t] = r
  BY <1>1, KeepsRequest DEF Cycle
<1>3. f \in Banks /\ Previous(f) = b /\ \A d \in Banks : Previous(d) = b <=> d = f
  BY Ring
<1>4. \A d \in Banks :
        /\ ~ GoesAtomic(t, l, d) /\ ~ GoesFrom(t, l, d, ready) /\ l # <<"top", d>>
        /\ GoesTop(t, l, d) <=> d = b /\ copy_from_fifo(b) /\ r = Head(to_memory[b])
        /\ GoesTo(t, l, d) <=>
             \/ d = b /\ ~ leaves
             \/ d = f /\ rotate_inter(f) /\ r = Head(to_memory[b])
             \/ d = b /\ ~ rotate_inter(b) /\ rotate_single(b) /\ r = Head(to_memory[b])
  BY <1>3 DEF GoesTo, GoesAtomic, GoesTop, GoesFrom
<1>5. to_memory_rd_en(b) <=> rotate_inter(f) \/ (rotate_single(b) /\ ~ rotate_inter(b)) \/ copy_from_fifo(b)
  BY DEF to_memory_rd_en
<1>6. /\ copy_from_fifo(b) => ~ rotate_inter(f) /\ ~ rotate_single(b)
      /\ rotate_single(b) => ~ rotate_inter(f)
  BY CopyFacts DEF rotate_single
<1>7. \A d \in Banks : <<"to", d>> \in Place /\ <<"top", d>> \in Place /\ <<"to", d>> # Nowhere /\ <<"top", d>> # Nowhere
  BY DEF Place, Nowhere
<1> HIDE DEF r, f
<1>8. CASE ~ leaves \/ (~ rotate_inter(b) /\ rotate_single(b))
  <2>1. \A d \in Banks : ~ GoesTop(t, l, d) /\ (GoesTo(t, l, d) <=> d = b)
    BY <1>4, <1>5, <1>6, <1>8
  <2>2. Spot(t, l)'
    BY <1>1, <1>2, <1>4, <2>1, SpotNext DEF r
  <2> QED
    BY <1>2, <2>2 DEF r
<1>9. CASE leaves /\ rotate_inter(f)
  <2> DEFINE m == <<"to", f>>
  <2>1. \A d \in Banks : ~ GoesTop(t, l, d) /\ (GoesTo(t, l, d) <=> d = f)
    BY <1>4, <1>6, <1>9
  <2>2. Spot(t, m)'
    BY <1>1, <1>2, <1>3, <1>4, <1>7, <2>1, SpotNext DEF r
  <2>3. \E d \in Banks : Spot(t, <<"to", d>>)'
    BY <1>3, <2>2
  <2> QED
    BY <1>2, <2>3 DEF r
<1>10. CASE leaves /\ copy_from_fifo(b)
  <2> DEFINE m == <<"top", b>>
  <2>1. \A d \in Banks : ~ GoesTo(t, l, d) /\ (GoesTop(t, l, d) <=> d = b)
    BY <1>4, <1>6, <1>10
  <2>2. Spot(t, m)'
    BY <1>1, <1>2, <1>4, <1>7, <2>1, SpotNext DEF r
  <2> QED
    BY <1>2, <2>1, <2>2 DEF r
<1> QED
  BY <1>5, <1>8, <1>9, <1>10

LEMMA AtomicMoves ==
  ASSUME StoresApart, StateInv, LockInv, NEW issue \in Issues, NEW ready \in SUBSET Busy, Cycle(issue, ready),
         NEW t \in Task, NEW b \in Banks, NEW l \in Place, l = <<"atomic", b>>, Spot(t, l)
  PROVE  /\ request'[t] = request[t]
         /\ \/ Spot(t, l)'
            \/ Spot(t, <<"top", b>>)' /\ GoesTop(t, l, b)
<1>1. l # Nowhere /\ (\A d \in Banks : l # <<"from", d>>) /\ \A a \in Accelerators : l # <<"wait", a>>
  BY DEF Nowhere
<1>2. request'[t] = request[t]
  BY <1>1, KeepsRequest DEF Cycle
<1>3. \A d \in Banks :
        /\ ~ GoesTo(t, l, d) /\ ~ GoesFrom(t, l, d, ready) /\ l # <<"top", d>>
        /\ GoesTop(t, l, d) <=> d = b /\ status[b] = "S_3"
        /\ GoesAtomic(t, l, d) <=> d = b /\ status[b] # "S_3"
  BY <1>1, TaskFacts DEF GoesTo, GoesAtomic, GoesTop, GoesFrom
<1>4. <<"top", b>> \in Place /\ <<"top", b>> # Nowhere
  BY DEF Place, Nowhere
<1>5. CASE status[b] # "S_3"
  <2>1. Spot(t, l)'
    BY <1>1, <1>2, <1>3, <1>5, SpotNext
  <2> QED
    BY <1>2, <2>1
<1>6. CASE status[b] = "S_3"
  <2> DEFINE m == <<"top", b>>
  <2>1. Spot(t, m)'
    BY <1>1, <1>2, <1>3, <1>4, <1>6, SpotNext
  <2> QED
    BY <1>2, <1>3, <1>6, <2>1
<1> QED
  BY <1>5, <1>6

LEMMA TopMoves ==
  ASSUME StoresApart, StateInv, LockInv, NEW issue \in Issues, NEW ready \in SUBSET Busy, Cycle(issue, ready),
         NEW t \in Task, NEW b \in Banks, NEW l \in Place, l = <<"top", b>>, Spot(t, l)
  PROVE  /\ request'[t] = request[t]
         /\ Spot(t, l)' \/ Spot(t, <<"from", b>>)'
<1>1. l # Nowhere /\ (\A d \in Banks : l # <<"from", d>>) /\ \A a \in Accelerators : l # <<"wait", a>>
  BY DEF Nowhere
<1>2. request'[t] = request[t]
  BY <1>1, KeepsRequest DEF Cycle
<1>3. \A d \in Banks :
        /\ ~ GoesTo(t, l, d) /\ ~ GoesAtomic(t, l, d) /\ ~ GoesTop(t, l, d)
        /\ GoesFrom(t, l, d, ready) <=> d = b /\ Done(b, ready)
  BY <1>1, TaskFacts DEF GoesTo, GoesAtomic, GoesTop, GoesFrom
<1>4. <<"from", b>> \in Place /\ <<"from", b>> # Nowhere
  BY DEF Place, Nowhere
<1>5. CASE ~ Done(b, ready)
  <2>1. Spot(t, l)'
    BY <1>1, <1>2, <1>3, <1>5, SpotNext
  <2> QED
    BY <1>2, <2>1
<1>6. CASE Done(b, ready)
  <2> DEFINE m == <<"from", b>>
  <2>1. Spot(t, m)'
    BY <1>1, <1>2, <1>3, <1>4, <1>6, SpotNext
  <2> QED
    BY <1>2, <2>1
<1> QED
  BY <1>5, <1>6

LEMMA FromMoves ==
  ASSUME StoresApart, StateInv, LockInv, NEW issue \in Issues, NEW ready \in SUBSET Busy, Cycle(issue, ready),
         NEW t \in Task, NEW b \in Banks, NEW l \in Place, l = <<"from", b>>, Spot(t, l)
  PROVE  \/ t \in Answered /\ request'[t] = NoRequest /\ Spot(t, Nowhere)'
         \/ /\ t \notin Answered /\ request'[t] = request[t]
            /\ \E d \in Banks : Spot(t, <<"from", d>>)'
<1> DEFINE f == Following(b)
<1>1. l # Nowhere /\ (\A d \in Banks : l # <<"top", d>>) /\ \A a \in Accelerators : l # <<"wait", a>>
  BY DEF Nowhere
<1>2. request[t] # NoRequest
  BY <1>1 DEF Spot
<1>3. f \in Banks /\ Previous(f) = b /\ \A d \in Banks : Previous(d) = b <=> d = f
  BY Ring
<1>4. \A d \in Banks :
        /\ ~ GoesTo(t, l, d) /\ ~ GoesAtomic(t, l, d) /\ ~ GoesTop(t, l, d)
        /\ GoesFrom(t, l, d, ready) <=>
             \/ d = b /\ ~ (PopFrom(b) /\ t = Head(from_memory[b]))
             \/ d = f /\ source_rotation(b) /\ t = Head(from_memory[b])
  BY <1>1, <1>3, TaskFacts DEF GoesTo, GoesAtomic, GoesTop, GoesFrom
<1>5. PopFrom(b) <=> source_rotation(b) \/ b \in Out(Group(b))
  BY DEF PopFrom
<1>6. source_rotation(b) => Channel(Head(from_memory[b])) # Group(b)
  BY PopFromFacts
<1>7. \A d \in Banks : <<"from", d>> \in Place /\ <<"from", d>> # Nowhere
  BY DEF Place, Nowhere
<1>8. Tasks(issue) /\ FromMemory(ready)
  BY DEF Cycle
<1>9. CASE t \in Answered
  <2>1. b \in Out(Group(b)) /\ t = Head(from_memory[b]) /\ Channel(t) = Group(b)
    BY <1>9, AnsweredFrom
  <2>2. request'[t] = NoRequest
    BY <1>8, <1>9, RequestStep
  <2>3. \A d \in Banks : ~ GoesFrom(t, l, d, ready)
    BY <1>4, <1>5, <1>6, <2>1
  <2>4. \A d \in Banks : t \notin Range(from_memory'[d])
    BY <1>1, <1>8, <2>3, FateFrom
  <2> QED
    BY <1>9, <2>2, <2>4, SpotNowhere
<1>10. CASE t \notin Answered
  <2>1. request'[t] = request[t]
    BY <1>2, <1>8, <1>10, RequestStep
  <2>2. t = Head(from_memory[b]) => b \notin Out(Group(b))
    <3>1. Group(b) \in Channels
      BY BankIsPair
    <3> QED
      BY <1>10, <3>1 DEF Answered
  <2>3. CASE source_rotation(b) /\ t = Head(from_memory[b])
    <3> DEFINE m == <<"from", f>>
    <3>1. \A d \in Banks : GoesFrom(t, l, d, ready) <=> d = f
      BY <1>4, <1>5, <2>3
    <3> HIDE DEF f
    <3>2. Spot(t, m)'
      BY <1>1, <1>3, <1>4, <1>7, <2>1, <3>1, SpotNext
    <3>3. \E d \in Banks : Spot(t, <<"from", d>>)'
      BY <1>3, <3>2
    <3> QED
      BY <1>10, <2>1, <3>3
  <2>4. CASE ~ (source_rotation(b) /\ t = Head(from_memory[b]))
    <3>1. \A d \in Banks : GoesFrom(t, l, d, ready) <=> d = b
      BY <1>4, <1>5, <2>2, <2>4
    <3>2. Spot(t, l)'
      BY <1>1, <1>4, <2>1, <3>1, SpotNext
    <3> QED
      BY <1>10, <2>1, <3>2
  <2> QED
    BY <2>3, <2>4
<1> QED
  BY <1>9, <1>10

LEMMA NoneMoves ==
  ASSUME StoresApart, StateInv, LockInv, NEW issue \in Issues, NEW ready \in SUBSET Busy, Cycle(issue, ready),
         NEW t \in Task, Spot(t, Nowhere)
  PROVE  /\ t \notin Answered /\ request[t] = NoRequest
         /\ \/ request'[t] = NoRequest /\ Spot(t, Nowhere)'
            \/ request'[t] \in issue /\ request'[t].task = t /\ Spot(t, <<"wait", t[1]>>)'
<1>1. /\ request[t] = NoRequest /\ \A b \in Banks : t \notin Range(from_memory[b]) /\ ~ (Working(b) /\ top_register[b].task = t)
  <2>1. request[t] = NoRequest
    BY DEF Spot
  <2>2. \A b \in Banks : t \notin Range(from_memory[b])
    BY DEF Spot, Nowhere
  <2>3. ASSUME NEW b \in Banks, Working(b), top_register[b].task = t PROVE FALSE
    BY <2>1, <2>3 DEF StateInv, BanksInv, Current
  <2> QED
    BY <2>1, <2>2, <2>3
<1>2. t \notin Answered
  <2>1. Nowhere \in Place /\ \A b \in Banks : Nowhere # <<"from", b>>
    BY DEF Place, Nowhere
  <2> QED
    BY <2>1, AnsweredFrom
<1>3. Wait(issue) /\ ToMemory /\ Registers(ready) /\ FromMemory(ready) /\ Tasks(issue)
  BY DEF Cycle
<1>4. ASSUME NEW b \in Banks, t \in Range(from_memory'[b]) PROVE FALSE
  <2>1. t \in from_memory_data_in(b, ready)
    BY <1>1, <1>3, <1>4, FromStep
  <2>2. CASE source_rotation(Previous(b)) /\ t = Head(from_memory[Previous(b)])
    <3>1. Previous(b) \in Banks /\ from_memory[Previous(b)] # <<>>
      BY <2>2, Ring, PopFromFacts
    <3> QED
      BY <1>1, <2>2, <3>1, FromHead DEF StateInv
  <2>3. CASE Done(b, ready) /\ t = top_register[b].task
    BY <1>1, <2>3 DEF Done, Busy, Working
  <2> QED
    BY <2>1, <2>2, <2>3, FromInput
<1>5. CASE \A r \in issue : r.task # t
  <2>1. request'[t] = NoRequest
    BY <1>1, <1>2, <1>3, <1>5, RequestStep
  <2> QED
    BY <1>1, <1>2, <1>4, <2>1, SpotNowhere
<1>6. CASE ~ \A r \in issue : r.task # t
  <2>1. PICK r \in issue : r.task = t
    BY <1>6
  <2>2. request'[t] = r
    BY <1>2, <1>3, <2>1, RequestStep
  <2>3. r \in Request /\ r # NoRequest /\ ~ Current(r)
    BY <1>1, <2>1, IssueFacts, RequestFacts DEF Current, StateInv
  <2>4. t[1] \in Accelerators
    BY TaskFacts
  <2>5. ASSUME NEW a \in Accelerators PROVE r \in Range(wait'[a]) <=> a = t[1]
    <3>1. r \in Range(wait'[a]) => a = t[1]
      BY <1>3, <2>1, NextWait
    <3>2. a = t[1] => r \in Range(wait'[a])
      BY <1>3, <2>1, WaitStep
    <3> QED
      BY <3>1, <3>2
  <2>6. ASSUME NEW b \in Banks
        PROVE  /\ r \notin Range(to_memory'[b]) /\ atomic_register'[b] # r
               /\ ~ (Working(b)' /\ top_register'[b] = r)
    <3>1. r \notin Range(to_memory'[b])
      BY <1>3, <2>3, NextTo
    <3>2. atomic_register'[b] # r
      BY <1>3, <2>3, NextKept
    <3>3. ~ (Working(b)' /\ top_register'[b] = r)
      BY <1>3, <2>3, NextTop
    <3> QED
      BY <3>1, <3>2, <3>3
  <2> DEFINE m == <<"wait", t[1]>>
  <2>7. /\ m # Nowhere /\ \A a \in Accelerators : m = <<"wait", a>> <=> a = t[1]
        /\ \A b \in Banks : m # <<"to", b>> /\ m # <<"atomic", b>> /\ m # <<"top", b>> /\ m # <<"from", b>>
    BY DEF Nowhere
  <2> HIDE DEF m
  <2>8. Spot(t, m)'
    BY <1>4, <2>2, <2>3, <2>5, <2>6, <2>7 DEF Spot
  <2> QED
    BY <1>1, <1>2, <2>1, <2>2, <2>8 DEF m
<1> QED
  BY <1>5, <1>6

-------------------------------------------------------------------------------
(* A cycle preserves the invariant. *)

LEMMA PlaceCases ==
  ASSUME NEW l \in Place
  PROVE  \/ l = Nowhere
         \/ \E a \in Accelerators : l = <<"wait", a>>
         \/ \E b \in Banks : l = <<"to", b>> \/ l = <<"atomic", b>> \/ l = <<"top", b>> \/ l = <<"from", b>>
  BY DEF Place

LEMMA PlaceStep ==
  ASSUME StoresApart, StateInv, LockInv, NEW issue \in Issues, NEW ready \in SUBSET Busy, Cycle(issue, ready)
  PROVE  PlaceInv'
<1> SUFFICES ASSUME NEW t \in Task PROVE \E m \in Place : Spot(t, m)'
  BY DEF PlaceInv
<1>1. PICK l \in Place : Spot(t, l)
  BY DEF StateInv, PlaceInv
<1>2. /\ Nowhere \in Place /\ <<"wait", t[1]>> \in Place
      /\ \A b \in Banks : {<<"to", b>>, <<"atomic", b>>, <<"top", b>>, <<"from", b>>} \subseteq Place
  BY TaskFacts DEF Place
<1>3. CASE l = Nowhere
  BY <1>1, <1>2, <1>3, NoneMoves
<1>4. CASE \E a \in Accelerators : l = <<"wait", a>>
  BY <1>1, <1>2, <1>4, WaitMoves
<1>5. ASSUME NEW b \in Banks, l = <<"to", b>> PROVE \E m \in Place : Spot(t, m)'
  BY <1>1, <1>2, <1>5, ToMoves
<1>6. ASSUME NEW b \in Banks, l = <<"atomic", b>> PROVE \E m \in Place : Spot(t, m)'
  BY <1>1, <1>2, <1>6, AtomicMoves
<1>7. ASSUME NEW b \in Banks, l = <<"top", b>> PROVE \E m \in Place : Spot(t, m)'
  BY <1>1, <1>2, <1>7, TopMoves
<1>8. ASSUME NEW b \in Banks, l = <<"from", b>> PROVE \E m \in Place : Spot(t, m)'
  BY <1>1, <1>2, <1>8, FromMoves
<1> QED
  BY <1>3, <1>4, <1>5, <1>6, <1>7, <1>8, PlaceCases

LEMMA OwesStep ==
  ASSUME NEW issue, Tasks(issue), NEW t \in Task
  PROVE  owes'[t] = IF t \in Answered /\ request[t].kind = "atomic load" THEN request[t].bank
                    ELSE IF t \in Answered /\ request[t].kind = "atomic store" THEN NoBank
                    ELSE owes[t]
<1>1. owes'[t] = CASE t \in Answered /\ request[t].kind = "atomic load" -> request[t].bank
                   [] t \in Answered /\ request[t].kind = "atomic store" -> NoBank
                   [] OTHER -> owes[t]
  BY DEF Tasks
<1> QED
  BY <1>1

LEMMA AnsweredRequest ==
  ASSUME StateInv, NEW t \in Answered
  PROVE  t \in Task /\ request[t] # NoRequest /\ request[t] \in Request /\ request[t].task = t
<1>1. PICK b \in Banks : from_memory[b] # <<>> /\ t = Head(from_memory[b])
  BY AnsweredFacts DEF StateInv
<1>2. t \in Task
  BY <1>1, FromHead DEF StateInv
<1>3. PICK l \in Place : Spot(t, l)
  BY <1>2 DEF StateInv, PlaceInv
<1>4. PICK d \in Banks : l = <<"from", d>>
  BY <1>3, AnsweredFrom
<1>5. l # Nowhere
  BY <1>4 DEF Nowhere
<1> QED
  BY <1>2, <1>3, <1>5, PlacedRequest

(* What a task does in a cycle, as far as itself is concerned. *)
LEMMA RequestCases ==
  ASSUME StateInv, NEW issue \in Issues, Tasks(issue), NEW t \in Task
  PROVE  \/ /\ t \in Answered /\ request[t] \in Request /\ request[t].task = t /\ request'[t] = NoRequest
            /\ owes'[t] = IF request[t].kind = "atomic load" THEN request[t].bank
                          ELSE IF request[t].kind = "atomic store" THEN NoBank ELSE owes[t]
         \/ /\ t \notin Answered /\ request[t] = NoRequest /\ request'[t] \in issue /\ request'[t].task = t
            /\ owes'[t] = owes[t]
         \/ t \notin Answered /\ request'[t] = request[t] /\ owes'[t] = owes[t]
<1>1. CASE t \in Answered
  BY <1>1, AnsweredRequest, RequestStep, OwesStep
<1>2. CASE t \notin Answered /\ \E r \in issue : r.task = t
  <2>1. PICK r \in issue : r.task = t
    BY <1>2
  <2>2. request[t] = NoRequest
    BY <2>1, IssueFacts DEF StateInv
  <2> QED
    BY <1>2, <2>1, <2>2, RequestStep, OwesStep
<1>3. CASE t \notin Answered /\ ~ \E r \in issue : r.task = t
  <2>1. request'[t] = request[t]
    BY <1>3, RequestStep
  <2>2. owes'[t] = owes[t]
    BY <1>3, OwesStep
  <2> QED
    BY <1>3, <2>1, <2>2
<1> QED
  BY <1>1, <1>2, <1>3

LEMMA TasksStep ==
  ASSUME StateInv, NEW issue \in Issues, Tasks(issue)
  PROVE  /\ request' \in [Task -> Request \cup {NoRequest}] /\ owes' \in [Task -> Banks \cup {NoBank}]
         /\ TasksInv'
<1>1. ASSUME NEW t \in Task
      PROVE  /\ request'[t] \in Request \cup {NoRequest} /\ owes'[t] \in Banks \cup {NoBank}
             /\ request'[t] # NoRequest =>
                  /\ request'[t].task = t
                  /\ request'[t].kind = "atomic store" => owes'[t] = request'[t].bank
                  /\ request'[t].kind # "atomic store" => owes'[t] = NoBank /\ request'[t] \in Access
             /\ owes'[t] # NoBank => \E s \in Access : s.kind = "atomic load" /\ s.bank = owes'[t]
  <2>1. /\ request[t] \in Request \cup {NoRequest} /\ owes[t] \in Banks \cup {NoBank}
        /\ request[t] # NoRequest =>
             /\ request[t].task = t
             /\ request[t].kind = "atomic store" => owes[t] = request[t].bank
             /\ request[t].kind # "atomic store" => owes[t] = NoBank /\ request[t] \in Access
        /\ owes[t] # NoBank => \E s \in Access : s.kind = "atomic load" /\ s.bank = owes[t]
    <3>1. request[t] \in Request \cup {NoRequest} /\ owes[t] \in Banks \cup {NoBank}
      BY DEF StateInv, TypesInv
    <3> QED
      BY <3>1 DEF StateInv, TasksInv
  <2>2. CASE /\ t \in Answered /\ request[t] \in Request /\ request[t].task = t /\ request'[t] = NoRequest
             /\ owes'[t] = IF request[t].kind = "atomic load" THEN request[t].bank
                           ELSE IF request[t].kind = "atomic store" THEN NoBank ELSE owes[t]
    <3>1. request[t].bank \in Banks /\ request[t] # NoRequest
      BY <2>2, RequestFacts
    <3>2. CASE request[t].kind = "atomic load"
      <4>1. request[t] \in Access /\ request[t].kind = "atomic load" /\ request[t].bank = owes'[t]
        BY <2>1, <2>2, <3>1, <3>2
      <4> QED
        BY <2>2, <3>1, <4>1
    <3>3. CASE request[t].kind # "atomic load"
      BY <2>1, <2>2, <3>3
    <3> QED
      BY <3>2, <3>3
  <2>3. CASE /\ t \notin Answered /\ request[t] = NoRequest /\ request'[t] \in issue /\ request'[t].task = t
             /\ owes'[t] = owes[t]
    <3>1. PICK r \in issue : r = request'[t]
      BY <2>3
    <3>2. /\ r \in Request
          /\ IF owes[t] = NoBank THEN r.kind # "atomic store" /\ r \in Access
             ELSE r.kind = "atomic store" /\ r.bank = owes[t]
      BY <2>3, <3>1, IssueFacts DEF StateInv
    <3> QED
      BY <2>1, <2>3, <3>1, <3>2
  <2>4. CASE t \notin Answered /\ request'[t] = request[t] /\ owes'[t] = owes[t]
    BY <2>1, <2>4
  <2> QED
    BY <2>2, <2>3, <2>4, RequestCases
<1>2. request' = [t \in Task |-> request'[t]] /\ owes' = [t \in Task |-> owes'[t]]
  BY DEF Tasks
<1>3. request' \in [Task -> Request \cup {NoRequest}] /\ owes' \in [Task -> Banks \cup {NoBank}]
  BY <1>1, <1>2
<1>4. TasksInv'
  BY <1>1 DEF TasksInv
<1> QED
  BY <1>3, <1>4

LEMMA TypesStep ==
  ASSUME StoresApart, StateInv, LockInv, NEW issue \in Issues, NEW ready \in SUBSET Busy, Cycle(issue, ready)
  PROVE  TypesInv'
<1>1. Wait(issue) /\ ToMemory /\ Registers(ready) /\ FromMemory(ready) /\ Tasks(issue)
  BY DEF Cycle
<1>2. wait' \in [Accelerators -> Seq(Request)]
  <2>1. wait' = [a \in Accelerators |-> wait'[a]]
    BY <1>1 DEF Wait
  <2>2. \A a \in Accelerators : wait'[a] \in Seq(Request)
    BY <1>1, WaitStep
  <2> QED
    BY <2>1, <2>2
<1>3. to_memory' \in [Banks -> Seq(Request)]
  <2>1. to_memory' = [b \in Banks |-> to_memory'[b]]
    BY <1>1 DEF ToMemory
  <2>2. \A b \in Banks : to_memory'[b] \in Seq(Request)
    BY <1>1, ToStep
  <2> QED
    BY <2>1, <2>2
<1>4. from_memory' \in [Banks -> Seq(Task)]
  <2>1. from_memory' = [b \in Banks |-> from_memory'[b]]
    BY <1>1 DEF FromMemory
  <2>2. \A b \in Banks : from_memory'[b] \in Seq(Task)
    BY <1>1, FromStep
  <2> QED
    BY <2>1, <2>2
<1>5. status' \in [Banks -> {"S_0", "S_1", "S_2", "S_3", "S_4", "S_5"}]
  <2>1. status' = [b \in Banks |-> next_status(b, ready)]
    BY <1>1 DEF Registers
  <2>2. \A b \in Banks : next_status(b, ready) \in {"S_0", "S_1", "S_2", "S_3", "S_4", "S_5"}
    BY StatusStep
  <2> QED
    BY <2>1, <2>2
<1>6. top_register' \in [Banks -> Request \cup {NoRequest}]
  <2>1. top_register' = [b \in Banks |-> top_register'[b]]
    BY <1>1 DEF Registers
  <2>2. \A b \in Banks : top_register'[b] \in Request \cup {NoRequest}
    BY <1>1, NextTop
  <2> QED
    BY <2>1, <2>2
<1>7. atomic_register' \in [Banks -> Request \cup {NoRequest}]
  <2>1. atomic_register' = [b \in Banks |-> atomic_register'[b]]
    BY <1>1 DEF Registers
  <2>2. \A b \in Banks : atomic_register'[b] \in Request \cup {NoRequest}
    BY <1>1, NextKept
  <2> QED
    BY <2>1, <2>2
<1>8. counter' \in 0 .. (RATIO * ACC_RATIO - 1)
  <2> DEFINE n == RATIO * ACC_RATIO
  <2>1. n \in Nat \ {0}
    BY Sizes
  <2>2. counter \in 0 .. (n - 1) /\ counter' = (counter + 1) % n
    BY <1>1 DEF StateInv, TypesInv, Registers
  <2> HIDE DEF n
  <2>3. counter' \in 0 .. (n - 1)
    BY <2>1, <2>2
  <2> QED
    BY <2>3 DEF n
<1>9. request' \in [Task -> Request \cup {NoRequest}] /\ owes' \in [Task -> Banks \cup {NoBank}]
  BY <1>1, TasksStep
<1> QED
  BY <1>2, <1>3, <1>4, <1>5, <1>6, <1>7, <1>8, <1>9 DEF TypesInv

LEMMA QueuesStep ==
  ASSUME StoresApart, StateInv, LockInv, NEW issue \in Issues, NEW ready \in SUBSET Busy, Cycle(issue, ready)
  PROVE  QueuesInv' /\ BanksInv'
<1>1. Wait(issue) /\ ToMemory /\ Registers(ready) /\ FromMemory(ready) /\ Tasks(issue)
  BY DEF Cycle
<1>2. ASSUME NEW a \in Accelerators
      PROVE  NoDup(wait'[a]) /\ \A r \in Range(wait'[a]) : Current(r)' /\ r.task[1] = a
  BY <1>1, WaitStep, NextWait
<1>3. ASSUME NEW b \in Banks
      PROVE  /\ NoDup(to_memory'[b])
             /\ \A r \in Range(to_memory'[b]) : Current(r)' /\ Lane(r.bank) = Lane(b) /\ r.kind # "atomic store"
  BY <1>1, ToStep, NextTo
<1>4. \A b \in Banks : NoDup(from_memory'[b])
  BY <1>1, FromStep
<1>5. QueuesInv'
  BY <1>2, <1>3, <1>4 DEF QueuesInv, Current
<1>6. ASSUME NEW b \in Banks
      PROVE  atomic_register'[b] # NoRequest =>
               /\ request'[atomic_register'[b].task] = atomic_register'[b]
               /\ atomic_register'[b].kind = "atomic store"
               /\ atomic_register'[b].bank = b /\ status'[b] \in Locked
  BY <1>1, NextKept
<1>7. ASSUME NEW b \in Banks
      PROVE  LET r == top_register'[b] IN
             /\ Working(b)' => r # NoRequest /\ request'[r.task] = r /\ r.bank = b
             /\ status'[b] \in {"S_1", "S_2"} => r.kind # "atomic load"
             /\ status'[b] \in Locked => r # NoRequest /\ r.kind \in {"load", "atomic load"}
  BY <1>1, NextTop, RequestFacts
<1>8. BanksInv'
  BY <1>6, <1>7 DEF BanksInv, Current
<1> QED
  BY <1>5, <1>8

LEMMA StateStep ==
  ASSUME StoresApart, StateInv, LockInv, NEW issue \in Issues, NEW ready \in SUBSET Busy, Cycle(issue, ready)
  PROVE  StateInv'
  BY PlaceStep, TasksStep, TypesStep, QueuesStep DEF StateInv, Cycle

-------------------------------------------------------------------------------
(* Locks.  Bank b begins to work on the request of t in this cycle. *)
Writes(t, b) == request[t] # NoRequest /\ top_register_we(b) /\ next_request(b) = request[t]

LEMMA LeavingPlaceNext ==
  ASSUME NEW t \in Task, NEW l \in Place
  PROVE  (TypesInv /\ BanksInv /\ TasksInv /\ Spot(t, l))'
           => (Leaving(t) # {} <=> \E b \in Banks : l = <<"top", b>> \/ l = <<"from", b>>)'
<1>1. (TypesInv /\ BanksInv /\ TasksInv /\ Spot(t, l))
        => (Leaving(t) # {} <=> \E b \in Banks : l = <<"top", b>> \/ l = <<"from", b>>)
  BY LeavingPlace
<1> QED
  BY <1>1, PTL

LEMMA LeavingNext ==
  ASSUME StateInv', NEW t \in Task, NEW l \in Place, Spot(t, l)'
  PROVE  Leaving(t)' # {} <=> \E b \in Banks : l = <<"top", b>> \/ l = <<"from", b>>
  BY LeavingPlaceNext DEF StateInv

(* Each task waits on, issues a request, has it performed, or gets its answer. *)
LEMMA TaskStep ==
  ASSUME StoresApart, StateInv, LockInv, NEW issue \in Issues, NEW ready \in SUBSET Busy, Cycle(issue, ready),
         NEW t \in Task
  PROVE  \/ /\ request'[t] = request[t] /\ owes'[t] = owes[t] /\ (Leaving(t)' = {} <=> Leaving(t) = {})
            /\ \A b \in Banks : ~ Writes(t, b)
         \/ /\ request[t] = NoRequest /\ request'[t] \in issue /\ request'[t].task = t /\ owes'[t] = owes[t]
            /\ Leaving(t) = {} /\ Leaving(t)' = {}
         \/ /\ request[t] \in Request /\ request'[t] = request[t] /\ owes'[t] = owes[t]
            /\ Leaving(t) = {} /\ Leaving(t)' # {}
            /\ \A b \in Banks : Writes(t, b) <=> b = request[t].bank
         \/ /\ request[t] \in Request /\ request'[t] = NoRequest
            /\ owes'[t] = IF request[t].kind = "atomic load" THEN request[t].bank
                          ELSE IF request[t].kind = "atomic store" THEN NoBank ELSE owes[t]
            /\ Leaving(t) # {} /\ Leaving(t)' = {}
            /\ \A b \in Banks : ~ Writes(t, b)
<1>1. PICK l \in Place : Spot(t, l)
  BY DEF StateInv, PlaceInv
<1>2. StateInv' /\ Tasks(issue) /\ Registers(ready)
  BY StateStep DEF Cycle
<1>3. Leaving(t) # {} <=> \E b \in Banks : l = <<"top", b>> \/ l = <<"from", b>>
  BY <1>1, LeavingPlace DEF StateInv
<1>4. /\ Nowhere \in Place /\ <<"wait", t[1]>> \in Place
      /\ \A b \in Banks : {<<"to", b>>, <<"atomic", b>>, <<"top", b>>, <<"from", b>>} \subseteq Place
  BY TaskFacts DEF Place
<1>5. /\ \A b \in Banks : Spot(t, <<"top", b>>)' \/ Spot(t, <<"from", b>>)' => Leaving(t)' # {}
      /\ \A b \in Banks : Spot(t, <<"to", b>>)' \/ Spot(t, <<"atomic", b>>)' => Leaving(t)' = {}
      /\ Spot(t, Nowhere)' \/ Spot(t, <<"wait", t[1]>>)' => Leaving(t)' = {}
  <2>1. ASSUME NEW b \in Banks
        PROVE  /\ Spot(t, <<"top", b>>)' \/ Spot(t, <<"from", b>>)' => Leaving(t)' # {}
               /\ Spot(t, <<"to", b>>)' \/ Spot(t, <<"atomic", b>>)' => Leaving(t)' = {}
    BY <1>2, <1>4, LeavingNext
  <2>2. Spot(t, Nowhere)' => Leaving(t)' = {}
    BY <1>2, <1>4, LeavingNext DEF Nowhere
  <2>3. Spot(t, <<"wait", t[1]>>)' => Leaving(t)' = {}
    BY <1>2, <1>4, LeavingNext
  <2> QED
    BY <2>1, <2>2, <2>3
<1>6. \A b \in Banks : Writes(t, b) => GoesTop(t, l, b) /\ b = request[t].bank /\ request[t] \in Request
  <2> SUFFICES ASSUME NEW b \in Banks, Writes(t, b)
               PROVE  GoesTop(t, l, b) /\ b = request[t].bank /\ request[t] \in Request
    OBVIOUS
  <2>1. l # Nowhere
    BY <1>1 DEF Spot, Writes
  <2>2. GoesTop(t, l, b)
    BY <1>1, <1>2, <2>1, FateTop DEF Writes
  <2> QED
    BY <2>2, WriteFacts DEF Writes
<1>7. request'[t] = request[t] /\ t \notin Answered => owes'[t] = owes[t]
  BY <1>2, OwesStep
<1>8. CASE l = Nowhere
  <2>1. Leaving(t) = {} /\ (\A b \in Banks : ~ Writes(t, b))
    BY <1>1, <1>3, <1>8 DEF Nowhere, Spot, Writes
  <2>2. /\ t \notin Answered /\ request[t] = NoRequest
        /\ \/ request'[t] = NoRequest /\ Spot(t, Nowhere)'
           \/ request'[t] \in issue /\ request'[t].task = t /\ Spot(t, <<"wait", t[1]>>)'
    BY <1>1, <1>8, NoneMoves
  <2>3. owes'[t] = owes[t]
    BY <1>2, <2>2, OwesStep
  <2> QED
    BY <1>5, <2>1, <2>2, <2>3
<1>9. ASSUME l # Nowhere, \A b \in Banks : l # <<"from", b>>
      PROVE  request'[t] = request[t] /\ owes'[t] = owes[t] /\ request[t] \in Request
  <2>1. request'[t] = request[t] /\ t \notin Answered
    BY <1>1, <1>2, <1>9, KeepsRequest
  <2> QED
    BY <1>1, <1>7, <1>9, <2>1, PlacedRequest
<1>10. CASE \E a \in Accelerators : l = <<"wait", a>>
  <2>1. PICK a \in Accelerators : l = <<"wait", a>>
    BY <1>10
  <2>2. l # Nowhere /\ (\A b \in Banks : l # <<"from", b>>) /\ Leaving(t) = {} /\ \A b \in Banks : ~ GoesTop(t, l, b)
    BY <1>3, <2>1 DEF Nowhere, GoesTop
  <2>3. a = t[1]
    <3>1. request[t].task = t
      BY <1>1, <2>2, PlacedRequest
    <3>2. request[t] \in Range(wait[a])
      BY <1>1, <2>1 DEF Spot
    <3> QED
      BY <3>1, <3>2, WaitingFacts
  <2>4. Leaving(t)' = {}
    BY <1>1, <1>5, <2>1, <2>3, WaitMoves
  <2> QED
    BY <1>6, <1>9, <2>2, <2>4
<1>11. ASSUME NEW b \in Banks, l = <<"to", b>> \/ l = <<"atomic", b>>
       PROVE  /\ request'[t] = request[t] /\ owes'[t] = owes[t] /\ request[t] \in Request /\ Leaving(t) = {}
              /\ \/ Leaving(t)' = {} /\ \A d \in Banks : ~ Writes(t, d)
                 \/ Leaving(t)' # {} /\ \A d \in Banks : Writes(t, d) <=> d = request[t].bank
  <2>1. l # Nowhere /\ (\A d \in Banks : l # <<"from", d>>) /\ Leaving(t) = {}
    BY <1>3, <1>11 DEF Nowhere
  <2>2. \/ (\E d \in Banks : Spot(t, <<"to", d>>)' \/ Spot(t, <<"atomic", d>>)')
        \/ Spot(t, <<"top", b>>)' /\ GoesTop(t, l, b)
    <3>1. CASE l = <<"to", b>>
      BY <1>1, <3>1, ToMoves
    <3>2. CASE l = <<"atomic", b>>
      BY <1>1, <3>2, AtomicMoves
    <3> QED
      BY <1>11, <3>1, <3>2
  <2>3. \A d \in Banks : GoesTop(t, l, d) <=> Writes(t, d)
    BY <1>1, <1>2, <2>1, FateTop, PlacedRequest DEF Writes
  <2>4. CASE Spot(t, <<"top", b>>)' /\ GoesTop(t, l, b)
    <3>1. Leaving(t)' # {} /\ Writes(t, b)
      BY <1>5, <2>3, <2>4
    <3>2. \A d \in Banks : Writes(t, d) <=> d = request[t].bank
      BY <1>6, <3>1
    <3> QED
      BY <1>9, <2>1, <3>1, <3>2
  <2>5. CASE \E d \in Banks : Spot(t, <<"to", d>>)' \/ Spot(t, <<"atomic", d>>)'
    <3>1. Leaving(t)' = {}
      BY <1>5, <2>5
    <3>2. ASSUME NEW d \in Banks, Writes(t, d) PROVE FALSE
      <4>1. Working(d)' /\ top_register'[d] = request'[t]
        BY <1>1, <1>2, <1>9, <2>1, <2>3, <3>2, FateTop
      <4>2. PICK m \in Place : Spot(t, m)'
        BY <1>4, <2>5
      <4>3. m = <<"top", d>>
        BY <4>1, <4>2 DEF Spot
      <4> QED
        BY <1>5, <3>1, <4>2, <4>3
    <3> QED
      BY <1>9, <2>1, <3>1, <3>2
  <2> QED
    BY <2>2, <2>4, <2>5
<1>12. ASSUME NEW b \in Banks, l = <<"top", b>>
       PROVE  /\ request'[t] = request[t] /\ owes'[t] = owes[t] /\ Leaving(t) # {} /\ Leaving(t)' # {}
              /\ \A d \in Banks : ~ Writes(t, d)
  <2>1. l # Nowhere /\ (\A d \in Banks : l # <<"from", d>>) /\ Leaving(t) # {} /\ \A d \in Banks : ~ GoesTop(t, l, d)
    BY <1>3, <1>12 DEF Nowhere, GoesTop
  <2>2. Leaving(t)' # {}
    BY <1>1, <1>5, <1>12, TopMoves
  <2> QED
    BY <1>6, <1>9, <2>1, <2>2
<1>13. ASSUME NEW b \in Banks, l = <<"from", b>>
       PROVE  /\ Leaving(t) # {} /\ \A d \in Banks : ~ Writes(t, d)
              /\ \/ request'[t] = request[t] /\ owes'[t] = owes[t] /\ Leaving(t)' # {}
                 \/ /\ request[t] \in Request /\ request'[t] = NoRequest /\ Leaving(t)' = {}
                    /\ owes'[t] = IF request[t].kind = "atomic load" THEN request[t].bank
                                  ELSE IF request[t].kind = "atomic store" THEN NoBank ELSE owes[t]
  <2>1. l # Nowhere /\ Leaving(t) # {} /\ \A d \in Banks : ~ GoesTop(t, l, d)
    BY <1>3, <1>13 DEF Nowhere, GoesTop
  <2>2. \A d \in Banks : ~ Writes(t, d)
    BY <1>6, <2>1
  <2>3. request[t] \in Request
    BY <1>1, <2>1, PlacedRequest
  <2>4. CASE t \in Answered /\ request'[t] = NoRequest /\ Spot(t, Nowhere)'
    BY <1>2, <1>5, <2>1, <2>2, <2>3, <2>4, OwesStep
  <2>5. CASE /\ t \notin Answered /\ request'[t] = request[t]
             /\ \E d \in Banks : Spot(t, <<"from", d>>)'
    BY <1>5, <1>7, <2>1, <2>2, <2>5
  <2> QED
    BY <1>1, <1>13, <2>4, <2>5, FromMoves
<1> QED
  BY <1>8, <1>10, <1>11, <1>12, <1>13, PlaceCases

LEMMA HoldsIs ==
  ASSUME NEW t \in Task, NEW b
  PROVE  /\ Memory!Holds(t, b) <=>
              \/ request[t] # NoRequest /\ request[t].kind = "atomic load" /\ Leaving(t) # {} /\ request[t].bank = b
              \/ owes[t] = b /\ ~ (request[t] # NoRequest /\ request[t].kind = "atomic store" /\ Leaving(t) # {})
         /\ Memory!Holds(t, b)' <=>
              \/ request'[t] # NoRequest /\ request'[t].kind = "atomic load" /\ Leaving(t)' # {} /\ request'[t].bank = b
              \/ owes'[t] = b /\ ~ (request'[t] # NoRequest /\ request'[t].kind = "atomic store" /\ Leaving(t)' # {})
  BY DEF Memory!Holds, Memory!Is

LEMMA HoldsStep ==
  ASSUME StoresApart, StateInv, LockInv, NEW issue \in Issues, NEW ready \in SUBSET Busy, Cycle(issue, ready),
         NEW t \in Task, NEW b \in Banks
  PROVE  Memory!Holds(t, b)' <=>
           \/ Writes(t, b) /\ request[t].kind = "atomic load"
           \/ Memory!Holds(t, b) /\ ~ Writes(t, b)
<1> DEFINE r == request[t]
           Before == \/ r # NoRequest /\ r.kind = "atomic load" /\ Leaving(t) # {} /\ r.bank = b
                     \/ owes[t] = b /\ ~ (r # NoRequest /\ r.kind = "atomic store" /\ Leaving(t) # {})
           After == \/ request'[t] # NoRequest /\ request'[t].kind = "atomic load" /\ Leaving(t)' # {} /\ request'[t].bank = b
                    \/ owes'[t] = b /\ ~ (request'[t] # NoRequest /\ request'[t].kind = "atomic store" /\ Leaving(t)' # {})
<1>1. (Memory!Holds(t, b) <=> Before) /\ (Memory!Holds(t, b)' <=> After)
  BY HoldsIs
<1>2. r # NoRequest =>
        /\ r.kind = "atomic store" => owes[t] = r.bank
        /\ r.kind # "atomic store" => owes[t] = NoBank
  BY DEF StateInv, TasksInv
<1>3. b # NoBank
  BY NoBankAssumption
<1>4. CASE /\ request'[t] = r /\ owes'[t] = owes[t] /\ (Leaving(t)' = {} <=> Leaving(t) = {})
           /\ \A d \in Banks : ~ Writes(t, d)
  <2>1. After <=> Before
    BY <1>4
  <2> QED
    BY <1>1, <1>4, <2>1
<1>5. CASE /\ r = NoRequest /\ request'[t] \in issue /\ request'[t].task = t /\ owes'[t] = owes[t]
           /\ Leaving(t) = {} /\ Leaving(t)' = {}
  <2>1. (After <=> owes[t] = b) /\ (Before <=> owes[t] = b)
    BY <1>5
  <2> QED
    BY <1>1, <1>5, <2>1 DEF Writes
<1>6. CASE /\ r \in Request /\ request'[t] = r /\ owes'[t] = owes[t]
           /\ Leaving(t) = {} /\ Leaving(t)' # {}
           /\ \A d \in Banks : Writes(t, d) <=> d = r.bank
  <2>1. r # NoRequest
    BY <1>6, RequestFacts
  <2>2. Before <=> owes[t] = b
    BY <1>6
  <2>3. After <=> (r.kind = "atomic load" /\ r.bank = b) \/ (owes[t] = b /\ r.kind # "atomic store")
    BY <1>6, <2>1
  <2>4. Writes(t, b) <=> b = r.bank
    BY <1>6
  <2> HIDE DEF Before, After, r
  <2>5. After <=> (Writes(t, b) /\ r.kind = "atomic load") \/ (Before /\ ~ Writes(t, b))
    BY <1>2, <1>3, <2>1, <2>2, <2>3, <2>4
  <2> QED
    BY <1>1, <2>5 DEF r
<1>7. CASE /\ r \in Request /\ request'[t] = NoRequest
           /\ owes'[t] = IF r.kind = "atomic load" THEN r.bank
                         ELSE IF r.kind = "atomic store" THEN NoBank ELSE owes[t]
           /\ Leaving(t) # {} /\ Leaving(t)' = {}
           /\ \A d \in Banks : ~ Writes(t, d)
  <2>1. r # NoRequest
    BY <1>7, RequestFacts
  <2>2. Before <=> (r.kind = "atomic load" /\ r.bank = b) \/ (owes[t] = b /\ r.kind # "atomic store")
    BY <1>7, <2>1
  <2>3. After <=> owes'[t] = b
    BY <1>7
  <2>4. After <=> Before
    <3>1. owes'[t] = IF r.kind = "atomic load" THEN r.bank
                     ELSE IF r.kind = "atomic store" THEN NoBank ELSE owes[t]
      BY <1>7
    <3> HIDE DEF r, Before, After
    <3>2. CASE r.kind = "atomic load"
      BY <1>2, <1>3, <2>1, <2>2, <2>3, <3>1, <3>2
    <3>3. CASE r.kind = "atomic store"
      BY <1>2, <1>3, <2>1, <2>2, <2>3, <3>1, <3>3
    <3>4. CASE r.kind # "atomic load" /\ r.kind # "atomic store"
      BY <1>2, <1>3, <2>1, <2>2, <2>3, <3>1, <3>4
    <3> QED
      BY <3>2, <3>3, <3>4
  <2> QED
    BY <1>1, <1>7, <2>4
<1> QED
  BY <1>4, <1>5, <1>6, <1>7, TaskStep

LEMMA LockStep ==
  ASSUME StoresApart, StateInv, LockInv, NEW issue \in Issues, NEW ready \in SUBSET Busy, Cycle(issue, ready)
  PROVE  LockInv'
<1> SUFFICES ASSUME NEW b \in Banks
             PROVE  /\ status'[b] \in Locked <=> \E t \in Task : Memory!Holds(t, b)'
                    /\ \A t, u \in Task : Memory!Holds(t, b)' /\ Memory!Holds(u, b)' => t = u
  BY DEF LockInv, LockedIsHeld
<1>1. \A t \in Task : Memory!Holds(t, b)' <=>
                        \/ Writes(t, b) /\ request[t].kind = "atomic load"
                        \/ Memory!Holds(t, b) /\ ~ Writes(t, b)
  BY HoldsStep
<1>2. /\ status[b] \in Locked <=> \E t \in Task : Memory!Holds(t, b)
      /\ \A t, u \in Task : Memory!Holds(t, b) /\ Memory!Holds(u, b) => t = u
  BY DEF LockInv, LockedIsHeld
<1>3. status'[b] = next_status(b, ready)
  BY DEF Cycle, Registers
<1>4. CASE ~ top_register_we(b)
  <2>1. \A t \in Task : Memory!Holds(t, b)' <=> Memory!Holds(t, b)
    BY <1>1, <1>4 DEF Writes
  <2>2. status'[b] \in Locked <=> status[b] \in Locked
    BY <1>3, <1>4, StatusStep
  <2> QED
    BY <1>2, <2>1, <2>2
<1>5. CASE top_register_we(b)
  <2> DEFINE r == next_request(b)
             t == r.task
  <2>1. r \in Request /\ Current(r) /\ r.bank = b
    BY <1>5, WriteFacts
  <2>2. t \in Task /\ request[t] = r /\ r # NoRequest
    BY <2>1, CurrentSpot
  <2>3. status'[b] = IF r.kind \in {"atomic load"} \/ (status[b] = "S_3" /\ r.kind = "load")
                     THEN "S_4" ELSE "S_1"
    BY <1>3, <1>5, StatusStep
  <2>4. \A u \in Task : Writes(u, b) <=> u = t
    <3>1. \A u \in Task : request[u] = r => u = t
      BY <2>2 DEF StateInv, TasksInv
    <3> QED
      BY <1>5, <2>2, <3>1 DEF Writes
  <2>5. \/ status[b] = "S_0" /\ r.kind # "atomic store"
        \/ status[b] = "S_3" /\ r.kind = "load"
        \/ /\ status[b] = "S_3" /\ r.kind = "atomic store"
           /\ atomic_register[b] # NoRequest /\ r = atomic_register[b]
    BY <1>5, WriteFacts
  <2>6. \A u \in Task : Memory!Holds(u, b)' <=>
                          (u = t /\ r.kind = "atomic load") \/ (Memory!Holds(u, b) /\ u # t)
    BY <1>1, <2>2, <2>4
  <2>7. CASE status[b] = "S_0" /\ r.kind # "atomic store"
    <3>1. \A u \in Task : ~ Memory!Holds(u, b)
      BY <1>2, <2>7 DEF Locked
    <3>2. status'[b] \in Locked <=> r.kind = "atomic load"
      BY <2>3, <2>7 DEF Locked
    <3> HIDE DEF r, t
    <3> QED
      BY <2>2, <2>6, <3>1, <3>2
  <2>8. CASE status[b] = "S_3" /\ r.kind = "load"
    <3>1. status[b] \in Locked /\ status'[b] \in Locked
      BY <2>3, <2>8 DEF Locked
    <3>2. ~ Memory!Holds(t, b)
      <4>1. owes[t] = NoBank /\ request[t].kind = "load"
        BY <2>2, <2>8 DEF StateInv, TasksInv
      <4> QED
        BY <2>2, <4>1, HoldsIs, NoBankAssumption
    <3>3. \A u \in Task : Memory!Holds(u, b)' <=> Memory!Holds(u, b)
      BY <2>6, <2>8, <3>2
    <3> QED
      BY <1>2, <3>1, <3>3
  <2>9. CASE /\ status[b] = "S_3" /\ r.kind = "atomic store"
             /\ atomic_register[b] # NoRequest /\ r = atomic_register[b]
    <3>1. status'[b] \notin Locked
      BY <2>3, <2>9 DEF Locked
    <3>2. Leaving(t) = {}
      BY <2>9, KeptNotLeaving
    <3>3. Memory!Holds(t, b)
      BY <2>1, <2>9, <3>2, StoreHolds
    <3>4. \A u \in Task : ~ Memory!Holds(u, b)'
      BY <1>2, <2>2, <2>6, <2>9, <3>3
    <3> QED
      BY <3>1, <3>4
  <2> QED
    BY <2>5, <2>7, <2>8, <2>9
<1> QED
  BY <1>4, <1>5

-------------------------------------------------------------------------------
(* The theorems, for tasks that keep plain stores and atomic operations apart. *)

LEMMA InitInv == Init => IInv
<1> SUFFICES ASSUME Init PROVE IInv
  OBVIOUS
<1>1. << >> \in Seq(Request) /\ << >> \in Seq(Task) /\ Range(<< >>) = {} /\ NoDup(<< >>)
  BY DEF Range, NoDup
<1>2. RATIO * ACC_RATIO \in Nat \ {0}
  BY Sizes
<1>3. 0 \in 0 .. (RATIO * ACC_RATIO - 1)
  BY <1>2
<1>4. TypesInv
  BY <1>1, <1>3 DEF Init, TypesInv
<1>5. QueuesInv
  BY <1>1 DEF Init, QueuesInv
<1>6. BanksInv
  BY DEF Init, BanksInv, Working, Locked
<1>7. TasksInv
  BY DEF Init, TasksInv
<1>8. PlaceInv
  <2> SUFFICES ASSUME NEW t \in Task PROVE Spot(t, Nowhere)
    BY DEF PlaceInv, Place
  <2> QED
    BY <1>1 DEF Init, Spot, Nowhere, Working
<1>9. LockInv
  <2>1. ASSUME NEW t \in Task, NEW b \in Banks, Memory!Holds(t, b) PROVE FALSE
    <3>1. request[t] = NoRequest /\ owes[t] = NoBank /\ b # NoBank
      BY NoBankAssumption DEF Init
    <3> QED
      BY <2>1, <3>1, HoldsIs
  <2>2. \A b \in Banks : status[b] \notin Locked
    BY DEF Init, Locked
  <2> QED
    BY <2>1, <2>2 DEF LockInv, LockedIsHeld
<1> QED
  BY <1>4, <1>5, <1>6, <1>7, <1>8, <1>9 DEF IInv, StateInv

LEMMA StutterInv ==
  ASSUME IInv, UNCHANGED vars
  PROVE  IInv' /\ \A t \in Task : Leaving(t)' = Leaving(t)
<1>1. /\ wait' = wait /\ to_memory' = to_memory /\ from_memory' = from_memory /\ status' = status
      /\ top_register' = top_register /\ atomic_register' = atomic_register /\ counter' = counter
      /\ request' = request /\ owes' = owes
  BY DEF vars, fifos, registers
<1>2. \A t \in Task : Leaving(t)' = Leaving(t)
  BY <1>1 DEF Leaving, Working
<1>3. \A t \in Task : \A b \in Banks : Memory!Holds(t, b)' <=> Memory!Holds(t, b)
  BY <1>1, <1>2, HoldsIs
<1>4. LockInv'
  BY <1>1, <1>3 DEF IInv, LockInv, LockedIsHeld
<1>5. TypesInv' /\ QueuesInv' /\ BanksInv' /\ TasksInv'
  <2>1. TypesInv /\ QueuesInv /\ BanksInv /\ TasksInv
    BY DEF IInv, StateInv
  <2>2. TypesInv'
    BY <1>1, <2>1 DEF TypesInv
  <2>3. QueuesInv'
    BY <1>1, <2>1 DEF QueuesInv, Current
  <2>4. BanksInv'
    BY <1>1, <2>1 DEF BanksInv, Current, Working
  <2>5. TasksInv'
    BY <1>1, <2>1 DEF TasksInv
  <2> QED
    BY <2>2, <2>3, <2>4, <2>5
<1>6. PlaceInv'
  BY <1>1 DEF IInv, StateInv, PlaceInv, Spot, Working
<1> QED
  BY <1>2, <1>4, <1>5, <1>6 DEF IInv, StateInv

LEMMA StepInv ==
  ASSUME StoresApart, IInv, Next
  PROVE  IInv'
<1>1. PICK issue \in Issues, ready \in SUBSET Busy : Cycle(issue, ready)
  BY DEF Next
<1> QED
  BY <1>1, StateStep, LockStep DEF IInv

THEOREM Invariance ==
  ASSUME StoresApart
  PROVE  Spec => []IInv
<1>1. IInv /\ [Next]_vars => IInv'
  BY StutterInv, StepInv
<1> QED
  BY <1>1, InitInv, PTL DEF Spec

LEMMA ShortFifo ==
  ASSUME NEW S, NEW f \in Seq(S), NoDup(f), NEW key, \A i \in DOMAIN f : key[f[i]] \in Task,
         \A i, j \in DOMAIN f : key[f[i]] = key[f[j]] => f[i] = f[j]
  PROVE  Len(f) <= Cardinality(Task)
<1> DEFINE n == Len(f)
           g == [i \in 1 .. n |-> key[f[i]]]
<1>1. n \in Nat /\ DOMAIN f = 1 .. n
  OBVIOUS
<1>2. \A i \in 1 .. n : g[i] \in Task
  BY <1>1
<1>3. \A i, j \in 1 .. n : g[i] = g[j] => i = j
  BY <1>1 DEF NoDup
<1>4. g \in [1 .. n -> Task]
  BY <1>2
<1> HIDE DEF n, g
<1>5. g \in Injection(1 .. n, Task)
  BY <1>3, <1>4 DEF Injection, IsInjective
<1>6. Cardinality(1 .. n) <= Cardinality(Task)
  BY <1>5, TaskAssumption, FS_Injection
<1>7. Cardinality(1 .. n) = n
  <2>1. 1 \in Int /\ n \in Int /\ n >= 0
    BY <1>1
  <2>2. Cardinality(1 .. n) = IF 1 > n THEN 0 ELSE n - 1 + 1
    BY <2>1, FS_Interval
  <2> QED
    BY <2>1, <2>2
<1> QED
  BY <1>6, <1>7 DEF n

LEMMA ShortRequests ==
  ASSUME NEW f \in Seq(Request), NoDup(f), \A r \in Range(f) : Current(r)
  PROVE  Len(f) <= Cardinality(Task) /\ Range(f) \subseteq Request
<1> DEFINE key == [r \in Request |-> r.task]
<1>1. \A i \in DOMAIN f : f[i] \in Request /\ f[i] \in Range(f) /\ Current(f[i])
  BY DEF Range
<1>2. \A i \in DOMAIN f : key[f[i]] = f[i].task
  BY <1>1
<1>3. \A i \in DOMAIN f : key[f[i]] \in Task /\ request[key[f[i]]] = f[i]
  BY <1>1, <1>2, RequestFacts DEF Current
<1> HIDE DEF key
<1>4. \A i, j \in DOMAIN f : key[f[i]] = key[f[j]] => f[i] = f[j]
  BY <1>3
<1>5. Len(f) <= Cardinality(Task)
  BY <1>3, <1>4, ShortFifo
<1>6. Range(f) \subseteq Request
  BY DEF Range
<1> QED
  BY <1>5, <1>6

LEMMA ShortAnswers ==
  ASSUME NEW f \in Seq(Task), NoDup(f)
  PROVE  Len(f) <= Cardinality(Task) /\ Range(f) \subseteq Task
<1> DEFINE key == [t \in Task |-> t]
<1>1. \A i \in DOMAIN f : f[i] \in Task /\ key[f[i]] = f[i]
  OBVIOUS
<1> HIDE DEF key
<1>2. \A i, j \in DOMAIN f : key[f[i]] = key[f[j]] => f[i] = f[j]
  BY <1>1
<1>3. Len(f) <= Cardinality(Task)
  BY <1>1, <1>2, ShortFifo
<1>4. Range(f) \subseteq Task
  BY DEF Range
<1> QED
  BY <1>3, <1>4

(* FIFOs and registers hold requests and tags of tasks, and no FIFO ever    *)
(* more than there are tasks.                                               *)
THEOREM TypeCorrect ==
  ASSUME StoresApart
  PROVE  Spec => []TypeOK
<1>1. ASSUME IInv PROVE TypeOK
  <2>1. TypesInv /\ QueuesInv
    BY <1>1 DEF IInv, StateInv
  <2>2. ASSUME NEW fifo \in Range(wait) \cup Range(to_memory)
        PROVE  Len(fifo) <= Cardinality(Task) /\ Range(fifo) \subseteq Request
    <3>1. CASE fifo \in Range(wait)
      <4>1. PICK a \in Accelerators : fifo = wait[a]
        BY <2>1, <3>1 DEF Range, TypesInv
      <4>2. wait[a] \in Seq(Request) /\ NoDup(wait[a]) /\ \A r \in Range(wait[a]) : Current(r)
        BY <2>1 DEF TypesInv, QueuesInv
      <4> QED
        BY <4>1, <4>2, ShortRequests
    <3>2. CASE fifo \in Range(to_memory)
      <4>1. PICK b \in Banks : fifo = to_memory[b]
        BY <2>1, <3>2 DEF Range, TypesInv
      <4>2. to_memory[b] \in Seq(Request) /\ NoDup(to_memory[b]) /\ \A r \in Range(to_memory[b]) : Current(r)
        BY <2>1 DEF TypesInv, QueuesInv
      <4> QED
        BY <4>1, <4>2, ShortRequests
    <3> QED
      BY <3>1, <3>2
  <2>3. ASSUME NEW fifo \in Range(from_memory)
        PROVE  Len(fifo) <= Cardinality(Task) /\ Range(fifo) \subseteq Task
    <3>1. PICK b \in Banks : fifo = from_memory[b]
      BY <2>1 DEF Range, TypesInv
    <3>2. from_memory[b] \in Seq(Task) /\ NoDup(from_memory[b])
      BY <2>1 DEF TypesInv, QueuesInv
    <3> QED
      BY <3>1, <3>2, ShortAnswers
  <2> QED
    BY <2>1, <2>2, <2>3 DEF TypesInv, TypeOK
<1>2. IInv => TypeOK
  BY <1>1
<1> QED
  BY <1>2, Invariance, PTL

(* A bank is locked exactly while a task is between the load and the store  *)
(* of an atomic operation on it.                                            *)
THEOREM LocksAreHeld ==
  ASSUME StoresApart
  PROVE  Spec => []LockedIsHeld
<1>1. IInv => LockedIsHeld
  BY DEF IInv, LockInv
<1> QED
  BY <1>1, Invariance, PTL

(* The places of a task as the sets that OnePlaceEach counts. *)
LEMMA RowOfRequests ==
  ASSUME NEW f \in Seq(Request), NoDup(f), \A r \in Range(f) : Current(r), TasksInv, NEW t \in Task
  PROVE  LET J == {j \in DOMAIN f : f[j].task = t} IN
         /\ request[t] \in Range(f) => \E i : J = {i}
         /\ request[t] \notin Range(f) => J = {}
<1>1. \A j \in DOMAIN f : f[j] \in Request /\ f[j] \in Range(f) /\ request[f[j].task] = f[j] /\ f[j] # NoRequest
  <2> SUFFICES ASSUME NEW j \in DOMAIN f
               PROVE  f[j] \in Request /\ f[j] \in Range(f) /\ request[f[j].task] = f[j] /\ f[j] # NoRequest
    OBVIOUS
  <2>1. f[j] \in Request /\ f[j] \in Range(f)
    BY DEF Range
  <2>2. Current(f[j])
    BY <2>1
  <2> QED
    BY <2>1, <2>2, RequestFacts DEF Current
<1>2. \A j \in DOMAIN f : f[j].task = t => f[j] = request[t]
  BY <1>1
<1>3. \A j \in DOMAIN f : f[j] = request[t] => f[j].task = t
  BY <1>1 DEF TasksInv
<1>4. ASSUME request[t] \in Range(f) PROVE \E i : {j \in DOMAIN f : f[j].task = t} = {i}
  <2>1. PICK i \in DOMAIN f : f[i] = request[t]
    BY <1>4 DEF Range
  <2>2. \A j \in DOMAIN f : f[j].task = t <=> j = i
    BY <1>2, <1>3, <2>1 DEF NoDup
  <2>3. {j \in DOMAIN f : f[j].task = t} = {i}
    BY ONLY <2>1, <2>2
  <2> QED
    BY ONLY <2>3
<1>5. ASSUME request[t] \notin Range(f) PROVE {j \in DOMAIN f : f[j].task = t} = {}
  BY <1>1, <1>2, <1>5
<1> QED
  BY <1>4, <1>5

LEMMA RowOfAnswers ==
  ASSUME NEW f \in Seq(Task), NoDup(f), NEW t
  PROVE  LET J == {j \in DOMAIN f : f[j] = t} IN
         /\ t \in Range(f) => \E i : J = {i}
         /\ t \notin Range(f) => J = {}
<1>1. ASSUME t \in Range(f) PROVE \E i : {j \in DOMAIN f : f[j] = t} = {i}
  <2>1. PICK i \in DOMAIN f : f[i] = t
    BY <1>1 DEF Range
  <2>2. \A j \in DOMAIN f : f[j] = t <=> j = i
    BY <2>1 DEF NoDup
  <2> QED
    BY <2>1, <2>2
<1>2. ASSUME t \notin Range(f) PROVE {j \in DOMAIN f : f[j] = t} = {}
  BY <1>2 DEF Range
<1> QED
  BY <1>1, <1>2

LEMMA ComingPlaces ==
  ASSUME StateInv, NEW t \in Task, NEW l \in Place, Spot(t, l)
  PROVE  /\ (\E a \in Accelerators : l = <<"wait", a>>) \/ (\E b \in Banks : l = <<"to", b>> \/ l = <<"atomic", b>>)
              => \E x : Coming(t) = {x}
         /\ ~ ((\E a \in Accelerators : l = <<"wait", a>>) \/ (\E b \in Banks : l = <<"to", b>> \/ l = <<"atomic", b>>))
              => Coming(t) = {}
<1> DEFINE J == {j \in DOMAIN wait[t[1]] : wait[t[1]][j].task = t}
           W == {<<"wait", t[1], i>> : i \in J}
           K(b) == {j \in DOMAIN to_memory[b] : to_memory[b][j].task = t}
           row(b) == {<<"to memory", b, i>> : i \in K(b)}
           T == UNION {row(b) : b \in Banks}
           C == {c \in Banks : atomic_register[c] # NoRequest /\ atomic_register[c].task = t}
           A == {<<"atomic", b, 0>> : b \in C}
<1>1. Coming(t) = W \cup T \cup A
  BY DEF Coming
<1>2. t[1] \in Accelerators
  BY TaskFacts
<1>3. /\ request[t] \in Range(wait[t[1]]) => \E i : J = {i}
      /\ request[t] \notin Range(wait[t[1]]) => J = {}
  <2>1. wait[t[1]] \in Seq(Request) /\ NoDup(wait[t[1]]) /\ (\A r \in Range(wait[t[1]]) : Current(r)) /\ TasksInv
    BY <1>2 DEF StateInv, TypesInv, QueuesInv
  <2> QED
    BY <2>1, RowOfRequests
<1>4. \A a \in Accelerators : l = <<"wait", a>> => a = t[1]
  <2> SUFFICES ASSUME NEW a \in Accelerators, l = <<"wait", a>> PROVE a = t[1]
    OBVIOUS
  <2>1. l # Nowhere /\ request[t] \in Range(wait[a])
    BY DEF Spot, Nowhere
  <2> QED
    BY <2>1, PlacedRequest, WaitingFacts
<1>5. /\ l = <<"wait", t[1]>> => \E x : W = {x}
      /\ l # <<"wait", t[1]>> => W = {}
  <2>1. request[t] \in Range(wait[t[1]]) <=> l = <<"wait", t[1]>>
    BY <1>2 DEF Spot
  <2>2. l = <<"wait", t[1]>> => \E x : W = {x}
    <3>1. SUFFICES ASSUME l = <<"wait", t[1]>> PROVE \E x : W = {x}
      OBVIOUS
    <3>2. PICK i : J = {i}
      BY <1>3, <2>1, <3>1
    <3>3. W = {<<"wait", t[1], i>>}
      BY <3>2
    <3> QED
      BY <3>3
  <2>3. l # <<"wait", t[1]>> => W = {}
    BY <1>3, <2>1
  <2> QED
    BY <2>2, <2>3
<1>6. ASSUME NEW b \in Banks
      PROVE  /\ l = <<"to", b>> => \E x : row(b) = {x}
             /\ l # <<"to", b>> => row(b) = {}
  <2>1. to_memory[b] \in Seq(Request) /\ NoDup(to_memory[b]) /\ (\A r \in Range(to_memory[b]) : Current(r)) /\ TasksInv
    BY DEF StateInv, TypesInv, QueuesInv
  <2>2. /\ request[t] \in Range(to_memory[b]) => \E i : K(b) = {i}
        /\ request[t] \notin Range(to_memory[b]) => K(b) = {}
    BY <2>1, RowOfRequests
  <2>3. request[t] \in Range(to_memory[b]) <=> l = <<"to", b>>
    BY DEF Spot
  <2>4. ASSUME l = <<"to", b>> PROVE \E x : row(b) = {x}
    <3>1. PICK i : K(b) = {i}
      BY <2>2, <2>3, <2>4
    <3>2. row(b) = {<<"to memory", b, i>>}
      BY <3>1
    <3> QED
      BY <3>2
  <2>5. ASSUME l # <<"to", b>> PROVE row(b) = {}
    BY <2>2, <2>3, <2>5
  <2> QED
    BY <2>4, <2>5
<1>7. ASSUME NEW b \in Banks
      PROVE  /\ atomic_register[b] # NoRequest /\ atomic_register[b].task = t <=> l = <<"atomic", b>>
  <2>1. atomic_register[b] # NoRequest => request[atomic_register[b].task] = atomic_register[b]
    BY DEF StateInv, BanksInv, Current
  <2>2. request[t] # NoRequest => request[t].task = t
    BY DEF StateInv, TasksInv
  <2>3. request[t] # NoRequest /\ atomic_register[b] = request[t] <=> l = <<"atomic", b>>
    BY DEF Spot
  <2> QED
    BY <2>1, <2>2, <2>3
<1>8. \A b \in Banks : l = <<"atomic", b>> => A = {<<"atomic", b, 0>>}
  <2> SUFFICES ASSUME NEW b \in Banks, l = <<"atomic", b>> PROVE A = {<<"atomic", b, 0>>}
    OBVIOUS
  <2>1. C = {b}
    BY <1>7
  <2> QED
    BY <2>1
<1>9. (\A b \in Banks : l # <<"atomic", b>>) => A = {}
  BY <1>7
<1> HIDE DEF W, A, row
<1>10. CASE l = <<"wait", t[1]>>
  <2>1. T = {} /\ A = {}
    BY <1>6, <1>9, <1>10
  <2>2. Coming(t) = W
    BY <1>1, <2>1
  <2> QED
    BY <1>2, <1>5, <1>10, <2>2
<1>11. ASSUME NEW b \in Banks, l = <<"to", b>> PROVE \E x : Coming(t) = {x}
  <2>1. W = {} /\ A = {}
    BY <1>5, <1>9, <1>11
  <2>2. \A d \in Banks : d # b => row(d) = {}
    BY <1>6, <1>11
  <2>3. T = row(b)
    BY <2>2
  <2> QED
    BY <1>1, <1>6, <1>11, <2>1, <2>3
<1>12. ASSUME NEW b \in Banks, l = <<"atomic", b>> PROVE \E x : Coming(t) = {x}
  <2>1. W = {} /\ \A d \in Banks : row(d) = {}
    BY <1>5, <1>6, <1>12
  <2>2. T = {}
    BY <2>1
  <2> QED
    BY <1>1, <1>8, <1>12, <2>1, <2>2
<1>13. ASSUME \A a \in Accelerators : l # <<"wait", a>>, \A b \in Banks : l # <<"to", b>> /\ l # <<"atomic", b>>
       PROVE  Coming(t) = {}
  <2>1. W = {} /\ A = {} /\ \A d \in Banks : row(d) = {}
    BY <1>2, <1>5, <1>6, <1>9, <1>13
  <2>2. T = {}
    BY <2>1
  <2> QED
    BY <1>1, <2>1, <2>2
<1> QED
  BY <1>4, <1>10, <1>11, <1>12, <1>13

LEMMA LeavingPlaces ==
  ASSUME StateInv, NEW t \in Task, NEW l \in Place, Spot(t, l)
  PROVE  /\ (\E b \in Banks : l = <<"top", b>> \/ l = <<"from", b>>) => \E x : Leaving(t) = {x}
         /\ ~ (\E b \in Banks : l = <<"top", b>> \/ l = <<"from", b>>) => Leaving(t) = {}
<1> DEFINE K(b) == {j \in DOMAIN from_memory[b] : from_memory[b][j] = t}
           row(b) == {<<"from memory", b, i>> : i \in K(b)}
           F == UNION {row(b) : b \in Banks}
           C == {c \in Banks : Working(c) /\ top_register[c].task = t}
           W == {<<"top", b, 0>> : b \in C}
<1>1. Leaving(t) = W \cup F
  BY DEF Leaving
<1>2. ASSUME NEW b \in Banks PROVE Working(b) /\ top_register[b].task = t <=> l = <<"top", b>>
  <2>1. Working(b) => top_register[b] # NoRequest /\ request[top_register[b].task] = top_register[b]
    BY DEF StateInv, BanksInv, Current
  <2>2. request[t] # NoRequest => request[t].task = t
    BY DEF StateInv, TasksInv
  <2>3. Working(b) /\ top_register[b] = request[t] <=> l = <<"top", b>>
    BY DEF Spot
  <2> QED
    BY <2>1, <2>2, <2>3
<1>3. ASSUME NEW b \in Banks
      PROVE  /\ l = <<"from", b>> => \E x : row(b) = {x}
             /\ l # <<"from", b>> => row(b) = {}
  <2>1. from_memory[b] \in Seq(Task) /\ NoDup(from_memory[b])
    BY DEF StateInv, TypesInv, QueuesInv
  <2>2. /\ t \in Range(from_memory[b]) => \E i : K(b) = {i}
        /\ t \notin Range(from_memory[b]) => K(b) = {}
    BY <2>1, RowOfAnswers
  <2>3. t \in Range(from_memory[b]) <=> l = <<"from", b>>
    BY DEF Spot
  <2>4. ASSUME l = <<"from", b>> PROVE \E x : row(b) = {x}
    <3>1. PICK i : K(b) = {i}
      BY <2>2, <2>3, <2>4
    <3>2. row(b) = {<<"from memory", b, i>>}
      BY <3>1
    <3> QED
      BY <3>2
  <2>5. ASSUME l # <<"from", b>> PROVE row(b) = {}
    BY <2>2, <2>3, <2>5
  <2> QED
    BY <2>4, <2>5
<1>4. \A b \in Banks : l = <<"top", b>> => W = {<<"top", b, 0>>}
  <2> SUFFICES ASSUME NEW b \in Banks, l = <<"top", b>> PROVE W = {<<"top", b, 0>>}
    OBVIOUS
  <2>1. C = {b}
    BY <1>2
  <2> QED
    BY <2>1
<1>5. (\A b \in Banks : l # <<"top", b>>) => W = {}
  BY <1>2
<1> HIDE DEF W, row
<1>6. ASSUME NEW b \in Banks, l = <<"top", b>> PROVE \E x : Leaving(t) = {x}
  <2>1. \A d \in Banks : row(d) = {}
    BY <1>3, <1>6
  <2>2. F = {}
    BY <2>1
  <2> QED
    BY <1>1, <1>4, <1>6, <2>2
<1>7. ASSUME NEW b \in Banks, l = <<"from", b>> PROVE \E x : Leaving(t) = {x}
  <2>1. W = {} /\ \A d \in Banks : d # b => row(d) = {}
    BY <1>3, <1>5, <1>7
  <2>2. F = row(b)
    BY <2>1
  <2> QED
    BY <1>1, <1>3, <1>7, <2>1, <2>2
<1>8. ASSUME \A b \in Banks : l # <<"top", b>> /\ l # <<"from", b>> PROVE Leaving(t) = {}
  <2>1. W = {} /\ \A d \in Banks : row(d) = {}
    BY <1>3, <1>5, <1>8
  <2>2. F = {}
    BY <2>1
  <2> QED
    BY <1>1, <2>1, <2>2
<1> QED
  BY <1>6, <1>7, <1>8

(* What a task waits for is in exactly one place, from fifo_wait to the     *)
(* FIFO its answer leaves by, and nothing is where nobody waits for it.     *)
THEOREM EachInOnePlace ==
  ASSUME StoresApart
  PROVE  Spec => []OnePlaceEach
<1>1. ASSUME IInv PROVE OnePlaceEach
  <2> SUFFICES ASSUME NEW t \in Task
               PROVE  Cardinality(Coming(t)) + Cardinality(Leaving(t)) = IF request[t] = NoRequest THEN 0 ELSE 1
    BY DEF OnePlaceEach
  <2>1. StateInv
    BY <1>1 DEF IInv
  <2>2. PICK l \in Place : Spot(t, l)
    BY <2>1 DEF StateInv, PlaceInv
  <2>3. l = Nowhere <=> request[t] = NoRequest
    BY <2>2 DEF Spot
  <2>4. Cardinality({}) = 0 /\ \A x : Cardinality({x}) = 1
    BY FS_EmptySet, FS_Singleton
  <2> DEFINE inComing == (\E a \in Accelerators : l = <<"wait", a>>) \/ (\E b \in Banks : l = <<"to", b>> \/ l = <<"atomic", b>>)
             inLeaving == \E b \in Banks : l = <<"top", b>> \/ l = <<"from", b>>
  <2>5. (inComing => \E x : Coming(t) = {x}) /\ (~ inComing => Coming(t) = {})
    BY <2>1, <2>2, ComingPlaces
  <2>6. (inLeaving => \E x : Leaving(t) = {x}) /\ (~ inLeaving => Leaving(t) = {})
    BY <2>1, <2>2, LeavingPlaces
  <2>7. ~ (inComing /\ inLeaving) /\ (l # Nowhere <=> inComing \/ inLeaving)
    BY PlaceCases DEF Nowhere
  <2> HIDE DEF inComing, inLeaving
  <2>8. Cardinality(Coming(t)) = IF inComing THEN 1 ELSE 0
    BY <2>4, <2>5
  <2>9. Cardinality(Leaving(t)) = IF inLeaving THEN 1 ELSE 0
    BY <2>4, <2>6
  <2> QED
    BY <2>3, <2>7, <2>8, <2>9
<1>2. IInv => OnePlaceEach
  BY <1>1
<1> QED
  BY <1>2, Invariance, PTL

-------------------------------------------------------------------------------
(* The controllers implement AtomicMemory. *)

LEMMA CycleImplements ==
  ASSUME StoresApart, IInv, NEW issue \in Issues, NEW ready \in SUBSET Busy, Cycle(issue, ready)
  PROVE  Memory!Next
<1> SUFFICES ASSUME NEW t \in Task
             PROVE  Memory!Stays(t) \/ Memory!Issue(t) \/ Memory!Perform(t) \/ Memory!Answer(t)
  BY DEF Memory!Next
<1>1. StateInv /\ LockInv /\ LockInv'
  BY LockStep DEF IInv
<1> DEFINE P == {u \in Task : Leaving(u) # {}}
<1>2. (t \in P <=> Leaving(t) # {}) /\ (t \in P' <=> Leaving(t)' # {})
  OBVIOUS
<1> HIDE DEF P
<1>3. CASE /\ request'[t] = request[t] /\ owes'[t] = owes[t] /\ (Leaving(t)' = {} <=> Leaving(t) = {})
  BY <1>2, <1>3 DEF Memory!Stays, P
<1>4. CASE /\ request[t] = NoRequest /\ request'[t] \in issue /\ request'[t].task = t /\ owes'[t] = owes[t]
           /\ Leaving(t) = {} /\ Leaving(t)' = {}
  <2>1. PICK r \in issue : r = request'[t]
    BY <1>4
  <2>2. /\ r \in Request /\ r # NoRequest
        /\ IF owes[t] = NoBank THEN r.kind # "atomic store" ELSE r.kind = "atomic store" /\ r.bank = owes[t]
    <3>1. TypesInv /\ r.task = t
      BY <1>1, <1>4, <2>1 DEF StateInv
    <3>2. /\ r \in Request
          /\ IF owes[r.task] = NoBank THEN r.kind # "atomic store" /\ r \in Access
             ELSE r.kind = "atomic store" /\ r.bank = owes[r.task]
      BY <3>1, IssueFacts
    <3> QED
      BY <3>1, <3>2, RequestFacts
  <2> QED
    BY <1>2, <1>4, <2>1, <2>2 DEF Memory!Issue, P
<1>5. CASE /\ request[t] \in Request /\ request'[t] = request[t] /\ owes'[t] = owes[t]
           /\ Leaving(t) = {} /\ Leaving(t)' # {}
           /\ \A b \in Banks : Writes(t, b) <=> b = request[t].bank
  <2>1. PICK b \in Banks : b = request[t].bank
    BY <1>5, RequestFacts
  <2>2. request[t] # NoRequest /\ Writes(t, b)
    BY <1>5, <2>1, RequestFacts
  <2>3. top_register_we(b) /\ next_request(b) = request[t]
    BY <2>2 DEF Writes
  <2>4. request[t].kind = "load" \/ \A u \in Task \ {t} : ~ Memory!Holds(u, b) /\ ~ Memory!Holds(u, b)'
    <3>1. ASSUME NEW u \in Task \ {t} PROVE ~ Writes(u, b)
      <4>1. request[t].task = t /\ request[u] # NoRequest => request[t] # request[u]
        BY <1>1, <2>2 DEF StateInv, TasksInv
      <4>2. request[t].task = t
        BY <1>1, <2>2 DEF StateInv, TasksInv
      <4> QED
        BY <2>3, <4>1, <4>2 DEF Writes
    <3>2. \A u \in Task \ {t} : Memory!Holds(u, b)' => Memory!Holds(u, b)
      BY <1>1, <3>1, HoldsStep
    <3>3. \/ status[b] = "S_0"
          \/ request[t].kind = "load"
          \/ request[t].kind = "atomic store" /\ atomic_register[b] # NoRequest /\ request[t] = atomic_register[b]
      <4>1. \/ status[b] = "S_0"
            \/ next_request(b).kind = "load"
            \/ /\ next_request(b).kind = "atomic store" /\ atomic_register[b] # NoRequest
               /\ next_request(b) = atomic_register[b]
        BY <1>1, <2>3, WriteFacts
      <4> QED
        BY <2>3, <4>1
    <3>4. CASE status[b] = "S_0"
      <4>1. \A u \in Task : ~ Memory!Holds(u, b)
        BY <1>1, <3>4 DEF LockInv, LockedIsHeld, Locked
      <4> QED
        BY <3>2, <4>1
    <3>5. CASE request[t].kind = "atomic store" /\ atomic_register[b] # NoRequest /\ request[t] = atomic_register[b]
      <4>1. owes[t] = b
        BY <1>1, <2>1, <2>2, <3>5 DEF StateInv, TasksInv
      <4>2. Memory!Holds(t, b)
        BY <1>5, <4>1, HoldsIs
      <4>3. \A u \in Task \ {t} : ~ Memory!Holds(u, b)
        BY <1>1, <4>2 DEF LockInv
      <4> QED
        BY <3>2, <4>3
    <3> QED
      BY <3>3, <3>4, <3>5
  <2>5. /\ Memory!Is(t, "load") <=> request[t].kind = "load"
        /\ request'[t].bank = b
    BY <1>5, <2>1, <2>2 DEF Memory!Is
  <2>6. ASSUME NEW u \in Task
        PROVE  /\ Memory!Holds(u, request[t].bank) <=> Memory!Holds(u, b)
               /\ Memory!Holds(u, request[t].bank)' <=> Memory!Holds(u, b)'
    BY <2>1, <2>5 DEF Memory!Holds
  <2>7. \/ Memory!Is(t, "load")
        \/ \A u \in Task \ {t} : ~ Memory!Holds(u, request[t].bank) /\ ~ Memory!Holds(u, request[t].bank)'
    BY <2>4, <2>5, <2>6
  <2> QED
    BY <1>2, <1>5, <2>2, <2>7 DEF Memory!Perform, P
<1>6. CASE /\ request[t] \in Request /\ request'[t] = NoRequest
           /\ owes'[t] = IF request[t].kind = "atomic load" THEN request[t].bank
                         ELSE IF request[t].kind = "atomic store" THEN NoBank ELSE owes[t]
           /\ Leaving(t) # {} /\ Leaving(t)' = {}
  <2>1. request[t] # NoRequest
    BY <1>6, RequestFacts
  <2> QED
    BY <1>2, <1>6, <2>1 DEF Memory!Answer, Memory!Is, P
<1> QED
  BY <1>1, <1>3, <1>4, <1>5, <1>6, TaskStep

(* Each request is performed once, in its bank, and answered once, to its   *)
(* task; and nobody else writes a bank or begins an atomic operation there  *)
(* between the load and the store of one.                                   *)
THEOREM ImplementsMemory ==
  ASSUME StoresApart
  PROVE  Spec => RefinesMemory
<1>1. Init => Memory!Init
  <2> SUFFICES ASSUME Init PROVE Memory!Init
    OBVIOUS
  <2>1. \A t \in Task : Leaving(t) = {}
    <3> SUFFICES ASSUME NEW t \in Task PROVE Leaving(t) = {}
      OBVIOUS
    <3>1. StateInv
      BY InitInv DEF IInv
    <3>2. PICK l \in Place : Spot(t, l)
      BY <3>1 DEF StateInv, PlaceInv
    <3>3. l = Nowhere
      BY <3>2 DEF Spot, Init
    <3> QED
      BY <3>1, <3>2, <3>3, LeavingPlaces DEF Nowhere
  <2> QED
    BY <2>1 DEF Init, Memory!Init
<1>2. ASSUME IInv, [Next]_vars PROVE [Memory!Next]_(Memory!vars)
  <2>1. CASE Next
    BY <1>2, <2>1, CycleImplements DEF Next
  <2>2. CASE UNCHANGED vars
    <3>1. request' = request /\ owes' = owes
      BY <2>2 DEF vars
    <3>2. {t \in Task : Leaving(t)' # {}} = {t \in Task : Leaving(t) # {}}
      BY <1>2, <2>2, StutterInv
    <3> QED
      BY <3>1, <3>2 DEF Memory!vars
  <2> QED
    BY <1>2, <2>1, <2>2
<1>3. IInv /\ [Next]_vars => [Memory!Next]_(Memory!vars)
  BY <1>2
<1> QED
  BY <1>1, <1>3, Invariance, PTL DEF Spec, RefinesMemory, Memory!Spec
===============================================================================
