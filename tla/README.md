# PandA-bambu: TLA+ models, checks and proofs

PandA is a framework for hardware/software co-design; its main tool, bambu, is
a high-level synthesis compiler: it takes C, LLVM IR or GCC IR and writes
Verilog or VHDL.  This directory holds TLA+ modules for the parts of PandA
whose behaviour over time is the hard part, the TLC instances that check them
and the theorems TLAPS has checked about them.  All paths below are relative to
the repository, whose sources are in `src/`.

## 1. Inventory

| component | state it keeps | operations | what makes it correct |
|---|---|---|---|
| **design flow manager** `src/design_flows/design_flow_manager.cpp` | the graph of steps with a status each, the ordered set `possibly_ready`, `step_counter` | `AddStep(s)`, `RecursivelyAddSteps`, `Exec`, `DeExecute` | a step runs only when what it asked for has run; nothing ready is lost; nothing needless runs; an invalidation undoes all that was built on it; the flow ends, at Exit |
| design flow graph `design_flow_graph.*`, `graph/graph.hpp` | vertices, edges with a bit set of selectors, the map from signature to vertex | add vertex, add/remove selector, reachability, filtered views | feedback edges never order anything; one vertex per signature |
| design flow steps `design_flow_step.*` and subclasses | the versions of the IR last seen | `ComputeRelationships`, `HasToBeExecuted`, `Exec`, `Initialize` | answers refer to steps that can exist; a step runs again exactly when its input changed |
| **frontend flow steps** `frontend_analysis/` | `bb_version`, `bitvalue_version` noted by each function step | `HasToBeExecuted`, `Exec`; relationships between the steps of one function, its callers and callees | a step that need not run has missed nothing; passes that undo each other's agreement come to agree |
| **HLS flow steps** `HLS/hls_step.cpp`, `HLS/hls_function_step.cpp` | versions of a function and of all it calls, `memory_version` | the same for synthesis steps | as above |
| **behavioural graphs** `behavior/call_graph_manager.cpp` | the call graph with its call points, its acyclic view, the addressed and the reached functions | `AddFunctionAndCallPoint`, `addCallPointAndExpand`, `RemoveCallPoint`, `ComputeRootAndReachedFunctions` | the representations of one edge agree; the acyclic view is acyclic; the reached functions are those the calls lead to |
| HLS scheduling `HLS/scheduling` | mobility, priority queues, resource tables | list-based and SDC scheduling | dependences and resource limits hold in every cycle |
| HLS binding, liveness `HLS/binding`, `HLS/liveness`, `HLS/stg` | live-in/live-out sets, conflict graphs | register, module and interconnection binding | values alive together never share a register |
| HLS memory, interfaces `HLS/memory`, `HLS/interface` | base addresses, rangesizes | memory layout, port protocols | objects do not overlap |
| HLS architecture, back end, simulation | netlists, text | generation | (text generation) |
| **run-time library** `etc/libbambu` | the heap of the generated circuit | `malloc`, `free`, `calloc`, `memalign`; `pthread_mutex_lock` forwards to a hardware module | blocks do not overlap, free space is found again |
| **context-switch architecture** `etc/lib/technology/CS_COMPONENT.xml` | registers and memories of the circuit: FIFOs, state machines, counters | one edge of the clock | no iteration, task, answer or slot is lost or used twice; atomic operations do not mix; calls return, requests are answered |
| other hardware IPs `etc/lib/technology` | Verilog templates: operators, bus arbiters | one edge of the clock | (arithmetic, wiring) |
| tree IR, circuit, technology | data models | construction, traversal, printing | (data models) |
| algorithms, graphs, ilp | none | dominators, cliques, matching, solver wrappers | pure functions |
| wrappers, parsers, utilities, plugins, vendored code, data | files, options | I/O, parsing | - |

The tools interact through the design flow.  A main program (`bambu.cpp`,
`eucalyptus.cpp`, `spider.cpp`) creates one `DesignFlowManager`, registers the
step factories, adds a handful of steps and calls `Exec` once.  Every pass of
the compiler, front end or synthesis, is a step; steps talk to each other only
through the intermediate representation they rewrite (with its versions, and
the call graph) and through the relationships they declare, which they are
asked for again each time the manager looks at them.  The compiler has no
threads: what makes the manager hard is that its graph, its queue and its notion
of what is done change while it walks them, that a step can send the flow back
at any time, and that the answers of the steps are not functions of the graph.

The circuits that bambu writes do have concurrency.  With the option
`context_switch` a parallel loop becomes a controller
that gives its iterations to several accelerators, each of which holds several
tasks and switches to another one whenever the running one accesses the
external memory; the accesses of all of them go over channels to banks that
answer in any order.  The Verilog of these parts is fixed text in
`CS_COMPONENT.xml`, parameterised by the numbers of accelerators, slots,
channels and banks, and HLS wires it together (`HLS/architecture_creation/`,
`HLS/binding/interconnection/`).

### Hard behaviours

* Answers that change: dependences and precedences of a step are recomputed at
  each visit and differ with the IR; edges of old answers stay.
* Going back: `DeExecute` undoes a step and, transitively, what came after.
* A set ordered by mutable state: the comparator of `possibly_ready` reads the
  status of the vertices in it.
* Steps that become necessary late, or are dropped from the queue because they
  turned out not to be ready, to be found again by the completion of a
  predecessor.
* Staleness: a step decides whether to run by comparing versions it noted with
  current ones, over maps that are never cleared and a set of functions that
  the passes themselves change.
* Three representations of a call (the edge, its call points, the set
  `called_by`), a view without cycles and two cached sets of reached functions,
  all maintained by increments.
* Registered signals: a FIFO read on a status that is a cycle old, counters
  of the same thing that grow in different cycles, a decision taken from a state
  a concurrent answer is just changing.
* Several requesters, FIFOs that rotate, arbiters, and locks that loads may pass.
* Limits: FIFOs exactly as deep as there are tasks, `size_t` that wraps around,
  the end of the pool.

`PROJECT.json` lists each of these as a hazard with the line where it bites and
the properties that would fail.

## 2. Modules

| module | what it is |
|---|---|
| `StepOrdering` | abstract: what the manager promises to a step, without graph or queue |
| `DesignFlowManager` | the manager: `RecursivelyAddSteps`, `Exec`, `DeExecute`, with the graph and the queue |
| `DesignFlowManager_proofs` | type correctness; freshness of the keys of `possibly_ready`; results stand; the manager implements `StepOrdering`, in which no result outlives what it was built on; no ready step is lost, nothing is left undone, what is executed was needed and rests on what was executed |
| `MCDesignFlow` | instances of four steps for TLC |
| `CallGraph` | `CallGraphManager`: call points, edges, acyclic view, reached and addressed functions |
| `FunctionSteps` | EXTENDS `CallGraph`: versions, the notes of the steps, `HasToBeExecuted` |
| `FunctionSteps_proofs` | what the operators on the graph compute and what a change of it leaves; type correctness, the invariants of the graph, nothing is missed |
| `MCFunctionSteps` | a program of three functions and a library |
| `Heap` | abstract: what a program expects of `malloc` and `free` |
| `MemoryManager` | the allocator of the generated circuits: `malloc`, `calloc`, `memalign`, `free`, the free list and the pool |
| `MemoryManager_proofs` | type correctness, order of the free list, that the pool stays tiled and a failed search was complete, and that the allocator implements `Heap` |
| `MCMemory` | instances of nine quantas for TLC |
| `BoundedQueue` | abstract: a FIFO |
| `Fifio` | `fifio` and `fifio_free` with memory, pointers and counter; implements `BoundedQueue` |
| `Fifio_proofs` | it does, for any number of slots that is a power of two |
| `ParallelLoop` | abstract: what a call of a parallel function promises |
| `ParallelController` | the registers of `__controller_parallel`, `CallDispatcher`, `fifo` and `Counter`, and one edge of their clock |
| `ParallelController_proofs` | what the controller guarantees whoever its workers are: lemmas for the two modules that give it some |
| `ParallelCall` | EXTENDS `ParallelController` by a caller and by workers of any behaviour; implements `ParallelLoop` |
| `ParallelCall_proofs` | it does, for any number of workers and iterations; the signals tell the truth, the FIFO is not overrun |
| `TaskScheduler` | EXTENDS `ParallelController` by the `scheduler` (with `mem_scheduler`) of each worker |
| `ContextSwitch` | EXTENDS `TaskScheduler` by the tasks, a memory and a caller: the whole; implements `ParallelLoop` |
| `ContextSwitch_proofs` | it does, during the first call, for any number of workers, slots and iterations; no answer, slot or start is lost; no task, with two slots |
| `AtomicMemory` | abstract: what the memory promises tasks that load, store and do atomic operations |
| `MemoryController` | `memory_ctrl`, `memory_ctrl_parallel` and `PT_RR_FU`; implements `AtomicMemory` |
| `MemoryController_proofs` | it does, for any number of channels, banks, accelerators and tasks; a request is in one place, a lock has a holder |
| `MCFifio`, `MCParallelCall`, `MCContextSwitch`, `MCMemoryController` | their instances for TLC |

How they compose.  `FunctionSteps` and `CallGraph` are one state: a pass changes
the bodies of functions, the graph follows, and both decide what runs again.
`DesignFlowManager` is what asks the steps; it makes no assumption about their
answers, so that what is shown of it holds with the relationships that the real
steps compute, and `FunctionSteps` makes no assumption about the order in which
steps are executed.  `ContextSwitch` composes controller, schedulers and tasks
on one clock; its memory takes any request at any time and answers in any order,
once, which is what `MemoryController` guarantees through `AtomicMemory`.  Its
FIFOs are sequences, which is what `Fifio` guarantees.

### DesignFlowManager

State.

| variable | in the code |
|---|---|
| `status` | `DesignFlowStepInfo::status` of every vertex; `NONEXISTENT` stands for a step without vertex |
| `edges` | the edges of `DesignFlowGraphsCollection`, one triple per selector bit; `Predecessors`/`Successors` are the view `design_flow_graph`, which has every selector but the feedback one |
| `possibly_ready` | the `std::set<vertex, DesignFlowStepNecessitySorter>`; an element carries the part of its sorting key (`unnecessary`) that depends on the status, as it was when it was inserted, because that is what fixes its place in the tree |
| `stack` | the active invocations of `RecursivelyAddSteps`: the steps still to be processed, the flag `unnecessary`, the step being added, which of its relationships is being added, and those relationships |
| `pc`, `next`, `pre_dependence`, `pre_precedence`, `invalidated` | the control point and the locals of `Exec` |
| `invalidations` | a counter that exists only to bound the answers that invalidate |
| `needs` | history: what a step asked for in the iteration that completed it |

Actions.  `AddSteps` is `AddStep`/`AddSteps` called by a main program;
`VisitKnown`, `VisitSkipped`, `VisitStep`, `LinkDependences`,
`LinkPrecedences` and `ReturnFromAdd` are the body of `RecursivelyAddSteps`, cut
at its two recursive calls; `Consider`, `RecomputePrecedences`, `NotReady`,
`Run`, `Invalidate`, `InvalidateWrongly`, `EndIteration` and `EndExec` are the
loop of `Exec`, cut at its calls and at each element of the answer to
INVALIDATION.  `DeExecute` is recursive but has no choice in it: the model
gives its effect, the smallest set of completed vertices closed under their
completed successors (`Closure`), instead of its recursion.

The order in which `RecursivelyAddSteps` processes a set is left open, and so
are ties in `possibly_ready` (the code breaks them by pointer or by name).
What a step answers is any member of the sets `Dependence[s]`,
`Precedence[s]` and `Invalidation[s]`, chosen afresh at each question; what
`Exec` of a step returns is any member of `ExecResult`.  No step returns
`SKIPPED` (the one place that could, in `Range_Analysis.cpp`, is behind a test
which `HasToBeExecuted` repeats).

Two builds are covered by constants: `HaveAsserts` (THROW_ASSERT compiled in)
and `RandomFlow` (the option `test-single-non-deterministic-flow`, which takes
any element of `possibly_ready` instead of the first).

Left out: the dot dumps, the statistics, the profile and the debugging option
that sorts the graph after each edge; the parameter `disable-invalidations`
(the instance in which no step invalidates anything).  Names of steps are taken
to be distinct.

### CallGraph

State: `functions` are the vertices; `call_points` are the members of
`direct_call_points`, `indirect_call_points` and `function_addresses` of all
edges; `called_by`, `addressed_functions`, `reached_body_functions` and
`reached_library_functions` are the members of `CallGraphManager` of those
names; `acyclic` has the edges with the standard selector, the others have the
feedback one; `to_add` are the call points that `addCallPointAndExpand` has met
and not yet added.

Actions.  `AddCallPoint` is `AddFunctionAndCallPoint` (with
`AddFunction`, `AddCallPoint`, `expandCallGraphFromFunction` and the statement
visitor `call_graph_computation_recursive`) for one call point, in any order;
`RemoveCallPoint` is the overload that passes use for a call they take out of a
body.  Both end with `ComputeRootAndReachedFunctions`, as in the code.
`ReachedFrom` is the depth-first visit: the least set that is closed under
calls.  `Sorts` is whether `boost::topological_sort` succeeds.  A cycle among
the reached functions is an error that ends the program unless it says otherwise
(`back_edge`): `Recursive` states stop.  After `boost::remove_edge` the
code looks at the data of the edge it has just freed; that read is modelled as
undefined: `addressed_functions` may lose the function or keep it.  Left
out: `ReplaceCallPoint`, which has no caller, the artificial call ids, the dot
files.

### FunctionSteps

State: `bb_version` and `bitvalue_version` are those of `FunctionBehavior`,
`memory_version` that of `HLS_manager`; `pass`, `bit_value`, `hls` and
`allocation` are what the steps of the four kinds note (`bb_version`,
`bitvalue_version`, `last_bb_ver`, `last_bitvalue_ver`, `memory_version`);
`built` and `allocated` are history: what the last execution really worked on.

Actions.  `ExecPass(f)` stands for the passes over the basic blocks of `f`:
it changes the body in any way `NewCalls` allows (adding call points, removing
one), then the versions, and notes what it leaves; `ExecBitValue(f)` is the rule
of `BitValue`; `ExecHls(f)` is any step of the synthesis of `f`
(`HLSFunctionStep`); `ExecAllocation` is `memory_allocation`; `Expand` adds
one call point, and until none is left no step is executed.  A pass of a
function that is no longer reached does nothing but note the version all the
same, as `FunctionFrontendFlowStep::Exec` does.

One pass per function stands for all of them: a pass reads no other pass's
notes, and what the others do to the version is `ExecBitValue` and the next
execution of the same pass.  BitValueIPA and range analysis, which note the
versions of all reached functions by the rule of `ExecAllocation`, are left out
for the number of states.

### MemoryManager

The heap of a generated circuit is a static array, `SAMM_pool`, from which
`__hide_get_mem_from_pool` takes ever more; free blocks form a circular list in
address order that starts and ends at the empty block `base`.

State.  Addresses are counted in quantas of `sizeof(SAMM_header_t)`.

| variable | in the code |
|---|---|
| `next`, `size` | `s.next` and `s.size` of the headers: partial functions, `next` on the headers of the free list, `size` on those of all blocks. A step that read a header which is no longer one would be an error in TLC |
| `freep`, `free_pos` | the global variables `freep` and `SAMM_pool_free_pos` |
| `pc`, `prevp`, `p`, `nquantas`, `block` | the control point and the locals of `malloc` and `free` |
| `refill` | whether `free` was called by `__hide_get_mem_from_pool` rather than by the program or by `memalign` |
| `asked`, `live` | the call under way; the pointers the program holds, with the bytes it asked for |

Actions.  `CallMalloc`, `CallCalloc`, `CallMemalign` and `CallFree` are the
beginnings of the calls; `TakeBlock`, `TakeTail`, `Advance`, `Extend` and
`Fail` are one turn of the loop of `malloc`; `Seek`, `Free` and `Refill` one of
`free`; `Return` hands the block out and, in `memalign`, cuts it first.
`alloca_with_align` is `memalign`.  The arithmetic on `size_t` wraps around at
`Word`; `calloc` cuts its operands to the bits of `POOL_SIZE`, as the code does.

The program frees only what it holds.  The early exits that return NULL without
touching any state (an alignment that is not a power of two, a product that
does not fit) and `free(NULL)` have no action.  `base` is taken to be
neither inside the pool nor the header right after it (`LayoutAssumption`): it
is a variable of its own, and the linker decides where.  Left out: the printing
under `DEBUG_SAMM`, and `memset`.

### The context-switch architecture

All of `ParallelController`, `TaskScheduler`, `ContextSwitch` and
`MemoryController` is synchronous: a step is one rising edge of the clock, the
`reg`s of the Verilog are the variables, its wires are operators with the names
of the wires, and every register gets its next value in the same step.  What is
left open in a step is what comes from outside: a call, what a task does, what
the memory accepts and answers.

* `ParallelController`.  `present_state`, `reg_0`, `reg_1` and `LoopIteration`
  are the state machine (one action per state and branch, `PassIterations`);
  `ram` to `status_cnt` the `fifo` with its output register (`Fifo`); `call_state`
  and `available_data` the `CallDispatcher`, which looks at the FIFO through a
  register; the counters `StartCounter`, `DoneCounter`, `number_req_tasks` and
  `reset_counter`, which `completed` clears without waiting for the edge
  (`Counters`); `worker_status` the busy workers.
* `ParallelCall` adds a caller, who calls when no call is under way, and workers
  of which nothing is assumed: each may take further iterations before it ends
  those it holds, in any order.  `given`, `held` and `ended` are history.
* `TaskScheduler`.  Per worker the state machine of `scheduler`
  (`scheduler_state`, one operator `from_S_i` per state), `selector`, the three
  FIFOs, and the registered outputs `M_DataRdy` and `done_request`.
  `Schedule` is one edge in all workers.
* `ContextSwitch` adds the state machine of each slot, reduced to idle, running,
  waiting for the memory and ending; a running task may access the memory, end or
  do neither in any cycle.
* `MemoryController`.  Per accelerator `fifo_wait`; per bank a FIFO of
  requests, one of answers, the state of the bank and two registers
  (`top_register`, `atomic_register`); one free-running `counter` for all
  arbiters.  FIFOs of the same lane form a ring over the channels.  `Cycle` is one
  edge in all of them; the operators before it are the wires.  Data and the
  address within a bank are left out: the bank a request goes to is what routing
  and locking look at.  A task waits for the answer to each request; an atomic
  operation is a load and then a store to the same bank.
* `Fifio`.  `ram`, `rd_addr`, `wr_addr`, `status_cnt`, with both initial states
  (`fifio` empty, `fifio_free` with all slots but 0).  Initial cells that the
  reset leaves without a value are `Undefined`.

Left out: widths of data, the registers of the data path (`register_file`,
`register_SE_r`: one copy per slot, chosen by the selector), and the memory
controllers of a single channel (`memory_ctrl_single_input`,
`mem_ctrl_kernel`).

## 3. Runs

### Runs that pass

| run | asks | bounds | distinct states |
|---|---|---|---|
| `changing` | do the bookkeeping invariants of the manager, the action property and the refinement hold when answers grow and shrink between questions? | four steps; 2 invalidating answers; `d` rests on `c` and sometimes on `b`, `c` on `a` and sometimes after `b`, `b` sometimes on `a`; `c` and `d` send the flow back; any element of `possibly_ready` may be taken | 364,041 |
| `fixed` | does the loop end, and is every necessary step executed? | answers that do not change, 2 invalidating ones; the first element is taken | 2,778 |
| `heap` | do blocks stay apart, is nothing lost, are neighbours merged, is NULL returned only after a whole search, and does every call return? | a pool of nine quantas of two bytes, a `size_t` of 256 values; sizes 0 and 5, counts 3 and 8 (the last never fits with 5); alignments that need no cut or are no power of two | 62,152 |
| `fifo_four` | is the FIFO a queue, also when it is read and written at once, full or empty? | 4 slots, all initial states and orders | 5,124 |
| `calls` | are iterations given in order, once each; do the end signals come neither early nor by chance; do calls return? | 2 workers, loops of 1, 2 and 5 iterations, 2 calls in a row | 7,220 |
| `slots` | is no task, answer, slot or iteration lost or used twice, and does the call return? | 2 workers of 2 slots, loops of 1 and 4 iterations, 1 call | 11,214 |
| `atomics` | is every request in one place, do atomic operations exclude each other, are locks given back, is every request answered? | 2 channels, 4 banks (2 lanes), 2 accelerators, 3 tasks; loads and atomic operations on banks of the task's own and of the other channel | 131,702 |
| `compile` | is the call graph consistent, has a step that need not run missed nothing, do the passes come to agree? | `top`, `a`, `b` and a library function; a function whose address is kept, two calls of one function, a pass that may draw a recursion, call a library, or call what was called; 2 changes | 241,801 |

Why these bounds are enough to be interesting.

* Manager: with four steps, of which `c` is composed, a step can be a
  dependence and a precedence at once, be asked for by a necessary and by a
  needless step, be reached twice by one `DeExecute`, and be separated from the
  invalidated step by a pending one; with two invalidations a step can be
  invalidated while it is being found again after the first.
* Allocator: a block is found, split, taken as a whole and missed, the pool is
  extended by the minimum and by more, and it runs out; every pattern of free
  and used neighbours occurs.
* FIFO of the controller (2 cells) and loops of 5: the FIFO is empty, full and
  wraps around; counters pass all the values at which two of them could be
  equal by chance.
* Schedulers: four iterations on four slots of two workers let one worker take
  the last iteration while the other asks for it; with two slots a worker has
  no free slot, one, or has one task ready and one in the memory.  Loops of one
  iteration end while the other worker has never run.
* Memory: two channels and two lanes per channel make rings of two with
  answers that rotate and answers that collide on a channel; three tasks on a
  bank are one that holds the lock, one that passes it and one that must not.
* Call graph: an edge with two call points, two callers of one function, one of
  which only takes its address, edges whose reversal closes a cycle, and a
  function that becomes unreached and is reached again.

Only the synthesis of `top` is looked at in `compile`: synthesis steps change
nothing that others read, so those of other functions would only multiply the
states.

A run in which a definition is replaced by a mutant of it (`PROJECT.json`,
"mutants") violates the property, for every property: none holds for want of
cases.

### Fairness

* `DesignFlowManager`, `MemoryManager`: weak fairness of the whole next-state
  relation, or of the steps of the allocator.  One thread that never blocks: the
  assumption is that it keeps running, and that each step's own `Exec` returns.
* `ParallelCall`: the clock ticks (`WF(Clock)`); each worker that holds an
  iteration ends one, and each busy worker asks for another, some day.
* `ContextSwitch`: the clock ticks; the memory accepts each request and answers
  each accepted one (weak fairness each: a request stays until it is accepted); a
  task ends if it gets to run again and again (strong fairness: between its
  turns, while it waits for the memory, it cannot end).  Without the last a task
  that accesses the memory for ever would be a refutation.
* `MemoryController`: fairness is written as `[]<>` of states: the
  free-running counter goes on, no bank works for ever on one request, and a
  task that has done an atomic load comes to the store, which is the code of
  `__sync`/`__atomic` operations that the front end writes.  Nothing is assumed
  of routing, arbiters or rotation: that these starve nobody is
  `RequestsAnswered`.
* `FunctionSteps`: call points met are added, and the passes of each function
  that say they have to be executed are, some day: `NecessaryIsExecuted` of the
  manager.

### What the properties say

* `KeysFresh`: an element of `possibly_ready` is pending and sits where its
  current status would put it.  Without it `erase` misses and the loop does not
  end, or a step is in the set twice.
* `NoReadyStepLost`, `NothingLeftUndone`: between iterations every pending step
  whose predecessors are done is in the set; when the set is empty, nothing is
  pending, unless the steps' answers drew a cycle, and Exit has been executed,
  unless they drew a cycle or changed (see the observations below).  The second
  is checked by `fixed`, where the flow ends.
* `OnlyNeededIsExecuted`: an executed step was requested, or a necessary step
  depends on it, or it was invalidated.
* `ResultsStand`, `RefinesStepOrdering`: `DeExecute` leaves no result behind
  whose ground was withdrawn; the manager implements `StepOrdering`.
* `DependencesExecuted`: with assertions compiled in, no step is executed on a
  dependence that was skipped; without them one may be (see the observations
  below).
* `ExecEnds`, `NecessaryIsExecuted`: liveness of the manager.
* `FreeListInOrder`, `HeapTiled`: the list is one circle in address order;
  between calls the used part of the pool is exactly the blocks the program
  holds and those of the list, and two free ones never touch.
* `EnoughForTheRequest`, `RefinesHeap`: a block houses the request, overlaps no
  other one the program holds, and does not change until it is freed.
* `FailsOnlyWhenFull`: although a search starts in the middle of the list, it
  has seen all of it when NULL is returned.  `CallsReturn`: liveness.
* `RefinesQueue`: memory, pointers and counter are one queue.
* `RefinesLoop` (of `ParallelCall`, of `ContextSwitch`): iterations begin in
  order, each begins once and ends once, and the call returns after all have
  ended, not before.  `CallReturns`: it does return.
* `SignalsAreFinal`: `task_pool_end` and `completed`, combinational
  comparisons of counters that grow in different cycles, are never up by chance.
  `NeverOverrun`: nobody pushes into the full FIFO or reads the empty one,
  although both look at late copies of its status.
* `NoTaskForgotten`, `SlotsInPlace`, `StartsAreHeard`: a running task keeps its
  worker; the answer each suspended task waits for is in exactly one place, and
  a free slot is free and free once; an iteration is given to a worker that has
  a slot waiting for it.
* `OnePlaceEach`: each request outstanding is in one place of the memory
  controllers.  `LockedIsHeld`: a bank is locked exactly while some task is
  between the load and the store of an atomic operation on it.
  `RefinesMemory`: a request is performed once and answered once, and meanwhile
  no other atomic operation or store touches a bank that is held.
  `StoresKeptOut` states the part of it about plain stores, which is false where
  they share a bank with atomic operations (see the observations below).
* `AcyclicIsAcyclic`: the acyclic view has no cycle in whatever order calls came
  and went.  `ReachedIsCurrent`: the cached reached functions are those the call
  points lead to.
* `NothingMissed`: if a synthesis step, or the allocation of memory, says it
  need not be executed, then its last execution worked on exactly the present
  versions of exactly the functions it leads to at present.
* `PassesSettle`: once nothing is left to improve, the passes of every
  function agree that there is nothing to do.

### Findings (runs that expect a violation)

1. `lost_invalidation`: a step answers INVALIDATION with two skipped steps, the
   second of which depends on, or follows, the first.  `DeExecute(first, true)`
   turns the second from SKIPPED into UNNECESSARY; `DeExecute(second, true)`
   leaves UNNECESSARY alone, so the second is skipped again although "Target
   must be reexecuted" (`design_flow_step.hpp:138`).
2. `memalign`: the sizes of the two parts of a block are set in bytes
   (`memmgr.c:315`) although `size` counts quantas (`memmgr.c:70`): the freed
   front covers memory the program holds.
3. `forgotten` (2 workers of 4 slots, a loop of 4): in `S_5`, with
   `task_pool_end` up, the scheduler selects a task that is ready but goes to
   `S_4`, in which no task is thought to run, unless an answer arrives in the same
   cycle (`CS_COMPONENT.xml:786`).  The next answer then takes the worker away
   from the running task, which no FIFO remembers: nothing resumes it.  With two slots this
   cannot happen (run `slots`, theorem `TwoSlotsForgetNone`).
4. `addressed`: `RemoveCallPoint` takes the called function out of
   `addressed_functions` when this one edge holds no address of it, although
   another caller may take it (`call_graph_manager.cpp:368`, against
   `call_graph_manager.hpp:102`).

Further observations.  Each is a counterexample of TLC with the instance, or the
configuration, named; they are not among the runs of `PROJECT.json`:

* A step invalidates a skipped one whose dependence was skipped too: the
  invalidated step becomes necessary (`design_flow_manager.cpp:1010`), what it
  depends on stays skipped.  A build with assertions stops at
  `design_flow_manager.cpp:229` (the branch that would reopen the dependence is
  under `#if 0`, `:219`).  Without them the step is executed although "Source must
  be executed to satisfy target" (`design_flow_step.hpp:137`): with
  `DesignFlow_skipped_dependence.cfg` (module `MCDesignFlow`) TLC finds
  `DependencesExecuted` violated.
* With `b` and `c` depending on each other, `Exec` returns normally with both
  undone: the check "Design flow didn't end" (`:924`) looks at Exit only, and
  steps on a cycle are not hooked to Exit.
* `DesignFlowManager` with answers that change and draw no cycle: every step may
  be done and "Design flow didn't end" (`design_flow_manager.cpp:931`) is thrown
  all the same.  The end of an iteration wakes the successors of the step
  (`:790`) before it unhooks the vertices that have other successors from Exit
  (`:804`–`:815`), so an Exit that waited only for what is then unhooked is not
  woken.  Instance: `w` depends at first on nothing and later on `d`, `d` at
  first on nothing and later on `u`, `x` follows `w`; `w` and `x` are requested.
  This is why `NothingLeftUndone` asks for Exit only when answers are fixed.
* `MemoryManager` with a request close to the largest `size_t`
  (`Sizes = {2, 255}`): the rounding at `memmgr.c:177` wraps around, and
  `EnoughForTheRequest` is violated ("house all the requested bytes, plus the
  header", `memmgr.c:173`).
* `Fifio` with three slots (`Addresses = 4`): a pointer runs through a cell
  that is not there (`CS_COMPONENT.xml:66`) and `RefinesQueue` is violated: the
  number of slots has to be a power of two.
* A parallel call of no iterations never returns: `completed` (`:2579`) asks
  for counters that are not 0.
* `ContextSwitch` with `Calls = 2`: the second call never returns.  At the
  end of the first each scheduler has put every slot, the selected one included,
  into `fifo_free` (`:730`); in the second that FIFO is full although a task is
  suspended, and the scheduler goes from `S_4` to `S_0` (`:836`), where nothing
  resumes the task.
* `MemoryController` with plain stores of one task to a bank on which another
  does atomic operations (`MemoryController_stores.cfg`, module
  `MCMemoryController`): TLC finds `StoresKeptOut` violated.  A plain store at the
  top of a locked bank's FIFO is let into the bank by
  `copy_from_fifo_to_top_fifo_register`, which looks at the atomic bit only
  (`CS_COMPONENT.xml:1387`–`1402`), between the load and the store of the atomic operation,
  although only "all the non-atomic reads can go ahead" (`:1347`).  In the same
  cycle the FIFO rotates it (`:1268`–`1286`), as the comment there asks (`:1267`),
  so the store is both in the bank and in the FIFO: `OnePlaceEach` is violated by
  the same instance.
* The maps of `HLSFunctionStep` and `memory_allocation` keep functions which
  are no longer reached.  The comparison with the current map then never
  holds, and `HasToBeExecuted` answers yes for ever: nothing is missed
  (`NothingMissed`), but the step runs each time it is asked.
* `FunctionFrontendFlowStep::Exec` of a function that is not reached notes the
  version without doing its work; when the function is reached again, the pass
  does not run although it has never been applied.
* `RemoveCallPoint` reads the data of an edge after `boost::remove_edge`.

## 4. Proofs

### The manager

The assumptions are those named in `DesignFlowManager`: Entry and Exit are two
vertices that are not steps (`VertexAssumption`), and the answers are sets of
steps (`AnswerAssumption`).  Nothing is assumed about the number of steps or
about the order or the consistency of the answers.

* `TypeCorrect`: `Spec => []TypeOK`.
* `KeysAlwaysFresh`: `Spec => []KeysFresh`.  `KeysFresh` alone is not inductive:
  when the considered step completes, nothing says that it is not in the set
  again.  `KeysInv` adds that while questions are asked (`Recomputing`) the
  considered step is pending, is neither in the set nor being added, and, when
  it is unnecessary, that every active invocation is unnecessary, so that none
  can switch it to necessary and re-insert it.
* `ResultsAlwaysStand`: `Spec => []ResultsStand`.  Added to the invariant:
  what a step asked for when it completed is still drawn as an edge
  (`NeedsLinked`; only edges into Exit are ever removed, `LinksStay`), so the
  walk of `DeExecute`, which is closed (`ClosureProperties`), catches it.
* `ImplementsStepOrdering`: `Spec => Ordering!Spec`, step by step: adding a step
  is `Discover`, executing or skipping one is `Complete`, an invalidation is
  `Withdraw`, everything else is a stutter.
* `AlwaysGrounded`: what `StepOrdering` is good for.

The second half of the module is about what the loop must not forget.  All its
invariants rest on `StructInv`: the stack of `RecursivelyAddSteps` is one chain,
each invocation asked for by the one below it (`StackInv`, `Linked`); what `Exec`
asked of the step it considers is known or still to be visited (`CallInv`); and an
edge comes from an answer and joins steps that exist (`EdgesInv`).

* `ReadyStepsAreKept`: `Spec => []NoReadyStepLost`.  `ReadyInv` names the places
  where a ready step may be while it is not in the set: it is being added
  (`OnStack`), it is the one being considered, or it follows the step that has
  just run and is about to be woken.  `Exec` may drop a step that is not ready
  because the one it waits for is itself pending, and `DeExecute` may reopen
  predecessors at any time because that only makes steps less ready.
* `ExecutedIsNeeded`: `Spec => []OnlyNeededIsExecuted`, from `NeedInv`: a necessary
  step was requested, or invalidated, or a necessary step depends on it, or a
  necessary invocation is just asking for it.
* `DependencesAreExecuted`: `Spec => []DependencesExecuted`.  `SettledInv`: while
  `Exec` asks for the dependences of a necessary step, those it has dealt with are
  necessary.  `HaveAsserts` is what the property itself says.
* `NothingIsLeftUndone`: `Spec => []NothingLeftUndone`, from `ReadyInv` and, for
  fixed answers, that what a completed step follows is completed (`DownInv`), a
  vertex leads somewhere (`HookedInv`), and Exit is on its way into the set or
  something is left before it (`ExitInv`).  When the set is empty, a pending step
  follows a pending step (`PendingFollowsPending`), which a graph without cycles
  excludes.

### The call graph and the steps

The theorems hold for any program (`ProgramAssumption`: the roots have bodies,
and a body holds call points of its function) and any changes of the passes
(`ChangesAssumption`: a pass puts call points of `f` into `f`).  Neither the set
of functions nor the number of changes is assumed finite.

* `StepsTypeCorrect`: `Spec => []TypeOK`.
* `AcyclicStaysAcyclic`, `ReachedStaysCurrent`: `Spec => []AcyclicIsAcyclic` and
  `[]ReachedIsCurrent`.  The second needs that the three representations of an
  edge agree (`EdgesAgree`), and the roots to be vertices and vertices to call
  vertices (`VerticesInv`); together they are `GraphInv`.
* `NothingIsMissed`: `Spec => []NothingMissed`, the theorem of this part.
  `HasToBeExecuted` compares the current map with a map that keeps notes of
  functions that are no longer reached, so `NothingMissed` says nothing of the
  steps that have to be executed and is not inductive.  `NotesInv` says of each
  step what its last execution has seen (`SeenInv`): the versions it saw only
  grow stale; a call point that is still to be added belongs to a function whose
  version has changed since; and *as long as the functions seen keep the
  versions seen, the functions reached are the ones seen*.  The last is kept
  because what is reached depends only on what reached functions call
  (`ReachedDependsOnReached`), and a function's calls change only together with,
  or after, its version (`SeenKept`).  If now the step says it need not run,
  every function it leads to has the version it noted; those it noted but has
  not seen last time are excluded by the equality of the sets
  (`HlsMissesNothing`, `AllocationMissesNothing`).

### The memory manager

The theorems hold for a pool, a quanta and a `size_t` of any size and any
requests that are `Modest`: rounding them up does not wrap around, `calloc`
loses no bits, and no alignment makes `memalign` cut a block.  Finding 2, the
observation on `memmgr.c:177` and the hazard at `memmgr.c:338` are what happens
to the other ones.

* `TypeCorrectness`, `FreeListStaysInOrder`, `BlocksStayBigEnough`:
  `Spec => []TypeOK`, `[]FreeListInOrder` and `[]EnoughForTheRequest`.
* `ImplementsHeap`: `Spec => AbstractHeap!Spec`: `Return` is `Allocate`,
  `CallFree` is `Release`, everything else is a stutter (`LiveKept`).

None of these is inductive: that an insertion is in order depends on the loop of
`free` having found a place between two headers; that a merged block overlaps
nothing, on no block lying between the two; and that the block returned is apart
from the others, on its being neither in the list nor held.  The invariant `IInv`
collects this: `HeadersInv` (the list is a `List`, its headers are blocks, what
the program holds is a block outside it), `BaseInv` (`base` is on the list, of
size 0), `BlocksInv` (all blocks, whosever they are, lie apart and below
`Edge`, the end of the part of the pool in use), `PoolInv` and `CallInv` (what
the locals of the call under way mean).  Around it are lemmas about lists alone
(`UnlinkList`, `SpliceList`: what taking a header out or putting one in leaves),
about the layout of a block between its neighbours (`Layout`) and one per action.

* `HeapStaysTiled`: `Spec => []HeapTiled`.  `TileInv` adds to `IInv` that every
  quanta in use lies in a block (`CoverInv`), that every block is on the list, with
  the program or in the call under way (`OwnedInv`), and that no two free blocks
  touch (`NoAdjacentFree`): the split of a block, the merge on either side and the
  growth of the pool each exchange some blocks for others that cover the same.
* `FailureMeansFull`: `Spec => FailsOnlyWhenFull`.  `SearchInv`: the headers from
  `freep` to `prevp`, on a circle that wraps around at `base`, are those the search
  has found too small.

### The controller of parallel calls and its FIFOs

What the controller's own registers mean, whoever the workers are, is in
`ParallelController_proofs`: its invariant `ControlInv` is kept by every edge of
the clock (`EdgeKeeps`, `CallKeepsControl`) in which the workers end no more than
they were given, which is all it needs to know of them.

The theorems on `ParallelCall` hold for any number of accelerators and calls and
loops of any length, with workers that do nothing but end what they were given
and ask for more when they like.  The assumptions are the named ones of the
modules: there is an accelerator, and no call asks for more than `MaxLoop`
iterations, which is what keeps `LoopIteration` and the counters in their width.

* `CallTypeCorrect`: `Spec => []TypeOK`.
* `FifoNeverOverrun`, `SignalsStayFinal`: `Spec => []NeverOverrun` and
  `[]SignalsAreFinal`.
* `ImplementsLoop`: `Spec => Loop!Spec`: a call is `Call`, the cycle in which
  `done_port` is up is `Return`, every other cycle of a call is `Progress`.

The promises are about signals; why they hold is about what lies between
registers that change in different cycles.  `FifoInv`: what was pushed is what was read plus what waits, where a word
counts as read from the cycle on in which the dispatcher fetches it, one before
`number_req_tasks` counts it; each waiting word is the next iteration not yet
read; and when the copy `available_data` says there is a word, `q` shows it,
though it shows what lay under the read pointer a cycle ago.  `MachineInv`: each
state of the state machine knows how many were pushed, and *after the first push
and before the last there is always a word waiting or just fetched*, so that the
counters of pushed and given iterations do not meet in between (`AllPushed`),
although the dispatcher may empty the FIFO while the state machine goes round
from `S_4` to `S_2`.  `WorkInv`: what was given is an initial segment, the
workers hold, each for itself, what has not ended, and `DoneCounter` counts the
rest.  Two lemmas carry the data: `Selection` (of the idle workers exactly one is
the first, whatever their number) and `OneEach` (as many workers raise
`done_port_accelerator` in a cycle as iterations end in it).

`FifoTypeCorrect` and `ImplementsQueue` (`Spec => RefinesQueue`) hold for any
number of slots under the hypothesis `FullWidth`: the slots are as many as the
pointers have values, and at least two.  The invariant `PointersInv` says that
the pointers are as far apart, modulo that number, as the counter says, and that
what lies between them are slots.  The observation on three slots in section 3 is
what happens without the hypothesis.

### The context switch

The theorems on `ContextSwitch` hold for any number of accelerators, slots and
iterations, tasks that suspend and end in any way, and a memory that answers in any
order.  They carry the hypothesis `Calls <= 1`: they are about the behaviour from
the reset to the first call and after it.  With a second call they are false: see
the observation on `Calls = 2` in section 3.

* `RegistersKeepWidths`, `SlotsKeepPlaces`, `NoStartIsMissed`: `Spec => []TypeOK`,
  `[]SlotsInPlace` and `[]StartsAreHeard`.
* `TwoSlotsForgetNone`: `Spec => []NoTaskForgotten` if `NUM_TASKS <= 2`; finding 3
  is what happens with more slots.
* `SwitchingImplementsLoop`: `Spec => RefinesLoop`.

The invariant `IInv` has four parts besides the types and `ControlInv`.
`PlaceInv`: each suspended task has *a* place where its answer is (`Spot`), FIFOs
hold no slot twice, and a free slot has no task.  `StateInv` says what the state of a
scheduler means for the selected slot: in `S_5` it is empty, or is just ending the
task that lets the worker ask; in `S_1` and `S_3` it runs; in `S_2` every slot waits.
It also says what the controller may believe of the worker: one that is not marked
busy, while iterations are still to come, is in `S_5` or about to be.  This is
what makes a start heard (`Heard`), two cycles and more after the worker asked
for it.  When no more will come (`Late`: `task_pool_end` is up or the call is
over) the scheduler is free to go into `S_3`, `S_4` and `S_0`; that it cannot become
early again (`LateStays`) is where the second call is excluded.  `LiveInv`: tasks
that have begun and not ended have iterations of their own, which are `begun` and not
`ended`.  `CallInv` counts: what has begun is what the controller gave, and
`DoneCounter`, with the workers that raise `done_port_accelerator` now, is what
has ended.

One cycle is proved in three steps: where the answers and slots go (`ReadyKept`,
`WaitKept`, `FreeKept`, then `SpotKept` for one slot), who is selected next
(`Turn`, `SelectedAfter`: a task with its answer, a free slot, or the same), and, for
each state the scheduler goes to, that the selected slot is what it means
(`WaitsAfter`, `RunsAfter`, `FullAfter`, `LastAfter`, `LateAfter`, `AskAfter`).
`NoTaskForgotten` is not a consequence of `IInv`.  With two slots it is inductive
with it (`NobodyDisplaced`): in `S_4` a running task implies a free slot, so the
task whose answer would displace it would need a third.

### The memory controllers

The theorems hold for any channels, lanes, accelerators, slots, FIFO sizes and
tasks, under the assumptions named in `MemoryController` and the hypothesis
`StoresApart`: nobody asks for a plain store to a bank on which somebody asks for
an atomic operation.  Without it they are false:
`MemoryController_stores.cfg` gives the counterexample.  All accesses of the run
`atomics` satisfy it.

* `TypeCorrect`, `EachInOnePlace`, `LocksAreHeld`: `Spec => []TypeOK`,
  `[]OnePlaceEach` and `[]LockedIsHeld`.
* `ImplementsMemory`: `Spec => RefinesMemory`: of each task a cycle is `Issue`,
  `Perform`, `Answer` or a stutter.  `Perform` is the move of a request into
  the register of its bank.

`OnePlaceEach` counts places; the invariant `IInv` says instead that the request
of each task has *a* place and names it (`PlaceInv`, `Spot`): the FIFO of an
accelerator, a FIFO towards the memory, the register that holds a store back, the
register of a bank, or a FIFO of answers.  Besides it there are the types, that
FIFOs towards the memory hold each request once, on its lane, for the task that waits
for it (`QueuesInv`), what the registers of a bank in each of its states hold
(`BanksInv`), what each task may be waiting for (`TasksInv`), and `LockInv`: a bank
is locked exactly when somebody holds it, and one task at most holds it.  The parts need one
another: that the store which arrives at a locked bank is the one of the holder
follows from the lock, and that the lock ends with it from its place.

A cycle moves all places at once.  The proof says for each place where its request
goes (`GoesTo`, `GoesAtomic`, `GoesTop`, `GoesFrom`): it stays, moves up, rotates,
goes on around the ring, is taken by the bank, is held back or leaves.  For each of these
there is a lemma that it arrives in that one place and, as FIFOs that are
offered two requests in a cycle acknowledge one, in no other; the case left over, a task
without a request (`NoneMoves`), shows that nothing appears from nowhere.
`HoldsStep` then says how the holder of a bank changes in a cycle, and `LockStep`
that the state of the bank changes with it.

### What is only model-checked

TLC checked the inductive invariants on the instances before they were proved.
Only model-checked:

* liveness, since the prover does not reason about fairness: `ExecEnds`,
  `NecessaryIsExecuted`, `CallsReturn`, `CallReturns` (twice),
  `RequestsAnswered`, `PassesSettle`.

Every invariant, action property and refinement that a passing run checks is also
a theorem.  The hypotheses that theorems carry (`Modest`, `FullWidth`, `StoresApart`,
`Calls <= 1`, `NUM_TASKS <= 2`) are about what is asked of a component or how it is
configured, are met by the instances that pass, and without each of them TLC
refutes the property, or for `Calls <= 1` and `Modest` some of the properties.

## 5. Plan

Done: the design flow manager, the memory manager, the context-switch
architecture, the call graph and the versions of the function steps.  Next, in
this order:

1. Proofs: that the FIFOs of `TaskScheduler` may be sequences, by composing it
   with `Fifio` through the theorem on it; the same for `MemoryController` and the
   memory of `ContextSwitch`.
2. The relationships `CALLED_FUNCTIONS` and `CALLING_FUNCTIONS` of the frontend
   steps, computed over the acyclic view, as answers to the manager.
3. `ListScheduling`: `HLS/scheduling/parametric_list_based.cpp` against the
   dependences and resource limits it must respect.
4. `Liveness` and register binding: live sets over the state transition graph;
   values alive together never share a register.
5. The memory controllers of a single channel.

### Not modelled

* Passes over the tree IR, generation of HDL, wrappers of external tools,
  parsers, solver front ends: transformations of large data or pure I/O.  Their
  correctness is a relation between an input and an output program, not a
  property of a behaviour.
* `ext/`, `etc/gcc_plugin/`, `etc/clang_plugin/` (vendored code and patched
  copies of compilers), `examples/` and `panda_regressions/` (inputs): most of
  the lines of the repository, so that the modelled share of it stays small
  whatever is added here.
* Scheduling, liveness and bindings: pure algorithms, items 3 and 4 above.
* Of the manager's neighbours: the relationships each concrete step declares;
  the model lets a step answer anything, which is sound for the properties of
  the manager and says nothing about those of the flows.
