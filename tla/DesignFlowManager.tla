--------------------------- MODULE DesignFlowManager ---------------------------
(***************************************************************************)
(* The scheduler of the design steps of every PandA tool:                  *)
(* src/src/design_flows/design_flow_manager.cpp.                           *)
(*                                                                         *)
(* A flow is a graph of steps that grows while it is executed.  A step is  *)
(* a vertex; each time the manager looks at it, the step is asked again    *)
(* which steps it depends on (they must be executed to satisfy it), which  *)
(* must only precede it (they are added as unnecessary, hence skipped      *)
(* unless something else depends on them) and, once it has run, which      *)
(* earlier steps it invalidates.  What a step answers depends on the       *)
(* intermediate representation, which the steps rewrite: the model lets    *)
(* every question be answered by any of the answers the constants allow.   *)
(*                                                                         *)
(* RecursivelyAddSteps is recursive and is modelled with an explicit       *)
(* stack, one frame per invocation; Exec is the loop over possibly_ready.  *)
(***************************************************************************)
EXTENDS Naturals, Sequences

CONSTANTS
  Step,              \* the design flow steps (a step is its signature)
  Entry, Exit,       \* the two auxiliary vertices
  Composed,          \* the steps that are compositions of steps (IsComposed)
  Requested,         \* the steps the main program hands to AddStep(s)
  Dependence,        \* Dependence[s]: what s may answer for DEPENDENCE
  Precedence,        \* Precedence[s]: what s may answer for PRECEDENCE
  Invalidation,      \* Invalidation[s]: what s may answer for INVALIDATION
  ExecResult,        \* the statuses Exec of a step may return
  MaxInvalidations,  \* bound on the answers that invalidate something
  HaveAsserts,       \* THROW_ASSERT is compiled in (HAVE_ASSERTS)
  RandomFlow         \* the option test-single-non-deterministic-flow

Vertex == Step \cup {Entry, Exit}

Completed == {"ABORTED", "EMPTY", "SKIPPED", "SUCCESS", "UNCHANGED"}
Pending == {"UNEXECUTED", "UNNECESSARY"}
Status == Completed \cup Pending \cup {"NONEXISTENT"}

Selector == {"DEPENDENCE", "PRECEDENCE", "AUX", "DEPENDENCE_FEEDBACK"}

ASSUME VertexAssumption == Entry # Exit /\ Entry \notin Step /\ Exit \notin Step
ASSUME AnswerAssumption ==
  /\ Requested \subseteq Step
  /\ Composed \subseteq Step
  /\ Dependence \in [Step -> SUBSET SUBSET Step]
  /\ Precedence \in [Step -> SUBSET SUBSET Step]
  /\ Invalidation \in [Step -> SUBSET SUBSET Step]
  /\ \A s \in Step : Dependence[s] # {} /\ Precedence[s] # {} /\ {} \in Invalidation[s]
  /\ ExecResult \subseteq Completed \ {"SKIPPED"}
  /\ MaxInvalidations \in Nat
  /\ HaveAsserts \in BOOLEAN
  /\ RandomFlow \in BOOLEAN

VARIABLES
  status,            \* DesignFlowStepInfo::status; NONEXISTENT: no vertex
  edges,             \* <<selector, source, target>> of the graphs collection
  possibly_ready,    \* the ordered set, each element with its sorting key
  stack,             \* the active invocations of RecursivelyAddSteps
  pc,                \* where the main program and Exec are
  next,              \* the vertex the loop considers; Entry between iterations
  pre_dependence,    \* pre_dependence_steps of the current iteration
  pre_precedence,    \* pre_precedence_steps of the current iteration
  invalidated,       \* the answer to INVALIDATION still to be processed
  invalidations,     \* how many answers invalidated something so far
  needs              \* history: what each step asked for when it last completed

graphVars == <<status, edges>>
loopVars == <<next, pre_dependence, pre_precedence, invalidated, invalidations, needs>>
vars == <<status, edges, possibly_ready, stack, pc, loopVars>>

-------------------------------------------------------------------------------
(* The graph.  design_flow_graph filters out the feedback edges. *)

SourcesIn(E, v) == {u \in Vertex : \E k \in Selector \ {"DEPENDENCE_FEEDBACK"} : <<k, u, v>> \in E}
TargetsIn(E, v) == {w \in Vertex : \E k \in Selector \ {"DEPENDENCE_FEEDBACK"} : <<k, v, w>> \in E}
Predecessors(v) == SourcesIn(edges, v)
Successors(v) == TargetsIn(edges, v)

(* The vertices a walk from x meets when it goes on only through ok ones:  *)
(* the smallest set of ok vertices that holds the ok successors of x and   *)
(* those of its members.                                                   *)
IsClosed(X, x, ok) ==
  /\ Successors(x) \cap ok \subseteq X
  /\ \A u \in X : Successors(u) \cap ok \subseteq X

Closure(x, ok) ==
  CHOOSE X \in SUBSET ok : IsClosed(X, x, ok) /\ \A Y \in SUBSET X : IsClosed(Y, x, ok) => Y = X

IsReachable(x, y) == y \in Closure(x, Vertex)

CompletedSteps == {v \in Vertex : status[v] \in Completed}
Ready(v) == Predecessors(v) \subseteq CompletedSteps

-------------------------------------------------------------------------------
(* possibly_ready: a std::set whose comparator reads the status.  An       *)
(* element keeps the place it got when it was inserted, so the entry holds *)
(* the key of that moment; find and erase look for the current key.        *)

Unnecessary(st) == st \in {"SKIPPED", "UNNECESSARY"}
Entries(S, stat) == {[step |-> v, unnecessary |-> Unnecessary(stat[v])] : v \in S}

ErasedNever(v) == possibly_ready   \* mutant: the key is not found
Erased(v) == possibly_ready \ Entries({v}, status)

(* operator() of DesignFlowStepNecessitySorter: composed steps first, then *)
(* the necessary ones; ties (vertex or name order) are left open.          *)
Before(e, f) ==
  \/ e.step \in Composed /\ f.step \notin Composed
  \/ /\ e.step \in Composed <=> f.step \in Composed
     /\ ~e.unnecessary /\ f.unnecessary

Candidates ==
  IF RandomFlow THEN possibly_ready
  ELSE {e \in possibly_ready : \A f \in possibly_ready : ~Before(f, e)}

-------------------------------------------------------------------------------
(* RecursivelyAddSteps. *)

CallAtExit(steps, unnecessary) ==   \* mutant: the wrong auxiliary vertex
  [todo |-> steps, unnecessary |-> unnecessary, step |-> Exit,
   phase |-> "visit", relationships |-> {}]
CallAsNecessary(steps, unnecessary) ==   \* mutant: precedences added like dependences
  [todo |-> steps, unnecessary |-> FALSE, step |-> Entry,
   phase |-> "visit", relationships |-> {}]
Call(steps, unnecessary) ==
  [todo |-> steps, unnecessary |-> unnecessary, step |-> Entry,
   phase |-> "visit", relationships |-> {}]

top == stack[Len(stack)]
below == SubSeq(stack, 1, Len(stack) - 1)
WithTop(frame) == Append(below, frame)
Returned == stack = <<>>
Resumable(phase) ==
  /\ Len(stack) > 1
  /\ top.todo = {}
  /\ top.phase = "visit"
  /\ stack[Len(stack) - 1].phase = phase

(* The step exists and nothing has to be done for it. *)
VisitKnown(s) ==
  /\ ~Returned /\ top.phase = "visit" /\ s \in top.todo
  /\ status[s] # "NONEXISTENT"
  /\ \/ top.unnecessary
     \/ status[s] \notin {"UNNECESSARY", "SKIPPED"}
     \/ status[s] = "SKIPPED" /\ ~HaveAsserts
  /\ stack' = WithTop([top EXCEPT !.todo = @ \ {s}])
  /\ UNCHANGED <<graphVars, possibly_ready, pc, loopVars>>

(* The assertion "Switching to necessary ... which has already skipped". *)
VisitSkipped(s) ==
  /\ ~Returned /\ top.phase = "visit" /\ s \in top.todo
  /\ ~top.unnecessary /\ status[s] = "SKIPPED" /\ HaveAsserts
  /\ pc' = "already skipped"
  /\ UNCHANGED <<graphVars, possibly_ready, stack, loopVars>>

(* If it belongs to the set, it is erased with its old key and inserted    *)
(* with its new one.                                                       *)
RekeyedInPlace(s, new) == possibly_ready   \* mutant: no erase, no insert
Rekeyed(s, new) ==
  IF Entries({s}, status) \subseteq possibly_ready THEN Erased(s) \cup Entries({s}, new)
  ELSE possibly_ready

(* A new step gets a vertex; an unnecessary one becomes necessary and is   *)
(* taken out of possibly_ready and put back, since its key changes.  Its   *)
(* dependences are then added, as necessary as the step itself.            *)
VisitStep(s) ==
  /\ ~Returned /\ top.phase = "visit" /\ s \in top.todo
  /\ \/ /\ status[s] = "NONEXISTENT"
        /\ status' = [status EXCEPT ![s] = IF top.unnecessary THEN "UNNECESSARY" ELSE "UNEXECUTED"]
        /\ UNCHANGED possibly_ready
     \/ /\ status[s] = "UNNECESSARY" /\ ~top.unnecessary
        /\ status' = [status EXCEPT ![s] = "UNEXECUTED"]
        /\ possibly_ready' = Rekeyed(s, status')
  /\ \E answer \in Dependence[s] :
       stack' = Append(WithTop([top EXCEPT !.todo = @ \ {s}, !.step = s, !.phase = "dependences",
                                           !.relationships = answer]),
                       Call(answer, top.unnecessary))
  /\ UNCHANGED <<edges, pc, loopVars>>

(* The dependences have been added: draw their edges, add the precedences, *)
(* which never make a step necessary.                                      *)
LinkDependences ==
  /\ Resumable("dependences")
  /\ LET caller == stack[Len(stack) - 1]
     IN /\ edges' = edges \cup ({"DEPENDENCE"} \X caller.relationships \X {caller.step})
        /\ \E answer \in Precedence[caller.step] :
             stack' = Append(Append(SubSeq(stack, 1, Len(stack) - 2),
                                    [caller EXCEPT !.phase = "precedences", !.relationships = answer]),
                             Call(answer, TRUE))
  /\ UNCHANGED <<status, possibly_ready, pc, loopVars>>

(* The precedences have been added: draw their edges, insert the step if   *)
(* it is ready, hook it to Entry and to Exit, unhook its predecessors from *)
(* Exit.                                                                   *)
HookUp(E, s) ==
  LET unhooked == E \ ({"AUX"} \X SourcesIn(E, s) \X {Exit})
  IN unhooked \cup (IF SourcesIn(E, s) = {} THEN {<<"AUX", Entry, s>>} ELSE {})
              \cup (IF TargetsIn(unhooked, s) = {} THEN {<<"AUX", s, Exit>>} ELSE {})

LinkPrecedences ==
  /\ Resumable("precedences")
  /\ LET caller == stack[Len(stack) - 1]
         s == caller.step
         drawn == edges \cup ({"PRECEDENCE"} \X caller.relationships \X {s})
     IN /\ edges' = HookUp(drawn, s)
        /\ possibly_ready' = IF SourcesIn(drawn, s) \subseteq CompletedSteps
                             THEN possibly_ready \cup Entries({s}, status)
                             ELSE possibly_ready
        /\ stack' = Append(SubSeq(stack, 1, Len(stack) - 2),
                           [caller EXCEPT !.step = Entry, !.phase = "visit", !.relationships = {}])
  /\ UNCHANGED <<status, pc, loopVars>>

(* The outermost invocation has processed all its steps. *)
ReturnFromAdd ==
  /\ Len(stack) = 1 /\ top.todo = {} /\ top.phase = "visit"
  /\ stack' = <<>>
  /\ UNCHANGED <<graphVars, possibly_ready, pc, loopVars>>

RecursivelyAddSteps ==
  \/ \E s \in Step : VisitKnown(s) \/ VisitSkipped(s) \/ VisitStep(s)
  \/ LinkDependences
  \/ LinkPrecedences
  \/ ReturnFromAdd

-------------------------------------------------------------------------------
(* The main program and the loop of Exec. *)

(* AddStep and AddSteps, called by main before Exec. *)
AddSteps(S) ==
  /\ pc = "main" /\ Returned
  /\ S # {} /\ \E s \in S : status[s] \in {"NONEXISTENT", "UNNECESSARY"}
  /\ stack' = <<Call(S, FALSE)>>
  /\ UNCHANGED <<graphVars, possibly_ready, pc, loopVars>>

Exec ==
  /\ pc = "main" /\ Returned
  /\ \E s \in Step : status[s] # "NONEXISTENT"
  /\ pc' = "loop"
  /\ UNCHANGED <<graphVars, possibly_ready, stack, loopVars>>

(* What v may answer; the auxiliary steps answer nothing. *)
Answers(relationship, v) == IF v \in Step THEN relationship[v] ELSE {{}}

(* Dependences are recomputed as necessary as the step that asks. *)
NotNeededYet(v) == status[v] \in Pending   \* mutant: whatever is to be done is unnecessary
NotNeeded(v) == status[v] = "UNNECESSARY"

(* An iteration takes the first element and asks it for its dependences. *)
Consider(e) ==
  /\ pc = "loop" /\ e \in Candidates
  /\ possibly_ready' = Erased(e.step)
  /\ next' = e.step
  /\ pre_dependence' \in Answers(Dependence, e.step)
  /\ stack' = <<Call(pre_dependence', NotNeeded(e.step))>>
  /\ pc' = "recompute dependences"
  /\ UNCHANGED <<graphVars, pre_precedence, invalidated, invalidations, needs>>

RecomputePrecedences ==
  /\ pc = "recompute dependences" /\ Returned
  /\ pre_precedence' \in Answers(Precedence, next)
  /\ stack' = <<Call(pre_precedence', TRUE)>>
  /\ pc' = "recompute precedences"
  /\ UNCHANGED <<graphVars, possibly_ready, next, pre_dependence, invalidated, invalidations, needs>>

Asked == pre_dependence \cup pre_precedence

AskedDoneLoosely == pre_dependence \subseteq CompletedSteps   \* mutant: precedences ignored
AskedDone == Asked \subseteq CompletedSteps

LinkNext ==
  edges' = edges \cup ({"DEPENDENCE"} \X pre_dependence \X {next})
                 \cup ({"PRECEDENCE"} \X pre_precedence \X {next})

(* Something it asked for is still to be executed: the iteration ends and  *)
(* the step is left out of possibly_ready.                                 *)
NotReady ==
  /\ pc = "recompute precedences" /\ Returned
  /\ ~AskedDone
  /\ LinkNext
  /\ pc' = "loop" /\ next' = Entry
  /\ pre_dependence' = {} /\ pre_precedence' = {}
  /\ UNCHANGED <<status, possibly_ready, stack, invalidated, invalidations, needs>>

(* The step is skipped when unnecessary, otherwise executed or, when       *)
(* HasToBeExecuted says no, marked UNCHANGED; then it is asked what it     *)
(* invalidates.                                                            *)
Outcome(v) ==
  IF status[v] = "UNNECESSARY" THEN {"SKIPPED"}
  ELSE IF v = Exit THEN {"EMPTY"}
  ELSE ExecResult \cup {"UNCHANGED"}

Run ==
  /\ pc = "recompute precedences" /\ Returned
  /\ AskedDone
  /\ LinkNext
  /\ \E result \in Outcome(next) : status' = [status EXCEPT ![next] = result]
  /\ needs' = [needs EXCEPT ![next] = Asked]
  /\ invalidated' \in Answers(Invalidation, next)
  /\ invalidations' = IF invalidated' = {} THEN invalidations ELSE invalidations + 1
  /\ invalidations' <= MaxInvalidations
  /\ pc' = "invalidate"
  /\ UNCHANGED <<possibly_ready, stack, next, pre_dependence, pre_precedence>>

Undone(st, force) ==
  IF st \in Pending THEN st
  ELSE IF st = "SKIPPED" /\ ~force THEN "UNNECESSARY"
  ELSE "UNEXECUTED"

ReopenedAsSuccessors(v) == Successors(v) \cap CompletedSteps   \* mutant: one level only
Reopened(v) == Closure(v, CompletedSteps \ {v})

ReadyAgainNever(v, reset) == FALSE   \* mutant: the vertex waits for a predecessor to run
ReadyAgain(v, reset) == \A u \in Predecessors(v) : reset[u] \in Completed

(* DeExecute: the vertex is to be done again, and with it everything that  *)
(* was done after it; only the vertex itself can be ready at once.         *)
DeExecute(v) ==
  LET reset == [status EXCEPT ![v] = Undone(@, TRUE)]
  IN /\ status' = [w \in Vertex |-> IF w \in Reopened(v) THEN Undone(status[w], FALSE) ELSE reset[w]]
     /\ possibly_ready' = IF ReadyAgain(v, reset)
                          THEN possibly_ready \cup Entries({v}, reset)
                          ELSE possibly_ready

Invalidate(t) ==
  /\ pc = "invalidate" /\ t \in invalidated
  /\ status[t] # "NONEXISTENT" /\ IsReachable(t, next)
  /\ edges' = edges \cup {<<"DEPENDENCE_FEEDBACK", next, t>>}
  /\ DeExecute(t)
  /\ invalidated' = invalidated \ {t}
  /\ UNCHANGED <<stack, pc, next, pre_dependence, pre_precedence, invalidations, needs>>

(* "Missing vertex" and "Invalidating ... which is not before the current one". *)
InvalidateWrongly(t) ==
  /\ pc = "invalidate" /\ t \in invalidated
  /\ status[t] = "NONEXISTENT" \/ ~IsReachable(t, next)
  /\ pc' = "wrong invalidation"
  /\ UNCHANGED <<graphVars, possibly_ready, stack, loopVars>>

WokenIfNecessary(v) == {w \in Successors(v) : status[w] = "UNEXECUTED" /\ Ready(w)}   \* mutant
Woken(v) == {w \in Successors(v) : status[w] \in Pending /\ Ready(w)}

Unhooked == edges \ ({"AUX"} \X {u \in Vertex : Successors(u) # {Exit}} \X {Exit})

(* The end of an iteration: the successors that have become ready are      *)
(* inserted, and vertices with another successor are unhooked from Exit.   *)
EndIteration ==
  /\ pc = "invalidate" /\ invalidated = {}
  /\ possibly_ready' = possibly_ready \cup Entries(Woken(next), status)
  /\ edges' = Unhooked
  /\ pc' = "loop" /\ next' = Entry
  /\ pre_dependence' = {} /\ pre_precedence' = {}
  /\ UNCHANGED <<status, stack, invalidated, invalidations, needs>>

(* The loop is over: the flow has ended only if Exit was reached. *)
EndExec ==
  /\ pc = "loop" /\ possibly_ready = {}
  /\ pc' = IF status[Exit] = "EMPTY" THEN "ended" ELSE "did not end"
  /\ UNCHANGED <<graphVars, possibly_ready, stack, loopVars>>

Stopped == {"ended", "did not end", "already skipped", "wrong invalidation"}
Stop == pc \in Stopped /\ UNCHANGED vars

Init ==
  /\ status = [v \in Vertex |-> CASE v = Entry -> "EMPTY" [] v = Exit -> "UNEXECUTED" [] OTHER -> "NONEXISTENT"]
  /\ edges = {}
  /\ possibly_ready = {}
  /\ stack = <<>>
  /\ pc = "main"
  /\ next = Entry
  /\ pre_dependence = {} /\ pre_precedence = {} /\ invalidated = {}
  /\ invalidations = 0
  /\ needs = [s \in Vertex |-> {}]

Next ==
  \/ pc \notin Stopped /\ RecursivelyAddSteps
  \/ \E S \in SUBSET Requested : AddSteps(S)
  \/ Exec
  \/ \E e \in possibly_ready : Consider(e)
  \/ RecomputePrecedences
  \/ NotReady
  \/ Run
  \/ \E t \in Step : Invalidate(t) \/ InvalidateWrongly(t)
  \/ EndIteration
  \/ EndExec
  \/ Stop

Spec == Init /\ [][Next]_vars
FairSpec == Spec /\ WF_vars(Next)

-------------------------------------------------------------------------------
(* Properties. *)

(* An invocation of RecursivelyAddSteps: it names a step only while it is  *)
(* adding what that step asked for.                                        *)
Frame ==
  {f \in [todo : SUBSET Step, unnecessary : BOOLEAN, step : Step \cup {Entry},
          phase : {"visit", "dependences", "precedences"}, relationships : SUBSET Step] :
     f.step \in Step <=> f.phase # "visit"}

(* Type invariant: every field of the manager holds a value of its C++     *)
(* type.                                                                   *)
TypeOK ==
  /\ status \in [Vertex -> Status]
  /\ edges \in SUBSET (Selector \X Vertex \X Vertex)
  /\ possibly_ready \in SUBSET [step : Vertex, unnecessary : BOOLEAN]
  /\ stack \in Seq(Frame)
  /\ pc \in {"main", "loop", "recompute dependences", "recompute precedences", "invalidate"} \cup Stopped
  /\ next \in Vertex
  /\ pre_dependence \in SUBSET Step
  /\ pre_precedence \in SUBSET Step
  /\ invalidated \in SUBSET Step
  /\ invalidations \in 0..MaxInvalidations
  /\ needs \in [Vertex -> SUBSET Step]

(* The comparator of possibly_ready reads a status that changes while the  *)
(* vertex is in the set.  The set stays a set (find and erase see what is  *)
(* there) because no element's key ever differs from the one it was        *)
(* inserted with, and because nothing completed is left in it: the erase   *)
(* and insert around the switch to necessary, and the order of the         *)
(* assignments of Exec and DeExecute, are what keeps it so.                *)
KeysFresh ==
  \A e \in possibly_ready :
    status[e.step] \in Pending /\ e.unnecessary = Unnecessary(status[e.step])

(* Between two iterations, a step that is to be done and whose             *)
(* predecessors are all done is in possibly_ready: a step which Exec       *)
(* dropped as not ready, or DeExecute reopened, is always found again.     *)
BetweenIterations == pc \in {"loop", "ended", "did not end"}
NoReadyStepLost ==
  BetweenIterations =>
    \A s \in Step : status[s] \in Pending /\ Ready(s) => Entries({s}, status) \subseteq possibly_ready

(* Precedences and skipped steps cost nothing: a step is executed only if  *)
(* main requested it, a necessary step depends on it, or it was            *)
(* invalidated.                                                            *)
Necessary(st) == st \in (Completed \ {"SKIPPED"}) \cup {"UNEXECUTED"}
OnlyNeededIsExecuted ==
  BetweenIterations =>
    \A s \in Step : Necessary(status[s]) =>
      \/ s \in Requested
      \/ \E v \in Step : <<"DEPENDENCE", s, v>> \in edges /\ Necessary(status[v])
      \/ \E v \in Vertex : <<"DEPENDENCE_FEEDBACK", v, s>> \in edges

(* The graph has no cycle: every nonempty set of vertices has one with no  *)
(* predecessor in the set.                                                 *)
Acyclic ==
  \A X \in SUBSET Vertex : X # {} => \E v \in X : Predecessors(v) \cap X = {}

(* Every step always asks for the same steps. *)
Steady ==
  \A s \in Step :
    /\ \A A, B \in Dependence[s] : A = B
    /\ \A A, B \in Precedence[s] : A = B

(* When the loop runs out of ready steps, no step is left to be done,      *)
(* unless the steps' answers drew a cycle; and Exit has been executed, if  *)
(* the answers do not change: the edges into Exit, drawn and removed one   *)
(* vertex at a time, neither end the flow early nor keep it from ending.   *)
(* Answers that change can: EndIteration wakes the successors before it    *)
(* unhooks vertices from Exit, so an Exit that waited only for what is     *)
(* then unhooked is not woken.                                             *)
NothingLeftUndone ==
  pc \in {"ended", "did not end"} /\ Acyclic =>
    /\ \A s \in Step : status[s] \notin Pending
    /\ Steady => pc = "ended"

(* No result outlives what it was built on: DeExecute, which walks the     *)
(* graph through completed vertices only, reaches every completed vertex   *)
(* that asked for a step it reopened.                                      *)
ResultsStand ==
  \A s \in Vertex : status[s] \in Completed => needs[s] \subseteq CompletedSteps

(* "Source must be executed to satisfy target": a step that is executed    *)
(* never rests on a dependence that was skipped, although one that is not  *)
(* needed yet may be skipped long before somebody asks for it.  A build    *)
(* without assertions breaks it when an invalidated step had been skipped. *)
DependencesExecuted ==
  [][Run /\ status'[next] # "SKIPPED" => \A u \in pre_dependence : status[u] # "SKIPPED"]_vars

(* StepOrdering is what the manager promises. *)
Known == {s \in Step : status[s] # "NONEXISTENT"}
Done == {s \in Step : status[s] \in Completed}
Needs == [s \in Step |-> needs[s]]
Ordering == INSTANCE StepOrdering WITH known <- Known, done <- Done, needs <- Needs
RefinesStepOrdering == Ordering!Spec

(* Exec ends: a bounded number of invalidations leaves a bounded number of *)
(* iterations, whatever the steps answer.                                  *)
ExecEnds == <>(pc \in Stopped)

(* A step that is to be executed is executed, unless the answers of the    *)
(* steps make Exec throw.                                                  *)
NecessaryIsExecuted ==
  \A s \in Step :
    status[s] = "UNEXECUTED" ~> (status[s] \in Completed \/ pc \in {"already skipped", "wrong invalidation"})

(* INVALIDATION_RELATIONSHIP: "Target must be reexecuted"                  *)
(* (design_flow_step.hpp).                                                 *)
InvalidatedIsReexecuted ==
  [][\A t \in Step : Invalidate(t) => status'[t] = "UNEXECUTED"]_vars
===============================================================================
