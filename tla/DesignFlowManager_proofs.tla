------------------------ MODULE DesignFlowManager_proofs ------------------------
(* What holds of the design flow manager for every set of steps and        *)
(* whatever they answer.                                                   *)
EXTENDS DesignFlowManager, SequenceTheorems, TLAPS

-------------------------------------------------------------------------------
(* The shapes RecursivelyAddSteps gives to its stack. *)

(* Cutting a sequence short and putting f where its new end is. *)
LEMMA Cut ==
  ASSUME NEW S, NEW s \in Seq(S), NEW k \in 1..Len(s), NEW f \in S
  PROVE  Append(SubSeq(s, 1, k - 1), f) \in Seq(S)
<1>1. PICK n \in Nat : n = Len(s)
  BY LenProperties
<1>2. k \in 1..n
  BY <1>1
<1>3. \A i \in 1..k - 1 : i \in 1..Len(s)
  BY <1>1, <1>2
<1>4. \A i \in 1..k - 1 : s[i] \in S
  BY <1>3, ElementOfSeq
<1>5. 1 \in Int /\ k - 1 \in Int
  BY <1>2
<1>6. SubSeq(s, 1, k - 1) \in Seq(S)
  BY <1>4, <1>5, SubSeqProperties
<1>7. QED
  BY <1>6, AppendProperties

(* Replacing the top frame. *)
LEMMA ReplaceTop ==
  ASSUME NEW S, NEW s \in Seq(S), s # <<>>, NEW f \in S
  PROVE  /\ s[Len(s)] \in S
         /\ Append(SubSeq(s, 1, Len(s) - 1), f) \in Seq(S)
<1>1. Len(s) \in Nat \ {0}
  BY EmptySeq
<1>2. PICK n \in Nat \ {0} : n = Len(s)
  BY <1>1
<1>3. n \in 1..Len(s)
  BY <1>2
<1>4. s[n] \in S /\ Append(SubSeq(s, 1, n - 1), f) \in Seq(S)
  BY <1>3, ElementOfSeq, Cut
<1>5. QED
  BY <1>2, <1>4

(* Dropping the top frame and replacing the one below it. *)
LEMMA ReplaceCaller ==
  ASSUME NEW S, NEW s \in Seq(S), Len(s) > 1, NEW f \in S
  PROVE  /\ s[Len(s) - 1] \in S
         /\ Append(SubSeq(s, 1, Len(s) - 2), f) \in Seq(S)
<1>1. PICK n \in Nat : n = Len(s)
  BY LenProperties
<1>2. n > 1 /\ n - 1 \in 1..n /\ (n - 1) - 1 = n - 2
  BY <1>1
<1>3. n - 1 \in 1..Len(s)
  BY <1>1, <1>2
<1>4. s[n - 1] \in S /\ Append(SubSeq(s, 1, (n - 1) - 1), f) \in Seq(S)
  BY <1>3, ElementOfSeq, Cut
<1>5. QED
  BY <1>1, <1>2, <1>4

(* An invocation of its own. *)
LEMMA Singleton ==
  ASSUME NEW S, NEW f \in S
  PROVE  <<f>> \in Seq(S)
OBVIOUS

(* The frames the actions read and write. *)
LEMMA TopIsFrame ==
  ASSUME stack \in Seq(Frame), ~Returned
  PROVE  /\ top \in Frame
         /\ \A f \in Frame : WithTop(f) \in Seq(Frame)
BY ReplaceTop DEF Returned, top, WithTop, below

LEMMA CallerIsFrame ==
  ASSUME stack \in Seq(Frame), Len(stack) > 1
  PROVE  stack[Len(stack) - 1] \in Frame
<1>1. PICK n \in Nat : n = Len(stack)
  BY LenProperties
<1>2. n - 1 \in 1..Len(stack)
  BY <1>1
<1>3. QED
  BY <1>1, <1>2, ElementOfSeq

LEMMA CallIsFrame ==
  ASSUME NEW T \in SUBSET Step, NEW u \in BOOLEAN
  PROVE  /\ Call(T, u) \in Frame
         /\ <<Call(T, u)>> \in Seq(Frame)
<1>1. Call(T, u) \in Frame
  BY VertexAssumption DEF Call, Frame
<1>2. QED
  BY <1>1

(* What a step or an auxiliary vertex answers is a set of steps. *)
LEMMA AnswersAreSteps ==
  ASSUME NEW v \in Vertex
  PROVE  /\ Answers(Dependence, v) \subseteq SUBSET Step
         /\ Answers(Precedence, v) \subseteq SUBSET Step
         /\ Answers(Invalidation, v) \subseteq SUBSET Step
BY AnswerAssumption DEF Answers

LEMMA EntriesType ==
  ASSUME NEW S \in SUBSET Vertex, NEW stat
  PROVE  Entries(S, stat) \subseteq [step : Vertex, unnecessary : BOOLEAN]
<1>1. \A st : Unnecessary(st) \in BOOLEAN
  BY DEF Unnecessary
<1>2. SUFFICES ASSUME NEW e \in Entries(S, stat)
               PROVE  e \in [step : Vertex, unnecessary : BOOLEAN]
  OBVIOUS
<1>3. PICK v \in S : e = [step |-> v, unnecessary |-> Unnecessary(stat[v])]
  BY <1>2 DEF Entries
<1>4. QED
  BY <1>1, <1>3

-------------------------------------------------------------------------------
(* Type correctness. *)

LEMMA InitTypeOK == Init => TypeOK
<1> SUFFICES ASSUME Init PROVE TypeOK
  OBVIOUS
<1>1. status \in [Vertex -> Status]
  BY DEF Init, Status, Completed, Pending
<1>2. 0 \in 0..MaxInvalidations
  BY AnswerAssumption
<1>3. Entry \in Vertex
  BY DEF Vertex
<1>4. <<>> \in Seq(Frame)
  BY EmptySeq
<1>5. QED
  BY <1>1, <1>2, <1>3, <1>4 DEF Init, TypeOK

(* The steps of RecursivelyAddSteps. *)
LEMMA VisitKnownTypeOK ==
  ASSUME TypeOK, NEW s \in Step, VisitKnown(s)
  PROVE  TypeOK'
<1>1. top \in Frame
  BY TopIsFrame DEF TypeOK, VisitKnown
<1>2. [top EXCEPT !.todo = @ \ {s}] \in Frame
  BY <1>1 DEF Frame
<1>3. stack' \in Seq(Frame)
  BY <1>2, TopIsFrame DEF TypeOK, VisitKnown
<1>4. QED
  BY <1>3 DEF TypeOK, VisitKnown, graphVars, loopVars

LEMMA VisitStepTypeOK ==
  ASSUME TypeOK, NEW s \in Step, VisitStep(s)
  PROVE  TypeOK'
<1>1. top \in Frame
  BY TopIsFrame DEF TypeOK, VisitStep
<1>2. PICK answer \in Dependence[s] :
        stack' = Append(WithTop([top EXCEPT !.todo = @ \ {s}, !.step = s, !.phase = "dependences",
                                            !.relationships = answer]),
                        Call(answer, top.unnecessary))
  BY DEF VisitStep
<1>3. answer \in SUBSET Step
  BY AnswerAssumption
<1>4. top.unnecessary \in BOOLEAN
  BY <1>1 DEF Frame
<1>5. [top EXCEPT !.todo = @ \ {s}, !.step = s, !.phase = "dependences", !.relationships = answer] \in Frame
  BY <1>1, <1>3 DEF Frame
<1>6. stack' \in Seq(Frame)
  <2>1. WithTop([top EXCEPT !.todo = @ \ {s}, !.step = s, !.phase = "dependences",
                            !.relationships = answer]) \in Seq(Frame)
    BY <1>5, TopIsFrame DEF TypeOK, VisitStep
  <2>2. Call(answer, top.unnecessary) \in Frame
    BY <1>3, <1>4, CallIsFrame
  <2>3. QED
    BY <1>2, <2>1, <2>2, AppendProperties
<1>7. status' \in [Vertex -> Status]
  BY DEF VisitStep, TypeOK, Status, Pending
<1>8. possibly_ready' \in SUBSET [step : Vertex, unnecessary : BOOLEAN]
  <2>1. {s} \in SUBSET Vertex
    BY DEF Vertex
  <2>2. Rekeyed(s, status') \subseteq possibly_ready \cup Entries({s}, status')
    BY DEF Rekeyed, Erased
  <2>3. QED
    BY <2>1, <2>2, EntriesType DEF VisitStep, TypeOK
<1>9. QED
  BY <1>6, <1>7, <1>8 DEF TypeOK, VisitStep, loopVars

LEMMA LinkDependencesTypeOK ==
  ASSUME TypeOK, LinkDependences
  PROVE  TypeOK'
<1> DEFINE caller == stack[Len(stack) - 1]
<1>1. caller \in Frame /\ caller.phase = "dependences"
  BY CallerIsFrame DEF TypeOK, LinkDependences, Resumable
<1>2. caller.step \in Step /\ caller.relationships \in SUBSET Step
  BY <1>1 DEF Frame
<1>3. PICK answer \in Precedence[caller.step] :
        stack' = Append(Append(SubSeq(stack, 1, Len(stack) - 2),
                               [caller EXCEPT !.phase = "precedences", !.relationships = answer]),
                        Call(answer, TRUE))
  BY DEF LinkDependences
<1>4. answer \in SUBSET Step
  BY <1>2, AnswerAssumption
<1>5. [caller EXCEPT !.phase = "precedences", !.relationships = answer] \in Frame
  BY <1>1, <1>2, <1>4 DEF Frame
<1>6. stack' \in Seq(Frame)
  <2>1. Append(SubSeq(stack, 1, Len(stack) - 2),
               [caller EXCEPT !.phase = "precedences", !.relationships = answer]) \in Seq(Frame)
    BY <1>5, ReplaceCaller DEF TypeOK, LinkDependences, Resumable
  <2>2. Call(answer, TRUE) \in Frame
    BY <1>4, CallIsFrame
  <2>3. QED
    BY <1>3, <2>1, <2>2, AppendProperties
<1>7. edges' \in SUBSET (Selector \X Vertex \X Vertex)
  <2>1. {"DEPENDENCE"} \X caller.relationships \X {caller.step} \subseteq Selector \X Vertex \X Vertex
    BY <1>2 DEF Selector, Vertex
  <2>2. QED
    BY <2>1 DEF LinkDependences, TypeOK
<1>8. QED
  BY <1>6, <1>7 DEF TypeOK, LinkDependences, loopVars

LEMMA LinkPrecedencesTypeOK ==
  ASSUME TypeOK, LinkPrecedences
  PROVE  TypeOK'
<1> DEFINE caller == stack[Len(stack) - 1]
           drawn == edges \cup ({"PRECEDENCE"} \X caller.relationships \X {caller.step})
<1>1. caller \in Frame /\ caller.phase = "precedences"
  BY CallerIsFrame DEF TypeOK, LinkPrecedences, Resumable
<1>2. caller.step \in Step /\ caller.relationships \in SUBSET Step
  BY <1>1 DEF Frame
<1>3. [caller EXCEPT !.step = Entry, !.phase = "visit", !.relationships = {}] \in Frame
  BY <1>1, VertexAssumption DEF Frame
<1>4. stack' \in Seq(Frame)
  <2>1. Append(SubSeq(stack, 1, Len(stack) - 2),
               [caller EXCEPT !.step = Entry, !.phase = "visit", !.relationships = {}]) \in Seq(Frame)
    BY <1>3, ReplaceCaller DEF TypeOK, LinkPrecedences, Resumable
  <2>2. QED
    BY <2>1 DEF LinkPrecedences
<1>5. edges' \in SUBSET (Selector \X Vertex \X Vertex)
  <2>1. drawn \in SUBSET (Selector \X Vertex \X Vertex)
    BY <1>2 DEF TypeOK, Selector, Vertex
  <2>2. <<"AUX", Entry, caller.step>> \in Selector \X Vertex \X Vertex
    BY <1>2 DEF Selector, Vertex
  <2>3. <<"AUX", caller.step, Exit>> \in Selector \X Vertex \X Vertex
    BY <1>2 DEF Selector, Vertex
  <2>4. HookUp(drawn, caller.step) \in SUBSET (Selector \X Vertex \X Vertex)
    BY <2>1, <2>2, <2>3 DEF HookUp
  <2>5. edges' = HookUp(drawn, caller.step)
    BY DEF LinkPrecedences
  <2>6. QED
    BY <2>4, <2>5
<1>6. possibly_ready' \in SUBSET [step : Vertex, unnecessary : BOOLEAN]
  <2>1. {caller.step} \in SUBSET Vertex
    BY <1>2 DEF Vertex
  <2>2. possibly_ready' \subseteq possibly_ready \cup Entries({caller.step}, status)
    BY DEF LinkPrecedences
  <2>3. QED
    BY <2>1, <2>2, EntriesType DEF TypeOK
<1>7. QED
  BY <1>4, <1>5, <1>6 DEF TypeOK, LinkPrecedences, loopVars

(* The steps of the loop. *)
LEMMA ConsiderTypeOK ==
  ASSUME TypeOK, NEW e \in possibly_ready, Consider(e)
  PROVE  TypeOK'
<1>1. e.step \in Vertex
  BY DEF TypeOK
<1>2. pre_dependence' \in SUBSET Step
  BY <1>1, AnswersAreSteps DEF Consider
<1>3. stack' \in Seq(Frame)
  <2>1. NotNeeded(e.step) \in BOOLEAN
    BY DEF NotNeeded
  <2>2. QED
    BY <1>2, <2>1, CallIsFrame DEF Consider
<1>4. possibly_ready' \in SUBSET [step : Vertex, unnecessary : BOOLEAN]
  BY DEF Consider, Erased, TypeOK
<1>5. QED
  BY <1>1, <1>2, <1>3, <1>4 DEF TypeOK, Consider, graphVars

LEMMA RecomputePrecedencesTypeOK ==
  ASSUME TypeOK, RecomputePrecedences
  PROVE  TypeOK'
<1>1. pre_precedence' \in SUBSET Step
  BY AnswersAreSteps DEF RecomputePrecedences, TypeOK
<1>2. stack' \in Seq(Frame)
  BY <1>1, CallIsFrame DEF RecomputePrecedences
<1>3. QED
  BY <1>1, <1>2 DEF TypeOK, RecomputePrecedences, graphVars

LEMMA LinkNextType ==
  ASSUME TypeOK, LinkNext
  PROVE  edges' \in SUBSET (Selector \X Vertex \X Vertex)
<1>1. {"DEPENDENCE"} \X pre_dependence \X {next} \subseteq Selector \X Vertex \X Vertex
  BY DEF TypeOK, Selector, Vertex
<1>2. {"PRECEDENCE"} \X pre_precedence \X {next} \subseteq Selector \X Vertex \X Vertex
  BY DEF TypeOK, Selector, Vertex
<1>3. QED
  BY <1>1, <1>2 DEF TypeOK, LinkNext

LEMMA RunTypeOK ==
  ASSUME TypeOK, Run
  PROVE  TypeOK'
<1>1. edges' \in SUBSET (Selector \X Vertex \X Vertex)
  BY LinkNextType DEF Run
<1>2. status' \in [Vertex -> Status]
  <2>1. Outcome(next) \subseteq Status
    BY AnswerAssumption DEF Outcome, Status, Completed
  <2>2. QED
    BY <2>1 DEF Run, TypeOK
<1>3. invalidated' \in SUBSET Step
  BY AnswersAreSteps DEF Run, TypeOK
<1>4. invalidations' \in 0..MaxInvalidations
  <2>1. invalidations' = invalidations \/ invalidations' = invalidations + 1
    BY DEF Run
  <2>2. invalidations' <= MaxInvalidations
    BY DEF Run
  <2>3. MaxInvalidations \in Nat /\ invalidations \in 0..MaxInvalidations
    BY AnswerAssumption DEF TypeOK
  <2>4. QED
    BY <2>1, <2>2, <2>3
<1>5. needs' \in [Vertex -> SUBSET Step]
  BY DEF Run, TypeOK, Asked
<1>6. QED
  BY <1>1, <1>2, <1>3, <1>4, <1>5 DEF TypeOK, Run

(* What DeExecute does to the statuses. *)
LEMMA UndoneType ==
  ASSUME NEW st \in Status, NEW force
  PROVE  Undone(st, force) \in Status
BY DEF Undone, Status, Pending

LEMMA InvalidateTypeOK ==
  ASSUME TypeOK, NEW t \in Step, Invalidate(t)
  PROVE  TypeOK'
<1> DEFINE reset == [status EXCEPT ![t] = Undone(@, TRUE)]
<1>1. t \in Vertex
  BY DEF Vertex
<1>2. reset \in [Vertex -> Status]
  BY <1>1, UndoneType DEF TypeOK
<1>3. status' \in [Vertex -> Status]
  <2>1. status' = [w \in Vertex |-> IF w \in Reopened(t) THEN Undone(status[w], FALSE) ELSE reset[w]]
    BY DEF Invalidate, DeExecute
  <2> HIDE DEF reset
  <2>2. QED
    BY <1>2, <2>1, UndoneType DEF TypeOK
<1>4. possibly_ready' \in SUBSET [step : Vertex, unnecessary : BOOLEAN]
  <2>1. possibly_ready' \subseteq possibly_ready \cup Entries({t}, reset)
    BY DEF Invalidate, DeExecute
  <2>2. QED
    BY <1>1, <2>1, EntriesType DEF TypeOK
<1>5. edges' \in SUBSET (Selector \X Vertex \X Vertex)
  BY <1>1 DEF Invalidate, TypeOK, Selector
<1>6. QED
  BY <1>3, <1>4, <1>5 DEF TypeOK, Invalidate

LEMMA EndIterationTypeOK ==
  ASSUME TypeOK, EndIteration
  PROVE  TypeOK'
<1>1. possibly_ready' \in SUBSET [step : Vertex, unnecessary : BOOLEAN]
  <2>1. Woken(next) \in SUBSET Vertex
    BY DEF Woken, Successors, TargetsIn
  <2>2. QED
    BY <2>1, EntriesType DEF EndIteration, TypeOK
<1>2. edges' \in SUBSET (Selector \X Vertex \X Vertex)
  BY DEF EndIteration, Unhooked, TypeOK
<1>3. Entry \in Vertex
  BY DEF Vertex
<1>4. QED
  BY <1>1, <1>2, <1>3 DEF TypeOK, EndIteration

LEMMA NextTypeOK == TypeOK /\ [Next]_vars => TypeOK'
<1> SUFFICES ASSUME TypeOK, [Next]_vars
             PROVE  TypeOK'
  OBVIOUS
<1>1. CASE RecursivelyAddSteps
  <2>1. ASSUME NEW s \in Step, VisitKnown(s)
        PROVE  TypeOK'
    BY <2>1, VisitKnownTypeOK
  <2>2. ASSUME NEW s \in Step, VisitSkipped(s)
        PROVE  TypeOK'
    BY <2>2 DEF VisitSkipped, TypeOK, Stopped, graphVars, loopVars
  <2>3. ASSUME NEW s \in Step, VisitStep(s)
        PROVE  TypeOK'
    BY <2>3, VisitStepTypeOK
  <2>4. CASE LinkDependences
    BY <2>4, LinkDependencesTypeOK
  <2>5. CASE LinkPrecedences
    BY <2>5, LinkPrecedencesTypeOK
  <2>6. CASE ReturnFromAdd
    BY <2>6, EmptySeq DEF ReturnFromAdd, TypeOK, graphVars, loopVars
  <2>7. QED
    BY <1>1, <2>1, <2>2, <2>3, <2>4, <2>5, <2>6 DEF RecursivelyAddSteps
<1>2. ASSUME NEW S \in SUBSET Requested, AddSteps(S)
      PROVE  TypeOK'
  <2>1. <<Call(S, FALSE)>> \in Seq(Frame)
    BY CallIsFrame, AnswerAssumption
  <2>2. QED
    BY <1>2, <2>1 DEF AddSteps, TypeOK, graphVars, loopVars
<1>3. CASE Exec
  BY <1>3 DEF Exec, TypeOK, graphVars, loopVars
<1>4. ASSUME NEW e \in possibly_ready, Consider(e)
      PROVE  TypeOK'
  BY <1>4, ConsiderTypeOK
<1>5. CASE RecomputePrecedences
  BY <1>5, RecomputePrecedencesTypeOK
<1>6. CASE NotReady
  <2>1. Entry \in Vertex
    BY DEF Vertex
  <2>2. QED
    BY <1>6, <2>1, LinkNextType DEF NotReady, TypeOK
<1>7. CASE Run
  BY <1>7, RunTypeOK
<1>8. ASSUME NEW t \in Step, Invalidate(t)
      PROVE  TypeOK'
  BY <1>8, InvalidateTypeOK
<1>9. ASSUME NEW t \in Step, InvalidateWrongly(t)
      PROVE  TypeOK'
  BY <1>9 DEF InvalidateWrongly, TypeOK, Stopped, graphVars, loopVars
<1>10. CASE EndIteration
  BY <1>10, EndIterationTypeOK
<1>11. CASE EndExec
  BY <1>11 DEF EndExec, TypeOK, Stopped, graphVars, loopVars
<1>12. CASE UNCHANGED vars
  BY <1>12 DEF vars, TypeOK, graphVars, loopVars
<1>13. QED
  BY <1>1, <1>2, <1>3, <1>4, <1>5, <1>6, <1>7, <1>8, <1>9, <1>10, <1>11, <1>12 DEF Next, Stop

(* The manager's state is always well formed, whatever the steps answer.   *)
THEOREM TypeCorrect == Spec => []TypeOK
BY InitTypeOK, NextTypeOK, PTL DEF Spec

-------------------------------------------------------------------------------
(* possibly_ready stays a set ordered by what its comparator reads.  The   *)
(* inductive invariant adds that the steps being added, and the step being *)
(* considered, are pending, that the latter is in neither possibly_ready   *)
(* nor the stack, and that it cannot become necessary while its own        *)
(* dependences are added as unnecessary.                                   *)

Recomputing == pc \in {"recompute dependences", "recompute precedences"}

GoodFrame ==
  {f \in Frame :
     /\ f.step \in Step => /\ status[f.step] \in Pending
                           /\ Recomputing => f.step # next
     /\ Recomputing /\ status[next] = "UNNECESSARY" => f.unnecessary}

KeysInv ==
  /\ TypeOK
  /\ KeysFresh
  /\ stack \in Seq(GoodFrame)
  /\ Recomputing => status[next] \in Pending /\ \A e \in possibly_ready : e.step # next

(* A call is a good frame when it is as needless as the step considered.   *)
LEMMA CallIsGood ==
  ASSUME NEW T \in SUBSET Step, NEW u \in BOOLEAN,
         Recomputing /\ status[next] = "UNNECESSARY" => u
  PROVE  Call(T, u) \in GoodFrame
<1>1. Call(T, u) \in Frame
  BY CallIsFrame
<1>2. Call(T, u).step = Entry /\ Call(T, u).unnecessary = u
  BY DEF Call
<1>3. QED
  BY <1>1, <1>2, VertexAssumption DEF GoodFrame

LEMMA CallerIsGood ==
  ASSUME stack \in Seq(GoodFrame), Len(stack) > 1
  PROVE  stack[Len(stack) - 1] \in GoodFrame
<1>1. PICK n \in Nat : n = Len(stack)
  BY LenProperties
<1>2. n - 1 \in 1..Len(stack)
  BY <1>1
<1>3. QED
  BY <1>1, <1>2, ElementOfSeq

(* Fresh keys make find and erase find what is there. *)
LEMMA ErasedIsErased ==
  ASSUME TypeOK, KeysFresh, NEW v
  PROVE  \A e \in Erased(v) : e \in possibly_ready /\ e.step # v
<1> SUFFICES ASSUME NEW e \in Erased(v)
             PROVE  e \in possibly_ready /\ e.step # v
  OBVIOUS
<1>1. e \in possibly_ready /\ e \in [step : Vertex, unnecessary : BOOLEAN]
  BY DEF Erased, TypeOK
<1>2. e = [step |-> e.step, unnecessary |-> Unnecessary(status[e.step])]
  BY <1>1 DEF KeysFresh
<1>3. e \notin Entries({v}, status)
  BY DEF Erased
<1>4. e.step # v
  BY <1>2, <1>3 DEF Entries
<1>5. QED
  BY <1>1, <1>4

(* Entries made with the current statuses of pending vertices are fresh.   *)
LEMMA EntriesAreFresh ==
  ASSUME NEW S, NEW stat, NEW e \in Entries(S, stat)
  PROVE  e.step \in S /\ e.unnecessary = Unnecessary(stat[e.step])
BY DEF Entries

LEMMA VisitStepKeys ==
  ASSUME KeysInv, TypeOK', NEW s \in Step, VisitStep(s)
  PROVE  KeysInv'
<1>1. top \in GoodFrame /\ \A f \in GoodFrame : WithTop(f) \in Seq(GoodFrame)
  BY ReplaceTop DEF KeysInv, VisitStep, Returned, top, WithTop, below
<1>2. top \in Frame /\ s \in Vertex /\ status \in [Vertex -> Status]
  BY <1>1 DEF GoodFrame, Vertex, KeysInv, TypeOK
<1>3. status[s] \in {"NONEXISTENT", "UNNECESSARY"} /\ status'[s] \in Pending
  BY <1>2 DEF VisitStep, Pending
<1>4. \A v \in Vertex \ {s} : status'[v] = status[v]
  BY <1>2 DEF VisitStep
<1>5. Recomputing => s # next
  BY <1>1, <1>3 DEF KeysInv, GoodFrame, VisitStep, Pending
<1>6. pc' = pc /\ next' = next /\ (Recomputing' <=> Recomputing)
  BY DEF VisitStep, loopVars, Recomputing
<1>7. Recomputing => next \in Vertex /\ status'[next] = status[next]
  BY <1>4, <1>5 DEF KeysInv, TypeOK
<1>8. GoodFrame \subseteq GoodFrame'
  <2>1. \A v \in Vertex : status[v] \in Pending => status'[v] \in Pending
    BY <1>3, <1>4
  <2>2. \A f \in Frame : f.step \in Step => f.step \in Vertex
    BY DEF Vertex
  <2>3. QED
    BY <1>6, <1>7, <2>1, <2>2 DEF GoodFrame
<1>9. stack' \in Seq(GoodFrame')
  <2>1. PICK answer \in Dependence[s] :
          stack' = Append(WithTop([top EXCEPT !.todo = @ \ {s}, !.step = s, !.phase = "dependences",
                                              !.relationships = answer]),
                          Call(answer, top.unnecessary))
    BY DEF VisitStep
  <2>2. answer \in SUBSET Step /\ top.unnecessary \in BOOLEAN
    BY <1>2, AnswerAssumption DEF Frame
  <2> DEFINE called == [top EXCEPT !.todo = @ \ {s}, !.step = s, !.phase = "dependences",
                                   !.relationships = answer]
  <2>3. called \in Frame /\ called.step = s /\ called.unnecessary = top.unnecessary
    BY <1>2, <2>2 DEF Frame
  <2>4. Recomputing /\ status[next] = "UNNECESSARY" => top.unnecessary
    BY <1>1 DEF GoodFrame
  <2>5. called \in GoodFrame'
    BY <1>3, <1>5, <1>6, <1>7, <2>3, <2>4 DEF GoodFrame
  <2>6. Call(answer, top.unnecessary) \in GoodFrame
    BY <2>2, <2>4, CallIsGood
  <2>7. stack \in Seq(GoodFrame')
    BY <1>8, SeqMonotonic DEF KeysInv
  <2>8. WithTop(called) \in Seq(GoodFrame')
    BY <2>5, <2>7, ReplaceTop DEF VisitStep, Returned, WithTop, below
  <2>9. QED
    BY <1>8, <2>1, <2>6, <2>8, AppendProperties
<1>10. KeysFresh' /\ \A e \in possibly_ready' : e.step = s \/ e \in possibly_ready
  <2>1. \A e \in possibly_ready : e.step # s => status'[e.step] \in Pending /\ e.unnecessary = Unnecessary(status'[e.step])
    BY <1>4 DEF KeysInv, TypeOK, KeysFresh
  <2>2. CASE status[s] = "NONEXISTENT"
    <3>1. possibly_ready' = possibly_ready
      BY <2>2 DEF VisitStep
    <3>2. \A e \in possibly_ready : e.step # s
      BY <2>2 DEF KeysInv, KeysFresh, Pending
    <3>3. QED
      BY <2>1, <3>1, <3>2 DEF KeysFresh
  <2>3. CASE status[s] = "UNNECESSARY"
    <3>1. possibly_ready' = Rekeyed(s, status')
      BY <2>3 DEF VisitStep
    <3>2. CASE Entries({s}, status) \subseteq possibly_ready
      <4>1. possibly_ready' = Erased(s) \cup Entries({s}, status')
        BY <3>1, <3>2 DEF Rekeyed
      <4>2. \A e \in Erased(s) : e \in possibly_ready /\ e.step # s
        BY ErasedIsErased DEF KeysInv
      <4>3. \A e \in Entries({s}, status') : e.step = s /\ e.unnecessary = Unnecessary(status'[s])
        BY EntriesAreFresh
      <4>4. QED
        BY <1>3, <2>1, <4>1, <4>2, <4>3 DEF KeysFresh
    <3>3. CASE ~(Entries({s}, status) \subseteq possibly_ready)
      <4>1. possibly_ready' = possibly_ready
        BY <3>1, <3>3 DEF Rekeyed
      <4>2. Erased(s) = possibly_ready
        BY <3>3 DEF Erased, Entries
      <4>3. \A e \in possibly_ready : e.step # s
        BY <4>2, ErasedIsErased DEF KeysInv
      <4>4. QED
        BY <2>1, <4>1, <4>3 DEF KeysFresh
    <3>4. QED
      BY <3>2, <3>3
  <2>4. QED
    BY <1>3, <2>2, <2>3
<1>11. QED
  BY <1>5, <1>6, <1>7, <1>9, <1>10 DEF KeysInv

(* The other steps of RecursivelyAddSteps change no status; a step is      *)
(* inserted by the frame that has just added it, never the one considered. *)
LEMMA LinkDependencesKeys ==
  ASSUME KeysInv, TypeOK', LinkDependences
  PROVE  KeysInv'
<1> DEFINE caller == stack[Len(stack) - 1]
<1>1. caller \in GoodFrame
  BY CallerIsGood DEF KeysInv, LinkDependences, Resumable
<1>2. caller \in Frame /\ caller.phase = "dependences"
  BY <1>1 DEF GoodFrame, LinkDependences, Resumable
<1>3. caller.step \in Step
  BY <1>2 DEF Frame
<1>4. PICK answer \in Precedence[caller.step] :
        stack' = Append(Append(SubSeq(stack, 1, Len(stack) - 2),
                               [caller EXCEPT !.phase = "precedences", !.relationships = answer]),
                        Call(answer, TRUE))
  BY DEF LinkDependences
<1>5. answer \in SUBSET Step
  BY <1>3, AnswerAssumption
<1>6. [caller EXCEPT !.phase = "precedences", !.relationships = answer] \in GoodFrame
  BY <1>1, <1>2, <1>3, <1>5 DEF GoodFrame, Frame
<1>7. Append(SubSeq(stack, 1, Len(stack) - 2),
             [caller EXCEPT !.phase = "precedences", !.relationships = answer]) \in Seq(GoodFrame)
  BY <1>6, ReplaceCaller DEF KeysInv, LinkDependences, Resumable
<1>8. Call(answer, TRUE) \in GoodFrame
  BY <1>5, CallIsGood
<1>9. stack' \in Seq(GoodFrame)
  BY <1>4, <1>7, <1>8, AppendProperties
<1>10. UNCHANGED <<status, possibly_ready, pc, next>>
  BY DEF LinkDependences, loopVars
<1>11. GoodFrame' = GoodFrame /\ (Recomputing' <=> Recomputing)
  BY <1>10 DEF GoodFrame, Recomputing
<1>12. QED
  BY <1>9, <1>10, <1>11 DEF KeysInv, KeysFresh

LEMMA LinkPrecedencesKeys ==
  ASSUME KeysInv, TypeOK', LinkPrecedences
  PROVE  KeysInv'
<1> DEFINE caller == stack[Len(stack) - 1]
<1>1. caller \in GoodFrame
  BY CallerIsGood DEF KeysInv, LinkPrecedences, Resumable
<1>2. caller \in Frame /\ caller.phase = "precedences"
  BY <1>1 DEF GoodFrame, LinkPrecedences, Resumable
<1>3. caller.step \in Step /\ status[caller.step] \in Pending /\ (Recomputing => caller.step # next)
  BY <1>1, <1>2 DEF Frame, GoodFrame
<1>4. [caller EXCEPT !.step = Entry, !.phase = "visit", !.relationships = {}] \in GoodFrame
  <2> DEFINE returned == [caller EXCEPT !.step = Entry, !.phase = "visit", !.relationships = {}]
  <2>1. returned \in Frame /\ returned.step = Entry /\ returned.unnecessary = caller.unnecessary
    BY <1>2, VertexAssumption DEF Frame
  <2>2. QED
    BY <1>1, <2>1, VertexAssumption DEF GoodFrame
<1>5. stack' \in Seq(GoodFrame)
  <2>1. Append(SubSeq(stack, 1, Len(stack) - 2),
               [caller EXCEPT !.step = Entry, !.phase = "visit", !.relationships = {}]) \in Seq(GoodFrame)
    BY <1>4, ReplaceCaller DEF KeysInv, LinkPrecedences, Resumable
  <2>2. QED
    BY <2>1 DEF LinkPrecedences
<1>6. UNCHANGED <<status, pc, next>>
  BY DEF LinkPrecedences, loopVars
<1>7. GoodFrame' = GoodFrame /\ (Recomputing' <=> Recomputing)
  BY <1>6 DEF GoodFrame, Recomputing
<1>8. \A e \in possibly_ready' : e \in possibly_ready \/ e \in Entries({caller.step}, status)
  BY DEF LinkPrecedences
<1>9. \A e \in Entries({caller.step}, status) :
        e.step = caller.step /\ e.unnecessary = Unnecessary(status[caller.step])
  BY EntriesAreFresh
<1>10. KeysFresh'
  BY <1>3, <1>6, <1>8, <1>9 DEF KeysInv, KeysFresh
<1>11. QED
  BY <1>3, <1>5, <1>6, <1>7, <1>8, <1>9, <1>10 DEF KeysInv

(* The loop. *)
LEMMA ConsiderKeys ==
  ASSUME KeysInv, TypeOK', NEW e \in possibly_ready, Consider(e)
  PROVE  KeysInv'
<1>1. \A f \in possibly_ready' : f \in possibly_ready /\ f.step # e.step
  BY ErasedIsErased DEF KeysInv, Consider
<1>2. next' = e.step /\ status' = status /\ status[e.step] \in Pending
  BY DEF Consider, graphVars, KeysInv, KeysFresh
<1>3. KeysFresh'
  BY <1>1, <1>2 DEF KeysInv, KeysFresh
<1>4. Call(pre_dependence', NotNeeded(e.step)) \in GoodFrame'
  <2>1. pre_dependence' \in SUBSET Step /\ NotNeeded(e.step) \in BOOLEAN
    BY DEF TypeOK, NotNeeded
  <2>2. Call(pre_dependence', NotNeeded(e.step)) \in Frame
    BY <2>1, CallIsFrame
  <2>3. /\ Call(pre_dependence', NotNeeded(e.step)).step = Entry
        /\ Call(pre_dependence', NotNeeded(e.step)).unnecessary = NotNeeded(e.step)
    BY DEF Call
  <2>4. status'[next'] = "UNNECESSARY" => NotNeeded(e.step)
    BY <1>2 DEF NotNeeded
  <2>5. QED
    BY <2>2, <2>3, <2>4, VertexAssumption DEF GoodFrame
<1>5. stack' \in Seq(GoodFrame')
  BY <1>4, Singleton DEF Consider
<1>6. QED
  BY <1>1, <1>2, <1>3, <1>5 DEF KeysInv

LEMMA RecomputePrecedencesKeys ==
  ASSUME KeysInv, TypeOK', RecomputePrecedences
  PROVE  KeysInv'
<1>1. UNCHANGED <<status, possibly_ready, next>> /\ Recomputing /\ Recomputing'
  BY DEF RecomputePrecedences, graphVars, Recomputing
<1>2. Call(pre_precedence', TRUE) \in GoodFrame
  BY CallIsGood DEF TypeOK
<1>3. GoodFrame' = GoodFrame
  BY <1>1 DEF GoodFrame
<1>4. stack' \in Seq(GoodFrame')
  BY <1>2, <1>3, Singleton DEF RecomputePrecedences
<1>5. QED
  BY <1>1, <1>4 DEF KeysInv, KeysFresh

LEMMA RunKeys ==
  ASSUME KeysInv, TypeOK', Run
  PROVE  KeysInv'
<1>1. \A e \in possibly_ready : e.step # next
  BY DEF KeysInv, Run, Recomputing
<1>2. \A v \in Vertex \ {next} : status'[v] = status[v]
  BY DEF Run, KeysInv, TypeOK
<1>3. KeysFresh'
  <2>1. \A e \in possibly_ready : e.step \in Vertex
    BY DEF KeysInv, TypeOK
  <2>2. possibly_ready' = possibly_ready
    BY DEF Run
  <2>3. QED
    BY <1>1, <1>2, <2>1, <2>2 DEF KeysInv, KeysFresh
<1>4. ~Recomputing'
  BY DEF Run, Recomputing
<1>5. stack' \in Seq(GoodFrame')
  BY EmptySeq DEF Run, Returned
<1>6. QED
  BY <1>3, <1>4, <1>5 DEF KeysInv

(* DeExecute reopens completed vertices, none of which is in the set. *)
LEMMA ClosureOfSubset ==
  ASSUME NEW x, NEW ok, \E X \in SUBSET ok : IsClosed(X, x, ok) /\ \A Y \in SUBSET X : IsClosed(Y, x, ok) => Y = X
  PROVE  /\ Closure(x, ok) \in SUBSET ok
         /\ IsClosed(Closure(x, ok), x, ok)
         /\ \A Y \in SUBSET Closure(x, ok) : IsClosed(Y, x, ok) => Y = Closure(x, ok)
BY DEF Closure

(* The walk through ok vertices exists: what every closed set holds.       *)
LEMMA ClosureProperties ==
  ASSUME NEW x, NEW ok
  PROVE  /\ Closure(x, ok) \in SUBSET ok
         /\ IsClosed(Closure(x, ok), x, ok)
         /\ \A Y \in SUBSET ok : IsClosed(Y, x, ok) => Closure(x, ok) \subseteq Y
<1> DEFINE L == {w \in ok : \A X \in SUBSET ok : IsClosed(X, x, ok) => w \in X}
<1>1. IsClosed(L, x, ok)
  <2>1. Successors(x) \cap ok \subseteq L
    BY DEF IsClosed
  <2>2. ASSUME NEW u \in L, NEW w \in Successors(u) \cap ok, NEW X \in SUBSET ok, IsClosed(X, x, ok)
        PROVE  w \in X
    BY <2>2 DEF IsClosed
  <2>3. \A u \in L : Successors(u) \cap ok \subseteq L
    BY <2>2
  <2>4. QED
    BY <2>1, <2>3 DEF IsClosed
<1>2. L \in SUBSET ok /\ \A Y \in SUBSET ok : IsClosed(Y, x, ok) => L \subseteq Y
  OBVIOUS
<1> HIDE DEF L
<1>3. \A Y \in SUBSET L : IsClosed(Y, x, ok) => Y = L
  BY <1>2
<1>4. /\ Closure(x, ok) \in SUBSET ok
      /\ IsClosed(Closure(x, ok), x, ok)
      /\ \A Y \in SUBSET Closure(x, ok) : IsClosed(Y, x, ok) => Y = Closure(x, ok)
  BY <1>1, <1>2, <1>3, ClosureOfSubset
<1>5. L \subseteq Closure(x, ok)
  BY <1>2, <1>4
<1>6. L = Closure(x, ok)
  BY <1>1, <1>4, <1>5
<1>7. QED
  BY <1>2, <1>4, <1>6

(* What DeExecute(t) does to the status of each vertex.                    *)
LEMMA DeExecuteStatus ==
  ASSUME TypeOK, NEW t \in Vertex, DeExecute(t), status[t] # "NONEXISTENT"
  PROVE  /\ Reopened(t) \subseteq CompletedSteps \ {t}
         /\ \A v \in Reopened(t) \cup {t} : status'[v] \in Pending
         /\ \A v \in Vertex \ (Reopened(t) \cup {t}) : status'[v] = status[v]
         /\ \A v \in Vertex : status[v] \in Pending => status'[v] = status[v]
         /\ status'[t] = Undone(status[t], TRUE)
<1> DEFINE reset == [status EXCEPT ![t] = Undone(@, TRUE)]
<1>1. Reopened(t) \subseteq CompletedSteps \ {t}
  BY ClosureProperties DEF Reopened
<1>2. status \in [Vertex -> Status]
  BY DEF TypeOK
<1>3. \A v \in Vertex : status'[v] = IF v \in Reopened(t) THEN Undone(status[v], FALSE) ELSE reset[v]
  BY DEF DeExecute
<1>4. \A v \in Vertex : reset[v] = IF v = t THEN Undone(status[t], TRUE) ELSE status[v]
  BY <1>2
<1>5. \A st \in Status \ {"NONEXISTENT"}, force \in BOOLEAN : Undone(st, force) \in Pending
  BY DEF Undone, Status, Pending
<1>6. \A v \in CompletedSteps : status[v] \in Status \ {"NONEXISTENT"} /\ v \in Vertex
  BY <1>2 DEF CompletedSteps, Completed
<1>7. \A st \in Pending, force \in BOOLEAN : Undone(st, force) = st
  BY DEF Undone
<1>8. \A v \in Reopened(t) : status[v] \notin Pending
  BY <1>1 DEF CompletedSteps, Completed, Pending
<1> HIDE DEF reset
<1>9. \A v \in Reopened(t) \cup {t} : status'[v] \in Pending
  BY <1>1, <1>2, <1>3, <1>4, <1>5, <1>6
<1>10. \A v \in Vertex \ (Reopened(t) \cup {t}) : status'[v] = status[v]
  BY <1>3, <1>4
<1>11. status'[t] = Undone(status[t], TRUE)
  BY <1>1, <1>3, <1>4
<1>12. \A v \in Vertex : status[v] \in Pending => status'[v] = status[v]
  BY <1>7, <1>8, <1>10, <1>11
<1>13. QED
  BY <1>1, <1>9, <1>10, <1>11, <1>12

LEMMA InvalidateKeys ==
  ASSUME KeysInv, TypeOK', NEW t \in Step, Invalidate(t)
  PROVE  KeysInv'
<1> DEFINE reset == [status EXCEPT ![t] = Undone(@, TRUE)]
<1>1. t \in Vertex /\ DeExecute(t) /\ status[t] # "NONEXISTENT"
  BY DEF Vertex, Invalidate
<1>2. \A v \in Vertex : status[v] \in Pending => status'[v] = status[v]
  BY <1>1, DeExecuteStatus DEF KeysInv
<1>3. status'[t] \in Pending /\ status'[t] = reset[t]
  <2>1. status \in [Vertex -> Status]
    BY DEF KeysInv, TypeOK
  <2>2. status'[t] \in Pending /\ status'[t] = Undone(status[t], TRUE)
    BY <1>1, DeExecuteStatus DEF KeysInv
  <2>3. QED
    BY <1>1, <2>1, <2>2
<1>4. \A e \in possibly_ready' : e \in possibly_ready \/ e \in Entries({t}, reset)
  BY DEF Invalidate, DeExecute
<1> HIDE DEF reset
<1>5. \A e \in Entries({t}, reset) : e.step = t /\ e.unnecessary = Unnecessary(reset[t])
  BY EntriesAreFresh
<1>6. KeysFresh'
  <2>1. \A e \in possibly_ready : status'[e.step] \in Pending /\ e.unnecessary = Unnecessary(status'[e.step])
    BY <1>2 DEF KeysInv, TypeOK, KeysFresh
  <2>2. QED
    BY <1>3, <1>4, <1>5, <2>1 DEF KeysFresh
<1>7. ~Recomputing /\ ~Recomputing'
  BY DEF Invalidate, Recomputing
<1>8. GoodFrame \subseteq GoodFrame'
  <2>1. \A f \in Frame : f.step \in Step => f.step \in Vertex
    BY DEF Vertex
  <2>2. QED
    BY <1>2, <1>7, <2>1 DEF GoodFrame
<1>9. stack' \in Seq(GoodFrame')
  BY <1>8, SeqMonotonic DEF KeysInv, Invalidate
<1>10. QED
  BY <1>6, <1>7, <1>9 DEF KeysInv

LEMMA EndIterationKeys ==
  ASSUME KeysInv, TypeOK', EndIteration
  PROVE  KeysInv'
<1>1. status' = status /\ stack' = stack /\ ~Recomputing /\ ~Recomputing'
  BY DEF EndIteration, Recomputing
<1>2. \A v \in Woken(next) : status[v] \in Pending
  BY DEF Woken
<1>3. \A e \in Entries(Woken(next), status) :
        e.step \in Woken(next) /\ e.unnecessary = Unnecessary(status[e.step])
  BY EntriesAreFresh
<1>4. KeysFresh'
  BY <1>1, <1>2, <1>3 DEF KeysInv, KeysFresh, EndIteration
<1>5. GoodFrame' = GoodFrame
  BY <1>1 DEF GoodFrame
<1>6. QED
  BY <1>1, <1>4, <1>5 DEF KeysInv

(* Steps that change neither a status nor the set, and leave no question   *)
(* unanswered.                                                             *)
LEMMA IdleKeys ==
  ASSUME KeysInv, TypeOK', UNCHANGED <<status, possibly_ready>>, ~Recomputing',
         stack' \in Seq(GoodFrame) \/ stack' \in Seq(GoodFrame')
  PROVE  KeysInv'
<1>1. GoodFrame \subseteq GoodFrame'
  BY DEF GoodFrame
<1>2. stack' \in Seq(GoodFrame')
  BY <1>1, SeqMonotonic
<1>3. QED
  BY <1>2 DEF KeysInv, KeysFresh

LEMMA NextKeysInv == KeysInv /\ [Next]_vars => KeysInv'
<1> SUFFICES ASSUME KeysInv, [Next]_vars
             PROVE  KeysInv'
  OBVIOUS
<1>0. TypeOK'
  BY NextTypeOK DEF KeysInv
<1>1. CASE RecursivelyAddSteps
  <2>1. ASSUME NEW s \in Step, VisitKnown(s)
        PROVE  KeysInv'
    <3>1. top \in GoodFrame
      BY <2>1, ReplaceTop DEF KeysInv, VisitKnown, Returned, top
    <3>2. [top EXCEPT !.todo = @ \ {s}] \in GoodFrame
      BY <3>1 DEF GoodFrame, Frame
    <3>3. stack' \in Seq(GoodFrame)
      BY <2>1, <3>2, ReplaceTop DEF KeysInv, VisitKnown, Returned, WithTop, below
    <3>4. UNCHANGED <<status, possibly_ready, pc, next>>
      BY <2>1 DEF VisitKnown, graphVars, loopVars
    <3>5. GoodFrame' = GoodFrame /\ (Recomputing' <=> Recomputing)
      BY <3>4 DEF GoodFrame, Recomputing
    <3>6. QED
      BY <1>0, <3>3, <3>4, <3>5 DEF KeysInv, KeysFresh
  <2>2. ASSUME NEW s \in Step, VisitSkipped(s)
        PROVE  KeysInv'
    BY <1>0, <2>2, IdleKeys DEF VisitSkipped, graphVars, Recomputing, KeysInv
  <2>3. ASSUME NEW s \in Step, VisitStep(s)
        PROVE  KeysInv'
    BY <1>0, <2>3, VisitStepKeys
  <2>4. CASE LinkDependences
    BY <1>0, <2>4, LinkDependencesKeys
  <2>5. CASE LinkPrecedences
    BY <1>0, <2>5, LinkPrecedencesKeys
  <2>6. CASE ReturnFromAdd
    <3>1. UNCHANGED <<status, possibly_ready, pc, next>> /\ stack' = <<>>
      BY <2>6 DEF ReturnFromAdd, graphVars, loopVars
    <3>2. stack' \in Seq(GoodFrame') /\ (Recomputing' <=> Recomputing)
      BY <3>1, EmptySeq DEF Recomputing
    <3>3. QED
      BY <1>0, <3>1, <3>2 DEF KeysInv, KeysFresh
  <2>7. QED
    BY <1>1, <2>1, <2>2, <2>3, <2>4, <2>5, <2>6 DEF RecursivelyAddSteps
<1>2. ASSUME NEW S \in SUBSET Requested, AddSteps(S)
      PROVE  KeysInv'
  <2>1. ~Recomputing /\ ~Recomputing'
    BY <1>2 DEF AddSteps, Recomputing
  <2>2. Call(S, FALSE) \in GoodFrame
    BY <2>1, CallIsGood, AnswerAssumption
  <2>3. QED
    BY <1>0, <1>2, <2>1, <2>2, IdleKeys DEF AddSteps, graphVars
<1>3. CASE Exec
  BY <1>0, <1>3, IdleKeys DEF Exec, graphVars, Recomputing, KeysInv
<1>4. ASSUME NEW e \in possibly_ready, Consider(e)
      PROVE  KeysInv'
  BY <1>0, <1>4, ConsiderKeys
<1>5. CASE RecomputePrecedences
  BY <1>0, <1>5, RecomputePrecedencesKeys
<1>6. CASE NotReady
  BY <1>0, <1>6, IdleKeys DEF NotReady, Recomputing, KeysInv
<1>7. CASE Run
  BY <1>0, <1>7, RunKeys
<1>8. ASSUME NEW t \in Step, Invalidate(t)
      PROVE  KeysInv'
  BY <1>0, <1>8, InvalidateKeys
<1>9. ASSUME NEW t \in Step, InvalidateWrongly(t)
      PROVE  KeysInv'
  BY <1>0, <1>9, IdleKeys DEF InvalidateWrongly, graphVars, Recomputing, KeysInv
<1>10. CASE EndIteration
  BY <1>0, <1>10, EndIterationKeys
<1>11. CASE EndExec
  BY <1>0, <1>11, IdleKeys DEF EndExec, graphVars, Recomputing, KeysInv
<1>12. CASE UNCHANGED vars
  <2>1. UNCHANGED <<status, possibly_ready, stack, pc, next>>
    BY <1>12 DEF vars, graphVars, loopVars
  <2>2. GoodFrame' = GoodFrame /\ (Recomputing' <=> Recomputing)
    BY <2>1 DEF GoodFrame, Recomputing
  <2>3. QED
    BY <1>0, <2>1, <2>2 DEF KeysInv, KeysFresh
<1>13. QED
  BY <1>1, <1>2, <1>3, <1>4, <1>5, <1>6, <1>7, <1>8, <1>9, <1>10, <1>11, <1>12 DEF Next, Stop

LEMMA InitKeysInv == Init => KeysInv
<1> SUFFICES ASSUME Init PROVE KeysInv
  OBVIOUS
<1>1. TypeOK
  BY InitTypeOK
<1>2. stack \in Seq(GoodFrame) /\ ~Recomputing /\ possibly_ready = {}
  BY EmptySeq DEF Init, Recomputing
<1>3. QED
  BY <1>1, <1>2 DEF KeysInv, KeysFresh

(* The comparator of possibly_ready never disagrees with the place of an   *)
(* element, and nothing completed is in the set.                           *)
THEOREM KeysAlwaysFresh == Spec => []KeysFresh
<1>1. KeysInv => KeysFresh
  BY DEF KeysInv
<1>2. QED
  BY InitKeysInv, NextKeysInv, <1>1, PTL DEF Spec


-------------------------------------------------------------------------------
(* The design flow manager implements StepOrdering.  The argument: an edge *)
(* from what a step asked for to the step is never removed, so the walk of *)
(* DeExecute, which is closed under the edges between completed vertices,  *)
(* cannot leave a result behind.                                           *)

NeedsLinked ==
  \A v \in Vertex : \A u \in needs[v] :
    <<"DEPENDENCE", u, v>> \in edges \/ <<"PRECEDENCE", u, v>> \in edges

OrderInv ==
  /\ KeysInv
  /\ NeedsLinked
  /\ ResultsStand

(* Only the edges hooked to Exit are ever removed. *)
LEMMA LinksStay ==
  ASSUME [Next]_vars, NEW k \in {"DEPENDENCE", "PRECEDENCE"}, NEW u, NEW v, <<k, u, v>> \in edges
  PROVE  <<k, u, v>> \in edges'
<1>1. CASE LinkPrecedences
  <2> DEFINE caller == stack[Len(stack) - 1]
             drawn == edges \cup ({"PRECEDENCE"} \X caller.relationships \X {caller.step})
  <2>1. edges' = HookUp(drawn, caller.step)
    BY <1>1 DEF LinkPrecedences
  <2>2. <<k, u, v>> \in drawn
    OBVIOUS
  <2> HIDE DEF drawn
  <2>3. QED
    BY <2>1, <2>2 DEF HookUp
<1>2. CASE EndIteration
  BY <1>2 DEF EndIteration, Unhooked
<1>3. CASE LinkDependences
  BY <1>3 DEF LinkDependences
<1>4. CASE NotReady \/ Run
  BY <1>4 DEF NotReady, Run, LinkNext
<1>5. ASSUME NEW t \in Step, Invalidate(t)
      PROVE  <<k, u, v>> \in edges'
  BY <1>5 DEF Invalidate
<1>6. ASSUME NEW s \in Step, VisitKnown(s) \/ VisitSkipped(s) \/ VisitStep(s)
      PROVE  edges' = edges
  BY <1>6 DEF VisitKnown, VisitSkipped, VisitStep, graphVars
<1>7. ASSUME NEW S \in SUBSET Requested, AddSteps(S)
      PROVE  edges' = edges
  BY <1>7 DEF AddSteps, graphVars
<1>8. ASSUME NEW e \in possibly_ready, Consider(e)
      PROVE  edges' = edges
  BY <1>8 DEF Consider, graphVars
<1>9. ASSUME NEW t \in Step, InvalidateWrongly(t)
      PROVE  edges' = edges
  BY <1>9 DEF InvalidateWrongly, graphVars
<1>10. CASE ReturnFromAdd \/ Exec \/ RecomputePrecedences \/ EndExec
  BY <1>10 DEF ReturnFromAdd, Exec, RecomputePrecedences, EndExec, graphVars
<1>11. CASE UNCHANGED vars
  BY <1>11 DEF vars, graphVars
<1>12. QED
  BY <1>1, <1>2, <1>3, <1>4, <1>5, <1>6, <1>7, <1>8, <1>9, <1>10, <1>11
  DEF Next, RecursivelyAddSteps, Stop

(* The steps that complete or withdraw nothing and record no answer. *)
LEMMA StepKinds ==
  ASSUME KeysInv, [Next]_vars
  PROVE  \/ Run
         \/ \E t \in Step : Invalidate(t)
         \/ \E s \in Step : VisitStep(s)
         \/ UNCHANGED <<status, needs>>
<1>1. ASSUME NEW s \in Step, VisitKnown(s) \/ VisitSkipped(s)
      PROVE  UNCHANGED <<status, needs>>
  BY <1>1 DEF VisitKnown, VisitSkipped, graphVars, loopVars
<1>2. ASSUME NEW S \in SUBSET Requested, AddSteps(S)
      PROVE  UNCHANGED <<status, needs>>
  BY <1>2 DEF AddSteps, graphVars, loopVars
<1>3. ASSUME NEW e \in possibly_ready, Consider(e)
      PROVE  UNCHANGED <<status, needs>>
  BY <1>3 DEF Consider, graphVars
<1>4. ASSUME NEW t \in Step, InvalidateWrongly(t)
      PROVE  UNCHANGED <<status, needs>>
  BY <1>4 DEF InvalidateWrongly, graphVars, loopVars
<1>5. CASE LinkDependences \/ LinkPrecedences \/ ReturnFromAdd \/ Exec
  BY <1>5 DEF LinkDependences, LinkPrecedences, ReturnFromAdd, Exec, graphVars, loopVars
<1>6. CASE RecomputePrecedences \/ NotReady \/ EndIteration \/ EndExec
  BY <1>6 DEF RecomputePrecedences, NotReady, EndIteration, EndExec, graphVars, loopVars
<1>7. CASE UNCHANGED vars
  BY <1>7 DEF vars, graphVars, loopVars
<1>8. QED
  BY <1>1, <1>2, <1>3, <1>4, <1>5, <1>6, <1>7 DEF Next, RecursivelyAddSteps, Stop

(* Adding a step completes nothing. *)
LEMMA VisitStepStatus ==
  ASSUME TypeOK, NEW s \in Step, VisitStep(s)
  PROVE  /\ needs' = needs
         /\ CompletedSteps' = CompletedSteps
         /\ \A v \in Vertex : status[v] # "NONEXISTENT" => status'[v] # "NONEXISTENT"
<1>1. s \in Vertex /\ status \in [Vertex -> Status]
  BY DEF TypeOK, Vertex
<1>2. status[s] \in {"NONEXISTENT", "UNNECESSARY"} /\ status'[s] \in Pending
  BY <1>1 DEF VisitStep, Pending
<1>3. \A v \in Vertex \ {s} : status'[v] = status[v]
  BY <1>1 DEF VisitStep
<1>4. status[s] \notin Completed /\ status'[s] \notin Completed /\ status'[s] # "NONEXISTENT"
  BY <1>2 DEF Completed, Pending
<1>5. QED
  BY <1>1, <1>3, <1>4 DEF CompletedSteps, VisitStep, loopVars

(* Executing, or skipping, a step completes it on top of what it asked for. *)
LEMMA RunStatus ==
  ASSUME KeysInv, Run
  PROVE  /\ next \in Vertex /\ status[next] \in Pending
         /\ CompletedSteps' = CompletedSteps \cup {next}
         /\ \A v \in Vertex : status'[v] = "NONEXISTENT" <=> status[v] = "NONEXISTENT"
         /\ needs'[next] = Asked /\ Asked \subseteq CompletedSteps
         /\ \A v \in Vertex \ {next} : needs'[v] = needs[v]
<1>1. next \in Vertex /\ status \in [Vertex -> Status] /\ needs \in [Vertex -> SUBSET Step]
  BY DEF KeysInv, TypeOK
<1>2. status[next] \in Pending
  BY DEF KeysInv, Run, Recomputing
<1>3. status'[next] \in Completed
  <2>1. Outcome(next) \subseteq Completed
    BY AnswerAssumption DEF Outcome, Completed
  <2>2. QED
    BY <1>1, <2>1 DEF Run
<1>4. \A v \in Vertex \ {next} : status'[v] = status[v]
  BY <1>1 DEF Run
<1>5. status'[next] # "NONEXISTENT" /\ status[next] # "NONEXISTENT"
  BY <1>2, <1>3 DEF Completed, Pending
<1>6. needs'[next] = Asked /\ \A v \in Vertex \ {next} : needs'[v] = needs[v]
  BY <1>1 DEF Run
<1>7. Asked \subseteq CompletedSteps
  BY DEF Run, AskedDone
<1>8. CompletedSteps' = CompletedSteps \cup {next}
  BY <1>1, <1>3, <1>4 DEF CompletedSteps
<1>9. QED
  BY <1>1, <1>2, <1>4, <1>5, <1>6, <1>7, <1>8

(* Withdrawing a result withdraws those built on it. *)
LEMMA InvalidateStatus ==
  ASSUME OrderInv, NEW t \in Step, Invalidate(t)
  PROVE  /\ needs' = needs
         /\ CompletedSteps' = CompletedSteps \ (Reopened(t) \cup {t})
         /\ \A v \in Vertex : status'[v] = "NONEXISTENT" <=> status[v] = "NONEXISTENT"
         /\ \A v \in CompletedSteps' : needs[v] \subseteq CompletedSteps'
<1>1. t \in Vertex /\ DeExecute(t) /\ status[t] # "NONEXISTENT" /\ needs' = needs
  BY DEF Vertex, Invalidate
<1>2. /\ Reopened(t) \subseteq CompletedSteps \ {t}
      /\ \A v \in Reopened(t) \cup {t} : status'[v] \in Pending
      /\ \A v \in Vertex \ (Reopened(t) \cup {t}) : status'[v] = status[v]
  BY <1>1, DeExecuteStatus DEF OrderInv, KeysInv
<1>3. Pending \cap Completed = {} /\ "NONEXISTENT" \notin Pending \cup Completed
  BY DEF Pending, Completed
<1>4. CompletedSteps' = CompletedSteps \ (Reopened(t) \cup {t})
  BY <1>2, <1>3 DEF CompletedSteps
<1>5. \A v \in Vertex : status'[v] = "NONEXISTENT" <=> status[v] = "NONEXISTENT"
  BY <1>1, <1>2, <1>3 DEF CompletedSteps
<1>6. ASSUME NEW v \in CompletedSteps', NEW u \in needs[v]
      PROVE  u \in CompletedSteps'
  <2>1. v \in CompletedSteps /\ v \notin Reopened(t) /\ v # t /\ v \in Vertex
    BY <1>4 DEF CompletedSteps
  <2>2. u \in CompletedSteps
    BY <2>1 DEF OrderInv, ResultsStand, CompletedSteps
  <2>3. v \in Successors(u)
    BY <2>1 DEF OrderInv, NeedsLinked, Successors, TargetsIn, Selector
  <2>4. IsClosed(Reopened(t), t, CompletedSteps \ {t})
    BY ClosureProperties DEF Reopened
  <2>5. u # t /\ u \notin Reopened(t)
    BY <2>1, <2>3, <2>4 DEF IsClosed
  <2>6. QED
    BY <1>4, <2>2, <2>5
<1>7. QED
  BY <1>1, <1>4, <1>5, <1>6

LEMMA NextOrderInv == OrderInv /\ [Next]_vars => OrderInv'
<1> SUFFICES ASSUME OrderInv, [Next]_vars
             PROVE  OrderInv'
  OBVIOUS
<1>1. KeysInv /\ KeysInv' /\ TypeOK
  BY NextKeysInv DEF OrderInv, KeysInv
<1>2. NeedsLinked'
  <2> SUFFICES ASSUME NEW v \in Vertex, NEW u \in needs'[v]
               PROVE  <<"DEPENDENCE", u, v>> \in edges' \/ <<"PRECEDENCE", u, v>> \in edges'
    BY DEF NeedsLinked
  <2>1. CASE Run /\ v = next
    <3>1. u \in pre_dependence \cup pre_precedence
      BY <1>1, <2>1, RunStatus DEF Asked
    <3>2. QED
      BY <2>1, <3>1 DEF Run, LinkNext
  <2>2. CASE ~(Run /\ v = next)
    <3>1. needs'[v] = needs[v]
      BY <1>1, <2>2, StepKinds, RunStatus, InvalidateStatus, VisitStepStatus
    <3>2. <<"DEPENDENCE", u, v>> \in edges \/ <<"PRECEDENCE", u, v>> \in edges
      BY <3>1 DEF OrderInv, NeedsLinked
    <3>3. QED
      BY <3>2, LinksStay
  <2>3. QED
    BY <2>1, <2>2
<1>3. ResultsStand'
  <2>1. \A v \in CompletedSteps : needs[v] \subseteq CompletedSteps
    BY DEF OrderInv, ResultsStand, CompletedSteps
  <2>2. \A v \in CompletedSteps' : needs'[v] \subseteq CompletedSteps'
    <3>1. CASE Run
      BY <1>1, <2>1, <3>1, RunStatus DEF CompletedSteps
    <3>2. ASSUME NEW t \in Step, Invalidate(t)
          PROVE  \A v \in CompletedSteps' : needs'[v] \subseteq CompletedSteps'
      BY <3>2, InvalidateStatus
    <3>3. ASSUME NEW s \in Step, VisitStep(s)
          PROVE  \A v \in CompletedSteps' : needs'[v] \subseteq CompletedSteps'
      BY <1>1, <2>1, <3>3, VisitStepStatus
    <3>4. CASE UNCHANGED <<status, needs>>
      BY <2>1, <3>4 DEF CompletedSteps
    <3>5. QED
      BY <1>1, <3>1, <3>2, <3>3, <3>4, StepKinds
  <2>3. QED
    BY <2>2 DEF ResultsStand, CompletedSteps
<1>4. QED
  BY <1>1, <1>2, <1>3 DEF OrderInv

LEMMA InitOrderInv == Init => OrderInv
<1> SUFFICES ASSUME Init PROVE OrderInv
  OBVIOUS
<1>1. KeysInv
  BY InitKeysInv
<1>2. \A v \in Vertex : needs[v] = {}
  BY DEF Init
<1>3. QED
  BY <1>1, <1>2 DEF OrderInv, NeedsLinked, ResultsStand

(* No result outlives what it was built on. *)
THEOREM ResultsAlwaysStand == Spec => []ResultsStand
<1>1. OrderInv => ResultsStand
  BY DEF OrderInv
<1>2. QED
  BY InitOrderInv, NextOrderInv, <1>1, PTL DEF Spec

-------------------------------------------------------------------------------
(* The refinement. *)

LEMMA InitRefines == Init => Ordering!Init
<1> SUFFICES ASSUME Init PROVE Ordering!Init
  OBVIOUS
<1>1. \A s \in Step : status[s] = "NONEXISTENT" /\ needs[s] = {}
  BY VertexAssumption DEF Init, Vertex
<1>2. Known = {} /\ Done = {} /\ Needs = [s \in Step |-> {}]
  BY <1>1 DEF Known, Done, Needs, Completed
<1>3. QED
  BY <1>2 DEF Ordering!Init

LEMMA NextRefines ==
  OrderInv /\ OrderInv' /\ [Next]_vars => [Ordering!Next]_(Ordering!vars)
<1> SUFFICES ASSUME OrderInv, OrderInv', [Next]_vars
             PROVE  Ordering!Next \/ UNCHANGED <<Known, Done, Needs>>
  BY DEF Ordering!vars
<1>1. KeysInv /\ TypeOK /\ TypeOK'
  BY DEF OrderInv, KeysInv
<1>2. Done = Step \cap CompletedSteps /\ Done' = Step \cap CompletedSteps'
  BY DEF Done, CompletedSteps, Vertex
<1>3. ASSUME NEW s \in Step, VisitStep(s)
      PROVE  Ordering!Next
  <2>1. Known' \in SUBSET Step /\ Known \subseteq Known'
    BY <1>1, <1>3, VisitStepStatus DEF Known, Vertex
  <2>2. Done' = Done /\ Needs' = Needs
    BY <1>1, <1>2, <1>3, VisitStepStatus DEF Needs
  <2>3. Ordering!Discover
    BY <2>1, <2>2 DEF Ordering!Discover
  <2>4. QED
    BY <2>3 DEF Ordering!Next
<1>4. CASE Run /\ next \in Step
  <2>1. next \in Known \ Done
    BY <1>1, <1>4, RunStatus DEF Known, Done, Pending, Completed
  <2>2. Done' = Done \cup {next}
    BY <1>1, <1>2, <1>4, RunStatus
  <2>3. Known' = Known
    BY <1>1, <1>4, RunStatus DEF Known, Vertex
  <2>4. Needs' \in [Step -> SUBSET Step]
    BY <1>1 DEF Needs, TypeOK, Vertex
  <2>5. Needs'[next] \subseteq Done
    <3>1. Needs'[next] = Asked
      BY <1>1, <1>4, RunStatus DEF Needs
    <3>2. Asked \subseteq Step
      BY <1>1 DEF Asked, TypeOK
    <3>3. QED
      BY <1>1, <1>2, <1>4, <3>1, <3>2, RunStatus
  <2>6. \A r \in Step \ {next} : Needs'[r] = Needs[r]
    BY <1>1, <1>4, RunStatus DEF Needs, Vertex
  <2>7. Ordering!Complete(next)
    BY <2>1, <2>2, <2>3, <2>4, <2>5, <2>6 DEF Ordering!Complete
  <2>8. QED
    BY <1>4, <2>7 DEF Ordering!Next
<1>5. CASE Run /\ next \notin Step
  <2>1. \A s \in Step : status'[s] = "NONEXISTENT" <=> status[s] = "NONEXISTENT"
    BY <1>1, <1>5, RunStatus DEF Vertex
  <2>2. \A s \in Step : needs'[s] = needs[s]
    BY <1>1, <1>5, RunStatus DEF Vertex
  <2>3. Done' = Done
    BY <1>1, <1>2, <1>5, RunStatus
  <2>4. Known' = Known /\ Needs' = Needs
    BY <2>1, <2>2 DEF Known, Needs
  <2>5. QED
    BY <2>3, <2>4
<1>6. ASSUME NEW t \in Step, Invalidate(t)
      PROVE  Ordering!Next
  <2>1. Done' \in SUBSET Done
    BY <1>2, <1>6, InvalidateStatus
  <2>2. \A s \in Done' : Needs[s] \subseteq Done'
    <3>1. ASSUME NEW s \in Done' PROVE needs[s] \subseteq Done'
      <4>1. needs[s] \subseteq CompletedSteps' /\ s \in Step
        BY <1>2, <1>6, InvalidateStatus
      <4>2. needs[s] \subseteq Step
        BY <1>1, <4>1 DEF TypeOK, Vertex
      <4>3. QED
        BY <1>2, <4>1, <4>2
    <3>2. QED
      BY <1>2, <3>1 DEF Needs
  <2>3. Known' = Known /\ Needs' = Needs
    BY <1>6, InvalidateStatus DEF Known, Needs, Vertex
  <2>4. Ordering!Withdraw
    BY <2>1, <2>2, <2>3 DEF Ordering!Withdraw
  <2>5. QED
    BY <2>4 DEF Ordering!Next
<1>7. CASE UNCHANGED <<status, needs>>
  BY <1>7 DEF Known, Done, Needs
<1>8. QED
  BY <1>1, <1>3, <1>4, <1>5, <1>6, <1>7, StepKinds

(* Every behaviour of the manager is one of StepOrdering: a step completes *)
(* once, on top of everything it asked for, and what an invalidation       *)
(* undoes takes with it everything that was built on it.                   *)
THEOREM ImplementsStepOrdering == Spec => RefinesStepOrdering
<1>1. OrderInv /\ [Next]_vars => OrderInv'
  BY NextOrderInv
<1>2. QED
  BY InitOrderInv, InitRefines, <1>1, NextRefines, PTL DEF Spec, RefinesStepOrdering, Ordering!Spec

(* What StepOrdering is good for: whatever order a flow is executed in and  *)
(* however often it is sent back, a result that stands rests on results     *)
(* that stand.                                                              *)
GroundedInv == Ordering!TypeOK /\ Ordering!Grounded

THEOREM AlwaysGrounded == Ordering!Spec => []Ordering!Grounded
<1>1. Ordering!Init => GroundedInv
  BY DEF Ordering!Init, GroundedInv, Ordering!TypeOK, Ordering!Grounded
<1>2. GroundedInv /\ [Ordering!Next]_(Ordering!vars) => GroundedInv'
  <2> SUFFICES ASSUME GroundedInv, [Ordering!Next]_(Ordering!vars)
               PROVE  GroundedInv'
    OBVIOUS
  <2> USE DEF GroundedInv, Ordering!TypeOK, Ordering!Grounded
  <2>1. CASE Ordering!Discover
    BY <2>1 DEF Ordering!Discover
  <2>2. ASSUME NEW s \in Step, Ordering!Complete(s)
        PROVE  GroundedInv'
    <3>1. Ordering!TypeOK'
      BY <2>2 DEF Ordering!Complete
    <3>2. ASSUME NEW r \in Done' PROVE Needs'[r] \subseteq Done'
      <4>1. CASE r = s
        BY <2>2, <4>1 DEF Ordering!Complete
      <4>2. CASE r # s
        BY <2>2, <4>2, <3>2 DEF Ordering!Complete
      <4>3. QED
        BY <4>1, <4>2
    <3>3. QED
      BY <3>1, <3>2
  <2>3. CASE Ordering!Withdraw
    BY <2>3 DEF Ordering!Withdraw
  <2>4. CASE UNCHANGED Ordering!vars
    BY <2>4 DEF Ordering!vars
  <2>5. QED
    BY <2>1, <2>2, <2>3, <2>4 DEF Ordering!Next
<1>3. GroundedInv => Ordering!Grounded
  BY DEF GroundedInv
<1>4. QED
  BY <1>1, <1>2, <1>3, PTL DEF Ordering!Spec

-------------------------------------------------------------------------------
(* What the loop must not forget: it loses no ready step, executes none     *)
(* that nobody needs and leaves nothing undone.  First the invariant that   *)
(* these share.                                                             *)

Existing == {v \in Vertex : status[v] # "NONEXISTENT"}
Thrown == pc \in {"already skipped", "wrong invalidation"}
OnStack(s) == \E i \in 1..Len(stack) : stack[i].step = s
BottomTodo == IF stack = <<>> THEN {} ELSE stack[1].todo
InSet(v) == Entries({v}, status) \subseteq possibly_ready

(* A status never falls back: what exists stays, what is needed stays so.   *)
Grows(stat, later) ==
  \A v \in Vertex :
    /\ stat[v] # "NONEXISTENT" => later[v] # "NONEXISTENT"
    /\ Necessary(stat[v]) => Necessary(later[v])

(* An invocation f and the one it made, g: what a step answered is in the   *)
(* graph but for what g has still to add; dependences are added as needed   *)
(* as the step that asks, precedences are not needed.                       *)
Linked(f, g, stat) ==
  /\ \A u \in f.relationships : stat[u] # "NONEXISTENT" \/ u \in g.todo
  /\ f.phase = "dependences" =>
       /\ f.relationships \in Dependence[f.step]
       /\ g.todo \subseteq f.relationships
       /\ g.unnecessary = f.unnecessary
  /\ f.phase = "precedences" => f.relationships \in Precedence[f.step] /\ g.unnecessary
  /\ ~f.unnecessary /\ f.step \in Step => Necessary(stat[f.step])

StackInv ==
  /\ \A i \in 1..Len(stack) : stack[i].phase = "visit" <=> i = Len(stack)
  /\ \A i \in 1..Len(stack) - 1 : Linked(stack[i], stack[i + 1], status)

(* What Exec asked the step it considers, and the outermost invocation.     *)
CallInv ==
  /\ stack # <<>> =>
       /\ pc \in {"main", "already skipped"} \/ Recomputing
       /\ pc = "main" => stack[1].todo \subseteq Requested
       /\ pc = "recompute dependences" =>
            stack[1].todo \subseteq pre_dependence /\ stack[1].unnecessary = NotNeeded(next)
       /\ pc = "recompute precedences" => stack[1].unnecessary
  /\ Recomputing => pre_dependence \in Answers(Dependence, next)
  /\ pc = "recompute dependences" => pre_dependence \subseteq Existing \cup BottomTodo
  /\ pc = "recompute precedences" =>
       /\ pre_dependence \subseteq Existing
       /\ pre_precedence \in Answers(Precedence, next)
       /\ pre_precedence \subseteq Existing \cup BottomTodo

(* Edges join steps that exist; into a step they come from what it answered *)
(* or from Entry.                                                           *)
EdgeOK(k, u, v, stat) ==
  /\ stat[u] # "NONEXISTENT" /\ u # Exit
  /\ stat[v] # "NONEXISTENT" /\ v # Entry
  /\ k = "AUX" => u = Entry \/ v = Exit
  /\ k = "DEPENDENCE" => v \in Step /\ \E A \in Dependence[v] : u \in A
  /\ k = "PRECEDENCE" => v \in Step /\ \E A \in Precedence[v] : u \in A

FlowSelector == Selector \ {"DEPENDENCE_FEEDBACK"}

EdgesInv ==
  /\ status[Entry] = "EMPTY" /\ status[Exit] \in {"UNEXECUTED", "EMPTY"}
  /\ \A k \in FlowSelector : \A u, v \in Vertex : <<k, u, v>> \in edges => EdgeOK(k, u, v, status)

(* A ready step is in possibly_ready, or on its way there: it is being      *)
(* added, being considered, or about to be woken by the step that has just  *)
(* run.                                                                     *)
Tracked(s) ==
  \/ InSet(s)
  \/ OnStack(s)
  \/ Recomputing /\ s = next
  \/ pc = "invalidate" /\ s \in Successors(next)

ReadyInv == ~Thrown => \A s \in Step : status[s] \in Pending /\ Ready(s) => Tracked(s)

StructInv == OrderInv /\ StackInv /\ CallInv /\ EdgesInv

-------------------------------------------------------------------------------
(* The stack, frame by frame *)

LEMMA NewTop ==
  ASSUME NEW S, NEW s \in Seq(S), NEW n \in Nat \ {0}, n <= Len(s), NEW f, NEW t,
         t = Append(SubSeq(s, 1, n - 1), f)
  PROVE  /\ Len(t) = n /\ t[n] = f
         /\ \A i \in 1..n - 1 : t[i] = s[i]
<1>1. Len(s) \in Nat
  BY LenProperties
<1>2. \A i \in 1..n - 1 : s[i] \in S
  BY <1>1, ElementOfSeq
<1> DEFINE r == SubSeq(s, 1, n - 1)
<1>3. /\ r \in Seq(S) /\ Len(r) = n - 1
      /\ \A i \in 1..n - 1 : r[i] = s[i]
  <2>1. \A i \in 1..n - 1 : s[i] \in S /\ 1 + i - 1 = i
    BY <1>2
  <2>5. 1 \in Int /\ n - 1 \in Int
    OBVIOUS
  <2>6. \A i \in 1..n - 1 : s[i] \in S
    BY <2>1
  <2>2. /\ r \in Seq(S)
        /\ Len(r) = IF 1 <= n - 1 THEN (n - 1) - 1 + 1 ELSE 0
        /\ \A i \in 1..(n - 1) - 1 + 1 : r[i] = s[1 + i - 1]
    BY <2>5, <2>6, SubSeqProperties
  <2>3. (IF 1 <= n - 1 THEN (n - 1) - 1 + 1 ELSE 0) = n - 1 /\ (n - 1) - 1 + 1 = n - 1
    OBVIOUS
  <2> QED
    BY <2>1, <2>2, <2>3
<1> HIDE DEF r
<1>4. /\ Len(t) = Len(r) + 1
      /\ \A i \in 1..Len(r) : t[i] = r[i]
      /\ t[Len(r) + 1] = f
  <2>1. r \in Seq(S \cup {f}) /\ f \in S \cup {f}
    BY <1>3, SeqMonotonic
  <2>2. t = Append(r, f)
    BY DEF r
  <2>3. /\ Len(Append(r, f)) = Len(r) + 1
        /\ \A i \in 1..Len(r) : Append(r, f)[i] = r[i]
        /\ Append(r, f)[Len(r) + 1] = f
    BY <2>1, AppendProperties
  <2> QED
    BY <2>2, <2>3
<1> QED
  BY <1>3, <1>4

LEMMA Pushed ==
  ASSUME NEW S, NEW s \in Seq(S), NEW g
  PROVE  /\ Len(Append(s, g)) = Len(s) + 1 /\ Append(s, g)[Len(s) + 1] = g
         /\ \A i \in 1..Len(s) : Append(s, g)[i] = s[i]
<1>1. s \in Seq(S \cup {g}) /\ g \in S \cup {g}
  BY SeqMonotonic
<1> QED
  BY <1>1, AppendProperties

(* How each step of RecursivelyAddSteps changes the stack. *)
LEMMA StackLength ==
  ASSUME TypeOK
  PROVE  /\ Len(stack) \in Nat
         /\ Returned <=> Len(stack) = 0
         /\ \A i \in 1..Len(stack) : stack[i] \in Frame
<1>1. stack \in Seq(Frame)
  BY DEF TypeOK
<1>2. Len(stack) \in Nat
  BY <1>1, LenProperties
<1>3. Returned <=> Len(stack) = 0
  BY <1>1, EmptySeq DEF Returned
<1>4. \A i \in 1..Len(stack) : stack[i] \in Frame
  BY <1>1, ElementOfSeq
<1> QED
  BY <1>2, <1>3, <1>4

LEMMA VisitKnownStack ==
  ASSUME TypeOK, NEW s \in Step, VisitKnown(s), NEW n, n = Len(stack)
  PROVE  /\ n \in Nat \ {0} /\ Len(stack') = n /\ top = stack[n]
         /\ stack'[n] = [top EXCEPT !.todo = @ \ {s}]
         /\ \A i \in 1..n - 1 : stack'[i] = stack[i]
<1>1. n \in Nat \ {0} /\ stack \in Seq(Frame)
  BY StackLength DEF VisitKnown, TypeOK
<1>2. stack' = Append(SubSeq(stack, 1, n - 1), [top EXCEPT !.todo = @ \ {s}])
  BY DEF VisitKnown, WithTop, below
<1>3. n <= Len(stack)
  BY <1>1
<1> QED
  BY <1>1, <1>2, <1>3, NewTop DEF top

LEMMA VisitStepStack ==
  ASSUME TypeOK, NEW s \in Step, VisitStep(s), NEW n, n = Len(stack)
  PROVE  /\ n \in Nat \ {0} /\ Len(stack') = n + 1 /\ top = stack[n]
         /\ \E answer \in Dependence[s] :
              /\ stack'[n] = [top EXCEPT !.todo = @ \ {s}, !.step = s, !.phase = "dependences",
                                         !.relationships = answer]
              /\ stack'[n + 1] = Call(answer, top.unnecessary)
         /\ \A i \in 1..n - 1 : stack'[i] = stack[i]
<1>1. n \in Nat \ {0} /\ stack \in Seq(Frame)
  BY StackLength DEF VisitStep, TypeOK
<1>2. PICK answer \in Dependence[s] :
        stack' = Append(WithTop([top EXCEPT !.todo = @ \ {s}, !.step = s, !.phase = "dependences",
                                            !.relationships = answer]),
                        Call(answer, top.unnecessary))
  BY DEF VisitStep
<1> DEFINE called == [top EXCEPT !.todo = @ \ {s}, !.step = s, !.phase = "dependences",
                                 !.relationships = answer]
           r == WithTop(called)
<1>3. r = Append(SubSeq(stack, 1, n - 1), called) /\ n <= Len(stack)
  BY <1>1 DEF WithTop, below
<1>4. top \in Frame /\ answer \in SUBSET Step
  BY <1>1, TopIsFrame, AnswerAssumption DEF VisitStep
<1>5. called \in Frame
  BY <1>4 DEF Frame
<1>6. r \in Seq(Frame)
  BY <1>1, <1>5, TopIsFrame DEF VisitStep
<1> HIDE DEF called
<1> HIDE DEF r
<1>7. Len(r) = n /\ r[n] = called /\ \A i \in 1..n - 1 : r[i] = stack[i]
  BY <1>1, <1>3, NewTop
<1>8. stack' = Append(r, Call(answer, top.unnecessary))
  BY <1>2 DEF r, called
<1>9. /\ Len(stack') = n + 1 /\ stack'[n + 1] = Call(answer, top.unnecessary)
      /\ \A i \in 1..n : stack'[i] = r[i]
  BY <1>6, <1>7, <1>8, Pushed
<1>10. stack'[n] = called /\ \A i \in 1..n - 1 : stack'[i] = stack[i]
  BY <1>1, <1>7, <1>9
<1> QED
  BY <1>1, <1>9, <1>10 DEF top, called

LEMMA LinkDependencesStack ==
  ASSUME TypeOK, LinkDependences, NEW n, n = Len(stack)
  PROVE  /\ n \in Nat /\ n > 1 /\ Len(stack') = n
         /\ stack[n - 1] \in Frame /\ stack[n] \in Frame
         /\ stack[n - 1].phase = "dependences" /\ stack[n - 1].step \in Step
         /\ stack[n].todo = {}
         /\ edges' = edges \cup ({"DEPENDENCE"} \X stack[n - 1].relationships \X {stack[n - 1].step})
         /\ \E answer \in Precedence[stack[n - 1].step] :
              /\ stack'[n - 1] = [stack[n - 1] EXCEPT !.phase = "precedences", !.relationships = answer]
              /\ stack'[n] = Call(answer, TRUE)
         /\ \A i \in 1..n - 2 : stack'[i] = stack[i]
<1>1. n \in Nat /\ n > 1 /\ stack \in Seq(Frame)
  BY StackLength DEF LinkDependences, Resumable, TypeOK
<1> DEFINE caller == stack[Len(stack) - 1]
<1>2. n - 1 \in 1..Len(stack) /\ n \in 1..Len(stack)
  BY <1>1
<1>3. stack[n - 1] \in Frame /\ stack[n] \in Frame /\ stack[n - 1].phase = "dependences"
  BY <1>2, StackLength DEF LinkDependences, Resumable
<1>4. caller = stack[n - 1] /\ caller.step \in Step /\ caller.relationships \in SUBSET Step
  BY <1>3 DEF Frame
<1>5. PICK answer \in Precedence[caller.step] :
        stack' = Append(Append(SubSeq(stack, 1, Len(stack) - 2),
                               [caller EXCEPT !.phase = "precedences", !.relationships = answer]),
                        Call(answer, TRUE))
  BY DEF LinkDependences
<1>6. answer \in SUBSET Step
  BY <1>4, AnswerAssumption
<1>7. [caller EXCEPT !.phase = "precedences", !.relationships = answer] \in Frame
  BY <1>3, <1>4, <1>6 DEF Frame
<1> DEFINE resumed == [caller EXCEPT !.phase = "precedences", !.relationships = answer]
           r == Append(SubSeq(stack, 1, Len(stack) - 2), resumed)
<1>8. r \in Seq(Frame)
  BY <1>1, <1>7, ReplaceCaller DEF LinkDependences, Resumable
<1>9. edges' = edges \cup ({"DEPENDENCE"} \X stack[n - 1].relationships \X {stack[n - 1].step})
  BY DEF LinkDependences
<1>10. stack[n].todo = {}
  BY DEF LinkDependences, Resumable, top
<1>11. r = Append(SubSeq(stack, 1, (n - 1) - 1), resumed) /\ n - 1 \in Nat \ {0} /\ n - 1 <= Len(stack)
  <2>1. (n - 1) - 1 = n - 2
    BY <1>1
  <2> QED
    BY <1>1, <2>1
<1>12. stack' = Append(r, Call(answer, TRUE))
  BY <1>5
<1>13. stack[n - 1].step \in Step
  BY <1>4
<1>14. resumed = [stack[n - 1] EXCEPT !.phase = "precedences", !.relationships = answer]
  BY <1>4
<1> HIDE DEF resumed, r
<1>15. Len(r) = n - 1 /\ r[n - 1] = resumed /\ \A i \in 1..(n - 1) - 1 : r[i] = stack[i]
  BY <1>1, <1>11, NewTop
<1>16. /\ Len(stack') = n /\ stack'[n] = Call(answer, TRUE)
       /\ \A i \in 1..n - 1 : stack'[i] = r[i]
  <2>1. /\ Len(stack') = Len(r) + 1 /\ stack'[Len(r) + 1] = Call(answer, TRUE)
        /\ \A i \in 1..Len(r) : stack'[i] = r[i]
    BY <1>8, <1>12, Pushed
  <2>2. Len(r) + 1 = n
    BY <1>1, <1>15
  <2> QED
    BY <1>15, <2>1, <2>2
<1>17. /\ Len(stack') = n /\ stack'[n] = Call(answer, TRUE) /\ stack'[n - 1] = resumed
       /\ \A i \in 1..n - 2 : stack'[i] = stack[i]
  <2>1. n - 1 \in 1..n - 1 /\ \A i \in 1..n - 2 : i \in 1..n - 1 /\ i \in 1..(n - 1) - 1
    BY <1>1
  <2> QED
    BY <1>15, <1>16, <2>1
<1>18. answer \in Precedence[stack[n - 1].step]
  BY <1>4
<1> HIDE DEF caller
<1> QED
  BY <1>1, <1>3, <1>9, <1>10, <1>13, <1>14, <1>17, <1>18

LEMMA LinkPrecedencesStack ==
  ASSUME TypeOK, LinkPrecedences, NEW n, n = Len(stack)
  PROVE  /\ n \in Nat /\ n > 1 /\ Len(stack') = n - 1
         /\ stack[n - 1] \in Frame /\ stack[n] \in Frame
         /\ stack[n - 1].phase = "precedences" /\ stack[n - 1].step \in Step
         /\ stack[n].todo = {}
         /\ stack'[n - 1] = [stack[n - 1] EXCEPT !.step = Entry, !.phase = "visit", !.relationships = {}]
         /\ \A i \in 1..n - 2 : stack'[i] = stack[i]
<1>1. n \in Nat /\ n > 1 /\ stack \in Seq(Frame)
  BY StackLength DEF LinkPrecedences, Resumable, TypeOK
<1>2. n - 1 \in 1..Len(stack) /\ n \in 1..Len(stack)
  BY <1>1
<1>3. stack[n - 1] \in Frame /\ stack[n] \in Frame /\ stack[n - 1].phase = "precedences"
  BY <1>2, StackLength DEF LinkPrecedences, Resumable
<1>4. stack[n - 1].step \in Step
  BY <1>3 DEF Frame
<1>5. stack[n].todo = {}
  BY DEF LinkPrecedences, Resumable, top
<1> DEFINE returned == [stack[n - 1] EXCEPT !.step = Entry, !.phase = "visit", !.relationships = {}]
<1>6. stack' = Append(SubSeq(stack, 1, n - 2), returned)
  BY DEF LinkPrecedences
<1> HIDE DEF returned
<1>7. stack' = Append(SubSeq(stack, 1, (n - 1) - 1), returned) /\ n - 1 \in Nat \ {0} /\ n - 1 <= Len(stack)
  <2>1. (n - 1) - 1 = n - 2
    BY <1>1
  <2> QED
    BY <1>1, <1>6, <2>1
<1>8. Len(stack') = n - 1 /\ stack'[n - 1] = returned /\ \A i \in 1..(n - 1) - 1 : stack'[i] = stack[i]
  BY <1>1, <1>7, NewTop
<1>9. \A i \in 1..n - 2 : stack'[i] = stack[i]
  BY <1>1, <1>8
<1> QED
  BY <1>1, <1>3, <1>4, <1>5, <1>8, <1>9 DEF returned

(* The outermost invocation returns, or a new one is made by main or Exec. *)
LEMMA ReturnFromAddStack ==
  ASSUME TypeOK, ReturnFromAdd
  PROVE  /\ Len(stack) = 1 /\ stack[1].todo = {} /\ stack[1] \in Frame
         /\ stack' = <<>> /\ Len(stack') = 0
<1>1. Len(stack) = 1 /\ stack[1].todo = {} /\ stack' = <<>>
  BY DEF ReturnFromAdd, top
<1>2. stack[1] \in Frame
  BY <1>1, StackLength
<1>3. Len(stack') = 0
  BY <1>1
<1> QED
  BY <1>1, <1>2, <1>3

-------------------------------------------------------------------------------
(* What no step of the manager takes back *)

LEMMA RunNecessary ==
  ASSUME KeysInv, Run
  PROVE  Necessary(status'[next]) <=> Necessary(status[next])
<1>1. next \in Vertex /\ status \in [Vertex -> Status] /\ status[next] \in Pending
  BY RunStatus DEF KeysInv, TypeOK
<1>2. PICK result \in Outcome(next) : status'[next] = result
  BY <1>1 DEF Run
<1>3. CASE status[next] = "UNNECESSARY"
  BY <1>2, <1>3 DEF Outcome, Necessary, Completed
<1>4. CASE status[next] = "UNEXECUTED"
  <2>1. result \in Completed \ {"SKIPPED"}
    BY <1>2, <1>4, AnswerAssumption DEF Outcome, Completed
  <2> QED
    BY <1>2, <1>4, <2>1 DEF Necessary
<1> QED
  BY <1>1, <1>3, <1>4 DEF Pending

LEMMA UndoneNecessary ==
  ASSUME NEW st \in Completed
  PROVE  Necessary(Undone(st, FALSE)) <=> Necessary(st)
BY DEF Undone, Necessary, Status, Completed, Pending

LEMMA InvalidateNecessary ==
  ASSUME KeysInv, NEW t \in Step, Invalidate(t)
  PROVE  /\ \A v \in Vertex \ {t} : Necessary(status'[v]) <=> Necessary(status[v])
         /\ Necessary(status[t]) => Necessary(status'[t])
<1>1. t \in Vertex /\ status \in [Vertex -> Status] /\ DeExecute(t) /\ status[t] # "NONEXISTENT"
  BY DEF KeysInv, TypeOK, Vertex, Invalidate
<1>2. /\ Reopened(t) \subseteq CompletedSteps \ {t}
      /\ \A v \in Vertex \ (Reopened(t) \cup {t}) : status'[v] = status[v]
      /\ status'[t] = Undone(status[t], TRUE)
  BY <1>1, DeExecuteStatus DEF KeysInv
<1>3. \A v \in Reopened(t) : status'[v] = Undone(status[v], FALSE)
  <2>1. Reopened(t) \subseteq Vertex
    BY <1>2 DEF CompletedSteps
  <2> QED
    BY <1>1, <2>1 DEF DeExecute
<1>4. \A v \in Vertex \ {t} : Necessary(status'[v]) <=> Necessary(status[v])
  <2>1. ASSUME NEW v \in Reopened(t) PROVE Necessary(status'[v]) <=> Necessary(status[v])
    <3>1. status[v] \in Completed
      BY <1>2 DEF CompletedSteps
    <3> QED
      BY <1>3, <3>1, UndoneNecessary
  <2> QED
    BY <1>2, <2>1
<1>5. Necessary(status[t]) => Necessary(status'[t])
  BY <1>1, <1>2 DEF Undone, Necessary, Completed, Pending
<1> QED
  BY <1>4, <1>5

LEMMA VisitStepNecessary ==
  ASSUME TypeOK, NEW s \in Step, VisitStep(s)
  PROVE  /\ \A v \in Vertex \ {s} : status'[v] = status[v]
         /\ status[s] \in {"NONEXISTENT", "UNNECESSARY"} /\ status'[s] \in Pending
         /\ ~Necessary(status[s]) /\ (Necessary(status'[s]) <=> ~top.unnecessary)
<1>1. s \in Vertex /\ status \in [Vertex -> Status]
  BY DEF TypeOK, Vertex
<1>2. \A v \in Vertex \ {s} : status'[v] = status[v]
  BY <1>1 DEF VisitStep
<1>3. status[s] \in {"NONEXISTENT", "UNNECESSARY"} /\ status'[s] \in Pending
  BY <1>1 DEF VisitStep, Pending
<1>4. ~Necessary(status[s])
  BY <1>3 DEF Necessary, Completed
<1>5. Necessary(status'[s]) <=> ~top.unnecessary
  BY <1>1 DEF VisitStep, Necessary, Completed
<1> QED
  BY <1>2, <1>3, <1>4, <1>5

LEMMA VisitStepGrows ==
  ASSUME TypeOK, NEW s \in Step, VisitStep(s)
  PROVE  Grows(status, status')
BY VisitStepNecessary DEF Grows, Pending

LEMMA StatusGrows ==
  ASSUME OrderInv, [Next]_vars
  PROVE  Grows(status, status')
<1>1. KeysInv /\ TypeOK
  BY DEF OrderInv, KeysInv
<1>2. ASSUME NEW s \in Step, VisitStep(s)
      PROVE  Grows(status, status')
  BY <1>1, <1>2, VisitStepGrows
<1>3. CASE Run
  BY <1>1, <1>3, RunStatus, RunNecessary DEF Grows, Run, TypeOK
<1>4. ASSUME NEW t \in Step, Invalidate(t)
      PROVE  Grows(status, status')
  BY <1>1, <1>4, InvalidateStatus, InvalidateNecessary DEF Grows
<1>5. CASE UNCHANGED <<status, needs>>
  BY <1>5 DEF Grows
<1> QED
  BY <1>1, <1>2, <1>3, <1>4, <1>5, StepKinds

LEMMA LinkedAdvances ==
  ASSUME NEW f \in Frame, NEW g, NEW h, NEW stat, NEW later,
         Linked(f, g, stat), Grows(stat, later),
         h.todo \subseteq g.todo, h.unnecessary = g.unnecessary,
         \A u \in g.todo \ h.todo : later[u] # "NONEXISTENT"
  PROVE  Linked(f, h, later)
<1>1. f.relationships \subseteq Vertex /\ (f.step \in Step => f.step \in Vertex)
  BY DEF Frame, Vertex
<1>2. \A u \in f.relationships : later[u] # "NONEXISTENT" \/ u \in h.todo
  BY <1>1 DEF Linked, Grows
<1>3. ~f.unnecessary /\ f.step \in Step => Necessary(later[f.step])
  BY <1>1 DEF Linked, Grows
<1> QED
  BY <1>2, <1>3 DEF Linked

LEMMA GrowsHere == Grows(status, status)
BY DEF Grows

LEMMA CallFields ==
  ASSUME NEW T, NEW u
  PROVE  /\ Call(T, u).todo = T /\ Call(T, u).unnecessary = u /\ Call(T, u).step = Entry
         /\ Call(T, u).phase = "visit" /\ Call(T, u).relationships = {}
BY DEF Call

-------------------------------------------------------------------------------
(* The stack holds a chain of invocations *)

LEMMA VisitKnownLinks ==
  ASSUME OrderInv, StackInv, NEW s \in Step, VisitKnown(s)
  PROVE  StackInv'
<1>0. TypeOK /\ status' = status /\ status[s] # "NONEXISTENT"
  BY DEF OrderInv, KeysInv, VisitKnown, graphVars
<1> DEFINE n == Len(stack)
<1>1. /\ n \in Nat \ {0} /\ Len(stack') = n /\ top = stack[n]
      /\ stack'[n] = [top EXCEPT !.todo = @ \ {s}]
      /\ \A i \in 1..n - 1 : stack'[i] = stack[i]
  BY <1>0, VisitKnownStack
<1>2. top \in Frame /\ \A i \in 1..n : stack[i] \in Frame
  BY <1>0, <1>1, StackLength
<1>3. /\ stack'[n].todo = top.todo \ {s} /\ stack'[n].unnecessary = top.unnecessary
      /\ stack'[n].phase = top.phase
  BY <1>1, <1>2 DEF Frame
<1>4. /\ \A i \in 1..n : stack[i].phase = "visit" <=> i = n
      /\ \A i \in 1..n - 1 : Linked(stack[i], stack[i + 1], status)
  BY DEF StackInv
<1> HIDE DEF n
<1>5. ASSUME NEW i \in 1..n PROVE stack'[i].phase = "visit" <=> i = n
  <2>1. stack'[i].phase = stack[i].phase
    <3>1. CASE i = n
      BY <1>1, <1>3, <3>1
    <3>2. CASE i # n
      <4>1. i \in 1..n - 1
        BY <1>1, <3>2
      <4> QED
        BY <1>1, <4>1
    <3> QED
      BY <3>1, <3>2
  <2> QED
    BY <1>4, <2>1
<1>6. ASSUME NEW i \in 1..n - 1 PROVE Linked(stack'[i], stack'[i + 1], status')
  <2>1. stack'[i] = stack[i] /\ stack[i] \in Frame /\ Linked(stack[i], stack[i + 1], status) /\ i + 1 \in 1..n
    BY <1>1, <1>2, <1>4
  <2>2. CASE i + 1 = n
    <3>1. \A u \in stack[i + 1].todo \ stack'[i + 1].todo : status'[u] # "NONEXISTENT"
      BY <1>0, <1>1, <1>3, <2>2
    <3>2. /\ stack'[i + 1].todo \subseteq stack[i + 1].todo
          /\ stack'[i + 1].unnecessary = stack[i + 1].unnecessary
      BY <1>1, <1>3, <2>2
    <3>3. Linked(stack[i], stack'[i + 1], status')
      BY <1>0, <2>1, <3>1, <3>2, LinkedAdvances, GrowsHere
    <3> QED
      BY <2>1, <3>3
  <2>3. CASE i + 1 # n
    <3>1. stack'[i + 1] = stack[i + 1]
      BY <1>1, <2>1, <2>3
    <3> QED
      BY <1>0, <2>1, <3>1
  <2> QED
    BY <2>2, <2>3
<1> QED
  BY <1>1, <1>5, <1>6 DEF StackInv

LEMMA VisitStepLinks ==
  ASSUME OrderInv, StackInv, NEW s \in Step, VisitStep(s)
  PROVE  StackInv'
<1>0. TypeOK
  BY DEF OrderInv, KeysInv
<1> DEFINE n == Len(stack)
<1>1. /\ n \in Nat \ {0} /\ Len(stack') = n + 1 /\ top = stack[n]
      /\ \A i \in 1..n - 1 : stack'[i] = stack[i]
  BY <1>0, VisitStepStack
<1>2. PICK answer \in Dependence[s] :
         /\ stack'[n] = [top EXCEPT !.todo = @ \ {s}, !.step = s, !.phase = "dependences",
                                    !.relationships = answer]
         /\ stack'[n + 1] = Call(answer, top.unnecessary)
  BY <1>0, VisitStepStack
<1>3. top \in Frame /\ \A i \in 1..n : stack[i] \in Frame
  BY <1>0, <1>1, StackLength
<1>4. /\ stack'[n].todo = top.todo \ {s} /\ stack'[n].unnecessary = top.unnecessary
      /\ stack'[n].phase = "dependences" /\ stack'[n].step = s /\ stack'[n].relationships = answer
  BY <1>2, <1>3 DEF Frame
<1>5. /\ stack'[n + 1].todo = answer /\ stack'[n + 1].unnecessary = top.unnecessary
      /\ stack'[n + 1].phase = "visit"
  BY <1>2, CallFields
<1>6. /\ \A i \in 1..n : stack[i].phase = "visit" <=> i = n
      /\ \A i \in 1..n - 1 : Linked(stack[i], stack[i + 1], status)
  BY DEF StackInv
<1>7. /\ Grows(status, status') /\ status'[s] # "NONEXISTENT"
      /\ ~top.unnecessary => Necessary(status'[s])
  BY <1>0, VisitStepNecessary, VisitStepGrows DEF Pending
<1> HIDE DEF n
<1>8. ASSUME NEW i \in 1..n + 1 PROVE stack'[i].phase = "visit" <=> i = n + 1
  <2>1. CASE i \in 1..n - 1
    <3>1. stack'[i].phase = stack[i].phase /\ i # n /\ i # n + 1 /\ i \in 1..n
      BY <1>1, <2>1
    <3> QED
      BY <1>6, <3>1
  <2>2. CASE i = n
    BY <1>1, <1>4, <2>2
  <2>3. CASE i = n + 1
    BY <1>5, <2>3
  <2> QED
    BY <1>1, <2>1, <2>2, <2>3
<1>9. ASSUME NEW i \in 1..n PROVE Linked(stack'[i], stack'[i + 1], status')
  <2>1. CASE i = n
    BY <1>4, <1>5, <1>7, <2>1, <1>2 DEF Linked
  <2>2. CASE i # n
    <3>1. i \in 1..n - 1 /\ i + 1 \in 1..n
      BY <1>1, <2>2
    <3>2. stack'[i] = stack[i] /\ stack[i] \in Frame /\ Linked(stack[i], stack[i + 1], status)
      BY <1>1, <1>3, <1>6, <3>1
    <3>3. CASE i + 1 = n
      BY <1>1, <1>4, <1>7, <3>2, <3>3, LinkedAdvances
    <3>4. CASE i + 1 # n
      <4>1. stack'[i + 1] = stack[i + 1]
        BY <1>1, <3>1, <3>4
      <4> QED
        BY <1>7, <3>2, <4>1, LinkedAdvances
    <3> QED
      BY <3>3, <3>4
  <2> QED
    BY <2>1, <2>2
<1> QED
  <2>1. Len(stack') - 1 = n
    BY <1>1
  <2> QED
    BY <1>1, <1>8, <1>9, <2>1 DEF StackInv

LEMMA LinkDependencesLinks ==
  ASSUME OrderInv, StackInv, LinkDependences
  PROVE  StackInv'
<1>0. TypeOK /\ status' = status
  BY DEF OrderInv, KeysInv, LinkDependences
<1> DEFINE n == Len(stack)
           caller == stack[n - 1]
<1>1. /\ n \in Nat /\ n > 1 /\ Len(stack') = n
      /\ caller \in Frame /\ caller.phase = "dependences" /\ caller.step \in Step
      /\ \A i \in 1..n - 2 : stack'[i] = stack[i]
  BY <1>0, LinkDependencesStack
<1>2. PICK answer \in Precedence[caller.step] :
         /\ stack'[n - 1] = [caller EXCEPT !.phase = "precedences", !.relationships = answer]
         /\ stack'[n] = Call(answer, TRUE)
  BY <1>0, LinkDependencesStack
<1>3. \A i \in 1..n : stack[i] \in Frame
  BY <1>0, StackLength
<1>4. /\ \A i \in 1..n : stack[i].phase = "visit" <=> i = n
      /\ \A i \in 1..n - 1 : Linked(stack[i], stack[i + 1], status)
  BY DEF StackInv
<1>5. /\ stack'[n - 1].todo = caller.todo /\ stack'[n - 1].unnecessary = caller.unnecessary
      /\ stack'[n - 1].phase = "precedences" /\ stack'[n - 1].step = caller.step
      /\ stack'[n - 1].relationships = answer
  BY <1>1, <1>2 DEF Frame
<1>6. stack'[n].todo = answer /\ stack'[n].unnecessary /\ stack'[n].phase = "visit"
  BY <1>2 DEF Call
<1>7. ~caller.unnecessary => Necessary(status[caller.step])
  <2>1. Linked(caller, stack[(n - 1) + 1], status)
    BY <1>1, <1>4
  <2> QED
    BY <1>1, <2>1 DEF Linked
<1> HIDE DEF n
<1> HIDE DEF caller
<1>8. ASSUME NEW i \in 1..n PROVE stack'[i].phase = "visit" <=> i = n
  <2>1. CASE i \in 1..n - 2
    <3>1. stack'[i].phase = stack[i].phase /\ i # n
      BY <1>1, <2>1
    <3> QED
      BY <1>4, <3>1
  <2>2. CASE i = n - 1
    BY <1>1, <1>5, <2>2
  <2>3. CASE i = n
    BY <1>6, <2>3
  <2> QED
    BY <1>1, <2>1, <2>2, <2>3
<1>9. ASSUME NEW i \in 1..n - 1 PROVE Linked(stack'[i], stack'[i + 1], status')
  <2>1. CASE i = n - 1
    <3>1. i + 1 = n
      BY <1>1, <2>1
    <3> QED
      BY <1>0, <1>2, <1>5, <1>6, <1>7, <2>1, <3>1 DEF Linked
  <2>2. CASE i # n - 1
    <3>1. i \in 1..n - 2 /\ i + 1 \in 1..n - 1 /\ i \in 1..n
      BY <1>1, <2>2
    <3>2. stack'[i] = stack[i] /\ stack[i] \in Frame /\ Linked(stack[i], stack[i + 1], status)
      BY <1>1, <1>3, <1>4, <3>1
    <3>3. CASE i + 1 = n - 1
      <4>1. /\ stack'[i + 1].todo = stack[i + 1].todo
            /\ stack'[i + 1].unnecessary = stack[i + 1].unnecessary
        BY <1>5, <3>3 DEF caller
      <4> QED
        BY <1>0, <3>2, <4>1, LinkedAdvances, GrowsHere
    <3>4. CASE i + 1 # n - 1
      <4>1. i + 1 \in 1..n - 2
        BY <1>1, <3>1, <3>4
      <4> QED
        BY <1>0, <1>1, <3>2, <4>1
    <3> QED
      BY <3>3, <3>4
  <2> QED
    BY <2>1, <2>2
<1> QED
  BY <1>1, <1>8, <1>9 DEF StackInv

LEMMA LinkPrecedencesLinks ==
  ASSUME OrderInv, StackInv, LinkPrecedences
  PROVE  StackInv'
<1>0. TypeOK /\ status' = status
  BY DEF OrderInv, KeysInv, LinkPrecedences
<1> DEFINE n == Len(stack)
           caller == stack[n - 1]
<1>1. /\ n \in Nat /\ n > 1 /\ Len(stack') = n - 1
      /\ caller \in Frame
      /\ stack'[n - 1] = [caller EXCEPT !.step = Entry, !.phase = "visit", !.relationships = {}]
      /\ \A i \in 1..n - 2 : stack'[i] = stack[i]
  BY <1>0, LinkPrecedencesStack
<1>3. \A i \in 1..n : stack[i] \in Frame
  BY <1>0, StackLength
<1>4. /\ \A i \in 1..n : stack[i].phase = "visit" <=> i = n
      /\ \A i \in 1..n - 1 : Linked(stack[i], stack[i + 1], status)
  BY DEF StackInv
<1>5. /\ stack'[n - 1].todo = caller.todo /\ stack'[n - 1].unnecessary = caller.unnecessary
      /\ stack'[n - 1].phase = "visit"
  BY <1>1 DEF Frame
<1> HIDE DEF n
<1> HIDE DEF caller
<1>8. ASSUME NEW i \in 1..n - 1 PROVE stack'[i].phase = "visit" <=> i = n - 1
  <2>1. CASE i \in 1..n - 2
    <3>1. stack'[i].phase = stack[i].phase /\ i # n /\ i # n - 1 /\ i \in 1..n
      BY <1>1, <2>1
    <3> QED
      BY <1>4, <3>1
  <2>2. CASE i = n - 1
    BY <1>1, <1>5, <2>2
  <2> QED
    BY <1>1, <2>1, <2>2
<1>9. ASSUME NEW i \in 1..n - 2 PROVE Linked(stack'[i], stack'[i + 1], status')
  <2>1. i \in 1..n /\ i \in 1..n - 1 /\ i + 1 \in 1..n - 1
    BY <1>1
  <2>2. stack'[i] = stack[i] /\ stack[i] \in Frame /\ Linked(stack[i], stack[i + 1], status)
    BY <1>1, <1>3, <1>4, <2>1
  <2>3. CASE i + 1 = n - 1
    <3>1. /\ stack'[i + 1].todo = stack[i + 1].todo
          /\ stack'[i + 1].unnecessary = stack[i + 1].unnecessary
      BY <1>5, <2>3 DEF caller
    <3> QED
      BY <1>0, <2>2, <3>1, LinkedAdvances, GrowsHere
  <2>4. CASE i + 1 # n - 1
    <3>1. i + 1 \in 1..n - 2
      BY <1>1, <2>1, <2>4
    <3> QED
      BY <1>0, <1>1, <2>2, <3>1
  <2> QED
    BY <2>3, <2>4
<1> QED
  <2>1. Len(stack') - 1 = n - 2
    BY <1>1
  <2> QED
    BY <1>1, <1>8, <1>9, <2>1 DEF StackInv

(* A stack of at most one frame, a call, has nothing to link.               *)
LEMMA NewCallLinks ==
  ASSUME NEW T, NEW u, stack' = <<Call(T, u)>>
  PROVE  StackInv' /\ Len(stack') = 1 /\ stack'[1] = Call(T, u)
<1>1. Len(stack') = 1 /\ stack'[1] = Call(T, u)
  OBVIOUS
<1>2. stack'[1].phase = "visit"
  BY <1>1, CallFields
<1> QED
  BY <1>1, <1>2 DEF StackInv

LEMMA IdleLinks ==
  ASSUME OrderInv, StackInv, UNCHANGED stack, Grows(status, status')
  PROVE  StackInv'
<1>1. Len(stack) \in Nat /\ \A i \in 1..Len(stack) : stack[i] \in Frame
  BY StackLength DEF OrderInv, KeysInv
<1>2. ASSUME NEW i \in 1..Len(stack) - 1
      PROVE  Linked(stack[i], stack[i + 1], status')
  <2>1. stack[i] \in Frame /\ Linked(stack[i], stack[i + 1], status)
    BY <1>1 DEF StackInv
  <2> QED
    BY <2>1, LinkedAdvances
<1> QED
  BY <1>2 DEF StackInv

LEMMA NextStackInv == OrderInv /\ StackInv /\ [Next]_vars => StackInv'
<1> SUFFICES ASSUME OrderInv, StackInv, [Next]_vars
             PROVE  StackInv'
  OBVIOUS
<1>1. ASSUME UNCHANGED stack PROVE StackInv'
  BY <1>1, IdleLinks, StatusGrows
<1>2. ASSUME NEW s \in Step, VisitKnown(s) PROVE StackInv'
  BY <1>2, VisitKnownLinks
<1>3. ASSUME NEW s \in Step, VisitSkipped(s) PROVE UNCHANGED stack
  BY <1>3 DEF VisitSkipped
<1>4. ASSUME NEW s \in Step, VisitStep(s) PROVE StackInv'
  BY <1>4, VisitStepLinks
<1>5. CASE LinkDependences
  BY <1>5, LinkDependencesLinks
<1>6. CASE LinkPrecedences
  BY <1>6, LinkPrecedencesLinks
<1>7. CASE ReturnFromAdd
  <2>1. Len(stack') = 0
    BY <1>7 DEF ReturnFromAdd
  <2> QED
    BY <2>1 DEF StackInv
<1>8. ASSUME NEW S \in SUBSET Requested, AddSteps(S) PROVE StackInv'
  BY <1>8, NewCallLinks DEF AddSteps
<1>9. ASSUME NEW e \in possibly_ready, Consider(e) PROVE StackInv'
  BY <1>9, NewCallLinks DEF Consider
<1>10. CASE RecomputePrecedences
  BY <1>10, NewCallLinks DEF RecomputePrecedences
<1>11. CASE Exec \/ NotReady \/ Run \/ EndIteration \/ EndExec
  BY <1>1, <1>11 DEF Exec, NotReady, Run, EndIteration, EndExec
<1>12. ASSUME NEW t \in Step, Invalidate(t) \/ InvalidateWrongly(t) PROVE UNCHANGED stack
  BY <1>12 DEF Invalidate, InvalidateWrongly
<1>13. CASE UNCHANGED vars
  BY <1>1, <1>13 DEF vars
<1> QED
  BY <1>1, <1>2, <1>3, <1>4, <1>5, <1>6, <1>7, <1>8, <1>9, <1>10, <1>11, <1>12, <1>13
  DEF Next, RecursivelyAddSteps, Stop

-------------------------------------------------------------------------------
(* The outermost invocation, and what Exec asked *)

(* A step of an invocation leaves the outermost one as needed as it was,    *)
(* and takes off its list only steps that exist.                            *)
BottomKept ==
  /\ stack # <<>> /\ stack' # <<>>
  /\ stack'[1].unnecessary = stack[1].unnecessary
  /\ stack'[1].todo \subseteq stack[1].todo
  /\ \A u \in stack[1].todo \ stack'[1].todo : status'[u] # "NONEXISTENT"

LEMMA VisitKnownBottom ==
  ASSUME TypeOK, NEW s \in Step, VisitKnown(s)
  PROVE  BottomKept
<1> DEFINE n == Len(stack)
<1>1. /\ n \in Nat \ {0} /\ Len(stack') = n /\ top = stack[n]
      /\ stack'[n] = [top EXCEPT !.todo = @ \ {s}]
      /\ \A i \in 1..n - 1 : stack'[i] = stack[i]
  BY VisitKnownStack
<1>2. stack # <<>> /\ stack' # <<>> /\ top \in Frame /\ status' = status /\ status[s] # "NONEXISTENT"
  BY <1>1, TopIsFrame DEF VisitKnown, TypeOK, graphVars
<1>3. stack'[n].todo = top.todo \ {s} /\ stack'[n].unnecessary = top.unnecessary
  BY <1>1, <1>2 DEF Frame
<1>4. CASE n = 1
  BY <1>1, <1>2, <1>3, <1>4 DEF BottomKept
<1>5. CASE n # 1
  <2>1. 1 \in 1..n - 1
    BY <1>1, <1>5
  <2> QED
    BY <1>1, <1>2, <2>1 DEF BottomKept
<1> QED
  BY <1>4, <1>5

LEMMA VisitStepBottom ==
  ASSUME TypeOK, NEW s \in Step, VisitStep(s)
  PROVE  BottomKept
<1> DEFINE n == Len(stack)
<1>1. /\ n \in Nat \ {0} /\ Len(stack') = n + 1 /\ top = stack[n]
      /\ \A i \in 1..n - 1 : stack'[i] = stack[i]
  BY VisitStepStack
<1>2. PICK answer \in Dependence[s] :
        /\ stack'[n] = [top EXCEPT !.todo = @ \ {s}, !.step = s, !.phase = "dependences",
                                   !.relationships = answer]
        /\ stack'[n + 1] = Call(answer, top.unnecessary)
  BY VisitStepStack
<1>3. stack # <<>> /\ stack' # <<>> /\ top \in Frame /\ status'[s] # "NONEXISTENT"
  <2>1. stack # <<>> /\ stack \in Seq(Frame)
    BY DEF VisitStep, TypeOK, Returned
  <2>2. top \in Frame
    BY <2>1, TopIsFrame DEF Returned
  <2>3. status'[s] # "NONEXISTENT"
    BY VisitStepNecessary DEF Pending
  <2>4. stack' # <<>>
    BY <1>1
  <2> QED
    BY <2>1, <2>2, <2>3, <2>4
<1> HIDE DEF n
<1>4. stack'[n].todo = top.todo \ {s} /\ stack'[n].unnecessary = top.unnecessary
  BY <1>2, <1>3 DEF Frame
<1>5. CASE n = 1
  BY <1>1, <1>3, <1>4, <1>5 DEF BottomKept
<1>6. CASE n # 1
  <2>1. 1 \in 1..n - 1
    BY <1>1, <1>6
  <2> QED
    BY <1>1, <1>3, <2>1 DEF BottomKept
<1> QED
  BY <1>5, <1>6

LEMMA LinkDependencesBottom ==
  ASSUME TypeOK, LinkDependences
  PROVE  BottomKept
<1> DEFINE n == Len(stack)
           caller == stack[n - 1]
<1>1. /\ n \in Nat /\ n > 1 /\ Len(stack') = n /\ caller \in Frame
      /\ \A i \in 1..n - 2 : stack'[i] = stack[i]
  BY LinkDependencesStack
<1>2. PICK answer \in Precedence[caller.step] :
        stack'[n - 1] = [caller EXCEPT !.phase = "precedences", !.relationships = answer]
  BY LinkDependencesStack
<1>3. stack # <<>> /\ stack' # <<>>
  BY <1>1
<1>4. stack'[n - 1].todo = caller.todo /\ stack'[n - 1].unnecessary = caller.unnecessary
  BY <1>1, <1>2 DEF Frame
<1> HIDE DEF n, caller
<1>5. CASE n - 1 = 1
  BY <1>3, <1>4, <1>5 DEF BottomKept, caller
<1>6. CASE n - 1 # 1
  <2>1. 1 \in 1..n - 2
    BY <1>1, <1>6
  <2> QED
    BY <1>1, <1>3, <2>1 DEF BottomKept
<1> QED
  BY <1>5, <1>6

LEMMA LinkPrecedencesBottom ==
  ASSUME TypeOK, LinkPrecedences
  PROVE  BottomKept
<1> DEFINE n == Len(stack)
           caller == stack[n - 1]
<1>1. /\ n \in Nat /\ n > 1 /\ Len(stack') = n - 1 /\ caller \in Frame
      /\ stack'[n - 1] = [caller EXCEPT !.step = Entry, !.phase = "visit", !.relationships = {}]
      /\ \A i \in 1..n - 2 : stack'[i] = stack[i]
  BY LinkPrecedencesStack
<1>3. stack # <<>> /\ stack' # <<>>
  BY <1>1
<1>4. stack'[n - 1].todo = caller.todo /\ stack'[n - 1].unnecessary = caller.unnecessary
  BY <1>1 DEF Frame
<1> HIDE DEF n, caller
<1>5. CASE n - 1 = 1
  BY <1>3, <1>4, <1>5 DEF BottomKept, caller
<1>6. CASE n - 1 # 1
  <2>1. 1 \in 1..n - 2
    BY <1>1, <1>6
  <2> QED
    BY <1>1, <1>3, <2>1 DEF BottomKept
<1> QED
  BY <1>5, <1>6

(* Which invocation a step of RecursivelyAddSteps takes a step of: it       *)
(* changes nothing that Exec keeps, but for the throw.                      *)
LEMMA InvocationSteps ==
  ASSUME KeysInv, RecursivelyAddSteps
  PROVE  /\ \/ BottomKept
            \/ stack # <<>> /\ stack[1].todo = {} /\ stack' = <<>>
            \/ UNCHANGED <<status, edges, possibly_ready, stack>> /\ pc' = "already skipped"
         /\ \/ pc' = pc
            \/ pc' = "already skipped" /\ UNCHANGED <<status, edges, possibly_ready, stack>>
         /\ stack # <<>>
         /\ UNCHANGED <<next, pre_dependence, pre_precedence>>
         /\ Recomputing => status'[next] = status[next]
<1>0. TypeOK
  BY DEF KeysInv
<1>1. ASSUME NEW s \in Step, VisitKnown(s)
      PROVE  /\ BottomKept /\ pc' = pc /\ UNCHANGED <<next, pre_dependence, pre_precedence>>
             /\ status' = status
  BY <1>0, <1>1, VisitKnownBottom DEF VisitKnown, graphVars, loopVars
<1>2. ASSUME NEW s \in Step, VisitStep(s)
      PROVE  /\ BottomKept /\ pc' = pc /\ UNCHANGED <<next, pre_dependence, pre_precedence>>
             /\ Recomputing => status'[next] = status[next]
  <2>1. BottomKept /\ pc' = pc /\ UNCHANGED <<next, pre_dependence, pre_precedence>>
    BY <1>0, <1>2, VisitStepBottom DEF VisitStep, loopVars
  <2>2. ASSUME Recomputing PROVE next # s
    <3>1. top \in GoodFrame
      BY <1>2, ReplaceTop DEF KeysInv, VisitStep, Returned, top
    <3> QED
      BY <1>2, <2>2, <3>1 DEF KeysInv, GoodFrame, VisitStep, Pending
  <2> QED
    BY <1>0, <1>2, <2>1, <2>2, VisitStepNecessary DEF TypeOK
<1>3. ASSUME NEW s \in Step, VisitSkipped(s)
      PROVE  /\ UNCHANGED <<status, edges, possibly_ready, stack, next, pre_dependence, pre_precedence>>
             /\ pc' = "already skipped" /\ stack # <<>>
  BY <1>3 DEF VisitSkipped, graphVars, loopVars, Returned
<1>4. CASE LinkDependences
  BY <1>0, <1>4, LinkDependencesBottom DEF LinkDependences, loopVars, BottomKept
<1>5. CASE LinkPrecedences
  BY <1>0, <1>5, LinkPrecedencesBottom DEF LinkPrecedences, loopVars, BottomKept
<1>6. CASE ReturnFromAdd
  <2>1. stack # <<>> /\ stack[1].todo = {} /\ stack' = <<>>
    BY <1>0, <1>6, ReturnFromAddStack
  <2> QED
    BY <1>6, <2>1 DEF ReturnFromAdd, graphVars, loopVars
<1> QED
  BY <1>1, <1>2, <1>3, <1>4, <1>5, <1>6 DEF RecursivelyAddSteps, BottomKept

LEMMA RecursivelyCalls ==
  ASSUME OrderInv, CallInv, RecursivelyAddSteps, [Next]_vars
  PROVE  CallInv'
<1>1. Grows(status, status') /\ KeysInv /\ TypeOK
  BY StatusGrows DEF OrderInv, KeysInv
<1>2. \A u \in Existing : u \in Existing'
  BY <1>1 DEF Existing, Grows
<1>3. CASE pc' = "already skipped" /\ UNCHANGED stack
  BY <1>3 DEF CallInv, Recomputing
<1>4. CASE pc' = pc /\ BottomKept
  <2>1. /\ UNCHANGED <<pc, next, pre_dependence, pre_precedence>> /\ (Recomputing' <=> Recomputing)
        /\ Recomputing => status'[next] = status[next]
    BY <1>1, <1>4, InvocationSteps DEF Recomputing
  <2>2. BottomTodo' = stack'[1].todo /\ BottomTodo = stack[1].todo
    BY <1>4 DEF BottomKept, BottomTodo
  <2>3. ASSUME NEW T \in SUBSET Vertex, T \subseteq Existing \cup BottomTodo
        PROVE  T \subseteq Existing' \cup BottomTodo'
    BY <1>2, <1>4, <2>2, <2>3 DEF BottomKept, Existing
  <2>4. pre_dependence \in SUBSET Vertex /\ pre_precedence \in SUBSET Vertex
    BY <1>1 DEF TypeOK, Vertex
  <2>5. pre_dependence \subseteq Existing => pre_dependence \subseteq Existing'
    BY <1>2
  <2>6. /\ stack' # <<>> => pc' \in {"main", "already skipped"} \/ Recomputing'
        /\ pc' = "main" => stack'[1].todo \subseteq Requested
        /\ pc' = "recompute precedences" => stack'[1].unnecessary
    BY <1>4, <2>1 DEF CallInv, BottomKept
  <2>7. pc' = "recompute dependences" =>
          stack'[1].todo \subseteq pre_dependence' /\ stack'[1].unnecessary = NotNeeded(next)'
    BY <1>4, <2>1 DEF CallInv, BottomKept, NotNeeded, Recomputing
  <2>8. Recomputing' => pre_dependence' \in Answers(Dependence, next')
    BY <2>1 DEF CallInv
  <2>9. pc' = "recompute dependences" => pre_dependence' \subseteq Existing' \cup BottomTodo'
    BY <2>1, <2>3, <2>4 DEF CallInv
  <2>10. pc' = "recompute precedences" =>
           /\ pre_dependence' \subseteq Existing'
           /\ pre_precedence' \in Answers(Precedence, next')
           /\ pre_precedence' \subseteq Existing' \cup BottomTodo'
    BY <2>1, <2>3, <2>4, <2>5 DEF CallInv
  <2> QED
    BY <2>6, <2>7, <2>8, <2>9, <2>10 DEF CallInv
<1>5. CASE pc' = pc /\ stack # <<>> /\ stack[1].todo = {} /\ stack' = <<>>
  <2>1. /\ UNCHANGED <<pc, next, pre_dependence, pre_precedence>> /\ (Recomputing' <=> Recomputing)
    BY <1>1, <1>5, InvocationSteps DEF Recomputing
  <2>2. BottomTodo' = {} /\ BottomTodo = {}
    BY <1>5 DEF BottomTodo
  <2>3. \A T : T \subseteq Existing => T \subseteq Existing'
    BY <1>2
  <2>4. Recomputing' => pre_dependence' \in Answers(Dependence, next')
    BY <2>1 DEF CallInv
  <2>5. pc' = "recompute dependences" => pre_dependence' \subseteq Existing' \cup BottomTodo'
    BY <2>1, <2>2, <2>3 DEF CallInv
  <2>6. pc' = "recompute precedences" =>
           /\ pre_dependence' \subseteq Existing'
           /\ pre_precedence' \in Answers(Precedence, next')
           /\ pre_precedence' \subseteq Existing' \cup BottomTodo'
    BY <2>1, <2>2, <2>3 DEF CallInv
  <2> QED
    BY <1>5, <2>4, <2>5, <2>6 DEF CallInv
<1> QED
  BY <1>1, <1>3, <1>4, <1>5, InvocationSteps

LEMMA NextCallInv == OrderInv /\ CallInv /\ [Next]_vars => CallInv'
<1> SUFFICES ASSUME OrderInv, CallInv, [Next]_vars
             PROVE  CallInv'
  OBVIOUS
<1>0. TypeOK /\ TypeOK'
  BY NextTypeOK DEF OrderInv, KeysInv
<1>1. CASE RecursivelyAddSteps
  BY <1>1, RecursivelyCalls
<1>2. ASSUME NEW S \in SUBSET Requested, AddSteps(S) PROVE CallInv'
  <2>1. stack' # <<>> /\ stack'[1].todo = S /\ pc' = "main"
    BY <1>2, NewCallLinks, CallFields DEF AddSteps
  <2> QED
    BY <2>1 DEF CallInv, Recomputing
<1>3. ASSUME NEW e \in possibly_ready, Consider(e) PROVE CallInv'
  <2>1. stack' = <<Call(pre_dependence', NotNeeded(e.step))>> /\ next' = e.step /\ status' = status
    BY <1>3 DEF Consider, graphVars
  <2>2. /\ stack' # <<>> /\ stack'[1].todo = pre_dependence' /\ stack'[1].unnecessary = NotNeeded(e.step)
    BY <2>1, NewCallLinks, CallFields
  <2>3. pc' = "recompute dependences" /\ pre_dependence' \in Answers(Dependence, next')
    BY <1>3 DEF Consider
  <2>4. NotNeeded(next)' = NotNeeded(e.step)
    BY <2>1 DEF NotNeeded
  <2>5. BottomTodo' = pre_dependence'
    BY <2>2 DEF BottomTodo
  <2> QED
    BY <2>2, <2>3, <2>4, <2>5 DEF CallInv, Recomputing
<1>4. CASE RecomputePrecedences
  <2>1. stack' = <<Call(pre_precedence', TRUE)>> /\ UNCHANGED <<next, pre_dependence, status>> /\ stack = <<>>
    BY <1>4 DEF RecomputePrecedences, graphVars, Returned
  <2>2. stack' # <<>> /\ stack'[1].todo = pre_precedence' /\ stack'[1].unnecessary
    BY <2>1 DEF Call
  <2>3. pc' = "recompute precedences" /\ pre_precedence' \in Answers(Precedence, next') /\ pc = "recompute dependences"
    BY <1>4, <2>1 DEF RecomputePrecedences
  <2>4. BottomTodo' = pre_precedence' /\ BottomTodo = {}
    BY <2>1, <2>2 DEF BottomTodo
  <2>5. pre_dependence' \subseteq Existing'
    BY <2>1, <2>3, <2>4 DEF CallInv, Existing
  <2>6. pre_dependence' \in Answers(Dependence, next')
    BY <2>1, <2>3 DEF CallInv, Recomputing
  <2> QED
    BY <2>2, <2>3, <2>4, <2>5, <2>6 DEF CallInv, Recomputing
<1>5. CASE stack = <<>> /\ stack' = <<>> /\ ~Recomputing'
  BY <1>5 DEF CallInv, Recomputing
<1>6. CASE Exec \/ NotReady \/ Run
  BY <1>5, <1>6 DEF Exec, NotReady, Run, Returned, Recomputing
<1>7. ASSUME ~Recomputing, pc # "main", pc # "already skipped"
      PROVE  stack = <<>>
  BY <1>7 DEF CallInv
<1>8. CASE EndIteration \/ EndExec
  BY <1>5, <1>7, <1>8 DEF EndIteration, EndExec, Recomputing
<1>9. ASSUME NEW t \in Step, Invalidate(t) \/ InvalidateWrongly(t) PROVE CallInv'
  BY <1>5, <1>7, <1>9 DEF Invalidate, InvalidateWrongly, Recomputing
<1>10. CASE UNCHANGED vars
  BY <1>10 DEF vars, graphVars, loopVars, CallInv, Recomputing, Existing, BottomTodo, NotNeeded
<1> QED
  BY <1>1, <1>2, <1>3, <1>4, <1>6, <1>8, <1>9, <1>10 DEF Next, Stop

-------------------------------------------------------------------------------
(* The edges *)

(* The edges a step draws: into a step whose answer has been added, between *)
(* that step and Entry or Exit, or into the step that Exec considers.       *)
DrawnByAdd(k, u, v) ==
  LET caller == stack[Len(stack) - 1]
  IN /\ LinkDependences \/ LinkPrecedences
     /\ \/ LinkDependences /\ k = "DEPENDENCE" /\ u \in caller.relationships /\ v = caller.step
        \/ LinkPrecedences /\ k = "PRECEDENCE" /\ u \in caller.relationships /\ v = caller.step
        \/ LinkPrecedences /\ k = "AUX" /\ u = Entry /\ v = caller.step
        \/ LinkPrecedences /\ k = "AUX" /\ u = caller.step /\ v = Exit

DrawnByExec(k, u, v) ==
  /\ NotReady \/ Run
  /\ v = next
  /\ \/ k = "DEPENDENCE" /\ u \in pre_dependence
     \/ k = "PRECEDENCE" /\ u \in pre_precedence

LEMMA EdgesDrawn ==
  ASSUME [Next]_vars, NEW k \in FlowSelector, NEW u, NEW v, <<k, u, v>> \in edges'
  PROVE  <<k, u, v>> \in edges \/ DrawnByAdd(k, u, v) \/ DrawnByExec(k, u, v)
<1>1. CASE LinkPrecedences
  <2> DEFINE caller == stack[Len(stack) - 1]
             drawn == edges \cup ({"PRECEDENCE"} \X caller.relationships \X {caller.step})
  <2>1. edges' = HookUp(drawn, caller.step)
    BY <1>1 DEF LinkPrecedences
  <2>2. \/ <<k, u, v>> \in drawn
        \/ <<k, u, v>> = <<"AUX", Entry, caller.step>>
        \/ <<k, u, v>> = <<"AUX", caller.step, Exit>>
    <3> HIDE DEF drawn, caller
    <3> QED
      BY <2>1 DEF HookUp
  <2> QED
    BY <1>1, <2>2 DEF DrawnByAdd
<1>2. CASE EndIteration
  BY <1>2 DEF EndIteration, Unhooked
<1>3. CASE LinkDependences
  BY <1>3 DEF LinkDependences, DrawnByAdd
<1>4. CASE NotReady \/ Run
  <2>1. LinkNext
    BY <1>4 DEF NotReady, Run
  <2> QED
    BY <1>4, <2>1 DEF LinkNext, DrawnByExec
<1>5. ASSUME NEW t \in Step, Invalidate(t)
      PROVE  <<k, u, v>> \in edges
  BY <1>5 DEF Invalidate, FlowSelector
<1>6. ASSUME NEW s \in Step, VisitKnown(s) \/ VisitSkipped(s) \/ VisitStep(s)
      PROVE  edges' = edges
  BY <1>6 DEF VisitKnown, VisitSkipped, VisitStep, graphVars
<1>7. ASSUME NEW S \in SUBSET Requested, AddSteps(S)
      PROVE  edges' = edges
  BY <1>7 DEF AddSteps, graphVars
<1>8. ASSUME NEW e \in possibly_ready, Consider(e)
      PROVE  edges' = edges
  BY <1>8 DEF Consider, graphVars
<1>9. ASSUME NEW t \in Step, InvalidateWrongly(t)
      PROVE  edges' = edges
  BY <1>9 DEF InvalidateWrongly, graphVars
<1>10. CASE ReturnFromAdd \/ Exec \/ RecomputePrecedences \/ EndExec
  BY <1>10 DEF ReturnFromAdd, Exec, RecomputePrecedences, EndExec, graphVars
<1>11. CASE UNCHANGED vars
  BY <1>11 DEF vars, graphVars
<1>12. QED
  BY <1>1, <1>2, <1>3, <1>4, <1>5, <1>6, <1>7, <1>8, <1>9, <1>10, <1>11
  DEF Next, RecursivelyAddSteps, Stop

(* The invocation that draws edges adds a pending step, and what it asked   *)
(* for is in the graph.                                                     *)
LEMMA CallerDraws ==
  ASSUME KeysInv, StackInv, LinkDependences \/ LinkPrecedences,
         NEW caller, caller = stack[Len(stack) - 1]
  PROVE  /\ caller.step \in Step /\ status[caller.step] \in Pending
         /\ Recomputing => caller.step # next
         /\ caller.relationships \subseteq Step
         /\ \A u \in caller.relationships : status[u] # "NONEXISTENT"
         /\ LinkDependences => caller.relationships \in Dependence[caller.step]
         /\ LinkPrecedences => caller.relationships \in Precedence[caller.step]
         /\ LinkDependences /\ ~caller.unnecessary => Necessary(status[caller.step])
         /\ LinkDependences => caller.phase = "dependences"
         /\ UNCHANGED <<status, pc, next>>
<1>0. TypeOK
  BY DEF KeysInv
<1>1. PICK n \in Nat : n = Len(stack) /\ n > 1 /\ stack[n].todo = {} /\ caller = stack[n - 1]
                       /\ caller.step \in Step
                       /\ (LinkDependences => caller.phase = "dependences")
                       /\ (LinkPrecedences => caller.phase = "precedences")
  <2>1. CASE LinkDependences
    BY <1>0, <2>1, LinkDependencesStack DEF LinkDependences, LinkPrecedences, Resumable
  <2>2. CASE LinkPrecedences
    BY <1>0, <2>2, LinkPrecedencesStack DEF LinkDependences, LinkPrecedences, Resumable
  <2> QED
    BY <2>1, <2>2
<1>2. n - 1 \in 1..Len(stack) - 1 /\ (n - 1) + 1 = n
  BY <1>1
<1>3. Linked(caller, stack[n], status)
  BY <1>1, <1>2 DEF StackInv
<1>4. caller \in GoodFrame
  BY <1>1, CallerIsGood DEF KeysInv
<1>5. caller.relationships \subseteq Step /\ status[caller.step] \in Pending /\ (Recomputing => caller.step # next)
  BY <1>1, <1>4 DEF GoodFrame, Frame
<1>6. UNCHANGED <<status, pc, next>>
  BY DEF LinkDependences, LinkPrecedences, loopVars
<1>7. \A u \in caller.relationships : status[u] # "NONEXISTENT"
  BY <1>1, <1>3 DEF Linked
<1>8. /\ LinkDependences => caller.relationships \in Dependence[caller.step]
      /\ LinkPrecedences => caller.relationships \in Precedence[caller.step]
      /\ LinkDependences /\ ~caller.unnecessary => Necessary(status[caller.step])
  BY <1>1, <1>3 DEF Linked
<1> QED
  BY <1>1, <1>5, <1>6, <1>7, <1>8

(* What Exec asked the step it considers is in the graph when it draws its  *)
(* edges.                                                                   *)
LEMMA ExecDraws ==
  ASSUME KeysInv, CallInv, NotReady \/ Run
  PROVE  /\ next \in Vertex /\ status[next] \in Pending
         /\ pre_dependence \in Answers(Dependence, next)
         /\ pre_precedence \in Answers(Precedence, next)
         /\ Asked \subseteq Step
         /\ Asked # {} => next \in Step
         /\ \A u \in Asked : status[u] # "NONEXISTENT"
<1>1. pc = "recompute precedences" /\ Recomputing /\ stack = <<>>
  BY DEF NotReady, Run, Returned, Recomputing
<1>2. next \in Vertex /\ status[next] \in Pending /\ Asked \subseteq Step
  BY <1>1 DEF KeysInv, TypeOK, Asked
<1>3. BottomTodo = {}
  BY <1>1 DEF BottomTodo
<1>4. /\ pre_dependence \in Answers(Dependence, next)
      /\ pre_precedence \in Answers(Precedence, next)
  BY <1>1 DEF CallInv
<1>5. \A u \in Asked : status[u] # "NONEXISTENT"
  BY <1>1, <1>3 DEF CallInv, Asked, Existing
<1>6. Asked # {} => next \in Step
  BY <1>4 DEF Answers, Asked
<1> QED
  BY <1>2, <1>4, <1>5, <1>6

LEMMA EdgeOKGrows ==
  ASSUME NEW k, NEW u \in Vertex, NEW v \in Vertex, NEW stat, NEW later,
         EdgeOK(k, u, v, stat), Grows(stat, later)
  PROVE  EdgeOK(k, u, v, later)
BY DEF EdgeOK, Grows

(* Entry has no predecessor, so no invalidation reaches it.                 *)
LEMMA EntryStays ==
  ASSUME KeysInv, EdgesInv, NEW t \in Step, Invalidate(t)
  PROVE  status'[Entry] = "EMPTY" /\ status'[Exit] \in {"UNEXECUTED", "EMPTY"}
<1> DEFINE ok == CompletedSteps \ {t}
           Y == Reopened(t) \ {Entry}
<1>1. \A u \in Vertex : Entry \notin Successors(u)
  BY DEF EdgesInv, EdgeOK, Successors, TargetsIn, FlowSelector, Vertex
<1>2. Reopened(t) \in SUBSET ok /\ IsClosed(Reopened(t), t, ok)
  BY ClosureProperties DEF Reopened
<1>3. ok \subseteq Vertex /\ t \in Vertex /\ Entry \in Vertex /\ Exit \in Vertex /\ t # Entry /\ t # Exit
  BY VertexAssumption DEF Vertex, CompletedSteps
<1> HIDE DEF ok
<1>4. IsClosed(Y, t, ok) /\ Y \in SUBSET ok
  BY <1>1, <1>2, <1>3 DEF IsClosed
<1>5. Reopened(t) \subseteq Y
  BY <1>4, ClosureProperties DEF Reopened, ok
<1>6. Entry \notin Reopened(t)
  BY <1>5
<1>7. DeExecute(t) /\ status[t] # "NONEXISTENT" /\ TypeOK
  BY DEF Invalidate, KeysInv
<1>8. status'[Entry] = status[Entry]
  BY <1>3, <1>6, <1>7, DeExecuteStatus
<1>9. status'[Exit] \in {"UNEXECUTED", "EMPTY"}
  <2>1. CASE Exit \in Reopened(t)
    <3>1. status'[Exit] = Undone(status[Exit], FALSE)
      BY <1>3, <1>7, <2>1 DEF DeExecute
    <3> QED
      BY <3>1 DEF Undone, EdgesInv, Pending
  <2>2. CASE Exit \notin Reopened(t)
    <3>1. status'[Exit] = status[Exit]
      BY <1>3, <1>7, <2>2, DeExecuteStatus
    <3> QED
      BY <3>1 DEF EdgesInv
  <2> QED
    BY <2>1, <2>2
<1> QED
  BY <1>8, <1>9 DEF EdgesInv

LEMMA NextEdgesInv ==
  OrderInv /\ StackInv /\ CallInv /\ EdgesInv /\ [Next]_vars => EdgesInv'
<1> SUFFICES ASSUME OrderInv, StackInv, CallInv, EdgesInv, [Next]_vars
             PROVE  EdgesInv'
  OBVIOUS
<1>0. KeysInv /\ TypeOK /\ TypeOK' /\ Grows(status, status') /\ Entry \in Vertex /\ Exit \in Vertex
  BY NextTypeOK, StatusGrows DEF OrderInv, KeysInv, Vertex
<1>1. status'[Entry] = "EMPTY" /\ status'[Exit] \in {"UNEXECUTED", "EMPTY"}
  <2>1. ASSUME NEW s \in Step, VisitStep(s)
        PROVE  status'[Entry] = status[Entry] /\ status'[Exit] = status[Exit]
    BY <1>0, <2>1, VisitStepNecessary, VertexAssumption
  <2>2. CASE Run
    <3>1. status[next] \in Pending /\ status \in [Vertex -> Status] /\ next \in Vertex
      BY <1>0, <2>2, RunStatus DEF TypeOK
    <3>2. next # Entry
      BY <3>1 DEF EdgesInv, Pending
    <3>3. next = Exit => status'[Exit] = "EMPTY"
      BY <2>2, <3>1 DEF Run, Outcome, EdgesInv, Pending
    <3>4. \A v \in Vertex \ {next} : status'[v] = status[v]
      BY <2>2, <3>1 DEF Run
    <3> QED
      BY <1>0, <3>2, <3>3, <3>4 DEF EdgesInv
  <2>3. ASSUME NEW t \in Step, Invalidate(t)
        PROVE  status'[Entry] = "EMPTY" /\ status'[Exit] \in {"UNEXECUTED", "EMPTY"}
    BY <1>0, <2>3, EntryStays
  <2>4. CASE UNCHANGED <<status, needs>>
    BY <2>4 DEF EdgesInv
  <2> QED
    BY <1>0, <2>1, <2>2, <2>3, <2>4, StepKinds DEF EdgesInv
<1>2. ASSUME NEW k \in FlowSelector, NEW u \in Vertex, NEW v \in Vertex, <<k, u, v>> \in edges'
      PROVE  EdgeOK(k, u, v, status')
  <2>1. CASE <<k, u, v>> \in edges
    BY <1>0, <2>1, EdgeOKGrows DEF EdgesInv
  <2>2. CASE DrawnByAdd(k, u, v)
    <3> DEFINE caller == stack[Len(stack) - 1]
    <3>1. /\ caller.step \in Step /\ status[caller.step] \in Pending
          /\ caller.relationships \subseteq Step
          /\ \A w \in caller.relationships : status[w] # "NONEXISTENT"
          /\ LinkDependences => caller.relationships \in Dependence[caller.step]
          /\ LinkPrecedences => caller.relationships \in Precedence[caller.step]
          /\ status' = status
      BY <1>0, <2>2, CallerDraws DEF DrawnByAdd
    <3> HIDE DEF caller
    <3>2. status[Entry] # "NONEXISTENT" /\ status[Exit] # "NONEXISTENT" /\ status[caller.step] # "NONEXISTENT"
      BY <3>1 DEF EdgesInv, Pending
    <3>3. \/ LinkDependences /\ k = "DEPENDENCE" /\ u \in caller.relationships /\ v = caller.step
          \/ LinkPrecedences /\ k = "PRECEDENCE" /\ u \in caller.relationships /\ v = caller.step
          \/ LinkPrecedences /\ k = "AUX" /\ u = Entry /\ v = caller.step
          \/ LinkPrecedences /\ k = "AUX" /\ u = caller.step /\ v = Exit
      BY <2>2 DEF DrawnByAdd, caller
    <3> QED
      BY <3>1, <3>2, <3>3, VertexAssumption DEF EdgeOK
  <2>3. CASE DrawnByExec(k, u, v)
    <3>1. /\ status[next] \in Pending
          /\ pre_dependence \in Answers(Dependence, next)
          /\ pre_precedence \in Answers(Precedence, next)
          /\ Asked \subseteq Step
          /\ Asked # {} => next \in Step
          /\ \A w \in Asked : status[w] # "NONEXISTENT"
      BY <1>0, <2>3, ExecDraws DEF DrawnByExec
    <3>2. u \in Asked /\ next \in Step /\ v = next
      BY <2>3, <3>1 DEF DrawnByExec, Asked
    <3>3. status[v] # "NONEXISTENT" /\ status[u] # "NONEXISTENT" /\ u \in Step
      BY <3>1, <3>2 DEF Pending
    <3>4. EdgeOK(k, u, v, status)
      BY <2>3, <3>1, <3>2, <3>3, VertexAssumption DEF EdgeOK, DrawnByExec, Answers
    <3> QED
      BY <1>0, <3>4, EdgeOKGrows
  <2> QED
    BY <1>2, <2>1, <2>2, <2>3, EdgesDrawn
<1> QED
  BY <1>1, <1>2 DEF EdgesInv

LEMMA NextStructInv == StructInv /\ [Next]_vars => StructInv'
BY NextOrderInv, NextStackInv, NextCallInv, NextEdgesInv DEF StructInv

LEMMA InitStructInv == Init => StructInv
<1> SUFFICES ASSUME Init PROVE StructInv
  OBVIOUS
<1>1. OrderInv
  BY InitOrderInv
<1>2. stack = <<>> /\ Len(stack) = 0 /\ pc = "main" /\ edges = {}
  BY DEF Init
<1>3. StackInv
  BY <1>2 DEF StackInv
<1>4. CallInv
  BY <1>2 DEF CallInv, Recomputing
<1>5. status[Entry] = "EMPTY" /\ status[Exit] = "UNEXECUTED"
  BY VertexAssumption DEF Init, Vertex
<1>6. EdgesInv
  BY <1>2, <1>5 DEF EdgesInv
<1> QED
  BY <1>1, <1>3, <1>4, <1>6 DEF StructInv

-------------------------------------------------------------------------------
(* Ready steps are not lost *)

(* What the argument needs of the graph: only edges into Exit are removed,  *)
(* only Run completes a vertex.                                             *)
LEMMA FlowEdgesStay ==
  ASSUME [Next]_vars, NEW k \in Selector, NEW u, NEW v, v # Exit, <<k, u, v>> \in edges
  PROVE  <<k, u, v>> \in edges'
<1>1. CASE LinkPrecedences
  <2> DEFINE caller == stack[Len(stack) - 1]
             drawn == edges \cup ({"PRECEDENCE"} \X caller.relationships \X {caller.step})
  <2>1. edges' = HookUp(drawn, caller.step)
    BY <1>1 DEF LinkPrecedences
  <2>2. <<k, u, v>> \in drawn
    OBVIOUS
  <2> HIDE DEF drawn
  <2>3. QED
    BY <2>1, <2>2 DEF HookUp
<1>2. CASE EndIteration
  BY <1>2 DEF EndIteration, Unhooked
<1>3. CASE LinkDependences
  BY <1>3 DEF LinkDependences
<1>4. CASE NotReady \/ Run
  BY <1>4 DEF NotReady, Run, LinkNext
<1>5. ASSUME NEW t \in Step, Invalidate(t)
      PROVE  <<k, u, v>> \in edges'
  BY <1>5 DEF Invalidate
<1>6. ASSUME NEW s \in Step, VisitKnown(s) \/ VisitSkipped(s) \/ VisitStep(s)
      PROVE  edges' = edges
  BY <1>6 DEF VisitKnown, VisitSkipped, VisitStep, graphVars
<1>7. ASSUME NEW S \in SUBSET Requested, AddSteps(S)
      PROVE  edges' = edges
  BY <1>7 DEF AddSteps, graphVars
<1>8. ASSUME NEW e \in possibly_ready, Consider(e)
      PROVE  edges' = edges
  BY <1>8 DEF Consider, graphVars
<1>9. ASSUME NEW t \in Step, InvalidateWrongly(t)
      PROVE  edges' = edges
  BY <1>9 DEF InvalidateWrongly, graphVars
<1>10. CASE ReturnFromAdd \/ Exec \/ RecomputePrecedences \/ EndExec
  BY <1>10 DEF ReturnFromAdd, Exec, RecomputePrecedences, EndExec, graphVars
<1>11. CASE UNCHANGED vars
  BY <1>11 DEF vars, graphVars
<1>12. QED
  BY <1>1, <1>2, <1>3, <1>4, <1>5, <1>6, <1>7, <1>8, <1>9, <1>10, <1>11
  DEF Next, RecursivelyAddSteps, Stop

LEMMA PredecessorsStay ==
  ASSUME [Next]_vars, NEW v, v # Exit
  PROVE  Predecessors(v) \subseteq Predecessors(v)'
<1> SUFFICES ASSUME NEW u \in Predecessors(v) PROVE u \in Predecessors(v)'
  OBVIOUS
<1>1. PICK k \in FlowSelector : <<k, u, v>> \in edges
  BY DEF Predecessors, SourcesIn, FlowSelector
<1>2. <<k, u, v>> \in edges'
  BY <1>1, FlowEdgesStay DEF FlowSelector
<1> QED
  BY <1>2 DEF Predecessors, SourcesIn, FlowSelector

LEMMA CompletedByRun ==
  ASSUME OrderInv, [Next]_vars, ~Run
  PROVE  CompletedSteps' \subseteq CompletedSteps
<1>1. KeysInv /\ TypeOK
  BY DEF OrderInv, KeysInv
<1>2. ASSUME UNCHANGED <<status, needs>> PROVE CompletedSteps' \subseteq CompletedSteps
  BY <1>2 DEF CompletedSteps
<1> QED
  BY <1>1, <1>2, StepKinds, VisitStepStatus, InvalidateStatus

LEMMA ReadyBefore ==
  ASSUME OrderInv, [Next]_vars, ~Run, NEW s \in Step, Ready(s)'
  PROVE  Ready(s)
<1>1. s # Exit
  BY VertexAssumption
<1> QED
  BY <1>1, PredecessorsStay, CompletedByRun DEF Ready

(* A step is on the stack between the visit that adds it and the insertion  *)
(* that follows its precedences.                                            *)
LEMMA VisitKnownKeeps ==
  ASSUME StructInv, NEW w \in Step, VisitKnown(w), NEW s \in Step, OnStack(s)
  PROVE  OnStack(s)'
<1> DEFINE n == Len(stack)
<1>0. TypeOK
  BY DEF StructInv, OrderInv, KeysInv
<1>1. /\ n \in Nat \ {0} /\ Len(stack') = n /\ top = stack[n]
      /\ stack'[n] = [top EXCEPT !.todo = @ \ {w}]
      /\ \A i \in 1..n - 1 : stack'[i] = stack[i]
  BY <1>0, VisitKnownStack
<1>2. top \in Frame
  BY <1>0, <1>1, StackLength
<1>3. stack'[n].step = top.step
  BY <1>1, <1>2 DEF Frame
<1>4. PICK i \in 1..n : stack[i].step = s
  BY DEF OnStack
<1> HIDE DEF n
<1>5. stack'[i].step = s
  <2>1. CASE i = n
    BY <1>1, <1>3, <1>4, <2>1
  <2>2. CASE i # n
    <3>1. i \in 1..n - 1
      BY <1>1, <2>2
    <3> QED
      BY <1>1, <1>4, <3>1
  <2> QED
    BY <2>1, <2>2
<1> QED
  BY <1>1, <1>5 DEF OnStack

(* The frame that visits adds no step at the moment. *)
LEMMA VisitsNothing ==
  ASSUME TypeOK, StackInv, NEW n, n = Len(stack), n # 0
  PROVE  stack[n].step \notin Step /\ stack[n].phase = "visit"
<1>1. n \in Nat \ {0}
  BY StackLength
<1>2. n \in 1..Len(stack)
  BY <1>1
<1>3. stack[n] \in Frame /\ stack[n].phase = "visit"
  BY <1>2, StackLength DEF StackInv
<1> QED
  BY <1>3 DEF Frame

LEMMA VisitStepKeeps ==
  ASSUME StructInv, NEW w \in Step, VisitStep(w), NEW s \in Step, OnStack(s) \/ s = w
  PROVE  OnStack(s)'
<1> DEFINE n == Len(stack)
<1>0. TypeOK /\ StackInv
  BY DEF StructInv, OrderInv, KeysInv
<1>1. /\ n \in Nat \ {0} /\ Len(stack') = n + 1 /\ top = stack[n]
      /\ \A i \in 1..n - 1 : stack'[i] = stack[i]
  BY <1>0, VisitStepStack
<1>2. PICK answer \in Dependence[w] :
         /\ stack'[n] = [top EXCEPT !.todo = @ \ {w}, !.step = w, !.phase = "dependences",
                                    !.relationships = answer]
         /\ stack'[n + 1] = Call(answer, top.unnecessary)
  BY <1>0, VisitStepStack
<1>3. top \in Frame
  BY <1>0, <1>1, StackLength
<1>4. stack'[n].step = w
  BY <1>2, <1>3 DEF Frame
<1>5. top.step \notin Step
  BY <1>0, <1>1, VisitsNothing
<1> HIDE DEF n
<1>6. CASE s = w
  <2>1. n \in 1..Len(stack')
    BY <1>1
  <2> QED
    BY <1>4, <1>6, <2>1 DEF OnStack
<1>7. CASE OnStack(s)
  <2>1. PICK i \in 1..n : stack[i].step = s
    BY <1>7 DEF OnStack, n
  <2>2. i \in 1..n - 1 /\ i \in 1..n + 1
    BY <1>1, <1>5, <2>1
  <2> QED
    BY <1>1, <2>1, <2>2 DEF OnStack
<1> QED
  BY <1>6, <1>7

LEMMA LinkDependencesKeeps ==
  ASSUME StructInv, LinkDependences, NEW s \in Step, OnStack(s)
  PROVE  OnStack(s)'
<1> DEFINE n == Len(stack)
           caller == stack[n - 1]
<1>0. TypeOK /\ StackInv
  BY DEF StructInv, OrderInv, KeysInv
<1>1. /\ n \in Nat /\ n > 1 /\ Len(stack') = n /\ caller \in Frame
      /\ \A i \in 1..n - 2 : stack'[i] = stack[i]
  BY <1>0, LinkDependencesStack
<1>2. PICK answer \in Precedence[caller.step] :
         stack'[n - 1] = [caller EXCEPT !.phase = "precedences", !.relationships = answer]
  BY <1>0, LinkDependencesStack
<1>3. stack'[n - 1].step = stack[n - 1].step
  BY <1>1, <1>2 DEF Frame
<1>4. stack[n].step \notin Step
  BY <1>0, <1>1, VisitsNothing
<1>5. PICK i \in 1..n : stack[i].step = s
  BY DEF OnStack
<1> HIDE DEF n
<1> HIDE DEF caller
<1>6. i = n - 1 \/ i \in 1..n - 2
  BY <1>1, <1>4, <1>5
<1>7. stack'[i].step = s
  BY <1>1, <1>3, <1>5, <1>6
<1> QED
  BY <1>1, <1>7 DEF OnStack

LEMMA LinkPrecedencesKeeps ==
  ASSUME StructInv, LinkPrecedences, NEW s \in Step, OnStack(s), s # stack[Len(stack) - 1].step
  PROVE  OnStack(s)'
<1> DEFINE n == Len(stack)
<1>0. TypeOK /\ StackInv
  BY DEF StructInv, OrderInv, KeysInv
<1>1. /\ n \in Nat /\ n > 1 /\ Len(stack') = n - 1
      /\ \A i \in 1..n - 2 : stack'[i] = stack[i]
  BY <1>0, LinkPrecedencesStack
<1>4. stack[n].step \notin Step
  BY <1>0, <1>1, VisitsNothing
<1>5. PICK i \in 1..n : stack[i].step = s
  BY DEF OnStack
<1>6. s # stack[n - 1].step
  OBVIOUS
<1> HIDE DEF n
<1>7. i \in 1..n - 2 /\ i \in 1..n - 1
  BY <1>1, <1>4, <1>5, <1>6
<1>8. stack'[i].step = s
  BY <1>1, <1>5, <1>7
<1> QED
  BY <1>1, <1>7, <1>8 DEF OnStack

LEMMA EmptyStack ==
  ASSUME TypeOK, Returned
  PROVE  \A s \in Step : ~OnStack(s)
<1>1. Len(stack) = 0
  BY StackLength
<1> QED
  BY <1>1 DEF OnStack

LEMMA NoInvocation ==
  ASSUME StructInv, pc \notin {"main", "already skipped"}, ~Recomputing
  PROVE  Returned
BY DEF StructInv, CallInv, Returned

LEMMA ReturnKeepsNothing ==
  ASSUME StructInv, ReturnFromAdd
  PROVE  \A s \in Step : ~OnStack(s)
<1>1. Len(stack) = 1 /\ TypeOK /\ StackInv
  BY ReturnFromAddStack DEF StructInv, OrderInv, KeysInv
<1>2. ASSUME NEW i \in 1..Len(stack) PROVE stack[i].step \notin Step
  <2>1. i = Len(stack) /\ i # 0
    BY <1>1
  <2> QED
    BY <1>1, <2>1, VisitsNothing
<1> QED
  BY <1>2 DEF OnStack

LEMMA ThrownStays ==
  ASSUME [Next]_vars, Thrown
  PROVE  Thrown'
BY DEF Next, Thrown, Stopped, AddSteps, Exec, Consider, RecomputePrecedences, NotReady, Run, Invalidate,
       InvalidateWrongly, EndIteration, EndExec, Stop, vars

LEMMA InSetKept ==
  ASSUME NEW s, InSet(s), status'[s] = status[s], possibly_ready \subseteq possibly_ready'
  PROVE  InSet(s)'
<1>1. Entries({s}, status') = Entries({s}, status)
  BY DEF Entries
<1> QED
  BY <1>1 DEF InSet

LEMMA InSetOthers ==
  ASSUME NEW s, NEW w, s # w, InSet(s), status'[s] = status[s], Erased(w) \subseteq possibly_ready'
  PROVE  InSet(s)'
<1>1. Entries({s}, status') = Entries({s}, status)
  BY DEF Entries
<1>2. \A e \in Entries({s}, status) : e.step = s
  BY DEF Entries
<1>3. \A e \in Entries({w}, status) : e.step = w
  BY DEF Entries
<1>4. Entries({s}, status) \subseteq Erased(w)
  BY <1>2, <1>3 DEF InSet, Erased
<1> QED
  BY <1>1, <1>4 DEF InSet

LEMMA VisitStepReady ==
  ASSUME StructInv, NEW w \in Step, VisitStep(w), NEW s \in Step, Tracked(s) \/ s = w
  PROVE  Tracked(s)'
<1>0. TypeOK /\ s \in Vertex /\ UNCHANGED <<pc, next, edges>>
  BY DEF StructInv, OrderInv, KeysInv, Vertex, VisitStep, loopVars
<1>1. CASE s = w \/ OnStack(s)
  BY <1>1, VisitStepKeeps DEF Tracked
<1>2. CASE s # w /\ InSet(s)
  <2>1. status'[s] = status[s]
    BY <1>0, <1>2, VisitStepNecessary
  <2>2. Erased(w) \subseteq possibly_ready'
    BY DEF VisitStep, Rekeyed, Erased
  <2> QED
    BY <1>2, <2>1, <2>2, InSetOthers DEF Tracked
<1>3. CASE Recomputing /\ s = next
  BY <1>0, <1>3 DEF Recomputing, Tracked
<1>4. CASE pc = "invalidate" /\ s \in Successors(next)
  BY <1>0, <1>4 DEF Tracked, Successors
<1> QED
  BY <1>1, <1>2, <1>3, <1>4 DEF Tracked

LEMMA LinkPrecedencesReady ==
  ASSUME StructInv, LinkPrecedences, NEW s \in Step, Ready(s)', Tracked(s)
  PROVE  Tracked(s)'
<1> DEFINE caller == stack[Len(stack) - 1]
           drawn == edges \cup ({"PRECEDENCE"} \X caller.relationships \X {caller.step})
<1>1. UNCHANGED <<status, pc, next>> /\ possibly_ready \subseteq possibly_ready'
  BY DEF LinkPrecedences, loopVars
<1>2. CASE s = caller.step
  <2>1. SourcesIn(drawn, s) \subseteq SourcesIn(edges', s)
    <3>1. edges' = HookUp(drawn, s) /\ s # Exit
      BY <1>2, VertexAssumption DEF LinkPrecedences
    <3> HIDE DEF drawn
    <3> QED
      BY <3>1 DEF HookUp, SourcesIn
  <2>2. SourcesIn(edges', s) \subseteq CompletedSteps
    BY <1>1 DEF Ready, Predecessors, CompletedSteps
  <2>3. possibly_ready' = possibly_ready \cup Entries({s}, status)
    BY <1>2, <2>1, <2>2 DEF LinkPrecedences
  <2>4. InSet(s)'
    BY <1>1, <2>3 DEF InSet
  <2> QED
    BY <2>4 DEF Tracked
<1>3. CASE s # caller.step
  <2>1. OnStack(s) => OnStack(s)'
    BY <1>3, LinkPrecedencesKeeps
  <2>2. InSet(s) => InSet(s)'
    BY <1>1, InSetKept
  <2>3. pc # "invalidate"
    <3>1. ~Returned
      BY StackLength DEF StructInv, OrderInv, KeysInv, LinkPrecedences, Resumable
    <3> QED
      BY <3>1, NoInvocation DEF Recomputing
  <2> QED
    BY <1>1, <2>1, <2>2, <2>3 DEF Tracked, Recomputing
<1> QED
  BY <1>2, <1>3

LEMMA NotReadyReady ==
  ASSUME StructInv, [Next]_vars, NotReady, NEW s \in Step, Ready(s)', Tracked(s)
  PROVE  Tracked(s)'
<1>1. ~OnStack(s) /\ pc # "invalidate"
  BY EmptyStack DEF NotReady, StructInv, OrderInv, KeysInv
<1>2. UNCHANGED <<status, possibly_ready>>
  BY DEF NotReady
<1>3. s # next
  <2> SUFFICES ASSUME s = next PROVE FALSE
    OBVIOUS
  <2>1. PICK u \in Asked : u \notin CompletedSteps
    BY DEF NotReady, AskedDone
  <2>2. u \in Vertex
    BY <2>1 DEF Asked, StructInv, OrderInv, KeysInv, TypeOK, Vertex
  <2>3. <<"DEPENDENCE", u, next>> \in edges' \/ <<"PRECEDENCE", u, next>> \in edges'
    BY <2>1 DEF NotReady, LinkNext, Asked
  <2>4. u \in SourcesIn(edges', next)
    BY <2>2, <2>3 DEF SourcesIn, Selector
  <2>5. CompletedSteps' = CompletedSteps
    BY <1>2 DEF CompletedSteps
  <2> QED
    BY <2>1, <2>4, <2>5 DEF Ready, Predecessors
<1>4. InSet(s)
  BY <1>1, <1>3 DEF Tracked
<1> QED
  BY <1>2, <1>4, InSetKept DEF Tracked

LEMMA RunReady ==
  ASSUME StructInv, ReadyInv, [Next]_vars, Run, NEW s \in Step, status'[s] \in Pending, Ready(s)'
  PROVE  Tracked(s)'
<1>0. KeysInv /\ TypeOK /\ s # Exit /\ s \in Vertex /\ pc = "recompute precedences"
  BY VertexAssumption DEF StructInv, OrderInv, KeysInv, Vertex, Run
<1>1. /\ next \in Vertex /\ CompletedSteps' = CompletedSteps \cup {next}
      /\ UNCHANGED <<possibly_ready, next>> /\ pc' = "invalidate"
  BY <1>0, RunStatus DEF Run
<1>2. s # next
  BY <1>0, <1>1 DEF CompletedSteps, Pending, Completed
<1>3. status'[s] = status[s]
  BY <1>0, <1>2 DEF Run, TypeOK
<1>4. CASE Ready(s)
  <2>1. Tracked(s)
    BY <1>0, <1>3, <1>4 DEF ReadyInv, Thrown
  <2>2. ~OnStack(s)
    BY <1>0, EmptyStack DEF Run
  <2>3. InSet(s)
    BY <1>0, <1>2, <2>1, <2>2 DEF Tracked
  <2> QED
    BY <1>1, <1>3, <2>3, InSetKept DEF Tracked
<1>5. CASE ~Ready(s)
  <2>1. PICK u \in Predecessors(s) : u \notin CompletedSteps
    BY <1>5 DEF Ready
  <2>2. u \in Predecessors(s)' /\ u \in CompletedSteps'
    BY <1>0, <2>1, PredecessorsStay DEF Ready
  <2>3. u = next
    BY <1>1, <2>1, <2>2
  <2>4. s \in Successors(next)'
    BY <1>0, <1>1, <2>2, <2>3 DEF Predecessors, Successors, SourcesIn, TargetsIn
  <2> QED
    BY <1>1, <2>4 DEF Tracked
<1> QED
  BY <1>4, <1>5

LEMMA InvalidateReady ==
  ASSUME StructInv, ReadyInv, [Next]_vars, NEW t \in Step, Invalidate(t),
         NEW s \in Step, status'[s] \in Pending, Ready(s)'
  PROVE  Tracked(s)'
<1> DEFINE reset == [status EXCEPT ![t] = Undone(@, TRUE)]
<1>0. KeysInv /\ TypeOK /\ OrderInv /\ s \in Vertex /\ t \in Vertex /\ pc = "invalidate"
  BY DEF StructInv, OrderInv, KeysInv, Vertex, Invalidate
<1>1. /\ DeExecute(t) /\ status[t] # "NONEXISTENT" /\ UNCHANGED <<pc, next, stack>>
      /\ possibly_ready \subseteq possibly_ready' /\ edges \subseteq edges'
      /\ possibly_ready' = IF ReadyAgain(t, reset) THEN possibly_ready \cup Entries({t}, reset) ELSE possibly_ready
  BY DEF Invalidate, DeExecute
<1>2. /\ Reopened(t) \subseteq CompletedSteps \ {t}
      /\ \A v \in Vertex \ (Reopened(t) \cup {t}) : status'[v] = status[v]
      /\ \A v \in Vertex : status[v] \in Pending => status'[v] = status[v]
      /\ status'[t] = Undone(status[t], TRUE)
      /\ CompletedSteps' = CompletedSteps \ (Reopened(t) \cup {t})
  BY <1>0, <1>1, DeExecuteStatus, InvalidateStatus
<1>3. \A v : Predecessors(v)' = Predecessors(v)
  BY DEF Invalidate, Predecessors, SourcesIn
<1>4. Ready(s)
  <2>1. ~Run
    BY <1>0 DEF Run
  <2> QED
    BY <1>0, <2>1, ReadyBefore
<1>5. CASE status[s] \in Pending
  <2>1. Tracked(s)
    BY <1>0, <1>4, <1>5 DEF ReadyInv, Thrown
  <2>2. ~OnStack(s)
    BY <1>0, NoInvocation, EmptyStack DEF Recomputing
  <2>3. CASE InSet(s)
    BY <1>0, <1>1, <1>2, <1>5, <2>3, InSetKept DEF Tracked
  <2>4. CASE s \in Successors(next)
    BY <1>0, <1>1, <2>4 DEF Tracked, Successors, TargetsIn
  <2> QED
    BY <1>0, <2>1, <2>2, <2>3, <2>4 DEF Tracked, Recomputing
<1>6. CASE s \in Reopened(t)
  <2> DEFINE ok == CompletedSteps \ {t}
             Y == Reopened(t) \ {s}
  <2>1. \A u \in Reopened(t) \cup {t} : s \notin Successors(u)
    <3>1. ASSUME NEW u \in Reopened(t) \cup {t}, s \in Successors(u) PROVE FALSE
      <4>1. u \in Vertex
        BY <1>0, <1>2 DEF CompletedSteps
      <4>2. u \in Predecessors(s)
        BY <1>0, <3>1, <4>1 DEF Predecessors, Successors, SourcesIn, TargetsIn
      <4>3. u \in CompletedSteps'
        BY <1>3, <4>2 DEF Ready
      <4> QED
        BY <1>2, <3>1, <4>3
    <3> QED
      BY <3>1
  <2>2. IsClosed(Reopened(t), t, ok) /\ Reopened(t) \in SUBSET ok
    BY ClosureProperties DEF Reopened
  <2> HIDE DEF ok
  <2>3. IsClosed(Y, t, ok) /\ Y \in SUBSET ok
    BY <2>1, <2>2 DEF IsClosed
  <2>4. Reopened(t) \subseteq Y
    BY <2>3, ClosureProperties DEF Reopened, ok
  <2> QED
    BY <1>6, <2>4
<1>7. CASE s = t
  <2>1. ASSUME NEW u \in Predecessors(t) PROVE reset[u] \in Completed
    <3>1. u \in CompletedSteps'
      BY <1>3, <1>7, <2>1 DEF Ready
    <3>2. u \in CompletedSteps /\ u # t
      BY <1>2, <3>1
    <3> QED
      BY <1>0, <3>2 DEF CompletedSteps, TypeOK
  <2>2. possibly_ready' = possibly_ready \cup Entries({t}, reset)
    BY <1>1, <2>1 DEF ReadyAgain
  <2>3. reset[t] = status'[t]
    BY <1>0, <1>2 DEF TypeOK
  <2>4. Entries({t}, reset) = Entries({t}, status')
    BY <2>3 DEF Entries
  <2> QED
    BY <1>7, <2>2, <2>4 DEF Tracked, InSet
<1>8. s \in Reopened(t) \cup {t} \/ status'[s] = status[s]
  BY <1>0, <1>2
<1> QED
  BY <1>5, <1>6, <1>7, <1>8

LEMMA EndIterationReady ==
  ASSUME StructInv, [Next]_vars, EndIteration, NEW s \in Step, status'[s] \in Pending, Ready(s)', Tracked(s)
  PROVE  Tracked(s)'
<1>0. OrderInv /\ pc = "invalidate" /\ UNCHANGED status /\ ~Run /\ s \in Vertex
  BY DEF StructInv, EndIteration, Run, Vertex
<1>1. possibly_ready' = possibly_ready \cup Entries(Woken(next), status)
  BY DEF EndIteration
<1>2. ~OnStack(s)
  BY <1>0, NoInvocation, EmptyStack DEF StructInv, OrderInv, KeysInv, Recomputing
<1>3. CASE InSet(s)
  BY <1>0, <1>1, <1>3, InSetKept DEF Tracked
<1>4. CASE s \in Successors(next)
  <2>1. Ready(s)
    BY <1>0, ReadyBefore
  <2>2. s \in Woken(next)
    BY <1>0, <1>4, <2>1 DEF Woken
  <2>3. Entries({s}, status') \subseteq Entries(Woken(next), status)
    BY <1>0, <2>2 DEF Entries
  <2> QED
    BY <1>1, <2>3 DEF InSet, Tracked
<1> QED
  BY <1>0, <1>2, <1>3, <1>4 DEF Tracked, Recomputing

LEMMA NextReadyInv == StructInv /\ ReadyInv /\ [Next]_vars => ReadyInv'
<1> SUFFICES ASSUME StructInv, ReadyInv, [Next]_vars, ~Thrown',
                    NEW s \in Step, status'[s] \in Pending, Ready(s)'
             PROVE  Tracked(s)'
  BY DEF ReadyInv
<1>0. ~Thrown /\ OrderInv /\ KeysInv /\ TypeOK /\ s \in Vertex
  BY ThrownStays DEF StructInv, OrderInv, KeysInv, Vertex
<1>1. CASE Run
  BY <1>1, RunReady
<1>2. ASSUME NEW t \in Step, Invalidate(t) PROVE Tracked(s)'
  BY <1>2, InvalidateReady
<1>3. CASE ~Run /\ status[s] \in Pending
  <2>0. Ready(s) /\ Tracked(s)
    BY <1>0, <1>3, ReadyBefore DEF ReadyInv
  <2>1. ASSUME NEW w \in Step, VisitKnown(w) PROVE Tracked(s)'
    <3>1. UNCHANGED <<status, possibly_ready, pc, next, edges>>
      BY <2>1 DEF VisitKnown, graphVars, loopVars
    <3>2. OnStack(s) => OnStack(s)'
      BY <2>1, VisitKnownKeeps
    <3> QED
      BY <2>0, <3>1, <3>2 DEF Tracked, InSet, Recomputing, Successors
  <2>2. ASSUME NEW w \in Step, VisitSkipped(w) PROVE FALSE
    BY <2>2 DEF VisitSkipped, Thrown
  <2>3. ASSUME NEW w \in Step, VisitStep(w) PROVE Tracked(s)'
    BY <2>0, <2>3, VisitStepReady
  <2>4. CASE LinkDependences
    <3>1. UNCHANGED <<status, possibly_ready, pc, next>>
      BY <2>4 DEF LinkDependences, loopVars
    <3>2. OnStack(s) => OnStack(s)'
      BY <2>4, LinkDependencesKeeps
    <3>3. ~Returned
      BY <1>0, <2>4, StackLength DEF LinkDependences, Resumable
    <3>4. pc # "invalidate"
      BY <3>3, NoInvocation DEF Recomputing
    <3> QED
      BY <2>0, <3>1, <3>2, <3>4 DEF Tracked, InSet, Recomputing
  <2>5. CASE LinkPrecedences
    BY <2>0, <2>5, LinkPrecedencesReady
  <2>6. CASE ReturnFromAdd
    <3>1. ~OnStack(s)
      BY <2>6, ReturnKeepsNothing
    <3>2. UNCHANGED <<status, possibly_ready, pc, next, edges>>
      BY <2>6 DEF ReturnFromAdd, graphVars, loopVars
    <3> QED
      BY <2>0, <3>1, <3>2 DEF Tracked, InSet, Recomputing, Successors
  <2>7. ASSUME NEW S \in SUBSET Requested, AddSteps(S) PROVE Tracked(s)'
    <3>1. ~OnStack(s)
      BY <1>0, <2>7, EmptyStack DEF AddSteps
    <3>2. UNCHANGED <<status, possibly_ready, pc, next, edges>>
      BY <2>7 DEF AddSteps, graphVars, loopVars
    <3> QED
      BY <2>0, <3>1, <3>2 DEF Tracked, InSet, Recomputing, Successors
  <2>8. CASE Exec
    <3>1. ~OnStack(s) /\ pc = "main"
      BY <1>0, <2>8, EmptyStack DEF Exec
    <3>2. UNCHANGED <<status, possibly_ready>>
      BY <2>8 DEF Exec, graphVars
    <3> QED
      BY <2>0, <3>1, <3>2 DEF Tracked, InSet, Recomputing
  <2>9. ASSUME NEW e \in possibly_ready, Consider(e) PROVE Tracked(s)'
    <3>1. pc = "loop" /\ next' = e.step /\ possibly_ready' = Erased(e.step) /\ UNCHANGED status
          /\ Recomputing'
      BY <2>9 DEF Consider, graphVars, Recomputing
    <3>2. ~OnStack(s)
      BY <1>0, <3>1, NoInvocation, EmptyStack DEF Recomputing
    <3>3. InSet(s)
      BY <2>0, <3>1, <3>2 DEF Tracked, Recomputing
    <3>4. CASE s = e.step
      BY <3>1, <3>4 DEF Tracked
    <3>5. CASE s # e.step
      BY <3>1, <3>3, <3>5, InSetOthers DEF Tracked
    <3> QED
      BY <3>4, <3>5
  <2>10. CASE RecomputePrecedences
    <3>1. UNCHANGED <<status, possibly_ready, next>> /\ pc = "recompute dependences" /\ Recomputing'
      BY <2>10 DEF RecomputePrecedences, graphVars, Recomputing
    <3>2. ~OnStack(s)
      BY <1>0, <2>10, EmptyStack DEF RecomputePrecedences
    <3> QED
      BY <2>0, <3>1, <3>2 DEF Tracked, InSet
  <2>11. CASE NotReady
    BY <2>0, <2>11, NotReadyReady
  <2>12. ASSUME NEW t \in Step, InvalidateWrongly(t) PROVE FALSE
    BY <2>12 DEF InvalidateWrongly, Thrown
  <2>13. CASE EndIteration
    BY <2>0, <2>13, EndIterationReady
  <2>14. CASE EndExec
    <3>1. pc = "loop" /\ UNCHANGED <<status, possibly_ready>>
      BY <2>14 DEF EndExec, graphVars
    <3>2. ~OnStack(s)
      BY <1>0, <3>1, NoInvocation, EmptyStack DEF Recomputing
    <3> QED
      BY <2>0, <3>1, <3>2 DEF Tracked, InSet, Recomputing
  <2>15. CASE UNCHANGED vars
    <3>1. UNCHANGED <<status, possibly_ready, pc, next, edges, stack>>
      BY <2>15 DEF vars, graphVars, loopVars
    <3> QED
      BY <2>0, <3>1 DEF Tracked, InSet, Recomputing, Successors, OnStack
  <2> QED
    BY <1>2, <1>3, <2>1, <2>2, <2>3, <2>4, <2>5, <2>6, <2>7, <2>8, <2>9, <2>10, <2>11, <2>12, <2>13,
       <2>14, <2>15
    DEF Next, RecursivelyAddSteps, Stop
<1>4. CASE ~Run /\ status[s] \notin Pending /\ \A t \in Step : ~Invalidate(t)
  <2>1. status'[s] # status[s]
    BY <1>4
  <2>2. PICK w \in Step : VisitStep(w)
    BY <1>0, <1>4, <2>1, StepKinds
  <2>3. s = w
    BY <1>0, <2>1, <2>2, VisitStepNecessary
  <2> QED
    BY <2>2, <2>3, VisitStepReady
<1> QED
  BY <1>1, <1>2, <1>3, <1>4

(* A step whose predecessors are all done is never lost: between two        *)
(* iterations it is in possibly_ready, whatever Exec dropped and DeExecute  *)
(* reopened on the way.                                                     *)
THEOREM ReadyStepsAreKept == Spec => []NoReadyStepLost
<1>1. Init => StructInv /\ ReadyInv
  <2> SUFFICES ASSUME Init PROVE ReadyInv
    BY InitStructInv
  <2>1. \A s \in Step : status[s] \notin Pending
    BY VertexAssumption DEF Init, Vertex, Pending
  <2> QED
    BY <2>1 DEF ReadyInv
<1>2. StructInv /\ ReadyInv /\ [Next]_vars => (StructInv /\ ReadyInv)'
  BY NextStructInv, NextReadyInv
<1>3. StructInv /\ ReadyInv => NoReadyStepLost
  <2> SUFFICES ASSUME StructInv, ReadyInv, BetweenIterations,
                      NEW s \in Step, status[s] \in Pending, Ready(s)
               PROVE  Entries({s}, status) \subseteq possibly_ready
    BY DEF NoReadyStepLost
  <2>1. ~Thrown /\ ~Recomputing /\ pc \notin {"main", "already skipped", "invalidate"}
    BY DEF BetweenIterations, Thrown, Recomputing
  <2>2. ~OnStack(s)
    BY <2>1, NoInvocation, EmptyStack DEF StructInv, OrderInv, KeysInv
  <2> QED
    BY <2>1, <2>2 DEF ReadyInv, Tracked, InSet
<1> QED
  BY <1>1, <1>2, <1>3, PTL DEF Spec

-------------------------------------------------------------------------------
(* What is executed is needed *)

(* Between the question and the edge that records its answer, a step is     *)
(* needed because a needed invocation, or the step Exec considers, asked    *)
(* for it.                                                                  *)
BeingAsked(s) ==
  \E i \in 1..Len(stack) :
    stack[i].phase = "dependences" /\ ~stack[i].unnecessary /\ s \in stack[i].relationships

Needed(s) ==
  \/ s \in Requested
  \/ \E v \in Step : <<"DEPENDENCE", s, v>> \in edges /\ Necessary(status[v])
  \/ \E v \in Vertex : <<"DEPENDENCE_FEEDBACK", v, s>> \in edges
  \/ BeingAsked(s)
  \/ Recomputing /\ s \in pre_dependence /\ Necessary(status[next])

NeedInv == ~Thrown => \A s \in Step : Necessary(status[s]) => Needed(s)

LEMMA VisitKnownAsked ==
  ASSUME StructInv, NEW w \in Step, VisitKnown(w), NEW s \in Step, BeingAsked(s)
  PROVE  BeingAsked(s)'
<1> DEFINE n == Len(stack)
<1>0. TypeOK /\ StackInv
  BY DEF StructInv, OrderInv, KeysInv
<1>1. /\ n \in Nat \ {0} /\ Len(stack') = n
      /\ \A i \in 1..n - 1 : stack'[i] = stack[i]
  BY <1>0, VisitKnownStack
<1>2. stack[n].phase = "visit"
  BY <1>0, <1>1, VisitsNothing
<1>3. PICK i \in 1..n : stack[i].phase = "dependences" /\ ~stack[i].unnecessary /\ s \in stack[i].relationships
  BY DEF BeingAsked
<1> HIDE DEF n
<1>4. i \in 1..n - 1
  BY <1>1, <1>2, <1>3
<1> QED
  BY <1>1, <1>3, <1>4 DEF BeingAsked

LEMMA VisitStepAsked ==
  ASSUME StructInv, NEW w \in Step, VisitStep(w), NEW s \in Step, BeingAsked(s)
  PROVE  BeingAsked(s)'
<1> DEFINE n == Len(stack)
<1>0. TypeOK /\ StackInv
  BY DEF StructInv, OrderInv, KeysInv
<1>1. /\ n \in Nat \ {0} /\ Len(stack') = n + 1
      /\ \A i \in 1..n - 1 : stack'[i] = stack[i]
  BY <1>0, VisitStepStack
<1>2. stack[n].phase = "visit"
  BY <1>0, <1>1, VisitsNothing
<1>3. PICK i \in 1..n : stack[i].phase = "dependences" /\ ~stack[i].unnecessary /\ s \in stack[i].relationships
  BY DEF BeingAsked
<1> HIDE DEF n
<1>4. i \in 1..n - 1 /\ i \in 1..n + 1
  BY <1>1, <1>2, <1>3
<1> QED
  BY <1>1, <1>3, <1>4 DEF BeingAsked

LEMMA LinkDependencesAsked ==
  ASSUME StructInv, LinkDependences, NEW s \in Step, BeingAsked(s)
  PROVE  \/ BeingAsked(s)'
         \/ \E v \in Step : <<"DEPENDENCE", s, v>> \in edges' /\ Necessary(status'[v])
<1> DEFINE n == Len(stack)
<1>0. TypeOK /\ StackInv /\ KeysInv
  BY DEF StructInv, OrderInv, KeysInv
<1>1. /\ n \in Nat /\ n > 1 /\ Len(stack') = n
      /\ edges' = edges \cup ({"DEPENDENCE"} \X stack[n - 1].relationships \X {stack[n - 1].step})
      /\ \A i \in 1..n - 2 : stack'[i] = stack[i]
  BY <1>0, LinkDependencesStack
<1>2. stack[n].phase = "visit"
  BY <1>0, <1>1, VisitsNothing
<1>3. PICK i \in 1..n : stack[i].phase = "dependences" /\ ~stack[i].unnecessary /\ s \in stack[i].relationships
  BY DEF BeingAsked
<1>4. CASE i = n - 1
  <2> DEFINE caller == stack[Len(stack) - 1]
  <2>1. /\ caller.step \in Step /\ status' = status
        /\ ~caller.unnecessary => Necessary(status[caller.step])
    BY <1>0, CallerDraws
  <2>2. caller = stack[i]
    BY <1>4
  <2> HIDE DEF caller
  <2>3. <<"DEPENDENCE", s, caller.step>> \in edges'
    BY <1>1, <1>3, <1>4, <2>2
  <2> QED
    BY <1>3, <2>1, <2>2, <2>3
<1>5. CASE i # n - 1
  <2> HIDE DEF n
  <2>1. i \in 1..n - 2 /\ i \in 1..n
    BY <1>1, <1>2, <1>3, <1>5
  <2> QED
    BY <1>1, <1>3, <2>1 DEF BeingAsked
<1> QED
  BY <1>4, <1>5

LEMMA LinkPrecedencesAsked ==
  ASSUME StructInv, LinkPrecedences, NEW s \in Step, BeingAsked(s)
  PROVE  BeingAsked(s)'
<1> DEFINE n == Len(stack)
<1>0. TypeOK /\ StackInv
  BY DEF StructInv, OrderInv, KeysInv
<1>1. /\ n \in Nat /\ n > 1 /\ Len(stack') = n - 1 /\ stack[n - 1].phase = "precedences"
      /\ \A i \in 1..n - 2 : stack'[i] = stack[i]
  BY <1>0, LinkPrecedencesStack
<1>2. stack[n].phase = "visit"
  BY <1>0, <1>1, VisitsNothing
<1>3. PICK i \in 1..n : stack[i].phase = "dependences" /\ ~stack[i].unnecessary /\ s \in stack[i].relationships
  BY DEF BeingAsked
<1> HIDE DEF n
<1>4. i \in 1..n - 2 /\ i \in 1..n - 1
  BY <1>1, <1>2, <1>3
<1> QED
  BY <1>1, <1>3, <1>4 DEF BeingAsked

LEMMA NothingAsked ==
  ASSUME StructInv, Returned \/ ReturnFromAdd
  PROVE  \A s : ~BeingAsked(s)
<1>0. TypeOK /\ StackInv
  BY DEF StructInv, OrderInv, KeysInv
<1>1. Returned => Len(stack) = 0
  BY <1>0, StackLength
<1>2. ReturnFromAdd => Len(stack) = 1
  BY <1>0, ReturnFromAddStack
<1>3. ASSUME NEW i \in 1..Len(stack) PROVE stack[i].phase = "visit"
  <2>0. Len(stack) = 0 \/ Len(stack) = 1
    BY <1>1, <1>2
  <2>1. i = Len(stack) /\ i # 0
    <3>1. CASE Len(stack) = 0
      BY <3>1
    <3>2. CASE Len(stack) = 1
      BY <3>2
    <3> QED
      BY <2>0, <3>1, <3>2
  <2> QED
    BY <1>0, <2>1, VisitsNothing
<1> QED
  BY <1>3 DEF BeingAsked

(* What was recorded stays so. *)
LEMMA NeededStays ==
  ASSUME StructInv, [Next]_vars, NEW s \in Step,
         \/ s \in Requested
         \/ \E v \in Step : <<"DEPENDENCE", s, v>> \in edges /\ Necessary(status[v])
         \/ \E v \in Vertex : <<"DEPENDENCE_FEEDBACK", v, s>> \in edges
  PROVE  Needed(s)'
<1>1. CASE s \in Requested
  BY <1>1 DEF Needed
<1>2. ASSUME NEW v \in Step, <<"DEPENDENCE", s, v>> \in edges, Necessary(status[v])
      PROVE  Needed(s)'
  <2>1. <<"DEPENDENCE", s, v>> \in edges'
    BY <1>2, LinksStay
  <2>2. Necessary(status'[v])
    BY <1>2, StatusGrows DEF StructInv, Grows, Vertex
  <2> QED
    BY <2>1, <2>2 DEF Needed
<1>3. ASSUME NEW v \in Vertex, <<"DEPENDENCE_FEEDBACK", v, s>> \in edges
      PROVE  Needed(s)'
  <2>1. <<"DEPENDENCE_FEEDBACK", v, s>> \in edges'
    BY <1>3, FlowEdgesStay, VertexAssumption DEF Selector
  <2> QED
    BY <2>1 DEF Needed
<1> QED
  BY <1>1, <1>2, <1>3

(* A step becomes necessary because main, a needed invocation or the step   *)
(* Exec considers asks for it.                                              *)
LEMMA VisitNeeded ==
  ASSUME StructInv, NEW s \in Step, VisitStep(s), ~top.unnecessary, ~Thrown
  PROVE  Needed(s)'
<1> DEFINE n == Len(stack)
<1>0. TypeOK /\ StackInv /\ KeysInv
  BY DEF StructInv, OrderInv, KeysInv
<1>1. /\ n \in Nat \ {0} /\ top = stack[n] /\ s \in top.todo
  BY <1>0, VisitStepStack DEF VisitStep
<1>2. CASE n = 1
  <2>1. stack[1] = top /\ stack # <<>>
    BY <1>1, <1>2 DEF VisitStep, Returned
  <2>2. UNCHANGED <<pc, next, pre_dependence>>
    BY DEF VisitStep, loopVars
  <2>3. CASE pc = "main"
    BY <1>1, <2>1, <2>3 DEF StructInv, CallInv, Needed
  <2>4. CASE pc = "recompute dependences"
    <3>1. s \in pre_dependence /\ ~NotNeeded(next)
      BY <1>1, <2>1, <2>4 DEF StructInv, CallInv
    <3>2. Necessary(status[next]) /\ next \in Vertex /\ status[next] \in Pending
      BY <1>0, <2>4, <3>1 DEF NotNeeded, Necessary, KeysInv, Recomputing, Pending, TypeOK
    <3>3. Necessary(status'[next])
      BY <1>0, <3>2, VisitStepGrows DEF Grows
    <3> QED
      BY <2>2, <2>4, <3>1, <3>3 DEF Needed, Recomputing
  <2>5. CASE pc = "recompute precedences"
    BY <2>1, <2>5 DEF StructInv, CallInv
  <2> QED
    BY <2>1, <2>3, <2>4, <2>5 DEF StructInv, CallInv, Recomputing, Thrown
<1>3. CASE n # 1
  <2> HIDE DEF n
  <2>1. n - 1 \in 1..n - 1 /\ (n - 1) + 1 = n /\ n - 1 \in 1..n /\ n - 1 # n
    BY <1>1, <1>3
  <2>2. stack[n - 1].phase # "visit" /\ Linked(stack[n - 1], top, status) /\ stack[n - 1] \in Frame
    BY <1>0, <1>1, <2>1, StackLength DEF StackInv, n
  <2>3. stack[n - 1].phase \in {"dependences", "precedences"}
    BY <2>2 DEF Frame
  <2>4. stack[n - 1].phase = "dependences" /\ ~stack[n - 1].unnecessary /\ s \in stack[n - 1].relationships
    BY <1>1, <2>2, <2>3 DEF Linked
  <2>5. BeingAsked(s)
    BY <2>1, <2>4 DEF BeingAsked, n
  <2> QED
    BY <2>5, VisitStepAsked DEF Needed
<1> QED
  BY <1>2, <1>3

LEMMA NextNeedInv == StructInv /\ NeedInv /\ [Next]_vars => NeedInv'
<1> SUFFICES ASSUME StructInv, NeedInv, [Next]_vars, ~Thrown', NEW s \in Step, Necessary(status'[s])
             PROVE  Needed(s)'
  BY DEF NeedInv
<1>0. ~Thrown /\ OrderInv /\ KeysInv /\ TypeOK /\ s \in Vertex
  BY ThrownStays DEF StructInv, OrderInv, KeysInv, Vertex
<1>1. CASE ~Necessary(status[s])
  <2>1. ASSUME NEW w \in Step, VisitStep(w) PROVE Needed(s)'
    <3>1. s = w /\ ~top.unnecessary
      BY <1>0, <1>1, <2>1, VisitStepNecessary
    <3> QED
      BY <1>0, <2>1, <3>1, VisitNeeded
  <2>2. ASSUME NEW t \in Step, Invalidate(t) PROVE Needed(s)'
    <3>1. s = t
      BY <1>0, <1>1, <2>2, InvalidateNecessary
    <3>2. <<"DEPENDENCE_FEEDBACK", next, s>> \in edges' /\ next \in Vertex
      BY <1>0, <2>2, <3>1 DEF Invalidate, TypeOK
    <3> QED
      BY <3>2 DEF Needed
  <2>3. CASE Run
    BY <1>0, <1>1, <2>3, RunNecessary DEF Run, TypeOK
  <2> QED
    BY <1>0, <1>1, <2>1, <2>2, <2>3, StepKinds
<1>2. CASE Necessary(status[s])
  <2>0. Needed(s)
    BY <1>0, <1>2 DEF NeedInv
  <2>1. CASE \/ s \in Requested
             \/ \E v \in Step : <<"DEPENDENCE", s, v>> \in edges /\ Necessary(status[v])
             \/ \E v \in Vertex : <<"DEPENDENCE_FEEDBACK", v, s>> \in edges
    BY <2>1, NeededStays
  <2>2. CASE BeingAsked(s)
    <3>1. ~Returned /\ ~ReturnFromAdd
      BY <2>2, NothingAsked
    <3>2. ASSUME NEW w \in Step, VisitKnown(w) \/ VisitStep(w) PROVE Needed(s)'
      BY <2>2, <3>2, VisitKnownAsked, VisitStepAsked DEF Needed
    <3>3. CASE LinkDependences
      BY <2>2, <3>3, LinkDependencesAsked DEF Needed
    <3>4. CASE LinkPrecedences
      BY <2>2, <3>4, LinkPrecedencesAsked DEF Needed
    <3>5. ASSUME NEW w \in Step, VisitSkipped(w) PROVE FALSE
      BY <3>5 DEF VisitSkipped, Thrown
    <3>6. pc = "main" \/ Recomputing
      BY <1>0, <3>1, NoInvocation DEF Thrown
    <3>7. CASE UNCHANGED vars
      <4>1. UNCHANGED stack
        BY <3>7 DEF vars
      <4> QED
        BY <2>2, <4>1 DEF Needed, BeingAsked
    <3> QED
      BY <3>1, <3>2, <3>3, <3>4, <3>5, <3>6, <3>7
      DEF Next, RecursivelyAddSteps, Stop, AddSteps, Exec, Consider, RecomputePrecedences, NotReady, Run,
          Invalidate, InvalidateWrongly, EndIteration, EndExec, Recomputing
  <2>3. CASE Recomputing /\ s \in pre_dependence /\ Necessary(status[next])
    <3>0. Necessary(status'[next]) /\ next \in Vertex
      BY <1>0, <2>3, StatusGrows DEF Grows, TypeOK
    <3>1. CASE NotReady \/ Run
      <4>1. <<"DEPENDENCE", s, next>> \in edges'
        BY <2>3, <3>1 DEF NotReady, Run, LinkNext
      <4>2. next \in Step
        BY <1>0, <2>3, <3>1, ExecDraws DEF Asked, StructInv
      <4> QED
        BY <3>0, <4>1, <4>2 DEF Needed
    <3>2. CASE Recomputing' /\ UNCHANGED <<next, pre_dependence>>
      BY <2>3, <3>0, <3>2 DEF Needed
    <3>3. CASE RecursivelyAddSteps
      <4>1. pc' = pc
        BY <1>0, <3>3, InvocationSteps DEF Thrown
      <4> QED
        BY <1>0, <2>3, <3>2, <3>3, <4>1, InvocationSteps DEF Recomputing
    <3>4. CASE RecomputePrecedences \/ UNCHANGED vars
      BY <2>3, <3>2, <3>4 DEF RecomputePrecedences, vars, loopVars, Recomputing
    <3> QED
      BY <2>3, <3>1, <3>3, <3>4
      DEF Next, Stop, AddSteps, Exec, Consider, Invalidate, InvalidateWrongly, EndIteration, EndExec, Recomputing
  <2> QED
    BY <2>0, <2>1, <2>2, <2>3 DEF Needed
<1> QED
  BY <1>1, <1>2

(* A step is executed only if main requested it, a needed step depends on   *)
(* it, or it was invalidated: precedences cost nothing.                     *)
THEOREM ExecutedIsNeeded == Spec => []OnlyNeededIsExecuted
<1>1. Init => StructInv /\ NeedInv
  <2> SUFFICES ASSUME Init PROVE NeedInv
    BY InitStructInv
  <2>1. \A s \in Step : ~Necessary(status[s])
    BY VertexAssumption DEF Init, Vertex, Necessary, Completed
  <2> QED
    BY <2>1 DEF NeedInv
<1>2. StructInv /\ NeedInv /\ [Next]_vars => (StructInv /\ NeedInv)'
  BY NextStructInv, NextNeedInv
<1>3. StructInv /\ NeedInv => OnlyNeededIsExecuted
  <2> SUFFICES ASSUME StructInv, NeedInv, BetweenIterations, NEW s \in Step, Necessary(status[s])
               PROVE  \/ s \in Requested
                      \/ \E v \in Step : <<"DEPENDENCE", s, v>> \in edges /\ Necessary(status[v])
                      \/ \E v \in Vertex : <<"DEPENDENCE_FEEDBACK", v, s>> \in edges
    BY DEF OnlyNeededIsExecuted
  <2>1. ~Thrown /\ ~Recomputing /\ pc \notin {"main", "already skipped"}
    BY DEF BetweenIterations, Thrown, Recomputing
  <2>2. ~BeingAsked(s)
    BY <2>1, NoInvocation, NothingAsked
  <2> QED
    BY <2>1, <2>2 DEF NeedInv, Needed
<1> QED
  BY <1>1, <1>2, <1>3, PTL DEF Spec

-------------------------------------------------------------------------------
(* Dependences are executed *)

(* While Exec adds what the step it considers depends on, and until it runs *)
(* the step, those it has dealt with are necessary ones.                    *)
SettledInv ==
  HaveAsserts /\ Recomputing /\ status[next] # "UNNECESSARY" =>
    \A u \in pre_dependence :
      (pc = "recompute dependences" /\ u \in BottomTodo) \/ Necessary(status[u])

(* What leaves the list of the outermost invocation while Exec asks for     *)
(* necessary dependences.                                                   *)
LEMMA SettledByVisit ==
  ASSUME StructInv, RecursivelyAddSteps, \A s \in Step : ~VisitSkipped(s), HaveAsserts,
         ~Returned, ~stack[1].unnecessary, NEW u \in BottomTodo, u \notin BottomTodo'
  PROVE  u \in Step => Necessary(status'[u])
<1> SUFFICES ASSUME u \in Step PROVE Necessary(status'[u])
  OBVIOUS
<1>0. TypeOK /\ KeysInv /\ u \in Vertex /\ status[u] \in Status
  BY DEF StructInv, OrderInv, KeysInv, Vertex, TypeOK
<1>1. BottomTodo = stack[1].todo /\ ~stack[1].unnecessary
  BY DEF BottomTodo, Returned
<1> DEFINE n == Len(stack)
<1>2. ASSUME NEW s \in Step, VisitKnown(s) PROVE Necessary(status'[u])
  <2>1. /\ n \in Nat \ {0} /\ Len(stack') = n /\ top = stack[n]
        /\ stack'[n] = [top EXCEPT !.todo = @ \ {s}]
        /\ \A i \in 1..n - 1 : stack'[i] = stack[i]
    BY <1>0, <1>2, VisitKnownStack
  <2>2. top \in Frame /\ stack' # <<>>
    BY <1>0, <2>1, StackLength
  <2>3. BottomTodo' = stack'[1].todo
    BY <2>2 DEF BottomTodo
  <2> HIDE DEF n
  <2>4. CASE n = 1
    <3>1. stack'[1].todo = stack[1].todo \ {s} /\ top = stack[1]
      BY <2>1, <2>2, <2>4 DEF Frame
    <3>2. u = s
      BY <1>1, <2>3, <3>1
    <3>3. status' = status /\ status[u] # "NONEXISTENT" /\ status[u] \notin {"UNNECESSARY", "SKIPPED"}
      BY <1>1, <1>2, <3>1, <3>2 DEF VisitKnown, graphVars
    <3> QED
      BY <1>0, <3>3 DEF Necessary, Status, Completed, Pending
  <2>5. CASE n # 1
    <3>1. 1 \in 1..n - 1
      BY <2>1, <2>5
    <3> QED
      BY <1>1, <2>1, <2>3, <3>1
  <2> QED
    BY <2>4, <2>5
<1>3. ASSUME NEW s \in Step, VisitStep(s) PROVE Necessary(status'[u])
  <2>1. /\ n \in Nat \ {0} /\ Len(stack') = n + 1 /\ top = stack[n]
        /\ \A i \in 1..n - 1 : stack'[i] = stack[i]
    BY <1>0, <1>3, VisitStepStack
  <2>2. PICK answer \in Dependence[s] :
          /\ stack'[n] = [top EXCEPT !.todo = @ \ {s}, !.step = s, !.phase = "dependences",
                                     !.relationships = answer]
          /\ stack'[n + 1] = Call(answer, top.unnecessary)
    BY <1>0, <1>3, VisitStepStack
  <2>3. top \in Frame /\ stack' # <<>>
    <3>1. stack' # <<>>
      BY <2>1
    <3> QED
      BY <1>0, <2>1, <3>1, StackLength
  <2>4. BottomTodo' = stack'[1].todo
    BY <2>3 DEF BottomTodo
  <2> HIDE DEF n
  <2>5. CASE n = 1
    <3>1. stack'[1].todo = stack[1].todo \ {s} /\ top = stack[1]
      BY <2>1, <2>2, <2>3, <2>5 DEF Frame
    <3>2. u = s
      BY <1>1, <2>4, <3>1
    <3> QED
      BY <1>0, <1>1, <1>3, <3>1, <3>2, VisitStepNecessary
  <2>6. CASE n # 1
    <3>1. 1 \in 1..n - 1
      BY <2>1, <2>6
    <3> QED
      BY <1>1, <2>1, <2>4, <3>1
  <2> QED
    BY <2>5, <2>6
<1>4. CASE LinkDependences
  <2> DEFINE caller == stack[n - 1]
  <2>1. /\ n \in Nat /\ n > 1 /\ Len(stack') = n /\ caller \in Frame
        /\ \A i \in 1..n - 2 : stack'[i] = stack[i]
    BY <1>0, <1>4, LinkDependencesStack
  <2>2. PICK answer \in Precedence[caller.step] :
          stack'[n - 1] = [caller EXCEPT !.phase = "precedences", !.relationships = answer]
    BY <1>0, <1>4, LinkDependencesStack
  <2>3. stack'[n - 1].todo = stack[n - 1].todo
    BY <2>1, <2>2 DEF Frame
  <2>4. BottomTodo' = stack'[1].todo
    BY <1>0, <1>4, LinkDependencesBottom DEF BottomKept, BottomTodo
  <2> HIDE DEF n
  <2> HIDE DEF caller
  <2>5. n - 1 = 1 \/ 1 \in 1..n - 2
    BY <2>1
  <2>6. stack'[1].todo = stack[1].todo
    BY <2>1, <2>3, <2>5
  <2> QED
    BY <1>1, <2>4, <2>6
<1>5. CASE LinkPrecedences
  <2> DEFINE caller == stack[n - 1]
  <2>1. /\ n \in Nat /\ n > 1 /\ Len(stack') = n - 1 /\ caller \in Frame
        /\ stack'[n - 1] = [caller EXCEPT !.step = Entry, !.phase = "visit", !.relationships = {}]
        /\ \A i \in 1..n - 2 : stack'[i] = stack[i]
    BY <1>0, <1>5, LinkPrecedencesStack
  <2>3. stack'[n - 1].todo = stack[n - 1].todo
    BY <2>1 DEF Frame
  <2>4. BottomTodo' = stack'[1].todo
    BY <1>0, <1>5, LinkPrecedencesBottom DEF BottomKept, BottomTodo
  <2> HIDE DEF n
  <2> HIDE DEF caller
  <2>5. n - 1 = 1 \/ 1 \in 1..n - 2
    BY <2>1
  <2>6. stack'[1].todo = stack[1].todo
    BY <2>1, <2>3, <2>5
  <2> QED
    BY <1>1, <2>4, <2>6
<1>6. CASE ReturnFromAdd
  <2>1. stack[1].todo = {}
    BY <1>0, <1>6, ReturnFromAddStack
  <2> QED
    BY <1>1, <2>1
<1> QED
  BY <1>2, <1>3, <1>4, <1>5, <1>6 DEF RecursivelyAddSteps

LEMMA NextSettledInv == StructInv /\ SettledInv /\ [Next]_vars => SettledInv'
<1> SUFFICES ASSUME StructInv, SettledInv, [Next]_vars, HaveAsserts, Recomputing',
                    status'[next'] # "UNNECESSARY", NEW u \in pre_dependence'
             PROVE  (pc' = "recompute dependences" /\ u \in BottomTodo') \/ Necessary(status'[u])
  BY DEF SettledInv
<1>0. TypeOK /\ TypeOK' /\ KeysInv /\ u \in Step /\ u \in Vertex
  BY NextTypeOK DEF StructInv, OrderInv, KeysInv, TypeOK, Vertex
<1>1. Necessary(status[u]) => Necessary(status'[u])
  BY <1>0, StatusGrows DEF StructInv, Grows
<1>2. CASE RecursivelyAddSteps
  <2>1. pc' = pc /\ UNCHANGED <<next, pre_dependence>> /\ Recomputing /\ status'[next] = status[next]
    BY <1>0, <1>2, InvocationSteps DEF Recomputing
  <2>2. (pc = "recompute dependences" /\ u \in BottomTodo) \/ Necessary(status[u])
    BY <2>1 DEF SettledInv
  <2>3. ASSUME pc = "recompute dependences", u \in BottomTodo, u \notin BottomTodo'
        PROVE  Necessary(status'[u])
    <3>1. \A s \in Step : ~VisitSkipped(s)
      BY <2>1 DEF VisitSkipped, Recomputing
    <3>2. ~Returned
      BY <2>3 DEF Returned, BottomTodo
    <3>3. ~stack[1].unnecessary
      BY <2>1, <2>3, <3>2 DEF StructInv, CallInv, Returned, NotNeeded
    <3> QED
      BY <1>0, <1>2, <2>3, <3>1, <3>2, <3>3, SettledByVisit
  <2> QED
    BY <1>1, <2>1, <2>2, <2>3
<1>3. ASSUME NEW e \in possibly_ready, Consider(e)
      PROVE  pc' = "recompute dependences" /\ u \in BottomTodo'
  <2>1. stack' = <<Call(pre_dependence', NotNeeded(e.step))>> /\ pc' = "recompute dependences"
    BY <1>3 DEF Consider
  <2>2. stack' # <<>> /\ stack'[1].todo = pre_dependence'
    BY <2>1, NewCallLinks, CallFields
  <2> QED
    BY <2>1, <2>2 DEF BottomTodo
<1>4. CASE RecomputePrecedences
  <2>1. UNCHANGED <<status, next, pre_dependence>> /\ stack = <<>> /\ Recomputing
    BY <1>4 DEF RecomputePrecedences, graphVars, Returned, Recomputing
  <2>2. BottomTodo = {}
    BY <2>1 DEF BottomTodo
  <2> QED
    BY <2>1, <2>2 DEF SettledInv
<1>5. CASE UNCHANGED vars
  <2>1. UNCHANGED <<status, next, pre_dependence, pc, stack>>
    BY <1>5 DEF vars, graphVars, loopVars
  <2> QED
    BY <2>1 DEF SettledInv, Recomputing, BottomTodo
<1> QED
  BY <1>2, <1>3, <1>4, <1>5
  DEF Next, Stop, AddSteps, Exec, NotReady, Run, Invalidate, InvalidateWrongly, EndIteration, EndExec, Recomputing

(* In a build with assertions no step is executed on top of a dependence    *)
(* that was skipped, however long before somebody depended on it.           *)
THEOREM DependencesAreExecuted ==
  ASSUME HaveAsserts
  PROVE  Spec => DependencesExecuted
<1>1. Init => StructInv /\ SettledInv
  <2> SUFFICES ASSUME Init PROVE SettledInv
    BY InitStructInv
  <2> QED
    BY DEF Init, SettledInv, Recomputing
<1>2. StructInv /\ SettledInv /\ [Next]_vars => (StructInv /\ SettledInv)'
  BY NextStructInv, NextSettledInv
<1>3. StructInv /\ SettledInv /\ [Next]_vars =>
        [Run /\ status'[next] # "SKIPPED" => \A u \in pre_dependence : status[u] # "SKIPPED"]_vars
  <2> SUFFICES ASSUME StructInv, SettledInv, Run, status'[next] # "SKIPPED", NEW u \in pre_dependence
               PROVE  status[u] # "SKIPPED"
    OBVIOUS
  <2>1. KeysInv /\ Recomputing /\ pc # "recompute dependences"
    BY DEF StructInv, OrderInv, Run, Recomputing
  <2>2. status[next] # "UNNECESSARY"
    BY <2>1 DEF Run, Outcome, KeysInv, TypeOK
  <2>3. Necessary(status[u])
    BY <2>1, <2>2 DEF SettledInv
  <2> QED
    BY <2>3 DEF Necessary
<1> QED
  BY <1>1, <1>2, <1>3, PTL DEF Spec, DependencesExecuted

-------------------------------------------------------------------------------
(* Nothing is left undone *)

(* What a completed step follows is completed too, when answers are fixed.  *)
DownInv ==
  Steady => \A s \in Step : status[s] \in Completed => Predecessors(s) \subseteq CompletedSteps

(* A step of the graph leads somewhere, be it only to Exit.                 *)
HookedInv == \A s \in Step : status[s] # "NONEXISTENT" => Successors(s) # {} \/ OnStack(s)

(* Exit is in possibly_ready, or on its way there as Tracked, or something  *)
(* is left to be done before it.                                            *)
ExitWaits ==
  \/ InSet(Exit)
  \/ \E s \in Step : status[s] \in Pending
  \/ Recomputing /\ next = Exit
  \/ pc = "invalidate" /\ Exit \in Successors(next)
  \/ pc = "main" /\ \A s \in Step : status[s] = "NONEXISTENT"

ExitInv == Steady /\ ~Thrown /\ status[Exit] = "UNEXECUTED" => ExitWaits

EndInv ==
  /\ pc \in {"ended", "did not end"} => possibly_ready = {}
  /\ pc = "did not end" => status[Exit] # "EMPTY"

LEMMA EdgesStay ==
  ASSUME [Next]_vars, ~LinkPrecedences, ~EndIteration
  PROVE  edges \subseteq edges'
<1>1. CASE LinkDependences
  BY <1>1 DEF LinkDependences
<1>2. CASE NotReady \/ Run
  BY <1>2 DEF NotReady, Run, LinkNext
<1>3. ASSUME NEW t \in Step, Invalidate(t)
      PROVE  edges \subseteq edges'
  BY <1>3 DEF Invalidate
<1>4. ASSUME NEW s \in Step, VisitKnown(s) \/ VisitSkipped(s) \/ VisitStep(s)
      PROVE  edges' = edges
  BY <1>4 DEF VisitKnown, VisitSkipped, VisitStep, graphVars
<1>5. ASSUME NEW S \in SUBSET Requested, AddSteps(S)
      PROVE  edges' = edges
  BY <1>5 DEF AddSteps, graphVars
<1>6. ASSUME NEW e \in possibly_ready, Consider(e)
      PROVE  edges' = edges
  BY <1>6 DEF Consider, graphVars
<1>7. ASSUME NEW t \in Step, InvalidateWrongly(t)
      PROVE  edges' = edges
  BY <1>7 DEF InvalidateWrongly, graphVars
<1>8. CASE ReturnFromAdd \/ Exec \/ RecomputePrecedences \/ EndExec
  BY <1>8 DEF ReturnFromAdd, Exec, RecomputePrecedences, EndExec, graphVars
<1>9. CASE UNCHANGED vars
  BY <1>9 DEF vars, graphVars
<1> QED
  BY <1>1, <1>2, <1>3, <1>4, <1>5, <1>6, <1>7, <1>8, <1>9 DEF Next, RecursivelyAddSteps, Stop

(* A vertex is unhooked from Exit only when it leads elsewhere.             *)
LEMMA SuccessorsStay ==
  ASSUME [Next]_vars, TypeOK, NEW s \in Step, Successors(s) # {}
  PROVE  Successors(s)' # {}
<1>0. Exit \in Vertex
  BY DEF Vertex
<1>1. ASSUME NEW w \in Successors(s), w # Exit
      PROVE  w \in Successors(s)'
  <2>1. PICK k \in FlowSelector : <<k, s, w>> \in edges
    BY <1>1 DEF Successors, TargetsIn, FlowSelector
  <2>2. <<k, s, w>> \in edges'
    BY <1>1, <2>1, FlowEdgesStay DEF FlowSelector
  <2> QED
    BY <1>1, <2>2 DEF Successors, TargetsIn, FlowSelector
<1>2. CASE Exit \in Successors(s) /\ LinkPrecedences
  <2> DEFINE caller == stack[Len(stack) - 1]
             drawn == edges \cup ({"PRECEDENCE"} \X caller.relationships \X {caller.step})
  <2>1. edges' = HookUp(drawn, caller.step) /\ edges \subseteq drawn
    BY <1>2 DEF LinkPrecedences
  <2>2. caller.step \in Step /\ caller.step \in Vertex /\ caller.step # Exit
    <3>1. stack[Len(stack) - 1].step \in Step
      BY <1>2, LinkPrecedencesStack
    <3> QED
      BY <3>1, VertexAssumption DEF Vertex
  <2>3. PICK k \in FlowSelector : <<k, s, Exit>> \in drawn
    BY <1>2, <2>1 DEF Successors, TargetsIn, FlowSelector
  <2> HIDE DEF drawn, caller
  <2>4. CASE s \in SourcesIn(drawn, caller.step)
    <3>1. PICK l \in FlowSelector : <<l, s, caller.step>> \in drawn
      BY <2>4 DEF SourcesIn, FlowSelector
    <3>2. <<l, s, caller.step>> \in edges'
      BY <2>1, <2>2, <3>1 DEF HookUp
    <3> QED
      BY <2>2, <3>2 DEF Successors, TargetsIn, FlowSelector
  <2>5. CASE s \notin SourcesIn(drawn, caller.step)
    <3>1. <<k, s, Exit>> \in edges'
      BY <2>1, <2>3, <2>5 DEF HookUp
    <3> QED
      BY <1>0, <3>1 DEF Successors, TargetsIn, FlowSelector
  <2> QED
    BY <2>4, <2>5
<1>3. CASE Exit \in Successors(s) /\ EndIteration
  <2>1. CASE Successors(s) = {Exit}
    <3>1. PICK k \in FlowSelector : <<k, s, Exit>> \in edges
      BY <1>3 DEF Successors, TargetsIn, FlowSelector
    <3>2. <<k, s, Exit>> \in edges'
      BY <1>3, <2>1, <3>1 DEF EndIteration, Unhooked
    <3> QED
      BY <1>0, <3>2 DEF Successors, TargetsIn, FlowSelector
  <2>2. CASE Successors(s) # {Exit}
    BY <1>1, <1>3, <2>2
  <2> QED
    BY <2>1, <2>2
<1>4. CASE ~LinkPrecedences /\ ~EndIteration
  <2>1. edges \subseteq edges'
    BY <1>4, EdgesStay
  <2> QED
    BY <2>1 DEF Successors, TargetsIn
<1> QED
  BY <1>1, <1>2, <1>3, <1>4

LEMMA NextHookedInv == StructInv /\ HookedInv /\ [Next]_vars => HookedInv'
<1> SUFFICES ASSUME StructInv, HookedInv, [Next]_vars,
                    NEW s \in Step, status'[s] # "NONEXISTENT"
             PROVE  Successors(s)' # {} \/ OnStack(s)'
  BY DEF HookedInv
<1>0. KeysInv /\ OrderInv /\ TypeOK /\ s \in Vertex /\ Exit \in Vertex
  BY DEF StructInv, OrderInv, KeysInv, Vertex
<1>1. CASE status[s] = "NONEXISTENT"
  <2>1. PICK w \in Step : VisitStep(w)
    <3>1. ~Run /\ \A t \in Step : ~Invalidate(t)
      BY <1>0, <1>1, RunStatus, InvalidateStatus
    <3> QED
      BY <1>0, <1>1, <3>1, StepKinds
  <2>2. s = w
    BY <1>0, <1>1, <2>1, VisitStepNecessary
  <2> QED
    BY <2>1, <2>2, VisitStepKeeps
<1>2. CASE Successors(s) # {}
  BY <1>0, <1>2, SuccessorsStay
<1>3. CASE OnStack(s)
  <2>1. ASSUME NEW w \in Step, VisitKnown(w) PROVE OnStack(s)'
    BY <1>3, <2>1, VisitKnownKeeps
  <2>2. ASSUME NEW w \in Step, VisitStep(w) PROVE OnStack(s)'
    BY <1>3, <2>2, VisitStepKeeps
  <2>3. CASE LinkDependences
    BY <1>3, <2>3, LinkDependencesKeeps
  <2>4. CASE LinkPrecedences /\ s # stack[Len(stack) - 1].step
    BY <1>3, <2>4, LinkPrecedencesKeeps
  <2>5. CASE LinkPrecedences /\ s = stack[Len(stack) - 1].step
    <3> DEFINE drawn == edges \cup ({"PRECEDENCE"} \X stack[Len(stack) - 1].relationships \X {s})
               unhooked == drawn \ ({"AUX"} \X SourcesIn(drawn, s) \X {Exit})
    <3>1. edges' = HookUp(drawn, s)
      BY <2>5 DEF LinkPrecedences
    <3> HIDE DEF drawn
    <3>2. unhooked \subseteq edges' /\ (TargetsIn(unhooked, s) = {} => <<"AUX", s, Exit>> \in edges')
      BY <3>1 DEF HookUp
    <3> HIDE DEF unhooked
    <3>3. TargetsIn(edges', s) # {}
      BY <1>0, <3>2 DEF TargetsIn, Selector
    <3> QED
      BY <3>3 DEF Successors
  <2>6. ~ReturnFromAdd
    BY <1>3, ReturnKeepsNothing
  <2>7. ~Returned
    BY <1>0, <1>3, EmptyStack
  <2>8. ASSUME NEW e \in possibly_ready, Consider(e) PROVE FALSE
    BY <2>7, <2>8, NoInvocation DEF Consider, Recomputing
  <2>9. CASE UNCHANGED stack
    BY <1>3, <2>9 DEF OnStack
  <2> QED
    BY <2>1, <2>2, <2>3, <2>4, <2>5, <2>6, <2>7, <2>8, <2>9
    DEF Next, RecursivelyAddSteps, VisitSkipped, AddSteps, Exec, RecomputePrecedences, NotReady, Run, Invalidate,
        InvalidateWrongly, EndIteration, EndExec, Stop, vars
<1> QED
  BY <1>1, <1>2, <1>3 DEF HookedInv

(* With fixed answers, the step that runs follows only what it asked for.   *)
LEMMA RunPredecessors ==
  ASSUME StructInv, [Next]_vars, Run, Steady, next \in Step
  PROVE  Predecessors(next)' \subseteq CompletedSteps
<1> SUFFICES ASSUME NEW u \in Predecessors(next)' PROVE u \in CompletedSteps
  OBVIOUS
<1>0. KeysInv /\ CallInv /\ EdgesInv' /\ next' = next /\ next # Exit
  BY NextStructInv, VertexAssumption DEF StructInv, OrderInv, Run
<1>1. PICK k \in FlowSelector : <<k, u, next>> \in edges' /\ u \in Vertex
  BY <1>0 DEF Predecessors, SourcesIn, FlowSelector
<1>2. EdgeOK(k, u, next, status')
  BY <1>0, <1>1 DEF EdgesInv, Vertex
<1>3. Asked \subseteq CompletedSteps /\ pre_dependence \in Dependence[next] /\ pre_precedence \in Precedence[next]
  BY <1>0, ExecDraws DEF Run, AskedDone, Answers
<1>4. CASE k = "DEPENDENCE" \/ k = "PRECEDENCE"
  <2>1. u \in Asked
    BY <1>2, <1>3, <1>4 DEF EdgeOK, Asked, Steady
  <2> QED
    BY <1>3, <2>1
<1>5. CASE k = "AUX"
  <2>1. u = Entry /\ status[Entry] = "EMPTY"
    BY <1>0, <1>2, <1>5 DEF EdgeOK, StructInv, EdgesInv
  <2> QED
    BY <2>1 DEF CompletedSteps, Completed, Vertex
<1> QED
  BY <1>1, <1>4, <1>5 DEF FlowSelector, Selector

LEMMA NextDownInv == StructInv /\ DownInv /\ [Next]_vars => DownInv'
<1> SUFFICES ASSUME StructInv, DownInv, [Next]_vars, Steady,
                    NEW s \in Step, status'[s] \in Completed, NEW u \in Predecessors(s)'
             PROVE  u \in CompletedSteps'
  BY DEF DownInv, Steady
<1>0. KeysInv /\ OrderInv /\ TypeOK /\ s \in Vertex /\ u \in Vertex /\ s # Exit
  BY VertexAssumption DEF StructInv, OrderInv, KeysInv, Vertex, Predecessors, SourcesIn
<1>1. s \in CompletedSteps'
  BY <1>0 DEF CompletedSteps
<1>2. CASE s \notin CompletedSteps
  <2>1. Run
    BY <1>0, <1>1, <1>2, CompletedByRun
  <2>2. s = next /\ CompletedSteps \subseteq CompletedSteps' /\ next' = next
    BY <1>0, <1>1, <1>2, <2>1, RunStatus DEF Run
  <2> QED
    BY <2>1, <2>2, RunPredecessors DEF Predecessors
<1>3. CASE s \in CompletedSteps
  <2>0. status[s] \notin Pending
    BY <1>3 DEF CompletedSteps, Completed, Pending
  <2>1. PICK k \in FlowSelector : <<k, u, s>> \in edges'
    BY DEF Predecessors, SourcesIn, FlowSelector
  <2>2. ~DrawnByAdd(k, u, s)
    <3> DEFINE caller == stack[Len(stack) - 1]
    <3>1. ASSUME DrawnByAdd(k, u, s) PROVE status[caller.step] \in Pending /\ s = caller.step
      BY <1>0, <3>1, CallerDraws DEF DrawnByAdd, StructInv
    <3> QED
      BY <2>0, <3>1
  <2>3. ~DrawnByExec(k, u, s)
    BY <1>0, <2>0, ExecDraws DEF DrawnByExec, StructInv
  <2>4. <<k, u, s>> \in edges
    BY <2>1, <2>2, <2>3, EdgesDrawn
  <2>5. u \in Predecessors(s) /\ s \in Successors(u)
    BY <1>0, <2>4 DEF Predecessors, Successors, SourcesIn, TargetsIn, FlowSelector
  <2>6. u \in CompletedSteps
    BY <1>3, <2>5 DEF DownInv, CompletedSteps
  <2>7. CASE Run
    BY <1>0, <2>6, <2>7, RunStatus
  <2>8. ASSUME NEW w \in Step, VisitStep(w) PROVE u \in CompletedSteps'
    BY <1>0, <2>6, <2>8, VisitStepStatus
  <2>9. ASSUME NEW t \in Step, Invalidate(t) PROVE u \in CompletedSteps'
    <3>1. CompletedSteps' = CompletedSteps \ (Reopened(t) \cup {t})
      BY <1>0, <2>9, InvalidateStatus
    <3>2. IsClosed(Reopened(t), t, CompletedSteps \ {t})
      BY ClosureProperties DEF Reopened
    <3>3. u # t /\ u \notin Reopened(t)
      BY <1>1, <1>3, <2>5, <3>1, <3>2 DEF IsClosed
    <3> QED
      BY <2>6, <3>1, <3>3
  <2>10. CASE UNCHANGED <<status, needs>>
    BY <2>6, <2>10 DEF CompletedSteps
  <2> QED
    BY <1>0, <2>7, <2>8, <2>9, <2>10, StepKinds
<1> QED
  BY <1>2, <1>3

(* The last step to be done leads to Exit and nowhere else.                 *)
LEMMA LastLeadsToExit ==
  ASSUME StructInv, DownInv, HookedInv, [Next]_vars, Run, Steady, next \in Step,
         \A s \in Step : status'[s] \notin Pending
  PROVE  Exit \in Successors(next)'
<1>0. KeysInv /\ TypeOK /\ TypeOK' /\ EdgesInv' /\ stack' = stack /\ Returned /\ HookedInv' /\ next' = next
  BY NextStructInv, NextHookedInv, NextTypeOK DEF StructInv, OrderInv, KeysInv, Run
<1>1. /\ status[next] \in Pending /\ next \in Vertex
      /\ CompletedSteps' = CompletedSteps \cup {next}
      /\ \A v \in Vertex : status'[v] = "NONEXISTENT" <=> status[v] = "NONEXISTENT"
  BY <1>0, RunStatus
<1>2. next \notin CompletedSteps
  BY <1>1 DEF CompletedSteps, Completed, Pending
<1>3. ~OnStack(next)'
  BY <1>0, EmptyStack DEF OnStack
<1>4. status'[next] # "NONEXISTENT"
  BY <1>1 DEF Pending
<1>5. PICK w \in Vertex : w \in Successors(next)'
  <2>1. Successors(next)' # {}
    BY <1>0, <1>3, <1>4 DEF HookedInv
  <2> QED
    BY <2>1 DEF Successors, TargetsIn
<1>6. PICK k \in FlowSelector : <<k, next, w>> \in edges'
  BY <1>0, <1>5 DEF Successors, TargetsIn, FlowSelector
<1>7. status'[w] # "NONEXISTENT" /\ w # Entry
  BY <1>0, <1>1, <1>6 DEF EdgesInv, EdgeOK
<1>8. CASE w \in Step
  <2>1. w \in CompletedSteps'
    BY <1>0, <1>7, <1>8 DEF TypeOK, CompletedSteps, Status, Vertex
  <2>2. w # next
    <3>1. w = next => next \in Predecessors(next)'
      BY <1>0, <1>1, <1>5 DEF Predecessors, Successors, SourcesIn, TargetsIn
    <3> QED
      BY <1>2, <3>1, RunPredecessors
  <2>3. w \in CompletedSteps /\ next \notin Predecessors(w)
    <3>1. w \in CompletedSteps
      BY <1>1, <2>1, <2>2
    <3>2. Predecessors(w) \subseteq CompletedSteps
      BY <1>8, <3>1 DEF DownInv, CompletedSteps
    <3> QED
      BY <1>2, <3>1, <3>2
  <2>4. <<k, next, w>> \notin edges
    BY <1>1, <2>3 DEF Predecessors, SourcesIn, FlowSelector
  <2>5. ~DrawnByAdd(k, next, w) /\ ~DrawnByExec(k, next, w)
    <3>1. ~LinkDependences /\ ~LinkPrecedences
      BY <1>0, StackLength DEF LinkDependences, LinkPrecedences, Resumable
    <3> QED
      BY <2>2, <3>1 DEF DrawnByAdd, DrawnByExec
  <2> QED
    BY <1>6, <2>4, <2>5, EdgesDrawn
<1> QED
  BY <1>5, <1>7, <1>8 DEF Vertex

LEMMA EndIterationExit ==
  ASSUME StructInv, EndIteration, status[Exit] = "UNEXECUTED", Exit \in Successors(next)
  PROVE  InSet(Exit)' \/ \E s \in Step : status'[s] \in Pending
<1>0. TypeOK /\ EdgesInv /\ Exit \in Vertex /\ status' = status
      /\ possibly_ready' = possibly_ready \cup Entries(Woken(next), status)
  BY DEF StructInv, OrderInv, KeysInv, Vertex, EndIteration
<1>1. CASE Ready(Exit)
  <2>1. Exit \in Woken(next)
    BY <1>1 DEF Woken, Pending
  <2>2. Entries({Exit}, status') \subseteq Entries(Woken(next), status)
    BY <1>0, <2>1 DEF Entries
  <2> QED
    BY <1>0, <2>2 DEF InSet
<1>2. CASE ~Ready(Exit)
  <2>1. PICK u \in Vertex : u \in Predecessors(Exit) /\ u \notin CompletedSteps
    BY <1>2 DEF Ready, Predecessors, SourcesIn
  <2>2. PICK k \in FlowSelector : <<k, u, Exit>> \in edges
    BY <2>1 DEF Predecessors, SourcesIn, FlowSelector
  <2>3. status[u] # "NONEXISTENT" /\ u # Exit
    BY <1>0, <2>1, <2>2 DEF EdgesInv, EdgeOK
  <2>4. u # Entry
    BY <1>0, <2>1 DEF EdgesInv, CompletedSteps, Completed
  <2> QED
    BY <1>0, <2>1, <2>3, <2>4 DEF Vertex, TypeOK, Status, CompletedSteps
<1> QED
  BY <1>1, <1>2

LEMMA NextExitInv ==
  StructInv /\ DownInv /\ HookedInv /\ ExitInv /\ [Next]_vars => ExitInv'
<1> SUFFICES ASSUME StructInv, DownInv, HookedInv, ExitInv, [Next]_vars,
                    Steady, ~Thrown', status'[Exit] = "UNEXECUTED"
             PROVE  ExitWaits'
  BY DEF ExitInv, Steady
<1>0. ~Thrown /\ KeysInv /\ OrderInv /\ TypeOK /\ CallInv /\ EdgesInv /\ Exit \in Vertex
  BY ThrownStays DEF StructInv, OrderInv, KeysInv, Vertex
<1>1. CASE \E s \in Step : status'[s] \in Pending
  BY <1>1 DEF ExitWaits
<1>2. CASE Run
  <2>1. next \in Vertex /\ status[next] \in Pending /\ status \in [Vertex -> Status]
    BY <1>0, <1>2, RunStatus DEF TypeOK
  <2>2. next # Exit
    <3>1. next = Exit => status'[Exit] = "EMPTY"
      BY <1>0, <1>2, <2>1 DEF Run, Outcome, EdgesInv
    <3> QED
      BY <3>1
  <2>3. next \in Step
    BY <1>0, <2>1, <2>2 DEF Vertex, EdgesInv, Pending
  <2>4. pc' = "invalidate" /\ next' = next
    BY <1>2 DEF Run
  <2> QED
    BY <1>1, <1>2, <2>3, <2>4, LastLeadsToExit DEF ExitWaits, Successors
<1>3. ASSUME NEW t \in Step, Invalidate(t) PROVE ExitWaits'
  <2>1. status'[t] \in Pending
    BY <1>0, <1>3, DeExecuteStatus DEF Invalidate, Vertex
  <2> QED
    BY <2>1 DEF ExitWaits
<1>4. ASSUME NEW s \in Step, VisitStep(s) PROVE ExitWaits'
  BY <1>0, <1>4, VisitStepNecessary DEF ExitWaits
<1>5. CASE UNCHANGED <<status, needs>> /\ \A s \in Step : status'[s] \notin Pending
  <2>0. ExitWaits /\ \A s \in Step : status[s] \notin Pending
    BY <1>0, <1>5 DEF ExitInv
  <2>1. CASE InSet(Exit)
    <3>1. CASE possibly_ready \subseteq possibly_ready'
      BY <1>5, <2>1, <3>1, InSetKept DEF ExitWaits
    <3>2. ASSUME NEW e \in possibly_ready, Consider(e) PROVE ExitWaits'
      <4>1. next' = e.step /\ possibly_ready' = Erased(e.step) /\ Recomputing'
        BY <3>2 DEF Consider, Recomputing
      <4>2. CASE e.step = Exit
        BY <4>1, <4>2 DEF ExitWaits
      <4>3. CASE e.step # Exit
        BY <1>5, <2>1, <4>1, <4>3, InSetOthers DEF ExitWaits
      <4> QED
        BY <4>2, <4>3
    <3>3. ~\E s \in Step : VisitStep(s)
      BY <1>1, <1>5, <1>0, VisitStepNecessary
    <3> QED
      BY <1>2, <1>3, <3>1, <3>2, <3>3
      DEF Next, RecursivelyAddSteps, VisitKnown, VisitSkipped, LinkDependences, LinkPrecedences, ReturnFromAdd, AddSteps,
          Exec, RecomputePrecedences, NotReady, InvalidateWrongly, EndIteration, EndExec, Stop, vars, graphVars
  <2>2. CASE Recomputing /\ next = Exit
    <3>1. ~NotReady
      <4>1. Exit \notin Step
        BY VertexAssumption
      <4>2. ASSUME NotReady PROVE FALSE
        <5>1. Asked = {}
          BY <1>0, <2>2, <4>1, <4>2, ExecDraws
        <5> QED
          BY <4>2, <5>1 DEF NotReady, AskedDone
      <4> QED
        BY <4>2
    <3>2. CASE pc' = pc /\ next' = next
      BY <2>2, <3>2 DEF ExitWaits, Recomputing
    <3>3. CASE RecomputePrecedences
      BY <2>2, <3>3 DEF RecomputePrecedences, ExitWaits, Recomputing
    <3>4. pc \notin {"main", "loop", "invalidate"}
      BY <2>2 DEF Recomputing
    <3>5. ~\E s \in Step : VisitSkipped(s)
      BY DEF VisitSkipped, Thrown
    <3> QED
      BY <1>2, <1>4, <3>1, <3>2, <3>3, <3>4, <3>5
      DEF Next, RecursivelyAddSteps, VisitKnown, LinkDependences, LinkPrecedences, ReturnFromAdd, AddSteps,
          Exec, Consider, Invalidate, InvalidateWrongly, EndIteration, EndExec, Stop, vars, loopVars
  <2>3. CASE pc = "invalidate" /\ Exit \in Successors(next)
    <3>1. Returned
      BY <2>3, NoInvocation DEF Recomputing
    <3>2. CASE EndIteration
      BY <1>0, <2>3, <3>2, <1>5, EndIterationExit DEF ExitWaits
    <3>3. ~LinkDependences /\ ~LinkPrecedences /\ ~ReturnFromAdd
      BY <1>0, <3>1, StackLength DEF LinkDependences, LinkPrecedences, ReturnFromAdd, Resumable
    <3>4. ~\E s \in Step : VisitKnown(s) \/ VisitSkipped(s) \/ VisitStep(s)
      BY <3>1 DEF VisitKnown, VisitSkipped, VisitStep
    <3>5. ~\E t \in Step : InvalidateWrongly(t)
      BY DEF InvalidateWrongly, Thrown
    <3>6. CASE UNCHANGED vars
      BY <2>3, <3>6 DEF vars, graphVars, loopVars, ExitWaits, Successors
    <3> QED
      BY <1>2, <1>3, <2>3, <3>2, <3>3, <3>4, <3>5, <3>6
      DEF Next, RecursivelyAddSteps, AddSteps, Exec, Consider, RecomputePrecedences, NotReady, EndExec, Stop, Stopped
  <2>4. CASE pc = "main" /\ \A s \in Step : status[s] = "NONEXISTENT"
    <3>1. ~Exec
      BY <2>4 DEF Exec
    <3>2. CASE pc' = pc
      BY <1>5, <2>4, <3>2 DEF ExitWaits
    <3>3. ~\E s \in Step : VisitSkipped(s)
      BY DEF VisitSkipped, Thrown
    <3> QED
      BY <1>2, <1>4, <2>4, <3>1, <3>2, <3>3
      DEF Next, RecursivelyAddSteps, VisitKnown, LinkDependences, LinkPrecedences, ReturnFromAdd, AddSteps,
          Consider, RecomputePrecedences, NotReady, Invalidate, InvalidateWrongly, EndIteration, EndExec, Stop, Stopped, vars
  <2> QED
    BY <2>0, <2>1, <2>2, <2>3, <2>4 DEF ExitWaits
<1> QED
  BY <1>0, <1>1, <1>2, <1>3, <1>4, <1>5, StepKinds

LEMMA NextEndInv ==
  EndInv /\ [Next]_vars => EndInv'
<1> SUFFICES ASSUME EndInv, [Next]_vars PROVE EndInv'
  OBVIOUS
<1>1. CASE EndExec
  BY <1>1 DEF EndExec, EndInv, graphVars
<1>2. CASE pc \in Stopped
  <2>1. UNCHANGED <<pc, possibly_ready, status>>
    BY <1>2 DEF Next, Stopped, AddSteps, Exec, Consider, RecomputePrecedences, NotReady, Run, Invalidate,
                InvalidateWrongly, EndIteration, EndExec, Stop, vars, graphVars
  <2> QED
    BY <2>1 DEF EndInv
<1>3. CASE pc \notin Stopped /\ ~EndExec
  <2>1. pc' \notin {"ended", "did not end"}
    BY <1>3 DEF Next, Stopped, RecursivelyAddSteps, VisitKnown, VisitSkipped, VisitStep, LinkDependences,
                LinkPrecedences, ReturnFromAdd, AddSteps, Exec, Consider, RecomputePrecedences, NotReady, Run,
                Invalidate, InvalidateWrongly, EndIteration, Stop, vars, loopVars
  <2> QED
    BY <2>1 DEF EndInv
<1> QED
  BY <1>1, <1>2, <1>3

EndingInv == StructInv /\ ReadyInv /\ DownInv /\ HookedInv /\ ExitInv /\ EndInv

(* When possibly_ready is empty, what is left to be done waits for itself.  *)
LEMMA PendingFollowsPending ==
  ASSUME StructInv, ReadyInv, pc \in {"ended", "did not end"}, possibly_ready = {},
         NEW s \in Step, status[s] \in Pending
  PROVE  \E u \in Step : u \in Predecessors(s) /\ status[u] \in Pending
<1>0. TypeOK /\ EdgesInv /\ ~Thrown /\ ~Recomputing /\ s \in Vertex
  BY DEF StructInv, OrderInv, KeysInv, Thrown, Recomputing, Vertex
<1>1. ~Ready(s)
  <2>1. ~OnStack(s)
    BY <1>0, NoInvocation, EmptyStack
  <2>2. ~InSet(s)
    BY DEF InSet, Entries
  <2> QED
    BY <1>0, <2>1, <2>2 DEF ReadyInv, Tracked
<1>2. PICK u \in Vertex : u \in Predecessors(s) /\ u \notin CompletedSteps
  BY <1>1 DEF Ready, Predecessors, SourcesIn
<1>3. PICK k \in FlowSelector : <<k, u, s>> \in edges
  BY <1>2 DEF Predecessors, SourcesIn, FlowSelector
<1>4. status[u] # "NONEXISTENT" /\ u # Exit
  BY <1>0, <1>3 DEF EdgesInv, EdgeOK
<1>5. u # Entry
  BY <1>0, <1>2 DEF EdgesInv, CompletedSteps, Completed
<1> QED
  BY <1>0, <1>2, <1>4, <1>5 DEF Vertex, TypeOK, Status, CompletedSteps

(* The loop stops with nothing left to be done, unless the steps drew a     *)
(* cycle, and the flow ends if their answers are fixed.                     *)
THEOREM NothingIsLeftUndone == Spec => []NothingLeftUndone
<1>1. Init => EndingInv
  <2> SUFFICES ASSUME Init PROVE EndingInv
    OBVIOUS
  <2>1. /\ \A s \in Step : status[s] = "NONEXISTENT"
        /\ pc = "main"
    BY VertexAssumption DEF Init, Vertex
  <2>2. ReadyInv /\ DownInv /\ HookedInv
    BY <2>1 DEF ReadyInv, DownInv, HookedInv, Pending, Completed
  <2>3. ExitInv /\ EndInv
    BY <2>1 DEF ExitInv, ExitWaits, EndInv
  <2> QED
    BY <2>2, <2>3, InitStructInv DEF EndingInv
<1>2. EndingInv /\ [Next]_vars => EndingInv'
  BY NextStructInv, NextReadyInv, NextDownInv, NextHookedInv, NextExitInv, NextEndInv DEF EndingInv
<1>3. EndingInv => NothingLeftUndone
  <2> SUFFICES ASSUME EndingInv, pc \in {"ended", "did not end"}, Acyclic
               PROVE  /\ \A s \in Step : status[s] \notin Pending
                      /\ Steady => pc = "ended"
    BY DEF NothingLeftUndone
  <2>0. StructInv /\ ReadyInv /\ possibly_ready = {} /\ (pc = "did not end" => status[Exit] # "EMPTY")
    BY DEF EndingInv, EndInv
  <2>1. \A s \in Step : status[s] \notin Pending
    <3> DEFINE X == {s \in Step : status[s] \in Pending}
    <3>1. \A s \in X : \E u \in X : u \in Predecessors(s)
      BY <2>0, PendingFollowsPending
    <3>2. X \in SUBSET Vertex
      BY DEF Vertex
    <3> HIDE DEF X
    <3>3. X = {}
      BY <3>1, <3>2 DEF Acyclic
    <3> QED
      BY <3>3 DEF X
  <2>2. ASSUME Steady, pc = "did not end" PROVE FALSE
    <3>1. status[Exit] = "UNEXECUTED" /\ ~Thrown /\ ~Recomputing
      BY <2>0, <2>2 DEF StructInv, EdgesInv, Thrown, Recomputing
    <3>2. ExitWaits
      BY <2>2, <3>1 DEF EndingInv, ExitInv
    <3>3. ~InSet(Exit)
      BY <2>0 DEF InSet, Entries
    <3> QED
      BY <2>1, <2>2, <3>1, <3>2, <3>3 DEF ExitWaits
  <2> QED
    BY <2>1, <2>2
<1> QED
  BY <1>1, <1>2, <1>3, PTL DEF Spec
===============================================================================
