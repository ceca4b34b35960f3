------------------------ MODULE ReviewPipelineProofs ------------------------
(***************************************************************************)
(* The review graph, for any documents, any parallelism and any answers.   *)
(***************************************************************************)
EXTENDS ReviewPipeline, FiniteSetTheorems, TLAPS

\* The first states.
LEMMA PipelineInit == Init => IndInv
BY ReviewContractAssumption, ReviewPipelineAssumption, ContractsAssumption
DEF Init, IndInv, TypeOK, BranchInv, JoinIsComplete, ResultIsReviewed, BranchState, Outcome,
    NoExtractions, Ended

\* Only dispatched branches exist, and nobody else's document is touched.
LEMMA DispatchStep ==
  ASSUME IndInv, Dispatch
  PROVE  IndInv'
<1>1. /\ docs' = docs /\ prior' = prior /\ outcome' = outcome /\ extractions' = extractions
      /\ failures' = failures /\ evaluation' = evaluation /\ plan' = plan
  BY DEF Dispatch, snapshot
<1>2. TypeOK'
  BY <1>1 DEF Dispatch, IndInv, TypeOK, BranchState
<1>3. BranchInv'
  <2>1. /\ branch' = [d \in Docs |-> IF d \in Dispatched(docs) THEN "waiting" ELSE "none"]
        /\ node' \in {"evaluate_checklist", "review_document"}
        /\ node = "start"
    BY DEF Dispatch
  <2>2. \A d \in Docs : outcome[d] = NoOutcome
    BY <2>1 DEF IndInv, BranchInv
  <2>3. Dispatched(docs') = Dispatched(docs)
    BY <1>1
  <2>4. extractions = NoExtractions /\ failures = {}
    BY <2>1 DEF IndInv, BranchInv
  <2>5. \A d \in Dispatched(docs) : branch'[d] # "none"
    BY <2>1 DEF Dispatched, ToReview
  <2> QED
    BY <1>1, <2>1, <2>2, <2>3, <2>4, <2>5 DEF BranchInv
<1>4. JoinIsComplete'
  BY <1>1 DEF Dispatch, IndInv, BranchInv, JoinIsComplete, Dispatched, ToReview, NoExtractions
<1>5. ResultIsReviewed'
  BY <1>1 DEF Dispatch, ResultIsReviewed
<1> QED
  BY <1>2, <1>3, <1>4, <1>5 DEF IndInv

\* A branch that starts or ends changes nothing that is merged.
LEMMA BranchStep ==
  ASSUME IndInv, NEW d \in Docs, StartBranch(d) \/ EndBranch(d)
  PROVE  IndInv'
<1>1. /\ docs' = docs /\ prior' = prior /\ node' = node /\ node = "review_document"
      /\ extractions' = extractions /\ failures' = failures
      /\ evaluation' = evaluation /\ plan' = plan
  BY DEF StartBranch, EndBranch, snapshot
<1>2. TypeOK' /\ BranchInv'
  <2>1. CASE StartBranch(d)
    BY <1>1, <2>1 DEF StartBranch, IndInv, TypeOK, BranchInv, BranchState
  <2>2. CASE EndBranch(d)
    <3> PICK o \in Outcome :
             /\ outcome' = [outcome EXCEPT ![d] = o]
             /\ branch' = [branch EXCEPT ![d] = IF Returns(o) THEN "returned" ELSE "raised"]
      BY <2>2 DEF EndBranch
    <3>1. branch[d] = "running"
      BY <2>2 DEF EndBranch
    <3> QED
      BY <1>1, <3>1 DEF IndInv, TypeOK, BranchInv, BranchState, Outcome, Returns
  <2> QED
    BY <2>1, <2>2
<1>3. JoinIsComplete' /\ ResultIsReviewed'
  BY <1>1 DEF JoinIsComplete, ResultIsReviewed
<1> QED
  BY <1>2, <1>3 DEF IndInv

\* The join accounts for every dispatched document.
LEMMA JoinStep ==
  ASSUME IndInv, Join
  PROVE  IndInv'
<1>1. /\ docs' = docs /\ prior' = prior /\ node' = "evaluate_checklist"
      /\ branch' = branch /\ outcome' = outcome
      /\ extractions' = Merged /\ failures' = {d \in Docs : outcome[d] = AgentError}
      /\ evaluation' = evaluation /\ plan' = plan
  BY DEF Join, snapshot
<1>2. Merged \in [Docs -> Extractions \cup {NoExtraction}]
  BY DEF Merged
<1>3. TypeOK'
  BY <1>1, <1>2 DEF IndInv, TypeOK
<1>4. BranchInv'
  BY <1>1 DEF IndInv, BranchInv
<1>5. ASSUME NEW d \in Docs
      PROVE  IF docs[d] = "pending_review"
             THEN Merged[d] # NoExtraction <=> outcome[d] # AgentError
             ELSE Merged[d] = NoExtraction /\ outcome[d] # AgentError
  <2>1. CASE docs[d] = "pending_review"
    <3>1. outcome[d] \in Extractions \cup {AgentError}
      BY <2>1 DEF Join, AllBranchesReturned, Dispatched, ToReview, IndInv, BranchInv
    <3> QED
      BY <2>1, <3>1, ContractsAssumption, ReviewPipelineAssumption DEF Merged
  <2>2. CASE docs[d] # "pending_review"
    <3>1. outcome[d] = NoOutcome
      BY <2>2 DEF Dispatched, ToReview, IndInv, BranchInv
    <3>2. outcome[d] \notin Extractions /\ outcome[d] # AgentError
      BY <3>1, ReviewPipelineAssumption
    <3>3. Merged[d] = NoExtraction
      BY <3>2 DEF Merged
    <3> QED
      BY <2>2, <3>2, <3>3
  <2> QED
    BY <2>1, <2>2
<1>6. JoinIsComplete'
  BY <1>1, <1>5 DEF JoinIsComplete
<1>7. ResultIsReviewed'
  BY <1>1 DEF ResultIsReviewed
<1> QED
  BY <1>3, <1>4, <1>6, <1>7 DEF IndInv

\* The evaluation passed its validator on the approved and the new extractions.
LEMMA EvaluateStep ==
  ASSUME IndInv, EvaluateChecklist
  PROVE  IndInv'
<1>1. /\ docs' = docs /\ prior' = prior /\ node' = "plan_next_steps"
      /\ node = "evaluate_checklist" /\ branch' = branch /\ outcome' = outcome
      /\ extractions' = extractions /\ failures' = failures /\ plan' = plan
  BY DEF EvaluateChecklist, snapshot
<1>2. /\ evaluation' \in Evaluations
      /\ EvaluationValid(evaluation', KnownDocs, PassingChecks(Available))
  BY DEF EvaluateChecklist
<1>3. KnownDocs' = KnownDocs /\ Available' = Available
  BY <1>1 DEF KnownDocs, Available
<1>4. TypeOK'
  BY <1>1, <1>2 DEF IndInv, TypeOK
<1>5. BranchInv'
  BY <1>1, <1>2, <1>3 DEF IndInv, BranchInv
<1>6. JoinIsComplete' /\ ResultIsReviewed'
  BY <1>1 DEF IndInv, JoinIsComplete, ResultIsReviewed
<1> QED
  BY <1>4, <1>5, <1>6 DEF IndInv

\* The plan is justified by that evaluation.
LEMMA PlanStep ==
  ASSUME IndInv, PlanNextSteps
  PROVE  IndInv'
<1>1. /\ docs' = docs /\ prior' = prior /\ node' = "returned"
      /\ node = "plan_next_steps" /\ branch' = branch /\ outcome' = outcome
      /\ extractions' = extractions /\ failures' = failures /\ evaluation' = evaluation
  BY DEF PlanNextSteps, snapshot
<1>2. plan' \in Plans /\ PlanValid(plan', docs, evaluation, Available)
  BY DEF PlanNextSteps
<1>3. TypeOK' /\ BranchInv' /\ JoinIsComplete'
  BY <1>1, <1>2 DEF IndInv, TypeOK, BranchInv, JoinIsComplete, Ended
<1>4. Available' = Available
  BY <1>1 DEF Available
<1>5. extractions \in Reviewed(docs)
  BY <1>1 DEF IndInv, TypeOK, JoinIsComplete, Reviewed, ToReview
<1>6. plan' \in PossiblePlans(docs, Available)
  <2>1. /\ evaluation \in Evaluations
        /\ EvaluationValid(evaluation, {d \in Docs : docs[d] # "absent"},
                           PassingChecks(Available))
    BY <1>1 DEF IndInv, BranchInv, KnownDocs
  <2> QED
    BY <1>2, <2>1 DEF PossiblePlans
<1>7. ResultIsReviewed'
  BY <1>1, <1>4, <1>5, <1>6 DEF ResultIsReviewed
<1> QED
  BY <1>3, <1>7 DEF IndInv

\* A review that is abandoned returns nothing.
LEMMA RaiseStep ==
  ASSUME IndInv, StepFails \/ AgentRaises
  PROVE  IndInv'
<1>1. /\ docs' = docs /\ prior' = prior /\ node' = "raised"
      /\ branch' = branch /\ outcome' = outcome /\ extractions' = extractions
      /\ failures' = failures /\ evaluation' = evaluation /\ plan' = plan
  BY DEF StepFails, AgentRaises, snapshot
<1> QED
  BY <1>1 DEF IndInv, TypeOK, BranchInv, JoinIsComplete, ResultIsReviewed, Ended

\* The inductive invariant.
LEMMA PipelineInductive == Spec => []IndInv
<1>1. IndInv /\ [Next]_vars => IndInv'
  <2> SUFFICES ASSUME IndInv, [Next]_vars
               PROVE  IndInv'
    OBVIOUS
  <2>1. CASE UNCHANGED vars
    <3>1. /\ docs' = docs /\ prior' = prior /\ node' = node
          /\ branch' = branch /\ outcome' = outcome /\ extractions' = extractions
          /\ failures' = failures /\ evaluation' = evaluation /\ plan' = plan
      BY <2>1 DEF vars, snapshot
    <3>2. KnownDocs' = KnownDocs /\ Available' = Available
      BY <3>1 DEF KnownDocs, Available
    <3> QED
      BY <3>1, <3>2 DEF IndInv, TypeOK, BranchInv, JoinIsComplete, ResultIsReviewed
  <2> QED
    BY <2>1, DispatchStep, BranchStep, JoinStep, EvaluateStep, PlanStep, RaiseStep DEF Next
<1> QED
  BY <1>1, PipelineInit, PTL DEF Spec

\* Every variable keeps to its type.
THEOREM PipelineTypeCorrect == Spec => []TypeOK
<1>1. IndInv => TypeOK
  BY DEF IndInv
<1> QED
  BY <1>1, PipelineInductive, PTL

\* Nothing is lost or counted twice between the branches and the later steps.
THEOREM JoinAccountsForAll == Spec => []JoinIsComplete
<1>1. IndInv => JoinIsComplete
  BY DEF IndInv
<1> QED
  BY <1>1, PipelineInductive, PTL

\* The graph computes what CaseReview assumes of run_case_review.
THEOREM ResultsAreReviewed == Spec => []ResultIsReviewed
<1>1. IndInv => ResultIsReviewed
  BY DEF IndInv
<1> QED
  BY <1>1, PipelineInductive, PTL

\* The branches are abandoned only for an exception that is no AgentError.
THEOREM BadDocumentsAreIsolated == Spec => OneBadDocumentIsNotFatal
<1> DEFINE Step == node = "review_document" /\ node' = "raised" =>
                       \E d \in Docs : outcome[d] = OtherError
<1>1. IndInv /\ [Next]_vars => [Step]_vars
  <2> SUFFICES ASSUME IndInv, Next, node = "review_document", node' = "raised"
               PROVE  \E d \in Docs : outcome[d] = OtherError
    OBVIOUS
  <2>1. StepFails
    BY DEF Next, Dispatch, StartBranch, EndBranch, Join, EvaluateChecklist, PlanNextSteps,
           AgentRaises
  <2>2. PICK d \in Docs : branch[d] = "raised"
    BY <2>1 DEF StepFails, InState
  <2> QED
    BY <2>2 DEF IndInv, BranchInv
<1> QED
  BY <1>1, PipelineInductive, PTL DEF Spec, OneBadDocumentIsNotFatal

\* Whatever the number of documents and of slots, the graph always has a step left
\* until it returns or raises: a slot is free as soon as no branch runs, and a
\* dispatched branch that neither waits nor runs has returned or raised.
THEOREM GraphNeverStuck == Spec => []NeverStuck
<1>1. IndInv => NeverStuck
  <2> SUFFICES ASSUME IndInv, node = "review_document",
                      InState("running") = {}, InState("raised") = {}
               PROVE  (InState("waiting") # {} /\ SlotFree) \/ AllBranchesReturned
    BY DEF NeverStuck, IndInv, TypeOK
  <2>1. SlotFree
    BY FS_EmptySet, ReviewPipelineAssumption DEF SlotFree
  <2>2. ASSUME InState("waiting") = {}, NEW d \in Dispatched(docs)
        PROVE  branch[d] = "returned"
    <3>1. d \in Docs /\ branch[d] # "none" /\ branch[d] \in BranchState
      BY DEF IndInv, TypeOK, BranchInv, Dispatched, ToReview
    <3> QED
      BY <2>2, <3>1 DEF InState, BranchState
  <2> QED
    BY <2>1, <2>2 DEF AllBranchesReturned
<1> QED
  BY <1>1, PipelineInductive, PTL

\* The first states are those of the single step.
LEMMA SingleInit == Init => Single!Init
BY ReviewPipelineAssumption
DEF Init, Single!Init, Single!Nothing, NoExtractions, Ended, Statuses

\* The single step is judged by the same contracts.
LEMMA SamePlans ==
  ASSUME NEW files, NEW extracted
  PROVE  Single!PossiblePlans(files, extracted) = PossiblePlans(files, extracted)
<1>1. Single!PassingChecks(extracted) = PassingChecks(extracted)
  BY DEF PassingChecks, Single!PassingChecks
<1>2. ASSUME NEW ev, NEW known, NEW passing
      PROVE  Single!EvaluationValid(ev, known, passing) <=> EvaluationValid(ev, known, passing)
  BY DEF EvaluationValid, Single!EvaluationValid, Backed, Single!Backed
<1>3. ASSUME NEW draft
      PROVE  Single!TargetsMatchKind(draft) <=> TargetsMatchKind(draft)
  BY DEF TargetsMatchKind, Single!TargetsMatchKind, Targets, Single!Targets,
         Present, Single!Present, Fields, Single!Fields
<1>4. ASSUME NEW draft, NEW ev
      PROVE  /\ Single!TargetsKnown(draft, files) <=> TargetsKnown(draft, files)
             /\ Single!DecidesPending(draft, files) <=> DecidesPending(draft, files)
             /\ Single!AcceptGrounded(draft, ev, extracted) <=> AcceptGrounded(draft, ev, extracted)
             /\ Single!MarkGrounded(draft, ev) <=> MarkGrounded(draft, ev)
             /\ Single!ReadyGrounded(draft, ev) <=> ReadyGrounded(draft, ev)
  BY DEF TargetsKnown, Single!TargetsKnown, DecidesPending, Single!DecidesPending,
         AcceptGrounded, Single!AcceptGrounded, MarkGrounded, Single!MarkGrounded,
         ReadyGrounded, Single!ReadyGrounded, SatisfiedBy, Single!SatisfiedBy,
         AllEvaluatedSatisfied, Single!AllEvaluatedSatisfied
<1>5. ASSUME NEW p, NEW ev
      PROVE  Single!PlanValid(p, files, ev, extracted) <=> PlanValid(p, files, ev, extracted)
  BY <1>3, <1>4
  DEF PlanValid, Single!PlanValid, Key, Single!Key, Cardinality, Single!Cardinality
<1> QED
  BY <1>1, <1>2, <1>5 DEF PossiblePlans, Single!PossiblePlans

\* What the graph returns is what the single step may return.
LEMMA ReturnsOnce ==
  ASSUME IndInv', PlanNextSteps
  PROVE  Single!Return
<1>1. /\ docs' = docs /\ prior' = prior /\ extractions' = extractions
      /\ node = "plan_next_steps" /\ node' = "returned"
  BY DEF PlanNextSteps, snapshot
<1>2. /\ extractions \in Reviewed(docs)
      /\ plan' \in PossiblePlans(docs, AllExtractions(prior, extractions))
  BY <1>1 DEF IndInv, ResultIsReviewed, Available
<1>3. extractions \in Single!Reviewed(docs)
  BY <1>2 DEF Reviewed, Single!Reviewed, ToReview, Single!ToReview
<1>4. plan' \in Single!PossiblePlans(docs, Single!AllExtractions(prior, extractions))
  BY <1>2, SamePlans DEF AllExtractions, Single!AllExtractions
<1> QED
  BY <1>1, <1>3, <1>4 DEF Single!Return, Ended

\* A review that is abandoned lets out nothing of what its branches found.
LEMMA RaisesOnce ==
  ASSUME StepFails \/ AgentRaises
  PROVE  Single!Raise
BY DEF StepFails, AgentRaises, snapshot, Single!Raise, Ended

\* Before its end the graph shows nothing.
LEMMA WorksUnseen ==
  ASSUME \/ Dispatch
         \/ \E d \in Docs : StartBranch(d) \/ EndBranch(d)
         \/ Join
         \/ EvaluateChecklist
  PROVE  UNCHANGED Single!vars
<1>1. docs' = docs /\ prior' = prior /\ node \notin Ended /\ node' \notin Ended
  BY DEF Dispatch, StartBranch, EndBranch, Join, EvaluateChecklist, snapshot, Ended
<1> QED
  BY <1>1 DEF Single!vars, Ended

\* The graph implements the single step: in whatever order its branches start,
\* answer, give up or raise, the caller sees one result of ReviewContract, or one
\* exception and no result.
THEOREM ReviewsAreSingleSteps == Spec => ImplementsSingleReview
<1>1. IndInv /\ IndInv' /\ [Next]_vars => [Single!Next]_(Single!vars)
  <2> SUFFICES ASSUME IndInv, IndInv', [Next]_vars
               PROVE  Single!Next \/ UNCHANGED Single!vars
    OBVIOUS
  <2>1. CASE UNCHANGED vars
    BY <2>1 DEF vars, snapshot, Single!vars
  <2>2. CASE PlanNextSteps
    BY <2>2, ReturnsOnce DEF Single!Next
  <2>3. CASE StepFails \/ AgentRaises
    BY <2>3, RaisesOnce DEF Single!Next
  <2> QED
    BY <2>1, <2>2, <2>3, WorksUnseen DEF Next
<1> QED
  BY <1>1, SingleInit, PipelineInductive, PTL DEF Spec, ImplementsSingleReview, Single!Spec
=============================================================================
