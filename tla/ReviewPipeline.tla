--------------------------- MODULE ReviewPipeline ---------------------------
(***************************************************************************)
(* One review of a case (src/agents/pipeline.py): the graph that reviews   *)
(* the pending documents in parallel branches, joins them, evaluates the   *)
(* checklist and plans the next steps.                                     *)
(*                                                                         *)
(* An agent is one step here, AgentLoop has its inside: it returns an      *)
(* output that passed its validator, or raises AgentError (it gave up) or  *)
(* any other exception (its provider failed).                              *)
(***************************************************************************)
EXTENDS ReviewContract

CONSTANTS
    MaxParallel,    \* MAX_PARALLEL_DOCUMENTS
    AgentError, OtherError,     \* how an agent may raise
    NoEvaluation, NoPlan, NoOutcome

ASSUME ReviewPipelineAssumption ==
    /\ MaxParallel \in Nat \ {0}
    /\ NoEvaluation \notin Evaluations
    /\ NoPlan \notin Plans
    /\ {AgentError, OtherError, NoOutcome} \cap (Extractions \cup {NoExtraction}) = {}
    /\ AgentError # OtherError /\ NoOutcome \notin {AgentError, OtherError}

VARIABLES
    docs, prior,    \* the snapshot and the prior extractions, fixed
    node,           \* the graph node that runs, or how the invocation ended
    branch,         \* what became of each document's branch
    outcome,        \* what its agent answered: an extraction or an exception
    extractions,    \* ReviewState.extractions, by document id
    failures,       \* ReviewState.failures, the document ids
    evaluation, plan

snapshot == <<docs, prior>>
vars == <<snapshot, node, branch, outcome, extractions, failures, evaluation, plan>>

Statuses == {"absent", "pending_review", "accepted", "rejected"}
BranchState == {"none", "waiting", "running", "returned", "raised"}
Outcome == Extractions \cup {AgentError, OtherError}
NoExtractions == [d \in Docs |-> NoExtraction]

\* Variant: accepted documents are reviewed again.
DispatchedAll(statuses) == {d \in Docs : statuses[d] \in {"pending_review", "accepted"}}

\* dispatch_documents: one Send per document awaiting review.
Dispatched(statuses) == ToReview(statuses)

\* What build_snapshot returns: only accepted documents have an extraction.
Init ==
    /\ docs \in [Docs -> Statuses]
    /\ prior \in [Docs -> Extractions \cup {NoExtraction}]
    /\ \A d \in Docs : prior[d] # NoExtraction => docs[d] = "accepted"
    /\ node = "start"
    /\ branch = [d \in Docs |-> "none"]
    /\ outcome = [d \in Docs |-> NoOutcome]
    /\ extractions = NoExtractions
    /\ failures = {}
    /\ evaluation = NoEvaluation
    /\ plan = NoPlan

Dispatch ==
    /\ node = "start"
    /\ branch' = [d \in Docs |-> IF d \in Dispatched(docs) THEN "waiting" ELSE "none"]
    /\ node' = IF Dispatched(docs) = {} THEN "evaluate_checklist" ELSE "review_document"
    /\ UNCHANGED <<snapshot, outcome, extractions, failures, evaluation, plan>>

InState(state) == {d \in Docs : branch[d] = state}

\* max_concurrency
SlotFree == Cardinality(InState("running")) < MaxParallel

StartBranch(d) ==
    /\ node = "review_document"
    /\ branch[d] = "waiting"
    /\ SlotFree
    /\ branch' = [branch EXCEPT ![d] = "running"]
    /\ UNCHANGED <<snapshot, node, outcome, extractions, failures, evaluation, plan>>

\* Variant: an agent that gives up is not caught.
ReturnsOnlyExtractions(o) == o \in Extractions

\* review_document returns an extraction, or a DocumentFailure for an AgentError.
Returns(o) == o # OtherError

\* review_document, when its agent has answered
EndBranch(d) ==
    /\ node = "review_document"
    /\ branch[d] = "running"
    /\ \E o \in Outcome :
          /\ outcome' = [outcome EXCEPT ![d] = o]
          /\ branch' = [branch EXCEPT ![d] = IF Returns(o) THEN "returned" ELSE "raised"]
    /\ UNCHANGED <<snapshot, node, extractions, failures, evaluation, plan>>

\* Variants: the first branch to return triggers the join; failures do not count.
AnyBranchReturned == \E d \in Dispatched(docs) : branch[d] = "returned"
AllExtracted == \A d \in Dispatched(docs) : outcome[d] \in Extractions

AllBranchesReturned == \A d \in Dispatched(docs) : branch[d] = "returned"

\* The reducer on extractions, keyed by document as both later nodes do.
Merged == [d \in Docs |-> IF outcome[d] \in Extractions THEN outcome[d] ELSE NoExtraction]

\* The end of LangGraph's step: the reducers merge what the branches returned.
Join ==
    /\ node = "review_document"
    /\ AllBranchesReturned
    /\ extractions' = Merged
    /\ failures' = {d \in Docs : outcome[d] = AgentError}
    /\ node' = "evaluate_checklist"
    /\ UNCHANGED <<snapshot, branch, outcome, evaluation, plan>>

\* The step failed: the branches that run end first, those that wait are
\* cancelled, and nothing is merged.
StepFails ==
    /\ node = "review_document"
    /\ InState("raised") # {}
    /\ InState("running") = {}
    /\ node' = "raised"
    /\ UNCHANGED <<snapshot, branch, outcome, extractions, failures, evaluation, plan>>

KnownDocs == {d \in Docs : docs[d] # "absent"}

\* all_extractions, as both later nodes compute it from the state
Available == AllExtractions(prior, extractions)

EvaluateChecklist ==
    /\ node = "evaluate_checklist"
    /\ evaluation' \in {ev \in Evaluations :
                           EvaluationValid(ev, KnownDocs, PassingChecks(Available))}
    /\ node' = "plan_next_steps"
    /\ UNCHANGED <<snapshot, branch, outcome, extractions, failures, plan>>

PlanNextSteps ==
    /\ node = "plan_next_steps"
    /\ plan' \in {p \in Plans : PlanValid(p, docs, evaluation, Available)}
    /\ node' = "returned"
    /\ UNCHANGED <<snapshot, branch, outcome, extractions, failures, evaluation>>

\* The checklist or planning agent gives up, or its provider fails: "a partial
\* plan is worse than none".
AgentRaises ==
    /\ node \in {"evaluate_checklist", "plan_next_steps"}
    /\ node' = "raised"
    /\ UNCHANGED <<snapshot, branch, outcome, extractions, failures, evaluation, plan>>

Next ==
    \/ Dispatch
    \/ \E d \in Docs : StartBranch(d)
    \/ \E d \in Docs : EndBranch(d)
    \/ Join
    \/ StepFails
    \/ EvaluateChecklist
    \/ PlanNextSteps
    \/ AgentRaises

Spec == Init /\ [][Next]_vars

\* LangGraph's executor and the agents go on; every agent ends (AgentLoop).
FairSpec == Spec /\ WF_vars(Next)

-----------------------------------------------------------------------------
Ended == {"returned", "raised"}

\* Every variable holds a value its key in ReviewState, or its branch, can hold.
TypeOK ==
    /\ docs \in [Docs -> Statuses]
    /\ prior \in [Docs -> Extractions \cup {NoExtraction}]
    /\ node \in {"start", "review_document", "evaluate_checklist", "plan_next_steps"} \cup Ended
    /\ branch \in [Docs -> BranchState]
    /\ outcome \in [Docs -> Outcome \cup {NoOutcome}]
    /\ extractions \in [Docs -> Extractions \cup {NoExtraction}]
    /\ failures \subseteq Docs
    /\ evaluation \in Evaluations \cup {NoEvaluation}
    /\ plan \in Plans \cup {NoPlan}

\* Behind the join every pending document is accounted for, with an extraction or
\* as a failure and never both, in whatever order and parallelism the branches
\* ran; no other document is touched.
JoinIsComplete ==
    node \in {"evaluate_checklist", "plan_next_steps", "returned"} =>
        \A d \in Docs :
            IF docs[d] = "pending_review"
            THEN extractions[d] # NoExtraction <=> d \notin failures
            ELSE extractions[d] = NoExtraction /\ d \notin failures

\* What the invocation returns is a result that CaseReview's ReviewSucceeds may
\* pick: extractions of pending documents only, and a plan that some evaluation
\* justifies by the approved extractions and those of this very run.
ResultIsReviewed ==
    node = "returned" =>
        /\ extractions \in Reviewed(docs)
        /\ plan \in PossiblePlans(docs, Available)

\* The invocation as its caller sees it: nothing before it ends.
Single == INSTANCE SingleReview
          WITH status <- IF node \in Ended THEN node ELSE "running",
               result <- [extractions |-> IF node = "returned" THEN extractions ELSE NoExtractions,
                          plan        |-> IF node = "returned" THEN plan ELSE {}]

\* Whatever the branches do, and in whatever order, run_case_review is the single
\* step that CaseReview makes of it: it returns one result of ReviewContract or
\* raises, once, and lets nothing of an unfinished review out.
ImplementsSingleReview == Single!Spec

\* A document whose agent gives up does not end the review of the others: the
\* branches are only abandoned because of an exception that is not an AgentError.
OneBadDocumentIsNotFatal ==
    [][node = "review_document" /\ node' = "raised" =>
          \E d \in Docs : outcome[d] = OtherError]_vars

\* Every review returns or raises, whichever branches give up or raise.
PipelineEnds == <>(node \in Ended)

-----------------------------------------------------------------------------
\* Only dispatched documents have a branch, and its state tells what its agent did.
BranchInv ==
    /\ \A d \in Docs :
          /\ branch[d] # "none" => d \in Dispatched(docs)
          /\ branch[d] \in {"none", "waiting", "running"} => outcome[d] = NoOutcome
          /\ branch[d] = "returned" => outcome[d] \in Extractions \cup {AgentError}
          /\ branch[d] = "raised" => outcome[d] = OtherError
    /\ node = "start" => \A d \in Docs : branch[d] = "none"
    /\ node = "review_document" => \A d \in Dispatched(docs) : branch[d] # "none"
    /\ node \in {"start", "review_document"} => extractions = NoExtractions /\ failures = {}
    /\ node = "plan_next_steps" =>
          /\ evaluation \in Evaluations
          /\ EvaluationValid(evaluation, KnownDocs, PassingChecks(Available))

IndInv == TypeOK /\ BranchInv /\ JoinIsComplete /\ ResultIsReviewed

\* Until it returns or raises, the graph has a step to take: while branches are
\* open one of them can start or end, the branches join, or the step fails.  Slots
\* that finished branches held are free again, and no branch is forgotten: this is
\* what PipelineEnds needs beside fairness.
NeverStuck ==
    \/ node \in Ended \cup {"start", "evaluate_checklist", "plan_next_steps"}
    \/ InState("running") # {}
    \/ InState("waiting") # {} /\ SlotFree
    \/ InState("raised") # {}
    \/ AllBranchesReturned

-----------------------------------------------------------------------------
\* pipeline.py: "One bad document does not sink the review. Its branch records a
\* failure, the document is flagged for a human, and the rest continues": every
\* document that could not be reviewed has a flag in the plan.
FailuresAreFlagged ==
    node = "returned" =>
        \A d \in failures :
            \E draft \in plan : draft.kind = "flag_for_review" /\ draft.doc = d
=============================================================================
