--------------------------- MODULE ReviewContract ---------------------------
(***************************************************************************)
(* What one review of a case may return (src/agents/pipeline.py), given    *)
(* the documents and the approved extractions of its snapshot.  CaseReview *)
(* takes it as a single step of a worker; ReviewPipeline is the graph that *)
(* computes it.                                                            *)
(***************************************************************************)
EXTENDS Contracts

CONSTANTS
    Evaluations,    \* the evaluations the checklist agent may answer
    Plans           \* the plans the planning agent may answer

ASSUME ReviewContractAssumption ==
    /\ Plans \subseteq SUBSET Draft
    /\ Evaluations \subseteq SUBSET Entry

\* dispatch_documents: the documents that get a review branch.
ToReview(docs) == {d \in Docs : docs[d] = "pending_review"}

\* What the branches hand to the join: an extraction, or nothing for a
\* document whose agent gave up (failures), for every dispatched document.
Reviewed(docs) ==
    {e \in [Docs -> Extractions \cup {NoExtraction}] :
        \A d \in Docs : d \notin ToReview(docs) => e[d] = NoExtraction}

\* all_extractions: this run's extractions over the prior ones.
AllExtractions(prior, new) ==
    [d \in Docs |-> IF new[d] # NoExtraction THEN new[d] ELSE prior[d]]

PossiblePlans(docs, extracted) ==
    {plan \in Plans :
        \E ev \in Evaluations :
            /\ EvaluationValid(ev, {d \in Docs : docs[d] # "absent"}, PassingChecks(extracted))
            /\ PlanValid(plan, docs, ev, extracted)}
=============================================================================
