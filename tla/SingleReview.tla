---------------------------- MODULE SingleReview ----------------------------
(***************************************************************************)
(* What run_case_review (src/agents/pipeline.py) promises its caller,      *)
(* without graph, branches and agents: for the documents and approved      *)
(* extractions it is given it returns once, with a result ReviewContract   *)
(* allows, or raises once, with none.  CaseReview takes it like this.      *)
(***************************************************************************)
EXTENDS ReviewContract

VARIABLES docs, prior, status, result

vars == <<docs, prior, status, result>>

Nothing == [extractions |-> [d \in Docs |-> NoExtraction], plan |-> {}]

Init ==
    /\ docs \in [Docs -> {"absent", "pending_review", "accepted", "rejected"}]
    /\ prior \in [Docs -> Extractions \cup {NoExtraction}]
    /\ \A d \in Docs : prior[d] # NoExtraction => docs[d] = "accepted"
    /\ status = "running"
    /\ result = Nothing

Return ==
    /\ status = "running"
    /\ status' = "returned"
    /\ \E new \in Reviewed(docs) :
       \E plan \in PossiblePlans(docs, AllExtractions(prior, new)) :
            result' = [extractions |-> new, plan |-> plan]
    /\ UNCHANGED <<docs, prior>>

Raise ==
    /\ status = "running"
    /\ status' = "raised"
    /\ UNCHANGED <<docs, prior, result>>

Next == Return \/ Raise

Spec == Init /\ [][Next]_vars
=============================================================================
