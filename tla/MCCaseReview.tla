---------------------------- MODULE MCCaseReview ----------------------------
(***************************************************************************)
(* Small instances of CaseReview: which drafts, plans and evaluations the  *)
(* agents may answer.                                                      *)
(***************************************************************************)
EXTENDS CaseReview, TLC

CONSTANTS c1, c2, d1, d2, q1, q2, e1, e2, w1, w2

AcceptDraft(d)  == [kind |-> "accept_document", doc |-> d, req |-> NoReq,
                    newStatus |-> "none", message |-> FALSE]
RejectDraft(d)  == [kind |-> "reject_document", doc |-> d, req |-> NoReq,
                    newStatus |-> "none", message |-> FALSE]
MarkDraft(q, d) == [kind |-> "mark_requirement_satisfied", doc |-> d, req |-> q,
                    newStatus |-> "none", message |-> FALSE]
RequestDraft(q) == [kind |-> "request_document", doc |-> NoDoc, req |-> q,
                    newStatus |-> "none", message |-> TRUE]
FlagDraft(d)    == [kind |-> "flag_for_review", doc |-> d, req |-> NoReq,
                    newStatus |-> "none", message |-> FALSE]
ReadyDraft      == [kind |-> "change_case_status", doc |-> NoDoc, req |-> NoReq,
                    newStatus |-> "ready_for_submission", message |-> FALSE]

\* Evaluations with one entry per requirement: any status, any documents.
AllEvaluations ==
    {{[req |-> q, status |-> st[q], docs |-> ds[q]] : q \in Reqs} :
        st \in [Reqs -> {"satisfied", "not_satisfied"}], ds \in [Reqs -> SUBSET Docs]}

\* The same, listing at most one document per requirement.
NarrowEvaluations ==
    {ev \in AllEvaluations : \A e \in ev : Cardinality(e.docs) <= 1}

\* e1 passes every requirement, e2 none.
PassingE1 == Reqs \X {e1}

\* e1 passes only q1, e2 only q2.
PassingApart == {<<q1, e1>>, <<q2, e2>>}

\* One document, one requirement: every kind of draft, alone and with those an
\* approval of it depends on or conflicts with.
SingleDocPlans ==
    {{},
     {AcceptDraft(d1), MarkDraft(q1, d1), ReadyDraft},
     {AcceptDraft(d1), RejectDraft(d1)},
     {MarkDraft(q1, d1), ReadyDraft},
     {RequestDraft(q1), FlagDraft(d1)}}

\* Two cases with a document each: plans name either document, and both.
CrossCasePlans ==
    {{AcceptDraft(d1)}, {AcceptDraft(d2), FlagDraft(d1)}, {RejectDraft(d2)}}

\* Both documents are accepted on one evaluation.
BothAcceptedPlans == {{AcceptDraft(d1), AcceptDraft(d2)}}

\* Accept d1 on the strength of one requirement, mark the other.
StalePlans == {{AcceptDraft(d1)}, {AcceptDraft(d1), MarkDraft(q2, d1)}}

=============================================================================
