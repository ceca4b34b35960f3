---------------------------- MODULE MCAdminSite ----------------------------
(***************************************************************************)
(* Small instances of AdminSite, with the plans of MCCaseReview.           *)
(***************************************************************************)
EXTENDS MCCaseReview, AdminSite

\* One document that can satisfy two requirements.
OneDocumentPlans ==
    {{AcceptDraft(d1), MarkDraft(q1, d1)},
     {MarkDraft(q1, d1), MarkDraft(q2, d1), ReadyDraft},
     {RejectDraft(d1)}}

\* Every requirement satisfied by d1, or none.
TwoEvaluations ==
    {{[req |-> q, status |-> "satisfied", docs |-> {d1}] : q \in Reqs},
     {[req |-> q, status |-> "missing", docs |-> {}] : q \in Reqs}}
=============================================================================
