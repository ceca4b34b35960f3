-------------------------- MODULE MCReviewPipeline --------------------------
(***************************************************************************)
(* Reviews of a case with three documents, of any status, and a checklist  *)
(* of one requirement, with two branches in parallel.                      *)
(***************************************************************************)
EXTENDS ReviewPipeline

CONSTANTS d1, d2, d3, q1, e1, e2

PassingE1 == {<<q1, e1>>}

SomeEvaluations ==
    {{[req |-> q1, status |-> st, docs |-> ds]} :
        st \in {"satisfied", "needs_review"}, ds \in {{d1}, {d2}, {d1, d3}}}

Accept(d) == [kind |-> "accept_document", doc |-> d, req |-> NoReq,
              newStatus |-> "none", message |-> FALSE]
Flag(d)   == [kind |-> "flag_for_review", doc |-> d, req |-> NoReq,
              newStatus |-> "none", message |-> FALSE]

SomePlans == {{}, {Accept(d1)}, {Accept(d1), Accept(d3)}, {Accept(d2), Flag(d3)}}
=============================================================================
