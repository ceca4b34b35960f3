----------------------------- MODULE Contracts -----------------------------
(***************************************************************************)
(* The output contracts of the agents (src/agents/schemas): what a plan or *)
(* a checklist evaluation must satisfy before the pipeline hands it on.    *)
(* The validators are pure functions, so they are state-free operators.    *)
(*                                                                         *)
(* What a document says, and what an agent reads in it, is one value of    *)
(* Extractions; the verdict of the deterministic rule checker              *)
(* (agents/rules.py) on it is the constant relation Passing.               *)
(***************************************************************************)
EXTENDS Integers, FiniteSets

CONSTANTS
    Docs,           \* document ids, over all cases
    Reqs,           \* requirement codes of the checklist template
    Extractions,    \* the validated extractions an agent can come up with
    Passing,        \* the pairs <<requirement, extraction>> the rules accept
    NoDoc, NoReq, NoExtraction,     \* None, per field
    MaxActions      \* max_length of NextStepPlan.actions

ASSUME ContractsAssumption ==
    /\ Passing \subseteq Reqs \X Extractions
    /\ NoDoc \notin Docs
    /\ NoReq \notin Reqs
    /\ NoExtraction \notin Extractions
    /\ MaxActions \in Nat

ActionKind ==
    {"accept_document", "reject_document", "mark_requirement_satisfied",
     "request_document", "flag_for_review", "change_case_status"}

RequirementStatus == {"satisfied", "not_satisfied", "missing", "needs_review"}

(***************************************************************************)
(* Drafts.  The text of a message and the rationale are left out: a        *)
(* message is there or not.                                                *)
(***************************************************************************)
Draft ==
    [kind : ActionKind,
     doc  : Docs \cup {NoDoc},
     req  : Reqs \cup {NoReq},
     newStatus : {"none", "ready_for_submission"},
     message   : BOOLEAN]

Fields == {"document_id", "requirement_code", "new_case_status", "message"}

\* _TARGETS: the fields a kind must set and the fields it must not.
Targets ==
    [accept_document |->
        [required  |-> {"document_id"},
         forbidden |-> {"requirement_code", "new_case_status", "message"}],
     reject_document |->
        [required  |-> {"document_id"},
         forbidden |-> {"requirement_code", "new_case_status"}],
     mark_requirement_satisfied |->
        [required  |-> {"requirement_code", "document_id"},
         forbidden |-> {"new_case_status", "message"}],
     request_document |->
        [required  |-> {"requirement_code", "message"},
         forbidden |-> {"document_id", "new_case_status"}],
     flag_for_review |->
        [required  |-> {},
         forbidden |-> {"new_case_status"}],
     change_case_status |->
        [required  |-> {"new_case_status"},
         forbidden |-> {"document_id", "requirement_code", "message"}]]

Present(draft) ==
    {f \in Fields :
        \/ f = "document_id"      /\ draft.doc # NoDoc
        \/ f = "requirement_code" /\ draft.req # NoReq
        \/ f = "new_case_status"  /\ draft.newStatus # "none"
        \/ f = "message"          /\ draft.message}

TargetsMatchKind(draft) ==
    /\ Targets[draft.kind].required \subseteq Present(draft)
    /\ Targets[draft.kind].forbidden \cap Present(draft) = {}
    /\ draft.kind = "flag_for_review" =>
           Present(draft) \cap {"document_id", "requirement_code"} # {}

Key(draft) == <<draft.kind, draft.doc, draft.req>>

(***************************************************************************)
(* ChecklistEvaluation: a set of entries, one per requirement.  known is   *)
(* the set of the case's documents, passing the set of <<requirement,      *)
(* document>> pairs for which the rule tool answered passed=true.          *)
(***************************************************************************)
Entry == [req : Reqs, status : RequirementStatus, docs : SUBSET Docs]

\* A satisfied entry needs one passing document among those it lists, not all.
Backed(entry, passing) == \E d \in entry.docs : <<entry.req, d>> \in passing

EvaluationValid(evaluation, known, passing) ==
    /\ \A e, f \in evaluation : e.req = f.req => e = f
    /\ {e.req : e \in evaluation} = Reqs
    /\ \A e \in evaluation :
          /\ e.docs \subseteq known
          /\ e.status = "satisfied" => Backed(e, passing)

\* The checks the rule tool can answer with passed=true, given the extractions
\* of the run; a document without one makes the tool answer with an error.
PassingChecks(extracted) ==
    {p \in Reqs \X Docs : <<p[1], extracted[p[2]]>> \in Passing}

(***************************************************************************)
(* NextStepPlan: a set of drafts.  The validator refuses two drafts with   *)
(* one key, so a valid list of drafts is the same thing as a set of drafts *)
(* with distinct keys.  docs[d] is the status of d in the snapshot,        *)
(* "absent" for a document that is not one of the case.  Every case has    *)
(* the requirements Reqs, so a known requirement_code is one of them.      *)
(***************************************************************************)
SatisfiedBy(evaluation, d, req) ==
    \E e \in evaluation : e.req = req /\ e.status = "satisfied" /\ d \in e.docs

AllEvaluatedSatisfied(evaluation) ==
    \A e \in evaluation : e.status = "satisfied"

\* Variant: the document is not looked up in the snapshot.
TargetsUnchecked(draft, docs) == TRUE

TargetsKnown(draft, docs) ==
    draft.doc # NoDoc => docs[draft.doc] # "absent"

\* Variant: only rejections are compared with the snapshot.
RejectsPending(draft, docs) ==
    draft.kind = "reject_document" => docs[draft.doc] = "pending_review"

DecidesPending(draft, docs) ==
    draft.kind \in {"accept_document", "reject_document"} =>
        docs[draft.doc] = "pending_review"

AcceptGrounded(draft, evaluation, extracted) ==
    draft.kind = "accept_document" =>
        /\ extracted[draft.doc] # NoExtraction
        /\ \E req \in Reqs : SatisfiedBy(evaluation, draft.doc, req)

MarkGrounded(draft, evaluation) ==
    draft.kind = "mark_requirement_satisfied" =>
        SatisfiedBy(evaluation, draft.doc, draft.req)

ReadyGrounded(draft, evaluation) ==
    draft.kind = "change_case_status" => AllEvaluatedSatisfied(evaluation)

PlanValid(plan, docs, evaluation, extracted) ==
    /\ Cardinality(plan) <= MaxActions
    /\ \A a, b \in plan : Key(a) = Key(b) => a = b
    /\ \A a \in plan :
          /\ TargetsMatchKind(a)
          /\ TargetsKnown(a, docs)
          /\ DecidesPending(a, docs)
          /\ AcceptGrounded(a, evaluation, extracted)
          /\ MarkGrounded(a, evaluation)
          /\ ReadyGrounded(a, evaluation)
=============================================================================
