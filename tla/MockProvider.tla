---------------------------- MODULE MockProvider ----------------------------
(***************************************************************************)
(* What the offline provider (src/agents/providers/mock.py) answers to the *)
(* checklist and to the planning agent.  It is deterministic, so these are *)
(* operators.  Both answers go through the contracts like any model's; the *)
(* regular expressions that read a document are left out: a document has   *)
(* the extraction they come to, or none that its contract lets through.    *)
(***************************************************************************)
EXTENDS ReviewContract

CONSTANTS
    Types,          \* DocumentType
    TypeOf,         \* document_type of an extraction
    AcceptedTypes   \* accepted_document_types of a requirement

\* Documents are ordered by id.  A check of a document of a type that is not
\* accepted fails (rules.py), and in TEMPLATES no type serves two requirements.
ASSUME MockAssumption ==
    /\ Docs \subseteq Nat
    /\ TypeOf \in [Extractions -> Types]
    /\ AcceptedTypes \in [Reqs -> SUBSET Types]
    /\ \A p \in Passing : TypeOf[p[2]] \in AcceptedTypes[p[1]]
    /\ \A q, r \in Reqs : q # r => AcceptedTypes[q] \cap AcceptedTypes[r] = {}

-----------------------------------------------------------------------------
\* Variant: the type of a document is not looked at.
CandidatesOfAnyType(q, extracted) == {d \in Docs : extracted[d] # NoExtraction}

\* The documents the rule tool is called for.
Candidates(q, extracted) ==
    {d \in Docs : extracted[d] # NoExtraction /\ TypeOf[extracted[d]] \in AcceptedTypes[q]}

PassingFor(q, extracted) == {d \in Candidates(q, extracted) : <<q, extracted[d]>> \in Passing}

\* Variant: a satisfied entry lists every document that was checked.
MockEntryOfCandidates(q, extracted, unreviewed) ==
    [req    |-> q,
     status |-> IF PassingFor(q, extracted) # {} THEN "satisfied" ELSE "missing",
     docs   |-> Candidates(q, extracted)]

\* _simulate_checklist: a satisfied entry lists what passed, a failed one all
\* that was checked.
MockEntry(q, extracted, unreviewed) ==
    LET candidates == Candidates(q, extracted)
        passing    == PassingFor(q, extracted)
    IN  [req    |-> q,
         status |-> IF passing # {} THEN "satisfied"
                    ELSE IF candidates # {} THEN "not_satisfied"
                    ELSE IF unreviewed # {} THEN "needs_review" ELSE "missing",
         docs   |-> IF passing # {} THEN passing ELSE candidates]

MockEvaluation(extracted, unreviewed) == {MockEntry(q, extracted, unreviewed) : q \in Reqs}

-----------------------------------------------------------------------------
\* add(kind=..., document_id=..., requirement_code=...): a request carries a
\* message, a change of status the new one.
Suggest(kind, d, q) ==
    [kind |-> kind, doc |-> d, req |-> q,
     newStatus |-> IF kind = "change_case_status" THEN "ready_for_submission" ELSE "none",
     message |-> kind = "request_document"]

Evaluated(evaluation, statuses) == {e \in evaluation : e.status \in statuses}
Listed(evaluation, status) == UNION {e.docs : e \in Evaluated(evaluation, {status})}

\* ev.document_ids[0]; the documents were checked in the order of their ids.
First(docs) == CHOOSE d \in docs : \A e \in docs : d <= e

\* Variant: only marks that can be approved at once.
MarksAccepted(evaluation, pending, open) ==
    {Suggest("mark_requirement_satisfied", First(e.docs), e.req) :
        e \in {f \in Evaluated(evaluation, {"satisfied"}) :
                  f.req \in open /\ First(f.docs) \notin pending}}

Marks(evaluation, pending, open) ==
    {Suggest("mark_requirement_satisfied", First(e.docs), e.req) :
        e \in {f \in Evaluated(evaluation, {"satisfied"}) : f.req \in open}}

\* Variants: documents that were decided are accepted again; a document that
\* could not be read is flagged for each requirement.
DecisionsOnAll(evaluation, pending) ==
    {Suggest("accept_document", d, NoReq) : d \in Listed(evaluation, "satisfied")}
FlagsRepeated(evaluation, unreviewed) ==
    {Suggest("flag_for_review", d, e.req) : d \in unreviewed, e \in evaluation}

Decisions(evaluation, pending) ==
    {Suggest("accept_document", d, NoReq) : d \in pending \cap Listed(evaluation, "satisfied")}
    \cup {Suggest("reject_document", d, NoReq) : d \in pending \cap Listed(evaluation, "not_satisfied")}

Requests(evaluation) ==
    {Suggest("request_document", NoDoc, e.req) :
        e \in Evaluated(evaluation, {"not_satisfied", "missing"})}

Flags(evaluation, unreviewed) ==
    {Suggest("flag_for_review", NoDoc, e.req) : e \in Evaluated(evaluation, {"needs_review"})}
    \cup {Suggest("flag_for_review", d, NoReq) : d \in unreviewed}

Ready(evaluation, status) ==
    {s \in {Suggest("change_case_status", NoDoc, NoReq)} :
        AllEvaluatedSatisfied(evaluation) /\ status # "ready_for_submission"}

\* _simulate_next_steps, on the summary of the snapshot: its pending documents,
\* its open requirements and the status of the case.
MockPlan(evaluation, unreviewed, pending, open, status) ==
    Decisions(evaluation, pending) \cup Marks(evaluation, pending, open)
    \cup Requests(evaluation) \cup Flags(evaluation, unreviewed) \cup Ready(evaluation, status)
=============================================================================
