------------------------- MODULE OfflineReviewProofs -------------------------
(***************************************************************************)
(* The offline provider's answers are always valid, and its reviews are    *)
(* reviews of CaseReview, proved for every value of the constants.  First  *)
(* the operators of MockProvider, for any extractions; then the invariant. *)
(***************************************************************************)
EXTENDS OfflineReview, CaseReviewProofs, FiniteSetTheorems, WellFoundedInduction

-----------------------------------------------------------------------------
(* The checklist.                                                          *)

\* A nonempty list of documents has a first one.
LEMMA FirstOf ==
  ASSUME NEW docs \in SUBSET Docs, docs # {}
  PROVE  First(docs) \in docs
<1> DEFINE Below == {pair \in Nat \X Nat : pair[1] < pair[2]}
<1>1. docs \subseteq Nat
  BY MockAssumption
<1>2. IsWellFoundedOn(Below, Nat)
  BY NatLessThanWellFounded DEF OpToRel
<1> HIDE DEF Below
<1>3. PICK d \in docs : \A e \in docs : <<e, d>> \notin Below
  BY <1>1, <1>2, WFMin
<1>4. ASSUME NEW e \in docs
      PROVE  d <= e
  <2>1. e \in Nat /\ d \in Nat
    BY <1>1
  <2>2. e < d => <<e, d>> \in Below
    BY <2>1 DEF Below
  <2> QED
    BY <1>3, <2>1, <2>2
<1> QED
  BY <1>4 DEF First

\* What the entry of a requirement says.
LEMMA EntryOf ==
  ASSUME NEW q \in Reqs, NEW extracted, NEW unreviewed
  PROVE  LET e == MockEntry(q, extracted, unreviewed)
         IN  /\ e \in Entry
             /\ e.req = q
             /\ e.docs \subseteq Candidates(q, extracted)
             /\ e.status = "satisfied" => e.docs = PassingFor(q, extracted) /\ e.docs # {}
             /\ e.status = "not_satisfied" => PassingFor(q, extracted) = {}
BY DEF MockEntry, Entry, RequirementStatus, PassingFor, Candidates

\* The validator of the checklist agent accepts the evaluation on the first try.
LEMMA MockEvaluationValid ==
  ASSUME NEW extracted, NEW unreviewed, NEW known,
         \A d \in Docs : extracted[d] # NoExtraction => d \in known
  PROVE  EvaluationValid(MockEvaluation(extracted, unreviewed), known, PassingChecks(extracted))
<1> DEFINE evaluation == MockEvaluation(extracted, unreviewed)
<1>1. \A e \in evaluation : \E q \in Reqs : e = MockEntry(q, extracted, unreviewed)
  BY DEF MockEvaluation
<1>2. \A e, f \in evaluation : e.req = f.req => e = f
  BY <1>1, EntryOf
<1>3. {e.req : e \in evaluation} = Reqs
  BY EntryOf DEF MockEvaluation
<1>4. ASSUME NEW e \in evaluation
      PROVE  e.docs \subseteq known /\ (e.status = "satisfied" => Backed(e, PassingChecks(extracted)))
  <2>1. PICK q \in Reqs : e = MockEntry(q, extracted, unreviewed)
    BY <1>1
  <2>2. e.docs \subseteq known
    BY <2>1, EntryOf DEF Candidates
  <2>3. ASSUME e.status = "satisfied"
        PROVE  Backed(e, PassingChecks(extracted))
    <3>1. PICK d \in PassingFor(q, extracted) : d \in e.docs
      BY <2>1, <2>3, EntryOf
    <3>2. <<q, d>> \in PassingChecks(extracted)
      BY <3>1 DEF PassingFor, Candidates, PassingChecks
    <3> QED
      BY <2>1, <3>1, <3>2, EntryOf DEF Backed
  <2> QED
    BY <2>2, <2>3
<1> QED
  BY <1>2, <1>3, <1>4 DEF EvaluationValid

-----------------------------------------------------------------------------
(* The plan.                                                               *)

\* What it takes to list a document as passing, or as failing.
LEMMA ListedSatisfied ==
  ASSUME NEW extracted, NEW unreviewed, NEW d,
         d \in Listed(MockEvaluation(extracted, unreviewed), "satisfied")
  PROVE  /\ d \in Docs /\ extracted[d] # NoExtraction
         /\ \E q \in Reqs : /\ SatisfiedBy(MockEvaluation(extracted, unreviewed), d, q)
                            /\ <<q, extracted[d]>> \in Passing
<1>1. PICK q \in Reqs :
         /\ MockEntry(q, extracted, unreviewed).status = "satisfied"
         /\ d \in MockEntry(q, extracted, unreviewed).docs
  BY DEF Listed, Evaluated, MockEvaluation
<1>2. d \in PassingFor(q, extracted)
  BY <1>1, EntryOf
<1>3. SatisfiedBy(MockEvaluation(extracted, unreviewed), d, q)
  BY <1>1, EntryOf DEF SatisfiedBy, MockEvaluation
<1> QED
  BY <1>2, <1>3 DEF PassingFor, Candidates

LEMMA ListedFailing ==
  ASSUME NEW extracted, NEW unreviewed, NEW d,
         d \in Listed(MockEvaluation(extracted, unreviewed), "not_satisfied")
  PROVE  /\ d \in Docs /\ extracted[d] # NoExtraction
         /\ \E r \in Reqs : /\ d \in Candidates(r, extracted)
                            /\ PassingFor(r, extracted) = {}
<1>1. PICK r \in Reqs :
         /\ MockEntry(r, extracted, unreviewed).status = "not_satisfied"
         /\ d \in MockEntry(r, extracted, unreviewed).docs
  BY DEF Listed, Evaluated, MockEvaluation
<1>2. d \in Candidates(r, extracted) /\ PassingFor(r, extracted) = {}
  BY <1>1, EntryOf
<1> QED
  BY <1>2 DEF Candidates

\* No document is both: its type serves one requirement only.
LEMMA ListedOnce ==
  ASSUME NEW extracted, NEW unreviewed, NEW d,
         d \in Listed(MockEvaluation(extracted, unreviewed), "satisfied"),
         d \in Listed(MockEvaluation(extracted, unreviewed), "not_satisfied")
  PROVE  FALSE
<1>1. PICK q \in Reqs : <<q, extracted[d]>> \in Passing
  BY ListedSatisfied
<1>2. PICK r \in Reqs : d \in Candidates(r, extracted) /\ PassingFor(r, extracted) = {}
  BY ListedFailing
<1>3. TypeOf[extracted[d]] \in AcceptedTypes[q]
  BY <1>1, MockAssumption
<1>4. TypeOf[extracted[d]] \in AcceptedTypes[r]
  BY <1>2 DEF Candidates
<1>5. q = r
  BY <1>3, <1>4, MockAssumption
<1> QED
  BY <1>1, <1>2, <1>5 DEF PassingFor

\* A suggestion to mark cites a document that passes.
LEMMA MarkOf ==
  ASSUME NEW extracted, NEW unreviewed, NEW pending, NEW open,
         NEW a \in Marks(MockEvaluation(extracted, unreviewed), pending, open)
  PROVE  /\ a = Suggest("mark_requirement_satisfied", a.doc, a.req)
         /\ a.req \in Reqs /\ a.doc \in Docs
         /\ extracted[a.doc] # NoExtraction
         /\ <<a.req, extracted[a.doc]>> \in Passing
         /\ SatisfiedBy(MockEvaluation(extracted, unreviewed), a.doc, a.req)
<1>1. PICK q \in Reqs :
         /\ MockEntry(q, extracted, unreviewed).status = "satisfied"
         /\ a = Suggest("mark_requirement_satisfied",
                        First(MockEntry(q, extracted, unreviewed).docs),
                        MockEntry(q, extracted, unreviewed).req)
  BY DEF Marks, Evaluated, MockEvaluation
<1> DEFINE e == MockEntry(q, extracted, unreviewed)
<1>2. /\ e.req = q /\ e.docs = PassingFor(q, extracted) /\ e.docs # {}
  BY <1>1, EntryOf
<1>3. First(e.docs) \in PassingFor(q, extracted)
  BY <1>2, FirstOf DEF PassingFor, Candidates
<1>4. a.doc = First(e.docs) /\ a.req = q
  BY <1>1, <1>2 DEF Suggest
<1>5. SatisfiedBy(MockEvaluation(extracted, unreviewed), a.doc, a.req)
  BY <1>1, <1>2, <1>3, <1>4 DEF SatisfiedBy, MockEvaluation
<1> QED
  BY <1>1, <1>2, <1>3, <1>4, <1>5 DEF PassingFor, Candidates

\* The shape of each suggestion, by kind.
Shape(a, evaluation, unreviewed, pending) ==
    /\ a.kind \in ActionKind
    /\ a = Suggest(a.kind, a.doc, a.req)
    /\ a.kind = "accept_document" =>
          a.doc \in pending \cap Listed(evaluation, "satisfied") /\ a.req = NoReq
    /\ a.kind = "reject_document" =>
          a.doc \in pending \cap Listed(evaluation, "not_satisfied") /\ a.req = NoReq
    /\ a.kind = "mark_requirement_satisfied" =>
          /\ a.req \in Reqs /\ a.doc \in Docs
          /\ SatisfiedBy(evaluation, a.doc, a.req)
          /\ \E e \in evaluation :
                e.req = a.req /\ e.status = "satisfied" /\ a.doc = First(e.docs)
    /\ a.kind = "request_document" =>
          /\ a.doc = NoDoc
          /\ \E e \in evaluation : e.req = a.req /\ e.status \in {"not_satisfied", "missing"}
    /\ a.kind = "flag_for_review" =>
          \/ /\ a.doc = NoDoc
             /\ \E e \in evaluation : e.req = a.req /\ e.status = "needs_review"
          \/ a.doc \in unreviewed /\ a.req = NoReq
    /\ a.kind = "change_case_status" =>
          a.doc = NoDoc /\ a.req = NoReq /\ AllEvaluatedSatisfied(evaluation)

\* The columns of a suggestion determine it.
LEMMA SuggestFields ==
  ASSUME NEW kind, NEW d, NEW q, NEW a, a = Suggest(kind, d, q)
  PROVE  a.kind = kind /\ a.doc = d /\ a.req = q /\ a = Suggest(a.kind, a.doc, a.req)
<1>1. a.kind = kind /\ a.doc = d /\ a.req = q
  BY DEF Suggest
<1> QED
  BY <1>1

\* A mark cites the first document of its entry.
LEMMA MarkEntry ==
  ASSUME NEW evaluation, NEW pending, NEW open, NEW a \in Marks(evaluation, pending, open)
  PROVE  \E e \in evaluation : e.req = a.req /\ e.status = "satisfied" /\ a.doc = First(e.docs)
BY SuggestFields DEF Marks, Evaluated

\* With targets of its kind a suggestion is a draft.
LEMMA SuggestIsDraft ==
  ASSUME NEW kind \in ActionKind, NEW d \in Docs \cup {NoDoc}, NEW q \in Reqs \cup {NoReq}
  PROVE  /\ Suggest(kind, d, q) \in Draft
         /\ Suggest(kind, d, q).newStatus # "none" <=> kind = "change_case_status"
         /\ Suggest(kind, d, q).message <=> kind = "request_document"
<1>1. Suggest(kind, d, q) \in Draft
  BY DEF Suggest, Draft
<1>2. Suggest(kind, d, q).newStatus # "none" <=> kind = "change_case_status"
  BY DEF Suggest
<1>3. Suggest(kind, d, q).message <=> kind = "request_document"
  BY Zenon DEF Suggest
<1> QED
  BY <1>1, <1>2, <1>3

\* Every suggestion of a plan has that shape.
LEMMA Suggested ==
  ASSUME NEW extracted, NEW unreviewed, NEW pending, NEW open, NEW status,
         NEW a \in MockPlan(MockEvaluation(extracted, unreviewed), unreviewed, pending, open, status)
  PROVE  Shape(a, MockEvaluation(extracted, unreviewed), unreviewed, pending)
<1> DEFINE evaluation == MockEvaluation(extracted, unreviewed)
<1>1. CASE a \in Marks(evaluation, pending, open)
  <2>1. /\ a = Suggest("mark_requirement_satisfied", a.doc, a.req)
        /\ a.req \in Reqs /\ a.doc \in Docs
        /\ SatisfiedBy(evaluation, a.doc, a.req)
    BY <1>1, MarkOf
  <2>2. a.kind = "mark_requirement_satisfied"
    BY <2>1 DEF Suggest
  <2>3. PICK e \in evaluation : e.req = a.req /\ e.status = "satisfied" /\ a.doc = First(e.docs)
    BY <1>1, MarkEntry
  <2> HIDE DEF evaluation
  <2> QED
    BY <2>1, <2>2, <2>3 DEF Shape, ActionKind, evaluation
<1> HIDE DEF evaluation
<1>2. CASE a \in Decisions(evaluation, pending)
  BY <1>2, SuggestFields DEF Decisions, Shape, ActionKind, evaluation
<1>3. CASE a \in Requests(evaluation)
  BY <1>3, SuggestFields DEF Requests, Evaluated, Shape, ActionKind, evaluation
<1>4. CASE a \in Flags(evaluation, unreviewed)
  BY <1>4, SuggestFields DEF Flags, Evaluated, Shape, ActionKind, evaluation
<1>5. CASE a \in Ready(evaluation, status)
  BY <1>5, SuggestFields DEF Ready, Shape, ActionKind, evaluation
<1> QED
  BY <1>1, <1>2, <1>3, <1>4, <1>5 DEF MockPlan, evaluation

\* The marks of a plan.
LEMMA MarkSuggested ==
  ASSUME NEW extracted, NEW unreviewed, NEW pending, NEW open, NEW status,
         NEW a \in MockPlan(MockEvaluation(extracted, unreviewed), unreviewed, pending, open, status),
         a.kind = "mark_requirement_satisfied"
  PROVE  /\ a.req \in Reqs /\ a.doc \in Docs
         /\ extracted[a.doc] # NoExtraction
         /\ <<a.req, extracted[a.doc]>> \in Passing
<1> DEFINE evaluation == MockEvaluation(extracted, unreviewed)
<1>1. a \in Marks(evaluation, pending, open)
  BY SuggestFields DEF MockPlan, Decisions, Requests, Flags, Ready
<1> QED
  BY <1>1, MarkOf

\* A suggestion has the targets of its kind, and is a draft.
LEMMA SuggestedDraft ==
  ASSUME NEW extracted, NEW unreviewed \in SUBSET Docs, NEW pending \in SUBSET Docs, NEW a,
         Shape(a, MockEvaluation(extracted, unreviewed), unreviewed, pending)
  PROVE  a \in Draft /\ TargetsMatchKind(a)
<1> DEFINE evaluation == MockEvaluation(extracted, unreviewed)
<1>1. \A e \in evaluation : e.req \in Reqs
  BY EntryOf DEF MockEvaluation
<1> HIDE DEF evaluation
<1>2. /\ a.kind \in ActionKind
      /\ a = Suggest(a.kind, a.doc, a.req)
      /\ a.doc \in Docs \cup {NoDoc} /\ a.req \in Reqs \cup {NoReq}
      /\ a.kind \in {"accept_document", "reject_document"} => a.doc # NoDoc /\ a.req = NoReq
      /\ a.kind = "mark_requirement_satisfied" => a.doc # NoDoc /\ a.req # NoReq
      /\ a.kind = "request_document" => a.doc = NoDoc /\ a.req # NoReq
      /\ a.kind = "flag_for_review" => a.doc # NoDoc \/ a.req # NoReq
      /\ a.kind = "change_case_status" => a.doc = NoDoc /\ a.req = NoReq
  BY <1>1, ContractsAssumption DEF Shape, ActionKind, evaluation
<1>3. LET s == Suggest(a.kind, a.doc, a.req)
      IN  /\ s \in Draft
          /\ s.newStatus # "none" <=> a.kind = "change_case_status"
          /\ s.message <=> a.kind = "request_document"
  <2>1. a.kind \in ActionKind /\ a.doc \in Docs \cup {NoDoc} /\ a.req \in Reqs \cup {NoReq}
    BY <1>2
  <2> QED
    BY <2>1, SuggestIsDraft, Zenon
<1>4. /\ a \in Draft
      /\ a.newStatus # "none" <=> a.kind = "change_case_status"
      /\ a.message <=> a.kind = "request_document"
  <2>1. a = Suggest(a.kind, a.doc, a.req)
    BY <1>2
  <2> QED
    BY <1>3, <2>1, Zenon
<1>5. /\ "document_id" \in Present(a) <=> a.doc # NoDoc
      /\ "requirement_code" \in Present(a) <=> a.req # NoReq
      /\ "new_case_status" \in Present(a) <=> a.kind = "change_case_status"
      /\ "message" \in Present(a) <=> a.kind = "request_document"
      /\ Present(a) \subseteq Fields
  BY <1>4 DEF Present, Fields
<1>6. TargetsMatchKind(a)
  BY <1>2, <1>5 DEF TargetsMatchKind, Targets, ActionKind
<1> QED
  BY <1>4, <1>6

\* The validator of the planning agent accepts a plan that is not too long.
LEMMA MockPlanValid ==
  ASSUME NEW docs, NEW extracted, NEW unreviewed \in SUBSET ToReview(docs), NEW open, NEW status,
         \A d \in Docs : extracted[d] # NoExtraction => docs[d] # "absent",
         Cardinality(MockPlan(MockEvaluation(extracted, unreviewed), unreviewed, ToReview(docs),
                              open, status)) <= MaxActions
  PROVE  PlanValid(MockPlan(MockEvaluation(extracted, unreviewed), unreviewed, ToReview(docs),
                            open, status),
                   docs, MockEvaluation(extracted, unreviewed), extracted)
<1> DEFINE evaluation == MockEvaluation(extracted, unreviewed)
           pending == ToReview(docs)
           plan == MockPlan(evaluation, unreviewed, pending, open, status)
<1>1. /\ unreviewed \in SUBSET Docs /\ pending \in SUBSET Docs
      /\ \A d \in pending : docs[d] = "pending_review"
  BY DEF ToReview
<1>2. \A a \in plan : Shape(a, evaluation, unreviewed, pending)
  BY Suggested
<1>3. \A d : d \in Listed(evaluation, "satisfied") =>
             /\ d \in Docs /\ extracted[d] # NoExtraction
             /\ \E q \in Reqs : SatisfiedBy(evaluation, d, q)
  BY ListedSatisfied
<1>4. \A q \in Reqs : \A d : SatisfiedBy(evaluation, d, q) => d \in Listed(evaluation, "satisfied")
  BY DEF SatisfiedBy, Listed, Evaluated
<1>5. \A a \in plan : TargetsMatchKind(a)
  BY <1>1, <1>2, SuggestedDraft
<1> HIDE DEF evaluation, pending, plan
<1>6. \A a, b \in plan : Key(a) = Key(b) => a = b
  BY <1>2 DEF Shape, Key
<1>7. ASSUME NEW a \in plan
      PROVE  /\ TargetsKnown(a, docs)
             /\ DecidesPending(a, docs)
             /\ AcceptGrounded(a, evaluation, extracted)
             /\ MarkGrounded(a, evaluation)
             /\ ReadyGrounded(a, evaluation)
  <2>1. Shape(a, evaluation, unreviewed, pending)
    BY <1>2
  <2>2. a.doc # NoDoc => docs[a.doc] # "absent"
    BY <1>1, <1>3, <1>4, <2>1 DEF Shape, ActionKind, pending
  <2> QED
    BY <1>1, <1>3, <2>1, <2>2
    DEF Shape, TargetsKnown, DecidesPending, AcceptGrounded, MarkGrounded, ReadyGrounded
<1> QED
  BY <1>5, <1>6, <1>7 DEF PlanValid, plan, pending, evaluation
\* No plan accepts and rejects a document.
LEMMA MockPlanConsistent ==
  ASSUME NEW extracted, NEW unreviewed, NEW pending, NEW open, NEW status,
         NEW a \in MockPlan(MockEvaluation(extracted, unreviewed), unreviewed, pending, open, status),
         NEW b \in MockPlan(MockEvaluation(extracted, unreviewed), unreviewed, pending, open, status)
  PROVE  ~Contradicts(a, b)
<1> DEFINE evaluation == MockEvaluation(extracted, unreviewed)
<1>1. Shape(a, evaluation, unreviewed, pending) /\ Shape(b, evaluation, unreviewed, pending)
  BY Suggested
<1>2. \A d : ~(d \in Listed(evaluation, "satisfied") /\ d \in Listed(evaluation, "not_satisfied"))
  BY ListedOnce
<1> HIDE DEF evaluation
<1> QED
  BY <1>1, <1>2 DEF Shape, Contradicts

\* The suggestions about the documents of a review, and those about requirements.
AboutDocs(plan, pending) ==
    {a \in plan : a.kind \in {"accept_document", "reject_document"}
                     \/ (a.kind = "flag_for_review" /\ a.doc \in pending)}
AboutReqs(plan) ==
    {a \in plan : a.kind \in {"mark_requirement_satisfied", "request_document"}
                     \/ (a.kind = "flag_for_review" /\ a.doc = NoDoc)}

\* The length of a union is at most that of its parts.
LEMMA UnionLength ==
  ASSUME NEW S, NEW T, IsFiniteSet(S), IsFiniteSet(T)
  PROVE  /\ IsFiniteSet(S \cup T)
         /\ Cardinality(S \cup T) <= Cardinality(S) + Cardinality(T)
<1>1. IsFiniteSet(S \cap T)
  BY FS_Subset
<1>2. /\ Cardinality(S) \in Nat /\ Cardinality(T) \in Nat /\ Cardinality(S \cap T) \in Nat
  BY <1>1, FS_CardinalityType
<1>3. /\ IsFiniteSet(S \cup T)
      /\ Cardinality(S \cup T) = Cardinality(S) + Cardinality(T) - Cardinality(S \cap T)
  BY FS_Union
<1> QED
  BY <1>2, <1>3

\* One suggestion per document to review and per requirement, and one more.
LEMMA MockPlanLength ==
  ASSUME IsFiniteSet(Docs), IsFiniteSet(Reqs), NEW extracted, NEW pending \in SUBSET Docs,
         NEW unreviewed \in SUBSET pending, NEW open, NEW status,
         \A d \in unreviewed : extracted[d] = NoExtraction
  PROVE  Cardinality(MockPlan(MockEvaluation(extracted, unreviewed), unreviewed, pending, open, status))
             <= Cardinality(pending) + Cardinality(Reqs) + 1
<1> DEFINE evaluation == MockEvaluation(extracted, unreviewed)
           plan  == MockPlan(evaluation, unreviewed, pending, open, status)
           docs  == AboutDocs(plan, pending)
           reqs  == AboutReqs(plan)
           ready == {Suggest("change_case_status", NoDoc, NoReq)}
<1>1. \A a \in plan : Shape(a, evaluation, unreviewed, pending)
  BY Suggested
<1>2. \A d : d \in Listed(evaluation, "satisfied") =>
             extracted[d] # NoExtraction /\ d \notin Listed(evaluation, "not_satisfied")
  BY ListedSatisfied, ListedOnce
<1>3. \A d : d \in Listed(evaluation, "not_satisfied") => extracted[d] # NoExtraction
  BY ListedFailing
<1>4. \A e \in evaluation : e.req \in Reqs
  BY EntryOf DEF MockEvaluation
<1>5. \A e, f \in evaluation : e.req = f.req => e = f
  BY EntryOf DEF MockEvaluation
<1> HIDE DEF evaluation, plan
<1>6. IsFiniteSet(docs) /\ Cardinality(docs) <= Cardinality(pending)
  <2> DEFINE f == [a \in docs |-> a.doc]
  <2>1. \A a \in docs : a.doc \in pending
    BY <1>1 DEF AboutDocs, Shape
  <2>2. ASSUME NEW a \in docs, NEW b \in docs, a.doc = b.doc
        PROVE  a = b
    <3>1. /\ a \in plan /\ b \in plan
          /\ a.kind \in {"accept_document", "reject_document", "flag_for_review"}
          /\ b.kind \in {"accept_document", "reject_document", "flag_for_review"}
          /\ a.doc # NoDoc /\ b.doc # NoDoc
      BY <2>1, ContractsAssumption DEF AboutDocs
    <3>2. a.req = NoReq /\ b.req = NoReq
      BY <1>1, <3>1 DEF Shape
    <3>3. a.kind = b.kind
      BY <1>1, <1>2, <1>3, <2>2, <3>1 DEF Shape
    <3> QED
      BY <1>1, <2>2, <3>1, <3>2, <3>3 DEF Shape
  <2>3. f \in Injection(docs, pending)
    BY <2>1, <2>2 DEF Injection, IsInjective
  <2>4. IsFiniteSet(pending)
    BY FS_Subset
  <2> HIDE DEF f
  <2> QED
    BY <2>3, <2>4, FS_Injection
<1>7. IsFiniteSet(reqs) /\ Cardinality(reqs) <= Cardinality(Reqs)
  <2> DEFINE f == [a \in reqs |-> a.req]
  <2>1. \A a \in reqs : a.req \in Reqs
    BY <1>1, <1>4, ContractsAssumption DEF AboutReqs, Shape
  <2>2. ASSUME NEW a \in reqs, NEW b \in reqs, a.req = b.req
        PROVE  a = b
    <3>1. /\ a \in plan /\ b \in plan
          /\ a.kind \in {"mark_requirement_satisfied", "request_document", "flag_for_review"}
          /\ b.kind \in {"mark_requirement_satisfied", "request_document", "flag_for_review"}
          /\ a.req # NoReq /\ b.req # NoReq
          /\ a.kind # "mark_requirement_satisfied" => a.doc = NoDoc
          /\ b.kind # "mark_requirement_satisfied" => b.doc = NoDoc
      BY <1>1, <2>1, ContractsAssumption DEF AboutReqs, Shape
    <3>2. a.kind = b.kind
      BY <1>1, <1>5, <2>2, <3>1 DEF Shape
    <3>3. a.doc = b.doc
      BY <1>1, <1>5, <2>2, <3>1, <3>2 DEF Shape
    <3> QED
      BY <1>1, <2>2, <3>1, <3>2, <3>3 DEF Shape
  <2>3. f \in Injection(reqs, Reqs)
    BY <2>1, <2>2 DEF Injection, IsInjective
  <2> HIDE DEF f
  <2> QED
    BY <2>3, FS_Injection
<1>8. plan \subseteq docs \cup reqs \cup ready
  BY <1>1 DEF Shape, AboutDocs, AboutReqs, ActionKind
<1>9. IsFiniteSet(ready) /\ Cardinality(ready) = 1
  BY FS_Singleton
<1> HIDE DEF docs, reqs, ready
<1>10. /\ IsFiniteSet(docs \cup reqs)
       /\ Cardinality(docs \cup reqs) <= Cardinality(docs) + Cardinality(reqs)
  BY <1>6, <1>7, UnionLength
<1>11. /\ IsFiniteSet((docs \cup reqs) \cup ready)
       /\ Cardinality((docs \cup reqs) \cup ready) <= Cardinality(docs \cup reqs) + 1
  BY <1>9, <1>10, UnionLength
<1>12. Cardinality(plan) <= Cardinality((docs \cup reqs) \cup ready)
  BY <1>8, <1>11, FS_Subset
<1>13. /\ Cardinality(docs) \in Int /\ Cardinality(reqs) \in Int /\ Cardinality(plan) \in Int
       /\ Cardinality(pending) \in Int /\ Cardinality(Reqs) \in Int
       /\ Cardinality(docs \cup reqs) \in Int /\ Cardinality((docs \cup reqs) \cup ready) \in Int
  BY <1>6, <1>7, <1>8, <1>10, <1>11, FS_CardinalityType, FS_Subset
<1> QED
  BY <1>6, <1>7, <1>10, <1>11, <1>12, <1>13 DEF plan, evaluation
-----------------------------------------------------------------------------
(* What a worker is about to answer.                                       *)

\* Once the checklist has been read, a review has what the operators need.
LEMMA SnapshotFacts ==
  ASSUME OfflineInv, NEW w \in Workers, pc[w] = "review"
  PROVE  /\ NewOf(w) \in Reviewed(snapshot[w].docs)
         /\ AsRead(NewOf(w)) /\ AsRead(ExtractedOf(w))
         /\ ExtractedOf(w) \in [Docs -> Extractions \cup {NoExtraction}]
         /\ \A d \in Docs : ExtractedOf(w)[d] # NoExtraction => snapshot[w].docs[d] # "absent"
         /\ UnreviewedOf(w) \in SUBSET ToReview(snapshot[w].docs)
         /\ \A d \in UnreviewedOf(w) : ExtractedOf(w)[d] = NoExtraction
<1>1. reads \in [Docs -> Extractions \cup {NoExtraction}]
  BY OfflineAssumption DEF OfflineInv, OfflineTypeOK
<1>2. /\ snapshot[w].prior \in [Docs -> Extractions \cup {NoExtraction}]
      /\ AsRead(snapshot[w].prior)
      /\ \A d \in Docs : snapshot[w].prior[d] # NoExtraction => snapshot[w].docs[d] # "absent"
      /\ \A d \in Docs : snapshot[w].docs[d] = "pending_review" =>
                           snapshot[w].prior[d] = NoExtraction
  BY DEF OfflineInv, TrueToReading, TypeInv, TypeOK, ProcessTypeOK, WellFormed
<1>3. NewOf(w) \in Reviewed(snapshot[w].docs) /\ AsRead(NewOf(w))
  BY <1>1 DEF NewOf, Reviewed, Dispatched, AsRead
<1>4. \A d \in Docs : ExtractedOf(w)[d] = IF NewOf(w)[d] # NoExtraction THEN NewOf(w)[d]
                                          ELSE snapshot[w].prior[d]
  BY DEF ExtractedOf, AllExtractions
<1>5. /\ AsRead(ExtractedOf(w))
      /\ ExtractedOf(w) \in [Docs -> Extractions \cup {NoExtraction}]
  BY <1>1, <1>2, <1>3 DEF AsRead, ExtractedOf, AllExtractions, Reviewed
<1>6. ASSUME NEW d \in Docs, ExtractedOf(w)[d] # NoExtraction
      PROVE  snapshot[w].docs[d] # "absent"
  <2>1. CASE NewOf(w)[d] # NoExtraction
    BY <2>1 DEF NewOf, Dispatched, ToReview
  <2> QED
    BY <1>2, <1>4, <1>6, <2>1
<1>7. UnreviewedOf(w) \in SUBSET ToReview(snapshot[w].docs)
  BY DEF UnreviewedOf, Dispatched
<1>8. ASSUME NEW d \in UnreviewedOf(w)
      PROVE  ExtractedOf(w)[d] = NoExtraction
  BY <1>2, <1>4 DEF UnreviewedOf, Dispatched, ToReview, NewOf
<1> QED
  BY <1>3, <1>5, <1>6, <1>7, <1>8

\* The two contracts accept what the offline provider answers in that state.
LEMMA AnswersValid ==
  ASSUME OfflineInv, NEW w \in Workers, pc[w] = "review"
  PROVE  /\ EvaluationValid(EvaluationOf(w), {d \in Docs : snapshot[w].docs[d] # "absent"},
                            PassingChecks(ExtractedOf(w)))
         /\ Cardinality(PlanOf(w)) <= MaxActions =>
                PlanValid(PlanOf(w), snapshot[w].docs, EvaluationOf(w), ExtractedOf(w))
<1> DEFINE known == {d \in Docs : snapshot[w].docs[d] # "absent"}
<1>1. \A d \in Docs : ExtractedOf(w)[d] # NoExtraction => d \in known
  BY SnapshotFacts
<1> HIDE DEF known
<1>2. EvaluationValid(EvaluationOf(w), known, PassingChecks(ExtractedOf(w)))
  BY <1>1, MockEvaluationValid DEF EvaluationOf
<1>3. ASSUME Cardinality(PlanOf(w)) <= MaxActions
      PROVE  PlanValid(PlanOf(w), snapshot[w].docs, EvaluationOf(w), ExtractedOf(w))
  <2>1. /\ UnreviewedOf(w) \in SUBSET ToReview(snapshot[w].docs)
        /\ \A d \in Docs : ExtractedOf(w)[d] # NoExtraction => snapshot[w].docs[d] # "absent"
    BY SnapshotFacts
  <2> QED
    BY <1>3, <2>1, MockPlanValid DEF PlanOf, EvaluationOf, Dispatched
<1> QED
  BY <1>2, <1>3 DEF known

\* What the offline provider suggests, for the invariant.
LEMMA PlanFacts ==
  ASSUME OfflineInv, NEW w \in Workers, pc[w] = "review"
  PROVE  /\ PlanOf(w) \in SUBSET Draft
         /\ EvaluationOf(w) \in SUBSET Entry
         /\ \A a \in PlanOf(w) :
               a.kind = "mark_requirement_satisfied" => <<a.req, reads[a.doc]>> \in Passing
         /\ \A a, b \in PlanOf(w) : ~Contradicts(a, b)
<1>1. /\ UnreviewedOf(w) \in SUBSET Docs /\ Dispatched(w) \in SUBSET Docs
  BY DEF UnreviewedOf, Dispatched, ToReview
<1>2. \A a \in PlanOf(w) : Shape(a, EvaluationOf(w), UnreviewedOf(w), Dispatched(w))
  BY Suggested DEF PlanOf, EvaluationOf
<1>3. \A a \in PlanOf(w) : a \in Draft
  BY <1>1, <1>2, SuggestedDraft DEF EvaluationOf
<1>4. EvaluationOf(w) \in SUBSET Entry
  BY EntryOf DEF EvaluationOf, MockEvaluation
<1>5. ASSUME NEW a \in PlanOf(w), a.kind = "mark_requirement_satisfied"
      PROVE  <<a.req, reads[a.doc]>> \in Passing
  <2>1. /\ a.req \in Reqs /\ a.doc \in Docs
        /\ ExtractedOf(w)[a.doc] # NoExtraction
        /\ <<a.req, ExtractedOf(w)[a.doc]>> \in Passing
    BY <1>5, MarkSuggested DEF PlanOf, EvaluationOf
  <2>2. ExtractedOf(w)[a.doc] = reads[a.doc]
    BY <2>1, SnapshotFacts DEF AsRead
  <2> QED
    BY <2>1, <2>2
<1>6. \A a, b \in PlanOf(w) : ~Contradicts(a, b)
  BY MockPlanConsistent DEF PlanOf, EvaluationOf
<1> QED
  BY <1>3, <1>4, <1>5, <1>6
-----------------------------------------------------------------------------
(* A review by the offline provider keeps the invariant of CaseReview.     *)

\* Its plan is valid, so its rows will be well formed and in its case.
LEMMA MockReviewsService ==
  ASSUME OfflineInv, NEW w \in Workers, MockReviews(w)
  PROVE  TypeInv' /\ RunInv' /\ FileInv'
<1> DEFINE docs  == snapshot[w].docs
           prior == snapshot[w].prior
           new   == NewOf(w)
           plan  == PlanOf(w)
<1>1. /\ pc[w] = "review"
      /\ result' = [result EXCEPT ![w] = [extractions |-> new, plan |-> plan]]
      /\ snapshot' = [snapshot EXCEPT ![w] = NoSnapshot]
      /\ pc' = [pc EXCEPT ![w] = "persist"]
      /\ UNCHANGED <<caseFile, reviews, onCommit, queue, task, faults>>
  BY DEF MockReviews, ReadyToAnswer
<1>2. PlanValid(plan, docs, EvaluationOf(w), AllExtractions(prior, new))
  BY <1>1, AnswersValid DEF MockReviews, ExtractedOf
<1>3. new \in [Docs -> Extractions \cup {NoExtraction}] /\ plan \in SUBSET Draft
  BY <1>1, SnapshotFacts, PlanFacts DEF Reviewed
<1>4. /\ prior \in [Docs -> Extractions \cup {NoExtraction}]
      /\ \A d \in Docs : docs[d] = "pending_review" => prior[d] = NoExtraction
  BY <1>1 DEF OfflineInv, TypeInv, TypeOK, ProcessTypeOK, WellFormed
<1> HIDE DEF docs, prior, new, plan
<1>5. \A draft \in plan : DraftShape(draft, new)
  BY <1>2, <1>3, <1>4, PlanShape
<1>6. \A draft \in plan : draft.doc # NoDoc => docCase[draft.doc] = runCase[task[w]]
  <2>1. \A draft \in plan : draft.doc # NoDoc => draft.doc \in Docs /\ docs[draft.doc] # "absent"
    BY <1>2, <1>3 DEF PlanValid, TargetsKnown, Draft
  <2> QED
    BY <1>1, <2>1 DEF OfflineInv, FileInv, WorkStaysInCase, docs
<1>7. TypeInv'
  BY <1>1, <1>3, <1>5
  DEF OfflineInv, TypeInv, TypeOK, CaseFileTypeOK, ReviewsTypeOK, ProcessTypeOK, RunsExist,
      WellFormed, AuditTypeOK, caseFile, reviews, RunsIn, NoSnapshot, NoExtractions, Executing
<1>8. RunInv'
  BY <1>1
  DEF OfflineInv, TypeInv, TypeOK, ProcessTypeOK, RunInv, SingleExecutor, ActiveIsNewest,
      NothingProposedUnlessCompleted, RowsUnderTheirRun, OnlyLatestActionable, Pending, Executing,
      reviews
<1>9. WorkStaysInCase'
  BY <1>1, <1>6
  DEF OfflineInv, TypeInv, TypeOK, ProcessTypeOK, FileInv, WorkStaysInCase, caseFile, reviews
<1>10. FileInv'
  BY <1>1, <1>9, FileFrame DEF OfflineInv, reviews
<1> QED
  BY <1>7, <1>8, <1>10

\* Every other step of OfflineNext is a step of CaseReview, or a query it leaves out.
LEMMA OtherSteps ==
  ASSUME [OfflineNext]_offlineVars, \A w \in Workers : ~MockReviews(w)
  PROVE  [Next]_vars
<1>1. CASE OtherStep
  BY <1>1 DEF OtherStep, Next, Worker
<1>2. ASSUME NEW w \in Workers, ReviewStep(w)
      PROVE  [Next]_vars
  <2>1. CASE ReadCase(w) \/ ReadChecklist(w)
    BY <2>1 DEF ReadCase, ReadChecklist
  <2>2. CASE ReadDocuments(w)
    BY <2>2 DEF ReadDocuments, Next, Worker
  <2>3. CASE MockGivesUp(w)
    BY <2>3 DEF MockGivesUp, Next, Worker
  <2> QED
    BY <1>2, <2>1, <2>2, <2>3 DEF ReviewStep
<1> QED
  BY <1>1, <1>2 DEF OfflineNext, offlineVars

\* The invariant of CaseReview holds with the offline provider too.
LEMMA OfflineService ==
  ASSUME OfflineInv, [OfflineNext]_offlineVars
  PROVE  TypeInv' /\ RunInv' /\ FileInv'
<1>1. CASE \A w \in Workers : ~MockReviews(w)
  <2>1. [Next]_vars
    BY <1>1, OtherSteps
  <2> QED
    BY <2>1, NextType, NextRuns, NextFile DEF OfflineInv, FileInv
<1>2. ASSUME NEW w \in Workers, MockReviews(w)
      PROVE  TypeInv' /\ RunInv' /\ FileInv'
  BY <1>2, MockReviewsService
<1> QED
  BY <1>1, <1>2

\* What the queries read has the type of its columns.
LEMMA OfflineTypes ==
  ASSUME OfflineInv, [OfflineNext]_offlineVars
  PROVE  OfflineTypeOK'
<1>1. ASSUME Forget, UNCHANGED reads
      PROVE  OfflineTypeOK'
  BY <1>1 DEF OfflineInv, OfflineTypeOK, Forget, UnreadReqs
<1>2. ASSUME NEW w \in Workers, ReadCase(w)
      PROVE  OfflineTypeOK'
  <2>1. caseStatus[runCase[task[w]]] \in CaseStatus \cup {"absent"}
    BY <1>2
    DEF ReadCase, OfflineInv, TypeInv, TypeOK, CaseFileTypeOK, RunsExist
  <2> QED
    BY <1>2, <2>1 DEF ReadCase, OfflineInv, OfflineTypeOK
<1>3. ASSUME NEW w \in Workers, ReadChecklist(w)
      PROVE  OfflineTypeOK'
  <2>1. reqStatus[runCase[task[w]]] \in [Reqs -> ReqStatus]
    BY <1>3
    DEF ReadChecklist, OfflineInv, TypeInv, TypeOK, CaseFileTypeOK, RunsExist
  <2> QED
    BY <1>3, <2>1 DEF ReadChecklist, OfflineInv, OfflineTypeOK
<1>4. ASSUME UNCHANGED <<reads, seen>>
      PROVE  OfflineTypeOK'
  BY <1>4 DEF OfflineInv, OfflineTypeOK, seen
<1> QED
  BY <1>1, <1>2, <1>3, <1>4
  DEF OfflineNext, ReviewStep, ReadDocuments, MockReviews, MockGivesUp, offlineVars
-----------------------------------------------------------------------------
(* Where extractions come from.                                            *)

Truth == TrueToReading /\ ReviewsAreConsistent

\* A step that stores no extraction, makes no row and hands no worker a new
\* snapshot or result.
Quiet ==
    /\ UNCHANGED <<docExtraction, reqStatus, satisfiedBy, reads>>
    /\ DOMAIN actions' = DOMAIN actions
    /\ \A w \in Workers :
          /\ pc'[w] = "review" => pc[w] = "review" /\ snapshot'[w] = snapshot[w]
          /\ pc'[w] = "persist" => pc[w] = "persist" /\ result'[w] = result[w]

\* A quiet step disturbs nothing said of extractions.
LEMMA QuietTruth ==
  ASSUME Truth, Quiet
  PROVE  Truth'
BY DEF Truth, Quiet, TrueToReading, ReviewsAreConsistent, AsRead, Contradicts

\* The API, deliveries, claims, failed reviews and faults are quiet.
LEMMA QuietSteps ==
  ASSUME OfflineInv, UNCHANGED reads,
         \/ Api
         \/ \E w \in Workers, r \in Runs : Deliver(w, r)
         \/ \E w \in Workers : Claim(w) \/ SkipClaimed(w) \/ RecordFailure(w) \/ AuditFailure(w)
                              \/ ReviewFails(w)
         \/ Failure
  PROVE  Quiet
<1> USE DEF Quiet, OfflineInv, TypeInv, TypeOK, ProcessTypeOK
<1>1. CASE Api
  BY <1>1 DEF Api, CreateCase, AddDocument, StartReview, Enqueue, process, reviews, caseFile
<1>2. ASSUME NEW w \in Workers, NEW r \in Runs, Deliver(w, r)
      PROVE  Quiet
  BY <1>2 DEF Deliver, caseFile, reviews
<1>3. ASSUME NEW w \in Workers, Claim(w) \/ SkipClaimed(w) \/ RecordFailure(w) \/ AuditFailure(w)
                                 \/ ReviewFails(w)
      PROVE  Quiet
  BY <1>3
  DEF Claim, SkipClaimed, RecordFailure, AuditFailure, ReviewFails, Finish, caseFile, reviews
<1>4. CASE Failure
  BY <1>4 DEF Failure, EnqueueFails, DatabaseError, Crash, Redeliver, Finish, caseFile, reviews
<1> QED
  BY <1>1, <1>2, <1>3, <1>4

\* The snapshot takes the approved extractions, of documents of the case.
LEMMA SnapshotTruth ==
  ASSUME OfflineInv, Truth, NEW w \in Workers, BuildSnapshot(w), UNCHANGED reads
  PROVE  Truth'
<1> DEFINE docs  == DocumentsOf(runCase[task[w]])
           prior == PriorOf(runCase[task[w]])
<1>1. /\ snapshot' = [snapshot EXCEPT ![w] = [docs |-> docs, prior |-> prior]]
      /\ pc' = [pc EXCEPT ![w] = "review"]
      /\ UNCHANGED <<docExtraction, reqStatus, satisfiedBy, actions, result>>
  BY DEF BuildSnapshot, caseFile, reviews
<1>2. /\ AsRead(prior)
      /\ \A d \in Docs : prior[d] # NoExtraction => docs[d] # "absent"
  BY ContractsAssumption DEF PriorOf, DocumentsOf, Truth, TrueToReading, AsRead, OfflineInv,
                            TypeInv, TypeOK, CaseFileTypeOK
<1> HIDE DEF docs, prior
<1>3. /\ snapshot'[w].docs = docs /\ snapshot'[w].prior = prior
      /\ \A v \in Workers :
            /\ v # w => snapshot'[v] = snapshot[v]
            /\ pc'[v] = "review" => v = w \/ pc[v] = "review"
            /\ pc'[v] = "persist" => pc[v] = "persist"
  BY <1>1 DEF OfflineInv, TypeInv, TypeOK, ProcessTypeOK
<1>4. ASSUME NEW v \in Workers, pc'[v] = "review"
      PROVE  /\ AsRead(snapshot'[v].prior)
             /\ \A d \in Docs : snapshot'[v].prior[d] # NoExtraction =>
                                  snapshot'[v].docs[d] # "absent"
  <2>1. CASE v = w
    BY <1>2, <1>3, <2>1
  <2>2. CASE v # w
    BY <1>3, <1>4, <2>2 DEF Truth, TrueToReading
  <2> QED
    BY <2>1, <2>2
<1>5. TrueToReading'
  BY <1>1, <1>3, <1>4 DEF Truth, TrueToReading, AsRead
<1>6. ReviewsAreConsistent'
  BY <1>1, <1>3 DEF Truth, ReviewsAreConsistent, Contradicts
<1> QED
  BY <1>5, <1>6 DEF Truth

\* The offline provider's answer.
LEMMA MockReviewsTruth ==
  ASSUME OfflineInv, Truth, NEW w \in Workers, MockReviews(w)
  PROVE  Truth'
<1>1. /\ pc[w] = "review"
      /\ result' = [result EXCEPT ![w] = [extractions |-> NewOf(w), plan |-> PlanOf(w)]]
      /\ snapshot' = [snapshot EXCEPT ![w] = NoSnapshot]
      /\ pc' = [pc EXCEPT ![w] = "persist"]
      /\ UNCHANGED <<docExtraction, reqStatus, satisfiedBy, actions, reads>>
  BY DEF MockReviews, ReadyToAnswer, caseFile, reviews
<1>2. /\ \A d \in Docs : NewOf(w)[d] \in {NoExtraction, reads[d]}
      /\ \A a \in PlanOf(w) :
            a.kind = "mark_requirement_satisfied" => <<a.req, reads[a.doc]>> \in Passing
      /\ \A a, b \in PlanOf(w) : ~Contradicts(a, b)
  BY <1>1, SnapshotFacts, PlanFacts DEF AsRead
<1>3. result'[w].extractions = NewOf(w) /\ result'[w].plan = PlanOf(w)
  BY <1>1 DEF OfflineInv, TypeInv, TypeOK, ProcessTypeOK
<1>4. \A v \in Workers :
         /\ pc'[v] = "review" => v # w /\ pc[v] = "review" /\ snapshot'[v] = snapshot[v]
         /\ pc'[v] = "persist" => v = w \/ (pc[v] = "persist" /\ result'[v] = result[v])
  BY <1>1 DEF OfflineInv, TypeInv, TypeOK, ProcessTypeOK
<1>5. TrueToReading'
  BY <1>1, <1>2, <1>3, <1>4 DEF Truth, TrueToReading, AsRead
<1>6. ReviewsAreConsistent'
  BY <1>1, <1>2, <1>3, <1>4 DEF Truth, ReviewsAreConsistent, Contradicts
<1> QED
  BY <1>5, <1>6 DEF Truth

\* The rows of a review carry what its plan says; it had none before.
LEMMA PersistTruth ==
  ASSUME OfflineInv, Truth, NEW w \in Workers, PersistResult(w), UNCHANGED reads
  PROVE  Truth'
<1> DEFINE r   == task[w]
           new == NewRows(r, result[w].plan, result[w].extractions)
<1>1. /\ pc[w] = "persist"
      /\ DOMAIN actions' = DOMAIN actions \cup new
      /\ Finish(w)
      /\ UNCHANGED <<docExtraction, reqStatus, satisfiedBy>>
  BY DEF PersistResult, caseFile
<1>2. \A d \in Docs : result[w].extractions[d] \in {NoExtraction, reads[d]}
  BY <1>1 DEF Truth, TrueToReading, AsRead
<1>3. ASSUME NEW a \in new
      PROVE  \E draft \in result[w].plan :
                /\ a = NewRow(r, draft, result[w].extractions)
                /\ a.run = r /\ a.kind = draft.kind /\ a.doc = draft.doc /\ a.req = draft.req
                /\ a.kind = "accept_document" => a.payload = reads[a.doc]
                /\ a.kind = "mark_requirement_satisfied" => <<a.req, reads[a.doc]>> \in Passing
  <2>1. PICK draft \in result[w].plan : a = NewRow(r, draft, result[w].extractions)
    BY DEF NewRows
  <2>2. /\ a.run = r /\ a.kind = draft.kind /\ a.doc = draft.doc /\ a.req = draft.req
        /\ a.payload = Payload(draft, result[w].extractions)
    BY <1>1, <2>1, PlanIsFound DEF OfflineInv, NewRow
  <2>3. ASSUME a.kind = "accept_document"
        PROVE  a.payload = reads[a.doc]
    <3>1. draft.doc \in Docs /\ result[w].extractions[draft.doc] \in Extractions
      BY <1>1, <2>2, <2>3 DEF OfflineInv, TypeInv, WellFormed, DraftShape
    <3>2. a.payload = result[w].extractions[draft.doc]
      BY <2>2, <2>3 DEF Payload
    <3> QED
      BY <1>2, <2>2, <3>1, <3>2, ContractsAssumption
  <2>4. a.kind = "mark_requirement_satisfied" => <<a.req, reads[a.doc]>> \in Passing
    BY <1>1, <2>2 DEF Truth, TrueToReading
  <2> QED
    BY <2>1, <2>2, <2>3, <2>4
<1>4. \A a \in DOMAIN actions : a.run # r
  BY <1>1 DEF OfflineInv, RunInv, NothingProposedUnlessCompleted, SingleExecutor, Executing
<1>5. \A v \in Workers :
         /\ pc'[v] = "review" => pc[v] = "review" /\ snapshot'[v] = snapshot[v]
         /\ pc'[v] = "persist" => pc[v] = "persist" /\ result'[v] = result[v]
  BY <1>1 DEF OfflineInv, TypeInv, TypeOK, ProcessTypeOK, Finish
<1>6. \A x, y \in result[w].plan : ~Contradicts(x, y)
  BY <1>1 DEF Truth, ReviewsAreConsistent
<1> HIDE DEF r, new
<1>7. TrueToReading'
  BY <1>1, <1>3, <1>5 DEF Truth, TrueToReading, AsRead
<1>8. \A v \in Workers :
         pc'[v] = "persist" => \A x, y \in result'[v].plan : ~Contradicts(x, y)
  BY <1>5 DEF Truth, ReviewsAreConsistent
<1>9. ASSUME NEW a \in new, NEW b \in new
      PROVE  ~Contradicts(a, b)
  <2>1. PICK x \in result[w].plan : a.kind = x.kind /\ a.doc = x.doc
    BY <1>3
  <2>2. PICK y \in result[w].plan : b.kind = y.kind /\ b.doc = y.doc
    BY <1>3
  <2>3. ~Contradicts(x, y)
    BY <1>6
  <2> QED
    BY <2>1, <2>2, <2>3 DEF Contradicts
<1>10. ASSUME NEW a \in DOMAIN actions', NEW b \in DOMAIN actions', a.run = b.run
       PROVE  ~Contradicts(a, b)
  <2>1. \A x \in new : x.run = r
    BY <1>3
  <2>2. (a \in new /\ b \in new) \/ (a \in DOMAIN actions /\ b \in DOMAIN actions)
    BY <1>1, <1>4, <1>10, <2>1
  <2>3. CASE a \in new /\ b \in new
    BY <1>9, <2>3
  <2>4. CASE a \in DOMAIN actions /\ b \in DOMAIN actions
    BY <1>10, <2>4 DEF Truth, ReviewsAreConsistent
  <2> QED
    BY <2>2, <2>3, <2>4
<1>11. ReviewsAreConsistent'
  BY <1>8, <1>10 DEF ReviewsAreConsistent, Contradicts
<1> QED
  BY <1>7, <1>11 DEF Truth

\* An approval stores what the row carries.
LEMMA HumanTruth ==
  ASSUME OfflineInv, Truth, Human, UNCHANGED reads
  PROVE  Truth'
<1>1. PICK a \in Pending :
         \/ ApproveAccept(a)
         \/ ApproveRejectDocument(a)
         \/ ApproveMark(a)
         \/ ApproveCaseStatus(a)
         \/ ApproveNoStateChange(a)
         \/ Reject(a)
  BY DEF Human
<1>2. /\ DOMAIN actions' = DOMAIN actions
      /\ UNCHANGED <<pc, snapshot, result>>
  BY <1>1 DEF ApproveAccept, ApproveRejectDocument, ApproveMark, ApproveCaseStatus,
              ApproveNoStateChange, Reject, Approve, Decide, process
<1>3. /\ a \in Row /\ RowShape(a)
      /\ a.kind = "accept_document" => a.payload = reads[a.doc]
      /\ a.kind = "mark_requirement_satisfied" => <<a.req, reads[a.doc]>> \in Passing
  BY DEF OfflineInv, TypeInv, TypeOK, ReviewsTypeOK, WellFormed, Pending, Truth, TrueToReading
<1>4. CASE ApproveAccept(a)
  <2>1. /\ UNCHANGED <<reqStatus, satisfiedBy>>
        /\ docExtraction' = [docExtraction EXCEPT ![a.doc] = reads[a.doc]]
    BY <1>3, <1>4 DEF ApproveAccept
  <2>2. \A d \in Docs : docExtraction'[d] \in {NoExtraction, reads[d]}
    BY <2>1 DEF OfflineInv, TypeInv, TypeOK, CaseFileTypeOK, Truth, TrueToReading, AsRead
  <2> QED
    BY <1>2, <2>1, <2>2 DEF Truth, TrueToReading, ReviewsAreConsistent, AsRead, Contradicts
<1>5. CASE ApproveMark(a)
  <2>1. /\ a.case \in Cases /\ a.req \in Reqs
        /\ UNCHANGED docExtraction
        /\ reqStatus' = [reqStatus EXCEPT ![a.case][a.req] = "satisfied"]
        /\ satisfiedBy' = [satisfiedBy EXCEPT ![a.case][a.req] = a.doc]
        /\ <<a.req, reads[a.doc]>> \in Passing
    BY <1>3, <1>5 DEF ApproveMark, RowShape, Row
  <2>2. \A c \in Cases, q \in Reqs :
           reqStatus'[c][q] = "satisfied" => <<q, reads[satisfiedBy'[c][q]]>> \in Passing
    BY <2>1 DEF OfflineInv, TypeInv, TypeOK, CaseFileTypeOK, Truth, TrueToReading
  <2> QED
    BY <1>2, <2>1, <2>2 DEF Truth, TrueToReading, ReviewsAreConsistent, AsRead, Contradicts
<1>6. CASE UNCHANGED <<docExtraction, reqStatus, satisfiedBy>>
  BY <1>2, <1>6, QuietTruth DEF Quiet
<1> QED
  BY <1>1, <1>4, <1>5, <1>6
  DEF ApproveRejectDocument, ApproveCaseStatus, ApproveNoStateChange, Reject, caseFile
-----------------------------------------------------------------------------
(* The invariant.                                                          *)

\* The empty database satisfies it.
LEMMA OfflineStart == OfflineInit => OfflineInv
<1> SUFFICES ASSUME OfflineInit PROVE OfflineInv
  OBVIOUS
<1>1. Init
  BY DEF OfflineInit
<1>2. RunInv
  BY <1>1 DEF Init, RunInv, SingleExecutor, ActiveIsNewest, NothingProposedUnlessCompleted,
              RowsUnderTheirRun, OnlyLatestActionable, Pending, Executing
<1>3. FileInv
  BY <1>1 DEF Init, FileInv, DocumentsFilled, WorkStaysInCase, TargetsOwnCase,
              SatisfiedIsBacked, ReadyIsComplete
<1>4. OfflineTypeOK
  BY DEF OfflineInit, OfflineTypeOK, UnreadReqs
<1>5. TrueToReading /\ ReviewsAreConsistent
  BY <1>1 DEF Init, TrueToReading, ReviewsAreConsistent, AsRead, NoExtractions
<1> QED
  BY <1>1, <1>2, <1>3, <1>4, <1>5, TypeInit DEF OfflineInv

\* Every step keeps what is said of extractions and of plans.
LEMMA OfflineTruth ==
  ASSUME OfflineInv, [OfflineNext]_offlineVars
  PROVE  Truth'
<1>1. Truth
  BY DEF OfflineInv, Truth
<1>2. CASE OtherStep /\ UNCHANGED reads
  <2>1. ASSUME NEW w \in Workers, PersistResult(w)
        PROVE  Truth'
    BY <1>1, <1>2, <2>1, PersistTruth
  <2>2. CASE Human
    BY <1>1, <1>2, <2>2, HumanTruth
  <2>3. CASE \/ Api
             \/ \E w \in Workers, r \in Runs : Deliver(w, r)
             \/ \E w \in Workers : Claim(w) \/ SkipClaimed(w) \/ RecordFailure(w) \/ AuditFailure(w)
             \/ Failure
    <3>1. Quiet
      BY <1>2, <2>3, QuietSteps
    <3> QED
      BY <1>1, <3>1, QuietTruth
  <2> QED
    BY <1>2, <2>1, <2>2, <2>3 DEF OtherStep
<1>3. ASSUME NEW w \in Workers, ReviewStep(w)
      PROVE  Truth'
  <2>1. CASE ReadCase(w) \/ ReadChecklist(w)
    <3>1. Quiet
      BY <2>1 DEF ReadCase, ReadChecklist, vars, caseFile, reviews, process, Quiet
    <3> QED
      BY <1>1, <3>1, QuietTruth
  <2>2. CASE ReadDocuments(w)
    BY <1>1, <2>2, SnapshotTruth DEF ReadDocuments
  <2>3. CASE MockReviews(w)
    BY <1>1, <2>3, MockReviewsTruth
  <2>4. CASE MockGivesUp(w)
    <3>1. Quiet
      BY <2>4, QuietSteps DEF MockGivesUp
    <3> QED
      BY <1>1, <3>1, QuietTruth
  <2> QED
    BY <1>3, <2>1, <2>2, <2>3, <2>4 DEF ReviewStep
<1>4. CASE UNCHANGED offlineVars
  <2>1. Quiet
    BY <1>4 DEF offlineVars, vars, caseFile, reviews, process, Quiet
  <2> QED
    BY <1>1, <2>1, QuietTruth
<1> QED
  BY <1>2, <1>3, <1>4 DEF OfflineNext

\* The inductive invariant holds in every reachable state.
LEMMA OfflineInductive == OfflineSpec => []OfflineInv
<1>1. OfflineInv /\ [OfflineNext]_offlineVars => OfflineInv'
  BY OfflineService, OfflineTypes, OfflineTruth DEF OfflineInv, Truth
<1> QED
  BY <1>1, OfflineStart, PTL DEF OfflineSpec

-----------------------------------------------------------------------------
(* Advice to submit leads there.                                           *)

\* What a step does to documents and requirements: nothing is taken back, and
\* no document that reads well is rejected.
FileGoesOn ==
    /\ UNCHANGED reads
    /\ \A c \in Cases, q \in Reqs :
          reqStatus[c][q] = "satisfied" => reqStatus'[c][q] = "satisfied"
    /\ \A d \in Docs :
          /\ docStatus[d] = "accepted" => docStatus'[d] = "accepted"
          /\ docStatus[d] = "pending_review" =>
                docStatus'[d] \in {"pending_review", "accepted", "rejected"}
          /\ docStatus'[d] = "rejected" => ReadsBadly(d)

\* A run stays its case's, and succeeded once it has.
RunsGoOn ==
    /\ \A r \in RunsIn(RunStatus) : runCase'[r] = runCase[r]
    /\ \A r \in RunsIn({"succeeded"}) : runStatus'[r] = "succeeded"

\* A worker keeps what it has in hand, or puts it down.
HandsOn(w) ==
    /\ pc'[w] = "review" => /\ pc[w] = "review" /\ task'[w] = task[w]
                            /\ snapshot'[w] = snapshot[w] /\ seenReqs'[w] = seenReqs[w]
    /\ pc'[w] = "persist" => pc[w] = "persist" /\ task'[w] = task[w] /\ result'[w] = result[w]
    /\ pc'[w] # "review" => seenReqs'[w] = UnreadReqs

\* LeadsTo in the next state.
LeadsNext(S, c, q) ==
    \/ reqStatus'[c][q] = "satisfied"
    \/ \E m \in S :
          /\ m.kind = "mark_requirement_satisfied"
          /\ m.req = q
          /\ \/ docStatus'[m.doc] = "accepted"
             \/ /\ docStatus'[m.doc] = "pending_review"
                /\ \E x \in S : x.kind = "accept_document" /\ x.doc = m.doc

\* Suggestions that lead to a requirement still do after such a step, also in
\* the shape of others for the same targets.
LEMMA LeadsOn ==
  ASSUME FileGoesOn, NEW c \in Cases, NEW q \in Reqs, NEW S, NEW T,
         \A m \in S : \E n \in T : n.kind = m.kind /\ n.doc = m.doc /\ n.req = m.req,
         \A m \in S : m.kind = "mark_requirement_satisfied" =>
                         m.doc \in Docs /\ <<m.req, reads[m.doc]>> \in Passing,
         LeadsTo(S, c, q)
  PROVE  LeadsNext(T, c, q)
<1> USE DEF LeadsNext
<1>1. CASE reqStatus[c][q] = "satisfied"
  BY <1>1 DEF FileGoesOn
<1>2. CASE reqStatus[c][q] # "satisfied"
  <2>1. PICK m \in S :
           /\ m.kind = "mark_requirement_satisfied"
           /\ m.req = q
           /\ \/ docStatus[m.doc] = "accepted"
              \/ /\ docStatus[m.doc] = "pending_review"
                 /\ \E x \in S : x.kind = "accept_document" /\ x.doc = m.doc
    BY <1>2 DEF LeadsTo
  <2>2. m.doc \in Docs /\ ~ReadsBadly(m.doc)
    BY <2>1 DEF ReadsBadly
  <2>3. PICK n \in T : n.kind = m.kind /\ n.doc = m.doc /\ n.req = m.req
    OBVIOUS
  <2>4. CASE docStatus[m.doc] = "accepted"
    BY <2>1, <2>2, <2>3, <2>4 DEF FileGoesOn
  <2>5. CASE docStatus[m.doc] = "pending_review" /\ \E x \in S : x.kind = "accept_document" /\ x.doc = m.doc
    <3>1. docStatus'[m.doc] \in {"pending_review", "accepted"}
      BY <2>2, <2>5 DEF FileGoesOn
    <3>2. \E x \in T : x.kind = "accept_document" /\ x.doc = m.doc
      BY <2>5
    <3> QED
      BY <2>1, <2>3, <3>1, <3>2
  <2> QED
    BY <2>1, <2>4, <2>5
<1> QED
  BY <1>1, <1>2

\* Human decisions take nothing back, and reject only what reads badly.
LEMMA HumanGoesOn ==
  ASSUME OfflineInv, RejectionsAreDeserved, Human, UNCHANGED reads
  PROVE  FileGoesOn
<1>1. PICK a \in Pending :
         \/ ApproveAccept(a)
         \/ ApproveRejectDocument(a)
         \/ ApproveMark(a)
         \/ ApproveCaseStatus(a)
         \/ ApproveNoStateChange(a)
         \/ Reject(a)
  BY DEF Human
<1>2. /\ a \in Row /\ RowShape(a)
      /\ a.kind = "reject_document" => ReadsBadly(a.doc)
  BY DEF OfflineInv, TypeInv, TypeOK, ReviewsTypeOK, WellFormed, Pending, RejectionsAreDeserved
<1>3. CASE ApproveAccept(a)
  BY <1>2, <1>3
  DEF ApproveAccept, PendingDocument, RowShape, FileGoesOn, RejectionsAreDeserved, OfflineInv,
      TypeInv, TypeOK, CaseFileTypeOK
<1>4. CASE ApproveRejectDocument(a)
  BY <1>2, <1>4
  DEF ApproveRejectDocument, PendingDocument, RowShape, FileGoesOn, RejectionsAreDeserved,
      OfflineInv, TypeInv, TypeOK, CaseFileTypeOK
<1>5. CASE ApproveMark(a)
  BY <1>2, <1>5
  DEF ApproveMark, RowShape, FileGoesOn, RejectionsAreDeserved, OfflineInv, TypeInv, TypeOK,
      CaseFileTypeOK, Row
<1>6. CASE UNCHANGED <<reqStatus, docStatus>>
  BY <1>6 DEF FileGoesOn, RejectionsAreDeserved
<1> QED
  BY <1>1, <1>3, <1>4, <1>5, <1>6
  DEF ApproveCaseStatus, ApproveNoStateChange, Reject, caseFile

\* So do all other steps: a new document waits to be reviewed.
LEMMA OthersGoOn ==
  ASSUME OfflineInv, RejectionsAreDeserved, UNCHANGED reads,
         Api \/ UNCHANGED <<reqStatus, docStatus>>
  PROVE  FileGoesOn
<1>1. CASE UNCHANGED <<reqStatus, docStatus>>
  BY <1>1 DEF FileGoesOn, RejectionsAreDeserved
<1>2. ASSUME NEW c \in Cases, NEW d \in Docs, AddDocument(c, d)
      PROVE  FileGoesOn
  BY <1>2
  DEF AddDocument, FileGoesOn, RejectionsAreDeserved, OfflineInv, TypeInv, TypeOK, CaseFileTypeOK
<1>3. CASE Api /\ ~\E c \in Cases, d \in Docs : AddDocument(c, d)
  <2>1. UNCHANGED <<reqStatus, docStatus>>
    BY <1>3 DEF Api, CreateCase, StartReview, Enqueue, caseFile
  <2> QED
    BY <1>1, <2>1
<1> QED
  BY <1>1, <1>2, <1>3

\* A plan is as AdviceInv says, what a worker has seen is, and the rows are.
PlanSound(w) ==
    pc[w] = "persist" =>
        /\ \A draft \in result[w].plan : draft.kind = "reject_document" => ReadsBadly(draft.doc)
        /\ \A draft \in result[w].plan, q \in Reqs :
              draft.kind = "change_case_status" => LeadsTo(result[w].plan, runCase[task[w]], q)
SeenSound(w) ==
    /\ seenReqs[w] = UnreadReqs \/ (pc[w] = "review" /\ seenReqs[w] \in [Reqs -> ReqStatus])
    /\ pc[w] = "review" =>
          /\ \A d \in Docs :
                /\ snapshot[w].prior[d] # NoExtraction => snapshot[w].docs[d] = "accepted"
                /\ snapshot[w].docs[d] = "accepted" => docStatus[d] = "accepted"
          /\ \A q \in Reqs :
                seenReqs[w][q] = "satisfied" => reqStatus[runCase[task[w]]][q] = "satisfied"
RowsSound ==
    /\ \A a \in DOMAIN actions : a.kind = "reject_document" => ReadsBadly(a.doc)
    /\ \A a \in DOMAIN actions, q \in Reqs :
          a.kind = "change_case_status" => LeadsTo(RowsOf(a.run), a.case, q)

\* AdviceInv is made of these.
LEMMA AdviceParts ==
  /\ AdviceInv => /\ \A w \in Workers : PlanSound(w) /\ SeenSound(w)
                  /\ RowsSound /\ RowsSettled
  /\ FileGoesOn /\ (\A w \in Workers : PlanSound(w)' /\ SeenSound(w)') /\ RowsSound' /\ RowsSettled'
        => AdviceInv'
BY DEF AdviceInv, RejectionsAreDeserved, SeenStays, AdviceLeads, PlanSound, SeenSound, RowsSound,
       FileGoesOn, ReadsBadly

\* A worker that goes on with the snapshot or the plan it had.
LEMMA WorkerGoesOn ==
  ASSUME OfflineInv, AdviceInv, FileGoesOn, RunsGoOn, NEW w \in Workers, HandsOn(w)
  PROVE  PlanSound(w)' /\ SeenSound(w)'
<1>1. PlanSound(w) /\ SeenSound(w)
  BY AdviceParts
<1>2. pc[w] # "idle" => /\ task[w] \in RunsIn(RunStatus)
                        /\ runCase[task[w]] \in Cases /\ runCase'[task[w]] = runCase[task[w]]
  BY DEF OfflineInv, TypeInv, RunsExist, RunsGoOn
<1>3. ASSUME pc'[w] = "persist"
      PROVE  PlanSound(w)'
  <2>1. /\ pc[w] = "persist" /\ task'[w] = task[w] /\ result'[w] = result[w]
        /\ runCase[task[w]] \in Cases /\ runCase'[task[w]] = runCase[task[w]]
    BY <1>2, <1>3 DEF HandsOn
  <2>2. \A draft \in result'[w].plan :
           draft.kind = "reject_document" => ReadsBadly(draft.doc)'
    BY <1>1, <2>1 DEF PlanSound, ReadsBadly, FileGoesOn
  <2>3. \A m \in result[w].plan : m.kind = "mark_requirement_satisfied" =>
                                     m.doc \in Docs /\ <<m.req, reads[m.doc]>> \in Passing
    BY <2>1 DEF OfflineInv, TypeInv, WellFormed, DraftShape, TrueToReading
  <2>4. ASSUME NEW draft \in result[w].plan, NEW q \in Reqs, draft.kind = "change_case_status"
        PROVE  LeadsTo(result[w].plan, runCase[task[w]], q)'
    <3>1. LeadsTo(result[w].plan, runCase[task[w]], q)
      BY <1>1, <2>1, <2>4 DEF PlanSound
    <3>2. LeadsNext(result[w].plan, runCase[task[w]], q)
      BY <2>1, <2>3, <3>1, LeadsOn
    <3> QED
      BY <2>1, <3>2 DEF LeadsTo, LeadsNext
  <2> QED
    BY <2>1, <2>2, <2>4 DEF PlanSound
<1>4. ASSUME pc'[w] = "review"
      PROVE  SeenSound(w)'
  <2>1. /\ pc[w] = "review" /\ task'[w] = task[w] /\ snapshot'[w] = snapshot[w]
        /\ seenReqs'[w] = seenReqs[w]
        /\ runCase[task[w]] \in Cases /\ runCase'[task[w]] = runCase[task[w]]
    BY <1>2, <1>4 DEF HandsOn
  <2> QED
    BY <1>1, <1>4, <2>1 DEF SeenSound, FileGoesOn, UnreadReqs
<1> QED
  BY <1>3, <1>4 DEF HandsOn, PlanSound, SeenSound, UnreadReqs

\* The rows that stay say what they said.
LEMMA RowsGoOn ==
  ASSUME OfflineInv, AdviceInv, FileGoesOn, DOMAIN actions' = DOMAIN actions
  PROVE  RowsSound'
<1>1. \A m \in DOMAIN actions : m.kind = "mark_requirement_satisfied" =>
                                   m.doc \in Docs /\ <<m.req, reads[m.doc]>> \in Passing
  BY DEF OfflineInv, TypeInv, WellFormed, RowShape, TrueToReading
<1>2. ASSUME NEW a \in DOMAIN actions, NEW q \in Reqs, a.kind = "change_case_status"
      PROVE  LeadsTo(RowsOf(a.run), a.case, q)'
  <2>1. LeadsTo(RowsOf(a.run), a.case, q)
    BY <1>2, AdviceParts DEF RowsSound
  <2>2. a.case \in Cases
    BY DEF OfflineInv, TypeInv, TypeOK, ReviewsTypeOK, Row
  <2>3. RowsOf(a.run)' = RowsOf(a.run) /\ RowsOf(a.run) \subseteq DOMAIN actions
    BY DEF RowsOf
  <2>4. LeadsNext(RowsOf(a.run), a.case, q)
    BY <1>1, <2>1, <2>2, <2>3, LeadsOn
  <2> QED
    BY <2>3, <2>4 DEF LeadsTo, LeadsNext
<1>3. \A a \in DOMAIN actions : a.kind = "reject_document" => ReadsBadly(a.doc)'
  BY AdviceParts DEF RowsSound, ReadsBadly, FileGoesOn
<1> QED
  BY <1>2, <1>3 DEF RowsSound

\* Outside a review, and outside the queries that start one, no worker gets a
\* snapshot or a plan.
LEMMA AllHandsOn ==
  ASSUME OfflineInv, SeenStays, Forget,
         \/ OtherStep
         \/ \E w \in Workers : ReviewFails(w)
  PROVE  RunsGoOn /\ \A w \in Workers : HandsOn(w)
<1> USE DEF OfflineInv, TypeInv, TypeOK, ProcessTypeOK
<1>1. ASSUME /\ \A w \in Workers :
                   /\ pc'[w] = "review" => /\ pc[w] = "review" /\ task'[w] = task[w]
                                           /\ snapshot'[w] = snapshot[w]
                   /\ pc'[w] = "persist" => /\ pc[w] = "persist" /\ task'[w] = task[w]
                                            /\ result'[w] = result[w]
                   /\ pc'[w] = "load" => pc[w] # "review"
      PROVE  \A w \in Workers : HandsOn(w)
  BY <1>1 DEF Forget, SeenStays, HandsOn, UnreadReqs
<1>2. CASE Api
  <2>1. RunsGoOn
    BY <1>2, CaseReviewAssumption
    DEF Api, CreateCase, AddDocument, StartReview, Enqueue, reviews, RunsGoOn, RunsIn, FreshRun,
        ReviewsTypeOK, RunStatus
  <2> QED
    BY <1>1, <1>2, <2>1
    DEF Api, CreateCase, AddDocument, StartReview, Enqueue, process, SeenStays
<1>3. ASSUME NEW w \in Workers, NEW r \in Runs, Deliver(w, r)
      PROVE  RunsGoOn /\ \A v \in Workers : HandsOn(v)
  BY <1>1, <1>3 DEF Deliver, reviews, RunsGoOn, RunsIn
<1>4. ASSUME NEW w \in Workers,
             Claim(w) \/ SkipClaimed(w) \/ PersistResult(w) \/ RecordFailure(w) \/ AuditFailure(w)
                \/ ReviewFails(w)
      PROVE  RunsGoOn /\ \A v \in Workers : HandsOn(v)
  <2>1. pc[w] # "idle"
    BY <1>4 DEF Claim, SkipClaimed, PersistResult, RecordFailure, AuditFailure, ReviewFails
  <2>2. task[w] \in Runs
    BY <2>1 DEF RunsExist, RunsIn
  <2>3. RunsGoOn
    BY <1>4, <2>2
    DEF Claim, Claimable, SkipClaimed, PersistResult, RecordFailure, AuditFailure, ReviewFails,
        reviews, RunsGoOn, RunsIn, ReviewsTypeOK, RunInv, SingleExecutor, Executing
  <2> QED
    BY <1>1, <1>4, <2>3
    DEF Claim, SkipClaimed, PersistResult, RecordFailure, AuditFailure, ReviewFails, Finish
<1>5. CASE Human
  <2>1. UNCHANGED <<runStatus, runCase, process>>
    BY <1>5
    DEF Human, ApproveAccept, ApproveRejectDocument, ApproveMark, ApproveCaseStatus,
        ApproveNoStateChange, Reject, Approve
  <2> QED
    BY <1>1, <2>1 DEF process, RunsGoOn, RunsIn
<1>6. CASE Failure
  BY <1>1, <1>6
  DEF Failure, EnqueueFails, DatabaseError, Crash, Redeliver, Finish, reviews, RunsGoOn, RunsIn
<1> QED
  BY <1>2, <1>3, <1>4, <1>5, <1>6 DEF OtherStep

\* A step without decisions and new rows settles nothing.
LEMMA SettledGoesOn ==
  ASSUME OfflineInv, AdviceInv, FileGoesOn, RunsGoOn, UNCHANGED actions
  PROVE  RowsSettled'
<1>1. \A a \in DOMAIN actions : a.case \in Cases /\ RowShape(a)
  BY DEF OfflineInv, TypeInv, TypeOK, ReviewsTypeOK, WellFormed, Row
<1>2. \A r \in Runs : runStatus[r] = "succeeded" =>
                         runStatus'[r] = "succeeded" /\ runCase'[r] = runCase[r]
  BY DEF RunsGoOn, RunsIn, RunStatus
<1> QED
  BY <1>1, <1>2, AdviceParts DEF RowsSettled, RowShape, FileGoesOn

\* A decision is carried out with the status of its row.
LEMMA HumanSettles ==
  ASSUME OfflineInv, AdviceInv, FileGoesOn, RunsGoOn, Human
  PROVE  RowsSettled'
<1>1. PICK a \in Pending :
         \/ ApproveAccept(a)
         \/ ApproveRejectDocument(a)
         \/ ApproveMark(a)
         \/ ApproveCaseStatus(a)
         \/ ApproveNoStateChange(a)
         \/ Reject(a)
  BY DEF Human
<1>2. /\ a \in DOMAIN actions /\ a.case \in Cases /\ RowShape(a)
      /\ \A b \in DOMAIN actions : b.case \in Cases /\ RowShape(b)
  BY DEF Pending, OfflineInv, TypeInv, TypeOK, ReviewsTypeOK, WellFormed, Row
<1>3. \A r \in Runs : runStatus[r] = "succeeded" =>
                         runStatus'[r] = "succeeded" /\ runCase'[r] = runCase[r]
  BY DEF RunsGoOn, RunsIn, RunStatus
<1>4. PICK status \in {"approved", "rejected"} : Decide(a, status)
  BY <1>1
  DEF ApproveAccept, ApproveRejectDocument, ApproveMark, ApproveCaseStatus, ApproveNoStateChange,
      Reject, Approve
<1>5. /\ DOMAIN actions' = DOMAIN actions /\ actions'[a] = status
      /\ \A b \in DOMAIN actions : b # a => actions'[b] = actions[b]
  BY <1>2, <1>4 DEF Decide, OfflineInv, TypeInv, TypeOK, ReviewsTypeOK
<1>6. status = "approved" /\ a.kind = "accept_document" => docStatus'[a.doc] = "accepted"
  BY <1>1, <1>2, <1>5
  DEF ApproveAccept, ApproveRejectDocument, ApproveMark, ApproveCaseStatus, ApproveNoStateChange,
      Reject, Decide, RowShape, OfflineInv, TypeInv, TypeOK, CaseFileTypeOK
<1>7. status = "approved" /\ a.kind = "mark_requirement_satisfied" =>
         reqStatus'[a.case][a.req] = "satisfied"
  BY <1>1, <1>2, <1>5
  DEF ApproveAccept, ApproveRejectDocument, ApproveMark, ApproveCaseStatus, ApproveNoStateChange,
      Reject, Decide, RowShape, OfflineInv, TypeInv, TypeOK, CaseFileTypeOK
<1>8. ASSUME NEW b \in DOMAIN actions, b # a
      PROVE  /\ actions[b] = "approved" /\ b.kind = "accept_document" =>
                    docStatus'[b.doc] = "accepted"
             /\ actions[b] = "approved" /\ b.kind = "mark_requirement_satisfied" =>
                    reqStatus'[b.case][b.req] = "satisfied"
             /\ actions[b] = "superseded" =>
                    \E r \in Runs : runCase'[r] = b.case /\ runStatus'[r] = "succeeded" /\ b.run < r
  BY <1>2, <1>3, AdviceParts DEF RowsSettled, RowShape, FileGoesOn
<1> QED
  BY <1>4, <1>5, <1>6, <1>7, <1>8 DEF RowsSettled

\* The snapshot is taken of what is accepted then, before the checklist is read.
LEMMA SnapshotAdvice ==
  ASSUME OfflineInv, AdviceInv, NEW w \in Workers, ReadDocuments(w)
  PROVE  AdviceInv'
<1> DEFINE docs  == DocumentsOf(runCase[task[w]])
           prior == PriorOf(runCase[task[w]])
<1>1. /\ pc[w] = "load"
      /\ snapshot' = [snapshot EXCEPT ![w] = [docs |-> docs, prior |-> prior]]
      /\ pc' = [pc EXCEPT ![w] = "review"]
      /\ UNCHANGED <<caseFile, runStatus, runCase, actions, task, result, reads, seenReqs>>
  BY DEF ReadDocuments, BuildSnapshot, reviews, seen
<1>2. FileGoesOn /\ RunsGoOn
  BY <1>1, OthersGoOn DEF AdviceInv, caseFile, RunsGoOn, RunsIn
<1>3. \A d \in Docs : /\ prior[d] # NoExtraction => docs[d] = "accepted"
                      /\ docs[d] = "accepted" => docStatus[d] = "accepted"
  BY DEF PriorOf, DocumentsOf
<1> HIDE DEF docs, prior
<1>4. seenReqs[w] = UnreadReqs
  BY <1>1 DEF AdviceInv, SeenStays
<1>5. pc'[w] = "review" /\ snapshot'[w].docs = docs /\ snapshot'[w].prior = prior
  BY <1>1 DEF OfflineInv, TypeInv, TypeOK, ProcessTypeOK
<1>6. PlanSound(w)' /\ SeenSound(w)'
  BY <1>1, <1>3, <1>4, <1>5 DEF PlanSound, SeenSound, UnreadReqs, caseFile
<1>7. ASSUME NEW v \in Workers, v # w
      PROVE  PlanSound(v)' /\ SeenSound(v)'
  <2>1. HandsOn(v)
    BY <1>1, <1>7 DEF HandsOn, AdviceInv, SeenStays, OfflineInv, TypeInv, TypeOK, ProcessTypeOK
  <2> QED
    BY <1>2, <2>1, WorkerGoesOn
<1>8. RowsSound' /\ RowsSettled'
  BY <1>1, <1>2, RowsGoOn, SettledGoesOn
<1> QED
  BY <1>2, <1>6, <1>7, <1>8, AdviceParts

\* The checklist is read of what is satisfied then.
LEMMA ChecklistAdvice ==
  ASSUME OfflineInv, AdviceInv, NEW w \in Workers, ReadChecklist(w)
  PROVE  AdviceInv'
<1>1. /\ pc[w] = "review"
      /\ seenReqs' = [seenReqs EXCEPT ![w] = reqStatus[runCase[task[w]]]]
      /\ UNCHANGED <<caseFile, runStatus, runCase, actions, pc, task, snapshot, result, reads>>
  BY DEF ReadChecklist, vars, reviews, process
<1>2. FileGoesOn /\ RunsGoOn
  BY <1>1, OthersGoOn DEF AdviceInv, caseFile, RunsGoOn, RunsIn
<1>3. /\ reqStatus[runCase[task[w]]] \in [Reqs -> ReqStatus]
      /\ seenReqs'[w] = reqStatus[runCase[task[w]]]
      /\ \A v \in Workers : v # w => seenReqs'[v] = seenReqs[v]
  BY <1>1 DEF OfflineInv, TypeInv, RunsExist, TypeOK, CaseFileTypeOK, OfflineTypeOK
<1>4. PlanSound(w)' /\ SeenSound(w)'
  BY <1>1, <1>3, AdviceParts DEF PlanSound, SeenSound, caseFile
<1>5. ASSUME NEW v \in Workers, v # w
      PROVE  PlanSound(v)' /\ SeenSound(v)'
  <2>1. HandsOn(v)
    BY <1>1, <1>3, <1>5 DEF HandsOn, AdviceInv, SeenStays
  <2> QED
    BY <1>2, <2>1, WorkerGoesOn
<1>6. RowsSound' /\ RowsSettled'
  BY <1>1, <1>2, RowsGoOn, SettledGoesOn
<1> QED
  BY <1>2, <1>4, <1>5, <1>6, AdviceParts

\* A document listed as failing reads badly for every requirement: its type
\* serves none but the one it failed.
LEMMA FailingReadsBadly ==
  ASSUME NEW extracted, NEW unreviewed, NEW d, NEW q \in Reqs,
         d \in Listed(MockEvaluation(extracted, unreviewed), "not_satisfied")
  PROVE  <<q, extracted[d]>> \notin Passing
<1> SUFFICES ASSUME <<q, extracted[d]>> \in Passing
             PROVE  FALSE
  OBVIOUS
<1>1. PICK r \in Reqs : d \in Candidates(r, extracted) /\ PassingFor(r, extracted) = {}
  BY ListedFailing
<1>2. TypeOf[extracted[d]] \in AcceptedTypes[q]
  BY MockAssumption
<1>3. TypeOf[extracted[d]] \in AcceptedTypes[r]
  BY <1>1 DEF Candidates
<1>4. q = r
  BY <1>2, <1>3, MockAssumption
<1> QED
  BY <1>1, <1>4 DEF PassingFor

\* A plan marks a requirement for a document that passes, and accepts that
\* document if it is still to be reviewed.
MarkedIn(plan, pending, extracted, q) ==
    \E m \in plan :
        /\ m.kind = "mark_requirement_satisfied" /\ m.req = q
        /\ m.doc \in Docs /\ extracted[m.doc] # NoExtraction
        /\ <<q, extracted[m.doc]>> \in Passing
        /\ m.doc \in pending => \E x \in plan : x.kind = "accept_document" /\ x.doc = m.doc

\* So does the offline provider's with every open requirement, if it evaluates
\* all as satisfied.
LEMMA MarksFollow ==
  ASSUME NEW extracted, NEW unreviewed, NEW pending, NEW open, NEW status, NEW q \in Reqs \cap open,
         AllEvaluatedSatisfied(MockEvaluation(extracted, unreviewed))
  PROVE  MarkedIn(MockPlan(MockEvaluation(extracted, unreviewed), unreviewed, pending, open, status),
                  pending, extracted, q)
<1> DEFINE evaluation == MockEvaluation(extracted, unreviewed)
           plan == MockPlan(evaluation, unreviewed, pending, open, status)
           e == MockEntry(q, extracted, unreviewed)
           d == First(e.docs)
           m == Suggest("mark_requirement_satisfied", d, q)
           x == Suggest("accept_document", d, NoReq)
<1>1. e \in evaluation /\ e.status = "satisfied"
  BY DEF MockEvaluation, AllEvaluatedSatisfied
<1>2. e.req = q /\ e.docs = PassingFor(q, extracted) /\ e.docs # {}
  BY <1>1, EntryOf
<1>3. d \in PassingFor(q, extracted)
  BY <1>2, FirstOf DEF PassingFor, Candidates
<1>4. d \in Docs /\ extracted[d] # NoExtraction /\ <<q, extracted[d]>> \in Passing
  BY <1>3 DEF PassingFor, Candidates
<1>5. m.kind = "mark_requirement_satisfied" /\ m.req = q /\ m.doc = d
  BY DEF Suggest
<1>6. x.kind = "accept_document" /\ x.doc = d
  BY DEF Suggest
<1>7. d \in Listed(evaluation, "satisfied")
  BY <1>1, <1>2, <1>3 DEF Listed, Evaluated
<1> HIDE DEF evaluation, e
<1>8. m \in plan
  <2>1. m \in Marks(evaluation, pending, open)
    BY <1>1, <1>2 DEF Marks, Evaluated
  <2> QED
    BY <2>1 DEF MockPlan
<1> HIDE DEF d
<1>9. d \in pending => x \in plan
  BY <1>7 DEF MockPlan, Decisions
<1> HIDE DEF plan, m, x
<1>10. MarkedIn(plan, pending, extracted, q)
  BY <1>4, <1>5, <1>6, <1>8, <1>9 DEF MarkedIn
<1> QED
  BY <1>10 DEF plan, evaluation

\* What a review advises leads there, whatever was decided while it ran.
LEMMA PlanLeads ==
  ASSUME OfflineInv, AdviceInv, NEW w \in Workers, ReadyToAnswer(w)
  PROVE  /\ \A draft \in PlanOf(w) : draft.kind = "reject_document" => ReadsBadly(draft.doc)
         /\ \A draft \in PlanOf(w), q \in Reqs :
               draft.kind = "change_case_status" => LeadsTo(PlanOf(w), runCase[task[w]], q)
<1>1. pc[w] = "review" /\ SeenSound(w) /\ seenReqs[w] \in [Reqs -> ReqStatus]
  BY AdviceParts DEF ReadyToAnswer, SeenSound
<1>2. \A a \in PlanOf(w) : Shape(a, EvaluationOf(w), UnreviewedOf(w), Dispatched(w))
  BY Suggested DEF PlanOf, EvaluationOf
<1>3. AsRead(ExtractedOf(w))
  BY <1>1, SnapshotFacts
<1>4. ASSUME NEW draft \in PlanOf(w), draft.kind = "reject_document"
      PROVE  ReadsBadly(draft.doc)
  <2>1. draft.doc \in Listed(EvaluationOf(w), "not_satisfied")
    BY <1>2, <1>4 DEF Shape
  <2>2. draft.doc \in Docs /\ ExtractedOf(w)[draft.doc] # NoExtraction
    BY <2>1, ListedFailing DEF EvaluationOf
  <2>3. ExtractedOf(w)[draft.doc] = reads[draft.doc]
    BY <1>3, <2>2 DEF AsRead
  <2> QED
    BY <2>1, <2>3, FailingReadsBadly DEF EvaluationOf, ReadsBadly
<1>5. ASSUME NEW draft \in PlanOf(w), NEW q \in Reqs, draft.kind = "change_case_status"
      PROVE  LeadsTo(PlanOf(w), runCase[task[w]], q)
  <2>1. AllEvaluatedSatisfied(EvaluationOf(w))
    BY <1>2, <1>5 DEF Shape
  <2>2. CASE seenReqs[w][q] = "satisfied"
    BY <1>1, <2>2 DEF SeenSound, LeadsTo
  <2>3. CASE seenReqs[w][q] = "open"
    <3>1. q \in Reqs \cap {p \in Reqs : seenReqs[w][p] = "open"}
      BY <2>3
    <3>2. PICK m \in PlanOf(w) :
             /\ m.kind = "mark_requirement_satisfied" /\ m.req = q
             /\ m.doc \in Docs /\ ExtractedOf(w)[m.doc] # NoExtraction
             /\ <<q, ExtractedOf(w)[m.doc]>> \in Passing
             /\ m.doc \in Dispatched(w) =>
                   \E x \in PlanOf(w) : x.kind = "accept_document" /\ x.doc = m.doc
      <4>1. MarkedIn(PlanOf(w), Dispatched(w), ExtractedOf(w), q)
        BY <2>1, <3>1, MarksFollow DEF PlanOf, EvaluationOf
      <4> QED
        BY <4>1 DEF MarkedIn
    <3>3. ~ReadsBadly(m.doc)
      BY <1>3, <3>2 DEF AsRead, ReadsBadly
    <3>4. docStatus[m.doc] \in {"pending_review", "accepted"}
      <4>1. snapshot[w].docs[m.doc] # "absent"
        BY <1>1, <3>2, SnapshotFacts
      <4>2. docCase[m.doc] \in Cases
        BY <1>1, <3>2, <4>1 DEF OfflineInv, FileInv, WorkStaysInCase, TypeInv, RunsExist
      <4>3. docStatus[m.doc] # "absent"
        BY <3>2, <4>2, CaseReviewAssumption DEF OfflineInv, FileInv, DocumentsFilled
      <4>4. docStatus[m.doc] # "rejected"
        BY <3>2, <3>3 DEF AdviceInv, RejectionsAreDeserved
      <4> QED
        BY <3>2, <4>3, <4>4 DEF OfflineInv, TypeInv, TypeOK, CaseFileTypeOK, DocStatus
    <3>5. m.doc \in Dispatched(w) \/ docStatus[m.doc] = "accepted"
      <4>1. CASE NewOf(w)[m.doc] # NoExtraction
        BY <3>2, <4>1 DEF NewOf
      <4>2. CASE NewOf(w)[m.doc] = NoExtraction
        <5>1. snapshot[w].prior[m.doc] # NoExtraction
          BY <3>2, <4>2 DEF ExtractedOf, AllExtractions
        <5> QED
          BY <1>1, <3>2, <5>1 DEF SeenSound
      <4> QED
        BY <4>1, <4>2
    <3> QED
      BY <3>2, <3>4, <3>5 DEF LeadsTo
  <2> QED
    BY <1>1, <2>2, <2>3 DEF ReqStatus
<1> QED
  BY <1>4, <1>5

\* The provider's answer keeps the invariant.
LEMMA MockReviewsAdvice ==
  ASSUME OfflineInv, AdviceInv, NEW w \in Workers, MockReviews(w)
  PROVE  AdviceInv'
<1>1. /\ pc[w] = "review"
      /\ result' = [result EXCEPT ![w] = [extractions |-> NewOf(w), plan |-> PlanOf(w)]]
      /\ snapshot' = [snapshot EXCEPT ![w] = NoSnapshot]
      /\ pc' = [pc EXCEPT ![w] = "persist"]
      /\ Forget
      /\ UNCHANGED <<caseFile, runStatus, runCase, actions, task, reads>>
  BY DEF MockReviews, ReadyToAnswer, reviews
<1>2. FileGoesOn /\ RunsGoOn
  BY <1>1, OthersGoOn DEF AdviceInv, caseFile, RunsGoOn, RunsIn
<1>3. /\ pc'[w] = "persist" /\ result'[w].plan = PlanOf(w)
      /\ \A v \in Workers : v # w => /\ pc'[v] = pc[v] /\ result'[v] = result[v]
                                     /\ snapshot'[v] = snapshot[v]
  BY <1>1 DEF OfflineInv, TypeInv, TypeOK, ProcessTypeOK
<1>4. PlanSound(w)' /\ SeenSound(w)'
  <2>1. seenReqs'[w] = UnreadReqs
    BY <1>1, <1>3 DEF Forget
  <2>2. /\ \A draft \in PlanOf(w) : draft.kind = "reject_document" => ReadsBadly(draft.doc)
        /\ \A draft \in PlanOf(w), q \in Reqs :
               draft.kind = "change_case_status" => LeadsTo(PlanOf(w), runCase[task[w]], q)
    BY PlanLeads DEF MockReviews
  <2>3. SeenSound(w)'
    BY <1>3, <2>1 DEF SeenSound, UnreadReqs
  <2>4. PlanSound(w)'
    <3> DEFINE plan == PlanOf(w)
    <3>1. result'[w].plan = plan
      BY <1>3
    <3>2. /\ \A draft \in plan : draft.kind = "reject_document" => ReadsBadly(draft.doc)
          /\ \A draft \in plan, q \in Reqs :
               draft.kind = "change_case_status" => LeadsTo(plan, runCase[task[w]], q)
      BY <2>2
    <3> HIDE DEF plan
    <3> QED
      BY <1>1, <3>1, <3>2 DEF PlanSound, ReadsBadly, LeadsTo, caseFile
  <2> QED
    BY <2>3, <2>4
<1>5. ASSUME NEW v \in Workers, v # w
      PROVE  PlanSound(v)' /\ SeenSound(v)'
  <2>1. HandsOn(v)
    BY <1>1, <1>3, <1>5 DEF HandsOn, Forget, AdviceInv, SeenStays
  <2> QED
    BY <1>2, <2>1, WorkerGoesOn
<1>6. RowsSound' /\ RowsSettled'
  BY <1>1, <1>2, RowsGoOn, SettledGoesOn
<1> QED
  BY <1>2, <1>4, <1>5, <1>6, AdviceParts

\* The rows of a review say what its plan says; the rows they supersede are older.
LEMMA PersistAdvice ==
  ASSUME OfflineInv, AdviceInv, NEW w \in Workers, PersistResult(w), Forget, UNCHANGED reads
  PROVE  AdviceInv'
<1> DEFINE r   == task[w]
           new == NewRows(r, result[w].plan, result[w].extractions)
<1>1. /\ pc[w] = "persist"
      /\ DOMAIN actions' = DOMAIN actions \cup new
      /\ \A a \in DOMAIN actions' :
            actions'[a] = IF a \notin DOMAIN actions THEN "pending"
                          ELSE IF Supersedes(r, a) THEN "superseded" ELSE actions[a]
      /\ runStatus' = [runStatus EXCEPT ![r] = "succeeded"]
      /\ UNCHANGED <<caseFile, runCase>>
  BY DEF PersistResult
<1>2. FileGoesOn
  BY <1>1, OthersGoOn DEF AdviceInv, caseFile
<1>3. RunsGoOn /\ \A v \in Workers : HandsOn(v)
  <2>1. OtherStep /\ SeenStays
    BY DEF OtherStep, AdviceInv
  <2> QED
    BY <2>1, AllHandsOn
<1>4. \A v \in Workers : PlanSound(v)' /\ SeenSound(v)'
  BY <1>2, <1>3, WorkerGoesOn
<1>5. /\ r \in Runs /\ runStatus[r] = "running" /\ runCase[r] \in Cases
      /\ \A a \in DOMAIN actions : a.run # r
  BY <1>1
  DEF OfflineInv, TypeInv, RunsExist, RunsIn, RunInv, SingleExecutor, Executing,
      NothingProposedUnlessCompleted
<1>6. \A a \in new : \E draft \in result[w].plan :
         /\ a.kind = draft.kind /\ a.doc = draft.doc /\ a.req = draft.req
         /\ a.run = r /\ a.case = runCase[r]
  BY <1>1, PlanIsFound DEF OfflineInv, NewRows, NewRow
<1>7. ASSUME NEW draft \in result[w].plan
      PROVE  \E a \in new : a.kind = draft.kind /\ a.doc = draft.doc /\ a.req = draft.req
  <2> DEFINE a == NewRow(r, draft, result[w].extractions)
  <2>1. a \in new
    BY DEF NewRows
  <2>2. a.kind = draft.kind /\ a.doc = draft.doc /\ a.req = draft.req
    BY <1>1, PlanIsFound DEF OfflineInv, NewRow
  <2> QED
    BY <2>1, <2>2
<1> HIDE DEF r, new
<1>8. \A a \in DOMAIN actions : a.case \in Cases /\ a.run \in Runs /\ RowShape(a)
  BY DEF OfflineInv, TypeInv, TypeOK, ReviewsTypeOK, WellFormed, Row
<1>9. \A a \in DOMAIN actions' : a.kind = "reject_document" => ReadsBadly(a.doc)'
  <2>1. \A a \in DOMAIN actions' : a.kind = "reject_document" => ReadsBadly(a.doc)
    BY <1>1, <1>6 DEF AdviceInv, RejectionsAreDeserved
  <2> QED
    BY <2>1 DEF ReadsBadly
<1>10. ASSUME NEW a \in DOMAIN actions', NEW q \in Reqs, a.kind = "change_case_status"
       PROVE  LeadsTo(RowsOf(a.run), a.case, q)'
  <2> DEFINE rows == {b \in DOMAIN actions' : b.run = a.run}
  <2>1. LeadsNext(rows, a.case, q)
    <3>1. CASE a \in DOMAIN actions
      <4>1. LeadsTo(RowsOf(a.run), a.case, q)
        BY <1>10, <3>1, AdviceParts DEF RowsSound
      <4>2. \A m \in RowsOf(a.run) : m \in rows
        BY <1>1 DEF RowsOf
      <4>3. \A m \in RowsOf(a.run) : m.kind = "mark_requirement_satisfied" =>
                                       m.doc \in Docs /\ <<m.req, reads[m.doc]>> \in Passing
        BY <1>8 DEF RowsOf, RowShape, OfflineInv, TrueToReading
      <4> HIDE DEF rows
      <4> QED
        BY <1>2, <1>8, <3>1, <4>1, <4>2, <4>3, LeadsOn
    <3>2. CASE a \in new
      <4>1. PICK draft \in result[w].plan :
               draft.kind = "change_case_status" /\ a.run = r /\ a.case = runCase[r]
        BY <1>6, <1>10, <3>2
      <4>2. LeadsTo(result[w].plan, runCase[r], q)
        BY <1>1, <4>1, AdviceParts DEF PlanSound, r
      <4>3. \A m \in result[w].plan : \E n \in rows : n.kind = m.kind /\ n.doc = m.doc /\ n.req = m.req
        <5>1. new \subseteq rows
          BY <1>1, <1>6, <4>1
        <5> QED
          BY <1>7, <5>1
      <4>4. \A m \in result[w].plan : m.kind = "mark_requirement_satisfied" =>
                                       m.doc \in Docs /\ <<m.req, reads[m.doc]>> \in Passing
        BY <1>1 DEF OfflineInv, TypeInv, WellFormed, DraftShape, TrueToReading
      <4> HIDE DEF rows
      <4> QED
        BY <1>2, <1>5, <4>1, <4>2, <4>3, <4>4, LeadsOn
    <3> QED
      BY <1>1, <3>1, <3>2
  <2> QED
    BY <2>1 DEF LeadsTo, LeadsNext, RowsOf
<1>11. RowsSettled'
  <2>1. ASSUME NEW a \in DOMAIN actions', a \notin DOMAIN actions
        PROVE  actions'[a] = "pending"
    BY <1>1, <2>1
  <2>2. ASSUME NEW a \in DOMAIN actions, Supersedes(r, a)
        PROVE  /\ actions'[a] = "superseded"
               /\ runCase'[r] = a.case /\ runStatus'[r] = "succeeded" /\ a.run < r
    <3>1. a.case = runCase[r] /\ actions'[a] = "superseded" /\ a.run # r
      BY <1>1, <2>2 DEF Supersedes
    <3>2. runStatus'[r] = "succeeded" /\ runCase' = runCase
      BY <1>1, <1>5 DEF OfflineInv, TypeInv, TypeOK, ReviewsTypeOK
    <3>3. a.run <= r
      BY <1>5, <1>8, <3>1
      DEF OfflineInv, RunInv, NothingProposedUnlessCompleted, RowsUnderTheirRun, ActiveIsNewest
    <3>4. a.run \in Nat /\ r \in Nat
      BY <1>5, <1>8, CaseReviewAssumption
    <3> QED
      BY <3>1, <3>2, <3>3, <3>4
  <2>3. ASSUME NEW a \in DOMAIN actions, ~Supersedes(r, a)
        PROVE  actions'[a] = actions[a]
    BY <1>1, <2>3
  <2>4. \A s \in Runs : runStatus[s] = "succeeded" =>
                           runStatus'[s] = "succeeded" /\ runCase'[s] = runCase[s]
    BY <1>3 DEF RunsGoOn, RunsIn, RunStatus
  <2>5. ASSUME NEW a \in DOMAIN actions'
        PROVE  /\ actions'[a] = "approved" /\ a.kind = "accept_document" =>
                      docStatus'[a.doc] = "accepted"
               /\ actions'[a] = "approved" /\ a.kind = "mark_requirement_satisfied" =>
                      reqStatus'[a.case][a.req] = "satisfied"
               /\ actions'[a] = "superseded" =>
                      \E s \in Runs : runCase'[s] = a.case /\ runStatus'[s] = "succeeded" /\ a.run < s
    <3>1. CASE a \notin DOMAIN actions
      BY <2>1, <3>1
    <3>2. CASE a \in DOMAIN actions /\ Supersedes(r, a)
      BY <1>5, <2>2, <3>2
    <3>3. CASE a \in DOMAIN actions /\ ~Supersedes(r, a)
      <4>1. actions'[a] = actions[a] /\ docStatus' = docStatus /\ reqStatus' = reqStatus
        BY <1>1, <2>3, <3>3 DEF caseFile
      <4> QED
        BY <2>4, <3>3, <4>1 DEF AdviceInv, RowsSettled
    <3> QED
      BY <3>1, <3>2, <3>3
  <2> QED
    BY <2>5 DEF RowsSettled
<1>12. RowsSound'
  BY <1>9, <1>10 DEF RowsSound
<1> QED
  BY <1>2, <1>4, <1>11, <1>12, AdviceParts

\* Every step keeps the invariant.
LEMMA NextAdvice ==
  ASSUME OfflineInv, AdviceInv, [OfflineNext]_offlineVars
  PROVE  AdviceInv'
<1>1. RejectionsAreDeserved /\ SeenStays
  BY DEF AdviceInv
<1>2. ASSUME FileGoesOn, RunsGoOn, \A w \in Workers : HandsOn(w), DOMAIN actions' = DOMAIN actions,
             RowsSettled'
      PROVE  AdviceInv'
  BY <1>2, WorkerGoesOn, RowsGoOn, AdviceParts
<1>3. CASE OtherStep /\ Forget /\ UNCHANGED reads
  <2>1. RunsGoOn /\ \A w \in Workers : HandsOn(w)
    BY <1>1, <1>3, AllHandsOn
  <2>2. ASSUME NEW w \in Workers, PersistResult(w)
        PROVE  AdviceInv'
    BY <1>3, <2>2, PersistAdvice
  <2>3. CASE Human
    <3>1. FileGoesOn
      BY <1>1, <1>3, <2>3, HumanGoesOn
    <3>2. DOMAIN actions' = DOMAIN actions
      BY <2>3
      DEF Human, ApproveAccept, ApproveRejectDocument, ApproveMark, ApproveCaseStatus,
          ApproveNoStateChange, Reject, Approve, Decide
    <3> QED
      BY <1>2, <2>1, <2>3, <3>1, <3>2, HumanSettles
  <2>4. CASE \/ Api
             \/ \E w \in Workers, r \in Runs : Deliver(w, r)
             \/ \E w \in Workers : Claim(w) \/ SkipClaimed(w) \/ RecordFailure(w) \/ AuditFailure(w)
             \/ Failure
    <3>1. UNCHANGED actions /\ (Api \/ UNCHANGED <<reqStatus, docStatus>>)
      BY <2>4
      DEF Api, CreateCase, AddDocument, StartReview, Enqueue, Deliver, Claim, SkipClaimed,
          RecordFailure, AuditFailure, Failure, EnqueueFails, DatabaseError, Crash, Redeliver,
          reviews, caseFile
    <3>2. FileGoesOn
      BY <1>1, <1>3, <3>1, OthersGoOn
    <3> QED
      BY <1>2, <2>1, <3>1, <3>2, SettledGoesOn
  <2> QED
    BY <1>3, <2>2, <2>3, <2>4 DEF OtherStep
<1>4. ASSUME NEW w \in Workers, ReviewStep(w)
      PROVE  AdviceInv'
  <2>1. CASE MockGivesUp(w)
    <3>1. /\ ReviewFails(w) /\ Forget /\ UNCHANGED <<reads, actions, reqStatus, docStatus>>
      BY <2>1 DEF MockGivesUp, ReviewFails, reviews, caseFile
    <3>2. FileGoesOn /\ RunsGoOn /\ \A v \in Workers : HandsOn(v)
      BY <1>1, <3>1, OthersGoOn, AllHandsOn
    <3> QED
      BY <1>2, <3>1, <3>2, SettledGoesOn
  <2>2. CASE ReadCase(w)
    <3>1. UNCHANGED <<vars, reads, seenReqs>>
      BY <2>2 DEF ReadCase
    <3> QED
      BY <3>1
      DEF vars, caseFile, reviews, process, AdviceInv, RejectionsAreDeserved, SeenStays,
          AdviceLeads, RowsSettled, LeadsTo, RowsOf, ReadsBadly
  <2> QED
    BY <1>4, <2>1, <2>2, SnapshotAdvice, ChecklistAdvice, MockReviewsAdvice DEF ReviewStep
<1>5. CASE UNCHANGED offlineVars
  BY <1>5
  DEF offlineVars, vars, seen, caseFile, reviews, process, AdviceInv, RejectionsAreDeserved,
      SeenStays, AdviceLeads, RowsSettled, LeadsTo, RowsOf, ReadsBadly
<1> QED
  BY <1>3, <1>4, <1>5 DEF OfflineNext

\* Both invariants hold in every reachable state.
LEMMA AdviceInductive == OfflineSpec => [](OfflineInv /\ AdviceInv)
<1>1. OfflineInit => AdviceInv
  BY DEF OfflineInit, Init, AdviceInv, RejectionsAreDeserved, SeenStays, AdviceLeads, RowsSettled,
         UnreadReqs
<1>2. OfflineInv /\ AdviceInv /\ [OfflineNext]_offlineVars => AdviceInv'
  BY NextAdvice
<1> QED
  BY <1>1, <1>2, OfflineInductive, PTL DEF OfflineSpec

-----------------------------------------------------------------------------
(* The theorems.                                                           *)

\* Every variable of the offline composition keeps its type.
THEOREM OfflineTypeCorrect == OfflineSpec => [](TypeOK /\ OfflineTypeOK)
<1>1. OfflineInv => TypeOK /\ OfflineTypeOK
  BY DEF OfflineInv, TypeInv
<1> QED
  BY <1>1, OfflineInductive, PTL

\* The contracts (pipeline.py) accept what mock.py answers, whatever was
\* decided between the queries of the snapshot, unless the plan is too long.
THEOREM OfflineAnswersAreValid == OfflineSpec => []AnswersAreValid
<1>1. OfflineInv => AnswersAreValid
  BY AnswersValid DEF AnswersAreValid, ReadyToAnswer
<1> QED
  BY <1>1, OfflineInductive, PTL

\* A plan of mock.py has at most an action per document to review and per
\* requirement, and one more: the limit of 20 (actions.py) is out of reach of a
\* case with few documents to review.
THEOREM PlansAreShort ==
  ASSUME IsFiniteSet(Docs), IsFiniteSet(Reqs)
  PROVE  OfflineSpec => []PlanLengthBounded
<1>1. ASSUME OfflineInv, NEW w \in Workers, pc[w] = "review"
      PROVE  Cardinality(PlanOf(w)) <= Cardinality(Dispatched(w)) + Cardinality(Reqs) + 1
  <2>1. /\ Dispatched(w) \in SUBSET Docs
        /\ UnreviewedOf(w) \in SUBSET Dispatched(w)
    BY DEF Dispatched, UnreviewedOf, ToReview
  <2>2. \A d \in UnreviewedOf(w) : ExtractedOf(w)[d] = NoExtraction
    BY <1>1, SnapshotFacts
  <2> QED
    BY <2>1, <2>2, MockPlanLength DEF PlanOf, EvaluationOf
<1>2. OfflineInv => PlanLengthBounded
  BY <1>1 DEF PlanLengthBounded, ReadyToAnswer
<1> QED
  BY <1>2, OfflineInductive, PTL

\* The suggestions a human can decide on never contradict each other about a
\* document: those of one review agree (mock.py), and no two reviews of a case
\* have suggestions to decide on at once (persist_result).
THEOREM OffersAgree == OfflineSpec => []NoContradictoryOffers
<1>1. ASSUME OfflineInv, NEW a \in Pending, NEW b \in Pending,
             a.kind = "accept_document", b.kind = "reject_document", a.doc = b.doc
      PROVE  FALSE
  <2>1. /\ a \in DOMAIN actions /\ b \in DOMAIN actions
        /\ a \in Row /\ b \in Row /\ RowShape(a)
    BY <1>1 DEF Pending, OfflineInv, TypeInv, TypeOK, ReviewsTypeOK, WellFormed
  <2>2. a.doc \in Docs /\ a.run \in Runs /\ b.run \in Runs
    BY <1>1, <2>1 DEF RowShape, Row
  <2>3. a.case = b.case
    BY <1>1, <2>1, <2>2, ContractsAssumption DEF OfflineInv, FileInv, TargetsOwnCase
  <2>4. /\ runCase[a.run] = a.case /\ runCase[b.run] = b.case
        /\ runStatus[a.run] = "succeeded" /\ runStatus[b.run] = "succeeded"
    BY <1>1, <2>1 DEF OfflineInv, RunInv, RowsUnderTheirRun, NothingProposedUnlessCompleted
  <2>5. a.run <= b.run /\ b.run <= a.run
    BY <1>1, <2>2, <2>3, <2>4 DEF OfflineInv, RunInv, OnlyLatestActionable
  <2>6. a.run = b.run
    <3>1. a.run \in Nat /\ b.run \in Nat
      BY <2>2, CaseReviewAssumption
    <3> QED
      BY <2>5, <3>1
  <2> QED
    BY <1>1, <2>1, <2>6 DEF OfflineInv, ReviewsAreConsistent, Contradicts
<1>2. OfflineInv => NoContradictoryOffers
  BY <1>1 DEF NoContradictoryOffers
<1> QED
  BY <1>2, OfflineInductive, PTL

\* The safety behind CompleteCaseBecomesReady: while a suggestion to submit is
\* open and nothing of its review was rejected, approving what is open satisfies
\* every requirement (mock.py marks what it read, persist_result keeps the
\* suggestions of one review open together).
THEOREM AdviceCanBeFollowed == OfflineSpec => []AdviceIsFollowable
<1>1. ASSUME OfflineInv, AdviceInv, NEW a \in Pending, a.kind = "change_case_status",
             \A b \in Rows("rejected") : b.run # a.run, NEW q \in Reqs
      PROVE  LeadsTo({b \in Pending : b.case = a.case}, a.case, q)
  <2>1. /\ a \in DOMAIN actions /\ a.run \in Runs
        /\ \A r \in Runs : runCase[r] = a.case /\ runStatus[r] = "succeeded" => r <= a.run
        /\ \A b \in DOMAIN actions : b.run = a.run => b.case = a.case
    <3>1. a \in DOMAIN actions /\ a.run \in Runs
      BY <1>1 DEF Pending, OfflineInv, TypeInv, TypeOK, ReviewsTypeOK, Row
    <3>2. \A r \in Runs : runCase[r] = a.case /\ runStatus[r] = "succeeded" => r <= a.run
      BY <1>1 DEF OfflineInv, RunInv, OnlyLatestActionable
    <3>3. \A b \in DOMAIN actions : b.run = a.run => b.case = a.case
      BY <1>1, <3>1 DEF OfflineInv, RunInv, RowsUnderTheirRun
    <3> QED
      BY <3>1, <3>2, <3>3
  <2>2. ASSUME NEW b \in RowsOf(a.run)
        PROVE  b \in Pending \/ actions[b] = "approved"
    <3>1. b \in DOMAIN actions /\ b.run = a.run /\ b.case = a.case
      BY <2>1 DEF RowsOf
    <3>2. actions[b] \in ActionStatus /\ actions[b] # "rejected"
      BY <1>1, <3>1 DEF OfflineInv, TypeInv, TypeOK, ReviewsTypeOK, Rows
    <3>3. ASSUME actions[b] = "superseded"
          PROVE  FALSE
      <4>1. PICK r \in Runs : runCase[r] = a.case /\ runStatus[r] = "succeeded" /\ a.run < r
        BY <1>1, <3>1, <3>3 DEF AdviceInv, RowsSettled
      <4>2. r <= a.run /\ r \in Nat /\ a.run \in Nat
        BY <2>1, <4>1, CaseReviewAssumption
      <4> QED
        BY <4>1, <4>2
    <3> QED
      BY <3>1, <3>2, <3>3 DEF ActionStatus, Pending
  <2>3. LeadsTo(RowsOf(a.run), a.case, q)
    BY <1>1, <2>1 DEF AdviceInv, AdviceLeads
  <2>4. CASE reqStatus[a.case][q] = "satisfied"
    BY <2>4 DEF LeadsTo
  <2>5. CASE reqStatus[a.case][q] # "satisfied"
    <3>1. PICK m \in RowsOf(a.run) :
             /\ m.kind = "mark_requirement_satisfied" /\ m.req = q
             /\ \/ docStatus[m.doc] = "accepted"
                \/ /\ docStatus[m.doc] = "pending_review"
                   /\ \E x \in RowsOf(a.run) : x.kind = "accept_document" /\ x.doc = m.doc
      BY <2>3, <2>5 DEF LeadsTo
    <3>2. m \in Pending /\ m.case = a.case
      BY <1>1, <2>1, <2>2, <2>5, <3>1 DEF RowsOf, AdviceInv, RowsSettled
    <3>3. CASE docStatus[m.doc] = "accepted"
      BY <3>1, <3>2, <3>3 DEF LeadsTo
    <3>4. CASE docStatus[m.doc] = "pending_review"
      <4>1. PICK x \in RowsOf(a.run) : x.kind = "accept_document" /\ x.doc = m.doc
        BY <3>1, <3>4
      <4>2. x \in Pending /\ x.case = a.case
        BY <1>1, <2>1, <2>2, <3>4, <4>1 DEF RowsOf, AdviceInv, RowsSettled
      <4> QED
        BY <3>1, <3>2, <3>4, <4>1, <4>2 DEF LeadsTo
    <3> QED
      BY <3>1, <3>3, <3>4
  <2> QED
    BY <2>4, <2>5
<1>2. OfflineInv /\ AdviceInv => AdviceIsFollowable
  BY <1>1 DEF AdviceIsFollowable
<1> QED
  BY <1>2, AdviceInductive, PTL

\* With this provider the extraction on record for a document that satisfies a
\* requirement passes the requirement's rules (approvals.py): it reads a
\* document the same in every review.
THEOREM OfflineEvidencePasses == OfflineSpec => []SatisfiedByPassingExtraction
<1>1. ASSUME OfflineInv, NEW c \in Cases, NEW q \in Reqs, reqStatus[c][q] = "satisfied"
      PROVE  <<q, docExtraction[satisfiedBy[c][q]]>> \in Passing
  <2>1. /\ satisfiedBy[c][q] \in Docs
        /\ docExtraction[satisfiedBy[c][q]] \in Extractions
    BY <1>1 DEF OfflineInv, FileInv, SatisfiedIsBacked
  <2>2. docExtraction[satisfiedBy[c][q]] = reads[satisfiedBy[c][q]]
    BY <1>1, <2>1, ContractsAssumption DEF OfflineInv, TrueToReading, AsRead
  <2>3. <<q, reads[satisfiedBy[c][q]]>> \in Passing
    BY <1>1 DEF OfflineInv, TrueToReading
  <2> QED
    BY <2>2, <2>3
<1>2. OfflineInv => SatisfiedByPassingExtraction
  BY <1>1 DEF SatisfiedByPassingExtraction
<1> QED
  BY <1>2, OfflineInductive, PTL

\* The offline composition implements CaseReview with every answer the
\* contracts allow: what is proved of CaseReview holds with this provider.
THEOREM OfflineIsAReview ==
  ASSUME Plans = SUBSET Draft, Evaluations = SUBSET Entry
  PROVE  OfflineSpec => Spec
<1>1. OfflineInit => Init
  BY DEF OfflineInit
<1>2. ASSUME OfflineInv, NEW w \in Workers, MockReviews(w)
      PROVE  ReviewSucceeds(w)
  <2>1. pc[w] = "review"
    BY <1>2 DEF MockReviews, ReadyToAnswer
  <2>2. NewOf(w) \in Reviewed(snapshot[w].docs)
    BY <1>2, <2>1, SnapshotFacts
  <2>3. PlanOf(w) \in PossiblePlans(snapshot[w].docs, AllExtractions(snapshot[w].prior, NewOf(w)))
    <3>1. PlanOf(w) \in Plans /\ EvaluationOf(w) \in Evaluations
      BY <1>2, <2>1, PlanFacts
    <3>2. /\ EvaluationValid(EvaluationOf(w), {d \in Docs : snapshot[w].docs[d] # "absent"},
                             PassingChecks(ExtractedOf(w)))
          /\ PlanValid(PlanOf(w), snapshot[w].docs, EvaluationOf(w), ExtractedOf(w))
      BY <1>2, <2>1, AnswersValid DEF MockReviews
    <3> QED
      BY <3>1, <3>2 DEF PossiblePlans, ExtractedOf
  <2> QED
    BY <1>2, <2>1, <2>2, <2>3 DEF MockReviews, ReviewSucceeds
<1>3. OfflineInv /\ [OfflineNext]_offlineVars => [Next]_vars
  <2> SUFFICES ASSUME OfflineInv, [OfflineNext]_offlineVars
               PROVE  [Next]_vars
    OBVIOUS
  <2>1. CASE \A w \in Workers : ~MockReviews(w)
    BY <2>1, OtherSteps
  <2>2. ASSUME NEW w \in Workers, MockReviews(w)
        PROVE  [Next]_vars
    BY <1>2, <2>2 DEF Next, Worker
  <2> QED
    BY <2>1, <2>2
<1> QED
  BY <1>1, <1>3, OfflineInductive, PTL DEF OfflineSpec, Spec
=============================================================================
