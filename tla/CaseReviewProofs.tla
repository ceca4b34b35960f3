-------------------------- MODULE CaseReviewProofs --------------------------
(***************************************************************************)
(* The safety properties of CaseReview, proved for every value of its      *)
(* constants that satisfies the assumptions of Contracts and CaseReview.   *)
(*                                                                         *)
(* IndInv has four layers, proved one on top of the other:                 *)
(*   TypeInv    types, and the shape of plans and rows                     *)
(*   RunInv     runs, the workers that execute them, and their rows        *)
(*   FileInv    the case file and what workers know of it                  *)
(*   LedgerInv  decisions and the audit log                                *)
(* There is one lemma per layer and action that can disturb the layer.     *)
(***************************************************************************)
EXTENDS CaseReview, FiniteSetTheorems, TLAPS

-----------------------------------------------------------------------------
\* Types.

\* A draft whose fields match its kind (_targets_match_kind) names the document,
\* the requirement and the status that its approval will use.
LEMMA DraftTargets ==
  ASSUME NEW draft \in Draft, TargetsMatchKind(draft)
  PROVE  /\ draft.kind \in {"accept_document", "reject_document"} => draft.doc \in Docs
         /\ draft.kind = "mark_requirement_satisfied" => draft.doc \in Docs /\ draft.req \in Reqs
         /\ draft.kind = "change_case_status" => draft.newStatus = "ready_for_submission"
<1>1. ASSUME draft.kind \in {"accept_document", "reject_document"}
      PROVE  draft.doc \in Docs
  <2>1. "document_id" \in Targets[draft.kind].required
    BY <1>1 DEF Targets
  <2>2. "document_id" \in Present(draft)
    BY <2>1 DEF TargetsMatchKind
  <2> QED
    BY <2>2 DEF Present, Draft
<1>2. ASSUME draft.kind = "mark_requirement_satisfied"
      PROVE  draft.doc \in Docs /\ draft.req \in Reqs
  <2>1. Targets[draft.kind].required = {"requirement_code", "document_id"}
    BY <1>2 DEF Targets
  <2>2. "document_id" \in Present(draft) /\ "requirement_code" \in Present(draft)
    BY <2>1 DEF TargetsMatchKind
  <2> QED
    BY <2>2 DEF Present, Draft
<1>3. ASSUME draft.kind = "change_case_status"
      PROVE  draft.newStatus = "ready_for_submission"
  <2>1. "new_case_status" \in Targets[draft.kind].required
    BY <1>3 DEF Targets
  <2>2. "new_case_status" \in Present(draft)
    BY <2>1 DEF TargetsMatchKind
  <2> QED
    BY <2>2 DEF Present, Draft
<1> QED
  BY <1>1, <1>2, <1>3

\* A draft of a plan the contract lets through can be turned into a row: in
\* particular this run, not an earlier one, extracted the document it accepts.
LEMMA PlanShape ==
  ASSUME NEW plan \in SUBSET Draft, NEW docs, NEW evaluation,
         NEW prior \in [Docs -> Extractions \cup {NoExtraction}],
         NEW new \in [Docs -> Extractions \cup {NoExtraction}],
         \A d \in Docs : docs[d] = "pending_review" => prior[d] = NoExtraction,
         PlanValid(plan, docs, evaluation, AllExtractions(prior, new)),
         NEW draft \in plan
  PROVE  DraftShape(draft, new)
<1>1. /\ draft \in Draft
      /\ TargetsMatchKind(draft)
      /\ DecidesPending(draft, docs)
      /\ AcceptGrounded(draft, evaluation, AllExtractions(prior, new))
  BY DEF PlanValid
<1>2. ASSUME draft.kind = "accept_document"
      PROVE  draft.doc \in Docs /\ new[draft.doc] \in Extractions
  <2>1. draft.doc \in Docs
    BY <1>1, <1>2, DraftTargets
  <2>2. prior[draft.doc] = NoExtraction
    BY <1>1, <1>2, <2>1 DEF DecidesPending
  <2>3. AllExtractions(prior, new)[draft.doc] # NoExtraction
    BY <1>1, <1>2 DEF AcceptGrounded
  <2> QED
    BY <2>1, <2>2, <2>3 DEF AllExtractions
<1> QED
  BY <1>1, <1>2, DraftTargets DEF DraftShape

\* The empty database satisfies the type part of the invariant.
LEMMA TypeInit == Init => TypeInv
<1> SUFFICES ASSUME Init PROVE TypeInv
  OBVIOUS
<1> USE DEF Init
<1>1. CaseFileTypeOK
  BY DEF CaseFileTypeOK, CaseStatus, DocStatus, ReqStatus, NoExtractions
<1>2. ReviewsTypeOK
  BY DEF ReviewsTypeOK, AuditTypeOK, RunStatus
<1>3. ProcessTypeOK
  BY CaseReviewAssumption
  DEF ProcessTypeOK, NoSnapshot, NoResult, NoExtractions
<1>4. RunsExist
  BY DEF RunsExist, RunsIn, RunStatus
<1>5. WellFormed
  BY DEF WellFormed
<1> QED
  BY <1>1, <1>2, <1>3, <1>4, <1>5 DEF TypeInv, TypeOK

\* Appending an entry for a target of the right kind keeps the log well typed.
LEMMA RecordType ==
  ASSUME AuditTypeOK, NEW event \in Event, NEW target \in Target[event],
         audit' = Record(event, target)
  PROVE  AuditTypeOK'
BY DEF AuditTypeOK, Record

\* CreateCase preserves the type part.
LEMMA CreateCaseType ==
  ASSUME TypeInv, NEW c \in Cases, CreateCase(c)
  PROVE  TypeInv'
<1>1. AuditTypeOK'
  BY RecordType DEF TypeInv, TypeOK, ReviewsTypeOK, CreateCase, Event, Target 
<1> QED
  BY <1>1
  DEF TypeInv, TypeOK, CaseFileTypeOK, ReviewsTypeOK, ProcessTypeOK, RunsExist, WellFormed,
      CreateCase, CaseStatus, process, RunsIn

\* AddDocument preserves the type part.
LEMMA AddDocumentType ==
  ASSUME TypeInv, NEW c \in Cases, NEW d \in Docs, AddDocument(c, d)
  PROVE  TypeInv'
<1>1. AuditTypeOK'
  BY RecordType DEF TypeInv, TypeOK, ReviewsTypeOK, AddDocument, Event, Target 
<1> QED
  BY <1>1
  DEF TypeInv, TypeOK, CaseFileTypeOK, ReviewsTypeOK, ProcessTypeOK, RunsExist, WellFormed,
      AddDocument, DocStatus, process, RunsIn

\* StartReview preserves the type part.
LEMMA StartReviewType ==
  ASSUME TypeInv, NEW c \in Cases, NEW r \in Runs, StartReview(c, r)
  PROVE  TypeInv'
<1>1. AuditTypeOK'
  BY RecordType DEF TypeInv, TypeOK, ReviewsTypeOK, StartReview, Event, Target 
<1> QED
  BY <1>1
  DEF TypeInv, TypeOK, CaseFileTypeOK, ReviewsTypeOK, ProcessTypeOK, RunsExist, WellFormed,
      StartReview, caseFile, RunsIn, RunStatus

\* Enqueue preserves the type part.
LEMMA EnqueueType ==
  ASSUME TypeInv, NEW r \in Runs, Enqueue(r)
  PROVE  TypeInv'
BY
  DEF TypeInv, TypeOK, CaseFileTypeOK, ReviewsTypeOK, ProcessTypeOK, RunsExist, WellFormed,
      AuditTypeOK, Enqueue, caseFile, reviews, RunsIn

\* Deliver preserves the type part.
LEMMA DeliverType ==
  ASSUME TypeInv, NEW w \in Workers, NEW r \in Runs, Deliver(w, r)
  PROVE  TypeInv'
BY
  DEF TypeInv, TypeOK, CaseFileTypeOK, ReviewsTypeOK, ProcessTypeOK, RunsExist, WellFormed,
      AuditTypeOK, Deliver, caseFile, reviews, RunsIn, Executing

\* Claim preserves the type part.
LEMMA ClaimType ==
  ASSUME TypeInv, NEW w \in Workers, Claim(w)
  PROVE  TypeInv'
BY
  DEF TypeInv, TypeOK, CaseFileTypeOK, ReviewsTypeOK, ProcessTypeOK, RunsExist, WellFormed,
      AuditTypeOK, Claim, Claimable, caseFile, RunsIn, RunStatus, Executing

\* SkipClaimed preserves the type part.
LEMMA SkipClaimedType ==
  ASSUME TypeInv, NEW w \in Workers, SkipClaimed(w)
  PROVE  TypeInv'
BY
  DEF TypeInv, TypeOK, CaseFileTypeOK, ReviewsTypeOK, ProcessTypeOK, RunsExist, WellFormed,
      AuditTypeOK, SkipClaimed, Finish, caseFile, reviews, RunsIn, NoSnapshot, NoResult, NoExtractions

\* BuildSnapshot preserves the type part.
LEMMA BuildSnapshotType ==
  ASSUME TypeInv, NEW w \in Workers, BuildSnapshot(w)
  PROVE  TypeInv'
BY
  DEF TypeInv, TypeOK, CaseFileTypeOK, ReviewsTypeOK, ProcessTypeOK, RunsExist, WellFormed,
      AuditTypeOK, BuildSnapshot, caseFile, reviews, RunsIn, DocumentsOf, PriorOf, Executing

\* ReviewFails preserves the type part.
LEMMA ReviewFailsType ==
  ASSUME TypeInv, NEW w \in Workers, ReviewFails(w)
  PROVE  TypeInv'
BY
  DEF TypeInv, TypeOK, CaseFileTypeOK, ReviewsTypeOK, ProcessTypeOK, RunsExist, WellFormed,
      AuditTypeOK, ReviewFails, caseFile, reviews, RunsIn, NoSnapshot, NoExtractions, Executing

\* RecordFailure preserves the type part.
LEMMA RecordFailureType ==
  ASSUME TypeInv, NEW w \in Workers, RecordFailure(w)
  PROVE  TypeInv'
BY
  DEF TypeInv, TypeOK, CaseFileTypeOK, ReviewsTypeOK, ProcessTypeOK, RunsExist, WellFormed,
      AuditTypeOK, RecordFailure, caseFile, RunsIn, RunStatus, Executing

\* AuditFailure preserves the type part.
LEMMA AuditFailureType ==
  ASSUME TypeInv, NEW w \in Workers, AuditFailure(w)
  PROVE  TypeInv'
<1>1. AuditTypeOK'
  BY RecordType DEF TypeInv, TypeOK, ReviewsTypeOK, AuditFailure, Event, Target, RunsExist, RunsIn
<1> QED
  BY <1>1
  DEF TypeInv, TypeOK, CaseFileTypeOK, ReviewsTypeOK, ProcessTypeOK, RunsExist, WellFormed,
      AuditFailure, Finish, caseFile, RunsIn, NoSnapshot, NoResult, NoExtractions

\* EnqueueFails preserves the type part.
LEMMA EnqueueFailsType ==
  ASSUME TypeInv, NEW r \in Runs, EnqueueFails(r)
  PROVE  TypeInv'
BY CaseReviewAssumption
  DEF TypeInv, TypeOK, CaseFileTypeOK, ReviewsTypeOK, ProcessTypeOK, RunsExist, WellFormed,
      AuditTypeOK, EnqueueFails, Fault, caseFile, reviews, RunsIn

\* DatabaseError preserves the type part.
LEMMA DatabaseErrorType ==
  ASSUME TypeInv, NEW w \in Workers, DatabaseError(w)
  PROVE  TypeInv'
BY CaseReviewAssumption
  DEF TypeInv, TypeOK, CaseFileTypeOK, ReviewsTypeOK, ProcessTypeOK, RunsExist, WellFormed,
      AuditTypeOK, DatabaseError, Fault, Finish, caseFile, reviews, RunsIn, NoSnapshot, NoResult, NoExtractions

\* Crash preserves the type part.
LEMMA CrashType ==
  ASSUME TypeInv, NEW w \in Workers, Crash(w)
  PROVE  TypeInv'
BY CaseReviewAssumption
  DEF TypeInv, TypeOK, CaseFileTypeOK, ReviewsTypeOK, ProcessTypeOK, RunsExist, WellFormed,
      AuditTypeOK, Crash, Fault, Finish, caseFile, reviews, RunsIn, NoSnapshot, NoResult, NoExtractions

\* Redeliver preserves the type part.
LEMMA RedeliverType ==
  ASSUME TypeInv, NEW w \in Workers, Redeliver(w)
  PROVE  TypeInv'
BY CaseReviewAssumption
  DEF TypeInv, TypeOK, CaseFileTypeOK, ReviewsTypeOK, ProcessTypeOK, RunsExist, WellFormed,
      AuditTypeOK, Redeliver, Fault, caseFile, reviews, RunsIn


\* ReviewSucceeds preserves the type part.
LEMMA ReviewSucceedsType ==
  ASSUME TypeInv, NEW w \in Workers, ReviewSucceeds(w)
  PROVE  TypeInv'
<1> DEFINE docs  == snapshot[w].docs
           prior == snapshot[w].prior
<1>1. PICK new \in Reviewed(docs) :
         \E plan \in PossiblePlans(docs, AllExtractions(prior, new)) :
            result' = [result EXCEPT ![w] = [extractions |-> new, plan |-> plan]]
  BY DEF ReviewSucceeds
<1>2. PICK plan \in PossiblePlans(docs, AllExtractions(prior, new)) :
         result' = [result EXCEPT ![w] = [extractions |-> new, plan |-> plan]]
  BY <1>1
<1>3. /\ new \in [Docs -> Extractions \cup {NoExtraction}]
      /\ plan \in SUBSET Draft
      /\ \E ev \in Evaluations : PlanValid(plan, docs, ev, AllExtractions(prior, new))
  BY CaseReviewAssumption, ReviewContractAssumption DEF Reviewed, PossiblePlans
<1>4. /\ prior \in [Docs -> Extractions \cup {NoExtraction}]
      /\ \A d \in Docs : docs[d] = "pending_review" => prior[d] = NoExtraction
  BY DEF TypeInv, TypeOK, ProcessTypeOK, WellFormed, ReviewSucceeds
<1>5. \A draft \in plan : DraftShape(draft, new)
  BY <1>3, <1>4, PlanShape
<1> HIDE DEF docs, prior
<1> QED
  BY <1>2, <1>3, <1>5
  DEF TypeInv, TypeOK, CaseFileTypeOK, ReviewsTypeOK, ProcessTypeOK, RunsExist, WellFormed,
      AuditTypeOK, ReviewSucceeds, caseFile, reviews, RunsIn, NoSnapshot, NoExtractions, Executing

\* The lookups of persist_result find what a draft names, if it names a document
\* of the run's case.
LEMMA LookupsSucceed ==
  ASSUME NEW r, NEW draft \in Draft,
         draft.doc # NoDoc => docCase[draft.doc] = runCase[r]
  PROVE  StoredDoc(r, draft.doc) = draft.doc /\ StoredReq(draft.req) = draft.req
BY DEF StoredDoc, StoredReq, Draft

\* persist_result makes a well-formed row of a well-formed draft about the case
\* of the run.
LEMMA NewRowType ==
  ASSUME TypeInv, NEW r \in RunsIn(RunStatus), NEW draft \in Draft,
         NEW extracted \in [Docs -> Extractions \cup {NoExtraction}],
         DraftShape(draft, extracted),
         draft.doc # NoDoc => docCase[draft.doc] = runCase[r]
  PROVE  NewRow(r, draft, extracted) \in Row /\ RowShape(NewRow(r, draft, extracted))
<1>1. runCase[r] \in Cases
  BY DEF TypeInv, RunsExist
<1>2. Payload(draft, extracted) \in Extractions \cup {"ready_for_submission", NoPayload}
  BY DEF Payload, DraftShape
<1>3. NewRow(r, draft, extracted) \in Row
  BY <1>1, <1>2, LookupsSucceed DEF NewRow, Row, Draft, RunsIn
<1>4. RowShape(NewRow(r, draft, extracted))
  BY LookupsSucceed DEF NewRow, RowShape, DraftShape, Payload
<1> QED
  BY <1>3, <1>4

\* PersistResult preserves the type part.
LEMMA PersistResultType ==
  ASSUME TypeInv, WorkStaysInCase, NEW w \in Workers, PersistResult(w)
  PROVE  TypeInv'
<1> DEFINE new == NewRows(task[w], result[w].plan, result[w].extractions)
<1>0. /\ task[w] \in RunsIn(RunStatus)
      /\ result[w].plan \in SUBSET Draft
      /\ result[w].extractions \in [Docs -> Extractions \cup {NoExtraction}]
      /\ \A draft \in result[w].plan :
            /\ DraftShape(draft, result[w].extractions)
            /\ draft.doc # NoDoc => docCase[draft.doc] = runCase[task[w]]
  BY DEF TypeInv, TypeOK, ProcessTypeOK, RunsExist, WellFormed, WorkStaysInCase, PersistResult
<1>1. \A a \in new : a \in Row /\ RowShape(a)
  BY <1>0, NewRowType DEF NewRows
<1>2. AuditTypeOK'
  BY RecordType
  DEF TypeInv, TypeOK, ReviewsTypeOK, PersistResult, Event, Target, RunsExist, RunsIn
<1>3. /\ actions' = [a \in DOMAIN actions \cup new |->
                       IF a \notin DOMAIN actions THEN "pending"
                       ELSE IF Supersedes(task[w], a) THEN "superseded"
                       ELSE actions[a]]
      /\ runStatus' = [runStatus EXCEPT ![task[w]] = "succeeded"]
      /\ Finish(w)
      /\ UNCHANGED <<caseFile, runCase, onCommit, queue, faults>>
  BY DEF PersistResult
<1> HIDE DEF new
<1>4. ReviewsTypeOK'
  BY <1>1, <1>2, <1>3 DEF TypeInv, TypeOK, ReviewsTypeOK, RunStatus, ActionStatus
<1>5. \A a \in DOMAIN actions' : RowShape(a)
  BY <1>1, <1>3 DEF TypeInv, WellFormed
<1>6. CaseFileTypeOK'
  BY <1>3 DEF TypeInv, TypeOK, CaseFileTypeOK, caseFile
<1>7. ProcessTypeOK'
  BY <1>3 DEF TypeInv, TypeOK, ProcessTypeOK, Finish, NoSnapshot, NoResult, NoExtractions
<1>8. RunsExist'
  BY <1>0, <1>3 DEF TypeInv, TypeOK, ReviewsTypeOK, ProcessTypeOK, RunsExist, RunsIn, RunStatus, Finish
<1>9. WellFormed'
  BY <1>3, <1>5 DEF TypeInv, TypeOK, ProcessTypeOK, WellFormed, Finish
<1> QED
  BY <1>4, <1>6, <1>7, <1>8, <1>9 DEF TypeInv, TypeOK

\* Whatever an approval or a rejection does to the case file.
LEMMA DecisionType ==
  ASSUME TypeInv, NEW a \in Pending, NEW status \in {"approved", "rejected"},
         Decide(a, status),
         audit' = Record(IF status = "approved" THEN "action_approved" ELSE "action_rejected", a),
         UNCHANGED <<runStatus, runCase, process, faults>>, CaseFileTypeOK'
  PROVE  TypeInv'
<1>1. AuditTypeOK'
  BY RecordType DEF TypeInv, TypeOK, ReviewsTypeOK, Event, Target, Pending
<1> QED
  BY <1>1
  DEF TypeInv, TypeOK, ReviewsTypeOK, ProcessTypeOK, RunsExist, WellFormed,
      Decide, Pending, ActionStatus, process, RunsIn

\* Every decision of a human preserves the type part.
LEMMA HumanType ==
  ASSUME TypeInv, Human
  PROVE  TypeInv'
<1>1. PICK a \in Pending :
         \/ ApproveAccept(a)
         \/ ApproveRejectDocument(a)
         \/ ApproveMark(a)
         \/ ApproveCaseStatus(a)
         \/ ApproveNoStateChange(a)
         \/ Reject(a)
  BY DEF Human
<1>2. a \in Row /\ RowShape(a)
  BY DEF TypeInv, TypeOK, ReviewsTypeOK, WellFormed, Pending
<1>3. ASSUME Approve(a), CaseFileTypeOK' PROVE TypeInv'
  BY <1>3, DecisionType DEF Approve
<1>4. CASE ApproveAccept(a)
  <2>1. CaseFileTypeOK'
    BY <1>2, <1>4 DEF TypeInv, TypeOK, CaseFileTypeOK, ApproveAccept, RowShape, DocStatus
  <2> QED
    BY <1>3, <1>4, <2>1 DEF ApproveAccept
<1>5. CASE ApproveRejectDocument(a)
  <2>1. CaseFileTypeOK'
    BY <1>5 DEF TypeInv, TypeOK, CaseFileTypeOK, ApproveRejectDocument, DocStatus
  <2> QED
    BY <1>3, <1>5, <2>1 DEF ApproveRejectDocument
<1>6. CASE ApproveMark(a)
  <2>1. CaseFileTypeOK'
    BY <1>2, <1>6 DEF TypeInv, TypeOK, CaseFileTypeOK, ApproveMark, ReqStatus, Row
  <2> QED
    BY <1>3, <1>6, <2>1 DEF ApproveMark
<1>7. CASE ApproveCaseStatus(a)
  <2>1. CaseFileTypeOK'
    BY <1>2, <1>7 DEF TypeInv, TypeOK, CaseFileTypeOK, ApproveCaseStatus, RowShape, CaseStatus
  <2> QED
    BY <1>3, <1>7, <2>1 DEF ApproveCaseStatus
<1>8. CASE ApproveNoStateChange(a)
  <2>1. CaseFileTypeOK'
    BY <1>8 DEF TypeInv, TypeOK, CaseFileTypeOK, ApproveNoStateChange, caseFile
  <2> QED
    BY <1>3, <1>8, <2>1 DEF ApproveNoStateChange
<1>9. CASE Reject(a)
  <2>1. CaseFileTypeOK'
    BY <1>9 DEF TypeInv, TypeOK, CaseFileTypeOK, Reject, caseFile
  <2> QED
    BY <1>9, <2>1, DecisionType DEF Reject
<1> QED
  BY <1>1, <1>4, <1>5, <1>6, <1>7, <1>8, <1>9

\* Every step preserves the type part of the invariant.  That a row keeps its
\* shape rests on persist_result's lookups, and so on WorkStaysInCase.
LEMMA NextType == TypeInv /\ WorkStaysInCase /\ [Next]_vars => TypeInv'
<1> SUFFICES ASSUME TypeInv, WorkStaysInCase, [Next]_vars
             PROVE  TypeInv'
  OBVIOUS
<1>1. CASE Api
  BY <1>1, CreateCaseType, AddDocumentType, StartReviewType, EnqueueType DEF Api
<1>2. ASSUME NEW w \in Workers, NEW r \in Runs, Deliver(w, r)
      PROVE  TypeInv'
  BY <1>2, DeliverType
<1>3. ASSUME NEW w \in Workers, Worker(w)
      PROVE  TypeInv'
  BY <1>3, ClaimType, SkipClaimedType, BuildSnapshotType, ReviewSucceedsType, ReviewFailsType,
     PersistResultType, RecordFailureType, AuditFailureType
  DEF Worker
<1>4. CASE Human
  BY <1>4, HumanType
<1>5. CASE Failure
  BY <1>5, EnqueueFailsType, DatabaseErrorType, CrashType, RedeliverType DEF Failure
<1>6. CASE UNCHANGED vars
  BY <1>6
  DEF TypeInv, TypeOK, CaseFileTypeOK, ReviewsTypeOK, AuditTypeOK, ProcessTypeOK, RunsExist,
      WellFormed, vars, caseFile, reviews, process, RunsIn
<1> QED
  BY <1>1, <1>2, <1>3, <1>4, <1>5, <1>6 DEF Next

-----------------------------------------------------------------------------
\* Runs and rows.

\* StartReview preserves what is said of runs and rows.
LEMMA StartReviewRuns ==
  ASSUME TypeInv, RunInv, NEW c \in Cases, NEW r \in Runs, StartReview(c, r)
  PROVE  RunInv'
BY CaseReviewAssumption
  DEF TypeInv, TypeOK, ReviewsTypeOK, ProcessTypeOK, RunsExist, RunsIn, RunStatus,
      RunInv, SingleExecutor, ActiveIsNewest, NothingProposedUnlessCompleted,
      RowsUnderTheirRun, OnlyLatestActionable, Pending, Executing,
      StartReview, FreshRun, ActiveRuns, Active, Row

\* Deliver preserves what is said of runs and rows.
LEMMA DeliverRuns ==
  ASSUME TypeInv, RunInv, NEW w \in Workers, NEW r \in Runs, Deliver(w, r)
  PROVE  RunInv'
BY CaseReviewAssumption
  DEF TypeInv, TypeOK, ReviewsTypeOK, ProcessTypeOK, RunsExist, RunsIn, RunStatus,
      RunInv, SingleExecutor, ActiveIsNewest, NothingProposedUnlessCompleted,
      RowsUnderTheirRun, OnlyLatestActionable, Pending, Executing,
      Deliver, reviews

\* Claim preserves what is said of runs and rows.
LEMMA ClaimRuns ==
  ASSUME TypeInv, RunInv, NEW w \in Workers, Claim(w)
  PROVE  RunInv'
BY CaseReviewAssumption
  DEF TypeInv, TypeOK, ReviewsTypeOK, ProcessTypeOK, RunsExist, RunsIn, RunStatus,
      RunInv, SingleExecutor, ActiveIsNewest, NothingProposedUnlessCompleted,
      RowsUnderTheirRun, OnlyLatestActionable, Pending, Executing,
      Claim, Claimable

\* SkipClaimed preserves what is said of runs and rows.
LEMMA SkipClaimedRuns ==
  ASSUME TypeInv, RunInv, NEW w \in Workers, SkipClaimed(w)
  PROVE  RunInv'
BY CaseReviewAssumption
  DEF TypeInv, TypeOK, ReviewsTypeOK, ProcessTypeOK, RunsExist, RunsIn, RunStatus,
      RunInv, SingleExecutor, ActiveIsNewest, NothingProposedUnlessCompleted,
      RowsUnderTheirRun, OnlyLatestActionable, Pending, Executing,
      SkipClaimed, Finish, reviews

\* BuildSnapshot preserves what is said of runs and rows.
LEMMA BuildSnapshotRuns ==
  ASSUME TypeInv, RunInv, NEW w \in Workers, BuildSnapshot(w)
  PROVE  RunInv'
BY CaseReviewAssumption
  DEF TypeInv, TypeOK, ReviewsTypeOK, ProcessTypeOK, RunsExist, RunsIn, RunStatus,
      RunInv, SingleExecutor, ActiveIsNewest, NothingProposedUnlessCompleted,
      RowsUnderTheirRun, OnlyLatestActionable, Pending, Executing,
      BuildSnapshot, reviews

\* ReviewSucceeds preserves what is said of runs and rows.
LEMMA ReviewSucceedsRuns ==
  ASSUME TypeInv, RunInv, NEW w \in Workers, ReviewSucceeds(w)
  PROVE  RunInv'
BY CaseReviewAssumption
  DEF TypeInv, TypeOK, ReviewsTypeOK, ProcessTypeOK, RunsExist, RunsIn, RunStatus,
      RunInv, SingleExecutor, ActiveIsNewest, NothingProposedUnlessCompleted,
      RowsUnderTheirRun, OnlyLatestActionable, Pending, Executing,
      ReviewSucceeds, reviews

\* ReviewFails preserves what is said of runs and rows.
LEMMA ReviewFailsRuns ==
  ASSUME TypeInv, RunInv, NEW w \in Workers, ReviewFails(w)
  PROVE  RunInv'
BY CaseReviewAssumption
  DEF TypeInv, TypeOK, ReviewsTypeOK, ProcessTypeOK, RunsExist, RunsIn, RunStatus,
      RunInv, SingleExecutor, ActiveIsNewest, NothingProposedUnlessCompleted,
      RowsUnderTheirRun, OnlyLatestActionable, Pending, Executing,
      ReviewFails, reviews

\* RecordFailure preserves what is said of runs and rows.
LEMMA RecordFailureRuns ==
  ASSUME TypeInv, RunInv, NEW w \in Workers, RecordFailure(w)
  PROVE  RunInv'
BY CaseReviewAssumption
  DEF TypeInv, TypeOK, ReviewsTypeOK, ProcessTypeOK, RunsExist, RunsIn, RunStatus,
      RunInv, SingleExecutor, ActiveIsNewest, NothingProposedUnlessCompleted,
      RowsUnderTheirRun, OnlyLatestActionable, Pending, Executing,
      RecordFailure, Row

\* AuditFailure preserves what is said of runs and rows.
LEMMA AuditFailureRuns ==
  ASSUME TypeInv, RunInv, NEW w \in Workers, AuditFailure(w)
  PROVE  RunInv'
BY CaseReviewAssumption
  DEF TypeInv, TypeOK, ReviewsTypeOK, ProcessTypeOK, RunsExist, RunsIn, RunStatus,
      RunInv, SingleExecutor, ActiveIsNewest, NothingProposedUnlessCompleted,
      RowsUnderTheirRun, OnlyLatestActionable, Pending, Executing,
      AuditFailure, Finish

\* DatabaseError preserves what is said of runs and rows.
LEMMA DatabaseErrorRuns ==
  ASSUME TypeInv, RunInv, NEW w \in Workers, DatabaseError(w)
  PROVE  RunInv'
BY CaseReviewAssumption
  DEF TypeInv, TypeOK, ReviewsTypeOK, ProcessTypeOK, RunsExist, RunsIn, RunStatus,
      RunInv, SingleExecutor, ActiveIsNewest, NothingProposedUnlessCompleted,
      RowsUnderTheirRun, OnlyLatestActionable, Pending, Executing,
      DatabaseError, Fault, Finish, reviews

\* Crash preserves what is said of runs and rows.
LEMMA CrashRuns ==
  ASSUME TypeInv, RunInv, NEW w \in Workers, Crash(w)
  PROVE  RunInv'
BY CaseReviewAssumption
  DEF TypeInv, TypeOK, ReviewsTypeOK, ProcessTypeOK, RunsExist, RunsIn, RunStatus,
      RunInv, SingleExecutor, ActiveIsNewest, NothingProposedUnlessCompleted,
      RowsUnderTheirRun, OnlyLatestActionable, Pending, Executing,
      Crash, Fault, Finish, reviews

\* A decision changes no run and leaves a row pending or takes it from pending.
LEMMA HumanRuns ==
  ASSUME TypeInv, RunInv, Human
  PROVE  RunInv'
<1>1. PICK a \in Pending, status \in {"approved", "rejected"} :
         Decide(a, status) /\ UNCHANGED <<runStatus, runCase, process>>
  BY DEF Human, ApproveAccept, ApproveRejectDocument, ApproveMark, ApproveCaseStatus,
         ApproveNoStateChange, Reject, Approve
<1> QED
  BY <1>1 DEF TypeInv, TypeOK, ReviewsTypeOK, RunInv, SingleExecutor, ActiveIsNewest, NothingProposedUnlessCompleted,
      RowsUnderTheirRun, OnlyLatestActionable, Pending, Executing, Decide, process


\* persist_result completes the newest run of the case, and supersedes every
\* pending row of an older one.
LEMMA PersistResultRuns ==
  ASSUME TypeInv, RunInv, NEW w \in Workers, PersistResult(w)
  PROVE  RunInv'
<1> DEFINE r   == task[w]
           new == NewRows(r, result[w].plan, result[w].extractions)
<1>1. /\ actions' = [a \in DOMAIN actions \cup new |->
                       IF a \notin DOMAIN actions THEN "pending"
                       ELSE IF Supersedes(r, a) THEN "superseded"
                       ELSE actions[a]]
      /\ runStatus' = [runStatus EXCEPT ![r] = "succeeded"]
      /\ Finish(w)
      /\ UNCHANGED runCase
  BY DEF PersistResult
<1>2. \A a \in new : a.run = r /\ a.case = runCase[r]
  BY DEF NewRows, NewRow
<1>3. r \in Runs /\ runStatus[r] = "running"
  BY DEF TypeInv, TypeOK, ProcessTypeOK, RunsExist, RunsIn, RunInv, SingleExecutor, Executing,
         PersistResult
<1> HIDE DEF r, new
<1>4. SingleExecutor'
  BY <1>1, <1>3
  DEF TypeInv, TypeOK, ReviewsTypeOK, ProcessTypeOK, RunInv, SingleExecutor, Finish, Executing, r,
      PersistResult
<1>5. ActiveIsNewest'
  BY <1>1, <1>3 DEF TypeInv, TypeOK, ReviewsTypeOK, RunInv, ActiveIsNewest
<1>6. NothingProposedUnlessCompleted'
  BY <1>1, <1>2, <1>3
  DEF TypeInv, TypeOK, ReviewsTypeOK, Row, RunInv, NothingProposedUnlessCompleted
<1>7. RowsUnderTheirRun'
  BY <1>1, <1>2 DEF RunInv, RowsUnderTheirRun
<1>8. OnlyLatestActionable'
  <2> SUFFICES ASSUME NEW a \in Pending', NEW s \in Runs,
                      runCase[s] = a.case, runStatus'[s] = "succeeded"
               PROVE  s <= a.run
    BY <1>1 DEF OnlyLatestActionable
  <2>1. s <= r \/ runCase[s] # runCase[r]
    BY <1>1, <1>3, CaseReviewAssumption
    DEF TypeInv, TypeOK, ReviewsTypeOK, RunInv, ActiveIsNewest
  <2>2. CASE a \in new
    BY <1>2, <2>1, <2>2
  <2>3. CASE a \in DOMAIN actions
    <3>1. a \in Pending /\ ~Supersedes(r, a)
      BY <1>1, <2>3 DEF Pending
    <3>2. a.case # runCase[r]
      BY <1>3, <2>3, <3>1
      DEF Supersedes, Pending, RunInv, NothingProposedUnlessCompleted
    <3>3. s # r
      BY <3>2
    <3> QED
      BY <1>1, <3>1, <3>3 DEF RunInv, OnlyLatestActionable, TypeInv, TypeOK, ReviewsTypeOK
  <2> QED
    BY <1>1, <2>2, <2>3 DEF Pending
<1> QED
  BY <1>4, <1>5, <1>6, <1>7, <1>8 DEF RunInv

\* Every step preserves what the invariant says of runs and rows.
LEMMA NextRuns == TypeInv /\ RunInv /\ [Next]_vars => RunInv'
<1> SUFFICES ASSUME TypeInv, RunInv, [Next]_vars
             PROVE  RunInv'
  OBVIOUS
<1>1. ASSUME UNCHANGED <<runStatus, runCase, actions, pc, task>>
      PROVE  RunInv'
  BY <1>1
  DEF RunInv, SingleExecutor, ActiveIsNewest, NothingProposedUnlessCompleted,
      RowsUnderTheirRun, OnlyLatestActionable, Pending
<1>2. CASE Api
  BY <1>1, <1>2, StartReviewRuns DEF Api, CreateCase, AddDocument, Enqueue, process, reviews
<1>3. ASSUME NEW w \in Workers, NEW r \in Runs, Deliver(w, r)
      PROVE  RunInv'
  BY <1>3, DeliverRuns
<1>4. ASSUME NEW w \in Workers, Worker(w)
      PROVE  RunInv'
  BY <1>4, ClaimRuns, SkipClaimedRuns, BuildSnapshotRuns, ReviewSucceedsRuns, ReviewFailsRuns,
     PersistResultRuns, RecordFailureRuns, AuditFailureRuns
  DEF Worker
<1>5. CASE Human
  BY <1>5, HumanRuns
<1>6. CASE Failure
  BY <1>1, <1>6, DatabaseErrorRuns, CrashRuns DEF Failure, EnqueueFails, Redeliver, reviews
<1>7. CASE UNCHANGED vars
  BY <1>1, <1>7 DEF vars, reviews, process
<1> QED
  BY <1>2, <1>3, <1>4, <1>5, <1>6, <1>7 DEF Next


-----------------------------------------------------------------------------
\* The case file.

\* A step that leaves the case file and the rows alone can only disturb what is
\* said of the workers.
LEMMA FileFrame ==
  ASSUME FileInv, UNCHANGED caseFile, UNCHANGED actions, WorkStaysInCase'
  PROVE  FileInv'
BY DEF FileInv, DocumentsFilled, TargetsOwnCase, SatisfiedIsBacked, ReadyIsComplete, caseFile

\* CreateCase preserves what is said of the case file.
LEMMA CreateCaseFile ==
  ASSUME TypeInv, FileInv, NEW c \in Cases, CreateCase(c)
  PROVE  FileInv'
BY
  DEF TypeInv, TypeOK, CaseFileTypeOK, ReviewsTypeOK, ProcessTypeOK, RunsExist, RunsIn, RunStatus,
      FileInv, DocumentsFilled, WorkStaysInCase, TargetsOwnCase, SatisfiedIsBacked, ReadyIsComplete,
      CreateCase, process

\* AddDocument preserves what is said of the case file.
LEMMA AddDocumentFile ==
  ASSUME TypeInv, FileInv, NEW c \in Cases, NEW d \in Docs, AddDocument(c, d)
  PROVE  FileInv'
BY CaseReviewAssumption, ContractsAssumption
  DEF TypeInv, TypeOK, CaseFileTypeOK, ReviewsTypeOK, ProcessTypeOK, RunsExist, RunsIn, RunStatus,
      FileInv, DocumentsFilled, WorkStaysInCase, TargetsOwnCase, SatisfiedIsBacked, ReadyIsComplete,
      AddDocument, process, DocStatus, Row

\* StartReview preserves what is said of the case file.
LEMMA StartReviewFile ==
  ASSUME TypeInv, FileInv, NEW c \in Cases, NEW r \in Runs, StartReview(c, r)
  PROVE  FileInv'
<1>1. \A w \in Workers : pc[w] # "idle" => runCase'[task[w]] = runCase[task[w]]
  <2> SUFFICES ASSUME NEW w \in Workers, pc[w] # "idle"
               PROVE  runCase'[task[w]] = runCase[task[w]]
    OBVIOUS
  <2>1. task[w] \in Runs /\ runStatus[task[w]] # "absent"
    BY DEF TypeInv, RunsExist, RunsIn, RunStatus
  <2>2. task[w] # r
    BY <2>1, CaseReviewAssumption DEF StartReview, FreshRun
  <2> QED
    BY <2>1, <2>2 DEF TypeInv, TypeOK, ReviewsTypeOK, StartReview
<1>2. WorkStaysInCase'
  BY <1>1 DEF FileInv, WorkStaysInCase, StartReview, caseFile
<1> QED
  BY <1>2, FileFrame DEF StartReview

\* Deliver preserves what is said of the case file.
LEMMA DeliverFile ==
  ASSUME TypeInv, FileInv, NEW w \in Workers, NEW r \in Runs, Deliver(w, r)
  PROVE  FileInv'
<1>1. WorkStaysInCase'
  BY CaseReviewAssumption
  DEF TypeInv, TypeOK, CaseFileTypeOK, ReviewsTypeOK, ProcessTypeOK, RunsExist, RunsIn, RunStatus,
      FileInv, WorkStaysInCase, Deliver, caseFile, reviews
<1> QED
  BY <1>1, FileFrame DEF Deliver, reviews

\* Claim preserves what is said of the case file.
LEMMA ClaimFile ==
  ASSUME TypeInv, FileInv, NEW w \in Workers, Claim(w)
  PROVE  FileInv'
<1>1. WorkStaysInCase'
  BY CaseReviewAssumption
  DEF TypeInv, TypeOK, CaseFileTypeOK, ReviewsTypeOK, ProcessTypeOK, RunsExist, RunsIn, RunStatus,
      FileInv, WorkStaysInCase, Claim, caseFile, reviews
<1> QED
  BY <1>1, FileFrame DEF Claim, reviews

\* SkipClaimed preserves what is said of the case file.
LEMMA SkipClaimedFile ==
  ASSUME TypeInv, FileInv, NEW w \in Workers, SkipClaimed(w)
  PROVE  FileInv'
<1>1. WorkStaysInCase'
  BY CaseReviewAssumption
  DEF TypeInv, TypeOK, CaseFileTypeOK, ReviewsTypeOK, ProcessTypeOK, RunsExist, RunsIn, RunStatus,
      FileInv, WorkStaysInCase, SkipClaimed, caseFile, Finish, reviews
<1> QED
  BY <1>1, FileFrame DEF SkipClaimed, reviews

\* BuildSnapshot preserves what is said of the case file.
LEMMA BuildSnapshotFile ==
  ASSUME TypeInv, FileInv, NEW w \in Workers, BuildSnapshot(w)
  PROVE  FileInv'
<1>1. WorkStaysInCase'
  BY CaseReviewAssumption
  DEF TypeInv, TypeOK, CaseFileTypeOK, ReviewsTypeOK, ProcessTypeOK, RunsExist, RunsIn, RunStatus,
      FileInv, WorkStaysInCase, BuildSnapshot, caseFile, reviews, DocumentsOf
<1> QED
  BY <1>1, FileFrame DEF BuildSnapshot, reviews

\* ReviewFails preserves what is said of the case file.
LEMMA ReviewFailsFile ==
  ASSUME TypeInv, FileInv, NEW w \in Workers, ReviewFails(w)
  PROVE  FileInv'
<1>1. WorkStaysInCase'
  BY CaseReviewAssumption
  DEF TypeInv, TypeOK, CaseFileTypeOK, ReviewsTypeOK, ProcessTypeOK, RunsExist, RunsIn, RunStatus,
      FileInv, WorkStaysInCase, ReviewFails, caseFile, reviews
<1> QED
  BY <1>1, FileFrame DEF ReviewFails, reviews

\* RecordFailure preserves what is said of the case file.
LEMMA RecordFailureFile ==
  ASSUME TypeInv, FileInv, NEW w \in Workers, RecordFailure(w)
  PROVE  FileInv'
<1>1. WorkStaysInCase'
  BY CaseReviewAssumption
  DEF TypeInv, TypeOK, CaseFileTypeOK, ReviewsTypeOK, ProcessTypeOK, RunsExist, RunsIn, RunStatus,
      FileInv, WorkStaysInCase, RecordFailure, caseFile, reviews
<1> QED
  BY <1>1, FileFrame DEF RecordFailure, reviews

\* AuditFailure preserves what is said of the case file.
LEMMA AuditFailureFile ==
  ASSUME TypeInv, FileInv, NEW w \in Workers, AuditFailure(w)
  PROVE  FileInv'
<1>1. WorkStaysInCase'
  BY CaseReviewAssumption
  DEF TypeInv, TypeOK, CaseFileTypeOK, ReviewsTypeOK, ProcessTypeOK, RunsExist, RunsIn, RunStatus,
      FileInv, WorkStaysInCase, AuditFailure, caseFile, Finish
<1> QED
  BY <1>1, FileFrame DEF AuditFailure, reviews

\* DatabaseError preserves what is said of the case file.
LEMMA DatabaseErrorFile ==
  ASSUME TypeInv, FileInv, NEW w \in Workers, DatabaseError(w)
  PROVE  FileInv'
<1>1. WorkStaysInCase'
  BY CaseReviewAssumption
  DEF TypeInv, TypeOK, CaseFileTypeOK, ReviewsTypeOK, ProcessTypeOK, RunsExist, RunsIn, RunStatus,
      FileInv, WorkStaysInCase, DatabaseError, caseFile, Finish, reviews
<1> QED
  BY <1>1, FileFrame DEF DatabaseError, reviews

\* Crash preserves what is said of the case file.
LEMMA CrashFile ==
  ASSUME TypeInv, FileInv, NEW w \in Workers, Crash(w)
  PROVE  FileInv'
<1>1. WorkStaysInCase'
  BY CaseReviewAssumption
  DEF TypeInv, TypeOK, CaseFileTypeOK, ReviewsTypeOK, ProcessTypeOK, RunsExist, RunsIn, RunStatus,
      FileInv, WorkStaysInCase, Crash, caseFile, Finish, reviews
<1> QED
  BY <1>1, FileFrame DEF Crash, reviews

\* A plan names documents of the snapshot, which are documents of the run's case.
LEMMA ReviewSucceedsFile ==
  ASSUME TypeInv, FileInv, NEW w \in Workers, ReviewSucceeds(w)
  PROVE  FileInv'
<1> DEFINE docs == snapshot[w].docs
<1>1. PICK new \in Reviewed(docs) :
         \E plan \in PossiblePlans(docs, AllExtractions(snapshot[w].prior, new)) :
            result' = [result EXCEPT ![w] = [extractions |-> new, plan |-> plan]]
  BY DEF ReviewSucceeds
<1>2. PICK plan \in PossiblePlans(docs, AllExtractions(snapshot[w].prior, new)) :
         result' = [result EXCEPT ![w] = [extractions |-> new, plan |-> plan]]
  BY <1>1
<1>3. \A draft \in plan : draft \in Draft /\ TargetsKnown(draft, docs)
  BY CaseReviewAssumption, ReviewContractAssumption DEF PossiblePlans, PlanValid
<1>4. \A draft \in plan : draft.doc # NoDoc => docCase[draft.doc] = runCase[task[w]]
  BY <1>3 DEF TargetsKnown, Draft, ReviewSucceeds, FileInv, WorkStaysInCase
<1> HIDE DEF docs
<1>5. WorkStaysInCase'
  BY <1>2, <1>4
  DEF TypeInv, TypeOK, ProcessTypeOK, FileInv, WorkStaysInCase, ReviewSucceeds, caseFile, reviews
<1> QED
  BY <1>5, FileFrame DEF ReviewSucceeds, reviews

\* A row's document is looked up among those of the run's case.
LEMMA PersistResultFile ==
  ASSUME TypeInv, FileInv, NEW w \in Workers, PersistResult(w)
  PROVE  FileInv'
<1>1. \A a \in NewRows(task[w], result[w].plan, result[w].extractions) :
         a.doc # NoDoc => docCase[a.doc] = a.case
  BY DEF NewRows, NewRow, StoredDoc
<1>2. TargetsOwnCase'
  BY <1>1 DEF FileInv, TargetsOwnCase, PersistResult, caseFile
<1>3. WorkStaysInCase'
  BY DEF TypeInv, TypeOK, ProcessTypeOK, FileInv, WorkStaysInCase, PersistResult, Finish, caseFile
<1> QED
  BY <1>2, <1>3
  DEF FileInv, DocumentsFilled, SatisfiedIsBacked, ReadyIsComplete, PersistResult, caseFile

\* An approval writes to the case file only what its preconditions allow.
LEMMA HumanFile ==
  ASSUME TypeInv, FileInv, Human
  PROVE  FileInv'
<1>1. PICK a \in Pending :
         \/ ApproveAccept(a)
         \/ ApproveRejectDocument(a)
         \/ ApproveMark(a)
         \/ ApproveCaseStatus(a)
         \/ ApproveNoStateChange(a)
         \/ Reject(a)
  BY DEF Human
<1>2. a \in Row /\ RowShape(a) /\ (a.doc # NoDoc => docCase[a.doc] = a.case)
  BY DEF TypeInv, TypeOK, ReviewsTypeOK, WellFormed, FileInv, TargetsOwnCase, Pending
<1>3. /\ DOMAIN actions' = DOMAIN actions
      /\ UNCHANGED <<docCase, runCase, process>>
  BY <1>1 DEF ApproveAccept, ApproveRejectDocument, ApproveMark, ApproveCaseStatus,
              ApproveNoStateChange, Reject, Approve, Decide, caseFile
<1>4. WorkStaysInCase' /\ TargetsOwnCase'
  BY <1>3 DEF FileInv, WorkStaysInCase, TargetsOwnCase, process
<1>5. ASSUME UNCHANGED caseFile
      PROVE  FileInv'
  BY <1>4, <1>5 DEF FileInv, DocumentsFilled, SatisfiedIsBacked, ReadyIsComplete, caseFile
<1>6. CASE ApproveAccept(a)
  BY <1>2, <1>4, <1>6
  DEF TypeInv, TypeOK, CaseFileTypeOK, FileInv, DocumentsFilled, SatisfiedIsBacked,
      ReadyIsComplete, ApproveAccept, PendingDocument, RowShape
<1>7. CASE ApproveRejectDocument(a)
  BY <1>2, <1>4, <1>7
  DEF TypeInv, TypeOK, CaseFileTypeOK, FileInv, DocumentsFilled, SatisfiedIsBacked,
      ReadyIsComplete, ApproveRejectDocument, PendingDocument, RowShape
<1>8. CASE ApproveMark(a)
  <2>1. /\ a.case \in Cases /\ a.req \in Reqs /\ a.doc \in Docs
        /\ docCase[a.doc] = a.case
        /\ docStatus[a.doc] = "accepted"
        /\ docExtraction[a.doc] \in Extractions
    BY <1>2, <1>8, ContractsAssumption
    DEF RowShape, Row, ApproveMark, Markable, FileInv, DocumentsFilled
  <2>2. SatisfiedIsBacked' /\ ReadyIsComplete' /\ DocumentsFilled'
    BY <1>8, <2>1
    DEF TypeInv, TypeOK, CaseFileTypeOK, FileInv, DocumentsFilled, SatisfiedIsBacked,
        ReadyIsComplete, ApproveMark
  <2> QED
    BY <1>4, <2>2 DEF FileInv
<1>9. CASE ApproveCaseStatus(a)
  BY <1>2, <1>4, <1>9
  DEF TypeInv, TypeOK, CaseFileTypeOK, FileInv, DocumentsFilled, SatisfiedIsBacked,
      ReadyIsComplete, ApproveCaseStatus, AllSatisfied
<1>10. CASE ApproveNoStateChange(a)
  BY <1>5, <1>10 DEF ApproveNoStateChange
<1>11. CASE Reject(a)
  BY <1>5, <1>11 DEF Reject
<1> QED
  BY <1>1, <1>6, <1>7, <1>8, <1>9, <1>10, <1>11

\* Every step preserves what the invariant says of the case file.
LEMMA NextFile == TypeInv /\ FileInv /\ [Next]_vars => FileInv'
<1> SUFFICES ASSUME TypeInv, FileInv, [Next]_vars
             PROVE  FileInv'
  OBVIOUS
<1>1. ASSUME UNCHANGED <<caseFile, actions, runCase, pc, task, snapshot, result>>
      PROVE  FileInv'
  BY <1>1, FileFrame DEF FileInv, WorkStaysInCase, caseFile
<1>2. CASE Api
  BY <1>1, <1>2, CreateCaseFile, AddDocumentFile, StartReviewFile DEF Api, Enqueue, reviews
<1>3. ASSUME NEW w \in Workers, NEW r \in Runs, Deliver(w, r)
      PROVE  FileInv'
  BY <1>3, DeliverFile
<1>4. ASSUME NEW w \in Workers, Worker(w)
      PROVE  FileInv'
  BY <1>4, ClaimFile, SkipClaimedFile, BuildSnapshotFile, ReviewSucceedsFile, ReviewFailsFile,
     PersistResultFile, RecordFailureFile, AuditFailureFile
  DEF Worker
<1>5. CASE Human
  BY <1>5, HumanFile
<1>6. CASE Failure
  BY <1>1, <1>6, DatabaseErrorFile, CrashFile DEF Failure, EnqueueFails, Redeliver, reviews
<1>7. CASE UNCHANGED vars
  BY <1>1, <1>7 DEF vars, reviews, process
<1> QED
  BY <1>2, <1>3, <1>4, <1>5, <1>6, <1>7 DEF Next


-----------------------------------------------------------------------------
\* Decisions and the audit log.

\* What LedgerInv says is about these variables.
LEMMA LedgerFrame ==
  ASSUME LedgerInv,
         UNCHANGED <<reqStatus, satisfiedBy, docStatus, docExtraction, runStatus, actions, audit,
                     pc, task>>,
         faults = 0 \/ faults' # 0
  PROVE  LedgerInv'
BY DEF LedgerInv, DocumentDecidedOnce, DocumentDecisions, RequirementDecidedOnce, RequirementDecisions,
      AuditAgrees, FailureSavedBeforeAudit, Rows, RunsIn

\* CreateCase preserves what is said of decisions and the log.
LEMMA CreateCaseLedger ==
  ASSUME TypeInv, RunInv, LedgerInv, NEW c \in Cases, CreateCase(c)
  PROVE  LedgerInv'
<1>1. DocumentDecidedOnce' /\ RequirementDecidedOnce'
  BY DEF LedgerInv, DocumentDecidedOnce, DocumentDecisions, RequirementDecidedOnce,
         RequirementDecisions, CreateCase, reviews, caseFile, Finish
<1>2. AuditAgrees' /\ FailureSavedBeforeAudit'
  BY CaseReviewAssumption
  DEF TypeInv, TypeOK, ReviewsTypeOK, AuditTypeOK, ProcessTypeOK, RunsExist, RunStatus, Event,
      LedgerInv, AuditAgrees, FailureSavedBeforeAudit, Rows, RunsIn, RunInv, SingleExecutor, Executing, Record,
      CreateCase, process
<1> QED
  BY <1>1, <1>2 DEF LedgerInv

\* AddDocument preserves what is said of decisions and the log.
LEMMA AddDocumentLedger ==
  ASSUME TypeInv, RunInv, LedgerInv, NEW c \in Cases, NEW d \in Docs, AddDocument(c, d)
  PROVE  LedgerInv'
<1>1. DocumentDecidedOnce' /\ RequirementDecidedOnce'
  BY DEF LedgerInv, DocumentDecidedOnce, DocumentDecisions, RequirementDecidedOnce,
         RequirementDecisions, AddDocument, reviews, caseFile, Finish
<1>2. AuditAgrees' /\ FailureSavedBeforeAudit'
  BY CaseReviewAssumption
  DEF TypeInv, TypeOK, ReviewsTypeOK, AuditTypeOK, ProcessTypeOK, RunsExist, RunStatus, Event,
      LedgerInv, AuditAgrees, FailureSavedBeforeAudit, Rows, RunsIn, RunInv, SingleExecutor, Executing, Record,
      AddDocument, process
<1> QED
  BY <1>1, <1>2 DEF LedgerInv

\* StartReview preserves what is said of decisions and the log.
LEMMA StartReviewLedger ==
  ASSUME TypeInv, RunInv, LedgerInv, NEW c \in Cases, NEW r \in Runs, StartReview(c, r)
  PROVE  LedgerInv'
<1>1. DocumentDecidedOnce' /\ RequirementDecidedOnce'
  BY DEF LedgerInv, DocumentDecidedOnce, DocumentDecisions, RequirementDecidedOnce,
         RequirementDecisions, StartReview, reviews, caseFile, Finish
<1>2. AuditAgrees' /\ FailureSavedBeforeAudit'
  BY CaseReviewAssumption
  DEF TypeInv, TypeOK, ReviewsTypeOK, AuditTypeOK, ProcessTypeOK, RunsExist, RunStatus, Event,
      LedgerInv, AuditAgrees, FailureSavedBeforeAudit, Rows, RunsIn, RunInv, SingleExecutor, Executing, Record,
      StartReview, FreshRun
<1> QED
  BY <1>1, <1>2 DEF LedgerInv

\* Deliver preserves what is said of decisions and the log.
LEMMA DeliverLedger ==
  ASSUME TypeInv, RunInv, LedgerInv, NEW w \in Workers, NEW r \in Runs, Deliver(w, r)
  PROVE  LedgerInv'
<1>1. DocumentDecidedOnce' /\ RequirementDecidedOnce'
  BY DEF LedgerInv, DocumentDecidedOnce, DocumentDecisions, RequirementDecidedOnce,
         RequirementDecisions, Deliver, reviews, caseFile, Finish
<1>2. AuditAgrees' /\ FailureSavedBeforeAudit'
  BY CaseReviewAssumption
  DEF TypeInv, TypeOK, ReviewsTypeOK, AuditTypeOK, ProcessTypeOK, RunsExist, RunStatus, Event,
      LedgerInv, AuditAgrees, FailureSavedBeforeAudit, Rows, RunsIn, RunInv, SingleExecutor, Executing, Record,
      Deliver, reviews
<1> QED
  BY <1>1, <1>2 DEF LedgerInv

\* Claim preserves what is said of decisions and the log.
LEMMA ClaimLedger ==
  ASSUME TypeInv, RunInv, LedgerInv, NEW w \in Workers, Claim(w)
  PROVE  LedgerInv'
<1>1. DocumentDecidedOnce' /\ RequirementDecidedOnce'
  BY DEF LedgerInv, DocumentDecidedOnce, DocumentDecisions, RequirementDecidedOnce,
         RequirementDecisions, Claim, reviews, caseFile, Finish
<1>2. AuditAgrees' /\ FailureSavedBeforeAudit'
  BY CaseReviewAssumption
  DEF TypeInv, TypeOK, ReviewsTypeOK, AuditTypeOK, ProcessTypeOK, RunsExist, RunStatus, Event,
      LedgerInv, AuditAgrees, FailureSavedBeforeAudit, Rows, RunsIn, RunInv, SingleExecutor, Executing, Record,
      Claim, Claimable
<1> QED
  BY <1>1, <1>2 DEF LedgerInv

\* SkipClaimed preserves what is said of decisions and the log.
LEMMA SkipClaimedLedger ==
  ASSUME TypeInv, RunInv, LedgerInv, NEW w \in Workers, SkipClaimed(w)
  PROVE  LedgerInv'
<1>1. DocumentDecidedOnce' /\ RequirementDecidedOnce'
  BY DEF LedgerInv, DocumentDecidedOnce, DocumentDecisions, RequirementDecidedOnce,
         RequirementDecisions, SkipClaimed, reviews, caseFile, Finish
<1>2. AuditAgrees' /\ FailureSavedBeforeAudit'
  BY CaseReviewAssumption
  DEF TypeInv, TypeOK, ReviewsTypeOK, AuditTypeOK, ProcessTypeOK, RunsExist, RunStatus, Event,
      LedgerInv, AuditAgrees, FailureSavedBeforeAudit, Rows, RunsIn, RunInv, SingleExecutor, Executing, Record,
      SkipClaimed, Finish, reviews
<1> QED
  BY <1>1, <1>2 DEF LedgerInv

\* BuildSnapshot preserves what is said of decisions and the log.
LEMMA BuildSnapshotLedger ==
  ASSUME TypeInv, RunInv, LedgerInv, NEW w \in Workers, BuildSnapshot(w)
  PROVE  LedgerInv'
<1>1. DocumentDecidedOnce' /\ RequirementDecidedOnce'
  BY DEF LedgerInv, DocumentDecidedOnce, DocumentDecisions, RequirementDecidedOnce,
         RequirementDecisions, BuildSnapshot, reviews, caseFile, Finish
<1>2. AuditAgrees' /\ FailureSavedBeforeAudit'
  BY CaseReviewAssumption
  DEF TypeInv, TypeOK, ReviewsTypeOK, AuditTypeOK, ProcessTypeOK, RunsExist, RunStatus, Event,
      LedgerInv, AuditAgrees, FailureSavedBeforeAudit, Rows, RunsIn, RunInv, SingleExecutor, Executing, Record,
      BuildSnapshot, reviews
<1> QED
  BY <1>1, <1>2 DEF LedgerInv

\* ReviewSucceeds preserves what is said of decisions and the log.
LEMMA ReviewSucceedsLedger ==
  ASSUME TypeInv, RunInv, LedgerInv, NEW w \in Workers, ReviewSucceeds(w)
  PROVE  LedgerInv'
<1>1. DocumentDecidedOnce' /\ RequirementDecidedOnce'
  BY DEF LedgerInv, DocumentDecidedOnce, DocumentDecisions, RequirementDecidedOnce,
         RequirementDecisions, ReviewSucceeds, reviews, caseFile, Finish
<1>2. AuditAgrees' /\ FailureSavedBeforeAudit'
  BY CaseReviewAssumption
  DEF TypeInv, TypeOK, ReviewsTypeOK, AuditTypeOK, ProcessTypeOK, RunsExist, RunStatus, Event,
      LedgerInv, AuditAgrees, FailureSavedBeforeAudit, Rows, RunsIn, RunInv, SingleExecutor, Executing, Record,
      ReviewSucceeds, reviews
<1> QED
  BY <1>1, <1>2 DEF LedgerInv

\* ReviewFails preserves what is said of decisions and the log.
LEMMA ReviewFailsLedger ==
  ASSUME TypeInv, RunInv, LedgerInv, NEW w \in Workers, ReviewFails(w)
  PROVE  LedgerInv'
<1>1. DocumentDecidedOnce' /\ RequirementDecidedOnce'
  BY DEF LedgerInv, DocumentDecidedOnce, DocumentDecisions, RequirementDecidedOnce,
         RequirementDecisions, ReviewFails, reviews, caseFile, Finish
<1>2. AuditAgrees' /\ FailureSavedBeforeAudit'
  BY CaseReviewAssumption
  DEF TypeInv, TypeOK, ReviewsTypeOK, AuditTypeOK, ProcessTypeOK, RunsExist, RunStatus, Event,
      LedgerInv, AuditAgrees, FailureSavedBeforeAudit, Rows, RunsIn, RunInv, SingleExecutor, Executing, Record,
      ReviewFails, reviews
<1> QED
  BY <1>1, <1>2 DEF LedgerInv

\* RecordFailure preserves what is said of decisions and the log.
LEMMA RecordFailureLedger ==
  ASSUME TypeInv, RunInv, LedgerInv, NEW w \in Workers, RecordFailure(w)
  PROVE  LedgerInv'
<1>1. DocumentDecidedOnce' /\ RequirementDecidedOnce'
  BY DEF LedgerInv, DocumentDecidedOnce, DocumentDecisions, RequirementDecidedOnce,
         RequirementDecisions, RecordFailure, reviews, caseFile, Finish
<1>2. AuditAgrees' /\ FailureSavedBeforeAudit'
  BY CaseReviewAssumption
  DEF TypeInv, TypeOK, ReviewsTypeOK, AuditTypeOK, ProcessTypeOK, RunsExist, RunStatus, Event,
      LedgerInv, AuditAgrees, FailureSavedBeforeAudit, Rows, RunsIn, RunInv, SingleExecutor, Executing, Record,
      RecordFailure, Finish
<1> QED
  BY <1>1, <1>2 DEF LedgerInv

\* AuditFailure preserves what is said of decisions and the log.
LEMMA AuditFailureLedger ==
  ASSUME TypeInv, RunInv, LedgerInv, NEW w \in Workers, AuditFailure(w)
  PROVE  LedgerInv'
<1>1. DocumentDecidedOnce' /\ RequirementDecidedOnce'
  BY DEF LedgerInv, DocumentDecidedOnce, DocumentDecisions, RequirementDecidedOnce,
         RequirementDecisions, AuditFailure, reviews, caseFile, Finish
<1>2. AuditAgrees' /\ FailureSavedBeforeAudit'
  BY CaseReviewAssumption
  DEF TypeInv, TypeOK, ReviewsTypeOK, AuditTypeOK, ProcessTypeOK, RunsExist, RunStatus, Event,
      LedgerInv, AuditAgrees, FailureSavedBeforeAudit, Rows, RunsIn, RunInv, SingleExecutor, Executing, Record,
      AuditFailure, Finish
<1> QED
  BY <1>1, <1>2 DEF LedgerInv

\* DatabaseError preserves what is said of decisions and the log.
LEMMA DatabaseErrorLedger ==
  ASSUME TypeInv, RunInv, LedgerInv, NEW w \in Workers, DatabaseError(w)
  PROVE  LedgerInv'
<1>1. DocumentDecidedOnce' /\ RequirementDecidedOnce'
  BY DEF LedgerInv, DocumentDecidedOnce, DocumentDecisions, RequirementDecidedOnce,
         RequirementDecisions, DatabaseError, reviews, caseFile, Finish
<1>2. AuditAgrees' /\ FailureSavedBeforeAudit'
  BY CaseReviewAssumption
  DEF TypeInv, TypeOK, ReviewsTypeOK, AuditTypeOK, ProcessTypeOK, RunsExist, RunStatus, Event,
      LedgerInv, AuditAgrees, FailureSavedBeforeAudit, Rows, RunsIn, RunInv, SingleExecutor, Executing, Record,
      DatabaseError, Fault, Finish, reviews
<1> QED
  BY <1>1, <1>2 DEF LedgerInv

\* Crash preserves what is said of decisions and the log.
LEMMA CrashLedger ==
  ASSUME TypeInv, RunInv, LedgerInv, NEW w \in Workers, Crash(w)
  PROVE  LedgerInv'
<1>1. DocumentDecidedOnce' /\ RequirementDecidedOnce'
  BY DEF LedgerInv, DocumentDecidedOnce, DocumentDecisions, RequirementDecidedOnce,
         RequirementDecisions, Crash, reviews, caseFile, Finish
<1>2. AuditAgrees' /\ FailureSavedBeforeAudit'
  BY CaseReviewAssumption
  DEF TypeInv, TypeOK, ReviewsTypeOK, AuditTypeOK, ProcessTypeOK, RunsExist, RunStatus, Event,
      LedgerInv, AuditAgrees, FailureSavedBeforeAudit, Rows, RunsIn, RunInv, SingleExecutor, Executing, Record,
      Crash, Fault, Finish, reviews
<1> QED
  BY <1>1, <1>2 DEF LedgerInv


\* persist_result decides nothing: approved and rejected rows stay as they are.
LEMMA PersistResultLedger ==
  ASSUME TypeInv, RunInv, LedgerInv, NEW w \in Workers, PersistResult(w)
  PROVE  LedgerInv'
<1> DEFINE r   == task[w]
           new == NewRows(r, result[w].plan, result[w].extractions)
<1>1. /\ actions' = [a \in DOMAIN actions \cup new |->
                       IF a \notin DOMAIN actions THEN "pending"
                       ELSE IF Supersedes(r, a) THEN "superseded"
                       ELSE actions[a]]
      /\ runStatus' = [runStatus EXCEPT ![r] = "succeeded"]
      /\ audit' = Record("review_completed", r)
      /\ Finish(w)
      /\ UNCHANGED <<caseFile, runCase, faults>>
  BY DEF PersistResult
<1>2. r \in Runs /\ runStatus[r] = "running" /\ pc[w] = "persist"
  BY DEF TypeInv, TypeOK, ProcessTypeOK, RunsExist, RunsIn, RunInv, SingleExecutor, Executing,
         PersistResult
<1> HIDE DEF new
<1>3. \A status \in {"approved", "rejected"} : Rows(status)' = Rows(status)
  BY <1>1 DEF Rows, Supersedes
<1>4. \A d \in Docs : DocumentDecisions(d)' = DocumentDecisions(d)
  BY <1>1 DEF DocumentDecisions, Supersedes
<1>5. \A c \in Cases, q \in Reqs : RequirementDecisions(c, q)' = RequirementDecisions(c, q)
  BY <1>1 DEF RequirementDecisions, Supersedes
<1>6. DocumentDecidedOnce' /\ RequirementDecidedOnce'
  BY <1>1, <1>4, <1>5 DEF LedgerInv, DocumentDecidedOnce, RequirementDecidedOnce, caseFile
<1> HIDE DEF r
<1>7. AuditAgrees' /\ FailureSavedBeforeAudit'
  <2>1. RunsIn(RunStatus)' = RunsIn(RunStatus) /\ RunsIn({"failed"})' = RunsIn({"failed"})
    BY <1>1, <1>2 DEF RunsIn, RunStatus, TypeInv, TypeOK, ReviewsTypeOK
  <2>2. RunsIn({"succeeded"})' = RunsIn({"succeeded"}) \cup {r}
    BY <1>1, <1>2 DEF RunsIn, TypeInv, TypeOK, ReviewsTypeOK
  <2>3. /\ audit'["review_completed"] = audit["review_completed"] \cup {r}
        /\ \A e \in Event \ {"review_completed"} : audit'[e] = audit[e]
    BY <1>1 DEF Record, Event, TypeInv, TypeOK, ReviewsTypeOK, AuditTypeOK
  <2>4. /\ \A v \in Workers : pc'[v] = "audit" <=> pc[v] = "audit"
        /\ \A v \in Workers : pc[v] = "audit" => task'[v] = task[v]
    BY <1>1, <1>2 DEF Finish, TypeInv, TypeOK, ProcessTypeOK
  <2>5. {task[v] : v \in {u \in Workers : pc[u] = "audit"}}'
           = {task[v] : v \in {u \in Workers : pc[u] = "audit"}}
    BY <2>4
  <2>6. AuditAgrees'
    BY <1>1, <1>3, <2>1, <2>2, <2>3, <2>5 DEF LedgerInv, AuditAgrees, Event
  <2>7. FailureSavedBeforeAudit'
    BY <1>1, <1>2, <2>4
    DEF LedgerInv, FailureSavedBeforeAudit, TypeInv, TypeOK, ReviewsTypeOK, ProcessTypeOK
  <2> QED
    BY <2>6, <2>7
<1> QED
  BY <1>6, <1>7 DEF LedgerInv

\* A decision is entered under its event and leaves the runs and workers alone.
LEMMA DecisionAudited ==
  ASSUME TypeInv, LedgerInv, NEW a \in Pending, NEW status \in {"approved", "rejected"},
         Decide(a, status),
         audit' = Record(IF status = "approved" THEN "action_approved" ELSE "action_rejected", a),
         UNCHANGED <<runStatus, pc, task, faults>>
  PROVE  AuditAgrees' /\ FailureSavedBeforeAudit'
<1>1. /\ Rows(status)' = Rows(status) \cup {a}
      /\ \A other \in {"approved", "rejected"} \ {status} : Rows(other)' = Rows(other)
  BY DEF Decide, Rows, Pending, TypeInv, TypeOK, ReviewsTypeOK
<1>2. /\ status = "approved" =>
            /\ audit'["action_approved"] = audit["action_approved"] \cup {a}
            /\ \A e \in Event \ {"action_approved"} : audit'[e] = audit[e]
      /\ status = "rejected" =>
            /\ audit'["action_rejected"] = audit["action_rejected"] \cup {a}
            /\ \A e \in Event \ {"action_rejected"} : audit'[e] = audit[e]
  BY DEF Record, Event, TypeInv, TypeOK, ReviewsTypeOK, AuditTypeOK
<1>3. \A statuses : RunsIn(statuses)' = RunsIn(statuses)
  BY DEF RunsIn
<1>4. AuditAgrees'
  BY <1>1, <1>2, <1>3 DEF LedgerInv, AuditAgrees, Event
<1>5. FailureSavedBeforeAudit'
  BY DEF LedgerInv, FailureSavedBeforeAudit
<1> QED
  BY <1>4, <1>5

\* An approval is the first of its document or requirement.
LEMMA HumanLedger ==
  ASSUME TypeInv, LedgerInv, Human
  PROVE  LedgerInv'
<1>1. PICK a \in Pending :
         \/ ApproveAccept(a)
         \/ ApproveRejectDocument(a)
         \/ ApproveMark(a)
         \/ ApproveCaseStatus(a)
         \/ ApproveNoStateChange(a)
         \/ Reject(a)
  BY DEF Human
<1>2. a \in DOMAIN actions /\ a \in Row /\ RowShape(a) /\ actions[a] = "pending"
  BY DEF TypeInv, TypeOK, ReviewsTypeOK, WellFormed, Pending
<1>3. AuditAgrees' /\ FailureSavedBeforeAudit'
  <2>1. CASE Reject(a)
    BY <2>1, DecisionAudited DEF Reject, process
  <2>2. CASE ~Reject(a)
    <3>1. Approve(a)
      BY <1>1, <2>2
      DEF ApproveAccept, ApproveRejectDocument, ApproveMark, ApproveCaseStatus, ApproveNoStateChange
    <3> QED
      BY <3>1, DecisionAudited DEF Approve, process
  <2> QED
    BY <2>1, <2>2
<1>4. CASE ApproveAccept(a)
  <2>1. /\ DocumentDecidedOnce'
        /\ RequirementDecidedOnce'
    BY <1>2, <1>4
    DEF TypeInv, TypeOK, CaseFileTypeOK, LedgerInv, DocumentDecidedOnce, DocumentDecisions,
        RequirementDecidedOnce, RequirementDecisions, ApproveAccept, Approve, Decide,
        PendingDocument, RowShape
  <2> QED
    BY <1>3, <2>1 DEF LedgerInv
<1>5. CASE ApproveRejectDocument(a)
  <2>1. /\ DocumentDecidedOnce'
        /\ RequirementDecidedOnce'
    BY <1>2, <1>5
    DEF TypeInv, TypeOK, CaseFileTypeOK, LedgerInv, DocumentDecidedOnce, DocumentDecisions,
        RequirementDecidedOnce, RequirementDecisions, ApproveRejectDocument, Approve, Decide,
        PendingDocument, RowShape
  <2> QED
    BY <1>3, <2>1 DEF LedgerInv
<1>6. CASE ApproveMark(a)
  <2>1. a.case \in Cases /\ a.req \in Reqs
    BY <1>2, <1>6 DEF Row, RowShape, ApproveMark
  <2>2. DocumentDecidedOnce'
    BY <1>2, <1>6
    DEF LedgerInv, DocumentDecidedOnce, DocumentDecisions, ApproveMark, Approve, Decide
  <2>3. RequirementDecidedOnce'
    BY <1>2, <1>6, <2>1
    DEF TypeInv, TypeOK, CaseFileTypeOK, LedgerInv, RequirementDecidedOnce, RequirementDecisions,
        ApproveMark, Approve, Decide, Markable
  <2> QED
    BY <1>3, <2>2, <2>3 DEF LedgerInv
<1>7. CASE ApproveCaseStatus(a) \/ ApproveNoStateChange(a) \/ Reject(a)
  <2>1. DocumentDecidedOnce' /\ RequirementDecidedOnce'
    BY <1>2, <1>7
    DEF LedgerInv, DocumentDecidedOnce, DocumentDecisions, RequirementDecidedOnce,
        RequirementDecisions, ApproveCaseStatus, ApproveNoStateChange, Reject, Approve, Decide,
        caseFile
  <2> QED
    BY <1>3, <2>1 DEF LedgerInv
<1> QED
  BY <1>1, <1>4, <1>5, <1>6, <1>7

\* Every step preserves what the invariant says of decisions and the audit log.
LEMMA NextLedger == TypeInv /\ RunInv /\ LedgerInv /\ [Next]_vars => LedgerInv'
<1> SUFFICES ASSUME TypeInv, RunInv, LedgerInv, [Next]_vars
             PROVE  LedgerInv'
  OBVIOUS
<1>1. CASE Api
  <2>1. ASSUME NEW r \in Runs, Enqueue(r)
        PROVE  LedgerInv'
    BY <2>1, LedgerFrame DEF Enqueue, caseFile, reviews
  <2> QED
    BY <1>1, <2>1, CreateCaseLedger, AddDocumentLedger, StartReviewLedger DEF Api
<1>2. ASSUME NEW w \in Workers, NEW r \in Runs, Deliver(w, r)
      PROVE  LedgerInv'
  BY <1>2, DeliverLedger
<1>3. ASSUME NEW w \in Workers, Worker(w)
      PROVE  LedgerInv'
  BY <1>3, ClaimLedger, SkipClaimedLedger, BuildSnapshotLedger, ReviewSucceedsLedger,
     ReviewFailsLedger, PersistResultLedger, RecordFailureLedger, AuditFailureLedger
  DEF Worker
<1>4. CASE Human
  BY <1>4, HumanLedger
<1>5. CASE Failure
  <2>1. faults \in Nat
    BY CaseReviewAssumption DEF TypeInv, TypeOK, ProcessTypeOK
  <2>2. ASSUME NEW r \in Runs, EnqueueFails(r)
        PROVE  LedgerInv'
    BY <2>1, <2>2, LedgerFrame DEF EnqueueFails, Fault, caseFile, reviews
  <2>3. ASSUME NEW w \in Workers, Redeliver(w)
        PROVE  LedgerInv'
    BY <2>1, <2>3, LedgerFrame DEF Redeliver, Fault, caseFile, reviews
  <2> QED
    BY <1>5, <2>2, <2>3, DatabaseErrorLedger, CrashLedger DEF Failure
<1>6. CASE UNCHANGED vars
  BY <1>6, LedgerFrame DEF vars, caseFile, reviews, process
<1> QED
  BY <1>1, <1>2, <1>3, <1>4, <1>5, <1>6 DEF Next

-----------------------------------------------------------------------------
\* What a fault costs.  A step of the service loses no review; a fault loses at
\* most the one it struck.

Lost == Stranded \cup Unrecorded

\* The count follows from what one step adds to the lost reviews.
LEMMA CountLost ==
  ASSUME EachFaultCostsOneReview, TypeInv, NEW r,
         \/ Lost' \subseteq Lost /\ UNCHANGED faults
         \/ Lost' \subseteq Lost \cup {r} /\ faults' = faults + 1
  PROVE  EachFaultCostsOneReview'
<1>1. faults \in Nat
  BY CaseReviewAssumption DEF TypeInv, TypeOK, ProcessTypeOK
<1>2. IsFiniteSet(Lost) /\ Cardinality(Lost) <= faults /\ Cardinality(Lost) \in Nat
  BY FS_CardinalityType DEF EachFaultCostsOneReview, Lost
<1>3. CASE Lost' \subseteq Lost /\ UNCHANGED faults
  <2>1. IsFiniteSet(Lost') /\ Cardinality(Lost') <= Cardinality(Lost) /\ Cardinality(Lost') \in Nat
    BY <1>2, <1>3, FS_Subset, FS_CardinalityType
  <2> QED
    BY <1>1, <1>2, <1>3, <2>1 DEF EachFaultCostsOneReview, Lost
<1>4. CASE Lost' \subseteq Lost \cup {r} /\ faults' = faults + 1
  <2>1. /\ IsFiniteSet(Lost \cup {r})
        /\ Cardinality(Lost \cup {r}) <= Cardinality(Lost) + 1
        /\ Cardinality(Lost \cup {r}) \in Nat
    <3>1. /\ IsFiniteSet(Lost \cup {r})
          /\ \/ Cardinality(Lost \cup {r}) = Cardinality(Lost)
             \/ Cardinality(Lost \cup {r}) = Cardinality(Lost) + 1
      BY <1>2, FS_AddElement
    <3> QED
      BY <1>2, <3>1
  <2>2. /\ IsFiniteSet(Lost')
        /\ Cardinality(Lost') <= Cardinality(Lost \cup {r})
        /\ Cardinality(Lost') \in Nat
    BY <1>4, <2>1, FS_Subset, FS_CardinalityType
  <2> QED
    BY <1>1, <1>2, <1>4, <2>1, <2>2 DEF EachFaultCostsOneReview, Lost
<1> QED
  BY <1>3, <1>4

\* Nothing is lost by a step that leaves runs, messages, workers and log alone.
LEMMA LostFrame ==
  ASSUME UNCHANGED <<runStatus, onCommit, queue, pc, task>>,
         audit'["review_failed"] = audit["review_failed"]
  PROVE  Lost' = Lost
BY DEF Lost, Stranded, Unrecorded, RunsIn, Attended

\* Requests, deliveries and decisions lose nothing.
LEMMA ApiLosesNothing ==
  ASSUME TypeInv, Api
  PROVE  Lost' \subseteq Lost
<1>1. ASSUME NEW c \in Cases, CreateCase(c)
      PROVE  Lost' \subseteq Lost
  BY <1>1, LostFrame
  DEF CreateCase, process, Record, Event, TypeInv, TypeOK, ReviewsTypeOK, AuditTypeOK
<1>2. ASSUME NEW c \in Cases, NEW d \in Docs, AddDocument(c, d)
      PROVE  Lost' \subseteq Lost
  BY <1>2, LostFrame
  DEF AddDocument, process, Record, Event, TypeInv, TypeOK, ReviewsTypeOK, AuditTypeOK
<1>3. ASSUME NEW c \in Cases, NEW r \in Runs, StartReview(c, r)
      PROVE  Lost' \subseteq Lost
  <2>1. /\ runStatus' = [runStatus EXCEPT ![r] = "queued"]
        /\ onCommit' = onCommit \cup {r}
        /\ UNCHANGED <<queue, pc, task>>
        /\ audit'["review_failed"] = audit["review_failed"]
        /\ runStatus \in [Runs -> RunStatus \cup {"absent"}]
    BY <1>3 DEF StartReview, Record, Event, TypeInv, TypeOK, ReviewsTypeOK, AuditTypeOK
  <2> QED
    BY <2>1 DEF Lost, Stranded, Unrecorded, RunsIn, Attended
<1>4. ASSUME NEW r \in Runs, Enqueue(r)
      PROVE  Lost' \subseteq Lost
  BY <1>4 DEF Enqueue, reviews, Lost, Stranded, Unrecorded, RunsIn, Attended
<1> QED
  BY <1>1, <1>2, <1>3, <1>4 DEF Api

LEMMA DeliverLosesNothing ==
  ASSUME TypeInv, NEW w \in Workers, NEW r \in Runs, Deliver(w, r)
  PROVE  Lost' \subseteq Lost
<1>1. /\ pc[w] = "idle"
      /\ queue' = queue \ {r}
      /\ pc' = [pc EXCEPT ![w] = "claim"]
      /\ task' = [task EXCEPT ![w] = r]
      /\ UNCHANGED <<runStatus, audit, onCommit>>
      /\ pc \in [Workers -> Executing \cup {"idle", "claim", "audit"}]
      /\ task \in [Workers -> Runs \cup {NoRun}]
  BY DEF Deliver, reviews, TypeInv, TypeOK, ProcessTypeOK
<1> QED
  BY <1>1 DEF Lost, Stranded, Unrecorded, RunsIn, Attended, Executing

LEMMA HumanLosesNothing ==
  ASSUME TypeInv, Human
  PROVE  Lost' \subseteq Lost
<1>1. PICK a \in Pending, event \in {"action_approved", "action_rejected"} :
         audit' = Record(event, a) /\ UNCHANGED <<runStatus, process>>
  BY DEF Human, ApproveAccept, ApproveRejectDocument, ApproveMark, ApproveCaseStatus,
         ApproveNoStateChange, Reject, Approve
<1>2. audit'["review_failed"] = audit["review_failed"]
  BY <1>1 DEF Record, Event, TypeInv, TypeOK, ReviewsTypeOK, AuditTypeOK
<1> QED
  BY <1>1, <1>2, LostFrame DEF process

\* A worker only leaves a review that another goes on with, that it passes on as
\* failed, or that has ended.
LEMMA WorkerLosesNothing ==
  ASSUME TypeInv, RunInv, LedgerInv, NEW w \in Workers, Worker(w)
  PROVE  Lost' \subseteq Lost
<1> USE DEF Lost, Stranded, Unrecorded, RunsIn, Attended
<1>1. /\ runStatus \in [Runs -> RunStatus \cup {"absent"}]
      /\ pc \in [Workers -> Executing \cup {"idle", "claim", "audit"}]
      /\ task \in [Workers -> Runs \cup {NoRun}]
      /\ pc[w] # "idle" => task[w] \in Runs
      /\ pc[w] \in Executing => runStatus[task[w]] = "running"
      /\ pc[w] = "audit" => runStatus[task[w]] = "failed"
  BY DEF TypeInv, TypeOK, ReviewsTypeOK, ProcessTypeOK, RunsExist, RunInv, SingleExecutor,
         LedgerInv, FailureSavedBeforeAudit
<1>2. CASE Claim(w)
  BY <1>1, <1>2 DEF Claim, Claimable, Executing
<1>3. CASE SkipClaimed(w)
  BY <1>1, <1>3 DEF SkipClaimed, Claimable, Finish, reviews, Executing
<1>4. CASE BuildSnapshot(w) \/ ReviewSucceeds(w)
  BY <1>1, <1>4 DEF BuildSnapshot, ReviewSucceeds, reviews, Executing
<1>5. CASE ReviewFails(w)
  BY <1>1, <1>5 DEF ReviewFails, reviews, Executing
<1>6. CASE PersistResult(w)
  <2>1. audit'["review_failed"] = audit["review_failed"]
    BY <1>6 DEF PersistResult, Record, Event, TypeInv, TypeOK, ReviewsTypeOK, AuditTypeOK
  <2> QED
    BY <1>1, <1>6, <2>1 DEF PersistResult, Finish, Executing
<1>7. CASE RecordFailure(w)
  BY <1>1, <1>7 DEF RecordFailure, Executing
<1>8. CASE AuditFailure(w)
  <2>1. audit'["review_failed"] = audit["review_failed"] \cup {task[w]}
    BY <1>8 DEF AuditFailure, Record, Event, TypeInv, TypeOK, ReviewsTypeOK, AuditTypeOK
  <2> QED
    BY <1>1, <1>8, <2>1 DEF AuditFailure, Finish, Executing
<1> QED
  BY <1>2, <1>3, <1>4, <1>5, <1>6, <1>7, <1>8 DEF Worker

\* A fault loses at most the review it strikes; a second delivery loses none.
LEMMA FaultLosesOne ==
  ASSUME TypeInv, Failure
  PROVE  \E r : Lost' \subseteq Lost \cup {r} /\ faults' = faults + 1
<1> USE DEF Lost, Stranded, Unrecorded, RunsIn, Attended, Fault, reviews
<1>1. ASSUME NEW r \in Runs, EnqueueFails(r)
      PROVE  Lost' \subseteq Lost \cup {r} /\ faults' = faults + 1
  BY <1>1 DEF EnqueueFails
<1>2. ASSUME NEW w \in Workers, DatabaseError(w) \/ Crash(w)
      PROVE  Lost' \subseteq Lost \cup {task[w]} /\ faults' = faults + 1
  <2>1. /\ UNCHANGED <<runStatus, audit, onCommit>>
        /\ queue \subseteq queue'
        /\ faults' = faults + 1
        /\ \A v \in Workers : task[v] # task[w] => pc'[v] = pc[v] /\ task'[v] = task[v]
    BY <1>2 DEF DatabaseError, Crash, Finish, TypeInv, TypeOK, ProcessTypeOK
  <2> QED
    BY <2>1
<1>3. ASSUME NEW w \in Workers, Redeliver(w)
      PROVE  Lost' \subseteq Lost \cup {task[w]} /\ faults' = faults + 1
  BY <1>3 DEF Redeliver
<1> QED
  BY <1>1, <1>2, <1>3 DEF Failure

-----------------------------------------------------------------------------
\* The theorems.

\* The inductive invariant holds in every reachable state.
LEMMA Inductive == Spec => []IndInv
<1>1. Init => IndInv
  <2> SUFFICES ASSUME Init PROVE IndInv
    OBVIOUS
  <2>1. RunInv
    BY DEF Init, RunInv, SingleExecutor, ActiveIsNewest, NothingProposedUnlessCompleted,
           RowsUnderTheirRun, OnlyLatestActionable, Pending, Executing
  <2>2. FileInv
    BY DEF Init, FileInv, DocumentsFilled, WorkStaysInCase, TargetsOwnCase, SatisfiedIsBacked,
           ReadyIsComplete
  <2>3. LedgerInv
    BY DEF Init, LedgerInv, DocumentDecidedOnce, DocumentDecisions, RequirementDecidedOnce,
           RequirementDecisions, AuditAgrees, FailureSavedBeforeAudit, Rows, RunsIn, RunStatus, Event
  <2> QED
    BY <2>1, <2>2, <2>3, TypeInit DEF IndInv
<1>2. IndInv /\ [Next]_vars => IndInv'
  BY NextType, NextRuns, NextFile, NextLedger DEF IndInv, FileInv
<1> QED
  BY <1>1, <1>2, PTL DEF Spec

\* Every variable keeps to its type, for all constants, faults included.
THEOREM TypeCorrect == Spec => []TypeOK
<1>1. IndInv => TypeOK
  BY DEF IndInv, TypeInv
<1> QED
  BY <1>1, Inductive, PTL

\* A case never has two active reviews (start_review; models.py,
\* one_active_run_per_case), for any number of cases, runs, workers and faults.
THEOREM OneReviewAtATime == Spec => []OneActiveRun
<1>1. IndInv => OneActiveRun
  BY CaseReviewAssumption
  DEF IndInv, RunInv, ActiveIsNewest, OneActiveRun
<1> QED
  BY <1>1, Inductive, PTL

\* Only one worker ever executes a run, however often its message is delivered
\* (the atomic claim of execute_review).
THEOREM OneWorkerPerRun == Spec => []SingleExecutor
<1>1. IndInv => SingleExecutor
  BY DEF IndInv, RunInv
<1> QED
  BY <1>1, Inductive, PTL

\* Only the newest completed review's suggestions can be decided on
\* (persist_result).
THEOREM StaleAdviceExpires == Spec => []OnlyLatestActionable
<1>1. IndInv => OnlyLatestActionable
  BY DEF IndInv, RunInv
<1> QED
  BY <1>1, Inductive, PTL

\* A review that did not complete has proposed nothing (execute_review).
THEOREM FailedReviewsProposeNothing == Spec => []NothingProposedUnlessCompleted
<1>1. IndInv => NothingProposedUnlessCompleted
  BY DEF IndInv, RunInv
<1> QED
  BY <1>1, Inductive, PTL

\* What a plan names is in the case of its run, so the lookups find it ...
LEMMA PlanIsFound ==
  ASSUME TypeInv, FileInv, NEW w \in Workers, pc[w] = "persist", NEW draft \in result[w].plan
  PROVE  StoredDoc(task[w], draft.doc) = draft.doc /\ StoredReq(draft.req) = draft.req
<1>1. draft \in Draft
  BY DEF TypeInv, TypeOK, ProcessTypeOK
<1>2. draft.doc # NoDoc => docCase[draft.doc] = runCase[task[w]]
  BY DEF FileInv, WorkStaysInCase
<1> QED
  BY <1>1, <1>2, LookupsSucceed

\* ... and every row about a document has it.
LEMMA TargetsAreFound == TypeInv /\ FileInv => TargetsResolve
<1> SUFFICES ASSUME TypeInv, FileInv PROVE TargetsResolve
  OBVIOUS
<1>1. ASSUME NEW w \in Workers, pc[w] = "persist", NEW draft \in result[w].plan
      PROVE  StoredDoc(task[w], draft.doc) = draft.doc
  BY <1>1, PlanIsFound
<1>2. \A a \in DOMAIN actions : RowShape(a)
  BY DEF TypeInv, WellFormed
<1> QED
  BY <1>1, <1>2 DEF TargetsResolve, RowShape

\* What a plan names is still found when its rows are stored and, for a
\* suggestion about a document, when it is approved (persist_result, approvals).
THEOREM TargetsFound == Spec => []TargetsResolve
<1>1. IndInv => TargetsResolve
  BY TargetsAreFound DEF IndInv
<1> QED
  BY <1>1, Inductive, PTL

\* _payload finds every extraction it looks up.
THEOREM PayloadsAreAvailable == Spec => []PayloadAvailable
<1>1. IndInv => PayloadAvailable
  BY DEF IndInv, TypeInv, WellFormed, DraftShape, PayloadAvailable
<1> QED
  BY <1>1, Inductive, PTL

\* A satisfied requirement is backed by an accepted document of its case with a
\* stored extraction (approvals).
THEOREM SatisfiedRequirementsAreBacked == Spec => []SatisfiedIsBacked
<1>1. IndInv => SatisfiedIsBacked
  BY DEF IndInv, FileInv
<1> QED
  BY <1>1, Inductive, PTL

\* A case ready for submission has no open requirement (approvals).
THEOREM ReadyCasesAreComplete == Spec => []ReadyIsComplete
<1>1. IndInv => ReadyIsComplete
  BY DEF IndInv, FileInv
<1> QED
  BY <1>1, Inductive, PTL

\* One decision per document takes effect, and the document carries its result.
THEOREM DocumentsAreDecidedOnce == Spec => []DocumentDecidedOnce
<1>1. IndInv => DocumentDecidedOnce
  BY DEF IndInv, LedgerInv
<1> QED
  BY <1>1, Inductive, PTL

\* One approved suggestion per satisfied requirement, naming its document.
THEOREM RequirementsAreDecidedOnce == Spec => []RequirementDecidedOnce
<1>1. IndInv => RequirementDecidedOnce
  BY DEF IndInv, LedgerInv
<1> QED
  BY <1>1, Inductive, PTL

\* The audit log has exactly the entries the tables call for, up to the entry a
\* fault may cost in _fail.
THEOREM EverythingIsAttributable == Spec => []AuditAgrees
<1>1. IndInv => AuditAgrees
  BY DEF IndInv, LedgerInv
<1> QED
  BY <1>1, Inductive, PTL

\* A review that blocks its case for good, or failed without an entry, takes a
\* fault of its own: execute_review and _fail lose no other.  Every instance of
\* EveryRunFinishes rests on it: what is queued or running is in good hands.
THEOREM FaultsCostOneReview == Spec => []EachFaultCostsOneReview
<1>1. Init => EachFaultCostsOneReview
  <2> SUFFICES ASSUME Init PROVE EachFaultCostsOneReview
    OBVIOUS
  <2>1. Stranded \cup Unrecorded = {}
    BY DEF Init, Stranded, Unrecorded, RunsIn
  <2>2. IsFiniteSet(Stranded \cup Unrecorded) /\ Cardinality(Stranded \cup Unrecorded) = 0
    BY <2>1, FS_EmptySet
  <2>3. faults = 0
    BY DEF Init
  <2> QED
    BY <2>2, <2>3 DEF EachFaultCostsOneReview
<1>2. IndInv /\ EachFaultCostsOneReview /\ [Next]_vars => EachFaultCostsOneReview'
  <2> SUFFICES ASSUME IndInv, EachFaultCostsOneReview, [Next]_vars
               PROVE  EachFaultCostsOneReview'
    OBVIOUS
  <2>1. CASE Api
    BY <2>1, ApiLosesNothing, CountLost
    DEF IndInv, Api, CreateCase, AddDocument, StartReview, Enqueue
  <2>2. ASSUME NEW w \in Workers, NEW r \in Runs, Deliver(w, r)
        PROVE  EachFaultCostsOneReview'
    BY <2>2, DeliverLosesNothing, CountLost DEF IndInv, Deliver
  <2>3. ASSUME NEW w \in Workers, Worker(w)
        PROVE  EachFaultCostsOneReview'
    BY <2>3, WorkerLosesNothing, CountLost
    DEF IndInv, Worker, Claim, SkipClaimed, BuildSnapshot, ReviewSucceeds, ReviewFails,
        PersistResult, RecordFailure, AuditFailure
  <2>4. CASE Human
    BY <2>4, HumanLosesNothing, CountLost
    DEF IndInv, Human, ApproveAccept, ApproveRejectDocument, ApproveMark, ApproveCaseStatus,
        ApproveNoStateChange, Reject, Approve
  <2>5. CASE Failure
    BY <2>5, FaultLosesOne, CountLost DEF IndInv
  <2>6. CASE UNCHANGED vars
    BY <2>6, LostFrame, CountLost DEF IndInv, vars, reviews, process
  <2> QED
    BY <2>1, <2>2, <2>3, <2>4, <2>5, <2>6 DEF Next
<1> QED
  BY <1>1, <1>2, Inductive, PTL DEF Spec

\* What HistoryStays says of one step.
HistoryStep ==
    /\ \A r \in RunsIn({"succeeded", "failed"}) : runStatus'[r] = runStatus[r]
    /\ \A a \in DOMAIN actions :
          /\ a \in DOMAIN actions'
          /\ actions[a] # "pending" => actions'[a] = actions[a]

\* Runs that ended and suggestions that were decided or superseded stay so.
THEOREM HistoryIsFinal == Spec => HistoryStays
<1>1. IndInv /\ [Next]_vars => HistoryStep
  <2> SUFFICES ASSUME IndInv, [Next]_vars
               PROVE  HistoryStep
    OBVIOUS
  <2> USE DEF HistoryStep, RunsIn
  <2>1. ASSUME UNCHANGED <<runStatus, actions>>
        PROVE  HistoryStep
    BY <2>1
  <2>2. ASSUME NEW c \in Cases, NEW r \in Runs, StartReview(c, r)
        PROVE  HistoryStep
    BY <2>2, CaseReviewAssumption
    DEF StartReview, FreshRun, IndInv, TypeInv, TypeOK, ReviewsTypeOK
  <2>3. CASE Api
    BY <2>1, <2>2, <2>3 DEF Api, CreateCase, AddDocument, Enqueue, reviews
  <2>4. ASSUME NEW w \in Workers, Worker(w)
        PROVE  HistoryStep
    <3>1. CASE Claim(w)
      BY <3>1 DEF Claim, Claimable, IndInv, TypeInv, TypeOK, ReviewsTypeOK
    <3>2. CASE RecordFailure(w)
      BY <3>2
      DEF RecordFailure, IndInv, RunInv, SingleExecutor, Executing, TypeInv, TypeOK, ReviewsTypeOK
    <3>3. CASE PersistResult(w)
      BY <3>3
      DEF PersistResult, Supersedes, IndInv, RunInv, SingleExecutor, Executing, TypeInv, TypeOK,
          ReviewsTypeOK
    <3> QED
      BY <2>1, <2>4, <3>1, <3>2, <3>3
      DEF Worker, SkipClaimed, BuildSnapshot, ReviewSucceeds, ReviewFails, AuditFailure, reviews
  <2>5. ASSUME NEW w \in Workers, NEW r \in Runs, Deliver(w, r)
        PROVE  HistoryStep
    BY <2>1, <2>5 DEF Deliver, reviews
  <2>6. CASE Human
    BY <2>6
    DEF Human, ApproveAccept, ApproveRejectDocument, ApproveMark, ApproveCaseStatus,
        ApproveNoStateChange, Reject, Approve, Decide, Pending
  <2>7. CASE Failure
    BY <2>1, <2>7 DEF Failure, EnqueueFails, DatabaseError, Crash, Redeliver, reviews
  <2>8. CASE UNCHANGED vars
    BY <2>1, <2>8 DEF vars, reviews
  <2> QED
    BY <2>3, <2>4, <2>5, <2>6, <2>7, <2>8 DEF Next
<1> QED
  BY <1>1, Inductive, PTL DEF Spec, HistoryStays, HistoryStep
=============================================================================
