--------------------------- MODULE AdminSiteProofs ---------------------------
(***************************************************************************)
(* What survives the edits of an operator, proved for every value of the   *)
(* constants.  The steps of the service keep TypeInv and FileInv without   *)
(* the other parts of its invariant (CaseReviewProofs), so it is enough    *)
(* that every page still open shows a case file that is sound.             *)
(***************************************************************************)
EXTENDS AdminSite, CaseReviewProofs

\* Runs are never deleted, and one that ended is never active again.
RunStep ==
    \A r \in Runs :
        /\ runStatus[r] \in RunStatus => runStatus'[r] \in RunStatus
        /\ runStatus[r] \in {"succeeded", "failed"} => ~Active(runStatus'[r])

LEMMA ServiceRunStep ==
  ASSUME TypeInv, [Next]_vars
  PROVE  RunStep
<1> USE DEF RunStep, Active, RunStatus
<1>1. ASSUME UNCHANGED runStatus
      PROVE  RunStep
  BY <1>1
<1>2. ASSUME NEW c \in Cases, NEW r \in Runs, StartReview(c, r)
      PROVE  RunStep
  BY <1>2, CaseReviewAssumption DEF StartReview, FreshRun, TypeInv, TypeOK, ReviewsTypeOK
<1>3. CASE Api
  BY <1>1, <1>2, <1>3 DEF Api, CreateCase, AddDocument, Enqueue, reviews
<1>4. ASSUME NEW w \in Workers, Worker(w)
      PROVE  RunStep
  <2>1. CASE Claim(w)
    BY <2>1 DEF Claim, Claimable, TypeInv, TypeOK, ReviewsTypeOK
  <2>2. CASE RecordFailure(w)
    BY <2>2 DEF RecordFailure, TypeInv, TypeOK, ReviewsTypeOK
  <2>3. CASE PersistResult(w)
    BY <2>3 DEF PersistResult, TypeInv, TypeOK, ReviewsTypeOK
  <2> QED
    BY <1>1, <1>4, <2>1, <2>2, <2>3
    DEF Worker, SkipClaimed, BuildSnapshot, ReviewSucceeds, ReviewFails, AuditFailure, reviews
<1>5. ASSUME NEW w \in Workers, NEW r \in Runs, Deliver(w, r)
      PROVE  RunStep
  BY <1>1, <1>5 DEF Deliver, reviews
<1>6. CASE Human
  BY <1>1, <1>6
  DEF Human, ApproveAccept, ApproveRejectDocument, ApproveMark, ApproveCaseStatus,
      ApproveNoStateChange, Reject, Approve
<1>7. CASE Failure
  BY <1>1, <1>7 DEF Failure, EnqueueFails, DatabaseError, Crash, Redeliver, reviews
<1>8. CASE UNCHANGED vars
  BY <1>1, <1>8 DEF vars, reviews
<1> QED
  BY <1>3, <1>4, <1>5, <1>6, <1>7, <1>8 DEF Next

\* An accepted document stays accepted, with an extraction, in its case: no
\* upload, review or decision touches it again.
AcceptanceStep ==
    \A d \in Docs :
        docStatus[d] = "accepted" =>
            /\ docStatus'[d] = "accepted"
            /\ docCase'[d] = docCase[d]
            /\ docExtraction'[d] = docExtraction[d]

LEMMA ServiceAcceptance ==
  ASSUME TypeInv, [Next]_vars
  PROVE  AcceptanceStep
<1> USE DEF AcceptanceStep
<1>1. ASSUME UNCHANGED <<docStatus, docCase, docExtraction>>
      PROVE  AcceptanceStep
  BY <1>1
<1>2. CASE Api
  BY <1>1, <1>2
  DEF Api, CreateCase, AddDocument, StartReview, Enqueue, caseFile, TypeInv, TypeOK, CaseFileTypeOK
<1>3. ASSUME NEW w \in Workers, Worker(w)
      PROVE  AcceptanceStep
  BY <1>1, <1>3
  DEF Worker, Claim, SkipClaimed, BuildSnapshot, ReviewSucceeds, ReviewFails, PersistResult,
      RecordFailure, AuditFailure, caseFile
<1>4. ASSUME NEW w \in Workers, NEW r \in Runs, Deliver(w, r)
      PROVE  AcceptanceStep
  BY <1>1, <1>4 DEF Deliver, caseFile
<1>5. CASE Human
  BY <1>1, <1>5
  DEF Human, ApproveAccept, ApproveRejectDocument, ApproveMark, ApproveCaseStatus,
      ApproveNoStateChange, Reject, Approve, PendingDocument, caseFile, TypeInv, TypeOK,
      CaseFileTypeOK
<1>6. CASE Failure
  BY <1>1, <1>6 DEF Failure, EnqueueFails, DatabaseError, Crash, Redeliver, caseFile
<1>7. CASE UNCHANGED vars
  BY <1>1, <1>7 DEF vars, caseFile
<1> QED
  BY <1>2, <1>3, <1>4, <1>5, <1>6, <1>7 DEF Next

\* The forms that are open stay sound while the documents they cite do.
LEMMA PagesStaySound ==
  ASSUME PagesAreSound, AcceptanceStep, UNCHANGED caseForm
  PROVE  PagesAreSound'
BY DEF PagesAreSound, PageIsSound, AcceptanceStep

\* A step of the service next to open pages.
LEMMA ServiceAdmin ==
  ASSUME AdminInv, Next, UNCHANGED forms
  PROVE  AdminInv'
<1>1. TypeInv' /\ FileInv'
  BY NextType, NextFile DEF AdminInv, FileInv
<1>2. FormsTypeOK'
  BY ServiceRunStep DEF AdminInv, FormsTypeOK, forms, RunStep, RunsIn
<1>3. PagesAreSound'
  BY ServiceAcceptance, PagesStaySound DEF AdminInv, forms
<1> QED
  BY <1>1, <1>2, <1>3 DEF AdminInv

LEMMA SaveRunAdmin ==
  ASSUME AdminInv, NEW r \in Runs, NEW traces \in TracesField, SaveRun(r, traces)
  PROVE  AdminInv'
<1>1. /\ r \in RunsIn(RunStatus)
      /\ runStatus' = [runStatus EXCEPT ![r] = "failed"]
      /\ UNCHANGED <<caseFile, runCase, actions, audit, process, faults, caseForm>>
      /\ runForms' = runForms \ {r}
  BY DEF SaveRun, AdminInv, FormsTypeOK
<1>2. TypeOK'
  BY <1>1
  DEF AdminInv, TypeInv, TypeOK, CaseFileTypeOK, ReviewsTypeOK, AuditTypeOK, ProcessTypeOK, RunStatus,
      caseFile, process
<1>3. RunsIn(RunStatus)' = RunsIn(RunStatus)
  BY <1>1 DEF AdminInv, TypeInv, TypeOK, ReviewsTypeOK, RunsIn, RunStatus
<1>4. RunsExist' /\ WellFormed'
  BY <1>1, <1>3 DEF AdminInv, TypeInv, RunsExist, WellFormed, process
<1>5. FileInv'
  BY <1>1, FileFrame DEF AdminInv, FileInv, WorkStaysInCase, caseFile, process
<1>6. FormsTypeOK'
  BY <1>1, <1>3 DEF AdminInv, FormsTypeOK
<1>7. PagesAreSound'
  BY <1>1 DEF AdminInv, PagesAreSound, PageIsSound, caseFile
<1> QED
  BY <1>2, <1>4, <1>5, <1>6, <1>7 DEF AdminInv, TypeInv

\* Opening a page copies values that are sound now.
LEMMA OpenAdmin ==
  ASSUME AdminInv, \/ \E r \in Runs : OpenRun(r)
                   \/ \E c \in Cases : OpenCase(c)
  PROVE  AdminInv'
<1>1. UNCHANGED vars
  BY DEF OpenRun, OpenCase
<1>2. TypeInv'
  BY <1>1, NextType DEF AdminInv, FileInv
<1>3. FileInv'
  BY <1>1, NextFile DEF AdminInv
<1>4. CASE \E r \in Runs : OpenRun(r)
  <2>1. FormsTypeOK'
    BY <1>1, <1>4
    DEF AdminInv, FormsTypeOK, OpenRun, Active, RunsIn, RunStatus, vars, reviews
  <2>2. PagesAreSound'
    BY <1>1, <1>4 DEF AdminInv, PagesAreSound, PageIsSound, OpenRun, vars, caseFile
  <2> QED
    BY <1>2, <1>3, <2>1, <2>2 DEF AdminInv
<1>5. ASSUME NEW c \in Cases, OpenCase(c)
      PROVE  AdminInv'
  <2>1. /\ UNCHANGED <<caseStatus, reqStatus, satisfiedBy, docCase, docStatus, docExtraction,
                       runStatus, runForms>>
        /\ caseStatus[c] # "absent"
        /\ caseForm' = [caseForm EXCEPT ![c] = [status |-> caseStatus[c], reqs |-> reqStatus[c],
                                                by |-> satisfiedBy[c]]]
    BY <1>1, <1>5 DEF OpenCase, vars, caseFile, reviews
  <2>2. FormsTypeOK'
    BY <2>1 DEF AdminInv, TypeInv, TypeOK, CaseFileTypeOK, FormsTypeOK, Form, RunsIn
  <2>3. \A b \in Cases : caseForm'[b] # NoForm => PageIsSound(b)'
    <3> SUFFICES ASSUME NEW b \in Cases, caseForm'[b] # NoForm
                 PROVE  PageIsSound(b)'
      OBVIOUS
    <3>1. CASE b = c
      <4>1. /\ caseForm'[b].status = caseStatus[c]
            /\ caseForm'[b].reqs = reqStatus[c]
            /\ caseForm'[b].by = satisfiedBy[c]
        BY <2>1, <3>1 DEF AdminInv, FormsTypeOK
      <4> QED
        BY <2>1, <3>1, <4>1 DEF AdminInv, FileInv, SatisfiedIsBacked, ReadyIsComplete, PageIsSound
    <3>2. CASE b # c
      <4>1. caseForm'[b] = caseForm[b]
        BY <2>1, <3>2 DEF AdminInv, FormsTypeOK
      <4> QED
        BY <2>1, <4>1 DEF AdminInv, PagesAreSound, PageIsSound
    <3> QED
      BY <3>1, <3>2
  <2> QED
    BY <1>2, <1>3, <2>2, <2>3 DEF AdminInv, PagesAreSound
<1> QED
  BY <1>4, <1>5

\* Saving the page of a case writes back a sound case file.
LEMMA SaveCaseAdmin ==
  ASSUME AdminInv, NEW c \in Cases, SaveCase(c)
  PROVE  AdminInv'
<1>1. PICK status \in {caseForm[c].status, "closed"} :
         caseStatus' = [caseStatus EXCEPT ![c] = status]
  BY DEF SaveCase
<1>2. /\ caseForm[c] \in Form
      /\ PageIsSound(c)
      /\ reqStatus' = [reqStatus EXCEPT ![c] = caseForm[c].reqs]
      /\ satisfiedBy' = [satisfiedBy EXCEPT ![c] = caseForm[c].by]
      /\ caseForm' = [caseForm EXCEPT ![c] = NoForm]
      /\ UNCHANGED <<docCase, docStatus, docExtraction, reviews, process, faults, runForms>>
  BY DEF SaveCase, AdminInv, FormsTypeOK, PagesAreSound
<1>3. CaseFileTypeOK'
  BY <1>1, <1>2 DEF AdminInv, TypeInv, TypeOK, CaseFileTypeOK, Form, CaseStatus
<1>4. TypeInv'
  BY <1>2, <1>3
  DEF AdminInv, TypeInv, TypeOK, ReviewsTypeOK, AuditTypeOK, ProcessTypeOK, RunsExist, WellFormed,
      reviews, process, RunsIn
<1>5. SatisfiedIsBacked'
  <2> SUFFICES ASSUME NEW b \in Cases, NEW q \in Reqs, reqStatus'[b][q] = "satisfied"
               PROVE  /\ satisfiedBy'[b][q] \in Docs
                      /\ docCase[satisfiedBy'[b][q]] = b
                      /\ docStatus[satisfiedBy'[b][q]] = "accepted"
                      /\ docExtraction[satisfiedBy'[b][q]] \in Extractions
    BY <1>2 DEF SatisfiedIsBacked
  <2>1. CASE b = c
    BY <1>2, <2>1 DEF PageIsSound, AdminInv, TypeInv, TypeOK, CaseFileTypeOK
  <2>2. CASE b # c
    BY <1>2, <2>2 DEF AdminInv, FileInv, SatisfiedIsBacked, TypeInv, TypeOK, CaseFileTypeOK
  <2> QED
    BY <2>1, <2>2
<1>6. ReadyIsComplete'
  BY <1>1, <1>2
  DEF AdminInv, FileInv, ReadyIsComplete, PageIsSound, TypeInv, TypeOK, CaseFileTypeOK
<1>7. FileInv'
  BY <1>2, <1>5, <1>6
  DEF AdminInv, FileInv, DocumentsFilled, WorkStaysInCase, TargetsOwnCase, reviews, process
<1>8. FormsTypeOK'
  BY <1>2 DEF AdminInv, FormsTypeOK, reviews, RunsIn
<1>9. PagesAreSound'
  BY <1>2 DEF AdminInv, FormsTypeOK, PagesAreSound, PageIsSound
<1> QED
  BY <1>4, <1>7, <1>8, <1>9 DEF AdminInv

\* The inductive invariant of the service and its operator.
LEMMA AdminInductive == AdminSpec => []AdminInv
<1>1. AdminInit => AdminInv
  BY TypeInit
  DEF AdminInit, Init, AdminInv, FormsTypeOK, PagesAreSound, FileInv, DocumentsFilled,
      WorkStaysInCase, TargetsOwnCase, SatisfiedIsBacked, ReadyIsComplete
<1>2. AdminInv /\ [AdminNext]_adminVars => AdminInv'
  <2> SUFFICES ASSUME AdminInv, [AdminNext]_adminVars
               PROVE  AdminInv'
    OBVIOUS
  <2>1. CASE Next /\ UNCHANGED forms
    BY <2>1, ServiceAdmin
  <2>2. CASE Edit
    BY <2>2, OpenAdmin, SaveRunAdmin, SaveCaseAdmin DEF Edit
  <2>3. CASE UNCHANGED adminVars
    <3>1. TypeInv' /\ FileInv'
      BY <2>3, NextType, NextFile DEF AdminInv, FileInv, adminVars
    <3>2. FormsTypeOK' /\ PagesAreSound'
      BY <2>3
      DEF AdminInv, FormsTypeOK, PagesAreSound, PageIsSound, adminVars, forms, vars, caseFile, reviews,
          RunsIn
    <3> QED
      BY <3>1, <3>2 DEF AdminInv
  <2> QED
    BY <2>1, <2>2, <2>3 DEF AdminNext
<1> QED
  BY <1>1, <1>2, PTL DEF AdminSpec

\* Every variable of the service and every open page keeps to its type.
THEOREM PagesTypeCorrect == AdminSpec => [](TypeOK /\ FormsTypeOK)
<1>1. AdminInv => TypeOK /\ FormsTypeOK
  BY DEF AdminInv, TypeInv
<1> QED
  BY <1>1, AdminInductive, PTL

\* A satisfied requirement stays backed by an accepted document of its case,
\* whatever stale page of the case is saved (CaseAdmin, ChecklistInline).
THEOREM EditsKeepRequirementsBacked == AdminSpec => []SatisfiedIsBacked
<1>1. AdminInv => SatisfiedIsBacked
  BY DEF AdminInv, FileInv
<1> QED
  BY <1>1, AdminInductive, PTL

\* A stale page never leaves a case ready with a requirement open, because it
\* writes status and checklist back together.
THEOREM EditsKeepReadyComplete == AdminSpec => []ReadyIsComplete
<1>1. AdminInv => ReadyIsComplete
  BY DEF AdminInv, FileInv
<1> QED
  BY <1>1, AdminInductive, PTL

\* What a plan names is still found when its rows are stored and when they are
\* approved, also for a review that was marked failed while it ran.
THEOREM EditsKeepTargets == AdminSpec => []TargetsResolve
<1>1. AdminInv => TargetsResolve
  BY TargetsAreFound DEF AdminInv
<1> QED
  BY <1>1, AdminInductive, PTL

\* A review that ended or was marked failed is never active again.
THEOREM EndedForGood == AdminSpec => EndedStaysEnded
<1>1. AdminInv /\ [AdminNext]_adminVars
        => [\A r \in RunsIn({"succeeded", "failed"}) : ~Active(runStatus'[r])]_runStatus
  <2> SUFFICES ASSUME AdminInv, [AdminNext]_adminVars, runStatus' # runStatus
               PROVE  \A r \in RunsIn({"succeeded", "failed"}) : ~Active(runStatus'[r])
    OBVIOUS
  <2>1. CASE Next
    BY <2>1, ServiceRunStep DEF AdminInv, RunStep, RunsIn
  <2>2. ASSUME NEW r \in Runs, NEW traces \in TracesField, SaveRun(r, traces)
        PROVE  \A s \in RunsIn({"succeeded", "failed"}) : ~Active(runStatus'[s])
    BY <2>2 DEF SaveRun, AdminInv, TypeInv, TypeOK, ReviewsTypeOK, Active, RunsIn
  <2> QED
    BY <2>1, <2>2
    DEF AdminNext, Edit, OpenRun, OpenCase, SaveCase, adminVars, vars, reviews
<1> QED
  BY <1>1, AdminInductive, PTL DEF AdminSpec, EndedStaysEnded

\* A step of the service or of an operator makes no review of a case active next
\* to another one.
LEMMA ActiveStep ==
  ASSUME AdminInv, OneActiveRun, [AdminNext]_adminVars
  PROVE  OneActiveRun'
<1>0. runStatus \in [Runs -> RunStatus \cup {"absent"}] /\ runCase \in [Runs -> Cases \cup {NoCase}]
  BY DEF AdminInv, TypeInv, TypeOK, ReviewsTypeOK
<1>1. ASSUME UNCHANGED runCase,
             \A r \in Runs : Active(runStatus'[r]) => Active(runStatus[r])
      PROVE  OneActiveRun'
  BY <1>1 DEF OneActiveRun, Active
<1>2. ASSUME NEW c \in Cases, NEW r \in Runs, StartReview(c, r)
      PROVE  OneActiveRun'
  <2>1. /\ runStatus' = [runStatus EXCEPT ![r] = "queued"]
        /\ runCase' = [runCase EXCEPT ![r] = c]
        /\ \A s \in Runs : runCase[s] = c => ~Active(runStatus[s])
    BY <1>2 DEF StartReview, ActiveRuns
  <2> QED
    BY <1>0, <2>1 DEF OneActiveRun, Active
<1>3. CASE Api
  BY <1>1, <1>2, <1>3 DEF Api, CreateCase, AddDocument, Enqueue, reviews
<1>4. ASSUME NEW w \in Workers, Worker(w)
      PROVE  OneActiveRun'
  <2>1. UNCHANGED runCase /\ \A r \in Runs : Active(runStatus'[r]) => Active(runStatus[r])
    BY <1>0, <1>4
    DEF Worker, Claim, Claimable, SkipClaimed, BuildSnapshot, ReviewSucceeds, ReviewFails,
        PersistResult, RecordFailure, AuditFailure, reviews, Active
  <2> QED
    BY <1>1, <2>1
<1>5. ASSUME NEW w \in Workers, NEW r \in Runs, Deliver(w, r)
      PROVE  OneActiveRun'
  BY <1>1, <1>5 DEF Deliver, reviews
<1>6. CASE Human
  BY <1>1, <1>6
  DEF Human, ApproveAccept, ApproveRejectDocument, ApproveMark, ApproveCaseStatus,
      ApproveNoStateChange, Reject, Approve
<1>7. CASE Failure
  BY <1>1, <1>7 DEF Failure, EnqueueFails, DatabaseError, Crash, Redeliver, reviews
<1>8. ASSUME NEW r \in Runs, NEW traces \in TracesField, SaveRun(r, traces)
      PROVE  OneActiveRun'
  BY <1>0, <1>1, <1>8 DEF SaveRun, Active
<1>9. CASE UNCHANGED reviews
  BY <1>1, <1>9 DEF reviews
<1> QED
  BY <1>3, <1>4, <1>5, <1>6, <1>7, <1>8, <1>9
  DEF AdminNext, Next, Edit, OpenRun, OpenCase, SaveCase, adminVars, vars

\* Marking a review failed by hand makes room for one review of the case, never
\* for two, although the worker of the first may still be alive (start_review;
\* models.py, one_active_run_per_case).
THEOREM EditsKeepOneActive == AdminSpec => []OneActiveRun
<1>1. AdminInit => OneActiveRun
  BY DEF AdminInit, Init, OneActiveRun
<1> QED
  BY <1>1, ActiveStep, AdminInductive, PTL DEF AdminSpec

\* A decision about a document leaves the state that forbids the next one, with
\* or without the service's other invariants.
LEMMA DocumentDecisionStep ==
  ASSUME TypeInv, DocumentDecidedOnce, [Next]_vars
  PROVE  DocumentDecidedOnce'
<1>1. ASSUME UNCHANGED <<actions, docStatus, docExtraction>>
      PROVE  DocumentDecidedOnce'
  BY <1>1 DEF DocumentDecidedOnce, DocumentDecisions
<1>2. ASSUME NEW c \in Cases, NEW d \in Docs, AddDocument(c, d)
      PROVE  DocumentDecidedOnce'
  BY <1>2
  DEF AddDocument, DocumentDecidedOnce, DocumentDecisions, TypeInv, TypeOK, CaseFileTypeOK
<1>3. CASE Api
  BY <1>1, <1>2, <1>3 DEF Api, CreateCase, StartReview, Enqueue, caseFile, reviews
<1>4. ASSUME NEW w \in Workers, PersistResult(w)
      PROVE  DocumentDecidedOnce'
  <2> DEFINE new == NewRows(task[w], result[w].plan, result[w].extractions)
  <2>1. /\ actions' = [a \in DOMAIN actions \cup new |->
                         IF a \notin DOMAIN actions THEN "pending"
                         ELSE IF Supersedes(task[w], a) THEN "superseded"
                         ELSE actions[a]]
        /\ UNCHANGED caseFile
    BY <1>4 DEF PersistResult
  <2> HIDE DEF new
  <2>2. \A d \in Docs : DocumentDecisions(d)' = DocumentDecisions(d)
    BY <2>1 DEF DocumentDecisions, Supersedes
  <2> QED
    BY <2>1, <2>2 DEF DocumentDecidedOnce, caseFile
<1>5. ASSUME NEW w \in Workers, Worker(w)
      PROVE  DocumentDecidedOnce'
  BY <1>1, <1>4, <1>5
  DEF Worker, Claim, SkipClaimed, BuildSnapshot, ReviewSucceeds, ReviewFails, RecordFailure,
      AuditFailure, caseFile, reviews
<1>6. ASSUME NEW w \in Workers, NEW r \in Runs, Deliver(w, r)
      PROVE  DocumentDecidedOnce'
  BY <1>1, <1>6 DEF Deliver, caseFile, reviews
<1>7. CASE Human
  <2>1. PICK a \in Pending :
           \/ ApproveAccept(a)
           \/ ApproveRejectDocument(a)
           \/ ApproveMark(a)
           \/ ApproveCaseStatus(a)
           \/ ApproveNoStateChange(a)
           \/ Reject(a)
    BY <1>7 DEF Human
  <2>2. a \in DOMAIN actions /\ a \in Row /\ RowShape(a) /\ actions[a] = "pending"
    BY DEF TypeInv, TypeOK, ReviewsTypeOK, WellFormed, Pending
  <2>3. CASE ApproveAccept(a) \/ ApproveRejectDocument(a)
    BY <2>2, <2>3
    DEF TypeInv, TypeOK, CaseFileTypeOK, DocumentDecidedOnce, DocumentDecisions, ApproveAccept,
        ApproveRejectDocument, Approve, Decide, PendingDocument, RowShape
  <2>4. CASE ~(ApproveAccept(a) \/ ApproveRejectDocument(a))
    BY <2>1, <2>2, <2>4
    DEF DocumentDecidedOnce, DocumentDecisions, ApproveMark, ApproveCaseStatus,
        ApproveNoStateChange, Reject, Approve, Decide, caseFile
  <2> QED
    BY <2>3, <2>4
<1>8. CASE Failure
  BY <1>1, <1>8 DEF Failure, EnqueueFails, DatabaseError, Crash, Redeliver, caseFile, reviews
<1>9. CASE UNCHANGED vars
  BY <1>1, <1>9 DEF vars, caseFile, reviews
<1> QED
  BY <1>3, <1>5, <1>6, <1>7, <1>8, <1>9 DEF Next

\* No stale page makes room for a second decision about a document: unlike the
\* checklist, documents are not written back with the case (approvals; CaseAdmin).
THEOREM EditsKeepDocumentDecisions == AdminSpec => []DocumentDecidedOnce
<1>1. AdminInit => DocumentDecidedOnce
  BY DEF AdminInit, Init, DocumentDecidedOnce, DocumentDecisions
<1>2. AdminInv /\ DocumentDecidedOnce /\ [AdminNext]_adminVars => DocumentDecidedOnce'
  <2> SUFFICES ASSUME AdminInv, DocumentDecidedOnce, [AdminNext]_adminVars
               PROVE  DocumentDecidedOnce'
    OBVIOUS
  <2>1. CASE [Next]_vars
    BY <2>1, DocumentDecisionStep DEF AdminInv
  <2>2. CASE UNCHANGED <<actions, docStatus, docExtraction>>
    BY <2>2 DEF DocumentDecidedOnce, DocumentDecisions
  <2> QED
    BY <2>1, <2>2
    DEF AdminNext, Edit, OpenRun, OpenCase, SaveRun, SaveCase, adminVars, caseFile, reviews
<1> QED
  BY <1>1, <1>2, AdminInductive, PTL DEF AdminSpec

\* A worker carries out a review that was claimed, and no other worker does.
ClaimedByOne ==
    /\ \A w \in Workers : pc[w] \in Executing => runStatus[task[w]] # "queued"
    /\ \A v, w \in Workers :
          pc[v] \in Executing /\ pc[w] \in Executing /\ task[v] = task[w] => v = w

\* No step puts a review back into the queue, so no second claim succeeds.
LEMMA ClaimedByOneStep ==
  ASSUME AdminInv, ClaimedByOne, [AdminNext]_adminVars
  PROVE  ClaimedByOne'
<1>0. /\ runStatus \in [Runs -> RunStatus \cup {"absent"}]
      /\ pc \in [Workers -> Executing \cup {"idle", "claim", "audit"}]
      /\ task \in [Workers -> Runs \cup {NoRun}]
      /\ \A w \in Workers : pc[w] # "idle" => task[w] \in Runs /\ runStatus[task[w]] # "absent"
  BY DEF AdminInv, TypeInv, TypeOK, ReviewsTypeOK, ProcessTypeOK, RunsExist, RunsIn, RunStatus
<1> USE DEF ClaimedByOne
<1>1. ASSUME UNCHANGED <<pc, task>>,
             \A r \in Runs : runStatus'[r] = "queued" => runStatus[r] \in {"queued", "absent"}
      PROVE  ClaimedByOne'
  BY <1>0, <1>1 DEF Executing
<1>2. ASSUME NEW c \in Cases, NEW r \in Runs, StartReview(c, r)
      PROVE  ClaimedByOne'
  <2>1. runStatus[r] = "absent"
    BY <1>2, CaseReviewAssumption DEF StartReview, FreshRun
  <2> QED
    BY <1>0, <1>1, <1>2, <2>1 DEF StartReview
<1>3. CASE Api
  BY <1>1, <1>2, <1>3 DEF Api, CreateCase, AddDocument, Enqueue, reviews, process
<1>4. ASSUME NEW w \in Workers, Worker(w)
      PROVE  ClaimedByOne'
  <2>1. CASE Claim(w)
    BY <1>0, <2>1 DEF Claim, Claimable, Executing
  <2>2. CASE SkipClaimed(w) \/ AuditFailure(w)
    BY <1>0, <2>2 DEF SkipClaimed, AuditFailure, Finish, reviews, Executing
  <2>3. CASE BuildSnapshot(w) \/ ReviewSucceeds(w) \/ ReviewFails(w)
    BY <1>0, <2>3 DEF BuildSnapshot, ReviewSucceeds, ReviewFails, reviews, Executing
  <2>4. CASE PersistResult(w)
    BY <1>0, <2>4 DEF PersistResult, Finish, Executing
  <2>5. CASE RecordFailure(w)
    BY <1>0, <2>5 DEF RecordFailure, Executing
  <2> QED
    BY <1>4, <2>1, <2>2, <2>3, <2>4, <2>5 DEF Worker
<1>5. ASSUME NEW w \in Workers, NEW r \in Runs, Deliver(w, r)
      PROVE  ClaimedByOne'
  BY <1>0, <1>5 DEF Deliver, reviews, Executing
<1>6. CASE Human
  BY <1>1, <1>6
  DEF Human, ApproveAccept, ApproveRejectDocument, ApproveMark, ApproveCaseStatus,
      ApproveNoStateChange, Reject, Approve, process
<1>7. CASE Failure
  BY <1>0, <1>1, <1>7
  DEF Failure, EnqueueFails, DatabaseError, Crash, Redeliver, Finish, reviews, Executing
<1>8. ASSUME NEW r \in Runs, NEW traces \in TracesField, SaveRun(r, traces)
      PROVE  ClaimedByOne'
  BY <1>0, <1>1, <1>8 DEF SaveRun, process
<1>9. CASE UNCHANGED <<runStatus, process>>
  BY <1>1, <1>9 DEF process
<1> QED
  BY <1>3, <1>4, <1>5, <1>6, <1>7, <1>8, <1>9
  DEF AdminNext, Next, Edit, OpenRun, OpenCase, SaveCase, adminVars, vars, reviews

\* A review is never carried out twice at the same time, not even one that was
\* marked failed while its worker was alive (execute_review's claim).  That its
\* row says running, as SingleExecutor has it, is no longer true then.
THEOREM EditsKeepOneWorker ==
  AdminSpec => [](\A v, w \in Workers :
                    pc[v] \in Executing /\ pc[w] \in Executing /\ task[v] = task[w] => v = w)
<1>1. AdminInit => ClaimedByOne
  BY DEF AdminInit, Init, ClaimedByOne, Executing
<1>2. ClaimedByOne => (\A v, w \in Workers :
         pc[v] \in Executing /\ pc[w] \in Executing /\ task[v] = task[w] => v = w)
  BY DEF ClaimedByOne
<1> QED
  BY <1>1, <1>2, ClaimedByOneStep, AdminInductive, PTL DEF AdminSpec

\* The pending suggestions of a case stem from one review, even when a review
\* marked failed comes to its end after a newer one.
THEOREM OneReviewsSuggestions == AdminSpec => []PendingFromOneReview
<1>1. AdminInit => PendingFromOneReview
  BY DEF AdminInit, Init, PendingFromOneReview, Pending
<1>2. AdminInv /\ PendingFromOneReview /\ [AdminNext]_adminVars => PendingFromOneReview'
  <2> SUFFICES ASSUME AdminInv, PendingFromOneReview, [AdminNext]_adminVars
               PROVE  PendingFromOneReview'
    OBVIOUS
  <2>1. ASSUME UNCHANGED actions
        PROVE  PendingFromOneReview'
    BY <2>1 DEF PendingFromOneReview, Pending
  <2>2. ASSUME NEW w \in Workers, PersistResult(w)
        PROVE  PendingFromOneReview'
    <3> DEFINE r   == task[w]
               new == NewRows(r, result[w].plan, result[w].extractions)
    <3>1. actions' = [a \in DOMAIN actions \cup new |->
                        IF a \notin DOMAIN actions THEN "pending"
                        ELSE IF Supersedes(r, a) THEN "superseded"
                        ELSE actions[a]]
      BY <2>2 DEF PersistResult
    <3>2. \A a \in new : a.run = r /\ a.case = runCase[r]
      BY DEF NewRows, NewRow
    <3> HIDE DEF r, new
    <3>3. \A a \in Pending' : a.case = runCase[r] => a.run = r
      BY <3>1, <3>2 DEF Pending, Supersedes
    <3>4. \A a \in Pending' : a.case # runCase[r] => a \in Pending
      BY <3>1, <3>2 DEF Pending
    <3> QED
      BY <3>3, <3>4 DEF PendingFromOneReview
  <2>3. ASSUME Human
        PROVE  PendingFromOneReview'
    <3>1. PICK a \in Pending, status \in {"approved", "rejected"} : Decide(a, status)
      BY <2>3
      DEF Human, ApproveAccept, ApproveRejectDocument, ApproveMark, ApproveCaseStatus,
          ApproveNoStateChange, Reject, Approve
    <3>2. Pending' \subseteq Pending
      BY <3>1 DEF Decide, Pending
    <3> QED
      BY <3>2 DEF PendingFromOneReview
  <2>4. CASE Next
    BY <2>1, <2>2, <2>3, <2>4
    DEF Next, Api, CreateCase, AddDocument, StartReview, Enqueue, Deliver, Worker, Claim, SkipClaimed,
        BuildSnapshot, ReviewSucceeds, ReviewFails, RecordFailure, AuditFailure, Failure,
        EnqueueFails, DatabaseError, Crash, Redeliver, reviews
  <2>5. CASE Edit
    BY <2>1, <2>5 DEF Edit, OpenRun, OpenCase, SaveRun, SaveCase, vars, reviews
  <2> QED
    BY <2>1, <2>4, <2>5 DEF AdminNext, adminVars, vars, reviews
<1> QED
  BY <1>1, <1>2, AdminInductive, PTL DEF AdminSpec
=============================================================================
