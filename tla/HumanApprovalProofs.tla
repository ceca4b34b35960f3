------------------------- MODULE HumanApprovalProofs -------------------------
(***************************************************************************)
(* CaseReview implements HumanApproval: its initial states map to initial  *)
(* states of the promise, and every step to a step of it or to a stutter.  *)
(***************************************************************************)
EXTENDS CaseReviewProofs

\* The empty database is an initial state of the promise.
LEMMA PromiseInit == Init => Promise!Init
BY DEF Init, Promise!Init, Pending, NoExtractions

\* A step that leaves the case file and the rows alone is a stutter.
LEMMA Stutter ==
  ASSUME UNCHANGED <<caseFile, actions>>
  PROVE  UNCHANGED Promise!vars
BY DEF caseFile, Promise!vars, Promise!file, Pending

\* A decision takes one open offer and nothing else.
LEMMA DecisionSpends ==
  ASSUME TypeOK, NEW a \in Pending, NEW status \in {"approved", "rejected"}, Decide(a, status)
  PROVE  Promise!Spend(a)
BY DEF TypeOK, ReviewsTypeOK, Pending, Decide, Promise!Spend

\* An approval is the acceptance of an open offer that the case file allows.
LEMMA ApprovalAccepts ==
  ASSUME IndInv, NEW a \in Pending,
         \/ ApproveAccept(a)
         \/ ApproveRejectDocument(a)
         \/ ApproveMark(a)
         \/ ApproveCaseStatus(a)
         \/ ApproveNoStateChange(a)
  PROVE  Promise!Accept(a)
<1>1. Promise!Spend(a)
  BY DecisionSpends
  DEF IndInv, TypeInv, ApproveAccept, ApproveRejectDocument, ApproveMark, ApproveCaseStatus,
      ApproveNoStateChange, Approve
<1>2. a \in Row /\ RowShape(a) /\ (a.doc # NoDoc => docCase[a.doc] = a.case)
  BY DEF IndInv, TypeInv, TypeOK, ReviewsTypeOK, WellFormed, FileInv, TargetsOwnCase, Pending
<1>3. CASE ApproveAccept(a)
  BY <1>1, <1>2, <1>3
  DEF ApproveAccept, PendingDocument, RowShape, Promise!Accept, Promise!AcceptDocument
<1>4. CASE ApproveRejectDocument(a)
  BY <1>1, <1>4
  DEF ApproveRejectDocument, PendingDocument, Promise!Accept, Promise!RejectDocument
<1>5. CASE ApproveMark(a)
  <2>1. a.case \in Cases /\ a.req \in Reqs /\ a.doc \in Docs
    BY <1>2, <1>5 DEF Row, RowShape, ApproveMark
  <2>2. reqStatus[a.case][a.req] = "open"
    BY <1>5, <2>1 DEF ApproveMark, Markable, IndInv, TypeInv, TypeOK, CaseFileTypeOK, ReqStatus
  <2>3. docCase[a.doc] = a.case
    BY <1>2, <2>1, ContractsAssumption
  <2> QED
    BY <1>1, <1>5, <2>2, <2>3
    DEF ApproveMark, Markable, Promise!Accept, Promise!SatisfyRequirement
<1>6. CASE ApproveCaseStatus(a)
  BY <1>1, <1>2, <1>6
  DEF ApproveCaseStatus, AllSatisfied, RowShape, Promise!Accept, Promise!DeclareReady
<1>7. CASE ApproveNoStateChange(a)
  BY <1>1, <1>7 DEF ApproveNoStateChange, caseFile, Promise!Accept, Promise!SignOff, Promise!file
<1> QED
  BY <1>3, <1>4, <1>5, <1>6, <1>7

\* persist_result replaces the open offers of its run's case by new ones.
LEMMA PersistPublishes ==
  ASSUME IndInv, IndInv', NEW w \in Workers, PersistResult(w)
  PROVE  \E c \in Cases : Promise!Publish(c)
<1> DEFINE r   == task[w]
           c   == runCase[r]
           new == NewRows(r, result[w].plan, result[w].extractions)
<1>1. /\ actions' = [a \in DOMAIN actions \cup new |->
                       IF a \notin DOMAIN actions THEN "pending"
                       ELSE IF Supersedes(r, a) THEN "superseded"
                       ELSE actions[a]]
      /\ UNCHANGED caseFile
  BY DEF PersistResult
<1>2. \A a \in new : a.run = r /\ a.case = c
  BY DEF NewRows, NewRow
<1>3. runStatus[r] = "running"
  BY DEF IndInv, RunInv, SingleExecutor, Executing, PersistResult
<1>4. c \in Cases
  BY DEF IndInv, TypeInv, RunsExist, RunsIn, RunStatus, PersistResult
<1>5. \A a \in DOMAIN actions : a.run # r
  BY <1>3 DEF IndInv, RunInv, NothingProposedUnlessCompleted
<1>6. \A a \in new : a \notin DOMAIN actions
  BY <1>2, <1>5
<1> HIDE DEF new, r, c
<1>7. Pending' = {a \in Pending : a.case # c} \cup new
  BY <1>1, <1>5, <1>6 DEF Pending, Supersedes, c
<1>8. Pending' \ Pending = new
  BY <1>6, <1>7 DEF Pending
<1>9. (DOMAIN actions \ Pending)' = (DOMAIN actions \ Pending) \cup {a \in Pending : a.case = c}
  BY <1>1, <1>6, <1>7 DEF Pending
<1>10. \A a \in new : a \in Row /\ (a.doc # NoDoc => docCase[a.doc] = c)
  BY <1>1, <1>2
  DEF IndInv, TypeInv, TypeOK, ReviewsTypeOK, FileInv, TargetsOwnCase, caseFile
<1>11. UNCHANGED Promise!file
  BY <1>1 DEF caseFile, Promise!file
<1>12. Promise!Publish(c)
  BY <1>2, <1>6, <1>7, <1>8, <1>9, <1>10, <1>11 DEF Promise!Publish
<1> QED
  BY <1>4, <1>12

\* Every step maps to a step of the promise or to a stutter.
LEMMA PromiseStep == IndInv /\ IndInv' /\ [Next]_vars => [Promise!Next]_(Promise!vars)
<1> SUFFICES ASSUME IndInv, IndInv', [Next]_vars
             PROVE  Promise!Next \/ UNCHANGED Promise!vars
  OBVIOUS
<1>1. CASE Api
  <2>1. ASSUME NEW c \in Cases, CreateCase(c)
        PROVE  Promise!Open(c)
    BY <2>1 DEF CreateCase, Promise!Open, Pending
  <2>2. ASSUME NEW c \in Cases, NEW d \in Docs, AddDocument(c, d)
        PROVE  Promise!Upload(c, d)
    BY <2>2 DEF AddDocument, Promise!Upload, Pending
  <2>3. ASSUME NEW c \in Cases, NEW r \in Runs, StartReview(c, r)
        PROVE  UNCHANGED Promise!vars
    BY <2>3, Stutter DEF StartReview
  <2>4. ASSUME NEW r \in Runs, Enqueue(r)
        PROVE  UNCHANGED Promise!vars
    BY <2>4, Stutter DEF Enqueue, reviews
  <2> QED
    BY <1>1, <2>1, <2>2, <2>3, <2>4 DEF Api, Promise!Next
<1>2. ASSUME NEW w \in Workers, NEW r \in Runs, Deliver(w, r)
      PROVE  UNCHANGED Promise!vars
  BY <1>2, Stutter DEF Deliver, reviews
<1>3. ASSUME NEW w \in Workers, Worker(w)
      PROVE  Promise!Next \/ UNCHANGED Promise!vars
  <2>1. CASE PersistResult(w)
    BY <2>1, PersistPublishes DEF Promise!Next
  <2>2. CASE ~PersistResult(w)
    BY <1>3, <2>2, Stutter
    DEF Worker, Claim, SkipClaimed, BuildSnapshot, ReviewSucceeds, ReviewFails, RecordFailure,
        AuditFailure, reviews
  <2> QED
    BY <2>1, <2>2
<1>4. CASE Human
  <2>1. PICK a \in Pending :
           \/ ApproveAccept(a)
           \/ ApproveRejectDocument(a)
           \/ ApproveMark(a)
           \/ ApproveCaseStatus(a)
           \/ ApproveNoStateChange(a)
           \/ Reject(a)
    BY <1>4 DEF Human
  <2>2. CASE Reject(a)
    <3>1. Promise!Decline(a)
      BY <2>2, DecisionSpends
      DEF IndInv, TypeInv, Reject, caseFile, Promise!Decline, Promise!file
    <3> QED
      BY <3>1 DEF Promise!Next
  <2>3. CASE ~Reject(a)
    BY <2>1, <2>3, ApprovalAccepts DEF Promise!Next
  <2> QED
    BY <2>2, <2>3
<1>5. CASE Failure
  BY <1>5, Stutter
  DEF Failure, EnqueueFails, DatabaseError, Crash, Redeliver, reviews
<1>6. CASE UNCHANGED vars
  BY <1>6, Stutter DEF vars, reviews
<1> QED
  BY <1>1, <1>2, <1>3, <1>4, <1>5, <1>6 DEF Next

\* The case service keeps the promise of HumanApproval: nothing but a human
\* accepting an open, still applicable offer changes a case because of an agent.
THEOREM KeepsPromise == Spec => ImplementsHumanApproval
<1>1. Init /\ [][Next]_vars /\ []IndInv => Promise!Init /\ [][Promise!Next]_(Promise!vars)
  BY PromiseInit, PromiseStep, PTL
<1> QED
  BY <1>1, Inductive, PTL DEF Spec, ImplementsHumanApproval, Promise!Spec
=============================================================================
