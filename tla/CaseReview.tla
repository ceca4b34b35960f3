----------------------------- MODULE CaseReview -----------------------------
(***************************************************************************)
(* The life of a case (src/cases): uploads, AI reviews executed by Celery  *)
(* workers, the suggestions a review leaves, and the human decisions on    *)
(* them.  One action is one database transaction, or one step of a worker  *)
(* between two of them.  Inside a transaction the rows it changes are      *)
(* locked (select_for_update), so it is atomic here.                       *)
(*                                                                         *)
(* The agents are a nondeterministic choice: of a validated extraction or  *)
(* a failure for each pending document, and of any plan of Plans that some *)
(* evaluation of Evaluations justifies (ReviewContract, Contracts).        *)
(***************************************************************************)
EXTENDS ReviewContract

CONSTANTS
    Cases,
    Runs,           \* AgentRun ids, handed out in increasing order
    Workers,        \* Celery worker processes
    Faults,         \* which of FaultKind may happen ...
    MaxFaults,      \* ... and how often, over all kinds
    Redelivery,     \* what the broker may do with a dead worker's message:
                    \* TRUE deliver it again, FALSE drop it as acknowledged
    NoCase, NoRun, NoPayload

FaultKind == {"enqueue", "database", "crash", "redeliver"}

ASSUME CaseReviewAssumption ==
    /\ Runs \subseteq Nat
    /\ NoRun \notin Runs
    /\ NoCase \notin Cases
    /\ Faults \subseteq FaultKind
    /\ MaxFaults \in Nat
    /\ Redelivery \subseteq BOOLEAN

VARIABLES
    \* the case file
    caseStatus,     \* Case.status, "absent" before the case is created
    reqStatus,      \* RequirementChecklistItem.status, per case and code
    satisfiedBy,    \* RequirementChecklistItem.satisfied_by
    docCase,        \* CaseDocument.case
    docStatus,      \* CaseDocument.status, "absent" before the upload
    docExtraction,  \* CaseDocument.extraction
    \* reviews and what they leave
    runStatus,      \* AgentRun.status, "absent" before the request
    runCase,        \* AgentRun.case
    actions,        \* ProposedAction rows: a function from Row to status
    audit,          \* AuditLogEntry rows: the targets recorded per event
    \* processes
    onCommit,       \* runs committed whose on_commit hook is still to run
    queue,          \* runs whose message waits in the broker
    pc, task,       \* what a worker does, and the run of its message
    snapshot,       \* what build_snapshot returned to the worker
    result,         \* what run_case_review returned to the worker
    faults          \* faults so far

caseFile == <<caseStatus, reqStatus, satisfiedBy, docCase, docStatus, docExtraction>>
reviews  == <<runStatus, runCase, actions, audit>>
process  == <<onCommit, queue, pc, task, snapshot, result>>
vars     == <<caseFile, reviews, process, faults>>

-----------------------------------------------------------------------------
CaseStatus    == {"open", "ready_for_submission", "closed"}
DocStatus     == {"pending_review", "accepted", "rejected"}
ReqStatus     == {"open", "satisfied"}
RunStatus     == {"queued", "running", "succeeded", "failed"}
ActionStatus  == {"pending", "approved", "rejected", "superseded"}
Event == {"case_created", "document_uploaded", "review_requested",
          "review_completed", "review_failed", "action_approved", "action_rejected"}

\* A ProposedAction row.  A plan has no two drafts with one key, so these
\* columns identify it (TargetsResolve: the lookups change no key); its primary
\* key adds nothing.
Row == [case : Cases, run : Runs, kind : ActionKind,
        doc : Docs \cup {NoDoc}, req : Reqs \cup {NoReq},
        payload : Extractions \cup {"ready_for_submission", NoPayload}]

NoExtractions == [d \in Docs |-> NoExtraction]
NoSnapshot == [docs |-> [d \in Docs |-> "absent"], prior |-> NoExtractions]
NoResult   == [extractions |-> NoExtractions, plan |-> {}]

\* AgentRun rows the partial unique constraint one_active_run_per_case is on.
Active(status) == status \in {"queued", "running"}

\* Variant: the check forgets that a claimed review is still active.
ActiveRunsQueuedOnly(c) == {r \in Runs : runCase[r] = c /\ runStatus[r] = "queued"}

ActiveRuns(c) == {r \in Runs : runCase[r] = c /\ Active(runStatus[r])}

Pending == {a \in DOMAIN actions : actions[a] = "pending"}

\* audit.record
Record(event, target) == [audit EXCEPT ![event] = @ \cup {target}]

-----------------------------------------------------------------------------
(***************************************************************************)
(* The API: cases, uploads, review requests.                               *)
(***************************************************************************)

\* create_case
CreateCase(c) ==
    /\ caseStatus[c] = "absent"
    /\ caseStatus' = [caseStatus EXCEPT ![c] = "open"]
    /\ audit' = Record("case_created", c)
    /\ UNCHANGED <<reqStatus, satisfiedBy, docCase, docStatus, docExtraction,
                   runStatus, runCase, actions, process, faults>>

\* add_document: takes no lock on the case and asks nothing of its status.
AddDocument(c, d) ==
    /\ caseStatus[c] # "absent"
    /\ docStatus[d] = "absent"
    /\ docCase' = [docCase EXCEPT ![d] = c]
    /\ docStatus' = [docStatus EXCEPT ![d] = "pending_review"]
    /\ audit' = Record("document_uploaded", d)
    /\ UNCHANGED <<caseStatus, reqStatus, satisfiedBy, docExtraction,
                   runStatus, runCase, actions, process, faults>>

\* The primary key of a new row: above every key in use.
FreshRun(r) == \A s \in Runs : runStatus[s] # "absent" => s < r

\* start_review, under the lock on the case.  The 409 answers change nothing.
StartReview(c, r) ==
    /\ caseStatus[c] # "absent"
    /\ ActiveRuns(c) = {}
    /\ FreshRun(r)
    /\ runStatus' = [runStatus EXCEPT ![r] = "queued"]
    /\ runCase' = [runCase EXCEPT ![r] = c]
    /\ audit' = Record("review_requested", r)
    /\ onCommit' = onCommit \cup {r}
    /\ UNCHANGED <<caseFile, actions, queue, pc, task, snapshot, result, faults>>

\* The on_commit hook: run_case_review_task.delay(run.pk), after the commit.
Enqueue(r) ==
    /\ r \in onCommit
    /\ onCommit' = onCommit \ {r}
    /\ queue' = queue \cup {r}
    /\ UNCHANGED <<caseFile, reviews, pc, task, snapshot, result, faults>>

-----------------------------------------------------------------------------
(***************************************************************************)
(* A worker: run_case_review_task, execute_review.                         *)
(***************************************************************************)

\* Acknowledge the message and forget the run (CELERY_TASK_ACKS_LATE).
Finish(w) ==
    /\ pc' = [pc EXCEPT ![w] = "idle"]
    /\ task' = [task EXCEPT ![w] = NoRun]
    /\ snapshot' = [snapshot EXCEPT ![w] = NoSnapshot]
    /\ result' = [result EXCEPT ![w] = NoResult]

Deliver(w, r) ==
    /\ pc[w] = "idle"
    /\ r \in queue
    /\ queue' = queue \ {r}
    /\ pc' = [pc EXCEPT ![w] = "claim"]
    /\ task' = [task EXCEPT ![w] = r]
    /\ UNCHANGED <<caseFile, reviews, onCommit, snapshot, result, faults>>

\* Variants: the claim takes over a running review; it only avoids running ones.
ClaimableUnfinished(r) == runStatus[r] \in {"queued", "running"}
ClaimableIdle(r) == runStatus[r] # "running"

\* The WHERE clause of the claiming UPDATE.
Claimable(r) == runStatus[r] = "queued"

Claim(w) ==
    /\ pc[w] = "claim"
    /\ Claimable(task[w])
    /\ runStatus' = [runStatus EXCEPT ![task[w]] = "running"]
    /\ pc' = [pc EXCEPT ![w] = "load"]
    /\ UNCHANGED <<caseFile, runCase, actions, audit, onCommit, queue, task,
                   snapshot, result, faults>>

\* "already claimed; skipping"
SkipClaimed(w) ==
    /\ pc[w] = "claim"
    /\ ~Claimable(task[w])
    /\ Finish(w)
    /\ UNCHANGED <<caseFile, reviews, onCommit, queue, faults>>

\* The documents of a case and their statuses; one query, so one instant.
\* Requirement statuses are read too, but no validator looks at them.
DocumentsOf(c) == [d \in Docs |-> IF docCase[d] = c THEN docStatus[d] ELSE "absent"]

\* Extractions a human has already approved.
PriorOf(c) ==
    [d \in Docs |-> IF docCase[d] = c /\ docStatus[d] = "accepted"
                    THEN docExtraction[d] ELSE NoExtraction]

BuildSnapshot(w) ==
    /\ pc[w] = "load"
    /\ snapshot' = [snapshot EXCEPT ![w] = [docs  |-> DocumentsOf(runCase[task[w]]),
                                            prior |-> PriorOf(runCase[task[w]])]]
    /\ pc' = [pc EXCEPT ![w] = "review"]
    /\ UNCHANGED <<caseFile, reviews, onCommit, queue, task, result, faults>>

\* run_case_review returns a CaseReviewResult.
ReviewSucceeds(w) ==
    /\ pc[w] = "review"
    /\ \E new \in Reviewed(snapshot[w].docs) :
       \E plan \in PossiblePlans(snapshot[w].docs, AllExtractions(snapshot[w].prior, new)) :
            result' = [result EXCEPT ![w] = [extractions |-> new, plan |-> plan]]
    /\ snapshot' = [snapshot EXCEPT ![w] = NoSnapshot]
    /\ pc' = [pc EXCEPT ![w] = "persist"]
    /\ UNCHANGED <<caseFile, reviews, onCommit, queue, task, faults>>

\* build_snapshot or run_case_review raises: the checklist or planning agent
\* gives up (AgentError), the provider fails, the case cannot be read.
ReviewFails(w) ==
    /\ pc[w] \in {"load", "review"}
    /\ snapshot' = [snapshot EXCEPT ![w] = NoSnapshot]
    /\ pc' = [pc EXCEPT ![w] = "fail"]
    /\ UNCHANGED <<caseFile, reviews, onCommit, queue, task, result, faults>>

\* Variant: the branch for accepted documents is missing.
PayloadWithoutExtraction(draft, extracted) ==
    IF draft.kind = "change_case_status" THEN draft.newStatus ELSE NoPayload

Payload(draft, extracted) ==
    CASE draft.kind = "accept_document"    -> extracted[draft.doc]
      [] draft.kind = "change_case_status" -> draft.newStatus
      [] OTHER                             -> NoPayload

\* documents.get(draft.document_id), over the documents of the run's case.
StoredDoc(r, d) == IF d # NoDoc /\ docCase[d] = runCase[r] THEN d ELSE NoDoc

\* requirements.get(draft.requirement_code); every case has a row per requirement.
StoredReq(q) == IF q \in Reqs THEN q ELSE NoReq

NewRow(r, draft, extracted) ==
    [case |-> runCase[r], run |-> r, kind |-> draft.kind,
     doc |-> StoredDoc(r, draft.doc), req |-> StoredReq(draft.req),
     payload |-> Payload(draft, extracted)]

NewRows(r, plan, extracted) == {NewRow(r, draft, extracted) : draft \in plan}

\* Variants: filter and exclude swapped; decided rows superseded as well; the
\* filter on the case forgotten.
SupersedesOwn(r, a) == a.case = runCase[r] /\ a.run = r /\ actions[a] = "pending"
SupersedesDecided(r, a) == a.case = runCase[r] /\ a.run # r
SupersedesEverywhere(r, a) == a.run # r /\ actions[a] = "pending"

\* Rows the UPDATE at the top of persist_result supersedes.
Supersedes(r, a) == a.case = runCase[r] /\ a.run # r /\ actions[a] = "pending"

\* extractions[draft.document_id] in _payload; a miss would be a KeyError.
PayloadDefined(plan, extracted) ==
    \A draft \in plan :
        draft.kind = "accept_document" => extracted[draft.doc] # NoExtraction

\* persist_result: one transaction, under the lock on the case.
PersistResult(w) ==
    LET r   == task[w]
        new == NewRows(r, result[w].plan, result[w].extractions)
    IN  /\ pc[w] = "persist"
        /\ PayloadDefined(result[w].plan, result[w].extractions)
        /\ actions' = [a \in DOMAIN actions \cup new |->
                          IF a \notin DOMAIN actions THEN "pending"
                          ELSE IF Supersedes(r, a) THEN "superseded"
                          ELSE actions[a]]
        /\ runStatus' = [runStatus EXCEPT ![r] = "succeeded"]
        /\ audit' = Record("review_completed", r)
        /\ Finish(w)
        /\ UNCHANGED <<caseFile, runCase, onCommit, queue, faults>>

\* Variant: the failed status is never saved.
RecordFailureUnsaved(w) ==
    /\ pc[w] = "fail"
    /\ pc' = [pc EXCEPT ![w] = "audit"]
    /\ UNCHANGED <<caseFile, reviews, onCommit, queue, task, snapshot, result, faults>>

\* _fail: the row is saved first, the audit entry is a second transaction.
RecordFailure(w) ==
    /\ pc[w] = "fail"
    /\ runStatus' = [runStatus EXCEPT ![task[w]] = "failed"]
    /\ pc' = [pc EXCEPT ![w] = "audit"]
    /\ UNCHANGED <<caseFile, runCase, actions, audit, onCommit, queue, task,
                   snapshot, result, faults>>

\* Variant: no entry for a failed review.
AuditFailureSilent(w) ==
    /\ pc[w] = "audit"
    /\ Finish(w)
    /\ UNCHANGED <<caseFile, reviews, onCommit, queue, faults>>

AuditFailure(w) ==
    /\ pc[w] = "audit"
    /\ audit' = Record("review_failed", task[w])
    /\ Finish(w)
    /\ UNCHANGED <<caseFile, runStatus, runCase, actions, onCommit, queue, faults>>

-----------------------------------------------------------------------------
(***************************************************************************)
(* A human decides on a suggestion: approve_action, reject_action.         *)
(* The preconditions are those the code reads under the locks; when one    *)
(* does not hold the transaction raises ActionConflict and changes nothing.*)
(***************************************************************************)

\* _lock_pending
LockPending(a) == a \in Pending

\* _decide
Decide(a, status) == actions' = [actions EXCEPT ![a] = status]

Approve(a) ==
    /\ LockPending(a)
    /\ Decide(a, "approved")
    /\ audit' = Record("action_approved", a)
    /\ UNCHANGED <<runStatus, runCase, process, faults>>

\* Variant: only rejected documents are refused.
PendingDocumentOrAccepted(d) == docStatus[d] # "rejected"

\* _pending_document
PendingDocument(d) == docStatus[d] = "pending_review"

ApproveAccept(a) ==
    /\ a.kind = "accept_document"
    /\ PendingDocument(a.doc)
    /\ docStatus' = [docStatus EXCEPT ![a.doc] = "accepted"]
    /\ docExtraction' = [docExtraction EXCEPT ![a.doc] = a.payload]
    /\ Approve(a)
    /\ UNCHANGED <<caseStatus, reqStatus, satisfiedBy, docCase>>

ApproveRejectDocument(a) ==
    /\ a.kind = "reject_document"
    /\ PendingDocument(a.doc)
    /\ docStatus' = [docStatus EXCEPT ![a.doc] = "rejected"]
    /\ Approve(a)
    /\ UNCHANGED <<caseStatus, reqStatus, satisfiedBy, docCase, docExtraction>>

\* Variants: the document, or the requirement, is not looked at again.
MarkableAnyDocument(a) == reqStatus[a.case][a.req] # "satisfied"
MarkableAgain(a) == docStatus[a.doc] = "accepted"

Markable(a) ==
    /\ reqStatus[a.case][a.req] # "satisfied"
    /\ docStatus[a.doc] = "accepted"

ApproveMark(a) ==
    /\ a.kind = "mark_requirement_satisfied"
    /\ Markable(a)
    /\ reqStatus' = [reqStatus EXCEPT ![a.case][a.req] = "satisfied"]
    /\ satisfiedBy' = [satisfiedBy EXCEPT ![a.case][a.req] = a.doc]
    /\ Approve(a)
    /\ UNCHANGED <<caseStatus, docCase, docStatus, docExtraction>>

\* Variant: exclude turned into filter.
AnySatisfied(c) == \E q \in Reqs : reqStatus[c][q] = "satisfied"

AllSatisfied(c) == \A q \in Reqs : reqStatus[c][q] = "satisfied"

ApproveCaseStatus(a) ==
    /\ a.kind = "change_case_status"
    /\ AllSatisfied(a.case)
    /\ caseStatus' = [caseStatus EXCEPT ![a.case] = a.payload]
    /\ Approve(a)
    /\ UNCHANGED <<reqStatus, satisfiedBy, docCase, docStatus, docExtraction>>

\* _no_state_change: approval is the sign-off itself.
ApproveNoStateChange(a) ==
    /\ a.kind \in {"request_document", "flag_for_review"}
    /\ Approve(a)
    /\ UNCHANGED caseFile

Reject(a) ==
    /\ LockPending(a)
    /\ Decide(a, "rejected")
    /\ audit' = Record("action_rejected", a)
    /\ UNCHANGED <<caseFile, runStatus, runCase, process, faults>>

-----------------------------------------------------------------------------
(***************************************************************************)
(* Faults.                                                                 *)
(***************************************************************************)
Fault(kind) ==
    /\ kind \in Faults
    /\ faults < MaxFaults
    /\ faults' = faults + 1

\* delay() raises (the broker is down) or the web process dies after the
\* commit: the request fails, the run is committed.
EnqueueFails(r) ==
    /\ r \in onCommit
    /\ Fault("enqueue")
    /\ onCommit' = onCommit \ {r}
    /\ UNCHANGED <<caseFile, reviews, queue, pc, task, snapshot, result>>

\* A statement outside execute_review's try block raises: its transaction is
\* rolled back, the exception leaves the task, Celery acknowledges the message.
\* At "load" it is the query for the run between the claim and the try.
DatabaseError(w) ==
    /\ pc[w] \in {"claim", "load", "persist", "fail", "audit"}
    /\ Fault("database")
    /\ Finish(w)
    /\ UNCHANGED <<caseFile, reviews, onCommit, queue>>

\* The process is killed: out of memory, a deployment, CELERY_TASK_TIME_LIMIT.
Crash(w) ==
    /\ pc[w] # "idle"
    /\ Fault("crash")
    /\ \E kept \in Redelivery :
          queue' = IF kept THEN queue \cup {task[w]} ELSE queue
    /\ Finish(w)
    /\ UNCHANGED <<caseFile, reviews, onCommit>>

\* The broker gives an unacknowledged message to someone else as well.
Redeliver(w) ==
    /\ pc[w] # "idle"
    /\ Fault("redeliver")
    /\ queue' = queue \cup {task[w]}
    /\ UNCHANGED <<caseFile, reviews, onCommit, pc, task, snapshot, result>>

-----------------------------------------------------------------------------
Init ==
    /\ caseStatus = [c \in Cases |-> "absent"]
    /\ reqStatus = [c \in Cases |-> [q \in Reqs |-> "open"]]
    /\ satisfiedBy = [c \in Cases |-> [q \in Reqs |-> NoDoc]]
    /\ docCase = [d \in Docs |-> NoCase]
    /\ docStatus = [d \in Docs |-> "absent"]
    /\ docExtraction = NoExtractions
    /\ runStatus = [r \in Runs |-> "absent"]
    /\ runCase = [r \in Runs |-> NoCase]
    /\ actions = [a \in {} |-> "pending"]
    /\ audit = [e \in Event |-> {}]
    /\ onCommit = {}
    /\ queue = {}
    /\ pc = [w \in Workers |-> "idle"]
    /\ task = [w \in Workers |-> NoRun]
    /\ snapshot = [w \in Workers |-> NoSnapshot]
    /\ result = [w \in Workers |-> NoResult]
    /\ faults = 0

Api ==
    \/ \E c \in Cases : CreateCase(c)
    \/ \E c \in Cases, d \in Docs : AddDocument(c, d)
    \/ \E c \in Cases, r \in Runs : StartReview(c, r)
    \/ \E r \in Runs : Enqueue(r)

Worker(w) ==
    \/ Claim(w)
    \/ SkipClaimed(w)
    \/ BuildSnapshot(w)
    \/ ReviewSucceeds(w)
    \/ ReviewFails(w)
    \/ PersistResult(w)
    \/ RecordFailure(w)
    \/ AuditFailure(w)

Human ==
    \E a \in Pending :
        \/ ApproveAccept(a)
        \/ ApproveRejectDocument(a)
        \/ ApproveMark(a)
        \/ ApproveCaseStatus(a)
        \/ ApproveNoStateChange(a)
        \/ Reject(a)

Failure ==
    \/ \E r \in Runs : EnqueueFails(r)
    \/ \E w \in Workers : DatabaseError(w) \/ Crash(w) \/ Redeliver(w)

Next ==
    \/ Api
    \/ \E w \in Workers, r \in Runs : Deliver(w, r)
    \/ \E w \in Workers : Worker(w)
    \/ Human
    \/ Failure

Spec == Init /\ [][Next]_vars

(***************************************************************************)
(* Fairness: a request runs its on_commit hook, an idle worker takes a     *)
(* waiting message, and a worker goes on with its task (the task has a     *)
(* time limit and the agents have turn budgets).  Nothing is assumed of    *)
(* the humans.                                                             *)
(***************************************************************************)
Fairness ==
    /\ \A r \in Runs : WF_vars(Enqueue(r))
    /\ WF_vars(\E w \in Workers, r \in Runs : Deliver(w, r))
    /\ \A w \in Workers : WF_vars(Worker(w))

FairSpec == Spec /\ Fairness

-----------------------------------------------------------------------------
(***************************************************************************)
(* Correctness.                                                            *)
(***************************************************************************)
Executing == {"load", "review", "persist", "fail"}

Target == [case_created |-> Cases, document_uploaded |-> Docs,
           review_requested |-> Runs, review_completed |-> Runs, review_failed |-> Runs,
           action_approved |-> Row, action_rejected |-> Row]

CaseFileTypeOK ==
    /\ caseStatus \in [Cases -> CaseStatus \cup {"absent"}]
    /\ reqStatus \in [Cases -> [Reqs -> ReqStatus]]
    /\ satisfiedBy \in [Cases -> [Reqs -> Docs \cup {NoDoc}]]
    /\ docCase \in [Docs -> Cases \cup {NoCase}]
    /\ docStatus \in [Docs -> DocStatus \cup {"absent"}]
    /\ docExtraction \in [Docs -> Extractions \cup {NoExtraction}]

AuditTypeOK ==
    /\ audit = [e \in Event |-> audit[e]]
    /\ \A e \in Event : audit[e] \subseteq Target[e]

ReviewsTypeOK ==
    /\ runStatus \in [Runs -> RunStatus \cup {"absent"}]
    /\ runCase \in [Runs -> Cases \cup {NoCase}]
    /\ DOMAIN actions \subseteq Row
    /\ actions \in [DOMAIN actions -> ActionStatus]
    /\ AuditTypeOK

ProcessTypeOK ==
    /\ onCommit \subseteq Runs
    /\ queue \subseteq Runs
    /\ pc \in [Workers -> Executing \cup {"idle", "claim", "audit"}]
    /\ task \in [Workers -> Runs \cup {NoRun}]
    /\ snapshot \in [Workers -> [docs  : [Docs -> DocStatus \cup {"absent"}],
                                 prior : [Docs -> Extractions \cup {NoExtraction}]]]
    /\ result \in [Workers -> [extractions : [Docs -> Extractions \cup {NoExtraction}],
                               plan : SUBSET Draft]]
    /\ faults \in 0..MaxFaults

\* Every variable holds a value its column or process can hold.
TypeOK == CaseFileTypeOK /\ ReviewsTypeOK /\ ProcessTypeOK

\* A case never has two reviews queued or running, whatever requests, claims,
\* redeliveries and failures interleave: start_review's check alone keeps the
\* database's unique constraint from ever firing.
OneActiveRun ==
    \A r, s \in Runs :
        /\ runStatus[r] \in {"queued", "running"}
        /\ runStatus[s] \in {"queued", "running"}
        /\ runCase[r] = runCase[s]
        => r = s

\* A review is carried out by at most one worker, also when its message is
\* delivered twice, and only while its row says running.
SingleExecutor ==
    /\ \A w \in Workers : pc[w] \in Executing => runStatus[task[w]] = "running"
    /\ \A v, w \in Workers :
          pc[v] \in Executing /\ pc[w] \in Executing /\ task[v] = task[w] => v = w

\* The suggestions a human can still decide on all stem from the newest
\* completed review of their case (persist_result supersedes the others).
OnlyLatestActionable ==
    \A a \in Pending :
        \A r \in Runs :
            runCase[r] = a.case /\ runStatus[r] = "succeeded" => r <= a.run

\* A suggestion exists only if the review it names completed: a review that is
\* running, failed or given up has proposed nothing.
NothingProposedUnlessCompleted ==
    \A a \in DOMAIN actions : runStatus[a.run] = "succeeded"

\* persist_result finds the document of every draft of its plan, though the plan
\* was made of a snapshot taken long before: a miss would silently store None.
\* So a suggestion about a document still has it when a human approves it, and
\* the approval cannot fail on None, which is not a conflict a human sees.
TargetsResolve ==
    /\ \A w \in Workers : pc[w] = "persist" =>
          \A draft \in result[w].plan : StoredDoc(task[w], draft.doc) = draft.doc
    /\ \A a \in DOMAIN actions :
          a.kind \in {"accept_document", "reject_document", "mark_requirement_satisfied"}
              => a.doc \in Docs

\* persist_result finds the extraction of every document the plan accepts, so
\* _payload cannot raise a KeyError (which would leave the run running).
PayloadAvailable ==
    \A w \in Workers :
        pc[w] = "persist" =>
            \A draft \in result[w].plan :
                draft.kind = "accept_document" =>
                    result[w].extractions[draft.doc] \in Extractions

\* A satisfied requirement names a document of its case that is accepted and
\* has a stored extraction; so does every later state, for nothing takes an
\* acceptance back.
SatisfiedIsBacked ==
    \A c \in Cases, q \in Reqs :
        reqStatus[c][q] = "satisfied" =>
            LET d == satisfiedBy[c][q]
            IN  /\ d \in Docs
                /\ docCase[d] = c
                /\ docStatus[d] = "accepted"
                /\ docExtraction[d] \in Extractions

\* A case that is ready for submission has every requirement satisfied, however
\* long ago the status was suggested.
ReadyIsComplete ==
    \A c \in Cases :
        caseStatus[c] = "ready_for_submission" =>
            \A q \in Reqs : reqStatus[c][q] = "satisfied"

DocumentDecisions(d) ==
    {a \in DOMAIN actions :
        /\ actions[a] = "approved"
        /\ a.kind \in {"accept_document", "reject_document"}
        /\ a.doc = d}

\* At most one decision about a document ever takes effect, over all reviews,
\* and the document's status and extraction are what that decision carried.
DocumentDecidedOnce ==
    \A d \in Docs :
        /\ \A a, b \in DocumentDecisions(d) : a = b
        /\ docStatus[d] \in {"accepted", "rejected"} => DocumentDecisions(d) # {}
        /\ \A a \in DocumentDecisions(d) :
              IF a.kind = "accept_document"
              THEN docStatus[d] = "accepted" /\ docExtraction[d] = a.payload
              ELSE docStatus[d] = "rejected"

RequirementDecisions(c, q) ==
    {a \in DOMAIN actions :
        /\ actions[a] = "approved"
        /\ a.kind = "mark_requirement_satisfied"
        /\ a.case = c
        /\ a.req = q}

\* A requirement is satisfied by exactly one approved suggestion, the one that
\* named the document it now points to.
RequirementDecidedOnce ==
    \A c \in Cases, q \in Reqs :
        /\ \A a, b \in RequirementDecisions(c, q) : a = b
        /\ reqStatus[c][q] = "satisfied" => RequirementDecisions(c, q) # {}
        /\ \A a \in RequirementDecisions(c, q) :
              reqStatus[c][q] = "satisfied" /\ satisfiedBy[c][q] = a.doc

Rows(status) == {a \in DOMAIN actions : actions[a] = status}
RunsIn(statuses) == {r \in Runs : runStatus[r] \in statuses}

\* The audit log and the tables tell the same story.  Only the entry of a
\* failed review may be missing: while its worker is between the two writes of
\* _fail, and for good once a fault struck there.
AuditAgrees ==
    /\ audit["review_requested"] = RunsIn(RunStatus)
    /\ audit["review_completed"] = RunsIn({"succeeded"})
    /\ audit["action_approved"] = Rows("approved")
    /\ audit["action_rejected"] = Rows("rejected")
    /\ audit["review_failed"] \subseteq RunsIn({"failed"})
    /\ faults = 0 =>
          RunsIn({"failed"}) =
              audit["review_failed"] \cup {task[w] : w \in {v \in Workers : pc[v] = "audit"}}

\* Somebody will go on with the review: while it is queued its hook, a message
\* or a worker about to claim it; while it is running the worker that claimed it.
Attended(r) ==
    \/ runStatus[r] = "queued" /\ r \in onCommit \cup queue
    \/ \E w \in Workers :
          /\ task[w] = r
          /\ pc[w] \in IF runStatus[r] = "queued" THEN {"claim"} ELSE Executing

\* Active reviews nobody attends to, and failed ones whose entry nobody writes.
Stranded == {r \in RunsIn({"queued", "running"}) : ~Attended(r)}
Unrecorded ==
    {r \in RunsIn({"failed"}) \ audit["review_failed"] :
        \A w \in Workers : ~(pc[w] = "audit" /\ task[w] = r)}

\* What a fault costs is at most one review: there are never more reviews that
\* block their case for good, or failed without an entry, than there were
\* faults.  Without a fault nothing is ever lost, whoever takes which message.
EachFaultCostsOneReview ==
    /\ IsFiniteSet(Stranded \cup Unrecorded)
    /\ Cardinality(Stranded \cup Unrecorded) <= faults

\* A review that ended stays as it ended, and a decided or superseded suggestion
\* is never decided again nor removed; no redelivery or newer review undoes it.
HistoryStays ==
    [][/\ \A r \in RunsIn({"succeeded", "failed"}) : runStatus'[r] = runStatus[r]
       /\ \A a \in DOMAIN actions :
             /\ a \in DOMAIN actions'
             /\ actions[a] # "pending" => actions'[a] = actions[a]]_<<runStatus, actions>>

(***************************************************************************)
(* What makes the invariants inductive.                                    *)
(***************************************************************************)

\* A run that exists belongs to a case that exists, and every message, hook and
\* busy worker is about a run that exists.
RunsExist ==
    /\ \A r \in RunsIn(RunStatus) : runCase[r] \in Cases
    /\ onCommit \cup queue \subseteq RunsIn(RunStatus)
    /\ \A w \in Workers : pc[w] # "idle" => task[w] \in RunsIn(RunStatus)

\* What a valid plan says about the row made of a draft, by kind.
DraftShape(draft, extracted) ==
    /\ draft.kind = "accept_document" =>
          draft.doc \in Docs /\ extracted[draft.doc] \in Extractions
    /\ draft.kind = "reject_document" => draft.doc \in Docs
    /\ draft.kind = "mark_requirement_satisfied" => draft.doc \in Docs /\ draft.req \in Reqs
    /\ draft.kind = "change_case_status" => draft.newStatus = "ready_for_submission"

RowShape(a) ==
    /\ a.kind = "accept_document" => a.doc \in Docs /\ a.payload \in Extractions
    /\ a.kind = "reject_document" => a.doc \in Docs
    /\ a.kind = "mark_requirement_satisfied" => a.doc \in Docs /\ a.req \in Reqs
    /\ a.kind = "change_case_status" => a.payload = "ready_for_submission"

\* A worker's snapshot has an extraction for no document still to be reviewed,
\* its plan only drafts that the contract lets through, and so have the rows.
WellFormed ==
    /\ \A w \in Workers : pc[w] = "review" =>
          \A d \in Docs : snapshot[w].docs[d] = "pending_review" =>
                             snapshot[w].prior[d] = NoExtraction
    /\ \A w \in Workers : pc[w] = "persist" =>
          \A draft \in result[w].plan : DraftShape(draft, result[w].extractions)
    /\ \A a \in DOMAIN actions : RowShape(a)

\* An active run is the newest of its case.
ActiveIsNewest ==
    \A r, s \in Runs :
        /\ runStatus[r] \in {"queued", "running"}
        /\ runStatus[s] # "absent"
        /\ runCase[r] = runCase[s]
        => s <= r

\* A suggestion is stored under the case of its run.
RowsUnderTheirRun == \A a \in DOMAIN actions : runCase[a.run] = a.case

\* A document has a case once it is uploaded, an extraction once accepted.
DocumentsFilled ==
    \A d \in Docs :
        /\ docStatus[d] = "absent" <=> docCase[d] = NoCase
        /\ docStatus[d] = "accepted" => docExtraction[d] \in Extractions

\* What a worker has read, and what it has planned, is about its run's case.
WorkStaysInCase ==
    \A w \in Workers :
        /\ pc[w] = "review" =>
              \A d \in Docs :
                  snapshot[w].docs[d] # "absent" => docCase[d] = runCase[task[w]]
        /\ pc[w] = "persist" =>
              \A draft \in result[w].plan :
                  draft.doc # NoDoc => docCase[draft.doc] = runCase[task[w]]

\* A suggestion targets a document of its own case: persist_result looks it up
\* among that case's documents, and a document never changes case.
TargetsOwnCase ==
    \A a \in DOMAIN actions : a.doc # NoDoc => docCase[a.doc] = a.case

\* A worker that is about to write review_failed has saved the failed run.
FailureSavedBeforeAudit ==
    \A w \in Workers : pc[w] = "audit" => runStatus[task[w]] = "failed"

TypeInv == TypeOK /\ RunsExist /\ WellFormed
RunInv  == SingleExecutor /\ ActiveIsNewest /\ NothingProposedUnlessCompleted
           /\ RowsUnderTheirRun /\ OnlyLatestActionable
FileInv == DocumentsFilled /\ WorkStaysInCase /\ TargetsOwnCase
           /\ SatisfiedIsBacked /\ ReadyIsComplete
LedgerInv == DocumentDecidedOnce /\ RequirementDecidedOnce /\ AuditAgrees
             /\ FailureSavedBeforeAudit

\* The inductive invariant.
IndInv == TypeInv /\ RunInv /\ FileInv /\ LedgerInv

-----------------------------------------------------------------------------
\* Every requested review ends, as succeeded or failed, so that its case can be
\* reviewed again.
EveryRunFinishes ==
    \A r \in Runs :
        runStatus[r] = "queued" ~> runStatus[r] \in {"succeeded", "failed"}

\* The system keeps the promise of HumanApproval: read the pending suggestions
\* as open offers and all others as spent, and every step of a request, worker,
\* human or fault is a step of that specification or leaves its state alone.
Promise == INSTANCE HumanApproval
               WITH Offer  <- Row,
                    offers <- Pending,
                    spent  <- DOMAIN actions \ Pending

ImplementsHumanApproval == Promise!Spec

-----------------------------------------------------------------------------
(***************************************************************************)
(* What the documentation says of the program and the code does not do.    *)
(***************************************************************************)

\* README.md: "if a worker dies, the AgentRun is marked failed and can be
\* re-triggered": a run whose worker is gone ends up failed.
DeadWorkersRunFails ==
    \A r \in Runs :
        (runStatus[r] = "running" /\ \A w \in Workers : task[w] # r)
            ~> runStatus[r] = "failed"

\* README.md: "a plan may only accept_document for documents with a validated
\* extraction that satisfies a requirement".
AcceptedExtractionSatisfies ==
    \A a \in DOMAIN actions :
        a.kind = "accept_document" => \E q \in Reqs : <<q, a.payload>> \in Passing

\* approvals.py: "Approval re-checks each action's preconditions against the
\* current database state": the extraction on record for the document that
\* satisfies a requirement is one that the requirement's rules accept.
SatisfiedByPassingExtraction ==
    \A c \in Cases, q \in Reqs :
        reqStatus[c][q] = "satisfied" =>
            <<q, docExtraction[satisfiedBy[c][q]]>> \in Passing
=============================================================================
