--------------------------- MODULE OfflineReview ---------------------------
(***************************************************************************)
(* CaseReview with the offline provider in the place of the free choices:  *)
(* what a document reads as is fixed, the evaluation and the plan are      *)
(* those of MockProvider.  Since the plan depends on the status of the     *)
(* case and of its requirements, the snapshot is built as the code builds  *)
(* it: the row of the case, then its documents, then its checklist, in     *)
(* queries of their own, between which others may commit.                  *)
(***************************************************************************)
EXTENDS CaseReview, MockProvider

CONSTANT Readings   \* what the documents may read as

ASSUME OfflineAssumption == Readings \subseteq [Docs -> Extractions \cup {NoExtraction}]

VARIABLES
    reads,          \* the extraction of a document, NoExtraction if its agent gives up
    seenStatus,     \* CaseSnapshot.status, per worker
    seenReqs        \* the statuses in CaseSnapshot.requirements, per worker

seen        == <<seenStatus, seenReqs>>
offlineVars == <<vars, reads, seen>>

UnreadReqs == [q \in Reqs |-> "unread"]

OfflineInit ==
    /\ Init
    /\ reads \in Readings
    /\ seenStatus = [w \in Workers |-> "unread"]
    /\ seenReqs = [w \in Workers |-> UnreadReqs]

\* The query for the run and its case, between the claim and the try.
ReadCase(w) ==
    /\ pc[w] = "load"
    /\ seenStatus[w] = "unread"
    /\ seenStatus' = [seenStatus EXCEPT ![w] = caseStatus[runCase[task[w]]]]
    /\ UNCHANGED <<vars, reads, seenReqs>>

ReadDocuments(w) ==
    /\ seenStatus[w] # "unread"
    /\ BuildSnapshot(w)
    /\ UNCHANGED <<reads, seen>>

ReadChecklist(w) ==
    /\ pc[w] = "review"
    /\ seenReqs[w] = UnreadReqs
    /\ seenReqs' = [seenReqs EXCEPT ![w] = reqStatus[runCase[task[w]]]]
    /\ UNCHANGED <<vars, reads, seenStatus>>

\* The documents to review in a worker's snapshot, and what becomes of them.
Dispatched(w)   == ToReview(snapshot[w].docs)
NewOf(w)        == [d \in Docs |-> IF d \in Dispatched(w) THEN reads[d] ELSE NoExtraction]
UnreviewedOf(w) == {d \in Dispatched(w) : reads[d] = NoExtraction}
ExtractedOf(w)  == AllExtractions(snapshot[w].prior, NewOf(w))

EvaluationOf(w) == MockEvaluation(ExtractedOf(w), UnreviewedOf(w))

PlanOf(w) ==
    MockPlan(EvaluationOf(w), UnreviewedOf(w), Dispatched(w),
             {q \in Reqs : seenReqs[w][q] = "open"}, seenStatus[w])

ReadyToAnswer(w) == pc[w] = "review" /\ seenReqs[w] # UnreadReqs

Forget == /\ seenStatus' = [w \in Workers |-> IF pc'[w] \in {"load", "review"}
                                              THEN seenStatus[w] ELSE "unread"]
          /\ seenReqs' = [w \in Workers |-> IF pc'[w] \in {"load", "review"}
                                            THEN seenReqs[w] ELSE UnreadReqs]

\* run_case_review with the mock.
MockReviews(w) ==
    /\ ReadyToAnswer(w)
    /\ Cardinality(PlanOf(w)) <= MaxActions
    /\ result' = [result EXCEPT ![w] = [extractions |-> NewOf(w), plan |-> PlanOf(w)]]
    /\ snapshot' = [snapshot EXCEPT ![w] = NoSnapshot]
    /\ pc' = [pc EXCEPT ![w] = "persist"]
    /\ Forget
    /\ UNCHANGED <<caseFile, reviews, onCommit, queue, task, faults, reads>>

\* A plan that is too long is refused, and answered again until the retries are
\* spent: the agent gives up, and with it the review.
MockGivesUp(w) ==
    /\ ReadyToAnswer(w)
    /\ Cardinality(PlanOf(w)) > MaxActions
    /\ ReviewFails(w)
    /\ Forget
    /\ UNCHANGED reads

\* Everything else is as it was.
OtherStep ==
    \/ Api
    \/ \E w \in Workers, r \in Runs : Deliver(w, r)
    \/ \E w \in Workers : \/ Claim(w) \/ SkipClaimed(w)
                          \/ PersistResult(w) \/ RecordFailure(w) \/ AuditFailure(w)
    \/ Human
    \/ Failure

ReviewStep(w) ==
    \/ ReadCase(w)
    \/ ReadDocuments(w)
    \/ ReadChecklist(w)
    \/ MockReviews(w)
    \/ MockGivesUp(w)

OfflineNext ==
    \/ OtherStep /\ Forget /\ UNCHANGED reads
    \/ \E w \in Workers : ReviewStep(w)

OfflineSpec == OfflineInit /\ [][OfflineNext]_offlineVars

Approval ==
    \E a \in Pending :
        ApproveAccept(a) \/ ApproveMark(a) \/ ApproveCaseStatus(a)

(***************************************************************************)
(* Fairness: that of CaseReview, and a human who goes on approving what    *)
(* can be approved.                                                        *)
(***************************************************************************)
OfflineFairness ==
    /\ \A r \in Runs : WF_offlineVars(Enqueue(r) /\ Forget /\ UNCHANGED reads)
    /\ WF_offlineVars((\E w \in Workers, r \in Runs : Deliver(w, r)) /\ Forget /\ UNCHANGED reads)
    /\ \A w \in Workers :
          WF_offlineVars(ReviewStep(w) \/ (Worker(w) /\ OtherStep /\ Forget /\ UNCHANGED reads))
    /\ WF_offlineVars(Approval /\ Forget /\ UNCHANGED reads)

FairOfflineSpec == OfflineSpec /\ OfflineFairness

-----------------------------------------------------------------------------
OfflineTypeOK ==
    /\ reads \in Readings
    /\ seenStatus \in [Workers -> CaseStatus \cup {"absent", "unread"}]
    /\ seenReqs \in [Workers -> [Reqs -> ReqStatus \cup {"unread"}]]

\* The contracts accept every answer of the provider on the first try, but for
\* the length of the plan: whatever was decided between the queries of the
\* snapshot, an offline review never fails for another reason.
AnswersAreValid ==
    \A w \in Workers :
        ReadyToAnswer(w) =>
            /\ EvaluationValid(EvaluationOf(w), {d \in Docs : snapshot[w].docs[d] # "absent"},
                               PassingChecks(ExtractedOf(w)))
            /\ Cardinality(PlanOf(w)) <= MaxActions =>
                   PlanValid(PlanOf(w), snapshot[w].docs, EvaluationOf(w), ExtractedOf(w))

\* How long a plan can get: an action per document to review and per requirement,
\* and one more.  With 3 requirements it takes 17 documents to exceed the limit.
PlanLengthBounded ==
    \A w \in Workers :
        ReadyToAnswer(w) =>
            Cardinality(PlanOf(w)) <= Cardinality(Dispatched(w)) + Cardinality(Reqs) + 1

\* No document is suggested for acceptance and for rejection at once, so that no
\* approval makes another suggestion of the review unapprovable.
NoContradictoryOffers ==
    \A a, b \in Pending :
        a.kind = "accept_document" /\ b.kind = "reject_document" => a.doc # b.doc

\* The suggestions S bring a requirement to "satisfied": it is, or one marks it,
\* for a document that is accepted or that another of them accepts.
LeadsTo(S, c, q) ==
    \/ reqStatus[c][q] = "satisfied"
    \/ \E m \in S :
          /\ m.kind = "mark_requirement_satisfied"
          /\ m.req = q
          /\ \/ docStatus[m.doc] = "accepted"
             \/ /\ docStatus[m.doc] = "pending_review"
                /\ \E x \in S : x.kind = "accept_document" /\ x.doc = m.doc

\* Advice to submit a case can be followed for as long as it stands, if nothing
\* of its review was rejected: approvals of open suggestions alone satisfy every
\* requirement, whatever was decided while the review ran and since.
AdviceIsFollowable ==
    \A a \in Pending :
        a.kind = "change_case_status" /\ (\A b \in Rows("rejected") : b.run # a.run) =>
            \A q \in Reqs : LeadsTo({b \in Pending : b.case = a.case}, a.case, q)

\* Too many documents wait for one review to decide on all of them.
Overloaded(c) ==
    Cardinality({d \in Docs : docCase[d] = c /\ docStatus[d] = "pending_review"})
        + Cardinality(Reqs) + 1 > MaxActions

\* A document that reads well for each requirement, and was not rejected.
Complete(c) ==
    \A q \in Reqs : \E d \in Docs :
        /\ docCase[d] = c
        /\ docStatus[d] \in {"pending_review", "accepted"}
        /\ <<q, reads[d]>> \in Passing

\* One review is enough for a complete case to become ready, if nobody rejects a
\* suggestion and the case does not have too many documents; also if documents
\* come in or older suggestions are approved while the review runs.
CompleteCaseBecomesReady ==
    \A c \in Cases :
        (Complete(c) /\ \E r \in Runs : runCase[r] = c /\ runStatus[r] = "queued")
            ~> \/ caseStatus[c] = "ready_for_submission"
               \/ \E a \in Rows("rejected") : a.case = c
               \/ Overloaded(c)
(***************************************************************************)
(* What makes the invariants inductive.                                    *)
(***************************************************************************)
AsRead(extracted) == \A d \in Docs : extracted[d] \in {NoExtraction, reads[d]}

\* Wherever an extraction has got to, it is what its document reads as; and only
\* documents that read well for a requirement are marked for it.
TrueToReading ==
    /\ AsRead(docExtraction)
    /\ \A w \in Workers :
          /\ pc[w] = "review" =>
                /\ AsRead(snapshot[w].prior)
                /\ \A d \in Docs : snapshot[w].prior[d] # NoExtraction =>
                                     snapshot[w].docs[d] # "absent"
          /\ pc[w] = "persist" =>
                /\ AsRead(result[w].extractions)
                /\ \A draft \in result[w].plan :
                      draft.kind = "mark_requirement_satisfied" =>
                          <<draft.req, reads[draft.doc]>> \in Passing
    /\ \A a \in DOMAIN actions :
          /\ a.kind = "accept_document" => a.payload = reads[a.doc]
          /\ a.kind = "mark_requirement_satisfied" => <<a.req, reads[a.doc]>> \in Passing
    /\ \A c \in Cases, q \in Reqs :
          reqStatus[c][q] = "satisfied" => <<q, reads[satisfiedBy[c][q]]>> \in Passing

Contradicts(a, b) == a.kind = "accept_document" /\ b.kind = "reject_document" /\ a.doc = b.doc

\* No plan contradicts itself, nor do the rows of one review.
ReviewsAreConsistent ==
    /\ \A w \in Workers :
          pc[w] = "persist" => \A x, y \in result[w].plan : ~Contradicts(x, y)
    /\ \A a, b \in DOMAIN actions : a.run = b.run => ~Contradicts(a, b)

OfflineInv ==
    TypeInv /\ RunInv /\ FileInv /\ OfflineTypeOK /\ TrueToReading /\ ReviewsAreConsistent

ReadsBadly(d) == \A q \in Reqs : <<q, reads[d]>> \notin Passing

\* Only a document that reads badly for every requirement is suggested for
\* rejection, or rejected.
RejectionsAreDeserved ==
    /\ \A w \in Workers :
          pc[w] = "persist" =>
              \A draft \in result[w].plan :
                  draft.kind = "reject_document" => ReadsBadly(draft.doc)
    /\ \A a \in DOMAIN actions : a.kind = "reject_document" => ReadsBadly(a.doc)
    /\ \A d \in Docs : docStatus[d] = "rejected" => ReadsBadly(d)

\* What a review has seen accepted or satisfied is so still; it has seen the
\* whole checklist or none of it.
SeenStays ==
    \A w \in Workers :
        /\ seenReqs[w] = UnreadReqs \/ (pc[w] = "review" /\ seenReqs[w] \in [Reqs -> ReqStatus])
        /\ pc[w] = "review" =>
              /\ \A d \in Docs :
                    /\ snapshot[w].prior[d] # NoExtraction => snapshot[w].docs[d] = "accepted"
                    /\ snapshot[w].docs[d] = "accepted" => docStatus[d] = "accepted"
              /\ \A q \in Reqs :
                    seenReqs[w][q] = "satisfied" => reqStatus[runCase[task[w]]][q] = "satisfied"

RowsOf(r) == {a \in DOMAIN actions : a.run = r}

\* A plan that advises to submit leads there, and so do the rows made of it.
AdviceLeads ==
    /\ \A w \in Workers :
          pc[w] = "persist" =>
              \A draft \in result[w].plan, q \in Reqs :
                  draft.kind = "change_case_status" =>
                      LeadsTo(result[w].plan, runCase[task[w]], q)
    /\ \A a \in DOMAIN actions, q \in Reqs :
          a.kind = "change_case_status" => LeadsTo(RowsOf(a.run), a.case, q)

\* What was approved has been done, and what was superseded is older than a
\* review that succeeded.
RowsSettled ==
    \A a \in DOMAIN actions :
        /\ actions[a] = "approved" /\ a.kind = "accept_document" =>
               docStatus[a.doc] = "accepted"
        /\ actions[a] = "approved" /\ a.kind = "mark_requirement_satisfied" =>
               reqStatus[a.case][a.req] = "satisfied"
        /\ actions[a] = "superseded" =>
               \E r \in Runs : runCase[r] = a.case /\ runStatus[r] = "succeeded" /\ a.run < r

AdviceInv == RejectionsAreDeserved /\ SeenStays /\ AdviceLeads /\ RowsSettled
=============================================================================
