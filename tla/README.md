# Verification of caseflow-ai

caseflow-ai keeps application cases: a case has documents and a checklist of
requirements, AI agents review the documents and suggest actions, and a human
approves or rejects each suggestion. This directory holds TLA+ models of that
system, TLC configurations that check them on small instances, and proofs that
TLAPS checks for every instance. Paths below are relative to `src/`.

    tlc -workers 2 -config core_safety.cfg MCCaseReview.tla     # one run
    tlapm CaseReviewProofs.tla                                  # one proof module

## 1. Inventory

| Part | State | Operations | Interacts with |
|---|---|---|---|
| Case file: `cases/models.py`, `cases/services/cases.py` | `Case`, `CaseDocument`, `RequirementChecklistItem` rows | `create_case`, `add_document` | every other part reads or writes it |
| Review service: `cases/services/review.py`, `cases/tasks.py` | `AgentRun` rows, `ProposedAction` rows | `start_review`, `execute_review` (claim, snapshot, review, `persist_result` or `_fail`) | an `on_commit` hook enqueues a Celery task; the worker calls the pipeline and writes only suggestions |
| Approvals: `cases/services/approvals.py` | the status of a `ProposedAction` and the rows it names | `approve_action` (one effect per kind), `reject_action` | serialised with `persist_result` and with each other by a lock on the case |
| Audit log: `cases/services/audit.py` | `AuditLogEntry` rows, append-only | `record` | called in the transactions of the others |
| Review pipeline: `agents/pipeline.py` | `ReviewState` of one invocation | fan-out per pending document, join, checklist, plan | runs the three agents; returns or raises |
| Agent loop: `agents/base.py` | `AgentState` of one agent | `call_model`, `run_tools`, `validate`, `give_up` | calls a provider and pure tools |
| Output contracts: `agents/schemas/` | none | validators of extractions, evaluations, plans | decide which answers leave the loop |
| Tools and rules: `agents/tools.py`, `agents/rules.py` | none | `check_requirement` and read-only tools | their results are logged, the log grounds the evaluation |
| Offline provider: `agents/providers/mock.py` | none | `complete`: simulated extraction, checklist and plan | answers the three agents instead of a model |
| Admin site: `cases/admin.py` | the pages an operator has open | edits of runs, cases and checklists | writes the same tables, past the services and without locks |
| OpenAI adapter, API, templates, evaluations, scripts | none of their own | | thin or offline |

What is hard about it: two kinds of processes (requests and workers) share the
tables; messages are delivered at least once and workers can die; a review takes
minutes between its snapshot and its writes, while humans go on deciding; the
approval of a suggestion relies on facts the agent saw earlier; an operator's
page may overwrite what the service did since it was opened; the model behind an
agent can answer anything, in any order, for ever.

What makes each part correct, in short: one active review per case, executed
once, leaving all of its suggestions or none; only the newest review's
suggestions can be decided; a suggestion takes effect once, on its own case, and
only if the file still allows it; the log tells what happened; an evaluation
claims only what the rules confirmed; every agent and every review ends.
`PROJECT.json` lists the hazards line by line, with the properties that cover
them.

## 2. Modules

    Contracts
     ├─ ReviewContract
     │   ├─ CaseReview ── MCCaseReview             (core, 5 TLC instances)
     │   │   ├─ INSTANCE HumanApproval             (abstract promise)
     │   │   ├─ CaseReviewProofs ── HumanApprovalProofs
     │   │   ├─ AdminSite ── MCAdminSite           (with operators)
     │   │   │   └─ AdminSiteProofs                (also EXTENDS CaseReviewProofs)
     │   │   └─ OfflineReview ── MCOfflineReview   (with the offline provider)
     │   │       └─ OfflineReviewProofs            (also EXTENDS CaseReviewProofs)
     │   ├─ MockProvider                           (extended by OfflineReview)
     │   └─ ReviewPipeline ── MCReviewPipeline
     │       ├─ INSTANCE SingleReview              (the review as one step)
     │       └─ ReviewPipelineProofs
     ├─ SingleAgent                                (an agent as one step)
     └─ AgentLoop ── MCAgentLoop
         ├─ INSTANCE SingleAgent
         └─ AgentLoopProofs
    RowLocks ── MCRowLocks
     └─ RowLocksProofs
    DocumentChecks ── MCDocumentChecks
     └─ DocumentChecksProofs

A line is EXTENDS unless it says INSTANCE. The modules are layers of one system:
what one takes as a single step or an opaque value, another one opens.

| Taken for granted in | as | opened in |
|---|---|---|
| CaseReview | a review is one step that returns extractions of `Reviewed` and a plan of `PossiblePlans` (ReviewContract), or raises | ReviewPipeline: `ImplementsSingleReview` (the step is SingleReview), `PipelineEnds` |
| ReviewPipeline | an agent is one step: an output its validator accepts, AgentError, or another exception | AgentLoop: `ImplementsSingleAgent` (the step is SingleAgent), `LoopEnds` |
| CaseReview | a transaction is one step | RowLocks: `TransactionsAreAtomic` |
| CaseReview | an agent may answer anything its contract allows | OfflineReview, for one provider: `OfflineIsAReview` |
| MockProvider | no type of document serves two requirements, and a document of another type fails the rules | DocumentChecksProofs: `OneRequirementPerType` |
| Contracts | an extraction is one value, a rule's verdict the relation `Passing`, and a check never raises | DocumentChecks: `RulesNeverRaise` |

**Contracts** translates the validators of `schemas/actions.py` and
`schemas/checklist.py` into operators without state: `TargetsMatchKind`,
`PlanValid` and its parts, `EvaluationValid`. What a document says, and what an
agent extracts from it, is one opaque member of `Extractions`; the verdict of
`rules.check_requirement` on it is the constant relation `Passing`. Texts
(rationale, reasons, messages) are left out; a message is there or not. Two
drafts with one key are refused by the code, so a valid list of drafts is a set.

**CaseReview** is the core. One action is one database transaction, or one step
of a worker between two. Inside a transaction the code holds the lock on the
case (`select_for_update`), or writes with one conditional `UPDATE`, so the
transaction is atomic here.

| Variables | Code |
|---|---|
| `caseStatus`, `reqStatus`, `satisfiedBy`, `docCase`, `docStatus`, `docExtraction` | columns of the case file; `"absent"` is a row that does not exist yet |
| `runStatus`, `runCase`, `actions` | `AgentRun` and `ProposedAction`; `actions` maps a row's identifying columns to its status |
| `audit` | per event, the set of targets it was recorded for |
| `onCommit`, `queue` | hooks of committed requests still to run; messages in the broker (unordered, at least once) |
| `pc`, `task`, `snapshot`, `result` | per worker: where `execute_review` stands, for which run, with what in its local variables |
| `faults` | how many faults have happened |

| Actions | Code |
|---|---|
| `CreateCase`, `AddDocument` | `services/cases.py` |
| `StartReview`, `Enqueue` | `start_review`, its `on_commit` hook |
| `Deliver`, `Claim`, `SkipClaimed` | Celery; the claiming `UPDATE ... WHERE status='queued'` |
| `BuildSnapshot`, `ReviewSucceeds`, `ReviewFails` | `build_snapshot`; `run_case_review` returns or raises |
| `PersistResult`, `RecordFailure`, `AuditFailure` | `persist_result`; the two writes of `_fail` |
| `ApproveAccept`, `ApproveRejectDocument`, `ApproveMark`, `ApproveCaseStatus`, `ApproveNoStateChange`, `Reject` | `services/approvals.py` |
| `EnqueueFails`, `DatabaseError`, `Crash`, `Redeliver` | the surroundings |

The agents are a nondeterministic choice that respects their contracts only: any
extraction or failure per pending document, any plan of `Plans` for which some
evaluation of `Evaluations` passes both validators. A transaction that answers
409 changes nothing and is not an action.

**ReviewContract** holds the four operators that CaseReview and ReviewPipeline
share: which documents are reviewed, which extractions and plans may come back.
**SingleReview** makes a specification of it: what `run_case_review` promises its
caller is one step that returns such a result, or one that raises.

**HumanApproval** is the abstract promise: a file, offers, and offers that are
spent. Agents publish offers, which replace the open ones of their case; the
file changes because of an offer only when a human accepts it, while it is open
and the file allows it. `CaseReview!ImplementsHumanApproval` instantiates it
with the pending suggestions as offers and all others as spent; a step of a
worker up to `persist_result` is a stutter.

**AdminSite** adds the Django admin site to CaseReview. Opening a page (`OpenRun`,
`OpenCase`) copies what it shows, saving it (`SaveRun`, `SaveCase`) writes the
copy back with the operator's change, whatever happened in between: no lock, no
check, no audit entry of the service's. The operator does what there is a reason
to do: sets a review that looks stuck to failed, and closes a case. The form of a
review has one check that matters (`FormAccepts`): `traces` (cases/models.py:84)
may not be blank, `[]` counts as blank, and every review that has not ended shows
`[]`, so the operator has to type something into that field too. The JSON fields of
a case's page, `accepted_document_types` and `rules`, are filled in by every
template. `CaseAdmin` has the checklist inline, so a case is saved together with its
requirements; suggestions are read-only there.

**MockProvider** translates `_simulate_checklist` and `_simulate_next_steps` into
operators, on extractions, documents without one, and the three parts of the
snapshot the planner reads. **OfflineReview** is CaseReview with these answers in
the place of its free choices, and with what a document reads as fixed by
`reads`. Because the plan depends on the status of the case and of its
requirements, the snapshot is taken apart here into the queries of the code
(`ReadCase`, `ReadDocuments`, `ReadChecklist`), between which humans decide and
documents arrive. A plan above the limit of `NextStepPlan` makes the review fail
(`MockGivesUp`).

**AgentLoop** is the graph of `agents/base.py` with the `ChecklistAgent`'s
validator, the one that looks at the log of the agent's own tool calls. A node
is an action; the model may ask for any set of calls, claim any evaluation,
answer something that does not parse, or raise. **SingleAgent** is what the
caller of `Agent.run` sees of it: one step that returns an evaluation with
`EvaluationValid(.., PassingChecks(..))`, or one that raises. That is what
`ReviewPipeline!EvaluateChecklist` and `PossiblePlans` take for granted about the
checklist agent, and `ImplementsSingleAgent` says that the loop keeps to it.

**ReviewPipeline** is the graph of `agents/pipeline.py`. `node` is the node that
runs, `branch` and `outcome` what became of each document's branch, `extractions`,
`failures`, `evaluation` and `plan` the keys of `ReviewState`.

| Actions | Code |
|---|---|
| `Dispatch` | `dispatch_documents`: one `Send` per pending document, or straight to the checklist |
| `StartBranch`, `EndBranch` | a thread of LangGraph's executor runs `review_document`, at most `max_concurrency` at a time |
| `Join` | all branches returned: the reducers merge what they returned |
| `StepFails` | a branch raised something other than AgentError: those that run end first, then the invocation raises and merges nothing |
| `EvaluateChecklist`, `PlanNextSteps`, `AgentRaises` | the two later nodes, and their failure |

**RowLocks** takes the two kinds of transactions that write a case's suggestions
apart into locking statements on Postgres with READ COMMITTED: a decision locks
its suggestion (`LockSuggestion`, which reads it), then the case (`LockCase`), then
commits or conflicts; `persist_result` locks the case, finds the pending rows
(`StartUpdate`), and locks and looks at each of them again (`UpdateRow`). The
database ends a deadlock by rolling one of the two back (`Victim`). Locks on
documents, requirements and runs are only taken by who has the case, and are left
out.

**DocumentChecks** opens what the others call an extraction and its verdict: the
validators of `schemas/extraction.py`, `FIELD_SPECS`, the templates of
`cases/checklists.py` and the rules of `rules.py`, around a document that is
extracted once and checked in several reviews on later days (`Extract`, `Check`,
`NextDay`). A text is a sequence of pieces, so that a value can be part of a word
of its quote; a value has the form that decides how `Decimal` and
`date.fromisoformat` read it.

Operators marked "Variant" in the modules are plausible bugs (a dropped filter,
an off-by-one); no specification uses them. Replacing the operator below them by
the variant makes the named property fail, as recorded in `PROJECT.json`.

## 3. Runs

| Run | Instance | Shows |
|---|---|---|
| `core_safety` | 1 case, 1 document, 1 requirement, 2 extractions (one passing), 2 reviews, 2 workers, all four faults, at most 2 | `TypeOK`, `SingleExecutor`, `EachFaultCostsOneReview`, `PayloadAvailable`, `OnlyLatestActionable`, `DocumentDecidedOnce`, `RequirementDecidedOnce`, `AuditAgrees`, `HistoryStays` |
| `admin_site` | 1 case, 1 document, 2 requirements, 2 reviews, 2 workers, any one fault, an operator, fairness | `OneActiveRun`, `SatisfiedIsBacked`, `ReadyIsComplete`, `PendingFromOneReview`, `EndedStaysEnded`, `ReviewEndsOrIsLost` |
| `two_cases` | 2 cases, 2 documents, agents that name both, 2 workers, 1 redelivery, fairness | `TargetsResolve`, `ImplementsHumanApproval`, `EveryRunFinishes` |
| `agent_loop` | 1 requirement, 3 documents (passing, failing, not extracted), 8 turns and 2 retries as in the code | `RecursionLimitUnused`, `StopsWhenSpent`, `ImplementsSingleAgent`, `LoopEnds` |
| `review_pipeline` | 3 documents of any status and any prior extraction, 2 branches at a time, agents that answer, give up or raise at any point | `JoinIsComplete`, `ImplementsSingleReview`, `OneBadDocumentIsNotFatal`, `PipelineEnds` |
| `row_locks` | 2 suggestions, 3 decisions (2 of them about one suggestion), 1 `persist_result` | `ReadsStayCurrent`, `NoOtherDeadlock`, `TransactionsAreAtomic`, `TransactionsEnd` |
| `document_checks` | passports and bank statements, 2 applicants of whom one's name contains the other's, blank, foreign and malformed values, 4 days, both case types | `RulesNeverRaise`, `NamesAreInDocument`, `FailedStaysFailed` |
| `offline_review` | 1 case, 3 documents (good, bad or unreadable), 2 requirements, 2 reviews, plans of at most 5 suggestions, fairness | `AnswersAreValid`, `PlanLengthBounded`, `NoContradictoryOffers`, `SatisfiedByPassingExtraction`, `AdviceIsFollowable`, `CompleteCaseBecomesReady` |
| `worker_dies`, `unjustified_accept`, `stale_evidence`, `unflagged_document` | small instances of the same | the four disagreements of section 6 |

Bounds, and why they are enough. A stale suggestion takes two reviews, and so
does a review that ends after it was marked failed and another one started. Two
workers are what a
message delivered twice needs. Two faults cover a fault during the handling of
another, e.g. a crash with redelivery whose second execution fails. The
instances of `Plans` hold every kind of draft, alone and with those that approve
or contradict the same row, and the evaluations are all those over the
instance's documents. The proofs of section 5 then remove every bound.
`MaxActions` is 3 in these instances; the code's 20 is the constant's meaning. In
`offline_review` it is 5, one less than the longest plan of 3 documents and 2
requirements, so that a plan can be too long. Its three documents are what it
takes for one to be unreadable, or bad and first in the order of ids, next to
those that complete the case. In `admin_site` one fault is enough: every kind
of fault can leave a review stuck alone, and the other review shows that no second
one is lost with it.
Three documents and two branches at a time, instead of the code's four, have
branches that wait, run and have ended side by side; a lock cycle has two
transactions, and the third decision competes for the row of one of them. Days are
bounded by `MaxDay`; the templates' 180 and 365 days lie between the dates of the
instance.

All configurations switch the deadlock check off, since the models stop by
right: review ids are finite, a case whose suggestions are all decided waits for
nobody, an agent's loop ends.

Fairness. `FairSpec` of `CaseReview` assumes that a committed request runs its
hook, that an idle worker takes a waiting message, and that each worker goes on
with its task. The code justifies the last: agents have budgets (`agent_loop`
shows that they end), the provider's SDK and Celery have time limits, and a
transaction either commits or raises. Humans, requests and faults are not fair
there: no property of CaseReview relies on a human deciding. `two_cases` allows
redeliveries but neither crashes nor database errors, for with them the property
is false, which is what `worker_dies` is about. `FairAdminSpec` is the same
fairness next to open pages: nothing is assumed of the operator, who need not rescue
a review that hangs.
`FairOfflineSpec` adds a human who goes on approving what can be approved, since
`CompleteCaseBecomesReady` is about where approvals lead; rejections are possible
at any time and a disjunct of the property. `FairSpec` of `AgentLoop`
assumes that a node that can run runs; that of `ReviewPipeline` that LangGraph's
executor goes on and every agent ends, which is what `LoopEnds` shows; that of
`RowLocks` that each transaction goes on when it has what it waits for, and that
the database notices deadlocks (Postgres does after `deadlock_timeout`).

## 4. Properties that carry the weight

- `OneActiveRun`: the check in `start_review` alone keeps two reviews of a case
  apart; the database's partial unique constraint never fires, so the
  `except IntegrityError` branch is defence in depth.
- `SingleExecutor` and `HistoryStays`: at-least-once delivery never leads to two
  executions, nor to a second result for a run.
- `EachFaultCostsOneReview`: a run that says queued has a hook or a message left,
  one that says running has a worker, a failed one has its entry in the log or a
  worker about to write it; the exceptions are at most as many as the faults.
  Duplicates, skipped messages and reviews that fail never strand a run.
- `OnlyLatestActionable`: whatever the order in which reviews end and humans
  decide, what is pending stems from the newest completed review.
- `TargetsResolve`: `persist_result` looks up the documents and requirements of a
  plan again, among the rows of the run's case (`StoredDoc`, `StoredReq`), long after
  the snapshot. The lookup keeps another case's document out whatever the plan says,
  but silently: a miss is stored as None, and approving that suggestion would raise.
  That nothing is missed rests on the plan's validator, which knows the documents of
  the snapshot, and on documents never changing case.
- `DocumentDecidedOnce`, `RequirementDecidedOnce`, `SatisfiedIsBacked`,
  `ReadyIsComplete`: the file agrees with the decisions that made it, over all
  reviews.
- `AuditAgrees`: the log and the tables agree in every state; the one gap is
  between the two writes of `_fail`.
- `EndedStaysEnded`, `PendingFromOneReview`: a review may be marked failed by hand
  while its worker is alive: the worker's late result counts as a review that
  succeeded, and replaces the suggestions of any other, but two reviews never both
  count.
- `ReviewEndsOrIsLost`: with any one fault, redelivery and operator, a review ends
  or is the one that the fault has lost.
- `SatisfiedIsBacked`, `ReadyIsComplete` in `admin_site`: a page that undoes
  approvals leaves the file sound, because it writes status and checklist together.
- `AnswersAreValid`: the provider's answers satisfy contracts it does not know.
- `AdviceIsFollowable`: an open suggestion to submit the case promises that
  approvals can get there: each requirement is satisfied, or has a pending
  suggestion whose document is accepted or is pending with a suggestion to accept
  it, whatever was decided since, and while the snapshot was read in pieces.
  Only the human who rejects a part of the advice ends the promise.
- `CompleteCaseBecomesReady`: approvals depend on each other (document, then
  requirement, then case) and on what was approved while the review ran; one
  review is enough, and no suggestion that is needed is left out or unapprovable.
- `NoContradictoryOffers`: rests on the templates (no type of document serves two
  requirements); with a type that does, one document is accepted for one
  requirement and rejected for the other, and the contract allows that.
- `ImplementsSingleAgent`, `RecursionLimitUnused`, `StopsWhenSpent`, `LoopEnds`:
  the loop is safe against any behaviour of the model; of all its turns, refused
  answers and tool calls the caller sees one grounded evaluation or one exception.
- `JoinIsComplete`, `ImplementsSingleReview`: in whatever order the branches end,
  every pending document is an extraction or a failure behind the join, and the
  caller sees what CaseReview's single step allows: one result, judged by the
  documents and extractions the review started from, or an exception alone.
- `TransactionsAreAtomic`, `ReadsStayCurrent`: the single steps of CaseReview are
  what the locks make of the statements; a decision that waited for the case
  still judges by a true status.
- `NoOtherDeadlock`: an approval and `persist_result` are the only two that can
  wait for each other, so the database always finds the cycle; no conflict or
  rollback leaves a lock behind.
- `RulesNeverRaise`, `NamesAreInDocument`, `FailedStaysFailed`: contract and rules
  fit together, which neither shows alone.

## 5. Proofs

`tlapm` proves, for all values of the constants allowed by the assumptions
`ContractsAssumption`, `ReviewContractAssumption`, `CaseReviewAssumption`,
`AgentLoopAssumption`, `ReviewPipelineAssumption`, `RowLocksAssumption`,
`DocumentChecksAssumption`, `AdminSiteAssumption`, `MockAssumption` and
`OfflineAssumption` (ids and null values are different things, plans are
sets of drafts, texts are sequences of pieces, documents are ordered, types and
requirements match as in the templates; no assumption bounds a set):

- `CaseReviewProofs`: every invariant of the runs of CaseReview, `FaultsCostOneReview`
  among them, `FailedReviewsProposeNothing`, and `HistoryStays`;
- `HumanApprovalProofs`: `KeepsPromise`, i.e. `Spec => ImplementsHumanApproval`;
- `AdminSiteProofs`: what survives the operator's edits: `PagesTypeCorrect`,
  `EditsKeepRequirementsBacked`, `EditsKeepReadyComplete`, `EditsKeepTargets`,
  `EditsKeepOneActive`, `EditsKeepDocumentDecisions`, `EditsKeepOneWorker`,
  `EndedForGood`, `OneReviewsSuggestions`;
- `OfflineReviewProofs`: `OfflineAnswersAreValid`, `PlansAreShort` (for finite sets
  of documents and requirements), `OffersAgree`, `OfflineEvidencePasses`,
  `AdviceCanBeFollowed`, types, and `OfflineIsAReview`: with `Plans` and
  `Evaluations` taken as all there are, `OfflineSpec => Spec`, so that every
  theorem about CaseReview holds with this provider;
- `AgentLoopProofs`: `OutputGrounded`, `TurnBudgetStopsFirst`,
  `GivesUpOnlyWhenSpent`, types, and `AgentsAreSingleSteps`, i.e.
  `Spec => ImplementsSingleAgent`;
- `ReviewPipelineProofs`: `PipelineTypeCorrect`, `JoinAccountsForAll`,
  `BadDocumentsAreIsolated`, `GraphNeverStuck`, and `ReviewsAreSingleSteps`, i.e.
  `Spec => ImplementsSingleReview`: all but liveness;
- `RowLocksProofs`: `DecisionsJudgeByTheTruth`, `LocksMakeAtomic`,
  `TheOnlyDeadlock`, and types;
- `DocumentChecksProofs`: `ExtractionsKeepToSpec`, `RulesAreTotal`,
  `PassedNamesAreWritten`, `FailureIsFinal`, `OneRequirementPerType`, for the
  templates and field specifications of the code.

The invariant. None of the properties is inductive alone. `IndInv` of
`CaseReview` has four parts, each proved on top of the ones before it, but for one
fact of the third that the first needs:

1. `TypeInv`: types; every message, hook and busy worker is about a run that
   exists (`RunsExist`); drafts in a worker's hands and stored rows have the
   shape their kind asks for (`WellFormed`), which is what the plan's validator
   ensures at the moment the review ends. A row keeps the shape of its draft
   because the lookups find what it names, which takes `WorkStaysInCase` from
   part 3. `PayloadAvailable` follows: an
   accepted document was pending in the snapshot, has therefore no prior
   extraction, and so the extraction the validator found is this run's.
2. `RunInv`: the active run of a case is its newest (`ActiveIsNewest`, because
   `start_review` looks under the lock and ids grow), so the run that persists
   is newer than every completed run, which gives `OnlyLatestActionable`.
   `OneActiveRun` follows.
3. `FileInv`: what a worker read and planned is about its run's case
   (`WorkStaysInCase`; documents never change case), hence `TargetsResolve`; a
   row's document is one of its case by the lookup (`TargetsOwnCase`); acceptance is never taken back, hence `SatisfiedIsBacked` and
   `ReadyIsComplete`.
4. `LedgerInv`: each decision leaves the state that forbids the next one about
   the same row, hence `DocumentDecidedOnce` and `RequirementDecidedOnce`; and
   `AuditAgrees`.

`EachFaultCostsOneReview` counts, on top of `TypeInv` and `RunInv`: by one lemma
per group of actions no step of the API, a worker or a human adds to the reviews
that are lost, and a fault, which also counts itself, adds at most the one it
hits (`CountLost`).

Each part has a lemma for the initial state and one per group of actions (API,
worker, human, fault). The refinement proof maps every action of `Next` to a
step of `HumanApproval` or a stutter, using `IndInv` in the state before; the
interesting cases are `PersistResult` (a `Publish`: its rows are new because
nothing is proposed before a run completes) and `ApproveMark` (the document is
of the case, by `TargetsOwnCase`).

In `AdminSite`, `AdminInv` keeps `TypeInv` and `FileInv` of the service and adds
`PagesAreSound`: what an open page shows as satisfied is backed by documents that
are accepted for good, so writing it back is sound at any later time. `RunInv` is
not kept, which is why `OneReviewsSuggestions` has an argument of its own:
`persist_result` supersedes every other review's suggestions, whichever is newer.
`OneActiveRun` holds with operators because only `start_review` makes a review
active, and no step makes an ended one active again (`ActiveStep`). The same fact
gives `EditsKeepOneWorker`: a review leaves the queue once, so it is claimed once,
also when it is marked failed in a worker's hands and another one is started.

In `OfflineReview`, `OfflineInv` adds two parts to those of CaseReview:
`TrueToReading` (wherever an extraction has got to, a snapshot, a result, a row or
a document, it is what the document reads as) and `ReviewsAreConsistent`. The
first half of the module proves, about the operators of `MockProvider` alone, that
evaluation and plan are valid, consistent and short (the last by an injection
from suggestions to documents and requirements); the second that a review step
is one of CaseReview and keeps the invariant. `AdviceCanBeFollowed` rests on a
third layer, `AdviceInv`: a document is rejected only if no requirement accepts
what it reads as (`RejectionsAreDeserved`),
what a worker read as satisfied or accepted stays so (`SeenStays`), a plan that
advises to submit leads there and so do the rows made of it, whatever their status
(`AdviceLeads`), and what was approved has been done (`RowsSettled`). `LeadsTo` over
all rows of a review is preserved by every step: an approval moves a requirement
along its path and never off it. As long as nothing of the review is rejected or
superseded, its rows are approved, hence done, or pending, which is the theorem.

In `AgentLoop`, `LoopInv` relates the nodes visited to the turns (two per turn,
so at most `2 * MaxTurns + 1 < 3 * MaxTurns + 5`) and says that entries of the
log marked as passed are true. For the refinement, every node before the last is a
stutter of SingleAgent, the answer `_validate` accepts is its `Return` because the
log is true, and the three other exits are its `Raise`.

In `ReviewPipeline`, `BranchInv` says that only dispatched documents have a branch
and that its state tells what its agent answered; with the guard of `Join` this
makes `JoinIsComplete`. The evaluation is valid from its node on, which makes the
plan one of `PossiblePlans` (`ResultIsReviewed`). For the refinement, the steps
before the end are stutters of SingleReview, `PlanNextSteps` is its `Return` by
that invariant, `StepFails` and `AgentRaises` are its `Raise`. `NeverStuck` is the
safety half of `PipelineEnds`: a dispatched branch that neither waits nor runs has
ended, and when none runs a slot is free.

In `RowLocks`, `LockInv` says who has which lock: a decision past its first step
has its suggestion, so nobody else writes it and its read stays true;
`persist_result` in its `UPDATE` has the case, so no decision can commit, and each
pending row is locked by it or still to be visited. `HolderInv` says that who has a
lock is still at work and which locks it can have, so a chain of waits goes from a
decision over the case to `persist_result` and back to that decision at most.

In `DocumentChecks`, `ChecksInv` says that the extraction is valid and each verdict
is the result of a check on some day up to today. The rest are lemmas on the
operators: `FieldsOfRules` (templates and field specifications agree, by cases),
`ValuesHaveFormat`, `ChecksOnlyExpire` (in time), `MatchingWords` (equal bags of
words) and `QuotedWords` (a word written in a quote is written in the text),
which is applied twice, from the value to its evidence and from there to the text.

Model-checked only: `EveryRunFinishes`, `ReviewEndsOrIsLost`, `CompleteCaseBecomesReady`,
`LoopEnds`, `PipelineEnds` and `TransactionsEnd`, since liveness under fairness is
out of the prover's reach. What they rest on beside fairness is proved for most of
them: nothing is stranded without a fault (`FaultsCostOneReview`), the graph and
the transactions are never stuck (`GraphNeverStuck`, `TheOnlyDeadlock`), an advice
can be followed (`AdviceCanBeFollowed`), the loop's turns are bounded
(`GivesUpOnlyWhenSpent`). The types of AgentLoop, ReviewPipeline, RowLocks and
DocumentChecks, `OutputIsGrounded`, `NothingProposedUnlessCompleted` and
`NeverStuck` are proved and in no run.

## 6. Where documentation and code differ

| Run | Says | Does |
|---|---|---|
| `worker_dies` | README.md:446 "if a worker dies, the `AgentRun` is marked failed and can be re-triggered" | the run stays `running`, its redelivered message is skipped, and no new review of the case can start |
| `unjustified_accept` | README.md:219 "a plan may only `accept_document` for documents with a validated extraction that satisfies a requirement" | one passing document justifies every document listed next to it |
| `stale_evidence` | cases/services/approvals.py:3 "Approval re-checks each action's preconditions against the *current* database state" | the document's status is checked, its extraction is not: a requirement can be satisfied by a stored extraction that its rules refuse |
| `unflagged_document` | agents/pipeline.py:11 "One bad document does not sink the review. Its branch records a failure, the document is flagged for a human, and the rest continues." | the plan's validator never asks for the flag; a plan without it is stored |

More observations, without a run of their own:

- cases/tasks.py:8 says "Failures are recorded on the AgentRun row, not raised."
  An error in `persist_result` (cases/services/review.py:108), or in the query
  before the `try` (review.py:98), is raised, and the run stays `running`: in the
  instance of `worker_dies` with `Faults = {"database"}`, `DeadWorkersRunFails` has
  such a counterexample too. An operator can set such a run to failed in the admin
  site, but not by that alone: the form refuses the `[]` in `traces` as it is shown
  (cases/models.py:84), so something has to be typed there (`FormAccepts`).
- With an operator, some invariants of the service no longer hold, as TLC shows
  on the instance of `admin_site`: a review marked failed while its worker is
  alive becomes succeeded when the worker ends (`HistoryStays`), the suggestions
  of a newer review are superseded by its late ones (`OnlyLatestActionable`,
  although cases/services/review.py:115 says "Only the latest review's suggestions
  are actionable."), and a requirement that a stale page reopens is decided twice
  (`RequirementDecidedOnce`).

- Deadlocks do happen in `RowLocks` (`DeadlockedWith`): a decision holds its
  suggestion and waits for the case (cases/services/approvals.py:40-41),
  `persist_result` holds the case and waits for the suggestion
  (cases/services/review.py:114-120). `TransactionsEnd` holds only because the
  database picks a victim, and `NoOtherDeadlock` says that there is no other kind of
  deadlock. A decision as victim is an error of the API; with `persist_result` as
  victim its run stays `running`, as above.
- The format check of money takes whatever `Decimal` reads, `12_500`, `NaN` and
  `Infinity` included (agents/schemas/extraction.py:79-83), although
  agents/schemas/common.py:33 says "plain decimal string, no symbols or
  separators". An infinite balance is below no amount, so it passes every
  threshold; NaN fails, since the rule catches `InvalidOperation`.

## 7. Not modelled

Strings below the level of words and quotes: the mock's regular expressions,
prompts, traces, tokens. The OpenAI adapter, serializers, evaluation harness and
scripts, which are I/O or offline. In CaseReview `as_of` is part of the opaque
verdict `Passing`, so a verdict that changes with the day is only seen in
DocumentChecks. In the admin site: deleting and adding rows, edits of documents,
of the checklist by hand or of a run's other columns, two operators on one page,
and a save that falls between two statements of a transaction. The loops
of the document and the planning agent are the loop of `AgentLoop` with another
validator; only the checklist agent's validator looks at the loop's own log.
RowLocks has one `persist_result`, since a case has one active review
(`OneActiveRun`), and no SQLite, where writes are serialised.

## 8. Plan

Done: Contracts, ReviewContract, SingleReview, CaseReview, HumanApproval, AgentLoop, SingleAgent,
ReviewPipeline, RowLocks, DocumentChecks, AdminSite, MockProvider, OfflineReview,
and their proofs. What could follow:

1. The days in CaseReview: `Passing` by day, so that a suggestion that was right
   when it was made may have expired when it is approved.
2. The evaluation harness (`evals/`): scores as operators on fixtures and answers.
