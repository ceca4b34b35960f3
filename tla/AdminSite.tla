----------------------------- MODULE AdminSite -----------------------------
(***************************************************************************)
(* The Django admin site (src/cases/admin.py) next to the case service:    *)
(* an operator opens the page of a review or of a case, and saves it later.*)
(* Saving writes back every field of the page as it was shown, except for  *)
(* what the operator changed, without a lock and past the services: what   *)
(* they did in between is overwritten.                                     *)
(*                                                                         *)
(* One operator, who changes two things only: the status of a review that  *)
(* has not ended, to failed (the only way there is to re-trigger one that  *)
(* hangs), and the status of a case, to closed.  The page of a review is   *)
(* only accepted once something is typed into its traces, which are empty  *)
(* until the review ends.  Suggestions are read-only there, the log cannot *)
(* be changed, and nothing is deleted or added.                            *)
(***************************************************************************)
EXTENDS CaseReview

CONSTANTS
    Edits,          \* the pages the operator uses
    NoForm

ASSUME AdminSiteAssumption == Edits \subseteq {"run", "case"}

VARIABLES
    runForms,       \* the reviews whose page is open
    caseForm        \* what the open page of a case shows

forms     == <<runForms, caseForm>>
adminVars == <<vars, forms>>

AdminInit ==
    /\ Init
    /\ runForms = {}
    /\ caseForm = [c \in Cases |-> NoForm]

\* AgentRunAdmin: every field is editable, whatever the review is doing.  The
\* operator opens the page because the review has not ended.
OpenRun(r) ==
    /\ "run" \in Edits
    /\ Active(runStatus[r])
    /\ runForms' = runForms \cup {r}
    /\ UNCHANGED <<vars, caseForm>>

\* What the page may send as traces: the empty list, as every review shows that
\* has not ended, or something the operator typed over it.
TracesField == {"empty", "typed"}

\* AgentRun.traces is a JSON list that may not be blank, and [] counts as blank.
FormAccepts(traces) == traces # "empty"

\* The status chosen on the page, also if the review has ended since.  A page
\* that is refused changes nothing and stays open.
SaveRun(r, traces) ==
    /\ r \in runForms
    /\ FormAccepts(traces)
    /\ runStatus' = [runStatus EXCEPT ![r] = "failed"]
    /\ runForms' = runForms \ {r}
    /\ UNCHANGED <<caseFile, runCase, actions, audit, process, faults, caseForm>>

\* CaseAdmin with its ChecklistInline: the case and its checklist on one page.
OpenCase(c) ==
    /\ "case" \in Edits
    /\ caseStatus[c] # "absent"
    /\ caseForm[c] = NoForm
    /\ caseForm' = [caseForm EXCEPT ![c] = [status |-> caseStatus[c], reqs |-> reqStatus[c],
                                            by |-> satisfiedBy[c]]]
    /\ UNCHANGED <<vars, runForms>>

\* Variant: only the checklist of the page is written back.
SaveChecklist(c) ==
    /\ caseForm[c] # NoForm
    /\ reqStatus' = [reqStatus EXCEPT ![c] = caseForm[c].reqs]
    /\ satisfiedBy' = [satisfiedBy EXCEPT ![c] = caseForm[c].by]
    /\ caseForm' = [caseForm EXCEPT ![c] = NoForm]
    /\ UNCHANGED <<caseStatus, docCase, docStatus, docExtraction, reviews, process, faults, runForms>>

\* The page as it was shown, with the case closed or not.
SaveCase(c) ==
    /\ caseForm[c] # NoForm
    /\ \E status \in {caseForm[c].status, "closed"} :
          caseStatus' = [caseStatus EXCEPT ![c] = status]
    /\ reqStatus' = [reqStatus EXCEPT ![c] = caseForm[c].reqs]
    /\ satisfiedBy' = [satisfiedBy EXCEPT ![c] = caseForm[c].by]
    /\ caseForm' = [caseForm EXCEPT ![c] = NoForm]
    /\ UNCHANGED <<docCase, docStatus, docExtraction, reviews, process, faults, runForms>>

Edit ==
    \/ \E r \in Runs : OpenRun(r)
    \/ \E r \in Runs, traces \in TracesField : SaveRun(r, traces)
    \/ \E c \in Cases : OpenCase(c) \/ SaveCase(c)

AdminNext ==
    \/ Next /\ UNCHANGED forms
    \/ Edit

AdminSpec == AdminInit /\ [][AdminNext]_adminVars

(***************************************************************************)
(* Fairness: that of the service.  Nothing is assumed of the operator.     *)
(***************************************************************************)
AdminFairness ==
    /\ \A r \in Runs : WF_adminVars(Enqueue(r) /\ UNCHANGED forms)
    /\ WF_adminVars(\E w \in Workers, r \in Runs : Deliver(w, r) /\ UNCHANGED forms)
    /\ \A w \in Workers : WF_adminVars(Worker(w) /\ UNCHANGED forms)

FairAdminSpec == AdminSpec /\ AdminFairness

-----------------------------------------------------------------------------
Form == [status : CaseStatus, reqs : [Reqs -> ReqStatus], by : [Reqs -> Docs \cup {NoDoc}]]

\* A page shows values that its rows can hold.
FormsTypeOK ==
    /\ runForms \subseteq RunsIn(RunStatus)
    /\ caseForm \in [Cases -> Form \cup {NoForm}]

\* Whatever the operator overwrites, the suggestions of a case that a human can
\* decide on all stem from one review: a review that ends, though it was marked
\* failed, replaces those of every other.  That they stem from the newest one
\* (OnlyLatestActionable) is no longer true.
PendingFromOneReview == \A a, b \in Pending : a.case = b.case => a.run = b.run

\* A review that ended, or was marked failed, is never queued or running again:
\* neither its worker, if it is still alive, nor a message delivered again brings
\* it back, so a new review of the case and the old one never both count.
EndedStaysEnded ==
    [][\A r \in RunsIn({"succeeded", "failed"}) : ~Active(runStatus'[r])]_runStatus

\* Nobody will ever go on with this review: its hook, its message and its worker
\* are gone.
Stuck(r) ==
    /\ Active(runStatus[r])
    /\ r \notin onCommit \cup queue
    /\ \A w \in Workers : task[w] # r

\* A review that is queued or running ends, unless it is one of those a fault
\* has lost: never more reviews than there were faults hang, whatever the
\* operator does to them and whoever takes which message.
ReviewEndsOrIsLost ==
    \A r \in Runs :
        Active(runStatus[r]) ~>
            \/ ~Active(runStatus[r])
            \/ Stuck(r) /\ Cardinality({s \in Runs : Stuck(s)}) <= faults

(***************************************************************************)
(* What makes the invariants inductive.                                    *)
(***************************************************************************)

\* What an open page would write back for c keeps the case file sound: the
\* requirements it shows as satisfied are backed by documents that are accepted
\* for good, and it shows the case as ready only with all of them satisfied.
PageIsSound(c) ==
    /\ \A q \in Reqs :
          caseForm[c].reqs[q] = "satisfied" =>
              LET d == caseForm[c].by[q]
              IN  /\ d \in Docs
                  /\ docCase[d] = c
                  /\ docStatus[d] = "accepted"
                  /\ docExtraction[d] \in Extractions
    /\ caseForm[c].status = "ready_for_submission" =>
          \A q \in Reqs : caseForm[c].reqs[q] = "satisfied"

PagesAreSound == \A c \in Cases : caseForm[c] # NoForm => PageIsSound(c)

AdminInv == TypeInv /\ FileInv /\ FormsTypeOK /\ PagesAreSound
=============================================================================
