------------------------------ MODULE RowLocks ------------------------------
(***************************************************************************)
(* The row locks of the two kinds of transactions that write the           *)
(* suggestions of a case, on a database with row locks and READ COMMITTED  *)
(* (Postgres): the decisions of humans (src/cases/services/approvals.py)   *)
(* and persist_result (src/cases/services/review.py).  CaseReview takes    *)
(* each of them as one step; here a step is a statement.                   *)
(*                                                                         *)
(* A case has one active review, so there is one persist_result, and the   *)
(* rows are the suggestions that existed before it.  Document, requirement *)
(* and run rows are only written under the lock on the case.               *)
(***************************************************************************)
EXTENDS Naturals

CONSTANTS
    Suggestions,    \* ProposedAction rows of the case
    Decisions,      \* transactions of approve_action and reject_action
    Persist,        \* the transaction of persist_result
    CaseRow,
    Nobody

ASSUME RowLocksAssumption ==
    /\ Persist \notin Decisions
    /\ CaseRow \notin Suggestions
    /\ Nobody \notin Decisions \cup {Persist}

VARIABLES
    status,         \* ProposedAction.status, as committed
    owner,          \* which transaction has the lock on a row
    pc,             \* what a transaction has done
    target, read,   \* a decision's suggestion, and the status it has read
    todo            \* the rows persist_result's UPDATE has still to visit

vars == <<status, owner, pc, target, read, todo>>

Transactions == Decisions \cup {Persist}
Rows == Suggestions \cup {CaseRow}
Status == {"pending", "approved", "rejected", "superseded"}

Init ==
    /\ status \in [Suggestions -> {"pending", "approved"}]
    /\ owner = [r \in Rows |-> Nobody]
    /\ pc = [t \in Transactions |-> "begin"]
    /\ target \in [Decisions -> Suggestions]
    /\ read = [t \in Decisions |-> "unread"]
    /\ todo = {}

Free(r) == owner[r] = Nobody

\* COMMIT and ROLLBACK release the locks of a transaction.
Released(t) == [r \in Rows |-> IF owner[r] = t THEN Nobody ELSE owner[r]]

End(t, how) ==
    /\ pc' = [pc EXCEPT ![t] = how]
    /\ owner' = Released(t)

-----------------------------------------------------------------------------
\* Variant: the suggestion is read without a lock.
ReadUnlocked(t) ==
    /\ pc[t] = "begin"
    /\ read' = [read EXCEPT ![t] = status[target[t]]]
    /\ pc' = [pc EXCEPT ![t] = "row"]
    /\ UNCHANGED <<status, owner, target, todo>>

\* _lock_pending: first the suggestion, in its newest committed version ...
LockSuggestion(t) ==
    /\ pc[t] = "begin"
    /\ Free(target[t])
    /\ owner' = [owner EXCEPT ![target[t]] = t]
    /\ read' = [read EXCEPT ![t] = status[target[t]]]
    /\ pc' = [pc EXCEPT ![t] = "row"]
    /\ UNCHANGED <<status, target, todo>>

\* ... then its case.
LockCase(t) ==
    /\ pc[t] = "row"
    /\ Free(CaseRow)
    /\ owner' = [owner EXCEPT ![CaseRow] = t]
    /\ pc' = [pc EXCEPT ![t] = "case"]
    /\ UNCHANGED <<status, target, read, todo>>

\* The status read is pending, the preconditions hold: _decide and COMMIT.
CommitDecision(t) ==
    /\ pc[t] = "case"
    /\ read[t] = "pending"
    /\ \E s \in {"approved", "rejected"} :
          status' = [status EXCEPT ![target[t]] = s]
    /\ End(t, "committed")
    /\ UNCHANGED <<target, read, todo>>

\* Variant: the exception leaves the transaction open.
ConflictLeftOpen(t) ==
    /\ pc[t] = "case"
    /\ pc' = [pc EXCEPT ![t] = "rolled_back"]
    /\ UNCHANGED <<status, owner, target, read, todo>>

\* ActionConflict: decided already, or a precondition of an approval fails.
Conflict(t) ==
    /\ pc[t] = "case"
    /\ End(t, "rolled_back")
    /\ UNCHANGED <<status, target, read, todo>>

-----------------------------------------------------------------------------
\* persist_result locks the case ...
PersistLocksCase ==
    /\ pc[Persist] = "begin"
    /\ Free(CaseRow)
    /\ owner' = [owner EXCEPT ![CaseRow] = Persist]
    /\ pc' = [pc EXCEPT ![Persist] = "case"]
    /\ UNCHANGED <<status, target, read, todo>>

\* ... and starts the UPDATE, which finds the pending rows ...
StartUpdate ==
    /\ pc[Persist] = "case"
    /\ todo' = {a \in Suggestions : status[a] = "pending"}
    /\ pc' = [pc EXCEPT ![Persist] = "update"]
    /\ UNCHANGED <<status, owner, target, read>>

\* Variant: rows that are locked are left out (SKIP LOCKED).
UpdateOrSkip(a) ==
    /\ pc[Persist] = "update"
    /\ a \in todo
    /\ owner' = IF Free(a) THEN [owner EXCEPT ![a] = Persist] ELSE owner
    /\ todo' = todo \ {a}
    /\ UNCHANGED <<status, pc, target, read>>

\* ... and locks one after the other, in any order; a row whose lock it waited
\* for is looked at again and left out if it is no longer pending ...
UpdateRow(a) ==
    /\ pc[Persist] = "update"
    /\ a \in todo
    /\ Free(a)
    /\ owner' = IF status[a] = "pending" THEN [owner EXCEPT ![a] = Persist] ELSE owner
    /\ todo' = todo \ {a}
    /\ UNCHANGED <<status, pc, target, read>>

\* ... after which the new rows, the run and the audit entry wait for nobody.
CommitPersist ==
    /\ pc[Persist] = "update"
    /\ todo = {}
    /\ status' = [a \in Suggestions |->
                     IF owner[a] = Persist THEN "superseded" ELSE status[a]]
    /\ End(Persist, "committed")
    /\ UNCHANGED <<target, read, todo>>

-----------------------------------------------------------------------------
(***************************************************************************)
(* Deadlock detection.  The only locks ever waited for by a transaction    *)
(* that has one are the case, by decisions, and suggestions, by            *)
(* persist_result.                                                         *)
(***************************************************************************)
DeadlockedWith(t) ==
    /\ pc[t] = "row"
    /\ owner[CaseRow] = Persist
    /\ pc[Persist] = "update"
    /\ target[t] \in todo
    /\ owner[target[t]] = t

\* Variant: the database waits for ever.
Undetected(x) == FALSE

Deadlocked(x) ==
    \E t \in Decisions : DeadlockedWith(t) /\ x \in {t, Persist}

\* The database makes one of the two a victim: it is rolled back.
Victim(x) ==
    /\ Deadlocked(x)
    /\ End(x, "rolled_back")
    /\ todo' = IF x = Persist THEN {} ELSE todo
    /\ UNCHANGED <<status, target, read>>

Decision(t) ==
    \/ LockSuggestion(t)
    \/ LockCase(t)
    \/ CommitDecision(t)
    \/ Conflict(t)

Review ==
    \/ PersistLocksCase
    \/ StartUpdate
    \/ \E a \in Suggestions : UpdateRow(a)
    \/ CommitPersist

Next ==
    \/ \E t \in Decisions : Decision(t)
    \/ Review
    \/ \E x \in Transactions : Victim(x)

Spec == Init /\ [][Next]_vars

\* Every transaction goes on when it can, and the database detects deadlocks.
\* Each transaction runs once, so a lock is not taken away for ever.
FairSpec ==
    /\ Spec
    /\ \A t \in Decisions : WF_vars(Decision(t))
    /\ WF_vars(Review)
    /\ WF_vars(\E x \in Transactions : Victim(x))

-----------------------------------------------------------------------------
\* Every variable holds a value a row or a transaction can hold.
TypeOK ==
    /\ status \in [Suggestions -> Status]
    /\ owner \in [Rows -> Transactions \cup {Nobody}]
    /\ pc \in [Transactions ->
                  {"begin", "row", "case", "update", "committed", "rolled_back"}]
    /\ target \in [Decisions -> Suggestions]
    /\ read \in [Decisions -> Status \cup {"unread"}]
    /\ todo \subseteq Suggestions

\* Seen from outside, a decision decides one pending suggestion and a review
\* supersedes all that are pending, and nothing else ever happens to them: the
\* single steps CaseReview takes for approve_action, reject_action and
\* persist_result are what their locks make of them.
TransactionsAreAtomic ==
    [][\/ \E a \in Suggestions, s \in {"approved", "rejected"} :
             status[a] = "pending" /\ status' = [status EXCEPT ![a] = s]
       \/ status' = [a \in Suggestions |->
                        IF status[a] = "pending" THEN "superseded" ELSE status[a]]]_status

\* A decision reads the status of its suggestion before it waits for the case, and
\* judges by it afterwards: what it read is still true then, whatever reviews and
\* other decisions did meanwhile.
ReadsStayCurrent ==
    \A t \in Decisions :
        pc[t] \in {"row", "case"} => read[t] = status[target[t]]

\* The next statement of a transaction waits for no lock.
Unblocked(x) ==
    \/ pc[x] = "case"
    \/ x \in Decisions /\ pc[x] = "begin" /\ Free(target[x])
    \/ x \in Decisions /\ pc[x] = "row" /\ Free(CaseRow)
    \/ x = Persist /\ pc[x] = "begin" /\ Free(CaseRow)
    \/ x = Persist /\ pc[x] = "update" /\ (todo = {} \/ \E a \in todo : Free(a))

Ended(x) == pc[x] \in {"committed", "rolled_back"}

\* Transactions never wait for each other but in the one way that the two lock
\* orders allow: a decision that has its suggestion and waits for the case, and a
\* review that has the case and waits for that suggestion.  No cycle is longer,
\* and no lock is left behind by a transaction that has ended.
NoOtherDeadlock ==
    (\E x \in Transactions : ~Ended(x)) =>
        \/ \E x \in Transactions : Unblocked(x)
        \/ \E t \in Decisions : DeadlockedWith(t)

\* Every transaction ends, also those that waited for each other.
TransactionsEnd == <>(\A x \in Transactions : Ended(x))

-----------------------------------------------------------------------------
\* Who has which lock, and what it knows.
LockInv ==
    /\ \A t \in Decisions :
          /\ pc[t] \in {"begin", "row", "case", "committed", "rolled_back"}
          /\ pc[t] \in {"row", "case"} =>
                owner[target[t]] = t /\ read[t] = status[target[t]]
          /\ pc[t] = "case" => owner[CaseRow] = t
    /\ pc[Persist] \in {"begin", "case", "update", "committed", "rolled_back"}
    /\ pc[Persist] \in {"case", "update"} => owner[CaseRow] = Persist
    /\ \A a \in Suggestions :
          /\ owner[a] = Persist => pc[Persist] = "update" /\ status[a] = "pending"
          /\ pc[Persist] = "update" /\ status[a] = "pending" =>
                a \in todo \/ owner[a] = Persist

\* Who has a lock is still at work, and at nothing else than what it needs.
HolderInv ==
    /\ \A r \in Rows, t \in Decisions :
          owner[r] = t => \/ r = target[t] /\ pc[t] \in {"row", "case"}
                          \/ r = CaseRow /\ pc[t] = "case"
    /\ owner[CaseRow] = Persist => pc[Persist] \in {"case", "update"}
    /\ \A a \in todo : owner[a] # Persist

IndInv == TypeOK /\ LockInv /\ HolderInv

=============================================================================
