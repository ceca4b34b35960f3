--------------------------- MODULE RowLocksProofs ---------------------------
(***************************************************************************)
(* The locks of a case's suggestions, for any number of suggestions and of *)
(* decisions at the same time as the end of a review.                      *)
(***************************************************************************)
EXTENDS RowLocks, TLAPS

\* The first state.
LEMMA LocksInit == Init => IndInv
BY RowLocksAssumption
DEF Init, IndInv, TypeOK, LockInv, HolderInv, Rows, Transactions, Status

\* The steps of a decision keep the invariant.
LEMMA DecisionStep ==
  ASSUME IndInv, NEW t \in Decisions, Decision(t)
  PROVE  IndInv'
<1> USE RowLocksAssumption DEF IndInv, TypeOK, LockInv, HolderInv, Rows, Transactions, Status
<1>1. CASE LockSuggestion(t)
  BY <1>1 DEF LockSuggestion, Free
<1>2. CASE LockCase(t)
  BY <1>2 DEF LockCase, Free
<1>3. CASE CommitDecision(t)
  BY <1>3 DEF CommitDecision, End, Released
<1>4. CASE Conflict(t)
  BY <1>4 DEF Conflict, End, Released
<1> QED
  BY <1>1, <1>2, <1>3, <1>4 DEF Decision

\* So do the steps of a review.
LEMMA ReviewStep ==
  ASSUME IndInv, Review
  PROVE  IndInv'
<1> USE RowLocksAssumption DEF IndInv, TypeOK, LockInv, HolderInv, Rows, Transactions, Status
<1>1. CASE PersistLocksCase
  BY <1>1 DEF PersistLocksCase, Free
<1>2. CASE StartUpdate
  BY <1>2 DEF StartUpdate
<1>3. ASSUME NEW a \in Suggestions, UpdateRow(a)
      PROVE  IndInv'
  BY <1>3 DEF UpdateRow, Free
<1>4. CASE CommitPersist
  BY <1>4 DEF CommitPersist, End, Released
<1> QED
  BY <1>1, <1>2, <1>3, <1>4 DEF Review

\* So does the end of a deadlock.
LEMMA VictimStep ==
  ASSUME IndInv, NEW x \in Transactions, Victim(x)
  PROVE  IndInv'
BY RowLocksAssumption
DEF IndInv, TypeOK, LockInv, HolderInv, Rows, Transactions, Status, Victim, End, Released, Deadlocked,
    DeadlockedWith

\* The inductive invariant.
LEMMA LocksInductive == Spec => []IndInv
<1>1. IndInv /\ [Next]_vars => IndInv'
  <2> SUFFICES ASSUME IndInv, [Next]_vars
               PROVE  IndInv'
    OBVIOUS
  <2>1. CASE UNCHANGED vars
    BY <2>1 DEF IndInv, TypeOK, LockInv, HolderInv, vars
  <2> QED
    BY <2>1, DecisionStep, ReviewStep, VictimStep DEF Next
<1> QED
  BY <1>1, LocksInit, PTL DEF Spec

\* Every variable keeps to its type.
THEOREM LocksTypeCorrect == Spec => []TypeOK
<1>1. IndInv => TypeOK
  BY DEF IndInv
<1> QED
  BY <1>1, LocksInductive, PTL

\* The status a decision judges by is the committed one (_lock_pending).
THEOREM DecisionsJudgeByTheTruth == Spec => []ReadsStayCurrent
<1>1. IndInv => ReadsStayCurrent
  BY DEF IndInv, LockInv, ReadsStayCurrent
<1> QED
  BY <1>1, LocksInductive, PTL

\* Who waits for the case waits for its holder, who either goes on or waits for a
\* suggestion whose holder waits for the case in turn (approvals.py:40-41,
\* review.py:114-120): the cycle that Postgres finds, and the only one.
THEOREM TheOnlyDeadlock == Spec => []NoOtherDeadlock
<1>1. IndInv => NoOtherDeadlock
  <2> SUFFICES ASSUME IndInv, NEW x \in Transactions, ~Ended(x)
               PROVE  \/ \E y \in Transactions : Unblocked(y)
                      \/ \E t \in Decisions : DeadlockedWith(t)
    BY DEF NoOtherDeadlock
  <2>0. /\ CaseRow \in Rows /\ Suggestions \subseteq Rows
        /\ Persist \in Transactions /\ Decisions \subseteq Transactions
        /\ \A r \in Rows : Free(r) \/ owner[r] = Persist \/ owner[r] \in Decisions
    BY DEF Rows, Transactions, Free, IndInv, TypeOK
  <2>1. CASE owner[CaseRow] \in Decisions
    <3>1. pc[owner[CaseRow]] = "case"
      BY <2>0, <2>1, RowLocksAssumption DEF IndInv, TypeOK, HolderInv
    <3> QED
      BY <2>0, <2>1, <3>1 DEF Unblocked
  <2>2. CASE owner[CaseRow] = Persist
    <3>1. CASE pc[Persist] = "case"
      BY <2>0, <3>1 DEF Unblocked
    <3>2. ASSUME pc[Persist] = "update", NEW a \in todo, ~Free(a)
          PROVE  \E t \in Decisions : DeadlockedWith(t)
      <4>1. a \in Suggestions /\ a \in Rows /\ owner[a] \in Decisions
        BY <2>0, <3>2 DEF IndInv, TypeOK, HolderInv
      <4>2. target[owner[a]] = a /\ pc[owner[a]] \in {"row", "case"}
        BY <4>1, RowLocksAssumption DEF IndInv, HolderInv
      <4>3. pc[owner[a]] # "case"
        BY <2>2, <4>1, RowLocksAssumption DEF IndInv, LockInv
      <4> QED
        BY <2>2, <3>2, <4>1, <4>2, <4>3 DEF DeadlockedWith
    <3>3. CASE pc[Persist] = "update" /\ \A a \in todo : Free(a)
      BY <2>0, <3>3 DEF Unblocked
    <3> QED
      BY <2>2, <3>1, <3>2, <3>3 DEF IndInv, HolderInv
  <2>3. CASE Free(CaseRow)
    <3>1. CASE x = Persist
      BY <2>0, <2>3, <3>1, RowLocksAssumption
      DEF IndInv, TypeOK, LockInv, Transactions, Ended, Unblocked, Free
    <3>2. CASE x \in Decisions
      <4>1. target[x] \in Suggestions
        BY <3>2 DEF IndInv, TypeOK
      <4>2. CASE pc[x] = "begin" /\ owner[target[x]] \in Decisions
        <5>1. pc[owner[target[x]]] \in {"row", "case"}
          BY <2>0, <4>1, <4>2 DEF IndInv, HolderInv
        <5> QED
          BY <2>0, <2>3, <4>2, <5>1 DEF Unblocked
      <4>3. owner[target[x]] # Persist
        BY <2>3, <4>1, RowLocksAssumption DEF IndInv, LockInv, Free
      <4> QED
        BY <2>0, <2>3, <3>2, <4>1, <4>2, <4>3 DEF IndInv, LockInv, Ended, Unblocked
    <3> QED
      BY <3>1, <3>2 DEF Transactions
  <2> QED
    BY <2>0, <2>1, <2>2, <2>3
<1> QED
  BY <1>1, LocksInductive, PTL

\* A decision's commit is one step from pending to decided.
LEMMA DecisionIsAtomic ==
  ASSUME IndInv, NEW t \in Decisions, Decision(t)
  PROVE  \/ UNCHANGED status
         \/ \E a \in Suggestions, s \in {"approved", "rejected"} :
               status[a] = "pending" /\ status' = [status EXCEPT ![a] = s]
<1>1. CASE CommitDecision(t)
  <2>1. target[t] \in Suggestions /\ status[target[t]] = "pending"
    BY <1>1 DEF CommitDecision, IndInv, TypeOK, LockInv
  <2> QED
    BY <1>1, <2>1 DEF CommitDecision
<1> QED
  BY <1>1 DEF Decision, LockSuggestion, LockCase, Conflict

\* A review's commit supersedes everything that is pending at that moment.
LEMMA ReviewIsAtomic ==
  ASSUME IndInv, Review
  PROVE  \/ UNCHANGED status
         \/ status' = [a \in Suggestions |->
                          IF status[a] = "pending" THEN "superseded" ELSE status[a]]
<1>1. CASE CommitPersist
  <2>1. \A a \in Suggestions : owner[a] = Persist <=> status[a] = "pending"
    BY <1>1 DEF CommitPersist, IndInv, LockInv
  <2> QED
    BY <1>1, <2>1 DEF CommitPersist
<1> QED
  BY <1>1 DEF Review, PersistLocksCase, StartUpdate, UpdateRow

\* The transactions are atomic, as CaseReview takes them: approve_action,
\* reject_action and persist_result.
THEOREM LocksMakeAtomic == Spec => TransactionsAreAtomic
<1> DEFINE Step ==
      \/ \E a \in Suggestions, s \in {"approved", "rejected"} :
            status[a] = "pending" /\ status' = [status EXCEPT ![a] = s]
      \/ status' = [a \in Suggestions |->
                       IF status[a] = "pending" THEN "superseded" ELSE status[a]]
<1>1. IndInv /\ [Next]_vars => [Step]_status
  <2> SUFFICES ASSUME IndInv, [Next]_vars, ~UNCHANGED status
               PROVE  Step
    OBVIOUS
  <2>1. ASSUME NEW t \in Decisions, Decision(t)
        PROVE  Step
    BY <2>1, DecisionIsAtomic
  <2>2. CASE Review
    BY <2>2, ReviewIsAtomic
  <2>3. ASSUME NEW x \in Transactions, Victim(x)
        PROVE  Step
    BY <2>3 DEF Victim
  <2> QED
    BY <2>1, <2>2, <2>3 DEF Next, vars
<1> QED
  BY <1>1, LocksInductive, PTL DEF Spec, TransactionsAreAtomic
=============================================================================
