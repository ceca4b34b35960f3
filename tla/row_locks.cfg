SPECIFICATION FairSpec
CONSTANTS
    a1 = a1  a2 = a2  t1 = t1  t2 = t2  t3 = t3
    Persist = Persist  CaseRow = CaseRow  Nobody = Nobody
    Suggestions = {a1, a2}
    Decisions = {t1, t2, t3}
INVARIANTS
    ReadsStayCurrent
    NoOtherDeadlock
PROPERTIES
    TransactionsAreAtomic
    TransactionsEnd
CHECK_DEADLOCK FALSE
