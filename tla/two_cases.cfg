SPECIFICATION FairSpec
CONSTANTS
    c1 = c1  c2 = c2  d1 = d1  d2 = d2  q1 = q1  q2 = q2
    e1 = e1  e2 = e2  w1 = w1  w2 = w2
    NoDoc = NoDoc  NoReq = NoReq  NoExtraction = NoExtraction
    NoCase = NoCase  NoRun = NoRun  NoPayload = NoPayload
    Cases = {c1, c2}
    Docs = {d1, d2}
    Reqs = {q1}
    Extractions = {e1}
    Runs = {1, 2}
    Workers = {w1, w2}
    MaxActions = 3
    Passing <- PassingE1
    Evaluations <- AllEvaluations
    Plans <- CrossCasePlans
    Faults = {"redeliver"}
    MaxFaults = 1
    Redelivery = {}
INVARIANTS
    TargetsResolve
PROPERTIES
    ImplementsHumanApproval
    EveryRunFinishes
CHECK_DEADLOCK FALSE
