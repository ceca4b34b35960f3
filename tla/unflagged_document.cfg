SPECIFICATION Spec
CONSTANTS
    d1 = d1  d2 = d2  d3 = d3  q1 = q1  e1 = e1  e2 = e2
    NoDoc = NoDoc  NoReq = NoReq  NoExtraction = NoExtraction
    AgentError = AgentError  OtherError = OtherError
    NoEvaluation = NoEvaluation  NoPlan = NoPlan  NoOutcome = NoOutcome
    Docs = {d1, d2, d3}
    Reqs = {q1}
    Extractions = {e1, e2}
    Passing <- PassingE1
    MaxActions = 20
    Evaluations <- SomeEvaluations
    Plans <- SomePlans
    MaxParallel = 2
INVARIANTS
    FailuresAreFlagged
CHECK_DEADLOCK FALSE
