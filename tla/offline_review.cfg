SPECIFICATION FairOfflineSpec
CONSTANTS
    c1 = c1  q1 = q1  q2 = q2  good = good  bad = bad  statement = statement  w1 = w1
    NoDoc = NoDoc  NoReq = NoReq  NoExtraction = NoExtraction
    NoCase = NoCase  NoRun = NoRun  NoPayload = NoPayload
    Cases = {c1}
    Docs = {1, 2, 3}
    Reqs = {q1, q2}
    Extractions = {good, bad, statement}
    Types = {"passport", "bank_statement"}
    TypeOf <- TypeOfEach
    AcceptedTypes <- AcceptedByEach
    Passing <- PassingGood
    Readings <- SomeReadings
    Runs = {1, 2}
    Workers = {w1}
    MaxActions = 5
    Evaluations = {}
    Plans = {}
    Faults = {}
    MaxFaults = 0
    Redelivery = {}
INVARIANTS
    AnswersAreValid
    PlanLengthBounded
    NoContradictoryOffers
    AdviceIsFollowable
    SatisfiedByPassingExtraction
PROPERTIES
    CompleteCaseBecomesReady
CHECK_DEADLOCK FALSE
