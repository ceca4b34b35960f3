SPECIFICATION FairSpec
CONSTANTS
    d1 = d1  d2 = d2  d3 = d3  q1 = q1  e1 = e1  e2 = e2
    NoDoc = NoDoc  NoReq = NoReq  NoExtraction = NoExtraction
    Malformed = Malformed  BadCall = BadCall  NoOutput = NoOutput
    Docs = {d1, d2, d3}
    Reqs = {q1}
    Extractions = {e1, e2}
    Passing <- OnlyE1
    MaxActions = 20
    Extracted <- OneEach
    Answers <- SomeAnswers
    ToolCalls <- SomeCalls
    MaxTurns = 8
    MaxRetries = 2
INVARIANTS
    RecursionLimitUnused
    StopsWhenSpent
PROPERTIES
    ImplementsSingleAgent
    LoopEnds
CHECK_DEADLOCK FALSE
