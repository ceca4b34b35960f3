SPECIFICATION Spec
CONSTANTS
    ann = ann  jo = jo  lee = lee  comma = comma  balance = balance
    Pieces = {ann, jo, lee, comma, balance}
    Punctuation = {comma}
    Codes = {"EUR", "USD"}
    Sources <- SomeSources
    Applicants <- SomeApplicants
    Answers <- SomeAnswers
    NoExtraction = NoExtraction
    MaxDay = 3
INVARIANTS
    RulesNeverRaise
    NamesAreInDocument
PROPERTY FailedStaysFailed
CHECK_DEADLOCK FALSE
