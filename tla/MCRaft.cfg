SPECIFICATION MCSpec
CONSTANTS
    Req = {q1, q2, q3}
    Other = Other
    MaxTerm = 4
    MaxLog = 4
INVARIANTS AnswerTruthful LogsAgree ReadsAreLinearizable 
CHECK_DEADLOCK FALSE
