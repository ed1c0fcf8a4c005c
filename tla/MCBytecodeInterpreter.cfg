CONSTANTS
    Columns = {0, 1}
    Values = {0, 1}
    Terms <- MCTerms
    RightNullTests = FALSE
    MaxCalls = 5
SPECIFICATION Spec
INVARIANTS AnswersTheFormula NothingLeftOver
CHECK_DEADLOCK FALSE
