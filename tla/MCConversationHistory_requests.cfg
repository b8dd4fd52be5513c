SPECIFICATION Spec
CONSTANTS
    Turns = {t1, t2}
    Old = Old
    Edits = {e1, e2}
    MaxEntries = 5
SYMMETRY Symmetry
CONSTRAINT
    Few
INVARIANTS
    AnswersKept
    FinishedByOne
PROPERTIES
    FinishedKeepsAnswers
    SettleKeepsTurns
    OutcomesStay
CHECK_DEADLOCK FALSE
