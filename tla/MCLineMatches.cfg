\* Lines of up to eleven tokens, n-grams of two.
CONSTANTS
    d1 = d1
    d2 = d2
    d3 = d3
    Unset = Unset
    Nothing = Nothing
    Inputs <- Lines
    NgramSize = 2
    AnswerNgramSize = 2
    PassageNgramSize = 2
    PassageMisses = 1
    ShortAnswer = 2
    ShortWindow = 3
    LongWindow = 5
    MinDistance = 5
SPECIFICATION Spec
INVARIANTS
    EarlyExitsSound
    ReportedAsRequired
    PartsInOrder
    BoundariesFit
    EachKeyOnce
CHECK_DEADLOCK FALSE
