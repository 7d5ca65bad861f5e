\* Two threads, eleven sets of reference files, ids that overflow at 6.
CONSTANTS
    f1 = f1
    f2 = f2
    f3 = f3
    k1 = k1
    t1 = t1
    t2 = t2
    Threads = {t1, t2}
    Tokens = {1, 2, 3, 4, 5, 6}
    Keys = {k1, None}
    Inputs <- SomeInputs
    None = None
    NgramSize = 3
    AnswerNgramSize = 2
    PassageNgramSize = 2
    ShortAnswer = 1
    MinTokens = 2
    MinWords = 2
    Dedup = TRUE
    IndexAnswers = TRUE
    IndexPassages = TRUE
    Overflow = 6
    IdWidth = 8
    DocWidth = 16
    HotFloor = 1
SPECIFICATION FairSpec
INVARIANTS
    OneId
    Survivors
    IndexMatches
PROPERTIES
    BuildEnds
CHECK_DEADLOCK FALSE
