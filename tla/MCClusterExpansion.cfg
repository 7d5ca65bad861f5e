\* All lines of up to six n-grams over three ids, sampled every second one.
CONSTANTS
    g1 = g1
    g2 = g2
    g3 = g3
    d1 = d1
    d2 = d2
    Ids = {g1, g2, g3}
    NoId = NoId
    Docs = {d1, d2}
    Lines <- AllLines
    Indexes <- SomeIndexes
    Sample = 2
    MaxMisses = 2
SPECIFICATION ScanSpec
INVARIANTS
    ExactMatches
    OnlyBlindSpot
CHECK_DEADLOCK FALSE
