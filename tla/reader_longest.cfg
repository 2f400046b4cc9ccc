\* A search for traces with a span of at most a given duration.
SPECIFICATION ReaderSpec
CONSTANTS
    c1 = c1
    c2 = c2
    c3 = c3
    c4 = c4
    t1 = t1
    t2 = t2
    Reads = {c1}
    KindOf <- OneSearch
    ReadNoTruncation = FALSE
    ReadNoTimeout = FALSE
    NoId = NoId
    NoQuestion = NoQuestion
    NoName = ""
    Dotless <- Keys
    DefaultNumTraces = 2
    MaxNumTraces = 3
    Spans <- ThreeSpans
    OldSpans <- ThreeSpans
    Questions <- OneQuestion
INVARIANTS SearchFindsMatching
CHECK_DEADLOCK FALSE
