\* Both flags leave room in the array of the slice.
SPECIFICATION ReaderSpec
CONSTANTS
    c1 = c1
    c2 = c2
    c3 = c3
    c4 = c4
    t1 = t1
    t2 = t2
    Reads = {c1, c2, c3, c4}
    KindOf <- MixedKinds
    ReadNoTruncation = TRUE
    ReadNoTimeout = TRUE
    NoId = NoId
    NoQuestion = NoQuestion
    NoName = ""
    Dotless <- Keys
    DefaultNumTraces = 2
    MaxNumTraces = 3
    Spans <- ThreeSpans
    OldSpans <- ThreeSpans
    Questions <- OneQuestion
INVARIANTS OwnRequestId
CHECK_DEADLOCK FALSE
