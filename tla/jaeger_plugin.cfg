\* Two searches beside two write calls for a channel of one, a span that is stored
\* meanwhile, a signal, and a call that ends the process.  The process really
\* stops making progress.
SPECIFICATION Spec
CONSTANTS
    c1 = c1
    c2 = c2
    c3 = c3
    c4 = c4
    t1 = t1
    t2 = t2
    Writes = {w1, w2}
    Workers = {worker1}
    WriterSpanBufferSize = 1
    Reads = {c1, c2, c3}
    KindOf <- SearchKinds
    ReadNoTruncation = TRUE
    ReadNoTimeout = FALSE
    NoId = NoId
    NoQuestion = NoQuestion
    NoName = ""
    Dotless <- Keys
    DefaultNumTraces = 2
    MaxNumTraces = 3
    Spans <- ThreeSpans
    OldSpans <- OldSpan
    Questions <- SearchQuestions
INVARIANTS TypeOK CloseAfterWrites CloseAfterCalls OwnRequestId SearchFindsMatching SearchMissesNothing SearchesAgree
PROPERTIES ImplementsPromise WriteReturnsUnlessFull StoppingGetsOn StopsUnlessBlocked
CHECK_DEADLOCK FALSE
