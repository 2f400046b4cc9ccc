\* Two calls for a channel of two: nothing blocks but the shutdown.
SPECIFICATION WriterSpec
CONSTANTS
    Writes = {c1, c2}
    Workers = {w1, w2}
    WriterSpanBufferSize = 2
PROPERTIES GracefulShutdown
CHECK_DEADLOCK FALSE
