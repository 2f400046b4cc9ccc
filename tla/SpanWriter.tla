----------------------------- MODULE SpanWriter -----------------------------
(***************************************************************************)
(* The write path of the Jaeger storage plugin (store/writer.go) together  *)
(* with the graceful shutdown of its gRPC server (runner/server.go).       *)
(*                                                                         *)
(* WriteSpan sends a span into the buffered channel spanInput and blocks   *)
(* while the channel is full.  ingestWorker, the goroutine that should take*)
(* spans out of it and wait for the shutdown message, makes a ticker and a *)
(* buffer and returns: no goroutine ever receives from spanInput or from   *)
(* the unbuffered channel shutdown.  A signal lets GracefulStop wait for   *)
(* the handlers in progress and then Close the writer.  The process can    *)
(* die at any time, with what is in the channel, and is started again.     *)
(***************************************************************************)
EXTENDS Naturals, Sequences

CONSTANTS
    Writes,               \* WriteSpan calls that arrive over gRPC
    Workers,              \* ingestWorker goroutines, WriterWorkersCount of them
    WriterSpanBufferSize  \* capacity of spanInput

ASSUME BufferAssumption == WriterSpanBufferSize \in Nat

VARIABLES
    spanInput,   \* contents of the channel, the calls whose span it holds
    writes,      \* state of each call; "lost": answered, then died in the channel
    worker,      \* [Workers -> "running", "returned"]
    server       \* "serving", "stopping" (in GracefulStop), "closing" (Close is
                 \* called), "signalling" (at shutdown <-), "stopped", "down"

writerVars == <<spanInput, writes, worker, server>>

WriterTypeOK ==
    /\ spanInput \in Seq(Writes) /\ Len(spanInput) <= WriterSpanBufferSize
    /\ writes \in [Writes ->
                     {"new", "sending", "returned", "rejected", "dropped", "lost"}]
    /\ worker \in [Workers -> {"running", "returned"}]
    /\ server \in {"serving", "stopping", "closing", "signalling", "stopped", "down"}

WriterInit ==
    /\ spanInput = <<>>
    /\ writes = [c \in Writes |-> "new"]
    /\ worker = [w \in Workers |-> "running"]
    /\ server = "serving"

Handling == {c \in Writes : writes[c] = "sending"}

\* The whole body of the goroutine.
IngestWorker(w) ==
    /\ server # "down" /\ worker[w] = "running"
    /\ worker' = [worker EXCEPT ![w] = "returned"]
    /\ UNCHANGED <<spanInput, writes, server>>

\* Mutation: a stopping server still takes calls.
ArriveAlways(c) ==
    /\ writes[c] = "new"
    /\ writes' = [writes EXCEPT ![c] = IF server = "down" THEN "rejected" ELSE "sending"]
    /\ UNCHANGED <<spanInput, worker, server>>

\* A call reaches its handler, or is turned away by a stopping server.
Arrive(c) ==
    /\ writes[c] = "new"
    /\ writes' = [writes EXCEPT ![c] = IF server = "serving" THEN "sending" ELSE "rejected"]
    /\ UNCHANGED <<spanInput, worker, server>>

\* Mutations: the channel holds one span too many, or one too few.
WriteSpanBeyond(c) ==
    /\ writes[c] = "sending"
    /\ Len(spanInput) <= WriterSpanBufferSize
    /\ spanInput' = Append(spanInput, c)
    /\ writes' = [writes EXCEPT ![c] = "returned"]
    /\ UNCHANGED <<worker, server>>

WriteSpanShort(c) ==
    /\ writes[c] = "sending"
    /\ Len(spanInput) + 1 < WriterSpanBufferSize
    /\ spanInput' = Append(spanInput, c)
    /\ writes' = [writes EXCEPT ![c] = "returned"]
    /\ UNCHANGED <<worker, server>>

\* kw.spanInput <- spanStringArray; it sends even what it failed to transform.
WriteSpan(c) ==
    /\ writes[c] = "sending"
    /\ Len(spanInput) < WriterSpanBufferSize
    /\ spanInput' = Append(spanInput, c)
    /\ writes' = [writes EXCEPT ![c] = "returned"]
    /\ UNCHANGED <<worker, server>>

Signal ==
    /\ server = "serving"
    /\ server' = "stopping"
    /\ UNCHANGED <<spanInput, writes, worker>>

\* Mutation: Stop, which does not wait for handlers.
StoppedAtOnce ==
    /\ server = "stopping"
    /\ server' = "closing"
    /\ UNCHANGED <<spanInput, writes, worker>>

\* GracefulStop returns when no handler is running.
GracefulStopped ==
    /\ server = "stopping"
    /\ Handling = {}
    /\ server' = "closing"
    /\ UNCHANGED <<spanInput, writes, worker>>

\* Close: shutdownWg.Add, then the send on shutdown.  Its receiver would be a
\* worker, and every worker only returns: no action leaves "signalling" but the
\* death of the process; Wait, close(spanInput) and wg.Done ("stopped") are
\* never reached.
Close ==
    /\ server = "closing"
    /\ server' = "signalling"
    /\ UNCHANGED <<spanInput, writes, worker>>

Crash ==
    /\ server # "down"
    /\ server' = "down"
    /\ writes' = [c \in Writes |->
                    IF c \in Handling THEN "dropped"
                    ELSE IF writes[c] = "returned" THEN "lost" ELSE writes[c]]
    /\ spanInput' = <<>>
    /\ UNCHANGED worker

\* newKustoSpanWriter makes a new channel and new goroutines.
RestartWriter ==
    /\ server = "down"
    /\ server' = "serving"
    /\ worker' = [w \in Workers |-> "running"]
    /\ UNCHANGED <<spanInput, writes>>

WriterNext ==
    \/ \E w \in Workers : IngestWorker(w)
    \/ \E c \in Writes : Arrive(c) \/ WriteSpan(c)
    \/ Signal \/ GracefulStopped \/ Close
    \/ Crash \/ RestartWriter

\* Goroutines that can run do; signals, calls and crashes come when they come.
WriterFairness ==
    /\ \A w \in Workers : WF_writerVars(IngestWorker(w))
    /\ \A c \in Writes : WF_writerVars(WriteSpan(c))
    /\ WF_writerVars(GracefulStopped) /\ WF_writerVars(Close)

WriterSpec == WriterInit /\ [][WriterNext]_writerVars /\ WriterFairness
-----------------------------------------------------------------------------
\* The writer is not closed under a WriteSpan in progress (close(spanInput)
\* would make its send panic), and what returned before is still buffered:
\* stopping drops no span that was acknowledged.
CloseAfterWrites ==
    server \in {"closing", "signalling"} =>
        \A c \in Writes :
            /\ writes[c] # "sending"
            /\ writes[c] = "returned" => \E k \in DOMAIN spanInput : spanInput[k] = c

\* The capacity of the channel decides who is answered: a WriteSpan that does
\* not return has found spanInput full, or went down with the process; no
\* smaller number of spans ever blocks one.
WriteReturnsUnlessFull ==
    \A c \in Writes :
        writes[c] = "sending" ~>
            writes[c] # "sending" \/ Len(spanInput) >= WriterSpanBufferSize

\* The log messages of registerGracefulShutdown and of Close: a signal stops the
\* server and the plugin gracefully, up to "server stopped".
GracefulShutdown == server = "stopping" ~> server \in {"stopped", "down"}
=============================================================================
