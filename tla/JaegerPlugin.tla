---------------------------- MODULE JaegerPlugin -----------------------------
(***************************************************************************)
(* The Jaeger storage plugin as one process (store/store.go, main.go): the *)
(* gRPC server of runner/server.go with the write path of SpanWriter and   *)
(* the read path of KustoReader.                                           *)
(*                                                                         *)
(* The two share nothing but the process.  A stopping server takes no call *)
(* of either kind and waits for those of both; a panic in a read handler   *)
(* ends the writes in progress and loses the channel of spans.             *)
(***************************************************************************)
EXTENDS SpanWriter, KustoReader

vars == <<writerVars, readerVars>>

Init == WriterInit /\ ReaderInit

Reading == {c \in Reads : reads[c] \in {"built", "reading"}}
-----------------------------------------------------------------------------
Write(c) == (Arrive(c) \/ WriteSpan(c)) /\ UNCHANGED readerVars

\* Mutation: GracefulStop looks after the write calls only.
StopPastReads == GracefulStopped /\ UNCHANGED readerVars

StopGracefully == Reading = {} /\ GracefulStopped /\ UNCHANGED readerVars

Accept(c) ==
    /\ server = "serving"
    /\ Reject(c) \/ BuildOptions(c)
    /\ UNCHANGED writerVars

Refuse(c) == server # "serving" /\ TurnAway(c) /\ UNCHANGED writerVars

Read(c) == (Query(c) \/ QueryFails(c) \/ EndOfRows(c)) /\ UNCHANGED writerVars

\* A call that came before the signal can still panic after it.
Panic(c) == server \in {"serving", "stopping"} /\ PanicOnSpanKind(c) /\ Crash

Restart == RestartWriter /\ RestartReader

Next ==
    \/ \E w \in Workers : IngestWorker(w) /\ UNCHANGED readerVars
    \/ \E c \in Writes : Write(c)
    \/ Signal /\ UNCHANGED readerVars
    \/ StopGracefully
    \/ Close /\ UNCHANGED readerVars
    \/ \E s \in Spans : Ingest(s) /\ UNCHANGED writerVars
    \/ \E c \in Reads : Accept(c) \/ Refuse(c) \/ Read(c) \/ Panic(c)
    \/ Restart

\* Goroutines that can run do, and Kusto answers a query or fails it; signals,
\* calls and spans come when they come.
Fairness ==
    /\ \A w \in Workers : WF_vars(IngestWorker(w) /\ UNCHANGED readerVars)
    /\ \A c \in Writes : WF_vars(WriteSpan(c) /\ UNCHANGED readerVars)
    /\ \A c \in Reads : WF_vars(Read(c))
    /\ WF_vars(StopGracefully) /\ WF_vars(Close /\ UNCHANGED readerVars)

Spec == Init /\ [][Next]_vars /\ Fairness
-----------------------------------------------------------------------------
TypeOK == WriterTypeOK /\ ReaderTypeOK /\ (up <=> server # "down")

\* Close comes after the last handler of either kind: nothing reads or writes
\* while the store is being closed, and no answer is cut off by the shutdown.
CloseAfterCalls == server \in {"closing", "signalling"} => Handling \cup Reading = {}

\* What handlers still have to do before GracefulStop returns.
StopStepsLeft ==
    Cardinality(Handling) + Cardinality(Reading) + Cardinality({c \in Reads : reads[c] = "built"})

\* A server that stops gets nearer to its end with everything its handlers do,
\* and nothing takes it back: no call that comes in, fails or is cut short gives
\* a handler more to do, and none is started again.
StoppingGetsOn ==
    [][server = "stopping" /\ server' = "stopping" =>
          \/ StopStepsLeft' < StopStepsLeft
          \/ UNCHANGED <<Handling, Reading, {c \in Reads : reads[c] = "built"}>>]_vars

\* Only WriteSpan calls on a full channel keep GracefulStop waiting for ever,
\* never a query, whatever fails or is turned down.
StopsUnlessBlocked ==
    server = "stopping" ~>
        server # "stopping" \/ (Handling # {} /\ Len(spanInput) >= WriterSpanBufferSize)
=============================================================================
