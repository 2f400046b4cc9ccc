------------------------- MODULE JaegerPluginProofs --------------------------
(***************************************************************************)
(* Proofs about the storage plugin as one process, from those about its    *)
(* two paths: a step of the plugin is a step or a stutter of each.         *)
(***************************************************************************)
EXTENDS JaegerPlugin, SpanWriterProofs, KustoReaderProofs

\* The process is one: its reader is alive when its server is.
OneProcess == up <=> server # "down"

\* GracefulStop has seen the last of the reads.
NoReadAfterStop == server \in {"closing", "signalling"} => Reading = {}

Inv == WriterInv /\ ReaderInv /\ OneProcess /\ NoReadAfterStop

\* The initial states are those of the two paths.
LEMMA InitInv == Init => Inv
  BY WriterInitInv, ReaderInitInv
  DEF Init, Inv, OneProcess, NoReadAfterStop, Reading, WriterInit, ReaderInit

\* Every step of the plugin is one of the write path, of the read path, or of
\* both at once, when the process dies or is started.
LEMMA StepOfBoth == [Next]_vars => [WriterNext]_writerVars /\ [ReaderNext]_readerVars
<1> SUFFICES ASSUME [Next]_vars
             PROVE  [WriterNext]_writerVars /\ [ReaderNext]_readerVars
  OBVIOUS
<1>1. ASSUME NEW w \in Workers, IngestWorker(w), UNCHANGED readerVars
      PROVE  [WriterNext]_writerVars /\ [ReaderNext]_readerVars
  BY <1>1 DEF WriterNext
<1>2. ASSUME NEW c \in Writes, Write(c)
      PROVE  [WriterNext]_writerVars /\ [ReaderNext]_readerVars
  BY <1>2 DEF WriterNext, Write
<1>3. CASE Signal /\ UNCHANGED readerVars
  BY <1>3 DEF WriterNext
<1>4. CASE StopGracefully
  BY <1>4 DEF WriterNext, StopGracefully
<1>5. CASE Close /\ UNCHANGED readerVars
  BY <1>5 DEF WriterNext
<1>6. ASSUME NEW s \in Spans, Ingest(s), UNCHANGED writerVars
      PROVE  [WriterNext]_writerVars /\ [ReaderNext]_readerVars
  BY <1>6 DEF ReaderNext
<1>7. ASSUME NEW c \in Reads, Accept(c)
      PROVE  [WriterNext]_writerVars /\ [ReaderNext]_readerVars
  BY <1>7 DEF ReaderNext, Handler, Accept
<1>8. ASSUME NEW c \in Reads, Refuse(c)
      PROVE  [WriterNext]_writerVars /\ [ReaderNext]_readerVars
  BY <1>8 DEF ReaderNext, Handler, Refuse
<1>9. ASSUME NEW c \in Reads, Read(c)
      PROVE  [WriterNext]_writerVars /\ [ReaderNext]_readerVars
  BY <1>9 DEF ReaderNext, Handler, Read
<1>10. ASSUME NEW c \in Reads, Panic(c)
       PROVE  [WriterNext]_writerVars /\ [ReaderNext]_readerVars
  BY <1>10 DEF WriterNext, ReaderNext, Handler, Panic
<1>11. CASE Restart
  BY <1>11 DEF WriterNext, ReaderNext, Restart
<1>12. CASE UNCHANGED vars
  BY <1>12 DEF vars
<1> QED
  BY <1>1, <1>2, <1>3, <1>4, <1>5, <1>6, <1>7, <1>8, <1>9, <1>10, <1>11, <1>12 DEF Next

\* What relates the two paths: they live and die together, and a server that
\* has stopped has no read left and takes none.
LEMMA TogetherStep ==
  Inv /\ [Next]_vars => OneProcess' /\ NoReadAfterStop'
<1> SUFFICES ASSUME Inv, [Next]_vars PROVE OneProcess' /\ NoReadAfterStop'
  OBVIOUS
<1> USE DEF OneProcess, NoReadAfterStop, Reading, Goto
<1>0. /\ OneProcess /\ NoReadAfterStop /\ up \in BOOLEAN
      /\ reads \in [Reads ->
                      {"new", "built", "reading", "answered", "failed", "dropped"}]
  BY DEF Inv, ReaderInv, ReaderTypeOK
<1>1. ASSUME NEW w \in Workers, IngestWorker(w), UNCHANGED readerVars
      PROVE  OneProcess' /\ NoReadAfterStop'
  BY <1>0, <1>1 DEF IngestWorker, readerVars
<1>2. ASSUME NEW c \in Writes, Write(c) PROVE OneProcess' /\ NoReadAfterStop'
  BY <1>0, <1>2 DEF Write, Arrive, WriteSpan, readerVars
<1>3. CASE Signal /\ UNCHANGED readerVars
  BY <1>0, <1>3 DEF Signal, readerVars
<1>4. CASE StopGracefully
  BY <1>0, <1>4 DEF StopGracefully, GracefulStopped, readerVars
<1>5. CASE Close /\ UNCHANGED readerVars
  BY <1>0, <1>5 DEF Close, readerVars
<1>6. ASSUME NEW s \in Spans, Ingest(s), UNCHANGED writerVars
      PROVE  OneProcess' /\ NoReadAfterStop'
  BY <1>0, <1>6 DEF Ingest, writerVars
<1>7. ASSUME NEW c \in Reads, Accept(c) PROVE OneProcess' /\ NoReadAfterStop'
  BY <1>0, <1>7 DEF Accept, Reject, BuildOptions, writerVars
<1>8. ASSUME NEW c \in Reads, Refuse(c) PROVE OneProcess' /\ NoReadAfterStop'
  BY <1>0, <1>8 DEF Refuse, TurnAway, writerVars
<1>9. ASSUME NEW c \in Reads, Read(c) PROVE OneProcess' /\ NoReadAfterStop'
  BY <1>0, <1>9 DEF Read, Query, QueryFails, EndOfRows, writerVars
<1>10. ASSUME NEW c \in Reads, Panic(c) PROVE OneProcess' /\ NoReadAfterStop'
  BY <1>0, <1>10 DEF Panic, PanicOnSpanKind, Crash
<1>11. CASE Restart
  BY <1>0, <1>11 DEF Restart, RestartWriter, RestartReader
<1>12. CASE UNCHANGED vars
  BY <1>0, <1>12 DEF vars, writerVars, readerVars
<1> QED
  BY <1>1, <1>2, <1>3, <1>4, <1>5, <1>6, <1>7, <1>8, <1>9, <1>10, <1>11, <1>12 DEF Next

\* The invariant is inductive.
LEMMA NextInv == Inv /\ [Next]_vars => Inv'
  BY StepOfBoth, WriterStep, ReaderStep, TogetherStep DEF Inv

\* The invariant holds in every reachable state.
LEMMA PluginInv == Spec => []Inv
  BY InitInv, NextInv, PTL DEF Spec
-----------------------------------------------------------------------------
\* Type correctness; in particular the channel never holds more spans than
\* WriterSpanBufferSize (writer.go), and both paths are of one process.
THEOREM PluginTypeOK == Spec => []TypeOK
<1>1. Inv => TypeOK
  BY DEF Inv, OneProcess, TypeOK, WriterInv, ReaderInv
<1> QED
  BY <1>1, PluginInv, PTL

\* Close runs under no WriteSpan in progress and every span that was
\* acknowledged by this process is in the channel when it does (writer.go
\* Close, server.go registerGracefulShutdown), whatever panics and restarts
\* came before.
THEOREM PluginClosesAfterWrites == Spec => []CloseAfterWrites
<1>1. Inv => CloseAfterWrites
  BY InvClosesAfterWrites DEF Inv
<1> QED
  BY <1>1, PluginInv, PTL

\* Close runs under no call of either kind (server.go, GracefulStop).
THEOREM PluginClosesAfterCalls == Spec => []CloseAfterCalls
<1>1. Inv => CloseAfterCalls
  BY DEF Inv, WriterInv, NoHandlerAfterStop, NoReadAfterStop, CloseAfterCalls
<1> QED
  BY <1>1, PluginInv, PTL

\* A search that may return more misses no trace that was stored before it
\* came, for any questions and any spans, while the collector stores others
\* (reader.go FindTraceIDs, FindTraces).
THEOREM PluginMissesNothing == Spec => []SearchMissesNothing
<1>1. Inv => SearchMissesNothing
  BY InvMissesNothing DEF Inv
<1> QED
  BY <1>1, PluginInv, PTL

\* There are never infinitely many handlers at work: each step starts one at most.
Building == {c \in Reads : reads[c] = "built"}

FiniteHandlers == IsFiniteSet(Handling) /\ IsFiniteSet(Reading)

LEMMA HandlersStayFinite ==
  Inv /\ FiniteHandlers /\ [Next]_vars => FiniteHandlers'
<1> SUFFICES ASSUME Inv, FiniteHandlers, [Next]_vars PROVE FiniteHandlers'
  OBVIOUS
<1>1. /\ [WriterNext]_writerVars /\ [ReaderNext]_readerVars
      /\ writes \in [Writes ->
                      {"new", "sending", "returned", "rejected", "dropped", "lost"}]
      /\ reads \in [Reads ->
                      {"new", "built", "reading", "answered", "failed", "dropped"}]
  BY StepOfBoth DEF Inv, WriterInv, WriterTypeOK, ReaderInv, ReaderTypeOK
<1>2. \/ Handling' \subseteq Handling
      \/ \E c \in Writes : Handling' \subseteq Handling \cup {c}
  BY <1>1
  DEF WriterNext, IngestWorker, Arrive, WriteSpan, Signal, GracefulStopped, Close, Crash,
      RestartWriter, Handling, writerVars
<1>3. \/ Reading' \subseteq Reading
      \/ \E c \in Reads : Reading' \subseteq Reading \cup {c}
  BY <1>1
  DEF ReaderNext, Handler, Reject, TurnAway, BuildOptions, Query, QueryFails, EndOfRows,
      PanicOnSpanKind, Ingest, RestartReader, Goto, Reading, readerVars
<1> QED
  BY <1>2, <1>3, FS_AddElement, FS_Subset DEF FiniteHandlers

\* While the server stops, no handler is added to those at work and none of them
\* builds its query again.
LEMMA StoppingAddsNothing ==
  Inv /\ [Next]_vars /\ server = "stopping" /\ server' = "stopping" =>
    Handling' \subseteq Handling /\ Reading' \subseteq Reading /\ Building' \subseteq Building
<1> SUFFICES ASSUME Inv, [Next]_vars, server = "stopping", server' = "stopping"
             PROVE  /\ Handling' \subseteq Handling
                    /\ Reading' \subseteq Reading /\ Building' \subseteq Building
  OBVIOUS
<1>0. /\ writes \in [Writes ->
                      {"new", "sending", "returned", "rejected", "dropped", "lost"}]
      /\ reads \in [Reads ->
                      {"new", "built", "reading", "answered", "failed", "dropped"}]
  BY DEF Inv, WriterInv, WriterTypeOK, ReaderInv, ReaderTypeOK
<1>1. UNCHANGED writes => Handling' = Handling
  BY DEF Handling
<1>2. UNCHANGED reads => Reading' = Reading /\ Building' = Building
  BY DEF Reading, Building
<1>3. ASSUME NEW w \in Workers, IngestWorker(w), UNCHANGED readerVars
      PROVE  UNCHANGED <<writes, reads>>
  BY <1>3 DEF IngestWorker, readerVars
<1>4. ASSUME NEW c \in Writes, Write(c)
      PROVE  Handling' \subseteq Handling /\ UNCHANGED reads
  BY <1>0, <1>4 DEF Write, Arrive, WriteSpan, Handling, readerVars
<1>5. ASSUME NEW s \in Spans, Ingest(s), UNCHANGED writerVars
      PROVE  UNCHANGED <<writes, reads>>
  BY <1>5 DEF Ingest, writerVars
<1>6. ASSUME NEW c \in Reads, Refuse(c) \/ Read(c)
      PROVE  UNCHANGED writes /\ Reading' \subseteq Reading /\ Building' \subseteq Building
  BY <1>0, <1>6
  DEF Refuse, TurnAway, Read, Query, QueryFails, EndOfRows, Goto, Reading, Building, writerVars
<1>7. ASSUME NEW c \in Reads, Accept(c) \/ Panic(c) PROVE FALSE
  BY <1>7 DEF Accept, Panic, Crash
<1>8. CASE UNCHANGED vars
  BY <1>1, <1>2, <1>8 DEF vars, writerVars, readerVars
<1>9. ~ (Signal \/ StopGracefully \/ Close \/ Restart)
  BY DEF Signal, StopGracefully, GracefulStopped, Close, Restart, RestartWriter
<1> QED
  BY <1>1, <1>2, <1>3, <1>4, <1>5, <1>6, <1>7, <1>8, <1>9 DEF Next

\* A subset of a finite set is smaller or the set itself.
LEMMA SmallerOrSame ==
  ASSUME NEW S, IsFiniteSet(S), NEW T \in SUBSET S
  PROVE  /\ Cardinality(S) \in Nat /\ Cardinality(T) \in Nat
         /\ Cardinality(T) < Cardinality(S) \/ T = S
  BY FS_Subset, FS_CardinalityType

\* A stopping server gets nearer to its end with everything that its handlers
\* do, for any number of calls, whatever comes in or fails meanwhile; with the
\* fairness of Spec this is why only a full channel can keep it (server.go,
\* GracefulStop).
THEOREM PluginStoppingGetsOn == Spec => StoppingGetsOn
<1>1. Init => FiniteHandlers
  <2>1. Init => Handling = {} /\ Reading = {}
    BY DEF Init, WriterInit, ReaderInit, Handling, Reading
  <2> QED
    BY <2>1, FS_EmptySet DEF FiniteHandlers
<1>2. ASSUME Inv, FiniteHandlers, [Next]_vars, server = "stopping", server' = "stopping"
      PROVE  \/ StopStepsLeft' < StopStepsLeft
             \/ UNCHANGED <<Handling, Reading, {c \in Reads : reads[c] = "built"}>>
  <2>1. Building \subseteq Reading
    BY DEF Building, Reading
  <2>2. IsFiniteSet(Handling) /\ IsFiniteSet(Reading) /\ IsFiniteSet(Building)
    BY <1>2, <2>1, FS_Subset DEF FiniteHandlers
  <2>3. Handling' \subseteq Handling /\ Reading' \subseteq Reading /\ Building' \subseteq Building
    BY <1>2, StoppingAddsNothing
  <2>4. /\ Cardinality(Handling) \in Nat /\ Cardinality(Handling') \in Nat
        /\ Cardinality(Handling') < Cardinality(Handling) \/ Handling' = Handling
    BY <2>2, <2>3, SmallerOrSame
  <2>5. /\ Cardinality(Reading) \in Nat /\ Cardinality(Reading') \in Nat
        /\ Cardinality(Reading') < Cardinality(Reading) \/ Reading' = Reading
    BY <2>2, <2>3, SmallerOrSame
  <2>6. /\ Cardinality(Building) \in Nat /\ Cardinality(Building') \in Nat
        /\ Cardinality(Building') < Cardinality(Building) \/ Building' = Building
    BY <2>2, <2>3, SmallerOrSame
  <2>7. /\ StopStepsLeft = Cardinality(Handling) + Cardinality(Reading) + Cardinality(Building)
        /\ StopStepsLeft' =
             Cardinality(Handling') + Cardinality(Reading') + Cardinality(Building')
    BY DEF StopStepsLeft, Building
  <2>8. \/ StopStepsLeft' < StopStepsLeft
        \/ Handling' = Handling /\ Reading' = Reading /\ Building' = Building
    BY <2>4, <2>5, <2>6, <2>7
  <2> QED
    BY <2>8 DEF Building
<1>3. Inv /\ FiniteHandlers /\ [Next]_vars =>
        [server = "stopping" /\ server' = "stopping" =>
          \/ StopStepsLeft' < StopStepsLeft
          \/ UNCHANGED <<Handling, Reading, {c \in Reads : reads[c] = "built"}>>]_vars
  BY <1>2
<1> QED
  BY <1>1, <1>3, HandlersStayFinite, PluginInv, PTL DEF Spec, StoppingGetsOn

\* Every answered call is that of one look at a table between its call and its
\* answer, whatever is stored meanwhile and whatever fails, stops or panics:
\* the plugin implements the promise of SpanReads (reader.go, GetTrace,
\* FindTraceIDs and FindTraces).
THEOREM PluginReadsOnce == Spec => ImplementsPromise
<1>1. Init => Promise!Init /\ LooksOnce
  BY PromiseInit DEF Init
<1>2. Inv /\ LooksOnce /\ [Next]_vars => LooksOnce' /\ [Promise!Next]_(Promise!vars)
  BY StepOfBoth, LookStep, PromiseStep DEF Inv
<1> QED
  BY <1>1, <1>2, PluginInv, PTL DEF Spec, ImplementsPromise, Promise!Spec

\* The two searches find the same traces, for any question with a limit and no
\* dotted key and any table (reader.go, the queries of FindTraceIDs and
\* FindTraces).
THEOREM PluginSearchesAgree == Spec => []SearchesAgree
<1>1. Inv => SearchesAgree
  BY InvSearchesAgree DEF Inv
<1> QED
  BY <1>1, PluginInv, PTL

\* When no question sets a maximal duration, FindTraces returns traces that
\* its question describes, no more than it asks for and never more than
\* MaxNumTraces (queryUtils.go validateQuery, reader.go FindTraces).
THEOREM PluginFindsMatching == ASSUME NoMaximum PROVE Spec => []SearchFindsMatching
<1>1. Init => FindsMatching
  BY DEF Init, ReaderInit, FindsMatching
<1>2. Inv /\ FindsMatching /\ [Next]_vars => FindsMatching'
  BY StepOfBoth, FindsStep DEF Inv
<1> QED
  BY <1>1, <1>2, FindsIsSearch, PluginInv, PTL DEF Spec

\* Unless both read flags are configured, every query of every concurrent
\* handler goes out with its own client request id (reader.go, the append
\* to r.defaultReadOptions in each handler).
THEOREM PluginSendsOwnId ==
  ASSUME ~(ReadNoTruncation /\ ReadNoTimeout)
  PROVE  Spec => []OwnRequestId
<1>1. Init => OptionsOwned /\ OwnRequestId
  BY DEF Init, ReaderInit, OptionsOwned, OwnRequestId
<1>2. Inv /\ OptionsOwned /\ OwnRequestId /\ [Next]_vars => OptionsOwned' /\ OwnRequestId'
  BY StepOfBoth, OwnIdStep DEF Inv, ReaderInv
<1> QED
  BY <1>1, <1>2, PluginInv, PTL DEF Spec
=============================================================================
