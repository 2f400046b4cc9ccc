-------------------------- MODULE SpanWriterProofs --------------------------
(***************************************************************************)
(* Proofs about SpanWriter, for any number of calls and workers and any    *)
(* size of the buffer.                                                     *)
(***************************************************************************)
EXTENDS SpanWriter, SequenceTheorems, TLAPS

\* What was acknowledged is in the buffer at any time, and no handler is at
\* work once GracefulStop has returned.
Buffered(c) == \E k \in DOMAIN spanInput : spanInput[k] = c

AcknowledgedIsBuffered == \A c \in Writes : writes[c] = "returned" => Buffered(c)

NoHandlerAfterStop == server \in {"closing", "signalling"} => Handling = {}

WriterInv == WriterTypeOK /\ AcknowledgedIsBuffered /\ NoHandlerAfterStop

\* The initial state satisfies the invariant: nothing was sent yet.
LEMMA WriterInitInv == WriterInit => WriterInv
  BY BufferAssumption
  DEF WriterInit, WriterInv, WriterTypeOK, AcknowledgedIsBuffered, NoHandlerAfterStop,
      Handling

\* Every step of the writer and of the server keeps the invariant: only
\* WriteSpan and the death of the process change the buffer, and only Arrive
\* starts a handler, which it does while the server is still serving.
LEMMA WriterStep == WriterInv /\ [WriterNext]_writerVars => WriterInv'
<1> SUFFICES ASSUME WriterInv, [WriterNext]_writerVars PROVE WriterInv'
  OBVIOUS
<1> USE BufferAssumption DEF WriterInv, WriterTypeOK, AcknowledgedIsBuffered,
        NoHandlerAfterStop, Handling, Buffered
<1>1. ASSUME NEW w \in Workers, IngestWorker(w) PROVE WriterInv'
  BY <1>1 DEF IngestWorker
<1>2. ASSUME NEW c \in Writes, Arrive(c) PROVE WriterInv'
  BY <1>2 DEF Arrive
<1>3. ASSUME NEW c \in Writes, WriteSpan(c) PROVE WriterInv'
  <2>1. /\ spanInput' \in Seq(Writes)
        /\ Len(spanInput') = Len(spanInput) + 1
        /\ \A k \in DOMAIN spanInput : k \in DOMAIN spanInput' /\ spanInput'[k] = spanInput[k]
        /\ Buffered(c)'
    BY <1>3, AppendProperties DEF WriteSpan
  <2>2. WriterTypeOK'
    BY <1>3, <2>1 DEF WriteSpan
  <2>3. AcknowledgedIsBuffered'
    BY <1>3, <2>1 DEF WriteSpan
  <2>4. NoHandlerAfterStop'
    BY <1>3 DEF WriteSpan
  <2> QED
    BY <2>2, <2>3, <2>4
<1>4. CASE Signal
  BY <1>4 DEF Signal
<1>5. CASE GracefulStopped
  BY <1>5 DEF GracefulStopped
<1>6. CASE Close
  BY <1>6 DEF Close
<1>7. CASE Crash
  <2>1. \A c \in Writes : writes'[c] # "sending" /\ writes'[c] # "returned"
    BY <1>7 DEF Crash
  <2>2. spanInput' \in Seq(Writes) /\ Len(spanInput') = 0
    BY <1>7 DEF Crash
  <2>3. WriterTypeOK'
    BY <1>7, <2>2 DEF Crash
  <2> QED
    BY <1>7, <2>1, <2>3 DEF Crash
<1>8. CASE RestartWriter
  BY <1>8 DEF RestartWriter
<1>9. CASE UNCHANGED writerVars
  BY <1>9 DEF writerVars
<1> QED
  BY <1>1, <1>2, <1>3, <1>4, <1>5, <1>6, <1>7, <1>8, <1>9 DEF WriterNext

\* Close runs under no WriteSpan in progress and every span whose WriteSpan
\* was acknowledged is in the channel when it does (writer.go Close,
\* server.go registerGracefulShutdown).
LEMMA InvClosesAfterWrites == WriterInv => CloseAfterWrites
  BY DEF WriterInv, AcknowledgedIsBuffered, NoHandlerAfterStop, Handling,
         Buffered, CloseAfterWrites
=============================================================================
