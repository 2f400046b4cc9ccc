----------------------------- MODULE KustoReader -----------------------------
(***************************************************************************)
(* The read path of the Jaeger storage plugin (store/reader.go): handlers  *)
(* that run concurrently, one goroutine per gRPC call, and share one slice *)
(* of Kusto query options, defaultReadOptions.                             *)
(*                                                                         *)
(* ParseKustoConfig builds that slice by successive appends, one option per*)
(* flag and one for the application name.  Every handler appends its own   *)
(* client request id, and its query parameters if it has any.  append      *)
(* copies only when the capacity is exceeded: with room left, all handlers *)
(* write into the same element of the same array.                          *)
(*                                                                         *)
(* The table of spans is filled by the collector while handlers run.  What *)
(* GetTrace and the two searches (TraceQuery) read is kept in `result';    *)
(* of the lists of services, operations and dependencies only the control  *)
(* is modelled.                                                            *)
(***************************************************************************)
EXTENDS TraceQuery

CONSTANTS
    Reads,             \* gRPC calls; each is its own client request id
    KindOf,            \* the handler of each call
    ReadNoTruncation,  \* flags of the plugin configuration
    ReadNoTimeout,
    NoId,              \* no request id
    NoQuestion,        \* a call that asks nothing, or nothing yet
    Spans,             \* spans the collector stores
    OldSpans,          \* those that are in the table from the start
    Questions          \* [Reads -> parameters a search may be called with]

Kinds == {"GetTrace", "GetServices", "GetOperations", "GetOperationsOfService",
          "GetOperationsOfKind", "FindTraceIDs", "FindTraces", "GetDependencies"}

ASSUME KindsAssumption == KindOf \in [Reads -> Kinds]
ASSUME FlagsAssumption == ReadNoTruncation \in BOOLEAN /\ ReadNoTimeout \in BOOLEAN
ASSUME TableAssumption ==
    /\ IsFiniteSet(Spans) /\ OldSpans \subseteq Spans
    /\ \A s \in Spans : s.start \in Int /\ s.duration \in Int
    /\ \A c \in Reads : \A q \in Questions[c] : WellFormed(q)

VARIABLES
    stored,  \* the table
    spare,   \* the element after the last of defaultReadOptions' array
    own,     \* [Reads -> whether the options of the call are a copy]
    sentAs,  \* [Reads -> the client request id its query went out with]
    asked,   \* [Reads -> the question or the trace the call asks for]
    seen,    \* [Reads -> what the table held when the call was accepted]
    result,  \* [Reads -> the spans, or the traces, that the query returned]
    reads,   \* [Reads -> "new", "built", "reading", "answered", "failed", "dropped"]
    up       \* the plugin process is alive

readerVars == <<stored, spare, own, sentAs, asked, seen, result, reads, up>>
-----------------------------------------------------------------------------
Count(flag) == IF flag THEN 1 ELSE 0

\* len(defaultReadOptions)
DefaultLen == Count(ReadNoTruncation) + Count(ReadNoTimeout) + 1

\* cap of a slice built by one, two, three appends of one option: append
\* doubles the array when it is full.
GrownCap == <<1, 2, 4>>

\* Options a handler appends: the request id, and query parameters.
Appended(kind) == IF kind \in {"GetServices", "GetOperations"} THEN 1 ELSE 2

\* Mutation: the slice is made with room for all options anybody may append.
AliasedPreallocated(kind) == DefaultLen + Appended(kind) <= 8

Aliased(kind) == DefaultLen + Appended(kind) <= GrownCap[DefaultLen]

Searches == {"FindTraceIDs", "FindTraces"}
Traces == TracesOf(Spans)

\* What a call asks for, once it is validated.
Asks(c) ==
    IF KindOf[c] \in Searches THEN {Capped(q) : q \in {r \in Questions[c] : Valid(r)}}
    ELSE IF KindOf[c] = "GetTrace" THEN Traces ELSE {NoQuestion}

ReaderTypeOK ==
    /\ stored \subseteq Spans
    /\ spare \in Reads \cup {NoId}
    /\ own \in [Reads -> BOOLEAN]
    /\ sentAs \in [Reads -> Reads \cup {NoId}]
    /\ \A c \in Reads : asked[c] \in Asks(c) \cup {NoQuestion}
    /\ seen \in [Reads -> SUBSET Spans]
    /\ \A c \in Reads : result[c] \in (SUBSET Spans) \cup (SUBSET Traces)
    /\ reads \in [Reads -> {"new", "built", "reading", "answered", "failed", "dropped"}]
    /\ up \in BOOLEAN

ReaderInit ==
    /\ stored = OldSpans
    /\ spare = NoId
    /\ own = [c \in Reads |-> FALSE]
    /\ sentAs = [c \in Reads |-> NoId]
    /\ asked = [c \in Reads |-> NoQuestion]
    /\ seen = [c \in Reads |-> {}] /\ result = [c \in Reads |-> {}]
    /\ reads = [c \in Reads |-> "new"]
    /\ up = TRUE

Goto(c, l) == reads' = [reads EXCEPT ![c] = l]
-----------------------------------------------------------------------------
\* The collector stores a span.
Ingest(s) ==
    /\ s \in Spans \ stored
    /\ stored' = stored \cup {s}
    /\ UNCHANGED <<spare, own, sentAs, asked, seen, result, reads, up>>

\* validateQuery turns a search down before a query is built.
Reject(c) ==
    /\ up /\ reads[c] = "new" /\ KindOf[c] \in Searches
    /\ \E q \in Questions[c] : ~Valid(q)
    /\ Goto(c, "failed")
    /\ UNCHANGED <<stored, spare, own, sentAs, asked, seen, result, up>>

\* A server that stops or is down takes no calls.
TurnAway(c) ==
    /\ reads[c] = "new"
    /\ Goto(c, "failed")
    /\ UNCHANGED <<stored, spare, own, sentAs, asked, seen, result, up>>

\* append(r.defaultReadOptions, kusto.ClientRequestID(id), ...)
BuildOptions(c) ==
    /\ up /\ reads[c] = "new" /\ KindOf[c] # "GetOperationsOfKind"
    /\ Goto(c, "built")
    /\ \E a \in Asks(c) : asked' = [asked EXCEPT ![c] = a]
    /\ seen' = [seen EXCEPT ![c] = stored]
    /\ IF Aliased(KindOf[c])
       THEN spare' = c /\ UNCHANGED own
       ELSE own' = [own EXCEPT ![c] = TRUE] /\ UNCHANGED spare
    /\ UNCHANGED <<stored, sentAs, result, up>>

\* What the query of a call may return from a table, when it asks q.
Results(c, q, spans) ==
    CASE KindOf[c] = "GetTrace" -> {{s \in spans : s.trace = q}}
      [] KindOf[c] = "FindTraceIDs" -> FindTraceIDs(q, spans)
      [] KindOf[c] = "FindTraces" -> FindTraces(q, spans)
      [] OTHER -> {{}}

\* Mutation: searches may be answered from the cache of earlier results, as
\* the lists of services and operations are.
QueryCached(c) ==
    /\ up /\ reads[c] = "built"
    /\ sentAs' = [sentAs EXCEPT ![c] = IF own[c] THEN c ELSE spare]
    /\ \E spans \in SUBSET stored :
          \E R \in Results(c, asked[c], spans) : result' = [result EXCEPT ![c] = R]
    /\ Goto(c, "reading")
    /\ UNCHANGED <<stored, spare, own, asked, seen, up>>

\* client.Query reads the options of the slice it was given.
Query(c) ==
    /\ up /\ reads[c] = "built"
    /\ sentAs' = [sentAs EXCEPT ![c] = IF own[c] THEN c ELSE spare]
    /\ \E R \in Results(c, asked[c], stored) : result' = [result EXCEPT ![c] = R]
    /\ Goto(c, "reading")
    /\ UNCHANGED <<stored, spare, own, asked, seen, up>>

QueryFails(c) ==
    /\ up /\ reads[c] = "built"
    /\ Goto(c, "failed")
    /\ UNCHANGED <<stored, spare, own, sentAs, asked, seen, result, up>>

\* Mutation: an error makes the handler run its query again.
EndOfRowsRetrying(c) ==
    /\ up /\ reads[c] = "reading"
    /\ \E outcome \in {"answered", "built"} : Goto(c, outcome)
    /\ UNCHANGED <<stored, spare, own, sentAs, asked, seen, result, up>>

\* The iterator ends, or reports an error or a row that does not convert.
EndOfRows(c) ==
    /\ up /\ reads[c] = "reading"
    /\ \E outcome \in {"answered", "failed"} : Goto(c, outcome)
    /\ UNCHANGED <<stored, spare, own, sentAs, asked, seen, result, up>>

\* GetOperations runs no query when a span kind is given; its iterator is nil,
\* the use of it panics, and no interceptor recovers: the process dies with
\* every call it was serving.
PanicOnSpanKind(c) ==
    /\ up /\ reads[c] = "new" /\ KindOf[c] = "GetOperationsOfKind"
    /\ up' = FALSE
    /\ reads' = [d \in Reads |->
          IF d = c \/ reads[d] \in {"built", "reading"} THEN "dropped" ELSE reads[d]]
    /\ UNCHANGED <<stored, spare, own, sentAs, asked, seen, result>>

\* The process is started again, with a new array.
RestartReader ==
    /\ ~up
    /\ up' = TRUE
    /\ spare' = NoId
    /\ UNCHANGED <<stored, own, sentAs, asked, seen, result, reads>>

Handler(c) ==
    \/ Reject(c) \/ TurnAway(c) \/ BuildOptions(c)
    \/ Query(c) \/ QueryFails(c) \/ EndOfRows(c) \/ PanicOnSpanKind(c)

ReaderNext ==
    \/ \E c \in Reads : Handler(c)
    \/ \E s \in Spans : Ingest(s)
    \/ RestartReader

ReaderSpec == ReaderInit /\ [][ReaderNext]_readerVars
-----------------------------------------------------------------------------
\* Where a call is for the client, who does not see queries and iterators.
Status(c) ==
    CASE reads[c] \in {"built", "reading"} -> "open"
      [] reads[c] = "dropped" -> "failed"
      [] OTHER -> reads[c]

Promise == INSTANCE SpanReads WITH
    call <- [c \in Reads |-> Status(c)],
    before <- seen,
    answer <- [c \in Reads |-> IF reads[c] = "answered" THEN result[c] ELSE {}]

\* Each answer is that of one query of one table, which held all that was
\* stored before the call, although the handler sends its query at another
\* time than it takes the question and than it answers, and the collector
\* stores spans, calls fail and the process dies in between; no answered call
\* is answered again, asks something else or loses its answer.
ImplementsPromise == Promise!Spec

\* Every query goes out with the client request id of its own call, whatever
\* calls run beside it; the id is what ties a log line to a query in Kusto.
OwnRequestId == \A c \in Reads : sentAs[c] \in {NoId, c}

\* FindTraces returns no more traces than it was asked for, or may return, and
\* each of them has, among the spans returned, one that the question describes.
SearchFindsMatching ==
    \A c \in Reads : reads[c] = "answered" /\ KindOf[c] = "FindTraces" =>
        LET q == asked[c]
            T == TracesOf(result[c])
        IN  /\ Cardinality(T) <= IF q.num = 0 THEN DefaultNumTraces ELSE q.num
            /\ Cardinality(T) <= MaxNumTraces
            /\ \A t \in T : \E s \in result[c] : s.trace = t /\ Matches(q, s)

\* A search that could have returned more traces has missed none that was in the
\* table before the call, whatever the collector stores meanwhile.  Without a
\* maximal duration, whose filter is wrong, and for FindTraceIDs without tags
\* whose key has a dot.
SearchMissesNothing ==
    \A c \in Reads : reads[c] = "answered" /\ KindOf[c] \in Searches =>
        LET q == asked[c]
            T == IF KindOf[c] = "FindTraces" THEN TracesOf(result[c]) ELSE result[c]
        IN  /\ q.max = 0
            /\ KindOf[c] = "FindTraceIDs" => \A t \in q.tags : Dotless[t.key] = t.key
            /\ Cardinality(T) < IF q.num = 0 THEN DefaultNumTraces ELSE q.num
            => \A s \in seen[c] : Matches(q, s) /\ ~Borderline(q, s) => s.trace \in T

\* The two searches, whose queries are written apart from each other, find the
\* same traces of whatever table: what FindTraceIDs may return for a question is
\* what the spans of FindTraces may belong to.  When the question sets a limit,
\* since without one only FindTraces has a default, and no key with a dot.
SearchesAgree ==
    \A c \in Reads : \A q \in Questions[c] :
        /\ q.num # 0 /\ \A t \in q.tags : Dotless[t.key] = t.key
        => FindTraceIDs(q, stored) = {TracesOf(R) : R \in FindTraces(q, stored)}
=============================================================================
