-------------------------- MODULE KustoReaderProofs -------------------------
(***************************************************************************)
(* Proofs about KustoReader, for any number of concurrent calls, any       *)
(* questions and any spans.                                                *)
(***************************************************************************)
EXTENDS KustoReader, FiniteSetTheorems, TLAPS

(***************************************************************************)
(* The searches.                                                           *)
(***************************************************************************)
Same == [k \in DOMAIN Dotless |-> k]

\* What is left of a question once its number of traces is capped.
LEMMA CappedQuestion ==
  ASSUME NEW q, WellFormed(q)
  PROVE  /\ WellFormed(Capped(q)) /\ Capped(q).num <= MaxNumTraces
         /\ Capped(q).max = q.max
<1>1. /\ DOMAIN Capped(q) = DOMAIN q
      /\ \A f \in DOMAIN q : f # "num" => Capped(q)[f] = q[f]
      /\ Capped(q)["num"] = IF q.num > MaxNumTraces THEN MaxNumTraces ELSE q.num
  BY DEF Capped, WellFormed
<1>2. /\ Capped(q).tags = q.tags /\ Capped(q).from = q.from /\ Capped(q).to = q.to
      /\ Capped(q).min = q.min /\ Capped(q).max = q.max
      /\ Capped(q).num = IF q.num > MaxNumTraces THEN MaxNumTraces ELSE q.num
  BY <1>1 DEF WellFormed
<1>3. Capped(q).num \in Nat /\ Capped(q).num <= MaxNumTraces
  BY <1>2, LimitsAssumption DEF WellFormed
<1> HIDE DEF Capped
<1> QED
  BY <1>1, <1>2, <1>3 DEF WellFormed

\* A span that passes the filter with the keys of the question is one that the
\* question describes, when it sets no maximal duration.
LEMMA FilterMatches ==
  ASSUME NEW q, WellFormed(q), q.max = 0, NEW s \in Spans, Filter(q, Same, s)
  PROVE  Matches(q, s)
<1>1. q.tags \subseteq s.tags
  <2> SUFFICES ASSUME NEW t \in q.tags PROVE t \in s.tags
    OBVIOUS
  <2>1. Same[t.key] = t.key /\ t = [key |-> t.key, value |-> t.value]
    BY DEF Same, WellFormed
  <2>2. [key |-> Same[t.key], value |-> t.value] \in s.tags
    BY DEF Filter, HasTags
  <2> QED
    BY <2>1, <2>2
<1>2. s.start \in q.from .. q.to
  BY TableAssumption DEF Filter, InWindow, WellFormed
<1>3. /\ q.service \in {NoName, s.service} /\ q.operation \in {NoName, s.name}
      /\ q.min # 0 => s.duration >= q.min
  BY TableAssumption DEF Filter, WellFormed
<1> QED
  BY <1>1, <1>2, <1>3 DEF Matches

\* A span that the question describes passes the filter, unless it lies on a
\* bound, a maximal duration is given, or the column renames a key.
LEMMA MatchesFilter ==
  ASSUME NEW q, WellFormed(q), q.max = 0, NEW s \in Spans,
         NEW column, \A t \in q.tags : column[t.key] = t.key,
         Matches(q, s), ~Borderline(q, s)
  PROVE  Filter(q, column, s)
<1>1. HasTags(q, column, s)
  <2> SUFFICES ASSUME NEW t \in q.tags
               PROVE  [key |-> column[t.key], value |-> t.value] \in s.tags
    BY DEF HasTags
  <2>1. column[t.key] = t.key /\ t = [key |-> t.key, value |-> t.value]
    BY DEF WellFormed
  <2>2. t \in s.tags
    BY DEF Matches
  <2> QED
    BY <2>1, <2>2
<1>2. InWindow(q, s)
  BY TableAssumption DEF Matches, Borderline, InWindow, WellFormed
<1>3. /\ q.service # NoName => s.service = q.service
      /\ q.operation # NoName => s.name = q.operation
      /\ q.min # 0 => s.duration > q.min
  BY TableAssumption DEF Matches, Borderline, WellFormed
<1> QED
  BY <1>1, <1>2, <1>3 DEF Filter

\* The traces of finitely many spans are finitely many.
LEMMA TracesFinite ==
  ASSUME NEW S \in SUBSET Spans
  PROVE  IsFiniteSet(TracesOf(S))
<1>1. IsFiniteSet(S)
  BY TableAssumption, FS_Subset
<1> DEFINE f == [s \in S |-> s.trace]
<1>2. f \in Surjection(S, TracesOf(S))
  BY DEF Surjection, TracesOf
<1> QED
  BY <1>1, <1>2, FS_Surjection

\* `sample n' takes no more than n, and all there are when it takes fewer.
LEMMA SampleSize ==
  ASSUME NEW S \in SUBSET Spans, NEW n \in Nat, NEW R \in Sample(TracesOf(S), n)
  PROVE  /\ R \subseteq TracesOf(S)
         /\ Cardinality(R) <= n
         /\ Cardinality(R) < n => R = TracesOf(S)
<1>1. Cardinality(TracesOf(S)) \in Nat
  BY TracesFinite, FS_CardinalityType
<1> QED
  BY <1>1 DEF Sample

Wanted(q) == IF q.num = 0 THEN DefaultNumTraces ELSE q.num

\* The spans that FindTraces reads are of the sampled traces, and each of these
\* has one that passed the filter.
LEMMA TracesFound ==
  ASSUME NEW q, WellFormed(q), NEW S \in SUBSET Spans, NEW R \in FindTraces(q, S)
  PROVE  /\ R \subseteq S
         /\ Cardinality(TracesOf(R)) <= Wanted(q)
         /\ \A t \in TracesOf(R) : \E s \in R : s.trace = t /\ Filter(q, Same, s)
         /\ Cardinality(TracesOf(R)) < Wanted(q) =>
               \A s \in S : Filter(q, Same, s) => s.trace \in TracesOf(R)
<1> DEFINE F == {s \in S : Filter(q, Same, s)}
<1>1. Wanted(q) \in Nat
  BY LimitsAssumption DEF Wanted, WellFormed
<1>2. PICK T \in Sample(TracesOf(F), Wanted(q)) :
         R = {s \in S : s.trace \in T /\ InWindow(q, s)}
  BY DEF FindTraces, Wanted, Same
<1>3. /\ T \subseteq TracesOf(F) /\ Cardinality(T) <= Wanted(q)
      /\ Cardinality(T) < Wanted(q) => T = TracesOf(F)
  <2>1. F \in SUBSET Spans
    OBVIOUS
  <2> HIDE DEF F
  <2> QED
    BY <1>1, <1>2, <2>1, SampleSize
<1>4. ASSUME NEW t \in T PROVE \E s \in R : s.trace = t /\ Filter(q, Same, s)
  <2>1. PICK s \in F : s.trace = t
    BY <1>3 DEF TracesOf
  <2>2. s \in R
    BY <1>2, <2>1 DEF Filter
  <2> QED
    BY <2>1, <2>2
<1>5. TracesOf(R) = T
  BY <1>2, <1>4 DEF TracesOf
<1>6. \A s \in S : Filter(q, Same, s) => s.trace \in TracesOf(F)
  BY DEF TracesOf
<1> HIDE DEF F
<1> QED
  BY <1>2, <1>3, <1>4, <1>5, <1>6

\* The same of FindTraceIDs, which returns the traces.
LEMMA TraceIDsFound ==
  ASSUME NEW q, WellFormed(q), NEW S \in SUBSET Spans, NEW R \in FindTraceIDs(q, S)
  PROVE  /\ R \subseteq TracesOf(S)
         /\ Cardinality(R) < Wanted(q) =>
               \A s \in S : Filter(q, Dotless, s) => s.trace \in R
<1> DEFINE F == {s \in S : Filter(q, Dotless, s)}
<1>1. F \in SUBSET Spans /\ TracesOf(F) \subseteq TracesOf(S)
  BY DEF TracesOf
<1>2. \A s \in S : Filter(q, Dotless, s) => s.trace \in TracesOf(F)
  BY DEF TracesOf
<1>3. R \in IF q.num = 0 THEN {TracesOf(F)} ELSE Sample(TracesOf(F), q.num)
  BY DEF FindTraceIDs
<1> HIDE DEF F
<1>4. CASE q.num = 0
  BY <1>1, <1>2, <1>3, <1>4
<1>5. CASE q.num # 0
  <2>1. /\ R \subseteq TracesOf(F)
        /\ Cardinality(R) < q.num => R = TracesOf(F)
    BY <1>1, <1>3, <1>5, SampleSize DEF WellFormed
  <2> QED
    BY <1>1, <1>2, <1>5, <2>1 DEF Wanted
<1> QED
  BY <1>4, <1>5

\* Both searches sample the same traces when the column renames no key of the
\* question, and the spans that FindTraces reads are of exactly those.
LEMMA SameTracesFound ==
  ASSUME NEW q, WellFormed(q), q.num # 0, \A t \in q.tags : Dotless[t.key] = t.key,
         NEW S \in SUBSET Spans
  PROVE  FindTraceIDs(q, S) = {TracesOf(R) : R \in FindTraces(q, S)}
<1> DEFINE F == {s \in S : Filter(q, Same, s)}
           read(T) == {s \in S : s.trace \in T /\ InWindow(q, s)}
<1>1. \A t \in q.tags : Same[t.key] = Dotless[t.key]
  BY DEF Same, WellFormed
<1>2. \A s \in S : Filter(q, Dotless, s) <=> Filter(q, Same, s)
  BY <1>1 DEF Filter, HasTags
<1>3. FindTraceIDs(q, S) = Sample(TracesOf(F), q.num)
  <2>1. {s \in S : Filter(q, Dotless, s)} = F
    BY <1>2
  <2> HIDE DEF F
  <2> QED
    BY <2>1 DEF FindTraceIDs
<1>4. FindTraces(q, S) = {read(T) : T \in Sample(TracesOf(F), q.num)}
  BY DEF FindTraces, Same
<1>5. ASSUME NEW T \in Sample(TracesOf(F), q.num) PROVE TracesOf(read(T)) = T
  <2>1. T \subseteq TracesOf(F)
    BY DEF Sample
  <2>2. ASSUME NEW t \in T PROVE \E s \in read(T) : s.trace = t
    <3>1. PICK s \in F : s.trace = t
      BY <2>1 DEF TracesOf
    <3> QED
      BY <3>1 DEF Filter
  <2> QED
    BY <2>2 DEF TracesOf
<1> HIDE DEF F, read
<1> QED
  BY <1>3, <1>4, <1>5
-----------------------------------------------------------------------------
(***************************************************************************)
(* The invariant of the handlers.                                          *)
(***************************************************************************)
Shape == DOMAIN asked = Reads /\ DOMAIN result = Reads

\* A question that was accepted.
Posed(c) == WellFormed(asked[c]) /\ asked[c].num <= MaxNumTraces

\* A search that is under way has a question that was accepted.
QuestionsPosed ==
  \A c \in Reads : KindOf[c] \in Searches /\ reads[c] \in {"built", "reading", "answered"} =>
    Posed(c) /\ asked[c] \in Asks(c)

\* What was in the table when the call came is there when it asks.
SeenIsStored == \A c \in Reads : reads[c] = "built" => seen[c] \subseteq stored

\* What a search returns is decided by its query.
MissedNone(c) ==
  LET q == asked[c]
      T == IF KindOf[c] = "FindTraces" THEN TracesOf(result[c]) ELSE result[c]
  IN  /\ q.max = 0
      /\ KindOf[c] = "FindTraceIDs" => \A t \in q.tags : Dotless[t.key] = t.key
      /\ Cardinality(T) < IF q.num = 0 THEN DefaultNumTraces ELSE q.num
      => \A s \in seen[c] : Matches(q, s) /\ ~Borderline(q, s) => s.trace \in T

NothingMissed ==
  \A c \in Reads : reads[c] \in {"reading", "answered"} /\ KindOf[c] \in Searches => MissedNone(c)

ReaderInv == ReaderTypeOK /\ Shape /\ QuestionsPosed /\ SeenIsStored /\ NothingMissed

\* Initially nothing was asked.
LEMMA ReaderInitInv == ReaderInit => ReaderInv
  BY TableAssumption
  DEF ReaderInit, ReaderInv, ReaderTypeOK, Shape, QuestionsPosed, SeenIsStored, NothingMissed

\* What a call asks is fixed by its question; searches ask what was validated.
LEMMA AcceptedQuestion ==
  ASSUME NEW c \in Reads, KindOf[c] \in Searches, NEW a \in Asks(c)
  PROVE  WellFormed(a) /\ a.num <= MaxNumTraces
<1>1. PICK q \in Questions[c] : a = Capped(q)
  BY DEF Asks
<1>2. WellFormed(q)
  BY TableAssumption
<1> QED
  BY <1>1, <1>2, CappedQuestion

\* A query returns spans or traces that are in the table.
LEMMA ResultType ==
  ASSUME NEW c \in Reads, KindOf[c] \in Searches => Posed(c),
         NEW S \in SUBSET Spans, NEW R \in Results(c, asked[c], S)
  PROVE  R \in (SUBSET Spans) \cup (SUBSET Traces)
<1>1. CASE KindOf[c] = "FindTraces"
  <2>1. R \in FindTraces(asked[c], S)
    BY <1>1 DEF Results
  <2> QED
    BY <1>1, <2>1, TracesFound DEF Posed, Searches
<1>2. CASE KindOf[c] = "FindTraceIDs"
  <2>1. R \in FindTraceIDs(asked[c], S)
    BY <1>2 DEF Results
  <2>2. R \subseteq TracesOf(S)
    BY <1>2, <2>1, TraceIDsFound DEF Posed, Searches
  <2>3. TracesOf(S) \subseteq Traces
    BY DEF TracesOf, Traces
  <2> QED
    BY <2>2, <2>3
<1>3. CASE KindOf[c] = "GetTrace"
  <2>1. R = {s \in S : s.trace = asked[c]}
    BY <1>3 DEF Results
  <2> QED
    BY <2>1
<1>4. CASE KindOf[c] \notin {"FindTraces", "FindTraceIDs", "GetTrace"}
  <2>1. R = {}
    BY <1>4 DEF Results
  <2> QED
    BY <2>1
<1> QED
  BY <1>1, <1>2, <1>3, <1>4

\* A query misses no trace that was in the table when its call came.
LEMMA QueryMissesNone ==
  ASSUME NEW c \in Reads, KindOf[c] \in Searches, Posed(c), DOMAIN result = Reads,
         stored \in SUBSET Spans, seen[c] \subseteq stored,
         NEW R \in Results(c, asked[c], stored), result' = [result EXCEPT ![c] = R],
         UNCHANGED <<asked, seen>>
  PROVE  MissedNone(c)'
<1>1. result'[c] = R /\ WellFormed(asked[c])
  BY DEF Posed
<1> SUFFICES ASSUME asked[c].max = 0, NEW s \in seen[c],
                    Matches(asked[c], s), ~Borderline(asked[c], s),
                    KindOf[c] = "FindTraceIDs" => \A t \in asked[c].tags : Dotless[t.key] = t.key,
                    Cardinality(IF KindOf[c] = "FindTraces" THEN TracesOf(R) ELSE R) < Wanted(asked[c])
             PROVE  s.trace \in IF KindOf[c] = "FindTraces" THEN TracesOf(R) ELSE R
  BY <1>1 DEF MissedNone, Wanted
<1>2. s \in stored /\ s \in Spans
  OBVIOUS
<1>3. CASE KindOf[c] = "FindTraces"
  <2>1. R \in FindTraces(asked[c], stored)
    BY <1>3 DEF Results
  <2>2. \A t \in asked[c].tags : Same[t.key] = t.key
    BY <1>1 DEF WellFormed, Same
  <2>3. Filter(asked[c], Same, s)
    BY <1>1, <1>2, <2>2, MatchesFilter
  <2> QED
    BY <1>1, <1>2, <1>3, <2>1, <2>3, TracesFound
<1>4. CASE KindOf[c] = "FindTraceIDs"
  <2>1. R \in FindTraceIDs(asked[c], stored)
    BY <1>4 DEF Results
  <2>2. Filter(asked[c], Dotless, s)
    BY <1>1, <1>2, <1>4, MatchesFilter
  <2> QED
    BY <1>1, <1>2, <1>4, <2>1, <2>2, TraceIDsFound
<1> QED
  BY <1>3, <1>4 DEF Searches

\* A step that leaves the queries and their answers alone keeps the invariant
\* when it starts no call and stores what was stored.
LEMMA ReaderFrame ==
  ASSUME ReaderInv, ReaderTypeOK', stored \subseteq stored', UNCHANGED <<asked, seen, result>>,
         \A c \in Reads :
           /\ reads'[c] = "built" => reads[c] = "built"
           /\ reads'[c] \in {"reading", "answered"} => reads[c] \in {"reading", "answered"}
  PROVE  ReaderInv'
<1>1. Shape' /\ QuestionsPosed'
  BY DEF ReaderInv, Shape, QuestionsPosed, Posed, Asks
<1>2. SeenIsStored'
  BY DEF ReaderInv, SeenIsStored
<1>3. NothingMissed'
  BY DEF ReaderInv, NothingMissed, MissedNone
<1> QED
  BY <1>1, <1>2, <1>3 DEF ReaderInv

\* Every step keeps the invariant: the table only grows, a question is asked
\* once, and the query that answers it finds what was there before.
LEMMA ReaderStep == ReaderInv /\ [ReaderNext]_readerVars => ReaderInv'
<1> SUFFICES ASSUME ReaderInv, [ReaderNext]_readerVars PROVE ReaderInv'
  OBVIOUS
<1> USE DEF Goto
<1>0. ReaderTypeOK /\ Shape /\ QuestionsPosed /\ SeenIsStored /\ NothingMissed
  BY DEF ReaderInv
<1>1. ASSUME NEW c \in Reads, Reject(c) PROVE ReaderInv'
  <2>1. ReaderTypeOK'
    BY <1>0, <1>1 DEF Reject, ReaderTypeOK, Asks
  <2> QED
    BY <1>0, <1>1, <2>1, ReaderFrame DEF Reject, ReaderTypeOK
<1>2. ASSUME NEW c \in Reads, TurnAway(c) PROVE ReaderInv'
  <2>1. ReaderTypeOK'
    BY <1>0, <1>2 DEF TurnAway, ReaderTypeOK, Asks
  <2> QED
    BY <1>0, <1>2, <2>1, ReaderFrame DEF TurnAway, ReaderTypeOK
<1>3. ASSUME NEW c \in Reads, BuildOptions(c) PROVE ReaderInv'
  <2>1. PICK a \in Asks(c) : asked' = [asked EXCEPT ![c] = a]
    BY <1>3 DEF BuildOptions
  <2>2. /\ reads' = [reads EXCEPT ![c] = "built"] /\ seen' = [seen EXCEPT ![c] = stored]
        /\ spare' \in {spare, c} /\ own' \in [Reads -> BOOLEAN]
        /\ UNCHANGED <<stored, sentAs, result, up>>
    BY <1>0, <1>3 DEF BuildOptions, ReaderTypeOK
  <2>3. asked'[c] = a /\ \A d \in Reads \ {c} : asked'[d] = asked[d]
    BY <1>0, <2>1 DEF Shape
  <2>4. ReaderTypeOK'
    BY <1>0, <2>2, <2>3 DEF ReaderTypeOK, Asks
  <2>5. Shape'
    BY <1>0, <2>1, <2>2 DEF Shape
  <2>6. QuestionsPosed'
    BY <1>0, <2>2, <2>3, AcceptedQuestion DEF QuestionsPosed, Posed, Asks, ReaderTypeOK
  <2>7. SeenIsStored'
    BY <1>0, <2>2 DEF SeenIsStored, ReaderTypeOK
  <2>8. NothingMissed'
    BY <1>0, <2>2, <2>3 DEF NothingMissed, MissedNone, ReaderTypeOK
  <2> QED
    BY <2>4, <2>5, <2>6, <2>7, <2>8 DEF ReaderInv
<1>4. ASSUME NEW c \in Reads, Query(c) PROVE ReaderInv'
  <2>1. PICK R \in Results(c, asked[c], stored) : result' = [result EXCEPT ![c] = R]
    BY <1>4 DEF Query
  <2>2. /\ reads[c] = "built" /\ reads' = [reads EXCEPT ![c] = "reading"]
        /\ sentAs' \in [Reads -> Reads \cup {NoId}]
        /\ UNCHANGED <<stored, spare, own, asked, seen, up>>
    BY <1>0, <1>4 DEF Query, ReaderTypeOK
  <2>3. result'[c] = R /\ \A d \in Reads \ {c} : result'[d] = result[d]
    BY <1>0, <2>1 DEF Shape
  <2>4. stored \in SUBSET Spans /\ (KindOf[c] \in Searches => Posed(c))
    BY <1>0, <2>2 DEF ReaderTypeOK, QuestionsPosed
  <2>5. R \in (SUBSET Spans) \cup (SUBSET Traces)
    BY <2>4, ResultType
  <2>6. ReaderTypeOK'
    BY <1>0, <2>2, <2>3, <2>5 DEF ReaderTypeOK, Asks
  <2>7. Shape' /\ QuestionsPosed' /\ SeenIsStored'
    BY <1>0, <2>1, <2>2 DEF Shape, QuestionsPosed, Posed, Asks, SeenIsStored, ReaderTypeOK
  <2>8. KindOf[c] \in Searches => MissedNone(c)'
    BY <1>0, <2>1, <2>2, <2>4, QueryMissesNone DEF Shape, SeenIsStored
  <2>9. NothingMissed'
    BY <1>0, <2>2, <2>3, <2>8 DEF NothingMissed, MissedNone, ReaderTypeOK
  <2> QED
    BY <2>6, <2>7, <2>9 DEF ReaderInv
<1>5. ASSUME NEW c \in Reads, QueryFails(c) PROVE ReaderInv'
  <2>1. ReaderTypeOK'
    BY <1>0, <1>5 DEF QueryFails, ReaderTypeOK, Asks
  <2> QED
    BY <1>0, <1>5, <2>1, ReaderFrame DEF QueryFails, ReaderTypeOK
<1>6. ASSUME NEW c \in Reads, EndOfRows(c) PROVE ReaderInv'
  <2>1. ReaderTypeOK'
    BY <1>0, <1>6 DEF EndOfRows, ReaderTypeOK, Asks
  <2> QED
    BY <1>0, <1>6, <2>1, ReaderFrame DEF EndOfRows, ReaderTypeOK
<1>7. ASSUME NEW c \in Reads, PanicOnSpanKind(c) PROVE ReaderInv'
  <2>1. ReaderTypeOK'
    BY <1>0, <1>7 DEF PanicOnSpanKind, ReaderTypeOK, Asks
  <2> QED
    BY <1>0, <1>7, <2>1, ReaderFrame DEF PanicOnSpanKind, ReaderTypeOK
<1>8. ASSUME NEW s \in Spans, Ingest(s) PROVE ReaderInv'
  <2>1. ReaderTypeOK'
    BY <1>0, <1>8 DEF Ingest, ReaderTypeOK, Asks
  <2> QED
    BY <1>0, <1>8, <2>1, ReaderFrame DEF Ingest
<1>9. CASE RestartReader
  <2>1. ReaderTypeOK'
    BY <1>0, <1>9 DEF RestartReader, ReaderTypeOK, Asks
  <2> QED
    BY <1>0, <1>9, <2>1, ReaderFrame DEF RestartReader
<1>10. CASE UNCHANGED readerVars
  <2>1. ReaderTypeOK'
    BY <1>0, <1>10 DEF readerVars, ReaderTypeOK, Asks
  <2> QED
    BY <1>0, <1>10, <2>1, ReaderFrame DEF readerVars
<1> QED
  BY <1>1, <1>2, <1>3, <1>4, <1>5, <1>6, <1>7, <1>8, <1>9, <1>10 DEF ReaderNext, Handler

\* The invariant contains what the run checks of both searches.
LEMMA InvMissesNothing == ReaderInv => SearchMissesNothing
  BY DEF ReaderInv, NothingMissed, MissedNone, SearchMissesNothing

\* The table is one of spans, so the two searches agree on it.
LEMMA InvSearchesAgree == ReaderInv => SearchesAgree
  BY SameTracesFound, TableAssumption DEF ReaderInv, ReaderTypeOK, SearchesAgree
-----------------------------------------------------------------------------
(***************************************************************************)
(* What FindTraces returns, when no question sets a maximal duration.      *)
(***************************************************************************)
NoMaximum == \A c \in Reads : \A q \in Questions[c] : q.max = 0

FoundMatching(c) ==
  LET q == asked[c]
      T == TracesOf(result[c])
  IN  /\ Cardinality(T) <= IF q.num = 0 THEN DefaultNumTraces ELSE q.num
      /\ Cardinality(T) <= MaxNumTraces
      /\ \A t \in T : \E s \in result[c] : s.trace = t /\ Matches(q, s)

FindsMatching ==
  \A c \in Reads : reads[c] \in {"reading", "answered"} /\ KindOf[c] = "FindTraces" =>
    FoundMatching(c)

\* A query finds traces that the question describes, and no more than it may.
LEMMA QueryFindsMatching ==
  ASSUME NoMaximum, ReaderInv, NEW c \in Reads, KindOf[c] = "FindTraces", Query(c)
  PROVE  FoundMatching(c)'
<1>1. PICK R \in Results(c, asked[c], stored) : result' = [result EXCEPT ![c] = R]
  BY DEF Query
<1>2. /\ result'[c] = R /\ asked' = asked /\ stored \in SUBSET Spans
      /\ Posed(c) /\ asked[c] \in Asks(c) /\ KindOf[c] \in Searches
  BY <1>1 DEF Query, ReaderInv, ReaderTypeOK, Shape, QuestionsPosed, Searches
<1>3. asked[c].max = 0
  <2>1. PICK q \in Questions[c] : asked[c] = Capped(q)
    BY <1>2 DEF Asks
  <2> QED
    BY <2>1, TableAssumption, CappedQuestion DEF NoMaximum
<1>4. R \in FindTraces(asked[c], stored)
  BY DEF Results
<1>5. /\ R \subseteq Spans
      /\ Cardinality(TracesOf(R)) <= Wanted(asked[c])
      /\ \A t \in TracesOf(R) : \E s \in R : s.trace = t /\ Filter(asked[c], Same, s)
  BY <1>2, <1>4, TracesFound DEF Posed
<1>6. \A t \in TracesOf(R) : \E s \in R : s.trace = t /\ Matches(asked[c], s)
  BY <1>2, <1>3, <1>5, FilterMatches DEF Posed
<1>7. Cardinality(TracesOf(R)) \in Nat /\ Wanted(asked[c]) \in Nat
      /\ Wanted(asked[c]) <= MaxNumTraces
  BY <1>2, <1>5, TracesFinite, FS_CardinalityType, LimitsAssumption
  DEF Posed, Wanted, WellFormed
<1>8. Cardinality(TracesOf(R)) <= MaxNumTraces
  BY <1>5, <1>7, LimitsAssumption
<1> QED
  BY <1>2, <1>5, <1>6, <1>8 DEF FoundMatching, Wanted

\* Only a query can change what a call has found, and only for itself.
LEMMA FindsStep ==
  ASSUME NoMaximum
  PROVE  ReaderInv /\ FindsMatching /\ [ReaderNext]_readerVars => FindsMatching'
<1> SUFFICES ASSUME ReaderInv, FindsMatching, [ReaderNext]_readerVars PROVE FindsMatching'
  OBVIOUS
<1> USE DEF Goto
<1>1. /\ DOMAIN asked = Reads /\ DOMAIN result = Reads
      /\ reads \in [Reads ->
                      {"new", "built", "reading", "answered", "failed", "dropped"}]
  BY DEF ReaderInv, ReaderTypeOK, Shape
<1>2. ASSUME NEW c \in Reads, BuildOptions(c) PROVE FindsMatching'
  <2>1. /\ reads' = [reads EXCEPT ![c] = "built"] /\ result' = result
        /\ \A d \in Reads \ {c} : asked'[d] = asked[d]
    BY <1>1, <1>2 DEF BuildOptions
  <2> QED
    BY <1>1, <2>1 DEF FindsMatching, FoundMatching
<1>3. ASSUME NEW c \in Reads, Query(c) PROVE FindsMatching'
  <2>1. /\ reads' = [reads EXCEPT ![c] = "reading"] /\ asked' = asked
        /\ \A d \in Reads \ {c} : result'[d] = result[d]
    BY <1>1, <1>3 DEF Query
  <2>2. KindOf[c] = "FindTraces" => FoundMatching(c)'
    BY <1>3, QueryFindsMatching
  <2> QED
    BY <1>1, <2>1, <2>2 DEF FindsMatching, FoundMatching
<1>4. ASSUME UNCHANGED <<asked, result>>,
             \A c \in Reads : reads'[c] \in {"reading", "answered"} =>
                                reads[c] \in {"reading", "answered"}
      PROVE  FindsMatching'
  BY <1>4 DEF FindsMatching, FoundMatching
<1>5. ASSUME NEW c \in Reads, Reject(c) PROVE FindsMatching'
  BY <1>1, <1>4, <1>5 DEF Reject
<1>6. ASSUME NEW c \in Reads, TurnAway(c) PROVE FindsMatching'
  BY <1>1, <1>4, <1>6 DEF TurnAway
<1>7. ASSUME NEW c \in Reads, QueryFails(c) PROVE FindsMatching'
  BY <1>1, <1>4, <1>7 DEF QueryFails
<1>8. ASSUME NEW c \in Reads, EndOfRows(c) PROVE FindsMatching'
  BY <1>1, <1>4, <1>8 DEF EndOfRows
<1>9. ASSUME NEW c \in Reads, PanicOnSpanKind(c) PROVE FindsMatching'
  BY <1>1, <1>4, <1>9 DEF PanicOnSpanKind
<1>10. ASSUME NEW s \in Spans, Ingest(s) PROVE FindsMatching'
  BY <1>4, <1>10 DEF Ingest
<1>11. CASE RestartReader
  BY <1>4, <1>11 DEF RestartReader
<1>12. CASE UNCHANGED readerVars
  BY <1>4, <1>12 DEF readerVars
<1> QED
  BY <1>2, <1>3, <1>5, <1>6, <1>7, <1>8, <1>9, <1>10, <1>11, <1>12
  DEF ReaderNext, Handler

\* What has been found when the call is answered is what the run checks.
LEMMA FindsIsSearch == FindsMatching => SearchFindsMatching
  BY DEF FindsMatching, FoundMatching, SearchFindsMatching
-----------------------------------------------------------------------------
(***************************************************************************)
(* The promise of SpanReads.  The query of a call is its one look at the   *)
(* table: what a call is reading is an answer for a table between the one  *)
(* it has seen and the one there is.                                       *)
(***************************************************************************)
OneLook(c) ==
    \E T \in SUBSET stored : seen[c] \subseteq T /\ result[c] \in Results(c, asked[c], T)

LooksOnce == \A c \in Reads : reads[c] = "reading" => OneLook(c)

\* A call whose result stands keeps its table, since no span goes away.
LEMMA LookKept ==
  ASSUME NEW c \in Reads, OneLook(c), stored \subseteq stored',
         seen'[c] = seen[c], result'[c] = result[c], asked'[c] = asked[c]
  PROVE  OneLook(c)'
<1>1. PICK T \in SUBSET stored : seen[c] \subseteq T /\ result[c] \in Results(c, asked[c], T)
  BY DEF OneLook
<1>2. result'[c] \in Results(c, asked'[c], T)
  BY <1>1
<1> QED
  BY <1>1, <1>2 DEF OneLook

\* Every step leaves a call that is reading one table to have read.
LEMMA LookStep == ReaderInv /\ LooksOnce /\ [ReaderNext]_readerVars => LooksOnce'
<1> SUFFICES ASSUME ReaderInv, LooksOnce, [ReaderNext]_readerVars PROVE LooksOnce'
  OBVIOUS
<1> USE DEF Goto
<1>1. /\ DOMAIN asked = Reads /\ DOMAIN result = Reads /\ seen \in [Reads -> SUBSET Spans]
      /\ reads \in [Reads ->
                      {"new", "built", "reading", "answered", "failed", "dropped"}]
  BY DEF ReaderInv, ReaderTypeOK, Shape
<1>2. ASSUME NEW c \in Reads, BuildOptions(c) PROVE LooksOnce'
  <2>1. /\ reads' = [reads EXCEPT ![c] = "built"] /\ stored' = stored /\ result' = result
        /\ \A d \in Reads \ {c} : asked'[d] = asked[d] /\ seen'[d] = seen[d]
    BY <1>1, <1>2 DEF BuildOptions
  <2> QED
    BY <1>1, <2>1, LookKept DEF LooksOnce
<1>3. ASSUME NEW c \in Reads, Query(c) PROVE LooksOnce'
  <2>1. /\ reads[c] = "built" /\ reads' = [reads EXCEPT ![c] = "reading"]
        /\ UNCHANGED <<stored, asked, seen>>
        /\ \A d \in Reads \ {c} : result'[d] = result[d]
    BY <1>1, <1>3 DEF Query
  <2>2. PICK R \in Results(c, asked[c], stored) : result' = [result EXCEPT ![c] = R]
    BY <1>3 DEF Query
  <2>3. result'[c] \in Results(c, asked'[c], stored)
    BY <1>1, <2>1, <2>2
  <2>4. OneLook(c)'
    BY <2>1, <2>3 DEF OneLook, ReaderInv, SeenIsStored
  <2> QED
    BY <1>1, <2>1, <2>4, LookKept DEF LooksOnce
<1>4. ASSUME UNCHANGED <<asked, seen, result>>, stored \subseteq stored',
             \A c \in Reads : reads'[c] = "reading" => reads[c] = "reading"
      PROVE  LooksOnce'
  BY <1>4, LookKept DEF LooksOnce
<1>5. ASSUME NEW c \in Reads,
             \/ Reject(c) \/ TurnAway(c) \/ QueryFails(c) \/ EndOfRows(c) \/ PanicOnSpanKind(c)
      PROVE  LooksOnce'
  BY <1>1, <1>4, <1>5 DEF Reject, TurnAway, QueryFails, EndOfRows, PanicOnSpanKind
<1>6. ASSUME NEW s \in Spans, Ingest(s) PROVE LooksOnce'
  BY <1>4, <1>6 DEF Ingest
<1>7. CASE RestartReader \/ UNCHANGED readerVars
  BY <1>4, <1>7 DEF RestartReader, readerVars
<1> QED
  BY <1>2, <1>3, <1>5, <1>6, <1>7 DEF ReaderNext, Handler

\* Every step of the reader is one of the promise, or the client sees nothing
\* of it.
LEMMA PromiseStep ==
  ASSUME ReaderInv, LooksOnce, [ReaderNext]_readerVars
  PROVE  [Promise!Next]_(Promise!vars)
<1> USE DEF Goto
<1> DEFINE status == [c \in Reads |-> Status(c)]
           answers == [c \in Reads |-> IF reads[c] = "answered" THEN result[c] ELSE {}]
<1>1. /\ DOMAIN asked = Reads /\ DOMAIN result = Reads /\ seen \in [Reads -> SUBSET Spans]
      /\ reads \in [Reads ->
                      {"new", "built", "reading", "answered", "failed", "dropped"}]
  BY DEF ReaderInv, ReaderTypeOK, Shape
<1>2. ASSUME NEW c \in Reads, BuildOptions(c) PROVE Promise!Ask(c)
  <2>1. /\ reads[c] = "new" /\ reads' = [reads EXCEPT ![c] = "built"]
        /\ \E q \in Asks(c) : asked' = [asked EXCEPT ![c] = q]
        /\ seen' = [seen EXCEPT ![c] = stored] /\ UNCHANGED <<stored, result>>
    BY <1>2 DEF BuildOptions
  <2>2. status[c] = "new" /\ status' = [status EXCEPT ![c] = "open"]
    BY <1>1, <2>1 DEF Status
  <2>3. answers' = answers
    BY <1>1, <2>1
  <2> QED
    BY <2>1, <2>2, <2>3 DEF Promise!Ask
<1>f. ASSUME NEW C \in SUBSET Reads, UNCHANGED <<stored, asked, seen, result>>,
             \A c \in C : reads[c] \in {"new", "built", "reading"},
             \A c \in Reads : IF c \in C THEN reads'[c] \in {"failed", "dropped"}
                              ELSE reads'[c] = reads[c]
      PROVE  Promise!Fail(C)
  <2>1. /\ \A c \in C : status[c] \in {"new", "open"}
        /\ status' = [c \in Reads |-> IF c \in C THEN "failed" ELSE status[c]]
    BY <1>1, <1>f DEF Status
  <2>2. answers' = answers
    BY <1>1, <1>f
  <2> QED
    BY <1>f, <2>1, <2>2 DEF Promise!Fail
<1>3. ASSUME NEW c \in Reads, Reject(c) \/ TurnAway(c) \/ QueryFails(c)
      PROVE  Promise!Fail({c})
  BY <1>1, <1>3, <1>f DEF Reject, TurnAway, QueryFails
<1>4. ASSUME NEW c \in Reads, PanicOnSpanKind(c)
      PROVE  \E C \in SUBSET Reads : Promise!Fail(C)
  <2> DEFINE C == {d \in Reads : d = c \/ reads[d] \in {"built", "reading"}}
  <2>1. Promise!Fail(C)
    BY <1>1, <1>4, <1>f DEF PanicOnSpanKind
  <2> QED
    BY <2>1
<1>5. ASSUME NEW c \in Reads, EndOfRows(c) PROVE Promise!Answer(c) \/ Promise!Fail({c})
  <2>1. /\ reads[c] = "reading" /\ UNCHANGED <<stored, asked, seen, result>>
    BY <1>5 DEF EndOfRows
  <2>2. CASE Goto(c, "failed")
    BY <1>1, <1>f, <2>1, <2>2
  <2>3. CASE Goto(c, "answered")
    <3>1. PICK T \in SUBSET stored : seen[c] \subseteq T /\ result[c] \in Results(c, asked[c], T)
      BY <2>1 DEF LooksOnce, OneLook
    <3>2. status[c] = "open" /\ status' = [status EXCEPT ![c] = "answered"]
      BY <1>1, <2>1, <2>3 DEF Status
    <3>3. answers' = [answers EXCEPT ![c] = result[c]]
      BY <1>1, <2>1, <2>3
    <3> QED
      BY <2>1, <3>1, <3>2, <3>3 DEF Promise!Answer
  <2> QED
    BY <1>5, <2>2, <2>3 DEF EndOfRows
<1>6. ASSUME NEW s \in Spans, Ingest(s) PROVE Promise!Store(s)
  BY <1>6 DEF Ingest, Promise!Store, Status
<1>7. ASSUME NEW c \in Reads, Query(c) PROVE UNCHANGED Promise!vars
  <2>1. /\ reads[c] = "built" /\ reads' = [reads EXCEPT ![c] = "reading"]
        /\ UNCHANGED <<stored, asked, seen>>
        /\ \A d \in Reads \ {c} : result'[d] = result[d]
    BY <1>1, <1>7 DEF Query
  <2>2. status' = status /\ answers' = answers
    BY <1>1, <2>1 DEF Status
  <2> QED
    BY <2>1, <2>2 DEF Promise!vars
<1>8. CASE RestartReader \/ UNCHANGED readerVars
  BY <1>8 DEF RestartReader, readerVars, Promise!vars, Status
<1> QED
  BY <1>2, <1>3, <1>4, <1>5, <1>6, <1>7, <1>8
  DEF ReaderNext, Handler, Promise!Next

\* Nothing is asked in the beginning.
LEMMA PromiseInit == ReaderInit => Promise!Init /\ LooksOnce
  BY DEF ReaderInit, Promise!Init, LooksOnce, Status
-----------------------------------------------------------------------------
(***************************************************************************)
(* Client request ids, when one of the two flags is not set.               *)
(***************************************************************************)
\* The array of the shared slice is full then (one or two options in an array
\* of that size), so that every append copies it: one append of one option
\* makes 1 of 1, two make 2 of 2, but three make 3 of 4.
LEMMA FullArrayCopies ==
  ASSUME ~(ReadNoTruncation /\ ReadNoTimeout), NEW kind \in Kinds
  PROVE  ~Aliased(kind)
  BY FlagsAssumption DEF Aliased, DefaultLen, Count, GrownCap, Appended

\* Options that are built and not yet sent belong to the call alone.
OptionsOwned == \A c \in Reads : reads[c] = "built" => own[c]

\* Every query goes out with the id of its own options.
LEMMA OwnIdStep ==
  ASSUME ~(ReadNoTruncation /\ ReadNoTimeout)
  PROVE  /\ ReaderTypeOK /\ OptionsOwned /\ OwnRequestId /\ [ReaderNext]_readerVars
         => OptionsOwned' /\ OwnRequestId'
<1> SUFFICES ASSUME ReaderTypeOK, OptionsOwned, OwnRequestId, [ReaderNext]_readerVars
             PROVE  OptionsOwned' /\ OwnRequestId'
  OBVIOUS
<1> USE DEF Goto, OptionsOwned, OwnRequestId
<1>1. /\ own \in [Reads -> BOOLEAN] /\ sentAs \in [Reads -> Reads \cup {NoId}]
      /\ reads \in [Reads ->
                      {"new", "built", "reading", "answered", "failed", "dropped"}]
  BY DEF ReaderTypeOK
<1>2. ASSUME NEW c \in Reads, Reject(c) PROVE OptionsOwned' /\ OwnRequestId'
  BY <1>1, <1>2 DEF Reject
<1>3. ASSUME NEW c \in Reads, TurnAway(c) PROVE OptionsOwned' /\ OwnRequestId'
  BY <1>1, <1>3 DEF TurnAway
<1>4. ASSUME NEW c \in Reads, BuildOptions(c) PROVE OptionsOwned' /\ OwnRequestId'
  <2>1. ~Aliased(KindOf[c])
    BY KindsAssumption, FullArrayCopies
  <2> QED
    BY <1>1, <1>4, <2>1 DEF BuildOptions
<1>5. ASSUME NEW c \in Reads, Query(c) PROVE OptionsOwned' /\ OwnRequestId'
  BY <1>1, <1>5 DEF Query
<1>6. ASSUME NEW c \in Reads, QueryFails(c) PROVE OptionsOwned' /\ OwnRequestId'
  BY <1>1, <1>6 DEF QueryFails
<1>7. ASSUME NEW c \in Reads, EndOfRows(c) PROVE OptionsOwned' /\ OwnRequestId'
  BY <1>1, <1>7 DEF EndOfRows
<1>8. ASSUME NEW c \in Reads, PanicOnSpanKind(c) PROVE OptionsOwned' /\ OwnRequestId'
  BY <1>1, <1>8 DEF PanicOnSpanKind
<1>9. ASSUME NEW s \in Spans, Ingest(s) PROVE OptionsOwned' /\ OwnRequestId'
  BY <1>9 DEF Ingest
<1>10. CASE RestartReader
  BY <1>10 DEF RestartReader
<1>11. CASE UNCHANGED readerVars
  BY <1>11 DEF readerVars
<1> QED
  BY <1>2, <1>3, <1>4, <1>5, <1>6, <1>7, <1>8, <1>9, <1>10, <1>11
  DEF ReaderNext, Handler
=============================================================================
