----------------------------- MODULE TraceQuery ------------------------------
(***************************************************************************)
(* The searches of the Jaeger storage plugin: which parameters they accept *)
(* (store/queryUtils.go), the query that FindTraceIDs and FindTraces build *)
(* from them (store/reader.go), and what the parameters mean to Jaeger.    *)
(*                                                                         *)
(* A stored span is a record of its trace, service, name, start, duration  *)
(* and tags, the attributes of span and resource together.  A question     *)
(* has service, operation, tags, from and to (the window), min and max     *)
(* (durations), num (traces wanted).  NoName and 0 stand for what the      *)
(* question leaves open.  Kusto runs the query; it is external.            *)
(***************************************************************************)
EXTENDS Integers, FiniteSets

CONSTANTS
    NoName,            \* the empty string
    Dotless,           \* a tag key with "_" for each ".", for every key
    DefaultNumTraces,  \* 20
    MaxNumTraces       \* 500

ASSUME LimitsAssumption ==
    /\ DefaultNumTraces \in Nat \ {0} /\ MaxNumTraces \in Nat
    /\ DefaultNumTraces <= MaxNumTraces
-----------------------------------------------------------------------------
\* What a question is: times and durations are numbers of one unit, tags are
\* pairs.  A nil query (refused) and a negative limit are left out.
WellFormed(q) ==
    /\ DOMAIN q = {"service", "operation", "tags", "from", "to", "min", "max", "num"}
    /\ {q.from, q.to, q.min, q.max} \subseteq Int /\ q.num \in Nat
    /\ \A t \in q.tags : t.key \in DOMAIN Dotless /\ t = [key |-> t.key, value |-> t.value]

(***************************************************************************)
(* validateQuery.                                                          *)
(***************************************************************************)
Valid(q) ==
    /\ q.service = NoName => q.tags = {}
    /\ q.from # 0 /\ q.to # 0 /\ q.from <= q.to
    /\ q.min # 0 /\ q.max # 0 => q.min <= q.max

Capped(q) == [q EXCEPT !.num = IF @ > MaxNumTraces THEN MaxNumTraces ELSE @]
-----------------------------------------------------------------------------
(***************************************************************************)
(* The query, clause by clause.  Both bounds of the duration are compared  *)
(* in the same direction.                                                  *)
(***************************************************************************)
InWindow(q, s) == q.from < s.start /\ s.start < q.to

\* Mutation: the tags are alternatives.
HasAnyTag(q, column, s) ==
    q.tags # {} => \E t \in q.tags : [key |-> column[t.key], value |-> t.value] \in s.tags

HasTags(q, column, s) ==
    \A t \in q.tags : [key |-> column[t.key], value |-> t.value] \in s.tags

Filter(q, column, s) ==
    /\ q.service # NoName => s.service = q.service
    /\ q.operation # NoName => s.name = q.operation
    /\ HasTags(q, column, s)
    /\ InWindow(q, s)
    /\ q.min # 0 => s.duration > q.min
    /\ q.max # 0 => s.duration > q.max

TracesOf(spans) == {s.trace : s \in spans}

\* `| sample n': any n of them, or all there are.
Sample(T, n) ==
    {S \in SUBSET T : Cardinality(S) = n \/ (S = T /\ Cardinality(T) < n)}

\* FindTraceIDs looks for keys without dots and takes every trace by default.
FindTraceIDs(q, spans) ==
    LET T == TracesOf({s \in spans : Filter(q, Dotless, s)}) IN
    IF q.num = 0 THEN {T} ELSE Sample(T, q.num)

\* Mutation: the limit is applied before the filter.
FindTracesSampledFirst(q, spans) ==
    LET n == IF q.num = 0 THEN DefaultNumTraces ELSE q.num
        column == [k \in DOMAIN Dotless |-> k]
    IN  {{s \in spans : s.trace \in S /\ Filter(q, column, s)} :
            S \in Sample(TracesOf(spans), n)}

\* FindTraces takes the keys as they are, and the spans of the sampled traces
\* that start in the window.
FindTraces(q, spans) ==
    LET T == TracesOf({s \in spans : Filter(q, [k \in DOMAIN Dotless |-> k], s)})
        n == IF q.num = 0 THEN DefaultNumTraces ELSE q.num
    IN  {{s \in spans : s.trace \in S /\ InWindow(q, s)} : S \in Sample(T, n)}
-----------------------------------------------------------------------------
(***************************************************************************)
(* What the question means: Jaeger's spanstore.TraceQueryParameters.       *)
(***************************************************************************)
Matches(q, s) ==
    /\ q.service \in {NoName, s.service} /\ q.operation \in {NoName, s.name}
    /\ q.tags \subseteq s.tags
    /\ s.start \in q.from .. q.to
    /\ q.min # 0 => s.duration >= q.min
    /\ q.max # 0 => s.duration <= q.max

\* Spans that lie exactly on a bound may be missed.
Borderline(q, s) ==
    s.start \in {q.from, q.to} \/ (q.min # 0 /\ s.duration = q.min)
=============================================================================
