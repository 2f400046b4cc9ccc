--------------------------- MODULE MCKustoReader ----------------------------
(***************************************************************************)
(* Instances of KustoReader for TLC.                                       *)
(***************************************************************************)
EXTENDS KustoReader, TLC

CONSTANTS c1, c2, c3, c4, t1, t2

\* Two handlers that append one option, one that appends two, and one that is
\* asked for a span kind.
MixedKinds ==
    (c1 :> "GetServices") @@ (c2 :> "GetOperations")
    @@ (c3 :> "FindTraces") @@ (c4 :> "GetOperationsOfKind")
OneSearch == (c1 :> "FindTraces")

Tag(k, v) == [key |-> k, value |-> v]
Keys == [k \in {"http.method", "http_method", "env"} |->
           IF k = "http.method" THEN "http_method" ELSE k]

Span(t, svc, name, start, duration, tags) ==
    [trace |-> t, service |-> svc, name |-> name, start |-> start,
     duration |-> duration, tags |-> tags]

\* A trace of two services with one span after the window, and another trace.
ThreeSpans ==
    {Span(t1, "cart", "add", 2, 4, {Tag("env", "demo"), Tag("http.method", "POST")}),
     Span(t1, "product", "stock", 7, 1, {Tag("env", "demo")}),
     Span(t2, "cart", "list", 3, 2, {Tag("env", "demo"), Tag("http.method", "GET")})}

Question(svc, name, tags, from, to, min, max, num) ==
    [service |-> svc, operation |-> name, tags |-> tags, from |-> from, to |-> to,
     min |-> min, max |-> max, num |-> num]

\* One search for each call: traces with a duration from one to three.
OneQuestion == [c \in Reads |-> {Question("cart", "", {}, 1, 5, 1, 3, 0)}]
=============================================================================
