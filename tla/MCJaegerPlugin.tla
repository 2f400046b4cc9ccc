--------------------------- MODULE MCJaegerPlugin ---------------------------
(***************************************************************************)
(* Instance of JaegerPlugin for TLC.                                       *)
(***************************************************************************)
EXTENDS JaegerPlugin, MCKustoReader

\* The two searches beside a call that ends the process.
SearchKinds ==
    (c1 :> "FindTraces") @@ (c2 :> "FindTraceIDs") @@ (c3 :> "GetOperationsOfKind")

\* By operation; by tags, by default and with a limit; by duration; more traces
\* than there may be; and a window that ends before it starts.
SearchQuestions ==
    (c1 :> {Question("cart", "list", {}, 1, 5, 0, 0, 0),
            Question("cart", "", {Tag("env", "demo"), Tag("http.method", "GET")}, 1, 5, 0, 0, 1),
            Question("", "", {}, 1, 9, 0, 0, 9),
            Question("cart", "", {}, 5, 1, 0, 0, 0)})
    @@ (c2 :> {Question("cart", "", {Tag("env", "demo")}, 1, 5, 3, 0, 1)})
    @@ (c3 :> {})

\* One span is still to be stored.
OldSpan == {s \in ThreeSpans : s.start # 2}
=============================================================================
