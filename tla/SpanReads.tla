------------------------------ MODULE SpanReads ------------------------------
(***************************************************************************)
(* What the read path of the storage plugin promises to Jaeger: a table of *)
(* spans that only grows, and calls that each read it once.  An answered   *)
(* call has looked at one table, which held every span stored before the   *)
(* call and no span stored after the answer; it may fail instead, and then *)
(* it answers nothing.                                                     *)
(*                                                                         *)
(* There are no query options, no iterators, no validation and no process  *)
(* that dies here: KustoReader implements this with all of them.           *)
(***************************************************************************)

CONSTANTS
    Reads,        \* calls
    Spans,        \* spans that may be stored
    OldSpans,     \* those that are in the table from the start
    NoQuestion,   \* nothing was asked yet
    Asks(_),      \* the questions a call may ask
    Results(_, _, _)  \* what a call may be answered, by its question and a table

VARIABLES
    stored,   \* the table
    call,     \* [Reads -> "new", "open", "answered", "failed"]
    asked,    \* [Reads -> the question]
    before,   \* [Reads -> what was stored before the call]
    answer    \* [Reads -> the answer, nothing while there is none]

vars == <<stored, call, asked, before, answer>>

Init ==
    /\ stored = OldSpans
    /\ call = [c \in Reads |-> "new"]
    /\ asked = [c \in Reads |-> NoQuestion]
    /\ before = [c \in Reads |-> {}]
    /\ answer = [c \in Reads |-> {}]

Store(s) ==
    /\ stored' = stored \cup {s}
    /\ UNCHANGED <<call, asked, before, answer>>

Ask(c) ==
    /\ call[c] = "new"
    /\ call' = [call EXCEPT ![c] = "open"]
    /\ \E q \in Asks(c) : asked' = [asked EXCEPT ![c] = q]
    /\ before' = [before EXCEPT ![c] = stored]
    /\ UNCHANGED <<stored, answer>>

Answer(c) ==
    /\ call[c] = "open"
    /\ call' = [call EXCEPT ![c] = "answered"]
    /\ \E T \in SUBSET stored :
          /\ before[c] \subseteq T
          /\ \E R \in Results(c, asked[c], T) : answer' = [answer EXCEPT ![c] = R]
    /\ UNCHANGED <<stored, asked, before>>

\* Calls may fail together, but none that was answered.
Fail(C) ==
    /\ \A c \in C : call[c] \in {"new", "open"}
    /\ call' = [c \in Reads |-> IF c \in C THEN "failed" ELSE call[c]]
    /\ UNCHANGED <<stored, asked, before, answer>>

Next ==
    \/ \E s \in Spans : Store(s)
    \/ \E c \in Reads : Ask(c) \/ Answer(c)
    \/ \E C \in SUBSET Reads : Fail(C)

Spec == Init /\ [][Next]_vars
=============================================================================
