------------------------------- MODULE MCOtelSpans -------------------------------
(* The run of two instrumentations, with its events as the stream's, and the     *)
(* trace tab that shows its spans.                                               *)
EXTENDS Timeline

EventValue ==
    [type : {"run:start", "step:start", "system:start", "system:end", "system:error",
             "step:applied", "run:end", "run:reject"},
     step : 0 .. MaxSteps, of : Pair \cup {0}]

\* spanTreeRows hides nothing of what a broken exporter sends either: spans that are
\* their own parents or each other's, or that have one id.
ASSUME AnyInputIsShown ==
    \A parent \in [1 .. 3 -> 0 .. 3], id \in [1 .. 3 -> 2 .. 3] \cup {[i \in 1 .. 3 |-> i]} :
        LET sent == [i \in 1 .. 3 |->
                       [traceId |-> 1, spanId |-> id[i], parentSpanId |-> parent[i],
                        start |-> 4 - i, end |-> 4, error |-> FALSE]]
        IN Shows(SpanTreeRows(sent), sent)
==================================================================================
