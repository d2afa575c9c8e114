-------------------------------- MODULE Timeline --------------------------------
(***************************************************************************)
(* OtelSpans with the trace tab of the devtools that shows the spans       *)
(* exported so far.                                                        *)
(***************************************************************************)
EXTENDS OtelSpans, SpanRows

ASSUME InstrumentsAreFinite == IsFiniteSet(Instrument)

\* Spans are exported when they end, and those of a pair before its step's, and
\* a step's before its run's.
Depth(s) == CASE s.kind = "run" -> 0 [] s.kind = "step" -> 1 [] s.kind = "system" -> 2
Sent(s) ==
    [traceId |-> s.by, spanId |-> s, parentSpanId |-> spans[s].parent,
     start |-> 2 * s.step + Depth(s), end |-> 2 * s.step + 2 - Depth(s),
     error |-> spans[s].error]
Ends == {s \in DOMAIN spans : spans[s].ends > 0}
Deepest(S) == CHOOSE s \in S : \A t \in S : Depth(t) <= Depth(s)
Exported ==
    LET list[n \in 0 .. Cardinality(Ends)] ==
            IF n = 0 THEN <<>>
            ELSE LET before == list[n - 1] IN Append(before, Deepest(Ends \ Range(before)))
        all == list[Cardinality(Ends)]
    IN [k \in DOMAIN all |-> Sent(all[k])]

\* Every span the exporter has sent is in one trace of the tab and in one row of its
\* tree, under its parent if that was sent, at the left margin only if it was not:
\* while a run goes on, when none of the run and step spans has ended, and after an
\* observer left in the middle of it.
TimelineShowsAll ==
    LET sent == Exported
        groups == GroupTraces(sent)
    IN
    /\ \A i, j \in DOMAIN groups : groups[i].traceId = groups[j].traceId => i = j
    /\ \A e \in DOMAIN sent :
          \E i \in DOMAIN groups : \E m \in DOMAIN groups[i].spans :
             \A j \in DOMAIN groups : \A n \in DOMAIN groups[j].spans :
                groups[j].spans[n] = sent[e] <=> j = i /\ n = m
    /\ \A i \in DOMAIN groups :
        LET list == groups[i].spans
            rows == SpanTreeRows(list)
        IN
        /\ \A m \in DOMAIN list : \E e \in DOMAIN sent : list[m] = sent[e]
        /\ Shows(rows, list)
        /\ \A k \in DOMAIN rows :
              rows[k].depth = 0 <=> list[rows[k].at].parentSpanId \notin Ids(list)
        /\ groups[i].hasError <=> \E k \in DOMAIN rows : list[rows[k].at].error
==================================================================================
