------------------------------ MODULE SpanRows ------------------------------
(***************************************************************************)
(* What the trace tab of the devtools makes of the spans it was sent       *)
(* (packages/devtools/ui/src/store.ts): groupTraces and spanTreeRows.      *)
(* They come in the order they ended, so parents arrive after their        *)
(* children, and some never.  A span is a record with traceId, spanId,     *)
(* parentSpanId, start, end and error; one is told from another by its     *)
(* position in the list, whatever its spanId.                              *)
(* X_Variant is X with a plausible defect; nothing uses it.                *)
(***************************************************************************)
EXTENDS Integers, Sequences, FiniteSets, FiniteSetsExt

Ids(spans) == {spans[i].spanId : i \in DOMAIN spans}

\* Array.sort: positions by their keys, and as they are where the keys are equal.
Earlier(i, j, key) == key[i] < key[j] \/ (key[i] = key[j] /\ i < j)
InOrder(S, key) ==
    LET rank == [i \in S |-> Cardinality({j \in S : Earlier(j, i, key)})]
    IN [k \in 1 .. Cardinality(S) |-> CHOOSE i \in S : rank[i] = k - 1]

ByStart(S, spans) == InOrder(S, [i \in S |-> spans[i].start])

\* Without a parent in the list a span is a root, and so is its own parent.
IsRoot_Declared(i, spans) == spans[i].parentSpanId = spans[i].spanId
IsRoot(i, spans) ==
    spans[i].parentSpanId = spans[i].spanId \/ spans[i].parentSpanId \notin Ids(spans)

IsChild(i, parent, spans) ==
    ~IsRoot(i, spans) /\ spans[i].parentSpanId = spans[parent].spanId

AtDepth(list, d) == [k \in DOMAIN list |-> [at |-> list[k], depth |-> d]]
Roots(spans) == AtDepth(ByStart({i \in DOMAIN spans : IsRoot(i, spans)}, spans), 0)
Children(row, spans) ==
    AtDepth(ByStart({i \in DOMAIN spans : IsChild(i, row.at, spans)}, spans), row.depth + 1)

\* One call of visit: a span that has a row is passed over.
Visit(walk, spans) ==
    LET next == Head(walk.left) IN
    IF walk.left = <<>> THEN walk
    ELSE IF \E k \in DOMAIN walk.rows : walk.rows[k].at = next.at
    THEN [rows |-> walk.rows, left |-> Tail(walk.left)]
    ELSE [rows |-> Append(walk.rows, next),
          left |-> Children(next, spans) \o Tail(walk.left)]

\* Depth first from the roots, then from whatever is in no root's tree.
Unvisited(spans) ==
    [rows |-> <<>>, left |-> Roots(spans) \o AtDepth([i \in DOMAIN spans |-> i], 0)]

\* Each span is visited for the list, at most once as a root, and once below every
\* span whose children are.
Visits(spans) == Len(spans) * (Len(spans) + 2)

SpanTreeRows(spans) ==
    LET walk[n \in 0 .. Visits(spans)] ==
            IF n = 0 THEN Unvisited(spans) ELSE Visit(walk[n - 1], spans)
    IN walk[Visits(spans)].rows

-----------------------------------------------------------------------------
\* The trace of the span at i.
Group(i, spans) ==
    LET mine == {j \in DOMAIN spans : spans[j].traceId = spans[i].traceId}
        order == InOrder(mine, [j \in mine |-> j])
        list == [k \in DOMAIN order |-> spans[order[k]]]
        orphans == {k \in DOMAIN list : list[k].parentSpanId \notin Ids(list)}
    IN [traceId |-> spans[i].traceId,
        spans |-> list,
        root |-> IF orphans = {} THEN list[1] ELSE list[ByStart(orphans, list)[1]],
        end |-> Max({list[1].start} \cup {list[k].end : k \in DOMAIN list}),
        hasError |-> \E k \in DOMAIN list : list[k].error]

\* The traces, the one that ended last first.
GroupTraces(spans) ==
    LET firsts == {i \in DOMAIN spans :
                      \A j \in 1 .. i - 1 : spans[j].traceId # spans[i].traceId}
        groups == [i \in firsts |-> Group(i, spans)]
        order == InOrder(firsts, [i \in firsts |-> -groups[i].end])
    IN [k \in DOMAIN order |-> groups[order[k]]]

-----------------------------------------------------------------------------
\* Rows show a list of spans: each is in one row, a row below depth 0 lies in the
\* subtree of its parent's row, one deeper.
Shows(rows, spans) ==
    /\ {rows[k].at : k \in DOMAIN rows} = DOMAIN spans
    /\ \A k, l \in DOMAIN rows : rows[k].at = rows[l].at => k = l
    /\ \A k \in DOMAIN rows : rows[k].depth > 0 =>
          \E j \in 1 .. k - 1 :
            /\ spans[rows[j].at].spanId = spans[rows[k].at].parentSpanId
            /\ rows[j].depth = rows[k].depth - 1
            /\ \A l \in j + 1 .. k : rows[l].depth > rows[j].depth
=============================================================================
