-------------------------------- MODULE EventLog --------------------------------
(***************************************************************************)
(* What a run promises to those who iterate it (packages/core/src          *)
(* events.ts, the comment of Run): a log that grows until it is closed,    *)
(* which every reader, whenever it starts, reads from the beginning, in    *)
(* order and without a gap, and then leaves with the log's own outcome.    *)
(***************************************************************************)
EXTENDS Naturals, Sequences

CONSTANTS Event, Reader

VARIABLES
    log,      \* the events so far
    outcome,  \* "open", "ok" or "rejected"
    got,      \* got[r]: how many events reader r has been given
    left      \* left[r]: the outcome it ended with, "open" while it has not

vars == <<log, outcome, got, left>>

Init ==
    /\ log = <<>>
    /\ outcome = "open"
    /\ got = [r \in Reader |-> 0]
    /\ left = [r \in Reader |-> "open"]

Extended == log' \in Seq(Event) /\ Len(log') >= Len(log) /\ SubSeq(log', 1, Len(log)) = log

Grow ==
    /\ outcome = "open"
    /\ Extended
    /\ UNCHANGED <<outcome, got, left>>

\* The last events and the outcome become visible to readers together.
Close ==
    /\ outcome = "open" /\ outcome' \in {"ok", "rejected"}
    /\ Extended
    /\ UNCHANGED <<got, left>>

Deliver(r) ==
    /\ left[r] = "open" /\ got[r] < Len(log)
    /\ got' = [got EXCEPT ![r] = @ + 1]
    /\ UNCHANGED <<log, outcome, left>>

Leave(r) ==
    /\ left[r] = "open" /\ got[r] = Len(log) /\ outcome # "open"
    /\ left' = [left EXCEPT ![r] = outcome]
    /\ UNCHANGED <<log, outcome, got>>

Next ==
    \/ Grow \/ Close
    \/ \E r \in Reader : Deliver(r) \/ Leave(r)

Spec == Init /\ [][Next]_vars
=================================================================================
