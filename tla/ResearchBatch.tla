---------------------------- MODULE ResearchBatch ----------------------------
(***************************************************************************)
(* examples/cancellation: jobs that each call a model under a deadline,    *)
(* stdlib's retry, and an operator who cancels the world, and un-cancels   *)
(* it by removing Cancelled.                                               *)
(***************************************************************************)
EXTENDS Blackboard, TLC

CONSTANTS MaxFailures, MaxSends
VARIABLES world, nextId, dirt, failed, sent, aborting, conflict

Systems == <<"research", "retry">>
Query == [research |-> Term({"Job"}, {"Notes", Cancelled}),
          retry |-> Term({SystemError, "RetryPolicy"}, {Cancelled})]
Reducers == <<>>
\* A deadline that passes is a failure like another.  `research` forwards its
\* signal, so a cancel may abort it; `retry` never fails, and sleeps on.
Fallible == {"research"}
Cancellable == TRUE

Guard(s, e, w) == TRUE
Answers(s, e, w) == {<<"ok">>}
Body(s, e, w, id, answer) ==
    CASE s = "research" -> <<Set(e, "Notes", w[e]["Job"])>>
      [] s = "retry" -> Rearm(w, e, w[e]["RetryPolicy"])

Everywhere(w, Op(_)) == LET ids == SetToSortSeq(DOMAIN w, <) IN [i \in DOMAIN ids |-> Op(ids[i])]
Sends(w, n) == {Everywhere(w, LAMBDA e : Set(e, Cancelled, TRUE)),
                Everywhere(w, LAMBDA e : Drop(e, Cancelled))}
Starts == {<<[Job |-> 1, RetryPolicy |-> 1], [Job |-> 2, RetryPolicy |-> 1]>>}

Run == INSTANCE Workflow

\* report(): what finished, what stopped.
Report(e) == IF Holds(world, e, "Notes") THEN "researched"
             ELSE IF Holds(world, e, Cancelled) THEN "cancelled"
             ELSE IF Holds(world, e, SystemError) THEN "failed"
             ELSE "pending"

(***************************************************************************)
(* Cancelled reaches every entity or none, and notes are the job's own.    *)
(***************************************************************************)
Sound ==
    /\ \A e, f \in DOMAIN world : Holds(world, e, Cancelled) = Holds(world, f, Cancelled)
    /\ \A e \in DOMAIN world : Value(world, e, "Notes", world[e]["Job"]) = world[e]["Job"]

(***************************************************************************)
(* At rest no job is pending: an abort recorded nothing and consumed       *)
(* nothing, so after the cancel is taken back the job runs again.          *)
(***************************************************************************)
Settled ==
    \A e \in DOMAIN world :
       /\ Report(e) # "pending"
       /\ Report(e) = "failed" => Failures(world, e, "research") > world[e]["RetryPolicy"]
=============================================================================
