------------------------------ MODULE JobWorker ------------------------------
(***************************************************************************)
(* examples/devtools-demo: a worker (entity 1) with a queue of jobs, one   *)
(* taken per execution, and stdlib's retry.                                *)
(***************************************************************************)
EXTENDS Blackboard, TLC

CONSTANTS MaxFailures, MaxSends
VARIABLES world, nextId, dirt, failed, sent, aborting, conflict

Worker == 1

Systems == <<"processJobs", "retry">>
Query == [processJobs |-> Term({"agent:worker", "Jobs"}, {}),
          retry |-> Term({"agent:worker", SystemError, "RetryPolicy"}, {Cancelled})]
Reducers == [Jobs |-> "append", ProcessedJobs |-> "append"]
Fallible == {"processJobs"}
Cancellable == FALSE

Guard(s, e, w) == s = "processJobs" => w[e]["Jobs"] # <<>>
Answers(s, e, w) == {<<"ok">>}
Body(s, e, w, id, answer) ==
    CASE s = "processJobs" -> <<Set(e, "Jobs", Tail(w[e]["Jobs"])),
                                Add(e, "ProcessedJobs", <<Head(w[e]["Jobs"])>>)>>
      [] s = "retry" -> Rearm(w, e, w[e]["RetryPolicy"])

\* Jobs are sent one or two at a time; a job is its place in what was sent.
Known(w) == w[Worker]["ProcessedJobs"] \o w[Worker]["Jobs"]
Sends(w, n) == {<<Add(Worker, "Jobs", [i \in 1 .. k |-> Len(Known(w)) + i])>> : k \in {1, 2}}
Starts == {<<("agent:worker" :> TRUE) @@ ("Jobs" :> <<>>) @@ ("ProcessedJobs" :> <<>>)
             @@ ("RetryPolicy" :> 2)>>}

Run == INSTANCE Workflow

(***************************************************************************)
(* First in, first out, nothing lost or done twice, whatever fails.        *)
(***************************************************************************)
Sound == Known(world) = [i \in 1 .. Len(Known(world)) |-> i]

(***************************************************************************)
(* At rest the queue is empty, or its head was tried as often as the       *)
(* policy allows, or a job ran (taking one is the pair's own write, which  *)
(* wakes nobody: one send starts one job).                                 *)
(***************************************************************************)
Settled ==
    \/ world[Worker]["Jobs"] = <<>>
    \/ world[Worker]["ProcessedJobs"] # <<>>
    \/ Failures(world, Worker, "processJobs") > 2
=============================================================================
