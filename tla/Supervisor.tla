----------------------------- MODULE Supervisor -----------------------------
(***************************************************************************)
(* examples/supervisor: the supervisor (entity 2) plans tasks for the      *)
(* standing researcher (entity 1) and for a writer it spawns, aggregates   *)
(* their reports, and the heal system re-arms a worker that failed.        *)
(* X_Variant is X with a plausible defect; nothing uses it.                *)
(***************************************************************************)
EXTENDS Blackboard, TLC

CONSTANTS MaxFailures, MaxSends
VARIABLES world, nextId, dirt, failed, sent, aborting, conflict

Researcher == 1
Boss == 2
MAX_HEAL_ATTEMPTS == 2

Systems == <<"heal", "work", "plan", "aggregate">>
Query == [heal |-> Term({SystemError, "Task"}, {}),
          work |-> Term({"Task", "Role", "ModelRef"}, {}),
          plan |-> Term({"Messages", "ModelRef", "MessageWaiting"}, {"Dispatched"}),
          aggregate |-> Term({"Inbox", "Dispatched", "Messages", "ModelRef", "MessageWaiting"}, {})]
Reducers == [Inbox |-> "append", Messages |-> "append"]
Fallible == {"work", "plan", "aggregate"}
Cancellable == FALSE

Agent(role) == [Role |-> role, ModelRef |-> role]
Task(e) == [from |-> e]

Guard_FirstReport(s, e, w) ==
    CASE s = "plan" -> "user" \in ToSet(w[e]["Messages"])
      [] s = "aggregate" -> Len(w[e]["Inbox"]) > 0
      [] OTHER -> TRUE
Guard(s, e, w) ==
    CASE s = "plan" -> "user" \in ToSet(w[e]["Messages"])
      [] s = "aggregate" -> Len(w[e]["Inbox"]) >= w[e]["Dispatched"]
      [] OTHER -> TRUE

\* The routing reply names the workers that get a task.
Answers(s, e, w) ==
    IF s = "plan" THEN {<<"researcher">>, <<"writer">>, <<"researcher", "writer">>} ELSE {<<"ok">>}

Plan(e, id, routing) ==
    LET asks(role) == role \in ToSet(routing)
    IN (IF asks("researcher") THEN <<Set(Researcher, "Task", Task(e))>> ELSE <<>>)
       \o (IF asks("writer") THEN <<Spawn(id, Agent("writer") @@ ("Task" :> Task(e)))>> ELSE <<>>)
       \o <<Add(e, "Messages", <<"routing">>), Set(e, "Dispatched", Len(routing))>>

Body(s, e, w, id, answer) ==
    CASE s = "heal" -> Rearm(w, e, MAX_HEAL_ATTEMPTS)
      [] s = "work" -> <<Add(w[e]["Task"].from, "Inbox", <<w[e]["Role"]>>), Drop(e, "Task")>>
      [] s = "plan" -> Plan(e, id, answer)
      [] s = "aggregate" -> <<Add(e, "Messages", <<"answer">>), Set(e, "Inbox", <<>>),
                              Drop(e, "Dispatched"), Drop(e, "MessageWaiting")>>

Sends(w, n) == {<<Add(Boss, "Messages", <<"user">>), Tag(Boss, "MessageWaiting")>>}
Starts == {<<Agent("researcher"),
             [Messages |-> <<>>, Inbox |-> <<>>, ModelRef |-> "supervisor"]>>}

Run == INSTANCE Workflow

(***************************************************************************)
(* What is dispatched is accounted for: the reports in the inbox and the   *)
(* tasks still out make up exactly what the aggregation waits for, however *)
(* often a worker fails and is healed; no pair collects more records than  *)
(* its chances; every request is answered at most once.                    *)
(***************************************************************************)
Sound ==
    LET out == Cardinality({e \in DOMAIN world : Holds(world, e, "Task")})
        said(m) == Len(SelectSeq(world[Boss]["Messages"], LAMBDA x : x = m))
    IN /\ Len(world[Boss]["Inbox"]) + out = Value(world, Boss, "Dispatched", 0)
       /\ \A e \in DOMAIN world : Failures(world, e, "work") <= MAX_HEAL_ATTEMPTS + 1
       /\ said("answer") <= said("routing") /\ said("routing") <= said("user")

(***************************************************************************)
(* At rest a request has its answer, or an error says why not: the         *)
(* supervisor's own, or a worker's that used up its chances.               *)
(***************************************************************************)
Settled ==
    Holds(world, Boss, "MessageWaiting") =>
       \/ Holds(world, Boss, SystemError)
       \/ \E e \in DOMAIN world : Failures(world, e, "work") = MAX_HEAL_ATTEMPTS + 1
=============================================================================
