----------------------------- MODULE Reflection -----------------------------
(***************************************************************************)
(* examples/reflection: a writer and a critic alternate on one transcript  *)
(* until the critic, its rounds spent, approves and removes Reflecting.  A *)
(* message is its author ("approval" for the critic's last).               *)
(***************************************************************************)
EXTENDS Blackboard, TLC

CONSTANTS MaxFailures, MaxSends
VARIABLES world, nextId, dirt, failed, sent, aborting, conflict

Essay == 1

Systems == <<"writer", "critic">>
Query == [writer |-> Term({"agent:reflection", "Messages", "Reflecting"}, {}),
          critic |-> Term({"agent:reflection", "Messages", "Reflecting", "MaxCritiques"}, {})]
Reducers == [Messages |-> "append"]
Fallible == {"writer", "critic"}
Cancellable == FALSE

LastAuthor(w, e) == IF w[e]["Messages"] = <<>> THEN "nobody"
                    ELSE w[e]["Messages"][Len(w[e]["Messages"])]
Delivered(w, e) == Len(SelectSeq(w[e]["Messages"], LAMBDA m : m = "critic"))

Guard(s, e, w) ==
    CASE s = "writer" -> LastAuthor(w, e) \notin {"nobody", "writer"}
      [] s = "critic" -> LastAuthor(w, e) = "writer"
Answers(s, e, w) == {<<"ok">>}

Body(s, e, w, id, answer) ==
    CASE s = "writer" -> <<Add(e, "Messages", <<"writer">>)>>
      [] s = "critic" ->
           IF Delivered(w, e) >= w[e]["MaxCritiques"]
           THEN <<Add(e, "Messages", <<"approval">>), Drop(e, "Reflecting")>>
           ELSE <<Add(e, "Messages", <<"critic">>)>>

Sends(w, n) == {<<Add(Essay, "Messages", <<"user">>)>>}
Starts == {<<("agent:reflection" :> TRUE) @@ ("Messages" :> <<>>) @@ ("Reflecting" :> TRUE)
             @@ ("MaxCritiques" :> n)>> : n \in {0, 1, 2}}

Run == INSTANCE Workflow

(***************************************************************************)
(* Nobody routes, and still the authors alternate: every draft answers a   *)
(* task or a critique, every critique a draft; the critiques are never     *)
(* more than their number, and the loop is open until the approval.        *)
(***************************************************************************)
Sound ==
    LET said == world[Essay]["Messages"]
    IN /\ \A i \in 2 .. Len(said) :
             /\ said[i] = "writer" => said[i - 1] \in {"user", "critic"}
             /\ said[i] \in {"critic", "approval"} => said[i - 1] = "writer"
       /\ Delivered(world, Essay) <= world[Essay]["MaxCritiques"]
       /\ Holds(world, Essay, "Reflecting") <=> "approval" \notin ToSet(said)

(***************************************************************************)
(* At rest a task is approved after all its critiques, or an error shows.  *)
(***************************************************************************)
Settled ==
    world[Essay]["Messages"] # <<>> =>
       \/ Holds(world, Essay, SystemError)
       \/ /\ ~Holds(world, Essay, "Reflecting")
          /\ Delivered(world, Essay) = world[Essay]["MaxCritiques"]
=============================================================================
