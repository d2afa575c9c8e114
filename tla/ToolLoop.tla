------------------------------ MODULE ToolLoop ------------------------------
(***************************************************************************)
(* examples/tools-from-scratch: think calls the model while an answer is   *)
(* owed, act runs the calls it asked for.  A message is its author and, of *)
(* an assistant's, the number of tool calls.                               *)
(***************************************************************************)
EXTENDS Blackboard, TLC

CONSTANTS MaxFailures, MaxSends
VARIABLES world, nextId, dirt, failed, sent, aborting, conflict

Chat == 1
MaxMessages == 7    \* bound: the model asks for no more tools then

Systems == <<"think", "act">>
Query == [think |-> Term({"Convo", "NeedsReply"}, {}), act |-> Term({"ToolQueue"}, {})]
Reducers == [Convo |-> "append"]
Fallible == {"think"}
Cancellable == FALSE

Guard(s, e, w) == TRUE
Answers(s, e, w) ==
    {<<"calls", n>> : n \in IF s = "think" /\ Len(w[e]["Convo"]) < MaxMessages THEN 0 .. 2 ELSE {0}}

Message(author, calls) == [author |-> author, calls |-> calls]

Body(s, e, w, id, answer) ==
    CASE s = "think" ->
           <<Add(e, "Convo", <<Message("assistant", answer[2])>>)>>
           \o IF answer[2] > 0 THEN <<Set(e, "ToolQueue", answer[2])>> ELSE <<Drop(e, "NeedsReply")>>
      [] s = "act" -> <<Add(e, "Convo", [i \in 1 .. w[e]["ToolQueue"] |-> Message("tool", 0)]),
                        Drop(e, "ToolQueue")>>

Sends(w, n) == {<<Add(Chat, "Convo", <<Message("user", 0)>>), Tag(Chat, "NeedsReply")>>}
Starts == {<<[Convo |-> <<>>]>>}

Run == INSTANCE Workflow

(***************************************************************************)
(* Whenever the model is called again every call it ever made has its one  *)
(* result, and the queue holds exactly the calls without.                  *)
(***************************************************************************)
Sound ==
    LET said == world[Chat]["Convo"]
        results(i) == Len(SelectSeq(SubSeq(said, 1, i), LAMBDA m : m.author = "tool"))
        wanted(i) == FoldLeft(LAMBDA n, m : n + m.calls, 0, SubSeq(said, 1, i))
    IN /\ \A i \in DOMAIN said : said[i].author = "assistant" => results(i - 1) = wanted(i - 1)
       /\ wanted(Len(said)) = results(Len(said)) + Value(world, Chat, "ToolQueue", 0)

(***************************************************************************)
(* At rest no answer is owed, or an error shows; no tool call waits.       *)
(***************************************************************************)
Settled ==
    /\ Holds(world, Chat, "NeedsReply") => Holds(world, Chat, SystemError)
    /\ ~Holds(world, Chat, "ToolQueue")
=============================================================================
