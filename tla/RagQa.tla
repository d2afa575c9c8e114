------------------------------- MODULE RagQa -------------------------------
(***************************************************************************)
(* examples/rag-qa: a question (entity 1) is decomposed into sub-queries,  *)
(* each an entity that retrieves, reports to the question and despawns.    *)
(* X_Variant is X with a plausible defect; nothing uses it.                *)
(***************************************************************************)
EXTENDS Blackboard, TLC

CONSTANTS MaxFailures, MaxSends
VARIABLES world, nextId, dirt, failed, sent, aborting, conflict

Asked == 1

Systems == <<"decompose", "retrieve", "synthesize">>
Query == [decompose |-> Term({"Question"}, {"Dispatched"}),
          retrieve |-> Term({"SubQuery", "Parent"}, {}),
          synthesize |-> Term({"Question", "Retrieved", "Reports", "Dispatched"}, {"Answer"})]
Reducers == [Retrieved |-> "append", Reports |-> "sum"]
Fallible == {"decompose", "retrieve", "synthesize"}
Cancellable == FALSE

Guard(s, e, w) == s = "synthesize" => w[e]["Reports"] >= w[e]["Dispatched"]
Answers(s, e, w) ==
    CASE s = "decompose" -> {<<"queries", n>> : n \in 1 .. 3}
      [] OTHER -> {<<"ok">>}

Body(s, e, w, id, answer) ==
    CASE s = "decompose" ->
           [i \in 1 .. answer[2] |-> Spawn(id + i - 1, [SubQuery |-> i, Parent |-> e])]
           \o <<Set(e, "Dispatched", answer[2])>>
      [] s = "retrieve" -> <<Add(w[e]["Parent"], "Retrieved", <<w[e]["SubQuery"]>>),
                             Add(w[e]["Parent"], "Reports", 1), Despawn(e)>>
      [] s = "synthesize" -> <<Set(e, "Answer", ToSet(w[e]["Retrieved"]))>>

Sends(w, n) == {<<Add(Asked, "Question", n)>>}
Starts == {<<<<>>>>}

Run == INSTANCE Workflow

(***************************************************************************)
(* Reports and retrievers at work make up what was dispatched, so the      *)
(* answer is grounded in what every retriever brought, each once.          *)
(***************************************************************************)
Sound ==
    LET dispatched == Value(world, Asked, "Dispatched", 0)
        working == {e \in DOMAIN world : Holds(world, e, "SubQuery")}
        brought == Value(world, Asked, "Retrieved", <<>>)
    IN /\ Value(world, Asked, "Reports", 0) + Cardinality(working) = dispatched
       /\ Cardinality(ToSet(brought)) = Len(brought)
       /\ Holds(world, Asked, "Answer") =>
             world[Asked]["Answer"] = 1 .. dispatched

(***************************************************************************)
(* At rest a question has its answer, or an entity shows an error.         *)
(***************************************************************************)
Settled ==
    Holds(world, Asked, "Question") =>
       \/ Holds(world, Asked, "Answer")
       \/ \E e \in DOMAIN world : Holds(world, e, SystemError)
=============================================================================
