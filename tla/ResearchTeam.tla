---------------------------- MODULE ResearchTeam ----------------------------
(***************************************************************************)
(* examples/research-team: a blackboard (entity 1) on which a planner      *)
(* spawns researchers, a critic flags findings once, a synthesizer answers *)
(* and stdlib's budget watchdog brakes everybody when the ledger passes    *)
(* the budget.  A ledger entry is the name of the system that spent it, of *)
(* one unit.                                                               *)
(* X_Variant is X with a plausible defect; nothing uses it.                *)
(***************************************************************************)
EXTENDS Blackboard, TLC

CONSTANTS MaxFailures, MaxSends
VARIABLES world, nextId, dirt, failed, sent, aborting, conflict

Board == 1

Systems == <<"planner", "critic", "synthesizer", "tokenBudget", "investigate", "revise">>
Query == [planner |-> Term({"Question"}, {"Plan", "BudgetExceeded"}),
          critic |-> Term({"Question", "Plan", "Findings"}, {"Approved", "BudgetExceeded"}),
          synthesizer |-> Term({"Question", "Plan", "Findings", "Approved"},
                               {"Answer", "BudgetExceeded"}),
          tokenBudget |-> Term({"TokenUsage", "TokenBudget"}, {}),
          investigate |-> Term({"agent:researcher", "SubQuestion"}, {"BudgetExceeded"}),
          revise |-> Term({"agent:researcher", "SubQuestion", "Notes", "RevisionRequest"},
                          {"BudgetExceeded"})]
Reducers == [Findings |-> "append", Notes |-> "append", TokenUsage |-> "append",
             BudgetExceeded |-> "larger"]
Fallible == {"planner", "critic", "synthesizer", "investigate", "revise"}
Cancellable == FALSE

Spent(w) == Len(Value(w, Board, "TokenUsage", <<>>))
Over(w) == Spent(w) > w[Board]["TokenBudget"]
Spenders(w) == {e \in DOMAIN w : Holds(w, e, "agent:researcher")}
Unstamped(w) == {e \in Spenders(w) : ~Holds(w, e, "BudgetExceeded")}

\* latestFindings: per slot, the finding appended last.
Slots(w) == {f.index : f \in ToSet(Value(w, Board, "Findings", <<>>))}
Latest(w, i) == LET s == SelectSeq(w[Board]["Findings"], LAMBDA f : f.index = i) IN s[Len(s)]
Weak(w) == {i \in Slots(w) : ~Latest(w, i).revised}

Guard_StampOnce(s, e, w) ==
    CASE s = "critic" -> Cardinality(Slots(w)) >= w[e]["Plan"]
      [] s = "tokenBudget" -> Over(w) /\ ~Holds(w, e, "BudgetExceeded")
      [] OTHER -> TRUE
Guard(s, e, w) ==
    CASE s = "critic" -> Cardinality(Slots(w)) >= w[e]["Plan"]
      [] s = "tokenBudget" -> Over(w) /\ (~Holds(w, e, "BudgetExceeded") \/ Unstamped(w) # {})
      [] OTHER -> TRUE

\* How many sub-questions; which slots the critic calls weak.  extractJson
\* may need its second call.
Answers(s, e, w) ==
    CASE s = "planner" -> {<<"plan", n, calls>> : n \in 0 .. 2, calls \in {1, 2}}
      [] s = "critic" -> {<<"weak", flagged, 1>> : flagged \in SUBSET Slots(w)}
      [] OTHER -> {<<"ok">>}

Bill(board, s, calls) == Add(board, "TokenUsage", [i \in 1 .. calls |-> s])
Draft(e, w, revised) ==
    LET board == w[e]["SubQuestion"].board
        finding == [researcher |-> e, index |-> w[e]["SubQuestion"].index, revised |-> revised]
    IN <<Bill(board, IF revised THEN "revise" ELSE "investigate", 1),
         Add(e, "Notes", <<revised>>), Add(board, "Findings", <<finding>>)>>

Recruit(board, i) == ("agent:researcher" :> TRUE) @@ ("Notes" :> <<>>)
                     @@ ("SubQuestion" :> [board |-> board, index |-> i])

ForAll(S, Op(_)) == LET q == SetToSortSeq(S, <) IN [i \in DOMAIN q |-> Op(q[i])]

Body(s, e, w, id, answer) ==
    CASE s = "planner" ->
           <<Bill(e, s, answer[3])>>
           \o [i \in 1 .. answer[2] |-> Spawn(id + i - 1, Recruit(e, i - 1))]
           \o <<Set(e, "Plan", answer[2])>>
      [] s = "critic" ->
           LET flagged == answer[2] \cap Weak(w)
           IN <<Bill(e, s, 1)>>
              \o (IF flagged = {} THEN <<Tag(e, "Approved")>>
                  ELSE ForAll(flagged, LAMBDA i :
                                 Set(Latest(w, i).researcher, "RevisionRequest", TRUE)))
      [] s = "synthesizer" -> <<Bill(e, s, 1), Set(e, "Answer", Slots(w))>>
      [] s = "tokenBudget" ->
           (IF Holds(w, e, "BudgetExceeded") THEN <<>> ELSE <<Set(e, "BudgetExceeded", Spent(w))>>)
           \o ForAll(Unstamped(w), LAMBDA r : Add(r, "BudgetExceeded", Spent(w)))
      [] s = "investigate" -> Draft(e, w, FALSE)
      [] s = "revise" -> Draft(e, w, TRUE) \o <<Drop(e, "RevisionRequest")>>

\* The question; later, a further researcher for a team that was braked.
Sends(w, n) ==
    IF n = 0 THEN {<<Add(Board, "Question", TRUE)>>}
    ELSE IF ~Over(w) THEN {}
    ELSE {<<Spawn(Cardinality(DOMAIN w) + 1, Recruit(Board, Value(w, Board, "Plan", 0)))>>}
Starts == {<<[TokenBudget |-> n]>> : n \in {0, 3, 99}}

Run == INSTANCE Workflow

(***************************************************************************)
(* One revision per slot, after its draft, and asked for only while the    *)
(* draft stands; approval waits for every planned slot and the answer for  *)
(* the approval.  Over budget, whoever is not stamped yet is so because    *)
(* the watchdog is due, or because it has not spent anything.              *)
(***************************************************************************)
Sound ==
    LET found == Value(world, Board, "Findings", <<>>)
        planned == 0 .. Value(world, Board, "Plan", 0) - 1
    IN /\ \A i, j \in DOMAIN found : i < j /\ found[i].index = found[j].index
                                       => ~found[i].revised /\ found[j].revised
       /\ \A e \in Spenders(world) : Holds(world, e, "RevisionRequest") =>
             ~Latest(world, world[e]["SubQuestion"].index).revised
       /\ Holds(world, Board, "Approved") => planned \subseteq Slots(world)
       /\ Holds(world, Board, "Answer") =>
             Holds(world, Board, "Approved") /\ planned \subseteq world[Board]["Answer"]
       /\ Over(world) => \A e \in Unstamped(world) \cup {Board} :
             \/ Holds(world, e, "BudgetExceeded")
             \/ <<"tokenBudget", Board>> \in dirt
             \/ e # Board /\ world[e]["Notes"] = <<>>

(***************************************************************************)
(* At rest a question is answered, or braked, or an error says why not, or *)
(* the plan was empty; and a team over budget is braked to the last.       *)
(***************************************************************************)
Settled ==
    /\ Holds(world, Board, "Question") =>
          \/ Holds(world, Board, "Answer") \/ Over(world)
          \/ Value(world, Board, "Plan", 1) = 0
          \/ \E e \in DOMAIN world : Holds(world, e, SystemError)
    /\ Over(world) => \A e \in Spenders(world) :
          Holds(world, e, "BudgetExceeded") \/ Holds(world, e, SystemError)
=============================================================================
