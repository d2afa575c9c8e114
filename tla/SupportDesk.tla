----------------------------- MODULE SupportDesk -----------------------------
(***************************************************************************)
(* examples/support-desk: every ticket is an entity of pure data.  Triage  *)
(* routes it to a lane or, unsure, to the human queue; a watchdog flags    *)
(* urgent tickets that have no reply.                                      *)
(***************************************************************************)
EXTENDS Blackboard, TLC

CONSTANTS MaxFailures, MaxSends
VARIABLES world, nextId, dirt, failed, sent, aborting, conflict

Systems == <<"triage", "respondBilling", "respondTechnical", "slaWatchdog", "applyHumanTriage">>
Unanswered == Term({"Ticket", "Triaged"}, {"Drafted", "AwaitingHuman", "HumanResponse"})
Query == [triage |-> Term({"Ticket"}, {"Triaged"}),
          respondBilling |-> Unanswered,
          respondTechnical |-> Unanswered,
          slaWatchdog |-> Term({"Ticket", "Triaged"}, {"Drafted"}),
          applyHumanTriage |-> Term({"Ticket", "HumanResponse"}, {})]
Reducers == [AwaitingHuman |-> "append"]
Fallible == {"triage", "respondBilling", "respondTechnical"}
Cancellable == FALSE

Lane(s) == IF s = "respondBilling" THEN "billing" ELSE "technical"
Triage(category, priority) == [category |-> category, priority |-> priority]

Guard(s, e, w) ==
    CASE s \in {"respondBilling", "respondTechnical"} -> w[e]["Triaged"].category = Lane(s)
      [] s = "slaWatchdog" -> w[e]["Triaged"].priority = 1
      [] OTHER -> TRUE

Lanes == {"billing", "technical"}

\* A verdict: category, priority, and whether confidence reaches the floor.
\* Nothing holds the model to the categories its prompt names.
Answers(s, e, w) ==
    IF s = "triage" THEN (Lanes \cup {"other"}) \X {1, 2} \X BOOLEAN ELSE {<<"ok">>}

Body(s, e, w, id, answer) ==
    CASE s = "triage" ->
           <<Set(e, "Triaged", Triage(answer[1], answer[2]))>>
           \o IF answer[3] THEN <<>> ELSE <<Add(e, "AwaitingHuman", <<"triage-escalation">>)>>
      [] s = "slaWatchdog" -> <<Tag(e, "SlaRisk")>>
      [] s = "applyHumanTriage" ->
           <<Set(e, "Triaged", w[e]["HumanResponse"]), Drop(e, "HumanResponse")>>
      [] OTHER -> <<Set(e, "Reply", Lane(s)), Tag(e, "Drafted")>>

\* resume() on a ticket of the human queue; the human may leave the priority
\* as it was guessed.
Sends(w, n) ==
    UNION {{<<Drop(e, "AwaitingHuman"),
              Set(e, "HumanResponse", Triage(category, priority))>> :
              category \in Lanes,
              priority \in {1, w[e]["Triaged"].priority}}
           : e \in {f \in DOMAIN w : Holds(w, f, "AwaitingHuman")}}
Starts == {<<[Ticket |-> TRUE]>>, <<[Ticket |-> TRUE], [Ticket |-> TRUE]>>}

Run == INSTANCE Workflow

(***************************************************************************)
(* A reply comes from the lane of the verdict that stands; no ticket that  *)
(* waits for its human, or whose human's verdict is not applied, has one;  *)
(* and an urgent ticket with a reply was flagged.                          *)
(***************************************************************************)
Sound ==
    \A e \in DOMAIN world :
       Holds(world, e, "Drafted") =>
          /\ world[e]["Reply"] = world[e]["Triaged"].category
          /\ {"AwaitingHuman", "HumanResponse"} \cap DOMAIN world[e] = {}
          /\ world[e]["Triaged"].priority = 1 => Holds(world, e, "SlaRisk")

(***************************************************************************)
(* At rest every ticket has a reply, waits for a human or shows an error,  *)
(* or triage was sure of a category that is nobody's lane: both            *)
(* specialists veto it and no human is asked.                              *)
(***************************************************************************)
Settled ==
    \A e \in DOMAIN world :
       \/ {"Drafted", "AwaitingHuman", SystemError} \cap DOMAIN world[e] # {}
       \/ Holds(world, e, "Triaged") /\ world[e]["Triaged"].category \notin Lanes
=============================================================================
