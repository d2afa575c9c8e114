---------------------------- MODULE OrderPipeline ----------------------------
(***************************************************************************)
(* examples/order-pipeline: an order's stage is the set of components on   *)
(* its entity; stdlib's retry re-arms a charge that failed.                *)
(***************************************************************************)
EXTENDS Blackboard, TLC

CONSTANTS MaxFailures, MaxSends
VARIABLES world, nextId, dirt, failed, sent, aborting, conflict

Systems == <<"validate", "chargePayment", "reserveInventory", "ship", "retry">>
Query == [validate |-> Term({"Order"}, {"Validated", "Rejected"}),
          chargePayment |-> Term({"Order", "Validated"}, {"Charged"}),
          reserveInventory |-> Term({"Order", "Charged"}, {"Reserved"}),
          ship |-> Term({"Order", "Reserved"}, {"Shipped"}),
          retry |-> Term({SystemError, "RetryPolicy"}, {Cancelled})]
Reducers == <<>>
Fallible == {"chargePayment"}
Cancellable == FALSE

Good(order) == order.items > 0 /\ order.total > 0

Guard(s, e, w) == TRUE
Answers(s, e, w) == {<<"ok">>}
Body(s, e, w, id, choice) ==
    CASE s = "validate" -> <<Tag(e, IF Good(w[e]["Order"]) THEN "Validated" ELSE "Rejected")>>
      [] s = "chargePayment" -> <<Add(e, "Charged", w[e]["Order"].total)>>
      [] s = "reserveInventory" -> <<Tag(e, "Reserved")>>
      [] s = "ship" -> <<Add(e, "Shipped", w[e]["Order"])>>
      [] s = "retry" -> Rearm(w, e, w[e]["RetryPolicy"])

Sends(w, n) == {}
Order(items, total) == ("Order" :> [items |-> items, total |-> total])
Starts == {<<Order(1, 5) @@ ("RetryPolicy" :> max), second>> :
             max \in {1, 2}, second \in {Order(1, 7), Order(0, 5), Order(1, 0)}}

Run == INSTANCE Workflow

(***************************************************************************)
(* A stage is reached only through the ones before it, at the order's own  *)
(* total; an order without items or with nothing to pay goes nowhere.      *)
(***************************************************************************)
Sound ==
    \A e \in DOMAIN world :
       LET stages == DOMAIN world[e]
       IN /\ "Shipped" \in stages => {"Validated", "Charged", "Reserved"} \subseteq stages
          /\ "Charged" \in stages => world[e]["Charged"] = world[e]["Order"].total
          /\ "Validated" \in stages => Good(world[e]["Order"]) /\ "Rejected" \notin stages

(***************************************************************************)
(* At rest every order is shipped or rejected, or its payment was tried    *)
(* exactly as often as its policy allows (once without one).               *)
(***************************************************************************)
Settled ==
    \A e \in DOMAIN world :
       \/ {"Shipped", "Rejected"} \cap DOMAIN world[e] # {} /\ ~Holds(world, e, SystemError)
       \/ Failures(world, e, "chargePayment") = 1 + Value(world, e, "RetryPolicy", 0)
=============================================================================
