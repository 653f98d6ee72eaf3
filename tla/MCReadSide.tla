----------------------------- MODULE MCReadSide -----------------------------
(***************************************************************************)
(* A small instance of ReadSide: one customer's two orders, a line that is *)
(* added again with another amount, and an order that is confirmed.        *)
(***************************************************************************)
EXTENDS ReadSide

Placed(order) == [type |-> "OrderPlaced", order |-> order, customer |-> "c1"]

Line(order, amount) ==
  [type |-> "OrderLineAdded", order |-> order, sku |-> "a", amount |-> amount]

MCLog == <<Placed("o1"), Line("o1", 2), Placed("o2"), Line("o1", 1),
           [type |-> "OrderConfirmed", order |-> "o1"]>>

MCHosts == {{p} : p \in Projections}
=============================================================================
