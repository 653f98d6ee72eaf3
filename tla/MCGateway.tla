----------------------------- MODULE MCGateway -----------------------------
(***************************************************************************)
(* Small instances of Gateway: an order is placed, and a line is added to  *)
(* it by a request with a key that is sent twice while another request     *)
(* uses the same key.                                                      *)
(***************************************************************************)
EXTENDS Gateway, MCDomain

Retry == [name |-> "AddOrderLine", stream |-> "o1", attempt |-> 2]

MCCommands == {Bundle, AddLine, Retry, Confirm}
MCTarget   == TargetOf(MCCommands)

MCKeys  == {"k"}
MCKeyOf == [c \in MCCommands |-> IF c = Bundle THEN NoKey ELSE "k"]
MCHashOf == [c \in MCCommands |-> c.name]
=============================================================================
