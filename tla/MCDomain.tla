------------------------------ MODULE MCDomain ------------------------------
(***************************************************************************)
(* The small domain the model-checking modules share: order and task       *)
(* streams with the program's own deciders, and one host-side decider that *)
(* appends two events at once (an order placed together with its first     *)
(* line) and answers a repeated call with no event.                        *)
(***************************************************************************)
EXTENDS EventLog

A == INSTANCE Aggregates WITH Refusal <- Rejected

Orders == {"o1", "o2"}
Tasks  == {"t1", "t2"}

MCStreams == Orders \cup Tasks
MCAggregateOf == [s \in MCStreams |-> IF s \in Orders THEN "order" ELSE "task"]
MCTypes == A!TaskTypes \cup A!OrderTypes

\* A command occurrence: its name and the stream it addresses.
On(stream, name) == [name |-> name, stream |-> stream]

Place   == On("o1", "PlaceOrder")
Bundle  == On("o1", "PlaceOrderWithLine")
AddLine == On("o1", "AddOrderLine")
Confirm == On("o1", "ConfirmOrder")
Cancel  == On("o1", "CancelOrder")
Create  == On("t1", "CreateTask")
Finish  == On("t1", "CompleteTask")

TargetOf(commands) == [c \in commands |-> c.stream]

DecideBundle(h) ==
  IF A!OrderDecide("PlaceOrder", TRUE, h) = Rejected
  THEN IF A!OrderState(h).lines = 0
       THEN A!OrderDecide("AddOrderLine", TRUE, h)
       ELSE << >>
  ELSE <<"OrderPlaced", "OrderLineAdded">>

MCDecide(c, h) ==
  CASE c.name = "PlaceOrderWithLine" -> DecideBundle(h)
    [] c.stream \in Tasks            -> A!TaskDecide(c.name, TRUE, h)
    [] OTHER                         -> A!OrderDecide(c.name, TRUE, h)

\* The domain rules the deciders state, of every stream of a log.
DomainRulesOf(l) ==
  /\ \A s \in Orders : A!OrderLifecycle(History(l, s))
  /\ \A s \in Tasks  : A!TaskLifecycle(History(l, s))
=============================================================================
