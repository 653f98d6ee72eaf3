---------------------------- MODULE MCReactions ----------------------------
(***************************************************************************)
(* A small instance of Reactions: a chain over three aggregates.  A host's *)
(* reactor adds a line to a placed order and confirms it, the program's    *)
(* own opens a task for the confirmed order, and the shipped script writes *)
(* a note when the task is completed, while a user changes the same order. *)
(***************************************************************************)
EXTENDS Reactions, MCDomain

MCReactors == {"stock", "fulfillment", "task_completion_note"}

MCHostReact(r, ev) ==
  IF r = "stock" /\ ev.type = "OrderPlaced"
  THEN <<To(ev.stream, "AddOrderLine"), To(ev.stream, "ConfirmOrder")>>
  ELSE << >>

RStreams      == {"o1", "t1", "t2", "n1", "n2"}
RAggregateOf  == [s \in RStreams |-> CASE s = "o1" -> "order"
                                       [] s \in {"t1", "t2"} -> "task"
                                       [] OTHER -> "note"]
RTypes        == MCTypes \cup A!NoteTypes
RFulfilTask   == [s \in {"o1"} |-> "t1"]
RCompletionNote == [s \in {"t1", "t2"} |-> IF s = "t1" THEN "n1" ELSE "n2"]

MCUsers == {Place, AddLine, Cancel, Finish}

\* Every reaction to an event that can be in a log of this instance.
MCReactions ==
  LET causes == [stream : RStreams, seq : 1 .. 4, type : RTypes]
  IN UNION {UNION {{Reaction(r, ev, i) : i \in DOMAIN React(r, ev)}
                     : ev \in {e \in causes :
                                 (e.type = "TaskCompleted") => e.stream \in Tasks}}
              : r \in MCReactors}

RCommands == MCUsers \cup MCReactions
RTarget   == TargetOf(RCommands)

RDecide(c, h) ==
  IF c.stream \in {"n1", "n2"} THEN A!NoteDecide(c.name, TRUE, h)
  ELSE MCDecide(c, h)

\* Nothing imported, or a task that was completed somewhere else.
MCHistories ==
  {<< >>,
   [i \in 1 .. 2 |->
      [stream |-> "t2", seq |-> i, imported |-> TRUE, by |-> NoCommand,
       type |-> IF i = 1 THEN "TaskCreated" ELSE "TaskCompleted"]]}
=============================================================================
