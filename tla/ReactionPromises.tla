------------------------- MODULE ReactionPromises --------------------------
(***************************************************************************)
(* What the reactors answer to the events of the log, and what is promised *)
(* of it: a reaction that an event owes is not skipped, and not made twice.*)
(* How reactions are made is module Reactions.                             *)
(***************************************************************************)
EXTENDS EventLog

CONSTANTS
  Reactors,        \* the reactors registered
  HostReact(_, _), \* what a host's own reactor returns for an event
  FulfilTask,      \* the task stream "fulfill-<id>" of each order stream
  CompletionNote   \* the note stream "completed-<id>" of each task stream

VARIABLES
  checkpoints, \* events.db: each reactor's position
  refused,     \* history: reactions that were rejected or decided as nothing
  dropped      \* history: reactions lost to a fault that is only logged

-----------------------------------------------------------------------------
(* What the reactors return.                                               *)

To(stream, name) == [name |-> name, stream |-> stream]

\* fulfillment.React: a task for every confirmed order.
FulfillmentReact(ev) ==
  IF AggregateOf[ev.stream] = "order" /\ ev.type = "OrderConfirmed"
  THEN <<To(FulfilTask[ev.stream], "CreateTask")>>
  ELSE << >>

\* reactTo of task_completion_note.js: a note for every completed task.
CompletionNoteReact(ev) ==
  IF ev.type = "TaskCompleted"
  THEN <<To(CompletionNote[ev.stream], "CreateNote")>>
  ELSE << >>

React(r, ev) ==
  CASE r = "fulfillment"          -> FulfillmentReact(ev)
    [] r = "task_completion_note" -> CompletionNoteReact(ev)
    [] OTHER                      -> HostReact(r, ev)

\* reactionCommandID: the i-th reaction of r to ev, a command occurrence.
Reaction(r, ev, i) ==
  LET to == React(r, ev)[i]
  IN [name |-> to.name, stream |-> to.stream, reactor |-> r,
      cause |-> <<ev.stream, ev.seq>>, index |-> i]

\* The reactions r owes for the event at position p of the log; an imported
\* event is folded, not acted on.
Owed(r, p) ==
  IF log[p].imported THEN << >>
  ELSE [i \in DOMAIN React(r, log[p]) |-> Reaction(r, log[p], i)]

-----------------------------------------------------------------------------
(* Properties.                                                             *)

PositionsOf(c) == {p \in DOMAIN log : log[p].by = c}

Deliveries == {<<r, p>> : r \in Reactors, p \in DOMAIN log}

\* However often its cause is delivered again, a reaction is in the log at
\* most once: exactly what its target decided on the history right before it,
\* and after its cause, also where no rule of the target refuses a repeat.
ReactedOnce ==
  \A d \in Deliveries : \A i \in DOMAIN Owed(d[1], d[2]) :
    LET c    == Owed(d[1], d[2])[i]
        mine == PositionsOf(c)
    IN mine # {} =>
         LET first  == Min(mine)
             before == SubSeq(log, 1, first - 1)
             types  == Decide(c, History(before, c.stream))
         IN /\ first > d[2]
            /\ SubSeq(log, first, first + Cardinality(mine) - 1)
                 = Stamped(c, types, Length(before, c.stream))

\* A reactor's position passes no event with a reaction that is neither in the
\* log, nor was refused by its target, nor was lost to a fault the code only
\* logs; a target that moved on is no reason to lose one.
NothingSkipped ==
  \A r \in Reactors : \A p \in 1 .. checkpoints[r] :
    \A i \in DOMAIN Owed(r, p) :
      LET c == Owed(r, p)[i]
      IN PositionsOf(c) # {} \/ c \in refused \/ c \in dropped
=============================================================================
