----------------------------- MODULE Aggregates -----------------------------
(***************************************************************************)
(* The two deciders the program registers itself, task (aggregates/task.go)*)
(* and order (aggregates/order.go), and the example it ships in JavaScript,*)
(* note (examples/pb_functions/note.js).  A history is the sequence of a   *)
(* stream's event types; titles, texts, customer references and line       *)
(* contents are reduced to whether the command's payload passes the        *)
(* decider's checks.                                                       *)
(***************************************************************************)
EXTENDS Naturals, Sequences, SequencesExt

CONSTANT Refusal    \* what a decider returns when it rejects a command

TaskTypes  == {"TaskCreated", "TaskCompleted"}
OrderTypes == {"OrderPlaced", "OrderLineAdded", "OrderConfirmed",
               "OrderCancelled"}
NoteTypes  == {"NoteCreated", "NoteTextChanged", "NoteArchived"}

TaskEvolve(state, type) ==
  CASE type = "TaskCreated"   -> [state EXCEPT !.exists = TRUE]
    [] type = "TaskCompleted" -> [state EXCEPT !.completed = TRUE]
    [] OTHER                  -> state

TaskState(h) ==
  FoldLeft(TaskEvolve, [exists |-> FALSE, completed |-> FALSE], h)

\* valid: the payload parses and names a title.
TaskDecide(name, valid, h) ==
  LET state == TaskState(h)
  IN CASE name = "CreateTask" /\ ~state.exists /\ valid -> <<"TaskCreated">>
       [] name = "CompleteTask" /\ state.exists /\ ~state.completed
            -> <<"TaskCompleted">>
       [] OTHER -> Refusal

OrderEvolve(state, type) ==
  CASE type = "OrderPlaced"    -> [state EXCEPT !.exists = TRUE,
                                                !.status = "open"]
    [] type = "OrderLineAdded" -> [state EXCEPT !.lines = @ + 1]
    [] type = "OrderConfirmed" -> [state EXCEPT !.status = "confirmed"]
    [] type = "OrderCancelled" -> [state EXCEPT !.status = "cancelled"]
    [] OTHER                   -> state

OrderState(h) ==
  FoldLeft(OrderEvolve, [exists |-> FALSE, status |-> "", lines |-> 0], h)

\* valid: the payload parses and passes the field checks.
OrderDecide(name, valid, h) ==
  LET state == OrderState(h)
      open  == state.exists /\ state.status = "open"
  IN CASE name = "PlaceOrder" /\ ~state.exists /\ valid -> <<"OrderPlaced">>
       [] name = "AddOrderLine" /\ open /\ valid   -> <<"OrderLineAdded">>
       [] name = "ConfirmOrder" /\ open /\ state.lines > 0
            -> <<"OrderConfirmed">>
       [] name = "CancelOrder" /\ open             -> <<"OrderCancelled">>
       [] OTHER -> Refusal

NoteEvolve(state, type) ==
  CASE type = "NoteCreated"  -> [state EXCEPT !.exists = TRUE]
    [] type = "NoteArchived" -> [state EXCEPT !.archived = TRUE]
    [] OTHER                 -> state

NoteState(h) ==
  FoldLeft(NoteEvolve, [exists |-> FALSE, archived |-> FALSE], h)

\* valid: the payload has a text.
NoteDecide(name, valid, h) ==
  LET state == NoteState(h)
      open  == state.exists /\ ~state.archived
  IN CASE name = "CreateNote" /\ ~state.exists /\ valid -> <<"NoteCreated">>
       [] name = "ChangeNoteText" /\ open /\ valid -> <<"NoteTextChanged">>
       [] name = "ArchiveNote" /\ open             -> <<"NoteArchived">>
       [] OTHER -> Refusal

-----------------------------------------------------------------------------
(* What the deciders keep true of a history, if each event was decided on   *)
(* exactly the events before it.                                           *)

Count(h, type) == Len(SelectSeq(h, LAMBDA t : t = type))

\* A task is created once, first, and completed at most once.
TaskLifecycle(h) ==
  /\ Count(h, "TaskCreated") = (IF h = << >> THEN 0 ELSE 1)
  /\ h # << >> => h[1] = "TaskCreated"
  /\ Count(h, "TaskCompleted") <= 1

\* An order is placed once, first; once confirmed or cancelled it is closed:
\* the two exclude each other and no line follows; a confirmed order has lines.
OrderLifecycle(h) ==
  /\ Count(h, "OrderPlaced") = (IF h = << >> THEN 0 ELSE 1)
  /\ h # << >> => h[1] = "OrderPlaced"
  /\ \A i \in DOMAIN h :
       h[i] \in {"OrderConfirmed", "OrderCancelled"} => i = Len(h)
  /\ Count(h, "OrderConfirmed") = 1 => Count(h, "OrderLineAdded") > 0
=============================================================================
