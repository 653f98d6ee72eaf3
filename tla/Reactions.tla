----------------------------- MODULE Reactions -----------------------------
(***************************************************************************)
(* The reactors (package reactors, and the JavaScript ones of              *)
(* functions/reactor.go): durable consumers that answer committed events   *)
(* with commands, dispatched through the decider registry into the same    *)
(* log.  A reaction's commandId is derived from the reactor, the causing   *)
(* event and the reaction's index, and a redelivered cause skips what is   *)
(* in the log already.                                                     *)
(*                                                                         *)
(* Delivery is the consumer engine's (module Consumers): one reactor at a  *)
(* time, in log order, at least once.  The append of another caller's      *)
(* command is one step (module EventStore).                                *)
(***************************************************************************)
EXTENDS ReactionPromises

CONSTANTS
  Scripted,        \* the reactors that are JavaScript files
  Users,           \* the commands of other callers
  Histories,       \* the imported logs a behaviour may begin with
  Nobody,          \* no reactor is at work
  MaxFaults        \* bound: crashes and failing operations

ASSUME ReactionsAssumption ==
  /\ Scripted \subseteq Reactors
  /\ Users \subseteq Commands
  /\ \A l \in Histories :
       /\ l \in Seq(Events) /\ Contiguous(l)
       /\ \A p \in DOMAIN l : l[p].by = NoCommand
  /\ MaxFaults \in Nat

VARIABLES
  turn,        \* the delivery under way: whose, which event, which reaction,
               \* and what was decided at which stream length
  issued,      \* the commands of other callers that were applied
  faults       \* bound: faults so far

vars == <<log, checkpoints, turn, issued, refused, dropped, faults>>

Turns == [reactor : Reactors, pos : Nat, index : Nat \ {0},
          step : {"check", "decide", "append", "save"},
          types : Seq(Types), expected : Nat]

TypeOK ==
  /\ log \in Seq(Events)
  /\ checkpoints \in [Reactors -> 0 .. Len(log)]
  /\ turn \in Turns \cup {Nobody}
  /\ issued \subseteq Users
  /\ refused \subseteq Commands \ Users /\ dropped \subseteq Commands \ Users
  /\ faults \in 0 .. MaxFaults

Init ==
  /\ log \in Histories
  /\ checkpoints = [r \in Reactors |-> 0]
  /\ turn = Nobody
  /\ issued = {} /\ refused = {} /\ dropped = {} /\ faults = 0

Fault == faults < MaxFaults /\ faults' = faults + 1

-----------------------------------------------------------------------------
(* A delivery: the engine's Apply, which is Dispatch.                      *)

At(step) == turn # Nobody /\ turn.step = step

Mine == Owed(turn.reactor, turn.pos)

Current == Mine[turn.index]

\* On to the reaction with this index, or to the checkpoint.
GoesTo(index) ==
  turn' = [turn EXCEPT !.index = index,
                       !.step = IF index \in DOMAIN Mine THEN "check" ELSE "save",
                       !.types = << >>, !.expected = 0]

\* The engine hands r the next event; reactTo or React runs.
Deliver(r) ==
  LET p == checkpoints[r] + 1
  IN /\ turn = Nobody /\ p <= Len(log)
     /\ turn' = [reactor |-> r, pos |-> p, index |-> 1,
                 step |-> IF Owed(r, p) = << >> THEN "save" ELSE "check",
                 types |-> << >>, expected |-> 0]
     /\ UNCHANGED <<log, checkpoints, issued, refused, dropped, faults>>

\* A script throws, or returns an unusable dispatch: the delivery is
\* dead-lettered, all of it.
ScriptFails ==
  /\ At("check") /\ turn.index = 1 /\ turn.reactor \in Scripted
  /\ Fault
  /\ dropped' = dropped \cup Range(Mine)
  /\ turn' = [turn EXCEPT !.step = "save"]
  /\ UNCHANGED <<log, checkpoints, issued, refused>>

\* The reaction is in the log after its cause, and skipped, or not; a lookup
\* that fails ends the delivery, and the next pass begins it again.
Check ==
  /\ At("check")
  /\ \/ /\ CommandApplied(log, Current, turn.pos - 1)
        /\ GoesTo(turn.index + 1)
        /\ UNCHANGED faults
     \/ /\ ~CommandApplied(log, Current, turn.pos - 1)
        /\ turn' = [turn EXCEPT !.step = "decide"]
        /\ UNCHANGED faults
     \/ Fault /\ turn' = Nobody
  /\ UNCHANGED <<log, checkpoints, issued, refused, dropped>>

\* Seeded fault: a rejection ends the delivery, to be tried again.
DecideBlocks ==
  LET h == History(log, Current.stream)
      d == Decide(Current, h)
  IN /\ At("decide")
     /\ \/ d = Rejected /\ turn' = Nobody
        \/ d = << >> /\ GoesTo(turn.index + 1)
        \/ /\ d \in Seq(Types) \ {<< >>}
           /\ turn' = [turn EXCEPT !.step = "append", !.types = d,
                                   !.expected = Len(h)]
     /\ UNCHANGED <<log, checkpoints, issued, refused, dropped, faults>>

\* HandleWithMeta decides; a rejection is logged and the next reaction's turn.
DecideReaction ==
  LET h == History(log, Current.stream)
      d == Decide(Current, h)
  IN /\ At("decide")
     /\ \/ /\ d \in {Rejected, << >>}
           /\ refused' = refused \cup {Current}
           /\ GoesTo(turn.index + 1)
        \/ /\ d \in Seq(Types) \ {<< >>}
           /\ turn' = [turn EXCEPT !.step = "append", !.types = d,
                                   !.expected = Len(h)]
           /\ UNCHANGED refused
     /\ UNCHANGED <<log, checkpoints, issued, dropped, faults>>

\* Any other error of it, an unknown aggregate among them, is logged like a
\* rejection: the reaction is lost.
ReactionFails ==
  /\ At("decide") \/ At("append")
  /\ Fault
  /\ dropped' = dropped \cup {Current}
  /\ GoesTo(turn.index + 1)
  /\ UNCHANGED <<log, checkpoints, issued, refused>>

\* Seeded fault: a conflict is logged like a rejection.
AppendOrSkip ==
  /\ At("append")
  /\ log' = IF SequenceMatches(log, Current, turn.expected)
            THEN Appended(log, Current, turn.types, turn.expected) ELSE log
  /\ GoesTo(turn.index + 1)
  /\ UNCHANGED <<checkpoints, issued, refused, dropped, faults>>

\* The append; if the target moved on since the decision, the whole event is
\* tried again by a later pass.
AppendReaction ==
  /\ At("append")
  /\ \/ /\ SequenceMatches(log, Current, turn.expected)
        /\ log' = Appended(log, Current, turn.types, turn.expected)
        /\ GoesTo(turn.index + 1)
     \/ /\ ~SequenceMatches(log, Current, turn.expected)
        /\ turn' = Nobody
        /\ UNCHANGED log
  /\ UNCHANGED <<checkpoints, issued, refused, dropped, faults>>

\* The engine saves the position, or fails to and delivers the event again.
Save ==
  /\ At("save") /\ turn' = Nobody
  /\ \/ checkpoints' = [checkpoints EXCEPT ![turn.reactor] = turn.pos]
        /\ UNCHANGED faults
     \/ Fault /\ UNCHANGED checkpoints
  /\ UNCHANGED <<log, issued, refused, dropped>>

\* Another caller's command is decided and appended.
Issue(c) ==
  LET h == History(log, Target[c])
      d == Decide(c, h)
  IN /\ c \notin issued /\ d \in Seq(Types)
     /\ log' = Appended(log, c, d, Len(h))
     /\ issued' = issued \cup {c}
     /\ UNCHANGED <<checkpoints, turn, refused, dropped, faults>>

\* The process dies and starts again.
Crash ==
  /\ Fault
  /\ turn # Nobody /\ turn' = Nobody
  /\ UNCHANGED <<log, checkpoints, issued, refused, dropped>>

EngineStep ==
  \/ \E r \in Reactors : Deliver(r)
  \/ ScriptFails \/ Check \/ DecideReaction \/ ReactionFails
  \/ AppendReaction \/ Save

Next == EngineStep \/ Crash \/ \E c \in Users : Issue(c)

Spec == Init /\ [][Next]_vars

\* The engine's loop runs, and every pass gives each reactor its turn.
FairSpec ==
  /\ Spec
  /\ WF_vars(EngineStep)
  /\ \A r \in Reactors : SF_vars(Deliver(r))

-----------------------------------------------------------------------------
(* Properties.                                                             *)

\* Reactions that are refused, and other callers that keep moving a target,
\* never hold a reactor up for ever: the whole chain is followed to its end.
EveryoneReacts == <>[](\A r \in Reactors : checkpoints[r] = Len(log))
=============================================================================
