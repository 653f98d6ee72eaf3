----------------------------- MODULE EventStore -----------------------------
(***************************************************************************)
(* The event store under concurrent callers (events/events.go, and         *)
(* decider.Registry.HandleWithMeta in decider/decider.go).                 *)
(*                                                                         *)
(* A caller loads a stream, folds it and decides, all without a lock       *)
(* (DecideWithMeta), and then appends under the store's mutex (Append),    *)
(* which refuses if the stream moved in between.  `pocketcqrs events       *)
(* import` runs ImportEvents against the same file at any moment.          *)
(***************************************************************************)
EXTENDS EventLog

CONSTANTS
  Imports    \* batches an import may bring, as packs.ExportEvents writes them

\* An export file holds whole streams, each in sequence order.
ASSUME ImportsAssumption ==
  \A b \in Imports : b \in Seq(Events) /\ b # << >> /\ Contiguous(b)

VARIABLES
  pc,        \* pc[c]: where the call handling c is, or how it ended
  decision,  \* decision[c]: the events decided and not yet appended
  expected   \* expected[c]: the stream length they were decided at

vars == <<log, pc, decision, expected>>

Answers == {"ok", "rejected", "conflict", "failed"}

TypeOK ==
  /\ log \in Seq(Events)
  /\ pc \in [Commands -> {"new", "decided"} \cup Answers]
  /\ decision \in [Commands -> Seq(Types)]
  /\ expected \in [Commands -> Nat]

Init ==
  /\ log = << >>
  /\ pc = [c \in Commands |-> "new"]
  /\ decision = [c \in Commands |-> << >>]
  /\ expected = [c \in Commands |-> 0]

-----------------------------------------------------------------------------

\* DecideWithMeta: load, fold, decide.  A rejection or an empty decision ends
\* the call; otherwise the caller holds the events and the stream length.
DecideWithMeta(c) ==
  LET h == History(log, Target[c])
      d == Decide(c, h)
  IN /\ pc[c] = "new"
     /\ \/ /\ d = Rejected
           /\ pc' = [pc EXCEPT ![c] = "rejected"]
           /\ UNCHANGED <<decision, expected>>
        \/ /\ d = << >>
           /\ pc' = [pc EXCEPT ![c] = "ok"]
           /\ UNCHANGED <<decision, expected>>
        \/ /\ d \in Seq(Types) \ {<< >>}
           /\ pc' = [pc EXCEPT ![c] = "decided"]
           /\ decision' = [decision EXCEPT ![c] = d]
           /\ expected' = [expected EXCEPT ![c] = Length(log, Target[c])]
     /\ UNCHANGED log

\* Seeded fault: the append numbers from wherever the stream is by now.
AppendAtCurrent(c) ==
  /\ pc[c] = "decided"
  /\ log' = Appended(log, c, decision[c], CurrentSequence(log, Target[c]))
  /\ pc' = [pc EXCEPT ![c] = "ok"]
  /\ UNCHANGED <<decision, expected>>

\* Append's transaction commits.
AppendDecided(c) ==
  /\ pc[c] = "decided"
  /\ SequenceMatches(log, c, expected[c])
  /\ log' = Appended(log, c, decision[c], expected[c])
  /\ pc' = [pc EXCEPT ![c] = "ok"]
  /\ UNCHANGED <<decision, expected>>

\* Append finds the stream at another sequence: ErrConcurrency.
AppendConflict(c) ==
  /\ pc[c] = "decided"
  /\ ~SequenceMatches(log, c, expected[c])
  /\ pc' = [pc EXCEPT ![c] = "conflict"]
  /\ UNCHANGED <<log, decision, expected>>

\* Seeded fault: an error after the inserts leaves the rows behind.
PlatformFaultKeepsRows(c) ==
  /\ pc[c] \in {"new", "decided"}
  /\ pc' = [pc EXCEPT ![c] = "failed"]
  /\ log' = IF pc[c] = "decided" /\ SequenceMatches(log, c, expected[c])
            THEN Appended(log, c, decision[c], expected[c])
            ELSE log
  /\ UNCHANGED <<decision, expected>>

\* The load, the fold, the append or its commit fails (the database stays
\* locked, the request is cancelled, the decider faults): the transaction is
\* rolled back and the caller gets the error.
PlatformFault(c) ==
  /\ pc[c] \in {"new", "decided"}
  /\ pc' = [pc EXCEPT ![c] = "failed"]
  /\ UNCHANGED <<log, decision, expected>>

\* ImportEvents: the collision check and the inserts, one transaction.
ImportEvents(b) ==
  /\ ~ImportCollides(log, b)
  /\ log' = Imported(log, b)
  /\ UNCHANGED <<pc, decision, expected>>

Next ==
  \/ \E c \in Commands : \/ DecideWithMeta(c) \/ AppendDecided(c)
                         \/ AppendConflict(c) \/ PlatformFault(c)
  \/ \E b \in Imports : ImportEvents(b)

Spec == Init /\ [][Next]_vars

-----------------------------------------------------------------------------
(* Properties.                                                             *)

\* Every stream is numbered 1, 2, ... in the order of the log, whatever
\* appends and imports interleave: "Sequences are 1-based and contiguous"
\* (Append's comment), which is what makes the length a decider folded
\* comparable with MAX(sequence).
StreamsContiguous == Contiguous(log)

\* The log holds a command's events exactly when its caller was told "ok",
\* and then it holds exactly the decided ones, adjacent, in order, once: a
\* caller told of a conflict or a failure may safely send the command again.
AnswersMatchLog ==
  \A c \in Commands :
    LET mine == {p \in DOMAIN log : log[p].by = c /\ ~log[p].imported}
    IN IF pc[c] = "ok" /\ decision[c] # << >>
       THEN \E base \in 0 .. Len(log) - Len(decision[c]) :
              /\ mine = base + 1 .. base + Len(decision[c])
              /\ \A i \in 1 .. Len(decision[c]) :
                   log[base + i].type = decision[c][i]
       ELSE mine = {}

\* Committed events are never changed, removed or moved: consumers keep a
\* position and rely on everything before it staying what they saw.
AppendOnly == [][IsPrefix(log, log')]_log

\* The store implements AtomicStore: although a caller decides on a stream it
\* read without a lock, every accepted command appears decided and appended in
\* one step on the then-current history, and a rejection was true of it too.
historyBar == [s \in Streams |-> History(log, s)]

answerBar == [c \in Commands |->
                IF pc[c] \in {"new", "decided"} THEN "none" ELSE pc[c]]

Atomic == INSTANCE AtomicStore WITH history <- historyBar, answer <- answerBar

AtomicSpec == Atomic!Spec
=============================================================================
