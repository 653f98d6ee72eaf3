------------------------------ MODULE EventLog ------------------------------
(***************************************************************************)
(* The event log, and what the functions of package events compute from a  *)
(* log: the stream a decider folds, its current sequence, the result of an *)
(* append, of a batch commit and of an import, and the commandId lookup.   *)
(* The modules that append to it EXTEND this one.                          *)
(*                                                                         *)
(* The events table is a sequence of records.  position is INTEGER PRIMARY *)
(* KEY AUTOINCREMENT and no statement of the code deletes or updates a row,*)
(* so the event at position p is log[p].  The table's UNIQUE (aggregate,   *)
(* aggregate_id, sequence) is left out: it is a second line of defence that*)
(* is never reached while Contiguous, below, holds.                        *)
(***************************************************************************)
EXTENDS Integers, Sequences, FiniteSets, FiniteSetsExt, SequencesExt

CONSTANTS
  Streams,       \* the streams, one per (aggregate, aggregate id) in use
  AggregateOf,   \* the aggregate name of each stream
  Types,         \* event types; a type stands for the event's type and data
  Commands,      \* the command occurrences of a behaviour (one request each)
  Target,        \* the stream each command addresses
  Decide(_, _),  \* Decide(c, h): what c's decider returns on the history h
  Rejected,      \* ... when it refuses the command
  NoCommand      \* stands for "no commandId in the metadata"

VARIABLE log     \* events.db: the events table, by position

ASSUME StreamsAssumption ==
  /\ IsFiniteSet(Streams)
  /\ DOMAIN AggregateOf = Streams

ASSUME CommandsAssumption ==
  /\ Target \in [Commands -> Streams]
  /\ NoCommand \notin Commands

\* A decider's answer is either a list of events or a refusal.
ASSUME RejectedAssumption == Rejected \notin Seq(Types)

Events == [stream   : Streams,
           seq      : Nat \ {0},
           type     : Types,
           by       : Commands \cup {NoCommand},
           imported : BOOLEAN]

-----------------------------------------------------------------------------
(* Reading a log.                                                          *)

\* The positions of stream s in the log l.
StreamOf(l, s) == {p \in DOMAIN l : l[p].stream = s}

\* The number of rows LoadStream returns for s: the sequence a command is
\* decided at.
Length(l, s) == Cardinality(StreamOf(l, s))

\* SELECT COALESCE(MAX(sequence), 0): what Append compares that number with.
CurrentSequence(l, s) ==
  CHOOSE n \in {l[p].seq : p \in StreamOf(l, s)} \cup {0} :
    \A p \in StreamOf(l, s) : l[p].seq <= n

\* What LoadStream hands to the fold: the types of s ORDER BY sequence.  The
\* n-th row is the one numbered n because sequences are contiguous, which is
\* the invariant Contiguous below.
History(l, s) ==
  [n \in 1 .. Length(l, s) |->
     l[CHOOSE p \in StreamOf(l, s) : l[p].seq = n].type]

\* Seeded fault: the resume lookup never finds a command.
CommandNeverApplied(l, c, after) == FALSE

\* CommandApplied: an event stamped with c exists in c's stream after the
\* position the caller bounds the scan by.
CommandApplied(l, c, after) ==
  \E p \in StreamOf(l, Target[c]) : p > after /\ l[p].by = c

\* Poll: the events after a position, oldest first, at most limit of them.
Poll(l, after, limit) == SubSeq(l, after + 1, Min({after + limit, Len(l)}))

-----------------------------------------------------------------------------
(* Writing it.                                                             *)

\* The rows Append and CommitBatch insert for one command: sequences count on
\* from the one the command was decided at, and no import marker
\* (checkNotImported refuses a native event that carries it).
Stamped(c, types, base) ==
  [i \in 1 .. Len(types) |->
     [stream |-> Target[c], seq |-> base + i, type |-> types[i],
      by |-> c, imported |-> FALSE]]

\* The check both make under the store's mutex.
SequenceMatches(l, c, expected) == CurrentSequence(l, Target[c]) = expected

Appended(l, c, types, expected) == l \o Stamped(c, types, expected)

\* The entries of a batch before entry i that are of its stream.
Earlier(batch, i) ==
  {j \in 1 .. i - 1 : Target[batch[j].cmd] = Target[batch[i].cmd]}

\* CommitBatch's validation pass finds every command's sequence right: the
\* first one of a stream is compared with the table, each further one with the
\* running sequence the one before it leaves.
SequencesMatch(l, batch) ==
  \A i \in 1 .. Len(batch) :
    /\ Earlier(batch, i) = {} =>
         batch[i].expected = CurrentSequence(l, Target[batch[i].cmd])
    /\ \A j \in Earlier(batch, i) :
         (\A k \in Earlier(batch, i) : k <= j) =>
           batch[i].expected = batch[j].expected + Len(batch[j].types)

\* checkImportCollisions: refuse if the log holds any stream of an aggregate
\* the batch names (which covers the exact-stream collision).
ImportCollides(l, batch) ==
  \E p \in DOMAIN l, i \in DOMAIN batch :
    AggregateOf[l[p].stream] = AggregateOf[batch[i].stream]

\* Seeded fault: imported events are numbered by their place in the batch.
ImportedRenumbered(l, batch) ==
  l \o [i \in 1 .. Len(batch) |->
          [batch[i] EXCEPT !.imported = TRUE, !.seq = i]]

\* ImportEvents keeps each event's own sequence and marks it imported.
Imported(l, batch) ==
  l \o [i \in 1 .. Len(batch) |-> [batch[i] EXCEPT !.imported = TRUE]]

-----------------------------------------------------------------------------
(* What every log the code writes looks like.                              *)

\* Each stream is numbered 1, 2, ... without gaps or repeats, and in the order
\* of the positions.
Numbered(l, s) ==
  /\ {l[p].seq : p \in StreamOf(l, s)} = 1 .. Length(l, s)
  /\ \A p, q \in StreamOf(l, s) : p < q => l[p].seq < l[q].seq

Contiguous(l) == \A s \in Streams : Numbered(l, s)

\* The rows stamped with c.
RowsOf(l, c) == {p \in DOMAIN l : l[p].by = c}

\* They are exactly types, adjacent, in order and once.
Holds(l, c, types) ==
  \E base \in 0 .. Len(l) - Len(types) :
    /\ RowsOf(l, c) = base + 1 .. base + Len(types)
    /\ \A i \in 1 .. Len(types) : l[base + i].type = types[i]
=============================================================================
