----------------------------- MODULE MCErasure -----------------------------
(***************************************************************************)
(* Small instances of Erasure: one person, whose value is brought by a     *)
(* command and read twice.                                                 *)
(***************************************************************************)
EXTENDS Erasure

MCSubjectOf == [r \in Reveals \cup Seals |-> CHOOSE s \in Subjects : TRUE]

OnWriter == [writer |-> TRUE, outbox |-> TRUE, seed |-> "log"]

\* A secondary seeded from the log's checkpoint while the writer destroys keys
\* through an outbox.
Skipping == [writer |-> FALSE, outbox |-> TRUE, seed |-> "log"]

\* Every wiring but that one.
MCWirings == {OnWriter, [OnWriter EXCEPT !.outbox = FALSE],
              [Skipping EXCEPT !.outbox = FALSE], [Skipping EXCEPT !.seed = "own"]}

\* Only that one.
SkippingWiring == {Skipping}
=============================================================================
