--------------------------- MODULE IndexPromises ---------------------------
(***************************************************************************)
(* What a search index promises of its rows: that they are those of the    *)
(* events its position says, whatever becomes of its key and its file, and *)
(* that an erased subject leaves them.  How they come about is module      *)
(* SearchIndex.                                                            *)
(***************************************************************************)
EXTENDS Naturals, Sequences

CONSTANT Log   \* the script: puts and erasures

VARIABLES
  head,        \* how much of the script is in the log
  rows,        \* search.db: an index's rows
  checkpoints, \* ... each version's consumer's position, 0 for none
  recorded,    \* ... the version searches use, 0 for none
  cursor,      \* ... the ledger's subjects the purge is past
  phase,       \* the process: down, where its wiring is, or up
  registered,  \* ... the versions with a consumer on the engine
  unsound      \* history: an error that the code ignores has happened

\* The subjects whose erasure is in the log.
Erased == {Log[p].subject : p \in {q \in 1 .. head : Log[q].type = "erase"}}

-----------------------------------------------------------------------------
(* Properties.                                                             *)

\* The last put of each row in the first q events.
LastPuts(q) ==
  {p \in 1 .. q : Log[p].type = "put" /\ \A n \in p + 1 .. q :
                    Log[n].type # "put" \/ Log[n].row # Log[p].row}

Wanted(v, q) ==
  {[row |-> Log[p].row, version |-> v, term |-> Log[p].term,
    subject |-> Log[p].subject] : p \in LastPuts(q)}

\* At version v the rows rs are those of the first q events, but for subjects
\* erased by now.
Shows(rs, v, q) ==
  LET mine == {x \in rs : x.version = v}
  IN /\ mine \subseteq Wanted(v, q)
     /\ \A x \in Wanted(v, q) : x.subject \notin Erased => x \in mine

\* Every registered index holds exactly what its position says, or the event
\* after it as well: never silently a part of it, through rotations, rebuilds,
\* restarts, a lost file and a facade that went back, unless it comes to a
\* version a start has seen before (Revisits, see README).
IndexFaithful ==
  phase = "up" /\ ~unsound =>
    \A v \in registered :
      \E q \in {checkpoints[v], checkpoints[v] + 1} :
        q <= head /\ Shows(rows, v, q)

\* When searches move to a newer version, that index is as far as the position
\* the old one had reached: no row that could be found stops being found.
SwitchKeepsUp ==
  [][recorded # 0 /\ recorded' > recorded /\ ~unsound' =>
       \E q \in checkpoints[recorded] .. head : Shows(rows', recorded', q)]_recorded

\* Once every registered index is past an erasure no row of its subject is
\* left at any version, whatever a rebuild or a retired index wrote meanwhile.
\* The checked script appends no put of a subject after its erasure, as a write
\* decided before it may: with one the code leaves its row (see README).
ErasedGone ==
  phase = "up" =>
    \A p \in 1 .. head :
      Log[p].type = "erase" /\ (\A v \in registered : checkpoints[v] >= p)
        => \A x \in rows : x.subject # Log[p].subject

\* "The cursor is saved only after a page's rows are gone": the purge is never
\* past a subject that still has rows.  It holds when the host registers its
\* indexes first, as PurgeErased asks; with the wiring that the docs and the
\* generator give, PurgeFirst, it does not.
PurgeClears == \A x \in rows : x.subject \notin cursor
=============================================================================
