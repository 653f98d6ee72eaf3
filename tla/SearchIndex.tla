---------------------------- MODULE SearchIndex ----------------------------
(***************************************************************************)
(* A read model's hashed search index (package searchindex): rows of keyed *)
(* hashes in search.db, beside the positions of the consumers that write   *)
(* them, the key version searches use and a cursor into the facade's       *)
(* erasure ledger.  A rotated index key is noticed at startup, and a second*)
(* consumer rebuilds at the new version beside the live one.               *)
(*                                                                         *)
(* A plain index is the same without versions.  A hash is its term and its *)
(* version, a field's value its subject and its term; the log is a script  *)
(* that is appended to event by event.  The engine gives one consumer at a *)
(* time its turn (module Consumers).                                       *)
(***************************************************************************)
EXTENDS IndexPromises, FiniteSets

CONSTANTS
  MaxVersion,    \* bound: versions of the index key
  PurgeFirst,    \* the host purges before it registers its indexes
  Revisits,      \* the facade may come back to a version a start has seen before
  Nobody,        \* no consumer is at work
  MaxStops,      \* bound: times the process stops
  MaxFaults      \* bound: failing operations and a lost file

Versions == 1 .. MaxVersion

Subjects == {Log[p].subject : p \in DOMAIN Log}

Rows == {Log[p].row : p \in {q \in DOMAIN Log : Log[q].type = "put"}}

Terms == {Log[p].term : p \in {q \in DOMAIN Log : Log[q].type = "put"}}

ASSUME SearchIndexAssumption ==
  /\ Len(Log) \in Nat /\ DOMAIN Log = 1 .. Len(Log)
  /\ \A p \in DOMAIN Log : Log[p].type \in {"put", "erase"}
  /\ MaxVersion \in Nat \ {0}
  /\ PurgeFirst \in BOOLEAN /\ Revisits \in BOOLEAN
  /\ MaxStops \in Nat /\ MaxFaults \in Nat

VARIABLES
  latest,      \* the facade: the index key's version
  restored,    \* ... it has been restored from an older backup
  destroyed,   \* ... the subjects in its erasure ledger
  cached,      \* the process: those of them its plaintext cache may still hold
  target,      \* ... the key version read when it registered the index
  replaced,    \* ... the live version a rebuild is to replace, 0 for none
  active,      \* ... Store.active
  spent,       \* ... switchOver's once
  turn,        \* ... whose turn it is, and how far its event has got
  stops,       \* bound: stops so far
  faults       \* bound: faults so far

vars == <<head, latest, restored, destroyed, cached, rows, checkpoints,
          recorded, cursor, phase, target, replaced, active, registered, spent, turn,
          unsound, stops, faults>>

facade  == <<latest, restored, destroyed, cached>>
wiring  == <<target, replaced, active, registered, spent>>

IndexRows == [row : Rows, version : Versions, term : Terms, subject : Subjects]

Turns == [version : Versions, pos : 1 .. Len(Log),
          known : BOOLEAN, step : {"write", "check", "retire", "clear", "save"}]

TypeOK ==
  /\ head \in 0 .. Len(Log)
  /\ latest \in Versions /\ restored \in BOOLEAN /\ destroyed \subseteq Subjects
  /\ cached \subseteq destroyed
  /\ rows \subseteq IndexRows
  /\ checkpoints \in [Versions -> 0 .. head]
  /\ recorded \in Versions \cup {0}
  /\ cursor \subseteq destroyed
  /\ phase \in {"down", "purge", "register", "emptied", "up"}
  /\ target \in Versions \cup {0} /\ replaced \in Versions \cup {0}
  /\ active \in Versions \cup {0} /\ registered \subseteq Versions
  /\ spent \in BOOLEAN
  /\ turn \in Turns \cup {Nobody}
  /\ unsound \in BOOLEAN
  /\ stops \in 0 .. MaxStops /\ faults \in 0 .. MaxFaults

Init ==
  /\ head = 0
  /\ latest = 1 /\ restored = FALSE /\ destroyed = {} /\ cached = {}
  /\ rows = {} /\ checkpoints = [v \in Versions |-> 0] /\ recorded = 0
  /\ cursor = {}
  /\ phase = "down" /\ target = 0 /\ replaced = 0 /\ active = 0
  /\ registered = {} /\ spent = FALSE /\ turn = Nobody
  /\ unsound = FALSE /\ stops = 0 /\ faults = 0

Fault == faults < MaxFaults /\ faults' = faults + 1

-----------------------------------------------------------------------------
(* Around the process: the log and the facade.                             *)

AppendEvent ==
  /\ head < Len(Log) /\ head' = head + 1
  /\ UNCHANGED <<facade, rows, checkpoints, recorded, cursor, phase, wiring,
                 turn, unsound, stops, faults>>

\* The writer's key destroyer has got to an erasure.  A plaintext that was
\* revealed before may be in the cache until it is evicted (module Erasure),
\* which is left open here: it is taken to be there for as long as it could.
Destroy(s) ==
  /\ s \in Erased \ destroyed
  /\ destroyed' = destroyed \cup {s}
  /\ cached' = IF phase = "up" THEN cached \cup {s} ELSE cached
  /\ UNCHANGED <<head, latest, restored, rows, checkpoints, recorded, cursor,
                 phase, wiring, turn, unsound, stops, faults>>

Rotate ==
  /\ latest + 1 \in Versions /\ latest' = latest + 1
  /\ restored => Revisits
  /\ UNCHANGED <<head, restored, destroyed, cached, rows, checkpoints, recorded,
                 cursor, phase, wiring, turn, unsound, stops, faults>>

\* The facade comes back from a backup taken before its last rotation.  The
\* version may be one that a rebuild was begun at and given up for the next.
Restore ==
  /\ ~restored /\ restored' = TRUE
  /\ latest > 1 /\ latest' = latest - 1
  /\ recorded \in 1 .. latest - 2 => Revisits
  /\ UNCHANGED <<head, destroyed, cached, rows, checkpoints, recorded, cursor,
                 phase, wiring, turn, unsound, stops, faults>>

-----------------------------------------------------------------------------
(* Startup.                                                                *)

Boot ==
  /\ phase = "down"
  /\ phase' = IF PurgeFirst THEN "purge" ELSE "register"
  /\ UNCHANGED <<head, facade, rows, checkpoints, recorded, cursor, wiring,
                 turn, unsound, stops, faults>>

AfterPurge == IF PurgeFirst THEN "register" ELSE "up"

AfterRegister == IF PurgeFirst THEN "up" ELSE "purge"

\* DeleteSubjects, in the tables this store has opened.
Purged == {x \in rows : registered # {} => x.subject \notin destroyed \ cursor}

\* Seeded fault: the cursor is saved before a page's rows are deleted.
PurgeCursorFirst ==
  /\ phase = "purge"
  /\ cursor' = destroyed
  /\ \/ /\ rows' = Purged
        /\ phase' = AfterPurge /\ registered' = registered /\ UNCHANGED faults
     \/ Fault /\ phase' = "down" /\ registered' = {} /\ UNCHANGED rows
  /\ UNCHANGED <<head, facade, checkpoints, recorded, target, replaced, active,
                 spent, turn, unsound, stops>>

\* PurgeErased: the rows of the ledger's subjects after the cursor go and the
\* cursor moves on.  If either fails the process does not start.
PurgeErased ==
  /\ phase = "purge"
  /\ \/ /\ rows' = Purged
        /\ cursor' = destroyed
        /\ phase' = AfterPurge /\ registered' = registered /\ UNCHANGED faults
     \/ /\ Fault /\ phase' = "down" /\ registered' = {}
        /\ rows' \in {rows, Purged} /\ UNCHANGED cursor
  /\ UNCHANGED <<head, facade, checkpoints, recorded, target, replaced, active,
                 spent, turn, unsound, stops>>

RowsAt(versions) == {x \in rows : x.version \in versions}

\* setActive, and one consumer on the engine.
Serves(v) ==
  /\ active' = v /\ registered' = {v} /\ replaced' = 0 /\ spent' = FALSE
  /\ phase' = AfterRegister

Fails ==
  /\ Fault /\ phase' = "down"
  /\ UNCHANGED <<active, registered, replaced, spent>>

NeedsBuild == recorded = 0 \/ recorded > latest

\* Register, never built or recorded above the latest version: the tables are
\* truncated ...
Empty ==
  /\ phase = "register" /\ NeedsBuild
  /\ rows' = {} /\ target' = latest /\ phase' = "emptied"
  /\ UNCHANGED <<head, facade, checkpoints, recorded, cursor, replaced, active,
                 registered, spent, turn, unsound, stops, faults>>

\* ... the positions dropped, an error doing so ignored, and the version
\* recorded.
Build ==
  /\ phase = "emptied"
  /\ \/ /\ checkpoints' = [v \in Versions |->
                             IF v \in {recorded, target} THEN 0 ELSE checkpoints[v]]
        /\ recorded' = target /\ Serves(target)
        /\ UNCHANGED <<unsound, faults>>
     \/ /\ Fault /\ unsound' = TRUE
        /\ recorded' = target /\ Serves(target)
        /\ UNCHANGED checkpoints
     \/ /\ checkpoints' = [v \in Versions |->
                             IF v \in {recorded, target} THEN 0 ELSE checkpoints[v]]
        /\ Fails
        /\ UNCHANGED <<recorded, unsound>>
  /\ UNCHANGED <<head, facade, rows, cursor, target, turn, stops>>

\* Register, at the latest version: other versions' rows go.
Continue ==
  /\ phase = "register" /\ recorded = latest
  /\ target' = latest
  /\ \/ rows' = RowsAt({latest}) /\ Serves(latest) /\ UNCHANGED faults
     \/ Fails /\ UNCHANGED rows
  /\ UNCHANGED <<head, facade, checkpoints, recorded, cursor, turn, unsound,
                 stops>>

Rotated == phase = "register" /\ recorded \in 1 .. latest - 1

\* Register, rotated: the rebuild is registered beside the live index, or
\* catches up here and now.  The live position counts as 0 when its read fails.
Rebuild ==
  /\ Rotated
  /\ checkpoints[latest] < checkpoints[recorded]
  /\ rows' = RowsAt({recorded, latest})
  /\ target' = latest /\ replaced' = recorded /\ active' = recorded
  /\ registered' = {recorded, latest} /\ spent' = FALSE
  /\ phase' = AfterRegister
  /\ UNCHANGED <<head, facade, checkpoints, recorded, cursor, turn, unsound,
                 stops, faults>>

\* switchOver from Register, with the error of dropping the position ignored.
SwitchAtStart ==
  /\ Rotated
  /\ target' = latest
  /\ \/ /\ checkpoints[latest] >= checkpoints[recorded]
        /\ \/ /\ rows' = RowsAt({latest}) /\ recorded' = latest /\ Serves(latest)
              /\ checkpoints' = [checkpoints EXCEPT ![recorded] = 0]
              /\ UNCHANGED faults
           \/ /\ rows' = RowsAt({latest}) /\ recorded' = latest /\ Serves(latest)
              /\ Fault /\ UNCHANGED checkpoints
           \/ /\ rows' = RowsAt({recorded, latest})
              /\ recorded' \in {recorded, latest}
              /\ Fails /\ UNCHANGED checkpoints
        /\ UNCHANGED unsound
     \/ /\ checkpoints[latest] < checkpoints[recorded]
        /\ Fault /\ unsound' = TRUE
        /\ rows' = RowsAt({latest}) /\ recorded' = latest /\ Serves(latest)
        /\ checkpoints' = [checkpoints EXCEPT ![recorded] = 0]
  /\ UNCHANGED <<head, facade, cursor, turn, stops>>

-----------------------------------------------------------------------------
(* One event of one consumer: hashedIndex.Apply, then the engine's save.   *)

At(step) == turn # Nobody /\ turn.step = step

Goes(step) == turn' = [turn EXCEPT !.step = step]

Event == Log[turn.pos]

\* A value of subject s may be revealed: its key lives, or the cache has it.
\* The cache may hold one value of a subject and not another.
Knowable(s) == IF s \notin destroyed THEN {TRUE}
               ELSE IF s \in cached THEN BOOLEAN ELSE {FALSE}

\* The engine hands the consumer its next event.  A put's value is revealed, if
\* it can be, and hashed at the consumer's version: an error, and no step here,
\* while the facade has no such version.
Deliver(v) ==
  LET p == checkpoints[v] + 1
  IN /\ phase = "up" /\ turn = Nobody /\ v \in registered /\ p <= head
     /\ \E known \in Knowable(Log[p].subject) :
          /\ Log[p].type = "put" /\ known => v <= latest
          /\ turn' = [version |-> v, pos |-> p, step |-> "write", known |-> known]
     /\ UNCHANGED <<head, facade, rows, checkpoints, recorded, cursor, phase,
                    wiring, unsound, stops, faults>>

\* A record's rows at this version are replaced, in one transaction.
Replaced ==
  {x \in rows : x.row # Event.row \/ x.version # turn.version} \cup
  {[row |-> Event.row, version |-> turn.version, term |-> Event.term,
    subject |-> Event.subject] : k \in {n \in {1} : turn.known}}

\* Seeded fault: only the consumer's own version is cleared of the subject.
WriteOwnVersion ==
  /\ At("write")
  /\ rows' = IF Event.type = "put" THEN Replaced
             ELSE {x \in rows : x.subject # Event.subject
                                \/ x.version # turn.version}
  /\ Goes(IF turn.version = target /\ replaced # 0 THEN "check" ELSE "save")
  /\ UNCHANGED <<head, facade, checkpoints, recorded, cursor, phase, wiring,
                 unsound, stops, faults>>

\* Seeded fault: a record's rows are added to those of its earlier events.
WriteAdds ==
  /\ At("write")
  /\ rows' = IF Event.type = "put" THEN rows \cup Replaced
             ELSE {x \in rows : x.subject # Event.subject}
  /\ Goes(IF turn.version = target /\ replaced # 0 THEN "check" ELSE "save")
  /\ UNCHANGED <<head, facade, checkpoints, recorded, cursor, phase, wiring,
                 unsound, stops, faults>>

\* The rows of a put; DeleteSubjects, at every version, of an erasure.
Write ==
  /\ At("write")
  /\ \/ /\ Event.type = "put" /\ rows' = Replaced
        /\ Goes(IF turn.version = target /\ replaced # 0 THEN "check" ELSE "save")
        /\ UNCHANGED faults
     \/ /\ Event.type = "erase"
        /\ rows' = {x \in rows : x.subject # Event.subject}
        /\ Goes(IF turn.version = target /\ replaced # 0 THEN "check" ELSE "save")
        /\ UNCHANGED faults
     \/ Fault /\ turn' = Nobody /\ UNCHANGED rows
  /\ UNCHANGED <<head, facade, checkpoints, recorded, cursor, phase, wiring,
                 unsound, stops>>

\* Seeded fault: every call after the first switch-over is an error.
SwitchOnce ==
  /\ At("check")
  /\ \/ turn.pos < checkpoints[replaced] /\ Goes("save")
        /\ UNCHANGED <<recorded, active, registered, spent>>
     \/ /\ turn.pos >= checkpoints[replaced] /\ spent /\ turn' = Nobody
        /\ UNCHANGED <<recorded, active, registered, spent>>
     \/ /\ turn.pos >= checkpoints[replaced] /\ ~spent /\ spent' = TRUE
        /\ recorded' = target /\ active' = target /\ registered' = {target}
        /\ Goes("retire")
  /\ UNCHANGED <<head, facade, rows, checkpoints, cursor, phase, target, replaced,
                 unsound, stops, faults>>

\* Seeded fault: the rebuild takes over with its first event.
SwitchAnyTime ==
  /\ At("check")
  /\ \/ spent /\ Goes("save") /\ UNCHANGED <<recorded, active, registered, spent>>
     \/ /\ ~spent /\ spent' = TRUE
        /\ recorded' = target /\ active' = target /\ registered' = {target}
        /\ Goes("retire")
  /\ UNCHANGED <<head, facade, rows, checkpoints, cursor, phase, target, replaced,
                 unsound, stops, faults>>

\* onApplied: once the rebuild has reached the live index's position, and only
\* the first time, the version is recorded and searches move to it; the live
\* consumer is retired.
Switch ==
  /\ At("check")
  /\ \/ /\ turn.pos < checkpoints[replaced] \/ spent
        /\ Goes("save")
        /\ UNCHANGED <<recorded, active, registered, spent, faults>>
     \/ /\ turn.pos >= checkpoints[replaced] /\ ~spent
        /\ spent' = TRUE
        /\ \/ /\ recorded' = target /\ active' = target /\ registered' = {target}
              /\ Goes("retire") /\ UNCHANGED faults
           \/ Fault /\ turn' = Nobody /\ UNCHANGED <<recorded, active, registered>>
     \/ Fault /\ turn' = Nobody /\ UNCHANGED <<recorded, active, registered, spent>>
  /\ UNCHANGED <<head, facade, rows, checkpoints, cursor, phase, target, replaced,
                 unsound, stops>>

\* The live consumer's position is dropped; an error is ignored.
Retire ==
  /\ At("retire") /\ Goes("clear")
  /\ \/ checkpoints' = [checkpoints EXCEPT ![replaced] = 0] /\ UNCHANGED faults
     \/ Fault /\ UNCHANGED checkpoints
  /\ UNCHANGED <<head, facade, rows, recorded, cursor, phase, wiring, unsound,
                 stops>>

\* Its rows are deleted; an error has the event delivered again.
Clear ==
  /\ At("clear")
  /\ \/ rows' = RowsAt({target}) /\ Goes("save") /\ UNCHANGED faults
     \/ Fault /\ turn' = Nobody /\ UNCHANGED rows
  /\ UNCHANGED <<head, facade, checkpoints, recorded, cursor, phase, wiring,
                 unsound, stops>>

\* The engine saves the position, or fails to and delivers the event again.
Save ==
  /\ At("save") /\ turn' = Nobody
  /\ \/ checkpoints' = [checkpoints EXCEPT ![turn.version] = turn.pos]
        /\ UNCHANGED faults
     \/ Fault /\ UNCHANGED checkpoints
  /\ UNCHANGED <<head, facade, rows, recorded, cursor, phase, wiring, unsound,
                 stops>>

\* The process stops, wherever it is.
Stop ==
  /\ phase # "down" /\ stops < MaxStops /\ stops' = stops + 1
  /\ phase' = "down" /\ registered' = {} /\ turn' = Nobody /\ cached' = {}
  /\ UNCHANGED <<head, latest, restored, destroyed, rows, checkpoints, recorded,
                 cursor, target, replaced, active, spent, unsound, faults>>

\* search.db is lost while the process is down.
LoseFile ==
  /\ phase = "down" /\ Fault
  /\ rows' = {} /\ checkpoints' = [v \in Versions |-> 0] /\ recorded' = 0
  /\ cursor' = {}
  /\ UNCHANGED <<head, facade, phase, wiring, turn, unsound, stops>>

Startup == Boot \/ PurgeErased \/ Empty \/ Build \/ Continue \/ Rebuild \/ SwitchAtStart

Apply == Write \/ Switch \/ Retire \/ Clear \/ Save

Next ==
  \/ AppendEvent \/ Rotate \/ Restore \/ \E s \in Subjects : Destroy(s)
  \/ Startup \/ Apply \/ \E v \in Versions : Deliver(v)
  \/ Stop \/ LoseFile

Spec == Init /\ [][Next]_vars

\* A process that is down is started, and its engine's passes give each
\* consumer its turn.
FairSpec ==
  /\ Spec
  /\ WF_vars(Startup) /\ WF_vars(Apply)
  /\ \A v \in Versions : SF_vars(Deliver(v))

-----------------------------------------------------------------------------
(* Properties.                                                             *)

\* Searches are served again, every index catches up with the log, and a
\* rebuild takes over from the live one: through failures, restarts, a lost
\* file and a key that rotates meanwhile.  Two things hold it up until the next
\* start: a facade that went back behind an index's version while it was up,
\* and a switch-over whose one try failed.
SearchCatchesUp ==
  <>[](/\ phase = "up" /\ active \in registered
       /\ \A v \in registered : v <= latest => checkpoints[v] = head
       /\ target <= latest => active = target \/ spent)
=============================================================================
