----------------------------- MODULE Consumers -----------------------------
(***************************************************************************)
(* The consumers engine (consumers/consumers.go) and where its consumers   *)
(* keep their positions: the engine's checkpoint table                     *)
(* (events.Store.SaveCheckpoint), or their own data.db in one transaction  *)
(* with their rows (projections.Commit, projections.Positions), with       *)
(* rebuild requests beside them (projections.RebuildRequests).             *)
(*                                                                         *)
(* One goroutine runs the passes.  Meanwhile events are committed and      *)
(* imported, rebuilds are requested by other processes, a reload swaps     *)
(* consumers, the process is asked to stop, or dies.  A pass also starts   *)
(* on a tick when no event nudged the engine, so nudges are left out: they *)
(* only make it start sooner.                                              *)
(***************************************************************************)
EXTENDS Naturals, Sequences, FiniteSets, FiniteSetsExt, SequencesExt

CONSTANTS
  Names,        \* the consumers, by checkpoint name
  Boot,         \* the order they are registered in when the process starts
  Committers,   \* ... those that commit rows and position together
  Projections,  \* ... those that own collections, which can be rebuilt
  Effects,      \* ... those that act on the world
  Poison,       \* <<c, p>>: consumer c fails on the event at p every time
  Limit,        \* Poll's batch size
  None,         \* no position recorded, no progress recorded
  MaxLog,       \* bound: events in the log
  MaxSpent      \* bound: rebuild requests, reloads, graceful stops, crashes
                \* and failing store operations together

ASSUME NamesAssumption ==
  /\ IsFiniteSet(Names)
  /\ Committers \subseteq Names /\ Projections \subseteq Names
  /\ Effects \subseteq Names \ Projections
  /\ Boot \in Seq(Names) /\ IsInjective(Boot)
  /\ None \notin Nat

ASSUME BoundsAssumption ==
  /\ Limit \in Nat \ {0}
  /\ {MaxLog, MaxSpent} \subseteq Nat

VARIABLES
  log,         \* events.db: whether the event at each position is imported
  checkpoint,  \* ... its projection_checkpoints table, 0 for no row
  own,         \* own[c]: a committer's position in data.db, None for no row
  rows,        \* rows[c]: what c has done, oldest first; a wipe removes rows
  requests,    \* data.db: the rebuild requests
  registered,  \* Engine.consumers
  progress,    \* Engine.progress
  phase,       \* where the loop is
  rebuilding,  \* takeRebuilds: the requests this pass has still to act on
  todo,        \* runOnce: the consumers whose turn is still to come
  pos,         \* runOnceFor: the local position
  batch,       \* runOnceFor: the polled positions not delivered yet
  blocked,     \* runOnceFor: no event has got through since one failed
  stopping,    \* the stop context is done
  spent        \* bound: requests, reloads, stops and faults so far

vars == <<log, checkpoint, own, rows, requests, registered, progress, phase,
          rebuilding, todo, pos, batch, blocked, stopping, spent>>

durable == <<log, checkpoint, own, rows, requests>>
turn    == <<rebuilding, todo, pos, batch, blocked>>

Phases == {"idle", "wipe", "reset", "takeoff", "load", "poll", "deliver",
           "save", "stopped"}

\* What a consumer did with the event at a position.
Deeds == [at : Nat \ {0}, how : {"applied", "folded"}]

Progress == [pos : Nat, pending : BOOLEAN, blocked : BOOLEAN]

Budget == [requests : Nat, reloads : Nat, stops : Nat, faults : Nat]

TypeOK ==
  /\ log \in Seq({"native", "imported"})
  /\ checkpoint \in [Names -> Nat]
  /\ own \in [Committers -> Nat \cup {None}]
  /\ rows \in [Names -> Seq(Deeds)]
  /\ requests \subseteq Names
  /\ registered \in Seq(Names) /\ IsInjective(registered)
  /\ progress \in [Names -> Progress \cup {None}]
  /\ phase \in Phases
  /\ rebuilding \in Seq(Names) /\ todo \in Seq(Names)
  /\ pos \in Nat /\ batch \in Seq(Nat) /\ blocked \in BOOLEAN
  /\ stopping \in BOOLEAN
  /\ spent \in Budget

Init ==
  /\ log = << >>
  /\ checkpoint = [c \in Names |-> 0]
  /\ own = [c \in Committers |-> None]
  /\ rows = [c \in Names |-> << >>]
  /\ requests = {}
  /\ registered = Boot
  /\ progress = [c \in Names |-> None]
  /\ phase = "idle" /\ rebuilding = << >> /\ todo = << >>
  /\ pos = 0 /\ batch = << >> /\ blocked = FALSE
  /\ stopping = FALSE
  /\ spent = [requests |-> 0, reloads |-> 0, stops |-> 0, faults |-> 0]

Spend(what) ==
  /\ MapThenSumSet(LAMBDA w : spent[w], DOMAIN spent) < MaxSpent
  /\ spent' = [spent EXCEPT ![what] = @ + 1]

Fault == Spend("faults")

\* position: a committer's own position, or the engine's for it while it has
\* none of its own yet.
Position(c) ==
  IF c \in Committers /\ own[c] # None THEN own[c] ELSE checkpoint[c]

\* SaveCheckpoint on the store checkpointsFor picks.
Save(c, p) ==
  IF c \in Committers
  THEN own' = [own EXCEPT ![c] = p] /\ UNCHANGED checkpoint
  ELSE checkpoint' = [checkpoint EXCEPT ![c] = p] /\ UNCHANGED own

\* record: what Status shows of c until its next turn.
Recorded(c, p, isPending, isBlocked) ==
  progress' = [progress EXCEPT
                 ![c] = [pos |-> p, pending |-> isPending, blocked |-> isBlocked]]

-----------------------------------------------------------------------------
(* A pass: the snapshot, then takeRebuilds.                                *)

\* runOnce snapshots the consumers; takeRebuilds reads the pending requests,
\* those of consumers this engine does not run are kept for later.
StartPass ==
  /\ phase = "idle" /\ ~stopping
  /\ todo' = registered
  /\ \E order \in SetToSeqs(requests \cap Range(registered)) : rebuilding' = order
  /\ phase' = IF rebuilding' = << >> THEN "load" ELSE "wipe"
  /\ UNCHANGED <<durable, registered, progress, pos, batch, blocked, stopping,
                 spent>>

\* On to the next request, or to the first consumer.
NextRebuild ==
  /\ rebuilding' = Tail(rebuilding)
  /\ phase' = IF Tail(rebuilding) = << >> THEN "load" ELSE "wipe"
  /\ UNCHANGED <<registered, progress, todo, pos, batch, blocked,
                 stopping>>

\* Wipe deletes the projection's rows one by one ...
WipeRows ==
  LET c == Head(rebuilding)
  IN /\ phase = "wipe" /\ c \in Projections
     /\ rows' = [rows EXCEPT ![c] = << >>]
     /\ phase' = "reset"
     /\ UNCHANGED <<log, checkpoint, own, requests, registered, progress, turn,
                    stopping, spent>>

\* ... and may fail before the last; the request is retried next pass.
WipeFails ==
  LET c == Head(rebuilding)
  IN /\ phase = "wipe" /\ c \in Projections
     /\ Fault
     /\ \E n \in 0 .. Len(rows[c]) :
          rows' = [rows EXCEPT ![c] = SubSeq(@, n + 1, Len(@))]
     /\ NextRebuild
     /\ UNCHANGED <<log, checkpoint, own, requests>>

\* A request for anything but a projection is dropped.
DropRequest ==
  LET c == Head(rebuilding)
  IN /\ phase = "wipe" /\ c \notin Projections
     /\ \/ requests' = requests \ {c} /\ UNCHANGED spent
        \/ UNCHANGED requests /\ Fault
     /\ NextRebuild
     /\ UNCHANGED <<log, checkpoint, own, rows>>

ResetCheckpoint ==
  /\ phase = "reset"
  /\ Save(Head(rebuilding), 0)
  /\ phase' = "takeoff"
  /\ UNCHANGED <<log, rows, requests, registered, progress, turn, stopping,
                 spent>>

ResetFails ==
  /\ phase = "reset"
  /\ Fault
  /\ NextRebuild
  /\ UNCHANGED durable

\* Seeded fault: the request is never taken off.
TakeOffNothing ==
  /\ phase = "takeoff"
  /\ NextRebuild
  /\ UNCHANGED <<durable, spent>>

\* Done; if it fails the rebuild is done again next pass.
TakeOff ==
  /\ phase = "takeoff"
  /\ \/ requests' = requests \ {Head(rebuilding)} /\ UNCHANGED spent
     \/ UNCHANGED requests /\ Fault
  /\ NextRebuild
  /\ UNCHANGED <<log, checkpoint, own, rows>>

-----------------------------------------------------------------------------
(* A pass: runOnceFor, one consumer after the other.                       *)

Current == Head(todo)

\* The consumer's turn is over; a stop is looked at before the next one's.
EndTurn ==
  /\ todo' = Tail(todo)
  /\ phase' = "load"
  /\ pos' = 0 /\ batch' = << >> /\ blocked' = FALSE
  /\ UNCHANGED rebuilding

\* All turns are over, or the stop ends the pass and the loop.
EndPass ==
  /\ phase = "load"
  /\ todo = << >> \/ stopping
  /\ phase' = IF stopping THEN "stopped" ELSE "idle"
  /\ todo' = << >>
  /\ UNCHANGED <<durable, registered, progress, rebuilding, pos, batch, blocked,
                 stopping, spent>>

\* The loop sees the stop between two passes.
StopIdle ==
  /\ phase = "idle" /\ stopping
  /\ phase' = "stopped"
  /\ UNCHANGED <<durable, registered, progress, turn, stopping, spent>>

LoadPosition ==
  /\ phase = "load" /\ todo # << >> /\ ~stopping
  /\ pos' = Position(Current)
  /\ blocked' = (progress[Current] # None /\ progress[Current].blocked)
  /\ phase' = "poll"
  /\ UNCHANGED <<durable, registered, progress, rebuilding, todo, batch,
                 stopping, spent>>

\* Seeded fault: a consumer whose turn could not be read is shown caught up.
ReadFailsQuietly ==
  /\ phase \in {"load", "poll"} /\ todo # << >> /\ (phase = "load" => ~stopping)
  /\ Fault
  /\ Recorded(Current, Len(log), FALSE, FALSE)
  /\ EndTurn
  /\ UNCHANGED <<durable, registered, stopping>>

\* Reading the position or the log fails: the consumer's turn ends, blocked.
ReadFails ==
  /\ phase \in {"load", "poll"} /\ todo # << >> /\ (phase = "load" => ~stopping)
  /\ Fault
  /\ Recorded(Current, pos, TRUE, TRUE)
  /\ EndTurn
  /\ UNCHANGED <<durable, registered, stopping>>

Poll ==
  /\ phase = "poll" /\ pos < Len(log)
  /\ batch' = [i \in 1 .. Min({Limit, Len(log) - pos}) |-> pos + i]
  /\ phase' = "deliver"
  /\ Recorded(Current, pos, TRUE, blocked)
  /\ UNCHANGED <<durable, registered, rebuilding, todo, pos, blocked, stopping,
                 spent>>

\* Nothing after pos: the consumer has caught up.
CaughtUp ==
  /\ phase = "poll" /\ pos >= Len(log)
  /\ Recorded(Current, pos, FALSE, FALSE)
  /\ EndTurn
  /\ UNCHANGED <<durable, registered, stopping, spent>>

\* deliver: a committer commits; an effect consumer that is none folds an
\* imported event; anything else applies.
Deed(c, p) ==
  [at |-> p, how |-> IF c \in Effects \ Committers /\ log[p] = "imported"
                     THEN "folded" ELSE "applied"]

\* After an event: the stop, the next event of the batch, or the next poll.
AfterEvent ==
  LET p == Head(batch) rest == Tail(batch)
  IN /\ pos' = p /\ blocked' = FALSE
     /\ \/ /\ stopping
           /\ batch' = << >> /\ todo' = Tail(todo) /\ phase' = "load"
           /\ UNCHANGED progress
        \/ /\ ~stopping /\ rest = << >>
           /\ batch' = rest /\ phase' = "poll"
           /\ UNCHANGED <<todo, progress>>
        \/ /\ ~stopping /\ rest # << >>
           /\ batch' = rest /\ phase' = "deliver"
           /\ Recorded(Current, p, TRUE, FALSE)
           /\ UNCHANGED todo
     /\ UNCHANGED rebuilding

\* Seeded fault: rows and position are two transactions.
CommitRowsOnly ==
  LET c == Current p == Head(batch)
  IN /\ phase = "deliver" /\ c \in Committers /\ <<c, p>> \notin Poison
     /\ rows' = [rows EXCEPT ![c] = Append(@, Deed(c, p))]
     /\ phase' = "save"
     /\ UNCHANGED <<log, checkpoint, own, requests, registered, progress, turn,
                    stopping, spent>>

\* A committer's Commit: rows and position in one transaction.
Commit ==
  LET c == Current p == Head(batch)
  IN /\ phase = "deliver" /\ c \in Committers /\ <<c, p>> \notin Poison
     /\ rows' = [rows EXCEPT ![c] = Append(@, Deed(c, p))]
     /\ own' = [own EXCEPT ![c] = p]
     /\ AfterEvent
     /\ UNCHANGED <<log, checkpoint, requests, registered, stopping, spent>>

\* Seeded fault: a stop is obeyed between Apply and its checkpoint.
ApplyUntilStopped ==
  LET c == Current p == Head(batch)
  IN /\ phase = "deliver" /\ c \notin Committers /\ <<c, p>> \notin Poison
     /\ rows' = [rows EXCEPT ![c] = Append(@, Deed(c, p))]
     /\ \/ ~stopping /\ phase' = "save" /\ UNCHANGED turn
        \/ stopping /\ EndTurn
     /\ UNCHANGED <<log, checkpoint, own, requests, registered, progress,
                    stopping, spent>>

\* Anyone else's Apply, with the checkpoint still to be saved.
Apply ==
  LET c == Current p == Head(batch)
  IN /\ phase = "deliver" /\ c \notin Committers /\ <<c, p>> \notin Poison
     /\ rows' = [rows EXCEPT ![c] = Append(@, Deed(c, p))]
     /\ phase' = "save"
     /\ UNCHANGED <<log, checkpoint, own, requests, registered, progress, turn,
                    stopping, spent>>

\* Seeded fault: a failed event is skipped and the next one delivered.
DeliveryFailsOver ==
  LET c == Current p == Head(batch)
  IN /\ phase = "deliver"
     /\ IF <<c, p>> \in Poison THEN UNCHANGED spent ELSE Fault
     /\ AfterEvent
     /\ UNCHANGED <<durable, registered, stopping>>

\* Seeded fault: a failed event ends the pass for everyone.
DeliveryFailsForAll ==
  LET c == Current p == Head(batch)
  IN /\ phase = "deliver"
     /\ IF <<c, p>> \in Poison THEN UNCHANGED spent ELSE Fault
     /\ Recorded(c, pos, TRUE, TRUE)
     /\ todo' = << >> /\ phase' = "load"
     /\ pos' = 0 /\ batch' = << >> /\ blocked' = FALSE
     /\ UNCHANGED <<durable, rebuilding, registered, stopping>>

\* The delivery fails, this time or always; an Apply that fails may have done
\* its work.  The turn ends, and the next pass retries the event.
DeliveryFails ==
  LET c == Current p == Head(batch)
  IN /\ phase = "deliver"
     /\ IF <<c, p>> \in Poison THEN UNCHANGED spent ELSE Fault
     /\ \/ UNCHANGED rows
        \/ /\ c \notin Committers /\ <<c, p>> \notin Poison
           /\ rows' = [rows EXCEPT ![c] = Append(@, Deed(c, p))]
     /\ Recorded(c, pos, TRUE, TRUE)
     /\ EndTurn
     /\ UNCHANGED <<log, checkpoint, own, requests, registered, stopping>>

SaveCheckpoint ==
  /\ phase = "save"
  /\ Save(Current, Head(batch))
  /\ AfterEvent
  /\ UNCHANGED <<log, rows, requests, registered, stopping, spent>>

SaveFails ==
  /\ phase = "save"
  /\ Fault
  /\ Recorded(Current, pos, TRUE, TRUE)
  /\ EndTurn
  /\ UNCHANGED <<durable, registered, stopping>>

-----------------------------------------------------------------------------
(* Beside the engine.                                                      *)

\* A commit or an import adds an event.
NewEvent(origin) ==
  /\ Len(log) < MaxLog
  /\ log' = Append(log, origin)
  /\ UNCHANGED <<checkpoint, own, rows, requests, registered, progress, phase,
                 turn, stopping, spent>>

\* RebuildRequests.Request: one row per name.
Request(c) ==
  /\ Spend("requests")
  /\ requests' = requests \cup {c}
  /\ UNCHANGED <<log, checkpoint, own, rows, registered, progress, phase, turn,
                 stopping>>

\* A reload: Unregister drops the consumer and its progress, Register appends
\* the fresh one.  The pass under way goes on with its snapshot.
Unregister(c) ==
  /\ \E i \in DOMAIN registered :
       registered[i] = c /\ registered' = RemoveAt(registered, i)
  /\ Spend("reloads")
  /\ progress' = [progress EXCEPT ![c] = None]
  /\ UNCHANGED <<durable, phase, turn, stopping>>

Register(c) ==
  /\ c \notin Range(registered)
  /\ registered' = Append(registered, c)
  /\ UNCHANGED <<durable, progress, phase, turn, stopping, spent>>

\* The stop context is cancelled.
Stop ==
  /\ ~stopping
  /\ Spend("stops")
  /\ stopping' = TRUE
  /\ UNCHANGED <<durable, registered, progress, phase, turn>>

\* A process starts: what is on disk stays.
Booted ==
  /\ registered' = Boot
  /\ progress' = [c \in Names |-> None]
  /\ phase' = "idle" /\ rebuilding' = << >> /\ todo' = << >>
  /\ pos' = 0 /\ batch' = << >> /\ blocked' = FALSE
  /\ stopping' = FALSE
  /\ UNCHANGED durable

\* ... after a graceful stop,
Restart == phase = "stopped" /\ Booted /\ UNCHANGED spent

\* ... or after it died anywhere.
Crash == phase # "stopped" /\ Fault /\ Booted

EngineStep ==
  \/ StartPass \/ WipeRows \/ WipeFails \/ DropRequest
  \/ ResetCheckpoint \/ ResetFails \/ TakeOff
  \/ LoadPosition \/ ReadFails \/ Poll \/ CaughtUp
  \/ Commit \/ Apply \/ DeliveryFails \/ SaveCheckpoint \/ SaveFails
  \/ EndPass \/ StopIdle

Environment ==
  \/ \E origin \in {"native", "imported"} : NewEvent(origin)
  \/ \E c \in Names : Request(c) \/ Unregister(c) \/ Register(c)
  \/ Stop \/ Restart \/ Crash

Next == EngineStep \/ Environment

\* The loop runs a pass on every tick, and a pass runs to its end.  Nothing is
\* assumed of commits, requests, reloads and restarts.
Spec == Init /\ [][Next]_vars /\ WF_vars(EngineStep)

-----------------------------------------------------------------------------
(* Properties.                                                             *)

\* The deeds s are the events 1 .. n in order, some done again right after.
Did(s, n) ==
  /\ IF s = << >> THEN n = 0 ELSE s[1].at = 1 /\ s[Len(s)].at = n
  /\ \A i \in 2 .. Len(s) : s[i].at \in {s[i - 1].at, s[i - 1].at + 1}

\* A rebuild of c is asked for or under way: its rows may be anything.
Rebuilding(c) == c \in requests \cap Projections

\* At least once, in order: what a consumer has done is every event up to its
\* position, in the order of the log, repeating only the one in flight, and at
\* most that one is done and not recorded, whatever fails, dies or reloads.
HandledInOrder ==
  \A c \in Names : ~Rebuilding(c) =>
    \/ Did(rows[c], Position(c))
    \/ c \notin Committers /\ Did(rows[c], Position(c) + 1)

\* The deeds s are the events 1 .. n in order, each done once.
Once(s, n) == Len(s) = n /\ \A i \in 1 .. n : s[i].at = i

\* Exactly once for a committer: no event's rows are applied twice, or lost.
CommittedOnce ==
  \A c \in Committers : ~Rebuilding(c) => Once(rows[c], Position(c))

\* "Cancelling ctx is a stop request, not an abort": after a stop in which
\* nothing failed, no consumer is left with an event done and not recorded, and
\* none will be done twice.
StopIsClean ==
  phase = "stopped" /\ spent.faults = 0 =>
    \A c \in Names : ~Rebuilding(c) => Len(rows[c]) = Position(c)

\* Between passes a consumer shown with nothing pending has done every event up
\* to the position shown, and one that has not is shown pending: readiness never
\* rests on a read model that is empty, partial or stuck.
StatusHonest ==
  phase = "idle" =>
    \A c \in Names : progress[c] # None /\ ~progress[c].pending /\ ~Rebuilding(c) =>
      /\ progress[c].pos = Position(c)
      /\ Did(rows[c], Position(c))

\* The engine still runs c.
Served(c) == phase # "stopped" /\ c \in Range(registered)

\* Every consumer catches up with the log, or as far as its poisoned event: a
\* consumer that fails for ever delays no other, wherever it is in the order.
EveryoneCatchesUp ==
  \A c \in Names :
    <>[](Served(c) => \/ Position(c) = Len(log)
                      \/ <<c, Position(c) + 1>> \in Poison)

\* A rebuild asked for is eventually acted on.
RebuildsHappen ==
  \A c \in Names : c \in requests ~> (c \notin requests \/ ~Served(c))

-----------------------------------------------------------------------------
(* What the package says of itself and the code does not do (see README).  *)

\* "A consumer that has not run a pass yet is Behind with unknown lag": one
\* that has just been registered has no progress recorded.  A pass under way
\* records it for the one it replaced, between Unregister and Register.
FreshShowsNothing ==
  [][\A c \in Range(registered') \ Range(registered) : progress'[c] = None]_vars
=============================================================================
