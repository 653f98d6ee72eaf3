------------------------------ MODULE Batching ------------------------------
(***************************************************************************)
(* Command batching: the gateway requests that enqueue a command and wait  *)
(* (gateway.handleViaBatching, batching.Writer.Enqueue), the durable       *)
(* command queue (commandqueue) and the single writer that decides a       *)
(* window of it against an overlay and commits it in one transaction       *)
(* (batching.Writer.RunOnce, batching/overlay.go, events.CommitBatch).     *)
(*                                                                         *)
(* events.db and commandqueue.db are two files, so no step below writes    *)
(* both, and the process may die between any two steps: the log, the queue *)
(* and its done marks survive, the waiters, their channels, the window and *)
(* the requests do not.                                                    *)
(*                                                                         *)
(* Reactors and other in-process callers append to the same log beside the *)
(* writer.  Each of their commands is one atomic step here, which is what  *)
(* EventStore is proved to implement.                                      *)
(***************************************************************************)
EXTENDS EventLog

CONSTANTS
  Direct,     \* the commands dispatched straight to the store
  MaxBatch,   \* Writer.maxBatch
  MaxDepth,   \* Writer.MaxDepth; 0 disables shedding
  MaxFaults   \* bound: crashes, failing steps, batch timeouts

Queued == Commands \ Direct

ASSUME BatchingAssumption ==
  /\ Direct \subseteq Commands
  /\ MaxBatch \in Nat \ {0} /\ MaxDepth \in Nat /\ MaxFaults \in Nat

VARIABLES
  queue,     \* commandqueue.db: the commands in position order
  done,      \* ... those marked done
  at,        \* ... enqueued_at_position of each row
  req,       \* req[c]: the request carrying c, or how it ended
  waiters,   \* commands with a channel registered in Writer.waiters
  channel,   \* channel[c]: the outcome buffered in c's channel
  phase,     \* where RunOnce is: idle, decide, signal
  todo,      \* the queue rows RunOnce has still to decide, then the entries of
             \* batch it has still to signal
  batch,     \* the decided commands
  overlay,   \* overlay.pending: the types of their events, by stream
  staged,    \* ... and the rows themselves, in the order of the batch
  verdicts,  \* history: every outcome RunOnce handed out for a command
  unchanged, \* history: the commands a committed window decided to no event
  faults     \* bound: faults so far

vars == <<log, queue, done, at, req, waiters, channel, phase, todo, batch,
          overlay, staged, verdicts, unchanged, faults>>

store   == <<log>>
durable == <<queue, done, at>>
gateway == <<req, waiters, channel>>
writer  == <<phase, todo, batch, overlay, staged>>
history == <<verdicts, unchanged>>

\* An outcome as the channel carries it: the events are named by their types.
Outcomes == {[kind |-> "rejected"], [kind |-> "failed"]} \cup
            [kind : {"ok"}, types : Seq(Types)]

Nothing == [kind |-> "none"]

\* A decided command of a batch, and the sequence it was decided at.
DecidedCommands == [cmd : Queued, types : Seq(Types), expected : Nat]

Ended == {"full", "ok", "rejected", "failed", "timeout", "lost"}

TypeOK ==
  /\ log \in Seq(Events)
  /\ queue \in Seq(Queued) /\ done \subseteq Queued
  /\ at \in [Queued -> Nat]
  /\ req \in [Commands -> {"new", "admitted", "queued", "waiting"} \cup Ended]
  /\ waiters \subseteq Queued
  /\ channel \in [Queued -> Outcomes \cup {Nothing}]
  /\ phase \in {"idle", "decide", "signal"}
  /\ todo \subseteq IF phase = "signal" THEN DOMAIN batch ELSE DOMAIN queue
  /\ batch \in Seq(DecidedCommands)
  /\ overlay \in [Streams -> Seq(Types)]
  /\ staged \in Seq(Events)
  /\ verdicts \in [Queued -> SUBSET Outcomes]
  /\ unchanged \subseteq Queued
  /\ faults \in 0 .. MaxFaults

Init ==
  /\ log = << >> /\ queue = << >> /\ done = {}
  /\ at = [c \in Queued |-> 0]
  /\ req = [c \in Commands |-> "new"]
  /\ waiters = {} /\ channel = [c \in Queued |-> Nothing]
  /\ phase = "idle" /\ todo = {} /\ batch = << >>
  /\ overlay = [s \in Streams |-> << >>] /\ staged = << >>
  /\ verdicts = [c \in Queued |-> {}] /\ unchanged = {}
  /\ faults = 0

Fault == faults < MaxFaults /\ faults' = faults + 1

-----------------------------------------------------------------------------
(* The gateway's side: Writer.Enqueue and the wait for the outcome.        *)

\* The rows that are not done.
Pending == {i \in DOMAIN queue : queue[i] \notin done}

\* Enqueue: read the depth, shed the command or go on and read the head
\* position.
Admit(c) ==
  /\ req[c] = "new"
  /\ IF MaxDepth > 0 /\ Cardinality(Pending) >= MaxDepth
     THEN /\ req' = [req EXCEPT ![c] = "full"]
          /\ UNCHANGED at
     ELSE /\ req' = [req EXCEPT ![c] = "admitted"]
          /\ at' = [at EXCEPT ![c] = Len(log)]
  /\ UNCHANGED <<store, queue, done, waiters, channel, writer, history, faults>>

\* The depth, the head position or the row could not be read or written, or the
\* payload not sealed: nothing is queued.
EnqueueFails(c) ==
  /\ req[c] \in {"new", "admitted"}
  /\ Fault
  /\ req' = [req EXCEPT ![c] = "failed"]
  /\ UNCHANGED <<store, durable, waiters, channel, writer, history>>

\* EnqueueCommand: the row is durable and visible to the writer from here on.
EnqueueCommand(c) ==
  /\ req[c] = "admitted"
  /\ queue' = Append(queue, c)
  /\ req' = [req EXCEPT ![c] = "queued"]
  /\ UNCHANGED <<store, done, at, waiters, channel, writer, history, faults>>

\* Only then Enqueue creates the channel and registers it.
RegisterWaiter(c) ==
  /\ req[c] = "queued"
  /\ waiters' = waiters \cup {c}
  /\ req' = [req EXCEPT ![c] = "waiting"]
  /\ UNCHANGED <<store, durable, channel, writer, history, faults>>

\* handleViaBatching's select: the outcome arrives ...
Receive(c) ==
  /\ req[c] = "waiting"
  /\ channel[c] # Nothing
  /\ req' = [req EXCEPT ![c] = channel[c].kind]
  /\ channel' = [channel EXCEPT ![c] = Nothing]
  /\ UNCHANGED <<store, durable, waiters, writer, history, faults>>

\* ... or the batch timeout does; the waiter stays registered.
BatchTimeout(c) ==
  /\ req[c] = "waiting"
  /\ Fault
  /\ req' = [req EXCEPT ![c] = "timeout"]
  /\ UNCHANGED <<store, durable, waiters, channel, writer, history>>

-----------------------------------------------------------------------------
(* The writer's side: RunOnce.                                             *)

\* signal: hand the outcome to c's channel if one is registered.
Signal(c, outcome) ==
  /\ waiters' = waiters \ {c}
  /\ channel' = IF c \in waiters THEN [channel EXCEPT ![c] = outcome]
                                 ELSE channel
  /\ verdicts' = [verdicts EXCEPT ![c] = @ \cup {outcome}]

\* MarkDone, one transaction on the queue; an error is only logged.
MarkDone(cs) == \/ done' = done \cup cs /\ UNCHANGED faults
                \/ UNCHANGED done /\ Fault

\* Seeded fault: the window is read newest first.
WindowNewestFirst ==
  {i \in Pending : Cardinality({j \in Pending : j >= i}) <= MaxBatch}

\* PendingCommands: the oldest rows that are not done, at most MaxBatch.
Window == {i \in Pending : Cardinality({j \in Pending : j <= i}) <= MaxBatch}

\* Those whose events are in the log already.
AlreadyApplied == {i \in Window : CommandApplied(log, queue[i], at[queue[i]])}

CommandsAt(rows) == {queue[i] : i \in rows}

\* The resume loop marks those done, one by one (a mark that fails is only
\* logged); the others are to be decided.
Begin ==
  /\ phase = "idle"
  /\ Window # {}
  /\ \/ done' = done \cup CommandsAt(AlreadyApplied) /\ UNCHANGED faults
     \/ \E missed \in SUBSET AlreadyApplied \ {{}} :
          done' = done \cup CommandsAt(AlreadyApplied \ missed) /\ Fault
  /\ todo' = Window \ AlreadyApplied
  /\ phase' = "decide"
  /\ UNCHANGED <<store, queue, at, gateway, batch, overlay, staged, history>>

\* A lookup of the resume loop fails and RunOnce returns; the commands it got
\* to are marked.
ResumeFails ==
  /\ phase = "idle"
  /\ Window # {}
  /\ Fault
  /\ \E marked \in SUBSET AlreadyApplied : done' = done \cup CommandsAt(marked)
  /\ UNCHANGED <<store, queue, at, gateway, writer, history>>

\* The loop takes what is left to do in order.
IsNext(i) == i \in todo /\ \A j \in todo : i <= j

\* What the overlay shows of stream s: the durable events, then those this
\* window has decided for it.
OverlayHistory(s) == History(log, s) \o overlay[s]

\* A decided command joins the batch, and overlay.record stages its events.
Join(c, types) ==
  LET s    == Target[c]
      base == Len(OverlayHistory(s))
  IN /\ batch' = Append(batch, [cmd |-> c, types |-> types, expected |-> base])
     /\ overlay' = [overlay EXCEPT ![s] = @ \o types]
     /\ staged' = Appended(staged, c, types, base)

\* Seeded fault: the caller is told as soon as its command is decided.
DecideAcceptsAndSignals ==
  \E i \in todo :
    LET c == queue[i]
        d == Decide(c, OverlayHistory(Target[c]))
    IN /\ phase = "decide" /\ IsNext(i)
       /\ d \in Seq(Types)
       /\ Join(c, d)
       /\ Signal(c, [kind |-> "ok", types |-> d])
       /\ todo' = todo \ {i}
       /\ UNCHANGED <<store, durable, req, phase, unchanged, faults>>

\* Seeded fault: the row is marked done as soon as its command is decided.
DecideAcceptsAndMarks ==
  \E i \in todo :
    LET c == queue[i]
        d == Decide(c, OverlayHistory(Target[c]))
    IN /\ phase = "decide" /\ IsNext(i)
       /\ d \in Seq(Types)
       /\ Join(c, d)
       /\ MarkDone({c})
       /\ todo' = todo \ {i}
       /\ UNCHANGED <<store, queue, at, gateway, phase, history>>

\* The next command is decided against the overlay and joins the batch.
DecideAccepts ==
  \E i \in todo :
    LET c == queue[i]
        d == Decide(c, OverlayHistory(Target[c]))
    IN /\ phase = "decide" /\ IsNext(i)
       /\ d \in Seq(Types)
       /\ Join(c, d)
       /\ todo' = todo \ {i}
       /\ UNCHANGED <<store, durable, gateway, phase, history, faults>>

\* ... or is refused: its caller is told and it is marked done at once.
DecideRejects ==
  \E i \in todo :
    LET c == queue[i]
    IN /\ phase = "decide" /\ IsNext(i)
       /\ Decide(c, OverlayHistory(Target[c])) = Rejected
       /\ Signal(c, [kind |-> "rejected"])
       /\ MarkDone({c})
       /\ todo' = todo \ {i}
       /\ UNCHANGED <<store, queue, at, req, phase, batch, overlay, staged,
                      unchanged>>

\* ... or cannot be decided (the load, the key service, the decider fails):
\* handled like a refusal.  What failed the decision may fail the mark too.
DecideFails ==
  \E i \in todo :
    LET c == queue[i]
    IN /\ phase = "decide" /\ IsNext(i)
       /\ Fault
       /\ Signal(c, [kind |-> "failed"])
       /\ done' = done \cup {c} \/ UNCHANGED done
       /\ todo' = todo \ {i}
       /\ UNCHANGED <<store, queue, at, req, phase, batch, overlay, staged,
                      unchanged>>

\* Seeded fault: the next window starts with this one's overlay.
ReturnKeepsOverlay ==
  /\ phase' = "idle" /\ todo' = {} /\ batch' = << >>
  /\ UNCHANGED overlay /\ staged' = << >>

\* RunOnce returns, keeping nothing of the window.
Return ==
  /\ phase' = "idle" /\ todo' = {} /\ batch' = << >>
  /\ overlay' = [s \in Streams |-> << >>] /\ staged' = << >>

\* CommitBatch commits every command of the window in one transaction, their
\* rows in the order of the batch ...
CommitBatch ==
  /\ phase = "decide" /\ todo = {} /\ batch # << >>
  /\ SequencesMatch(log, batch)
  /\ log' = log \o staged
  /\ todo' = DOMAIN batch
  /\ phase' = "signal"
  /\ unchanged' = unchanged \cup
       {batch[i].cmd : i \in {j \in DOMAIN batch : batch[j].types = << >>}}
  /\ UNCHANGED <<durable, gateway, batch, overlay, staged, verdicts, faults>>

\* ... or none: a stream moved since it was loaded (every row stays pending
\* and nobody is signalled), or the transaction failed.
CommitRefused ==
  /\ phase = "decide" /\ todo = {} /\ batch # << >>
  /\ \/ ~SequencesMatch(log, batch) /\ UNCHANGED faults
     \/ Fault
  /\ Return
  /\ UNCHANGED <<store, durable, gateway, history>>

\* Nothing was left to commit.
EmptyWindow ==
  /\ phase = "decide" /\ todo = {} /\ batch = << >>
  /\ Return
  /\ UNCHANGED <<store, durable, gateway, history, faults>>

\* After the commit, each command's caller gets its events ...
SignalCommitted ==
  \E i \in todo :
    /\ phase = "signal" /\ IsNext(i)
    /\ Signal(batch[i].cmd, [kind |-> "ok", types |-> batch[i].types])
    /\ todo' = todo \ {i}
    /\ UNCHANGED <<store, durable, req, phase, batch, overlay, staged,
                   unchanged, faults>>

\* ... and the rows are marked done.
MarkCommitted ==
  /\ phase = "signal" /\ todo = {}
  /\ MarkDone({batch[i].cmd : i \in DOMAIN batch})
  /\ Return
  /\ UNCHANGED <<store, queue, at, gateway, history>>

-----------------------------------------------------------------------------
(* The rest of the process.                                                *)

\* A reactor's HandleWithMeta beside the writer.
DispatchDirect(c) ==
  LET s == Target[c]
      d == Decide(c, History(log, s))
  IN /\ req[c] = "new"
     /\ \/ /\ d \in Seq(Types)
           /\ log' = Appended(log, c, d, Length(log, s))
           /\ req' = [req EXCEPT ![c] = "ok"]
        \/ /\ d = Rejected
           /\ req' = [req EXCEPT ![c] = "rejected"]
           /\ UNCHANGED log
     /\ UNCHANGED <<durable, waiters, channel, writer, history, faults>>

\* The process dies and starts again: connections, waiters and the window are
\* gone, both databases are as they were.
Crash ==
  /\ Fault
  /\ req' = [c \in Commands |->
               IF req[c] \in {"admitted", "queued", "waiting"} THEN "lost"
               ELSE req[c]]
  /\ waiters' = {}
  /\ channel' = [c \in Queued |-> Nothing]
  /\ Return
  /\ UNCHANGED <<store, durable, history>>

RunOnce == \/ Begin \/ ResumeFails \/ DecideAccepts \/ DecideRejects \/ DecideFails
           \/ CommitBatch \/ CommitRefused \/ EmptyWindow
           \/ SignalCommitted \/ MarkCommitted

Next ==
  \/ \E c \in Queued : \/ Admit(c) \/ EnqueueFails(c) \/ EnqueueCommand(c)
                       \/ RegisterWaiter(c) \/ Receive(c) \/ BatchTimeout(c)
  \/ RunOnce
  \/ \E c \in Direct : DispatchDirect(c)
  \/ Crash

\* The writer loop runs RunOnce on every nudge and every tick of its 8ms
\* ticker, so a step of it that can be taken is not put off forever.  Nothing
\* is assumed of the clients.
Spec == Init /\ [][Next]_vars /\ WF_vars(RunOnce)

-----------------------------------------------------------------------------
(* Properties.                                                             *)

\* The first n events of the log.
Before(n) == SubSeq(log, 1, n)

PositionsOf(c) == RowsOf(log, c)

\* A command is applied at most once and as a whole, and its events are what
\* its decider answers on exactly the events before them: neither the overlay
\* (which shows events that may never commit), nor a rolled back window, nor a
\* replay after a crash ever lets a command in on another history.
AppliedSerially ==
  \A c \in Commands : PositionsOf(c) # {} =>
    \E base \in 0 .. Len(log) - 1 :
      LET d == Decide(c, History(Before(base), Target[c]))
      IN /\ d \in Seq(Types)
         /\ PositionsOf(c) = base + 1 .. base + Len(d)
         /\ \A i \in 1 .. Len(d) : log[base + i].type = d[i]

\* Whatever a caller is told was committed is in the log, exactly as told and
\* once: an outcome is signalled after the transaction, never before.
AcknowledgedIsDurable ==
  \A c \in Queued : \A v \in verdicts[c] :
    v.kind = "ok" /\ v.types # << >> => Holds(log, c, v.types)

\* A row marked done has been dealt with: its events are committed or an
\* outcome was reached for it, so no accepted command is dropped by a mark
\* that came too early.
DoneIsSettled ==
  \A c \in done : PositionsOf(c) # {} \/ verdicts[c] # {}

\* Nothing c was told or decided to lets it come up again after later rows.
InOrder(c) == c \notin unchanged /\ \A v \in verdicts[c] : v.kind = "ok"

\* Queued commands are applied in the order of their rows, across windows,
\* rolled back batches and restarts.  A command that was first told it failed
\* or was refused (OutcomeIsFinal), or that a window found to change nothing,
\* and that came up again after a lost mark, is the exception.
QueueOrder ==
  \A i, j \in DOMAIN queue :
    i < j /\ InOrder(queue[i])
    => \A p \in PositionsOf(queue[i]), q \in PositionsOf(queue[j]) : p < q

\* Every queued command is eventually settled, although windows may be rolled
\* back and the process may crash a bounded number of times: time and again,
\* nothing is left pending.
EveryCommandSettles == []<>(Range(queue) \subseteq done)

-----------------------------------------------------------------------------
(* What the package says of itself and the code does not do (see README).  *)

\* "Enqueue [...] returns a channel that receives exactly one Outcome once its
\* batch has been decided": a caller still waiting for a command that is done
\* has its outcome in the channel.
WaiterIsServed ==
  \A c \in Queued : req[c] = "waiting" /\ c \in done => channel[c] # Nothing

\* A refusal is "not automatically retried", and the done mark "can lag
\* arbitrarily with zero correctness risk": a command whose caller was told it
\* was rejected is never applied.  A mark lost after the signal, or a crash
\* between the two, breaks it.
OutcomeIsFinal ==
  \A c \in Queued : req[c] = "rejected" => PositionsOf(c) = {}
=============================================================================
