------------------------------ MODULE Gateway ------------------------------
(***************************************************************************)
(* The command gateway's handler (gateway.RegisterRoutes) with the         *)
(* idempotency store beside it (idempotency.Store), deciding inline        *)
(* (Registry.HandleWithMeta) or through the batching writer                *)
(* (handleViaBatching).  A command here is one HTTP request; a retry is    *)
(* another request with the same key.                                      *)
(*                                                                         *)
(* What goes on inside the store is modelled by EventStore; here an append *)
(* is one step.  Of the writer this module keeps what its callers can tell *)
(* apart: that a row is refused, or committed and then told, before it is  *)
(* marked done, and comes up again if the mark is lost.  The rows of a     *)
(* pass are taken one by one; that a window decides them against an        *)
(* overlay and commits them together is Batching's.  Authentication and    *)
(* the Authorize hook refuse before anything below happens and change      *)
(* nothing.                                                                *)
(***************************************************************************)
EXTENDS EventLog

CONSTANTS
  Keys,       \* Idempotency-Key values
  KeyOf,      \* the key each request carries, or NoKey
  HashOf,     \* its aggregate, id, command and body
  NoKey,
  None,       \* no record under a key
  Dispatches, \* how Config lets the handler dispatch: "inline", "batched"
  Serial,     \* clients retry only after the previous attempt has ended
  MaxDepth,   \* the queue depth that sheds, 0 for never
  MaxModes,   \* bound: changes of the system mode
  MaxFaults   \* bound: crashes and failing operations

ASSUME KeysAssumption ==
  /\ KeyOf \in [Commands -> Keys \cup {NoKey}] /\ NoKey \notin Keys
  /\ DOMAIN HashOf = Commands
  /\ Dispatches \subseteq {"inline", "batched"} /\ Serial \in BOOLEAN
  /\ MaxDepth \in Nat /\ MaxModes \in Nat /\ MaxFaults \in Nat

VARIABLES
  mode,      \* events.db: the mode key
  records,   \* idempotency.db
  queue,     \* commandqueue.db: the requests not done
  passed,    \* the writer's pass (RunOnce): the rows it has left behind
  committed, \* ... and whether it has yet to tell of the row it committed
  at,        \* where each request's handler is
  decision,  \* what it decided, and at which stream length
  answer,    \* what it will answer, or has answered, and whose outcome that is
  via,       \* Config.Batching: one dispatch per process, never changed
  known,     \* history: the record under its key when the request began,
             \* forgotten if it is pruned before the lookup
  unmarked,  \* history: the requests whose row outlived its outcome
  spent      \* bound: mode changes and faults so far

vars == <<log, mode, records, queue, passed, committed, at, decision, answer,
          via, known, unmarked, spent>>

writer == <<passed, committed, unmarked>>

Steps == {"new", "open", "accepted", "decided", "waiting", "outcome",
          "answered", "lost"}

NoAnswer == [status |-> 0]

Answers == [status : {0, 400, 409, 422, 500, 503, 504}] \cup
           [status : {200}, types : Seq(Types), of : Commands]

\* What respondJSON saves: the answer and the request's hash.
Recorded == [hash : Range(HashOf), answer : Answers]

TypeOK ==
  /\ log \in Seq(Events)
  /\ mode \in {"running", "maintenance"}
  /\ records \in [Keys -> Recorded \cup {None}]
  /\ queue \in Seq(Commands)
  /\ passed \in 0 .. Len(queue) /\ committed \in BOOLEAN
  /\ committed => passed < Len(queue)
  /\ at \in [Commands -> Steps]
  /\ decision \in [Commands -> [types : Seq(Types), expected : Nat]]
  /\ answer \in [Commands -> Answers]
  /\ via \in Dispatches
  /\ known \in [Commands -> Recorded \cup {None}]
  /\ unmarked \subseteq Commands
  /\ spent \in [modes : 0 .. MaxModes, faults : 0 .. MaxFaults]

Init ==
  /\ log = << >> /\ mode = "running"
  /\ records = [k \in Keys |-> None] /\ queue = << >>
  /\ passed = 0 /\ committed = FALSE /\ unmarked = {}
  /\ at = [c \in Commands |-> "new"]
  /\ decision = [c \in Commands |-> [types |-> << >>, expected |-> 0]]
  /\ answer = [c \in Commands |-> NoAnswer]
  /\ via \in Dispatches
  /\ known = [c \in Commands |-> None]
  /\ spent = [modes |-> 0, faults |-> 0]

Fault == spent.faults < MaxFaults /\ spent' = [spent EXCEPT !.faults = @ + 1]

Goes(c, step) == at' = [at EXCEPT ![c] = step]

\* The handler ends with a status and nothing saved under the key.
Responds(c, status) ==
  /\ Goes(c, "answered")
  /\ answer' = [answer EXCEPT ![c] = [status |-> status]]

RecordOf(c) == IF KeyOf[c] = NoKey THEN None ELSE records[KeyOf[c]]

SameKey(c, d) == KeyOf[c] # NoKey /\ KeyOf[c] = KeyOf[d]

Ended(c) == at[c] \in {"answered", "lost"}

-----------------------------------------------------------------------------
(* Up to the dispatch.                                                     *)

\* The system mode is read once, first.
CheckMode(c) ==
  /\ at[c] = "new"
  /\ Serial => \A d \in Commands \ {c} :
                 SameKey(c, d) => at[d] = "new" \/ Ended(d)
  /\ known' = [known EXCEPT ![c] = RecordOf(c)]
  /\ \/ mode = "maintenance" /\ Responds(c, 503)
     \/ mode = "running" /\ Goes(c, "open") /\ UNCHANGED answer
  /\ UNCHANGED <<writer, via, log, mode, records, queue, decision, spent>>

\* Seeded fault: a matching record is not replayed, the command decided again.
LookupRefusesOnly(c) ==
  LET record == RecordOf(c)
  IN /\ at[c] = "open"
     /\ \/ /\ record # None /\ record.hash # HashOf[c]
           /\ Responds(c, 422)
        \/ /\ ~(record # None /\ record.hash # HashOf[c])
           /\ Goes(c, "accepted")
           /\ UNCHANGED answer
     /\ UNCHANGED <<writer, via, log, mode, records, queue, decision, known, spent>>

\* The idempotency lookup: another request's key is refused, the same
\* request's outcome is replayed, and anything else goes on.
Lookup(c) ==
  LET record == RecordOf(c)
  IN /\ at[c] = "open"
     /\ \/ /\ record # None /\ record.hash # HashOf[c]
           /\ Responds(c, 422)
        \/ /\ record # None /\ record.hash = HashOf[c]
           /\ Goes(c, "answered")
           /\ answer' = [answer EXCEPT ![c] = record.answer]
        \/ /\ record = None
           /\ Goes(c, "accepted")
           /\ UNCHANGED answer
     /\ UNCHANGED <<writer, via, log, mode, records, queue, decision, known, spent>>

\* Anything may fail before the append: 500 (or 503 for a locked store).
Fails(c) ==
  /\ at[c] \in {"new", "open", "accepted", "decided"}
  /\ Fault
  /\ \E status \in {500, 503} : Responds(c, status)
  /\ UNCHANGED <<writer, via, log, mode, records, queue, decision, known>>

-----------------------------------------------------------------------------
(* The dispatch, inline: HandleWithMeta.                                   *)

Succeeds(c, types) ==
  /\ Goes(c, "outcome")
  /\ answer' = [answer EXCEPT ![c] = [status |-> 200, types |-> types, of |-> c]]

DecideInline(c) ==
  LET h == History(log, Target[c])
      d == Decide(c, h)
  IN /\ via = "inline" /\ at[c] = "accepted"
     /\ \/ d = Rejected /\ Responds(c, 400) /\ UNCHANGED decision
        \/ d = << >> /\ Succeeds(c, << >>) /\ UNCHANGED decision
        \/ /\ d \in Seq(Types) \ {<< >>}
           /\ decision' = [decision EXCEPT ![c] = [types |-> d, expected |-> Len(h)]]
           /\ Goes(c, "decided")
           /\ UNCHANGED answer
     /\ UNCHANGED <<writer, via, log, mode, records, queue, known, spent>>

AppendInline(c) ==
  LET d == decision[c]
  IN /\ at[c] = "decided"
     /\ \/ /\ SequenceMatches(log, c, d.expected)
           /\ log' = Appended(log, c, d.types, d.expected)
           /\ Succeeds(c, d.types)
        \/ /\ ~SequenceMatches(log, c, d.expected)
           /\ Goes(c, "outcome")
           /\ answer' = [answer EXCEPT ![c] = [status |-> 409]]
           /\ UNCHANGED log
     /\ UNCHANGED <<writer, via, mode, records, queue, decision, known, spent>>

-----------------------------------------------------------------------------
(* The dispatch, through the batching writer.                              *)

\* The queue is full, or the row is written.
Enqueue(c) ==
  /\ via = "batched" /\ at[c] = "accepted"
  /\ \/ /\ MaxDepth > 0 /\ Len(queue) >= MaxDepth
        /\ Responds(c, 503)
        /\ UNCHANGED queue
     \/ /\ MaxDepth = 0 \/ Len(queue) < MaxDepth
        /\ queue' = Append(queue, c)
        /\ Goes(c, "waiting")
        /\ UNCHANGED answer
  /\ UNCHANGED <<writer, via, log, mode, records, decision, known, spent>>

\* signal: the caller that waits for c gets an error, or its events, unless it
\* had not registered its waiter yet (Enqueue does so after the row is
\* written), or waits no more.
SignalError(c, status) ==
  \/ at[c] = "waiting" /\ Responds(c, status)
  \/ UNCHANGED <<at, answer>>

SignalEvents(c, types) ==
  \/ at[c] = "waiting" /\ Succeeds(c, types)
  \/ UNCHANGED <<at, answer>>

\* The row the pass is at.
Row == queue[passed + 1]

\* MarkDone: the row leaves the queue ...
MarkDone == queue' = RemoveAt(queue, passed + 1) /\ UNCHANGED <<passed, unmarked>>

\* ... or the mark fails, which is only logged: the pass goes on to the next
\* row, and this one comes up again in a later pass.
MarkLost ==
  /\ passed' = passed + 1 /\ unmarked' = unmarked \cup {Row}
  /\ UNCHANGED queue

MarkOrNot == \/ MarkDone /\ UNCHANGED spent
             \/ MarkLost /\ Fault

\* The pass takes its next row; it reads no mode and knows no key.
AtRow == ~committed /\ passed < Len(queue)

\* A row whose events are in the log is marked, and nobody told.
WriterResumes ==
  /\ AtRow /\ CommandApplied(log, Row, 0)
  /\ MarkOrNot
  /\ UNCHANGED <<committed, via, log, mode, records, at, decision, answer,
                 known>>

\* A refusal is signalled, and then the row is marked ...
WriterRefuses ==
  /\ AtRow /\ ~CommandApplied(log, Row, 0)
  /\ Decide(Row, History(log, Target[Row])) = Rejected
  /\ SignalError(Row, 400)
  /\ MarkOrNot
  /\ UNCHANGED <<committed, via, log, mode, records, decision, known>>

\* ... and so is the error, if the row cannot be decided; what fails that may
\* fail the mark too.
WriterFails ==
  /\ AtRow /\ ~CommandApplied(log, Row, 0)
  /\ Fault
  /\ SignalError(Row, 500)
  /\ MarkDone \/ MarkLost
  /\ UNCHANGED <<committed, via, log, mode, records, decision, known>>

\* The row is decided and its events committed ...
WriterCommits ==
  LET h == History(log, Target[Row])
      d == Decide(Row, h)
  IN /\ AtRow /\ ~CommandApplied(log, Row, 0)
     /\ d \in Seq(Types)
     /\ decision' =
          [decision EXCEPT ![Row] = [types |-> d, expected |-> Len(h)]]
     /\ log' = Appended(log, Row, d, Len(h))
     /\ committed' = TRUE
     /\ UNCHANGED <<via, mode, records, queue, passed, at, answer, known,
                    unmarked, spent>>

\* ... then its caller is told of them and the row marked.
WriterTells ==
  /\ committed
  /\ SignalEvents(Row, decision[Row].types)
  /\ MarkOrNot
  /\ committed' = FALSE
  /\ UNCHANGED <<via, log, mode, records, decision, known>>

\* A pass is over when its window is, or when a commit or a lookup fails: the
\* next one begins with the oldest row that is still there.
PassEnds ==
  /\ ~committed /\ passed > 0
  /\ passed' = 0
  /\ UNCHANGED <<committed, via, log, mode, records, queue, at, decision,
                 answer, known, unmarked, spent>>

\* The batch timeout, or the client is gone: 504, and nothing is saved.
BatchTimeout(c) ==
  /\ at[c] = "waiting"
  /\ Responds(c, 504)
  /\ UNCHANGED <<writer, via, log, mode, records, queue, decision, known, spent>>

-----------------------------------------------------------------------------
(* After the dispatch.                                                     *)

\* Seeded fault: a later outcome replaces the first.
RespondOverwriting(c) ==
  /\ at[c] = "outcome"
  /\ \/ /\ records' = IF KeyOf[c] # NoKey
                      THEN [records EXCEPT ![KeyOf[c]] =
                              [hash |-> HashOf[c], answer |-> answer[c]]]
                      ELSE records
        /\ UNCHANGED spent
     \/ KeyOf[c] # NoKey /\ Fault /\ UNCHANGED records
  /\ Goes(c, "answered")
  /\ UNCHANGED <<writer, via, log, mode, queue, decision, answer, known>>

\* respondJSON: a 200 or a 409 is saved under the key, unless a record is
\* there already or the save fails, and then answered.
Respond(c) ==
  /\ at[c] = "outcome"
  /\ \/ /\ records' = IF KeyOf[c] # NoKey /\ RecordOf(c) = None
                      THEN [records EXCEPT ![KeyOf[c]] =
                              [hash |-> HashOf[c], answer |-> answer[c]]]
                      ELSE records
        /\ UNCHANGED spent
     \/ KeyOf[c] # NoKey /\ Fault /\ UNCHANGED records
  /\ Goes(c, "answered")
  /\ UNCHANGED <<writer, via, log, mode, queue, decision, answer, known>>

-----------------------------------------------------------------------------
(* Around the handler.                                                     *)

SetMode ==
  /\ spent.modes < MaxModes
  /\ spent' = [spent EXCEPT !.modes = @ + 1]
  /\ mode' = IF mode = "running" THEN "maintenance" ELSE "running"
  /\ UNCHANGED <<writer, via, log, records, queue, at, decision, answer, known>>

\* The pruner drops a record that has outlived its window.
Prune(k) ==
  /\ records[k] # None
  /\ Fault
  /\ records' = [records EXCEPT ![k] = None]
  /\ known' = [c \in Commands |->
                 IF KeyOf[c] = k /\ at[c] = "open" THEN None ELSE known[c]]
  /\ UNCHANGED <<writer, via, log, mode, queue, at, decision, answer>>

\* The process dies and starts again: the three databases are as they were,
\* every request under way is lost, and so is the writer's pass.
Crash ==
  /\ Fault
  /\ at' = [c \in Commands |-> IF at[c] = "new" \/ Ended(c) THEN at[c] ELSE "lost"]
  /\ passed' = 0 /\ committed' = FALSE
  /\ UNCHANGED <<unmarked, via, log, mode, records, queue, decision, answer, known>>

Next ==
  \/ \E c \in Commands :
       \/ CheckMode(c) \/ Lookup(c) \/ Fails(c) \/ DecideInline(c)
       \/ AppendInline(c) \/ Enqueue(c) \/ BatchTimeout(c) \/ Respond(c)
  \/ WriterResumes \/ WriterRefuses \/ WriterFails \/ WriterCommits
  \/ WriterTells \/ PassEnds
  \/ SetMode \/ Crash
  \/ \E k \in Keys : Prune(k)

Spec == Init /\ [][Next]_vars

-----------------------------------------------------------------------------
(* Properties.                                                             *)

PositionsOf(c) == RowsOf(log, c)

Answered(c, statuses) == at[c] = "answered" /\ answer[c].status \in statuses

\* A 200, the request's own or replayed, is of this request, whoever raced
\* whom to the first save under its key, and names events that are in the log,
\* adjacent and exactly as told; a caller told its request failed or was
\* refused finds nothing of it there ("nothing was applied"), now or later,
\* although duplicates, timeouts and crashes run beside it.  A batched command
\* that committed nothing (it was refused, failed, or decided to no event) and
\* whose done mark was lost after its caller was told is decided again, and
\* may be applied: that is the exception, and the only one.
AnswersAreTrue ==
  \A c \in Commands :
    /\ Answered(c, {200}) =>
         /\ HashOf[answer[c].of] = HashOf[c]
         /\ \/ Holds(log, answer[c].of, answer[c].types)
            \/ answer[c].types = << >> /\ answer[c].of \in unmarked
    /\ Answered(c, {400, 409, 422, 500, 503}) =>
         PositionsOf(c) = {} \/ (answer[c].status \in {400, 500} /\ c \in unmarked)

\* "the first outcome wins": a record is never replaced, only pruned.
FirstOutcomeWins ==
  [][\A k \in Keys : records[k] # None => records'[k] \in {records[k], None}]_records

\* A request that began with its outcome on record applies nothing, however
\* its duplicates interleave and whatever fails, unless the record was pruned
\* before the lookup.
KeyedRetryAppliesNothing ==
  \A c \in Commands : known[c] # None => PositionsOf(c) = {}

-----------------------------------------------------------------------------
(* What the docs say and the code does not do (see README).                *)

\* "A retry carrying the same key and the same aggregate/id/command/body
\* replays the original response [...] instead of re-deciding the command":
\* of the attempts under one key at most one is applied.
AppliedOncePerKey ==
  \A c, d \in Commands :
    /\ c # d /\ SameKey(c, d) /\ HashOf[c] = HashOf[d]
    /\ PositionsOf(c) # {}
    => PositionsOf(d) = {}

\* "While the system is in maintenance mode [...] the write side is paused so
\* schema-bearing functions can be reloaded safely": no command is committed
\* then.
MaintenancePausesWrites == [][mode = "maintenance" => UNCHANGED log]_vars
=============================================================================
