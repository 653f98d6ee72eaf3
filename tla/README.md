# Formal models of pocketcqrs

TLA+ specifications of the core of pocketcqrs, an event-sourced CQRS runtime on
PocketBase, with TLC configurations that check them on small instances and
TLAPS proofs, for every instance, of what the event store, the batching writer, the
command gateway, the consumers engine, the reactors, the erasure of personal data, the search
indexes, the external caller and the live views guarantee.
Everything is written from the Go and JavaScript source; `PROJECT.json` maps each definition
to the lines it stands for.

Check one instance with `tlc -config MCEventStore.cfg MCEventStore.tla`, prove a
module with `tlapm EventStoreProofs.tla`.

## 1. The system

A command arrives over HTTP, is decided against the history of one stream, and
its events are appended to one SQLite log (`events.db`). One engine per process
polls the log and delivers every event, in order, to each registered consumer:
projections (read models), reactors (which dispatch further commands), effect
functions and external callers (which do work outside), and the personal-data
consumers (which destroy keys and evict caches).

| Part | State it keeps | Operations | Talks to |
|---|---|---|---|
| Event store (`events/`) | the log, the mode, engine checkpoints, dead letters, heartbeat | LoadStream, Append, CommitBatch, ImportEvents, CommandApplied, Poll, SetMode | everyone; publishes each commit in-process |
| Decider registry (`decider/`) | registered deciders | HandleWithMeta, DecideWithMeta, Register, Seal | store, personal data |
| Aggregates (`aggregates/`) | none | Decide, Evolve of task and order | registry |
| Command queue (`commandqueue/`) | durable rows with a done flag (`commandqueue.db`) | EnqueueCommand, PendingCommands, MarkDone, Depth | batching |
| Batching writer (`batching/`) | waiters and their channels; one window with its overlay | Enqueue, RunOnce | queue, registry, store |
| Gateway (`gateway/`) | none of its own | the command handler | mode, idempotency, registry or batching |
| Idempotency store (`idempotency/`) | key, request hash, response (`idempotency.db`) | Lookup, Save, Prune | gateway |
| Consumer engine (`consumers/`) | registered consumers, progress; positions in `events.db` or beside the rows | RunOnce, Register, Unregister, Status, rebuilds | store, every consumer |
| Projections (`projections/`, `functions/projection.go`) | rows in `data.db`, positions and rebuild requests beside them | Apply, Commit, Wipe, Request | engine |
| Reactors (`reactors/`, `functions/reactor.go`) | none | Dispatch | engine, registry |
| Outbox and its users (`outbox/`, `extcaller/`, effect functions, key destroyer, governor's reviews) | entries with due time and attempts (`outbox.db`) | Enqueue, RunOnce, Done, Reschedule | engine on one side, the outside world on the other |
| Personal data (`pii/`, `kms/`) | the plaintext cache and its erased set, keys and tombstones at the key service | Seal, Reveal/Flush, KeyDestroyer, CacheEvictor | registry, engine, outbox, key service |
| Retention (`retention/`) | stages of a subject's erasure, on its stream | Governor, policy | engine, registry, outbox |
| Remote auth (`authverify/`) | verdict cache | VerifyCached, VerifyFresh, Prune | the master node |
| Search index (`searchindex/`) | hashed and plain rows, versions, positions | Register, Apply, switch-over, PurgeErased | engine, key service |
| Live views (`queryroute/live.go`) | subscribers' notice channels | watch, notify, live | projections' writes |
| Reload and admin (`adminapi/`) | the function runtime, JS deciders, reactors, projections | ReloadFunctions, RequestRebuild, SetMode | registry, engine, store |

What is hard about it, and where it bites, is listed under `hazards` in
`PROJECT.json`, each at its line with the properties that would catch it. In short:

- nothing is locked between a stream's load and the append decided on it;
- batching commits to one database and keeps its queue in another, so every
  pair of steps can be split by a crash or a failed write;
- an answer, a queued row and an idempotency record are three things that can
  disagree;
- delivery to consumers is at least once, and rows, positions and rebuild
  requests are written separately;
- a command dispatched by a reactor or an external caller may be dispatched again,
  and only its derived id or key tells;
- a live view, a search index and a plaintext cache are copies that must follow
  their source while it changes under them;
- reload, stop and import happen in the middle of all that.

What makes each modelled part correct: the store, a decision applied only to the
history it was made on; the writer and the gateway, an answer that is true and a
command applied once; the engine, events in order and none passed over; the
reactors and the external caller, work neither lost nor done twice; the projections,
rows that are a function of the log; the views and the index, what is shown is what
is there; the personal data, what is erased is gone.

## 2. The modules

| Module | Models | Composes |
|---|---|---|
| `EventLog` | the events table, a sequence; what load, append, batch commit, import, poll and `CommandApplied` compute from it | - |
| `AtomicStore` | the abstract store: decide and append in one step | - |
| `EventStore` | concurrent callers of `HandleWithMeta` and imports | `EventLog`, refines `AtomicStore` |
| `Aggregates` | the task, order and note deciders and what they keep true | - |
| `Batching` | `Enqueue`, the queue, `RunOnce` with its overlay, the waiters, direct appends beside it | `EventLog` |
| `Gateway` | the command handler with the idempotency store, inline or through the queue | `EventLog` |
| `Consumers` | the engine's loop, checkpoints, committers, rebuilds, reload, stop | - |
| `ReactionPromises` | what reactors answer to an event; no answer skipped, none applied twice | `EventLog` |
| `Reactions` | reactors, in Go and in JavaScript: delivery, dispatch, the applied check, errors | `ReactionPromises`, deciders of `Aggregates` |
| `ExtCaller` | the external caller: its outbox, worker, calls and follow-ups through the gateway's records | - |
| `ReadSide` | two projections row by row, their rebuilds, and live views of them | - |
| `IndexPromises` | the rows of a search index, what they should be and what is promised of them | - |
| `SearchIndex` | a hashed search index: rotation, rebuild and switch-over, delivery, purge | `IndexPromises` |
| `Erasure` | erasing a subject: the key destroyer, the outbox and its worker, one process's cache and evictor, reads and sealing commands | - |
| `MCDomain`, `MC...` | instances: the program's deciders, streams and requests | each with its module |
| `EventLogTheorems` | lemmas on the log, used by the next three | `EventLog` |
| `BatchingProofs`, `GatewayProofs`, `ConsumersProofs`, `ExtCallerProofs`, `ReadSideProofs` | the theorems about the modules of those names | each its module |
| `EventStoreProofs` | the theorems about `EventStore`, then those about `Reactions` | `EventStore`, and an instance of `Reactions` on the same log |
| `ErasureProofs` | the theorems about `Erasure`, then those about `SearchIndex` | `Erasure`, and an instance of `SearchIndex` with its own variables |

**EventStore.** `DecideWithMeta` is `decider.go`'s load, fold and decide without a
lock; `AppendDecided` and `AppendConflict` are `Append`'s two outcomes under the
mutex; `PlatformFault` is any error on the way. `ImportEvents` is one transaction.
The event's type stands for its type and data. The table's UNIQUE constraint on
(aggregate, id, sequence) is left out on purpose: the invariant has to hold by the
code's own check, not because the database would refuse.

**Batching.** Each database write is a step of its own. `Begin` is the resume loop,
`Decide...` one command against the overlay, `CommitBatch`/`CommitRefused` the
transaction, then a signal per command and one done mark. A mark or a commit may
fail and the process may die between any two steps (each counted against
`MaxFaults`). A direct command is one atomic step, which `EventStore` is proved to
implement. `overlay` is `overlay.pending`; `staged` holds the rows themselves, in the
order the transaction inserts them, so the commit is `log \o staged`. `todo` is the rows
left to decide, then the entries left to signal, each time the lowest first. `verdicts`
and `unchanged` (commands a committed window decided to no event) are history variables.

**Gateway.** A command is one HTTP request; a retry is another request with the
same key and hash. The handler's steps are the mode check, the lookup, the
dispatch, and `respondJSON`'s save and answer. Of the batching writer it has what a caller
can tell apart: a refusal or an error is signalled and then marked done, events are
committed, then told (`WriterTells`), then marked; a mark may fail and a crash may come
between commit and mark, and the row is then taken again (`unmarked` remembers whose mark
failed). A pass takes its rows one by one: that a window decides them on an overlay, so that a
refusal may rest on events which never commit, is in `Batching` only. `known` is the record
under its key
when a request began, a history variable for one property; it is forgotten when the record
is pruned before the request's lookup, since a pruned key is a new one.

**Consumers.** One `phase` variable walks the loop through `takeRebuilds` (wipe,
reset, take off) and `runOnceFor` (load, poll, deliver, save). A committer writes
rows and position in one transaction, any other consumer in two steps. `rows`
holds what each consumer has done, oldest first.

**Erasure.** Positions are indices of `log`; `box` is the outbox as the positions it
holds, an entry's due time being abstracted to "sooner or later". `wired` chooses
the process followed: the writer with or without an outbox, or a secondary, which
sees a `replica` of the log and of the destroyer's position beside it.
`ReadCheckpoint` and `ReadPending` are the two reads of `RegisterCacheEvictor`.
A read is `CheckErased`, `Get`, `DecryptBatch`, `Fill`, each a step of its own
because `Buffer` holds no lock between them; a command is `CheckSubject` to
`AppendSealed`. `late` is a history variable: the request began after the erasure
was known. The cache is the set of subjects with plaintext in it; a fill may
evict any others, which stands for every capacity and order of use.

**Reactions.** One delivery is under way at a time, as in the engine's pass. A
delivery walks through its reactions: `Check` is `CommandApplied` from the cause on,
`DecideReaction` the load and decision, `AppendReaction` the append or its conflict,
which ends the delivery for a later pass. A rejection, an unknown aggregate or a
platform error is logged and the next reaction's turn comes (`dropped` remembers the
last two). A script that throws is dead-lettered as a whole. A command is the
reactor, the cause and the index its `commandId` is hashed from; the model keeps the
three apart as the hash does. A Go and a script reactor of one name would hash the
same id; the model's reactors have different names.

**ExtCaller.** `box` holds each event's entry with its payload (called, response,
next follow-up, tries); `hand` is the entry the worker holds and how far it has got.
Enqueue is INSERT OR IGNORE: an entry that is there stays, one that is done is
forgotten. The third party may answer differently each time. A follow-up meets the
gateway's record under its key, which is derived from the event and the follow-up's
index but not from the response or the command; a record of another body is refused
for good (422). The gateway's hourly pruner may drop a record at any time (`Prune`): it keeps
them for a retention, but an entry can outlast that while its process is down. A batch timeout
leaves the command queued (`late`), to be applied or not later. `answers`, `unrecorded` (the
events with a follow-up applied of which the gateway saved no record, or has dropped it) and
`unlisted` are history variables.

**ReadSide.** `orders` saves record by record, with a step between an order's line
and its totals, and its position after that; `orders_by_customer` commits rows and
position at once. Each committed write marks its collection `changed` until the
after-commit hook has told the viewers: PocketBase runs it before the save returns,
so the engine waits for it. A viewer's handler is a goroutine: it subscribes, reads
rows, reveals personal values, sends what differs and waits; its slot holds one notice.
An order's lines are kept by order, since the relation cascades. The script lists at
most 500 rows; the model has fewer.

**SearchIndex.** Rows carry their key version and their subject. `Register` is
followed write by write, with the errors it returns and those it ignores; a stop may
come between any two. The key rotates, and the facade may be restored from a backup
of before its last rotation; `latest` is what a start reads, and at a version above it the
facade cannot hash: a value is not delivered to a consumer of one (`Deliver`). A destroyed
subject's value may still be in the process's plaintext cache (`cached`) and be indexed from
there; when the cache lets go of it is `Erasure`'s matter and left open here, until the
process stops. `Revisits` lets a restored facade come back to a version that an earlier start
has seen, the case of section 6. `unsound` is set when an error that the code ignores
happened, from where an index may hold what it should not; the log's and the facade's actions
are bounded by the script and the versions.

**Seeded faults.** The operators commented "Seeded fault" are wrong versions of
the definition after them (a dropped check, a swapped order, a missing reset).
Nothing uses them; put in place of that definition, each makes a property fail,
which shows that the property depends on the code being right. `PROJECT.json`
pairs them under `mutants`.

## 3. The runs

| Run | Bounds | What it shows |
|---|---|---|
| `event_store` | 6 commands on an order and a task, 2 imports | numbering, answers, domain rules, refinement of `AtomicStore` |
| `batching` | 3 queued commands, of an order and a task, and 1 direct one; windows of 2, queue of 1, 1 fault or timeout, fair writer | serial application, durability of what is acknowledged, done marks that come last, queue order; every queued row is eventually done |
| `consumers` | a committer, a projection and a reactor; 2 events, polls of 2, tasks poisoned at the second event; any 2 of rebuild, reload, stop, crash, failure; fair engine | order, exactly-once for committers, clean stop, honest status; everyone else catches up, rebuilds happen |
| `gateway` | inline and batched dispatch; 4 requests, 3 with one key (2 of them the same request), 2 faults, lost marks or prunes, 1 mode change | answers are true, also about a key shared by two requests, replays apply nothing |
| `reactions` | 3 reactors in a chain over 3 aggregates, 4 user commands, an imported log or none, 2 crashes or failures | at most once, as decided, after its cause; none skipped; the chain is followed to its end |
| `external_caller` | 2 events, 1 of them matching; 3 answers of 0, 1 and 2 follow-ups; inline and batched; records pruned at any time; 2 attempts, 2 crashes or failing writes | no work lost, follow-ups of one answer only, each once, no needless second call; every entry ends |
| `conflict_is_redecided` | `external_caller`'s, with 3 attempts and without faults | see 6 |
| `read_side` | 5 events of 2 orders and a line added again; either projection; 1 viewer; any 2 of crash, failure, rebuild, leaving; an erasure of a value in `orders` | rows follow the log, an idle viewer is current; viewers settle |
| `search_index` | 4 events, 2 records of 2 subjects, one erased; 3 key versions, 2 stops, 2 failures or a lost file | an index says what its position says, a switch loses nothing, erased rows go; searches are served again, by the rebuild |
| `erasure` | 1 subject, 2 reads, 1 sealing command; the writer with or without an outbox, a secondary seeded from the log beside a writer without one, or from its own store; 2 events, 2 crashes or failures | the cache forgets for good, late reads are redacted, no erasure is forgotten; the key and the plaintext eventually go |
| `seed_is_safe` | `erasure`'s, on a secondary seeded from the log beside a writer with an outbox | see 6 |
| `applied_once_per_key` | `gateway`'s, without faults | see 6 |

Every module states its types as `TypeOK`. The runs do not check it: it is a theorem
for `EventStore`, `Batching`, `Gateway`, `Consumers`, `Erasure` and `ExtCaller`, a part of
the proved invariant `IndexInv` for `SearchIndex`, and the others' can be added to a
configuration's INVARIANTS.

Why these are enough: the interesting cases need two contenders for one stream, a
window with at least two commands of the same stream and one left over for the
next, a poll that fails half way through what it read, a read that began before an
erasure beside one that began after it, two different answers of a third party to one
event, a target that moves under a reaction, a rotation noticed while another is under
way, and one failure at each step;
each instance has these with room to spare, and the seeded faults show that they
occur. Runs that stop for lack of new requests (`CHECK_DEADLOCK FALSE`) are those
of a finite set of requests.

**Fairness.** `Batching` assumes weak fairness of the writer: the loop runs on a
nudge and on an 8 ms ticker, one `RunOnce` after the other. `Consumers` assumes it
of the engine: the loop runs a pass on every tick and a pass runs to its end.
`Erasure` assumes it of the engine and of the worker (an entry put off
comes due), of a process starting again and of the replica catching up.
`ExtCaller` assumes it of the engine, the worker and the gateway's writer, each one
loop. `Reactions`, `SearchIndex` and `ReadSide` assume it of a delivery under way, and
strong fairness of each consumer's delivery: a pass goes through all consumers, so one
that has an event to take has its turn however often others do. `SearchIndex` also
assumes that a stopped process is started; `ReadSide` that listeners are called and that
a viewer's handler, a goroutine, runs.
Nothing is assumed of clients, commits, reloads or restarts. Faults are bounded,
which stands for "faults stop for long enough".

## 4. What is proved

In `EventStoreProofs`, for any streams, commands, deciders and imports:

- `StoreTypeCorrect`: `Spec => []TypeOK`;
- `StoreContiguous`: `Spec => []StreamsContiguous`;
- `StoreAnswersMatch`: `Spec => []AnswersMatchLog`;
- `StoreAppendOnly`: `Spec => AppendOnly`;
- `StoreImplementsAtomic`: `Spec => AtomicSpec`, the refinement.

Contiguity is inductive with the types: an append passes only if the sequence it
was decided at is MAX(sequence), which with contiguity is the stream's length, so
its rows continue the numbering; an import brings whole numbered streams of
aggregates the log has nothing of. The refinement needs one more conjunct,
`DecisionsCurrent`: while a caller holds a decision, if its stream still has the
length it was decided at, then its decision is what the decider answers on the
stream's present history. It holds because a stream never changes without growing
(an append adds at least one event; the log is append-only). With it
`AppendDecided` maps to the abstract `Accept`, `DecideWithMeta` to `Reject`,
`Accept` of no events or a stutter, and an import to `Import`.
`AnswersMatchLog` is inductive with `Undecided` (a caller that has not decided holds no
events): a caller's rows come with its "ok" and from then on it has no step.
`EventLogTheorems` holds the lemmas: the length and history of a stream after an
append and an import, `CurrentSequence` on contiguous logs, which rows of a log are one
command's and how an append changes them, and the same of two logs put together.

The assumptions are those the modules name (`StreamsAssumption`,
`CommandsAssumption`, `RejectedAssumption`, `ImportsAssumption`): finitely many
streams, a target per command, imports that hold whole streams in order (what the
export writes).

In `BatchingProofs`, for any streams, commands, deciders, window size, queue depth and
number of faults, from `BatchingAssumption` and those of `EventLog`:

- `BatchingTypeCorrect`: `Spec => []TypeOK`;
- `BatchesAppliedSerially`, `AcknowledgedStays`, `DoneComesLast`, `QueueKeepsOrder`:
  `Spec => []` of `AppliedSerially`, `AcknowledgedIsDurable`, `DoneIsSettled` and
  `QueueOrder`.

`AppliedSerially` speaks of the log and the writer works on a copy of part of it, so the
invariant is about the log as it would be if the window committed now, `log \o staged`.
While every stream the window has touched is as long as its first entry found it
(`OnTime`), that log is numbered, the overlay shows its streams, and each staged command
was decided on exactly the rows before its own (`CandidateInv`). A direct append to
another stream lands between the two halves and disturbs none of this (`InsertedForeign`);
one to a stream of the window makes `OnTime` false for good (`LoadedInv`: streams only
grow), and with it the validation pass of `CommitBatch`, which is the only way into the
log. `TodoInv` is why nothing is applied twice: what a window is still to decide has no
row, because the resume loop looked for one from the position recorded at admission on,
and a command's rows come after that position (`QueueInv`). `SignalInv` keeps an
acknowledgement behind the commit and a mark behind the acknowledgement. For the order of
the queue, `LeftInv` says that no older row is left out of a window unless it is `Dealt`
with, and `OrderInv` that an applied row has only such rows before it.

The attempt to prove `QueueOrder` as it stood first, with refused and failed commands as
the only exception, failed, and showed a second one: a command that its committed window
decided to no event has no row to be recognised by. If its done mark is lost it is decided
again, behind rows applied meanwhile, and may then yield events. No caller is deceived (it
was told its command succeeded without events, which the comment at
`batching/batching.go:20-27` has in mind when it calls the flag bookkeeping), but the order
is that of the second decision. `unchanged` and `InOrder` name the exception.

In `GatewayProofs`, for any requests, keys, hashes, deciders, dispatches and bounds, from
`KeysAssumption` and those of `EventLog`:

- `GatewayTypeCorrect`: `Spec => []TypeOK`;
- `AnswersTrue`, `KnownApplyNothing`: `Spec => []` of `AnswersAreTrue` and
  `KeyedRetryAppliesNothing`;
- `FirstWins`: `Spec => FirstOutcomeWins`.

A record outlives the request that saved it, so what it says has to stay true whatever
other requests do. The invariant is about when a request stops: it is `Over` once its
handler is past the dispatch and no queued row of it is left, and `Settled` then or once
it has rows, since the writer looks for a row's events before it decides it (`OwnRows` is
why it finds them). A settled request gets no further rows and one that is not settled has
none, so a 200 that names the rows of a settled request (`Holding`), in an answer as in a
record, stays true. A refusal is `Untouched`, with neither rows nor a queued row, and stays
so (`QueueInv`, `OutcomeInv`, `AnsweredInv`); what the writer is about to tell is in the log
(`TellInv`). A timeout is the one answer that promises nothing. `KnownInv`: while a request
that began with a record has not looked it up, the record is there, so it never gets past
the lookup.

The exception that the property makes is the code's: a batched command that committed
nothing (refused, failed, or decided to no event) leaves no trace but its done mark. If that
is lost after its caller was told, the command is decided again and may be applied (see 6).
No request of run `gateway` is decided to no event, so that the exception
for a 200 without events is needed rests on the proof.

In `ErasureProofs`, for any subjects, requests, wirings and bounds:

- `ErasureTypeCorrect`: `Spec => []TypeOK`;
- `ErasureNoneForgotten`: `Spec => []NoErasureForgotten`;
- `ErasureSeedIsSafe`, `ErasureEvictedForGood`, `ErasureLateIsRedacted`: the
  properties of those names, assuming `SafeWirings`: no secondary is seeded from the
  log while its writer has an outbox, the wiring on which run `seed_is_safe` refutes
  the first of them.

The argument goes in four layers, each inductive with those before it.
`DestroyerInv`: whatever the destroyer has applied is handled (destroyed, or in the
outbox), and the worker takes off only what it has destroyed. `EvictorInv`: what is
before the evictor's start is handled while it looks, and cleared once it runs (the
key destroyed, or the subject in the erased set): reading the checkpoint before the
pending entries is what makes this so, since an entry leaves the outbox only with
its key. `CacheInv`: a plaintext in hand was decrypted or sealed with a live key, so
if the evictor is past its subject's erasure, the erased set refuses it. `LateInv`:
a late read has a destroyed key and no cached value to find.

In `ConsumersProofs`, for any consumers, registration order, committers, projections,
effects, poison, batch size and bounds, from `NamesAssumption` (finitely many
consumers, no effect consumer a projection) and `BoundsAssumption`:

- `TypeCorrect`: `Spec => []TypeOK`;
- `ConsumersHandleInOrder`, `CommittersApplyOnce`, `StopsCleanly`, `StatusIsHonest`:
  `Spec => []` of `HandledInOrder`, `CommittedOnce`, `StopIsClean` and `StatusHonest`.

None is inductive alone. The invariant follows the loop.
`LoopInv`: in a turn the local position is the consumer's own, the batch is the events
right after it, and the requests still to act on are pending and of consumers whose turn
is to come. `RebuildInv`: a rebuild's rows are empty before its position is reset, and
both before its request goes, so the moment the request goes the two agree.
`RowsInv`: a committer has done exactly the events up to its position; anyone else those,
or one more where a save is still to come or has failed (`Kept`). `ExactInv`: with no fault
so far there is no such one more except between the apply and its save. `StatusInv`: of a
consumer whose turn is not to come in this pass, what is shown with nothing pending is
true; this needs that no deed is past the end of the log, so that at the end of the log
nothing is left half recorded.

In `ExtCallerProofs`, for any log, matching events, answers, follow-ups, attempts and
number of faults, from `ExtCallerAssumption` and `NoneAssumption` (`None` is no work):

- `TypeCorrect`: `Spec => []TypeOK`;
- `CheckpointKeepsWork`: `Spec => []WorkIsKept`;
- `ThirdPartyAnswersOnce`: `Spec => []AnsweredOnce`;
- `FollowUpsOfOneAnswer`: `Spec => []FollowUpsDoNotMix`.

`WorkIsKept` alone is not inductive: that an entry may go depends on what has become of
its work while nobody looked at the checkpoint. The invariant follows the work. `BoxInv`
and `HandInv`: once called, the payload (in the entry, and in the worker's hand) names an
answer the third party gave, and the follow-ups before the next one are applied; an entry
in hand stays in the box until it is done, and is done only when settled. `RecordsInv`: a
recorded 200 means that follow-up is applied, so a replayed 200 may be counted as done.
`KeptInv` and `RecordedInv`: each matching event up to the checkpoint, and the one that
is recorded but not yet checkpointed, has its entry or is settled. Applied, answered,
dead-lettered and unlisted only grow (`Grows`), so what is settled stays so.

`AnsweredOnce` is a count, and becomes inductive by counting what may still come:
`AnswersInv` adds to the answers an event had the one its entry may still cause and the
one its delivery may still cause by recording the work anew, and bounds the sum. A fault
pays for two. `MixInv` ties what is applied to the records: of an event with no unrecorded
application, each follow-up applied has its 200 on record, comes after those before it of
its answer, and after nothing else of its event. So a follow-up of another answer, or one
again, finds a record under its key and is refused or replayed, never applied. Where the
record could not be saved, or was pruned while the entry was still pending, nothing is
claimed: a second answer's follow-ups may then be applied beside the first's.

In `ReadSideProofs`, for any script, hosts, viewers, personal collections and number of
faults:

- `ViewersAreCurrent`: `Spec => []IdleIsCurrent`;
- `ReadModelsAreRight`: `Spec => ReadModelsFollow`, from `RowsAlways`:
  `Spec => []RowsInv`.

For the first, the invariant says of a stream that is revealing that what it read is what a read would
show now, or that a notice of the difference is in its slot or due; and of one that waits
the same of what it was last sent, with an erasure not yet announced as one more notice
due. It holds because a stream is in the hub before its first read, and because a handler
takes its notice before it reads again.

For the second, `ScriptAssumption` says of the script what `OrderDecide` lets into the
log: an order's first event places it and no other does. `ReadModelsFollow` speaks of the
rows at the moment a position moves, so `RowsInv` says what they are the rest of the time.
`orders` holds what the log says up to its position, or, while the next event is being
applied or is to be applied again, its lines as they will be and its row as it was or
will be (`Half`), whatever failed in between; from either, `ApplyOrder` and `Totals` make
the same rows (`StatusRow`, `TotalsRow`, `LineAdded`), which is why a second delivery
leaves no trace. `orders_by_customer` commits with its position and never is half way. A
projection whose rebuild was asked for is exempt until `TakeOff`; that its rows are right
again then rests on `TurnInv`, which keeps its tables empty from the end of the wipe on and
its position at 0 from the reset on. That the totals agree is proved from equal sets of
lines, without what a sum is; the count of orders is carried from the script's own rows to
the orders by a bijection (`OrdersCounted`). `TypeOK` of `ReadSide` stays with TLC: that a
sum of amounts is a number needs induction over `MapThenSumSet`, which is a fold.

The second half of `EventStoreProofs` is about `Reactions`, for any reactors, what they
answer, deciders, users and number of faults, from `ReactionsAssumption`:

- `ReactionsNothingSkipped`: `Spec => []NothingSkipped`;
- `ReactionsOnce`: `Spec => []ReactedOnce`.

Both assume `[]ReactorsAnswer`: for each event in the log a reactor answers with a list of
commands that are its own (a command id hashes the reactor, the cause and the index, so it
is no other caller's) and that name the stream they go to. `Owed`, the answer, is a constant
operator applied to events, and those in the log depend on what was decided, so this is
said of the log as it grows; it holds throughout run `reactions`. `ReactingSame` carries the
lemmas of `EventLogTheorems` over to the instance, whose log is the store's, and
`ReactingPromises` the instance's promises back to `ReactionPromises`.

`NothingSkipped` speaks of positions and becomes inductive with the turn under way:
`ReactionsSettled` also says that the reactions before the turn's index, or all of them at its
save, are in the log, refused or dropped. For `ReactedOnce`, `ReactionRows` says that a row of
a reaction stands after an event that owes it. Hence `CommandApplied`, which looks for the id
only from the cause on, misses no row, and a turn that is past the check has none in the log
(`ReactionTurn`). The same part keeps the decision in hand current unless its stream has grown,
the store's own argument, so what passes the sequence check is what the target decides on the
log at that moment. `ReactionsPlaced` says of each reaction that its rows are one such block;
later appends go behind it.

The second half of `ErasureProofs` is about `SearchIndex`, for any script, versions, stops and
faults, from `SearchIndexAssumption`:

- `IndexPurgeClears`: `Spec => []PurgeClears`, on a host that registers its indexes before it
  purges (`~PurgeFirst`);
- `IndexIsFaithful`, `IndexSwitchKeepsUp`: `Spec => []IndexFaithful` and
  `Spec => SwitchKeepsUp`, unless the facade comes back to a version that a start has seen
  (`~Revisits`);
- `IndexErasedGone`: `Spec => []ErasedGone`, if no value of a subject follows the subject's
  erasure in the log (`NothingFollows`).

Section 6 shows what happens without each of the three hypotheses.

Below them lies `IndexInv`: types, what each step of a turn refers to, which versions are
registered and recorded at each point of a start. `IndexPurged` adds to the purge's promise
that neither a write under way nor what the process has cached is of a purged subject: the
purge is over before the engine runs, and nothing is cached until then. `IndexFaith` says of the index that searches
use, of the one a start would go on with and of every registered one that it shows what its
position says, or the next event too (`IndexKept`). A start decides by the recorded version
and the facade's latest which rows to keep, so it needs to know of versions nobody is
registered at: none has rows or a position beyond what the facade has reached
(`IndexAhead`), a file without a recorded version is empty (`IndexEmpty`), and one whose
tables have been emptied is recorded beyond the latest until the version is set
(`IndexEmptied`). `IndexClean` follows the subjects: no version holds a row of one erased up
to its position (`IndexClear`), all rows are of a registered version or the replaced one
(`IndexOwned`), and since a rebuild takes over only at the replaced one's position
(`IndexBehind`), what the replaced one has left is clean up to there (`IndexLeft`).

`IndexFaithful` was to be proved with a restored facade excluded from rotating again, the
exception that TLC had shown with two versions. The proof did not go through, and with three
versions TLC showed why: a rebuild that was begun and given up for a further rotation leaves
its position behind, and a facade restored to exactly that version makes a start trust it.
`Revisits` names both ways of coming back to a version, and run `search_index` has three
versions since.

Only model-checked: of what the passing runs check, the liveness properties (fairness and
ENABLED are out of the prover's reach here) and `DomainRules`, which is about the program's own
deciders: they fold a history, so it needs induction over one. Further, `TypeOK` of `ReadSide`
(see above) and of `Reactions`, of which `ReactionTyped` has what the proofs need; and what the
recursive and folding definitions compute for every input.

## 5. Not modelled

`PROJECT.json` lists every component with its status and the reason. In short:

- **Retention** (`retention/`: stages, holds, reviews), **remote auth** (`authverify/`: a
  verdict cache) and the **swap of a decider by a reload**: protocols of their own, the
  first candidates for further modules. `hazards` names the lines of the first, and what
  of a reload is covered.
- **Effect functions, HTTP and cron functions** (`functions/http.go`, `outbound.go`): their
  outbox is the one of `ExtCaller`; what a script computes is not.
- **Parts of modelled components**: several fields and prefixes of an index, a search in
  flight during a switch, the paging of the erasure ledger and a ledger that is shorter than
  the cursor; access rules of read routes; upcasting of events; the tasks projection; an
  outbox worker with several consumers.
- **No protocol of their own**: text formats, code generation, schema documents, the
  catalog, metrics, command-line parsing, file layout.
- **JavaScript**: nearly all of the repository's is vendored in the dashboard (webawesome,
  CodeMirror, htmx, cytoscape) and the rest there draws pages. What runs in the program,
  the shipped functions, is modelled: `note.js` in `Aggregates`, `task_completion_note.js`
  in `Reactions`, `orders_by_customer.js` in `ReadSide`.

## 6. Where the code and its documentation differ

Three are runs that TLC refutes; `findings` in `PROJECT.json` quotes the words.

- **A keyed retry can apply twice** (`gateway/gateway.go:313`): a batch timeout
  saves nothing under the key while the queued row goes on.
- **A secondary can start its evictor past a live key** (`pii/subject.go:145`): with
  an outbox on the writer the destroyer's position runs ahead of the keys, and only
  the writer can see by how much.
- **A conflict is never decided again** (`extcaller/extcaller.go:371`): the gateway saves
  the 409 under the follow-up's key and replays it to every retry, until the work is
  dead-lettered.

The others can be seen by a change to a configuration:

- **A rejection is not final** (`batching/batching.go:243`): it is signalled before the
  row is marked done; if the mark is lost the command is decided again, later, though a
  rejection is "not automatically retried" (236-237) and the flag "is pure bookkeeping that
  can lag arbitrarily with zero correctness risk" (24-25). The same holds of a command that
  could not be decided. Add `OutcomeIsFinal` to `MCBatching.cfg`.
- **A fresh consumer can show the progress of the one it replaced**
  (`consumers/consumers.go:379`): a pass goes through a copy of the consumers and records
  progress by name, also for one unregistered meanwhile, though one "that has not run a
  pass yet is Behind with unknown lag" (387-388). Add
  `FreshShowsNothing` to `MCConsumers.cfg`.
- **The purge of erased subjects may purge nothing** (`searchindex/store.go:274`): it
  deletes from the tables that registered indexes have opened. The docs
  (`docs/personal-data.md:124-126`) and the generated wiring (`schema_cmd.go:405-406`) call
  it before any index is registered: it finds no table, deletes nothing and saves its
  cursor, which the comment (269-270) says is saved only once the rows are gone. Rows of a
  subject whose erasure is in the log are still deleted by the index itself (`ErasedGone`). With
  `PurgeFirst = TRUE`, `PurgeClears` fails.
- **A waiter may never be served** (`batching/batching.go:142`): the row is inserted
  before its waiter is registered, and a tick between the two loses the outcome: the
  caller gets 504 for a command that was applied, where the comment (91-92) promises a
  channel "that receives exactly one Outcome". Add `WaiterIsServed` to `MCBatching.cfg`.
- **Maintenance does not stop writes already admitted** (`gateway/gateway.go:200`),
  though "the write side is paused" (151-153). Add `MaintenancePausesWrites` to
  `MCGateway.cfg`.
- **An erasure can wait for ever** (`outbox/worker.go:102`): after one failed `NextDue`
  the worker has no timer, though it retries "never giving up"
  (`docs/personal-data.md:143-145`). `ErasureHappens` says that this is the only way; add
  `EveryErasureHappens` to `MCErasure.cfg`.
- **An index can stay partial** (`searchindex/index.go:374-380`): the tables of a rebuild are
  emptied before its old position is dropped. When the process dies in between, with a facade
  that was restored to an older version and is then rotated again, the next start finds the
  recorded version the latest, and carries on from the old position over empty tables. Nor does
  a rebuild that is given up for a later version leave nothing behind: `deleteOtherVersions`
  (393) takes its rows and not its position, so when the facade is restored from the third
  version to the second, where a rebuild was once begun, the start that rebuilds there goes on
  from that position. The package comment says indexes "rebuild from zero rather than stay
  silently partial" (of a lost file). With `Revisits = TRUE`, `MaxFaults = 0` and
  `MaxStops = 3`, `IndexFaithful` fails, the first way already with `MaxVersion = 2`. The same
  follows, without a restored facade, from an error of `deleteCheckpoint`, which the code
  ignores; `unsound` leaves that out.
- **A value that follows its subject's erasure stays in the index until a later start**
  (`searchindex/index.go:242`): a value encrypted before the key is destroyed but appended
  after the erasure is hashed and written when its event is delivered before the key goes. No
  event deletes that row again, though "the search indexes delete their rows"
  (`docs/personal-data.md:156`); the purge of a later start does. With a put of the erased
  subject as the last event of `MCLog`, `ErasedGone` fails.
