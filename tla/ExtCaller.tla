----------------------------- MODULE ExtCaller -----------------------------
(***************************************************************************)
(* The external caller (package extcaller): a consumer that records each   *)
(* matching event as work in an outbox (package outbox), whose worker calls*)
(* a third party and dispatches the follow-up commands of the answer       *)
(* through a deployment's command gateway, over HTTP and under derived     *)
(* idempotency keys.                                                       *)
(*                                                                         *)
(* Of the gateway (module Gateway) the part a follow-up meets is here: the *)
(* record under its key until it is pruned, and one step from its decision *)
(* to the saved record. The log already holds every event; a follow-up is  *)
(* known by its event, its index and the response it came of. Due times    *)
(* are left out: an entry may be taken at any time after it was            *)
(* rescheduled.                                                            *)
(***************************************************************************)
EXTENDS Naturals, Sequences, FiniteSets, SequencesExt

CONSTANTS
  LogLen,       \* the number of events in the log
  Matching,     \* those a rule claims
  Responses,    \* what the third party may answer, each time it is asked
  FollowUps,    \* how many follow-ups HandleResponse makes of each
  Dispatches,   \* how the gateway may dispatch: "inline", "batched"
  MaxAttempts,  \* RetryPolicy
  None,         \* no entry, no record, nothing in hand
  MaxFaults     \* bound: crashes and failing writes

ASSUME ExtCallerAssumption ==
  /\ LogLen \in Nat /\ Matching \subseteq 1 .. LogLen
  /\ FollowUps \in [Responses -> Nat]
  /\ Dispatches \subseteq {"inline", "batched"}
  /\ MaxAttempts \in Nat \ {0} /\ MaxFaults \in Nat
  /\ None \notin Responses

VARIABLES
  checkpoint,  \* the consumer's position
  recorded,    \* the next event is applied and not yet checkpointed
  box,         \* the outbox: each event's entry
  hand,        \* the entry the worker handles, and how far it has got
  dead,        \* the dead letters
  via,         \* how the gateway dispatches, never changed
  records,     \* its idempotency records
  late,        \* its queued commands whose caller was answered 504
  applied,     \* the follow-ups it has applied, in the log's order
  answers,     \* history: the responses the third party gave for each event
  unrecorded,  \* history: events with a follow-up applied of which the gateway
               \* saved no record, or has dropped it
  unlisted,    \* history: events whose dead letter could not be written
  faults       \* bound: faults so far

vars == <<checkpoint, recorded, box, hand, dead, via, records, late, applied,
          answers, unrecorded, unlisted, faults>>

consumer == <<checkpoint, recorded>>
gateway  == <<records, late, applied, unrecorded>>
letters  == <<dead, unlisted>>

Indices == UNION {1 .. FollowUps[r] : r \in Responses}

FollowUpCommands == [event : Matching, index : Indices, resp : Responses]

\* work, the entry's payload.
Works == [called : BOOLEAN, resp : Responses \cup {None},
          next : Indices \cup {1}, tries : 0 .. MaxAttempts - 1]

Hands == [event : Matching, work : Works,
          step : {"call", "dispatch", "again", "giveUp", "done"}]

\* What the gateway keeps under a follow-up's key.
Records == [resp : Responses, status : {200, 409}]

ASSUME NoneAssumption == None \notin Works \cup Hands \cup Records

TypeOK ==
  /\ checkpoint \in 0 .. LogLen /\ recorded \in BOOLEAN
  /\ box \in [Matching -> Works \cup {None}]
  /\ hand \in Hands \cup {None}
  /\ dead \subseteq Matching /\ unlisted \subseteq Matching
  /\ via \in Dispatches
  /\ records \in [Matching \X Indices -> Records \cup {None}]
  /\ late \in Seq(FollowUpCommands) /\ applied \in Seq(FollowUpCommands)
  /\ answers \in [Matching -> Seq(Responses)]
  /\ unrecorded \subseteq Matching
  /\ faults \in 0 .. MaxFaults

Init ==
  /\ checkpoint = 0 /\ recorded = FALSE
  /\ box = [e \in Matching |-> None] /\ hand = None
  /\ dead = {} /\ unlisted = {}
  /\ via \in Dispatches
  /\ records = [k \in Matching \X Indices |-> None]
  /\ late = << >> /\ applied = << >>
  /\ answers = [e \in Matching |-> << >>]
  /\ unrecorded = {} /\ faults = 0

Fault == faults < MaxFaults /\ faults' = faults + 1

-----------------------------------------------------------------------------
(* The consumer.                                                           *)

\* Store.Enqueue: asking again is the same entry, while it is there.
Enqueue(e) ==
  box' = [box EXCEPT ![e] =
            IF @ # None THEN @
            ELSE [called |-> FALSE, resp |-> None, next |-> 1, tries |-> 0]]

\* Seeded fault: a failed enqueue does not hold up the checkpoint.
ApplyLogsError ==
  /\ ~recorded /\ checkpoint < LogLen
  /\ \/ checkpoint + 1 \notin Matching /\ UNCHANGED <<box, faults>>
     \/ checkpoint + 1 \in Matching /\ Enqueue(checkpoint + 1) /\ UNCHANGED faults
     \/ checkpoint + 1 \in Matching /\ Fault /\ UNCHANGED box
  /\ recorded' = TRUE
  /\ UNCHANGED <<checkpoint, hand, letters, via, gateway, answers>>

\* Consumer.Apply; when the work cannot be recorded it fails, and the engine
\* delivers the event again, which is no step here.
Apply ==
  /\ ~recorded /\ checkpoint < LogLen
  /\ \/ checkpoint + 1 \notin Matching /\ UNCHANGED box
     \/ checkpoint + 1 \in Matching /\ Enqueue(checkpoint + 1)
  /\ recorded' = TRUE
  /\ UNCHANGED <<checkpoint, hand, letters, via, gateway, answers, faults>>

\* The engine saves the position, or fails to and delivers the event again.
SaveCheckpoint ==
  /\ recorded /\ recorded' = FALSE
  /\ \/ checkpoint' = checkpoint + 1 /\ UNCHANGED faults
     \/ Fault /\ UNCHANGED checkpoint
  /\ UNCHANGED <<box, hand, letters, via, gateway, answers>>

-----------------------------------------------------------------------------
(* The worker: RunOnce handing one entry to Handle.                        *)

At(step) == hand # None /\ hand.step = step

\* Handle goes on to a step with its work changed.
Goes(work, step) == hand' = [hand EXCEPT !.work = work, !.step = step]

Gives(up) == hand' = [hand EXCEPT !.step = IF up THEN "giveUp" ELSE "done"]

\* Seeded fault: tries are not counted.
RetryForever(work) == Goes(work, "again")

\* retry: due again with one more try counted, or the tries are spent.
Retry(work) ==
  IF work.tries + 1 >= MaxAttempts
  THEN Gives(TRUE)
  ELSE Goes([work EXCEPT !.tries = @ + 1], "again")

Take(e) ==
  /\ hand = None /\ box[e] # None
  /\ hand' = [event |-> e, work |-> box[e],
              step |-> IF box[e].called THEN "dispatch" ELSE "call"]
  /\ UNCHANGED <<consumer, box, letters, via, gateway, answers, faults>>

\* Outbound.Do and HandleResponse: follow-ups of the answer, and a fresh count
\* of tries for their dispatch.
CallAnswered(r) ==
  /\ At("call")
  /\ Goes([called |-> TRUE, resp |-> r, next |-> 1, tries |-> 0],
          IF FollowUps[r] = 0 THEN "done" ELSE "dispatch")
  /\ answers' = [answers EXCEPT ![hand.event] = Append(@, r)]
  /\ UNCHANGED <<consumer, box, letters, via, gateway, faults>>

\* The call fails, or something about it is permanent: no rule any more, no
\* request can be built, the host is not allowed, the answer makes no sense.
CallFails ==
  /\ At("call")
  /\ Retry(hand.work) \/ Gives(TRUE)
  /\ UNCHANGED <<consumer, box, letters, via, gateway, answers, faults>>

-----------------------------------------------------------------------------
(* The dispatch of the next follow-up.                                     *)

Command == [event |-> hand.event, index |-> hand.work.next,
            resp |-> hand.work.resp]

\* IdempotencyKeyParts: neither the response nor the command is in it.
KeyOf(f) == <<f.event, f.index>>

RecordOf(f) == records[KeyOf(f)]

Dispatched ==
  IF hand.work.next = FollowUps[hand.work.resp]
  THEN Gives(FALSE)
  ELSE Goes([hand.work EXCEPT !.next = @ + 1], "dispatch")

Saved(f, status) ==
  records' = [records EXCEPT ![KeyOf(f)] = [resp |-> f.resp, status |-> status]]

\* Maintenance, a full queue or a busy store (503), or no connection.
Unavailable ==
  /\ At("dispatch")
  /\ Retry(hand.work)
  /\ UNCHANGED <<consumer, box, letters, via, gateway, answers, faults>>

\* Seeded fault: a record is replayed whatever request it was saved for.
LookupByKey ==
  LET record == RecordOf(Command)
  IN /\ At("dispatch") /\ record # None
     /\ \/ record.status = 200 /\ Dispatched
        \/ record.status = 409 /\ Retry(hand.work)
     /\ UNCHANGED <<consumer, box, letters, via, gateway, answers, faults>>

\* The key has a record: of another follow-up, which is refused for good
\* (422), or this one's outcome, replayed.
Lookup ==
  LET record == RecordOf(Command)
  IN /\ At("dispatch") /\ record # None
     /\ \/ record.resp # Command.resp /\ Gives(TRUE)
        \/ record.resp = Command.resp /\ record.status = 200 /\ Dispatched
        \/ record.resp = Command.resp /\ record.status = 409 /\ Retry(hand.work)
     /\ UNCHANGED <<consumer, box, letters, via, gateway, answers, faults>>

\* The gateway decides and applies the follow-up, after whatever is queued
\* before it, and saves the 200 under its key.  The save, or the answer, may
\* be lost.
Accept ==
  /\ At("dispatch") /\ RecordOf(Command) = None /\ late = << >>
  /\ applied' = Append(applied, Command)
  /\ \/ Saved(Command, 200) /\ Dispatched /\ UNCHANGED <<unrecorded, faults>>
     \/ /\ Fault
        /\ Saved(Command, 200) /\ Retry(hand.work)
        /\ UNCHANGED unrecorded
     \/ /\ Fault
        /\ unrecorded' = unrecorded \cup {hand.event}
        /\ Dispatched \/ Retry(hand.work)
        /\ UNCHANGED records
  /\ UNCHANGED <<consumer, box, letters, via, late, answers>>

\* A rejection, or a platform error (500): nothing is saved, and the whole
\* event is given up.
Reject ==
  /\ At("dispatch") /\ RecordOf(Command) = None
  /\ Gives(TRUE)
  /\ UNCHANGED <<consumer, box, letters, via, gateway, answers, faults>>

\* Another append came first: 409, saved under the key.
Conflict ==
  /\ At("dispatch") /\ RecordOf(Command) = None /\ via = "inline"
  /\ Saved(Command, 409)
  /\ Retry(hand.work)
  /\ UNCHANGED <<consumer, box, letters, via, late, applied, unrecorded,
                 answers, faults>>

\* The batch timeout: 504, and the command stays queued.
Timeout ==
  /\ At("dispatch") /\ RecordOf(Command) = None /\ via = "batched"
  /\ Fault
  /\ late' = Append(late, Command)
  /\ Retry(hand.work)
  /\ UNCHANGED <<consumer, box, letters, via, records, applied, unrecorded,
                 answers>>

\* The writer gets to a command nobody waits for, and applies or refuses it.
LateApply ==
  /\ late # << >> /\ late' = Tail(late)
  /\ \/ /\ applied' = Append(applied, Head(late))
        /\ unrecorded' = unrecorded \cup {Head(late).event}
     \/ UNCHANGED <<applied, unrecorded>>
  /\ UNCHANGED <<consumer, box, hand, letters, via, records, answers, faults>>

\* The gateway's pruner drops a record that has outlived the retention.  Ages
\* are left out: it may be any record, at any time.
Prune(k) ==
  /\ records[k] # None
  /\ records' = [records EXCEPT ![k] = None]
  /\ unrecorded' = IF records[k].status = 200 THEN unrecorded \cup {k[1]}
                   ELSE unrecorded
  /\ UNCHANGED <<consumer, box, hand, letters, via, late, applied, answers,
                 faults>>

-----------------------------------------------------------------------------
(* What the worker makes of the outcome.                                   *)

\* deadLetter: a write that fails is logged, and the entry is done all the same.
DeadLetter ==
  /\ At("giveUp") /\ Gives(FALSE)
  /\ \/ dead' = dead \cup {hand.event} /\ UNCHANGED <<unlisted, faults>>
     \/ Fault /\ unlisted' = unlisted \cup {hand.event} /\ UNCHANGED dead
  /\ UNCHANGED <<consumer, box, via, gateway, answers>>

\* Store.Done, or it fails and the entry is due as it was.
Done ==
  /\ At("done")
  /\ \/ box' = [box EXCEPT ![hand.event] = None] /\ UNCHANGED faults
     \/ Fault /\ UNCHANGED box
  /\ hand' = None
  /\ UNCHANGED <<consumer, letters, via, gateway, answers>>

\* Seeded fault: the entry's state is not kept with the failed attempt.
RescheduleForgets ==
  /\ At("again")
  /\ hand' = None
  /\ UNCHANGED <<consumer, box, letters, via, gateway, answers, faults>>

\* Store.Reschedule with the work as it is now, or it fails and the entry is
\* due as it was.
Reschedule ==
  /\ At("again")
  /\ \/ box' = [box EXCEPT ![hand.event] = hand.work] /\ UNCHANGED faults
     \/ Fault /\ UNCHANGED box
  /\ hand' = None
  /\ UNCHANGED <<consumer, letters, via, gateway, answers>>

\* The external caller's process dies and starts again.
Crash ==
  /\ Fault
  /\ recorded' = FALSE /\ hand' = None
  /\ UNCHANGED <<checkpoint, box, letters, via, gateway, answers>>

Engine == Apply \/ SaveCheckpoint

Dispatch == Unavailable \/ Lookup \/ Accept \/ Reject \/ Conflict \/ Timeout

Worker ==
  \/ \E e \in Matching : Take(e)
  \/ \E r \in Responses : CallAnswered(r)
  \/ CallFails \/ Dispatch \/ DeadLetter \/ Done \/ Reschedule

Next == \/ Engine \/ Worker \/ LateApply \/ Crash
        \/ \E k \in Matching \X Indices : Prune(k)

Spec == Init /\ [][Next]_vars

\* The engine's loop, the worker and the gateway's writer keep running.
FairSpec ==
  Spec /\ WF_vars(Engine) /\ WF_vars(Worker) /\ WF_vars(LateApply)

-----------------------------------------------------------------------------
(* Properties.                                                             *)

\* All the follow-ups of one response the third party gave for e are applied.
Completed(e) ==
  \E r \in Range(answers[e]) : \A i \in 1 .. FollowUps[r] :
    [event |-> e, index |-> i, resp |-> r] \in Range(applied)

\* The checkpoint never passes work nobody will do: the entry is there, the
\* event is dead-lettered (or that write was the one that failed), or its
\* follow-ups are all applied, through any crash, lost answer or failed write.
WorkIsKept ==
  \A e \in Matching : e <= checkpoint =>
    box[e] # None \/ e \in dead \/ e \in unlisted \/ Completed(e)

\* Whatever is called again, dispatched again or redelivered, the follow-ups
\* that were applied for an event are those of one response, in order, each
\* once: the derived keys keep the two answers of a repeated call apart.  Only
\* an event with an application the gateway could not record, or whose record
\* it pruned before the work was over, escapes.
FollowUpsDoNotMix ==
  \A e \in Matching \ unrecorded :
    LET mine == {p \in DOMAIN applied : applied[p].event = e}
    IN \A p, q \in mine :
         /\ applied[p].resp = applied[q].resp
         /\ applied[p].index = Cardinality({o \in mine : o <= p})

\* The follow-ups are kept in the entry "so a later retry doesn't call out
\* again": only a crash or a failed write makes the third party answer again
\* for one event, however often its dispatch is retried.  A crash may cost two
\* answers: the worker loses the first, and the redelivered event, whose entry
\* is done by then, is recorded as new work.
AnsweredOnce == \A e \in Matching : Len(answers[e]) <= 1 + 2 * faults

\* Work is never pending for ever: every entry is done or dead-lettered.
WorkSettles ==
  <>[](checkpoint = LogLen /\ \A e \in Matching : box[e] = None)

-----------------------------------------------------------------------------
(* What the docs say and the code does not do (see README).                *)

\* "a follow-up the gateway answers with a conflict (re-decided on the next
\* try, as batching re-decides)": a follow-up is not dispatched while its key
\* holds the 409 of an earlier try, which the gateway would replay.
ConflictIsRedecided ==
  At("dispatch") /\ RecordOf(Command) # None
    => RecordOf(Command) # [resp |-> Command.resp, status |-> 409]
=============================================================================
