------------------------------ MODULE Erasure ------------------------------
(***************************************************************************)
(* Erasing a data subject (package pii): SubjectErased is appended to the  *)
(* log, the key destroyer (KeyDestroyer, on the writer) has the subject's  *)
(* key destroyed, from the engine's pass or through an outbox and its      *)
(* worker (package outbox), and each process forgets the plaintext it has  *)
(* cached (Cache, CacheEvictor), while reads reveal values (Buffer) and    *)
(* commands seal fresh ones (SealPayload).                                 *)
(*                                                                         *)
(* The cache of one process is followed: the writer's own, or that of a    *)
(* secondary, which reads a replica of the log.  The key-management facade *)
(* is a service of its own, modelled as kms.Memory stands in for it: what  *)
(* it answers of a destroyed key is final.  Values are told apart by their *)
(* subject only.                                                           *)
(***************************************************************************)
EXTENDS Naturals, Sequences, FiniteSets

CONSTANTS
  Subjects,
  Reveals,     \* read requests made to the process, each for one value
  Seals,       \* commands that bring one fresh value, on the writer
  SubjectOf,   \* whose value is read or brought
  Wirings,     \* the wirings considered, see wired
  MaxLog,      \* bound: events in the log
  MaxFaults    \* bound: crashes and failing operations

ASSUME ErasureAssumption ==
  /\ Reveals \cap Seals = {}
  /\ SubjectOf \in [Reveals \cup Seals -> Subjects]
  /\ Wirings \subseteq
       [writer : BOOLEAN, outbox : BOOLEAN, seed : {"log", "own"}]
  /\ MaxLog \in Nat /\ MaxFaults \in Nat

VARIABLES
  wired,      \* WireOptions, never changed: the process is the Writer or not,
              \* the writer has an Outbox or not, and Checkpoints is the log's
              \* store or the process's own
  log,        \* events.db
  checkpoint, \* ... the key destroyer's position
  replica,    \* a secondary's copy of both
  keys,       \* the facade: none, live, or destroyed and tombstoned
  box,        \* the outbox: the positions of erasures still to be carried out
  wake,       \* ... its worker's wake channel holds a token
  worker,     \* the worker: in a pass, about to take an entry off, waiting, or
              \* waiting after NextDue failed
  entry,      \* ... the entry it takes off
  applied,    \* the destroyer has applied an event it has not checkpointed
  wiring,     \* how far RegisterCacheEvictor has got in the process
  pos,        \* the evictor's position
  cache,      \* the subjects with plaintext in the process's cache
  erased,     \* ... its erased set
  at,         \* where each read and each command is
  late,       \* history: it began after the evictor (the log) had the erasure
  faults      \* bound: faults so far

vars == <<wired, log, checkpoint, replica, keys, box, wake, worker, entry,
          applied, wiring, pos, cache, erased, at, late, faults>>

destroyer == <<checkpoint, applied>>
outbox    == <<box, wake, worker, entry>>
evictor   == <<wiring, pos>>
caches    == <<cache, erased>>
requests  == <<at, late>>

Events == [type : {"stored", "erased"}, subject : Subjects]

Snapshots == [len : Nat, checkpoint : Nat]

TypeOK ==
  /\ wired \in Wirings
  /\ log \in Seq(Events) /\ Len(log) <= MaxLog
  /\ checkpoint \in 0 .. Len(log)
  /\ replica \in Snapshots /\ replica.len <= Len(log)
  /\ keys \in [Subjects -> {"none", "live", "destroyed"}]
  /\ box \subseteq 1 .. Len(log) /\ (box # {} => wired.outbox)
  /\ wake \in BOOLEAN
  /\ worker \in {"pass", "done", "wait", "blind"} /\ entry \in 0 .. Len(log)
  /\ applied \in BOOLEAN
  /\ wiring \in {"down", "seeding", "up"}
  /\ pos \in 0 .. Len(log)
  /\ cache \subseteq Subjects
  /\ erased \subseteq Subjects
  /\ at \in [Reveals \cup Seals ->
               {"new", "checked", "pending", "decrypted", "known", "redacted",
                "ensured", "encrypted", "sealed", "stored", "failed"}]
  /\ late \in [Reveals \cup Seals -> BOOLEAN]
  /\ faults \in 0 .. MaxFaults

Init ==
  /\ wired \in Wirings
  /\ log = << >> /\ checkpoint = 0 /\ applied = FALSE
  /\ replica = [len |-> 0, checkpoint |-> 0]
  /\ keys = [s \in Subjects |-> "none"]
  /\ box = {} /\ wake = FALSE /\ worker = "pass" /\ entry = 0
  /\ wiring = "down" /\ pos = 0
  /\ cache = {} /\ erased = {}
  /\ at = [r \in Reveals \cup Seals |-> "new"]
  /\ late = [r \in Reveals \cup Seals |-> FALSE]
  /\ faults = 0

Fault == faults < MaxFaults /\ faults' = faults + 1

Erasure(s) == [type |-> "erased", subject |-> s]

\* s is erased by one of the first n events.
ErasedBy(s, n) == \E p \in 1 .. n : log[p] = Erasure(s)

Current == [len |-> Len(log), checkpoint |-> checkpoint]

\* The part of the log the process sees, and the checkpoint beside it.
Seen == IF wired.writer THEN Current ELSE replica

Goes(r, step) == at' = [at EXCEPT ![r] = step]

-----------------------------------------------------------------------------
(* The log.                                                                *)

\* EraseSubject: a second erasure is decided as nothing.
Erase(s) ==
  /\ Len(log) < MaxLog
  /\ ~ErasedBy(s, Len(log))
  /\ log' = Append(log, Erasure(s))
  /\ UNCHANGED <<wired, destroyer, replica, keys, outbox, evictor, caches,
                 requests, faults>>

\* A secondary's copy of events.db catches up.
Replicate ==
  /\ ~wired.writer
  /\ replica' = Current
  /\ UNCHANGED <<wired, log, destroyer, keys, outbox, evictor, caches,
                 requests, faults>>

-----------------------------------------------------------------------------
(* The key destroyer, a consumer of the writer's engine.                   *)

\* Seeded fault: an erasure is recorded and nobody is told.
EnqueueQuietly(p) == box' = box \cup {p} /\ UNCHANGED wake

\* Store.Enqueue: the entry's id is the event's, so asking again is the same
\* entry; every running worker is nudged.
Enqueue(p) == box' = box \cup {p} /\ wake' = TRUE

\* KMS.DestroyKey: idempotent, and final.
DestroyKey(s) == keys' = [keys EXCEPT ![s] = "destroyed"]

\* KeyDestroyer.Apply of the next event: an erasure is enqueued, or the key
\* destroyed here and now.
Apply ==
  LET ev == log[checkpoint + 1]
  IN /\ ~applied /\ checkpoint < Len(log)
     /\ \/ ev.type # "erased" /\ UNCHANGED <<keys, box, wake>>
        \/ /\ ev.type = "erased" /\ wired.outbox
           /\ Enqueue(checkpoint + 1)
           /\ UNCHANGED keys
        \/ /\ ev.type = "erased" /\ ~wired.outbox
           /\ DestroyKey(ev.subject)
           /\ UNCHANGED <<box, wake>>
     /\ applied' = TRUE
     /\ UNCHANGED <<wired, log, checkpoint, replica, worker, entry, evictor,
                    caches, requests, faults>>

\* The enqueue or the facade fails; the facade may have acted before its answer
\* was lost.  The next pass delivers the event again.
ApplyFails ==
  LET ev == log[checkpoint + 1]
  IN /\ ~applied /\ checkpoint < Len(log) /\ ev.type = "erased"
     /\ Fault
     /\ \/ UNCHANGED keys
        \/ ~wired.outbox /\ DestroyKey(ev.subject)
     /\ UNCHANGED <<wired, log, destroyer, replica, outbox, evictor, caches,
                    requests>>

\* The engine saves the position, or fails to and delivers the event again.
SaveCheckpoint ==
  /\ applied /\ applied' = FALSE
  /\ \/ checkpoint' = checkpoint + 1 /\ UNCHANGED faults
     \/ Fault /\ UNCHANGED checkpoint
  /\ UNCHANGED <<wired, log, replica, keys, outbox, evictor, caches,
                 requests>>

-----------------------------------------------------------------------------
(* The outbox worker, Worker.Run.                                          *)

\* KeyDestroyer.Destroy on a due entry: the key is destroyed ...
Destroy(p) ==
  /\ worker = "pass" /\ p \in box
  /\ DestroyKey(log[p].subject)
  /\ worker' = "done" /\ entry' = p
  /\ UNCHANGED <<wired, log, destroyer, replica, box, wake, evictor, caches,
                 requests, faults>>

\* Seeded fault: a destruction that failed is given up.
DestroyGivesUp(p) ==
  /\ worker = "pass" /\ p \in box
  /\ Fault
  /\ (UNCHANGED keys \/ DestroyKey(log[p].subject))
  /\ box' = box \ {p}
  /\ UNCHANGED <<wired, log, destroyer, replica, wake, worker, entry,
                 evictor, caches, requests>>

\* ... or the facade fails, and the entry is due again later.
DestroyFails(p) ==
  /\ worker = "pass" /\ p \in box
  /\ Fault
  /\ (UNCHANGED keys \/ DestroyKey(log[p].subject))
  /\ UNCHANGED <<wired, log, destroyer, replica, outbox, evictor, caches,
                 requests>>

\* Store.Done takes the entry off; if it fails the pass ends and the entry is
\* still due.
Done ==
  /\ worker = "done" /\ worker' = "pass" /\ entry' = 0
  /\ \/ box' = box \ {entry} /\ UNCHANGED faults
     \/ Fault /\ UNCHANGED box
  /\ UNCHANGED <<wired, log, destroyer, replica, keys, wake, evictor, caches,
                 requests>>

\* The pass is over and NextDue finds no entry, or fails: the worker waits for
\* a nudge alone.  While it finds one it waits for no longer than its due time.
Wait ==
  /\ wired.outbox /\ worker = "pass"
  /\ \/ box = {} /\ worker' = "wait" /\ UNCHANGED faults
     \/ Fault /\ worker' = "blind"
  /\ UNCHANGED <<wired, log, destroyer, replica, keys, box, wake, entry,
                 evictor, caches, requests>>

Nudged ==
  /\ worker \in {"wait", "blind"} /\ wake
  /\ worker' = "pass" /\ wake' = FALSE
  /\ UNCHANGED <<wired, log, destroyer, replica, keys, box, entry, evictor,
                 caches, requests, faults>>

-----------------------------------------------------------------------------
(* The process's cache and its evictor.                                    *)

\* Seeded fault: the cache is emptied and nothing remembered.
EvictOnly(s) == cache' = cache \ {s} /\ UNCHANGED erased

\* Cache.MarkErased: what is cached goes, and nothing is cached again.
MarkErased(s) == cache' = cache \ {s} /\ erased' = erased \cup {s}

\* Seeded fault: a fill does not look at the erased set.
PutAlways(s) ==
  /\ \E kept \in SUBSET cache : cache' = kept \cup {s}
  /\ UNCHANGED erased

\* Cache.Put: ignored for a subject in the erased set; at capacity the least
\* recently used entries make room.
Put(s) ==
  /\ \/ s \in erased /\ UNCHANGED cache
     \/ s \notin erased /\ \E kept \in SUBSET cache : cache' = kept \cup {s}
  /\ UNCHANGED erased

\* RegisterCacheEvictor reads the destroyer's durable position first (a
\* secondary's own store has none) ...
ReadCheckpoint ==
  /\ wiring = "down" /\ wiring' = "seeding"
  /\ pos' = IF wired.writer \/ wired.seed = "log" THEN Seen.checkpoint ELSE 0
  /\ UNCHANGED <<wired, log, destroyer, replica, keys, outbox, caches,
                 requests, faults>>

\* Seeded fault: the evictor starts at the destroyer's position.
ReadNoPending ==
  /\ wiring = "seeding" /\ wiring' = "up"
  /\ UNCHANGED <<wired, log, destroyer, replica, keys, outbox, pos, caches,
                 requests, faults>>

\* ... and then, on the writer, the entries still in its outbox, to start
\* before the earliest of them.
ReadPending ==
  /\ wiring = "seeding" /\ wiring' = "up"
  /\ LET pending == IF wired.writer THEN box ELSE {}
         starts  == {pos} \cup {p - 1 : p \in pending}
     IN pos' \in starts /\ \A start \in starts : pos' <= start
  /\ UNCHANGED <<wired, log, destroyer, replica, keys, outbox, caches,
                 requests, faults>>

\* CacheEvictor.Apply of the next event the process sees.
Evict ==
  LET ev == log[pos + 1]
  IN /\ wiring = "up" /\ pos < Seen.len
     /\ IF ev.type = "erased" THEN MarkErased(ev.subject) ELSE UNCHANGED caches
     /\ pos' = pos + 1
     /\ UNCHANGED <<wired, log, destroyer, replica, keys, outbox, wiring,
                    requests, faults>>

-----------------------------------------------------------------------------
(* A read: Buffer.enqueue, then Flush.                                     *)

\* IsErased.
CheckErased(r) ==
  LET s == SubjectOf[r]
  IN /\ at[r] = "new" /\ wiring = "up"
     /\ Goes(r, IF s \in erased THEN "redacted" ELSE "checked")
     /\ late' = [late EXCEPT ![r] = ErasedBy(s, pos)]
     /\ UNCHANGED <<wired, log, destroyer, replica, keys, outbox, evictor,
                    caches, faults>>

\* Get: a hit settles at once, anything else waits for Flush.
Get(r) ==
  /\ at[r] = "checked"
  /\ Goes(r, IF SubjectOf[r] \in cache THEN "known" ELSE "pending")
  /\ UNCHANGED <<wired, log, destroyer, replica, keys, outbox, evictor,
                 caches, late, faults>>

\* DecryptBatch: the plaintext is on its way here, or the key is destroyed, or
\* the facade fails and the value stays pending.  (Without a key there has been
\* no value to read.)
DecryptBatch(r) ==
  LET s == SubjectOf[r]
  IN /\ at[r] = "pending"
     /\ \/ /\ keys[s] = "live"
           /\ Goes(r, "decrypted")
           /\ UNCHANGED <<caches, faults>>
        \/ /\ keys[s] = "destroyed"
           /\ MarkErased(s)
           /\ Goes(r, "redacted")
           /\ UNCHANGED faults
        \/ Fault /\ Goes(r, "failed") /\ UNCHANGED caches
     /\ UNCHANGED <<wired, log, destroyer, replica, keys, outbox, evictor,
                    late>>

\* Put, and the value is settled as known.
Fill(r) ==
  /\ at[r] = "decrypted"
  /\ Put(SubjectOf[r])
  /\ Goes(r, "known")
  /\ UNCHANGED <<wired, log, destroyer, replica, keys, outbox, evictor, late,
                 faults>>

-----------------------------------------------------------------------------
(* A command with a fresh value: SealPayload, then the append.             *)

\* checkSubject reads the subject's own stream.
CheckSubject(c) ==
  /\ at[c] = "new" /\ (wired.writer => wiring = "up")
  /\ late' = [late EXCEPT ![c] = ErasedBy(SubjectOf[c], Len(log))]
  /\ Goes(c, IF ErasedBy(SubjectOf[c], Len(log)) THEN "failed" ELSE "checked")
  /\ UNCHANGED <<wired, log, destroyer, replica, keys, outbox, evictor,
                 caches, faults>>

\* EnsureKey: the facade creates no key for a subject it has destroyed one for.
EnsureKey(c) ==
  LET s == SubjectOf[c]
  IN /\ at[c] = "checked"
     /\ \/ /\ keys[s] = "destroyed"
           /\ Goes(c, "failed")
           /\ UNCHANGED <<keys, faults>>
        \/ /\ keys[s] # "destroyed"
           /\ keys' = [keys EXCEPT ![s] = "live"]
           /\ Goes(c, "ensured")
           /\ UNCHANGED faults
        \/ Fault /\ Goes(c, "failed") /\ UNCHANGED keys
     /\ UNCHANGED <<wired, log, destroyer, replica, outbox, evictor, caches,
                    late>>

\* EncryptBatch: the key may be gone again by now.
EncryptBatch(c) ==
  /\ at[c] = "ensured"
  /\ \/ keys[SubjectOf[c]] = "live" /\ Goes(c, "encrypted") /\ UNCHANGED faults
     \/ keys[SubjectOf[c]] # "live" /\ Goes(c, "failed") /\ UNCHANGED faults
     \/ Fault /\ Goes(c, "failed")
  /\ UNCHANGED <<wired, log, destroyer, replica, keys, outbox, evictor,
                 caches, late>>

\* Put primes the writer's cache with what was just sealed.
Prime(c) ==
  /\ at[c] = "encrypted"
  /\ IF wired.writer THEN Put(SubjectOf[c]) ELSE UNCHANGED caches
  /\ Goes(c, "sealed")
  /\ UNCHANGED <<wired, log, destroyer, replica, keys, outbox, evictor, late,
                 faults>>

\* The command is decided and its event appended.
AppendSealed(c) ==
  /\ at[c] = "sealed" /\ Len(log) < MaxLog
  /\ log' = Append(log, [type |-> "stored", subject |-> SubjectOf[c]])
  /\ Goes(c, "stored")
  /\ UNCHANGED <<wired, destroyer, replica, keys, outbox, evictor, caches,
                 late, faults>>

-----------------------------------------------------------------------------

\* What a request has in hand is lost with the process it is made to.
Lost(rs) ==
  at' = [r \in Reveals \cup Seals |->
           IF r \in rs /\ at[r] \notin {"new", "known", "redacted", "stored"}
           THEN "failed" ELSE at[r]]

\* What the writer's destroyer and worker keep in memory.
WriterGone ==
  applied' = FALSE /\ worker' = "pass" /\ wake' = FALSE /\ entry' = 0

\* The process dies and starts again, its memory gone.
Crash ==
  /\ Fault
  /\ wiring' = "down" /\ cache' = {} /\ erased' = {}
  /\ IF wired.writer
     THEN WriterGone /\ Lost(Reveals \cup Seals)
     ELSE UNCHANGED <<applied, worker, wake, entry>> /\ Lost(Reveals)
  /\ UNCHANGED <<wired, log, checkpoint, replica, keys, box, pos, late>>

\* The writer does, while the process is a secondary.
WriterCrash ==
  /\ ~wired.writer /\ Fault
  /\ WriterGone /\ Lost(Seals)
  /\ UNCHANGED <<wired, log, checkpoint, replica, keys, box, evictor, caches,
                 late>>

Engine == Apply \/ SaveCheckpoint

Worker == (\E p \in box : Destroy(p)) \/ Done \/ Nudged

Eviction == ReadCheckpoint \/ ReadPending \/ Evict

Next ==
  \/ \E s \in Subjects : Erase(s)
  \/ Replicate
  \/ Engine \/ ApplyFails
  \/ Worker \/ Wait \/ \E p \in box : DestroyFails(p)
  \/ Eviction \/ Crash \/ WriterCrash
  \/ \E r \in Reveals : CheckErased(r) \/ Get(r) \/ DecryptBatch(r) \/ Fill(r)
  \/ \E c \in Seals : \/ CheckSubject(c) \/ EnsureKey(c) \/ EncryptBatch(c)
                      \/ Prime(c) \/ AppendSealed(c)

\* The engine's passes and the worker go on (an entry rescheduled comes due),
\* a process that went down starts again, and a replica catches up.  Nothing
\* is assumed of reads and commands.
Fairness == /\ WF_vars(Engine) /\ WF_vars(Worker)
            /\ WF_vars(Replicate) /\ WF_vars(Eviction)

Spec == Init /\ [][Next]_vars /\ Fairness

-----------------------------------------------------------------------------
(* Properties.                                                             *)

\* Once the process's evictor is past an erasure, read or skipped by where it
\* started, none of that subject's plaintext is in its cache: neither a fill
\* that lost the race with the eviction nor a restart beside an erasure still
\* being carried out puts any back.
EvictedForGood ==
  wiring = "up" => \A s \in cache : ~ErasedBy(s, pos)

\* Every erasure the evictor started past has its key destroyed, so that a
\* reveal for that subject is told so, or the evictor has read it.
SeedIsSafe ==
  wiring = "up" =>
    \A s \in Subjects :
      ErasedBy(s, pos) => s \in erased \/ keys[s] = "destroyed"

\* A read that began then is answered redacted, never in the clear, and a
\* command that began after the erasure stores no fresh value.
LateIsRedacted ==
  \A r \in Reveals \cup Seals : late[r] => at[r] \notin {"known", "stored"}

\* The destroyer's checkpoint never passes an erasure nobody will carry out:
\* its key is destroyed or its entry is in the outbox.
NoErasureForgotten ==
  \A p \in 1 .. checkpoint : log[p].type = "erased" =>
    keys[log[p].subject] = "destroyed" \/ p \in box

\* An erased subject's key is eventually destroyed, however the key service and
\* the outbox fail on the way.
EveryErasureHappens ==
  \A s \in Subjects : ErasedBy(s, Len(log)) ~> keys[s] = "destroyed"

\* The worker failed to learn when its next entry is due and waits for a nudge.
Stranded == worker = "blind" /\ ~wake

\* The same, unless the worker is stranded.
ErasureHappens ==
  \A s \in Subjects :
    ErasedBy(s, Len(log)) ~> (keys[s] = "destroyed" \/ Stranded)

\* And the process's cache is eventually rid of it for good, with no help from
\* the requests under way.
PlaintextGoes ==
  \A s \in Subjects : ErasedBy(s, Len(log)) ~> [](s \notin cache)
=============================================================================
