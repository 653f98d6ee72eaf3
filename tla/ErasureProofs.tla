--------------------------- MODULE ErasureProofs ---------------------------
(***************************************************************************)
(* What Erasure keeps true for any subjects, requests and bounds: its      *)
(* types, that no erasure is forgotten, and, on every wiring but the one   *)
(* SafeWirings excludes, that the cache forgets for good and that late     *)
(* requests get nothing in the clear.                                      *)
(*                                                                         *)
(* And what SearchIndex keeps true, in the second half: its purge, its     *)
(* rebuilds and switch-overs, and that an erased subject leaves it.        *)
(***************************************************************************)
EXTENDS Erasure, IndexPromises, TLAPS

-----------------------------------------------------------------------------
(* Types.                                                                  *)

\* The types, with what keeps the positions inside the log.
TypeInv ==
  /\ TypeOK
  /\ applied => checkpoint < Len(log)
  /\ replica.checkpoint <= checkpoint

\* Where a request can be.
Steps == {"new", "checked", "pending", "decrypted", "known", "redacted",
          "ensured", "encrypted", "sealed", "stored", "failed"}

\* A fault is counted up to its bound.
LEMMA FaultType ==
  ASSUME TypeOK, Fault \/ UNCHANGED faults PROVE faults' \in 0 .. MaxFaults
BY ErasureAssumption DEF TypeOK, Fault

\* Every step keeps the types.
LEMMA TypeStep ==
  ASSUME TypeInv, [Next]_vars PROVE TypeInv'
<1> USE ErasureAssumption
<1>1. ASSUME NEW s \in Subjects, Erase(s) PROVE TypeInv'
  <2>1. log' \in Seq(Events) /\ Len(log') = Len(log) + 1
    BY <1>1 DEF TypeInv, TypeOK, Erase, Erasure, Events
  <2>2. QED
    BY <1>1, <2>1
    DEF TypeInv, TypeOK, Erase, Snapshots, destroyer, outbox, evictor, caches,
        requests
<1>2. CASE Replicate
  BY <1>2 DEF TypeInv, TypeOK, Replicate, Current, Snapshots, destroyer,
              outbox, evictor, caches, requests
<1>3. CASE Apply
  <2>1. log[checkpoint + 1] \in Events /\ checkpoint + 1 \in 1 .. Len(log)
    BY <1>3 DEF TypeInv, TypeOK, Apply
  <2>2. keys' \in [Subjects -> {"none", "live", "destroyed"}]
    BY <1>3, <2>1 DEF TypeInv, TypeOK, Apply, DestroyKey, Events
  <2>3. box' \subseteq 1 .. Len(log) /\ (box' # {} => wired.outbox)
        /\ wake' \in BOOLEAN
    BY <1>3, <2>1 DEF TypeInv, TypeOK, Apply, Enqueue
  <2>4. QED
    BY <1>3, <2>2, <2>3
    DEF TypeInv, TypeOK, Apply, evictor, caches, requests
<1>4. CASE SaveCheckpoint
  <2>1. faults' \in 0 .. MaxFaults
    BY <1>4, FaultType DEF TypeInv, SaveCheckpoint
  <2>2. checkpoint' \in 0 .. Len(log) /\ checkpoint <= checkpoint'
    BY <1>4 DEF TypeInv, TypeOK, SaveCheckpoint
  <2>3. replica \in Snapshots /\ replica.checkpoint <= checkpoint'
    BY <2>2 DEF TypeInv, TypeOK, Snapshots
  <2>4. QED
    BY <1>4, <2>1, <2>2, <2>3
    DEF TypeInv, TypeOK, SaveCheckpoint, outbox, evictor, caches, requests
<1>5. CASE ApplyFails
  <2>1. log[checkpoint + 1] \in Events
    BY <1>5 DEF TypeInv, TypeOK, ApplyFails
  <2>2. keys' \in [Subjects -> {"none", "live", "destroyed"}]
    BY <1>5, <2>1 DEF TypeInv, TypeOK, ApplyFails, DestroyKey, Events
  <2>3. QED
    BY <1>5, <2>2
    DEF TypeInv, TypeOK, ApplyFails, Fault, destroyer, outbox, evictor, caches,
        requests
<1>6. ASSUME NEW p \in box, Destroy(p) PROVE TypeInv'
  <2>1. p \in 1 .. Len(log) /\ log[p] \in Events
    BY <1>6 DEF TypeInv, TypeOK
  <2>2. keys' \in [Subjects -> {"none", "live", "destroyed"}]
    BY <1>6, <2>1 DEF TypeInv, TypeOK, Destroy, DestroyKey, Events
  <2>3. QED
    BY <1>6, <2>1, <2>2
    DEF TypeInv, TypeOK, Destroy, destroyer, evictor, caches, requests
<1>7. ASSUME NEW p \in box, DestroyFails(p) PROVE TypeInv'
  <2>1. log[p] \in Events
    BY <1>7 DEF TypeInv, TypeOK
  <2>2. keys' \in [Subjects -> {"none", "live", "destroyed"}]
    BY <1>7, <2>1 DEF TypeInv, TypeOK, DestroyFails, DestroyKey, Events
  <2>3. QED
    BY <1>7, <2>2
    DEF TypeInv, TypeOK, DestroyFails, Fault, destroyer, outbox, evictor,
        caches, requests
<1>8. CASE Done
  <2>1. faults' \in 0 .. MaxFaults
    BY <1>8, FaultType DEF TypeInv, Done
  <2>2. box' \subseteq box
    BY <1>8 DEF Done
  <2>3. QED
    BY <1>8, <2>1, <2>2
    DEF TypeInv, TypeOK, Done, destroyer, evictor, caches, requests
<1>9. CASE Wait
  <2>1. faults' \in 0 .. MaxFaults
    BY <1>9, FaultType DEF TypeInv, Wait
  <2>2. worker' \in {"pass", "done", "wait", "blind"}
    BY <1>9 DEF Wait
  <2>3. QED
    BY <1>9, <2>1, <2>2
    DEF TypeInv, TypeOK, Wait, destroyer, evictor, caches, requests
<1>9b. CASE Nudged
  BY <1>9b
  DEF TypeInv, TypeOK, Nudged, destroyer, evictor, caches, requests
<1>10. CASE ReadCheckpoint
  BY <1>10 DEF TypeInv, TypeOK, ReadCheckpoint, Seen, Current, Snapshots,
               destroyer, outbox, caches, requests
<1>11. CASE ReadPending
  <2>1. pos' \in 0 .. Len(log)
    BY <1>11 DEF TypeInv, TypeOK, ReadPending
  <2>2. QED
    BY <1>11, <2>1
    DEF TypeInv, TypeOK, ReadPending, destroyer, outbox, caches, requests
<1>12. CASE Evict
  <2>1. pos + 1 \in 1 .. Len(log)
    BY <1>12 DEF TypeInv, TypeOK, Evict, Seen, Current, Snapshots
  <2>2. log[pos + 1] \in Events
    BY <2>1 DEF TypeInv, TypeOK
  <2>3. cache' \subseteq Subjects /\ erased' \subseteq Subjects
    BY <1>12, <2>2 DEF TypeInv, TypeOK, Evict, MarkErased, caches, Events
  <2>4. QED
    BY <1>12, <2>1, <2>3
    DEF TypeInv, TypeOK, Evict, destroyer, outbox, requests
<1>13. CASE Crash
  <2>1. faults' \in 0 .. MaxFaults
    BY <1>13, FaultType DEF TypeInv, Crash
  <2>2. at' \in [Reveals \cup Seals -> Steps]
    BY <1>13 DEF TypeInv, TypeOK, Crash, Lost, Steps
  <2>3. /\ applied' \in BOOLEAN /\ (applied' => applied)
        /\ wake' \in BOOLEAN
        /\ worker' \in {"pass", "done", "wait", "blind"}
        /\ entry' \in 0 .. Len(log)
    <3>1. CASE wired.writer
      <4>1. WriterGone
        BY <1>13, <3>1 DEF Crash
      <4>2. applied' \in BOOLEAN /\ ~applied' /\ wake' \in BOOLEAN
        BY <4>1, Zenon DEF WriterGone
      <4>3. /\ worker' \in {"pass", "done", "wait", "blind"}
            /\ entry' \in 0 .. Len(log)
        BY <4>1 DEF TypeInv, TypeOK, WriterGone
      <4>4. QED
        BY <4>2, <4>3
    <3>2. CASE ~wired.writer
      <4>1. UNCHANGED <<applied, worker, wake, entry>>
        BY <1>13, <3>2 DEF Crash
      <4>2. QED
        BY <4>1 DEF TypeInv, TypeOK
    <3>3. QED
      BY <3>1, <3>2
  <2>4. /\ wiring' = "down" /\ cache' = {} /\ erased' = {}
        /\ UNCHANGED <<wired, log, checkpoint, replica, keys, box, pos, late>>
    BY <1>13 DEF Crash
  <2>5. TypeOK'
    BY <2>1, <2>2, <2>3, <2>4 DEF TypeInv, TypeOK, Steps
  <2>6. QED
    BY <2>3, <2>4, <2>5 DEF TypeInv
<1>14. CASE WriterCrash
  <2>1. faults' \in 0 .. MaxFaults
    BY <1>14, FaultType DEF TypeInv, WriterCrash
  <2>2. at' \in [Reveals \cup Seals -> Steps]
    BY <1>14 DEF TypeInv, TypeOK, WriterCrash, Lost, Steps
  <2>3. /\ applied' = FALSE /\ wake' = FALSE /\ worker' = "pass" /\ entry' = 0
        /\ UNCHANGED <<wired, log, checkpoint, replica, keys, box, wiring, pos,
                       cache, erased, late>>
    BY <1>14 DEF WriterCrash, WriterGone, evictor, caches
  <2>4. applied' \in BOOLEAN /\ ~applied' /\ wake' \in BOOLEAN
    BY <2>3, Zenon
  <2>5. /\ entry' \in 0 .. Len(log)
        /\ worker' \in {"pass", "done", "wait", "blind"}
    BY <2>3 DEF TypeInv, TypeOK
  <2>6. TypeOK'
    BY <2>1, <2>2, <2>3, <2>4, <2>5 DEF TypeInv, TypeOK, Steps
  <2>7. QED
    BY <2>3, <2>4, <2>6 DEF TypeInv
<1>15. ASSUME NEW r \in Reveals, CheckErased(r) \/ Get(r) PROVE TypeInv'
  <2>1. at' \in [Reveals \cup Seals -> Steps]
    BY <1>15 DEF TypeInv, TypeOK, CheckErased, Get, Goes, Steps
  <2>2. late' \in [Reveals \cup Seals -> BOOLEAN]
    BY <1>15 DEF TypeInv, TypeOK, CheckErased, Get, ErasedBy
  <2>3. UNCHANGED <<wired, log, checkpoint, applied, replica, keys, box, wake,
                    worker, entry, wiring, pos, cache, erased, faults>>
    BY <1>15 DEF CheckErased, Get, destroyer, outbox, evictor, caches
  <2>4. QED
    BY <2>1, <2>2, <2>3 DEF TypeInv, TypeOK, Steps
<1>16. ASSUME NEW r \in Reveals, DecryptBatch(r) \/ Fill(r) PROVE TypeInv'
  <2>1. SubjectOf[r] \in Subjects
    OBVIOUS
  <2>2. cache' \subseteq Subjects /\ erased' \subseteq Subjects
    BY <1>16, <2>1
    DEF TypeInv, TypeOK, DecryptBatch, Fill, MarkErased, Put, caches
  <2>3. at' \in [Reveals \cup Seals -> Steps]
    BY <1>16 DEF TypeInv, TypeOK, DecryptBatch, Fill, Goes, Steps
  <2>4. faults' \in 0 .. MaxFaults
    BY <1>16, FaultType DEF TypeInv, DecryptBatch, Fill
  <2>5. UNCHANGED <<wired, log, checkpoint, applied, replica, keys, box, wake,
                    worker, entry, wiring, pos, late>>
    BY <1>16 DEF DecryptBatch, Fill, destroyer, outbox, evictor
  <2>6. QED
    BY <2>2, <2>3, <2>4, <2>5 DEF TypeInv, TypeOK, Steps
<1>17. ASSUME NEW c \in Seals, CheckSubject(c) PROVE TypeInv'
  <2>1. at' \in [Reveals \cup Seals -> Steps]
    BY <1>17 DEF TypeInv, TypeOK, CheckSubject, Goes, Steps
  <2>2. late' \in [Reveals \cup Seals -> BOOLEAN]
    BY <1>17 DEF TypeInv, TypeOK, CheckSubject, ErasedBy
  <2>3. QED
    BY <1>17, <2>1, <2>2
    DEF TypeInv, TypeOK, CheckSubject, Steps, destroyer, outbox, evictor,
        caches
<1>18. ASSUME NEW c \in Seals, EnsureKey(c) PROVE TypeInv'
  BY <1>18
  DEF TypeInv, TypeOK, EnsureKey, Goes, Fault, destroyer, outbox, evictor,
      caches
<1>19. ASSUME NEW c \in Seals, EncryptBatch(c) PROVE TypeInv'
  BY <1>19
  DEF TypeInv, TypeOK, EncryptBatch, Goes, Fault, destroyer, outbox, evictor,
      caches
<1>20. ASSUME NEW c \in Seals, Prime(c) PROVE TypeInv'
  <2>1. SubjectOf[c] \in Subjects
    OBVIOUS
  <2>2. cache' \subseteq Subjects /\ erased' \subseteq Subjects
    BY <1>20, <2>1 DEF TypeInv, TypeOK, Prime, Put, caches
  <2>3. QED
    BY <1>20, <2>2
    DEF TypeInv, TypeOK, Prime, Goes, destroyer, outbox, evictor
<1>21. ASSUME NEW c \in Seals, AppendSealed(c) PROVE TypeInv'
  <2>1. SubjectOf[c] \in Subjects
    OBVIOUS
  <2>2. log' \in Seq(Events) /\ Len(log') = Len(log) + 1
    BY <1>21, <2>1 DEF TypeInv, TypeOK, AppendSealed, Events
  <2>3. QED
    BY <1>21, <2>2
    DEF TypeInv, TypeOK, AppendSealed, Goes, Snapshots, destroyer, outbox,
        evictor, caches
<1>22. CASE UNCHANGED vars
  BY <1>22
  DEF TypeInv, TypeOK, vars, destroyer, outbox, evictor, caches, requests
<1>23. QED
  BY <1>1, <1>2, <1>3, <1>4, <1>5, <1>6, <1>7, <1>8, <1>9, <1>10, <1>11,
     <1>12, <1>13, <1>14, <1>15, <1>16, <1>17, <1>18, <1>19, <1>20, <1>21,
     <1>22, <1>9b
  DEF Next, Engine, Worker, Eviction

\* The types are an invariant.
LEMMA TypeInvariance == Spec => []TypeInv
<1>1. Init => TypeInv
  <2>1. << >> \in Seq(Events) /\ Len(<< >>) = 0
    OBVIOUS
  <2>2. ASSUME Init PROVE TypeOK
    <3>1. replica \in Snapshots /\ replica.len = 0
      BY <2>2 DEF Init, Snapshots
    <3>2. log \in Seq(Events) /\ Len(log) = 0
      BY <2>1, <2>2 DEF Init
    <3>3. keys \in [Subjects -> {"none", "live", "destroyed"}]
      BY <2>2 DEF Init
    <3>4. at \in [Reveals \cup Seals -> Steps]
          /\ late \in [Reveals \cup Seals -> BOOLEAN]
      BY <2>2 DEF Init, Steps
    <3>5. wake \in BOOLEAN /\ applied \in BOOLEAN
      BY <2>2, Zenon DEF Init
    <3>6. /\ worker \in {"pass", "done", "wait", "blind"}
          /\ wiring \in {"down", "seeding", "up"}
          /\ faults \in 0 .. MaxFaults
      BY <2>2, ErasureAssumption DEF Init
    <3>7. checkpoint = 0 /\ entry = 0 /\ pos = 0 /\ box = {} /\ cache = {}
          /\ erased = {} /\ wired \in Wirings
      BY <2>2 DEF Init
    <3>8. QED
      BY <3>1, <3>2, <3>3, <3>4, <3>5, <3>6, <3>7,
         ErasureAssumption
      DEF TypeOK, Steps
  <2>3. Init => ~applied
    BY Zenon DEF Init
  <2>4. Init => replica.checkpoint <= checkpoint
    BY DEF Init
  <2>5. QED
    BY <2>2, <2>3, <2>4 DEF TypeInv
<1>2. TypeInv /\ [Next]_vars => TypeInv'
  BY TypeStep
<1>3. QED
  BY <1>1, <1>2, PTL DEF Spec

\* The state keeps its types.
THEOREM ErasureTypeCorrect == Spec => []TypeOK
<1>1. TypeInv => TypeOK
  BY DEF TypeInv
<1>2. QED
  BY <1>1, TypeInvariance, PTL

-----------------------------------------------------------------------------
(* Which steps move what.                                                  *)

\* Each group of variables, with the steps that write it.
LEMMA Movers ==
  ASSUME [Next]_vars
  PROVE  /\ UNCHANGED wired
         /\ \/ UNCHANGED log
            \/ \E s \in Subjects : Erase(s)
            \/ \E c \in Seals : AppendSealed(c)
         /\ \/ UNCHANGED keys
            \/ Apply \/ ApplyFails
            \/ \E p \in box : Destroy(p) \/ DestroyFails(p)
            \/ \E c \in Seals : EnsureKey(c)
         /\ UNCHANGED box \/ Apply \/ Done
         /\ UNCHANGED checkpoint \/ SaveCheckpoint
         /\ UNCHANGED applied \/ applied' = FALSE \/ Apply
         /\ \/ UNCHANGED <<worker, entry>>
            \/ worker' # "done"
            \/ \E p \in box : Destroy(p)
         /\ UNCHANGED replica \/ Replicate
         /\ \/ UNCHANGED <<wiring, pos>>
            \/ ReadCheckpoint \/ ReadPending \/ Evict \/ Crash
         /\ \/ UNCHANGED <<cache, erased>>
            \/ Evict \/ Crash
            \/ \E r \in Reveals : DecryptBatch(r) \/ Fill(r)
            \/ \E c \in Seals : Prime(c)
         /\ \/ UNCHANGED <<at, late>>
            \/ Crash \/ WriterCrash
            \/ \E r \in Reveals : \/ CheckErased(r) \/ Get(r)
                                \/ DecryptBatch(r) \/ Fill(r)
            \/ \E c \in Seals : \/ CheckSubject(c) \/ EnsureKey(c)
                              \/ EncryptBatch(c) \/ Prime(c)
                              \/ AppendSealed(c)
<1>1. CASE \E s \in Subjects : Erase(s)
  BY <1>1 DEF Erase, destroyer, outbox, evictor, caches, requests
<1>2. CASE Replicate
  BY <1>2 DEF Replicate, destroyer, outbox, evictor, caches, requests
<1>3. CASE Apply
  BY <1>3 DEF Apply, evictor, caches, requests
<1>4. CASE SaveCheckpoint
  BY <1>4 DEF SaveCheckpoint, outbox, evictor, caches, requests
<1>5. CASE ApplyFails
  BY <1>5 DEF ApplyFails, destroyer, outbox, evictor, caches, requests
<1>6. CASE \E p \in box : Destroy(p)
  BY <1>6 DEF Destroy, destroyer, evictor, caches, requests
<1>7. CASE \E p \in box : DestroyFails(p)
  BY <1>7 DEF DestroyFails, destroyer, outbox, evictor, caches, requests
<1>8. CASE Done
  BY <1>8 DEF Done, destroyer, evictor, caches, requests
<1>9. CASE Wait \/ Nudged
  BY <1>9 DEF Wait, Nudged, destroyer, evictor, caches, requests
<1>10. CASE ReadCheckpoint
  BY <1>10 DEF ReadCheckpoint, destroyer, outbox, caches, requests
<1>11. CASE ReadPending
  BY <1>11 DEF ReadPending, destroyer, outbox, caches, requests
<1>12. CASE Evict
  BY <1>12 DEF Evict, destroyer, outbox, caches, requests
<1>13. CASE Crash
  BY <1>13 DEF Crash, WriterGone, caches, requests
<1>14. CASE WriterCrash
  BY <1>14 DEF WriterCrash, WriterGone, evictor, caches, requests
<1>15. CASE \E r \in Reveals : \/ CheckErased(r) \/ Get(r)
                            \/ DecryptBatch(r) \/ Fill(r)
  BY <1>15
  DEF CheckErased, Get, DecryptBatch, Fill, destroyer, outbox, evictor, caches, requests
<1>16. CASE \E c \in Seals : CheckSubject(c) \/ EncryptBatch(c) \/ Prime(c)
  BY <1>16
  DEF CheckSubject, EncryptBatch, Prime, destroyer, outbox, evictor, caches, requests
<1>17. CASE \E c \in Seals : EnsureKey(c)
  BY <1>17 DEF EnsureKey, destroyer, outbox, evictor, caches, requests
<1>18. CASE \E c \in Seals : AppendSealed(c)
  BY <1>18 DEF AppendSealed, destroyer, outbox, evictor, caches, requests
<1>19. CASE UNCHANGED vars
  BY <1>19 DEF vars
<1>20. QED
  BY <1>1, <1>2, <1>3, <1>4, <1>5, <1>6, <1>7, <1>8, <1>9, <1>10, <1>11,
     <1>12, <1>13, <1>14, <1>15, <1>16, <1>17, <1>18, <1>19
  DEF Next, Engine, Worker, Eviction

\* Events stay where they are.
LEMMA LogGrows ==
  ASSUME TypeInv, [Next]_vars
  PROVE  /\ Len(log) <= Len(log')
         /\ \A p \in 1 .. Len(log) : log'[p] = log[p]
<1>1. ASSUME NEW ev \in Events, log' = Append(log, ev)
      PROVE  /\ Len(log) <= Len(log')
             /\ \A p \in 1 .. Len(log) : log'[p] = log[p]
  BY <1>1 DEF TypeInv, TypeOK
<1>2. ASSUME NEW s \in Subjects, Erase(s)
      PROVE  \E ev \in Events : log' = Append(log, ev)
  BY <1>2 DEF Erase, Erasure, Events
<1>3. ASSUME NEW c \in Seals, AppendSealed(c)
      PROVE  \E ev \in Events : log' = Append(log, ev)
  <2>1. SubjectOf[c] \in Subjects
    BY ErasureAssumption
  <2>2. [type |-> "stored", subject |-> SubjectOf[c]] \in Events
    BY <2>1 DEF Events
  <2>3. QED
    BY <1>3, <2>2 DEF AppendSealed
<1>4. CASE UNCHANGED log
  BY <1>4 DEF TypeInv, TypeOK
<1>5. QED
  BY <1>1, <1>2, <1>3, <1>4, Movers

\* A destroyed key stays destroyed.
LEMMA DestroyedForGood ==
  ASSUME TypeInv, [Next]_vars, NEW s \in Subjects, keys[s] = "destroyed"
  PROVE  keys'[s] = "destroyed"
<1>1. ASSUME NEW t, DestroyKey(t) PROVE keys'[s] = "destroyed"
  BY <1>1 DEF DestroyKey, TypeInv, TypeOK
<1>2. CASE Apply \/ ApplyFails
  BY <1>1, <1>2 DEF Apply, ApplyFails
<1>3. ASSUME NEW p \in box, Destroy(p) \/ DestroyFails(p)
      PROVE  keys'[s] = "destroyed"
  BY <1>1, <1>3 DEF Destroy, DestroyFails
<1>4. ASSUME NEW c \in Seals, EnsureKey(c) PROVE keys'[s] = "destroyed"
  BY <1>4 DEF EnsureKey, TypeInv, TypeOK
<1>5. QED
  BY <1>2, <1>3, <1>4, Movers

-----------------------------------------------------------------------------
(* No erasure is forgotten.                                                *)

\* The erasure at p, if it is one, is carried out or waits in the outbox.
Handled(p) ==
  log[p].type = "erased" => keys[log[p].subject] = "destroyed" \/ p \in box

\* What the destroyer has applied is handled, and what its worker is about to
\* take off is carried out.
DestroyerInv ==
  /\ \A p \in 1 .. checkpoint : Handled(p)
  /\ applied => Handled(checkpoint + 1)
  /\ worker = "done" =>
       entry \in 1 .. Len(log) /\ keys[log[entry].subject] = "destroyed"

\* What is handled stays so: the worker takes off only what is carried out.
LEMMA HandledKept ==
  ASSUME TypeInv, DestroyerInv, [Next]_vars, NEW p \in 1 .. Len(log),
         Handled(p)
  PROVE  Handled(p)'
<1>1. log'[p] = log[p] /\ log[p] \in Events
  BY LogGrows DEF TypeInv, TypeOK
<1>2. log[p].subject \in Subjects
  BY <1>1 DEF Events
<1>3. CASE keys[log[p].subject] = "destroyed"
  BY <1>1, <1>2, <1>3, DestroyedForGood DEF Handled
<1>4. CASE p \in box /\ keys[log[p].subject] # "destroyed"
  <2>1. CASE UNCHANGED box
    BY <1>4, <2>1 DEF Handled
  <2>2. CASE Apply
    BY <1>4, <2>2 DEF Apply, Enqueue, Handled
  <2>3. CASE Done
    <3>1. p # entry
      BY <1>4, <2>3 DEF Done, DestroyerInv
    <3>2. QED
      BY <1>4, <2>3, <3>1 DEF Done, Handled
  <2>4. QED
    BY <2>1, <2>2, <2>3, Movers
<1>5. CASE log[p].type # "erased"
  BY <1>1, <1>5 DEF Handled
<1>6. QED
  BY <1>3, <1>4, <1>5 DEF Handled

\* Every step keeps the destroyer's invariant.
LEMMA DestroyerStep ==
  ASSUME TypeInv, DestroyerInv, [Next]_vars PROVE DestroyerInv'
<1>1. /\ checkpoint \in 0 .. Len(log) /\ Len(log) \in Nat
      /\ applied => checkpoint + 1 \in 1 .. Len(log)
  BY DEF TypeInv, TypeOK
<1>2. ASSUME NEW p \in 1 .. checkpoint' PROVE Handled(p)'
  <2>1. CASE UNCHANGED checkpoint
    BY <1>1, <1>2, <2>1, HandledKept DEF DestroyerInv
  <2>2. CASE SaveCheckpoint
    <3>1. p \in 1 .. checkpoint \/ (applied /\ p = checkpoint + 1)
      BY <1>1, <1>2, <2>2 DEF SaveCheckpoint
    <3>2. Handled(p) /\ p \in 1 .. Len(log)
      BY <1>1, <3>1 DEF DestroyerInv
    <3>3. QED
      BY <3>2, HandledKept
  <2>3. QED
    BY <2>1, <2>2, Movers
<1>3. ASSUME applied' PROVE Handled(checkpoint + 1)' /\ UNCHANGED checkpoint
  <2>1. UNCHANGED checkpoint
    BY <1>3, Movers DEF SaveCheckpoint
  <2>2. CASE UNCHANGED applied
    BY <1>1, <1>3, <2>1, <2>2, HandledKept DEF DestroyerInv
  <2>3. CASE Apply
    <3>1. log[checkpoint + 1] \in Events
      BY <1>1, <2>3 DEF Apply, TypeInv, TypeOK
    <3>2. log' = log /\ checkpoint' = checkpoint
      BY <2>3 DEF Apply
    <3>3. CASE log[checkpoint + 1].type # "erased"
      BY <3>2, <3>3 DEF Handled
    <3>4. CASE Enqueue(checkpoint + 1)
      BY <3>2, <3>4 DEF Handled, Enqueue
    <3>5. CASE DestroyKey(log[checkpoint + 1].subject)
      BY <3>1, <3>2, <3>5 DEF Handled, DestroyKey, Events, TypeInv, TypeOK
    <3>6. QED
      BY <2>3, <3>3, <3>4, <3>5 DEF Apply
  <2>4. QED
    BY <1>3, <2>1, <2>2, <2>3, Movers
<1>4. ASSUME worker' = "done"
      PROVE  /\ entry' \in 1 .. Len(log')
             /\ keys'[log'[entry'].subject] = "destroyed"
  <2>1. CASE UNCHANGED <<worker, entry>>
    <3>1. entry \in 1 .. Len(log) /\ keys[log[entry].subject] = "destroyed"
      BY <1>4, <2>1 DEF DestroyerInv
    <3>2. log[entry].subject \in Subjects
      <4>1. log[entry] \in Events
        BY <3>1 DEF TypeInv, TypeOK
      <4>2. QED
        BY <4>1 DEF Events
    <3>3. log'[entry] = log[entry] /\ Len(log) <= Len(log') /\ Len(log') \in Nat
      BY <3>1, LogGrows, TypeStep DEF TypeInv, TypeOK
    <3>4. keys'[log[entry].subject] = "destroyed"
      BY <3>1, <3>2, DestroyedForGood
    <3>5. QED
      BY <1>1, <2>1, <3>1, <3>3, <3>4
  <2>2. ASSUME NEW p \in box, Destroy(p)
        PROVE  /\ entry' \in 1 .. Len(log')
               /\ keys'[log'[entry'].subject] = "destroyed"
    <3>1. p \in 1 .. Len(log) /\ log[p] \in Events
      BY DEF TypeInv, TypeOK
    <3>2. log[p].subject \in Subjects
      BY <3>1 DEF Events
    <3>3. QED
      BY <2>2, <3>1, <3>2 DEF Destroy, DestroyKey, TypeInv, TypeOK
  <2>3. QED
    BY <1>4, <2>1, <2>2, Movers
<1>5. QED
  BY <1>2, <1>3, <1>4 DEF DestroyerInv

\* It holds throughout.
LEMMA DestroyerInvariance == Spec => []DestroyerInv
<1>1. Init => DestroyerInv
  BY DEF Init, DestroyerInv
<1>2. DestroyerInv /\ TypeInv /\ [Next]_vars => DestroyerInv'
  BY DestroyerStep
<1>3. Spec => []TypeInv
  BY TypeInvariance
<1>4. QED
  BY <1>1, <1>2, <1>3, PTL DEF Spec

\* The key destroyer's checkpoint never passes an erasure that is neither
\* carried out nor in the outbox: on every wiring, whatever fails.
THEOREM ErasureNoneForgotten == Spec => []NoErasureForgotten
<1>1. DestroyerInv => NoErasureForgotten
  BY DEF DestroyerInv, Handled, NoErasureForgotten
<1>2. QED
  BY <1>1, DestroyerInvariance, PTL

-----------------------------------------------------------------------------
(* What the evictor is past.                                               *)

\* The wirings on which a secondary is never seeded from the position of a
\* destroyer that leaves keys to an outbox.
SafeWirings == \A w \in Wirings : w.writer \/ ~w.outbox \/ w.seed = "own"

\* The erasure at p, if it is one, is carried out or known to the cache.
Cleared(p) ==
  log[p].type = "erased" =>
    log[p].subject \in erased \/ keys[log[p].subject] = "destroyed"

\* While the evictor looks for its start, what is before it is handled; once it
\* runs, cleared.
EvictorInv ==
  /\ wiring = "seeding" => \A p \in 1 .. pos : Handled(p)
  /\ wiring = "seeding" /\ ~wired.writer => pos = 0 \/ ~wired.outbox
  /\ wiring = "up" => \A p \in 1 .. pos : Cleared(p)

\* What the process has learned it forgets only by dying.
LEMMA ErasedGrows ==
  ASSUME [Next]_vars, wiring' = "up" PROVE erased \subseteq erased'
<1>1. ~Crash
  BY DEF Crash
<1>2. CASE Evict
  BY <1>2 DEF Evict, MarkErased, caches
<1>3. ASSUME NEW r \in Reveals, DecryptBatch(r) \/ Fill(r)
      PROVE  erased \subseteq erased'
  BY <1>3 DEF DecryptBatch, Fill, MarkErased, Put, caches
<1>4. ASSUME NEW c \in Seals, Prime(c) PROVE erased \subseteq erased'
  BY <1>4 DEF Prime, Put, caches
<1>5. QED
  BY <1>1, <1>2, <1>3, <1>4, Movers

\* What is cleared stays so until the process dies.
LEMMA ClearedKept ==
  ASSUME TypeInv, [Next]_vars, wiring' = "up", NEW p \in 1 .. Len(log),
         Cleared(p)
  PROVE  Cleared(p)'
<1>1. log'[p] = log[p] /\ log[p] \in Events
  BY LogGrows DEF TypeInv, TypeOK
<1>2. log[p].subject \in Subjects
  BY <1>1 DEF Events
<1>3. QED
  BY <1>1, <1>2, ErasedGrows, DestroyedForGood DEF Cleared

\* Every step keeps the evictor's invariant; the one that starts it turns
\* "handled" into "cleared", with nothing left in the outbox before its start.
LEMMA EvictorStep ==
  ASSUME SafeWirings, TypeInv, DestroyerInv, EvictorInv, [Next]_vars
  PROVE  EvictorInv'
<1>1. /\ pos \in 0 .. Len(log) /\ Len(log) \in Nat
      /\ checkpoint \in 0 .. Len(log)
      /\ replica.checkpoint \in Nat /\ replica.checkpoint <= checkpoint
  BY DEF TypeInv, TypeOK, Snapshots
<1>2. wired' = wired
  BY Movers
<1>3. box # {} => wired.outbox
  BY DEF TypeInv, TypeOK
<1>4. ~wired.outbox \/ wired.seed = "own" \/ wired.writer
  BY DEF SafeWirings, TypeInv, TypeOK
<1>6. CASE UNCHANGED <<wiring, pos>>
  <2>1. ASSUME wiring = "seeding", NEW p \in 1 .. pos PROVE Handled(p)'
    BY <1>1, <2>1, HandledKept DEF EvictorInv
  <2>2. ASSUME wiring = "up", NEW p \in 1 .. pos PROVE Cleared(p)'
    BY <1>1, <1>6, <2>2, ClearedKept DEF EvictorInv
  <2>3. ASSUME wiring = "seeding", ~wired.writer PROVE pos = 0 \/ ~wired.outbox
    BY <2>3 DEF EvictorInv
  <2>4. QED
    BY <1>2, <1>6, <2>1, <2>2, <2>3 DEF EvictorInv
<1>7. CASE ReadCheckpoint
  <2>1. wiring' = "seeding" /\ UNCHANGED <<log, keys, box, wired>>
    BY <1>7 DEF ReadCheckpoint, outbox
  <2>2. pos' = 0 \/ (pos' \in 0 .. checkpoint)
    BY <1>1, <1>7 DEF ReadCheckpoint, Seen, Current
  <2>3. ASSUME NEW p \in 1 .. pos' PROVE Handled(p)'
    <3>1. Handled(p)
      BY <1>1, <2>2, <2>3 DEF DestroyerInv
    <3>2. QED
      BY <2>1, <3>1 DEF Handled
  <2>4. ASSUME ~wired.writer PROVE pos' = 0 \/ ~wired.outbox
    BY <1>4, <1>7, <2>4 DEF ReadCheckpoint
  <2>5. QED
    BY <2>1, <2>3, <2>4 DEF EvictorInv
<1>8. CASE ReadPending
  <2>1. wiring = "seeding" /\ wiring' = "up" /\ UNCHANGED <<log, keys, erased>>
    BY <1>8 DEF ReadPending, caches
  <2>2. pos' \in Nat /\ pos' <= pos
    <3>1. pos' \in 0 .. Len(log')
      BY TypeStep DEF TypeInv, TypeOK
    <3>2. QED
      BY <1>1, <1>8, <3>1 DEF ReadPending
  <2>3. ASSUME NEW p \in 1 .. pos' PROVE p \notin box
    <3>1. CASE wired.writer
      BY <1>8, <2>2, <2>3, <3>1 DEF ReadPending
    <3>2. CASE ~wired.writer
      BY <1>1, <1>3, <2>1, <2>2, <2>3, <3>2 DEF EvictorInv
    <3>3. QED
      BY <3>1, <3>2
  <2>4. ASSUME NEW p \in 1 .. pos' PROVE Cleared(p)'
    <3>1. Handled(p)
      BY <1>1, <2>1, <2>2, <2>4 DEF EvictorInv
    <3>2. QED
      BY <2>1, <2>3, <2>4, <3>1 DEF Handled, Cleared
  <2>5. QED
    BY <2>1, <2>4 DEF EvictorInv
<1>9. CASE Evict
  <2>1. wiring = "up" /\ wiring' = "up" /\ pos' = pos + 1 /\ log' = log
    BY <1>9 DEF Evict
  <2>2. pos + 1 \in 1 .. Len(log)
    BY <1>1, <2>1, TypeStep DEF TypeInv, TypeOK
  <2>3. ASSUME NEW p \in 1 .. pos', p = pos + 1 PROVE Cleared(p)'
    <3>1. log[p].type = "erased" => erased' = erased \cup {log[p].subject}
      BY <1>9, <2>3 DEF Evict, MarkErased
    <3>2. QED
      BY <2>1, <3>1 DEF Cleared
  <2>4. ASSUME NEW p \in 1 .. pos PROVE Cleared(p)'
    BY <1>1, <2>1, <2>4, ClearedKept DEF EvictorInv
  <2>5. \A p \in 1 .. pos' : Cleared(p)'
    <3>1. ASSUME NEW p \in 1 .. pos' PROVE p \in 1 .. pos \/ p = pos + 1
      BY <1>1, <2>1, <3>1
    <3>2. QED
      BY <2>3, <2>4, <3>1
  <2>6. QED
    BY <2>1, <2>5 DEF EvictorInv
<1>10. CASE Crash
  BY <1>10 DEF Crash, EvictorInv
<1>11. QED
  BY <1>6, <1>7, <1>8, <1>9, <1>10, Movers

-----------------------------------------------------------------------------
(* What the cache holds, and what is on its way there.                     *)

\* A value in hand for r may be put in the cache only if its subject is not
\* erased before pos, or the cache will refuse it.
Refused(r) ==
  \A p \in 1 .. pos :
    log[p] = Erasure(SubjectOf[r]) => SubjectOf[r] \in erased

CacheInv ==
  /\ cache \cap erased = {}
  /\ wiring = "up" =>
       \A s \in cache : \A p \in 1 .. pos : log[p] # Erasure(s)
  /\ wiring # "up" => cache = {}
  /\ \A r \in Reveals :
       /\ at[r] \in {"checked", "pending", "decrypted"} => wiring = "up"
       /\ at[r] = "decrypted" => Refused(r)
  /\ \A c \in Seals : wired.writer =>
       /\ at[c] \in {"checked", "ensured", "encrypted"} => wiring = "up"
       /\ at[c] = "encrypted" => Refused(c)

\* What is read or sealed with a live key is not of a subject the cache would
\* take for present although the evictor is past its erasure.
LEMMA LiveIsRefused ==
  ASSUME EvictorInv, wiring = "up", NEW r, keys[SubjectOf[r]] = "live"
  PROVE  Refused(r)
<1>1. ASSUME NEW p \in 1 .. pos, log[p] = Erasure(SubjectOf[r])
      PROVE  SubjectOf[r] \in erased
  <2>1. log[p].type = "erased" /\ log[p].subject = SubjectOf[r]
    BY <1>1 DEF Erasure
  <2>2. Cleared(p)
    BY DEF EvictorInv
  <2>3. QED
    BY <2>1, <2>2 DEF Cleared
<1>2. QED
  BY <1>1 DEF Refused

\* What the cache would refuse it goes on refusing.
LEMMA RefusedKept ==
  ASSUME TypeInv, [Next]_vars, wiring = "up", wiring' = "up", NEW r,
         Refused(r)
  PROVE  Refused(r)'
<1>1. pos \in 0 .. Len(log) /\ Len(log) \in Nat
  BY DEF TypeInv, TypeOK
<1>2. \A p \in 1 .. pos : log'[p] = log[p]
  BY <1>1, LogGrows
<1>3. CASE UNCHANGED pos
  BY <1>2, <1>3, ErasedGrows DEF Refused, Erasure
<1>4. CASE Evict
  <2>1. pos' = pos + 1 /\ log' = log
    BY <1>4 DEF Evict
  <2>2. ASSUME NEW p \in 1 .. pos', log'[p] = Erasure(SubjectOf[r])
        PROVE  SubjectOf[r] \in erased'
    <3>1. CASE p \in 1 .. pos
      BY <2>1, <2>2, <3>1, ErasedGrows DEF Refused
    <3>2. CASE p = pos + 1
      BY <1>4, <2>1, <2>2, <3>2 DEF Evict, MarkErased, Erasure
    <3>3. QED
      BY <1>1, <2>1, <2>2, <3>1, <3>2
  <2>3. QED
    BY <2>2 DEF Refused, Erasure
<1>5. QED
  BY <1>3, <1>4, Movers DEF ReadCheckpoint, ReadPending, Crash

\* Put keeps the cache clear of what the evictor is past.
LEMMA PutKeeps ==
  ASSUME CacheInv, wiring = "up", NEW r, Refused(r), Put(SubjectOf[r])
  PROVE  /\ cache' \cap erased' = {}
         /\ \A s \in cache' : \A p \in 1 .. pos : log[p] # Erasure(s)
<1>1. erased' = erased
  BY DEF Put
<1>2. CASE SubjectOf[r] \in erased
  BY <1>1, <1>2 DEF Put, CacheInv
<1>3. CASE SubjectOf[r] \notin erased
  <2>1. cache' \subseteq cache \cup {SubjectOf[r]}
    BY <1>3 DEF Put
  <2>2. \A p \in 1 .. pos : log[p] # Erasure(SubjectOf[r])
    BY <1>3 DEF Refused
  <2>3. QED
    BY <1>1, <1>3, <2>1, <2>2 DEF CacheInv
<1>4. QED
  BY <1>2, <1>3

\* The cache itself.
LEMMA CacheKept ==
  ASSUME TypeInv, EvictorInv, CacheInv, [Next]_vars
  PROVE  /\ cache' \cap erased' = {}
         /\ wiring' = "up" =>
              \A s \in cache' : \A p \in 1 .. pos' : log'[p] # Erasure(s)
         /\ wiring' # "up" => cache' = {}
<1>1. pos \in 0 .. Len(log) /\ Len(log) \in Nat
  BY DEF TypeInv, TypeOK
<1>2. \A p \in 1 .. pos : log'[p] = log[p]
  BY <1>1, LogGrows
<1>3. CASE UNCHANGED <<cache, erased>> /\ ~Evict /\ ~Crash
  <2>1. CASE UNCHANGED <<wiring, pos>>
    BY <1>2, <1>3, <2>1 DEF CacheInv
  <2>2. CASE ReadCheckpoint \/ ReadPending
    BY <1>3, <2>2 DEF CacheInv, ReadCheckpoint, ReadPending
  <2>3. QED
    BY <1>3, <2>1, <2>2, Movers
<1>4. CASE Evict
  <2>1. wiring = "up" /\ wiring' = "up" /\ pos' = pos + 1 /\ log' = log
    BY <1>4 DEF Evict
  <2>2. CASE log[pos + 1].type = "erased"
    <3>1. /\ cache' = cache \ {log[pos + 1].subject}
          /\ erased' = erased \cup {log[pos + 1].subject}
      BY <1>4, <2>2 DEF Evict, MarkErased
    <3>2. ASSUME NEW s \in cache', NEW p \in 1 .. pos'
          PROVE  log[p] # Erasure(s)
      <4>1. CASE p \in 1 .. pos
        BY <2>1, <3>1, <3>2, <4>1 DEF CacheInv
      <4>2. CASE p = pos + 1
        BY <3>1, <3>2, <4>2 DEF Erasure
      <4>3. QED
        BY <1>1, <2>1, <3>2, <4>1, <4>2
    <3>3. QED
      BY <2>1, <3>1, <3>2 DEF CacheInv
  <2>3. CASE log[pos + 1].type # "erased"
    <3>1. UNCHANGED <<cache, erased>>
      BY <1>4, <2>3 DEF Evict, caches
    <3>2. ASSUME NEW s \in cache', NEW p \in 1 .. pos'
          PROVE  log[p] # Erasure(s)
      <4>1. CASE p \in 1 .. pos
        BY <2>1, <3>1, <3>2, <4>1 DEF CacheInv
      <4>2. CASE p = pos + 1
        BY <2>3, <4>2 DEF Erasure
      <4>3. QED
        BY <1>1, <2>1, <3>2, <4>1, <4>2
    <3>3. QED
      BY <2>1, <3>1, <3>2 DEF CacheInv
  <2>4. QED
    BY <2>2, <2>3
<1>5. CASE Crash
  BY <1>5 DEF Crash
<1>6. ASSUME NEW r \in Reveals, DecryptBatch(r), ~UNCHANGED <<cache, erased>>
      PROVE  /\ UNCHANGED <<log, wiring, pos>> /\ wiring = "up"
             /\ cache' \cap erased' = {} /\ cache' \subseteq cache
  <2>1. MarkErased(SubjectOf[r])
    BY <1>6 DEF DecryptBatch, caches
  <2>2. UNCHANGED <<log, wiring, pos>> /\ wiring = "up"
    BY <1>6 DEF DecryptBatch, evictor, CacheInv
  <2>3. QED
    BY <2>1, <2>2 DEF MarkErased, CacheInv
<1>7. ASSUME NEW r \in Reveals, Fill(r)
      PROVE  /\ UNCHANGED <<log, wiring, pos>> /\ wiring = "up"
             /\ cache' \cap erased' = {}
             /\ \A s \in cache' : \A p \in 1 .. pos : log[p] # Erasure(s)
  <2>1. at[r] = "decrypted" /\ Put(SubjectOf[r]) /\ UNCHANGED <<log, wiring, pos>>
    BY <1>7 DEF Fill, evictor
  <2>2. wiring = "up" /\ Refused(r)
    BY <2>1 DEF CacheInv
  <2>3. QED
    BY <2>1, <2>2, PutKeeps
<1>8. ASSUME NEW c \in Seals, Prime(c), ~UNCHANGED <<cache, erased>>
      PROVE  /\ UNCHANGED <<log, wiring, pos>> /\ wiring = "up"
             /\ cache' \cap erased' = {}
             /\ \A s \in cache' : \A p \in 1 .. pos : log[p] # Erasure(s)
  <2>1. /\ at[c] = "encrypted" /\ wired.writer /\ Put(SubjectOf[c])
        /\ UNCHANGED <<log, wiring, pos>>
    BY <1>8 DEF Prime, evictor, caches
  <2>2. wiring = "up" /\ Refused(c)
    BY <2>1 DEF CacheInv
  <2>3. QED
    BY <2>1, <2>2, PutKeeps
<1>9. QED
  <2>1. CASE \E r \in Reveals : DecryptBatch(r) /\ ~UNCHANGED <<cache, erased>>
    BY <1>6, <2>1 DEF CacheInv
  <2>2. CASE \/ \E r \in Reveals : Fill(r)
             \/ \E c \in Seals : Prime(c) /\ ~UNCHANGED <<cache, erased>>
    BY <1>7, <1>8, <2>2
  <2>3. QED
    BY <1>3, <1>4, <1>5, <2>1, <2>2, Movers

-----------------------------------------------------------------------------
(* The requests.                                                           *)

\* A read moves by its own steps, or is lost in a crash.
LEMMA RevealMoves ==
  ASSUME TypeInv, [Next]_vars, NEW r \in Reveals
  PROVE  \/ at'[r] = at[r] /\ late'[r] = late[r]
         \/ CheckErased(r) \/ Get(r) \/ DecryptBatch(r) \/ Fill(r)
         \/ Crash
<1>1. at \in [Reveals \cup Seals -> Steps] /\ r \notin Seals
      /\ late \in [Reveals \cup Seals -> BOOLEAN]
  BY ErasureAssumption DEF TypeInv, TypeOK, Steps
<1>2. ASSUME NEW q \in Reveals \cup Seals, q # r, NEW step, Goes(q, step)
      PROVE  at'[r] = at[r]
  BY <1>1, <1>2 DEF Goes
<1>3. ASSUME NEW q \in Reveals, q # r,
             CheckErased(q) \/ Get(q) \/ DecryptBatch(q) \/ Fill(q)
      PROVE  at'[r] = at[r] /\ late'[r] = late[r]
  BY <1>1, <1>2, <1>3 DEF CheckErased, Get, DecryptBatch, Fill
<1>4. ASSUME NEW c \in Seals,
             \/ CheckSubject(c) \/ EnsureKey(c) \/ EncryptBatch(c)
             \/ Prime(c) \/ AppendSealed(c)
      PROVE  at'[r] = at[r] /\ late'[r] = late[r]
  BY <1>1, <1>2, <1>4
  DEF CheckSubject, EnsureKey, EncryptBatch, Prime, AppendSealed
<1>5. CASE WriterCrash
  BY <1>1, <1>5 DEF WriterCrash, Lost
<1>6. QED
  BY <1>3, <1>4, <1>5, Movers

\* So does a command, lost in a crash of the writer's process.
LEMMA SealMoves ==
  ASSUME TypeInv, [Next]_vars, NEW c \in Seals
  PROVE  \/ at'[c] = at[c] /\ late'[c] = late[c]
         \/ at'[c] = "failed" /\ late'[c] = late[c]
         \/ CheckSubject(c) \/ EnsureKey(c) \/ EncryptBatch(c) \/ Prime(c)
         \/ AppendSealed(c)
<1>1. at \in [Reveals \cup Seals -> Steps] /\ c \notin Reveals
      /\ late \in [Reveals \cup Seals -> BOOLEAN]
  BY ErasureAssumption DEF TypeInv, TypeOK, Steps
<1>2. ASSUME NEW q \in Reveals \cup Seals, q # c, NEW step, Goes(q, step)
      PROVE  at'[c] = at[c]
  BY <1>1, <1>2 DEF Goes
<1>3. ASSUME NEW q \in Reveals,
             CheckErased(q) \/ Get(q) \/ DecryptBatch(q) \/ Fill(q)
      PROVE  at'[c] = at[c] /\ late'[c] = late[c]
  BY <1>1, <1>2, <1>3 DEF CheckErased, Get, DecryptBatch, Fill
<1>4. ASSUME NEW q \in Seals, q # c,
             \/ CheckSubject(q) \/ EnsureKey(q) \/ EncryptBatch(q)
             \/ Prime(q) \/ AppendSealed(q)
      PROVE  at'[c] = at[c] /\ late'[c] = late[c]
  BY <1>1, <1>2, <1>4
  DEF CheckSubject, EnsureKey, EncryptBatch, Prime, AppendSealed
<1>5. ASSUME NEW rs, Lost(rs), UNCHANGED late
      PROVE  (at'[c] = at[c] \/ at'[c] = "failed") /\ late'[c] = late[c]
  BY <1>1, <1>5 DEF Lost
<1>6. CASE Crash \/ WriterCrash
  BY <1>5, <1>6 DEF Crash, WriterCrash
<1>7. QED
  BY <1>3, <1>4, <1>6, Movers

\* An evictor that runs stops only with its process.
LEMMA WiringStays ==
  ASSUME [Next]_vars, wiring = "up", ~Crash PROVE wiring' = "up"
BY Movers DEF ReadCheckpoint, ReadPending, Evict

\* A read in hand is of a running process, and refused if it comes too late.
LEMMA RevealKept ==
  ASSUME TypeInv, EvictorInv, CacheInv, [Next]_vars, NEW r \in Reveals
  PROVE  /\ at'[r] \in {"checked", "pending", "decrypted"} => wiring' = "up"
         /\ at'[r] = "decrypted" => Refused(r)'
<1>1. at \in [Reveals \cup Seals -> Steps]
  BY DEF TypeInv, TypeOK, Steps
<1>2. CASE Crash
  <2>1. at'[r] \notin {"checked", "pending", "decrypted"}
    BY <1>1, <1>2 DEF Crash, Lost
  <2>2. QED
    BY <2>1
<1>3. CASE ~Crash /\ at'[r] = at[r]
  BY <1>3, WiringStays, RefusedKept DEF CacheInv
<1>4. CASE CheckErased(r) \/ Get(r)
  <2>1. wiring' = "up" /\ at'[r] # "decrypted"
    BY <1>1, <1>4 DEF CheckErased, Get, Goes, CacheInv, evictor
  <2>2. QED
    BY <2>1
<1>5. CASE DecryptBatch(r)
  <2>1. /\ wiring = "up"
        /\ UNCHANGED <<log, wiring, pos>>
    BY <1>5 DEF DecryptBatch, CacheInv, evictor
  <2>2. ASSUME at'[r] = "decrypted" PROVE Refused(r)'
    <3>1. keys[SubjectOf[r]] = "live" /\ erased' = erased
      BY <1>1, <1>5, <2>2 DEF DecryptBatch, Goes, caches
    <3>2. Refused(r)
      BY <2>1, <3>1, LiveIsRefused
    <3>3. QED
      BY <2>1, <3>1, <3>2 DEF Refused, Erasure
  <2>3. QED
    BY <2>1, <2>2
<1>6. CASE Fill(r)
  BY <1>1, <1>6 DEF Fill, Goes
<1>7. QED
  BY <1>2, <1>3, <1>4, <1>5, <1>6, RevealMoves

\* So is a command's value, on the writer.
LEMMA SealKept ==
  ASSUME TypeInv, EvictorInv, CacheInv, [Next]_vars, NEW c \in Seals,
         wired.writer
  PROVE  /\ at'[c] \in {"checked", "ensured", "encrypted"} => wiring' = "up"
         /\ at'[c] = "encrypted" => Refused(c)'
<1>1. at \in [Reveals \cup Seals -> Steps]
  BY DEF TypeInv, TypeOK, Steps
<1>2. CASE Crash
  <2>1. at'[c] \notin {"checked", "ensured", "encrypted"}
    BY <1>1, <1>2 DEF Crash, Lost
  <2>2. QED
    BY <2>1
<1>3. CASE ~Crash /\ at'[c] = at[c]
  BY <1>3, WiringStays, RefusedKept DEF CacheInv
<1>4. CASE at'[c] = "failed"
  BY <1>4
<1>5. CASE CheckSubject(c) \/ EnsureKey(c)
  <2>1. wiring' = "up" /\ at'[c] # "encrypted"
    BY <1>1, <1>5 DEF CheckSubject, EnsureKey, Goes, CacheInv, evictor
  <2>2. QED
    BY <2>1
<1>6. CASE EncryptBatch(c)
  <2>1. /\ wiring = "up"
        /\ UNCHANGED <<log, wiring, pos, erased>>
    BY <1>6 DEF EncryptBatch, CacheInv, evictor, caches
  <2>2. ASSUME at'[c] = "encrypted" PROVE Refused(c)'
    <3>1. keys[SubjectOf[c]] = "live"
      BY <1>1, <1>6, <2>2 DEF EncryptBatch, Goes
    <3>2. Refused(c)
      BY <2>1, <3>1, LiveIsRefused
    <3>3. QED
      BY <2>1, <3>2 DEF Refused, Erasure
  <2>3. QED
    BY <2>1, <2>2
<1>7. CASE Prime(c) \/ AppendSealed(c)
  BY <1>1, <1>7 DEF Prime, AppendSealed, Goes
<1>8. QED
  BY <1>2, <1>3, <1>4, <1>5, <1>6, <1>7, SealMoves

\* Every step keeps the cache's invariant.
LEMMA CacheStep ==
  ASSUME TypeInv, EvictorInv, CacheInv, [Next]_vars PROVE CacheInv'
<1>1. wired' = wired
  BY Movers
<1>2. QED
  BY <1>1, CacheKept, RevealKept, SealKept DEF CacheInv

\* A late request has nothing in the clear in hand: its subject's key is
\* destroyed, and until it has looked, the cache has nothing for it.
LateInv ==
  \A r \in Reveals \cup Seals : late[r] =>
    /\ at[r] \in {"checked", "pending", "redacted", "failed"}
    /\ r \in Seals => at[r] = "failed"
    /\ at[r] \in {"checked", "pending"} =>
         /\ keys[SubjectOf[r]] = "destroyed"
         /\ ErasedBy(SubjectOf[r], pos)

\* Every step keeps late requests empty-handed.
LEMMA LateStep ==
  ASSUME TypeInv, EvictorInv, CacheInv, LateInv, [Next]_vars PROVE LateInv'
<1>1. /\ at \in [Reveals \cup Seals -> Steps]
      /\ late \in [Reveals \cup Seals -> BOOLEAN]
      /\ pos \in 0 .. Len(log) /\ Len(log) \in Nat
      /\ SubjectOf \in [Reveals \cup Seals -> Subjects]
  BY ErasureAssumption DEF TypeInv, TypeOK, Steps
<1>2. ASSUME NEW s \in Subjects, ErasedBy(s, pos), wiring = "up", ~Crash
      PROVE  ErasedBy(s, pos)'
  <2>1. PICK p \in 1 .. pos : log[p] = Erasure(s)
    BY <1>2 DEF ErasedBy
  <2>2. log'[p] = Erasure(s)
    BY <1>1, <2>1, LogGrows
  <2>3. pos' = pos \/ pos' = pos + 1
    BY <1>2, Movers DEF ReadCheckpoint, ReadPending, Evict
  <2>4. p \in 1 .. pos'
    BY <1>1, <2>3
  <2>5. QED
    BY <2>2, <2>4 DEF ErasedBy, Erasure
<1>3. ASSUME NEW r \in Reveals, late'[r]
      PROVE  /\ at'[r] \in {"checked", "pending", "redacted", "failed"}
             /\ at'[r] \in {"checked", "pending"} =>
                  keys'[SubjectOf[r]] = "destroyed" /\ ErasedBy(SubjectOf[r], pos)'
  <2>1. CASE Crash
    BY <1>1, <1>3, <2>1 DEF Crash, Lost, LateInv
  <2>2. CASE ~Crash /\ at'[r] = at[r] /\ late'[r] = late[r]
    <3>1. /\ at[r] \in {"checked", "pending", "redacted", "failed"}
          /\ at[r] \in {"checked", "pending"} =>
               /\ keys[SubjectOf[r]] = "destroyed"
               /\ ErasedBy(SubjectOf[r], pos) /\ wiring = "up"
      BY <1>3, <2>2 DEF LateInv, CacheInv
    <3>2. QED
      BY <1>1, <1>2, <2>2, <3>1, DestroyedForGood
  <2>3. CASE CheckErased(r)
    <3>1. /\ wiring = "up" /\ UNCHANGED <<log, pos, keys>>
          /\ ErasedBy(SubjectOf[r], pos)
      BY <1>1, <1>3, <2>3 DEF CheckErased, evictor
    <3>2. CASE SubjectOf[r] \in erased
      BY <1>1, <2>3, <3>2 DEF CheckErased, Goes
    <3>3. CASE SubjectOf[r] \notin erased
      <4>1. PICK p \in 1 .. pos : log[p] = Erasure(SubjectOf[r])
        BY <3>1 DEF ErasedBy
      <4>2. keys[SubjectOf[r]] = "destroyed"
        BY <3>1, <3>3, <4>1 DEF EvictorInv, Cleared, Erasure
      <4>3. at'[r] = "checked" /\ ErasedBy(SubjectOf[r], pos)'
        BY <1>1, <2>3, <3>1, <3>3 DEF CheckErased, Goes, ErasedBy, Erasure
      <4>4. QED
        BY <3>1, <4>2, <4>3
    <3>4. QED
      BY <3>2, <3>3
  <2>4. CASE Get(r)
    <3>1. /\ at[r] = "checked" /\ late[r] /\ UNCHANGED <<log, pos, keys>>
      BY <1>3, <2>4 DEF Get, evictor
    <3>2. /\ keys[SubjectOf[r]] = "destroyed" /\ wiring = "up"
          /\ ErasedBy(SubjectOf[r], pos)
      BY <3>1 DEF LateInv, CacheInv
    <3>3. SubjectOf[r] \notin cache
      BY <3>2 DEF ErasedBy, CacheInv
    <3>4. at'[r] = "pending"
      BY <1>1, <2>4, <3>3 DEF Get, Goes
    <3>5. QED
      BY <3>1, <3>2, <3>4 DEF ErasedBy, Erasure
  <2>5. CASE DecryptBatch(r)
    <3>1. at[r] = "pending" /\ late[r]
      BY <1>3, <2>5 DEF DecryptBatch
    <3>2. keys[SubjectOf[r]] = "destroyed"
      BY <3>1 DEF LateInv
    <3>3. at'[r] = "redacted" \/ at'[r] = "failed"
      BY <1>1, <2>5, <3>2 DEF DecryptBatch, Goes
    <3>4. QED
      BY <3>3
  <2>6. CASE Fill(r)
    BY <1>3, <2>6 DEF Fill, LateInv
  <2>7. QED
    BY <2>1, <2>2, <2>3, <2>4, <2>5, <2>6, RevealMoves
<1>4. ASSUME NEW c \in Seals, late'[c] PROVE at'[c] = "failed"
  <2>1. CASE CheckSubject(c)
    BY <1>1, <1>4, <2>1 DEF CheckSubject, Goes
  <2>2. CASE late[c]
    BY <2>2, SealMoves, <1>1
    DEF LateInv, CheckSubject, EnsureKey, EncryptBatch, Prime, AppendSealed
  <2>3. CASE ~late[c] /\ ~CheckSubject(c)
    BY <1>1, <1>4, <2>3, SealMoves
    DEF EnsureKey, EncryptBatch, Prime, AppendSealed
  <2>4. QED
    BY <2>1, <2>2, <2>3
<1>5. \A r \in Reveals : r \notin Seals
  BY ErasureAssumption
<1>6. QED
  BY <1>3, <1>4, <1>5 DEF LateInv

-----------------------------------------------------------------------------

\* The three invariants hold throughout on safe wirings.
LEMMA ErasureInvariance ==
  ASSUME SafeWirings
  PROVE  Spec => [](EvictorInv /\ CacheInv /\ LateInv)
<1>1. Init => EvictorInv /\ CacheInv /\ LateInv
  BY DEF Init, EvictorInv, CacheInv, LateInv
<1>2. TypeInv /\ DestroyerInv /\ EvictorInv /\ CacheInv /\ LateInv /\ [Next]_vars
        => (EvictorInv /\ CacheInv /\ LateInv)'
  BY EvictorStep, CacheStep, LateStep
<1>3. Spec => []TypeInv
  BY TypeInvariance
<1>4. Spec => []DestroyerInv
  BY DestroyerInvariance
<1>5. QED
  BY <1>1, <1>2, <1>3, <1>4, PTL DEF Spec

\* The evictor starts past no erasure that a read could still get round.
THEOREM ErasureSeedIsSafe ==
  ASSUME SafeWirings PROVE Spec => []SeedIsSafe
<1>1. EvictorInv => SeedIsSafe
  BY DEF EvictorInv, Cleared, SeedIsSafe, ErasedBy, Erasure
<1>2. QED
  BY <1>1, ErasureInvariance, PTL

\* Nothing of a subject whose erasure the evictor is past is in the cache.
THEOREM ErasureEvictedForGood ==
  ASSUME SafeWirings PROVE Spec => []EvictedForGood
<1>1. CacheInv => EvictedForGood
  BY DEF CacheInv, EvictedForGood, ErasedBy
<1>2. QED
  BY <1>1, ErasureInvariance, PTL

\* A request that begins after its subject's erasure gets nothing in the clear
\* and stores nothing.
THEOREM ErasureLateIsRedacted ==
  ASSUME SafeWirings PROVE Spec => []LateIsRedacted
<1>1. LateInv => LateIsRedacted
  BY DEF LateInv, LateIsRedacted
<1>2. QED
  BY <1>1, ErasureInvariance, PTL

-----------------------------------------------------------------------------
(* The search indexes (module SearchIndex), the other place that personal   *)
(* data leaves: an instance with its own log, process and bounds.  Its key  *)
(* version, rotated by the facade, is of the search hashes and not of the   *)
(* subjects above.                                                          *)

CONSTANTS MaxVersion, PurgeFirst, Revisits, Nobody, MaxStops, IndexFaults

VARIABLES latest, restored, destroyed, cached, target, replaced, active, spent,
          turn, stops, indexFaults

Index == INSTANCE SearchIndex
           WITH MaxFaults <- IndexFaults, faults <- indexFaults

\* The instance keeps the promises of IndexPromises if it keeps its own.
LEMMA IndexSame ==
  /\ Index!Erased = Erased
  /\ \A rs, v, q : Index!Shows(rs, v, q) <=> Shows(rs, v, q)
  /\ Index!IndexFaithful <=> IndexFaithful
  /\ Index!ErasedGone <=> ErasedGone
  /\ Index!PurgeClears <=> PurgeClears
<1>1. Index!Erased = Erased
  BY DEF Index!Erased, Erased
<1>2. \A q : Index!LastPuts(q) = LastPuts(q)
  BY DEF Index!LastPuts, LastPuts
<1>3. \A v, q : Index!Wanted(v, q) = Wanted(v, q)
  BY <1>2 DEF Index!Wanted, Wanted
<1>4. \A rs, v, q : Index!Shows(rs, v, q) <=> Shows(rs, v, q)
  BY <1>1, <1>3 DEF Index!Shows, Shows
<1>5. Index!IndexFaithful <=> IndexFaithful
  BY <1>4 DEF Index!IndexFaithful, IndexFaithful
<1>6. Index!ErasedGone <=> ErasedGone
  BY DEF Index!ErasedGone, ErasedGone
<1>7. Index!PurgeClears <=> PurgeClears
  BY DEF Index!PurgeClears, PurgeClears
<1>. QED
  BY <1>1, <1>4, <1>5, <1>6, <1>7

\* A step of the index, or none.
IndexStep == [Index!Next]_(Index!vars)

\* The types, what the registered consumers and their turns refer to, and that
\* a process that is not up has nothing in its cache.
IndexTyped ==
  /\ Index!TypeOK
  /\ phase # "up" => cached = {}
  /\ turn # Nobody => phase = "up" /\ registered # {} /\ turn.pos <= head
  /\ registered # {} \/ phase = "emptied" => target \in Index!Versions

\* They hold at the start.
LEMMA IndexInit ==
  ASSUME Index!SearchIndexAssumption, Index!Init
  PROVE  IndexTyped
<1>1. 1 \in Index!Versions
  BY DEF Index!SearchIndexAssumption, Index!Versions
<1>2. 0 \in 0 .. Len(Log) /\ 0 \in 0 .. MaxStops /\ 0 \in 0 .. IndexFaults
  BY DEF Index!SearchIndexAssumption
<1>3. checkpoints \in [Index!Versions -> 0 .. head]
  BY DEF Index!Init
<1>. QED
  BY <1>1, <1>2, <1>3 DEF IndexTyped, Index!Init, Index!TypeOK

\* Every step keeps them.
LEMMA IndexTypedStep ==
  ASSUME Index!SearchIndexAssumption, IndexTyped, IndexStep
  PROVE  IndexTyped'
<1>. USE DEF IndexTyped, Index!TypeOK
<1>a. /\ MaxVersion \in Nat \ {0} /\ Len(Log) \in Nat /\ MaxStops \in Nat /\ IndexFaults \in Nat
  BY DEF Index!SearchIndexAssumption
<1>f. Index!Fault \/ indexFaults' = indexFaults => indexFaults' \in 0 .. IndexFaults
  BY <1>a DEF Index!Fault
<1>v. Index!Versions = 1 .. MaxVersion
  BY DEF Index!Versions
<1>1. CASE Index!AppendEvent
  <2>1. /\ head \in Nat /\ head' \in 0 .. Len(Log) /\ 0 .. head \subseteq 0 .. head'
        /\ head <= head'
    BY <1>a, <1>1 DEF Index!AppendEvent
  <2>2. checkpoints' \in [Index!Versions -> 0 .. head']
    BY <2>1, <1>1 DEF Index!AppendEvent
  <2>3. turn' # Nobody => turn'.pos \in Nat /\ turn'.pos <= head'
    BY <1>a, <1>1, <2>1 DEF Index!AppendEvent, Index!Turns
  <2>. QED
    BY <1>1, <2>1, <2>2, <2>3 DEF Index!AppendEvent, Index!facade, Index!wiring
<1>2. CASE Index!Rotate
  BY <1>a, <1>2 DEF Index!Rotate, Index!wiring
<1>3. CASE Index!Restore
  BY <1>a, <1>v, <1>3 DEF Index!Restore, Index!wiring
<1>4. CASE \E s \in Index!Subjects : Index!Destroy(s)
  BY <1>a, <1>4 DEF Index!Destroy, Index!wiring
<1>5. CASE Index!Boot
  BY <1>a, <1>5 DEF Index!Boot, Index!wiring, Index!facade
<1>6. CASE Index!PurgeErased
  BY <1>f, <1>a, <1>6
     DEF Index!PurgeErased, Index!AfterPurge, Index!Purged, Index!wiring, Index!facade
<1>7. CASE Index!Empty
  BY <1>a, <1>7 DEF Index!Empty, Index!wiring, Index!facade
<1>8. CASE Index!Build
  <2>1. checkpoints' \in [Index!Versions -> 0 .. head]
    BY <1>8, <1>a DEF Index!Build, Index!Serves, Index!Fails
  <2>2. turn = Nobody /\ turn' = Nobody
    BY <1>8 DEF Index!Build
  <2>3. /\ target \in Index!Versions /\ target' = target
        /\ {target} \subseteq Index!Versions
    BY <1>8 DEF Index!Build
  <2>4. /\ registered' \subseteq Index!Versions
        /\ active' \in Index!Versions \cup {0} /\ spent' \in BOOLEAN
        /\ replaced' \in Index!Versions \cup {0}
        /\ recorded' \in Index!Versions \cup {0}
    BY <1>8, <2>3 DEF Index!Build, Index!Serves, Index!Fails
  <2>5. Index!Fault \/ indexFaults' = indexFaults
    BY <1>8 DEF Index!Build, Index!Fails
  <2>6. phase' \in {"down", "purge", "register", "emptied", "up"}
    BY <1>8 DEF Index!Build, Index!Serves, Index!Fails, Index!AfterRegister
  <2>7. unsound' \in BOOLEAN
    BY <1>8 DEF Index!Build
  <2>. QED
    BY <1>8, <1>f, <2>1, <2>2, <2>3, <2>4, <2>5, <2>6, <2>7 DEF Index!Build, Index!facade
<1>9. CASE Index!Continue
  <2>1. turn = Nobody /\ turn' = Nobody
    BY <1>9 DEF Index!Continue
  <2>2. /\ target' \in Index!Versions /\ registered' \subseteq Index!Versions
        /\ active' \in Index!Versions \cup {0} /\ spent' \in BOOLEAN
        /\ replaced' \in Index!Versions \cup {0}
    BY <1>9 DEF Index!Continue, Index!Serves, Index!Fails
  <2>3. /\ phase' \in {"down", "purge", "register", "emptied", "up"}
        /\ indexFaults' \in 0 .. IndexFaults /\ rows' \subseteq Index!IndexRows
    BY <1>f, <1>9
       DEF Index!Continue, Index!Serves, Index!Fails, Index!AfterRegister, Index!RowsAt
  <2>. QED
    BY <1>9, <2>1, <2>2, <2>3 DEF Index!Continue, Index!facade
<1>10. CASE Index!Rebuild
  <2>1. turn = Nobody /\ turn' = Nobody
    BY <1>10 DEF Index!Rebuild, Index!Rotated
  <2>2. /\ recorded \in Index!Versions /\ latest \in Index!Versions
    BY <1>a, <1>v, <1>10 DEF Index!Rebuild, Index!Rotated
  <2>3. /\ phase' \in {"down", "purge", "register", "emptied", "up"}
        /\ rows' \subseteq Index!IndexRows
    BY <1>10 DEF Index!Rebuild, Index!AfterRegister, Index!RowsAt
  <2>. QED
    BY <1>10, <2>1, <2>2, <2>3 DEF Index!Rebuild, Index!Rotated, Index!facade
<1>11. CASE Index!SwitchAtStart
  <2>1. checkpoints' \in [Index!Versions -> 0 .. head]
    BY <1>11, <1>a DEF Index!SwitchAtStart
  <2>2. turn = Nobody /\ turn' = Nobody
    BY <1>11 DEF Index!SwitchAtStart, Index!Rotated
  <2>3. /\ target' \in Index!Versions /\ registered' \subseteq Index!Versions
        /\ active' \in Index!Versions \cup {0} /\ spent' \in BOOLEAN
        /\ replaced' \in Index!Versions \cup {0}
        /\ recorded' \in Index!Versions \cup {0}
    BY <1>11 DEF Index!SwitchAtStart, Index!Serves, Index!Fails
  <2>4. Index!Fault \/ indexFaults' = indexFaults
    BY <1>11 DEF Index!SwitchAtStart, Index!Fails
  <2>5. phase' \in {"down", "purge", "register", "emptied", "up"}
    BY <1>11 DEF Index!SwitchAtStart, Index!Serves, Index!Fails, Index!AfterRegister
  <2>6. rows' \subseteq Index!IndexRows /\ unsound' \in BOOLEAN
    BY <1>11 DEF Index!SwitchAtStart, Index!RowsAt
  <2>. QED
    BY <1>11, <1>f, <2>1, <2>2, <2>3, <2>4, <2>5, <2>6
       DEF Index!SwitchAtStart, Index!Rotated, Index!facade
<1>12. ASSUME NEW v \in Index!Versions, Index!Deliver(v)
       PROVE  IndexTyped'
  <2>1. \A s : Index!Knowable(s) \subseteq BOOLEAN
    BY DEF Index!Knowable
  <2>. QED
    BY <1>a, <1>12, <2>1 DEF Index!Deliver, Index!Turns, Index!facade, Index!wiring
<1>. DEFINE Step(s) == turn' = [turn EXCEPT !.step = s]
<1>s. ASSUME turn # Nobody,
             NEW s \in {"write", "check", "retire", "clear", "save"}, Step(s)
      PROVE  /\ turn' \in Index!Turns \cup {Nobody} /\ turn'.pos = turn.pos
  BY <1>s DEF Index!Turns
<1>. HIDE DEF Step
<1>13. CASE Index!Write
  <2>1. /\ turn # Nobody /\ turn \in Index!Turns
        /\ turn.version \in Index!Versions /\ turn.pos \in 1 .. Len(Log)
    BY <1>13 DEF Index!Write, Index!At, Index!Turns
  <2>5. turn.pos \in DOMAIN Log
    BY <2>1 DEF Index!SearchIndexAssumption
  <2>6. ASSUME Log[turn.pos].type = "put"
        PROVE  [row |-> Log[turn.pos].row, version |-> turn.version,
                term |-> Log[turn.pos].term, subject |-> Log[turn.pos].subject]
                 \in Index!IndexRows
    BY <2>1, <2>5, <2>6 DEF Index!IndexRows, Index!Rows, Index!Terms, Index!Subjects
  <2>2. Log[turn.pos].type = "put" => Index!Replaced \subseteq Index!IndexRows
    BY <2>6 DEF Index!Replaced, Index!Event
  <2>3. rows' \subseteq Index!IndexRows
    BY <2>2, <1>13 DEF Index!Write, Index!Event
  <2>4. turn' \in Index!Turns \cup {Nobody} /\ (turn' # Nobody => turn'.pos = turn.pos)
    BY <1>13, <1>s, <2>1 DEF Index!Write, Index!Goes, Step
  <2>. QED
    BY <1>f, <1>a, <1>13, <2>1, <2>3, <2>4 DEF Index!Write, Index!facade, Index!wiring
<1>14. CASE Index!Switch
  <2>1. turn # Nobody
    BY <1>14 DEF Index!Switch, Index!At
  <2>4. turn' \in Index!Turns \cup {Nobody} /\ (turn' # Nobody => turn'.pos = turn.pos)
    BY <1>14, <1>s, <2>1 DEF Index!Switch, Index!Goes, Step
  <2>5. /\ target \in Index!Versions /\ registered # {} /\ phase = "up"
        /\ turn.pos <= head
    BY <2>1
  <2>6. /\ recorded' \in Index!Versions \cup {0} /\ active' \in Index!Versions \cup {0}
        /\ registered' \subseteq Index!Versions /\ registered' # {}
        /\ spent' \in BOOLEAN /\ indexFaults' \in 0 .. IndexFaults
    BY <1>f, <1>14, <2>5 DEF Index!Switch
  <2>. QED
    BY <1>14, <2>4, <2>5, <2>6 DEF Index!Switch, Index!facade
<1>15. CASE Index!Retire
  <2>1. checkpoints' \in [Index!Versions -> 0 .. head]
    BY <1>a, <1>15 DEF Index!Retire
  <2>2. turn' \in Index!Turns \cup {Nobody} /\ turn'.pos = turn.pos /\ turn # Nobody
    BY <1>15, <1>s DEF Index!Retire, Index!At, Index!Goes, Step
  <2>. QED
    BY <1>f, <1>15, <2>1, <2>2 DEF Index!Retire, Index!facade, Index!wiring
<1>16. CASE Index!Clear
  BY <1>f, <1>a, <1>16, <1>s
     DEF Index!Clear, Index!At, Index!Goes, Step, Index!RowsAt, Index!facade, Index!wiring
<1>17. CASE Index!Save
  <2>1. /\ turn # Nobody /\ turn \in Index!Turns
        /\ turn.version \in Index!Versions /\ turn.pos \in 1 .. head
    BY <1>17, <1>a DEF Index!Save, Index!At, Index!Turns
  <2>2. checkpoints' \in [Index!Versions -> 0 .. head]
    BY <2>1, <1>17 DEF Index!Save
  <2>. QED
    BY <1>f, <2>1, <2>2, <1>17 DEF Index!Save, Index!facade, Index!wiring
<1>18. CASE Index!Stop
  BY <1>a, <1>18 DEF Index!Stop, Index!facade
<1>19. CASE Index!LoseFile
  BY <1>f, <1>a, <1>19 DEF Index!LoseFile, Index!facade, Index!wiring
<1>20. CASE UNCHANGED Index!vars
  BY <1>20 DEF Index!vars, Index!Turns
<1>. QED
  BY <1>1, <1>2, <1>3, <1>4, <1>5, <1>6, <1>7, <1>8, <1>9, <1>10, <1>11, <1>12,
     <1>13, <1>14, <1>15, <1>16, <1>17, <1>18, <1>19, <1>20
     DEF IndexStep, Index!Next, Index!Startup, Index!Apply
\* What is registered at which stage: an index alone at its version, or a
\* rebuild beside the live index until it has taken over.  The facade destroys
\* keys of erased subjects only.

IndexStaged ==
  /\ registered # {} <=> phase = "up" \/ (phase = "purge" /\ ~PurgeFirst)
  /\ destroyed \subseteq Index!Erased
  /\ registered # {} =>
       \/ replaced = 0 /\ recorded = target /\ registered = {target}
       \/ /\ replaced \in 1 .. target - 1
          /\ \/ recorded = replaced /\ registered = {replaced, target}
             \/ recorded = target /\ registered = {target} /\ spent

\* A turn is the event after its consumer's position; a value goes missing only
\* when its key is gone; and only a rebuild gets beyond its write to a switch.
IndexTurns ==
  turn # Nobody =>
    /\ turn.version \in registered
    /\ turn.pos = checkpoints[turn.version] + 1
    /\ turn.step = "write" /\ ~turn.known => Log[turn.pos].subject \in destroyed
    /\ turn.step \in {"check", "retire", "clear"} => turn.version = target /\ replaced # 0
    /\ turn.step \in {"retire", "clear"} => recorded = target

\* Every step keeps both.
LEMMA IndexStagedStep ==
  ASSUME Index!SearchIndexAssumption, IndexTyped, IndexStaged, IndexTurns, IndexStep
  PROVE  IndexStaged' /\ IndexTurns'
<1>a. MaxVersion \in Nat \ {0} /\ Len(Log) \in Nat
  BY DEF Index!SearchIndexAssumption
<1>t. /\ head \in 0 .. Len(Log) /\ latest \in Index!Versions
      /\ recorded \in Index!Versions \cup {0}
      /\ checkpoints \in [Index!Versions -> 0 .. head]
      /\ target \in Index!Versions \cup {0} /\ registered \subseteq Index!Versions
      /\ turn # Nobody => turn \in Index!Turns
      /\ turn # Nobody => phase = "up" /\ registered # {} /\ turn.pos <= head
      /\ registered # {} \/ phase = "emptied" => target \in Index!Versions
  BY DEF IndexTyped, Index!TypeOK
<1>v. Index!Versions = 1 .. MaxVersion
  BY DEF Index!Versions
<1>1. CASE Index!AppendEvent
  <2>1. Index!Erased \subseteq Index!Erased'
    BY <1>t, <1>1 DEF Index!AppendEvent, Index!Erased
  <2>. QED
    BY <1>1, <2>1
       DEF Index!AppendEvent, Index!facade, Index!wiring, IndexStaged, IndexTurns
<1>e. CASE head' = head
  <2>e. Index!Erased' = Index!Erased
    BY <1>e DEF Index!Erased
  <2>2. CASE Index!Rotate \/ Index!Restore
    BY <2>2, <2>e DEF Index!Rotate, Index!Restore, Index!wiring, IndexStaged, IndexTurns
  <2>4. ASSUME NEW s \in Index!Subjects, Index!Destroy(s)
        PROVE  IndexStaged' /\ IndexTurns'
    BY <2>4, <2>e DEF Index!Destroy, Index!wiring, IndexStaged, IndexTurns
  <2>5. CASE Index!Boot
    BY <2>5, <2>e, <1>t DEF Index!Boot, Index!wiring, Index!facade, IndexStaged, IndexTurns
  <2>6. CASE Index!PurgeErased
    <3>1. turn' = Nobody
      BY <2>6, <1>t DEF Index!PurgeErased
    <3>. QED
      BY <2>6, <2>e, <3>1
         DEF Index!PurgeErased, Index!AfterPurge, Index!facade, IndexStaged, IndexTurns
  <2>7. CASE Index!Empty
    BY <2>7, <2>e, <1>t DEF Index!Empty, Index!facade, IndexStaged, IndexTurns
  <2>8. CASE Index!Build
    <3>1. turn' = Nobody
      BY <2>8, <1>t DEF Index!Build
    <3>2. IndexTurns'
      BY <3>1 DEF IndexTurns
    <3>. QED
      BY <2>8, <2>e, <1>t, <3>2
         DEF Index!Build, Index!Serves, Index!Fails, Index!AfterRegister, Index!facade, IndexStaged
  <2>9. CASE Index!Continue
    <3>1. turn' = Nobody
      BY <2>9, <1>t DEF Index!Continue
    <3>2. IndexTurns'
      BY <3>1 DEF IndexTurns
    <3>. QED
      BY <2>9, <2>e, <1>t, <3>2
         DEF Index!Continue, Index!Serves, Index!Fails, Index!AfterRegister, Index!facade,
                IndexStaged
  <2>10. CASE Index!Rebuild
    <3>1. turn' = Nobody
      BY <2>10, <1>t DEF Index!Rebuild, Index!Rotated
    <3>2. IndexTurns'
      BY <3>1 DEF IndexTurns
    <3>. QED
      BY <2>10, <2>e, <1>t, <3>2, <1>v, <1>a
         DEF Index!Rebuild, Index!Rotated, Index!AfterRegister, Index!facade, IndexStaged
  <2>11. CASE Index!SwitchAtStart
    <3>1. turn' = Nobody
      BY <2>11, <1>t DEF Index!SwitchAtStart, Index!Rotated
    <3>2. IndexTurns'
      BY <3>1 DEF IndexTurns
    <3>. QED
      BY <2>11, <2>e, <1>t, <3>2
         DEF Index!SwitchAtStart, Index!Rotated, Index!Serves, Index!Fails, Index!AfterRegister,
             Index!facade, IndexStaged
  <2>12. ASSUME NEW v \in Index!Versions, Index!Deliver(v)
         PROVE  IndexStaged' /\ IndexTurns'
    <3>1. \A s : FALSE \in Index!Knowable(s) => s \in destroyed
      BY DEF Index!Knowable
    <3>2. PICK known \in Index!Knowable(Log[checkpoints[v] + 1].subject) :
            turn' = [version |-> v, pos |-> checkpoints[v] + 1, step |-> "write",
                     known |-> known]
      BY <2>12 DEF Index!Deliver
    <3>3. known \in BOOLEAN
      BY DEF Index!Knowable
    <3>4. ~known => Log[checkpoints[v] + 1].subject \in destroyed
      BY <3>1, <3>3
    <3>5. IndexTurns'
      BY <2>12, <3>2, <3>4 DEF Index!Deliver, Index!facade, Index!wiring, IndexTurns
    <3>. QED
      BY <2>12, <2>e, <3>5 DEF Index!Deliver, Index!facade, Index!wiring, IndexStaged
  <2>. DEFINE Step(s) == turn' = [turn EXCEPT !.step = s]
  <2>s. ASSUME turn # Nobody,
               NEW s \in {"write", "check", "retire", "clear", "save"}, Step(s)
        PROVE  /\ turn'.step = s /\ turn'.pos = turn.pos
               /\ turn'.version = turn.version /\ turn'.known = turn.known
    BY <2>s, <1>t DEF Index!Turns
  <2>. HIDE DEF Step
  <2>13. CASE Index!Write
    <3>1. turn # Nobody /\ turn.step = "write"
      BY <2>13 DEF Index!Write, Index!At
    <3>2. \/ turn' = Nobody
          \/ Step("check") /\ turn.version = target /\ replaced # 0
          \/ Step("save")
      BY <2>13 DEF Index!Write, Index!Goes, Step
    <3>3. IndexStaged'
      BY <2>13, <2>e DEF Index!Write, Index!facade, Index!wiring, IndexStaged
    <3>. QED
      BY <2>13, <2>s, <3>1, <3>2, <3>3 DEF Index!Write, Index!facade, Index!wiring, IndexTurns
  <2>14. CASE Index!Switch
    <3>1. /\ turn # Nobody /\ turn.step = "check"
          /\ turn.version = target /\ replaced # 0 /\ registered # {}
      BY <2>14, <1>t DEF Index!Switch, Index!At, IndexTurns
    <3>2. \/ /\ turn' = Nobody \/ Step("save")
             /\ recorded' = recorded /\ registered' = registered /\ (spent => spent')
          \/ Step("retire") /\ recorded' = target /\ registered' = {target} /\ spent'
      BY <2>14 DEF Index!Switch, Index!Goes, Step
    <3>3. /\ destroyed' = destroyed /\ phase' = phase /\ target' = target
          /\ replaced' = replaced /\ checkpoints' = checkpoints
      BY <2>14 DEF Index!Switch, Index!facade
    <3>4. IndexStaged'
      BY <2>e, <3>1, <3>2, <3>3 DEF IndexStaged
    <3>. QED
      BY <2>s, <3>1, <3>2, <3>3, <3>4 DEF IndexTurns
  <2>15. CASE Index!Retire
    <3>1. /\ turn # Nobody /\ turn.step = "retire" /\ Step("clear")
          /\ turn.version = target /\ replaced # 0 /\ registered # {} /\ recorded = target
      BY <2>15, <1>t DEF Index!Retire, Index!At, Index!Goes, Step, IndexTurns
    <3>2. replaced # target
      BY <3>1, <1>t, <1>v, <1>a DEF IndexStaged
    <3>3. checkpoints'[target] = checkpoints[target]
      BY <3>1, <3>2, <2>15, <1>t DEF Index!Retire
    <3>4. IndexStaged'
      BY <2>15, <2>e DEF Index!Retire, Index!facade, Index!wiring, IndexStaged
    <3>. QED
      BY <2>15, <2>s, <3>1, <3>3, <3>4 DEF Index!Retire, Index!wiring, IndexTurns
  <2>16. CASE Index!Clear
    <3>1. turn # Nobody /\ turn.step = "clear" /\ (turn' = Nobody \/ Step("save"))
      BY <2>16 DEF Index!Clear, Index!At, Index!Goes, Step
    <3>4. IndexStaged'
      BY <2>16, <2>e DEF Index!Clear, Index!facade, Index!wiring, IndexStaged
    <3>. QED
      BY <2>16, <2>s, <3>1, <3>4 DEF Index!Clear, Index!wiring, IndexTurns
  <2>17. CASE Index!Save
    BY <2>17, <2>e DEF Index!Save, Index!facade, Index!wiring, IndexStaged, IndexTurns
  <2>18. CASE Index!Stop
    BY <2>18, <2>e DEF Index!Stop, Index!facade, IndexStaged, IndexTurns
  <2>19. CASE Index!LoseFile
    BY <2>19, <2>e, <1>t DEF Index!LoseFile, Index!facade, Index!wiring, IndexStaged, IndexTurns
  <2>20. CASE UNCHANGED Index!vars
    BY <2>20, <2>e DEF Index!vars, IndexStaged, IndexTurns
  <2>. QED
    BY <2>2, <2>4, <2>5, <2>6, <2>7, <2>8, <2>9, <2>10, <2>11, <2>12, <2>13, <2>14,
       <2>15, <2>16, <2>17, <2>18, <2>19, <2>20, <1>1
       DEF IndexStep, Index!Next, Index!Startup, Index!Apply
<1>. QED
  <2>1. Index!AppendEvent \/ head' = head
    BY DEF IndexStep, Index!Next, Index!Startup, Index!Apply, Index!vars,
           Index!Rotate, Index!Restore, Index!Destroy, Index!Boot, Index!PurgeErased,
           Index!Empty, Index!Build, Index!Continue, Index!Rebuild, Index!SwitchAtStart,
           Index!Deliver, Index!Write, Index!Switch, Index!Retire, Index!Clear, Index!Save,
           Index!Stop, Index!LoseFile
  <2>. QED
    BY <2>1, <1>1, <1>e

-----------------------------------------------------------------------------
(* The purge.                                                              *)

\* Rows, the value about to be written and what is cached are not of a subject
\* the purge is past.
IndexPurged ==
  /\ Index!PurgeClears
  /\ cached \cap cursor = {}
  /\ turn # Nobody /\ turn.step = "write" /\ turn.known =>
       Log[turn.pos].subject \notin cursor

\* Every step keeps it, if the indexes are registered before the purge.
LEMMA IndexPurgedStep ==
  ASSUME IndexTyped, IndexStaged, ~PurgeFirst, IndexPurged, IndexStep
  PROVE  IndexPurged'
<1>. USE DEF IndexPurged, Index!PurgeClears
<1>t. /\ turn # Nobody => turn \in Index!Turns /\ phase = "up"
      /\ cursor \subseteq destroyed
      /\ phase # "up" => cached = {}
  BY DEF IndexTyped, Index!TypeOK
<1>1. CASE UNCHANGED <<rows, turn, cursor, cached>>
  BY <1>1
<1>2. ASSUME rows' \subseteq rows, cursor' = cursor, turn' \in {turn, Nobody},
             cached' \subseteq cached
      PROVE  IndexPurged'
  BY <1>2
<1>6. CASE Index!PurgeErased
  <2>1. /\ registered # {} /\ turn = Nobody /\ turn' = Nobody
        /\ cached = {} /\ cached' = {}
    BY <1>6, <1>t DEF Index!PurgeErased, Index!facade, IndexStaged
  <2>2. CASE rows' = Index!Purged /\ cursor' = destroyed
    BY <2>1, <2>2 DEF Index!Purged
  <2>3. CASE rows' \in {rows, Index!Purged} /\ cursor' = cursor
    BY <2>1, <2>3 DEF Index!Purged
  <2>. QED
    BY <1>6, <2>2, <2>3 DEF Index!PurgeErased
<1>7. CASE Index!Empty
  BY <1>7, <1>t DEF Index!Empty, Index!facade
<1>9. CASE Index!Continue \/ Index!Rebuild \/ Index!SwitchAtStart
  BY <1>9, <1>2 DEF Index!Continue, Index!Rebuild, Index!SwitchAtStart, Index!RowsAt,
                    Index!facade
<1>12. ASSUME NEW v \in Index!Versions, Index!Deliver(v)
       PROVE  IndexPurged'
  <2>1. \A s : TRUE \in Index!Knowable(s) => s \notin cursor
    BY <1>t DEF Index!Knowable
  <2>2. PICK known \in Index!Knowable(Log[checkpoints[v] + 1].subject) :
          turn' = [version |-> v, pos |-> checkpoints[v] + 1, step |-> "write",
                   known |-> known]
    BY <1>12 DEF Index!Deliver
  <2>3. known => Log[checkpoints[v] + 1].subject \notin cursor
    <3>1. known \in BOOLEAN
      BY DEF Index!Knowable
    <3>. QED
      BY <2>1, <3>1
  <2>. QED
    BY <1>12, <2>2, <2>3 DEF Index!Deliver, Index!facade
<1>. DEFINE Moved == turn' = Nobody \/ turn'.step # "write"
<1>m. ASSUME Moved, Index!PurgeClears', UNCHANGED <<cached, cursor>>
      PROVE  IndexPurged'
  BY <1>m
<1>13. CASE Index!Write
  <2>1. /\ turn # Nobody /\ turn.step = "write" /\ turn \in Index!Turns
        /\ UNCHANGED <<cached, cursor>>
    BY <1>13, <1>t DEF Index!Write, Index!At, Index!facade
  <2>2. Moved
    BY <1>13, <2>1 DEF Index!Write, Index!Goes, Index!Turns
  <2>3. \A x \in Index!Replaced : x \in rows \/ (x.subject = Log[turn.pos].subject /\ turn.known)
    BY DEF Index!Replaced, Index!Event
  <2>4. rows' = Index!Replaced \/ rows' \subseteq rows
    BY <1>13 DEF Index!Write
  <2>5. Index!PurgeClears'
    BY <2>1, <2>3, <2>4
  <2>. QED
    BY <1>m, <2>1, <2>2, <2>5
<1>14. CASE Index!Switch \/ Index!Retire \/ Index!Clear \/ Index!Save
  <2>1. turn # Nobody /\ turn \in Index!Turns /\ UNCHANGED <<cached, cursor>>
    BY <1>14, <1>t DEF Index!Switch, Index!Retire, Index!Clear, Index!Save, Index!At,
                       Index!facade
  <2>2. Moved
    BY <1>14, <2>1 DEF Index!Switch, Index!Retire, Index!Clear, Index!Save, Index!Goes, Index!Turns
  <2>3. rows' \subseteq rows
    BY <1>14 DEF Index!Switch, Index!Retire, Index!Clear, Index!Save, Index!RowsAt
  <2>. QED
    BY <1>m, <2>1, <2>2, <2>3
<1>18. CASE Index!Stop
  BY <1>18, <1>2 DEF Index!Stop
<1>19. CASE Index!LoseFile
  BY <1>19 DEF Index!LoseFile
<1>20. ASSUME NEW s, Index!Destroy(s)
       PROVE  IndexPurged'
  BY <1>20, <1>t DEF Index!Destroy
<1>21. ASSUME \/ Index!AppendEvent \/ Index!Rotate \/ Index!Restore \/ Index!Boot \/ Index!Build
              \/ UNCHANGED Index!vars
       PROVE  IndexPurged'
  BY <1>1, <1>21 DEF Index!AppendEvent, Index!Rotate, Index!Restore, Index!Boot, Index!Build,
     Index!facade, Index!vars
<1>. QED
  BY <1>6, <1>7, <1>9, <1>12, <1>13, <1>14, <1>18, <1>19, <1>20, <1>21
     DEF IndexStep, Index!Next, Index!Startup, Index!Apply

-----------------------------------------------------------------------------
(* The types and the stages together.                                      *)

\* The invariant everything below rests on.
IndexInv == IndexTyped /\ IndexStaged /\ IndexTurns

\* It holds always.
LEMMA IndexAlways ==
  ASSUME Index!SearchIndexAssumption
  PROVE  Index!Spec => []IndexInv
<1>1. Index!Init => IndexInv
  <2>. SUFFICES ASSUME Index!Init
                PROVE  IndexInv
    OBVIOUS
  <2>1. IndexTyped
    BY IndexInit
  <2>. QED
    BY <2>1 DEF IndexInv, Index!Init, IndexStaged, IndexTurns
<1>2. IndexInv /\ IndexStep => IndexInv'
  BY IndexTypedStep, IndexStagedStep DEF IndexInv
<1>. QED
  BY <1>1, <1>2, PTL DEF Index!Spec, IndexStep

\* PurgeErased's order of deleting rows and saving its cursor (searchindex/
\* index.go) is right on a host that registers its indexes first: whatever
\* stops, fails or is lost, the cursor is never past a subject with rows.
THEOREM IndexPurgeClears ==
  ASSUME Index!SearchIndexAssumption, ~PurgeFirst
  PROVE  Index!Spec => []PurgeClears
<1>1. Index!Init => IndexPurged
  BY DEF Index!Init, IndexPurged, Index!PurgeClears
<1>2. IndexInv /\ IndexPurged /\ IndexStep => IndexPurged'
  BY IndexPurgedStep DEF IndexInv
<1>3. IndexPurged => PurgeClears
  BY IndexSame DEF IndexPurged
<1>. QED
  BY <1>1, <1>2, <1>3, IndexAlways, PTL DEF Index!Spec, IndexStep

-----------------------------------------------------------------------------
(* What an index shows.                                                    *)

\* A put changes what a version should hold in its own record only.
LEMMA WantedPut ==
  ASSUME NEW v, NEW p \in Nat \ {0}, Log[p].type = "put"
  PROVE  \A x : x \in Index!Wanted(v, p) <=>
           \/ x = [row |-> Log[p].row, version |-> v, term |-> Log[p].term,
                   subject |-> Log[p].subject]
           \/ x \in Index!Wanted(v, p - 1) /\ x.row # Log[p].row
<1>1. \A n \in Nat : n \in Index!LastPuts(p) <=>
         n = p \/ (n \in Index!LastPuts(p - 1) /\ Log[n].row # Log[p].row)
  BY DEF Index!LastPuts
<1>2. Index!LastPuts(p) \subseteq Nat /\ Index!LastPuts(p - 1) \subseteq Nat
  BY DEF Index!LastPuts
<1>. DEFINE made(n) == [row |-> Log[n].row, version |-> v, term |-> Log[n].term,
                        subject |-> Log[n].subject]
<1>3. \A q, x : x \in Index!Wanted(v, q) <=> \E n \in Index!LastPuts(q) : x = made(n)
  BY DEF Index!Wanted
<1>4. \A n : made(n).row = Log[n].row
  OBVIOUS
<1>. HIDE DEF made
<1>5. \A x : x \in Index!Wanted(v, p) <=>
         x = made(p) \/ (x \in Index!Wanted(v, p - 1) /\ x.row # Log[p].row)
  BY <1>1, <1>2, <1>3, <1>4
<1>. QED
  BY <1>5 DEF made

\* An erasure changes nothing of it.
LEMMA WantedErase ==
  ASSUME NEW v, NEW p \in Nat \ {0}, Log[p].type = "erase"
  PROVE  Index!Wanted(v, p) = Index!Wanted(v, p - 1)
<1>1. Index!LastPuts(p) = Index!LastPuts(p - 1)
  BY DEF Index!LastPuts
<1>. QED
  BY <1>1 DEF Index!Wanted

\* An erased subject stays erased.
LEMMA IndexErasedGrows ==
  ASSUME head \in Nat, head' \in Nat, head <= head'
  PROVE  Index!Erased \subseteq Index!Erased'
BY DEF Index!Erased

\* An index that shows the first q events does so after a step that leaves its
\* version's rows alone but for erased subjects.
LEMMA ShowsStep ==
  ASSUME NEW v, NEW q, Index!Shows(rows, v, q),
         head \in Nat, head' \in Nat, head <= head',
         \A x \in rows' : x.version = v => x \in rows,
         \A x \in rows : x.version = v /\ x.subject \notin Index!Erased' => x \in rows'
  PROVE  Index!Shows(rows, v, q)'
<1>1. Index!Erased \subseteq Index!Erased'
  BY IndexErasedGrows
<1>2. \A x \in Index!Wanted(v, q) : x.version = v
  BY DEF Index!Wanted
<1>. QED
  BY <1>1, <1>2 DEF Index!Shows

\* The index of version v holds what its position says, or the event after it.
IndexGood(v) ==
  \E q \in {checkpoints[v], checkpoints[v] + 1} : q <= head /\ Index!Shows(rows, v, q)

\* Nothing has been indexed at version v.
IndexFresh(v) == checkpoints[v] = 0 /\ \A x \in rows : x.version # v

\* A good index stays good in a step that leaves its position and its rows alone
\* but for erased subjects.
LEMMA GoodStep ==
  ASSUME NEW v, IndexGood(v), checkpoints'[v] = checkpoints[v],
         head \in Nat, head' \in Nat, head <= head', checkpoints[v] \in Nat,
         \A x \in rows' : x.version = v => x \in rows,
         \A x \in rows : x.version = v /\ x.subject \notin Index!Erased' => x \in rows'
  PROVE  IndexGood(v)'
<1>1. PICK q \in {checkpoints[v], checkpoints[v] + 1} : q <= head /\ Index!Shows(rows, v, q)
  BY DEF IndexGood
<1>2. Index!Shows(rows, v, q)'
  BY <1>1, ShowsStep
<1>3. q <= head'
  BY <1>1
<1>. QED
  BY <1>1, <1>2, <1>3 DEF IndexGood

\* A write brings its version's rows from the event before to its own event.
LEMMA WriteShows ==
  ASSUME Index!SearchIndexAssumption, turn \in Index!Turns,
         turn.pos = checkpoints[turn.version] + 1, turn.pos <= head,
         checkpoints[turn.version] \in Nat, head \in Nat,
         ~turn.known => Log[turn.pos].subject \in destroyed,
         destroyed \subseteq Index!Erased, head' = head,
         IndexGood(turn.version),
         \/ Log[turn.pos].type = "put" /\ rows' = Index!Replaced
         \/ /\ Log[turn.pos].type = "erase"
            /\ rows' = {x \in rows : x.subject # Log[turn.pos].subject}
  PROVE  \A v, p : v = turn.version /\ p = turn.pos => Index!Shows(rows, v, p)'
<1>. SUFFICES ASSUME NEW v, NEW p, v = turn.version, p = turn.pos
              PROVE  Index!Shows(rows, v, p)'
  OBVIOUS
<1>1. p \in Nat \ {0} /\ p \in DOMAIN Log /\ p \in 1 .. head
  BY DEF Index!Turns, Index!SearchIndexAssumption
<1>2. PICK q \in {p - 1, p} : Index!Shows(rows, v, q)
  BY DEF IndexGood
<1>e. Index!Erased' = Index!Erased
  BY DEF Index!Erased
<1>3. CASE Log[p].type = "put" /\ rows' = Index!Replaced
  <2>. DEFINE new == [row |-> Log[p].row, version |-> v, term |-> Log[p].term,
                      subject |-> Log[p].subject]
  <2>1. \A x : x \in Index!Wanted(v, p) <=>
           x = new \/ (x \in Index!Wanted(v, p - 1) /\ x.row # Log[p].row)
    BY <1>1, <1>3, WantedPut
  <2>2. new.row = Log[p].row /\ new.version = v /\ new.subject = Log[p].subject
    OBVIOUS
  <2>3. \A x : x \in rows' <=>
           \/ x \in rows /\ (x.row # Log[p].row \/ x.version # v)
           \/ x = new /\ turn.known
    BY <1>3 DEF Index!Replaced, Index!Event
  <2>4. turn.known \/ Log[p].subject \in Index!Erased
    BY DEF Index!Turns
  <2>. HIDE DEF new
  <2>5. \A x \in Index!Wanted(v, q) : x.version = v
    BY DEF Index!Wanted
  <2>6. \A x \in rows' : x.version = v => x \in Index!Wanted(v, p)
    BY <1>2, <2>1, <2>2, <2>3 DEF Index!Shows
  <2>7. ASSUME NEW x \in Index!Wanted(v, p), x.subject \notin Index!Erased
        PROVE  x \in rows' /\ x.version = v
    <3>1. CASE x = new
      BY <3>1, <2>2, <2>3, <2>4, <2>7
    <3>2. CASE x # new
      <4>1. x \in Index!Wanted(v, p - 1) /\ x.row # Log[p].row
        BY <3>2, <2>1
      <4>2. x \in rows /\ x.version = v
        BY <4>1, <1>2, <2>7 DEF Index!Shows
      <4>. QED
        BY <4>1, <4>2, <2>3
    <3>. QED
      BY <3>1, <3>2
  <2>. QED
    BY <2>6, <2>7, <1>e DEF Index!Shows
<1>4. CASE Log[p].type = "erase" /\ rows' = {x \in rows : x.subject # Log[p].subject}
  <2>1. Index!Wanted(v, p) = Index!Wanted(v, p - 1)
    BY <1>1, <1>4, WantedErase
  <2>2. Index!Shows(rows, v, p)
    BY <1>2, <2>1 DEF Index!Shows
  <2>3. Log[p].subject \in Index!Erased
    BY <1>1, <1>4 DEF Index!Erased
  <2>. QED
    BY <2>2, <2>3, <1>4, <1>e, ShowsStep
<1>. QED
  BY <1>3, <1>4

-----------------------------------------------------------------------------
(* An index is never a part of what it should be.                          *)

\* A file with no version recorded is empty.
IndexEmpty ==
  recorded = 0 => rows = {} /\ \A v \in Index!Versions : checkpoints[v] = 0

\* Nothing has been indexed at a version the facade has not reached.
IndexAhead ==
  ~restored =>
    /\ recorded <= latest
    /\ phase = "emptied" \/ registered # {} => target <= latest
    /\ \A v \in Index!Versions : v > latest => IndexFresh(v)

\* The index that searches use, the one a start would go on with and every
\* registered one are good.
IndexKept ==
  /\ recorded \in 1 .. latest => IndexGood(recorded) /\ IndexGood(latest)
  /\ \A v \in registered : IndexGood(v)
  /\ registered # {} /\ recorded <= latest => latest \in registered \/ IndexFresh(latest)

\* Between emptying the tables and recording the version nothing is indexed.
IndexEmptied ==
  phase = "emptied" =>
    rows = {} /\ (recorded # 0 => restored /\ recorded > latest /\ target = latest)

\* After its write a turn's version shows the turn's event.
IndexWritten ==
  turn # Nobody /\ turn.step # "write" => Index!Shows(rows, turn.version, turn.pos)

\* All of it, until an error that the code ignores has happened.
IndexFaith ==
  ~unsound => IndexEmpty /\ IndexAhead /\ IndexKept /\ IndexEmptied /\ IndexWritten

\* Every step keeps it, if the facade does not come back to a version that a
\* start has seen before.
LEMMA IndexFaithStep ==
  ASSUME Index!SearchIndexAssumption, ~Revisits, IndexInv, IndexFaith, IndexStep, IndexInv'
  PROVE  IndexFaith'
<1>a. MaxVersion \in Nat \ {0} /\ Len(Log) \in Nat /\ Index!Versions = 1 .. MaxVersion
  BY DEF Index!SearchIndexAssumption, Index!Versions
<1>t. /\ head \in Nat /\ latest \in Index!Versions /\ restored \in BOOLEAN
      /\ recorded \in Index!Versions \cup {0}
      /\ checkpoints \in [Index!Versions -> 0 .. head]
      /\ target \in Index!Versions \cup {0} /\ registered \subseteq Index!Versions
      /\ turn # Nobody => /\ turn \in Index!Turns /\ turn.version \in Index!Versions
                          /\ turn.pos \in Nat
      /\ turn # Nobody => phase = "up" /\ registered # {} /\ turn.pos <= head
      /\ registered # {} \/ phase = "emptied" => target \in Index!Versions
      /\ registered # {} => phase \in {"up", "purge"}
      /\ destroyed \subseteq Index!Erased
  <2>1. turn # Nobody => turn \in Index!Turns
    BY DEF IndexInv, IndexTyped, Index!TypeOK
  <2>2. turn # Nobody => turn.version \in Index!Versions /\ turn.pos \in Nat
    BY <2>1, <1>a DEF Index!Turns
  <2>3. head \in Nat
    BY <1>a DEF IndexInv, IndexTyped, Index!TypeOK
  <2>. QED
    BY <2>1, <2>2, <2>3 DEF IndexInv, IndexTyped, IndexStaged, Index!TypeOK
<1>n. /\ head' \in Nat /\ latest' \in Index!Versions /\ restored' \in BOOLEAN
      /\ recorded' \in Index!Versions \cup {0}
      /\ checkpoints' \in [Index!Versions -> 0 .. head']
      /\ registered' \subseteq Index!Versions
  BY <1>a DEF IndexInv, IndexTyped, Index!TypeOK
<1>h. head <= head'
  <2>1. head' = head + 1 \/ head' = head
    BY DEF IndexStep, Index!Next, Index!Startup, Index!Apply, Index!vars, Index!AppendEvent,
           Index!Rotate, Index!Restore, Index!Destroy, Index!Boot, Index!PurgeErased,
           Index!Empty, Index!Build, Index!Continue, Index!Rebuild, Index!SwitchAtStart,
           Index!Deliver, Index!Write, Index!Switch, Index!Retire, Index!Clear, Index!Save,
           Index!Stop, Index!LoseFile
  <2>. QED
    BY <2>1, <1>t
<1>. SUFFICES ASSUME ~unsound'
              PROVE  /\ IndexEmpty' /\ IndexAhead' /\ IndexKept'
                     /\ IndexEmptied' /\ IndexWritten'
  BY DEF IndexFaith
<1>u. ~unsound
  BY DEF IndexStep, Index!Next, Index!Startup, Index!Apply, Index!vars, Index!AppendEvent,
         Index!Rotate, Index!Restore, Index!Destroy, Index!Boot, Index!PurgeErased,
         Index!Empty, Index!Build, Index!Continue, Index!Rebuild, Index!SwitchAtStart,
         Index!Deliver, Index!Write, Index!Switch, Index!Retire, Index!Clear, Index!Save,
         Index!Stop, Index!LoseFile
<1>i. IndexEmpty /\ IndexAhead /\ IndexKept /\ IndexEmptied /\ IndexWritten
  BY <1>u DEF IndexFaith
<1>g. ASSUME NEW v \in Index!Versions, IndexGood(v), checkpoints'[v] = checkpoints[v],
             \A x \in rows' : x.version = v => x \in rows,
             \A x \in rows : x.version = v /\ x.subject \notin Index!Erased' => x \in rows'
      PROVE  IndexGood(v)'
  BY <1>g, <1>t, <1>n, <1>h, GoodStep
<1>f. ASSUME NEW v \in Index!Versions, IndexFresh(v), checkpoints'[v] = checkpoints[v],
             \A x \in rows' : x.version = v => x \in rows
      PROVE  IndexFresh(v)'
  BY <1>f DEF IndexFresh
<1>z. ASSUME NEW v \in Index!Versions, IndexFresh(v)'
      PROVE  IndexGood(v)'
  <2>1. Index!Wanted(v, 0) = {}
    BY DEF Index!Wanted, Index!LastPuts
  <2>2. Index!Shows(rows, v, 0)'
    BY <1>z, <2>1 DEF IndexFresh, Index!Shows
  <2>. QED
    BY <1>z, <1>n, <2>2 DEF IndexFresh, IndexGood
\* The rows and the positions stay.
<1>s. ASSUME rows' = rows, checkpoints' = checkpoints
      PROVE  /\ \A v \in Index!Versions : IndexGood(v) => IndexGood(v)'
             /\ \A v \in Index!Versions : IndexFresh(v) => IndexFresh(v)'
  BY <1>s, <1>g, <1>f
<1>k. ASSUME rows' = rows, turn' \in {turn, Nobody}
      PROVE  IndexWritten'
  <2>. SUFFICES ASSUME turn # Nobody, turn' = turn, turn.step # "write"
                PROVE  Index!Shows(rows, turn.version, turn.pos)'
    BY <1>k DEF IndexWritten
  <2>1. PICK v, p : v = turn.version /\ p = turn.pos
    OBVIOUS
  <2>2. Index!Shows(rows, v, p)'
    BY <1>i, <1>k, <1>t, <1>n, <1>h, <2>1, ShowsStep DEF IndexWritten
  <2>. QED
    BY <2>1, <2>2
\* What the parts say, with bounds a solver finds.
<1>j. /\ ~restored => recorded <= latest
      /\ ~restored /\ (phase = "emptied" \/ registered # {}) => target <= latest
      /\ \A v \in Index!Versions : ~restored /\ v > latest => IndexFresh(v)
  BY <1>i, <1>a, <1>t DEF IndexAhead
<1>l. /\ recorded # 0 /\ recorded <= latest => IndexGood(recorded) /\ IndexGood(latest)
      /\ \A v \in registered : IndexGood(v)
      /\ registered # {} /\ recorded <= latest => latest \in registered \/ IndexFresh(latest)
  BY <1>i, <1>a, <1>t DEF IndexKept
<1>A. ASSUME ~restored' => recorded' <= latest',
             ~restored' /\ (phase' = "emptied" \/ registered' # {}) => target' <= latest',
             \A v \in Index!Versions : ~restored' /\ v > latest' => IndexFresh(v)'
      PROVE  IndexAhead'
  BY <1>A DEF IndexAhead
<1>K. ASSUME recorded' # 0 /\ recorded' <= latest' => IndexGood(recorded)' /\ IndexGood(latest)',
             \A v \in registered' : IndexGood(v)',
             registered' # {} /\ recorded' <= latest'
               => latest' \in registered' \/ IndexFresh(latest)'
      PROVE  IndexKept'
  BY <1>K, <1>a, <1>n DEF IndexKept
<1>b. registered # {} =>
        /\ recorded \in registered /\ target \in registered
        /\ recorded # 0 /\ recorded <= target
        /\ \A v \in registered : v \in {recorded, target}
        /\ replaced # 0 => replaced \in Index!Versions /\ replaced < target
  BY <1>a, <1>t DEF IndexInv, IndexStaged
<1>q. ASSUME rows' = rows, checkpoints' = checkpoints, recorded' = recorded,
             latest' = latest, restored' = restored, target' = target,
             registered' \in {registered, {}}, phase' = "emptied" => phase = "emptied"
      PROVE  IndexEmpty' /\ IndexAhead' /\ IndexKept' /\ IndexEmptied'
  <2>1. IndexEmpty' /\ IndexEmptied'
    BY <1>q, <1>i DEF IndexEmpty, IndexEmptied
  <2>4. /\ \A v \in Index!Versions : IndexGood(v) => IndexGood(v)'
        /\ \A v \in Index!Versions : IndexFresh(v) => IndexFresh(v)'
    BY <1>q, <1>s
  <2>2. IndexAhead'
    BY <2>4, <1>q, <1>j, <1>A
  <2>3. IndexKept'
    <3>1. recorded' # 0 /\ recorded' <= latest' => IndexGood(recorded)' /\ IndexGood(latest)'
      BY <2>4, <1>q, <1>l, <1>a, <1>t
    <3>2. \A v \in registered' : IndexGood(v)'
      BY <2>4, <1>q, <1>l, <1>a, <1>t
    <3>3. registered' # {} /\ recorded' <= latest' => latest' \in registered' \/ IndexFresh(latest)'
      BY <2>4, <1>q, <1>l, <1>a, <1>t
    <3>. QED
      BY <3>1, <3>2, <3>3, <1>K
  <2>. QED
    BY <2>1, <2>2, <2>3
<1>1. CASE \/ Index!AppendEvent \/ Index!Boot \/ Index!Stop
           \/ \E s \in Index!Subjects : Index!Destroy(s)
           \/ \E v \in Index!Versions : Index!Deliver(v)
           \/ UNCHANGED Index!vars
  <2>1. /\ rows' = rows /\ checkpoints' = checkpoints /\ recorded' = recorded
        /\ latest' = latest /\ restored' = restored /\ target' = target
        /\ registered' \in {registered, {}}
        /\ phase' = "emptied" => phase = "emptied"
    BY <1>1 DEF Index!AppendEvent, Index!Boot, Index!Stop, Index!Destroy, Index!Deliver,
                Index!vars, Index!facade, Index!wiring
  <2>2. turn' \in {turn, Nobody} \/ turn'.step = "write"
    BY <1>1 DEF Index!AppendEvent, Index!Boot, Index!Stop, Index!Destroy, Index!Deliver,
                Index!vars
  <2>3. IndexWritten'
    BY <1>k, <2>1, <2>2 DEF IndexWritten
  <2>. QED
    BY <1>q, <2>1, <2>3
<1>2. CASE Index!Rotate
  <2>1. /\ rows' = rows /\ checkpoints' = checkpoints /\ recorded' = recorded
        /\ latest' = latest + 1 /\ restored' = restored /\ target' = target
        /\ registered' = registered /\ phase' = phase /\ turn' = turn
        /\ ~restored /\ latest' \in Index!Versions
    BY <1>2 DEF Index!Rotate, Index!wiring
  <2>2. PICK n \in Index!Versions : n = latest'
    BY <2>1
  <2>3. IndexFresh(n)'
    BY <2>1, <2>2, <1>j, <1>s, <1>t, <1>a
  <2>4. IndexGood(n)'
    BY <2>3, <1>z
  <2>5. IndexEmpty' /\ IndexEmptied'
    BY <2>1, <1>i DEF IndexEmpty, IndexEmptied
  <2>6. \A v \in Index!Versions : ~restored' /\ v > latest' => IndexFresh(v)'
    BY <2>1, <1>j, <1>s, <1>a, <1>t
  <2>7. IndexAhead'
    BY <2>1, <2>6, <1>A, <1>j, <1>a, <1>t
  <2>8. recorded' # 0 => IndexGood(recorded)'
    BY <2>1, <1>j, <1>l, <1>s, <1>t
  <2>9. \A v \in registered' : IndexGood(v)'
    BY <2>1, <1>l, <1>s, <1>t
  <2>10. IndexGood(latest)' /\ IndexFresh(latest)'
    BY <2>2, <2>3, <2>4
  <2>11. IndexKept'
    BY <2>8, <2>9, <2>10, <1>K
  <2>. QED
    BY <2>1, <2>5, <2>7, <2>11, <1>k
<1>3. CASE Index!Restore
  <2>1. /\ rows' = rows /\ checkpoints' = checkpoints /\ recorded' = recorded
        /\ latest' = latest - 1 /\ restored' /\ ~restored /\ target' = target
        /\ registered' = registered /\ phase' = phase /\ turn' = turn
        /\ ~(recorded \in 1 .. latest - 2)
    BY <1>3 DEF Index!Restore, Index!wiring
  <2>2. IndexEmpty' /\ IndexEmptied'
    BY <2>1, <1>i DEF IndexEmpty, IndexEmptied
  <2>3. IndexAhead'
    BY <2>1 DEF IndexAhead
  <2>4. recorded' # 0 /\ recorded' <= latest' => recorded' = latest' /\ recorded <= latest
    BY <2>1, <1>a, <1>t
  <2>5. recorded' # 0 /\ recorded' <= latest' => IndexGood(recorded)' /\ IndexGood(latest)'
    BY <2>1, <2>4, <1>l, <1>s, <1>t
  <2>6. \A v \in registered' : IndexGood(v)'
    BY <2>1, <1>l, <1>s, <1>t
  <2>7. registered' # {} /\ recorded' <= latest' => latest' \in registered'
    BY <2>1, <2>4, <1>b
  <2>8. IndexKept'
    BY <2>5, <2>6, <2>7, <1>K
  <2>. QED
    BY <2>1, <2>2, <2>3, <2>8, <1>k
<1>6. CASE Index!PurgeErased
  <2>1. /\ rows' \in {rows, Index!Purged} /\ checkpoints' = checkpoints
        /\ recorded' = recorded /\ latest' = latest /\ restored' = restored
        /\ target' = target /\ registered' \in {registered, {}}
        /\ phase' # "emptied" /\ turn = Nobody /\ turn' = turn
    BY <1>6, <1>t DEF Index!PurgeErased, Index!AfterPurge, Index!facade
  <2>2. Index!Erased \subseteq Index!Erased'
    BY <1>t, <1>n, <1>h, IndexErasedGrows
  <2>3. /\ \A x \in rows' : x \in rows
        /\ \A x \in rows : x.subject \notin Index!Erased' => x \in rows'
    BY <2>1, <2>2, <1>t DEF Index!Purged
  <2>4. \A v \in Index!Versions : IndexGood(v) => IndexGood(v)'
    BY <2>1, <2>3, <1>g
  <2>5. \A v \in Index!Versions : IndexFresh(v) => IndexFresh(v)'
    BY <2>1, <2>3, <1>f
  <2>6. IndexEmpty' /\ IndexEmptied' /\ IndexWritten'
    BY <2>1, <2>3, <1>i DEF IndexEmpty, IndexEmptied, IndexWritten
  <2>7. IndexAhead'
    BY <2>1, <2>5, <1>A, <1>j
  <2>8. recorded' # 0 /\ recorded' <= latest' => IndexGood(recorded)' /\ IndexGood(latest)'
    BY <2>1, <2>4, <1>l, <1>t
  <2>9. \A v \in registered' : IndexGood(v)'
    BY <2>1, <2>4, <1>l, <1>t
  <2>10. registered' # {} /\ recorded' <= latest'
           => latest' \in registered' \/ IndexFresh(latest)'
    BY <2>1, <2>5, <1>l, <1>t
  <2>. QED
    BY <2>6, <2>7, <2>8, <2>9, <2>10, <1>K
<1>7. CASE Index!Empty
  <2>1. /\ rows' = {} /\ checkpoints' = checkpoints /\ recorded' = recorded
        /\ latest' = latest /\ restored' = restored /\ target' = latest
        /\ registered' = registered /\ registered = {} /\ phase' = "emptied"
        /\ turn' = Nobody /\ (recorded = 0 \/ recorded > latest)
    BY <1>7, <1>t DEF Index!Empty, Index!NeedsBuild, Index!facade
  <2>2. \A v \in Index!Versions : IndexFresh(v) => IndexFresh(v)'
    BY <2>1, <1>f
  <2>3. IndexEmpty' /\ IndexWritten'
    BY <2>1, <1>i DEF IndexEmpty, IndexWritten
  <2>4. IndexEmptied'
    BY <2>1, <1>j, <1>t, <1>a DEF IndexEmptied
  <2>5. IndexAhead'
    BY <2>1, <2>2, <1>A, <1>j, <1>t, <1>a
  <2>6. ~(recorded' # 0 /\ recorded' <= latest')
    BY <2>1, <1>t, <1>a
  <2>. QED
    BY <2>1, <2>3, <2>4, <2>5, <2>6, <1>K
<1>8. CASE Index!Build
  <2>1. /\ rows = {} /\ rows' = rows /\ registered = {} /\ turn' = Nobody
        /\ latest' = latest /\ restored' = restored /\ target' = target
        /\ target \in Index!Versions /\ phase' # "emptied"
        /\ recorded # 0 => restored /\ recorded > latest /\ target = latest
    BY <1>8, <1>t, <1>i
       DEF Index!Build, Index!Serves, Index!Fails, Index!AfterRegister, Index!facade, IndexEmptied
  <2>2. checkpoints' = [v \in Index!Versions |->
                          IF v \in {recorded, target} THEN 0 ELSE checkpoints[v]]
    BY <1>8, <1>u DEF Index!Build
  <2>3. \/ recorded' = target /\ registered' = {target}
        \/ recorded' = recorded /\ registered' = {}
    BY <1>8, <2>1 DEF Index!Build, Index!Serves, Index!Fails
  <2>4. \A v \in Index!Versions : recorded = 0 \/ v = target => checkpoints'[v] = 0
    BY <2>2, <1>i DEF IndexEmpty
  <2>5. \A v \in Index!Versions : recorded = 0 \/ v = target => IndexFresh(v)'
    BY <2>1, <2>4 DEF IndexFresh
  <2>6. \A v \in Index!Versions : recorded = 0 \/ v = target => IndexGood(v)'
    BY <2>5, <1>z
  <2>7. recorded' = 0 => recorded = 0
    BY <2>1, <2>3, <1>a
  <2>8. IndexEmpty'
    BY <2>1, <2>4, <2>7 DEF IndexEmpty
  <2>9. IndexEmptied' /\ IndexWritten'
    BY <2>1 DEF IndexEmptied, IndexWritten
  <2>10. ~restored => recorded = 0 /\ target <= latest
    BY <2>1, <1>8, <1>j DEF Index!Build
  <2>11. IndexAhead'
    <3>1. ~restored' => recorded' <= latest'
      BY <2>1, <2>3, <2>10, <1>t, <1>a
    <3>2. \A v \in Index!Versions : ~restored' /\ v > latest' => IndexFresh(v)'
      BY <2>1, <2>5, <2>10
    <3>. QED
      BY <3>1, <3>2, <2>1, <2>10, <1>A
  <2>12. recorded' # 0 /\ recorded' <= latest' =>
           recorded' = target /\ (recorded = 0 \/ latest = target)
    BY <2>1, <2>3, <1>t, <1>a
  <2>13. recorded' # 0 /\ recorded' <= latest' => IndexGood(recorded)' /\ IndexGood(latest)'
    BY <2>1, <2>6, <2>12, <1>t
  <2>14. \A v \in registered' : IndexGood(v)'
    BY <2>1, <2>3, <2>6
  <2>15. registered' # {} /\ recorded' <= latest'
           => latest' \in registered' \/ IndexFresh(latest)'
    BY <2>1, <2>3, <2>5, <2>12, <1>t, <1>a
  <2>. QED
    BY <2>8, <2>9, <2>11, <2>13, <2>14, <2>15, <1>K
<1>9. CASE Index!Continue
  <2>1. /\ rows' \in {rows, Index!RowsAt({latest})} /\ checkpoints' = checkpoints
        /\ recorded = latest /\ recorded' = recorded /\ latest' = latest
        /\ restored' = restored /\ target' = latest /\ turn' = Nobody
        /\ registered' \in {{}, {latest}} /\ phase' # "emptied"
    BY <1>9, <1>t DEF Index!Continue, Index!Serves, Index!Fails, Index!AfterRegister, Index!facade
  <2>2. /\ \A x \in rows' : x \in rows
        /\ \A x \in rows : x.version = latest => x \in rows'
    BY <2>1 DEF Index!RowsAt
  <2>3. \A v \in Index!Versions : IndexFresh(v) => IndexFresh(v)'
    BY <2>1, <2>2, <1>f
  <2>4. PICK n \in Index!Versions : n = latest
    BY <1>t
  <2>5. IndexGood(n)'
    BY <2>1, <2>2, <2>4, <1>g, <1>l, <1>t, <1>a
  <2>6. IndexEmpty' /\ IndexEmptied' /\ IndexWritten'
    BY <2>1, <1>a, <1>t DEF IndexEmpty, IndexEmptied, IndexWritten
  <2>7. IndexAhead'
    BY <2>1, <2>3, <1>A, <1>j, <1>t, <1>a
  <2>8. IndexGood(latest)' /\ IndexGood(recorded)'
    BY <2>1, <2>4, <2>5
  <2>9. \A v \in registered' : IndexGood(v)'
    BY <2>1, <2>4, <2>5
  <2>. QED
    BY <2>1, <2>6, <2>7, <2>8, <2>9, <1>K
<1>10. CASE Index!Rebuild
  <2>1. /\ rows' = Index!RowsAt({recorded, latest}) /\ checkpoints' = checkpoints
        /\ recorded \in 1 .. latest - 1 /\ recorded' = recorded /\ latest' = latest
        /\ restored' = restored /\ target' = latest /\ turn' = Nobody
        /\ registered' = {recorded, latest} /\ phase' # "emptied"
    BY <1>10, <1>t
       DEF Index!Rebuild, Index!Rotated, Index!AfterRegister, Index!facade
  <2>2. /\ \A x \in rows' : x \in rows
        /\ \A x \in rows : x.version \in {recorded, latest} => x \in rows'
    BY <2>1 DEF Index!RowsAt
  <2>3. \A v \in Index!Versions : IndexFresh(v) => IndexFresh(v)'
    BY <2>1, <2>2, <1>f
  <2>5. recorded # 0 /\ recorded <= latest /\ recorded \in Index!Versions
    BY <2>1, <1>t, <1>a
  <2>4. ASSUME NEW v \in Index!Versions, v \in {recorded, latest}
        PROVE  IndexGood(v)'
    <3>1. IndexGood(v)
      BY <2>4, <2>5, <1>l
    <3>2. \A x \in rows : x.version = v => x \in rows'
      BY <2>4, <2>2
    <3>. QED
      BY <3>1, <3>2, <2>1, <2>2, <1>g
  <2>6. IndexEmpty' /\ IndexEmptied' /\ IndexWritten'
    BY <2>1, <2>5 DEF IndexEmpty, IndexEmptied, IndexWritten
  <2>7. IndexAhead'
    BY <2>1, <2>3, <2>5, <1>A, <1>j, <1>t, <1>a
  <2>8. IndexGood(latest)' /\ IndexGood(recorded)'
    BY <2>1, <2>4, <2>5, <1>t
  <2>9. \A v \in registered' : IndexGood(v)'
    BY <2>1, <2>4, <2>5, <1>t
  <2>. QED
    BY <2>1, <2>6, <2>7, <2>8, <2>9, <1>K
<1>11. CASE Index!SwitchAtStart
  <2>1. /\ recorded \in 1 .. latest - 1 /\ latest' = latest /\ registered = {}
        /\ restored' = restored /\ target' = latest /\ turn' = Nobody /\ phase' # "emptied"
    BY <1>11, <1>t
       DEF Index!SwitchAtStart, Index!Rotated, Index!Serves, Index!Fails, Index!AfterRegister,
           Index!facade
  <2>2. /\ \A x \in rows' : x \in rows
        /\ \A x \in rows : x.version = latest => x \in rows'
    BY <1>11 DEF Index!SwitchAtStart, Index!RowsAt
  <2>3. \/ /\ recorded' = latest /\ registered' = {latest}
           /\ checkpoints' \in {checkpoints, [checkpoints EXCEPT ![recorded] = 0]}
        \/ /\ recorded' \in {recorded, latest} /\ registered' = {}
           /\ checkpoints' = checkpoints
           /\ \A x \in rows : x.version = recorded => x \in rows'
    BY <1>11, <1>u, <2>1 DEF Index!SwitchAtStart, Index!Serves, Index!Fails, Index!RowsAt
  <2>4. \A v \in Index!Versions : v # recorded => checkpoints'[v] = checkpoints[v]
    BY <2>3, <1>t
  <2>5. recorded # 0 /\ recorded < latest /\ recorded \in Index!Versions
    BY <2>1, <1>t, <1>a
  <2>6. \A v \in Index!Versions : v # recorded /\ IndexFresh(v) => IndexFresh(v)'
    BY <2>2, <2>4, <1>f
  <2>7. PICK n \in Index!Versions : n = latest
    BY <1>t
  <2>8. IndexGood(n)'
    BY <2>2, <2>4, <2>5, <2>7, <1>g, <1>l, <1>t, <1>a
  <2>9. recorded' # latest => IndexGood(recorded)'
    <3>1. PICK m \in Index!Versions : m = recorded
      BY <2>5
    <3>2. CASE checkpoints' = checkpoints /\ \A x \in rows : x.version = recorded => x \in rows'
      BY <2>2, <2>3, <2>5, <3>1, <3>2, <1>g, <1>l, <1>t, <1>a
    <3>. QED
      BY <2>3, <3>2
  <2>10. IndexEmpty' /\ IndexEmptied' /\ IndexWritten'
    BY <2>1, <2>3, <2>5, <1>t, <1>a DEF IndexEmpty, IndexEmptied, IndexWritten
  <2>11. ASSUME NEW v \in Index!Versions, ~restored', v > latest'
         PROVE  IndexFresh(v)'
    <3>1. ~restored /\ v > latest
      BY <2>1, <2>11
    <3>2. IndexFresh(v)
      BY <3>1, <1>j
    <3>3. v # recorded
      BY <3>1, <2>5, <1>t, <1>a
    <3>. QED
      BY <3>2, <3>3, <2>6
  <2>12. IndexAhead'
    BY <2>1, <2>3, <2>5, <2>11, <1>A, <1>t, <1>a
  <2>13. IndexGood(latest)' /\ IndexGood(recorded)'
    BY <2>1, <2>7, <2>8, <2>9
  <2>14. \A v \in registered' : IndexGood(v)'
    BY <2>3, <2>7, <2>8
  <2>15. registered' # {} => latest' \in registered'
    BY <2>1, <2>3
  <2>. QED
    BY <2>10, <2>12, <2>13, <2>14, <2>15, <1>K
<1>13. CASE Index!Write
  <2>1. /\ turn # Nobody /\ turn.step = "write" /\ phase = "up"
        /\ recorded' = recorded /\ latest' = latest /\ restored' = restored
        /\ target' = target /\ registered' = registered /\ phase' = phase
        /\ checkpoints' = checkpoints /\ head' = head
    BY <1>13, <1>t DEF Index!Write, Index!At, Index!facade, Index!wiring
  <2>2. PICK w \in Index!Versions, p \in Nat : w = turn.version /\ p = turn.pos
    BY <2>1, <1>t
  <2>3. /\ w \in registered /\ registered # {} /\ p = checkpoints[w] + 1 /\ p <= head
        /\ (~turn.known => Log[p].subject \in destroyed)
    BY <2>1, <2>2, <1>t DEF IndexInv, IndexTurns
  <2>4. \/ rows' = rows /\ turn' = Nobody
        \/ Log[p].type = "put" /\ rows' = Index!Replaced
        \/ /\ Log[p].type = "erase"
           /\ rows' = {x \in rows : x.subject # Log[p].subject}
    BY <1>13, <2>2 DEF Index!Write, Index!Event
  <2>5. turn' = Nobody \/ (turn'.version = w /\ turn'.pos = p)
    BY <1>13, <2>1, <2>2, <1>t DEF Index!Write, Index!Goes, Index!Turns
  <2>6. IndexGood(w)
    BY <2>3, <1>l
  <2>7. (rows' = rows /\ turn' = Nobody) \/ Index!Shows(rows, w, p)'
    BY <2>1, <2>2, <2>3, <2>4, <2>6, <1>t, WriteShows
  <2>8. IndexWritten'
    <3>1. CASE rows' = rows /\ turn' = Nobody
      BY <3>1 DEF IndexWritten
    <3>2. CASE Index!Shows(rows, w, p)'
      BY <3>2, <2>5 DEF IndexWritten
    <3>. QED
      BY <2>7, <3>1, <3>2
  <2>9. IndexGood(w)'
    <3>1. CASE rows' = rows
      BY <3>1, <2>1, <2>6, <1>s
    <3>2. CASE Index!Shows(rows, w, p)'
      BY <3>2, <2>1, <2>3 DEF IndexGood
    <3>. QED
      BY <2>7, <3>1, <3>2
  <2>10. \A x \in rows' : x.version # w => x \in rows
    BY <2>2, <2>4 DEF Index!Replaced, Index!Event
  <2>11. \A x \in rows : x.version # w /\ x.subject \notin Index!Erased' => x \in rows'
    <3>1. Log[p].type = "erase" => Log[p].subject \in Index!Erased'
      <4>1. p \in 1 .. head /\ p \in DOMAIN Log
        <5>1. p \in 1 .. Len(Log)
          BY <2>2, <2>1, <1>t DEF Index!Turns
        <5>. QED
          BY <5>1, <2>3, <1>a, <1>t DEF Index!SearchIndexAssumption
      <4>. QED
        BY <4>1, <2>1 DEF Index!Erased
    <3>. QED
      BY <3>1, <2>2, <2>4 DEF Index!Replaced, Index!Event
  <2>12. \A v \in Index!Versions : v # w /\ IndexGood(v) => IndexGood(v)'
    BY <2>1, <2>10, <2>11, <1>g
  <2>13. \A v \in Index!Versions : v # w /\ IndexFresh(v) => IndexFresh(v)'
    BY <2>1, <2>10, <1>f
  <2>14. IndexEmpty' /\ IndexEmptied'
    BY <2>1, <2>3, <1>b DEF IndexEmpty, IndexEmptied
  <2>15. ~restored => w <= latest
    BY <2>3, <1>b, <1>j
  <2>16. \A v \in Index!Versions : ~restored' /\ v > latest' => IndexFresh(v)'
    BY <2>1, <2>13, <2>15, <1>j, <1>t, <1>a
  <2>17. IndexAhead'
    BY <2>1, <2>3, <2>16, <1>A, <1>j
  <2>18. \A v \in Index!Versions : IndexGood(v) => IndexGood(v)'
    BY <2>9, <2>12
  <2>19. recorded' # 0 /\ recorded' <= latest' => IndexGood(recorded)' /\ IndexGood(latest)'
    BY <2>1, <2>18, <1>l, <1>t
  <2>20. \A v \in registered' : IndexGood(v)'
    BY <2>1, <2>18, <1>l, <1>t
  <2>21. registered' # {} /\ recorded' <= latest'
           => latest' \in registered' \/ IndexFresh(latest)'
    BY <2>1, <2>3, <2>13, <1>l, <1>t
  <2>. QED
    BY <2>8, <2>14, <2>17, <2>19, <2>20, <2>21, <1>K
<1>14. CASE Index!Switch
  <2>1. /\ turn # Nobody /\ turn.step = "check" /\ phase = "up" /\ registered # {}
        /\ turn.version = target /\ replaced # 0
        /\ latest' = latest /\ restored' = restored /\ rows' = rows
        /\ target' = target /\ phase' = phase /\ checkpoints' = checkpoints
    BY <1>14, <1>t DEF Index!Switch, Index!At, Index!facade, IndexInv, IndexTurns
  <2>2. \/ recorded' = recorded /\ registered' = registered
        \/ recorded' = target /\ registered' = {target}
    BY <1>14 DEF Index!Switch
  <2>3. turn' = Nobody \/ (turn'.version = turn.version /\ turn'.pos = turn.pos)
    BY <1>14, <2>1, <1>t DEF Index!Switch, Index!Goes, Index!Turns
  <2>4. IndexWritten'
    <3>1. PICK v, p : v = turn.version /\ p = turn.pos
      OBVIOUS
    <3>2. Index!Shows(rows, v, p)
      BY <2>1, <3>1, <1>i DEF IndexWritten
    <3>3. Index!Shows(rows, v, p)'
      BY <2>1, <3>2, <1>t, <1>n, <1>h, ShowsStep
    <3>. QED
      BY <2>3, <3>1, <3>3 DEF IndexWritten
  <2>5. /\ \A v \in Index!Versions : IndexGood(v) => IndexGood(v)'
        /\ \A v \in Index!Versions : IndexFresh(v) => IndexFresh(v)'
    BY <2>1, <1>s
  <2>0. target # 0 /\ recorded # 0
    BY <2>1, <1>b, <1>a, <1>t
  <2>6. recorded' # 0 /\ registered' # {} /\ phase' # "emptied"
    BY <2>0, <2>1, <2>2
  <2>7. IndexEmpty' /\ IndexEmptied'
    BY <2>6 DEF IndexEmpty, IndexEmptied
  <2>8. IndexAhead'
    BY <2>1, <2>2, <2>5, <1>A, <1>j
  <2>9. recorded' <= latest' => recorded <= latest
    BY <2>1, <2>2, <1>b, <1>a, <1>t
  <2>10. \A v \in registered' : v \in registered
    BY <2>1, <2>2, <1>b
  <2>11. \A v \in registered' : IndexGood(v)'
    BY <2>5, <2>10, <1>l, <1>t
  <2>12. recorded' \in registered'
    BY <2>1, <2>2, <1>b
  <2>13. recorded' # 0 /\ recorded' <= latest' => IndexGood(recorded)' /\ IndexGood(latest)'
    <3>1. IndexGood(recorded)'
      BY <2>11, <2>12
    <3>. QED
      BY <3>1, <2>1, <2>5, <2>9, <1>l, <1>b, <1>t
  <2>14. recorded' <= latest' /\ latest \in registered => latest \in registered'
    <3>1. target \in Nat /\ latest \in Nat /\ recorded \in Nat
      BY <1>a, <1>t
    <3>2. latest \in registered => latest <= target
      BY <3>1, <2>1, <1>b
    <3>. QED
      BY <3>1, <3>2, <2>1, <2>2
  <2>15. registered' # {} /\ recorded' <= latest'
           => latest' \in registered' \/ IndexFresh(latest)'
    BY <2>1, <2>5, <2>9, <2>14, <1>l, <1>t
  <2>. QED
    BY <2>4, <2>7, <2>8, <2>11, <2>13, <2>15, <1>K
<1>15. CASE Index!Retire
  <2>1. /\ turn # Nobody /\ turn.step = "retire" /\ registered # {}
        /\ recorded = target /\ replaced # 0 /\ replaced < target
        /\ rows' = rows /\ recorded' = recorded /\ latest' = latest
        /\ restored' = restored /\ target' = target /\ registered' = registered
        /\ phase' = phase
    BY <1>15, <1>t, <1>b
       DEF Index!Retire, Index!At, Index!facade, Index!wiring, IndexInv, IndexTurns
  <2>2. \A v \in Index!Versions : v # replaced => checkpoints'[v] = checkpoints[v]
    BY <1>15, <1>t DEF Index!Retire
  <2>3. \A v \in Index!Versions : v # replaced /\ IndexGood(v) => IndexGood(v)'
    BY <2>1, <2>2, <1>g
  <2>4. \A v \in Index!Versions : v # replaced /\ IndexFresh(v) => IndexFresh(v)'
    BY <2>1, <2>2, <1>f
  <2>5. turn'.version = turn.version /\ turn'.pos = turn.pos
    BY <1>15, <2>1, <1>t DEF Index!Retire, Index!Goes, Index!Turns
  <2>6. IndexWritten'
    <3>1. PICK v, p : v = turn.version /\ p = turn.pos
      OBVIOUS
    <3>2. Index!Shows(rows, v, p)
      BY <2>1, <3>1, <1>i DEF IndexWritten
    <3>3. Index!Shows(rows, v, p)'
      BY <2>1, <3>2, <1>t, <1>n, <1>h, ShowsStep
    <3>. QED
      BY <2>5, <3>1, <3>3 DEF IndexWritten
  <2>7. recorded' # 0 /\ phase' # "emptied"
    BY <2>1, <1>b, <1>t
  <2>8. IndexEmpty' /\ IndexEmptied'
    BY <2>7 DEF IndexEmpty, IndexEmptied
  <2>9. target \in Nat /\ latest \in Nat /\ replaced \in Nat
    BY <2>1, <1>a, <1>b, <1>t
  <2>10. \A v \in Index!Versions : ~restored' /\ v > latest' => IndexFresh(v)'
    <3>1. \A v \in Index!Versions : v \in Nat
      BY <1>a
    <3>. QED
      BY <3>1, <2>1, <2>4, <2>9, <1>j
  <2>11. IndexAhead'
    BY <2>1, <2>10, <1>A, <1>j
  <2>12. registered = {target}
    BY <2>1, <1>a, <1>t DEF IndexInv, IndexStaged
  <2>13. \A v \in registered' : IndexGood(v)'
    BY <2>1, <2>3, <2>12, <2>9, <1>l, <1>t
  <2>14. recorded' <= latest' => latest # replaced /\ recorded # replaced
    BY <2>1, <2>9
  <2>15. recorded' # 0 /\ recorded' <= latest' => IndexGood(recorded)' /\ IndexGood(latest)'
    BY <2>1, <2>3, <2>14, <1>l, <1>t
  <2>16. registered' # {} /\ recorded' <= latest'
           => latest' \in registered' \/ IndexFresh(latest)'
    BY <2>1, <2>4, <2>14, <1>l, <1>t
  <2>. QED
    BY <2>6, <2>8, <2>11, <2>13, <2>15, <2>16, <1>K
<1>16. CASE Index!Clear
  <2>1. /\ turn # Nobody /\ turn.step = "clear" /\ registered # {}
        /\ recorded = target /\ turn.version = target
        /\ rows' \in {rows, Index!RowsAt({target})} /\ checkpoints' = checkpoints
        /\ recorded' = recorded /\ latest' = latest /\ restored' = restored
        /\ target' = target /\ registered' = registered /\ phase' = phase
    BY <1>16, <1>t DEF Index!Clear, Index!At, Index!facade, Index!wiring, IndexInv, IndexTurns
  <2>2. registered = {target}
    BY <2>1, <1>16, <1>t, <1>b, <1>a DEF IndexInv, IndexStaged, IndexTurns
  <2>3. /\ \A x \in rows' : x \in rows
        /\ \A x \in rows : x.version = target => x \in rows'
    BY <2>1 DEF Index!RowsAt
  <2>4. PICK w \in Index!Versions, p \in Nat : w = target /\ p = turn.pos
    BY <2>1, <1>t
  <2>5. IndexGood(w)'
    BY <2>1, <2>2, <2>3, <2>4, <1>g, <1>l
  <2>6. \A v \in Index!Versions : IndexFresh(v) => IndexFresh(v)'
    BY <2>1, <2>3, <1>f
  <2>7. turn' = Nobody \/ (turn'.version = w /\ turn'.pos = p)
    BY <1>16, <2>1, <2>4, <1>t DEF Index!Clear, Index!Goes, Index!Turns
  <2>8. IndexWritten'
    <3>1. Index!Shows(rows, w, p)
      BY <2>1, <2>4, <1>i DEF IndexWritten
    <3>2. Index!Shows(rows, w, p)'
      BY <3>1, <2>3, <2>4, <1>t, <1>n, <1>h, ShowsStep
    <3>. QED
      BY <2>7, <3>2 DEF IndexWritten
  <2>9. recorded' # 0 /\ phase' # "emptied"
    BY <2>1, <1>b, <1>t
  <2>10. IndexEmpty' /\ IndexEmptied'
    BY <2>9 DEF IndexEmpty, IndexEmptied
  <2>11. IndexAhead'
    BY <2>1, <2>6, <1>A, <1>j
  <2>12. \A v \in registered' : IndexGood(v)'
    BY <2>1, <2>2, <2>4, <2>5
  <2>13. registered' # {} /\ recorded' <= latest'
           => latest' \in registered' \/ IndexFresh(latest)'
    BY <2>1, <2>6, <1>l, <1>t
  <2>14. recorded' <= latest' => IndexGood(latest)'
    <3>1. PICK n \in Index!Versions : n = latest
      BY <1>t
    <3>2. recorded <= latest => n \in registered' \/ IndexFresh(n)'
      BY <2>1, <2>13, <3>1
    <3>3. recorded <= latest => IndexGood(n)'
      BY <3>1, <3>2, <2>12, <1>z
    <3>. QED
      BY <2>1, <3>1, <3>3
  <2>15. IndexGood(recorded)'
    BY <2>1, <2>4, <2>5
  <2>. QED
    BY <2>8, <2>10, <2>11, <2>12, <2>13, <2>14, <2>15, <1>K
<1>17. CASE Index!Save
  <2>1. /\ turn # Nobody /\ turn.step = "save" /\ phase = "up" /\ turn' = Nobody
        /\ recorded' = recorded /\ latest' = latest /\ restored' = restored
        /\ target' = target /\ registered' = registered /\ phase' = phase
        /\ rows' = rows /\ head' = head
    BY <1>17, <1>t DEF Index!Save, Index!At, Index!facade, Index!wiring
  <2>2. PICK w \in Index!Versions, p \in Nat : w = turn.version /\ p = turn.pos
    BY <2>1, <1>t
  <2>3. w \in registered /\ registered # {} /\ p <= head
    BY <2>1, <2>2, <1>t DEF IndexInv, IndexTurns
  <2>4. checkpoints' = checkpoints \/ checkpoints' = [checkpoints EXCEPT ![w] = p]
    BY <1>17, <2>2 DEF Index!Save
  <2>5. IndexGood(w)'
    <3>1. CASE checkpoints' = checkpoints
      BY <3>1, <2>1, <2>3, <1>s, <1>l
    <3>2. CASE checkpoints' = [checkpoints EXCEPT ![w] = p]
      <4>1. checkpoints'[w] = p
        BY <3>2, <1>t
      <4>2. Index!Shows(rows, w, p)
        BY <2>1, <2>2, <1>i DEF IndexWritten
      <4>3. Index!Shows(rows, w, p)'
        BY <4>2, <2>1, <1>t, <1>n, <1>h, ShowsStep
      <4>. QED
        BY <4>1, <4>3, <2>1, <2>3 DEF IndexGood
    <3>. QED
      BY <2>4, <3>1, <3>2
  <2>6. \A v \in Index!Versions : v # w => checkpoints'[v] = checkpoints[v]
    BY <2>4, <1>t
  <2>7. \A v \in Index!Versions : v # w /\ IndexGood(v) => IndexGood(v)'
    BY <2>1, <2>6, <1>g
  <2>8. \A v \in Index!Versions : v # w /\ IndexFresh(v) => IndexFresh(v)'
    BY <2>1, <2>6, <1>f
  <2>9. IndexEmpty' /\ IndexEmptied' /\ IndexWritten'
    BY <2>1, <2>3, <1>b DEF IndexEmpty, IndexEmptied, IndexWritten
  <2>10. ~restored => w <= latest
    BY <2>3, <1>b, <1>j
  <2>11. \A v \in Index!Versions : ~restored' /\ v > latest' => IndexFresh(v)'
    <3>1. latest \in Nat /\ w \in Nat /\ \A v \in Index!Versions : v \in Nat
      BY <1>a, <1>t
    <3>2. \A v \in Index!Versions : ~restored /\ v > latest => v # w
      BY <3>1, <2>10
    <3>3. \A v \in Index!Versions : ~restored /\ v > latest => IndexFresh(v)
      BY <1>j
    <3>4. \A v \in Index!Versions : ~restored /\ v > latest => IndexFresh(v)'
      BY <3>2, <3>3, <2>8
    <3>. QED
      BY <3>4, <2>1
  <2>12. IndexAhead'
    BY <2>1, <2>3, <2>11, <1>A, <1>j
  <2>13. \A v \in Index!Versions : IndexGood(v) => IndexGood(v)'
    BY <2>5, <2>7
  <2>14. recorded' # 0 /\ recorded' <= latest' => IndexGood(recorded)' /\ IndexGood(latest)'
    BY <2>1, <2>13, <1>l, <1>t
  <2>15. \A v \in registered' : IndexGood(v)'
    BY <2>1, <2>13, <1>l, <1>t
  <2>16. registered' # {} /\ recorded' <= latest'
           => latest' \in registered' \/ IndexFresh(latest)'
    BY <2>1, <2>3, <2>8, <1>l, <1>t
  <2>. QED
    BY <2>9, <2>12, <2>14, <2>15, <2>16, <1>K
<1>19. CASE Index!LoseFile
  <2>1. /\ rows' = {} /\ checkpoints' = [v \in Index!Versions |-> 0] /\ recorded' = 0
        /\ latest' = latest /\ restored' = restored /\ target' = target
        /\ registered' = registered /\ registered = {} /\ phase' = "down" /\ turn' = Nobody
    BY <1>19, <1>t DEF Index!LoseFile, Index!facade, Index!wiring
  <2>2. \A v \in Index!Versions : IndexFresh(v)'
    BY <2>1 DEF IndexFresh
  <2>3. IndexEmpty' /\ IndexEmptied' /\ IndexWritten'
    BY <2>1 DEF IndexEmpty, IndexEmptied, IndexWritten
  <2>4. IndexAhead'
    BY <2>1, <2>2, <1>A, <1>t, <1>a
  <2>. QED
    BY <2>1, <2>3, <2>4, <1>K
<1>. QED
  BY <1>1, <1>2, <1>3, <1>6, <1>7, <1>8, <1>9, <1>10, <1>11, <1>13, <1>14, <1>15, <1>16,
     <1>17, <1>19 DEF IndexStep, Index!Next, Index!Startup, Index!Apply

\* It holds always.
LEMMA IndexFaithAlways ==
  ASSUME Index!SearchIndexAssumption, ~Revisits
  PROVE  Index!Spec => []IndexFaith
<1>1. Index!Init => IndexFaith
  BY DEF Index!Init, IndexFaith, IndexEmpty, IndexAhead, IndexKept, IndexEmptied, IndexWritten,
         IndexFresh
<1>2. IndexInv /\ IndexFaith /\ IndexStep /\ IndexInv' => IndexFaith'
  BY IndexFaithStep
<1>. QED
  BY <1>1, <1>2, IndexAlways, PTL DEF Index!Spec, IndexStep

\* Register, the rebuild and the switch-over (searchindex/index.go) never leave a
\* registered index with a part of what its position says, for any script, any
\* number of versions, rotations, stops and faults.
THEOREM IndexIsFaithful ==
  ASSUME Index!SearchIndexAssumption, ~Revisits
  PROVE  Index!Spec => []IndexFaithful
<1>1. IndexFaith => IndexFaithful
  BY IndexSame DEF IndexFaith, IndexKept, IndexGood, Index!IndexFaithful
<1>. QED
  BY <1>1, IndexFaithAlways, PTL

\* A step that moves searches to a newer version moves them to an index that is
\* as far as the old one was.
LEMMA SwitchStep ==
  ASSUME Index!SearchIndexAssumption, IndexInv, IndexFaith, IndexStep, IndexInv',
         recorded # 0, recorded' > recorded, ~unsound'
  PROVE  \E q \in checkpoints[recorded] .. head : Index!Shows(rows', recorded', q)
<1>a. MaxVersion \in Nat \ {0} /\ Index!Versions = 1 .. MaxVersion
  BY DEF Index!SearchIndexAssumption, Index!Versions
<1>t. /\ head \in Nat /\ latest \in Index!Versions /\ recorded \in Index!Versions \cup {0}
      /\ checkpoints \in [Index!Versions -> 0 .. head]
      /\ turn # Nobody => turn \in Index!Turns /\ registered # {} /\ turn.pos <= head
      /\ registered # {} \/ phase = "emptied" => target \in Index!Versions
  <2>1. head \in Nat
    BY DEF IndexInv, IndexTyped, Index!TypeOK, Index!SearchIndexAssumption
  <2>. QED
    BY <2>1 DEF IndexInv, IndexTyped, Index!TypeOK
<1>0. recorded' # recorded /\ ~unsound
  <2>1. recorded \in Nat
    BY <1>t, <1>a
  <2>2. unsound => unsound'
    BY DEF IndexStep, Index!Next, Index!Startup, Index!Apply, Index!vars, Index!AppendEvent,
           Index!Rotate, Index!Restore, Index!Destroy, Index!Boot, Index!PurgeErased,
           Index!Empty, Index!Build, Index!Continue, Index!Rebuild, Index!SwitchAtStart,
           Index!Deliver, Index!Write, Index!Switch, Index!Retire, Index!Clear, Index!Save,
           Index!Stop, Index!LoseFile
  <2>. QED
    BY <2>1, <2>2
<1>1. CASE Index!Switch
  <2>1. /\ turn # Nobody /\ turn.step = "check" /\ turn.pos >= checkpoints[replaced]
        /\ recorded' = target /\ rows' = rows /\ unsound' = unsound
    BY <1>1, <1>0 DEF Index!Switch, Index!At
  <2>2. turn.version = target /\ replaced # 0 /\ turn.pos \in Nat /\ target # recorded
    BY <2>1, <1>t, <1>a DEF IndexInv, IndexTurns, Index!Turns
  <2>3. recorded = replaced
    BY <2>1, <2>2, <1>t DEF IndexInv, IndexStaged
  <2>4. Index!Shows(rows, turn.version, turn.pos)
    BY <2>1, <1>0 DEF IndexFaith, IndexWritten
  <2>5. turn.pos \in checkpoints[recorded] .. head
    BY <2>1, <2>2, <2>3, <1>t
  <2>. QED
    BY <2>1, <2>2, <2>4, <2>5
<1>2. CASE Index!SwitchAtStart
  <2>1. /\ recorded \in 1 .. latest - 1 /\ unsound' = unsound
        /\ checkpoints[latest] >= checkpoints[recorded]
        /\ recorded' = latest
        /\ \A x : x.version = latest => (x \in rows' <=> x \in rows)
    BY <1>2, <1>0 DEF Index!SwitchAtStart, Index!Rotated, Index!RowsAt
  <2>2. PICK q \in {checkpoints[latest], checkpoints[latest] + 1} :
           q <= head /\ Index!Shows(rows, latest, q)
    BY <2>1, <1>0, <1>t, <1>a DEF IndexFaith, IndexKept, IndexGood
  <2>3. Index!Shows(rows', latest, q)
    BY <2>1, <2>2 DEF Index!Shows
  <2>4. checkpoints[latest] \in Nat /\ checkpoints[recorded] \in Nat
    BY <1>t
  <2>5. q \in checkpoints[recorded] .. head
    BY <2>1, <2>2, <2>4, <1>t
  <2>. QED
    BY <2>1, <2>3, <2>5
<1>3. CASE Index!Build
  <2>1. unsound' = unsound /\ phase = "emptied" /\ recorded' = target
    BY <1>3, <1>0 DEF Index!Build, Index!Fails
  <2>2. recorded > latest /\ target = latest
    BY <2>1, <1>0 DEF IndexFaith, IndexEmptied
  <2>. QED
    BY <2>1, <2>2, <1>t, <1>a
<1>4. CASE recorded' \in {recorded, 0}
  BY <1>4, <1>t, <1>a
<1>. QED
  <2>1. recorded' \in {recorded, 0} \/ Index!Switch \/ Index!SwitchAtStart \/ Index!Build
    BY DEF IndexStep, Index!Next, Index!Startup, Index!Apply, Index!vars, Index!AppendEvent,
           Index!Rotate, Index!Restore, Index!Destroy, Index!Boot, Index!PurgeErased,
           Index!Empty, Index!Build, Index!Continue, Index!Rebuild, Index!SwitchAtStart,
           Index!Deliver, Index!Write, Index!Switch, Index!Retire, Index!Clear, Index!Save,
           Index!Stop, Index!LoseFile
  <2>. QED
    BY <2>1, <1>1, <1>2, <1>3, <1>4

\* onApplied and the switch at startup wait for the rebuild: no row that could be
\* found stops being found.
THEOREM IndexSwitchKeepsUp ==
  ASSUME Index!SearchIndexAssumption, ~Revisits
  PROVE  Index!Spec => SwitchKeepsUp
<1>1. IndexInv /\ IndexFaith /\ IndexStep /\ IndexInv' =>
        (recorded # 0 /\ recorded' > recorded /\ ~unsound' =>
           \E q \in checkpoints[recorded] .. head : Shows(rows', recorded', q))
  BY SwitchStep, IndexSame
<1>2. IndexStep <=> [Index!Next]_(Index!vars)
  BY DEF IndexStep
<1>. QED
  BY <1>1, <1>2, IndexAlways, IndexFaithAlways, PTL DEF Index!Spec, SwitchKeepsUp

-----------------------------------------------------------------------------
(* An erased subject leaves every version.                                 *)

\* The subjects erased in the first q events.
Erasures(q) == {Log[n].subject : n \in {k \in 1 .. q : Log[k].type = "erase"}}

\* No value of a subject is appended after the subject's erasure: the hypothesis
\* under which an index that is past the erasure has seen all its values.
NothingFollows ==
  \A p, q \in DOMAIN Log :
    p < q /\ Log[p].type = "erase" /\ Log[q].type = "put" => Log[q].subject # Log[p].subject

\* More events erase no fewer subjects.
LEMMA ErasuresGrow ==
  ASSUME NEW q \in Nat, NEW r \in Nat, q <= r
  PROVE  Erasures(q) \subseteq Erasures(r)
BY DEF Erasures

\* One more event erases at most its own subject.
LEMMA ErasuresNext ==
  ASSUME NEW q \in Nat
  PROVE  \A s \in Erasures(q + 1) :
           s \in Erasures(q) \/ (Log[q + 1].type = "erase" /\ s = Log[q + 1].subject)
BY DEF Erasures

\* A put is of a subject that no earlier event erases.
LEMMA PutIsNotErased ==
  ASSUME Index!SearchIndexAssumption, NothingFollows,
         NEW q \in Nat, q + 1 <= Len(Log), Log[q + 1].type = "put"
  PROVE  Log[q + 1].subject \notin Erasures(q)
<1>1. \A n \in 1 .. q + 1 : n \in DOMAIN Log
  BY DEF Index!SearchIndexAssumption
<1>. QED
  BY <1>1 DEF Erasures, NothingFollows

\* No version's rows are of subjects erased up to its position, nor, after its
\* write, of the subject the event of a turn erases.
IndexClear ==
  /\ \A x \in rows : x.subject \notin Erasures(checkpoints[x.version])
  /\ turn # Nobody /\ turn.step # "write" /\ Log[turn.pos].type = "erase" =>
       \A x \in rows : x.subject # Log[turn.pos].subject

\* Every row is of a registered version or of the one a rebuild has replaced.
IndexOwned ==
  /\ phase = "emptied" => rows = {}
  /\ registered # {} => \A x \in rows : x.version \in registered \/ x.version = replaced

\* A rebuild that has not taken over is behind the live index, also after the
\* event it is about to save.
IndexBehind ==
  /\ registered # {} /\ replaced # 0 /\ ~spent => checkpoints[target] < checkpoints[replaced]
  /\ turn # Nobody /\ replaced # 0 /\ ~spent =>
       (turn.step = "save" /\ turn.version = target => turn.pos < checkpoints[replaced])

\* Rows the replaced index has left are not of subjects erased up to the
\* position of the index that replaced it.
IndexLeft ==
  registered # {} /\ replaced # 0 /\ recorded = target =>
    \A x \in rows : x.version = replaced => x.subject \notin Erasures(checkpoints[target])

\* What makes ErasedGone inductive.
IndexClean == IndexClear /\ IndexOwned /\ IndexBehind /\ IndexLeft

\* Every step keeps it.
LEMMA IndexCleanStep ==
  ASSUME Index!SearchIndexAssumption, NothingFollows, IndexInv, IndexClean, IndexStep
  PROVE  IndexClean'
<1>a. MaxVersion \in Nat \ {0} /\ Len(Log) \in Nat /\ Index!Versions = 1 .. MaxVersion
  BY DEF Index!SearchIndexAssumption, Index!Versions
<1>t. /\ head \in Nat /\ latest \in Index!Versions /\ recorded \in Index!Versions \cup {0}
      /\ \A v \in Index!Versions : checkpoints[v] \in Nat
      /\ DOMAIN checkpoints = Index!Versions
      /\ rows \subseteq Index!IndexRows
      /\ turn # Nobody => turn \in Index!Turns /\ phase = "up" /\ registered # {}
      /\ turn # Nobody => turn.version \in Index!Versions /\ turn.pos \in Nat
      /\ turn # Nobody => turn.pos <= Len(Log) /\ turn.pos >= 1
      /\ registered # {} => target \in Index!Versions
  <2>1. head \in Nat
    BY <1>a DEF IndexInv, IndexTyped, Index!TypeOK
  <2>. QED
    BY <2>1, <1>a DEF IndexInv, IndexTyped, Index!TypeOK, Index!Turns
<1>r. \A x \in rows : x.version \in Index!Versions
  BY <1>t DEF Index!IndexRows
<1>s. registered # {} /\ replaced # 0 =>
        /\ replaced \in Index!Versions /\ replaced # target
        /\ registered \subseteq {replaced, target}
        /\ recorded = target => registered = {target} /\ spent
  BY <1>a, <1>t DEF IndexInv, IndexStaged
<1>e. \A q, r \in Nat : q <= r => Erasures(q) \subseteq Erasures(r)
  BY ErasuresGrow
<1>1. ASSUME rows' \subseteq rows, checkpoints' = checkpoints, registered' \in {registered, {}},
             target' = target, replaced' = replaced, recorded' = recorded,
             spent' = spent \/ spent', turn' \in {turn, Nobody}, phase' # "emptied" \/ rows' = {}
      PROVE  IndexClean'
  BY <1>1 DEF IndexClean, IndexClear, IndexOwned, IndexBehind, IndexLeft
<1>2. ASSUME rows' \subseteq rows, phase' # "emptied" \/ rows' = {}, turn' = Nobody,
             \A v \in Index!Versions : checkpoints'[v] \in Nat /\ checkpoints'[v] <= checkpoints[v],
             \/ registered' = {}
             \/ replaced' = 0 /\ \A x \in rows' : x.version \in registered'
      PROVE  IndexClean'
  <2>1. \A x \in rows' : x.subject \notin Erasures(checkpoints'[x.version])
    <3>. SUFFICES ASSUME NEW x \in rows'
                  PROVE  x.subject \notin Erasures(checkpoints'[x.version])
      OBVIOUS
    <3>1. x \in rows /\ x.version \in Index!Versions
      BY <1>2, <1>r
    <3>2. Erasures(checkpoints'[x.version]) \subseteq Erasures(checkpoints[x.version])
      BY <1>2, <1>t, <1>e, <3>1
    <3>. QED
      BY <3>1, <3>2 DEF IndexClean, IndexClear
  <2>. QED
    BY <1>2, <2>1 DEF IndexClean, IndexClear, IndexOwned, IndexBehind, IndexLeft
<1>i. phase = "register" \/ phase = "emptied" \/ phase = "down" => registered = {} /\ turn = Nobody
  BY <1>t DEF IndexInv, IndexStaged
<1>3. CASE \/ Index!AppendEvent \/ Index!Rotate \/ Index!Restore
           \/ \E s \in Index!Subjects : Index!Destroy(s)
           \/ UNCHANGED Index!vars
  <2>1. /\ rows' = rows /\ checkpoints' = checkpoints /\ registered' = registered
        /\ target' = target /\ replaced' = replaced /\ recorded' = recorded
        /\ spent' = spent /\ turn' = turn /\ phase' = phase
    BY <1>3 DEF Index!AppendEvent, Index!Rotate, Index!Restore, Index!Destroy, Index!vars,
       Index!wiring
  <2>. QED
    BY <2>1, <1>1 DEF IndexClean, IndexOwned
<1>4. CASE Index!Boot \/ Index!PurgeErased \/ Index!Stop
  <2>1. /\ rows' \subseteq rows /\ checkpoints' = checkpoints
        /\ registered' \in {registered, {}} /\ phase' # "emptied"
        /\ target' = target /\ replaced' = replaced /\ recorded' = recorded
        /\ spent' = spent /\ turn' \in {turn, Nobody}
    BY <1>4 DEF Index!Boot, Index!PurgeErased, Index!Stop, Index!wiring, Index!Purged,
       Index!AfterPurge
  <2>. QED
    BY <2>1, <1>1
<1>5. CASE Index!Empty
  <2>1. rows' = {} /\ turn' = Nobody /\ registered' = {} /\ checkpoints' = checkpoints
    BY <1>5, <1>i DEF Index!Empty
  <2>. QED
    BY <2>1, <1>2, <1>t
<1>6. CASE Index!Build
  <2>1. rows = {} /\ rows' = {} /\ turn' = Nobody
    BY <1>6, <1>i DEF Index!Build, IndexClean, IndexOwned
  <2>2. registered' = {} \/ replaced' = 0
    BY <1>6, <1>i DEF Index!Build, Index!Serves, Index!Fails
  <2>3. \A v \in Index!Versions : checkpoints'[v] \in Nat /\ checkpoints'[v] <= checkpoints[v]
    BY <1>6, <1>t DEF Index!Build
  <2>. QED
    BY <2>1, <2>2, <2>3, <1>2
<1>7. CASE Index!Continue
  <2>1. /\ turn' = Nobody /\ checkpoints' = checkpoints /\ rows' \subseteq rows
        /\ phase' # "emptied"
    BY <1>7, <1>i DEF Index!Continue, Index!RowsAt, Index!Serves, Index!Fails, Index!AfterRegister
  <2>2. \/ registered' = {}
        \/ replaced' = 0 /\ registered' = {latest} /\ rows' = Index!RowsAt({latest})
    BY <1>7, <1>i DEF Index!Continue, Index!Serves, Index!Fails
  <2>. QED
    BY <2>1, <2>2, <1>2, <1>t DEF Index!RowsAt
<1>8. CASE Index!Rebuild
  <2>1. /\ turn' = Nobody /\ checkpoints' = checkpoints
        /\ recorded' = recorded /\ replaced' = recorded /\ target' = latest
        /\ registered' = {recorded, latest} /\ phase' # "emptied"
        /\ rows' = Index!RowsAt({recorded, latest})
        /\ checkpoints[latest] < checkpoints[recorded] /\ recorded # latest
    BY <1>8, <1>i, <1>t, <1>a DEF Index!Rebuild, Index!Rotated, Index!AfterRegister
  <2>2. rows' \subseteq rows /\ \A x \in rows' : x.version \in registered'
    BY <2>1 DEF Index!RowsAt
  <2>. QED
    BY <2>1, <2>2 DEF IndexClean, IndexClear, IndexOwned, IndexBehind, IndexLeft
<1>9. CASE Index!SwitchAtStart
  <2>1. /\ turn' = Nobody /\ rows' \subseteq rows /\ phase' # "emptied"
    BY <1>9, <1>i
       DEF Index!SwitchAtStart, Index!Rotated, Index!RowsAt, Index!Serves, Index!Fails,
           Index!AfterRegister
  <2>2. \A v \in Index!Versions : checkpoints'[v] \in Nat /\ checkpoints'[v] <= checkpoints[v]
    BY <1>9, <1>t DEF Index!SwitchAtStart
  <2>3. \/ registered' = {}
        \/ replaced' = 0 /\ registered' = {latest} /\ rows' = Index!RowsAt({latest})
    BY <1>9, <1>i DEF Index!SwitchAtStart, Index!Rotated, Index!Serves, Index!Fails
  <2>. QED
    BY <2>1, <2>2, <2>3, <1>2 DEF Index!RowsAt
<1>10. ASSUME NEW v \in Index!Versions, Index!Deliver(v)
       PROVE  IndexClean'
  <2>1. /\ turn'.step = "write"
        /\ rows' = rows /\ checkpoints' = checkpoints /\ registered' = registered
        /\ target' = target /\ replaced' = replaced /\ recorded' = recorded
        /\ spent' = spent /\ phase' = phase
    BY <1>10 DEF Index!Deliver, Index!wiring
  <2>. QED
    BY <2>1 DEF IndexClean, IndexClear, IndexOwned, IndexBehind, IndexLeft
<1>11. CASE Index!LoseFile
  <2>1. rows' = {} /\ turn' = Nobody /\ registered' = {}
    BY <1>11, <1>i DEF Index!LoseFile, Index!wiring
  <2>2. \A v \in Index!Versions : checkpoints'[v] \in Nat /\ checkpoints'[v] <= checkpoints[v]
    BY <1>11, <1>t DEF Index!LoseFile
  <2>. QED
    BY <2>1, <2>2, <1>2
<1>. DEFINE Step(s) == turn'.step = s /\ turn'.pos = turn.pos /\ turn'.version = turn.version
<1>g. ASSUME turn # Nobody, NEW s \in {"write", "check", "retire", "clear", "save"}, Index!Goes(s)
      PROVE  Step(s)
  BY <1>g, <1>t DEF Index!Goes, Index!Turns
<1>w. ASSUME turn # Nobody
      PROVE  /\ turn.version \in registered
             /\ turn.pos = checkpoints[turn.version] + 1
             /\ turn.step \in {"check", "retire", "clear"} => turn.version = target /\ replaced # 0
             /\ turn.step \in {"retire", "clear"} => recorded = target
  BY <1>w DEF IndexInv, IndexTurns
<1>. HIDE DEF Step
<1>12. CASE Index!Write
  <2>1. turn # Nobody /\ turn.step = "write"
    BY <1>12 DEF Index!Write, Index!At
  <2>2. /\ checkpoints' = checkpoints /\ registered' = registered /\ phase' = phase
        /\ target' = target /\ replaced' = replaced /\ recorded' = recorded /\ spent' = spent
    BY <1>12 DEF Index!Write, Index!wiring
  <2>3. \/ turn' = Nobody
        \/ Step("check")
        \/ Step("save") /\ ~(turn.version = target /\ replaced # 0)
    BY <1>12, <1>g, <2>1 DEF Index!Write
  <2>4. IndexBehind'
    BY <2>2, <2>3 DEF IndexClean, IndexBehind, Step
  <2>5. CASE rows' = rows /\ turn' = Nobody
    BY <2>2, <2>5, <1>1 DEF IndexClean, IndexOwned
  <2>6. CASE /\ Log[turn.pos].type = "erase"
             /\ rows' = {x \in rows : x.subject # Log[turn.pos].subject}
    <3>1. rows' \subseteq rows /\ \A x \in rows' : x.subject # Log[turn.pos].subject
      BY <2>6
    <3>2. IndexClear'
      BY <3>1, <2>2, <2>3 DEF IndexClean, IndexClear, Step
    <3>3. IndexOwned' /\ IndexLeft'
      BY <3>1, <2>2 DEF IndexClean, IndexOwned, IndexLeft
    <3>. QED
      BY <2>4, <3>2, <3>3 DEF IndexClean
  <2>7. CASE Log[turn.pos].type = "put" /\ rows' = Index!Replaced
    <3>1. \A x \in rows' :
             x \in rows \/ (x.version = turn.version /\ x.subject = Log[turn.pos].subject)
      BY <2>7 DEF Index!Replaced, Index!Event
    <3>2. PICK q \in Nat : q = checkpoints[turn.version]
      BY <2>1, <1>t
    <3>3. turn.pos = q + 1 /\ turn.version \in registered
      BY <2>1, <3>2, <1>w
    <3>4. Log[turn.pos].subject \notin Erasures(checkpoints[turn.version])
      BY <2>1, <2>7, <3>2, <3>3, <1>t, PutIsNotErased
    <3>5. IndexClear'
      BY <3>1, <3>4, <2>1, <2>2, <2>3, <2>7 DEF IndexClean, IndexClear, Step
    <3>6. IndexOwned'
      BY <3>1, <3>3, <2>1, <2>2, <1>t DEF IndexClean, IndexOwned
    <3>7. IndexLeft'
      BY <3>1, <3>3, <2>1, <2>2, <1>s DEF IndexClean, IndexLeft
    <3>. QED
      BY <2>4, <3>5, <3>6, <3>7 DEF IndexClean
  <2>. QED
    BY <1>12, <2>5, <2>6, <2>7 DEF Index!Write, Index!Event
<1>13. CASE Index!Switch
  <2>1. /\ turn # Nobody /\ turn.step = "check" /\ turn.version = target /\ replaced # 0
        /\ turn.pos = checkpoints[target] + 1 /\ registered # {}
    BY <1>13, <1>w, <1>t DEF Index!Switch, Index!At
  <2>2. /\ rows' = rows /\ checkpoints' = checkpoints /\ phase' = phase
        /\ target' = target /\ replaced' = replaced
    BY <1>13 DEF Index!Switch
  <2>3. CASE turn' = Nobody /\ registered' = registered /\ recorded' = recorded
             /\ (spent' = spent \/ spent')
    BY <2>2, <2>3, <1>1 DEF IndexClean, IndexOwned
  <2>4. CASE /\ Step("save") /\ registered' = registered /\ recorded' = recorded
             /\ spent' = spent /\ (turn.pos < checkpoints[replaced] \/ spent)
    BY <2>1, <2>2, <2>4 DEF IndexClean, IndexClear, IndexOwned, IndexBehind, IndexLeft, Step
  <2>5. CASE /\ Step("retire") /\ registered' = {target} /\ recorded' = target
             /\ ~spent /\ spent'
    <3>1. checkpoints[target] \in Nat /\ checkpoints[replaced] \in Nat
      BY <2>1, <1>s, <1>t
    <3>2. checkpoints[target] < checkpoints[replaced]
      BY <2>1, <2>5 DEF IndexClean, IndexBehind
    <3>3. Erasures(checkpoints[target]) \subseteq Erasures(checkpoints[replaced])
      BY <3>1, <3>2, <1>e
    <3>4. IndexLeft'
      BY <2>2, <3>3 DEF IndexClean, IndexClear, IndexLeft
    <3>5. IndexOwned'
      BY <2>1, <2>2, <2>5, <1>s DEF IndexClean, IndexOwned
    <3>6. IndexClear' /\ IndexBehind'
      BY <2>1, <2>2, <2>5 DEF IndexClean, IndexClear, IndexBehind, Step
    <3>. QED
      BY <3>4, <3>5, <3>6 DEF IndexClean
  <2>. QED
    BY <1>13, <1>g, <2>1, <2>3, <2>4, <2>5 DEF Index!Switch
<1>14. CASE Index!Retire
  <2>1. /\ turn # Nobody /\ turn.step = "retire" /\ replaced # 0 /\ recorded = target
        /\ registered # {}
    BY <1>14, <1>w, <1>t DEF Index!Retire, Index!At
  <2>2. /\ rows' = rows /\ phase' = phase /\ target' = target /\ replaced' = replaced
        /\ registered' = registered /\ recorded' = recorded /\ spent' = spent
    BY <1>14 DEF Index!Retire, Index!wiring
  <2>3. spent /\ replaced # target /\ Step("clear")
    BY <1>14, <2>1, <1>s, <1>g DEF Index!Retire
  <2>4. \A v \in Index!Versions : checkpoints'[v] \in Nat /\ checkpoints'[v] <= checkpoints[v]
    BY <1>14, <1>t DEF Index!Retire
  <2>5. checkpoints'[target] = checkpoints[target]
    BY <1>14, <2>1, <2>3, <1>t DEF Index!Retire
  <2>6. \A x \in rows' : x.subject \notin Erasures(checkpoints'[x.version])
    <3>. SUFFICES ASSUME NEW x \in rows'
                  PROVE  x.subject \notin Erasures(checkpoints'[x.version])
      OBVIOUS
    <3>1. x \in rows /\ x.version \in Index!Versions
      BY <2>2, <1>r
    <3>2. Erasures(checkpoints'[x.version]) \subseteq Erasures(checkpoints[x.version])
      BY <2>4, <1>t, <1>e, <3>1
    <3>. QED
      BY <3>1, <3>2 DEF IndexClean, IndexClear
  <2>7. IndexClear'
    BY <2>1, <2>2, <2>3, <2>6 DEF IndexClean, IndexClear, Step
  <2>8. IndexOwned' /\ IndexBehind' /\ IndexLeft'
    BY <2>2, <2>3, <2>5 DEF IndexClean, IndexOwned, IndexBehind, IndexLeft
  <2>. QED
    BY <2>7, <2>8 DEF IndexClean
<1>15. CASE Index!Clear
  <2>1. /\ turn # Nobody /\ turn.step = "clear" /\ replaced # 0 /\ recorded = target
        /\ registered # {}
    BY <1>15, <1>w, <1>t DEF Index!Clear, Index!At
  <2>2. /\ rows' \subseteq rows /\ phase' = phase /\ target' = target /\ replaced' = replaced
        /\ registered' = registered /\ recorded' = recorded /\ spent' = spent
        /\ checkpoints' = checkpoints
    BY <1>15 DEF Index!Clear, Index!wiring, Index!RowsAt
  <2>3. spent /\ (turn' = Nobody \/ Step("save"))
    BY <1>15, <2>1, <1>s, <1>g DEF Index!Clear
  <2>. QED
    BY <2>1, <2>2, <2>3 DEF IndexClean, IndexClear, IndexOwned, IndexBehind, IndexLeft, Step
<1>16. CASE Index!Save
  <2>1. turn # Nobody /\ turn.step = "save" /\ turn' = Nobody /\ registered # {}
    BY <1>16, <1>t DEF Index!Save, Index!At
  <2>2. /\ rows' = rows /\ phase' = phase /\ target' = target /\ replaced' = replaced
        /\ registered' = registered /\ recorded' = recorded /\ spent' = spent
    BY <1>16 DEF Index!Save, Index!wiring
  <2>3. PICK w \in Index!Versions, q \in Nat : w = turn.version /\ q = checkpoints[w]
    BY <2>1, <1>t
  <2>4. turn.pos = q + 1 /\ w \in registered
    BY <2>1, <2>3, <1>w
  <2>5. CASE checkpoints' = checkpoints
    BY <2>1, <2>2, <2>5, <1>1 DEF IndexClean, IndexOwned
  <2>6. CASE checkpoints' = [checkpoints EXCEPT ![w] = q + 1]
    <3>1. /\ checkpoints'[w] = q + 1
          /\ \A v \in Index!Versions : v # w => checkpoints'[v] = checkpoints[v]
      BY <2>6, <1>t
    <3>2. \A x \in rows : x.subject \in Erasures(q + 1) => x.subject \in Erasures(q)
      BY <2>1, <2>4, ErasuresNext DEF IndexClean, IndexClear
    <3>3. \A x \in rows' : x.subject \notin Erasures(checkpoints'[x.version])
      <4>. SUFFICES ASSUME NEW x \in rows'
                    PROVE  x.subject \notin Erasures(checkpoints'[x.version])
        OBVIOUS
      <4>1. x \in rows /\ x.version \in Index!Versions
        BY <2>2, <1>r
      <4>2. x.subject \notin Erasures(checkpoints[x.version])
        BY <4>1 DEF IndexClean, IndexClear
      <4>3. CASE x.version = w
        BY <4>1, <4>2, <4>3, <3>1, <3>2, <2>3
      <4>4. CASE x.version # w
        BY <4>1, <4>2, <4>4, <3>1
      <4>. QED
        BY <4>3, <4>4
    <3>4. IndexClear' /\ IndexOwned'
      BY <3>3, <2>1, <2>2 DEF IndexClean, IndexClear, IndexOwned
    <3>5. ASSUME replaced # 0, ~spent
          PROVE  checkpoints'[target] < checkpoints'[replaced]
      <4>1. /\ checkpoints[target] < checkpoints[replaced] /\ w \in {target, replaced}
            /\ target \in Index!Versions /\ replaced \in Index!Versions /\ replaced # target
        BY <3>5, <2>1, <2>4, <1>s, <1>t DEF IndexClean, IndexBehind
      <4>2. CASE w = target
        <5>1. q + 1 < checkpoints[replaced]
          BY <3>5, <2>1, <2>3, <2>4, <4>2 DEF IndexClean, IndexBehind
        <5>. QED
          BY <5>1, <4>1, <4>2, <3>1
      <4>3. CASE w = replaced
        <5>1. checkpoints'[target] = checkpoints[target] /\ checkpoints'[replaced] = q + 1
          BY <4>1, <4>3, <3>1
        <5>2. checkpoints[target] \in Nat /\ checkpoints[replaced] = q
          BY <4>1, <4>3, <2>3, <1>t
        <5>. QED
          BY <5>1, <5>2, <4>1
      <4>. QED
        BY <4>1, <4>2, <4>3
    <3>6. IndexBehind'
      BY <3>5, <2>1, <2>2 DEF IndexBehind
    <3>7. ASSUME replaced # 0, recorded = target
          PROVE  \A x \in rows : x.version = replaced =>
                   x.subject \notin Erasures(checkpoints'[target])
      <4>1. w = target
        BY <3>7, <2>1, <2>4, <1>s
      <4>. QED
        BY <4>1, <3>1, <3>2, <3>7, <2>1, <2>3 DEF IndexClean, IndexLeft
    <3>8. IndexLeft'
      BY <3>7, <2>1, <2>2 DEF IndexLeft
    <3>. QED
      BY <3>4, <3>6, <3>8 DEF IndexClean
  <2>. QED
    BY <1>16, <2>3, <2>4, <2>5, <2>6 DEF Index!Save
<1>. QED
  BY <1>3, <1>4, <1>5, <1>6, <1>7, <1>8, <1>9, <1>10, <1>11, <1>12, <1>13, <1>14, <1>15, <1>16
     DEF IndexStep, Index!Next, Index!Startup, Index!Apply

\* DeleteSubjects clears every version (searchindex/index.go): once every
\* registered index is past an erasure no row of its subject is left, whatever a
\* rebuild or a retired index wrote meanwhile.
THEOREM IndexErasedGone ==
  ASSUME Index!SearchIndexAssumption, NothingFollows
  PROVE  Index!Spec => []ErasedGone
<1>1. Index!Init => IndexClean
  BY DEF Index!Init, IndexClean, IndexClear, IndexOwned, IndexBehind, IndexLeft
<1>2. IndexInv /\ IndexClean /\ IndexStep => IndexClean'
  BY IndexCleanStep
<1>3. IndexInv /\ IndexClean => ErasedGone
  <2>. SUFFICES ASSUME IndexInv, IndexClean, phase = "up",
                       NEW p \in 1 .. head, Log[p].type = "erase",
                       \A v \in registered : checkpoints[v] >= p,
                       NEW x \in rows
                PROVE  x.subject # Log[p].subject
    BY DEF ErasedGone
  <2>1. /\ registered # {} /\ head \in Nat /\ registered \subseteq Index!Versions
        /\ \A v \in registered : checkpoints[v] \in Nat
    <3>1. head \in Nat
      BY DEF IndexInv, IndexTyped, Index!TypeOK, Index!SearchIndexAssumption
    <3>. QED
      BY <3>1 DEF IndexInv, IndexTyped, IndexStaged, Index!TypeOK
  <2>2. \A v \in registered : Log[p].subject \in Erasures(checkpoints[v])
    BY <2>1 DEF Erasures
  <2>3. CASE x.version \in registered
    BY <2>2, <2>3 DEF IndexClean, IndexClear
  <2>4. CASE x.version = replaced /\ x.version \notin registered
    <3>1. x.version # 0
      <4>1. x.version \in Index!Versions
        BY DEF IndexInv, IndexTyped, Index!TypeOK, Index!IndexRows
      <4>. QED
        BY <4>1 DEF Index!Versions, Index!SearchIndexAssumption
    <3>2. recorded = target /\ registered = {target}
      BY <2>1, <2>4, <3>1 DEF IndexInv, IndexStaged
    <3>. QED
      BY <2>1, <2>2, <2>4, <3>1, <3>2 DEF IndexClean, IndexLeft
  <2>. QED
    BY <2>1, <2>3, <2>4 DEF IndexClean, IndexOwned
<1>. QED
  BY <1>1, <1>2, <1>3, IndexAlways, PTL DEF Index!Spec, IndexStep
=============================================================================
