--------------------------- MODULE BatchingProofs ---------------------------
(***************************************************************************)
(* What TLAPS proves of Batching, for every decider, window size and       *)
(* number of commands, faults and crashes.                                 *)
(*                                                                         *)
(* The argument is about the log as it would be if the window committed    *)
(* now, log \o staged.  While every stream the window has touched is still *)
(* as long as it was when the window first loaded it (OnTime), that log is *)
(* numbered, the overlay shows its streams, and each staged command was    *)
(* decided on exactly the events before its own.  Once a direct append     *)
(* moves one of these streams OnTime is false for good, and so is the      *)
(* validation pass of the commit.                                          *)
(***************************************************************************)
EXTENDS Batching, EventLogTheorems

InQueue(c) == \E i \in DOMAIN queue : queue[i] = c

InBatch(c) == \E k \in DOMAIN batch : batch[k].cmd = c

\* No later row has to wait for c.
Dealt(c) == PositionsOf(c) # {} \/ ~InOrder(c)

OwnRows(l) ==
  \A p \in DOMAIN l : l[p].by \in Commands /\ l[p].stream = Target[l[p].by]

LogInv == Contiguous(log) /\ OwnRows(log) /\ AppliedSerially

\* A command has one row, written before any of its events.
QueueInv ==
  /\ \A i, j \in DOMAIN queue : queue[i] = queue[j] => i = j
  /\ \A c \in Queued :
       /\ InQueue(c) => req[c] \notin {"new", "admitted"}
       /\ PositionsOf(c) # {} => InQueue(c)
       /\ at[c] <= Len(log)
       /\ \A p \in PositionsOf(c) : at[c] < p
  /\ \A c \in Direct : req[c] = "new" => PositionsOf(c) = {}

IdleInv ==
  phase = "idle" =>
    /\ todo = {} /\ batch = << >> /\ staged = << >>
    /\ overlay = [s \in Streams |-> << >>]

-----------------------------------------------------------------------------
(* While the window is decided.                                            *)

\* What is still to be decided has no events.
TodoInv == \A i \in todo : PositionsOf(queue[i]) = {}

\* A decided command has its row before those to be decided, its events staged
\* and none of them in the log.
BatchInv ==
  \A k \in DOMAIN batch :
    LET c == batch[k].cmd
    IN /\ InQueue(c) /\ PositionsOf(c) = {}
       /\ Holds(staged, c, batch[k].types)
       /\ \A i \in DOMAIN queue, j \in todo : queue[i] = c => i < j

\* Nothing else is staged, and all in the order of the queue.
StagedInv ==
  /\ OwnRows(staged)
  /\ \A c \in Commands : RowsOf(staged, c) # {} => InBatch(c)
  /\ \A i, j \in DOMAIN queue :
       i < j => \A p \in RowsOf(staged, queue[i]), q \in RowsOf(staged, queue[j]) :
                  p < q

\* Each stream of the window was loaded for the first of its entries, and has
\* only grown since.
LoadedInv ==
  \A k \in DOMAIN batch :
    /\ \E j \in DOMAIN batch :
         /\ Earlier(batch, j) = {}
         /\ Target[batch[j].cmd] = Target[batch[k].cmd]
    /\ Earlier(batch, k) = {} =>
         batch[k].expected <= Length(log, Target[batch[k].cmd])

UntouchedInv ==
  \A s \in Streams :
    (\A k \in DOMAIN batch : Target[batch[k].cmd] # s) =>
      overlay[s] = << >> /\ StreamOf(staged, s) = {}

\* The streams of the window are where it found them.
OnTime ==
  \A k \in DOMAIN batch :
    Earlier(batch, k) = {} =>
      batch[k].expected = Length(log, Target[batch[k].cmd])

\* c was decided on what log has and the first base staged rows add to it.
DecidedAt(c, base) ==
  LET before == log \o SubSeq(staged, 1, base)
      d      == Decide(c, History(before, Target[c]))
  IN /\ Numbered(before, Target[c])
     /\ d \in Seq(Types)
     /\ RowsOf(staged, c) = base + 1 .. base + Len(d)
     /\ \A i \in 1 .. Len(d) : staged[base + i].type = d[i]

CandidateInv ==
  OnTime =>
    /\ \A s \in Streams :
         /\ Numbered(log \o staged, s)
         /\ History(log \o staged, s) = OverlayHistory(s)
    /\ \A c \in Commands :
         RowsOf(staged, c) # {} => \E base \in 0 .. Len(staged) - 1 : DecidedAt(c, base)

\* Nothing older than what the window holds is left out of it.
LeftInv ==
  \A i, j \in DOMAIN queue :
    i < j /\ (j \in todo \/ InBatch(queue[j])) =>
      i \in todo \/ InBatch(queue[i]) \/ Dealt(queue[i])

DecideInv ==
  phase = "decide" =>
    /\ TodoInv /\ BatchInv /\ StagedInv /\ LoadedInv /\ UntouchedInv
    /\ CandidateInv /\ LeftInv

-----------------------------------------------------------------------------
(* After the commit, and for good.                                         *)

SignalInv ==
  phase = "signal" =>
    \A k \in DOMAIN batch :
      LET c == batch[k].cmd
      IN /\ batch[k].types = << >> => c \in unchanged
         /\ Holds(log, c, batch[k].types)
         /\ k \notin todo => verdicts[c] # {}

DoneInv == \A c \in done : Dealt(c)

OrderInv ==
  \A i, j \in DOMAIN queue :
    i < j /\ PositionsOf(queue[j]) # {} => Dealt(queue[i])

IInv == /\ LogInv /\ QueueInv /\ IdleInv /\ DecideInv /\ SignalInv
        /\ DoneInv /\ OrderInv
        /\ AcknowledgedIsDurable /\ DoneIsSettled /\ QueueOrder

-----------------------------------------------------------------------------
(* Types.                                                                  *)

LEMMA QueuedCommand ==
  ASSUME NEW c \in Queued
  PROVE  c \in Commands /\ Target[c] \in Streams
  BY CommandsAssumption DEF Queued

LEMMA OutcomeKinds ==
  /\ [kind |-> "rejected"] \in Outcomes /\ [kind |-> "failed"] \in Outcomes
  /\ \A d \in Seq(Types) : [kind |-> "ok", types |-> d] \in Outcomes
  BY DEF Outcomes

LEMMA OutcomeKind ==
  ASSUME NEW v \in Outcomes
  PROVE  /\ v.kind \in {"ok", "rejected", "failed"}
         /\ v.kind = "ok" => v.types \in Seq(Types)
  BY DEF Outcomes

\* The sequence a command is decided at is a number, whatever the log is like.
LEMMA OverlayLength ==
  ASSUME TypeOK, NEW s \in Streams
  PROVE  /\ Len(OverlayHistory(s)) = Length(log, s) + Len(overlay[s])
         /\ Len(OverlayHistory(s)) \in Nat
<1>1. PICK h, o : h = History(log, s) /\ o = overlay[s]
  OBVIOUS
<1>2. PICK n : n = Length(log, s)
  OBVIOUS
<1>3. n \in Nat /\ Len(h) = n
  BY <1>1, <1>2, StreamFinite, HistoryLength DEF TypeOK
<1>4. PICK S : S = {h[p] : p \in 1 .. n} \cup Types
  OBVIOUS
<1>5. h \in Seq(S)
  <2>1. DOMAIN h = 1 .. n /\ h = [p \in 1 .. n |-> h[p]]
    BY <1>1, <1>2 DEF History
  <2>2. h \in [1 .. n -> S]
    BY <1>4, <2>1
  <2> QED
    BY <1>3, <2>2, SeqDef
<1>6. o \in Seq(S) /\ Len(o) \in Nat
  <2>1. o \in Seq(Types)
    BY <1>1 DEF TypeOK
  <2>2. Len(o) \in Nat /\ o \in [1 .. Len(o) -> Types]
    BY <2>1, LenProperties
  <2>3. o \in [1 .. Len(o) -> S]
    BY <1>4, <2>2
  <2> QED
    BY <2>2, <2>3, SeqDef
<1>7. Len(h \o o) = Len(h) + Len(o)
  BY <1>5, <1>6, ConcatProperties
<1> QED
  BY <1>1, <1>2, <1>3, <1>6, <1>7 DEF OverlayHistory

LEMMA InitTypeOK == Init => TypeOK
<1> SUFFICES ASSUME Init PROVE TypeOK
  OBVIOUS
<1>1. /\ << >> \in Seq(Events) /\ << >> \in Seq(Queued)
      /\ << >> \in Seq(DecidedCommands) /\ << >> \in Seq(Types)
  BY EmptySeq
<1>2. 0 \in 0 .. MaxFaults
  BY BatchingAssumption
<1> QED
  BY <1>1, <1>2 DEF Init, TypeOK

LEMMA SignalType ==
  ASSUME TypeOK, NEW c \in Queued, NEW v \in Outcomes, Signal(c, v)
  PROVE  /\ waiters' \subseteq Queued
         /\ channel' \in [Queued -> Outcomes \cup {Nothing}]
         /\ verdicts' \in [Queued -> SUBSET Outcomes]
  BY DEF TypeOK, Signal

LEMMA FaultType ==
  ASSUME TypeOK, Fault \/ UNCHANGED faults
  PROVE  faults' \in 0 .. MaxFaults
  BY BatchingAssumption DEF TypeOK, Fault

LEMMA MarkType ==
  ASSUME TypeOK, NEW cs \in SUBSET Queued, MarkDone(cs)
  PROVE  done' \subseteq Queued /\ faults' \in 0 .. MaxFaults
  BY FaultType DEF TypeOK, MarkDone

\* The next row to decide is one of the queue's.
LEMMA NextRow ==
  ASSUME TypeOK, phase = "decide", NEW i \in todo
  PROVE  /\ i \in DOMAIN queue /\ queue[i] \in Queued
         /\ queue[i] \in Commands /\ Target[queue[i]] \in Streams
         /\ todo \ {i} \subseteq DOMAIN queue
<1>1. i \in DOMAIN queue /\ todo \ {i} \subseteq DOMAIN queue
  BY DEF TypeOK
<1>2. queue[i] \in Queued
  BY <1>1 DEF TypeOK
<1> QED
  BY <1>1, <1>2, QueuedCommand

LEMMA BatchEntry ==
  ASSUME TypeOK, NEW k \in DOMAIN batch
  PROVE  /\ batch[k].cmd \in Queued
         /\ batch[k].cmd \in Commands /\ Target[batch[k].cmd] \in Streams
         /\ batch[k].types \in Seq(Types)
         /\ batch[k].expected \in Nat
<1>1. batch \in Seq(DecidedCommands)
  BY DEF TypeOK
<1>2. batch[k] \in DecidedCommands
  BY <1>1
<1>3. /\ batch[k].cmd \in Queued /\ batch[k].types \in Seq(Types)
      /\ batch[k].expected \in Nat
  BY <1>2 DEF DecidedCommands
<1> QED
  BY <1>3, QueuedCommand

LEMMA ReturnType ==
  ASSUME TypeOK, Return
  PROVE  /\ phase' = "idle" /\ todo' \subseteq DOMAIN queue'
         /\ batch' \in Seq(DecidedCommands)
         /\ overlay' \in [Streams -> Seq(Types)]
         /\ staged' \in Seq(Events)
<1>1. /\ << >> \in Seq(Events) /\ << >> \in Seq(DecidedCommands)
      /\ << >> \in Seq(Types)
  BY EmptySeq
<1> QED
  BY <1>1 DEF Return

\* What joining the batch does to it.
LEMMA JoinType ==
  ASSUME TypeOK, NEW c \in Queued, NEW d \in Seq(Types), Join(c, d)
  PROVE  /\ batch' \in Seq(DecidedCommands)
         /\ overlay' \in [Streams -> Seq(Types)]
         /\ staged' \in Seq(Events)
<1>1. PICK s, n : s = Target[c] /\ n = Len(OverlayHistory(s))
  OBVIOUS
<1>2. c \in Commands /\ s \in Streams /\ n \in Nat
  BY <1>1, QueuedCommand, OverlayLength
<1>3. /\ batch' = Append(batch, [cmd |-> c, types |-> d, expected |-> n])
      /\ overlay' = [overlay EXCEPT ![s] = overlay[s] \o d]
      /\ staged' = Appended(staged, c, d, n)
  BY <1>1 DEF Join
<1>4. [cmd |-> c, types |-> d, expected |-> n] \in DecidedCommands
  BY <1>2 DEF DecidedCommands
<1>5. batch' \in Seq(DecidedCommands)
  BY <1>3, <1>4, AppendProperties DEF TypeOK
<1>6. overlay[s] \o d \in Seq(Types)
  BY <1>2, ConcatProperties DEF TypeOK
<1>7. overlay' \in [Streams -> Seq(Types)]
  BY <1>3, <1>6 DEF TypeOK
<1>8. staged' \in Seq(Events)
  BY <1>2, <1>3, AppendedEntries DEF TypeOK
<1> QED
  BY <1>5, <1>7, <1>8

LEMMA StepTypeOK == TypeOK /\ [Next]_vars => TypeOK'
<1> SUFFICES ASSUME TypeOK, [Next]_vars PROVE TypeOK'
  OBVIOUS
<1> USE DEF store, durable, gateway, writer, history
<1>1. ASSUME NEW c \in Queued, Admit(c) PROVE TypeOK'
  <2>1. Len(log) \in Nat
    BY LenProperties DEF TypeOK
  <2>2. /\ at' \in [Queued -> Nat]
        /\ req' \in [Commands -> {"new", "admitted", "queued", "waiting"} \cup Ended]
    BY <1>1, <2>1, QueuedCommand DEF TypeOK, Admit, Ended
  <2> QED
    BY <1>1, <2>2 DEF TypeOK, Admit
<1>2. ASSUME NEW c \in Queued, EnqueueFails(c) PROVE TypeOK'
  BY <1>2, FaultType, QueuedCommand DEF TypeOK, EnqueueFails, Ended
<1>3. ASSUME NEW c \in Queued, EnqueueCommand(c) PROVE TypeOK'
  <2>1. queue' \in Seq(Queued) /\ DOMAIN queue \subseteq DOMAIN queue'
    BY <1>3, AppendProperties, LenProperties DEF TypeOK, EnqueueCommand
  <2> QED
    BY <1>3, <2>1, QueuedCommand DEF TypeOK, EnqueueCommand
<1>4. ASSUME NEW c \in Queued, RegisterWaiter(c) PROVE TypeOK'
  BY <1>4, QueuedCommand DEF TypeOK, RegisterWaiter
<1>5. ASSUME NEW c \in Queued, Receive(c) PROVE TypeOK'
  <2>1. channel[c] \in Outcomes
    BY <1>5 DEF TypeOK, Receive
  <2>2. channel[c].kind \in Ended
    BY <2>1, OutcomeKind DEF Ended
  <2> QED
    BY <1>5, <2>2, QueuedCommand DEF TypeOK, Receive
<1>6. ASSUME NEW c \in Queued, BatchTimeout(c) PROVE TypeOK'
  BY <1>6, FaultType, QueuedCommand DEF TypeOK, BatchTimeout, Ended
<1>7. CASE Begin
  <2>1. Window \subseteq DOMAIN queue /\ AlreadyApplied \subseteq Window
    BY DEF Window, Pending, AlreadyApplied
  <2>2. \A rows \in SUBSET AlreadyApplied : CommandsAt(rows) \subseteq Queued
    BY <2>1 DEF TypeOK, CommandsAt
  <2>3. done' \subseteq Queued
    BY <1>7, <2>2 DEF TypeOK, Begin
  <2>4. faults' \in 0 .. MaxFaults
    BY <1>7, FaultType DEF Begin
  <2> QED
    BY <1>7, <2>1, <2>3, <2>4 DEF TypeOK, Begin
<1>8. CASE ResumeFails
  <2>1. \A rows \in SUBSET AlreadyApplied : CommandsAt(rows) \subseteq Queued
    <3>1. AlreadyApplied \subseteq DOMAIN queue
      BY DEF Window, Pending, AlreadyApplied
    <3>2. \A i \in DOMAIN queue : queue[i] \in Queued
      BY DEF TypeOK
    <3> QED
      BY <3>1, <3>2 DEF CommandsAt
  <2>2. done' \subseteq Queued /\ faults' \in 0 .. MaxFaults
    BY <1>8, <2>1, FaultType DEF TypeOK, ResumeFails
  <2> QED
    BY <1>8, <2>2 DEF TypeOK, ResumeFails
<1>9. CASE DecideAccepts
  <2>1. PICK i \in todo :
          LET c == queue[i]
              d == Decide(c, OverlayHistory(Target[c]))
          IN /\ phase = "decide"
             /\ d \in Seq(Types)
             /\ Join(c, d)
             /\ todo' = todo \ {i}
             /\ UNCHANGED <<store, durable, gateway, phase, history, faults>>
    BY <1>9 DEF DecideAccepts
  <2>2. queue[i] \in Queued /\ todo' \subseteq DOMAIN queue
    BY <2>1, NextRow
  <2>3. /\ batch' \in Seq(DecidedCommands)
        /\ overlay' \in [Streams -> Seq(Types)]
        /\ staged' \in Seq(Events)
    BY <2>1, <2>2, JoinType
  <2> QED
    BY <2>1, <2>2, <2>3 DEF TypeOK
<1>10. CASE DecideRejects
  <2>1. PICK i \in todo :
          /\ phase = "decide"
          /\ Signal(queue[i], [kind |-> "rejected"])
          /\ MarkDone({queue[i]})
          /\ todo' = todo \ {i}
          /\ UNCHANGED <<store, queue, at, req, phase, batch, overlay, staged,
                         unchanged>>
    BY <1>10 DEF DecideRejects
  <2>2. queue[i] \in Queued /\ todo' \subseteq DOMAIN queue
    BY <2>1, NextRow
  <2>3. /\ waiters' \subseteq Queued
        /\ channel' \in [Queued -> Outcomes \cup {Nothing}]
        /\ verdicts' \in [Queued -> SUBSET Outcomes]
    BY <2>1, <2>2, SignalType, OutcomeKinds
  <2>4. done' \subseteq Queued /\ faults' \in 0 .. MaxFaults
    BY <2>1, <2>2, MarkType
  <2> QED
    BY <2>1, <2>2, <2>3, <2>4 DEF TypeOK
<1>11. CASE DecideFails
  <2>1. PICK i \in todo :
          /\ phase = "decide"
          /\ Fault
          /\ Signal(queue[i], [kind |-> "failed"])
          /\ done' \subseteq done \cup {queue[i]}
          /\ todo' = todo \ {i}
          /\ UNCHANGED <<store, queue, at, req, phase, batch, overlay, staged,
                         unchanged>>
    BY <1>11 DEF DecideFails
  <2>2. queue[i] \in Queued /\ todo' \subseteq DOMAIN queue
    BY <2>1, NextRow
  <2>3. /\ waiters' \subseteq Queued
        /\ channel' \in [Queued -> Outcomes \cup {Nothing}]
        /\ verdicts' \in [Queued -> SUBSET Outcomes]
    BY <2>1, <2>2, SignalType, OutcomeKinds
  <2> QED
    BY <2>1, <2>2, <2>3, FaultType DEF TypeOK
<1>12. CASE CommitBatch
  <2>1. log' \in Seq(Events)
    BY <1>12, ConcatProperties DEF TypeOK, CommitBatch
  <2>2. \A j \in DOMAIN batch : batch[j].cmd \in Queued
    BY BatchEntry
  <2>3. unchanged' \subseteq Queued
    BY <1>12, <2>2 DEF TypeOK, CommitBatch
  <2> QED
    BY <1>12, <2>1, <2>3 DEF TypeOK, CommitBatch
<1>13. CASE CommitRefused
  BY <1>13, ReturnType, FaultType DEF TypeOK, CommitRefused
<1>14. CASE EmptyWindow
  BY <1>14, ReturnType DEF TypeOK, EmptyWindow
<1>15. CASE SignalCommitted
  <2>1. PICK i \in todo :
          /\ phase = "signal"
          /\ Signal(batch[i].cmd, [kind |-> "ok", types |-> batch[i].types])
          /\ todo' = todo \ {i}
          /\ UNCHANGED <<store, durable, req, phase, batch, overlay, staged,
                         unchanged, faults>>
    BY <1>15 DEF SignalCommitted
  <2>2. i \in DOMAIN batch
    BY <2>1 DEF TypeOK
  <2>3. batch[i].cmd \in Queued /\ batch[i].types \in Seq(Types)
    BY <2>2, BatchEntry
  <2>4. /\ waiters' \subseteq Queued
        /\ channel' \in [Queued -> Outcomes \cup {Nothing}]
        /\ verdicts' \in [Queued -> SUBSET Outcomes]
    BY <2>1, <2>3, SignalType, OutcomeKinds
  <2> QED
    BY <2>1, <2>4 DEF TypeOK
<1>16. CASE MarkCommitted
  <2>1. {batch[i].cmd : i \in DOMAIN batch} \subseteq Queued
    BY BatchEntry
  <2>2. done' \subseteq Queued /\ faults' \in 0 .. MaxFaults
    BY <1>16, <2>1, MarkType DEF MarkCommitted
  <2> QED
    BY <1>16, <2>2, ReturnType DEF TypeOK, MarkCommitted
<1>17. ASSUME NEW c \in Direct, DispatchDirect(c) PROVE TypeOK'
  <2>1. c \in Commands
    BY <1>17, BatchingAssumption
  <2>2. PICK s, d : s = Target[c] /\ d = Decide(c, History(log, s))
    OBVIOUS
  <2>3. /\ \/ d \in Seq(Types) /\ log' = Appended(log, c, d, Length(log, s))
           \/ UNCHANGED log
        /\ req' = [req EXCEPT ![c] = "ok"] \/ req' = [req EXCEPT ![c] = "rejected"]
        /\ UNCHANGED <<durable, waiters, channel, writer, history, faults>>
    BY <1>17, <2>2 DEF DispatchDirect
  <2>4. log' \in Seq(Events)
    <3>1. Length(log, s) \in Nat
      BY StreamFinite DEF TypeOK
    <3> QED
      BY <2>1, <2>3, <3>1, AppendedEntries DEF TypeOK
  <2>5. req' \in [Commands -> {"new", "admitted", "queued", "waiting"} \cup Ended]
    BY <2>1, <2>3 DEF TypeOK, Ended
  <2> QED
    BY <2>3, <2>4, <2>5 DEF TypeOK
<1>18. CASE Crash
  <2>1. req' \in [Commands -> {"new", "admitted", "queued", "waiting"} \cup Ended]
    BY <1>18 DEF TypeOK, Crash, Ended
  <2> QED
    BY <1>18, <2>1, ReturnType, FaultType DEF TypeOK, Crash
<1>19. CASE UNCHANGED vars
  BY <1>19 DEF TypeOK, vars
<1> QED
  BY <1>1, <1>2, <1>3, <1>4, <1>5, <1>6, <1>7, <1>8, <1>9, <1>10, <1>11, <1>12,
     <1>13, <1>14, <1>15, <1>16, <1>17, <1>18, <1>19 DEF Next, RunOnce

\* Type correctness of the requests, the queue, the window and the log.
THEOREM BatchingTypeCorrect == Spec => []TypeOK
<1> QED
  BY InitTypeOK, StepTypeOK, PTL DEF Spec

-----------------------------------------------------------------------------
(* What a step leaves alone.                                               *)

\* A command that holds events has rows.
LEMMA HoldsRows ==
  ASSUME NEW l \in Seq(Events), NEW c, NEW types \in Seq(Types),
         types # << >>, Holds(l, c, types)
  PROVE  RowsOf(l, c) # {}
<1>1. Len(types) \in Nat /\ Len(types) # 0
  BY LenProperties, EmptySeq
<1>2. Len(l) \in Nat
  BY LenProperties
<1>3. PICK base \in 0 .. Len(l) - Len(types) :
        RowsOf(l, c) = base + 1 .. base + Len(types)
  BY DEF Holds
<1>4. base + 1 \in base + 1 .. base + Len(types)
  BY <1>1, <1>2
<1> QED
  BY <1>3, <1>4, Zenon

\* The histories only grow, so what was dealt with stays so.
HistoriesGrow ==
  /\ unchanged \subseteq unchanged'
  /\ \A c \in Queued : verdicts[c] \subseteq verdicts'[c]

LEMMA StaysDealt ==
  ASSUME HistoriesGrow, NEW c \in Queued
  PROVE  /\ InOrder(c)' => InOrder(c)
         /\ PositionsOf(c) \subseteq PositionsOf(c)' /\ Dealt(c) => Dealt(c)'
<1>1. InOrder(c)' => InOrder(c)
  BY DEF HistoriesGrow, InOrder
<1> QED
  BY <1>1 DEF Dealt

\* A step that leaves the log and the queue as they are.
LEMMA SameLog ==
  ASSUME TypeOK, IInv, HistoriesGrow, UNCHANGED <<log, queue>>
  PROVE  /\ LogInv' /\ OrderInv' /\ QueueOrder'
         /\ \A c : InQueue(c)' <=> InQueue(c)
         /\ \A c : PositionsOf(c)' = PositionsOf(c)
         /\ \A c \in Queued : (InOrder(c)' => InOrder(c)) /\ (Dealt(c) => Dealt(c)')
<1>1. \A c : PositionsOf(c)' = PositionsOf(c)
  BY DEF PositionsOf
<1>2. \A c : InQueue(c)' <=> InQueue(c)
  BY DEF InQueue
<1>3. \A c \in Queued : (InOrder(c)' => InOrder(c)) /\ (Dealt(c) => Dealt(c)')
  BY <1>1, StaysDealt
<1>4. \A i \in DOMAIN queue : queue[i] \in Queued
  BY DEF TypeOK
<1>5. LogInv'
  <2>1. Contiguous(log)' /\ OwnRows(log)'
    BY DEF IInv, LogInv
  <2>2. AppliedSerially'
    BY <1>1 DEF IInv, LogInv, AppliedSerially, Before
  <2> QED
    BY <2>1, <2>2 DEF LogInv
<1>6. OrderInv'
  BY <1>1, <1>3, <1>4 DEF IInv, OrderInv
<1>7. QueueOrder'
  BY <1>1, <1>3, <1>4 DEF IInv, QueueOrder
<1> QED
  BY <1>1, <1>2, <1>3, <1>5, <1>6, <1>7

\* The conjuncts about the window depend on nothing else.
LEMMA SameWindow ==
  ASSUME TypeOK, IInv, HistoriesGrow,
         UNCHANGED <<log, queue, phase, todo, batch, overlay, staged>>
  PROVE  IdleInv' /\ DecideInv' /\ SignalInv'
<1>1. /\ \A c : PositionsOf(c)' = PositionsOf(c)
      /\ \A c : InQueue(c)' <=> InQueue(c)
      /\ \A c \in Queued : Dealt(c) => Dealt(c)'
  BY SameLog
<1>2. \A i \in DOMAIN queue : queue[i] \in Queued
  BY DEF TypeOK
<1>3. \A c : InBatch(c)' <=> InBatch(c)
  BY DEF InBatch
<1>4. IdleInv'
  BY DEF IInv, IdleInv
<1>5. DecideInv'
  <2> SUFFICES ASSUME phase = "decide"
               PROVE  /\ TodoInv' /\ BatchInv' /\ StagedInv' /\ LoadedInv'
                      /\ UntouchedInv' /\ CandidateInv' /\ LeftInv'
    BY DEF DecideInv
  <2>1. /\ TodoInv /\ BatchInv /\ StagedInv /\ LoadedInv /\ UntouchedInv
        /\ CandidateInv /\ LeftInv
    BY DEF IInv, DecideInv
  <2>2. TodoInv'
    BY <1>1, <2>1 DEF TodoInv
  <2>3. BatchInv'
    BY <1>1, <2>1 DEF BatchInv
  <2>4. StagedInv'
    BY <1>3, <2>1 DEF StagedInv
  <2>5. LoadedInv'
    BY <2>1 DEF LoadedInv
  <2>6. UntouchedInv'
    BY <2>1 DEF UntouchedInv
  <2>7. CandidateInv'
    <3>1. OnTime' => OnTime
      BY DEF OnTime
    <3>2. \A s \in Streams : OverlayHistory(s)' = OverlayHistory(s)
      BY DEF OverlayHistory
    <3>3. \A c, base : DecidedAt(c, base) => DecidedAt(c, base)'
      BY DEF DecidedAt
    <3> QED
      BY <2>1, <3>1, <3>2, <3>3 DEF CandidateInv
  <2>8. LeftInv'
    BY <1>1, <1>2, <1>3, <2>1 DEF LeftInv
  <2> QED
    BY <2>2, <2>3, <2>4, <2>5, <2>6, <2>7, <2>8
<1>6. SignalInv'
  <2>1. \A k \in DOMAIN batch : verdicts[batch[k].cmd] \subseteq verdicts'[batch[k].cmd]
    BY BatchEntry DEF HistoriesGrow
  <2> QED
    BY <2>1 DEF IInv, SignalInv, HistoriesGrow
<1> QED
  BY <1>4, <1>5, <1>6

\* A step of a request, or of the marks.
LEMMA Frame ==
  ASSUME TypeOK, IInv, QueueInv',
         UNCHANGED <<log, queue, phase, todo, batch, overlay, staged>>,
         UNCHANGED <<verdicts, unchanged>>,
         \A c \in done' : c \in done \/ (c \in Queued /\ PositionsOf(c) # {})
  PROVE  IInv'
<1>1. HistoriesGrow
  BY DEF HistoriesGrow
<1>2. LogInv' /\ OrderInv' /\ QueueOrder' /\ IdleInv' /\ DecideInv' /\ SignalInv'
  BY <1>1, SameLog, SameWindow
<1>3. /\ \A c : PositionsOf(c)' = PositionsOf(c)
      /\ \A c \in Queued : Dealt(c) => Dealt(c)'
  BY <1>1, SameLog
<1>4. done \subseteq Queued
  BY DEF TypeOK
<1>5. DoneInv' /\ DoneIsSettled'
  BY <1>3, <1>4 DEF IInv, DoneInv, DoneIsSettled, Dealt
<1>6. AcknowledgedIsDurable'
  BY DEF IInv, AcknowledgedIsDurable
<1> QED
  BY <1>2, <1>5, <1>6 DEF IInv

\* The window is dropped.
LEMMA ReturnsFrame ==
  ASSUME TypeOK, IInv, Return, QueueInv', DoneInv', DoneIsSettled',
         UNCHANGED <<log, queue, verdicts, unchanged>>
  PROVE  IInv'
<1>1. HistoriesGrow
  BY DEF HistoriesGrow
<1>2. LogInv' /\ OrderInv' /\ QueueOrder'
  BY <1>1, SameLog
<1>3. IdleInv' /\ DecideInv' /\ SignalInv'
  BY DEF Return, IdleInv, DecideInv, SignalInv
<1>4. AcknowledgedIsDurable'
  BY DEF IInv, AcknowledgedIsDurable
<1> QED
  BY <1>2, <1>3, <1>4 DEF IInv

-----------------------------------------------------------------------------
(* The requests.                                                           *)

LEMMA InitIInv == Init => IInv
<1> SUFFICES ASSUME Init PROVE IInv
  OBVIOUS
<1> USE DEF Init
<1>1. \A c : RowsOf(log, c) = {} /\ PositionsOf(c) = {}
  BY DEF RowsOf, PositionsOf
<1>2. DOMAIN queue = {} /\ done = {} /\ \A c : ~InQueue(c)
  BY DEF InQueue
<1>3. LogInv
  <2>1. /\ log \in Seq(Events) /\ \A s : StreamOf(log, s) = {}
    BY EmptySeq DEF StreamOf
  <2>2. \A s : Length(log, s) = 0
    BY <2>1, FS_EmptySet DEF Length
  <2>3. Contiguous(log)
    BY <2>1, <2>2 DEF Contiguous, Numbered
  <2>4. OwnRows(log)
    BY DEF OwnRows
  <2>5. AppliedSerially
    BY <1>1 DEF AppliedSerially
  <2> QED
    BY <2>3, <2>4, <2>5 DEF LogInv
<1>4. QueueInv
  <2>1. Len(log) = 0
    BY EmptySeq
  <2> QED
    BY <1>1, <1>2, <2>1 DEF QueueInv
<1>5. IdleInv /\ DecideInv /\ SignalInv
  BY DEF IdleInv, DecideInv, SignalInv
<1>6. DoneInv /\ DoneIsSettled /\ OrderInv /\ QueueOrder
  BY <1>2 DEF DoneInv, DoneIsSettled, OrderInv, QueueOrder
<1>7. AcknowledgedIsDurable
  BY DEF AcknowledgedIsDurable
<1> QED
  BY <1>3, <1>4, <1>5, <1>6, <1>7 DEF IInv

\* A request that moves on without touching the log, the queue or its
\* position.
LEMMA RequestQueueInv ==
  ASSUME TypeOK, IInv, NEW c \in Queued, UNCHANGED <<log, queue, at>>,
         NEW step, req' = [req EXCEPT ![c] = step],
         step \notin {"new", "admitted"} \/ req[c] \in {"new", "admitted"}
  PROVE  QueueInv'
<1>1. /\ \A d : PositionsOf(d)' = PositionsOf(d)
      /\ \A d : InQueue(d)' <=> InQueue(d)
  BY DEF PositionsOf, InQueue
<1>2. QueueInv
  BY DEF IInv
<1>3. c \in Commands /\ c \notin Direct /\ Direct \subseteq Commands
  BY BatchingAssumption DEF Queued
<1>4. /\ \A d \in Queued : InQueue(d) => req'[d] \notin {"new", "admitted"}
      /\ \A d \in Direct : req'[d] = req[d]
  BY <1>2, <1>3 DEF TypeOK, Queued, QueueInv
<1> QED
  BY <1>1, <1>2, <1>4 DEF QueueInv

LEMMA AdmitStep ==
  ASSUME TypeOK, IInv, NEW c \in Queued, Admit(c) PROVE IInv'
<1>1. UNCHANGED <<log, queue, done, phase, todo, batch, overlay, staged,
                  verdicts, unchanged>>
  BY DEF Admit, store, writer, history
<1>2. QueueInv'
  <2>1. CASE req' = [req EXCEPT ![c] = "full"] /\ UNCHANGED at
    BY <1>1, <2>1, RequestQueueInv
  <2>2. CASE /\ req' = [req EXCEPT ![c] = "admitted"]
             /\ at' = [at EXCEPT ![c] = Len(log)]
    <3>1. /\ \A d : PositionsOf(d)' = PositionsOf(d)
          /\ \A d : InQueue(d)' <=> InQueue(d)
      BY <1>1 DEF PositionsOf, InQueue
    <3>2. QueueInv
      BY DEF IInv
    <3>3. ~InQueue(c) /\ PositionsOf(c) = {}
      BY <3>2 DEF Admit, QueueInv
    <3>4. c \in Commands /\ c \notin Direct /\ Direct \subseteq Commands
      BY BatchingAssumption DEF Queued
    <3>5. /\ \A d \in Queued : InQueue(d) => req'[d] \notin {"new", "admitted"}
          /\ \A d \in Direct : req'[d] = req[d]
      BY <2>2, <3>2, <3>3, <3>4 DEF TypeOK, Queued, QueueInv
    <3>6. Len(log) \in Nat
      BY LenProperties DEF TypeOK
    <3>7. \A d \in Queued : at'[d] <= Len(log) /\ \A p \in PositionsOf(d) : at'[d] < p
      BY <2>2, <3>2, <3>3, <3>6 DEF TypeOK, QueueInv
    <3> QED
      BY <1>1, <3>1, <3>2, <3>5, <3>7 DEF QueueInv
  <2> QED
    BY <2>1, <2>2 DEF Admit
<1> QED
  BY <1>1, <1>2, Frame

LEMMA EnqueueFailsStep ==
  ASSUME TypeOK, IInv, NEW c \in Queued, EnqueueFails(c) PROVE IInv'
<1>1. UNCHANGED <<log, queue, done, at, phase, todo, batch, overlay, staged,
                  verdicts, unchanged>>
  BY DEF EnqueueFails, store, durable, writer, history
<1>2. QueueInv'
  BY <1>1, RequestQueueInv DEF EnqueueFails
<1> QED
  BY <1>1, <1>2, Frame

LEMMA RegisterWaiterStep ==
  ASSUME TypeOK, IInv, NEW c \in Queued, RegisterWaiter(c) PROVE IInv'
<1>1. UNCHANGED <<log, queue, done, at, phase, todo, batch, overlay, staged,
                  verdicts, unchanged>>
  BY DEF RegisterWaiter, store, durable, writer, history
<1>2. QueueInv'
  BY <1>1, RequestQueueInv DEF RegisterWaiter
<1> QED
  BY <1>1, <1>2, Frame

LEMMA ReceiveStep ==
  ASSUME TypeOK, IInv, NEW c \in Queued, Receive(c) PROVE IInv'
<1>1. UNCHANGED <<log, queue, done, at, phase, todo, batch, overlay, staged,
                  verdicts, unchanged>>
  BY DEF Receive, store, durable, writer, history
<1>2. channel[c].kind \notin {"new", "admitted"}
  <2>1. channel[c] \in Outcomes
    BY DEF TypeOK, Receive
  <2> QED
    BY <2>1, OutcomeKind
<1>3. QueueInv'
  BY <1>1, <1>2, RequestQueueInv DEF Receive
<1> QED
  BY <1>1, <1>3, Frame

LEMMA BatchTimeoutStep ==
  ASSUME TypeOK, IInv, NEW c \in Queued, BatchTimeout(c) PROVE IInv'
<1>1. UNCHANGED <<log, queue, done, at, phase, todo, batch, overlay, staged,
                  verdicts, unchanged>>
  BY DEF BatchTimeout, store, durable, writer, history
<1>2. QueueInv'
  BY <1>1, RequestQueueInv DEF BatchTimeout
<1> QED
  BY <1>1, <1>2, Frame

LEMMA EnqueueCommandStep ==
  ASSUME TypeOK, IInv, NEW c \in Queued, EnqueueCommand(c) PROVE IInv'
<1>1. /\ queue' = Append(queue, c)
      /\ UNCHANGED <<log, done, at, phase, todo, batch, overlay, staged,
                     verdicts, unchanged>>
      /\ req' = [req EXCEPT ![c] = "queued"] /\ req[c] = "admitted"
  BY DEF EnqueueCommand, store, writer, history
<1>2. PICK n : n = Len(queue)
  OBVIOUS
<1>3. /\ n \in Nat /\ DOMAIN queue = 1 .. n /\ DOMAIN queue' = 1 .. n + 1
      /\ \A i \in 1 .. n : queue'[i] = queue[i]
      /\ queue'[n + 1] = c
  BY <1>1, <1>2, AppendProperties, LenProperties DEF TypeOK
<1>4. \A i \in DOMAIN queue' : i \in DOMAIN queue \/ i = n + 1
  BY <1>3
<1>5. QueueInv
  BY DEF IInv
<1>6. ~InQueue(c) /\ PositionsOf(c) = {}
  BY <1>1, <1>5 DEF QueueInv
<1>7. /\ \A d : PositionsOf(d)' = PositionsOf(d)
      /\ \A d : InOrder(d)' <=> InOrder(d)
      /\ \A d : Dealt(d)' <=> Dealt(d)
      /\ \A d : InBatch(d)' <=> InBatch(d)
  BY <1>1 DEF PositionsOf, InOrder, Dealt, InBatch
<1>8. \A d : InQueue(d)' <=> InQueue(d) \/ d = c
  BY <1>3, <1>4 DEF InQueue
<1>9. \A i \in DOMAIN queue' : queue'[i] # c => i \in DOMAIN queue /\ queue'[i] = queue[i]
  BY <1>3, <1>4
<1>10. \A i, j \in DOMAIN queue' : i < j => i \in DOMAIN queue /\ queue'[i] = queue[i]
  BY <1>3
<1>11. QueueInv'
  <2>1. \A i, j \in DOMAIN queue' : queue'[i] = queue'[j] => i = j
    <3>1. \A i \in DOMAIN queue : queue[i] # c
      BY <1>6 DEF InQueue
    <3> QED
      BY <1>3, <1>4, <1>5, <3>1 DEF QueueInv
  <2>2. c \in Commands /\ c \notin Direct /\ Direct \subseteq Commands
    BY BatchingAssumption DEF Queued
  <2>3. /\ \A d \in Queued : InQueue(d)' => req'[d] \notin {"new", "admitted"}
        /\ \A d \in Direct : req'[d] = req[d]
    BY <1>1, <1>5, <1>8, <2>2 DEF TypeOK, Queued, QueueInv
  <2> QED
    BY <1>1, <1>5, <1>6, <1>7, <1>8, <2>1, <2>3 DEF QueueInv
<1>12. LogInv'
  <2>1. Contiguous(log)' /\ OwnRows(log)'
    BY <1>1 DEF IInv, LogInv
  <2>2. AppliedSerially'
    BY <1>1, <1>7 DEF IInv, LogInv, AppliedSerially, Before
  <2> QED
    BY <2>1, <2>2 DEF LogInv
<1>13. IdleInv'
  BY <1>1 DEF IInv, IdleInv
<1>14. DecideInv'
  <2> SUFFICES ASSUME phase = "decide"
               PROVE  /\ TodoInv' /\ BatchInv' /\ StagedInv' /\ LoadedInv'
                      /\ UntouchedInv' /\ CandidateInv' /\ LeftInv'
    BY <1>1 DEF DecideInv
  <2>1. /\ TodoInv /\ BatchInv /\ StagedInv /\ LoadedInv /\ UntouchedInv
        /\ CandidateInv /\ LeftInv
    BY DEF IInv, DecideInv
  <2>2. todo \subseteq DOMAIN queue
    BY DEF TypeOK
  <2>3. ~InBatch(c)
    BY <1>6, <2>1 DEF InBatch, BatchInv
  <2>4. TodoInv'
    BY <1>1, <1>3, <1>7, <2>1, <2>2 DEF TodoInv
  <2>5. BatchInv'
    <3> SUFFICES ASSUME NEW k \in DOMAIN batch
                 PROVE  /\ InQueue(batch[k].cmd)' /\ PositionsOf(batch[k].cmd)' = {}
                        /\ Holds(staged, batch[k].cmd, batch[k].types)
                        /\ \A i \in DOMAIN queue', j \in todo :
                             queue'[i] = batch[k].cmd => i < j
      BY <1>1 DEF BatchInv
    <3>1. batch[k].cmd # c
      BY <2>3 DEF InBatch
    <3>2. /\ InQueue(batch[k].cmd) /\ PositionsOf(batch[k].cmd) = {}
          /\ Holds(staged, batch[k].cmd, batch[k].types)
          /\ \A i \in DOMAIN queue, j \in todo : queue[i] = batch[k].cmd => i < j
      BY <2>1 DEF BatchInv
    <3>3. InQueue(batch[k].cmd)' /\ PositionsOf(batch[k].cmd)' = {}
      <4>1. PICK d : d = batch[k].cmd
        OBVIOUS
      <4>2. InQueue(d)' /\ PositionsOf(d)' = {}
        BY <1>7, <1>8, <3>2, <4>1
      <4>3. d = batch'[k].cmd
        BY <1>1, <4>1
      <4> QED
        BY <4>1, <4>2, <4>3
    <3>4. \A i \in DOMAIN queue', j \in todo : queue'[i] = batch[k].cmd => i < j
      BY <1>9, <3>1, <3>2
    <3> QED
      BY <3>2, <3>3, <3>4
  <2>6. StagedInv'
    <3>1. \A i, j \in DOMAIN queue' :
            i < j => \A p \in RowsOf(staged, queue'[i]), q \in RowsOf(staged, queue'[j]) :
                       p < q
      <4> SUFFICES ASSUME NEW i \in DOMAIN queue', NEW j \in DOMAIN queue', i < j,
                          NEW p \in RowsOf(staged, queue'[i]),
                          NEW q \in RowsOf(staged, queue'[j])
                   PROVE  p < q
        OBVIOUS
      <4>1. queue'[j] # c
        <5>1. c \in Commands
          BY QueuedCommand
        <5> QED
          BY <2>1, <2>3, <5>1 DEF StagedInv
      <4>2. i \in DOMAIN queue /\ queue'[i] = queue[i] /\ j \in DOMAIN queue
            /\ queue'[j] = queue[j]
        BY <1>9, <1>10, <4>1
      <4> QED
        BY <2>1, <4>2 DEF StagedInv
    <3>2. OwnRows(staged)'
      BY <1>1, <2>1 DEF StagedInv
    <3> QED
      BY <1>1, <1>7, <2>1, <3>1, <3>2 DEF StagedInv
  <2>7. LoadedInv'
    BY <1>1, <2>1 DEF LoadedInv
  <2>8. UntouchedInv'
    BY <1>1, <2>1 DEF UntouchedInv
  <2>9. CandidateInv'
    <3>1. OnTime' => OnTime
      BY <1>1 DEF OnTime
    <3>2. \A s \in Streams : OverlayHistory(s)' = OverlayHistory(s)
      BY <1>1 DEF OverlayHistory
    <3>3. \A d, base : DecidedAt(d, base) => DecidedAt(d, base)'
      BY <1>1 DEF DecidedAt
    <3> QED
      BY <1>1, <2>1, <3>1, <3>2, <3>3 DEF CandidateInv
  <2>10. LeftInv'
    <3> SUFFICES ASSUME NEW i \in DOMAIN queue', NEW j \in DOMAIN queue', i < j,
                        j \in todo \/ InBatch(queue'[j])
                 PROVE  i \in todo \/ InBatch(queue'[i]) \/ Dealt(queue'[i])
      BY <1>1, <1>7 DEF LeftInv
    <3>1. j \in DOMAIN queue /\ queue'[j] = queue[j]
      BY <1>3, <1>9, <2>2, <2>3
    <3>2. i \in DOMAIN queue /\ queue'[i] = queue[i]
      BY <1>10
    <3> QED
      BY <2>1, <3>1, <3>2 DEF LeftInv
  <2> QED
    BY <2>4, <2>5, <2>6, <2>7, <2>8, <2>9, <2>10
<1>15. SignalInv'
  BY <1>1 DEF IInv, SignalInv
<1>16. DoneInv' /\ DoneIsSettled'
  BY <1>1, <1>7 DEF IInv, DoneInv, DoneIsSettled
<1>17. OrderInv'
  BY <1>6, <1>7, <1>9, <1>10 DEF IInv, OrderInv
<1>18. QueueOrder'
  BY <1>6, <1>7, <1>9, <1>10 DEF IInv, QueueOrder
<1>19. AcknowledgedIsDurable'
  BY <1>1 DEF IInv, AcknowledgedIsDurable
<1> QED
  BY <1>11, <1>12, <1>13, <1>14, <1>15, <1>16, <1>17, <1>18, <1>19 DEF IInv

-----------------------------------------------------------------------------
(* RunOnce: the resume loop, the refusals, the signals.                    *)

\* A row whose events the lookup finds has events.
LEMMA AppliedHasRows ==
  ASSUME TypeOK, IInv, NEW i \in Window
  PROVE  /\ i \in DOMAIN queue /\ queue[i] \in Queued /\ queue[i] \notin done
         /\ i \in AlreadyApplied <=> PositionsOf(queue[i]) # {}
<1>1. i \in DOMAIN queue /\ queue[i] \notin done
  BY DEF Window, Pending
<1>2. queue[i] \in Queued
  BY <1>1 DEF TypeOK
<1>3. PICK c : c = queue[i]
  OBVIOUS
<1>4. i \in AlreadyApplied => PositionsOf(c) # {}
  BY <1>3 DEF AlreadyApplied, CommandApplied, StreamOf, PositionsOf, RowsOf
<1>5. ASSUME NEW p \in PositionsOf(c) PROVE i \in AlreadyApplied
  <2>1. p \in DOMAIN log /\ log[p].by = c
    BY <1>5 DEF PositionsOf, RowsOf
  <2>2. log[p].stream = Target[c]
    BY <2>1 DEF IInv, LogInv, OwnRows
  <2>3. at[c] < p
    BY <1>2, <1>3, <1>5 DEF IInv, QueueInv
  <2>4. p \in Nat /\ at[c] \in Nat
    BY <1>2, <1>3, <2>1 DEF TypeOK
  <2>5. p > at[c]
    BY <2>3, <2>4
  <2> QED
    BY <1>3, <2>1, <2>2, <2>5 DEF AlreadyApplied, CommandApplied, StreamOf
<1> QED
  BY <1>1, <1>2, <1>3, <1>4, <1>5

\* The marks of the resume loop only concern rows that have events.
LEMMA ResumeMarks ==
  ASSUME TypeOK, IInv, NEW rows \in SUBSET AlreadyApplied,
         done' = done \cup CommandsAt(rows)
  PROVE  \A c \in done' : c \in done \/ (c \in Queued /\ PositionsOf(c) # {})
<1>1. AlreadyApplied \subseteq Window
  BY DEF AlreadyApplied
<1> QED
  BY <1>1, AppliedHasRows DEF CommandsAt

\* The window has no gap: what is older than a row of it and not done is in it.
LEMMA WindowIsPrefix ==
  ASSUME TypeOK, NEW i \in Pending, NEW j \in Window, i < j
  PROVE  i \in Window
<1> DEFINE Older(n) == {k \in Pending : k <= n}
<1>1. Pending \subseteq 1 .. Len(queue) /\ Len(queue) \in Nat
  BY LenProperties DEF TypeOK, Pending
<1>2. j \in Pending /\ Cardinality(Older(j)) <= MaxBatch
  BY DEF Window
<1>3. Older(i) \subseteq Older(j)
  <2> SUFFICES ASSUME NEW k \in Pending, k <= i PROVE k <= j
    OBVIOUS
  <2>1. i \in Nat /\ j \in Nat /\ k \in Nat
    BY <1>1, <1>2
  <2> QED
    BY <2>1
<1>4. IsFiniteSet(Older(j))
  <2>1. IsFiniteSet(1 .. Len(queue))
    BY <1>1, FS_Interval
  <2>2. Older(j) \subseteq 1 .. Len(queue)
    BY <1>1
  <2> QED
    BY <2>1, <2>2, FS_Subset, Zenon
<1>5. /\ Cardinality(Older(i)) <= Cardinality(Older(j))
      /\ Cardinality(Older(i)) \in Nat /\ Cardinality(Older(j)) \in Nat
  BY <1>3, <1>4, FS_Subset, FS_CardinalityType
<1>6. Cardinality(Older(i)) <= MaxBatch
  BY <1>2, <1>5, BatchingAssumption
<1> QED
  BY <1>6 DEF Window

LEMMA ResumeFailsStep ==
  ASSUME TypeOK, IInv, ResumeFails PROVE IInv'
<1>1. UNCHANGED <<log, queue, at, req, phase, todo, batch, overlay, staged,
                  verdicts, unchanged>>
  BY DEF ResumeFails, store, gateway, writer, history
<1>2. \A c \in done' : c \in done \/ (c \in Queued /\ PositionsOf(c) # {})
  BY ResumeMarks DEF ResumeFails
<1>3. QueueInv'
  BY <1>1 DEF IInv, QueueInv, InQueue, PositionsOf
<1> QED
  BY <1>1, <1>2, <1>3, Frame

LEMMA BeginStep ==
  ASSUME TypeOK, IInv, Begin PROVE IInv'
<1>1. /\ phase = "idle" /\ phase' = "decide" /\ todo' = Window \ AlreadyApplied
      /\ UNCHANGED <<log, queue, at, req, batch, overlay, staged,
                     verdicts, unchanged>>
  BY DEF Begin, store, gateway, history
<1>2. HistoriesGrow
  BY <1>1 DEF HistoriesGrow
<1>3. /\ LogInv' /\ OrderInv' /\ QueueOrder'
      /\ \A c : PositionsOf(c)' = PositionsOf(c)
      /\ \A c : InQueue(c)' <=> InQueue(c)
      /\ \A c \in Queued : Dealt(c) => Dealt(c)'
  BY <1>1, <1>2, SameLog
<1>4. QueueInv'
  BY <1>1, <1>3 DEF IInv, QueueInv
<1>5. IdleInv' /\ SignalInv' /\ AcknowledgedIsDurable'
  BY <1>1 DEF IInv, IdleInv, SignalInv, AcknowledgedIsDurable
<1>6. \A c \in done' : c \in done \/ (c \in Queued /\ PositionsOf(c) # {})
  BY ResumeMarks DEF Begin
<1>7. DoneInv' /\ DoneIsSettled'
  <2>1. done \subseteq Queued
    BY DEF TypeOK
  <2> QED
    BY <1>1, <1>3, <1>6, <2>1 DEF IInv, DoneInv, DoneIsSettled, Dealt
<1>8. /\ batch = << >> /\ staged = << >>
      /\ overlay = [s \in Streams |-> << >>]
  BY <1>1 DEF IInv, IdleInv
<1>9. DOMAIN batch = {} /\ DOMAIN staged = {} /\ \A c : ~InBatch(c)'
  BY <1>1, <1>8 DEF InBatch
<1>10. TodoInv'
  <2>1. \A i \in todo' : PositionsOf(queue[i]) = {}
    BY <1>1, AppliedHasRows
  <2> QED
    BY <1>1, <1>3, <2>1 DEF TodoInv
<1>11. BatchInv' /\ LoadedInv'
  BY <1>1, <1>9 DEF BatchInv, LoadedInv
<1>12. StagedInv'
  BY <1>1, <1>9 DEF StagedInv, OwnRows, RowsOf
<1>13. UntouchedInv'
  <2>1. \A s \in Streams : overlay[s] = << >> /\ StreamOf(staged, s) = {}
    BY <1>8, <1>9 DEF StreamOf
  <2> QED
    BY <1>1, <2>1 DEF UntouchedInv
<1>14. CandidateInv'
  <2>1. log \o staged = log
    BY <1>8, ConcatEmptySeq DEF TypeOK
  <2>2. ASSUME NEW s \in Streams
        PROVE  Numbered(log \o staged, s) /\ History(log \o staged, s) = OverlayHistory(s)
    <3>1. Numbered(log, s)
      BY DEF IInv, LogInv, Contiguous
    <3>2. PICK h : h = History(log, s)
      OBVIOUS
    <3>3. h \in Seq(Types)
      BY <3>1, <3>2, HistoryEntries DEF TypeOK
    <3>4. h \o << >> = h
      BY <3>3, ConcatEmptySeq
    <3>5. overlay[s] = << >>
      BY <1>8
    <3>6. OverlayHistory(s) = h
      BY <3>2, <3>4, <3>5 DEF OverlayHistory
    <3> QED
      BY <2>1, <3>1, <3>2, <3>6
  <2>3. \A s \in Streams : OverlayHistory(s)' = OverlayHistory(s)
    BY <1>1 DEF OverlayHistory
  <2>4. \A c : RowsOf(staged', c) = {}
    BY <1>1, <1>9 DEF RowsOf
  <2>5. \A s \in Streams : /\ Numbered(log' \o staged', s)
                           /\ History(log' \o staged', s) = OverlayHistory(s)'
    BY <1>1, <2>2, <2>3
  <2> QED
    BY <2>4, <2>5 DEF CandidateInv
<1>15. LeftInv'
  <2> SUFFICES ASSUME NEW i \in DOMAIN queue, NEW j \in todo', i < j
               PROVE  i \in todo' \/ Dealt(queue[i])'
    BY <1>1, <1>9 DEF LeftInv
  <2>1. PICK c : c = queue[i]
    OBVIOUS
  <2> SUFFICES i \in todo' \/ Dealt(c)'
    BY <1>1, <2>1
  <2>2. c \in Queued
    BY <2>1 DEF TypeOK
  <2>3. CASE c \in done
    BY <1>3, <2>2, <2>3 DEF IInv, DoneInv
  <2>4. CASE c \notin done
    <3>1. i \in Window
      BY <1>1, <2>1, <2>4, WindowIsPrefix DEF Pending
    <3>2. CASE i \in AlreadyApplied
      <4>1. Dealt(c)
        BY <2>1, <3>1, <3>2, AppliedHasRows DEF Dealt
      <4> QED
        BY <1>3, <2>2, <4>1
    <3> QED
      BY <1>1, <3>1, <3>2
  <2> QED
    BY <2>3, <2>4
<1>16. DecideInv'
  BY <1>10, <1>11, <1>12, <1>13, <1>14, <1>15 DEF DecideInv
<1> QED
  BY <1>3, <1>4, <1>5, <1>7, <1>16 DEF IInv

\* The next row is given up: its caller is told something else than success.
LEMMA RefusalStep ==
  ASSUME TypeOK, IInv, phase = "decide", NEW i \in todo,
         NEW v \in {[kind |-> "rejected"], [kind |-> "failed"]},
         Signal(queue[i], v), todo' = todo \ {i},
         done' \subseteq done \cup {queue[i]},
         UNCHANGED <<log, queue, at, req, phase, batch, overlay, staged, unchanged>>
  PROVE  IInv'
<1>1. PICK c : c = queue[i]
  OBVIOUS
<1>2. c \in Queued /\ todo \subseteq DOMAIN queue
  BY <1>1, NextRow DEF TypeOK
<1>3. verdicts' = [verdicts EXCEPT ![c] = verdicts[c] \cup {v}]
  BY <1>1 DEF Signal
<1>4. HistoriesGrow
  BY <1>2, <1>3 DEF HistoriesGrow, TypeOK
<1>5. /\ LogInv' /\ OrderInv' /\ QueueOrder'
      /\ \A d : PositionsOf(d)' = PositionsOf(d)
      /\ \A d : InQueue(d)' <=> InQueue(d)
      /\ \A d \in Queued : Dealt(d) => Dealt(d)'
  BY <1>4, SameLog
<1>6. v \in verdicts'[c] /\ v.kind # "ok"
  BY <1>2, <1>3 DEF TypeOK
<1>7. Dealt(c)' /\ verdicts'[c] # {}
  BY <1>6 DEF Dealt, InOrder
<1>8. QueueInv'
  BY <1>5 DEF IInv, QueueInv
<1>9. IdleInv' /\ SignalInv'
  BY DEF IdleInv, SignalInv
<1>10. DoneInv' /\ DoneIsSettled'
  <2>1. done \subseteq Queued
    BY DEF TypeOK
  <2>2. \A d \in done' : d = c \/ (d \in done /\ d \in Queued)
    BY <1>1, <2>1
  <2>3. DoneInv'
    BY <1>5, <1>7, <2>2 DEF IInv, DoneInv
  <2>4. \A d \in Queued : verdicts[d] # {} => verdicts'[d] # {}
    BY <1>4 DEF HistoriesGrow
  <2>5. DoneIsSettled'
    BY <1>5, <1>7, <2>2, <2>4 DEF IInv, DoneIsSettled
  <2> QED
    BY <2>3, <2>5
<1>11. AcknowledgedIsDurable'
  <2> SUFFICES ASSUME NEW d \in Queued, NEW w \in verdicts'[d],
                      w.kind = "ok", w.types # << >>
               PROVE  Holds(log, d, w.types)
    BY DEF AcknowledgedIsDurable
  <2>1. w \in verdicts[d]
    BY <1>2, <1>3, <1>6 DEF TypeOK
  <2> QED
    BY <2>1 DEF IInv, AcknowledgedIsDurable
<1>12. DecideInv'
  <2>1. /\ TodoInv /\ BatchInv /\ StagedInv /\ LoadedInv /\ UntouchedInv
        /\ CandidateInv /\ LeftInv
    BY DEF IInv, DecideInv
  <2>2. \A d : InBatch(d)' <=> InBatch(d)
    BY DEF InBatch
  <2>3. TodoInv'
    BY <1>5, <2>1 DEF TodoInv
  <2>4. BatchInv'
    BY <1>5, <2>1 DEF BatchInv
  <2>5. StagedInv'
    BY <2>1, <2>2 DEF StagedInv
  <2>6. LoadedInv'
    BY <2>1 DEF LoadedInv
  <2>7. UntouchedInv'
    BY <2>1 DEF UntouchedInv
  <2>8. CandidateInv'
    <3>1. OnTime' => OnTime
      BY DEF OnTime
    <3>2. \A s \in Streams : OverlayHistory(s)' = OverlayHistory(s)
      BY DEF OverlayHistory
    <3>3. \A d, base : DecidedAt(d, base) => DecidedAt(d, base)'
      BY DEF DecidedAt
    <3> QED
      BY <2>1, <3>1, <3>2, <3>3 DEF CandidateInv
  <2>9. LeftInv'
    <3>1. \A k \in DOMAIN queue : queue[k] \in Queued
      BY DEF TypeOK
    <3> QED
      BY <1>1, <1>5, <1>7, <2>1, <2>2, <3>1 DEF LeftInv
  <2> QED
    BY <2>3, <2>4, <2>5, <2>6, <2>7, <2>8, <2>9 DEF DecideInv
<1> QED
  BY <1>5, <1>8, <1>9, <1>10, <1>11, <1>12 DEF IInv

LEMMA DecideRejectsStep ==
  ASSUME TypeOK, IInv, DecideRejects PROVE IInv'
<1>1. PICK i \in todo :
        /\ phase = "decide"
        /\ Signal(queue[i], [kind |-> "rejected"])
        /\ MarkDone({queue[i]})
        /\ todo' = todo \ {i}
        /\ UNCHANGED <<log, queue, at, req, phase, batch, overlay, staged,
                       unchanged>>
  BY DEF DecideRejects, store
<1>2. done' \subseteq done \cup {queue[i]}
  BY <1>1 DEF MarkDone
<1> QED
  BY <1>1, <1>2, RefusalStep

LEMMA DecideFailsStep ==
  ASSUME TypeOK, IInv, DecideFails PROVE IInv'
<1>1. PICK i \in todo :
        /\ phase = "decide"
        /\ Signal(queue[i], [kind |-> "failed"])
        /\ done' \subseteq done \cup {queue[i]}
        /\ todo' = todo \ {i}
        /\ UNCHANGED <<log, queue, at, req, phase, batch, overlay, staged,
                       unchanged>>
  BY DEF DecideFails, store
<1> QED
  BY <1>1, RefusalStep

LEMMA CommitRefusedStep ==
  ASSUME TypeOK, IInv, CommitRefused PROVE IInv'
<1>1. Return /\ UNCHANGED <<log, queue, done, at, req, verdicts, unchanged>>
  BY DEF CommitRefused, store, durable, gateway, history
<1>2. QueueInv' /\ DoneInv' /\ DoneIsSettled'
  BY <1>1 DEF IInv, QueueInv, InQueue, PositionsOf, DoneInv, Dealt, InOrder,
              DoneIsSettled
<1> QED
  BY <1>1, <1>2, ReturnsFrame

LEMMA EmptyWindowStep ==
  ASSUME TypeOK, IInv, EmptyWindow PROVE IInv'
<1>1. Return /\ UNCHANGED <<log, queue, done, at, req, verdicts, unchanged>>
  BY DEF EmptyWindow, store, durable, gateway, history
<1>2. QueueInv' /\ DoneInv' /\ DoneIsSettled'
  BY <1>1 DEF IInv, QueueInv, InQueue, PositionsOf, DoneInv, Dealt, InOrder,
              DoneIsSettled
<1> QED
  BY <1>1, <1>2, ReturnsFrame

LEMMA CrashStep ==
  ASSUME TypeOK, IInv, Crash PROVE IInv'
<1>1. Return /\ UNCHANGED <<log, queue, done, at, verdicts, unchanged>>
  BY DEF Crash, store, durable, history
<1>2. DoneInv' /\ DoneIsSettled'
  BY <1>1 DEF IInv, PositionsOf, DoneInv, Dealt, InOrder, DoneIsSettled
<1>3. \A c \in Commands : req'[c] \in {"new", "admitted"} => req[c] = "new" /\ req'[c] = "new"
  BY DEF Crash, TypeOK
<1>4. Direct \subseteq Commands /\ Queued \subseteq Commands
  BY BatchingAssumption DEF Queued
<1>5. QueueInv'
  BY <1>1, <1>3, <1>4 DEF IInv, QueueInv, InQueue, PositionsOf
<1> QED
  BY <1>1, <1>2, <1>5, ReturnsFrame

LEMMA SignalCommittedStep ==
  ASSUME TypeOK, IInv, SignalCommitted PROVE IInv'
<1>1. PICK i \in todo :
        /\ phase = "signal"
        /\ Signal(batch[i].cmd, [kind |-> "ok", types |-> batch[i].types])
        /\ todo' = todo \ {i}
        /\ UNCHANGED <<log, queue, done, at, req, phase, batch, overlay, staged,
                       unchanged>>
  BY DEF SignalCommitted, store, durable
<1>2. PICK c, v : c = batch[i].cmd /\ v = [kind |-> "ok", types |-> batch[i].types]
  OBVIOUS
<1>3. i \in DOMAIN batch
  BY <1>1 DEF TypeOK
<1>4. c \in Queued
  BY <1>2, <1>3, BatchEntry
<1>5. verdicts' = [verdicts EXCEPT ![c] = verdicts[c] \cup {v}]
  BY <1>1, <1>2 DEF Signal
<1>6. HistoriesGrow
  BY <1>1, <1>4, <1>5 DEF HistoriesGrow, TypeOK
<1>7. /\ LogInv' /\ OrderInv' /\ QueueOrder'
      /\ \A d : PositionsOf(d)' = PositionsOf(d)
      /\ \A d : InQueue(d)' <=> InQueue(d)
      /\ \A d \in Queued : Dealt(d) => Dealt(d)'
  BY <1>1, <1>6, SameLog
<1>8. v \in verdicts'[c] /\ \A d \in Queued : verdicts[d] # {} => verdicts'[d] # {}
  BY <1>4, <1>5, <1>6 DEF TypeOK, HistoriesGrow
<1>9. QueueInv'
  BY <1>1, <1>7 DEF IInv, QueueInv
<1>10. IdleInv' /\ DecideInv'
  BY <1>1 DEF IdleInv, DecideInv
<1>11. DoneInv' /\ DoneIsSettled'
  <2>1. done \subseteq Queued
    BY DEF TypeOK
  <2> QED
    BY <1>1, <1>7, <1>8, <2>1 DEF IInv, DoneInv, DoneIsSettled
<1>12. AcknowledgedIsDurable'
  <2> SUFFICES ASSUME NEW d \in Queued, NEW w \in verdicts'[d],
                      w.kind = "ok", w.types # << >>
               PROVE  Holds(log, d, w.types)
    BY <1>1 DEF AcknowledgedIsDurable
  <2>1. CASE w \in verdicts[d]
    BY <2>1 DEF IInv, AcknowledgedIsDurable
  <2>2. CASE w \notin verdicts[d]
    <3>1. d = c /\ w = v
      BY <1>4, <1>5, <2>2 DEF TypeOK
    <3>2. w.types = batch[i].types
      BY <1>2, <3>1
    <3>3. Holds(log, c, batch[i].types)
      BY <1>1, <1>2, <1>3 DEF IInv, SignalInv
    <3> QED
      BY <3>1, <3>2, <3>3
  <2> QED
    BY <2>1, <2>2
<1>13. SignalInv'
  <2> SUFFICES ASSUME NEW k \in DOMAIN batch
               PROVE  /\ batch[k].types = << >> => batch[k].cmd \in unchanged
                      /\ Holds(log, batch[k].cmd, batch[k].types)
                      /\ k \notin todo' => verdicts'[batch[k].cmd] # {}
    BY <1>1 DEF SignalInv
  <2>1. /\ batch[k].types = << >> => batch[k].cmd \in unchanged
        /\ Holds(log, batch[k].cmd, batch[k].types)
        /\ k \notin todo => verdicts[batch[k].cmd] # {}
    BY <1>1 DEF IInv, SignalInv
  <2>2. k \notin todo' => verdicts'[batch[k].cmd] # {}
    BY <1>1, <1>2, <1>8, <2>1, BatchEntry
  <2> QED
    BY <2>1, <2>2
<1> QED
  BY <1>7, <1>9, <1>10, <1>11, <1>12, <1>13 DEF IInv

LEMMA MarkCommittedStep ==
  ASSUME TypeOK, IInv, MarkCommitted PROVE IInv'
<1>1. /\ phase = "signal" /\ todo = {} /\ Return
      /\ MarkDone({batch[i].cmd : i \in DOMAIN batch})
      /\ UNCHANGED <<log, queue, at, req, verdicts, unchanged>>
  BY DEF MarkCommitted, store, gateway, history
<1>2. ASSUME NEW k \in DOMAIN batch
      PROVE  Dealt(batch[k].cmd) /\ verdicts[batch[k].cmd] # {}
  <2>1. PICK c, d : c = batch[k].cmd /\ d = batch[k].types
    OBVIOUS
  <2>2. /\ d = << >> => c \in unchanged
        /\ Holds(log, c, d) /\ verdicts[c] # {}
    BY <1>1, <2>1 DEF IInv, SignalInv
  <2>3. d \in Seq(Types)
    BY <2>1, BatchEntry
  <2>4. CASE d = << >>
    BY <2>1, <2>2, <2>4 DEF Dealt, InOrder
  <2>5. CASE d # << >>
    <3>1. RowsOf(log, c) # {}
      BY <2>2, <2>3, <2>5, HoldsRows DEF TypeOK
    <3> QED
      BY <2>1, <2>2, <3>1 DEF Dealt, PositionsOf
  <2> QED
    BY <2>4, <2>5
<1>3. \A c \in done' : Dealt(c) /\ (PositionsOf(c) # {} \/ verdicts[c] # {})
  BY <1>1, <1>2 DEF MarkDone, IInv, DoneInv, DoneIsSettled
<1>4. DoneInv' /\ DoneIsSettled'
  BY <1>1, <1>3 DEF DoneInv, DoneIsSettled, Dealt, InOrder, PositionsOf
<1>5. QueueInv'
  BY <1>1 DEF IInv, QueueInv, InQueue, PositionsOf
<1> QED
  BY <1>1, <1>4, <1>5, ReturnsFrame

-----------------------------------------------------------------------------
(* RunOnce: the next command is accepted.                                  *)

\* DecideAccepts takes row i, of command c to stream s, and decides d on the n
\* events the overlay shows.
Accepts(i, c, s, d, n) ==
  /\ phase = "decide" /\ IsNext(i)
  /\ c = queue[i] /\ s = Target[c]
  /\ d = Decide(c, OverlayHistory(s)) /\ n = Len(OverlayHistory(s))
  /\ d \in Seq(Types)
  /\ batch' = Append(batch, [cmd |-> c, types |-> d, expected |-> n])
  /\ overlay' = [overlay EXCEPT ![s] = overlay[s] \o d]
  /\ staged' = Appended(staged, c, d, n)
  /\ todo' = todo \ {i}
  /\ UNCHANGED <<log, queue, done, at, req, phase, verdicts, unchanged>>

LEMMA AcceptsTypes ==
  ASSUME TypeOK, NEW i, NEW c, NEW s, NEW d, NEW n, Accepts(i, c, s, d, n)
  PROVE  /\ i \in todo /\ i \in DOMAIN queue /\ i \in Nat
         /\ todo \subseteq DOMAIN queue
         /\ c \in Queued /\ c \in Commands /\ s \in Streams
         /\ d \in Seq(Types) /\ n \in Nat
         /\ n = Length(log, s) + Len(overlay[s])
<1>1. i \in todo /\ phase = "decide" /\ c = queue[i] /\ s = Target[c]
      /\ n = Len(OverlayHistory(s)) /\ d \in Seq(Types)
  BY DEF Accepts, IsNext
<1>2. todo \subseteq DOMAIN queue /\ queue \in Seq(Queued)
  BY <1>1 DEF TypeOK
<1>3. c \in Queued /\ c \in Commands /\ s \in Streams
  BY <1>1, NextRow
<1>4. n \in Nat /\ n = Length(log, s) + Len(overlay[s])
  BY <1>1, <1>3, OverlayLength
<1> QED
  BY <1>1, <1>2, <1>3, <1>4

\* The command is new to the batch.
LEMMA AcceptsNew ==
  ASSUME TypeOK, IInv, NEW i, NEW c, NEW s, NEW d, NEW n, Accepts(i, c, s, d, n)
  PROVE  /\ InQueue(c) /\ ~InBatch(c) /\ PositionsOf(c) = {} /\ RowsOf(staged, c) = {}
         /\ \A k \in DOMAIN queue : queue[k] = c => k = i
         /\ \A k \in DOMAIN batch : batch[k].cmd # c
<1>1. /\ i \in todo /\ i \in DOMAIN queue /\ i \in Nat /\ c = queue[i]
      /\ c \in Commands
  BY AcceptsTypes DEF Accepts
<1>2. TodoInv /\ BatchInv /\ StagedInv
  BY DEF Accepts, IInv, DecideInv
<1>3. InQueue(c) /\ PositionsOf(c) = {}
  BY <1>1, <1>2 DEF InQueue, TodoInv
<1>4. ~InBatch(c)
  BY <1>1, <1>2 DEF InBatch, BatchInv
<1>5. RowsOf(staged, c) = {}
  BY <1>1, <1>2, <1>4 DEF StagedInv
<1>6. \A k \in DOMAIN queue : queue[k] = c => k = i
  BY <1>1 DEF IInv, QueueInv
<1> QED
  BY <1>3, <1>4, <1>5, <1>6 DEF InBatch

\* The batch gets one more entry.
LEMMA AcceptsBatch ==
  ASSUME TypeOK, NEW i, NEW c, NEW s, NEW d, NEW n, Accepts(i, c, s, d, n)
  PROVE  \E k \in Nat \ {0} :
           /\ DOMAIN batch = 1 .. k - 1 /\ DOMAIN batch' = 1 .. k
           /\ \A j \in 1 .. k - 1 : batch'[j] = batch[j]
           /\ batch'[k] = [cmd |-> c, types |-> d, expected |-> n]
           /\ \A j \in 1 .. k - 1 : Earlier(batch', j) = Earlier(batch, j)
           /\ Earlier(batch', k) = {} =>
                \A j \in DOMAIN batch : Target[batch[j].cmd] # s
           /\ \A m \in Earlier(batch', k) :
                m \in DOMAIN batch /\ Target[batch[m].cmd] = s
           /\ \A x : InBatch(x)' <=> InBatch(x) \/ x = c
<1>1. PICK e : e = [cmd |-> c, types |-> d, expected |-> n]
  OBVIOUS
<1>2. batch' = Append(batch, e) /\ s = Target[c]
  BY <1>1 DEF Accepts
<1>3. e \in DecidedCommands
  BY <1>1, AcceptsTypes DEF DecidedCommands
<1>4. batch \in Seq(DecidedCommands)
  BY DEF TypeOK
<1>5. PICK k : k = Len(batch) + 1
  OBVIOUS
<1>6. /\ k \in Nat \ {0} /\ DOMAIN batch = 1 .. k - 1 /\ DOMAIN batch' = 1 .. k
      /\ \A j \in 1 .. k - 1 : batch'[j] = batch[j]
      /\ batch'[k] = e
  BY <1>2, <1>3, <1>4, <1>5, AppendProperties, LenProperties
<1>7. ASSUME NEW j \in 1 .. k - 1 PROVE Earlier(batch', j) = Earlier(batch, j)
  <2>1. \A m \in 1 .. j - 1 : batch'[m] = batch[m]
    BY <1>6
  <2> QED
    BY <1>6, <2>1 DEF Earlier
<1>8. ASSUME Earlier(batch', k) = {}, NEW j \in DOMAIN batch
      PROVE  Target[batch[j].cmd] # s
  BY <1>1, <1>2, <1>6, <1>8 DEF Earlier
<1>9. \A m \in Earlier(batch', k) : m \in DOMAIN batch /\ Target[batch[m].cmd] = s
  BY <1>1, <1>2, <1>6 DEF Earlier
<1>10. ASSUME NEW x PROVE InBatch(x)' <=> InBatch(x) \/ x = c
  <2>1. \A j \in DOMAIN batch' : j \in DOMAIN batch \/ j = k
    BY <1>6
  <2>2. k \in DOMAIN batch' /\ DOMAIN batch \subseteq DOMAIN batch'
    BY <1>6, <1>5, <1>4, LenProperties
  <2>3. batch'[k].cmd = c
    BY <1>1, <1>6
  <2> QED
    BY <1>6, <2>1, <2>2, <2>3 DEF InBatch
<1> QED
  BY <1>1, <1>6, <1>7, <1>8, <1>9, <1>10

\* The staged rows of the other commands stay where they are, the new ones
\* follow them.
LEMMA AcceptsRows ==
  ASSUME TypeOK, IInv, NEW i, NEW c, NEW s, NEW d, NEW n, Accepts(i, c, s, d, n)
  PROVE  /\ staged \in Seq(Events) /\ staged' \in Seq(Events)
         /\ Len(staged) \in Nat /\ Len(d) \in Nat
         /\ Len(staged') = Len(staged) + Len(d)
         /\ \A p \in 1 .. Len(staged) : staged'[p] = staged[p]
         /\ \A p \in Len(staged) + 1 .. Len(staged') :
              /\ staged'[p].by = c /\ staged'[p].stream = s
              /\ staged'[p].type = d[p - Len(staged)]
         /\ RowsOf(staged', c) = Len(staged) + 1 .. Len(staged) + Len(d)
         /\ Holds(staged', c, d)
         /\ \A x : x # c =>
              /\ RowsOf(staged', x) = RowsOf(staged, x)
              /\ \A ts \in Seq(Types) : Holds(staged, x, ts) => Holds(staged', x, ts)
         /\ \A x : RowsOf(staged, x) \subseteq 1 .. Len(staged)
<1>1. PICK r : r = staged'
  OBVIOUS
<1>2. r = Appended(staged, c, d, n) /\ s = Target[c]
  BY <1>1 DEF Accepts
<1>3. /\ c \in Commands /\ d \in Seq(Types) /\ n \in Nat /\ staged \in Seq(Events)
  BY AcceptsTypes DEF TypeOK
<1>4. RowsOf(staged, c) = {}
  BY AcceptsNew
<1>5. /\ r \in Seq(Events)
      /\ Len(staged) \in Nat /\ Len(d) \in Nat
      /\ Len(r) = Len(staged) + Len(d)
      /\ DOMAIN staged = 1 .. Len(staged)
      /\ \A p \in 1 .. Len(staged) : r[p] = staged[p]
      /\ \A p \in Len(staged) + 1 .. Len(r) :
           /\ r[p].by = c /\ r[p].stream = s
           /\ r[p].type = d[p - Len(staged)]
  BY <1>2, <1>3, AppendedRows
<1>6. Holds(r, c, d) /\ RowsOf(r, c) = Len(staged) + 1 .. Len(staged) + Len(d)
  BY <1>2, <1>3, <1>4, AppendedHolds
<1>7. ASSUME NEW x, x # c
      PROVE  /\ RowsOf(r, x) = RowsOf(staged, x)
             /\ \A ts \in Seq(Types) : Holds(staged, x, ts) => Holds(r, x, ts)
  BY <1>2, <1>3, <1>7, AppendedOthers
<1>8. \A x : RowsOf(staged, x) \subseteq 1 .. Len(staged)
  BY <1>5 DEF RowsOf
<1> QED
  BY <1>1, <1>3, <1>5, <1>6, <1>7, <1>8

LEMMA AcceptsBatchInv ==
  ASSUME TypeOK, IInv, NEW i, NEW c, NEW s, NEW d, NEW n, Accepts(i, c, s, d, n)
  PROVE  BatchInv'
<1>1. PICK k : /\ k \in Nat \ {0}
               /\ DOMAIN batch = 1 .. k - 1 /\ DOMAIN batch' = 1 .. k
               /\ \A j \in 1 .. k - 1 : batch'[j] = batch[j]
               /\ batch'[k] = [cmd |-> c, types |-> d, expected |-> n]
  BY AcceptsBatch
<1>2. /\ IsNext(i) /\ todo' = todo \ {i} /\ UNCHANGED <<log, queue>>
      /\ BatchInv
  BY DEF Accepts, IInv, DecideInv
<1>3. /\ \A x : InQueue(x)' <=> InQueue(x)
      /\ \A x : PositionsOf(x)' = PositionsOf(x)
  BY <1>2 DEF InQueue, PositionsOf
<1>4. /\ InQueue(c) /\ PositionsOf(c) = {}
      /\ \A j \in DOMAIN queue : queue[j] = c => j = i
      /\ \A j \in DOMAIN batch : batch[j].cmd # c
  BY AcceptsNew
<1>5. i \in DOMAIN queue /\ todo \subseteq DOMAIN queue /\ DOMAIN queue \subseteq Nat
  BY AcceptsTypes, LenProperties DEF TypeOK
<1>6. ASSUME NEW j \in 1 .. k, NEW x, NEW ts, x = batch'[j].cmd, ts = batch'[j].types
      PROVE  /\ InQueue(x) /\ PositionsOf(x) = {} /\ Holds(staged', x, ts)
             /\ \A a \in DOMAIN queue, b \in todo' : queue[a] = x => a < b
  <2>1. CASE j \in 1 .. k - 1
    <3>1. j \in DOMAIN batch /\ x = batch[j].cmd /\ ts = batch[j].types
      BY <1>1, <1>6, <2>1
    <3>2. x # c /\ ts \in Seq(Types)
      BY <1>4, <3>1, BatchEntry
    <3>3. /\ InQueue(x) /\ PositionsOf(x) = {} /\ Holds(staged, x, ts)
          /\ \A a \in DOMAIN queue, b \in todo : queue[a] = x => a < b
      BY <1>2, <3>1 DEF BatchInv
    <3>4. Holds(staged', x, ts)
      BY <3>2, <3>3, AcceptsRows
    <3> QED
      BY <1>2, <3>3, <3>4
  <2>2. CASE j = k
    <3>1. x = c /\ ts = d
      BY <1>1, <1>6, <2>2
    <3>2. Holds(staged', x, ts)
      BY <3>1, AcceptsRows
    <3>3. ASSUME NEW a \in DOMAIN queue, NEW b \in todo', queue[a] = x
          PROVE  a < b
      <4>1. a = i /\ b \in todo /\ b # i
        BY <1>2, <1>4, <3>1, <3>3
      <4>2. i <= b
        BY <1>2, <4>1 DEF IsNext
      <4>3. i \in Nat /\ b \in Nat
        BY <1>5, <4>1
      <4> QED
        BY <4>1, <4>2, <4>3
    <3> QED
      BY <1>4, <3>1, <3>2, <3>3
  <2> QED
    BY <1>1, <2>1, <2>2
<1>7. BatchInv' <=>
        \A j \in DOMAIN batch' :
          /\ InQueue(batch'[j].cmd) /\ PositionsOf(batch'[j].cmd) = {}
          /\ Holds(staged', batch'[j].cmd, batch'[j].types)
          /\ \A a \in DOMAIN queue, b \in todo' : queue[a] = batch'[j].cmd => a < b
  BY <1>2 DEF BatchInv, InQueue, PositionsOf
<1> QED
  BY <1>1, <1>6, <1>7

LEMMA AcceptsStagedInv ==
  ASSUME TypeOK, IInv, NEW i, NEW c, NEW s, NEW d, NEW n, Accepts(i, c, s, d, n)
  PROVE  StagedInv'
<1>1. StagedInv /\ BatchInv /\ UNCHANGED queue /\ c = queue[i] /\ s = Target[c]
  BY DEF Accepts, IInv, DecideInv
<1>2. /\ staged \in Seq(Events) /\ staged' \in Seq(Events)
      /\ Len(staged) \in Nat /\ Len(d) \in Nat
      /\ Len(staged') = Len(staged) + Len(d)
      /\ \A p \in 1 .. Len(staged) : staged'[p] = staged[p]
      /\ \A p \in Len(staged) + 1 .. Len(staged') :
           staged'[p].by = c /\ staged'[p].stream = s
      /\ RowsOf(staged', c) = Len(staged) + 1 .. Len(staged) + Len(d)
      /\ \A x : x # c => RowsOf(staged', x) = RowsOf(staged, x)
      /\ \A x : RowsOf(staged, x) \subseteq 1 .. Len(staged)
  BY AcceptsRows
<1>3. /\ i \in todo /\ i \in DOMAIN queue /\ i \in Nat /\ c \in Commands
      /\ \A j \in DOMAIN queue : queue[j] \in Queued /\ j \in Nat
      /\ \A j \in DOMAIN queue : queue[j] = c => j = i
  BY AcceptsTypes, AcceptsNew DEF TypeOK
<1>4. OwnRows(staged')
  <2> SUFFICES ASSUME NEW p \in DOMAIN staged'
               PROVE  staged'[p].by \in Commands /\ staged'[p].stream = Target[staged'[p].by]
    BY DEF OwnRows
  <2>1. p \in 1 .. Len(staged) + Len(d)
    BY <1>2, LenProperties
  <2>2. CASE p \in 1 .. Len(staged)
    <3>1. p \in DOMAIN staged
      BY <1>2, <2>2, LenProperties
    <3> QED
      BY <1>1, <1>2, <2>2, <3>1 DEF StagedInv, OwnRows
  <2>3. CASE p \in Len(staged) + 1 .. Len(staged')
    BY <1>1, <1>2, <1>3, <2>3
  <2> QED
    BY <1>2, <2>1, <2>2, <2>3
<1>5. \A x \in Commands : RowsOf(staged', x) # {} => InBatch(x)'
  <2>1. \A x : InBatch(x)' <=> InBatch(x) \/ x = c
    BY AcceptsBatch
  <2> QED
    BY <1>1, <1>2, <2>1 DEF StagedInv
<1>6. ASSUME NEW a \in DOMAIN queue, NEW b \in DOMAIN queue, a < b,
             NEW p \in RowsOf(staged', queue[a]), NEW q \in RowsOf(staged', queue[b])
      PROVE  p < q
  <2>1. CASE queue[b] = c
    <3>1. queue[a] # c
      BY <1>3, <1>6, <2>1
    <3>2. p \in 1 .. Len(staged)
      BY <1>2, <3>1
    <3>3. q \in Len(staged) + 1 .. Len(staged) + Len(d)
      BY <1>2, <2>1
    <3> QED
      BY <1>2, <3>2, <3>3
  <2>2. CASE queue[b] # c
    <3>1. q \in RowsOf(staged, queue[b])
      BY <1>2, <2>2
    <3>2. InBatch(queue[b])
      BY <1>1, <1>3, <3>1, QueuedCommand DEF StagedInv
    <3>3. b < i
      BY <1>1, <1>3, <3>2 DEF InBatch, BatchInv
    <3>4. queue[a] # c
      BY <1>3, <1>6, <3>3
    <3>5. p \in RowsOf(staged, queue[a])
      BY <1>2, <3>4
    <3> QED
      BY <1>1, <1>6, <3>1, <3>5 DEF StagedInv
  <2> QED
    BY <2>1, <2>2
<1> QED
  BY <1>1, <1>4, <1>5, <1>6 DEF StagedInv

\* The streams the window has touched.
LEMMA AcceptsStreams ==
  ASSUME TypeOK, IInv, NEW i, NEW c, NEW s, NEW d, NEW n, Accepts(i, c, s, d, n)
  PROVE  LoadedInv' /\ UntouchedInv' /\ (OnTime' => OnTime)
<1>1. PICK k : /\ k \in Nat \ {0}
               /\ DOMAIN batch = 1 .. k - 1 /\ DOMAIN batch' = 1 .. k
               /\ \A j \in 1 .. k - 1 : batch'[j] = batch[j]
               /\ batch'[k] = [cmd |-> c, types |-> d, expected |-> n]
               /\ \A j \in 1 .. k - 1 : Earlier(batch', j) = Earlier(batch, j)
               /\ Earlier(batch', k) = {} =>
                    \A j \in DOMAIN batch : Target[batch[j].cmd] # s
               /\ \A m \in Earlier(batch', k) :
                    m \in DOMAIN batch /\ Target[batch[m].cmd] = s
  BY AcceptsBatch
<1>2. /\ LoadedInv /\ UntouchedInv /\ UNCHANGED log
      /\ overlay' = [overlay EXCEPT ![s] = overlay[s] \o d]
      /\ staged' = Appended(staged, c, d, n) /\ s = Target[c]
  BY DEF Accepts, IInv, DecideInv
<1>3. /\ c \in Commands /\ s \in Streams /\ d \in Seq(Types) /\ n \in Nat
      /\ n = Length(log, s) + Len(overlay[s])
  BY AcceptsTypes
<1>4. OnTime' => OnTime
  BY <1>1, <1>2 DEF OnTime
<1>5. LoadedInv'
  <2>1. ASSUME NEW j \in 1 .. k - 1, Earlier(batch', j) = {}
        PROVE  batch'[j].expected <= Length(log, Target[batch'[j].cmd])
    BY <1>1, <1>2, <2>1 DEF LoadedInv
  <2>2. ASSUME Earlier(batch', k) = {}
        PROVE  batch'[k].expected <= Length(log, Target[batch'[k].cmd])
    <3>1. overlay[s] = << >>
      BY <1>1, <1>2, <1>3, <2>2 DEF UntouchedInv
    <3>2. Len(overlay[s]) = 0 /\ Length(log, s) \in Nat
      BY <3>1, StreamFinite, EmptySeq DEF TypeOK
    <3>3. n = Length(log, s)
      BY <1>3, <3>2
    <3> QED
      BY <1>1, <1>2, <3>2, <3>3
  <2>3. \A j \in DOMAIN batch' : j \in 1 .. k - 1 \/ j = k
    BY <1>1
  <2>4. k \in DOMAIN batch' /\ \A j \in DOMAIN batch : j \in DOMAIN batch'
    BY <1>1
  <2>5. ASSUME NEW m \in DOMAIN batch
        PROVE  \E j \in DOMAIN batch' :
                 /\ Earlier(batch', j) = {}
                 /\ Target[batch'[j].cmd] = Target[batch[m].cmd]
    <3>1. PICK j \in DOMAIN batch : /\ Earlier(batch, j) = {}
                                    /\ Target[batch[j].cmd] = Target[batch[m].cmd]
      BY <1>2 DEF LoadedInv
    <3> QED
      BY <1>1, <2>4, <3>1
  <2>6. \E j \in DOMAIN batch' : /\ Earlier(batch', j) = {}
                                 /\ Target[batch'[j].cmd] = s
    <3>1. CASE Earlier(batch', k) = {}
      BY <1>1, <1>2, <2>4, <3>1
    <3>2. CASE Earlier(batch', k) # {}
      <4>1. PICK m \in DOMAIN batch : Target[batch[m].cmd] = s
        BY <1>1, <3>2
      <4> QED
        BY <2>5, <4>1
    <3> QED
      BY <3>1, <3>2
  <2>7. ASSUME NEW m \in DOMAIN batch'
        PROVE  \E j \in DOMAIN batch' :
                 /\ Earlier(batch', j) = {}
                 /\ Target[batch'[j].cmd] = Target[batch'[m].cmd]
    <3>1. CASE m \in 1 .. k - 1
      <4>1. m \in DOMAIN batch /\ batch'[m] = batch[m]
        BY <1>1, <3>1
      <4> QED
        BY <2>5, <4>1
    <3>2. CASE m = k
      BY <1>1, <1>2, <2>6, <3>2
    <3> QED
      BY <2>3, <3>1, <3>2
  <2>8. \A j \in DOMAIN batch' :
          Earlier(batch', j) = {} =>
            batch'[j].expected <= Length(log, Target[batch'[j].cmd])
    BY <2>1, <2>2, <2>3
  <2> QED
    BY <1>2, <2>7, <2>8 DEF LoadedInv
<1>6. UntouchedInv'
  <2> SUFFICES ASSUME NEW x \in Streams,
                      \A j \in DOMAIN batch' : Target[batch'[j].cmd] # x
               PROVE  overlay'[x] = << >> /\ StreamOf(staged', x) = {}
    BY DEF UntouchedInv
  <2>1. x # s /\ \A j \in DOMAIN batch : Target[batch[j].cmd] # x
    <3>1. k \in DOMAIN batch' /\ \A j \in DOMAIN batch : j \in DOMAIN batch'
      BY <1>1
    <3> QED
      BY <1>1, <1>2, <3>1
  <2>2. overlay[x] = << >> /\ StreamOf(staged, x) = {}
    BY <1>2, <2>1 DEF UntouchedInv
  <2>3. overlay'[x] = << >>
    BY <1>2, <2>1, <2>2 DEF TypeOK
  <2>4. StreamOf(Appended(staged, c, d, n), x) = StreamOf(staged, x)
    BY <1>2, <1>3, <2>1, AppendedStreams DEF TypeOK
  <2> QED
    BY <1>2, <2>2, <2>3, <2>4
<1> QED
  BY <1>4, <1>5, <1>6

\* If the window is on time, it still is what the log with it would hold.
LEMMA AcceptsCandidate ==
  ASSUME TypeOK, IInv, NEW i, NEW c, NEW s, NEW d, NEW n, Accepts(i, c, s, d, n)
  PROVE  CandidateInv'
<1> SUFFICES ASSUME OnTime'
             PROVE  /\ \A x \in Streams :
                         /\ Numbered(log' \o staged', x)
                         /\ History(log' \o staged', x) = OverlayHistory(x)'
                    /\ \A x \in Commands :
                         RowsOf(staged', x) # {} =>
                           \E base \in 0 .. Len(staged') - 1 : DecidedAt(x, base)'
  BY DEF CandidateInv
<1>1. /\ log' = log /\ CandidateInv /\ s = Target[c]
      /\ d = Decide(c, OverlayHistory(s)) /\ n = Len(OverlayHistory(s))
      /\ overlay' = [overlay EXCEPT ![s] = overlay[s] \o d]
      /\ staged' = Appended(staged, c, d, n)
  BY DEF Accepts, IInv, DecideInv
<1>2. /\ c \in Commands /\ s \in Streams /\ d \in Seq(Types) /\ n \in Nat
      /\ log \in Seq(Events) /\ staged \in Seq(Events)
  BY AcceptsTypes DEF TypeOK
<1>3. OnTime
  BY AcceptsStreams
<1>4. PICK l, m : l = log \o staged /\ m = log \o staged'
  OBVIOUS
<1>5. /\ \A x \in Streams : Numbered(l, x) /\ History(l, x) = OverlayHistory(x)
      /\ \A x \in Commands :
           RowsOf(staged, x) # {} => \E base \in 0 .. Len(staged) - 1 : DecidedAt(x, base)
  BY <1>1, <1>3, <1>4 DEF CandidateInv
<1>6. l \in Seq(Events) /\ Contiguous(l)
  BY <1>2, <1>4, <1>5, ConcatProperties DEF Contiguous
<1>7. m = Appended(l, c, d, Length(l, s))
  <2>1. m = Appended(l, c, d, n)
    BY <1>1, <1>2, <1>4, JoinedAppended
  <2>2. n = Length(l, s)
    <3>1. n = Len(History(l, s))
      BY <1>1, <1>2, <1>5
    <3>2. Len(History(l, s)) = Length(l, s)
      BY <1>6, HistoryLength
    <3> QED
      BY <3>1, <3>2
  <2> QED
    BY <2>1, <2>2
<1>8. ASSUME NEW x \in Streams
      PROVE  Numbered(m, x) /\ History(m, x) = OverlayHistory(x)'
  <2>1. Numbered(l, x) /\ History(l, x) = OverlayHistory(x)
    BY <1>5
  <2>2. Numbered(m, x)
    BY <1>1, <1>2, <1>6, <1>7, <2>1, AppendedNumbered
  <2>3. History(m, x) = IF x = s THEN History(l, x) \o d ELSE History(l, x)
    BY <1>1, <1>2, <1>6, <1>7, AppendedHistory
  <2>4. PICK h, o : h = History(log, x) /\ o = overlay[x]
    OBVIOUS
  <2>5. h \in Seq(Types) /\ o \in Seq(Types)
    <3>1. Numbered(log, x)
      BY DEF IInv, LogInv, Contiguous
    <3> QED
      BY <1>2, <2>4, <3>1, HistoryEntries DEF TypeOK
  <2>6. overlay'[x] = IF x = s THEN o \o d ELSE o
    BY <1>1, <2>4 DEF TypeOK
  <2>7. OverlayHistory(x)' = IF x = s THEN h \o (o \o d) ELSE h \o o
    <3>1. OverlayHistory(x)' = h \o overlay'[x]
      BY <1>1, <2>4 DEF OverlayHistory
    <3>2. CASE x = s
      BY <2>6, <3>1, <3>2
    <3>3. CASE x # s
      BY <2>6, <3>1, <3>3
    <3> QED
      BY <3>2, <3>3
  <2>8. (h \o o) \o d = h \o (o \o d)
    BY <1>2, <2>5, ConcatAssociative
  <2>9. OverlayHistory(x) = h \o o
    BY <2>4 DEF OverlayHistory
  <2> QED
    BY <2>1, <2>2, <2>3, <2>7, <2>8, <2>9
<1>9. PICK r : r = staged'
  OBVIOUS
<1>10. /\ r \in Seq(Events) /\ Len(staged) \in Nat /\ Len(d) \in Nat
       /\ Len(r) = Len(staged) + Len(d)
       /\ \A p \in 1 .. Len(staged) : r[p] = staged[p]
       /\ \A p \in Len(staged) + 1 .. Len(r) : r[p].type = d[p - Len(staged)]
       /\ RowsOf(r, c) = Len(staged) + 1 .. Len(staged) + Len(d)
       /\ \A x : x # c => RowsOf(r, x) = RowsOf(staged, x)
       /\ \A x : RowsOf(staged, x) \subseteq 1 .. Len(staged)
  BY <1>9, AcceptsRows
<1>11. \A b \in 0 .. Len(staged) : SubSeq(r, 1, b) = SubSeq(staged, 1, b)
  <2>1. PICK e : e = Stamped(c, d, n)
    OBVIOUS
  <2>2. e \in Seq(Events) /\ r = staged \o e
    BY <1>1, <1>2, <1>9, <2>1, StampedType DEF Appended
  <2> QED
    BY <1>2, <2>2, JoinedPrefix
<1>12. ASSUME NEW x \in Commands, RowsOf(r, x) # {}
       PROVE  \E base \in 0 .. Len(r) - 1 : DecidedAt(x, base)'
  <2>1. CASE x = c
    <3>1. Len(staged) \in 0 .. Len(r) - 1
      <4>1. Len(d) # 0
        BY <1>10, <1>12, <2>1
      <4> QED
        BY <1>10, <4>1
    <3>2. PICK b : b = Len(staged)
      OBVIOUS
    <3>3. log' \o SubSeq(staged', 1, b) = l
      <4>1. SubSeq(r, 1, b) = staged
        BY <1>2, <1>10, <1>11, <3>2, EndPrefixes
      <4> QED
        BY <1>1, <1>4, <1>9, <4>1
    <3>4. Numbered(l, s) /\ d = Decide(c, History(l, s))
      BY <1>1, <1>2, <1>5
    <3>5. \A j \in 1 .. Len(d) : r[b + j].type = d[j]
      <4> SUFFICES ASSUME NEW j \in 1 .. Len(d) PROVE r[b + j].type = d[j]
        OBVIOUS
      <4>1. b + j \in Len(staged) + 1 .. Len(r) /\ (b + j) - Len(staged) = j
        BY <1>10, <3>2
      <4> QED
        BY <1>10, <4>1
    <3>6. PICK z, e : /\ z = log' \o SubSeq(staged', 1, b)
                      /\ e = Decide(c, History(z, Target[c]))
      OBVIOUS
    <3>7. e = d /\ Numbered(z, Target[c])
      BY <1>1, <3>3, <3>4, <3>6
    <3>8. RowsOf(staged', c) = b + 1 .. b + Len(e)
      BY <1>9, <1>10, <3>2, <3>7
    <3>9. /\ e \in Seq(Types)
          /\ \A j \in 1 .. Len(e) : staged'[b + j].type = e[j]
      BY <1>2, <1>9, <3>5, <3>7
    <3>10. DecidedAt(c, b)'
      BY <3>6, <3>7, <3>8, <3>9 DEF DecidedAt
    <3> QED
      BY <2>1, <3>1, <3>2, <3>10
  <2>2. CASE x # c
    <3>1. RowsOf(r, x) = RowsOf(staged, x)
      BY <1>10, <2>2
    <3>2. PICK base \in 0 .. Len(staged) - 1 : DecidedAt(x, base)
      BY <1>5, <1>12, <3>1
    <3>3. base \in 0 .. Len(r) - 1 /\ base \in 0 .. Len(staged)
      BY <1>10
    <3>4. SubSeq(r, 1, base) = SubSeq(staged, 1, base)
      BY <1>11, <3>3
    <3>5. PICK b, e : /\ b = log \o SubSeq(staged, 1, base)
                      /\ e = Decide(x, History(b, Target[x]))
      OBVIOUS
    <3>6. /\ Numbered(b, Target[x]) /\ e \in Seq(Types)
          /\ RowsOf(staged, x) = base + 1 .. base + Len(e)
          /\ \A j \in 1 .. Len(e) : staged[base + j].type = e[j]
      BY <3>2, <3>5 DEF DecidedAt
    <3>7. \A j \in 1 .. Len(e) : r[base + j].type = e[j]
      <4> SUFFICES ASSUME NEW j \in 1 .. Len(e) PROVE r[base + j].type = e[j]
        OBVIOUS
      <4>1. Len(e) \in Nat
        BY <3>6, LenProperties
      <4>2. base + j \in base + 1 .. base + Len(e)
        BY <4>1
      <4>3. base + j \in 1 .. Len(staged)
        BY <1>10, <3>6, <4>2
      <4> QED
        BY <1>10, <3>6, <4>3
    <3>8. b = log' \o SubSeq(staged', 1, base)
      BY <1>1, <1>9, <3>4, <3>5
    <3>9. RowsOf(staged', x) = base + 1 .. base + Len(e)
      BY <1>9, <3>1, <3>6
    <3>10. DecidedAt(x, base)'
      BY <1>9, <3>5, <3>6, <3>7, <3>8, <3>9 DEF DecidedAt
    <3> QED
      BY <3>3, <3>10
  <2> QED
    BY <2>1, <2>2
<1> QED
  BY <1>1, <1>4, <1>8, <1>9, <1>12

LEMMA DecideAcceptsStep ==
  ASSUME TypeOK, IInv, DecideAccepts PROVE IInv'
<1>1. PICK i \in todo :
        LET c == queue[i]
            d == Decide(c, OverlayHistory(Target[c]))
        IN /\ phase = "decide" /\ IsNext(i)
           /\ d \in Seq(Types)
           /\ Join(c, d)
           /\ todo' = todo \ {i}
           /\ UNCHANGED <<log, queue, done, at, req, phase, verdicts, unchanged>>
  BY DEF DecideAccepts, store, durable, gateway, history
<1>2. PICK c, s : c = queue[i] /\ s = Target[c]
  OBVIOUS
<1>3. PICK d, n : d = Decide(c, OverlayHistory(s)) /\ n = Len(OverlayHistory(s))
  OBVIOUS
<1>4. Accepts(i, c, s, d, n)
  BY <1>1, <1>2, <1>3 DEF Accepts, Join
<1>5. /\ phase = "decide" /\ phase' = "decide" /\ todo' = todo \ {i}
      /\ UNCHANGED <<log, queue, done, at, req, verdicts, unchanged>>
  BY <1>1
<1>6. HistoriesGrow
  BY <1>5 DEF HistoriesGrow
<1>7. /\ LogInv' /\ OrderInv' /\ QueueOrder'
      /\ \A x : PositionsOf(x)' = PositionsOf(x)
      /\ \A x : InQueue(x)' <=> InQueue(x)
      /\ \A x \in Queued : Dealt(x) => Dealt(x)'
  BY <1>5, <1>6, SameLog
<1>8. QueueInv'
  BY <1>5, <1>7 DEF IInv, QueueInv
<1>9. IdleInv' /\ SignalInv'
  BY <1>5 DEF IdleInv, SignalInv
<1>10. DoneInv' /\ DoneIsSettled' /\ AcknowledgedIsDurable'
  <2>1. done \subseteq Queued
    BY DEF TypeOK
  <2> QED
    BY <1>5, <1>7, <2>1 DEF IInv, DoneInv, DoneIsSettled, AcknowledgedIsDurable
<1>11. TodoInv'
  BY <1>5, <1>7 DEF IInv, DecideInv, TodoInv
<1>12. LeftInv'
  <2>1. \A x : InBatch(x)' <=> InBatch(x) \/ x = c
    BY <1>4, AcceptsBatch
  <2>2. \A k \in DOMAIN queue : queue[k] \in Queued
    BY DEF TypeOK
  <2>3. \A k \in DOMAIN queue : queue[k] = c => k = i
    BY <1>4, AcceptsNew
  <2>4. LeftInv
    BY <1>5 DEF IInv, DecideInv
  <2> SUFFICES ASSUME NEW a \in DOMAIN queue, NEW b \in DOMAIN queue, a < b,
                      b \in todo' \/ InBatch(queue[b])'
               PROVE  a \in todo' \/ InBatch(queue[a])' \/ Dealt(queue[a])'
    BY <1>5 DEF LeftInv
  <2>5. PICK x, y : x = queue[a] /\ y = queue[b]
    OBVIOUS
  <2>6. b \in todo' \/ InBatch(y)'
    BY <1>5, <2>5
  <2>7. b \in todo \/ InBatch(y)
    BY <1>5, <2>1, <2>3, <2>5, <2>6
  <2>8. a \in todo \/ InBatch(x) \/ Dealt(x)
    BY <2>4, <2>5, <2>7 DEF LeftInv
  <2>9. a \in todo' \/ InBatch(x)' \/ Dealt(x)'
    BY <1>2, <1>5, <1>7, <2>1, <2>2, <2>5, <2>8
  <2> QED
    BY <1>5, <2>5, <2>9
<1>13. DecideInv'
  BY <1>4, <1>11, <1>12, AcceptsBatchInv, AcceptsStagedInv, AcceptsStreams,
     AcceptsCandidate DEF DecideInv
<1> QED
  BY <1>7, <1>8, <1>9, <1>10, <1>13 DEF IInv

-----------------------------------------------------------------------------
(* A direct append beside the writer.                                      *)

\* DispatchDirect appends the events d of command c to stream s.
Dispatches(c, s, d) ==
  /\ c \in Direct /\ req[c] = "new" /\ s = Target[c]
  /\ d = Decide(c, History(log, s)) /\ d \in Seq(Types) /\ d # << >>
  /\ log' = Appended(log, c, d, Length(log, s))
  /\ req' = [req EXCEPT ![c] = "ok"]
  /\ UNCHANGED <<queue, done, at, phase, todo, batch, overlay, staged,
                 verdicts, unchanged>>

\* What it does to the log.
LEMMA DispatchesLog ==
  ASSUME TypeOK, IInv, NEW c, NEW s, NEW d, Dispatches(c, s, d)
  PROVE  /\ c \in Commands /\ c \notin Queued /\ s \in Streams
         /\ log \in Seq(Events) /\ log' \in Seq(Events)
         /\ Len(log) \in Nat /\ Len(d) \in Nat /\ Len(d) > 0
         /\ Len(log') = Len(log) + Len(d)
         /\ \A p \in 1 .. Len(log) : log'[p] = log[p]
         /\ \A p \in Len(log) + 1 .. Len(log') :
              /\ log'[p].by = c /\ log'[p].stream = s
              /\ log'[p].type = d[p - Len(log)]
         /\ PositionsOf(c) = {}
         /\ RowsOf(log', c) = Len(log) + 1 .. Len(log) + Len(d)
         /\ \A x : x # c =>
              /\ RowsOf(log', x) = RowsOf(log, x)
              /\ \A ts \in Seq(Types) : Holds(log, x, ts) => Holds(log', x, ts)
         /\ \A x : RowsOf(log, x) \subseteq 1 .. Len(log)
<1>1. PICK r, n : r = log' /\ n = Length(log, s)
  OBVIOUS
<1>2. r = Appended(log, c, d, n) /\ s = Target[c] /\ d \in Seq(Types) /\ d # << >>
  BY <1>1 DEF Dispatches
<1>3. c \in Commands /\ c \notin Queued /\ s \in Streams
  BY <1>2, BatchingAssumption, CommandsAssumption DEF Dispatches, Queued
<1>4. log \in Seq(Events) /\ n \in Nat
  BY <1>1, StreamFinite DEF TypeOK
<1>5. PositionsOf(c) = {}
  BY DEF Dispatches, IInv, QueueInv
<1>6. /\ r \in Seq(Events)
      /\ Len(log) \in Nat /\ Len(d) \in Nat
      /\ Len(r) = Len(log) + Len(d)
      /\ DOMAIN log = 1 .. Len(log)
      /\ \A p \in 1 .. Len(log) : r[p] = log[p]
      /\ \A p \in Len(log) + 1 .. Len(r) :
           /\ r[p].by = c /\ r[p].stream = s
           /\ r[p].type = d[p - Len(log)]
  BY <1>2, <1>3, <1>4, AppendedRows
<1>7. Len(d) > 0
  BY <1>2, <1>6, EmptySeq
<1>8. RowsOf(r, c) = Len(log) + 1 .. Len(log) + Len(d)
  <2>1. RowsOf(log, c) = {}
    BY <1>5 DEF PositionsOf
  <2> QED
    BY <1>2, <1>3, <1>4, <2>1, AppendedHolds
<1>9. ASSUME NEW x, x # c
      PROVE  /\ RowsOf(r, x) = RowsOf(log, x)
             /\ \A ts \in Seq(Types) : Holds(log, x, ts) => Holds(r, x, ts)
  BY <1>2, <1>3, <1>4, <1>9, AppendedOthers
<1>10. \A x : RowsOf(log, x) \subseteq 1 .. Len(log)
  BY <1>6 DEF RowsOf
<1> QED
  BY <1>1, <1>3, <1>4, <1>5, <1>6, <1>7, <1>8, <1>9, <1>10

\* ... and to its streams.
LEMMA DispatchesStreams ==
  ASSUME TypeOK, IInv, NEW c, NEW s, NEW d, Dispatches(c, s, d)
  PROVE  /\ \A x \in Streams :
              /\ Numbered(log', x)
              /\ Length(log, x) \in Nat
              /\ x = s => Length(log', x) = Length(log, x) + Len(d)
              /\ x # s => Length(log', x) = Length(log, x)
              /\ x # s => History(log', x) = History(log, x)
         /\ \E e \in Seq(Events) :
              /\ log' = log \o e
              /\ \A x : x # s => StreamOf(e, x) = {}
<1>1. PICK r : r = log'
  OBVIOUS
<1>2. /\ r = Appended(log, c, d, Length(log, s)) /\ s = Target[c]
      /\ d \in Seq(Types)
  BY <1>1 DEF Dispatches
<1>3. c \in Commands /\ s \in Streams /\ log \in Seq(Events)
  BY DispatchesLog
<1>4. Contiguous(log)
  BY DEF IInv, LogInv
<1>5. ASSUME NEW x \in Streams
      PROVE  /\ Numbered(r, x)
             /\ Length(log, x) \in Nat
             /\ x = s => Length(r, x) = Length(log, x) + Len(d)
             /\ x # s => Length(r, x) = Length(log, x)
             /\ x # s => History(r, x) = History(log, x)
  <2>1. Numbered(log, x)
    BY <1>4 DEF Contiguous
  <2>2. Numbered(r, x)
    BY <1>2, <1>3, <2>1, AppendedNumbered
  <2>3. Length(log, s) \in Nat /\ Length(log, x) \in Nat
    BY <1>3, StreamFinite
  <2>4. /\ x = s => Length(r, x) = Length(log, x) + Len(d)
        /\ x # s => Length(r, x) = Length(log, x)
    BY <1>2, <1>3, <2>3, AppendedLength
  <2>5. x # s => History(r, x) = History(log, x)
    BY <1>2, <1>3, <1>4, AppendedHistory
  <2> QED
    BY <2>2, <2>3, <2>4, <2>5
<1>6. PICK n, e : n = Length(log, s) /\ e = Stamped(c, d, n)
  OBVIOUS
<1>7. /\ e \in Seq(Events) /\ Len(e) = Len(d)
      /\ \A i \in 1 .. Len(d) : e[i].stream = s
  <2>1. n \in Nat
    BY <1>3, <1>6, StreamFinite
  <2>2. /\ e \in Seq(Events) /\ Len(e) = Len(d)
        /\ \A i \in 1 .. Len(d) :
             e[i] = [stream |-> Target[c], seq |-> n + i, type |-> d[i],
                     by |-> c, imported |-> FALSE]
    BY <1>2, <1>3, <1>6, <2>1, StampedType
  <2>3. ASSUME NEW i \in 1 .. Len(d) PROVE e[i].stream = Target[c]
    <3>1. PICK t, y : t = Target[c] /\ y = d[i]
      OBVIOUS
    <3>2. e[i] = [stream |-> t, seq |-> n + i, type |-> y, by |-> c, imported |-> FALSE]
      BY <2>2, <3>1
    <3>3. e[i].stream = t
      BY <3>2
    <3> QED
      BY <3>1, <3>3
  <2>4. \A i \in 1 .. Len(d) : e[i].stream = s
    BY <1>2, <2>3, Zenon
  <2> QED
    BY <2>2, <2>4
<1>8. r = log \o e
  BY <1>2, <1>6 DEF Appended
<1>9. \A x : x # s => StreamOf(e, x) = {}
  <2>1. DOMAIN e = 1 .. Len(d)
    BY <1>7
  <2> QED
    BY <1>7, <2>1 DEF StreamOf
<1> QED
  BY <1>1, <1>5, <1>7, <1>8, <1>9

\* It is decided on the log, at once.
LEMMA DispatchesSerially ==
  ASSUME TypeOK, IInv, NEW c, NEW s, NEW d, Dispatches(c, s, d)
  PROVE  AppliedSerially'
<1>1. PICK r : r = log'
  OBVIOUS
<1>2. /\ c \in Commands /\ s = Target[c] /\ d = Decide(c, History(log, s))
      /\ d \in Seq(Types)
  BY DispatchesLog DEF Dispatches
<1>3. /\ log \in Seq(Events) /\ r \in Seq(Events)
      /\ Len(log) \in Nat /\ Len(d) \in Nat /\ Len(d) > 0
      /\ Len(r) = Len(log) + Len(d)
      /\ \A p \in 1 .. Len(log) : r[p] = log[p]
      /\ \A p \in Len(log) + 1 .. Len(r) : r[p].type = d[p - Len(log)]
      /\ RowsOf(r, c) = Len(log) + 1 .. Len(log) + Len(d)
      /\ \A x : x # c => RowsOf(r, x) = RowsOf(log, x)
      /\ \A x : RowsOf(log, x) \subseteq 1 .. Len(log)
  BY <1>1, DispatchesLog
<1>4. \A b \in 0 .. Len(log) : SubSeq(r, 1, b) = SubSeq(log, 1, b)
  <2>1. PICK e \in Seq(Events) : r = log \o e
    BY <1>1, DispatchesStreams
  <2> QED
    BY <1>3, <2>1, JoinedPrefix
<1>5. ASSUME NEW x \in Commands, RowsOf(r, x) # {}
      PROVE  \E base \in 0 .. Len(r) - 1 : \E e :
               /\ e = Decide(x, History(SubSeq(r, 1, base), Target[x]))
               /\ e \in Seq(Types)
               /\ RowsOf(r, x) = base + 1 .. base + Len(e)
               /\ \A i \in 1 .. Len(e) : r[base + i].type = e[i]
  <2>1. CASE x = c
    <3>1. PICK b : b = Len(log)
      OBVIOUS
    <3>2. b \in 0 .. Len(r) - 1
      BY <1>3, <3>1
    <3>3. SubSeq(r, 1, b) = log
      BY <1>3, <1>4, <3>1, EndPrefixes
    <3>4. d = Decide(x, History(SubSeq(r, 1, b), Target[x]))
      BY <1>2, <2>1, <3>3
    <3>5. ASSUME NEW i \in 1 .. Len(d) PROVE r[b + i].type = d[i]
      <4>1. b + i \in Len(log) + 1 .. Len(r) /\ (b + i) - Len(log) = i
        BY <1>3, <3>1
      <4> QED
        BY <1>3, <4>1
    <3> QED
      BY <1>2, <1>3, <2>1, <3>1, <3>2, <3>4, <3>5
  <2>2. CASE x # c
    <3>1. RowsOf(r, x) = RowsOf(log, x)
      BY <1>3, <2>2
    <3>2. PICK base \in 0 .. Len(log) - 1 :
            LET e == Decide(x, History(SubSeq(log, 1, base), Target[x]))
            IN /\ e \in Seq(Types)
               /\ RowsOf(log, x) = base + 1 .. base + Len(e)
               /\ \A i \in 1 .. Len(e) : log[base + i].type = e[i]
      BY <1>5, <3>1 DEF IInv, LogInv, AppliedSerially, PositionsOf, Before
    <3>3. PICK e : e = Decide(x, History(SubSeq(log, 1, base), Target[x]))
      OBVIOUS
    <3>4. /\ e \in Seq(Types) /\ RowsOf(log, x) = base + 1 .. base + Len(e)
          /\ \A i \in 1 .. Len(e) : log[base + i].type = e[i]
      BY <3>2, <3>3
    <3>5. base \in 0 .. Len(r) - 1 /\ base \in 0 .. Len(log)
      BY <1>3
    <3>6. e = Decide(x, History(SubSeq(r, 1, base), Target[x]))
      BY <1>4, <3>3, <3>5
    <3>7. ASSUME NEW i \in 1 .. Len(e) PROVE r[base + i].type = e[i]
      <4>1. Len(e) \in Nat
        BY <3>4, LenProperties
      <4>2. base + i \in base + 1 .. base + Len(e)
        BY <4>1
      <4>3. base + i \in 1 .. Len(log)
        BY <1>3, <3>4, <4>2
      <4> QED
        BY <1>3, <3>4, <4>3
    <3> QED
      BY <3>1, <3>4, <3>5, <3>6, <3>7
  <2> QED
    BY <2>1, <2>2
<1> QED
  BY <1>1, <1>5 DEF AppliedSerially, PositionsOf, Before

\* If the window still is on time then the append was to a stream it has not
\* touched, and goes unnoticed by what it holds.
LEMMA DispatchesCandidate ==
  ASSUME TypeOK, IInv, phase = "decide",
         NEW c, NEW s, NEW d, Dispatches(c, s, d)
  PROVE  CandidateInv'
<1> SUFFICES ASSUME OnTime'
             PROVE  /\ \A x \in Streams :
                         /\ Numbered(log' \o staged', x)
                         /\ History(log' \o staged', x) = OverlayHistory(x)'
                    /\ \A x \in Commands :
                         RowsOf(staged', x) # {} =>
                           \E base \in 0 .. Len(staged') - 1 : DecidedAt(x, base)'
  BY DEF CandidateInv
<1>1. UNCHANGED <<batch, overlay, staged>>
  BY DEF Dispatches
<1>2. CandidateInv /\ LoadedInv /\ UntouchedInv /\ StagedInv
  BY DEF IInv, DecideInv
<1>3. PICK r : r = log'
  OBVIOUS
<1>4. /\ s \in Streams /\ log \in Seq(Events) /\ r \in Seq(Events)
      /\ staged \in Seq(Events)
      /\ Len(d) \in Nat /\ Len(d) > 0
  BY <1>3, DispatchesLog DEF TypeOK
<1>5. \A x \in Streams :
        /\ Numbered(r, x)
        /\ Length(log, x) \in Nat
        /\ x = s => Length(r, x) = Length(log, x) + Len(d)
        /\ x # s => Length(r, x) = Length(log, x)
        /\ x # s => History(r, x) = History(log, x)
  BY <1>3, DispatchesStreams
<1>6. PICK e \in Seq(Events) : r = log \o e /\ \A x : x # s => StreamOf(e, x) = {}
  BY <1>3, DispatchesStreams
<1>7. ASSUME NEW k \in DOMAIN batch, Earlier(batch, k) = {}
      PROVE  /\ batch[k].expected = Length(log, Target[batch[k].cmd])
             /\ Target[batch[k].cmd] # s
  <2>1. PICK x : x = Target[batch[k].cmd]
    OBVIOUS
  <2>2. x \in Streams /\ batch[k].expected \in Nat
    BY <2>1, BatchEntry
  <2>3. batch[k].expected = Length(r, x)
    BY <1>1, <1>3, <1>7, <2>1 DEF OnTime
  <2>4. batch[k].expected <= Length(log, x)
    BY <1>2, <1>7, <2>1 DEF LoadedInv
  <2>5. x # s
    BY <1>4, <1>5, <2>2, <2>3, <2>4
  <2> QED
    BY <1>5, <2>1, <2>2, <2>3, <2>5
<1>8. OnTime
  BY <1>7 DEF OnTime
<1>9. \A k \in DOMAIN batch : Target[batch[k].cmd] # s
  BY <1>2, <1>7 DEF LoadedInv
<1>10. overlay[s] = << >> /\ StreamOf(staged, s) = {}
  BY <1>2, <1>4, <1>9 DEF UntouchedInv
<1>11. /\ \A x \in Streams : /\ Numbered(log \o staged, x)
                             /\ History(log \o staged, x) = OverlayHistory(x)
       /\ \A x \in Commands :
            RowsOf(staged, x) # {} => \E base \in 0 .. Len(staged) - 1 : DecidedAt(x, base)
  BY <1>2, <1>8 DEF CandidateInv
<1>12. ASSUME NEW x \in Streams
       PROVE  /\ Numbered(r \o staged, x)
              /\ History(r \o staged, x) = OverlayHistory(x)'
  <2>1. PICK o : o = overlay[x]
    OBVIOUS
  <2>2. OverlayHistory(x)' = History(r, x) \o o
    BY <1>1, <1>3, <2>1 DEF OverlayHistory
  <2>3. CASE x = s
    <3>1. Numbered(r \o staged, x) /\ History(r \o staged, x) = History(r, x)
      BY <1>4, <1>5, <1>10, <2>3, ForeignTail
    <3>2. PICK h : h = History(r, x)
      OBVIOUS
    <3>3. h \in Seq(Types)
      BY <1>4, <1>5, <3>2, HistoryEntries
    <3>4. h \o << >> = h
      BY <3>3, ConcatEmptySeq
    <3>5. o = << >>
      BY <1>10, <2>1, <2>3
    <3>6. OverlayHistory(x)' = h
      BY <2>2, <3>2, <3>4, <3>5
    <3> QED
      BY <3>1, <3>2, <3>6
  <2>4. CASE x # s
    <3>1. Numbered(log \o staged, x) /\ History(log \o staged, x) = History(log, x) \o o
      BY <1>11, <2>1 DEF OverlayHistory
    <3>2. StreamOf(e, x) = {}
      BY <1>6, <2>4
    <3>3. /\ Numbered((log \o e) \o staged, x)
          /\ History((log \o e) \o staged, x) = History(log \o staged, x)
      BY <1>4, <3>1, <3>2, InsertedForeign
    <3>4. History(r, x) = History(log, x)
      BY <1>5, <2>4
    <3> QED
      BY <1>6, <2>2, <3>1, <3>3, <3>4
  <2> QED
    BY <2>3, <2>4
<1>13. ASSUME NEW x \in Commands, RowsOf(staged, x) # {}
       PROVE  \E base \in 0 .. Len(staged) - 1 : DecidedAt(x, base)'
  <2>1. PICK base \in 0 .. Len(staged) - 1 : DecidedAt(x, base)
    BY <1>11, <1>13
  <2>2. PICK t : t = Target[x]
    OBVIOUS
  <2>3. t # s
    BY <1>2, <1>9, <1>13, <2>2 DEF StagedInv, InBatch
  <2>4. PICK y : y = SubSeq(staged, 1, base)
    OBVIOUS
  <2>5. y \in Seq(Events)
    <3>1. Len(staged) \in Nat
      BY <1>4, LenProperties
    <3>2. base \in 0 .. Len(staged)
      BY <3>1
    <3> QED
      BY <1>4, <2>4, <3>2, Prefix
  <2>6. PICK z : z = Decide(x, History(log \o y, t))
    OBVIOUS
  <2>7. /\ Numbered(log \o y, t) /\ z \in Seq(Types)
        /\ RowsOf(staged, x) = base + 1 .. base + Len(z)
        /\ \A i \in 1 .. Len(z) : staged[base + i].type = z[i]
    BY <2>1, <2>2, <2>4, <2>6 DEF DecidedAt
  <2>8. StreamOf(e, t) = {}
    BY <1>6, <2>3
  <2>9. /\ Numbered((log \o e) \o y, t)
        /\ History((log \o e) \o y, t) = History(log \o y, t)
    BY <1>4, <2>5, <2>7, <2>8, InsertedForeign
  <2>10. Numbered(r \o y, t) /\ z = Decide(x, History(r \o y, t))
    BY <1>6, <2>6, <2>9
  <2>11. PICK w : w = log' \o SubSeq(staged', 1, base)
    OBVIOUS
  <2>12. w = r \o y
    BY <1>1, <1>3, <2>4, <2>11
  <2>13. Numbered(w, Target[x]) /\ z = Decide(x, History(w, Target[x]))
    BY <2>2, <2>10, <2>12
  <2>14. /\ RowsOf(staged', x) = base + 1 .. base + Len(z)
         /\ \A i \in 1 .. Len(z) : staged'[base + i].type = z[i]
    BY <1>1, <2>7
  <2>15. DecidedAt(x, base)'
    BY <2>7, <2>11, <2>13, <2>14 DEF DecidedAt
  <2> QED
    BY <2>1, <2>15
<1> QED
  BY <1>1, <1>3, <1>12, <1>13

LEMMA DispatchesStep ==
  ASSUME TypeOK, IInv, NEW c, NEW s, NEW d, Dispatches(c, s, d)
  PROVE  IInv'
<1>1. /\ UNCHANGED <<queue, done, at, phase, todo, batch, overlay, staged,
                     verdicts, unchanged>>
      /\ c \in Direct /\ req' = [req EXCEPT ![c] = "ok"] /\ s = Target[c]
  BY DEF Dispatches
<1>2. PICK r : r = log'
  OBVIOUS
<1>3. /\ c \in Commands /\ c \notin Queued /\ s \in Streams
      /\ Len(log) \in Nat /\ Len(d) \in Nat /\ Len(d) > 0
      /\ log \in Seq(Events) /\ r \in Seq(Events)
      /\ Len(r) = Len(log) + Len(d)
      /\ \A p \in 1 .. Len(log) : r[p] = log[p]
      /\ \A p \in Len(log) + 1 .. Len(r) : r[p].by = c /\ r[p].stream = s
      /\ \A x : x # c =>
           /\ RowsOf(r, x) = RowsOf(log, x)
           /\ \A ts \in Seq(Types) : Holds(log, x, ts) => Holds(r, x, ts)
  BY <1>2, DispatchesLog
<1>4. \A x \in Queued : x # c
  BY <1>3
<1>5. /\ \A x : x # c => PositionsOf(x)' = PositionsOf(x)
      /\ \A x : InQueue(x)' <=> InQueue(x)
      /\ \A x : InOrder(x)' <=> InOrder(x)
      /\ \A x : InBatch(x)' <=> InBatch(x)
  BY <1>1, <1>2, <1>3 DEF PositionsOf, InQueue, InOrder, InBatch
<1>6. \A x \in Queued : Dealt(x)' <=> Dealt(x)
  BY <1>4, <1>5 DEF Dealt
<1>7. \A i \in DOMAIN queue : queue[i] \in Queued
  BY DEF TypeOK
<1>8. LogInv'
  <2>1. Contiguous(log)'
    BY DispatchesStreams DEF Contiguous
  <2>2. OwnRows(r)
    <3> SUFFICES ASSUME NEW p \in DOMAIN r
                 PROVE  r[p].by \in Commands /\ r[p].stream = Target[r[p].by]
      BY DEF OwnRows
    <3>1. p \in 1 .. Len(log) + Len(d)
      BY <1>3, LenProperties
    <3>2. CASE p \in 1 .. Len(log)
      <4>1. p \in DOMAIN log
        BY <1>3, <3>2, LenProperties
      <4> QED
        BY <1>3, <3>2, <4>1 DEF IInv, LogInv, OwnRows
    <3>3. CASE p \in Len(log) + 1 .. Len(r)
      BY <1>1, <1>3, <3>3
    <3> QED
      BY <1>3, <3>1, <3>2, <3>3
  <2>3. AppliedSerially'
    BY DispatchesSerially
  <2> QED
    BY <1>2, <2>1, <2>2, <2>3 DEF LogInv
<1>9. QueueInv'
  <2>1. QueueInv
    BY DEF IInv
  <2>2. Direct \subseteq Commands /\ Queued \subseteq Commands
    BY BatchingAssumption DEF Queued
  <2>3. /\ \A x \in Queued : req'[x] = req[x]
        /\ \A x \in Direct : req'[x] = "new" => x # c /\ req[x] = "new"
    BY <1>1, <1>3, <2>2 DEF TypeOK
  <2>4. \A x \in Queued : at[x] \in Nat /\ at[x] <= Len(r)
    BY <1>3, <2>1 DEF TypeOK, QueueInv
  <2> QED
    BY <1>1, <1>2, <1>4, <1>5, <2>1, <2>3, <2>4 DEF QueueInv
<1>10. IdleInv'
  BY <1>1 DEF IInv, IdleInv
<1>11. DecideInv'
  <2> SUFFICES ASSUME phase = "decide"
               PROVE  /\ TodoInv' /\ BatchInv' /\ StagedInv' /\ LoadedInv'
                      /\ UntouchedInv' /\ CandidateInv' /\ LeftInv'
    BY <1>1 DEF DecideInv
  <2>1. /\ TodoInv /\ BatchInv /\ StagedInv /\ LoadedInv /\ UntouchedInv /\ LeftInv
    BY DEF IInv, DecideInv
  <2>2. todo \subseteq DOMAIN queue
    BY DEF TypeOK
  <2>3. TodoInv'
    <3>1. \A i \in todo : PositionsOf(queue[i]) = {} /\ queue[i] # c
      BY <1>4, <1>7, <2>1, <2>2 DEF TodoInv
    <3>2. \A i \in todo : RowsOf(r, queue[i]) = {}
      BY <1>3, <3>1 DEF PositionsOf
    <3> QED
      BY <1>1, <1>2, <3>2 DEF TodoInv, PositionsOf
  <2>4. BatchInv'
    <3>1. \A k \in DOMAIN batch : batch[k].cmd # c
      BY <1>4, BatchEntry
    <3>2. \A k \in DOMAIN batch : RowsOf(r, batch[k].cmd) = {}
      BY <1>3, <2>1, <3>1 DEF BatchInv, PositionsOf
    <3> QED
      BY <1>1, <1>2, <2>1, <3>2 DEF BatchInv, PositionsOf, InQueue
  <2>5. StagedInv'
    <3>1. OwnRows(staged)'
      BY <1>1, <2>1 DEF StagedInv
    <3> QED
      BY <1>1, <1>5, <2>1, <3>1 DEF StagedInv
  <2>6. LoadedInv'
    <3>1. \A x \in Streams : /\ Length(log, x) \in Nat
                             /\ Length(r, x) \in Nat
                             /\ Length(log, x) <= Length(r, x)
      <4>1. \A x \in Streams : /\ Length(log, x) \in Nat
                               /\ x = s => Length(r, x) = Length(log, x) + Len(d)
                               /\ x # s => Length(r, x) = Length(log, x)
        BY <1>2, DispatchesStreams
      <4> QED
        BY <1>3, <4>1
    <3>2. \A k \in DOMAIN batch : Earlier(batch, k) = {} =>
            batch[k].expected <= Length(r, Target[batch[k].cmd])
      <4> SUFFICES ASSUME NEW k \in DOMAIN batch, Earlier(batch, k) = {}
                   PROVE  batch[k].expected <= Length(r, Target[batch[k].cmd])
        OBVIOUS
      <4>1. PICK m, x : m = batch[k].expected /\ x = Target[batch[k].cmd]
        OBVIOUS
      <4>2. m \in Nat /\ x \in Streams
        BY <4>1, BatchEntry
      <4>3. m <= Length(log, x)
        BY <2>1, <4>1 DEF LoadedInv
      <4>4. m <= Length(r, x)
        BY <3>1, <4>2, <4>3
      <4> QED
        BY <4>1, <4>4
    <3> QED
      BY <1>1, <1>2, <2>1, <3>2 DEF LoadedInv
  <2>7. UntouchedInv'
    BY <1>1, <2>1 DEF UntouchedInv
  <2>8. CandidateInv'
    BY DispatchesCandidate
  <2>9. LeftInv'
    BY <1>1, <1>5, <1>6, <1>7, <2>1 DEF LeftInv
  <2> QED
    BY <2>3, <2>4, <2>5, <2>6, <2>7, <2>8, <2>9
<1>12. SignalInv'
  <2> SUFFICES ASSUME phase = "signal", NEW k \in DOMAIN batch
               PROVE  /\ batch[k].types = << >> => batch[k].cmd \in unchanged
                      /\ Holds(r, batch[k].cmd, batch[k].types)
                      /\ k \notin todo => verdicts[batch[k].cmd] # {}
    BY <1>1, <1>2 DEF SignalInv
  <2>1. /\ batch[k].types = << >> => batch[k].cmd \in unchanged
        /\ Holds(log, batch[k].cmd, batch[k].types)
        /\ k \notin todo => verdicts[batch[k].cmd] # {}
    BY DEF IInv, SignalInv
  <2>2. batch[k].cmd # c /\ batch[k].types \in Seq(Types)
    BY <1>4, BatchEntry
  <2> QED
    BY <1>3, <2>1, <2>2
<1>13. DoneInv' /\ DoneIsSettled'
  <2>1. done \subseteq Queued
    BY DEF TypeOK
  <2> QED
    BY <1>1, <1>4, <1>5, <1>6, <2>1 DEF IInv, DoneInv, DoneIsSettled
<1>14. OrderInv'
  <2>1. \A i \in DOMAIN queue : RowsOf(r, queue[i]) = RowsOf(log, queue[i])
    BY <1>3, <1>4, <1>7
  <2> QED
    BY <1>1, <1>2, <1>6, <1>7, <2>1 DEF IInv, OrderInv, PositionsOf
<1>15. QueueOrder'
  <2>1. \A i \in DOMAIN queue : RowsOf(r, queue[i]) = RowsOf(log, queue[i])
    BY <1>3, <1>4, <1>7
  <2> QED
    BY <1>1, <1>2, <1>5, <1>7, <2>1 DEF IInv, QueueOrder, PositionsOf
<1>16. AcknowledgedIsDurable'
  <2> SUFFICES ASSUME NEW x \in Queued, NEW v \in verdicts[x],
                      v.kind = "ok", v.types # << >>
               PROVE  Holds(r, x, v.types)
    BY <1>1, <1>2 DEF AcknowledgedIsDurable
  <2>1. v \in Outcomes
    BY DEF TypeOK
  <2>2. v.types \in Seq(Types)
    BY <2>1, OutcomeKind
  <2>3. Holds(log, x, v.types)
    BY DEF IInv, AcknowledgedIsDurable
  <2> QED
    BY <1>3, <1>4, <2>2, <2>3
<1> QED
  BY <1>8, <1>9, <1>10, <1>11, <1>12, <1>13, <1>14, <1>15, <1>16 DEF IInv

LEMMA DispatchDirectStep ==
  ASSUME TypeOK, IInv, NEW c \in Direct, DispatchDirect(c) PROVE IInv'
<1>1. PICK s, d : s = Target[c] /\ d = Decide(c, History(log, s))
  OBVIOUS
<1>2. /\ req[c] = "new"
      /\ \/ /\ d \in Seq(Types)
            /\ log' = Appended(log, c, d, Length(log, s))
            /\ req' = [req EXCEPT ![c] = "ok"]
         \/ /\ req' = [req EXCEPT ![c] = "rejected"]
            /\ UNCHANGED log
      /\ UNCHANGED <<queue, done, at, phase, todo, batch, overlay, staged,
                     verdicts, unchanged>>
  BY <1>1 DEF DispatchDirect, durable, writer, history
<1>3. CASE d \in Seq(Types) /\ d # << >> /\ log' = Appended(log, c, d, Length(log, s))
           /\ req' = [req EXCEPT ![c] = "ok"]
  <2>1. Dispatches(c, s, d)
    BY <1>1, <1>2, <1>3 DEF Dispatches
  <2> QED
    BY <2>1, DispatchesStep
<1>4. CASE UNCHANGED log /\ \E step \in {"ok", "rejected"} : req' = [req EXCEPT ![c] = step]
  <2>1. Direct \subseteq Commands /\ c \notin Queued /\ Queued \subseteq Commands
    BY BatchingAssumption DEF Queued
  <2>2. /\ \A x \in Queued : req'[x] = req[x]
        /\ \A x \in Direct : req'[x] = "new" => req[x] = "new"
    BY <1>4, <2>1 DEF TypeOK
  <2>3. QueueInv'
    BY <1>2, <1>4, <2>2 DEF IInv, QueueInv, InQueue, PositionsOf
  <2> QED
    BY <1>2, <1>4, <2>3, Frame
<1>5. ASSUME d = << >>, log' = Appended(log, c, d, Length(log, s)) PROVE UNCHANGED log
  <2>1. PICK n, e : n = Length(log, s) /\ e = Stamped(c, d, n)
    OBVIOUS
  <2>2. d \in Seq(Types) /\ Len(d) = 0 /\ n \in Nat /\ c \in Commands
    BY <1>5, <2>1, EmptySeq, StreamFinite, BatchingAssumption DEF TypeOK
  <2>3. e \in Seq(Events) /\ Len(e) = 0
    BY <2>1, <2>2, StampedType
  <2>4. e = << >>
    BY <2>3, EmptySeq
  <2>5. log' = log \o e
    BY <1>5, <2>1 DEF Appended
  <2> QED
    BY <2>4, <2>5, ConcatEmptySeq DEF TypeOK
<1> QED
  BY <1>2, <1>3, <1>4, <1>5

-----------------------------------------------------------------------------
(* The commit of the window.                                               *)

\* What the validation pass of CommitBatch establishes.
LEMMA CommitOnTime ==
  ASSUME TypeOK, IInv, SequencesMatch(log, batch) PROVE OnTime
<1> SUFFICES ASSUME NEW k \in DOMAIN batch, Earlier(batch, k) = {}
             PROVE  batch[k].expected = Length(log, Target[batch[k].cmd])
  BY DEF OnTime
<1>1. PICK s : s = Target[batch[k].cmd]
  OBVIOUS
<1>2. s \in Streams /\ k \in 1 .. Len(batch)
  BY <1>1, BatchEntry DEF TypeOK
<1>3. batch[k].expected = CurrentSequence(log, s)
  BY <1>1, <1>2 DEF SequencesMatch
<1>4. Numbered(log, s)
  BY <1>2 DEF IInv, LogInv, Contiguous
<1>5. CurrentSequence(log, s) = Length(log, s)
  BY <1>4, CurrentIsLength DEF TypeOK
<1> QED
  BY <1>1, <1>3, <1>5

\* The rows of the window are put after those of the log.
LEMMA CommitRows ==
  ASSUME TypeOK, IInv, CommitBatch, NEW r, r = log'
  PROVE  /\ r = log \o staged /\ r \in Seq(Events)
         /\ log \in Seq(Events) /\ staged \in Seq(Events)
         /\ Len(log) \in Nat /\ Len(staged) \in Nat
         /\ Len(r) = Len(log) + Len(staged)
         /\ DOMAIN log = 1 .. Len(log) /\ DOMAIN staged = 1 .. Len(staged)
         /\ DOMAIN r = 1 .. Len(r)
         /\ \A p \in 1 .. Len(log) : r[p] = log[p]
         /\ \A p \in 1 .. Len(staged) : r[Len(log) + p] = staged[p]
         /\ \A x : /\ RowsOf(r, x) =
                        RowsOf(log, x) \cup {Len(log) + p : p \in RowsOf(staged, x)}
                   /\ RowsOf(log, x) \subseteq 1 .. Len(log)
                   /\ RowsOf(staged, x) \subseteq 1 .. Len(staged)
         /\ \A x \in Commands :
              RowsOf(staged, x) # {} => InBatch(x) /\ RowsOf(log, x) = {}
<1>1. r = log \o staged /\ log \in Seq(Events) /\ staged \in Seq(Events)
  BY DEF CommitBatch, TypeOK
<1>2. /\ r \in Seq(Events)
      /\ Len(log) \in Nat /\ Len(staged) \in Nat
      /\ Len(r) = Len(log) + Len(staged)
      /\ DOMAIN log = 1 .. Len(log) /\ DOMAIN staged = 1 .. Len(staged)
      /\ DOMAIN r = 1 .. Len(log) + Len(staged)
      /\ \A p \in 1 .. Len(log) : r[p] = log[p]
      /\ \A p \in 1 .. Len(staged) : r[Len(log) + p] = staged[p]
  BY <1>1, Joined
<1>3. \A x : /\ RowsOf(r, x) =
                  RowsOf(log, x) \cup {Len(log) + p : p \in RowsOf(staged, x)}
             /\ RowsOf(log, x) \subseteq 1 .. Len(log)
             /\ RowsOf(staged, x) \subseteq 1 .. Len(staged)
  BY <1>1, JoinedRowsOf
<1>4. BatchInv /\ StagedInv
  BY DEF CommitBatch, IInv, DecideInv
<1>5. \A x \in Commands :
        RowsOf(staged, x) # {} => InBatch(x) /\ RowsOf(log, x) = {}
  BY <1>4 DEF BatchInv, StagedInv, InBatch, PositionsOf
<1> QED
  BY <1>1, <1>2, <1>3, <1>5

\* Every command is in the log on the history before it: those of the log as
\* they were, those of the window as they were decided.
LEMMA CommitSerially ==
  ASSUME TypeOK, IInv, CommitBatch PROVE AppliedSerially'
<1>1. PICK r : r = log'
  OBVIOUS
<1>2. /\ r = log \o staged /\ r \in Seq(Events)
      /\ log \in Seq(Events) /\ staged \in Seq(Events)
      /\ Len(log) \in Nat /\ Len(staged) \in Nat
      /\ Len(r) = Len(log) + Len(staged)
      /\ \A p \in 1 .. Len(log) : r[p] = log[p]
      /\ \A p \in 1 .. Len(staged) : r[Len(log) + p] = staged[p]
      /\ \A x : /\ RowsOf(r, x) =
                     RowsOf(log, x) \cup {Len(log) + p : p \in RowsOf(staged, x)}
                /\ RowsOf(log, x) \subseteq 1 .. Len(log)
                /\ RowsOf(staged, x) \subseteq 1 .. Len(staged)
      /\ \A x \in Commands :
           RowsOf(staged, x) # {} => InBatch(x) /\ RowsOf(log, x) = {}
  BY <1>1, CommitRows
<1>3. /\ \A b \in 0 .. Len(log) : SubSeq(r, 1, b) = SubSeq(log, 1, b)
      /\ \A b \in 0 .. Len(staged) :
           SubSeq(r, 1, Len(log) + b) = log \o SubSeq(staged, 1, b)
  BY <1>2, JoinedPrefix
<1>4. CandidateInv /\ OnTime
  BY CommitOnTime DEF CommitBatch, IInv, DecideInv
<1>5. ASSUME NEW x \in Commands, RowsOf(r, x) # {}
      PROVE  \E base \in 0 .. Len(r) - 1 : \E e :
               /\ e = Decide(x, History(SubSeq(r, 1, base), Target[x]))
               /\ e \in Seq(Types)
               /\ RowsOf(r, x) = base + 1 .. base + Len(e)
               /\ \A i \in 1 .. Len(e) : r[base + i].type = e[i]
  <2>1. CASE RowsOf(staged, x) = {}
    <3>1. RowsOf(r, x) = RowsOf(log, x)
      <4>1. {Len(log) + p : p \in RowsOf(staged, x)} = {}
        BY <2>1
      <4> QED
        BY <1>2, <4>1
    <3>2. PICK base \in 0 .. Len(log) - 1 :
            LET e == Decide(x, History(SubSeq(log, 1, base), Target[x]))
            IN /\ e \in Seq(Types)
               /\ RowsOf(log, x) = base + 1 .. base + Len(e)
               /\ \A i \in 1 .. Len(e) : log[base + i].type = e[i]
      BY <1>5, <3>1 DEF IInv, LogInv, AppliedSerially, PositionsOf, Before
    <3>3. PICK e : e = Decide(x, History(SubSeq(log, 1, base), Target[x]))
      OBVIOUS
    <3>4. /\ e \in Seq(Types) /\ RowsOf(log, x) = base + 1 .. base + Len(e)
          /\ \A i \in 1 .. Len(e) : log[base + i].type = e[i]
      BY <3>2, <3>3
    <3>5. base \in 0 .. Len(r) - 1 /\ base \in 0 .. Len(log)
      BY <1>2
    <3>6. e = Decide(x, History(SubSeq(r, 1, base), Target[x]))
      BY <1>3, <3>3, <3>5
    <3>7. ASSUME NEW i \in 1 .. Len(e) PROVE r[base + i].type = e[i]
      <4>1. Len(e) \in Nat
        BY <3>4, LenProperties
      <4>2. base + i \in base + 1 .. base + Len(e)
        BY <4>1
      <4>3. base + i \in 1 .. Len(log)
        BY <1>2, <3>4, <4>2
      <4> QED
        BY <1>2, <3>4, <4>3
    <3> QED
      BY <3>1, <3>4, <3>5, <3>6, <3>7
  <2>2. CASE RowsOf(staged, x) # {}
    <3>1. PICK b \in 0 .. Len(staged) - 1 : DecidedAt(x, b)
      BY <1>4, <2>2 DEF CandidateInv
    <3>2. PICK z, e : /\ z = log \o SubSeq(staged, 1, b)
                      /\ e = Decide(x, History(z, Target[x]))
      OBVIOUS
    <3>3. /\ e \in Seq(Types)
          /\ RowsOf(staged, x) = b + 1 .. b + Len(e)
          /\ \A i \in 1 .. Len(e) : staged[b + i].type = e[i]
      BY <3>1, <3>2 DEF DecidedAt
    <3>4. Len(e) \in Nat
      BY <3>3, LenProperties
    <3>5. PICK base : base = Len(log) + b
      OBVIOUS
    <3>6. base \in 0 .. Len(r) - 1 /\ b \in 0 .. Len(staged)
      BY <1>2, <3>5
    <3>7. e = Decide(x, History(SubSeq(r, 1, base), Target[x]))
      <4>1. SubSeq(r, 1, base) = z
        BY <1>3, <3>2, <3>5, <3>6
      <4> QED
        BY <3>2, <4>1
    <3>8. RowsOf(r, x) = base + 1 .. base + Len(e)
      <4>1. RowsOf(r, x) = {Len(log) + p : p \in RowsOf(staged, x)}
        <5>1. RowsOf(log, x) = {}
          BY <1>2, <2>2
        <5> QED
          BY <1>2, <5>1
      <4>2. ASSUME NEW p \in RowsOf(r, x) PROVE p \in base + 1 .. base + Len(e)
        <5>1. PICK q \in b + 1 .. b + Len(e) : p = Len(log) + q
          BY <3>3, <4>1
        <5> QED
          BY <1>2, <3>4, <3>5, <5>1
      <4>3. ASSUME NEW p \in base + 1 .. base + Len(e) PROVE p \in RowsOf(r, x)
        <5>1. p - Len(log) \in b + 1 .. b + Len(e) /\ p = Len(log) + (p - Len(log))
          BY <1>2, <3>4, <3>5
        <5> QED
          BY <3>3, <4>1, <5>1
      <4> QED
        BY <4>2, <4>3
    <3>9. ASSUME NEW i \in 1 .. Len(e) PROVE r[base + i].type = e[i]
      <4>1. b + i \in b + 1 .. b + Len(e) /\ base + i = Len(log) + (b + i)
        BY <1>2, <3>4, <3>5
      <4>2. b + i \in 1 .. Len(staged)
        BY <1>2, <3>3, <4>1
      <4>3. r[Len(log) + (b + i)] = staged[b + i]
        BY <1>2, <4>2
      <4> QED
        BY <3>3, <4>1, <4>3
    <3> QED
      BY <3>3, <3>6, <3>7, <3>8, <3>9
  <2> QED
    BY <2>1, <2>2
<1> QED
  BY <1>1, <1>5 DEF AppliedSerially, PositionsOf, Before

\* What the commit does for the commands of the window, and for the others.
LEMMA CommitDeals ==
  ASSUME TypeOK, IInv, CommitBatch
  PROVE  /\ HistoriesGrow
         /\ \A c : PositionsOf(c) \subseteq PositionsOf(c)'
         /\ \A c \in Queued : Dealt(c) => Dealt(c)'
         /\ \A k \in DOMAIN batch :
              /\ batch[k].types = << >> => batch[k].cmd \in unchanged'
              /\ Holds(log', batch[k].cmd, batch[k].types)
              /\ Dealt(batch[k].cmd)'
<1>1. PICK r : r = log'
  OBVIOUS
<1>2. /\ r = log \o staged /\ r \in Seq(Events)
      /\ log \in Seq(Events) /\ staged \in Seq(Events)
      /\ \A x : RowsOf(r, x) =
                  RowsOf(log, x) \cup {Len(log) + p : p \in RowsOf(staged, x)}
  BY <1>1, CommitRows
<1>3. /\ UNCHANGED verdicts
      /\ unchanged' = unchanged \cup
           {batch[i].cmd : i \in {j \in DOMAIN batch : batch[j].types = << >>}}
      /\ BatchInv
  BY DEF CommitBatch, IInv, DecideInv
<1>4. HistoriesGrow
  BY <1>3 DEF HistoriesGrow
<1>5. \A c : PositionsOf(c) \subseteq PositionsOf(c)'
  BY <1>1, <1>2 DEF PositionsOf
<1>6. \A c \in Queued : Dealt(c) => Dealt(c)'
  BY <1>4, <1>5, StaysDealt
<1>7. ASSUME NEW k \in DOMAIN batch
      PROVE  /\ batch[k].types = << >> => batch[k].cmd \in unchanged'
             /\ Holds(r, batch[k].cmd, batch[k].types)
             /\ Dealt(batch[k].cmd)'
  <2>1. PICK c, ts : c = batch[k].cmd /\ ts = batch[k].types
    OBVIOUS
  <2>2. c \in Queued /\ ts \in Seq(Types)
    BY <2>1, BatchEntry
  <2>3. ts = << >> => c \in unchanged'
    BY <1>3, <2>1
  <2>4. RowsOf(log, c) = {} /\ Holds(staged, c, ts)
    BY <1>3, <2>1 DEF BatchInv, PositionsOf
  <2>5. Holds(r, c, ts)
    BY <1>2, <2>2, <2>4, JoinedHolds
  <2>6. Dealt(c)'
    <3>1. CASE ts = << >>
      BY <2>3, <3>1 DEF Dealt, InOrder
    <3>2. CASE ts # << >>
      <4>1. RowsOf(r, c) # {}
        BY <1>2, <2>2, <2>5, <3>2, HoldsRows
      <4> QED
        BY <1>1, <4>1 DEF Dealt, PositionsOf
    <3> QED
      BY <3>1, <3>2
  <2>7. UNCHANGED batch
    BY DEF CommitBatch
  <2> QED
    BY <2>1, <2>3, <2>5, <2>6, <2>7
<1> QED
  BY <1>1, <1>4, <1>5, <1>6, <1>7

\* The rows of the window come after those of the log, in the order of the
\* queue, and nothing older is left out.
LEMMA CommitOrder ==
  ASSUME TypeOK, IInv, CommitBatch PROVE OrderInv' /\ QueueOrder'
<1>1. PICK r : r = log'
  OBVIOUS
<1>2. /\ Len(log) \in Nat /\ Len(staged) \in Nat
      /\ \A x : /\ RowsOf(r, x) =
                     RowsOf(log, x) \cup {Len(log) + p : p \in RowsOf(staged, x)}
                /\ RowsOf(log, x) \subseteq 1 .. Len(log)
                /\ RowsOf(staged, x) \subseteq 1 .. Len(staged)
      /\ \A x \in Commands :
           RowsOf(staged, x) # {} => InBatch(x) /\ RowsOf(log, x) = {}
  BY <1>1, CommitRows
<1>3. /\ UNCHANGED <<queue, batch>> /\ todo = {} /\ LeftInv /\ StagedInv
  BY DEF CommitBatch, IInv, DecideInv, durable
<1>4. /\ \A c \in Queued : Dealt(c) => Dealt(c)'
      /\ \A c : InBatch(c) => Dealt(c)'
      /\ \A c \in Queued : InOrder(c)' => InOrder(c)
  <2>1. HistoriesGrow /\ \A c \in Queued : Dealt(c) => Dealt(c)'
    BY CommitDeals
  <2>2. ASSUME NEW c, InBatch(c) PROVE Dealt(c)'
    <3>1. PICK k \in DOMAIN batch : batch[k].cmd = c
      BY <2>2 DEF InBatch
    <3>2. Dealt(batch[k].cmd)'
      BY CommitDeals
    <3> QED
      BY <1>3, <3>1, <3>2
  <2> QED
    BY <2>1, <2>2, StaysDealt
<1>5. \A i \in DOMAIN queue : queue[i] \in Queued /\ queue[i] \in Commands
  BY QueuedCommand DEF TypeOK
<1>6. OrderInv'
  <2> SUFFICES ASSUME NEW i \in DOMAIN queue, NEW j \in DOMAIN queue, i < j,
                      RowsOf(r, queue[j]) # {}
               PROVE  Dealt(queue[i])'
    BY <1>1, <1>3 DEF OrderInv, PositionsOf
  <2>1. PICK x, y : x = queue[i] /\ y = queue[j]
    OBVIOUS
  <2>2. x \in Queued /\ y \in Commands
    BY <1>5, <2>1
  <2>3. Dealt(x)'
    <3>1. CASE RowsOf(log, y) # {}
      <4>1. Dealt(x)
        BY <2>1, <3>1 DEF IInv, OrderInv, PositionsOf
      <4> QED
        BY <1>4, <2>2, <4>1
    <3>2. CASE RowsOf(log, y) = {}
      <4>1. RowsOf(staged, y) # {}
        BY <1>2, <2>1, <3>2
      <4>2. InBatch(y)
        BY <1>2, <2>2, <4>1
      <4>3. InBatch(x) \/ Dealt(x)
        BY <1>3, <2>1, <4>2 DEF LeftInv
      <4> QED
        BY <1>4, <2>2, <4>3
    <3> QED
      BY <3>1, <3>2
  <2> QED
    BY <1>3, <2>1, <2>3
<1>7. QueueOrder'
  <2> SUFFICES ASSUME NEW i \in DOMAIN queue, NEW j \in DOMAIN queue, i < j,
                      InOrder(queue[i])',
                      NEW p \in RowsOf(r, queue[i]), NEW q \in RowsOf(r, queue[j])
               PROVE  p < q
    BY <1>1, <1>3 DEF QueueOrder, PositionsOf
  <2>1. PICK x, y : x = queue[i] /\ y = queue[j]
    OBVIOUS
  <2>2. x \in Queued /\ x \in Commands /\ y \in Commands
    BY <1>5, <2>1
  <2>3. InOrder(x)
    BY <1>3, <1>4, <2>1, <2>2
  <2>4. /\ p \in RowsOf(log, x) \/ \E m \in RowsOf(staged, x) : p = Len(log) + m
        /\ q \in RowsOf(log, y) \/ \E m \in RowsOf(staged, y) : q = Len(log) + m
    BY <1>2, <2>1
  <2>5. CASE p \in RowsOf(log, x) /\ q \in RowsOf(log, y)
    BY <2>1, <2>3, <2>5 DEF IInv, QueueOrder, PositionsOf
  <2>6. CASE p \in RowsOf(log, x) /\ \E m \in RowsOf(staged, y) : q = Len(log) + m
    <3>1. PICK m \in RowsOf(staged, y) : q = Len(log) + m
      BY <2>6
    <3>2. p \in 1 .. Len(log) /\ m \in 1 .. Len(staged)
      BY <1>2, <2>6
    <3> QED
      BY <1>2, <3>1, <3>2
  <2>7. CASE (\E m \in RowsOf(staged, x) : p = Len(log) + m) /\ q \in RowsOf(log, y)
    <3>1. RowsOf(log, x) = {}
      BY <1>2, <2>2, <2>7
    <3>2. Dealt(x)
      BY <2>1, <2>7 DEF IInv, OrderInv, PositionsOf
    <3> QED
      BY <2>3, <3>1, <3>2 DEF Dealt, PositionsOf
  <2>8. CASE /\ \E m \in RowsOf(staged, x) : p = Len(log) + m
             /\ \E m \in RowsOf(staged, y) : q = Len(log) + m
    <3>1. PICK m \in RowsOf(staged, x) : p = Len(log) + m
      BY <2>8
    <3>2. PICK n \in RowsOf(staged, y) : q = Len(log) + n
      BY <2>8
    <3>3. m < n
      BY <1>3, <2>1 DEF StagedInv
    <3>4. m \in Nat /\ n \in Nat
      BY <1>2
    <3> QED
      BY <1>2, <3>1, <3>2, <3>3, <3>4
  <2> QED
    BY <2>4, <2>5, <2>6, <2>7, <2>8
<1> QED
  BY <1>6, <1>7

LEMMA CommitBatchStep ==
  ASSUME TypeOK, IInv, CommitBatch PROVE IInv'
<1>1. PICK r : r = log'
  OBVIOUS
<1>2. /\ phase = "decide" /\ phase' = "signal" /\ todo' = DOMAIN batch
      /\ UNCHANGED <<queue, done, at, req, batch, verdicts>>
      /\ BatchInv /\ StagedInv
  BY DEF CommitBatch, IInv, DecideInv, durable, gateway
<1>3. /\ r = log \o staged /\ r \in Seq(Events)
      /\ log \in Seq(Events) /\ staged \in Seq(Events)
      /\ Len(log) \in Nat /\ Len(staged) \in Nat
      /\ Len(r) = Len(log) + Len(staged)
      /\ DOMAIN log = 1 .. Len(log) /\ DOMAIN staged = 1 .. Len(staged)
      /\ DOMAIN r = 1 .. Len(r)
      /\ \A p \in 1 .. Len(log) : r[p] = log[p]
      /\ \A p \in 1 .. Len(staged) : r[Len(log) + p] = staged[p]
      /\ \A x : /\ RowsOf(r, x) =
                     RowsOf(log, x) \cup {Len(log) + p : p \in RowsOf(staged, x)}
                /\ RowsOf(log, x) \subseteq 1 .. Len(log)
                /\ RowsOf(staged, x) \subseteq 1 .. Len(staged)
      /\ \A x \in Commands :
           RowsOf(staged, x) # {} => InBatch(x) /\ RowsOf(log, x) = {}
  BY <1>1, CommitRows
<1>4. \A p \in Len(log) + 1 .. Len(r) :
        \E m \in 1 .. Len(staged) : p = Len(log) + m /\ r[p] = staged[m]
  <2> SUFFICES ASSUME NEW p \in Len(log) + 1 .. Len(r)
               PROVE  \E m \in 1 .. Len(staged) : p = Len(log) + m /\ r[p] = staged[m]
    OBVIOUS
  <2>1. p - Len(log) \in 1 .. Len(staged) /\ p = Len(log) + (p - Len(log))
    BY <1>3
  <2> QED
    BY <1>3, <2>1
<1>5. /\ \A c : PositionsOf(c) \subseteq PositionsOf(c)'
      /\ \A c \in Queued : Dealt(c) => Dealt(c)'
  BY CommitDeals
<1>6. LogInv'
  <2>1. Contiguous(r)
    <3>1. OnTime /\ CandidateInv
      BY CommitOnTime DEF CommitBatch, IInv, DecideInv
    <3> QED
      BY <1>3, <3>1 DEF CandidateInv, Contiguous
  <2>2. OwnRows(r)
    <3> SUFFICES ASSUME NEW p \in DOMAIN r
                 PROVE  r[p].by \in Commands /\ r[p].stream = Target[r[p].by]
      BY DEF OwnRows
    <3>1. CASE p \in 1 .. Len(log)
      BY <1>3, <3>1 DEF IInv, LogInv, OwnRows
    <3>2. CASE p \in Len(log) + 1 .. Len(r)
      BY <1>2, <1>3, <1>4, <3>2 DEF StagedInv, OwnRows
    <3> QED
      BY <1>3, <3>1, <3>2
  <2>3. AppliedSerially'
    BY CommitSerially
  <2> QED
    BY <1>1, <2>1, <2>2, <2>3 DEF LogInv
<1>7. QueueInv'
  <2>1. QueueInv
    BY DEF IInv
  <2>2. \A c : InQueue(c)' <=> InQueue(c)
    BY <1>2 DEF InQueue
  <2>3. ASSUME NEW c \in Queued
        PROVE  /\ RowsOf(r, c) # {} => InQueue(c)
               /\ at[c] <= Len(r)
               /\ \A p \in RowsOf(r, c) : at[c] < p
    <3>1. /\ RowsOf(log, c) # {} => InQueue(c)
          /\ at[c] <= Len(log) /\ at[c] \in Nat
          /\ \A p \in RowsOf(log, c) : at[c] < p
      BY <2>1 DEF QueueInv, PositionsOf, TypeOK
    <3>2. RowsOf(staged, c) # {} => InQueue(c)
      BY <1>2, <1>3, QueuedCommand DEF BatchInv, InBatch
    <3>3. RowsOf(r, c) # {} => InQueue(c)
      BY <1>3, <3>1, <3>2
    <3>4. ASSUME NEW p \in RowsOf(r, c) PROVE at[c] < p
      <4>1. CASE p \in RowsOf(log, c)
        BY <3>1, <4>1
      <4>2. CASE p \notin RowsOf(log, c)
        <5>1. PICK m \in RowsOf(staged, c) : p = Len(log) + m
          BY <1>3, <4>2
        <5>2. m \in 1 .. Len(staged)
          BY <1>3
        <5> QED
          BY <1>3, <3>1, <5>1, <5>2
      <4> QED
        BY <4>1, <4>2
    <3> QED
      BY <1>3, <3>1, <3>3, <3>4
  <2>4. ASSUME NEW c \in Direct, req[c] = "new" PROVE RowsOf(r, c) = {}
    <3>1. RowsOf(log, c) = {}
      BY <2>1, <2>4 DEF QueueInv, PositionsOf
    <3>2. c \in Commands /\ c \notin Queued
      BY BatchingAssumption DEF Queued
    <3>3. RowsOf(staged, c) = {}
      BY <1>3, <3>2, BatchEntry DEF InBatch
    <3> QED
      BY <1>3, <3>1, <3>3
  <2> QED
    BY <1>1, <1>2, <2>1, <2>2, <2>3, <2>4 DEF QueueInv, PositionsOf
<1>8. IdleInv' /\ DecideInv'
  BY <1>2 DEF IdleInv, DecideInv
<1>9. SignalInv'
  <2>1. \A k \in DOMAIN batch :
          /\ batch[k].types = << >> => batch[k].cmd \in unchanged'
          /\ Holds(r, batch[k].cmd, batch[k].types)
    BY <1>1, CommitDeals
  <2> QED
    BY <1>1, <1>2, <2>1 DEF SignalInv
<1>10. DoneInv' /\ DoneIsSettled'
  <2>1. done \subseteq Queued
    BY DEF TypeOK
  <2>2. DoneInv'
    BY <1>2, <1>5, <2>1 DEF IInv, DoneInv
  <2>3. DoneIsSettled'
    BY <1>2, <1>5, <2>1 DEF IInv, DoneIsSettled
  <2> QED
    BY <2>2, <2>3
<1>11. OrderInv' /\ QueueOrder'
  BY CommitOrder
<1>12. AcknowledgedIsDurable'
  <2> SUFFICES ASSUME NEW c \in Queued, NEW v \in verdicts[c],
                      v.kind = "ok", v.types # << >>
               PROVE  Holds(r, c, v.types)
    BY <1>1, <1>2 DEF AcknowledgedIsDurable
  <2>1. v \in Outcomes
    BY DEF TypeOK
  <2>2. v.types \in Seq(Types)
    BY <2>1, OutcomeKind
  <2>3. Holds(log, c, v.types)
    BY DEF IInv, AcknowledgedIsDurable
  <2>4. RowsOf(log, c) # {}
    BY <1>3, <2>2, <2>3, HoldsRows
  <2>5. RowsOf(staged, c) = {}
    BY <1>3, <2>4, QueuedCommand
  <2>6. \A p \in Len(log) + 1 .. Len(r) : r[p].by # c
    <3>1. \A m \in 1 .. Len(staged) : staged[m].by # c
      BY <1>3, <2>5 DEF RowsOf
    <3> QED
      BY <1>4, <3>1
  <2>7. Len(log) <= Len(r)
    BY <1>3
  <2> QED
    BY <1>3, <2>2, <2>3, <2>6, <2>7, OtherRows
<1> QED
  BY <1>6, <1>7, <1>8, <1>9, <1>10, <1>11, <1>12 DEF IInv

-----------------------------------------------------------------------------
(* Together.                                                               *)

LEMMA StepIInv == TypeOK /\ IInv /\ [Next]_vars => IInv'
<1> SUFFICES ASSUME TypeOK, IInv, [Next]_vars PROVE IInv'
  OBVIOUS
<1>1. ASSUME NEW c \in Queued,
             \/ Admit(c) \/ EnqueueFails(c) \/ EnqueueCommand(c)
             \/ RegisterWaiter(c) \/ Receive(c) \/ BatchTimeout(c)
      PROVE  IInv'
  BY <1>1, AdmitStep, EnqueueFailsStep, EnqueueCommandStep, RegisterWaiterStep,
     ReceiveStep, BatchTimeoutStep
<1>2. CASE RunOnce
  BY <1>2, BeginStep, ResumeFailsStep, DecideAcceptsStep, DecideRejectsStep,
     DecideFailsStep, CommitBatchStep, CommitRefusedStep, EmptyWindowStep,
     SignalCommittedStep, MarkCommittedStep DEF RunOnce
<1>3. ASSUME NEW c \in Direct, DispatchDirect(c) PROVE IInv'
  BY <1>3, DispatchDirectStep
<1>4. CASE Crash
  BY <1>4, CrashStep
<1>5. CASE UNCHANGED vars
  <2>1. UNCHANGED <<log, queue, done, at, req, phase, todo, batch, overlay,
                    staged, verdicts, unchanged>>
    BY <1>5 DEF vars
  <2>2. QueueInv'
    BY <2>1 DEF IInv, QueueInv, InQueue, PositionsOf
  <2> QED
    BY <2>1, <2>2, Frame
<1> QED
  BY <1>1, <1>2, <1>3, <1>4, <1>5 DEF Next

\* The inductive invariant: what the window has staged is, as long as it is on
\* time, what the log would hold with it.
THEOREM WindowIsCandidate == Spec => []IInv
<1>1. TypeOK /\ IInv /\ [Next]_vars => IInv'
  BY StepIInv
<1> QED
  BY <1>1, InitIInv, BatchingTypeCorrect, PTL DEF Spec

\* Whatever windows, rollbacks, crashes and direct appends come between, every
\* command is in the log at most once, as a whole, and as its decider answers
\* on exactly the events before it.
THEOREM BatchesAppliedSerially == Spec => []AppliedSerially
<1>1. IInv => AppliedSerially
  BY DEF IInv, LogInv
<1> QED
  BY <1>1, WindowIsCandidate, PTL

\* An outcome is signalled for what the log holds, and it goes on to hold it.
THEOREM AcknowledgedStays == Spec => []AcknowledgedIsDurable
<1>1. IInv => AcknowledgedIsDurable
  BY DEF IInv
<1> QED
  BY <1>1, WindowIsCandidate, PTL

\* No done mark comes before the command's events or its outcome.
THEOREM DoneComesLast == Spec => []DoneIsSettled
<1>1. IInv => DoneIsSettled
  BY DEF IInv
<1> QED
  BY <1>1, WindowIsCandidate, PTL

\* Commands keep the order of their rows across windows and restarts.
THEOREM QueueKeepsOrder == Spec => []QueueOrder
<1>1. IInv => QueueOrder
  BY DEF IInv
<1> QED
  BY <1>1, WindowIsCandidate, PTL
=============================================================================
