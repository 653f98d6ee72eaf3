--------------------------- MODULE GatewayProofs ---------------------------
(***************************************************************************)
(* What TLAPS proves of Gateway, for every set of requests and keys, every *)
(* decider and both dispatches.                                            *)
(*                                                                         *)
(* The answers are true because of when a request is settled: it has       *)
(* events in the log, or its handler is past the dispatch and no queued    *)
(* row is left of it.  From then on nothing is appended for it again, so   *)
(* what an answer or a record says of it stays so.  A request that is told *)
(* of no event while its row stays queued is not settled: those are the    *)
(* unmarked ones, which the property excepts.                              *)
(***************************************************************************)
EXTENDS Gateway, EventLogTheorems

Queued(c) == \E i \in 1 .. Len(queue) : queue[i] = c

\* No row is left of c, and none will be written.
Over(c) == at[c] \in {"outcome", "answered", "lost"} /\ ~Queued(c)

\* Nothing will be appended for c any more.
Settled(c) == Over(c) \/ PositionsOf(c) # {}

\* What a 200 to a request with hash h says, and that it stays so.
Holding(a, h) ==
  /\ HashOf[a.of] = h
  /\ \/ Settled(a.of) /\ Holds(log, a.of, a.types)
     \/ a.types = << >> /\ a.of \in unmarked

\* Nothing is there of c, and nothing waits to be.
Untouched(c) == PositionsOf(c) = {} /\ ~Queued(c)

\* A row addresses the stream of its command, where the resume lookup finds it.
OwnRows == \A p \in DOMAIN log : log[p].by \in Commands =>
                                    log[p].stream = Target[log[p].by]

QueuedOnce == \A i, j \in 1 .. Len(queue) : queue[i] = queue[j] => i = j

\* A row is written by a handler that then waits; it may outlive the wait.
QueueInv(c) == Queued(c) => at[c] \in {"waiting", "outcome", "answered", "lost"}

\* Nothing is appended before the dispatch.
RowsInv(c) == at[c] \in {"new", "open", "accepted", "decided"} => PositionsOf(c) = {}

\* What is about to be saved and answered.
OutcomeInv(c) ==
  at[c] = "outcome" =>
    \/ answer[c].status = 200 /\ Holding(answer[c], HashOf[c])
    \/ answer[c].status = 409 /\ Untouched(c)

AnsweredInv(c) ==
  at[c] = "answered" =>
    \/ answer[c].status = 200 /\ Holding(answer[c], HashOf[c])
    \/ answer[c].status = 504
    \/ answer[c].status \in {400, 500} /\ c \in unmarked
    \/ answer[c].status # 200 /\ Untouched(c)

\* A request that began with a record never gets past the lookup.
KnownInv(c) ==
  known[c] # None =>
    /\ Untouched(c)
    /\ \/ at[c] = "open" /\ RecordOf(c) = known[c]
       \/ at[c] \in {"answered", "lost"}

RequestInv(c) ==
  QueueInv(c) /\ RowsInv(c) /\ OutcomeInv(c) /\ AnsweredInv(c) /\ KnownInv(c)

\* What is saved.
RecordsInv ==
  \A k \in Keys : records[k] # None =>
    \/ /\ records[k].answer.status = 200
       /\ Holding(records[k].answer, records[k].hash)
    \/ records[k].answer.status = 409

\* What the writer is about to tell.
TellInv == committed => Holds(log, Row, decision[Row].types)

IInv ==
  /\ OwnRows /\ QueuedOnce /\ RecordsInv /\ TellInv
  /\ \A c \in Commands : RequestInv(c)

-----------------------------------------------------------------------------
(* Types.                                                                  *)

LEMMA RecordType ==
  ASSUME TypeOK, NEW c \in Commands
  PROVE  /\ RecordOf(c) \in Recorded \cup {None}
         /\ KeyOf[c] # NoKey => KeyOf[c] \in Keys
         /\ HashOf[c] \in Range(HashOf)
  BY KeysAssumption DEF TypeOK, RecordOf, Range

\* The three shapes of an answer the handler gives.
LEMMA AnswerKinds ==
  /\ \A status \in {400, 409, 422, 500, 503, 504} : [status |-> status] \in Answers
  /\ NoAnswer \in Answers
  /\ \A types \in Seq(Types), c \in Commands :
       [status |-> 200, types |-> types, of |-> c] \in Answers
  BY DEF Answers, NoAnswer

LEMMA InitTypeOK == Init => TypeOK
<1> SUFFICES ASSUME Init PROVE TypeOK
  OBVIOUS
<1>1. NoAnswer \in Answers
  BY AnswerKinds
<1>2. << >> \in Seq(Events) /\ << >> \in Seq(Commands) /\ << >> \in Seq(Types)
  BY EmptySeq
<1>3. [modes |-> 0, faults |-> 0] \in [modes : 0 .. MaxModes, faults : 0 .. MaxFaults]
  BY KeysAssumption
<1>4. [types |-> << >>, expected |-> 0] \in [types : Seq(Types), expected : Nat]
  BY <1>2
<1>5. 0 \in 0 .. Len(<< >>)
  BY LenProperties, <1>2
<1> QED
  BY <1>1, <1>2, <1>3, <1>4, <1>5 DEF Init, TypeOK, Steps

LEMMA FaultType ==
  ASSUME TypeOK, Fault
  PROVE  spent' \in [modes : 0 .. MaxModes, faults : 0 .. MaxFaults]
<1>1. spent \in [modes : 0 .. MaxModes, faults : 0 .. MaxFaults]
  BY DEF TypeOK
<1>2. spent.faults + 1 \in 0 .. MaxFaults
  BY <1>1, KeysAssumption DEF Fault
<1>3. spent' = [spent EXCEPT !.faults = spent.faults + 1]
  BY DEF Fault
<1> QED
  BY <1>1, <1>2, <1>3

\* The steps that end with a status and change nothing else of the types.
LEMMA RespondsType ==
  ASSUME TypeOK, NEW c \in Commands,
         NEW status \in {400, 409, 422, 500, 503, 504}, Responds(c, status)
  PROVE  at' \in [Commands -> Steps] /\ answer' \in [Commands -> Answers]
<1>1. [status |-> status] \in Answers
  BY AnswerKinds
<1>2. answer' = [answer EXCEPT ![c] = [status |-> status]] /\ Goes(c, "answered")
  BY DEF Responds
<1> QED
  BY <1>1, <1>2 DEF TypeOK, Goes, Steps

LEMMA SucceedsType ==
  ASSUME TypeOK, NEW c \in Commands, NEW types \in Seq(Types), Succeeds(c, types)
  PROVE  at' \in [Commands -> Steps] /\ answer' \in [Commands -> Answers]
<1>1. [status |-> 200, types |-> types, of |-> c] \in Answers
  BY AnswerKinds
<1>2. /\ answer' = [answer EXCEPT ![c] = [status |-> 200, types |-> types, of |-> c]]
      /\ Goes(c, "outcome")
  BY DEF Succeeds
<1> QED
  BY <1>1, <1>2 DEF TypeOK, Goes, Steps

\* A sequence without its i-th entry.
LEMMA Removed ==
  ASSUME NEW q \in Seq(Commands), NEW i \in 1 .. Len(q), NEW r, r = RemoveAt(q, i)
  PROVE  /\ r \in Seq(Commands) /\ Len(q) \in Nat /\ Len(r) = Len(q) - 1
         /\ \A j \in 1 .. i - 1 : r[j] = q[j]
         /\ \A j \in i .. Len(q) - 1 : r[j] = q[j + 1]
<1>1. PICK n \in Nat : n = Len(q)
  BY LenProperties
<1>2. i \in 1 .. n /\ i - 1 \in Int /\ i + 1 \in Int
  BY <1>1
<1>3. \A j \in 1 .. n : q[j] \in Commands
  BY <1>1, ElementOfSeq
<1>4. PICK a : a = SubSeq(q, 1, i - 1)
  OBVIOUS
<1>5. PICK b : b = SubSeq(q, i + 1, n)
  OBVIOUS
<1>6. /\ a \in Seq(Commands) /\ Len(a) = i - 1
      /\ \A j \in 1 .. i - 1 : a[j] = q[j]
  <2>1. \A j \in 1 .. i - 1 : q[j] \in Commands
    BY <1>1, <1>2, <1>3
  <2>2. /\ SubSeq(q, 1, i - 1) \in Seq(Commands)
        /\ Len(SubSeq(q, 1, i - 1)) = IF 1 <= i - 1 THEN (i - 1) - 1 + 1 ELSE 0
        /\ \A j \in 1 .. (i - 1) - 1 + 1 : SubSeq(q, 1, i - 1)[j] = q[1 + j - 1]
    BY <1>2, <2>1, SubSeqProperties
  <2>3. ASSUME NEW j \in 1 .. i - 1 PROVE a[j] = q[j]
    <3>1. j \in 1 .. (i - 1) - 1 + 1 /\ 1 + j - 1 = j
      BY <1>1, <1>2
    <3> QED
      BY <1>4, <2>2, <3>1
  <2> QED
    BY <1>1, <1>2, <1>4, <2>2, <2>3
<1>7. /\ b \in Seq(Commands) /\ Len(b) = n - i
      /\ \A j \in 1 .. n - i : b[j] = q[i + j]
  <2>1. \A j \in i + 1 .. n : q[j] \in Commands
    BY <1>1, <1>2, <1>3
  <2>2. /\ SubSeq(q, i + 1, n) \in Seq(Commands)
        /\ Len(SubSeq(q, i + 1, n)) = IF i + 1 <= n THEN n - (i + 1) + 1 ELSE 0
        /\ \A j \in 1 .. n - (i + 1) + 1 :
             SubSeq(q, i + 1, n)[j] = q[(i + 1) + j - 1]
    BY <1>1, <1>2, <2>1, SubSeqProperties
  <2>3. ASSUME NEW j \in 1 .. n - i PROVE b[j] = q[i + j]
    <3>1. j \in 1 .. n - (i + 1) + 1 /\ (i + 1) + j - 1 = i + j
      BY <1>1, <1>2
    <3> QED
      BY <1>5, <2>2, <3>1
  <2> QED
    BY <1>1, <1>2, <1>5, <2>2, <2>3
<1>8. /\ a \o b \in Seq(Commands) /\ Len(a \o b) = Len(a) + Len(b)
      /\ \A j \in 1 .. Len(a) + Len(b) :
           (a \o b)[j] = IF j <= Len(a) THEN a[j] ELSE b[j - Len(a)]
  BY <1>6, <1>7, ConcatProperties, Zenon
<1>9. r = a \o b
  BY <1>1, <1>4, <1>5 DEF RemoveAt
<1>10. /\ r \in Seq(Commands) /\ Len(r) = n - 1
       /\ \A j \in 1 .. n - 1 : r[j] = IF j <= i - 1 THEN a[j] ELSE b[j - (i - 1)]
  <2>1. Len(a) = i - 1 /\ Len(b) = n - i
    BY <1>6, <1>7
  <2>2. Len(a) + Len(b) = n - 1
    BY <1>1, <1>2, <2>1
  <2>3. /\ r \in Seq(Commands) /\ Len(r) = Len(a) + Len(b)
        /\ \A j \in 1 .. Len(a) + Len(b) :
             r[j] = IF j <= Len(a) THEN a[j] ELSE b[j - Len(a)]
    BY <1>8, <1>9, Zenon
  <2> QED
    BY <2>1, <2>2, <2>3
<1>11. ASSUME NEW j \in i .. n - 1 PROVE r[j] = q[j + 1]
  <2>1. j \in 1 .. n - 1 /\ ~(j <= i - 1) /\ j - (i - 1) \in 1 .. n - i
    BY <1>1, <1>2
  <2>2. i + (j - (i - 1)) = j + 1
    BY <1>1, <1>2
  <2>3. b[j - (i - 1)] = q[i + (j - (i - 1))]
    BY <1>7, <2>1
  <2> QED
    BY <1>10, <2>1, <2>2, <2>3
<1>12. ASSUME NEW j \in 1 .. i - 1 PROVE r[j] = q[j]
  <2>1. j \in 1 .. n - 1 /\ j <= i - 1
    BY <1>1, <1>2
  <2> QED
    BY <1>6, <1>10, <2>1
<1> QED
  BY <1>1, <1>10, <1>11, <1>12

\* The row the writer is at.
LEMMA RowType ==
  ASSUME TypeOK, passed < Len(queue)
  PROVE  /\ Len(queue) \in Nat /\ passed \in Nat /\ passed + 1 \in 1 .. Len(queue)
         /\ Row \in Commands
<1>1. Len(queue) \in Nat /\ passed \in 0 .. Len(queue)
  BY LenProperties DEF TypeOK
<1>2. passed + 1 \in 1 .. Len(queue)
  BY <1>1
<1> QED
  BY <1>1, <1>2, ElementOfSeq DEF TypeOK, Row

LEMMA MarkType ==
  ASSUME TypeOK, passed < Len(queue), MarkDone \/ MarkLost
  PROVE  /\ queue' \in Seq(Commands) /\ passed' \in 0 .. Len(queue')
         /\ unmarked' \subseteq Commands
<1>1. /\ Len(queue) \in Nat /\ passed \in Nat /\ passed + 1 \in 1 .. Len(queue)
      /\ Row \in Commands
  BY RowType
<1>2. CASE MarkDone
  <2>1. queue' \in Seq(Commands) /\ Len(queue') = Len(queue) - 1
    BY <1>1, <1>2, Removed DEF MarkDone, TypeOK
  <2> QED
    BY <1>1, <1>2, <2>1 DEF MarkDone, TypeOK
<1>3. CASE MarkLost
  BY <1>1, <1>3 DEF MarkLost, TypeOK
<1> QED
  BY <1>2, <1>3

LEMMA MarkOrNotType ==
  ASSUME TypeOK, MarkOrNot
  PROVE  /\ MarkDone \/ MarkLost
         /\ spent' \in [modes : 0 .. MaxModes, faults : 0 .. MaxFaults]
  BY FaultType DEF MarkOrNot, TypeOK

LEMMA StepTypeOK == TypeOK /\ [Next]_vars => TypeOK'
<1> SUFFICES ASSUME TypeOK, [Next]_vars PROVE TypeOK'
  OBVIOUS
<1>1. ASSUME NEW c \in Commands, CheckMode(c) PROVE TypeOK'
  <2>1. known' \in [Commands -> Recorded \cup {None}]
    BY <1>1, RecordType DEF TypeOK, CheckMode, writer
  <2>2. at' \in [Commands -> Steps] /\ answer' \in [Commands -> Answers]
    <3>1. CASE Responds(c, 503)
      BY <3>1, RespondsType
    <3>2. CASE Goes(c, "open") /\ UNCHANGED answer
      BY <3>2 DEF TypeOK, Goes, Steps
    <3> QED
      BY <1>1, <3>1, <3>2 DEF CheckMode
  <2> QED
    BY <1>1, <2>1, <2>2 DEF TypeOK, CheckMode, writer
<1>2. ASSUME NEW c \in Commands, Lookup(c) PROVE TypeOK'
  <2>1. at' \in [Commands -> Steps] /\ answer' \in [Commands -> Answers]
    <3>1. CASE Responds(c, 422)
      BY <3>1, RespondsType
    <3>2. CASE /\ RecordOf(c) # None /\ Goes(c, "answered")
               /\ answer' = [answer EXCEPT ![c] = RecordOf(c).answer]
      <4>1. RecordOf(c).answer \in Answers
        BY <3>2, RecordType DEF Recorded
      <4> QED
        BY <3>2, <4>1 DEF TypeOK, Goes, Steps
    <3>3. CASE Goes(c, "accepted") /\ UNCHANGED answer
      BY <3>3 DEF TypeOK, Goes, Steps
    <3> QED
      BY <1>2, <3>1, <3>2, <3>3 DEF Lookup
  <2> QED
    BY <1>2, <2>1 DEF TypeOK, Lookup, writer
<1>3. ASSUME NEW c \in Commands, Fails(c) PROVE TypeOK'
  <2>1. PICK status \in {500, 503} : Responds(c, status)
    BY <1>3 DEF Fails
  <2>2. at' \in [Commands -> Steps] /\ answer' \in [Commands -> Answers]
    BY <2>1, RespondsType
  <2>3. spent' \in [modes : 0 .. MaxModes, faults : 0 .. MaxFaults]
    BY <1>3, FaultType DEF Fails
  <2> QED
    BY <1>3, <2>2, <2>3 DEF TypeOK, Fails, writer
<1>4. ASSUME NEW c \in Commands, DecideInline(c) PROVE TypeOK'
  <2>1. PICK h : h = History(log, Target[c])
    OBVIOUS
  <2>2. PICK d : d = Decide(c, h)
    OBVIOUS
  <2>3. Len(h) \in Nat
    BY <2>1, HistoryLength DEF TypeOK
  <2>4. /\ \/ Responds(c, 400) /\ UNCHANGED decision
           \/ Succeeds(c, << >>) /\ UNCHANGED decision
           \/ /\ d \in Seq(Types)
              /\ decision' = [decision EXCEPT ![c] = [types |-> d, expected |-> Len(h)]]
              /\ Goes(c, "decided")
              /\ UNCHANGED answer
        /\ UNCHANGED <<writer, via, log, mode, records, queue, known, spent>>
    BY <1>4, <2>1, <2>2 DEF DecideInline
  <2>5. /\ at' \in [Commands -> Steps] /\ answer' \in [Commands -> Answers]
        /\ decision' \in [Commands -> [types : Seq(Types), expected : Nat]]
    <3>1. CASE Responds(c, 400) /\ UNCHANGED decision
      BY <3>1, RespondsType DEF TypeOK
    <3>2. CASE Succeeds(c, << >>) /\ UNCHANGED decision
      BY <3>2, SucceedsType, EmptySeq DEF TypeOK
    <3>3. CASE /\ d \in Seq(Types)
               /\ decision' = [decision EXCEPT ![c] = [types |-> d, expected |-> Len(h)]]
               /\ Goes(c, "decided")
               /\ UNCHANGED answer
      BY <2>3, <3>3 DEF TypeOK, Goes, Steps
    <3> QED
      BY <2>4, <3>1, <3>2, <3>3
  <2> QED
    BY <2>4, <2>5 DEF TypeOK, writer
<1>5. ASSUME NEW c \in Commands, AppendInline(c) PROVE TypeOK'
  <2>1. decision[c].types \in Seq(Types) /\ decision[c].expected \in Nat
    BY DEF TypeOK
  <2>2. UNCHANGED <<writer, via, mode, records, queue, decision, known, spent>>
    BY <1>5 DEF AppendInline
  <2>3. /\ log' \in Seq(Events)
        /\ at' \in [Commands -> Steps] /\ answer' \in [Commands -> Answers]
    <3>1. CASE /\ log' = Appended(log, c, decision[c].types, decision[c].expected)
               /\ Succeeds(c, decision[c].types)
      <4>1. Appended(log, c, decision[c].types, decision[c].expected) \in Seq(Events)
        BY <2>1, AppendedEntries DEF TypeOK
      <4> QED
        BY <2>1, <3>1, <4>1, SucceedsType
    <3>2. CASE /\ Goes(c, "outcome")
               /\ answer' = [answer EXCEPT ![c] = [status |-> 409]]
               /\ UNCHANGED log
      <4>1. [status |-> 409] \in Answers
        BY AnswerKinds
      <4> QED
        BY <3>2, <4>1 DEF TypeOK, Goes, Steps
    <3> QED
      BY <1>5, <3>1, <3>2 DEF AppendInline
  <2> QED
    BY <2>2, <2>3 DEF TypeOK, writer
<1>6. ASSUME NEW c \in Commands, Enqueue(c) PROVE TypeOK'
  <2>1. CASE Responds(c, 503) /\ UNCHANGED queue
    BY <1>6, <2>1, RespondsType DEF TypeOK, Enqueue, writer
  <2>2. CASE queue' = Append(queue, c) /\ Goes(c, "waiting") /\ UNCHANGED answer
    <3>1. queue' \in Seq(Commands) /\ Len(queue') = Len(queue) + 1
      BY <2>2, AppendProperties DEF TypeOK
    <3>2. Len(queue) \in Nat /\ passed \in 0 .. Len(queue)
      BY LenProperties DEF TypeOK
    <3>3. /\ passed \in 0 .. Len(queue')
          /\ (passed < Len(queue) => passed < Len(queue'))
      BY <3>1, <3>2
    <3> QED
      BY <1>6, <2>2, <3>1, <3>3 DEF TypeOK, Enqueue, Goes, Steps, writer
  <2> QED
    BY <1>6, <2>1, <2>2 DEF Enqueue
<1>7. ASSUME NEW c \in Commands, BatchTimeout(c) PROVE TypeOK'
  BY <1>7, RespondsType DEF TypeOK, BatchTimeout, writer
<1>8. ASSUME NEW c \in Commands, Respond(c) PROVE TypeOK'
  <2>1. records' \in [Keys -> Recorded \cup {None}]
    <3>1. [hash |-> HashOf[c], answer |-> answer[c]] \in Recorded
      BY RecordType DEF TypeOK, Recorded
    <3> QED
      BY <1>8, <3>1, RecordType DEF TypeOK, Respond, writer
  <2>2. spent' \in [modes : 0 .. MaxModes, faults : 0 .. MaxFaults]
    BY <1>8, FaultType DEF TypeOK, Respond, writer
  <2> QED
    BY <1>8, <2>1, <2>2 DEF TypeOK, Respond, Goes, Steps, writer
<1>9. CASE WriterResumes
  BY <1>9, MarkType, MarkOrNotType DEF TypeOK, WriterResumes, AtRow
<1>10. CASE WriterRefuses
  <2>1. Row \in Commands
    BY <1>10, RowType DEF WriterRefuses, AtRow
  <2>2. at' \in [Commands -> Steps] /\ answer' \in [Commands -> Answers]
    BY <1>10, <2>1, RespondsType DEF TypeOK, WriterRefuses, SignalError
  <2> QED
    BY <1>10, <2>2, MarkType, MarkOrNotType DEF TypeOK, WriterRefuses, AtRow
<1>15. CASE WriterFails
  <2>1. Row \in Commands
    BY <1>15, RowType DEF WriterFails, AtRow
  <2>2. at' \in [Commands -> Steps] /\ answer' \in [Commands -> Answers]
    BY <1>15, <2>1, RespondsType DEF TypeOK, WriterFails, SignalError
  <2> QED
    BY <1>15, <2>2, MarkType, FaultType DEF TypeOK, WriterFails, AtRow
<1>16. CASE WriterCommits
  <2>1. PICK c : c = Row
    OBVIOUS
  <2>2. PICK h : h = History(log, Target[c])
    OBVIOUS
  <2>3. PICK d : d = Decide(c, h)
    OBVIOUS
  <2>4. c \in Commands
    BY <1>16, <2>1, RowType DEF WriterCommits, AtRow
  <2>5. Len(h) \in Nat
    BY <2>2, HistoryLength DEF TypeOK
  <2>6. /\ d \in Seq(Types) /\ passed < Len(queue)
        /\ decision' = [decision EXCEPT ![c] = [types |-> d, expected |-> Len(h)]]
        /\ log' = Appended(log, c, d, Len(h))
        /\ committed' = TRUE
        /\ UNCHANGED <<via, mode, records, queue, passed, at, answer, known,
                       unmarked, spent>>
    BY <1>16, <2>1, <2>2, <2>3 DEF WriterCommits, AtRow
  <2>7. Appended(log, c, d, Len(h)) \in Seq(Events)
    BY <2>4, <2>5, <2>6, AppendedEntries DEF TypeOK
  <2>8. decision' \in [Commands -> [types : Seq(Types), expected : Nat]]
    BY <2>4, <2>5, <2>6 DEF TypeOK
  <2> QED
    BY <2>6, <2>7, <2>8 DEF TypeOK
<1>17. CASE WriterTells
  <2>1. Row \in Commands /\ passed < Len(queue)
    BY <1>17, RowType DEF WriterTells, TypeOK
  <2>2. decision[Row].types \in Seq(Types)
    BY <2>1 DEF TypeOK
  <2>3. at' \in [Commands -> Steps] /\ answer' \in [Commands -> Answers]
    BY <1>17, <2>1, <2>2, SucceedsType DEF TypeOK, WriterTells, SignalEvents
  <2> QED
    BY <1>17, <2>1, <2>3, MarkType, MarkOrNotType DEF TypeOK, WriterTells
<1>18. CASE PassEnds
  <2>1. 0 \in 0 .. Len(queue)
    BY LenProperties DEF TypeOK
  <2> QED
    BY <1>18, <2>1 DEF TypeOK, PassEnds
<1>11. CASE SetMode
  <2>1. spent \in [modes : 0 .. MaxModes, faults : 0 .. MaxFaults]
    BY DEF TypeOK
  <2>2. spent.modes + 1 \in 0 .. MaxModes
    BY <1>11, <2>1, KeysAssumption DEF SetMode
  <2>3. spent' = [spent EXCEPT !.modes = spent.modes + 1]
    BY <1>11 DEF SetMode
  <2>4. spent' \in [modes : 0 .. MaxModes, faults : 0 .. MaxFaults]
    BY <2>1, <2>2, <2>3
  <2> QED
    BY <1>11, <2>4 DEF TypeOK, SetMode, writer
<1>12. CASE Crash
  <2>1. spent' \in [modes : 0 .. MaxModes, faults : 0 .. MaxFaults]
    BY <1>12, FaultType DEF Crash
  <2>2. at' \in [Commands -> Steps]
    BY <1>12 DEF TypeOK, Crash, Steps
  <2>3. 0 \in 0 .. Len(queue)
    BY LenProperties DEF TypeOK
  <2> QED
    BY <1>12, <2>1, <2>2, <2>3 DEF TypeOK, Crash
<1>13. ASSUME NEW k \in Keys, Prune(k) PROVE TypeOK'
  <2>1. spent' \in [modes : 0 .. MaxModes, faults : 0 .. MaxFaults]
    BY <1>13, FaultType DEF Prune
  <2>2. known' \in [Commands -> Recorded \cup {None}]
    BY <1>13 DEF TypeOK, Prune, writer
  <2> QED
    BY <1>13, <2>1, <2>2 DEF TypeOK, Prune, writer
<1>14. CASE UNCHANGED vars
  BY <1>14 DEF TypeOK, vars
<1> QED
  BY <1>1, <1>2, <1>3, <1>4, <1>5, <1>6, <1>7, <1>8, <1>9, <1>10, <1>11,
     <1>12, <1>13, <1>14, <1>15, <1>16, <1>17, <1>18 DEF Next

\* Type correctness of the handler and of the three databases.
THEOREM GatewayTypeCorrect == Spec => []TypeOK
<1> QED
  BY InitTypeOK, StepTypeOK, PTL DEF Spec

-----------------------------------------------------------------------------
(* One request moves.                                                      *)

\* Nothing that concerns only the other requests changes.
Moves(c) ==
  /\ \A d \in Commands \ {c} :
       /\ at'[d] = at[d] /\ answer'[d] = answer[d] /\ known'[d] = known[d]
       /\ Queued(d)' <=> Queued(d)
  /\ unmarked \subseteq unmarked'

\* The log stays, or gets events of a request that is not settled.
Writes(c) ==
  \/ UNCHANGED log
  \/ /\ ~Settled(c)
     /\ \E types \in Seq(Types), base \in Nat :
          log' = Appended(log, c, types, base)

\* Whatever has been told or saved of a settled request stays true.
Carries ==
  \A a \in Answers : \A h :
    a.status = 200 /\ Holding(a, h) => Holding(a, h)'

LEMMA TwoHundred ==
  ASSUME NEW a \in Answers, a.status = 200
  PROVE  a.types \in Seq(Types) /\ a.of \in Commands
  BY DEF Answers

LEMMA InitIInv == Init => IInv
<1> SUFFICES ASSUME Init PROVE IInv
  OBVIOUS
<1>1. \A c : ~Queued(c)
  BY DEF Init, Queued
<1>2. \A c \in Commands : PositionsOf(c) = {}
  BY DEF Init, PositionsOf, RowsOf
<1>3. QueuedOnce
  BY DEF Init, QueuedOnce
<1>4. RecordsInv
  BY DEF Init, RecordsInv
<1>5. ASSUME NEW c \in Commands PROVE RequestInv(c)
  BY <1>1, <1>2
     DEF Init, RequestInv, QueueInv, RowsInv, OutcomeInv, AnsweredInv, KnownInv
<1>6. OwnRows /\ TellInv
  BY DEF Init, OwnRows, TellInv
<1> QED
  BY <1>3, <1>4, <1>5, <1>6 DEF IInv

\* A step of one request keeps every other request's rows.
LEMMA OthersRows ==
  ASSUME TypeOK, NEW c \in Commands, Writes(c), NEW d \in Commands \ {c}
  PROVE  /\ RowsOf(log', d) = RowsOf(log, d)
         /\ \A types \in Seq(Types) :
              Holds(log, d, types) => Holds(log', d, types)
<1>1. CASE UNCHANGED log
  BY <1>1
<1>2. CASE \E types \in Seq(Types), base \in Nat :
             log' = Appended(log, c, types, base)
  <2>1. PICK types \in Seq(Types), base \in Nat :
               log' = Appended(log, c, types, base)
    BY <1>2
  <2>2. PICK r : r = log'
    OBVIOUS
  <2>3. /\ RowsOf(r, d) = RowsOf(log, d)
        /\ \A ts \in Seq(Types) : Holds(log, d, ts) => Holds(r, d, ts)
    BY <2>1, <2>2, AppendedOthers DEF TypeOK
  <2> QED
    BY <2>2, <2>3
<1> QED
  BY <1>1, <1>2 DEF Writes

\* The rows a step adds address their command's stream.
LEMMA OwnRowsStay ==
  ASSUME TypeOK, OwnRows, NEW c \in Commands, Writes(c)
  PROVE  OwnRows'
<1>1. CASE UNCHANGED log
  BY <1>1 DEF OwnRows
<1>2. CASE \E types \in Seq(Types), base \in Nat :
             log' = Appended(log, c, types, base)
  <2>1. PICK types \in Seq(Types), base \in Nat :
               log' = Appended(log, c, types, base)
    BY <1>2
  <2>2. PICK r : r = log'
    OBVIOUS
  <2>3. /\ Len(log) \in Nat /\ DOMAIN log = 1 .. Len(log)
        /\ DOMAIN r = 1 .. Len(r)
        /\ \A p \in 1 .. Len(log) : r[p] = log[p]
        /\ \A p \in Len(log) + 1 .. Len(r) :
             r[p].by = c /\ r[p].stream = Target[c]
        /\ Len(r) \in Nat
    BY <2>1, <2>2, AppendedRows, LenProperties DEF TypeOK
  <2>4. ASSUME NEW p \in DOMAIN r, r[p].by \in Commands
        PROVE  r[p].stream = Target[r[p].by]
    <3>1. CASE p \in 1 .. Len(log)
      BY <2>3, <2>4, <3>1 DEF OwnRows
    <3>2. CASE p \in Len(log) + 1 .. Len(r)
      BY <2>3, <3>2
    <3> QED
      BY <2>3, <3>1, <3>2
  <2> QED
    BY <2>2, <2>4 DEF OwnRows
<1> QED
  BY <1>1, <1>2 DEF Writes

\* What holds of settled requests goes on to hold, if they stay settled and
\* keep their rows.
LEMMA SettledCarries ==
  ASSUME unmarked \subseteq unmarked',
         \A d \in Commands :
           Settled(d) =>
             /\ Settled(d)'
             /\ \A types \in Seq(Types) :
                  Holds(log, d, types) => Holds(log', d, types)
  PROVE  Carries
<1> SUFFICES ASSUME NEW a \in Answers, NEW h, a.status = 200, Holding(a, h)
             PROVE  Holding(a, h)'
  BY DEF Carries
<1>1. a.types \in Seq(Types) /\ a.of \in Commands
  BY TwoHundred
<1>2. HashOf[a.of] = h
  BY DEF Holding
<1>3. CASE Settled(a.of) /\ Holds(log, a.of, a.types)
  <2>1. Settled(a.of)' /\ Holds(log', a.of, a.types)
    BY <1>1, <1>3
  <2> QED
    BY <1>2, <2>1 DEF Holding
<1>4. CASE a.types = << >> /\ a.of \in unmarked
  <2>1. a.of \in unmarked'
    BY <1>4
  <2> QED
    BY <1>2, <1>4, <2>1 DEF Holding
<1> QED
  BY <1>3, <1>4 DEF Holding

LEMMA OneMovesCarries ==
  ASSUME TypeOK, NEW c \in Commands, Moves(c), Writes(c),
         Over(c) => Over(c)'
  PROVE  Carries
<1>1. ASSUME NEW d \in Commands, Settled(d)
      PROVE  /\ Settled(d)'
             /\ \A types \in Seq(Types) :
                  Holds(log, d, types) => Holds(log', d, types)
  <2>1. CASE d = c
    <3>1. UNCHANGED log
      BY <1>1, <2>1 DEF Writes
    <3>2. PositionsOf(c)' = PositionsOf(c)
      BY <3>1 DEF PositionsOf
    <3> QED
      BY <1>1, <2>1, <3>1, <3>2 DEF Settled
  <2>2. CASE d # c
    <3>1. at'[d] = at[d] /\ (Queued(d)' <=> Queued(d))
      BY <2>2 DEF Moves
    <3>2. RowsOf(log', d) = RowsOf(log, d)
      BY <2>2, OthersRows
    <3>3. PositionsOf(d)' = PositionsOf(d)
      BY <3>2 DEF PositionsOf
    <3>4. Settled(d)'
      BY <1>1, <3>1, <3>3 DEF Settled, Over
    <3> QED
      BY <2>2, <3>4, OthersRows
  <2> QED
    BY <2>1, <2>2
<1>2. unmarked \subseteq unmarked'
  BY DEF Moves
<1> QED
  BY <1>1, <1>2, SettledCarries

\* A request of which nothing changes, except that its row may leave the
\* queue, keeps its invariant.
LEMMA SameRequest ==
  ASSUME TypeOK, Carries, unmarked \subseteq unmarked',
         NEW d \in Commands, RequestInv(d),
         at'[d] = at[d], answer'[d] = answer[d],
         known'[d] = known[d] \/ known'[d] = None, Queued(d)' => Queued(d),
         RowsOf(log', d) = RowsOf(log, d),
         known'[d] # None /\ at[d] = "open" => RecordOf(d)' = RecordOf(d)
  PROVE  RequestInv(d)'
<1>1. PositionsOf(d)' = PositionsOf(d)
  BY DEF PositionsOf
<1>2. Untouched(d) => Untouched(d)'
  BY <1>1 DEF Untouched
<1>3. PICK a \in Answers : a = answer[d]
  BY DEF TypeOK
<1>4. a.status = 200 /\ Holding(a, HashOf[d]) => Holding(a, HashOf[d])'
  BY DEF Carries
<1>5. QueueInv(d)'
  BY DEF QueueInv, RequestInv
<1>6. RowsInv(d)'
  BY <1>1 DEF RowsInv, RequestInv
<1>7. answer'[d] = a
  BY <1>3
<1>8. OutcomeInv(d)'
  <2> SUFFICES ASSUME at'[d] = "outcome"
               PROVE  \/ a.status = 200 /\ Holding(a, HashOf[d])'
                      \/ a.status = 409 /\ Untouched(d)'
    BY <1>7 DEF OutcomeInv
  <2> QED
    BY <1>2, <1>3, <1>4 DEF OutcomeInv, RequestInv
<1>9. AnsweredInv(d)'
  <2> SUFFICES ASSUME at'[d] = "answered"
               PROVE  \/ a.status = 200 /\ Holding(a, HashOf[d])'
                      \/ a.status = 504
                      \/ a.status \in {400, 500} /\ d \in unmarked'
                      \/ a.status # 200 /\ Untouched(d)'
    BY <1>7 DEF AnsweredInv
  <2> QED
    BY <1>2, <1>3, <1>4 DEF AnsweredInv, RequestInv
<1>10. KnownInv(d)'
  BY <1>2 DEF KnownInv, RequestInv
<1> QED
  BY <1>5, <1>6, <1>8, <1>9, <1>10 DEF RequestInv

LEMMA OthersStay ==
  ASSUME TypeOK, IInv, NEW c \in Commands, Moves(c), Writes(c), Carries,
         NEW d \in Commands \ {c},
         known[d] # None /\ at[d] = "open" => RecordOf(d)' = RecordOf(d)
  PROVE  RequestInv(d)'
<1>1. /\ at'[d] = at[d] /\ answer'[d] = answer[d] /\ known'[d] = known[d]
      /\ Queued(d)' <=> Queued(d)
      /\ unmarked \subseteq unmarked'
  BY DEF Moves
<1>2. RowsOf(log', d) = RowsOf(log, d)
  BY OthersRows
<1>3. RequestInv(d)
  BY DEF IInv
<1> QED
  BY <1>1, <1>2, <1>3, SameRequest

LEMMA SameRecords ==
  ASSUME TypeOK, RecordsInv, Carries,
         \A k \in Keys : records'[k] \in {records[k], None}
  PROVE  RecordsInv'
<1>1. ASSUME NEW k \in Keys, NEW record, record = records'[k], record # None
      PROVE  \/ /\ record.answer.status = 200
                /\ Holding(record.answer, record.hash)'
             \/ record.answer.status = 409
  <2>1. record = records[k]
    BY <1>1
  <2>2. record.answer \in Answers
    BY <1>1, <2>1 DEF TypeOK, Recorded
  <2>3. \/ record.answer.status = 200 /\ Holding(record.answer, record.hash)
        \/ record.answer.status = 409
    BY <1>1, <2>1 DEF RecordsInv
  <2>4. record.answer.status = 200 /\ Holding(record.answer, record.hash) =>
          Holding(record.answer, record.hash)'
    BY <2>2 DEF Carries
  <2> QED
    BY <2>3, <2>4
<1> QED
  BY <1>1 DEF RecordsInv

LEMMA Assembled ==
  ASSUME TypeOK, IInv, NEW c \in Commands, Moves(c), Writes(c), Carries,
         QueuedOnce', RecordsInv', TellInv', RequestInv(c)',
         \A d \in Commands \ {c} :
           known[d] # None /\ at[d] = "open" => RecordOf(d)' = RecordOf(d)
  PROVE  IInv'
<1>1. ASSUME NEW d \in Commands PROVE RequestInv(d)'
  BY OthersStay
<1>2. OwnRows'
  BY OwnRowsStay DEF IInv
<1> QED
  BY <1>1, <1>2 DEF IInv

\* The row the writer is at is a queued one.
LEMMA RowQueued ==
  ASSUME TypeOK, passed < Len(queue)
  PROVE  Row \in Commands /\ Queued(Row)
  BY RowType DEF Row, Queued

\* What the writer is about to tell stays true while its row stays, no other
\* decision replaces it, and the log grows by other requests' rows only.
LEMMA SameTell ==
  ASSUME TypeOK, TellInv, UNCHANGED <<passed, committed>>,
         NEW c, c = Row,
         committed =>
           /\ Row' = c /\ decision'[c] = decision[c]
           /\ \A types \in Seq(Types) :
                Holds(log, c, types) => Holds(log', c, types)
  PROVE  TellInv'
<1> SUFFICES ASSUME committed PROVE Holds(log', c, decision'[c].types)
  BY DEF TellInv
<1>1. c \in Commands
  BY RowQueued DEF TypeOK
<1>2. decision[c].types \in Seq(Types)
  BY <1>1 DEF TypeOK
<1>3. Holds(log, c, decision[c].types)
  BY DEF TellInv
<1> QED
  BY <1>2, <1>3

\* A step that touches no database.
LEMMA Quiet ==
  ASSUME TypeOK, IInv, NEW c \in Commands,
         UNCHANGED <<log, queue, records, passed, committed, unmarked>>,
         \A d \in Commands \ {c} :
           at'[d] = at[d] /\ answer'[d] = answer[d] /\ known'[d] = known[d],
         \A d \in Commands : Queued(d) => decision'[d] = decision[d],
         Over(c) => Over(c)'
  PROVE  Carries /\ (RequestInv(c)' => IInv')
<1>1. \A d : Queued(d)' <=> Queued(d)
  BY DEF Queued
<1>2. Moves(c) /\ Writes(c)
  BY <1>1 DEF Moves, Writes
<1>3. Carries
  BY <1>2, OneMovesCarries
<1>4. QueuedOnce'
  BY DEF IInv, QueuedOnce
<1>5. RecordsInv'
  BY <1>3, SameRecords DEF IInv
<1>6. \A d : RecordOf(d)' = RecordOf(d)
  BY DEF RecordOf
<1>7. TellInv'
  <2>1. Row' = Row
    BY DEF Row
  <2>2. committed => decision'[Row] = decision[Row]
    BY RowQueued DEF TypeOK
  <2> QED
    BY <2>1, <2>2, SameTell DEF IInv
<1> QED
  BY <1>2, <1>3, <1>4, <1>5, <1>6, <1>7, Assembled

\* A handler ends with a refusal, a failure or a timeout.
LEMMA Refused ==
  ASSUME TypeOK, NEW c \in Commands, RequestInv(c),
         at[c] \in {"new", "open", "accepted", "decided", "waiting"},
         NEW status, status \notin {200}, Responds(c, status),
         \/ status = 504
         \/ status \in {400, 500} /\ c \in unmarked'
         \/ Untouched(c)',
         known'[c] # None => Untouched(c)'
  PROVE  RequestInv(c)' /\ ~Over(c)
<1>1. at'[c] = "answered" /\ answer'[c] = [status |-> status]
  BY DEF TypeOK, Responds, Goes
<1>2. ~Over(c)
  BY DEF Over
<1>3. QueueInv(c)' /\ RowsInv(c)' /\ OutcomeInv(c)'
  BY <1>1 DEF QueueInv, RowsInv, OutcomeInv
<1>4. AnsweredInv(c)'
  BY <1>1 DEF AnsweredInv
<1>5. KnownInv(c)'
  BY <1>1 DEF KnownInv
<1> QED
  BY <1>2, <1>3, <1>4, <1>5 DEF RequestInv

\* Before the dispatch nothing is there of a request.
LEMMA Undispatched ==
  ASSUME NEW c \in Commands, RequestInv(c),
         at[c] \in {"new", "open", "accepted", "decided"}
  PROVE  Untouched(c) /\ ~Over(c) /\ ~Settled(c)
  BY DEF RequestInv, QueueInv, RowsInv, Untouched, Over, Settled

\* A step by which a handler goes on, with nothing dispatched yet.
LEMMA GoesOn ==
  ASSUME TypeOK, NEW c \in Commands, RequestInv(c),
         at[c] \in {"new", "open", "accepted"},
         NEW step \in {"open", "accepted", "decided"}, Goes(c, step),
         UNCHANGED <<log, queue>>,
         known'[c] # None => step = "open" /\ RecordOf(c)' = known'[c]
  PROVE  RequestInv(c)' /\ ~Over(c)
<1>1. at'[c] = step
  BY DEF TypeOK, Goes
<1>2. ~Over(c) /\ Untouched(c)
  BY Undispatched
<1>3. Untouched(c)'
  BY <1>2 DEF Untouched, PositionsOf, Queued
<1>4. QueueInv(c)' /\ RowsInv(c)'
  BY <1>3 DEF QueueInv, RowsInv, Untouched
<1>5. OutcomeInv(c)' /\ AnsweredInv(c)'
  BY <1>1 DEF OutcomeInv, AnsweredInv
<1>6. KnownInv(c)'
  BY <1>1, <1>3 DEF KnownInv
<1> QED
  BY <1>2, <1>4, <1>5, <1>6 DEF RequestInv

\* What Responds and Goes leave alone.
LEMMA OthersAt ==
  ASSUME TypeOK, NEW c \in Commands, NEW step, Goes(c, step)
  PROVE  at'[c] = step /\ \A d \in Commands \ {c} : at'[d] = at[d]
  BY DEF TypeOK, Goes

LEMMA OthersAnswer ==
  ASSUME TypeOK, NEW c \in Commands, NEW a, answer' = [answer EXCEPT ![c] = a]
  PROVE  answer'[c] = a /\ \A d \in Commands \ {c} : answer'[d] = answer[d]
  BY DEF TypeOK

LEMMA OthersResponds ==
  ASSUME TypeOK, NEW c \in Commands, NEW status, Responds(c, status)
  PROVE  \A d \in Commands \ {c} : at'[d] = at[d] /\ answer'[d] = answer[d]
  BY DEF TypeOK, Responds, Goes

LEMMA OthersSucceeds ==
  ASSUME TypeOK, NEW c \in Commands, NEW types, Succeeds(c, types)
  PROVE  \A d \in Commands \ {c} : at'[d] = at[d] /\ answer'[d] = answer[d]
  BY DEF TypeOK, Succeeds, Goes

-----------------------------------------------------------------------------
(* Up to the dispatch.                                                     *)

LEMMA StepCheckMode ==
  ASSUME TypeOK, IInv, NEW c \in Commands, CheckMode(c)
  PROVE  IInv'
<1>1. RequestInv(c)
  BY DEF IInv
<1>2. /\ at[c] = "new"
      /\ UNCHANGED <<log, queue, records, passed, committed, unmarked, decision>>
      /\ known'[c] = RecordOf(c)
      /\ \A d \in Commands \ {c} : known'[d] = known[d]
      /\ \/ Responds(c, 503)
         \/ Goes(c, "open") /\ UNCHANGED answer
  BY DEF CheckMode, TypeOK, writer
<1>3. Untouched(c)' /\ RecordOf(c)' = RecordOf(c)
  BY <1>1, <1>2, Undispatched DEF Untouched, PositionsOf, Queued, RecordOf
<1>4. /\ RequestInv(c)' /\ ~Over(c)
      /\ \A d \in Commands \ {c} : at'[d] = at[d] /\ answer'[d] = answer[d]
  <2>1. CASE Responds(c, 503)
    BY <1>1, <1>2, <1>3, <2>1, Refused, OthersResponds
  <2>2. CASE Goes(c, "open") /\ UNCHANGED answer
    BY <1>1, <1>2, <1>3, <2>2, GoesOn, OthersAt
  <2> QED
    BY <1>2, <2>1, <2>2
<1> QED
  BY <1>2, <1>4, Quiet

LEMMA StepLookup ==
  ASSUME TypeOK, IInv, NEW c \in Commands, Lookup(c)
  PROVE  IInv'
<1>1. RequestInv(c)
  BY DEF IInv
<1>2. /\ at[c] = "open"
      /\ UNCHANGED <<log, queue, records, known, passed, committed, unmarked,
                     decision>>
      /\ \/ RecordOf(c) # None /\ Responds(c, 422)
         \/ /\ RecordOf(c) # None /\ RecordOf(c).hash = HashOf[c]
            /\ Goes(c, "answered")
            /\ answer' = [answer EXCEPT ![c] = RecordOf(c).answer]
         \/ RecordOf(c) = None /\ Goes(c, "accepted") /\ UNCHANGED answer
  BY DEF Lookup, writer
<1>3. Untouched(c)' /\ Untouched(c) /\ ~Over(c)
  BY <1>1, <1>2, Undispatched DEF Untouched, PositionsOf, Queued
<1>4. \A d \in Commands \ {c} : at'[d] = at[d] /\ answer'[d] = answer[d]
  BY <1>2, OthersResponds, OthersAt, OthersAnswer
<1>5. Carries /\ (RequestInv(c)' => IInv')
  BY <1>2, <1>3, <1>4, Quiet
<1>6. RequestInv(c)'
  <2>1. CASE Responds(c, 422)
    BY <1>1, <1>2, <1>3, <2>1, Refused
  <2>2. CASE /\ RecordOf(c) # None /\ RecordOf(c).hash = HashOf[c]
             /\ Goes(c, "answered")
             /\ answer' = [answer EXCEPT ![c] = RecordOf(c).answer]
    <3>1. PICK a : a = RecordOf(c).answer
      OBVIOUS
    <3>2. at'[c] = "answered" /\ answer'[c] = a
      BY <2>2, <3>1, OthersAt, OthersAnswer
    <3>4. /\ a \in Answers
          /\ \/ a.status = 200 /\ Holding(a, HashOf[c])
             \/ a.status = 409
      <4>1. KeyOf[c] \in Keys /\ RecordOf(c) = records[KeyOf[c]]
        BY <2>2, RecordType DEF RecordOf
      <4> QED
        BY <2>2, <3>1, <4>1 DEF IInv, RecordsInv, TypeOK, Recorded
    <3>5. a.status = 200 => Holding(a, HashOf[c])'
      BY <1>5, <3>4 DEF Carries
    <3>6. QueueInv(c)' /\ RowsInv(c)' /\ OutcomeInv(c)'
      BY <3>2 DEF QueueInv, RowsInv, OutcomeInv
    <3>7. AnsweredInv(c)'
      BY <1>3, <3>2, <3>4, <3>5 DEF AnsweredInv
    <3>8. KnownInv(c)'
      BY <1>3, <3>2 DEF KnownInv
    <3> QED
      BY <3>6, <3>7, <3>8 DEF RequestInv
  <2>3. CASE RecordOf(c) = None /\ Goes(c, "accepted")
    <3>1. known[c] = None
      BY <1>1, <1>2, <2>3 DEF RequestInv, KnownInv
    <3> QED
      BY <1>1, <1>2, <2>3, <3>1, GoesOn
  <2> QED
    BY <1>2, <2>1, <2>2, <2>3
<1> QED
  BY <1>5, <1>6

LEMMA StepFails ==
  ASSUME TypeOK, IInv, NEW c \in Commands, Fails(c)
  PROVE  IInv'
<1>1. RequestInv(c)
  BY DEF IInv
<1>2. /\ at[c] \in {"new", "open", "accepted", "decided"}
      /\ UNCHANGED <<log, queue, records, known, passed, committed, unmarked,
                     decision>>
  BY DEF Fails, writer
<1>3. PICK status \in {500, 503} : Responds(c, status)
  BY DEF Fails
<1>4. Untouched(c)'
  BY <1>1, <1>2, Undispatched DEF Untouched, PositionsOf, Queued
<1>5. RequestInv(c)' /\ ~Over(c)
  BY <1>1, <1>2, <1>3, <1>4, Refused
<1> QED
  BY <1>2, <1>3, <1>5, OthersResponds, Quiet

-----------------------------------------------------------------------------
(* The dispatch.                                                           *)

\* A handler that is told its events are in has them in, for good or unmarked.
LEMMA Applied ==
  ASSUME TypeOK, NEW c \in Commands, NEW types, Succeeds(c, types),
         Holds(log', c, types), known'[c] = None,
         \/ ~Queued(c)'
         \/ PositionsOf(c)' # {}
         \/ types = << >> /\ c \in unmarked'
  PROVE  RequestInv(c)'
<1>1. PICK a : a = [status |-> 200, types |-> types, of |-> c]
  OBVIOUS
<1>2. at'[c] = "outcome" /\ answer'[c] = a
  <2>1. Goes(c, "outcome") /\ answer' = [answer EXCEPT ![c] = a]
    BY <1>1 DEF Succeeds
  <2> QED
    BY <2>1 DEF Goes, TypeOK
<1>3. Settled(c)' \/ (types = << >> /\ c \in unmarked')
  BY <1>2 DEF Settled, Over
<1>4. a.status = 200 /\ a.of = c /\ a.types = types
  BY <1>1
<1>5. Holding(a, HashOf[c])'
  BY <1>3, <1>4 DEF Holding
<1>6. QueueInv(c)' /\ RowsInv(c)'
  BY <1>2 DEF QueueInv, RowsInv
<1>7. OutcomeInv(c)'
  BY <1>2, <1>4, <1>5 DEF OutcomeInv
<1>8. AnsweredInv(c)' /\ KnownInv(c)'
  BY <1>2 DEF AnsweredInv, KnownInv
<1> QED
  BY <1>6, <1>7, <1>8 DEF RequestInv

LEMMA StepDecideInline ==
  ASSUME TypeOK, IInv, NEW c \in Commands, DecideInline(c)
  PROVE  IInv'
<1>1. RequestInv(c)
  BY DEF IInv
<1>2. /\ at[c] = "accepted"
      /\ UNCHANGED <<log, queue, records, known, passed, committed, unmarked>>
  BY DEF DecideInline, writer
<1>3. /\ Untouched(c)' /\ Untouched(c) /\ ~Over(c) /\ known[c] = None
      /\ PositionsOf(c) = {}
  BY <1>1, <1>2, Undispatched
     DEF Untouched, PositionsOf, Queued, RequestInv, KnownInv
<1>7. ASSUME NEW d \in Commands, Queued(d) PROVE decision'[d] = decision[d]
  <2>1. d # c
    BY <1>3, <1>7 DEF Untouched
  <2> QED
    BY <2>1 DEF DecideInline, TypeOK
<1>4. \/ Responds(c, 400)
      \/ Succeeds(c, << >>)
      \/ Goes(c, "decided") /\ UNCHANGED answer
  BY DEF DecideInline
<1>5. \A d \in Commands \ {c} : at'[d] = at[d] /\ answer'[d] = answer[d]
  BY <1>4, OthersResponds, OthersSucceeds, OthersAt
<1>6. RequestInv(c)'
  <2>1. CASE Responds(c, 400)
    BY <1>1, <1>2, <1>3, <2>1, Refused
  <2>2. CASE Succeeds(c, << >>)
    <3>1. Holds(log, c, << >>)
      BY <1>3, HoldsNothing DEF PositionsOf, TypeOK
    <3> QED
      BY <1>2, <1>3, <2>2, <3>1, Applied DEF Untouched
  <2>3. CASE Goes(c, "decided")
    BY <1>1, <1>2, <1>3, <2>3, GoesOn
  <2> QED
    BY <1>4, <2>1, <2>2, <2>3
<1> QED
  BY <1>2, <1>3, <1>5, <1>6, <1>7, Quiet

LEMMA StepAppendInline ==
  ASSUME TypeOK, IInv, NEW c \in Commands, AppendInline(c)
  PROVE  IInv'
<1>1. RequestInv(c)
  BY DEF IInv
<1>2. /\ at[c] = "decided"
      /\ UNCHANGED <<queue, records, known, passed, committed, unmarked, decision>>
  BY DEF AppendInline, writer
<1>3. /\ ~Queued(c)' /\ ~Queued(c) /\ ~Over(c) /\ ~Settled(c)
      /\ known[c] = None /\ PositionsOf(c) = {}
      /\ \A d : Queued(d)' <=> Queued(d)
  BY <1>1, <1>2, Undispatched DEF Untouched, Queued, RequestInv, KnownInv
<1>4. PICK types \in Seq(Types), base \in Nat : decision[c] = [types |-> types, expected |-> base]
  BY DEF TypeOK
<1>5. \/ log' = Appended(log, c, types, base) /\ Succeeds(c, types)
      \/ /\ Goes(c, "outcome") /\ UNCHANGED log
         /\ answer' = [answer EXCEPT ![c] = [status |-> 409]]
  BY <1>4 DEF AppendInline
<1>6. Writes(c)
  BY <1>3, <1>5 DEF Writes
<1>7. \A d \in Commands \ {c} : at'[d] = at[d] /\ answer'[d] = answer[d]
  BY <1>5, OthersSucceeds, OthersAt, OthersAnswer
<1>8. Moves(c)
  BY <1>2, <1>3, <1>7 DEF Moves
<1>9. Carries
  BY <1>3, <1>6, <1>8, OneMovesCarries
<1>10. RequestInv(c)'
  <2>1. CASE log' = Appended(log, c, types, base) /\ Succeeds(c, types)
    <3>1. PICK r : r = log'
      OBVIOUS
    <3>2. Holds(r, c, types)
      BY <1>3, <2>1, <3>1, AppendedHolds DEF PositionsOf, TypeOK
    <3> QED
      BY <1>2, <1>3, <2>1, <3>1, <3>2, Applied
  <2>2. CASE /\ Goes(c, "outcome") /\ UNCHANGED log
             /\ answer' = [answer EXCEPT ![c] = [status |-> 409]]
    <3>1. at'[c] = "outcome" /\ answer'[c] = [status |-> 409]
      BY <2>2 DEF Goes, TypeOK
    <3>2. Untouched(c)'
      BY <1>3, <2>2 DEF Untouched, PositionsOf
    <3>3. QueueInv(c)' /\ RowsInv(c)' /\ AnsweredInv(c)'
      BY <3>1 DEF QueueInv, RowsInv, AnsweredInv
    <3>4. OutcomeInv(c)' /\ KnownInv(c)'
      BY <1>2, <1>3, <3>1, <3>2 DEF OutcomeInv, KnownInv
    <3> QED
      BY <3>3, <3>4 DEF RequestInv
  <2> QED
    BY <1>5, <2>1, <2>2
<1>11. QueuedOnce'
  BY <1>2 DEF IInv, QueuedOnce
<1>12. RecordsInv'
  BY <1>2, <1>9, SameRecords DEF IInv
<1>13. \A d : RecordOf(d)' = RecordOf(d)
  BY <1>2 DEF RecordOf
<1>14. TellInv'
  <2>1. Row' = Row
    BY <1>2 DEF Row
  <2>2. committed => Row \in Commands \ {c}
    BY <1>3, RowQueued DEF TypeOK
  <2>3. committed => \A ts \in Seq(Types) :
                       Holds(log, Row, ts) => Holds(log', Row, ts)
    BY <1>6, <2>2, OthersRows
  <2> QED
    BY <1>2, <2>1, <2>3, SameTell DEF IInv
<1> QED
  BY <1>6, <1>8, <1>9, <1>10, <1>11, <1>12, <1>13, <1>14, Assembled

LEMMA StepEnqueue ==
  ASSUME TypeOK, IInv, NEW c \in Commands, Enqueue(c)
  PROVE  IInv'
<1>1. RequestInv(c)
  BY DEF IInv
<1>2. /\ at[c] = "accepted"
      /\ UNCHANGED <<log, records, known, passed, committed, unmarked, decision>>
  BY DEF Enqueue, writer
<1>3. /\ Untouched(c) /\ ~Queued(c) /\ ~Over(c)
      /\ known[c] = None /\ PositionsOf(c) = {}
  BY <1>1, <1>2, Undispatched DEF Untouched, RequestInv, KnownInv
<1>4. CASE Responds(c, 503) /\ UNCHANGED queue
  <2>1. Untouched(c)'
    BY <1>2, <1>3, <1>4 DEF Untouched, PositionsOf, Queued
  <2>2. RequestInv(c)'
    BY <1>1, <1>2, <1>4, <2>1, Refused
  <2> QED
    BY <1>2, <1>3, <1>4, <2>2, OthersResponds, Quiet
<1>5. CASE queue' = Append(queue, c) /\ Goes(c, "waiting") /\ UNCHANGED answer
  <2>1. PICK n, q : n \in Nat /\ n = Len(queue) /\ q = Append(queue, c)
    BY LenProperties DEF TypeOK
  <2>2. /\ Len(q) = n + 1 /\ q[n + 1] = c
        /\ \A i \in 1 .. n : q[i] = queue[i]
    BY <2>1, AppendProperties DEF TypeOK
  <2>3. queue' = q /\ n + 1 \in 1 .. Len(q) /\ 1 .. Len(q) = (1 .. n) \cup {n + 1}
    BY <1>5, <2>1, <2>2
  <2>4. ASSUME NEW d \in Commands \ {c} PROVE Queued(d)' <=> Queued(d)
    BY <2>1, <2>2, <2>3 DEF Queued
  <2>5. ASSUME NEW i \in 1 .. Len(q), NEW j \in 1 .. Len(q), q[i] = q[j]
        PROVE  i = j
    BY <1>3, <2>1, <2>2, <2>3, <2>5 DEF Queued, IInv, QueuedOnce
  <2>6. QueuedOnce'
    BY <2>3, <2>5 DEF QueuedOnce
  <2>7. at'[c] = "waiting" /\ \A d \in Commands \ {c} : at'[d] = at[d]
    BY <1>5, OthersAt
  <2>8. Moves(c) /\ Writes(c)
    BY <1>2, <1>5, <2>4, <2>7 DEF Moves, Writes
  <2>9. Carries
    BY <1>3, <2>8, OneMovesCarries
  <2>10. RequestInv(c)'
    BY <1>2, <1>3, <2>7
       DEF RequestInv, QueueInv, RowsInv, OutcomeInv, AnsweredInv, KnownInv,
           PositionsOf
  <2>11. RecordsInv'
    BY <1>2, <2>9, SameRecords DEF IInv
  <2>12. \A d : RecordOf(d)' = RecordOf(d)
    BY <1>2 DEF RecordOf
  <2>13. TellInv'
    <3>1. committed => Row' = Row
      BY <1>2, <2>1, <2>2, <2>3, RowType DEF TypeOK, Row
    <3> QED
      BY <1>2, <3>1, SameTell DEF IInv
  <2> QED
    BY <2>6, <2>8, <2>9, <2>10, <2>11, <2>12, <2>13, Assembled
<1> QED
  BY <1>4, <1>5 DEF Enqueue

LEMMA StepBatchTimeout ==
  ASSUME TypeOK, IInv, NEW c \in Commands, BatchTimeout(c)
  PROVE  IInv'
<1>1. RequestInv(c)
  BY DEF IInv
<1>2. /\ at[c] = "waiting" /\ Responds(c, 504)
      /\ UNCHANGED <<log, queue, records, known, passed, committed, unmarked,
                     decision>>
  BY DEF BatchTimeout, writer
<1>3. known[c] = None
  BY <1>1, <1>2 DEF RequestInv, KnownInv
<1>4. RequestInv(c)' /\ ~Over(c)
  BY <1>1, <1>2, <1>3, Refused
<1> QED
  BY <1>2, <1>4, OthersResponds, Quiet

-----------------------------------------------------------------------------
(* The writer.                                                             *)

\* The row is done: it leaves the queue, and no other does.
LEMMA RowLeaves ==
  ASSUME TypeOK, IInv, passed < Len(queue), MarkDone, NEW c, c = Row
  PROVE  /\ ~Queued(c)'
         /\ \A d \in Commands \ {c} : Queued(d)' <=> Queued(d)
         /\ QueuedOnce'
<1>1. PICK n, q, i : n = Len(queue) /\ q = RemoveAt(queue, i) /\ i = passed + 1
  OBVIOUS
<1>2. n \in Nat /\ i \in 1 .. n /\ c = queue[i] /\ c \in Commands
  BY <1>1, RowType DEF Row
<1>3. /\ Len(q) = n - 1
      /\ \A j \in 1 .. i - 1 : q[j] = queue[j]
      /\ \A j \in i .. n - 1 : q[j] = queue[j + 1]
  <2>1. queue \in Seq(Commands) /\ i \in 1 .. Len(queue)
    BY <1>1, <1>2 DEF TypeOK
  <2>2. /\ Len(q) = Len(queue) - 1
        /\ \A j \in 1 .. i - 1 : q[j] = queue[j]
        /\ \A j \in i .. Len(queue) - 1 : q[j] = queue[j + 1]
    BY <1>1, <2>1, Removed
  <2> QED
    BY <1>1, <2>2
<1>4. PICK f : f = [j \in 1 .. n - 1 |-> IF j < i THEN j ELSE j + 1]
  OBVIOUS
<1>5. ASSUME NEW j \in 1 .. n - 1
      PROVE  f[j] \in 1 .. n /\ f[j] # i /\ q[j] = queue[f[j]]
  <2>1. CASE j < i
    <3>1. f[j] = j /\ j \in 1 .. i - 1
      BY <1>2, <1>4, <2>1
    <3> QED
      BY <1>2, <1>3, <2>1, <3>1
  <2>2. CASE ~(j < i)
    <3>1. f[j] = j + 1 /\ j \in i .. n - 1
      BY <1>2, <1>4, <2>2
    <3> QED
      BY <1>2, <1>3, <2>2, <3>1
  <2> QED
    BY <2>1, <2>2
<1>6. ASSUME NEW j \in 1 .. n - 1, NEW k \in 1 .. n - 1, f[j] = f[k]
      PROVE  j = k
  BY <1>2, <1>4, <1>6
<1>7. queue' = q
  BY <1>1 DEF MarkDone
<1>8. ASSUME NEW j \in 1 .. n - 1 PROVE q[j] # c
  BY <1>1, <1>2, <1>5, <1>8 DEF IInv, QueuedOnce
<1>9. ~Queued(c)'
  BY <1>3, <1>7, <1>8 DEF Queued
<1>10. ASSUME NEW d \in Commands \ {c} PROVE Queued(d)' <=> Queued(d)
  <2>1. ASSUME NEW k \in 1 .. n, queue[k] = d
        PROVE  \E j \in 1 .. n - 1 : q[j] = d
    <3>1. k # i
      BY <1>2, <2>1
    <3>2. CASE k < i
      <4>1. k \in 1 .. i - 1 /\ k \in 1 .. n - 1
        BY <1>2, <3>2
      <4> QED
        BY <1>3, <2>1, <4>1
    <3>3. CASE k > i
      <4>1. k - 1 \in i .. n - 1 /\ k - 1 \in 1 .. n - 1 /\ (k - 1) + 1 = k
        BY <1>2, <3>3
      <4> QED
        BY <1>3, <2>1, <4>1
    <3> QED
      BY <1>2, <3>1, <3>2, <3>3
  <2>2. ASSUME NEW j \in 1 .. n - 1, q[j] = d
        PROVE  \E k \in 1 .. n : queue[k] = d
    BY <1>5, <2>2
  <2> QED
    BY <1>1, <1>3, <1>7, <2>1, <2>2 DEF Queued
<1>11. QueuedOnce'
  <2>1. ASSUME NEW j \in 1 .. n - 1, NEW k \in 1 .. n - 1, q[j] = q[k]
        PROVE  j = k
    <3>1. f[j] = f[k]
      BY <1>1, <1>5, <2>1 DEF IInv, QueuedOnce
    <3> QED
      BY <1>6, <3>1
  <2> QED
    BY <1>3, <1>7, <2>1 DEF QueuedOnce
<1> QED
  BY <1>9, <1>10, <1>11

\* What a mark, or its loss, leaves as it was.
LEMMA Marked ==
  ASSUME TypeOK, IInv, passed < Len(queue), MarkDone \/ MarkLost, NEW c, c = Row
  PROVE  /\ c \in Commands /\ Queued(c)
         /\ ~Queued(c)' \/ c \in unmarked'
         /\ \A d \in Commands \ {c} : Queued(d)' <=> Queued(d)
         /\ QueuedOnce' /\ unmarked \subseteq unmarked'
<1>1. c \in Commands /\ Queued(c)
  BY RowQueued
<1>2. CASE MarkDone
  BY <1>1, <1>2, RowLeaves DEF MarkDone
<1>3. CASE MarkLost
  <2>1. queue' = queue /\ unmarked' = unmarked \cup {c}
    BY <1>3 DEF MarkLost
  <2> QED
    BY <1>1, <2>1 DEF Queued, IInv, QueuedOnce
<1> QED
  BY <1>2, <1>3

\* A queued request is not over, began with no record, and its handler is past
\* the lookup.
LEMMA QueuedRequest ==
  ASSUME NEW c \in Commands, RequestInv(c), Queued(c)
  PROVE  /\ at[c] \in {"waiting", "outcome", "answered", "lost"}
         /\ ~Over(c) /\ known[c] = None
  BY DEF RequestInv, QueueInv, KnownInv, Untouched, Over

\* The resume lookup finds every request that has events.
LEMMA NotApplied ==
  ASSUME TypeOK, IInv, NEW c \in Commands, ~CommandApplied(log, c, 0)
  PROVE  PositionsOf(c) = {}
<1> SUFFICES ASSUME NEW p \in PositionsOf(c) PROVE FALSE
  OBVIOUS
<1>1. p \in DOMAIN log /\ log[p].by = c
  BY DEF PositionsOf, RowsOf
<1>2. log[p].stream = Target[c]
  BY <1>1 DEF IInv, OwnRows
<1>3. p > 0
  BY <1>1 DEF TypeOK
<1> QED
  BY <1>1, <1>2, <1>3 DEF CommandApplied, StreamOf

\* The writer is done with a row it has told of, or told nobody of.
LEMMA RowTold ==
  ASSUME TypeOK, IInv, passed < Len(queue), MarkDone \/ MarkLost,
         UNCHANGED <<log, records, known, decision>>, committed' = FALSE,
         NEW c, c = Row,
         \A d \in Commands \ {c} : at'[d] = at[d] /\ answer'[d] = answer[d],
         UNCHANGED <<at, answer>> \/ RequestInv(c)'
  PROVE  IInv'
<1>1. /\ c \in Commands /\ Queued(c)
      /\ \A d \in Commands \ {c} : Queued(d)' <=> Queued(d)
      /\ QueuedOnce' /\ unmarked \subseteq unmarked'
  BY Marked
<1>2. RequestInv(c)
  BY <1>1 DEF IInv
<1>3. ~Over(c) /\ known[c] = None
  BY <1>1, <1>2, QueuedRequest
<1>4. Moves(c) /\ Writes(c)
  BY <1>1 DEF Moves, Writes
<1>5. Carries
  BY <1>1, <1>3, <1>4, OneMovesCarries
<1>6. RequestInv(c)'
  <2>1. CASE UNCHANGED <<at, answer>>
    BY <1>1, <1>2, <1>3, <1>5, <2>1, SameRequest
  <2> QED
    BY <2>1
<1>7. RecordsInv'
  BY <1>5, SameRecords DEF IInv
<1>8. TellInv'
  BY DEF TellInv
<1>9. \A d : RecordOf(d)' = RecordOf(d)
  BY DEF RecordOf
<1> QED
  BY <1>1, <1>4, <1>5, <1>6, <1>7, <1>8, <1>9, Assembled

LEMMA StepWriterResumes ==
  ASSUME TypeOK, IInv, WriterResumes
  PROVE  IInv'
<1>1. /\ passed < Len(queue)
      /\ MarkDone \/ MarkLost
      /\ UNCHANGED <<log, records, known, decision, at, answer>>
      /\ committed' = FALSE
  BY DEF WriterResumes, AtRow, MarkOrNot, TypeOK
<1> QED
  BY <1>1, RowTold

\* A refusal or an error is told before the row is marked.
LEMMA RowRefused ==
  ASSUME TypeOK, IInv, AtRow, ~CommandApplied(log, Row, 0),
         NEW status \in {400, 500}, SignalError(Row, status),
         MarkDone \/ MarkLost,
         UNCHANGED <<log, records, known, decision, committed>>
  PROVE  IInv'
<1>1. PICK c : c = Row
  OBVIOUS
<1>2. passed < Len(queue) /\ committed' = FALSE
  BY DEF AtRow, TypeOK
<1>3. /\ c \in Commands /\ Queued(c)
      /\ ~Queued(c)' \/ c \in unmarked'
  BY <1>1, <1>2, Marked
<1>4. RequestInv(c)
  BY <1>3 DEF IInv
<1>5. PositionsOf(c)' = {}
  BY <1>1, <1>3, NotApplied DEF PositionsOf
<1>6. CASE UNCHANGED <<at, answer>>
  BY <1>2, <1>6, RowTold
<1>7. CASE at[c] = "waiting" /\ Responds(c, status)
  <2>1. known[c] = None
    BY <1>3, <1>4, QueuedRequest
  <2>2. Untouched(c)' \/ c \in unmarked'
    BY <1>3, <1>5 DEF Untouched
  <2>3. RequestInv(c)'
    BY <1>3, <1>4, <1>7, <2>1, <2>2, Refused
  <2>4. \A d \in Commands \ {c} : at'[d] = at[d] /\ answer'[d] = answer[d]
    BY <1>3, <1>7, OthersResponds
  <2>5. UNCHANGED <<log, records, known, decision>>
    OBVIOUS
  <2> QED
    BY <1>1, <1>2, <1>3, <2>3, <2>4, <2>5, RowTold
<1> QED
  BY <1>1, <1>6, <1>7 DEF SignalError

LEMMA StepWriterRefuses ==
  ASSUME TypeOK, IInv, WriterRefuses
  PROVE  IInv'
  BY RowRefused DEF WriterRefuses, MarkOrNot

LEMMA StepWriterFails ==
  ASSUME TypeOK, IInv, WriterFails
  PROVE  IInv'
  BY RowRefused DEF WriterFails

\* The row's events are committed, of a request that had none and is not told.
LEMMA StepWriterCommits ==
  ASSUME TypeOK, IInv, WriterCommits
  PROVE  IInv'
<1>1. PICK c : c = Row
  OBVIOUS
<1>2. PICK h : h = History(log, Target[c])
  OBVIOUS
<1>3. PICK d : d = Decide(c, h)
  OBVIOUS
<1>4. PICK n \in Nat : n = Len(h)
  BY <1>2, HistoryLength DEF TypeOK
<1>5. /\ passed < Len(queue) /\ ~CommandApplied(log, c, 0)
      /\ d \in Seq(Types)
      /\ decision' = [decision EXCEPT ![c] = [types |-> d, expected |-> n]]
      /\ log' = Appended(log, c, d, n)
      /\ UNCHANGED <<records, queue, passed, at, answer, known, unmarked>>
  BY <1>1, <1>2, <1>3, <1>4 DEF WriterCommits, AtRow
<1>6. c \in Commands /\ Queued(c)
  BY <1>1, <1>5, RowQueued
<1>7. RequestInv(c)
  BY <1>6 DEF IInv
<1>8. /\ PositionsOf(c) = {} /\ ~Over(c) /\ known[c] = None
      /\ at[c] \in {"waiting", "outcome", "answered", "lost"}
  BY <1>5, <1>6, <1>7, NotApplied, QueuedRequest
<1>9. Writes(c)
  BY <1>5, <1>8 DEF Writes, Settled
<1>10. \A e : Queued(e)' <=> Queued(e)
  BY <1>5 DEF Queued
<1>11. Moves(c)
  BY <1>5, <1>10 DEF Moves
<1>12. Carries
  BY <1>6, <1>8, <1>9, <1>11, OneMovesCarries
<1>13. RequestInv(c)'
  <2>1. PICK a \in Answers : a = answer[c]
    BY <1>6 DEF TypeOK
  <2>2. answer'[c] = a /\ at'[c] = at[c]
    BY <1>5, <2>1
  <2>3. a.status = 200 /\ Holding(a, HashOf[c]) => Holding(a, HashOf[c])'
    BY <1>12 DEF Carries
  <2>4. QueueInv(c)' /\ RowsInv(c)'
    BY <1>8, <2>2 DEF QueueInv, RowsInv
  <2>5. OutcomeInv(c)'
    BY <1>6, <1>7, <2>1, <2>2, <2>3 DEF RequestInv, OutcomeInv, Untouched
  <2>6. AnsweredInv(c)'
    BY <1>5, <1>6, <1>7, <2>1, <2>2, <2>3 DEF RequestInv, AnsweredInv, Untouched
  <2>7. KnownInv(c)'
    BY <1>5, <1>8 DEF KnownInv
  <2> QED
    BY <2>4, <2>5, <2>6, <2>7 DEF RequestInv
<1>14. TellInv'
  <2>1. PICK r : r = log'
    OBVIOUS
  <2>2. Holds(r, c, d)
    BY <1>5, <1>6, <1>8, <2>1, AppendedHolds DEF PositionsOf, TypeOK
  <2>3. Row' = c /\ decision'[c].types = d
    BY <1>1, <1>5, <1>6 DEF Row, TypeOK
  <2> QED
    BY <2>1, <2>2, <2>3 DEF TellInv
<1>15. RecordsInv'
  BY <1>5, <1>12, SameRecords DEF IInv
<1>16. QueuedOnce'
  BY <1>5 DEF IInv, QueuedOnce
<1>17. \A e : RecordOf(e)' = RecordOf(e)
  BY <1>5 DEF RecordOf
<1> QED
  BY <1>6, <1>9, <1>11, <1>12, <1>13, <1>14, <1>15, <1>16, <1>17, Assembled

\* A request that holds an event has a row.
LEMMA HoldsSome ==
  ASSUME TypeOK, NEW c, NEW types \in Seq(Types), Holds(log, c, types),
         types # << >>
  PROVE  PositionsOf(c) # {}
<1>1. PICK n \in Nat : n = Len(types)
  BY LenProperties
<1>2. n # 0
  BY <1>1, EmptySeq
<1>3. PICK base \in 0 .. Len(log) - Len(types) :
        RowsOf(log, c) = base + 1 .. base + n
  BY <1>1 DEF Holds
<1>4. Len(log) \in Nat
  BY LenProperties DEF TypeOK
<1>5. base + 1 \in base + 1 .. base + n
  BY <1>1, <1>2, <1>3, <1>4
<1> QED
  BY <1>3, <1>5 DEF PositionsOf

LEMMA StepWriterTells ==
  ASSUME TypeOK, IInv, WriterTells
  PROVE  IInv'
<1>1. PICK c : c = Row
  OBVIOUS
<1>2. /\ passed < Len(queue) /\ committed' = FALSE /\ committed
      /\ MarkDone \/ MarkLost
      /\ UNCHANGED <<log, records, known, decision>>
  BY DEF WriterTells, MarkOrNot, TypeOK
<1>3. /\ c \in Commands /\ Queued(c)
      /\ ~Queued(c)' \/ c \in unmarked'
  BY <1>1, <1>2, Marked
<1>4. RequestInv(c)
  BY <1>3 DEF IInv
<1>5. PICK types \in Seq(Types) : types = decision[c].types
  BY <1>3 DEF TypeOK
<1>6. CASE UNCHANGED <<at, answer>>
  BY <1>2, <1>6, RowTold
<1>7. CASE at[c] = "waiting" /\ Succeeds(c, types)
  <2>1. known'[c] = None
    BY <1>2, <1>3, <1>4, QueuedRequest
  <2>2. Holds(log, c, types)
    BY <1>1, <1>2, <1>5 DEF IInv, TellInv
  <2>3. types = << >> \/ PositionsOf(c) # {}
    BY <2>2, HoldsSome
  <2>4. Holds(log', c, types) /\ (types = << >> \/ PositionsOf(c)' # {})
    BY <1>2, <2>2, <2>3 DEF PositionsOf
  <2>5. RequestInv(c)'
    BY <1>3, <1>7, <2>1, <2>4, Applied
  <2> QED
    BY <1>1, <1>2, <1>3, <1>7, <2>5, OthersSucceeds, RowTold
<1> QED
  BY <1>1, <1>5, <1>6, <1>7 DEF WriterTells, SignalEvents

-----------------------------------------------------------------------------
(* After the dispatch, and around the handler.                             *)

\* The outcome is answered, saved or not.
LEMMA StepRespond ==
  ASSUME TypeOK, IInv, NEW c \in Commands, Respond(c)
  PROVE  IInv'
<1>1. RequestInv(c)
  BY DEF IInv
<1>2. /\ at[c] = "outcome" /\ Goes(c, "answered")
      /\ UNCHANGED <<log, queue, answer, known, passed, committed, unmarked,
                     decision>>
      /\ \/ /\ KeyOf[c] # NoKey /\ RecordOf(c) = None
            /\ records' = [records EXCEPT ![KeyOf[c]] =
                             [hash |-> HashOf[c], answer |-> answer[c]]]
         \/ UNCHANGED records
  BY DEF Respond, writer
<1>3. at'[c] = "answered" /\ \A d \in Commands \ {c} : at'[d] = at[d]
  BY <1>2, OthersAt
<1>4. \A d : Queued(d)' <=> Queued(d)
  BY <1>2 DEF Queued
<1>14. known[c] = None /\ (Over(c) => Over(c)')
  BY <1>1, <1>2, <1>3, <1>4 DEF RequestInv, KnownInv, Over
<1>5. Moves(c) /\ Writes(c)
  BY <1>2, <1>3, <1>4 DEF Moves, Writes
<1>6. Carries
  BY <1>5, <1>14, OneMovesCarries
<1>7. PICK a \in Answers : a = answer[c]
  BY DEF TypeOK
<1>8. \/ a.status = 200 /\ Holding(a, HashOf[c])
      \/ a.status = 409 /\ Untouched(c)
  BY <1>1, <1>2, <1>7 DEF RequestInv, OutcomeInv
<1>9. \/ a.status = 200 /\ Holding(a, HashOf[c])'
      \/ a.status = 409 /\ Untouched(c)'
  BY <1>2, <1>4, <1>6, <1>8 DEF Carries, Untouched, PositionsOf
<1>10. RequestInv(c)'
  <2>1. answer'[c] = a
    BY <1>2, <1>7
  <2>2. QueueInv(c)' /\ RowsInv(c)' /\ OutcomeInv(c)'
    BY <1>3 DEF QueueInv, RowsInv, OutcomeInv
  <2>3. AnsweredInv(c)'
    BY <1>3, <1>9, <2>1 DEF AnsweredInv
  <2>4. KnownInv(c)'
    BY <1>2, <1>14 DEF KnownInv
  <2> QED
    BY <2>2, <2>3, <2>4 DEF RequestInv
<1>11. QueuedOnce'
  BY <1>2 DEF IInv, QueuedOnce
<1>15. TellInv'
  <2>1. Row' = Row
    BY <1>2 DEF Row
  <2> QED
    BY <1>2, <2>1, SameTell DEF IInv
<1>12. CASE UNCHANGED records
  <2>1. RecordsInv'
    BY <1>6, <1>12, SameRecords DEF IInv
  <2>2. \A d : RecordOf(d)' = RecordOf(d)
    BY <1>12 DEF RecordOf
  <2> QED
    BY <1>5, <1>6, <1>10, <1>11, <1>15, <2>1, <2>2, Assembled
<1>13. CASE /\ KeyOf[c] # NoKey /\ RecordOf(c) = None
            /\ records' = [records EXCEPT ![KeyOf[c]] =
                             [hash |-> HashOf[c], answer |-> answer[c]]]
  <2>1. PICK k \in Keys : k = KeyOf[c]
    BY <1>13, RecordType
  <2>2. PICK record : record = [hash |-> HashOf[c], answer |-> a]
    OBVIOUS
  <2>3. records[k] = None
    BY <1>13, <2>1 DEF RecordOf
  <2>4. /\ records'[k] = record
        /\ \A j \in Keys \ {k} : records'[j] = records[j]
    BY <1>7, <1>13, <2>1, <2>2 DEF TypeOK
  <2>5. record.hash = HashOf[c] /\ record.answer = a
    BY <2>2
  <2>6. \/ record.answer.status = 200 /\ Holding(record.answer, record.hash)'
        \/ record.answer.status = 409
    BY <1>9, <2>5
  <2>7. RecordsInv'
    <3>1. ASSUME NEW j \in Keys, NEW other, other = records'[j], other # None
          PROVE  \/ /\ other.answer.status = 200
                    /\ Holding(other.answer, other.hash)'
                 \/ other.answer.status = 409
      <4>1. CASE j = k
        BY <2>4, <2>6, <3>1, <4>1
      <4>2. CASE j # k
        <5>1. other = records[j]
          BY <2>4, <3>1, <4>2
        <5>2. other.answer \in Answers
          BY <3>1, <5>1 DEF TypeOK, Recorded
        <5>3. \/ other.answer.status = 200 /\ Holding(other.answer, other.hash)
              \/ other.answer.status = 409
          BY <3>1, <5>1 DEF IInv, RecordsInv
        <5>4. other.answer.status = 200 /\ Holding(other.answer, other.hash)
                => Holding(other.answer, other.hash)'
          BY <1>6, <5>2 DEF Carries
        <5> QED
          BY <5>3, <5>4
      <4> QED
        BY <4>1, <4>2
    <3> QED
      BY <3>1 DEF RecordsInv
  <2>8. ASSUME NEW d \in Commands \ {c}, known[d] # None, at[d] = "open"
        PROVE  RecordOf(d)' = RecordOf(d)
    <3>1. RecordOf(d) # None
      BY <2>8 DEF IInv, RequestInv, KnownInv
    <3>2. KeyOf[d] \in Keys /\ KeyOf[d] # k /\ KeyOf[d] # NoKey
      BY <2>3, <2>8, <3>1, RecordType DEF RecordOf
    <3> QED
      BY <2>4, <3>2 DEF RecordOf
  <2> QED
    BY <1>5, <1>6, <1>10, <1>11, <1>15, <2>7, <2>8, Assembled
<1> QED
  BY <1>2, <1>12, <1>13

\* Pruning a record takes it away, and with it what a request that has not
\* looked it up yet knew.
LEMMA StepPrune ==
  ASSUME TypeOK, IInv, NEW k \in Keys, Prune(k)
  PROVE  IInv'
<1>1. UNCHANGED <<log, queue, at, answer, passed, committed, unmarked, decision>>
  BY DEF Prune, writer
<1>2. \A d : (Queued(d)' <=> Queued(d)) /\ (Settled(d)' <=> Settled(d))
  BY <1>1 DEF Queued, Settled, Over, PositionsOf
<1>8. OwnRows' /\ TellInv'
  BY <1>1 DEF IInv, OwnRows, TellInv, Row
<1>3. Carries
  BY <1>1, <1>2, SettledCarries
<1>4. /\ records'[k] = None
      /\ \A j \in Keys \ {k} : records'[j] = records[j]
  BY DEF Prune, TypeOK
<1>5. RecordsInv'
  BY <1>3, <1>4, SameRecords DEF IInv
<1>6. QueuedOnce'
  BY <1>1 DEF IInv, QueuedOnce
<1>7. ASSUME NEW d \in Commands PROVE RequestInv(d)'
  <2>1. known'[d] = IF KeyOf[d] = k /\ at[d] = "open" THEN None ELSE known[d]
    BY DEF Prune
  <2>2. ASSUME known'[d] # None, at[d] = "open"
        PROVE  RecordOf(d)' = RecordOf(d)
    <3>1. KeyOf[d] # k
      BY <2>1, <2>2
    <3> QED
      BY <1>4, <3>1, RecordType DEF RecordOf
  <2>3. RequestInv(d)
    BY DEF IInv
  <2> QED
    BY <1>1, <1>2, <1>3, <2>1, <2>2, <2>3, SameRequest
<1> QED
  BY <1>5, <1>6, <1>7, <1>8 DEF IInv

\* A crash loses the handlers under way, and settles those that have their
\* outcome.
LEMMA StepCrash ==
  ASSUME TypeOK, IInv, Crash
  PROVE  IInv'
<1>1. /\ UNCHANGED <<log, queue, answer, records, known, unmarked>>
      /\ committed' = FALSE
      /\ \A d \in Commands :
           at'[d] = IF at[d] = "new" \/ Ended(d) THEN at[d] ELSE "lost"
  BY DEF Crash
<1>2. \A d : Queued(d)' <=> Queued(d)
  BY <1>1 DEF Queued
<1>3. \A d \in Commands : Settled(d) => Settled(d)'
  BY <1>1, <1>2 DEF Settled, Over, Ended, PositionsOf
<1>8. OwnRows' /\ TellInv'
  BY <1>1 DEF IInv, OwnRows, TellInv
<1>4. Carries
  BY <1>1, <1>3, SettledCarries
<1>5. RecordsInv'
  BY <1>1, <1>4, SameRecords DEF IInv
<1>6. QueuedOnce'
  BY <1>1 DEF IInv, QueuedOnce
<1>7. ASSUME NEW d \in Commands PROVE RequestInv(d)'
  <2>1. RequestInv(d)
    BY DEF IInv
  <2>2. RowsOf(log', d) = RowsOf(log, d) /\ RecordOf(d)' = RecordOf(d)
    BY <1>1 DEF RecordOf
  <2>3. CASE at'[d] = at[d]
    BY <1>1, <1>2, <1>4, <2>1, <2>2, <2>3, SameRequest
  <2>4. CASE at'[d] = "lost" /\ ~Ended(d)
    <3>1. Untouched(d)' <=> Untouched(d)
      BY <1>1, <1>2 DEF Untouched, PositionsOf
    <3>2. QueueInv(d)' /\ OutcomeInv(d)' /\ AnsweredInv(d)'
      BY <2>4 DEF QueueInv, OutcomeInv, AnsweredInv
    <3>3. RowsInv(d)'
      BY <2>4 DEF RowsInv
    <3>4. KnownInv(d)'
      BY <1>1, <2>1, <2>4, <3>1 DEF RequestInv, KnownInv
    <3> QED
      BY <3>2, <3>3, <3>4 DEF RequestInv
  <2> QED
    BY <1>1, <2>3, <2>4
<1> QED
  BY <1>5, <1>6, <1>7, <1>8 DEF IInv

\* A step that leaves what the invariant speaks of alone.
LEMMA StepSame ==
  ASSUME TypeOK, IInv,
         UNCHANGED <<log, queue, at, answer, records, known, unmarked>>,
         committed' = FALSE \/ UNCHANGED <<committed, passed, decision>>
  PROVE  IInv'
<1>1. \A d : (Queued(d)' <=> Queued(d)) /\ (Settled(d)' <=> Settled(d))
  BY DEF Queued, Settled, Over, PositionsOf
<1>6. OwnRows' /\ TellInv'
  BY DEF IInv, OwnRows, TellInv, Row
<1>2. Carries
  BY <1>1, SettledCarries
<1>3. RecordsInv'
  BY <1>2, SameRecords DEF IInv
<1>4. QueuedOnce'
  BY DEF IInv, QueuedOnce
<1>5. ASSUME NEW d \in Commands PROVE RequestInv(d)'
  <2>1. RequestInv(d) /\ RecordOf(d)' = RecordOf(d)
    BY DEF IInv, RecordOf
  <2> QED
    BY <1>1, <1>2, <2>1, SameRequest
<1> QED
  BY <1>3, <1>4, <1>5, <1>6 DEF IInv

LEMMA StepIInv == TypeOK /\ IInv /\ [Next]_vars => IInv'
<1> SUFFICES ASSUME TypeOK, IInv, [Next]_vars PROVE IInv'
  OBVIOUS
<1>1. CASE \E c \in Commands :
             \/ CheckMode(c) \/ Lookup(c) \/ Fails(c) \/ DecideInline(c)
             \/ AppendInline(c) \/ Enqueue(c) \/ BatchTimeout(c) \/ Respond(c)
  BY <1>1, StepCheckMode, StepLookup, StepFails, StepDecideInline,
     StepAppendInline, StepEnqueue, StepBatchTimeout, StepRespond
<1>2. CASE SetMode
  BY <1>2, StepSame DEF SetMode, writer
<1>5. CASE PassEnds
  BY <1>5, StepSame DEF PassEnds, TypeOK
<1>3. CASE \E k \in Keys : Prune(k)
  BY <1>3, StepPrune
<1>4. CASE UNCHANGED vars
  BY <1>4, StepSame DEF vars
<1> QED
  BY <1>1, <1>2, <1>3, <1>4, <1>5, StepWriterResumes, StepWriterRefuses,
     StepWriterFails, StepWriterCommits, StepWriterTells, StepCrash DEF Next

-----------------------------------------------------------------------------
(* The theorems.                                                           *)

\* A settled request stays settled, and what is saved and answered is of
\* settled ones, or of the unmarked: every request, record and row satisfies
\* its part of the invariant.
THEOREM SettledOnly == Spec => []IInv
<1>1. Spec => [](TypeOK /\ IInv)
  BY InitTypeOK, InitIInv, StepTypeOK, StepIInv, PTL DEF Spec
<1> QED
  BY <1>1, PTL

\* A 200 names events that are in the log, exactly as told and of this very
\* request, and a refusal or a failure has left nothing there: now and later,
\* but for the commands that committed nothing and whose done mark was lost.
THEOREM AnswersTrue == Spec => []AnswersAreTrue
<1>1. IInv => AnswersAreTrue
  <2> SUFFICES ASSUME IInv, NEW c \in Commands, at[c] = "answered"
               PROVE  /\ answer[c].status \in {200} =>
                           /\ HashOf[answer[c].of] = HashOf[c]
                           /\ \/ Holds(log, answer[c].of, answer[c].types)
                              \/ /\ answer[c].types = << >>
                                 /\ answer[c].of \in unmarked
                      /\ answer[c].status \in {400, 409, 422, 500, 503} =>
                           \/ PositionsOf(c) = {}
                           \/ answer[c].status \in {400, 500} /\ c \in unmarked
    BY DEF AnswersAreTrue, Answered
  <2>1. AnsweredInv(c)
    BY DEF IInv, RequestInv
  <2> QED
    BY <2>1 DEF AnsweredInv, Holding, Untouched
<1> QED
  BY <1>1, SettledOnly, PTL

\* A request whose outcome was on record when it began applies nothing.
THEOREM KnownApplyNothing == Spec => []KeyedRetryAppliesNothing
<1>1. IInv => KeyedRetryAppliesNothing
  BY DEF IInv, RequestInv, KnownInv, Untouched, KeyedRetryAppliesNothing
<1> QED
  BY <1>1, SettledOnly, PTL

\* The first outcome saved under a key is the one that stays there until it
\* is pruned.
THEOREM FirstWins == Spec => FirstOutcomeWins
<1>1. TypeOK /\ [Next]_vars =>
        [\A k \in Keys : records[k] # None => records'[k] \in {records[k], None}]_records
  <2> SUFFICES ASSUME TypeOK, [Next]_vars, NEW k \in Keys, records[k] # None
               PROVE  records'[k] \in {records[k], None}
    OBVIOUS
  <2>1. ASSUME NEW c \in Commands, Respond(c)
        PROVE  records'[k] \in {records[k], None}
    <3>1. CASE UNCHANGED records
      BY <3>1
    <3>2. CASE /\ KeyOf[c] # NoKey /\ RecordOf(c) = None
               /\ records' = [records EXCEPT ![KeyOf[c]] =
                                [hash |-> HashOf[c], answer |-> answer[c]]]
      <4>1. KeyOf[c] # k
        BY <3>2 DEF RecordOf
      <4> QED
        BY <3>2, <4>1 DEF TypeOK
    <3> QED
      BY <2>1, <3>1, <3>2 DEF Respond
  <2>2. ASSUME NEW j \in Keys, Prune(j)
        PROVE  records'[k] \in {records[k], None}
    BY <2>2 DEF Prune, TypeOK
  <2>3. CASE UNCHANGED records
    BY <2>3
  <2>4. \/ \E c \in Commands : Respond(c)
        \/ \E j \in Keys : Prune(j)
        \/ UNCHANGED records
    BY DEF Next, CheckMode, Lookup, Fails, DecideInline, AppendInline, Enqueue,
           BatchTimeout, WriterResumes, WriterRefuses, WriterFails,
           WriterCommits, WriterTells, PassEnds, SetMode, Crash, vars
  <2> QED
    BY <2>1, <2>2, <2>3, <2>4
<1> QED
  BY <1>1, GatewayTypeCorrect, PTL DEF Spec, FirstOutcomeWins
=============================================================================
