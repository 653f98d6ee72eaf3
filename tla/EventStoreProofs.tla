-------------------------- MODULE EventStoreProofs --------------------------
(***************************************************************************)
(* Theorems about EventStore, for every set of streams, callers, deciders  *)
(* and import batches.  The invariants are proved from IInv, which adds to *)
(* them what a caller between its load and its append can rely on: its     *)
(* stream has not shrunk, and if it has not grown either, the decision it  *)
(* holds is still the decision on the stream as it is now.                 *)
(*                                                                         *)
(* The second half is about Reactions, whose appends are made through the  *)
(* store's own check: that no reaction is skipped, and none made twice.    *)
(***************************************************************************)
EXTENDS EventStore, ReactionPromises, EventLogTheorems

\* A decided command is stale only if its stream grew.
DecisionsCurrent ==
  \A c \in Commands : pc[c] = "decided" =>
    /\ decision[c] # << >>
    /\ expected[c] <= Length(log, Target[c])
    /\ expected[c] = Length(log, Target[c]) =>
         decision[c] = Decide(c, History(log, Target[c]))

IInv == TypeOK /\ StreamsContiguous /\ DecisionsCurrent

-----------------------------------------------------------------------------

LEMMA InitIInv == Init => IInv
<1> SUFFICES ASSUME Init PROVE IInv
  OBVIOUS
<1>1. << >> \in Seq(Events) /\ << >> \in Seq(Types)
  BY EmptySeq
<1>2. TypeOK
  BY <1>1 DEF Init, TypeOK
<1>3. ASSUME NEW s \in Streams
      PROVE  Numbered(log, s)
  <2>1. StreamOf(log, s) = {}
    BY DEF Init, StreamOf
  <2>2. Length(log, s) = 0
    BY <2>1, FS_EmptySet DEF Length
  <2> QED
    BY <2>1, <2>2 DEF Numbered
<1>4. DecisionsCurrent
  BY DEF Init, DecisionsCurrent
<1> QED
  BY <1>2, <1>3, <1>4 DEF IInv, StreamsContiguous, Contiguous

\* Growing the log by an append or an import keeps every stale-or-current
\* decision so, provided each stream is unchanged or strictly longer.
LEMMA GrowthKeepsDecisions ==
  ASSUME IInv, NEW c \in Commands, pc[c] = "decided", NEW r \in Seq(Events),
         \/ /\ Length(r, Target[c]) = Length(log, Target[c])
            /\ History(r, Target[c]) = History(log, Target[c])
         \/ Length(r, Target[c]) > Length(log, Target[c])
  PROVE  /\ decision[c] # << >>
         /\ expected[c] <= Length(r, Target[c])
         /\ expected[c] = Length(r, Target[c]) =>
              decision[c] = Decide(c, History(r, Target[c]))
<1>1. /\ Length(log, Target[c]) \in Nat /\ Length(r, Target[c]) \in Nat
      /\ expected[c] \in Nat
  BY StreamFinite DEF IInv, TypeOK
<1> QED
  BY <1>1 DEF IInv, DecisionsCurrent

\* What an accepted append does, whatever else is going on.
LEMMA AppendStep ==
  ASSUME IInv, NEW c \in Commands, AppendDecided(c)
  PROVE  /\ expected[c] = Length(log, Target[c])
         /\ decision[c] \in Seq(Types) \ {<< >>}
         /\ decision[c] = Decide(c, History(log, Target[c]))
         /\ log' = Appended(log, c, decision[c], Length(log, Target[c]))
<1>1. /\ pc[c] = "decided" /\ CurrentSequence(log, Target[c]) = expected[c]
      /\ log' = Appended(log, c, decision[c], expected[c])
  BY DEF AppendDecided, SequenceMatches
<1>2. Target[c] \in Streams
  BY CommandsAssumption
<1>3. CurrentSequence(log, Target[c]) = Length(log, Target[c])
  BY <1>2, CurrentIsLength DEF IInv, TypeOK, StreamsContiguous, Contiguous
<1>4. decision[c] \in Seq(Types)
  BY DEF IInv, TypeOK
<1> QED
  BY <1>1, <1>3, <1>4 DEF IInv, DecisionsCurrent

\* A batch that passes the collision check shares no stream with the log.
LEMMA ImportDisjoint ==
  ASSUME IInv, NEW b \in Imports, ~ImportCollides(log, b), NEW s
  PROVE  StreamOf(log, s) = {} \/ StreamOf(b, s) = {}
<1> SUFFICES ASSUME NEW p \in StreamOf(log, s), NEW i \in StreamOf(b, s)
             PROVE  FALSE
  OBVIOUS
<1>1. p \in DOMAIN log /\ i \in DOMAIN b /\ log[p].stream = b[i].stream
  BY DEF StreamOf
<1> QED
  BY <1>1 DEF ImportCollides

LEMMA StepIInv == IInv /\ [Next]_vars => IInv'
<1> SUFFICES ASSUME IInv, [Next]_vars PROVE IInv'
  OBVIOUS
<1> USE DEF IInv
<1>t. /\ log \in Seq(Events) /\ pc \in [Commands -> {"new", "decided"} \cup Answers]
      /\ decision \in [Commands -> Seq(Types)] /\ expected \in [Commands -> Nat]
      /\ \A s \in Streams : Numbered(log, s)
  BY DEF TypeOK, StreamsContiguous, Contiguous
<1>1. ASSUME NEW c \in Commands, DecideWithMeta(c)
      PROVE  IInv'
  <2>1. log' = log
    BY <1>1 DEF DecideWithMeta
  <2>2. Length(log, Target[c]) \in Nat
    BY <1>t, StreamFinite
  <2>3. TypeOK'
    BY <1>1, <1>t, <2>1, <2>2 DEF DecideWithMeta, TypeOK, Answers
  <2>4. StreamsContiguous'
    BY <2>1 DEF StreamsContiguous
  <2>5. ASSUME NEW d \in Commands, pc'[d] = "decided"
        PROVE  /\ decision'[d] # << >>
               /\ expected'[d] <= Length(log, Target[d])
               /\ expected'[d] = Length(log, Target[d]) =>
                    decision'[d] = Decide(d, History(log, Target[d]))
    <3>1. CASE d # c
      BY <1>1, <1>t, <2>5, <3>1 DEF DecideWithMeta, DecisionsCurrent
    <3>2. CASE d = c
      <4>1. /\ pc' = [pc EXCEPT ![c] = "decided"]
            /\ decision' = [decision EXCEPT ![c] =
                              Decide(c, History(log, Target[c]))]
            /\ expected' = [expected EXCEPT ![c] = Length(log, Target[c])]
            /\ Decide(c, History(log, Target[c])) # << >>
        BY <1>1, <1>t, <2>5, <3>2 DEF DecideWithMeta
      <4> QED
        BY <1>t, <2>2, <3>2, <4>1
    <3> QED
      BY <3>1, <3>2
  <2> QED
    BY <2>1, <2>3, <2>4, <2>5 DEF DecisionsCurrent
<1>2. ASSUME NEW c \in Commands, AppendDecided(c)
      PROVE  IInv'
  <2>1. /\ decision[c] \in Seq(Types) \ {<< >>}
        /\ log' = Appended(log, c, decision[c], Length(log, Target[c]))
    BY <1>2, AppendStep
  <2>2. Target[c] \in Streams /\ Length(log, Target[c]) \in Nat
    BY <1>t, CommandsAssumption, StreamFinite
  <2>3. log' \in Seq(Events)
    BY <1>t, <2>1, <2>2, AppendedEntries
  <2>4. TypeOK'
    BY <1>2, <1>t, <2>3 DEF AppendDecided, TypeOK, Answers
  <2>5. StreamsContiguous'
    BY <1>t, <2>1, AppendedNumbered DEF StreamsContiguous, Contiguous
  <2>6. ASSUME NEW d \in Commands, pc'[d] = "decided"
        PROVE  /\ decision'[d] # << >>
               /\ expected'[d] <= Length(log', Target[d])
               /\ expected'[d] = Length(log', Target[d]) =>
                    decision'[d] = Decide(d, History(log', Target[d]))
    <3>1. pc[d] = "decided" /\ decision' = decision /\ expected' = expected
      BY <1>2, <1>t, <2>6 DEF AppendDecided
    <3>2. Target[d] \in Streams
      BY CommandsAssumption
    <3>3. CASE Target[d] = Target[c]
      <4>1. Length(log', Target[d]) = Length(log, Target[d]) + Len(decision[c])
        BY <1>t, <2>1, <2>2, <3>3, AppendedLength
      <4>2. Len(decision[c]) > 0
        BY <2>1, EmptySeq
      <4>3. Length(log', Target[d]) > Length(log, Target[d])
        BY <2>1, <2>2, <3>3, <4>1, <4>2, LenProperties
      <4> QED
        BY <2>3, <3>1, <4>3, GrowthKeepsDecisions
    <3>4. CASE Target[d] # Target[c]
      <4>1. Length(log', Target[d]) = Length(log, Target[d])
        BY <1>t, <2>1, <2>2, <3>4, AppendedLength
      <4>2. History(log', Target[d]) = History(log, Target[d])
        BY <1>t, <2>1, <3>2, <3>4, AppendedHistory DEF Contiguous
      <4> QED
        BY <2>3, <3>1, <4>1, <4>2, GrowthKeepsDecisions
    <3> QED
      BY <3>3, <3>4
  <2> QED
    BY <2>4, <2>5, <2>6 DEF DecisionsCurrent
<1>3. ASSUME NEW c \in Commands, AppendConflict(c) \/ PlatformFault(c)
      PROVE  IInv'
  <2>1. log' = log /\ decision' = decision /\ expected' = expected
    BY <1>3 DEF AppendConflict, PlatformFault
  <2>2. TypeOK'
    BY <1>3, <1>t, <2>1 DEF AppendConflict, PlatformFault, TypeOK, Answers
  <2>3. \A d \in Commands : pc'[d] = "decided" => pc[d] = "decided"
    BY <1>3, <1>t DEF AppendConflict, PlatformFault
  <2> QED
    BY <2>1, <2>2, <2>3 DEF StreamsContiguous, DecisionsCurrent
<1>4. ASSUME NEW b \in Imports, ImportEvents(b)
      PROVE  IInv'
  <2>1. /\ ~ImportCollides(log, b) /\ log' = Imported(log, b)
        /\ pc' = pc /\ decision' = decision /\ expected' = expected
    BY <1>4 DEF ImportEvents
  <2>2. b \in Seq(Events) /\ \A s \in Streams : Numbered(b, s)
    BY ImportsAssumption DEF Contiguous
  <2>3. log' \in Seq(Events)
    BY <1>t, <2>1, <2>2, ImportedEntries
  <2>4. TypeOK'
    BY <1>t, <2>1, <2>3 DEF TypeOK
  <2>5. \A s : StreamOf(log, s) = {} \/ StreamOf(b, s) = {}
    BY <2>1, ImportDisjoint
  <2>6. \A s \in Streams : Numbered(log', s)
    BY <1>t, <2>1, <2>2, <2>5, ImportedNumbered
  <2>7. ASSUME NEW d \in Commands, pc[d] = "decided"
        PROVE  \/ /\ Length(log', Target[d]) = Length(log, Target[d])
                  /\ History(log', Target[d]) = History(log, Target[d])
               \/ Length(log', Target[d]) > Length(log, Target[d])
    <3>1. PICK s \in Streams : s = Target[d]
      BY CommandsAssumption
    <3>2. CASE StreamOf(b, s) = {}
      <4>1. StreamOf(log', s) = StreamOf(log, s)
        BY <1>t, <2>1, <2>2, <3>2, ImportedStreams
      <4>2. \A p \in StreamOf(log, s) : log'[p] = log[p]
        <5>1. StreamOf(log, s) \subseteq 1 .. Len(log)
          BY <1>t, StreamFinite
        <5>2. \A p \in 1 .. Len(log) : log'[p] = log[p]
          BY <1>t, <2>1, <2>2, ImportedEntries
        <5> QED
          BY <5>1, <5>2
      <4>3. History(log', s) = History(log, s)
        BY <1>t, <2>3, <2>6, <4>1, <4>2, SameHistory
      <4>4. Length(log', s) = Length(log, s)
        BY <4>1 DEF Length
      <4> QED
        BY <3>1, <4>3, <4>4
    <3>3. CASE StreamOf(b, s) # {}
      <4>1. StreamOf(log, s) = {}
        BY <2>5, <3>3
      <4>2. Length(log', s) = Length(b, s)
        BY <1>t, <2>1, <2>2, <4>1, ImportedStreams
      <4>3. Length(log, s) = 0
        BY <4>1, FS_EmptySet DEF Length
      <4>4. Length(b, s) \in Nat /\ Length(b, s) # 0
        BY <2>2, <3>3, StreamFinite, FS_EmptySet DEF Length
      <4> QED
        BY <3>1, <4>2, <4>3, <4>4
    <3> QED
      BY <3>2, <3>3
  <2>8. DecisionsCurrent'
    BY <2>1, <2>3, <2>7, GrowthKeepsDecisions DEF DecisionsCurrent
  <2> QED
    BY <2>4, <2>6, <2>8 DEF StreamsContiguous, Contiguous
<1>5. CASE UNCHANGED vars
  BY <1>5 DEF vars, TypeOK, StreamsContiguous, DecisionsCurrent
<1> QED
  BY <1>1, <1>2, <1>3, <1>4, <1>5 DEF Next

\* Every reachable state is well typed.
THEOREM StoreTypeCorrect == Spec => []TypeOK
<1>1. IInv => TypeOK
  BY DEF IInv
<1> QED
  BY InitIInv, StepIInv, <1>1, PTL DEF Spec

\* In every reachable state every stream is numbered 1, 2, ... without gaps or
\* repeats, however appends, conflicts and imports interleave.
THEOREM StoreContiguous == Spec => []StreamsContiguous
<1>1. IInv => StreamsContiguous
  BY DEF IInv
<1> QED
  BY InitIInv, StepIInv, <1>1, PTL DEF Spec

-----------------------------------------------------------------------------
(* What a caller was told is what the log holds.                           *)

\* The positions of the events the program itself appended for c.
Own(l, c) == {p \in DOMAIN l : l[p].by = c /\ ~l[p].imported}

\* c's events are exactly types, adjacent and in order.
HeldAs(l, c, types) ==
  \E base \in 0 .. Len(l) - Len(types) :
    /\ Own(l, c) = base + 1 .. base + Len(types)
    /\ \A i \in 1 .. Len(types) : l[base + i].type = types[i]

\* A caller that has not decided yet holds no decision: "ok" without events
\* then means the decider answered with none.
Undecided == \A c \in Commands : pc[c] = "new" => decision[c] = << >>

AInv == IInv /\ Undecided /\ AnswersMatchLog

\* Rows that are not c's own leave what the log holds of c alone.
LEMMA ForeignRows ==
  ASSUME NEW l \in Seq(Events), NEW r \in Seq(Events), NEW c \in Commands,
         Len(l) <= Len(r),
         \A p \in 1 .. Len(l) : r[p] = l[p],
         \A p \in Len(l) + 1 .. Len(r) : r[p].by # c \/ r[p].imported
  PROVE  /\ Own(r, c) = Own(l, c)
         /\ \A types \in Seq(Types) : HeldAs(l, c, types) => HeldAs(r, c, types)
<1>1. /\ Len(l) \in Nat /\ Len(r) \in Nat
      /\ DOMAIN l = 1 .. Len(l) /\ DOMAIN r = 1 .. Len(r)
  BY LenProperties
<1>2. Own(r, c) = Own(l, c)
  <2>1. ASSUME NEW p \in Own(r, c)
        PROVE  p \in Own(l, c)
    BY <1>1 DEF Own
  <2>2. ASSUME NEW p \in Own(l, c)
        PROVE  p \in Own(r, c)
    BY <1>1 DEF Own
  <2> QED
    BY <2>1, <2>2
<1>3. ASSUME NEW types \in Seq(Types), HeldAs(l, c, types)
      PROVE  HeldAs(r, c, types)
  <2>1. PICK base \in 0 .. Len(l) - Len(types) :
          /\ Own(l, c) = base + 1 .. base + Len(types)
          /\ \A i \in 1 .. Len(types) : l[base + i].type = types[i]
    BY <1>3 DEF HeldAs
  <2>2. Len(types) \in Nat
    BY LenProperties
  <2>3. base \in 0 .. Len(r) - Len(types)
    BY <1>1, <2>1, <2>2
  <2>4. \A i \in 1 .. Len(types) : base + i \in 1 .. Len(l)
    BY <1>1, <2>1, <2>2
  <2>5. \A i \in 1 .. Len(types) : r[base + i].type = types[i]
    BY <2>1, <2>4
  <2> QED
    BY <1>2, <2>1, <2>3, <2>5 DEF HeldAs
<1> QED
  BY <1>2, <1>3

\* An append by c makes the log hold c's decision, if it held nothing of c.
LEMMA AppendHolds ==
  ASSUME NEW l \in Seq(Events), NEW c \in Commands, NEW types \in Seq(Types),
         NEW base \in Nat, Own(l, c) = {}
  PROVE  HeldAs(Appended(l, c, types, base), c, types)
<1>1. PICK r : r = Appended(l, c, types, base)
  OBVIOUS
<1>2. /\ Len(l) \in Nat /\ Len(types) \in Nat
      /\ Len(r) = Len(l) + Len(types)
      /\ DOMAIN l = 1 .. Len(l) /\ DOMAIN r = 1 .. Len(r)
      /\ \A p \in 1 .. Len(l) : r[p] = l[p]
      /\ \A p \in Len(l) + 1 .. Len(r) :
           /\ r[p].by = c /\ ~r[p].imported
           /\ r[p].type = types[p - Len(l)]
  BY <1>1, AppendedRows
<1>5. \A p \in 1 .. Len(l) : ~(r[p].by = c /\ ~r[p].imported)
  BY <1>2 DEF Own
<1>6. Own(r, c) = Len(l) + 1 .. Len(l) + Len(types)
  <2>1. ASSUME NEW p \in Own(r, c)
        PROVE  p \in Len(l) + 1 .. Len(l) + Len(types)
    BY <1>2, <1>5 DEF Own
  <2>2. ASSUME NEW p \in Len(l) + 1 .. Len(l) + Len(types)
        PROVE  p \in Own(r, c)
    BY <1>2 DEF Own
  <2> QED
    BY <2>1, <2>2
<1>7. ASSUME NEW i \in 1 .. Len(types)
      PROVE  r[Len(l) + i].type = types[i]
  <2>1. /\ Len(l) + i \in Len(l) + 1 .. Len(r)
        /\ (Len(l) + i) - Len(l) = i
    BY <1>2
  <2> QED
    BY <1>2, <2>1
<1>8. Len(l) \in 0 .. Len(r) - Len(types)
  BY <1>2
<1> QED
  BY <1>1, <1>6, <1>7, <1>8 DEF HeldAs

\* AnswersMatchLog says this of every caller.
Told(l, c) ==
  IF pc[c] = "ok" /\ decision[c] # << >>
  THEN HeldAs(l, c, decision[c]) ELSE Own(l, c) = {}

LEMMA AnswersAreTold == AnswersMatchLog <=> \A c \in Commands : Told(log, c)
  BY DEF AnswersMatchLog, Told, HeldAs, Own

LEMMA InitAInv == Init => AInv
<1> SUFFICES ASSUME Init PROVE AInv
  OBVIOUS
<1>1. \A c \in Commands : Own(log, c) = {}
  BY DEF Init, Own
<1>2. \A c \in Commands : Told(log, c)
  BY <1>1 DEF Init, Told
<1>3. Undecided
  BY DEF Init, Undecided
<1> QED
  BY <1>2, <1>3, InitIInv, AnswersAreTold DEF AInv

LEMMA StepAInv == AInv /\ [Next]_vars => AInv'
<1> SUFFICES ASSUME AInv, [Next]_vars PROVE AInv'
  OBVIOUS
<1>i. IInv /\ IInv'
  BY StepIInv DEF AInv
<1>t. /\ log \in Seq(Events) /\ pc \in [Commands -> {"new", "decided"} \cup Answers]
      /\ decision \in [Commands -> Seq(Types)] /\ expected \in [Commands -> Nat]
      /\ Len(log) \in Nat
  BY <1>i, LenProperties DEF IInv, TypeOK
<1>a. \A d \in Commands : Told(log, d)
  BY AnswersAreTold DEF AInv
<1>u. \A d \in Commands : pc[d] = "new" => decision[d] = << >>
  BY DEF AInv, Undecided
<1>p. (\A d \in Commands : Told(log, d)') => AnswersMatchLog'
  BY DEF AnswersMatchLog, Told, HeldAs, Own
<1> SUFFICES /\ \A d \in Commands : Told(log, d)'
             /\ Undecided'
  BY <1>i, <1>p DEF AInv
<1>1. ASSUME NEW c \in Commands, DecideWithMeta(c)
      PROVE  (\A d \in Commands : Told(log, d)') /\ Undecided'
  <2>1. log' = log /\ pc[c] = "new"
    BY <1>1 DEF DecideWithMeta
  <2>2. ASSUME NEW d \in Commands \ {c}
        PROVE  pc'[d] = pc[d] /\ decision'[d] = decision[d]
    BY <1>1, <1>t, <2>2 DEF DecideWithMeta
  <2>3. pc'[c] # "new" /\ ~(pc'[c] = "ok" /\ decision'[c] # << >>)
    BY <1>1, <1>t, <1>u DEF DecideWithMeta
  <2>4. Own(log, c) = {}
    BY <1>a, <2>1 DEF Told
  <2>5. \A d \in Commands : Told(log, d)'
    BY <1>a, <2>1, <2>2, <2>3, <2>4 DEF Told
  <2>6. Undecided'
    BY <1>u, <2>2, <2>3 DEF Undecided
  <2> QED
    BY <2>5, <2>6
<1>2. ASSUME NEW c \in Commands, AppendDecided(c)
      PROVE  (\A d \in Commands : Told(log, d)') /\ Undecided'
  <2>1. /\ decision[c] \in Seq(Types) \ {<< >>}
        /\ log' = Appended(log, c, decision[c], Length(log, Target[c]))
        /\ Length(log, Target[c]) \in Nat
    BY <1>2, <1>i, <1>t, AppendStep, StreamFinite
  <2>2. pc[c] = "decided" /\ pc' = [pc EXCEPT ![c] = "ok"] /\ decision' = decision
    BY <1>2 DEF AppendDecided
  <2>3. Own(log, c) = {}
    BY <1>a, <2>2 DEF Told
  <2>4. HeldAs(log', c, decision[c])
    BY <1>t, <2>1, <2>3, AppendHolds
  <2>5. /\ log' \in Seq(Events)
        /\ Len(decision[c]) \in Nat
        /\ Len(log') = Len(log) + Len(decision[c])
        /\ \A p \in 1 .. Len(log) : log'[p] = log[p]
        /\ \A p \in Len(log) + 1 .. Len(log') : log'[p].by = c
    BY <1>t, <2>1, AppendedRows
  <2>6. Len(log) <= Len(log')
    BY <1>t, <2>5
  <2>7. ASSUME NEW d \in Commands
        PROVE  Told(log, d)'
    <3>1. CASE d = c
      BY <1>t, <2>1, <2>2, <2>4, <3>1 DEF Told
    <3>2. CASE d # c
      <4>1. /\ Own(log', d) = Own(log, d)
            /\ \A types \in Seq(Types) :
                 HeldAs(log, d, types) => HeldAs(log', d, types)
        BY <1>t, <2>5, <2>6, <3>2, ForeignRows
      <4>2. pc'[d] = pc[d] /\ decision'[d] = decision[d] /\ decision[d] \in Seq(Types)
        BY <1>t, <2>2, <3>2
      <4> QED
        BY <1>a, <4>1, <4>2 DEF Told
    <3> QED
      BY <3>1, <3>2
  <2> QED
    BY <1>t, <1>u, <2>2, <2>7 DEF Undecided
<1>3. ASSUME NEW c \in Commands, AppendConflict(c) \/ PlatformFault(c)
      PROVE  (\A d \in Commands : Told(log, d)') /\ Undecided'
  <2>1. /\ log' = log /\ decision' = decision /\ pc[c] \in {"new", "decided"}
        /\ pc'[c] \in {"conflict", "failed"}
        /\ \A d \in Commands \ {c} : pc'[d] = pc[d]
    BY <1>3, <1>t DEF AppendConflict, PlatformFault
  <2>2. \A d \in Commands : Told(log, d)'
    BY <1>a, <2>1 DEF Told
  <2> QED
    BY <1>u, <2>1, <2>2 DEF Undecided
<1>4. ASSUME NEW b \in Imports, ImportEvents(b)
      PROVE  (\A d \in Commands : Told(log, d)') /\ Undecided'
  <2>1. log' = Imported(log, b) /\ pc' = pc /\ decision' = decision
    BY <1>4 DEF ImportEvents
  <2>2. b \in Seq(Events) /\ Len(b) \in Nat
    BY ImportsAssumption, LenProperties
  <2>3. /\ log' \in Seq(Events)
        /\ Len(log') = Len(log) + Len(b)
        /\ \A p \in 1 .. Len(log) : log'[p] = log[p]
        /\ \A i \in 1 .. Len(b) : log'[Len(log) + i].imported = TRUE
    BY <1>t, <2>1, <2>2, ImportedEntries
  <2>4. ASSUME NEW p \in Len(log) + 1 .. Len(log')
        PROVE  log'[p].imported
    <3>1. p - Len(log) \in 1 .. Len(b) /\ Len(log) + (p - Len(log)) = p
      BY <1>t, <2>2, <2>3
    <3> QED
      BY <2>3, <3>1
  <2>5. Len(log) <= Len(log')
    BY <1>t, <2>2, <2>3
  <2>6. ASSUME NEW d \in Commands
        PROVE  Told(log, d)'
    <3>1. /\ Own(log', d) = Own(log, d)
          /\ \A types \in Seq(Types) :
               HeldAs(log, d, types) => HeldAs(log', d, types)
      BY <1>t, <2>3, <2>4, <2>5, ForeignRows
    <3> QED
      BY <1>a, <1>t, <2>1, <3>1 DEF Told
  <2> QED
    BY <1>u, <2>1, <2>6 DEF Undecided
<1>5. CASE UNCHANGED vars
  BY <1>5, <1>a, <1>u DEF vars, Told, Undecided
<1> QED
  BY <1>1, <1>2, <1>3, <1>4, <1>5 DEF Next

\* In every reachable state the log holds a command's events exactly when its
\* caller was told "ok", and then exactly the decided ones, adjacent, in order
\* and once: a caller told of a conflict or a failure may send it again.
THEOREM StoreAnswersMatch == Spec => []AnswersMatchLog
<1>1. AInv => AnswersMatchLog
  BY DEF AInv
<1> QED
  BY InitAInv, StepAInv, <1>1, PTL DEF Spec

-----------------------------------------------------------------------------

\* A sequence is a prefix of any longer one that agrees with it.
LEMMA AgreeIsPrefix ==
  ASSUME NEW l \in Seq(Events), NEW r \in Seq(Events), Len(l) <= Len(r),
         \A p \in 1 .. Len(l) : r[p] = l[p]
  PROVE  IsPrefix(l, r)
<1>1. Len(l) \in Nat /\ Len(r) \in Nat
  BY LenProperties
<1>2. \A p \in 1 .. Len(l) : l[p] \in Events
  BY ElementOfSeq
<1>3. /\ SubSeq(l, 1, Len(l)) \in Seq(Events)
      /\ Len(SubSeq(l, 1, Len(l))) = Len(l)
      /\ \A p \in 1 .. Len(l) : SubSeq(l, 1, Len(l))[p] = l[p]
  <2>1. /\ SubSeq(l, 1, Len(l)) \in Seq(Events)
        /\ Len(SubSeq(l, 1, Len(l))) = IF 1 <= Len(l) THEN Len(l) - 1 + 1 ELSE 0
        /\ \A p \in 1 .. Len(l) - 1 + 1 : SubSeq(l, 1, Len(l))[p] = l[1 + p - 1]
    BY <1>1, <1>2, SubSeqProperties
  <2> QED
    BY <1>1, <2>1
<1>4. /\ SubSeq(r, 1, Len(l)) \in Seq(Events)
      /\ Len(SubSeq(r, 1, Len(l))) = Len(l)
      /\ \A p \in 1 .. Len(l) : SubSeq(r, 1, Len(l))[p] = r[p]
  <2>1. /\ SubSeq(r, 1, Len(l)) \in Seq(Events)
        /\ Len(SubSeq(r, 1, Len(l))) = IF 1 <= Len(l) THEN Len(l) - 1 + 1 ELSE 0
        /\ \A p \in 1 .. Len(l) - 1 + 1 : SubSeq(r, 1, Len(l))[p] = r[1 + p - 1]
    BY <1>1, <1>2, SubSeqProperties
  <2> QED
    BY <1>1, <2>1
<1>5. SubSeq(l, 1, Len(l)) = SubSeq(r, 1, Len(l))
  <2>1. \A p \in 1 .. Len(l) : SubSeq(l, 1, Len(l))[p] = SubSeq(r, 1, Len(l))[p]
    BY <1>3, <1>4
  <2> QED
    BY <1>3, <1>4, <2>1, SeqEqual
<1> QED
  BY <1>5 DEF IsPrefix

\* No step changes, removes or moves a committed event.
THEOREM StoreAppendOnly == Spec => AppendOnly
<1>1. IInv /\ [Next]_vars => [IsPrefix(log, log')]_log
  <2> SUFFICES ASSUME IInv, [Next]_vars, log' # log
               PROVE  IsPrefix(log, log')
    OBVIOUS
  <2>t. log \in Seq(Events) /\ Len(log) \in Nat
    BY LenProperties DEF IInv, TypeOK
  <2>1. ASSUME NEW c \in Commands, AppendDecided(c)
        PROVE  IsPrefix(log, log')
    <3>1. /\ decision[c] \in Seq(Types)
          /\ log' = Appended(log, c, decision[c], Length(log, Target[c]))
          /\ Length(log, Target[c]) \in Nat
      BY <2>t, <2>1, AppendStep, StreamFinite
    <3>2. /\ log' \in Seq(Events)
          /\ Len(log') = Len(log) + Len(decision[c])
          /\ \A p \in 1 .. Len(log) : log'[p] = log[p]
      BY <2>t, <3>1, AppendedEntries
    <3>3. Len(log) <= Len(log')
      BY <2>t, <3>1, <3>2, LenProperties
    <3> QED
      BY <2>t, <3>2, <3>3, AgreeIsPrefix
  <2>2. ASSUME NEW b \in Imports, ImportEvents(b)
        PROVE  IsPrefix(log, log')
    <3>1. log' = Imported(log, b) /\ b \in Seq(Events)
      BY <2>2, ImportsAssumption DEF ImportEvents
    <3>2. /\ log' \in Seq(Events)
          /\ Len(log') = Len(log) + Len(b)
          /\ \A p \in 1 .. Len(log) : log'[p] = log[p]
      BY <2>t, <3>1, ImportedEntries
    <3>3. Len(log) <= Len(log')
      BY <2>t, <3>1, <3>2, LenProperties
    <3> QED
      BY <2>t, <3>2, <3>3, AgreeIsPrefix
  <2> QED
    BY <2>1, <2>2 DEF Next, vars, DecideWithMeta, AppendConflict, PlatformFault
<1> QED
  BY InitIInv, StepIInv, <1>1, PTL DEF Spec, AppendOnly

-----------------------------------------------------------------------------
(* The store implements AtomicStore.                                       *)

LEMMA InitAtomic == Init => Atomic!Init
<1> SUFFICES ASSUME Init PROVE Atomic!Init
  OBVIOUS
<1>1. ASSUME NEW s \in Streams
      PROVE  History(log, s) = << >>
  <2>1. log \in Seq(Events) /\ Numbered(log, s)
    BY InitIInv DEF IInv, TypeOK, StreamsContiguous, Contiguous
  <2>2. StreamOf(log, s) = {}
    BY DEF Init, StreamOf
  <2>3. Length(log, s) = 0
    BY <2>2, FS_EmptySet DEF Length
  <2> QED
    BY <2>1, <2>3, HistoryEntries, EmptySeq
<1>2. historyBar = [s \in Streams |-> << >>]
  BY <1>1 DEF historyBar
<1>3. answerBar = [c \in Commands |-> "none"]
  BY DEF Init, answerBar
<1> QED
  BY <1>2, <1>3 DEF Atomic!Init

\* Ending c's call changes the abstract answer of c, and of no other command.
LEMMA AnswerStep ==
  ASSUME TypeOK, NEW c \in Commands, NEW a \in Answers,
         pc[c] \in {"new", "decided"}, pc' = [pc EXCEPT ![c] = a]
  PROVE  /\ answerBar[c] = "none"
         /\ answerBar' = [answerBar EXCEPT ![c] = a]
<1>1. answerBar[c] = "none"
  BY DEF answerBar
<1>2. answerBar' = [d \in Commands |->
                      IF pc'[d] \in {"new", "decided"} THEN "none" ELSE pc'[d]]
  BY DEF answerBar
<1>3. pc'[c] = a /\ \A d \in Commands \ {c} : pc'[d] = pc[d]
  BY DEF TypeOK
<1>4. a \notin {"new", "decided"}
  BY DEF Answers
<1> QED
  BY <1>1, <1>2, <1>3, <1>4 DEF answerBar

\* The history an append leaves is the abstract one, extended.
LEMMA AppendHistoryBar ==
  ASSUME IInv, NEW c \in Commands, AppendDecided(c)
  PROVE  historyBar' = [historyBar EXCEPT ![Target[c]] =
                          @ \o Decide(c, historyBar[Target[c]])]
<1>1. /\ decision[c] \in Seq(Types)
      /\ decision[c] = Decide(c, History(log, Target[c]))
      /\ log' = Appended(log, c, decision[c], Length(log, Target[c]))
  BY AppendStep
<1>2. Target[c] \in Streams
  BY CommandsAssumption
<1>3. \A s \in Streams :
        History(log', s) = IF s = Target[c] THEN History(log, s) \o decision[c]
                           ELSE History(log, s)
  BY <1>1, AppendedHistory DEF IInv, TypeOK, StreamsContiguous
<1> QED
  BY <1>1, <1>2, <1>3 DEF historyBar

\* An import maps to the arrival of the batch's streams.
LEMMA ImportHistoryBar ==
  ASSUME IInv, IInv', NEW b \in Imports, ImportEvents(b)
  PROVE  Atomic!Import
<1> DEFINE arriving == {s \in Streams : StreamOf(b, s) # {}}
<1>1. /\ ~ImportCollides(log, b) /\ log' = Imported(log, b) /\ pc' = pc
      /\ b \in Seq(Events) /\ b # << >>
  BY ImportsAssumption DEF ImportEvents
<1>2. log \in Seq(Events) /\ log' \in Seq(Events)
  BY DEF IInv, TypeOK
<1>3. \A s \in Streams : Numbered(log, s) /\ Numbered(log', s)
  BY DEF IInv, StreamsContiguous, Contiguous
<1>4. \A s : StreamOf(log, s) = {} \/ StreamOf(b, s) = {}
  BY <1>1, ImportDisjoint
<1>5. arriving # {}
  <2>1. 1 \in DOMAIN b /\ b[1] \in Events
    BY <1>1, EmptySeq, LenProperties, ElementOfSeq
  <2>2. b[1].stream \in Streams /\ 1 \in StreamOf(b, b[1].stream)
    BY <2>1 DEF Events, StreamOf
  <2> QED
    BY <2>2
<1>6. ASSUME NEW s \in Streams, s \notin arriving
      PROVE  History(log', s) = History(log, s)
  <2>1. StreamOf(log', s) = StreamOf(log, s)
    BY <1>1, <1>2, <1>4, <1>6, ImportedStreams
  <2>2. StreamOf(log, s) \subseteq 1 .. Len(log)
    BY <1>2, StreamFinite
  <2>3. \A p \in 1 .. Len(log) : log'[p] = log[p]
    <3>1. log \in Seq(Events) /\ b \in Seq(Events) /\ log' = Imported(log, b)
      BY <1>1, <1>2
    <3>2. \A p \in 1 .. Len(log) : Imported(log, b)[p] = log[p]
      BY <3>1, ImportedEntries, Zenon
    <3> QED
      BY <3>1, <3>2
  <2>4. \A p \in StreamOf(log, s) : log'[p] = log[p]
    BY <2>2, <2>3
  <2> QED
    BY <1>2, <1>3, <2>1, <2>4, SameHistory
<1>7. ASSUME NEW s \in arriving
      PROVE  History(log', s) \in Seq(Types) \ {<< >>}
  <2>1. StreamOf(log, s) = {}
    BY <1>4, <1>7
  <2>2. Length(log', s) = Length(b, s)
    BY <1>1, <1>2, <2>1, ImportedStreams
  <2>3. Length(b, s) # 0
    BY <1>1, <1>7, StreamFinite, FS_EmptySet DEF Length
  <2>4. History(log', s) \in Seq(Types) /\ Len(History(log', s)) = Length(log', s)
    BY <1>2, <1>3, HistoryEntries
  <2> QED
    BY <2>2, <2>3, <2>4, EmptySeq
<1>8. ASSUME NEW s \in arriving, NEW t \in Streams,
             AggregateOf[s] = AggregateOf[t]
      PROVE  History(log, t) = << >>
  <2>1. PICK i \in DOMAIN b : b[i].stream = s
    BY DEF StreamOf
  <2>2. \A p \in DOMAIN log : AggregateOf[log[p].stream] # AggregateOf[s]
    BY <1>1, <2>1 DEF ImportCollides
  <2>3. StreamOf(log, t) = {}
    BY <1>8, <2>2 DEF StreamOf
  <2>4. Length(log, t) = 0
    BY <2>3, FS_EmptySet DEF Length
  <2> QED
    BY <1>2, <1>3, <2>4, HistoryEntries, EmptySeq
<1>9. /\ historyBar = [s \in Streams |-> History(log, s)]
      /\ historyBar' = [s \in Streams |-> History(log', s)]
      /\ answerBar' = answerBar
  BY <1>1 DEF historyBar, answerBar
<1>10. arriving \in (SUBSET Streams) \ {{}}
  BY <1>5
<1> HIDE DEF arriving
<1>11. \A s \in Streams :
         IF s \in arriving THEN historyBar'[s] \in Seq(Types) \ {<< >>}
                           ELSE historyBar'[s] = historyBar[s]
  BY <1>6, <1>7, <1>9
<1>12. \A s \in arriving, t \in Streams :
         AggregateOf[s] = AggregateOf[t] => historyBar[t] = << >>
  BY <1>8, <1>9
<1>13. historyBar' = [s \in Streams |-> historyBar'[s]]
  BY <1>9
<1> QED
  BY <1>9, <1>10, <1>11, <1>12, <1>13 DEF Atomic!Import

\* Every step of the store is a step of AtomicStore, or changes nothing there.
LEMMA StepAtomic ==
  IInv /\ IInv' /\ [Next]_vars => [Atomic!Next]_(Atomic!avars)
<1> SUFFICES ASSUME IInv, IInv', [Next]_vars
             PROVE  Atomic!Next \/ (historyBar' = historyBar /\ answerBar' = answerBar)
  BY DEF Atomic!avars
<1>t. TypeOK /\ pc \in [Commands -> {"new", "decided"} \cup Answers]
  BY DEF IInv, TypeOK
<1>a. \A c \in Commands : Target[c] \in Streams
  BY CommandsAssumption
<1>1. ASSUME NEW c \in Commands, DecideWithMeta(c)
      PROVE  Atomic!Next \/ (historyBar' = historyBar /\ answerBar' = answerBar)
  <2> DEFINE d == Decide(c, History(log, Target[c]))
  <2>1. pc[c] = "new" /\ historyBar' = historyBar
    BY <1>1 DEF DecideWithMeta, historyBar
  <2>2. Decide(c, historyBar[Target[c]]) = d
    BY <1>a DEF historyBar
  <2>3. CASE d = Rejected /\ pc' = [pc EXCEPT ![c] = "rejected"]
    <3>1. answerBar[c] = "none" /\ answerBar' = [answerBar EXCEPT ![c] = "rejected"]
      BY <1>t, <2>1, <2>3, AnswerStep DEF Answers
    <3> QED
      BY <2>1, <2>2, <2>3, <3>1 DEF Atomic!Next, Atomic!Reject
  <2>4. CASE d = << >> /\ pc' = [pc EXCEPT ![c] = "ok"]
    <3>1. answerBar[c] = "none" /\ answerBar' = [answerBar EXCEPT ![c] = "ok"]
      BY <1>t, <2>1, <2>4, AnswerStep DEF Answers
    <3>2. History(log, Target[c]) \in Seq(Types)
      BY <1>a, HistoryEntries DEF IInv, TypeOK, StreamsContiguous, Contiguous
    <3>3. historyBar[Target[c]] \o << >> = historyBar[Target[c]]
      BY <1>a, <3>2, ConcatEmptySeq DEF historyBar
    <3>4. historyBar' = [historyBar EXCEPT ![Target[c]] = @ \o << >>]
      BY <2>1, <3>3 DEF historyBar
    <3>5. << >> \in Seq(Types)
      BY EmptySeq
    <3>6. Atomic!Accept(c)
      BY <2>2, <2>4, <3>1, <3>4, <3>5 DEF Atomic!Accept
    <3> QED
      BY <3>6 DEF Atomic!Next
  <2>5. CASE pc' = [pc EXCEPT ![c] = "decided"]
    <3>1. pc'[c] = "decided" /\ \A e \in Commands \ {c} : pc'[e] = pc[e]
      BY <1>t, <2>5
    <3>2. answerBar' = answerBar
      BY <2>1, <3>1 DEF answerBar
    <3> QED
      BY <2>1, <3>2
  <2> QED
    BY <1>1, <2>3, <2>4, <2>5 DEF DecideWithMeta
<1>2. ASSUME NEW c \in Commands, AppendDecided(c)
      PROVE  Atomic!Next
  <2>1. /\ decision[c] \in Seq(Types)
        /\ decision[c] = Decide(c, History(log, Target[c]))
    BY <1>2, AppendStep
  <2>2. Decide(c, historyBar[Target[c]]) \in Seq(Types)
    BY <1>a, <2>1 DEF historyBar
  <2>3. answerBar[c] = "none" /\ answerBar' = [answerBar EXCEPT ![c] = "ok"]
    BY <1>2, <1>t, AnswerStep DEF AppendDecided, Answers
  <2>4. historyBar' = [historyBar EXCEPT ![Target[c]] =
                         @ \o Decide(c, historyBar[Target[c]])]
    BY <1>2, AppendHistoryBar
  <2> QED
    BY <2>2, <2>3, <2>4 DEF Atomic!Next, Atomic!Accept
<1>3. ASSUME NEW c \in Commands, AppendConflict(c) \/ PlatformFault(c)
      PROVE  Atomic!Next
  <2>1. historyBar' = historyBar
    BY <1>3 DEF AppendConflict, PlatformFault, historyBar
  <2>2. PICK a \in {"conflict", "failed"} : pc' = [pc EXCEPT ![c] = a]
    BY <1>3 DEF AppendConflict, PlatformFault
  <2>3. answerBar[c] = "none" /\ answerBar' = [answerBar EXCEPT ![c] = a]
    BY <1>3, <1>t, <2>2, AnswerStep DEF AppendConflict, PlatformFault, Answers
  <2> QED
    BY <2>1, <2>3 DEF Atomic!Next, Atomic!Refuse
<1>4. ASSUME NEW b \in Imports, ImportEvents(b)
      PROVE  Atomic!Next
  BY <1>4, ImportHistoryBar DEF Atomic!Next
<1>5. CASE UNCHANGED vars
  BY <1>5 DEF vars, historyBar, answerBar
<1> QED
  BY <1>1, <1>2, <1>3, <1>4, <1>5 DEF Next

\* Whatever the callers' interleaving, the store behaves as if every accepted
\* command had been decided and appended in one step on the then-current
\* stream, and every rejection had been true of it.
THEOREM StoreImplementsAtomic == Spec => AtomicSpec
<1>1. Spec => []IInv
  BY InitIInv, StepIInv, PTL DEF Spec
<1> QED
  BY InitAtomic, StepAtomic, <1>1, PTL DEF Spec, AtomicSpec, Atomic!Spec

-----------------------------------------------------------------------------
(* The reactors (module Reactions), which append to the same kind of log     *)
(* through the same check: an instance whose log is this one.                *)

CONSTANTS Scripted, Users, Histories, Nobody, MaxFaults

VARIABLES turn, issued, faults

Reacting == INSTANCE Reactions

\* A step of the reactors, of their engine or of another caller, or none.
ReactingStep == [Reacting!Next]_(Reacting!vars)

\* The instance's operators on logs are EventLog's own.
LEMMA ReactingSame ==
  /\ Reacting!Events = Events
  /\ \A l, s : Reacting!Length(l, s) = Length(l, s) /\ Reacting!History(l, s) = History(l, s)
  /\ \A l, c, t, n : Reacting!Appended(l, c, t, n) = Appended(l, c, t, n)
  /\ \A c, t, n : Reacting!Stamped(c, t, n) = Stamped(c, t, n)
  /\ \A l, c, n : Reacting!SequenceMatches(l, c, n) <=> SequenceMatches(l, c, n)
  /\ \A l, c, n : Reacting!CommandApplied(l, c, n) <=> CommandApplied(l, c, n)
  /\ \A l : Reacting!Contiguous(l) <=> Contiguous(l)
<1>1. \A s : Reacting!Cardinality(s) = Cardinality(s)
  BY DEF Reacting!Cardinality, Cardinality
<1>2. \A l, s : Reacting!Length(l, s) = Length(l, s)
  BY <1>1 DEF Reacting!Length, Length, Reacting!StreamOf, StreamOf
<1>3. \A l, s : Reacting!History(l, s) = History(l, s)
  BY <1>2 DEF Reacting!History, History, Reacting!StreamOf, StreamOf
<1>4. \A l : Reacting!Contiguous(l) <=> Contiguous(l)
  BY <1>2
     DEF Reacting!Contiguous, Contiguous, Reacting!Numbered, Numbered, Reacting!StreamOf, StreamOf
<1>5. /\ \A c, t, n : Reacting!Stamped(c, t, n) = Stamped(c, t, n)
      /\ \A l, c, t, n : Reacting!Appended(l, c, t, n) = Appended(l, c, t, n)
  BY DEF Reacting!Appended, Appended, Reacting!Stamped, Stamped
<1>6. \A l, c, n : Reacting!SequenceMatches(l, c, n) <=> SequenceMatches(l, c, n)
  BY DEF Reacting!SequenceMatches, SequenceMatches, Reacting!CurrentSequence, CurrentSequence,
         Reacting!StreamOf, StreamOf
<1>7. \A l, c, n : Reacting!CommandApplied(l, c, n) <=> CommandApplied(l, c, n)
  BY DEF Reacting!CommandApplied, CommandApplied, Reacting!StreamOf, StreamOf
<1>. QED
  BY <1>2, <1>3, <1>4, <1>5, <1>6, <1>7 DEF Reacting!Events, Events

\* The commands a reactor may answer with: no other caller's, each addressed to
\* the stream it names.
ReactionCommands == {c \in Commands \ Users : Target[c] = c.stream}

\* Nor does it owe anything else, or promise less, than ReactionPromises says.
LEMMA ReactingPromises ==
  /\ Reacting!NothingSkipped <=> NothingSkipped
  /\ Reacting!ReactedOnce <=> ReactedOnce
<1>2. \A r, p : Reacting!Owed(r, p) = Owed(r, p)
  BY DEF Reacting!Owed, Owed, Reacting!Reaction, Reaction, Reacting!React, React,
         Reacting!FulfillmentReact, FulfillmentReact, Reacting!CompletionNoteReact,
         CompletionNoteReact, Reacting!To, To
<1>3. \A c : Reacting!PositionsOf(c) = PositionsOf(c)
  BY DEF Reacting!PositionsOf, PositionsOf
<1>4. Reacting!Deliveries = Deliveries
  BY DEF Reacting!Deliveries, Deliveries
<1>5. \A s : Reacting!Min(s) = Min(s) /\ Reacting!Cardinality(s) = Cardinality(s)
  BY DEF Reacting!Min, Min, Reacting!Cardinality, Cardinality
<1>6. Reacting!NothingSkipped <=> NothingSkipped
  BY <1>2, <1>3 DEF Reacting!NothingSkipped, NothingSkipped
<1>7. Reacting!ReactedOnce <=> ReactedOnce
  BY <1>2, <1>3, <1>4, <1>5, ReactingSame DEF Reacting!ReactedOnce, ReactedOnce
<1>. QED
  BY <1>6, <1>7

\* What the reactors return for the events in the log is a list of such commands.
\* The theorems below assume it of every state: it is what HostReact and the
\* streams the two fixed reactors name have to satisfy.
ReactorsAnswer ==
  \A r \in Reactors, p \in DOMAIN log : Reacting!Owed(r, p) \in Seq(ReactionCommands)

\* The types, with what a delivery under way refers to.
ReactionTyped ==
  /\ log \in Seq(Events) /\ Contiguous(log)
  /\ checkpoints \in [Reactors -> Nat]
  /\ \A r \in Reactors : checkpoints[r] <= Len(log)
  /\ turn # Nobody =>
       /\ turn \in Reacting!Turns
       /\ turn.pos = checkpoints[turn.reactor] + 1 /\ turn.pos <= Len(log)
       /\ turn.step # "save" => turn.index \in DOMAIN Reacting!Mine
       /\ turn.step = "append" => turn.types # << >>

\* The delivery under way, by rigid names.
LEMMA TurnFields ==
  ASSUME ReactionTyped, turn # Nobody, ReactorsAnswer
  PROVE  \E r \in Reactors, p \in Nat, i \in Nat \ {0} :
           /\ r = turn.reactor /\ p = turn.pos /\ i = turn.index
           /\ p \in 1 .. Len(log) /\ p \in DOMAIN log
           /\ Reacting!Mine = Reacting!Owed(r, p)
           /\ Reacting!Owed(r, p) \in Seq(ReactionCommands)
           /\ turn.step \in {"check", "decide", "append", "save"}
           /\ turn.types \in Seq(Types) /\ turn.expected \in Nat
<1>1. /\ turn.reactor \in Reactors /\ turn.pos \in Nat /\ turn.index \in Nat \ {0}
      /\ turn.step \in {"check", "decide", "append", "save"}
      /\ turn.types \in Seq(Types) /\ turn.expected \in Nat
      /\ turn.pos = checkpoints[turn.reactor] + 1 /\ turn.pos <= Len(log)
  BY DEF ReactionTyped, Reacting!Turns
<1>2. checkpoints[turn.reactor] \in Nat /\ Len(log) \in Nat /\ DOMAIN log = 1 .. Len(log)
  BY <1>1, LenProperties DEF ReactionTyped
<1>3. turn.pos \in 1 .. Len(log) /\ turn.pos \in DOMAIN log
  BY <1>1, <1>2
<1>. QED
  BY <1>1, <1>3 DEF ReactorsAnswer, Reacting!Mine

\* The log grows by a caller's command, or by the reaction of the turn, at the
\* length its stream has now; or it stays.
LEMMA LogStep ==
  ASSUME Reacting!ReactionsAssumption, ReactionTyped, ReactorsAnswer, ReactingStep
  PROVE  \/ log' = log
         \/ \E c \in Commands, t \in Seq(Types) :
              /\ log' = Appended(log, c, t, Length(log, Target[c]))
              /\ \/ c \in Users /\ turn' = turn /\ t = Decide(c, History(log, Target[c]))
                 \/ /\ c \notin Users /\ turn # Nobody /\ turn.step = "append"
                    /\ c = Reacting!Current /\ t = turn.types /\ turn.types # << >>
                    /\ turn.expected = Length(log, Target[c])
                    /\ Reacting!GoesTo(turn.index + 1)
<1>1. CASE \E u \in Users : Reacting!Issue(u)
  <2>1. PICK u \in Users : Reacting!Issue(u)
    BY <1>1
  <2>2. PICK t : t = Decide(u, History(log, Target[u]))
    OBVIOUS
  <2>3. u \in Commands /\ t \in Seq(Types) /\ turn' = turn
    BY <2>1, <2>2, ReactingSame DEF Reacting!Issue, Reacting!ReactionsAssumption
  <2>4. log' = Appended(log, u, t, Len(History(log, Target[u])))
    BY <2>1, <2>2, ReactingSame DEF Reacting!Issue
  <2>5. Len(History(log, Target[u])) = Length(log, Target[u])
    BY HistoryLength DEF ReactionTyped
  <2>. QED
    BY <2>2, <2>3, <2>4, <2>5
<1>2. CASE Reacting!AppendReaction /\ log' # log
  <2>1. turn # Nobody /\ turn.step = "append"
    BY <1>2 DEF Reacting!AppendReaction, Reacting!At
  <2>2. PICK r \in Reactors, p \in Nat, i \in Nat \ {0} :
          /\ i = turn.index /\ Reacting!Mine = Reacting!Owed(r, p)
          /\ Reacting!Owed(r, p) \in Seq(ReactionCommands)
          /\ turn.types \in Seq(Types)
    BY <2>1, TurnFields
  <2>3. PICK c : c = Reacting!Current
    OBVIOUS
  <2>4. c \in ReactionCommands /\ turn.types # << >>
    BY <2>1, <2>2, <2>3 DEF ReactionTyped, Reacting!Current
  <2>5. c \in Commands /\ c \notin Users /\ Target[c] \in Streams
    BY <2>4, CommandsAssumption DEF ReactionCommands
  <2>6. /\ SequenceMatches(log, c, turn.expected)
        /\ log' = Appended(log, c, turn.types, turn.expected)
        /\ Reacting!GoesTo(turn.index + 1)
    BY <1>2, <2>3, ReactingSame DEF Reacting!AppendReaction
  <2>7. turn.expected = Length(log, Target[c])
    BY <2>5, <2>6, CurrentIsLength DEF SequenceMatches, ReactionTyped, Contiguous
  <2>. QED
    BY <2>1, <2>2, <2>3, <2>4, <2>5, <2>6, <2>7
<1>. QED
  BY <1>1, <1>2 DEF ReactingStep, Reacting!Next, Reacting!EngineStep, Reacting!vars,
     Reacting!Deliver, Reacting!ScriptFails, Reacting!Check, Reacting!DecideReaction,
     Reacting!ReactionFails, Reacting!Save, Reacting!Crash

\* It stays numbered, and what is in it stays where it is.
LEMMA LogGrows ==
  ASSUME Reacting!ReactionsAssumption, ReactionTyped, ReactorsAnswer, ReactingStep
  PROVE  /\ log' \in Seq(Events) /\ Contiguous(log')
         /\ Len(log) \in Nat /\ Len(log') \in Nat /\ Len(log) <= Len(log')
         /\ DOMAIN log = 1 .. Len(log) /\ DOMAIN log' = 1 .. Len(log')
         /\ \A p \in 1 .. Len(log) : log'[p] = log[p]
<1>1. log \in Seq(Events) /\ Contiguous(log) /\ Len(log) \in Nat /\ DOMAIN log = 1 .. Len(log)
  BY LenProperties DEF ReactionTyped
<1>2. CASE log' = log
  BY <1>1, <1>2
<1>3. ASSUME NEW c \in Commands, NEW t \in Seq(Types),
             log' = Appended(log, c, t, Length(log, Target[c]))
      PROVE  /\ log' \in Seq(Events) /\ Contiguous(log')
             /\ Len(log') \in Nat /\ Len(log) <= Len(log') /\ DOMAIN log' = 1 .. Len(log')
             /\ \A p \in 1 .. Len(log) : log'[p] = log[p]
  <2>1. Length(log, Target[c]) \in Nat
    BY <1>1, StreamFinite
  <2>2. Contiguous(log')
    BY <1>1, <1>3, AppendedNumbered DEF Contiguous
  <2>3. /\ log' \in Seq(Events) /\ Len(t) \in Nat /\ Len(log') = Len(log) + Len(t)
        /\ DOMAIN log' = 1 .. Len(log') /\ \A p \in 1 .. Len(log) : log'[p] = log[p]
    BY <1>1, <1>3, <2>1, AppendedRows
  <2>. QED
    BY <1>1, <2>2, <2>3
<1>. QED
  BY <1>1, <1>2, <1>3, LogStep

\* An event that stays owes what it owed.
LEMMA OwedStays ==
  ASSUME NEW r, NEW p, log'[p] = log[p]
  PROVE  Reacting!Owed(r, p)' = Reacting!Owed(r, p)
BY DEF Reacting!Owed, Reacting!Reaction, Reacting!React, Reacting!FulfillmentReact,
       Reacting!CompletionNoteReact, Reacting!To

\* On to another reaction.
LEMMA GoesFields ==
  ASSUME turn \in Reacting!Turns, NEW k \in Nat \ {0}, Reacting!GoesTo(k)
  PROVE  /\ turn' \in Reacting!Turns
         /\ turn'.reactor = turn.reactor /\ turn'.pos = turn.pos /\ turn'.index = k
         /\ turn'.step = IF k \in DOMAIN Reacting!Mine THEN "check" ELSE "save"
<1>1. << >> \in Seq(Types)
  OBVIOUS
<1>. QED
  BY <1>1 DEF Reacting!GoesTo, Reacting!Turns

\* So does the event under way.
LEMMA MineStays ==
  ASSUME Reacting!ReactionsAssumption, ReactionTyped, ReactorsAnswer, ReactingStep,
         turn # Nobody, turn'.reactor = turn.reactor, turn'.pos = turn.pos
  PROVE  Reacting!Mine' = Reacting!Mine
<1>1. PICK r \in Reactors, p \in Nat, i \in Nat \ {0} :
        r = turn.reactor /\ p = turn.pos /\ p \in 1 .. Len(log)
  BY TurnFields
<1>2. log'[p] = log[p]
  BY <1>1, LogGrows
<1>3. Reacting!Owed(r, p)' = Reacting!Owed(r, p)
  BY <1>2, OwedStays
<1>. QED
  BY <1>1, <1>3 DEF Reacting!Mine

\* A delivery begins at the first reaction, or at the save if there is none.
LEMMA DeliverTurn ==
  ASSUME Reacting!ReactionsAssumption, ReactionTyped, ReactorsAnswer, ReactingStep,
         NEW r \in Reactors, Reacting!Deliver(r)
  PROVE  /\ turn' \in Reacting!Turns
         /\ turn'.reactor = r /\ turn'.pos = checkpoints[r] + 1 /\ turn'.pos <= Len(log)
         /\ turn'.index = 1
         /\ \/ turn'.step = "check" /\ 1 \in DOMAIN Reacting!Mine'
            \/ turn'.step = "save" /\ DOMAIN Reacting!Mine' = {}
         /\ log' = log /\ checkpoints' = checkpoints
<1>1. PICK p : p = checkpoints[r] + 1
  OBVIOUS
<1>2. checkpoints[r] \in Nat /\ Len(log) \in Nat /\ DOMAIN log = 1 .. Len(log)
  BY LenProperties DEF ReactionTyped
<1>3. p <= Len(log) /\ log' = log /\ checkpoints' = checkpoints
  BY <1>1 DEF Reacting!Deliver
<1>4. p \in Nat /\ p \in 1 .. Len(log) /\ p \in DOMAIN log
  BY <1>1, <1>2, <1>3
<1>5. Reacting!Owed(r, p) \in Seq(ReactionCommands)
  BY <1>4 DEF ReactorsAnswer
<1>6. Reacting!Owed(r, p)' = Reacting!Owed(r, p)
  BY <1>3, OwedStays
<1>7. turn' = [reactor |-> r, pos |-> p, index |-> 1,
               step |-> IF Reacting!Owed(r, p) = << >> THEN "save" ELSE "check",
               types |-> << >>, expected |-> 0]
  BY <1>1 DEF Reacting!Deliver
<1>8. Reacting!Mine' = Reacting!Owed(r, p)
  BY <1>6, <1>7 DEF Reacting!Mine
<1>9. CASE Reacting!Owed(r, p) = << >>
  <2>1. /\ turn'.step = "save"
        /\ turn' = [reactor |-> r, pos |-> p, index |-> 1, step |-> "save",
                    types |-> << >>, expected |-> 0]
    BY <1>7, <1>9
  <2>3. turn' \in Reacting!Turns
    BY <1>4, <2>1, EmptySeq DEF Reacting!Turns
  <2>2. DOMAIN Reacting!Owed(r, p) = {}
    BY <1>9
  <2>. QED
    BY <1>1, <1>3, <1>8, <2>1, <2>2, <2>3
<1>10. CASE Reacting!Owed(r, p) # << >>
  <2>1. /\ turn'.step = "check"
        /\ turn' = [reactor |-> r, pos |-> p, index |-> 1, step |-> "check",
                    types |-> << >>, expected |-> 0]
    BY <1>7, <1>10
  <2>3. turn' \in Reacting!Turns
    BY <1>4, <2>1, EmptySeq DEF Reacting!Turns
  <2>2. 1 \in DOMAIN Reacting!Owed(r, p)
    BY <1>5, <1>10
  <2>. QED
    BY <1>1, <1>3, <1>8, <2>1, <2>2, <2>3
<1>. QED
  BY <1>9, <1>10

\* What a step makes of the delivery under way.
LEMMA TurnStep ==
  ASSUME Reacting!ReactionsAssumption, ReactionTyped, ReactorsAnswer, ReactingStep,
         turn # Nobody, turn' # Nobody
  PROVE  \/ turn' = turn
         \/ /\ turn' \in Reacting!Turns
            /\ turn'.reactor = turn.reactor /\ turn'.pos = turn.pos
            /\ \/ /\ turn'.index = turn.index + 1 /\ turn.step \in {"check", "decide", "append"}
                  /\ turn'.step = IF turn.index + 1 \in DOMAIN Reacting!Mine
                                  THEN "check" ELSE "save"
               \/ /\ turn'.step = "save" /\ Reacting!ScriptFails
               \/ /\ turn'.step = "decide" /\ turn'.index = turn.index /\ turn.step = "check"
               \/ /\ turn'.step = "append" /\ turn'.types \in Seq(Types) \ {<< >>}
                  /\ turn'.index = turn.index /\ turn.step = "decide"
<1>1. PICK k \in Nat \ {0} : k = turn.index + 1
  BY TurnFields
<1>2. turn \in Reacting!Turns
  BY DEF ReactionTyped
<1>g. CASE Reacting!GoesTo(turn.index + 1) /\ turn.step \in {"check", "decide", "append"}
  BY <1>g, <1>1, <1>2, GoesFields
<1>3. CASE Reacting!ScriptFails
  <2>1. turn' = [turn EXCEPT !.step = "save"]
    BY <1>3 DEF Reacting!ScriptFails
  <2>. QED
    BY <1>2, <1>3, <2>1 DEF Reacting!Turns
<1>4. CASE Reacting!Check
  <2>1. turn.step = "check"
    BY <1>4 DEF Reacting!Check, Reacting!At
  <2>2. CASE turn' = [turn EXCEPT !.step = "decide"]
    BY <1>2, <2>1, <2>2 DEF Reacting!Turns
  <2>. QED
    BY <1>4, <1>g, <2>1, <2>2 DEF Reacting!Check
<1>5. CASE Reacting!DecideReaction
  <2>1. turn.step = "decide"
    BY <1>5 DEF Reacting!DecideReaction, Reacting!At
  <2>2. CASE \E d \in Seq(Types) \ {<< >>}, n \in Nat :
               turn' = [turn EXCEPT !.step = "append", !.types = d, !.expected = n]
    BY <1>2, <2>1, <2>2 DEF Reacting!Turns
  <2>3. Len(Reacting!History(log, Reacting!Current.stream)) \in Nat
    BY HistoryLength, ReactingSame DEF ReactionTyped
  <2>. QED
    BY <1>5, <1>g, <2>1, <2>2, <2>3 DEF Reacting!DecideReaction
<1>6. CASE Reacting!ReactionFails
  BY <1>6, <1>g DEF Reacting!ReactionFails, Reacting!At
<1>7. CASE Reacting!AppendReaction
  BY <1>7, <1>g DEF Reacting!AppendReaction, Reacting!At
<1>. QED
  BY <1>3, <1>4, <1>5, <1>6, <1>7 DEF ReactingStep, Reacting!Next, Reacting!EngineStep,
     Reacting!vars, Reacting!Deliver, Reacting!Save, Reacting!Crash, Reacting!Issue

\* Every step keeps the types.
LEMMA ReactionTypedStep ==
  ASSUME Reacting!ReactionsAssumption, ReactionTyped, ReactorsAnswer, ReactingStep
  PROVE  ReactionTyped'
<1>l. /\ log' \in Seq(Events) /\ Contiguous(log')
      /\ Len(log) \in Nat /\ Len(log') \in Nat /\ Len(log) <= Len(log')
  BY LogGrows
<1>1. /\ checkpoints' \in [Reactors -> Nat]
      /\ \A r \in Reactors : checkpoints'[r] <= Len(log)
  <2>1. CASE checkpoints' = checkpoints
    BY <2>1 DEF ReactionTyped
  <2>2. CASE Reacting!Save /\ checkpoints' # checkpoints
    <3>1. turn # Nobody /\ checkpoints' = [checkpoints EXCEPT ![turn.reactor] = turn.pos]
      BY <2>2 DEF Reacting!Save, Reacting!At
    <3>2. PICK r \in Reactors, p \in Nat, i \in Nat \ {0} :
            r = turn.reactor /\ p = turn.pos /\ p \in 1 .. Len(log)
      BY <3>1, TurnFields
    <3>. QED
      BY <3>1, <3>2, <1>l DEF ReactionTyped
  <2>. QED
    BY <2>1, <2>2 DEF ReactingStep, Reacting!Next, Reacting!EngineStep, Reacting!vars,
       Reacting!Deliver, Reacting!ScriptFails, Reacting!Check, Reacting!DecideReaction,
       Reacting!ReactionFails, Reacting!AppendReaction, Reacting!Crash, Reacting!Issue
<1>2. \A r \in Reactors : checkpoints'[r] <= Len(log')
  BY <1>1, <1>l
<1>3. ASSUME turn' # Nobody
      PROVE  /\ turn' \in Reacting!Turns
             /\ turn'.pos = checkpoints'[turn'.reactor] + 1 /\ turn'.pos <= Len(log')
             /\ turn'.step # "save" => turn'.index \in DOMAIN Reacting!Mine'
             /\ turn'.step = "append" => turn'.types # << >>
  <2>1. CASE turn = Nobody
    <3>1. PICK r \in Reactors : Reacting!Deliver(r)
      BY <1>3, <2>1 DEF ReactingStep, Reacting!Next, Reacting!EngineStep, Reacting!vars,
         Reacting!ScriptFails, Reacting!Check, Reacting!DecideReaction, Reacting!At,
         Reacting!ReactionFails, Reacting!AppendReaction, Reacting!Save, Reacting!Crash,
         Reacting!Issue
    <3>. QED
      BY <3>1, DeliverTurn
  <2>2. CASE turn # Nobody
    <3>1. /\ turn'.reactor = turn.reactor /\ turn'.pos = turn.pos
      BY <1>3, <2>2, TurnStep
    <3>2. Reacting!Mine' = Reacting!Mine
      BY <2>2, <3>1, MineStays
    <3>3. checkpoints' = checkpoints
      BY <1>3 DEF ReactingStep, Reacting!Next, Reacting!EngineStep, Reacting!vars,
         Reacting!Deliver, Reacting!ScriptFails, Reacting!Check, Reacting!DecideReaction,
         Reacting!ReactionFails, Reacting!AppendReaction, Reacting!Save, Reacting!Crash,
         Reacting!Issue
    <3>4. /\ turn \in Reacting!Turns /\ turn.pos = checkpoints[turn.reactor] + 1
          /\ turn.pos <= Len(log) /\ turn.pos \in Nat
          /\ turn.step # "save" => turn.index \in DOMAIN Reacting!Mine
          /\ turn.step = "append" => turn.types # << >>
      BY <2>2 DEF ReactionTyped, Reacting!Turns
    <3>5. turn'.pos <= Len(log')
      BY <3>1, <3>4, <1>l
    <3>6. turn' \in Reacting!Turns /\ (turn'.step = "append" => turn'.types # << >>)
      BY <1>3, <2>2, <3>4, TurnStep
    <3>7. turn'.step # "save" => turn'.index \in DOMAIN Reacting!Mine
      BY <1>3, <2>2, <3>4, TurnStep
    <3>. QED
      BY <3>1, <3>2, <3>3, <3>4, <3>5, <3>6, <3>7
  <2>. QED
    BY <2>1, <2>2
<1>. QED
  BY <1>1, <1>2, <1>3, <1>l DEF ReactionTyped

-----------------------------------------------------------------------------
(* Nothing is skipped.                                                     *)

\* A reaction has been dealt with: it is in the log, refused, or dropped.
ReactionSettled(c) == Reacting!PositionsOf(c) # {} \/ c \in refused \/ c \in dropped

\* Those of every event up to a position are, and those of the event under way
\* that come before the turn's.
ReactionsSettled ==
  /\ \A r \in Reactors : \A p \in 1 .. checkpoints[r] :
       \A i \in DOMAIN Reacting!Owed(r, p) : ReactionSettled(Reacting!Owed(r, p)[i])
  /\ turn # Nobody =>
       \A i \in DOMAIN Reacting!Mine :
         turn.step = "save" \/ i < turn.index => ReactionSettled(Reacting!Mine[i])

\* A settled reaction stays settled.
LEMMA SettledStays ==
  ASSUME Reacting!ReactionsAssumption, ReactionTyped, ReactorsAnswer, ReactingStep,
         NEW c, ReactionSettled(c)
  PROVE  ReactionSettled(c)'
<1>1. refused \subseteq refused' /\ dropped \subseteq dropped'
  BY DEF ReactingStep, Reacting!Next, Reacting!EngineStep, Reacting!vars,
     Reacting!Deliver, Reacting!ScriptFails, Reacting!Check, Reacting!DecideReaction,
     Reacting!ReactionFails, Reacting!AppendReaction, Reacting!Save, Reacting!Crash,
     Reacting!Issue
<1>2. \A p \in DOMAIN log : p \in DOMAIN log' /\ log'[p] = log[p]
  BY LogGrows
<1>3. ASSUME Reacting!PositionsOf(c) # {}
      PROVE  Reacting!PositionsOf(c)' # {}
  BY <1>2, <1>3 DEF Reacting!PositionsOf
<1>. QED
  BY <1>1, <1>3 DEF ReactionSettled

\* A delivery goes on to the next reaction only from one that is settled.
LEMMA CurrentSettles ==
  ASSUME Reacting!ReactionsAssumption, ReactionTyped, ReactorsAnswer, ReactingStep,
         turn # Nobody, turn' # Nobody, turn'.index = turn.index + 1,
         NEW c, c = Reacting!Current
  PROVE  ReactionSettled(c)'
<1>1. turn.index \in Nat \ {0} /\ turn.index + 1 # turn.index
  BY TurnFields
<1>2. CASE c \in refused' \/ c \in dropped'
  BY <1>2 DEF ReactionSettled
<1>3. CASE ReactionSettled(c)
  BY <1>3, SettledStays
<1>4. CASE Reacting!Check
  <2>1. \/ Reacting!CommandApplied(log, c, turn.pos - 1)
        \/ turn' = [turn EXCEPT !.step = "decide"]
    BY <1>4 DEF Reacting!Check
  <2>2. turn' # [turn EXCEPT !.step = "decide"]
    BY <1>1 DEF ReactionTyped, Reacting!Turns
  <2>3. CommandApplied(log, c, turn.pos - 1)
    BY <2>1, <2>2, ReactingSame
  <2>4. Reacting!PositionsOf(c) # {}
    BY <2>3 DEF CommandApplied, StreamOf, Reacting!PositionsOf
  <2>. QED
    BY <2>4, <1>3 DEF ReactionSettled
<1>5. CASE Reacting!DecideReaction
  <2>1. CASE c \in refused'
    BY <2>1, <1>2
  <2>2. CASE \E d, n : turn' = [turn EXCEPT !.step = "append", !.types = d, !.expected = n]
    BY <1>1, <2>2 DEF ReactionTyped, Reacting!Turns
  <2>. QED
    BY <1>5, <2>1, <2>2 DEF Reacting!DecideReaction
<1>6. CASE Reacting!ReactionFails
  BY <1>2, <1>6 DEF Reacting!ReactionFails
<1>7. CASE Reacting!AppendReaction
  <2>1. PICK t \in Seq(Types), b \in Nat :
          t = turn.types /\ b = turn.expected /\ t # << >> /\ c \in ReactionCommands
    <3>1. turn.step = "append"
      BY <1>7 DEF Reacting!AppendReaction, Reacting!At
    <3>2. turn.types # << >> /\ turn.index \in DOMAIN Reacting!Mine
      BY <3>1 DEF ReactionTyped
    <3>3. Reacting!Mine[turn.index] \in ReactionCommands
      BY <3>2, TurnFields
    <3>. QED
      BY <3>2, <3>3, TurnFields DEF Reacting!Current
  <2>2. log' = Appended(log, c, t, b)
    BY <1>7, <2>1, ReactingSame DEF Reacting!AppendReaction
  <2>3. c \in Commands /\ log \in Seq(Events) /\ Len(t) \in Nat /\ Len(t) # 0
    BY <2>1, LenProperties, EmptySeq DEF ReactionCommands, ReactionTyped
  <2>4. PICK l : l = log'
    OBVIOUS
  <2>5. /\ Len(log) \in Nat /\ Len(l) = Len(log) + Len(t)
        /\ DOMAIN l = 1 .. Len(l)
        /\ \A q \in Len(log) + 1 .. Len(l) : l[q].by = c
    BY <2>1, <2>2, <2>3, <2>4, AppendedRows
  <2>6. Len(l) \in DOMAIN l /\ l[Len(l)].by = c
    BY <2>3, <2>5
  <2>. QED
    BY <2>4, <2>6 DEF ReactionSettled, Reacting!PositionsOf
<1>8. ~Reacting!ScriptFails
  BY <1>1 DEF Reacting!ScriptFails, ReactionTyped, Reacting!Turns
<1>. QED
  BY <1>1, <1>4, <1>5, <1>6, <1>7, <1>8
     DEF ReactingStep, Reacting!Next, Reacting!EngineStep, Reacting!vars,
     Reacting!Deliver, Reacting!Save, Reacting!Crash, Reacting!Issue

\* Every step keeps that.
LEMMA ReactionsSettledStep ==
  ASSUME Reacting!ReactionsAssumption, ReactionTyped, ReactorsAnswer, ReactionsSettled,
         ReactingStep
  PROVE  ReactionsSettled'
<1>l. /\ Len(log) \in Nat /\ DOMAIN log = 1 .. Len(log)
      /\ \A p \in 1 .. Len(log) : log'[p] = log[p]
  BY LogGrows
<1>c. \A r \in Reactors : checkpoints[r] \in Nat /\ checkpoints[r] <= Len(log)
  BY DEF ReactionTyped
<1>o. \A r \in Reactors : \A p \in 1 .. Len(log) :
        Reacting!Owed(r, p)' = Reacting!Owed(r, p)
  BY <1>l, OwedStays
<1>s. \A c : ReactionSettled(c) => ReactionSettled(c)'
  BY SettledStays
<1>1. ASSUME NEW r \in Reactors, NEW p \in 1 .. checkpoints'[r],
             NEW i \in DOMAIN Reacting!Owed(r, p)'
      PROVE  ReactionSettled(Reacting!Owed(r, p)[i])'
  <2>1. CASE p \in 1 .. checkpoints[r]
    <3>1. p \in 1 .. Len(log)
      BY <2>1, <1>c
    <3>2. Reacting!Owed(r, p)' = Reacting!Owed(r, p)
      BY <3>1, <1>o
    <3>3. PICK c : c = Reacting!Owed(r, p)[i]
      OBVIOUS
    <3>4. ReactionSettled(c)
      BY <2>1, <3>2, <3>3, <1>1 DEF ReactionsSettled
    <3>. QED
      BY <3>2, <3>3, <3>4, <1>s DEF ReactionSettled
  <2>2. CASE p \notin 1 .. checkpoints[r]
    <3>1. Reacting!Save /\ checkpoints' = [checkpoints EXCEPT ![turn.reactor] = turn.pos]
      BY <2>2, <1>1 DEF ReactingStep, Reacting!Next, Reacting!EngineStep, Reacting!vars,
         Reacting!Deliver, Reacting!ScriptFails, Reacting!Check, Reacting!DecideReaction,
         Reacting!ReactionFails, Reacting!AppendReaction, Reacting!Save, Reacting!Crash,
         Reacting!Issue
    <3>2. turn # Nobody /\ turn.step = "save" /\ turn.pos = checkpoints[turn.reactor] + 1
      BY <3>1 DEF Reacting!Save, Reacting!At, ReactionTyped
    <3>3. PICK w \in Reactors, q \in Nat, k \in Nat \ {0} :
            /\ w = turn.reactor /\ q = turn.pos /\ q \in 1 .. Len(log)
            /\ Reacting!Mine = Reacting!Owed(w, q)
      BY <3>2, TurnFields
    <3>4. r = w /\ p = q
      BY <1>c, <1>1, <2>2, <3>1, <3>2, <3>3 DEF ReactionTyped
    <3>5. Reacting!Owed(r, p)' = Reacting!Owed(r, p)
      BY <3>3, <3>4, <1>o
    <3>6. PICK c : c = Reacting!Owed(r, p)[i]
      OBVIOUS
    <3>7. ReactionSettled(c)
      BY <3>2, <3>3, <3>4, <3>5, <3>6, <1>1 DEF ReactionsSettled
    <3>. QED
      BY <3>5, <3>6, <3>7, <1>s DEF ReactionSettled
  <2>. QED
    BY <2>1, <2>2
<1>2. ASSUME turn' # Nobody, NEW i \in DOMAIN Reacting!Mine',
             turn'.step = "save" \/ i < turn'.index
      PROVE  ReactionSettled(Reacting!Mine[i])'
  <2>1. CASE turn = Nobody
    <3>1. PICK r \in Reactors : Reacting!Deliver(r)
      BY <1>2, <2>1 DEF ReactingStep, Reacting!Next, Reacting!EngineStep, Reacting!vars,
         Reacting!ScriptFails, Reacting!Check, Reacting!DecideReaction, Reacting!At,
         Reacting!ReactionFails, Reacting!AppendReaction, Reacting!Save, Reacting!Crash,
         Reacting!Issue
    <3>2. /\ turn'.index = 1 /\ turn'.reactor = r /\ turn'.pos = checkpoints[r] + 1
          /\ turn'.pos <= Len(log)
          /\ turn'.step # "save" \/ DOMAIN Reacting!Mine' = {}
      BY <3>1, DeliverTurn
    <3>3. PICK p : p = checkpoints[r] + 1
      OBVIOUS
    <3>4. p \in 1 .. Len(log) /\ p \in DOMAIN log
      BY <3>2, <3>3, <1>c, <1>l
    <3>5. Reacting!Mine' = Reacting!Owed(r, p)
      BY <3>2, <3>3, <3>4, <1>o DEF Reacting!Mine
    <3>6. DOMAIN Reacting!Mine' \subseteq Nat \ {0}
      BY <3>4, <3>5 DEF ReactorsAnswer
    <3>. QED
      BY <1>2, <3>2, <3>6
  <2>2. CASE turn # Nobody
    <3>1. PICK r \in Reactors, p \in Nat, k \in Nat \ {0} :
            /\ r = turn.reactor /\ p = turn.pos /\ k = turn.index
            /\ Reacting!Mine = Reacting!Owed(r, p)
            /\ Reacting!Owed(r, p) \in Seq(ReactionCommands)
      BY <2>2, TurnFields
    <3>2. turn'.reactor = turn.reactor /\ turn'.pos = turn.pos
      BY <1>2, <2>2, TurnStep
    <3>3. Reacting!Mine' = Reacting!Mine
      BY <2>2, <3>2, MineStays
    <3>4. PICK c : c = Reacting!Mine[i]
      OBVIOUS
    <3>5. SUFFICES ReactionSettled(c)'
      BY <3>3, <3>4 DEF ReactionSettled
    <3>6. CASE turn.step = "save" \/ i < turn.index
      <4>1. ReactionSettled(c)
        BY <1>2, <2>2, <3>3, <3>4, <3>6 DEF ReactionsSettled
      <4>. QED
        BY <4>1, <1>s
    <3>7. CASE Reacting!ScriptFails
      <4>1. c \in dropped'
        BY <1>2, <3>3, <3>4, <3>7 DEF Reacting!ScriptFails, Reacting!Range
      <4>. QED
        BY <4>1 DEF ReactionSettled
    <3>8. CASE /\ turn'.index = turn.index + 1 /\ ~(turn.step = "save" \/ i < turn.index)
               /\ turn'.step = IF turn.index + 1 \in DOMAIN Reacting!Mine
                               THEN "check" ELSE "save"
      <4>1. i \in Nat /\ DOMAIN Reacting!Mine = 1 .. Len(Reacting!Owed(r, p))
            /\ Len(Reacting!Owed(r, p)) \in Nat
        BY <1>2, <3>1, <3>3, LenProperties
      <4>2. turn.index \in DOMAIN Reacting!Mine
        BY <2>2, <3>8 DEF ReactionTyped
      <4>3. i = turn.index
        BY <1>2, <3>1, <3>3, <3>8, <4>1, <4>2
      <4>4. c = Reacting!Current
        BY <3>4, <4>3 DEF Reacting!Current
      <4>. QED
        BY <1>2, <2>2, <3>8, <4>4, CurrentSettles
    <3>. QED
      BY <1>2, <2>2, <3>6, <3>7, <3>8, TurnStep
  <2>. QED
    BY <2>1, <2>2
<1>. QED
  BY <1>1, <1>2 DEF ReactionsSettled

\* Dispatch and the engine's save (reactors/reactors.go) lose no reaction: for any
\* reactors, deciders, callers and faults, a position passes an event only when
\* each reaction it owes is in the log, was refused or was lost to a logged fault.
THEOREM ReactionsNothingSkipped ==
  ASSUME Reacting!ReactionsAssumption
  PROVE  Reacting!Spec /\ []ReactorsAnswer => []NothingSkipped
<1>1. Reacting!Init => ReactionTyped /\ ReactionsSettled
  <2>. SUFFICES ASSUME Reacting!Init
                PROVE  ReactionTyped /\ ReactionsSettled
    OBVIOUS
  <2>1. log \in Seq(Events) /\ Contiguous(log)
    BY ReactingSame DEF Reacting!Init, Reacting!ReactionsAssumption
  <2>2. Len(log) \in Nat
    BY <2>1, LenProperties
  <2>3. \A r \in Reactors : checkpoints[r] = 0
    BY DEF Reacting!Init
  <2>4. checkpoints \in [Reactors -> Nat]
    BY DEF Reacting!Init
  <2>5. turn = Nobody
    BY DEF Reacting!Init
  <2>. QED
    BY <2>1, <2>2, <2>3, <2>4, <2>5 DEF ReactionTyped, ReactionsSettled
<1>2. ReactionTyped /\ ReactionsSettled /\ ReactorsAnswer /\ ReactingStep
        => ReactionTyped' /\ ReactionsSettled'
  BY ReactionTypedStep, ReactionsSettledStep
<1>3. ReactionsSettled => NothingSkipped
  BY ReactingPromises DEF ReactionsSettled, ReactionSettled, Reacting!NothingSkipped
<1>. QED
  BY <1>1, <1>2, <1>3, PTL DEF Reacting!Spec, ReactingStep

-----------------------------------------------------------------------------
(* Nothing happens twice.                                                  *)

\* A command's rows are in its own stream, and a reaction's come after an event
\* that owes it.
ReactionRows ==
  \A q \in DOMAIN log :
    /\ log[q].by \in Commands => log[q].stream = Target[log[q].by]
    /\ log[q].by \in Commands \ Users =>
         \E r \in Reactors, p \in 1 .. q - 1 :
           \E i \in DOMAIN Reacting!Owed(r, p) : log[q].by = Reacting!Owed(r, p)[i]

\* A reaction that was not found in the log is not in it until it is appended, and
\* what was decided is still the decision unless its stream has grown.
ReactionTurn ==
  turn # Nobody /\ turn.step \in {"decide", "append"} =>
    \A c : c = Reacting!Current =>
      /\ RowsOf(log, c) = {}
      /\ turn.step = "append" =>
           /\ turn.expected <= Length(log, Target[c])
           /\ turn.expected = Length(log, Target[c]) =>
                turn.types = Decide(c, History(log, Target[c]))

\* The rows of a reaction are one block: what its target decided on the log before.
ReactionPlaced(c) ==
  RowsOf(log, c) # {} =>
    \E m \in Seq(Events), t \in Seq(Types) \ {<< >>} :
      /\ t = Decide(c, History(m, Target[c]))
      /\ Len(m) + Len(t) <= Len(log)
      /\ \A q \in 1 .. Len(m) : log[q] = m[q]
      /\ RowsOf(log, c) = Len(m) + 1 .. Len(m) + Len(t)
      /\ \A j \in 1 .. Len(t) : log[Len(m) + j] = Stamped(c, t, Length(m, Target[c]))[j]

\* So are those of every reaction.
ReactionsPlaced == \A c \in Commands \ Users : ReactionPlaced(c)

\* A reaction names its cause.
LEMMA OwedFields ==
  ASSUME NEW r, NEW p, NEW i \in DOMAIN Reacting!Owed(r, p)
  PROVE  /\ Reacting!Owed(r, p)[i] = Reacting!Reaction(r, log[p], i)
         /\ Reacting!Owed(r, p)[i].cause = <<log[p].stream, log[p].seq>>
<1>1. ~log[p].imported
  BY DEF Reacting!Owed
<1>2. Reacting!Owed(r, p)
        = [k \in DOMAIN Reacting!React(r, log[p]) |-> Reacting!Reaction(r, log[p], k)]
  BY <1>1 DEF Reacting!Owed
<1>3. Reacting!Owed(r, p)[i] = Reacting!Reaction(r, log[p], i)
  BY <1>2
<1>. QED
  BY <1>3 DEF Reacting!Reaction

\* A reaction has one cause in the log: no two events of a stream share a number.
LEMMA OneCause ==
  ASSUME ReactionTyped, NEW p \in 1 .. Len(log), NEW q \in 1 .. Len(log), NEW r, NEW w,
         NEW i \in DOMAIN Reacting!Owed(r, p), NEW k \in DOMAIN Reacting!Owed(w, q),
         Reacting!Owed(r, p)[i] = Reacting!Owed(w, q)[k]
  PROVE  p = q
<1>1. log \in Seq(Events) /\ Len(log) \in Nat /\ DOMAIN log = 1 .. Len(log)
  BY LenProperties DEF ReactionTyped
<1>e. log[p] \in Events /\ log[q] \in Events
  BY <1>1, ElementOfSeq
<1>2. log[p].stream = log[q].stream /\ log[p].seq = log[q].seq
  BY OwedFields
<1>3. PICK s \in Streams : s = log[p].stream
  BY <1>e DEF Events
<1>4. p \in StreamOf(log, s) /\ q \in StreamOf(log, s)
  BY <1>1, <1>2, <1>3 DEF StreamOf
<1>5. p < q => log[p].seq < log[q].seq
  BY <1>4 DEF ReactionTyped, Contiguous, Numbered
<1>6. q < p => log[q].seq < log[p].seq
  BY <1>4 DEF ReactionTyped, Contiguous, Numbered
<1>7. log[p].seq \in Nat /\ log[q].seq \in Nat
  BY <1>e DEF Events
<1>. QED
  BY <1>2, <1>5, <1>6, <1>7

\* Every step keeps where rows are.
LEMMA ReactionRowsStep ==
  ASSUME Reacting!ReactionsAssumption, ReactionTyped, ReactorsAnswer, ReactionRows,
         ReactingStep
  PROVE  ReactionRows'
<1>l. /\ Len(log) \in Nat /\ Len(log') \in Nat /\ Len(log) <= Len(log')
      /\ DOMAIN log = 1 .. Len(log) /\ DOMAIN log' = 1 .. Len(log')
      /\ \A p \in 1 .. Len(log) : log'[p] = log[p]
  BY LogGrows
<1>o. \A r \in Reactors : \A p \in 1 .. Len(log) :
        Reacting!Owed(r, p)' = Reacting!Owed(r, p)
  BY <1>l, OwedStays
<1>1. ASSUME NEW q \in 1 .. Len(log)
      PROVE  /\ log'[q].by \in Commands => log'[q].stream = Target[log'[q].by]
             /\ log'[q].by \in Commands \ Users =>
                  \E r \in Reactors, p \in 1 .. q - 1 :
                    \E i \in DOMAIN Reacting!Owed(r, p)' :
                      log'[q].by = Reacting!Owed(r, p)'[i]
  <2>1. log'[q] = log[q] /\ q \in DOMAIN log
    BY <1>l
  <2>2. log[q].by \in Commands => log[q].stream = Target[log[q].by]
    BY <2>1 DEF ReactionRows
  <2>3. ASSUME log[q].by \in Commands \ Users
        PROVE  \E r \in Reactors, p \in 1 .. q - 1 :
                 \E i \in DOMAIN Reacting!Owed(r, p)' :
                   log'[q].by = Reacting!Owed(r, p)'[i]
    <3>1. PICK r \in Reactors, p \in 1 .. q - 1 :
            \E i \in DOMAIN Reacting!Owed(r, p) : log[q].by = Reacting!Owed(r, p)[i]
      BY <2>1, <2>3 DEF ReactionRows
    <3>2. p \in 1 .. Len(log)
      BY <1>l
    <3>3. Reacting!Owed(r, p)' = Reacting!Owed(r, p)
      BY <3>2, <1>o
    <3>. QED
      BY <3>1, <3>3, <2>1
  <2>. QED
    BY <2>1, <2>2, <2>3
<1>2. ASSUME NEW q \in Len(log) + 1 .. Len(log')
      PROVE  /\ log'[q].by \in Commands => log'[q].stream = Target[log'[q].by]
             /\ log'[q].by \in Commands \ Users =>
                  \E r \in Reactors, p \in 1 .. q - 1 :
                    \E i \in DOMAIN Reacting!Owed(r, p)' :
                      log'[q].by = Reacting!Owed(r, p)'[i]
  <2>1. log' # log
    BY <1>2, <1>l
  <2>2. PICK c \in Commands, t \in Seq(Types) :
          /\ log' = Appended(log, c, t, Length(log, Target[c]))
          /\ \/ c \in Users
             \/ turn # Nobody /\ turn.step = "append" /\ c = Reacting!Current
    BY <2>1, LogStep
  <2>3. log'[q].by = c /\ log'[q].stream = Target[c]
    <3>1. Length(log, Target[c]) \in Nat /\ log \in Seq(Events)
      BY StreamFinite DEF ReactionTyped
    <3>. QED
      BY <2>2, <3>1, AppendedRows
  <2>4. ASSUME c \notin Users
        PROVE  \E r \in Reactors, p \in 1 .. q - 1 :
                 \E i \in DOMAIN Reacting!Owed(r, p)' : c = Reacting!Owed(r, p)'[i]
    <3>1. turn # Nobody /\ turn.step = "append" /\ c = Reacting!Current
      BY <2>2, <2>4
    <3>2. PICK r \in Reactors, p \in Nat, i \in Nat \ {0} :
            /\ p \in 1 .. Len(log) /\ i = turn.index /\ Reacting!Mine = Reacting!Owed(r, p)
      BY <3>1, TurnFields
    <3>3. i \in DOMAIN Reacting!Owed(r, p) /\ c = Reacting!Owed(r, p)[i]
      BY <3>1, <3>2 DEF ReactionTyped, Reacting!Current
    <3>4. Reacting!Owed(r, p)' = Reacting!Owed(r, p)
      BY <3>2, <1>o
    <3>5. p \in 1 .. q - 1
      BY <3>2, <1>l
    <3>. QED
      BY <3>3, <3>4, <3>5
  <2>. QED
    BY <2>3, <2>4
<1>. QED
  <2>1. \A q \in DOMAIN log' : q \in 1 .. Len(log) \/ q \in Len(log) + 1 .. Len(log')
    BY <1>l
  <2>. QED
    BY <2>1, <1>1, <1>2 DEF ReactionRows

\* The stream and the decision a command was decided for, after an append.
LEMMA DecisionStays ==
  ASSUME ReactionTyped, NEW c \in Commands, NEW u \in Commands, NEW t \in Seq(Types),
         log' = Appended(log, u, t, Length(log, Target[u])),
         NEW e \in Nat, NEW d,
         e <= Length(log, Target[c]),
         e = Length(log, Target[c]) => d = Decide(c, History(log, Target[c]))
  PROVE  /\ e <= Length(log', Target[c])
         /\ e = Length(log', Target[c]) => d = Decide(c, History(log', Target[c]))
<1>1. /\ log \in Seq(Events) /\ Contiguous(log) /\ Target[c] \in Streams
      /\ Len(t) \in Nat /\ Length(log, Target[u]) \in Nat /\ Length(log, Target[c]) \in Nat
  BY StreamFinite, LenProperties, CommandsAssumption DEF ReactionTyped
<1>2. CASE Target[c] # Target[u]
  <2>1. Length(log', Target[c]) = Length(log, Target[c])
    BY <1>1, <1>2, AppendedLength
  <2>2. History(log', Target[c]) = History(log, Target[c])
    BY <1>1, <1>2, AppendedHistory
  <2>. QED
    BY <2>1, <2>2
<1>3. CASE Target[c] = Target[u]
  <2>1. Length(log', Target[c]) = Length(log, Target[c]) + Len(t)
    BY <1>1, <1>3, AppendedLength
  <2>2. CASE Len(t) # 0
    BY <2>1, <2>2, <1>1
  <2>3. CASE Len(t) = 0
    <3>1. t = << >>
      BY <2>3, EmptySeq
    <3>2. PICK h : h = History(log, Target[c])
      OBVIOUS
    <3>3. h \in Seq(Types)
      BY <3>2, <1>1, HistoryEntries DEF Contiguous
    <3>4. History(log', Target[c]) = h \o t
      BY <3>2, <1>1, <1>3, AppendedHistory
    <3>5. h \o t = h
      BY <3>1, <3>3
    <3>. QED
      BY <2>1, <2>3, <3>2, <3>4, <3>5, <1>1
  <2>. QED
    BY <2>2, <2>3
<1>. QED
  BY <1>2, <1>3

\* Every step keeps the turn true: a lookup that finds nothing means there is
\* nothing, since rows of a reaction are never before its cause.
LEMMA ReactionTurnStep ==
  ASSUME Reacting!ReactionsAssumption, ReactionTyped, ReactorsAnswer, ReactionRows,
         ReactionTurn, ReactingStep
  PROVE  ReactionTurn'
<1>. SUFFICES ASSUME turn' # Nobody, turn'.step \in {"decide", "append"},
                     NEW c, c = Reacting!Current'
              PROVE  /\ RowsOf(log', c) = {}
                     /\ turn'.step = "append" =>
                          /\ turn'.expected <= Length(log', Target[c])
                          /\ turn'.expected = Length(log', Target[c]) =>
                               turn'.types = Decide(c, History(log', Target[c]))
  BY DEF ReactionTurn, Reacting!Current, Reacting!Mine, RowsOf
<1>1. turn # Nobody
  <2>1. ASSUME turn = Nobody
        PROVE  \E r \in Reactors : Reacting!Deliver(r)
    BY <2>1 DEF ReactingStep, Reacting!Next, Reacting!EngineStep, Reacting!vars,
       Reacting!ScriptFails, Reacting!Check, Reacting!DecideReaction, Reacting!At,
       Reacting!ReactionFails, Reacting!AppendReaction, Reacting!Save, Reacting!Crash,
       Reacting!Issue
  <2>. QED
    BY <2>1, DeliverTurn
<1>2. /\ turn' = turn
      \/ /\ turn'.index = turn.index /\ turn.step = "check" /\ turn'.step = "decide"
      \/ /\ turn'.index = turn.index /\ turn.step = "decide" /\ turn'.step = "append"
  BY <1>1, TurnStep
<1>3. turn'.reactor = turn.reactor /\ turn'.pos = turn.pos /\ turn'.index = turn.index
  BY <1>1, <1>2, TurnStep
<1>4. PICK r \in Reactors, p \in Nat, i \in Nat \ {0} :
        /\ r = turn.reactor /\ p = turn.pos /\ i = turn.index /\ p \in 1 .. Len(log)
        /\ Reacting!Mine = Reacting!Owed(r, p)
        /\ Reacting!Owed(r, p) \in Seq(ReactionCommands)
        /\ turn.types \in Seq(Types) /\ turn.expected \in Nat
  BY <1>1, TurnFields
<1>5. c = Reacting!Current
  BY <1>1, <1>3, MineStays DEF Reacting!Current
<1>6. i \in DOMAIN Reacting!Owed(r, p) /\ c = Reacting!Owed(r, p)[i]
  BY <1>1, <1>2, <1>4, <1>5 DEF ReactionTyped, Reacting!Current
<1>7. c \in Commands /\ c \notin Users /\ Target[c] = c.stream
  BY <1>4, <1>6 DEF ReactionCommands
<1>8. CASE turn' = turn
  <2>1. /\ RowsOf(log, c) = {}
        /\ turn.step = "append" =>
             /\ turn.expected <= Length(log, Target[c])
             /\ turn.expected = Length(log, Target[c]) =>
                  turn.types = Decide(c, History(log, Target[c]))
    BY <1>1, <1>5, <1>8 DEF ReactionTurn
  <2>2. CASE log' = log
    BY <2>1, <2>2, <1>8
  <2>3. CASE log' # log
    <3>1. PICK u \in Commands, t \in Seq(Types) :
            /\ log' = Appended(log, u, t, Length(log, Target[u]))
            /\ u \in Users \/ Reacting!GoesTo(turn.index + 1)
      BY <2>3, LogStep
    <3>2. u \in Users
      <4>1. ~Reacting!GoesTo(turn.index + 1)
        BY <1>1, <1>3, <1>4, GoesFields DEF ReactionTyped
      <4>. QED
        BY <3>1, <4>1
    <3>3. RowsOf(log', c) = {}
      <4>1. Length(log, Target[u]) \in Nat /\ log \in Seq(Events)
        BY StreamFinite DEF ReactionTyped
      <4>. QED
        BY <2>1, <3>1, <3>2, <4>1, <1>7, AppendedOthers
    <3>. QED
      BY <1>4, <1>7, <1>8, <2>1, <3>1, <3>3, DecisionStays
  <2>. QED
    BY <2>2, <2>3
<1>9. CASE turn.step = "check" /\ turn'.step = "decide"
  <2>1. /\ ~CommandApplied(log, c, p - 1) /\ log' = log
    <3>1. Reacting!Check
      BY <1>9, <1>1 DEF ReactingStep, Reacting!Next, Reacting!EngineStep, Reacting!vars,
         Reacting!Deliver, Reacting!ScriptFails, Reacting!DecideReaction, Reacting!At,
         Reacting!ReactionFails, Reacting!AppendReaction, Reacting!Save, Reacting!Crash,
         Reacting!Issue, ReactionTyped, Reacting!Turns
    <3>2. ~Reacting!GoesTo(turn.index + 1)
      BY <1>1, <1>3, <1>4, GoesFields DEF ReactionTyped
    <3>. QED
      BY <3>1, <3>2, <1>4, <1>5, ReactingSame DEF Reacting!Check
  <2>2. ASSUME NEW q \in RowsOf(log, c)
        PROVE  FALSE
    <3>1. q \in DOMAIN log /\ log[q].by = c /\ q \in 1 .. Len(log)
      BY LenProperties DEF RowsOf, ReactionTyped
    <3>2. log[q].stream = Target[c]
      BY <3>1, <1>7 DEF ReactionRows
    <3>3. PICK w \in Reactors, o \in 1 .. q - 1 :
            \E k \in DOMAIN Reacting!Owed(w, o) : c = Reacting!Owed(w, o)[k]
      BY <3>1, <1>7 DEF ReactionRows
    <3>4. o \in 1 .. Len(log)
      BY <3>1, <3>3
    <3>5. p = o
      BY <3>3, <3>4, <1>4, <1>6, OneCause
    <3>6. q > p - 1
      BY <3>1, <3>3, <3>5, <1>4
    <3>. QED
      BY <2>1, <3>1, <3>2, <3>6 DEF CommandApplied, StreamOf
  <2>. QED
    BY <2>1, <2>2, <1>9
<1>10. CASE turn.step = "decide" /\ turn'.step = "append"
  <2>1. Reacting!DecideReaction
    BY <1>10, <1>1 DEF ReactingStep, Reacting!Next, Reacting!EngineStep, Reacting!vars,
       Reacting!Deliver, Reacting!ScriptFails, Reacting!Check, Reacting!At,
       Reacting!ReactionFails, Reacting!AppendReaction, Reacting!Save, Reacting!Crash,
       Reacting!Issue, ReactionTyped, Reacting!Turns, Reacting!GoesTo
  <2>2. ~Reacting!GoesTo(turn.index + 1)
    BY <1>1, <1>3, <1>4, GoesFields DEF ReactionTyped
  <2>3. PICK h : h = History(log, Target[c])
    OBVIOUS
  <2>4. /\ log' = log
        /\ turn' = [turn EXCEPT !.step = "append", !.types = Decide(c, h), !.expected = Len(h)]
    BY <2>1, <2>2, <2>3, <1>5, <1>7, ReactingSame DEF Reacting!DecideReaction
  <2>5. turn'.types = Decide(c, h) /\ turn'.expected = Len(h)
    BY <2>4, <1>1 DEF ReactionTyped, Reacting!Turns
  <2>6. Len(h) = Length(log, Target[c]) /\ Len(h) \in Nat
    BY <2>3, HistoryLength DEF ReactionTyped
  <2>7. RowsOf(log, c) = {}
    BY <1>1, <1>5, <1>10 DEF ReactionTurn
  <2>. QED
    BY <2>3, <2>4, <2>5, <2>6, <2>7
<1>. QED
  BY <1>2, <1>8, <1>9, <1>10

\* An append puts exactly the command's stamped rows after the log.
LEMMA AppendedBlock ==
  ASSUME NEW l \in Seq(Events), NEW c \in Commands, NEW types \in Seq(Types),
         NEW base \in Nat, NEW r, r = Appended(l, c, types, base)
  PROVE  \A j \in 1 .. Len(types) : r[Len(l) + j] = Stamped(c, types, base)[j]
<1>1. /\ \A p \in Len(l) + 1 .. Len(l) + Len(types) :
           r[p] = [stream |-> Target[c], seq |-> base + (p - Len(l)),
                   type |-> types[p - Len(l)], by |-> c, imported |-> FALSE]
  BY AppendedEntries
<1>2. Len(l) \in Nat /\ Len(types) \in Nat
  BY LenProperties
<1>3. ASSUME NEW j \in 1 .. Len(types)
      PROVE  r[Len(l) + j] = Stamped(c, types, base)[j]
  <2>1. /\ Len(l) + j \in Len(l) + 1 .. Len(l) + Len(types)
        /\ (Len(l) + j) - Len(l) = j
    BY <1>2
  <2>2. r[Len(l) + j] = [stream |-> Target[c], seq |-> base + j,
                         type |-> types[j], by |-> c, imported |-> FALSE]
    BY <1>1, <2>1
  <2>. QED
    BY <2>2 DEF Stamped
<1>. QED
  BY <1>3

\* Every step keeps the blocks.
LEMMA ReactionsPlacedStep ==
  ASSUME Reacting!ReactionsAssumption, ReactionTyped, ReactorsAnswer, ReactionTurn,
         ReactionsPlaced, ReactingStep
  PROVE  ReactionsPlaced'
<1>. SUFFICES ASSUME NEW c \in Commands \ Users
              PROVE  ReactionPlaced(c)'
  BY DEF ReactionsPlaced
<1>1. ReactionPlaced(c)
  BY DEF ReactionsPlaced
<1>l. /\ log \in Seq(Events) /\ Contiguous(log)
      /\ Len(log) \in Nat /\ Len(log') \in Nat /\ Len(log) <= Len(log')
      /\ \A p \in 1 .. Len(log) : log'[p] = log[p]
  BY LogGrows DEF ReactionTyped
<1>k. ASSUME RowsOf(log', c) = RowsOf(log, c)
      PROVE  ReactionPlaced(c)'
  <2>. SUFFICES ASSUME RowsOf(log, c) # {}
                PROVE  \E m \in Seq(Events), t \in Seq(Types) \ {<< >>} :
      /\ t = Decide(c, History(m, Target[c]))
      /\ Len(m) + Len(t) <= Len(log')
      /\ \A q \in 1 .. Len(m) : log'[q] = m[q]
      /\ RowsOf(log', c) = Len(m) + 1 .. Len(m) + Len(t)
      /\ \A j \in 1 .. Len(t) : log'[Len(m) + j] = Stamped(c, t, Length(m, Target[c]))[j]
    BY <1>k DEF ReactionPlaced, RowsOf
  <2>1. PICK m \in Seq(Events), t \in Seq(Types) \ {<< >>} :
      /\ t = Decide(c, History(m, Target[c]))
      /\ Len(m) + Len(t) <= Len(log)
      /\ \A q \in 1 .. Len(m) : log[q] = m[q]
      /\ RowsOf(log, c) = Len(m) + 1 .. Len(m) + Len(t)
      /\ \A j \in 1 .. Len(t) : log[Len(m) + j] = Stamped(c, t, Length(m, Target[c]))[j]
    BY <1>1 DEF ReactionPlaced
  <2>2. Len(m) \in Nat /\ Len(t) \in Nat
    BY LenProperties
  <2>3. Len(m) + Len(t) <= Len(log')
    BY <2>1, <2>2, <1>l
  <2>4. \A q \in 1 .. Len(m) : log'[q] = m[q]
    BY <2>1, <2>2, <1>l
  <2>5. \A j \in 1 .. Len(t) : Len(m) + j \in 1 .. Len(log)
    BY <2>1, <2>2, <1>l
  <2>6. \A j \in 1 .. Len(t) : log'[Len(m) + j] = Stamped(c, t, Length(m, Target[c]))[j]
    BY <2>1, <2>5, <1>l
  <2>. QED
    BY <2>1, <2>3, <2>4, <2>6, <1>k
<1>2. CASE log' = log
  BY <1>2, <1>k
<1>3. CASE log' # log
  <2>1. PICK u \in Commands, t \in Seq(Types) :
          /\ log' = Appended(log, u, t, Length(log, Target[u]))
          /\ \/ u \in Users
             \/ /\ turn # Nobody /\ turn.step = "append" /\ u = Reacting!Current
                /\ t = turn.types /\ t # << >>
                /\ turn.expected = Length(log, Target[u])
    BY <1>3, LogStep
  <2>2. PICK b \in Nat : b = Length(log, Target[u])
    BY <1>l, StreamFinite
  <2>3. CASE u # c
    BY <1>k, <1>l, <2>1, <2>2, <2>3, AppendedOthers
  <2>4. CASE u = c
    <3>1. /\ RowsOf(log, c) = {} /\ t \in Seq(Types) \ {<< >>}
          /\ t = Decide(c, History(log, Target[c]))
      <4>1. /\ turn # Nobody /\ turn.step = "append" /\ c = Reacting!Current
            /\ t = turn.types /\ t # << >>
            /\ turn.expected = Length(log, Target[c])
        BY <2>1, <2>4
      <4>. QED
        BY <4>1 DEF ReactionTurn
    <3>2. /\ Len(t) \in Nat /\ Len(log') = Len(log) + Len(t)
          /\ \A q \in 1 .. Len(log) : log'[q] = log[q]
      BY <1>l, <2>1, <2>2, AppendedRows
    <3>3. RowsOf(log', c) = Len(log) + 1 .. Len(log) + Len(t)
      BY <1>l, <2>1, <2>2, <2>4, <3>1, AppendedHolds
    <3>4. log' = Appended(log, c, t, b)
      BY <2>1, <2>2, <2>4
    <3>5. \A j \in 1 .. Len(t) : log'[Len(log) + j] = Stamped(c, t, b)[j]
      BY <1>l, <3>4, AppendedBlock
    <3>6. /\ Len(log) + Len(t) <= Len(log')
      BY <1>l, <3>2
    <3>7. \E m \in Seq(Events), x \in Seq(Types) \ {<< >>} :
            /\ x = Decide(c, History(m, Target[c]))
            /\ Len(m) + Len(x) <= Len(log')
            /\ \A q \in 1 .. Len(m) : log'[q] = m[q]
            /\ RowsOf(log', c) = Len(m) + 1 .. Len(m) + Len(x)
            /\ \A j \in 1 .. Len(x) :
                 log'[Len(m) + j] = Stamped(c, x, Length(m, Target[c]))[j]
      BY <1>l, <2>2, <2>4, <3>1, <3>2, <3>3, <3>5, <3>6
    <3>. QED
      BY <3>7 DEF ReactionPlaced, RowsOf
  <2>. QED
    BY <2>3, <2>4
<1>. QED
  BY <1>2, <1>3

\* What is placed reads as the property says.
LEMMA PlacedReads ==
  ASSUME ReactionTyped, NEW c \in Commands, Target[c] = c.stream,
         ReactionPlaced(c), RowsOf(log, c) # {},
         NEW n, n = Reacting!Min(RowsOf(log, c))
  PROVE  LET before == SubSeq(log, 1, n - 1)
         IN SubSeq(log, n, n + Cardinality(RowsOf(log, c)) - 1)
              = Stamped(c, Decide(c, History(before, c.stream)), Length(before, c.stream))
<1>1. PICK m \in Seq(Events), t \in Seq(Types) \ {<< >>} :
      /\ t = Decide(c, History(m, Target[c]))
      /\ Len(m) + Len(t) <= Len(log)
      /\ \A q \in 1 .. Len(m) : log[q] = m[q]
      /\ RowsOf(log, c) = Len(m) + 1 .. Len(m) + Len(t)
      /\ \A j \in 1 .. Len(t) : log[Len(m) + j] = Stamped(c, t, Length(m, Target[c]))[j]
  BY DEF ReactionPlaced
<1>2. /\ log \in Seq(Events) /\ Len(log) \in Nat /\ Len(m) \in Nat /\ Len(t) \in Nat
      /\ Len(t) # 0 /\ Length(m, Target[c]) \in Nat
  BY LenProperties, EmptySeq, StreamFinite DEF ReactionTyped
<1>3. n = Len(m) + 1
  BY <1>1, <1>2 DEF Reacting!Min
<1>4. Cardinality(RowsOf(log, c)) = Len(t)
  BY <1>1, <1>2, BlockSize
<1>5. SubSeq(log, 1, n - 1) = m
  <2>1. Len(m) \in 0 .. Len(log) /\ n - 1 = Len(m)
    BY <1>1, <1>2, <1>3
  <2>2. PICK x : x = SubSeq(log, 1, Len(m))
    OBVIOUS
  <2>3. x \in Seq(Events) /\ Len(x) = Len(m) /\ \A q \in 1 .. Len(m) : x[q] = log[q]
    BY <2>1, <2>2, <1>2, Prefix
  <2>4. \A q \in 1 .. Len(m) : x[q] = m[q]
    BY <2>3, <1>1
  <2>5. x = m
    BY <2>3, <2>4, SeqEqual
  <2>. QED
    BY <2>1, <2>2, <2>5
<1>6. PICK s : s = Stamped(c, t, Length(m, Target[c]))
  OBVIOUS
<1>7. s \in Seq(Events) /\ Len(s) = Len(t)
  BY <1>2, <1>6, StampedType
<1>8. SubSeq(log, n, n + Len(t) - 1) = s
  <2>1. PICK x : x = SubSeq(log, n, n + Len(t) - 1)
    OBVIOUS
  <2>2. /\ n \in 1 .. Len(log) /\ n + Len(t) - 1 \in n .. Len(log)
        /\ (n + Len(t) - 1) - n + 1 = Len(t)
    BY <1>1, <1>2, <1>3
  <2>3. /\ x \in Seq(Events) /\ Len(x) = Len(t)
        /\ \A j \in 1 .. Len(t) : x[j] = log[n + j - 1]
    <3>1. n \in Int /\ n + Len(t) - 1 \in Int /\ n <= n + Len(t) - 1
      BY <1>2, <2>2
    <3>2. \A q \in n .. n + Len(t) - 1 : log[q] \in Events
      BY <1>2, <2>2, ElementOfSeq
    <3>3. /\ SubSeq(log, n, n + Len(t) - 1) \in Seq(Events)
          /\ Len(SubSeq(log, n, n + Len(t) - 1)) =
               IF n <= n + Len(t) - 1 THEN (n + Len(t) - 1) - n + 1 ELSE 0
          /\ \A j \in 1 .. (n + Len(t) - 1) - n + 1 :
               SubSeq(log, n, n + Len(t) - 1)[j] = log[n + j - 1]
      BY <3>1, <3>2, SubSeqProperties
    <3>. QED
      BY <2>1, <2>2, <3>1, <3>3
  <2>4. \A j \in 1 .. Len(t) : n + j - 1 = Len(m) + j
    BY <1>2, <1>3
  <2>5. \A j \in 1 .. Len(t) : x[j] = s[j]
    BY <2>3, <2>4, <1>1, <1>6
  <2>6. x = s
    BY <2>3, <2>5, <1>7, SeqEqual
  <2>. QED
    BY <2>1, <2>6
<1>. QED
  BY <1>1, <1>4, <1>5, <1>6, <1>8

\* The property follows.
LEMMA PlacedOnce ==
  ASSUME ReactionTyped, ReactionRows, ReactionsPlaced, ReactorsAnswer
  PROVE  Reacting!ReactedOnce
<1>l. log \in Seq(Events) /\ Len(log) \in Nat /\ DOMAIN log = 1 .. Len(log)
  BY LenProperties DEF ReactionTyped
<1>c. \A x : Reacting!Cardinality(x) = Cardinality(x)
  BY DEF Reacting!Cardinality, Cardinality
<1>1. ASSUME NEW r \in Reactors, NEW p \in DOMAIN log, NEW i \in DOMAIN Reacting!Owed(r, p),
             NEW c, c = Reacting!Owed(r, p)[i], RowsOf(log, c) # {},
             NEW n, n = Reacting!Min(RowsOf(log, c)),
             NEW before, before = SubSeq(log, 1, n - 1)
      PROVE  /\ n > p
             /\ SubSeq(log, n, n + Cardinality(RowsOf(log, c)) - 1)
                  = Stamped(c, Decide(c, History(before, c.stream)), Length(before, c.stream))
  <2>1. c \in Commands \ Users /\ Target[c] = c.stream
    <3>1. Reacting!Owed(r, p) \in Seq(ReactionCommands)
      BY DEF ReactorsAnswer
    <3>2. c \in ReactionCommands
      BY <3>1, <1>1
    <3>. QED
      BY <3>2 DEF ReactionCommands
  <2>2. n \in RowsOf(log, c)
    <3>1. PICK m \in Seq(Events), t \in Seq(Types) :
            RowsOf(log, c) = Len(m) + 1 .. Len(m) + Len(t)
      BY <2>1, <1>1 DEF ReactionsPlaced, ReactionPlaced
    <3>2. Len(m) \in Nat /\ Len(t) \in Nat
      BY LenProperties
    <3>3. Len(m) + 1 \in RowsOf(log, c) /\ \A y \in RowsOf(log, c) : Len(m) + 1 <= y
      BY <3>1, <3>2, <1>1
    <3>. QED
      BY <3>3, <1>1 DEF Reacting!Min
  <2>3. n \in DOMAIN log /\ log[n].by = c
    BY <2>2 DEF RowsOf
  <2>4. PICK w \in Reactors, q \in 1 .. n - 1 :
          \E k \in DOMAIN Reacting!Owed(w, q) : c = Reacting!Owed(w, q)[k]
    BY <2>1, <2>3 DEF ReactionRows
  <2>5. p \in 1 .. Len(log) /\ q \in 1 .. Len(log)
    BY <1>l, <2>3
  <2>6. p = q
    BY <1>1, <2>4, <2>5, OneCause
  <2>7. n > p
    BY <2>3, <2>6, <1>l
  <2>8. ReactionPlaced(c)
    BY <2>1 DEF ReactionsPlaced
  <2>. QED
    BY <1>1, <2>1, <2>7, <2>8, PlacedReads
<1>2. ASSUME NEW r \in Reactors, NEW p \in DOMAIN log, NEW i \in DOMAIN Reacting!Owed(r, p)
      PROVE  LET c    == Reacting!Owed(r, p)[i]
                 mine == Reacting!PositionsOf(c)
             IN mine # {} =>
                  LET first  == Reacting!Min(mine)
                      before == SubSeq(log, 1, first - 1)
                      types  == Decide(c, Reacting!History(before, c.stream))
                  IN /\ first > p
                     /\ SubSeq(log, first, first + Reacting!Cardinality(mine) - 1)
                          = Reacting!Stamped(c, types, Reacting!Length(before, c.stream))
  <2>1. \A c : Reacting!PositionsOf(c) = RowsOf(log, c)
    BY DEF Reacting!PositionsOf, RowsOf
  <2>. QED
    BY <1>1, <1>c, <2>1, ReactingSame
<1>3. \A d \in Reacting!Deliveries : d[1] \in Reactors /\ d[2] \in DOMAIN log
  BY DEF Reacting!Deliveries
<1>. QED
  BY <1>2, <1>3 DEF Reacting!ReactedOnce

\* Redelivery is harmless (CommandApplied and reactionCommandID, reactors/
\* reactors.go): however often a cause is delivered again, whatever fails and
\* whoever else writes, each reaction is in the log at most once, decided on the
\* history right before it, and after its cause.
THEOREM ReactionsOnce ==
  ASSUME Reacting!ReactionsAssumption
  PROVE  Reacting!Spec /\ []ReactorsAnswer => []ReactedOnce
<1>. DEFINE Inv == ReactionTyped /\ ReactionRows /\ ReactionTurn /\ ReactionsPlaced
<1>1. Reacting!Init => Inv
  <2>. SUFFICES ASSUME Reacting!Init
                PROVE  Inv
    OBVIOUS
  <2>1. log \in Seq(Events) /\ Contiguous(log) /\ \A p \in DOMAIN log : log[p].by = NoCommand
    BY ReactingSame DEF Reacting!Init, Reacting!ReactionsAssumption
  <2>2. ReactionTyped
    BY <2>1, LenProperties DEF Reacting!Init, ReactionTyped
  <2>3. ReactionTurn
    BY DEF Reacting!Init, ReactionTurn
  <2>4. ReactionRows
    BY <2>1, CommandsAssumption DEF ReactionRows
  <2>5. ReactionsPlaced
    BY <2>1, CommandsAssumption DEF ReactionsPlaced, ReactionPlaced, RowsOf
  <2>. QED
    BY <2>2, <2>3, <2>4, <2>5
<1>2. Inv /\ ReactorsAnswer /\ ReactingStep => Inv'
  BY ReactionTypedStep, ReactionRowsStep, ReactionTurnStep, ReactionsPlacedStep
<1>3. Inv /\ ReactorsAnswer => ReactedOnce
  BY PlacedOnce, ReactingPromises
<1>. HIDE DEF Inv
<1>. QED
  BY <1>1, <1>2, <1>3, PTL DEF Reacting!Spec, ReactingStep
=============================================================================
