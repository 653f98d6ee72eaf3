-------------------------- MODULE ConsumersProofs --------------------------
(***************************************************************************)
(* Proofs about Consumers, for every set of consumers, order, poison,      *)
(* batch size and number of faults: the safety properties of the engine.   *)
(*                                                                         *)
(* The invariant follows the loop.  In a turn the local position is the    *)
(* consumer's own and the batch is the events right after it; a consumer's *)
(* deeds are the events up to its position, or the one after as well where *)
(* a save is still to come or has failed; a rebuild has emptied the rows   *)
(* before it resets the position, and both before its request goes.        *)
(***************************************************************************)
EXTENDS Consumers, SequenceTheorems, FiniteSetTheorems, TLAPS

Rebuild == {"wipe", "reset", "takeoff"}

Saving(c) == phase = "save" /\ c = Head(todo)

LoopInv ==
  /\ phase \in Rebuild <=> rebuilding # << >>
  /\ IsInjective(rebuilding)
  /\ Range(rebuilding) \subseteq requests \cap Range(todo)
  /\ phase \in {"poll", "deliver", "save"} =>
       todo # << >> /\ pos = Position(Head(todo))
  /\ phase \in {"deliver", "save"} =>
       /\ batch # << >>
       /\ \A i \in 1 .. Len(batch) : batch[i] = pos + i /\ batch[i] <= Len(log)
       /\ progress[Head(todo)] = None \/ progress[Head(todo)].pending
  /\ phase = "save" => Head(todo) \notin Committers
  /\ phase = "idle" => todo = << >>

RebuildInv ==
  /\ phase \in {"reset", "takeoff"} =>
       Head(rebuilding) \in Projections /\ rows[Head(rebuilding)] = << >>
  /\ phase = "takeoff" => Position(Head(rebuilding)) = 0
  /\ \A c \in Committers : checkpoint[c] = 0

\* What c has done goes with its position.
Kept(c) ==
  IF c \in Committers THEN Once(rows[c], Position(c))
  ELSE \/ ~Saving(c) /\ Did(rows[c], Position(c))
       \/ Did(rows[c], Position(c) + 1)

RowsInv ==
  \A c \in Names :
    /\ \A i \in 1 .. Len(rows[c]) : rows[c][i].at <= Len(log)
    /\ ~Rebuilding(c) => Kept(c)

\* Without a fault nothing is done twice.
ExactInv ==
  spent.faults = 0 =>
    \A c \in Names : ~Rebuilding(c) =>
      Len(rows[c]) = IF Saving(c) THEN Position(c) + 1 ELSE Position(c)

\* What Status shows of c with nothing pending is true.
Shown(c) ==
  progress[c] # None /\ ~progress[c].pending /\ ~Rebuilding(c)
    => progress[c].pos = Position(c) /\ Did(rows[c], Position(c))

StatusInv == phase # "stopped" => \A c \in Names \ Range(todo) : Shown(c)

IInv ==
  /\ TypeOK /\ LoopInv /\ RebuildInv /\ RowsInv /\ ExactInv /\ StatusInv

-----------------------------------------------------------------------------
(* Sequences of consumers and of deeds.                                    *)

LEMMA Ends ==
  ASSUME NEW S, NEW s \in Seq(S), s # << >>
  PROVE  /\ Head(s) \in S /\ Tail(s) \in Seq(S)
         /\ Head(s) = s[1] /\ Len(s) \in Nat \ {0}
         /\ Len(Tail(s)) = Len(s) - 1
         /\ \A i \in 1 .. Len(s) - 1 : Tail(s)[i] = s[i + 1]
OBVIOUS

LEMMA RangeEnds ==
  ASSUME NEW S, NEW s \in Seq(S), s # << >>
  PROVE  /\ Range(s) = {Head(s)} \cup Range(Tail(s))
         /\ IsInjective(s) => IsInjective(Tail(s)) /\ Head(s) \notin Range(Tail(s))
<1>1. /\ Head(s) = s[1] /\ Len(s) \in Nat \ {0} /\ DOMAIN s = 1 .. Len(s)
      /\ Tail(s) \in Seq(S) /\ DOMAIN Tail(s) = 1 .. Len(s) - 1
      /\ \A i \in 1 .. Len(s) - 1 : Tail(s)[i] = s[i + 1]
  BY Ends
<1>2. Range(s) = {s[i] : i \in 1 .. Len(s)}
  BY <1>1 DEF Range
<1>3. Range(Tail(s)) = {s[i + 1] : i \in 1 .. Len(s) - 1}
  BY <1>1 DEF Range
<1>4. Range(s) \subseteq {Head(s)} \cup Range(Tail(s))
  <2> SUFFICES ASSUME NEW i \in 1 .. Len(s), i # 1 PROVE s[i] \in Range(Tail(s))
    BY <1>1, <1>2
  <2>1. i - 1 \in 1 .. Len(s) - 1 /\ (i - 1) + 1 = i
    BY <1>1
  <2> QED
    BY <2>1, <1>3
<1>5. {Head(s)} \cup Range(Tail(s)) \subseteq Range(s)
  BY <1>1, <1>2, <1>3
<1>6. ASSUME IsInjective(s)
      PROVE  IsInjective(Tail(s)) /\ Head(s) \notin Range(Tail(s))
  <2>1. \A i, j \in 1 .. Len(s) : s[i] = s[j] => i = j
    BY <1>1, <1>6 DEF IsInjective
  <2>2. \A i, j \in 1 .. Len(s) - 1 : Tail(s)[i] = Tail(s)[j] => i = j
    BY <1>1, <2>1
  <2>3. \A i \in 1 .. Len(s) - 1 : s[i + 1] # s[1]
    BY <1>1, <2>1
  <2> QED
    BY <1>1, <1>3, <2>2, <2>3 DEF IsInjective
<1> QED
  BY <1>4, <1>5, <1>6

LEMMA RangeOf ==
  ASSUME NEW S, NEW s \in Seq(S)
  PROVE  Range(s) = {s[i] : i \in 1 .. Len(s)} /\ Range(s) \subseteq S
BY DEF Range

LEMMA RangeEmpty == Range(<< >>) = {} /\ IsInjective(<< >>)
BY DEF Range, IsInjective

\* One more deed, of the next event or of the last one again.
LEMMA DidAppend ==
  ASSUME NEW s \in Seq(Deeds), NEW n \in Nat, NEW d \in Deeds, d.at = n + 1,
         Did(s, n) \/ Did(s, n + 1)
  PROVE  Did(Append(s, d), n + 1)
<1> DEFINE t == Append(s, d)
<1>1. /\ Len(s) \in Nat /\ Len(t) = Len(s) + 1 /\ t # << >>
      /\ t[Len(s) + 1] = d /\ \A i \in 1 .. Len(s) : t[i] = s[i]
  OBVIOUS
<1>2. CASE s = << >>
  <2>1. n = 0 /\ Len(s) = 0
    BY <1>2 DEF Did
  <2> QED
    BY <1>1, <2>1 DEF Did
<1>3. CASE s # << >>
  <2>1. Len(s) >= 1
    BY <1>1, <1>3
  <2>2. s[1].at = 1 /\ s[Len(s)].at \in {n, n + 1}
        /\ \A i \in 2 .. Len(s) : s[i].at \in {s[i - 1].at, s[i - 1].at + 1}
    BY <1>3 DEF Did
  <2>3. t[1].at = 1 /\ t[Len(t)].at = n + 1
    BY <1>1, <2>1, <2>2
  <2>4. ASSUME NEW i \in 2 .. Len(t) PROVE t[i].at \in {t[i - 1].at, t[i - 1].at + 1}
    <3>1. CASE i = Len(s) + 1
      <4>1. i - 1 = Len(s) /\ t[i - 1] = s[Len(s)] /\ t[i] = d
        BY <1>1, <2>1, <3>1
      <4> QED
        BY <4>1, <2>2
    <3>2. CASE i # Len(s) + 1
      <4>1. i \in 2 .. Len(s) /\ i - 1 \in 1 .. Len(s) /\ i \in 1 .. Len(s)
        BY <1>1, <3>2
      <4> QED
        BY <4>1, <1>1, <2>2
    <3> QED
      BY <3>1, <3>2
  <2> QED
    BY <1>1, <2>3, <2>4 DEF Did
<1> QED
  BY <1>2, <1>3

LEMMA OnceAppend ==
  ASSUME NEW s \in Seq(Deeds), NEW n \in Nat, NEW d \in Deeds, d.at = n + 1,
         Once(s, n)
  PROVE  Once(Append(s, d), n + 1)
BY DEF Once

LEMMA OnceIsDid ==
  ASSUME NEW s \in Seq(Deeds), NEW n \in Nat, Once(s, n)
  PROVE  Did(s, n)
<1>1. Len(s) = n /\ \A i \in 1 .. n : s[i].at = i
  BY DEF Once
<1>2. \A i \in 2 .. n : i \in 1 .. n /\ i - 1 \in 1 .. n
  OBVIOUS
<1>3. \A i \in 2 .. Len(s) : s[i].at \in {s[i - 1].at, s[i - 1].at + 1}
  BY <1>1, <1>2
<1>4. s = << >> <=> n = 0
  BY <1>1
<1> QED
  BY <1>1, <1>3, <1>4 DEF Did

\* What is done up to an event has that event among its deeds.
LEMMA DidLast ==
  ASSUME NEW s \in Seq(Deeds), NEW n \in Nat, n # 0, Did(s, n)
  PROVE  \E i \in 1 .. Len(s) : s[i].at = n
<1>1. s # << >> /\ s[Len(s)].at = n
  BY DEF Did
<1>2. Len(s) \in 1 .. Len(s)
  BY <1>1
<1> QED
  BY <1>1, <1>2

-----------------------------------------------------------------------------
(* Positions and counters.                                                 *)

LEMMA PositionNat ==
  ASSUME TypeOK, NEW c \in Names PROVE Position(c) \in Nat
BY DEF TypeOK, Position

LEMMA SaveParts ==
  ASSUME TypeOK, NEW c \in Names, NEW p \in Nat, Save(c, p)
  PROVE  /\ checkpoint' \in [Names -> Nat]
         /\ own' \in [Committers -> Nat \cup {None}]
         /\ Position(c)' = p
         /\ \A d \in Names : d # c => Position(d)' = Position(d)
         /\ \A d \in Committers : checkpoint'[d] = checkpoint[d]
<1>1. /\ checkpoint \in [Names -> Nat] /\ own \in [Committers -> Nat \cup {None}]
      /\ Committers \subseteq Names /\ p # None
  BY NamesAssumption DEF TypeOK
<1>2. CASE c \in Committers
  <2>1. own' = [own EXCEPT ![c] = p] /\ checkpoint' = checkpoint
    BY <1>2 DEF Save
  <2>2. own' \in [Committers -> Nat \cup {None}] /\ own'[c] = p
        /\ \A d \in Committers : d # c => own'[d] = own[d]
    BY <1>1, <1>2, <2>1
  <2>3. Position(c)' = p
    BY <1>1, <1>2, <2>2 DEF Position
  <2>4. ASSUME NEW d \in Names, d # c PROVE Position(d)' = Position(d)
    BY <2>1, <2>2, <2>4 DEF Position
  <2> QED
    BY <1>1, <2>1, <2>2, <2>3, <2>4
<1>3. CASE c \notin Committers
  <2>1. checkpoint' = [checkpoint EXCEPT ![c] = p] /\ own' = own
    BY <1>3 DEF Save
  <2>2. checkpoint' \in [Names -> Nat] /\ checkpoint'[c] = p
        /\ \A d \in Names : d # c => checkpoint'[d] = checkpoint[d]
    BY <1>1, <2>1
  <2>3. Position(c)' = p
    BY <1>3, <2>2 DEF Position
  <2>4. ASSUME NEW d \in Names, d # c PROVE Position(d)' = Position(d)
    BY <2>1, <2>2, <2>4 DEF Position
  <2>5. \A d \in Committers : checkpoint'[d] = checkpoint[d]
    BY <1>1, <1>3, <2>2
  <2> QED
    BY <1>1, <2>1, <2>2, <2>3, <2>4, <2>5
<1> QED
  BY <1>2, <1>3

LEMMA RecordedParts ==
  ASSUME TypeOK, NEW c \in Names, NEW p \in Nat,
         NEW q \in BOOLEAN, NEW b \in BOOLEAN, Recorded(c, p, q, b)
  PROVE  /\ progress' \in [Names -> Progress \cup {None}]
         /\ progress'[c].pos = p /\ progress'[c].pending = q
         /\ \A d \in Names : d # c => progress'[d] = progress[d]
<1>1. progress \in [Names -> Progress \cup {None}]
  BY DEF TypeOK
<1>2. progress' = [progress EXCEPT
                     ![c] = [pos |-> p, pending |-> q, blocked |-> b]]
  BY DEF Recorded
<1>3. [pos |-> p, pending |-> q, blocked |-> b] \in Progress
  BY DEF Progress
<1> QED
  BY <1>1, <1>2, <1>3

LEMMA SpendParts ==
  ASSUME TypeOK
  PROVE  /\ Spend("requests") => spent' \in Budget /\ spent'.faults = spent.faults
         /\ Spend("reloads") => spent' \in Budget /\ spent'.faults = spent.faults
         /\ Spend("stops") => spent' \in Budget /\ spent'.faults = spent.faults
         /\ Fault => spent' \in Budget /\ spent'.faults # 0
<1>1. ASSUME NEW what, Spend(what)
      PROVE  spent' = [spent EXCEPT ![what] = spent[what] + 1]
  BY <1>1, Zenon DEF Spend
<1>2. spent \in [requests : Nat, reloads : Nat, stops : Nat, faults : Nat]
  BY DEF TypeOK, Budget
<1>3. Spend("requests") => spent' \in Budget /\ spent'.faults = spent.faults
  BY <1>1, <1>2 DEF Budget
<1>4. Spend("reloads") => spent' \in Budget /\ spent'.faults = spent.faults
  BY <1>1, <1>2 DEF Budget
<1>5. Spend("stops") => spent' \in Budget /\ spent'.faults = spent.faults
  BY <1>1, <1>2 DEF Budget
<1>6. Spend("faults") => spent' \in Budget /\ spent'.faults # 0
  BY <1>1, <1>2 DEF Budget
<1> QED
  BY <1>3, <1>4, <1>5, <1>6 DEF Fault

\* The heads of the loop's lists.
LEMMA TodoParts ==
  ASSUME TypeOK, todo # << >>
  PROVE  /\ Head(todo) \in Names /\ Tail(todo) \in Seq(Names)
         /\ Head(todo) \in Range(todo) /\ Range(Tail(todo)) \subseteq Range(todo)
         /\ Range(todo) = {Head(todo)} \cup Range(Tail(todo))
<1>1. todo \in Seq(Names)
  BY DEF TypeOK
<1> QED
  BY <1>1, Ends, RangeEnds

LEMMA RebuildingParts ==
  ASSUME IInv, phase \in Rebuild
  PROVE  /\ rebuilding # << >> /\ Head(rebuilding) \in Names
         /\ Head(rebuilding) \in requests /\ Head(rebuilding) \in Range(todo)
         /\ Tail(rebuilding) \in Seq(Names) /\ IsInjective(Tail(rebuilding))
         /\ Range(Tail(rebuilding)) \subseteq
              (requests \ {Head(rebuilding)}) \cap Range(todo)
<1>1. rebuilding \in Seq(Names) /\ rebuilding # << >> /\ IsInjective(rebuilding)
      /\ Range(rebuilding) \subseteq requests \cap Range(todo)
  BY DEF IInv, TypeOK, LoopInv
<1>2. Head(rebuilding) \in Names /\ Tail(rebuilding) \in Seq(Names)
  BY <1>1, Ends
<1>3. Range(rebuilding) = {Head(rebuilding)} \cup Range(Tail(rebuilding))
      /\ IsInjective(Tail(rebuilding))
      /\ Head(rebuilding) \notin Range(Tail(rebuilding))
  BY <1>1, RangeEnds
<1> QED
  BY <1>1, <1>2, <1>3

LEMMA BatchParts ==
  ASSUME IInv, phase \in {"deliver", "save"}
  PROVE  /\ todo # << >> /\ Head(todo) \in Names /\ batch # << >>
         /\ pos \in Nat /\ pos = Position(Head(todo))
         /\ Head(batch) = pos + 1 /\ Head(batch) <= Len(log)
         /\ Tail(batch) \in Seq(Nat)
         /\ \A i \in 1 .. Len(Tail(batch)) :
              Tail(batch)[i] = Head(batch) + i /\ Tail(batch)[i] <= Len(log)
<1>1. batch \in Seq(Nat) /\ batch # << >> /\ pos \in Nat /\ todo # << >>
      /\ pos = Position(Head(todo))
      /\ \A i \in 1 .. Len(batch) : batch[i] = pos + i /\ batch[i] <= Len(log)
  BY DEF IInv, TypeOK, LoopInv
<1>2. /\ Head(batch) = batch[1] /\ Len(batch) \in Nat \ {0}
      /\ Tail(batch) \in Seq(Nat) /\ Len(Tail(batch)) = Len(batch) - 1
      /\ \A i \in 1 .. Len(batch) - 1 : Tail(batch)[i] = batch[i + 1]
  BY <1>1, Ends
<1>3. Head(batch) = pos + 1 /\ Head(batch) <= Len(log)
  BY <1>1, <1>2
<1>4. ASSUME NEW i \in 1 .. Len(Tail(batch))
      PROVE  Tail(batch)[i] = Head(batch) + i /\ Tail(batch)[i] <= Len(log)
  <2>1. i + 1 \in 1 .. Len(batch) /\ Tail(batch)[i] = batch[i + 1]
    BY <1>2
  <2>2. batch[i + 1] = pos + (i + 1) /\ batch[i + 1] <= Len(log)
    BY <1>1, <2>1
  <2> QED
    BY <1>1, <1>2, <1>3, <2>1, <2>2
<1>5. Head(todo) \in Names
  BY <1>1, TodoParts DEF IInv
<1> QED
  BY <1>1, <1>2, <1>3, <1>4, <1>5

LEMMA DeedParts ==
  ASSUME NEW c, NEW p \in Nat \ {0}
  PROVE  Deed(c, p) \in Deeds /\ Deed(c, p).at = p
BY DEF Deed, Deeds

-----------------------------------------------------------------------------
(* Steps that leave what is on disk.                                       *)

LEMMA SamePositions ==
  ASSUME UNCHANGED <<checkpoint, own>>
  PROVE  \A c : Position(c)' = Position(c)
BY DEF Position

LEMMA QuietRows ==
  ASSUME IInv, UNCHANGED durable, phase' # "save"
  PROVE  RowsInv'
<1>1. UNCHANGED <<log, checkpoint, own, rows, requests>>
  BY DEF durable
<1>2. \A c : Position(c)' = Position(c)
  BY <1>1, SamePositions
<1>3. ASSUME NEW c \in Names, ~Rebuilding(c)' PROVE Kept(c)'
  <2>1. Kept(c)
    BY <1>1, <1>3 DEF IInv, RowsInv, Rebuilding
  <2> QED
    BY <1>1, <1>2, <2>1 DEF Kept, Saving, Once, Did
<1>4. \A c \in Names : \A i \in 1 .. Len(rows'[c]) : rows'[c][i].at <= Len(log)'
  BY <1>1 DEF IInv, RowsInv
<1> QED
  BY <1>3, <1>4 DEF RowsInv

LEMMA QuietExact ==
  ASSUME IInv, UNCHANGED durable, phase' # "save",
         (phase # "save" /\ spent' = spent) \/ spent'.faults # 0
  PROVE  ExactInv'
<1>1. UNCHANGED <<log, checkpoint, own, rows, requests>>
  BY DEF durable
<1>2. \A c : Position(c)' = Position(c)
  BY <1>1, SamePositions
<1> QED
  BY <1>1, <1>2 DEF IInv, ExactInv, Rebuilding, Saving

\* What is shown of a consumer that is not in its turn or still to have it.
LEMMA QuietStatus ==
  ASSUME IInv, UNCHANGED durable, phase # "stopped",
         \A c \in Names \ Range(todo') :
           \/ progress'[c] = progress[c] /\ c \notin Range(todo)
           \/ progress'[c] = None
           \/ progress'[c].pending
           \/ progress'[c].pos = Position(c)
                /\ (~Rebuilding(c) => Did(rows[c], Position(c)))
  PROVE  StatusInv'
<1>1. UNCHANGED <<log, checkpoint, own, rows, requests>>
  BY DEF durable
<1>2. \A c : Position(c)' = Position(c)
  BY <1>1, SamePositions
<1>3. ASSUME NEW c \in Names \ Range(todo') PROVE Shown(c)'
  <2>1. CASE progress'[c] = progress[c] /\ c \notin Range(todo)
    <3>1. Shown(c)
      BY <1>3, <2>1 DEF IInv, StatusInv
    <3> QED
      BY <1>1, <1>2, <2>1, <3>1 DEF Shown, Rebuilding, Did
  <2>2. CASE progress'[c] = None \/ progress'[c].pending
    BY <2>2 DEF Shown
  <2>3. CASE progress'[c].pos = Position(c)
               /\ (~Rebuilding(c) => Did(rows[c], Position(c)))
    BY <1>1, <1>2, <2>3 DEF Shown, Did, Rebuilding
  <2> QED
    BY <1>3, <2>1, <2>2, <2>3
<1> QED
  BY <1>3 DEF StatusInv

-----------------------------------------------------------------------------
(* The initial states, and a process that starts.                          *)

LEMMA InitIInv == Init => IInv
<1> SUFFICES ASSUME Init PROVE IInv
  OBVIOUS
<1> USE DEF Init
<1>1. Boot \in Seq(Names) /\ IsInjective(Boot)
  BY NamesAssumption
<1>2. TypeOK
  <2>1. log \in Seq({"native", "imported"}) /\ registered \in Seq(Names)
        /\ IsInjective(registered) /\ rebuilding \in Seq(Names)
        /\ todo \in Seq(Names) /\ batch \in Seq(Nat)
    BY <1>1
  <2>2. checkpoint \in [Names -> Nat] /\ own \in [Committers -> Nat \cup {None}]
        /\ rows \in [Names -> Seq(Deeds)]
        /\ progress \in [Names -> Progress \cup {None}]
    OBVIOUS
  <2>3. spent \in Budget /\ phase \in Phases /\ requests \subseteq Names
        /\ pos \in Nat /\ blocked \in BOOLEAN /\ stopping \in BOOLEAN
    BY DEF Budget, Phases
  <2> QED
    BY <2>1, <2>2, <2>3 DEF TypeOK
<1>3. LoopInv
  BY RangeEmpty DEF LoopInv, Rebuild
<1>4. RebuildInv
  BY NamesAssumption DEF RebuildInv
<1>5. \A c \in Names : Position(c) = 0
  BY NamesAssumption DEF Position
<1>6. RowsInv
  BY <1>5 DEF RowsInv, Kept, Saving, Once, Did
<1>7. ExactInv
  BY <1>5 DEF ExactInv, Saving
<1>8. StatusInv
  BY DEF StatusInv, Shown
<1> QED
  BY <1>2, <1>3, <1>4, <1>6, <1>7, <1>8 DEF IInv

LEMMA BootedKeeps ==
  ASSUME IInv, Booted, spent' \in Budget,
         (phase # "save" /\ spent' = spent) \/ spent'.faults # 0
  PROVE  IInv'
<1>0. UNCHANGED durable /\ phase' = "idle"
  BY DEF Booted
<1>1. UNCHANGED <<log, checkpoint, own, rows, requests>>
  BY <1>0 DEF durable
<1>2. TypeOK'
  <2>1. registered' \in Seq(Names) /\ IsInjective(registered')
        /\ rebuilding' \in Seq(Names) /\ todo' \in Seq(Names)
        /\ batch' \in Seq(Nat)
    BY NamesAssumption DEF Booted
  <2>2. progress' \in [Names -> Progress \cup {None}]
    BY DEF Booted
  <2>3. phase' \in Phases /\ pos' \in Nat /\ blocked' \in BOOLEAN
        /\ stopping' \in BOOLEAN
    BY DEF Booted, Phases
  <2> QED
    BY <1>1, <2>1, <2>2, <2>3 DEF IInv, TypeOK
<1>3. LoopInv'
  BY RangeEmpty DEF LoopInv, Booted, Rebuild
<1>4. RebuildInv'
  BY <1>1 DEF IInv, RebuildInv, Booted
<1>5. RowsInv'
  BY <1>0, QuietRows
<1>6. ExactInv'
  BY <1>0, QuietExact
<1>7. StatusInv'
  BY DEF StatusInv, Shown, Booted
<1> QED
  BY <1>2, <1>3, <1>4, <1>5, <1>6, <1>7 DEF IInv

-----------------------------------------------------------------------------
(* Beside the engine.                                                      *)

\* The log and the requests may grow, a consumer's progress be dropped.
LEMMA BesideKeeps ==
  ASSUME IInv, TypeOK', UNCHANGED <<checkpoint, own, rows, phase, turn>>,
         Len(log) <= Len(log)', requests \subseteq requests',
         \A i \in 1 .. Len(log) : log'[i] = log[i],
         \A c \in Names : progress'[c] = progress[c] \/ progress'[c] = None,
         spent'.faults = spent.faults
  PROVE  IInv'
<1>1. UNCHANGED <<rebuilding, todo, pos, batch, blocked>>
  BY DEF turn
<1>2. \A c : Position(c)' = Position(c)
  BY SamePositions
<1>3. \A c : ~Rebuilding(c)' => ~Rebuilding(c)
  BY DEF Rebuilding
<1>4. Len(log) \in Nat /\ Len(log)' \in Nat
  BY DEF IInv, TypeOK
<1>5. LoopInv'
  <2>1. ASSUME NEW i \in 1 .. Len(batch), phase \in {"deliver", "save"}
        PROVE  batch[i] = pos + i /\ batch[i] <= Len(log)'
    <3>1. pos \in Nat /\ batch[i] = pos + i /\ batch[i] <= Len(log)
          /\ i \in Nat
      BY <2>1 DEF IInv, LoopInv, TypeOK
    <3> QED
      BY <1>4, <3>1
  <2>2. ASSUME phase \in {"deliver", "save"}
        PROVE  progress'[Head(todo)] = None \/ progress'[Head(todo)].pending
    BY <2>2, BatchParts DEF IInv, LoopInv
  <2> QED
    BY <1>1, <1>2, <2>1, <2>2 DEF IInv, LoopInv
<1>6. RebuildInv'
  BY <1>1, <1>2 DEF IInv, RebuildInv
<1>7. RowsInv'
  <2>1. ASSUME NEW c \in Names, NEW i \in 1 .. Len(rows[c])
        PROVE  rows[c][i].at <= Len(log)'
    <3>1. rows[c][i] \in Deeds /\ rows[c][i].at <= Len(log)
      BY DEF IInv, TypeOK, RowsInv
    <3> QED
      BY <1>4, <3>1 DEF Deeds
  <2>2. ASSUME NEW c \in Names, ~Rebuilding(c)' PROVE Kept(c)'
    <3>1. Kept(c)
      BY <1>3, <2>2 DEF IInv, RowsInv
    <3> QED
      BY <1>1, <1>2, <3>1 DEF Kept, Saving, Once, Did
  <2> QED
    BY <2>1, <2>2 DEF RowsInv
<1>8. ExactInv'
  BY <1>1, <1>2, <1>3 DEF IInv, ExactInv, Saving
<1>9. StatusInv'
  <2>1. ASSUME phase # "stopped", NEW c \in Names \ Range(todo) PROVE Shown(c)'
    <3>1. Shown(c)
      BY <2>1 DEF IInv, StatusInv
    <3> QED
      BY <1>1, <1>2, <1>3, <2>1, <3>1 DEF Shown, Did
  <2> QED
    BY <1>1, <2>1 DEF StatusInv
<1> QED
  BY <1>5, <1>6, <1>7, <1>8, <1>9 DEF IInv

LEMMA NewEventKeeps ==
  ASSUME IInv, NEW origin \in {"native", "imported"}, NewEvent(origin)
  PROVE  IInv'
<1>1. log \in Seq({"native", "imported"}) /\ log' = Append(log, origin)
  BY DEF IInv, TypeOK, NewEvent
<1>2. /\ log' \in Seq({"native", "imported"}) /\ Len(log) <= Len(log)'
      /\ \A i \in 1 .. Len(log) : log'[i] = log[i]
  BY <1>1
<1>3. /\ UNCHANGED <<checkpoint, own, rows, phase, turn>>
      /\ UNCHANGED <<requests, registered, progress, stopping, spent>>
  BY DEF NewEvent
<1>4. TypeOK'
  BY <1>2, <1>3 DEF IInv, TypeOK, turn
<1> QED
  BY <1>2, <1>3, <1>4, BesideKeeps

LEMMA RequestKeeps == ASSUME IInv, NEW c \in Names, Request(c) PROVE IInv'
<1>1. spent' \in Budget /\ spent'.faults = spent.faults
  BY SpendParts DEF IInv, Request
<1>2. /\ UNCHANGED <<checkpoint, own, rows, phase, turn>>
      /\ UNCHANGED <<log, registered, progress, stopping>>
      /\ requests' = requests \cup {c}
  BY DEF Request
<1>3. TypeOK'
  BY <1>1, <1>2 DEF IInv, TypeOK, turn
<1>4. Len(log) <= Len(log)'
  BY <1>2 DEF IInv, TypeOK
<1> QED
  BY <1>1, <1>2, <1>3, <1>4, BesideKeeps

LEMMA RemovedOne ==
  ASSUME NEW S, NEW s \in Seq(S), IsInjective(s), NEW i \in 1 .. Len(s)
  PROVE  RemoveAt(s, i) \in Seq(S) /\ IsInjective(RemoveAt(s, i))
<1> DEFINE a == SubSeq(s, 1, i - 1)
           b == SubSeq(s, i + 1, Len(s))
           At(j) == IF j < i THEN j ELSE j + 1
<1>1. a \in Seq(S) /\ Len(a) = i - 1 /\ \A j \in 1 .. i - 1 : a[j] = s[j]
  OBVIOUS
<1>2. /\ b \in Seq(S) /\ Len(b) = Len(s) - i
      /\ \A j \in 1 .. Len(s) - i : b[j] = s[i + j]
  OBVIOUS
<1>3. PICK t : t = a \o b
  OBVIOUS
<1>4. /\ t \in Seq(S) /\ Len(t) = Len(a) + Len(b)
      /\ \A j \in 1 .. Len(a) + Len(b) : t[j] = IF j <= Len(a) THEN a[j]
                                                 ELSE b[j - Len(a)]
  <2> HIDE DEF a, b
  <2> QED
    BY <1>1, <1>2, <1>3, ConcatProperties
<1>5. ASSUME NEW j \in 1 .. Len(t)
      PROVE  At(j) \in 1 .. Len(s) /\ t[j] = s[At(j)] /\ j \in Nat
  <2> HIDE DEF a, b
  <2>0. Len(t) = Len(s) - 1 /\ Len(s) \in Nat
    BY <1>1, <1>2, <1>4
  <2>1. CASE j < i
    BY <1>1, <1>2, <1>4, <2>0, <2>1
  <2>2. CASE ~(j < i)
    <3>1. j - (i - 1) \in 1 .. Len(s) - i /\ ~(j <= Len(a))
      BY <1>1, <2>0, <2>2
    <3>2. t[j] = b[j - (i - 1)]
      BY <1>1, <1>2, <1>4, <3>1
    <3>3. t[j] = s[i + (j - (i - 1))]
      BY <1>2, <3>1, <3>2
    <3>4. i + (j - (i - 1)) = j + 1
      OBVIOUS
    <3> QED
      BY <2>0, <2>2, <3>3, <3>4
  <2> QED
    BY <2>1, <2>2
<1>6. ASSUME NEW j \in 1 .. Len(t), NEW k \in 1 .. Len(t), t[j] = t[k]
      PROVE  j = k
  <2>1. s[At(j)] = s[At(k)] /\ At(j) \in DOMAIN s /\ At(k) \in DOMAIN s
    BY <1>5, <1>6
  <2>2. At(j) = At(k)
    <3> HIDE DEF At
    <3> QED
      BY <2>1 DEF IsInjective
  <2> QED
    BY <1>5, <2>2
<1>7. DOMAIN t = 1 .. Len(t)
  BY <1>4
<1>8. IsInjective(t)
  BY <1>6, <1>7 DEF IsInjective
<1> QED
  BY <1>3, <1>4, <1>8 DEF RemoveAt

LEMMA UnregisterKeeps ==
  ASSUME IInv, NEW c \in Names, Unregister(c) PROVE IInv'
<1>1. spent' \in Budget /\ spent'.faults = spent.faults
  BY SpendParts DEF IInv, Unregister
<1>2. /\ UNCHANGED <<log, checkpoint, own, rows, requests, phase, turn, stopping>>
      /\ progress' = [progress EXCEPT ![c] = None]
  BY DEF Unregister, durable
<1>3. progress' \in [Names -> Progress \cup {None}]
      /\ \A d \in Names : progress'[d] = progress[d] \/ progress'[d] = None
  BY <1>2 DEF IInv, TypeOK
<1>4. registered' \in Seq(Names) /\ IsInjective(registered')
  <2>1. registered \in Seq(Names) /\ IsInjective(registered)
    BY DEF IInv, TypeOK
  <2>2. PICK i \in 1 .. Len(registered) : registered' = RemoveAt(registered, i)
    BY <2>1 DEF Unregister
  <2> QED
    BY <2>1, <2>2, RemovedOne
<1>5. TypeOK'
  BY <1>1, <1>2, <1>3, <1>4 DEF IInv, TypeOK, turn
<1>6. Len(log) <= Len(log)'
  BY <1>2 DEF IInv, TypeOK
<1> QED
  BY <1>1, <1>2, <1>3, <1>5, <1>6, BesideKeeps

LEMMA RegisterKeeps == ASSUME IInv, NEW c \in Names, Register(c) PROVE IInv'
<1>1. /\ UNCHANGED <<log, checkpoint, own, rows, requests, phase, turn, stopping>>
      /\ UNCHANGED <<progress, spent>>
      /\ registered' = Append(registered, c) /\ c \notin Range(registered)
  BY DEF Register, durable
<1>2. registered \in Seq(Names) /\ IsInjective(registered)
  BY DEF IInv, TypeOK
<1>3. registered' \in Seq(Names) /\ IsInjective(registered')
  <2>1. \A i \in 1 .. Len(registered) : registered[i] # c
    BY <1>1, <1>2, RangeOf
  <2> QED
    BY <1>1, <1>2, <2>1 DEF IsInjective
<1>4. TypeOK'
  BY <1>1, <1>3 DEF IInv, TypeOK, turn
<1>5. Len(log) <= Len(log)'
  BY <1>1 DEF IInv, TypeOK
<1> QED
  BY <1>1, <1>4, <1>5, BesideKeeps

LEMMA StopKeeps == ASSUME IInv, Stop PROVE IInv'
<1>1. spent' \in Budget /\ spent'.faults = spent.faults
  BY SpendParts DEF IInv, Stop
<1>2. /\ UNCHANGED <<log, checkpoint, own, rows, requests, phase, turn>>
      /\ UNCHANGED <<registered, progress>> /\ stopping' = TRUE
  BY DEF Stop, durable
<1>3. TypeOK'
  BY <1>1, <1>2 DEF IInv, TypeOK, turn
<1>4. Len(log) <= Len(log)'
  BY <1>2 DEF IInv, TypeOK
<1> QED
  BY <1>1, <1>2, <1>3, <1>4, BesideKeeps

LEMMA RestartKeeps == ASSUME IInv, Restart PROVE IInv'
<1>1. phase # "save" /\ spent' = spent /\ spent' \in Budget
  BY DEF Restart, IInv, TypeOK
<1> QED
  BY <1>1, BootedKeeps DEF Restart

LEMMA CrashKeeps == ASSUME IInv, Crash PROVE IInv'
<1>1. spent' \in Budget /\ spent'.faults # 0
  BY SpendParts DEF IInv, Crash
<1> QED
  BY <1>1, BootedKeeps DEF Crash

-----------------------------------------------------------------------------
(* Rebuilds.                                                               *)

LEMMA OrderParts ==
  ASSUME NEW S, IsFiniteSet(S), NEW f \in SetToSeqs(S)
  PROVE  f \in Seq(S) /\ IsInjective(f) /\ Range(f) \subseteq S
<1>1. Cardinality(S) \in Nat
  BY FS_CardinalityType
<1>2. f \in [1 .. Cardinality(S) -> S]
      /\ \A i, j \in 1 .. Cardinality(S) : i # j => f[i] # f[j]
  BY DEF SetToSeqs
<1>3. f \in Seq(S)
  BY <1>1, <1>2
<1>4. DOMAIN f = 1 .. Cardinality(S)
  BY <1>2
<1>5. IsInjective(f)
  BY <1>2, <1>4 DEF IsInjective
<1> QED
  BY <1>3, <1>5, RangeOf

LEMMA StartPassKeeps == ASSUME IInv, StartPass PROVE IInv'
<1>0. /\ phase = "idle" /\ todo = << >> /\ UNCHANGED durable /\ spent' = spent
      /\ todo' = registered /\ phase' \in {"load", "wipe"}
      /\ phase' = "wipe" <=> rebuilding' # << >>
      /\ UNCHANGED <<registered, progress, pos, batch, blocked, stopping>>
  BY DEF StartPass, IInv, LoopInv
<1>1. PICK order \in SetToSeqs(requests \cap Range(registered)) :
        rebuilding' = order
  BY DEF StartPass
<1>2. IsFiniteSet(requests \cap Range(registered))
      /\ requests \cap Range(registered) \subseteq Names
  <2>1. requests \cap Range(registered) \subseteq Names
    BY DEF IInv, TypeOK
  <2> QED
    BY <2>1, FS_Subset, NamesAssumption
<1>3. /\ rebuilding' \in Seq(Names) /\ IsInjective(rebuilding')
      /\ Range(rebuilding') \subseteq requests \cap Range(registered)
  BY <1>1, <1>2, OrderParts
<1>4. UNCHANGED <<log, checkpoint, own, rows, requests>>
  BY <1>0 DEF durable
<1>5. TypeOK'
  BY <1>0, <1>3, <1>4 DEF IInv, TypeOK, Phases
<1>6. LoopInv'
  BY <1>0, <1>3, <1>4 DEF LoopInv, Rebuild
<1>7. RebuildInv'
  BY <1>0, <1>4 DEF IInv, RebuildInv
<1>8. RowsInv'
  BY <1>0, QuietRows
<1>9. ExactInv'
  BY <1>0, QuietExact
<1>10. StatusInv'
  BY <1>0, RangeEmpty, QuietStatus
<1> QED
  BY <1>5, <1>6, <1>7, <1>8, <1>9, <1>10 DEF IInv

\* What NextRebuild leaves of the loop, once a request was left or taken off.
LEMMA NextRebuildLoop ==
  ASSUME IInv, phase \in Rebuild, NextRebuild,
         UNCHANGED <<log, checkpoint, own>>,
         requests' \in {requests, requests \ {Head(rebuilding)}}
  PROVE  /\ LoopInv' /\ RebuildInv' /\ phase' \in {"load", "wipe"}
         /\ rebuilding' \in Seq(Names)
         /\ UNCHANGED <<registered, progress, todo, pos, batch, blocked, stopping>>
<1>1. /\ rebuilding' = Tail(rebuilding) /\ phase' \in {"load", "wipe"}
      /\ phase' = "wipe" <=> rebuilding' # << >>
      /\ UNCHANGED <<registered, progress, todo, pos, batch, blocked, stopping>>
  BY DEF NextRebuild
<1>2. LoopInv'
  BY <1>1, RebuildingParts DEF LoopInv, Rebuild
<1>3. RebuildInv'
  BY <1>1 DEF IInv, RebuildInv
<1> QED
  BY <1>1, <1>2, <1>3, RebuildingParts

\* The rows of a projection to be rebuilt may become anything that was there.
LEMMA RowsOfRebuilt ==
  ASSUME IInv, NEW c \in Names, Rebuilding(c), NEW s \in Seq(Deeds),
         \A i \in 1 .. Len(s) : s[i].at <= Len(log),
         rows' = [rows EXCEPT ![c] = s],
         UNCHANGED <<log, checkpoint, own, requests, todo, progress>>,
         phase # "save", phase' # "save", phase # "stopped",
         spent' = spent \/ spent'.faults # 0
  PROVE  RowsInv' /\ ExactInv' /\ StatusInv'
         /\ rows' \in [Names -> Seq(Deeds)]
<1>1. \A d : Position(d)' = Position(d) /\ (Rebuilding(d)' <=> Rebuilding(d))
  BY DEF Position, Rebuilding
<1>2. rows \in [Names -> Seq(Deeds)]
  BY DEF IInv, TypeOK
<1>3. rows' \in [Names -> Seq(Deeds)] /\ rows'[c] = s
      /\ \A d \in Names : d # c => rows'[d] = rows[d]
  BY <1>2
<1>4. RowsInv'
  <2>1. ASSUME NEW d \in Names, NEW i \in 1 .. Len(rows'[d])
        PROVE  rows'[d][i].at <= Len(log)
    BY <1>3 DEF IInv, RowsInv
  <2>2. ASSUME NEW d \in Names, ~Rebuilding(d)' PROVE Kept(d)'
    <3>1. Kept(d) /\ rows'[d] = rows[d]
      BY <1>1, <1>3, <2>2 DEF IInv, RowsInv
    <3> QED
      BY <1>1, <3>1 DEF Kept, Saving, Once, Did
  <2> QED
    BY <2>1, <2>2 DEF RowsInv
<1>5. ExactInv'
  BY <1>1, <1>3 DEF IInv, ExactInv, Saving
<1>6. StatusInv'
  <2>1. ASSUME NEW d \in Names \ Range(todo), ~Rebuilding(d)' PROVE Shown(d)'
    <3>1. Shown(d) /\ rows'[d] = rows[d]
      BY <1>1, <1>3, <2>1 DEF IInv, StatusInv
    <3> QED
      BY <1>1, <2>1, <3>1 DEF Shown, Did
  <2>2. \A d \in Names \ Range(todo) : Shown(d)'
    BY <2>1 DEF Shown
  <2> QED
    BY <2>2 DEF StatusInv
<1> QED
  BY <1>3, <1>4, <1>5, <1>6

LEMMA WipeRowsKeeps == ASSUME IInv, WipeRows PROVE IInv'
<1> DEFINE c == Head(rebuilding)
<1>0. /\ phase = "wipe" /\ c \in Projections /\ phase' = "reset"
      /\ rows' = [rows EXCEPT ![c] = << >>]
      /\ UNCHANGED <<log, checkpoint, own, requests, registered, progress,
                     rebuilding, todo, pos, batch, blocked, stopping, spent>>
  BY DEF WipeRows, turn
<1>1. c \in Names /\ Rebuilding(c)
  BY <1>0, RebuildingParts DEF Rebuild, Rebuilding
<1> HIDE DEF c
<1>2. RowsInv' /\ ExactInv' /\ StatusInv'
      /\ rows' \in [Names -> Seq(Deeds)]
  <2>1. PICK s : s = << >>
    OBVIOUS
  <2>2. s \in Seq(Deeds) /\ Len(s) = 0
    BY <2>1
  <2>3. \A i \in 1 .. Len(s) : s[i].at <= Len(log)
    BY <2>2
  <2> QED
    BY <1>0, <1>1, <2>1, <2>2, <2>3, RowsOfRebuilt
<1>3. TypeOK'
  BY <1>0, <1>2 DEF IInv, TypeOK, Phases
<1>4. LoopInv'
  BY <1>0 DEF IInv, LoopInv, Rebuild
<1>5. rows'[c] = << >>
  BY <1>0, <1>1 DEF IInv, TypeOK
<1>6. RebuildInv'
  BY <1>0, <1>5 DEF IInv, RebuildInv, c
<1> QED
  BY <1>2, <1>3, <1>4, <1>6 DEF IInv

LEMMA WipeFailsKeeps == ASSUME IInv, WipeFails PROVE IInv'
<1> DEFINE c == Head(rebuilding)
<1>0. /\ phase = "wipe" /\ c \in Projections /\ NextRebuild
      /\ UNCHANGED <<log, checkpoint, own, requests>>
  BY DEF WipeFails
<1>1. PICK n \in 0 .. Len(rows[c]) :
        rows' = [rows EXCEPT ![c] = SubSeq(rows[c], n + 1, Len(rows[c]))]
  BY DEF WipeFails
<1>2. spent' \in Budget /\ spent'.faults # 0
  BY SpendParts DEF IInv, WipeFails
<1>3. phase \in Rebuild /\ c \in Names /\ Rebuilding(c)
  BY <1>0, RebuildingParts DEF Rebuild, Rebuilding
<1>4. /\ LoopInv' /\ RebuildInv' /\ phase' \in {"load", "wipe"}
      /\ rebuilding' \in Seq(Names)
      /\ UNCHANGED <<registered, progress, todo, pos, batch, blocked, stopping>>
  BY <1>0, <1>3, NextRebuildLoop
<1> HIDE DEF c
<1>5. PICK s : s = SubSeq(rows[c], n + 1, Len(rows[c]))
  OBVIOUS
<1>6. rows[c] \in Seq(Deeds)
  BY <1>3 DEF IInv, TypeOK
<1>7. /\ s \in Seq(Deeds) /\ Len(s) = Len(rows[c]) - n
      /\ \A i \in 1 .. Len(rows[c]) - n : s[i] = rows[c][n + i]
  BY <1>1, <1>5, <1>6
<1>8. ASSUME NEW i \in 1 .. Len(s) PROVE s[i].at <= Len(log)
  <2>1. n + i \in 1 .. Len(rows[c]) /\ s[i] = rows[c][n + i]
    BY <1>6, <1>7
  <2> QED
    BY <1>3, <2>1 DEF IInv, RowsInv
<1>9. RowsInv' /\ ExactInv' /\ StatusInv'
      /\ rows' \in [Names -> Seq(Deeds)]
  BY <1>0, <1>1, <1>2, <1>3, <1>4, <1>5, <1>7, <1>8, RowsOfRebuilt
<1>10. TypeOK'
  BY <1>0, <1>2, <1>4, <1>9 DEF IInv, TypeOK, Phases
<1> QED
  BY <1>4, <1>9, <1>10 DEF IInv

LEMMA ResetCheckpointKeeps == ASSUME IInv, ResetCheckpoint PROVE IInv'
<1>p. PICK c : c = Head(rebuilding)
  OBVIOUS
<1>0. /\ phase = "reset" /\ phase' = "takeoff" /\ Save(c, 0)
      /\ UNCHANGED <<log, rows, requests, registered, progress,
                     rebuilding, todo, pos, batch, blocked, stopping, spent>>
  BY <1>p DEF ResetCheckpoint, turn
<1>1. c \in Names /\ c \in Projections /\ rows[c] = << >> /\ Rebuilding(c)
  BY <1>0, <1>p, RebuildingParts DEF IInv, RebuildInv, Rebuild, Rebuilding
<1>2. rebuilding' = rebuilding
  BY <1>0
<1>3. /\ checkpoint' \in [Names -> Nat] /\ own' \in [Committers -> Nat \cup {None}]
      /\ Position(c)' = 0
      /\ \A d \in Names : d # c => Position(d)' = Position(d)
      /\ \A d \in Committers : checkpoint'[d] = checkpoint[d]
  BY <1>0, <1>1, SaveParts DEF IInv
<1>4. TypeOK'
  BY <1>0, <1>3 DEF IInv, TypeOK, Phases
<1>5. LoopInv'
  BY <1>0 DEF IInv, LoopInv, Rebuild
<1>6. RebuildInv'
  BY <1>0, <1>1, <1>2, <1>3, <1>p DEF IInv, RebuildInv
<1>7. \A d : Rebuilding(d)' <=> Rebuilding(d)
  BY <1>0 DEF Rebuilding
<1>8. RowsInv'
  <2>1. ASSUME NEW d \in Names, ~Rebuilding(d)' PROVE Kept(d)'
    <3>1. Kept(d) /\ d # c
      BY <1>1, <1>7, <2>1 DEF IInv, RowsInv
    <3> QED
      BY <1>0, <1>3, <3>1 DEF Kept, Saving, Once, Did
  <2> QED
    BY <1>0, <2>1 DEF IInv, RowsInv
<1>9. ExactInv'
  BY <1>0, <1>1, <1>3, <1>7 DEF IInv, ExactInv, Saving
<1>10. StatusInv'
  <2>1. ASSUME NEW d \in Names \ Range(todo), ~Rebuilding(d)' PROVE Shown(d)'
    <3>1. Shown(d) /\ d # c
      BY <1>0, <1>1, <1>7, <2>1 DEF IInv, StatusInv
    <3> QED
      BY <1>0, <1>3, <1>7, <2>1, <3>1 DEF Shown, Did
  <2>2. \A d \in Names \ Range(todo) : Shown(d)'
    BY <2>1 DEF Shown
  <2> QED
    BY <1>0, <2>2 DEF StatusInv
<1> QED
  BY <1>4, <1>5, <1>6, <1>8, <1>9, <1>10 DEF IInv

LEMMA ResetFailsKeeps == ASSUME IInv, ResetFails PROVE IInv'
<1>0. phase = "reset" /\ NextRebuild /\ UNCHANGED durable
  BY DEF ResetFails
<1>1. UNCHANGED <<log, checkpoint, own, rows, requests>>
  BY <1>0 DEF durable
<1>2. spent' \in Budget /\ spent'.faults # 0
  BY SpendParts DEF IInv, ResetFails
<1>3. /\ LoopInv' /\ RebuildInv' /\ phase' \in {"load", "wipe"}
      /\ rebuilding' \in Seq(Names)
      /\ UNCHANGED <<registered, progress, todo, pos, batch, blocked, stopping>>
  BY <1>0, <1>1, NextRebuildLoop DEF Rebuild
<1>4. TypeOK'
  BY <1>1, <1>2, <1>3 DEF IInv, TypeOK, Phases
<1>5. RowsInv' /\ ExactInv'
  BY <1>0, <1>2, <1>3, QuietRows, QuietExact
<1>6. StatusInv'
  BY <1>0, <1>3, QuietStatus
<1> QED
  BY <1>3, <1>4, <1>5, <1>6 DEF IInv

\* Taking a request off changes only whether its rows are spoken for.
LEMMA TakenOff ==
  ASSUME IInv, phase \in Rebuild, NextRebuild, spent' \in Budget,
         spent' = spent \/ spent'.faults # 0,
         UNCHANGED <<log, checkpoint, own, rows>>,
         requests' \in {requests, requests \ {Head(rebuilding)}},
         Head(rebuilding) \in Projections =>
           rows[Head(rebuilding)] = << >> /\ Position(Head(rebuilding)) = 0
  PROVE  IInv'
<1>1. /\ LoopInv' /\ RebuildInv' /\ phase' \in {"load", "wipe"}
      /\ rebuilding' \in Seq(Names)
      /\ UNCHANGED <<registered, progress, todo, pos, batch, blocked, stopping>>
  BY NextRebuildLoop
<1>2. PICK c : c = Head(rebuilding)
  OBVIOUS
<1>3. c \in Names /\ c \in Range(todo)
  BY <1>2, RebuildingParts
<1>4. \A d : Position(d)' = Position(d)
  BY SamePositions
<1>5. \A d : ~Rebuilding(d)' => ~Rebuilding(d) \/ (d = c /\ c \in Projections)
  BY <1>2 DEF Rebuilding
<1>6. c \in Projections => rows[c] = << >> /\ Position(c) = 0
  BY <1>2
<1>7. phase # "save" /\ phase' # "save" /\ phase # "stopped"
  BY <1>1 DEF Rebuild
<1>8. TypeOK'
  BY <1>1 DEF IInv, TypeOK, Phases
<1>9. RowsInv'
  <2>1. ASSUME NEW d \in Names, ~Rebuilding(d)' PROVE Kept(d)'
    <3>1. CASE ~Rebuilding(d)
      <4>1. Kept(d)
        BY <3>1 DEF IInv, RowsInv
      <4> QED
        BY <1>4, <1>7, <4>1 DEF Kept, Saving, Once, Did
    <3>2. CASE d = c /\ c \in Projections
      <4>1. rows'[d] = << >> /\ Position(d)' = 0
        BY <1>4, <1>6, <3>2
      <4>2. Len(<< >>) = 0
        OBVIOUS
      <4> QED
        BY <1>7, <4>1, <4>2 DEF Kept, Saving, Once, Did
    <3> QED
      BY <1>5, <2>1, <3>1, <3>2
  <2> QED
    BY <2>1 DEF IInv, RowsInv
<1>10. ExactInv'
  <2>1. Len(<< >>) = 0
    OBVIOUS
  <2> QED
    BY <1>4, <1>5, <1>6, <1>7, <2>1 DEF IInv, ExactInv, Saving
<1>11. StatusInv'
  <2>1. ASSUME NEW d \in Names \ Range(todo), ~Rebuilding(d)' PROVE Shown(d)'
    <3>1. Shown(d) /\ ~Rebuilding(d)
      BY <1>3, <1>5, <1>7, <2>1 DEF IInv, StatusInv
    <3> QED
      BY <1>1, <1>4, <3>1 DEF Shown, Did
  <2>2. \A d \in Names \ Range(todo) : Shown(d)'
    BY <2>1 DEF Shown
  <2> QED
    BY <1>1, <2>2 DEF StatusInv
<1> QED
  BY <1>1, <1>8, <1>9, <1>10, <1>11 DEF IInv

LEMMA DropRequestKeeps == ASSUME IInv, DropRequest PROVE IInv'
<1>1. /\ phase \in Rebuild /\ Head(rebuilding) \notin Projections /\ NextRebuild
      /\ UNCHANGED <<log, checkpoint, own, rows>>
      /\ requests' \in {requests, requests \ {Head(rebuilding)}}
      /\ spent' = spent \/ Fault
  BY DEF DropRequest, Rebuild
<1>2. spent' \in Budget /\ (spent' = spent \/ spent'.faults # 0)
  BY <1>1, SpendParts DEF IInv, TypeOK
<1> QED
  BY <1>1, <1>2, TakenOff

LEMMA TakeOffKeeps == ASSUME IInv, TakeOff PROVE IInv'
<1>1. /\ phase = "takeoff" /\ NextRebuild /\ UNCHANGED <<log, checkpoint, own, rows>>
      /\ requests' \in {requests, requests \ {Head(rebuilding)}}
      /\ spent' = spent \/ Fault
  BY DEF TakeOff
<1>2. spent' \in Budget /\ (spent' = spent \/ spent'.faults # 0)
  BY <1>1, SpendParts DEF IInv, TypeOK
<1>3. rows[Head(rebuilding)] = << >> /\ Position(Head(rebuilding)) = 0
  BY <1>1 DEF IInv, RebuildInv
<1> QED
  BY <1>1, <1>2, <1>3, TakenOff DEF Rebuild

-----------------------------------------------------------------------------
(* A consumer's turn.                                                      *)

LEMMA NoRebuild ==
  ASSUME IInv, phase \notin Rebuild
  PROVE  rebuilding = << >> /\ Range(rebuilding) = {} /\ IsInjective(rebuilding)
BY RangeEmpty DEF IInv, LoopInv

\* What the end of a turn leaves of the loop.
LEMMA EndTurnLoop ==
  ASSUME IInv, phase \notin Rebuild, todo # << >>, EndTurn,
         UNCHANGED <<checkpoint, registered>>
  PROVE  /\ LoopInv' /\ RebuildInv' /\ phase' = "load"
         /\ rebuilding' \in Seq(Names) /\ todo' \in Seq(Names)
         /\ pos' \in Nat /\ batch' \in Seq(Nat) /\ blocked' \in BOOLEAN
         /\ Range(todo) = {Head(todo)} \cup Range(todo')
<1>1. rebuilding' = << >> /\ IsInjective(rebuilding') /\ Range(rebuilding') = {}
  BY NoRebuild DEF EndTurn
<1>2. phase' = "load" /\ todo' = Tail(todo) /\ pos' = 0 /\ batch' = << >>
      /\ blocked' = FALSE
  BY DEF EndTurn
<1>3. LoopInv'
  BY <1>1, <1>2 DEF LoopInv, Rebuild
<1>4. RebuildInv'
  BY <1>2 DEF IInv, RebuildInv
<1>5. << >> \in Seq(Names) /\ << >> \in Seq(Nat)
  OBVIOUS
<1>6. todo' \in Seq(Names) /\ Range(todo) = {Head(todo)} \cup Range(todo')
  BY <1>2, TodoParts DEF IInv
<1> QED
  BY <1>1, <1>2, <1>3, <1>4, <1>5, <1>6

\* The turn ends on a failure, with what is on disk as it was.
LEMMA FailedTurnKeeps ==
  ASSUME IInv, phase \notin Rebuild, phase # "stopped", todo # << >>, EndTurn,
         Fault, Recorded(Head(todo), pos, TRUE, TRUE), UNCHANGED durable,
         UNCHANGED <<registered, stopping>>
  PROVE  IInv'
<1>1. UNCHANGED <<log, checkpoint, own, rows, requests>>
  BY DEF durable
<1>2. spent' \in Budget /\ spent'.faults # 0
  BY SpendParts DEF IInv
<1>3. /\ LoopInv' /\ RebuildInv' /\ phase' = "load"
      /\ rebuilding' \in Seq(Names) /\ todo' \in Seq(Names)
      /\ pos' \in Nat /\ batch' \in Seq(Nat) /\ blocked' \in BOOLEAN
      /\ Range(todo) = {Head(todo)} \cup Range(todo')
  BY <1>1, EndTurnLoop
<1>4. Head(todo) \in Names /\ pos \in Nat
  BY TodoParts DEF IInv, TypeOK
<1>5. /\ progress' \in [Names -> Progress \cup {None}]
      /\ progress'[Head(todo)].pending = TRUE
      /\ \A d \in Names : d # Head(todo) => progress'[d] = progress[d]
  BY <1>4, RecordedParts DEF IInv
<1>6. TypeOK'
  BY <1>1, <1>2, <1>3, <1>5 DEF IInv, TypeOK, Phases
<1>7. RowsInv' /\ ExactInv'
  BY <1>2, <1>3, QuietRows, QuietExact
<1>8. StatusInv'
  BY <1>3, <1>5, QuietStatus
<1> QED
  BY <1>3, <1>6, <1>7, <1>8 DEF IInv

LEMMA ReadFailsKeeps == ASSUME IInv, ReadFails PROVE IInv'
<1>1. phase \notin Rebuild /\ phase # "stopped"
  BY DEF ReadFails, Rebuild
<1> QED
  BY <1>1, FailedTurnKeeps DEF ReadFails, Current

LEMMA SaveFailsKeeps == ASSUME IInv, SaveFails PROVE IInv'
<1>1. phase = "save" /\ phase \notin Rebuild /\ phase # "stopped" /\ todo # << >>
  BY DEF SaveFails, Rebuild, IInv, LoopInv
<1> QED
  BY <1>1, FailedTurnKeeps DEF SaveFails, Current

LEMMA EndPassKeeps == ASSUME IInv, EndPass PROVE IInv'
<1>1. /\ phase = "load" /\ phase' \in {"idle", "stopped"} /\ todo' = << >>
      /\ todo = << >> \/ phase' = "stopped"
      /\ UNCHANGED durable
      /\ UNCHANGED <<registered, progress, rebuilding, pos, batch, blocked,
                     stopping, spent>>
  BY DEF EndPass
<1>2. UNCHANGED <<log, checkpoint, own, rows, requests>>
  BY <1>1 DEF durable
<1>3. rebuilding' = << >> /\ IsInjective(rebuilding') /\ Range(rebuilding') = {}
  BY <1>1, NoRebuild DEF Rebuild
<1>4. TypeOK'
  <2>1. todo' \in Seq(Names)
    BY <1>1
  <2> QED
    BY <1>1, <1>2, <2>1 DEF IInv, TypeOK, Phases
<1>5. LoopInv'
  BY <1>1, <1>3 DEF LoopInv, Rebuild
<1>6. RebuildInv'
  BY <1>1, <1>2 DEF IInv, RebuildInv
<1>7. RowsInv' /\ ExactInv'
  BY <1>1, QuietRows, QuietExact
<1>8. StatusInv'
  <2>1. CASE phase' = "stopped"
    BY <2>1 DEF StatusInv
  <2>2. CASE todo = << >>
    BY <1>1, <2>2, RangeEmpty, QuietStatus
  <2> QED
    BY <1>1, <2>1, <2>2
<1> QED
  BY <1>4, <1>5, <1>6, <1>7, <1>8 DEF IInv

LEMMA StopIdleKeeps == ASSUME IInv, StopIdle PROVE IInv'
<1>1. /\ phase = "idle" /\ phase' = "stopped" /\ UNCHANGED durable
      /\ UNCHANGED <<registered, progress, rebuilding, todo, pos, batch, blocked,
                     stopping, spent>>
  BY DEF StopIdle, turn
<1>2. UNCHANGED <<log, checkpoint, own, rows, requests>>
  BY <1>1 DEF durable
<1>3. TypeOK'
  BY <1>1, <1>2 DEF IInv, TypeOK, Phases
<1>4. LoopInv'
  BY <1>1, <1>2 DEF IInv, LoopInv, Rebuild
<1>5. RebuildInv'
  BY <1>1, <1>2 DEF IInv, RebuildInv
<1>6. RowsInv' /\ ExactInv'
  BY <1>1, QuietRows, QuietExact
<1>7. StatusInv'
  BY <1>1 DEF StatusInv
<1> QED
  BY <1>3, <1>4, <1>5, <1>6, <1>7 DEF IInv

LEMMA LoadPositionKeeps == ASSUME IInv, LoadPosition PROVE IInv'
<1>1. /\ phase = "load" /\ phase' = "poll" /\ todo # << >>
      /\ pos' = Position(Head(todo)) /\ blocked' \in BOOLEAN
      /\ UNCHANGED durable
      /\ UNCHANGED <<registered, progress, rebuilding, todo, batch, stopping, spent>>
  <2>1. progress[Head(todo)] # None => progress[Head(todo)] \in Progress
    BY TodoParts DEF LoadPosition, IInv, TypeOK
  <2> QED
    BY <2>1 DEF LoadPosition, Current, Progress
<1>2. UNCHANGED <<log, checkpoint, own, rows, requests>>
  BY <1>1 DEF durable
<1>3. \A c : Position(c)' = Position(c)
  BY <1>2, SamePositions
<1>4. pos' \in Nat
  BY <1>1, TodoParts, PositionNat DEF IInv
<1>5. TypeOK'
  BY <1>1, <1>2, <1>4 DEF IInv, TypeOK, Phases
<1>6. LoopInv'
  BY <1>1, <1>2, <1>3 DEF IInv, LoopInv, Rebuild
<1>7. RebuildInv'
  BY <1>1, <1>2 DEF IInv, RebuildInv
<1>8. RowsInv' /\ ExactInv'
  BY <1>1, QuietRows, QuietExact
<1>9. StatusInv'
  BY <1>1, QuietStatus
<1> QED
  BY <1>5, <1>6, <1>7, <1>8, <1>9 DEF IInv

\* A consumer with nothing after its position has done every event up to it.
LEMMA CaughtUpDid ==
  ASSUME IInv, NEW c \in Names, ~Rebuilding(c), Position(c) >= Len(log)
  PROVE  Did(rows[c], Position(c))
<1>1. rows[c] \in Seq(Deeds) /\ Position(c) \in Nat /\ Len(log) \in Nat
  BY PositionNat DEF IInv, TypeOK
<1>2. PICK p \in Nat : p = Position(c)
  BY <1>1
<1>3. Kept(c) /\ \A i \in 1 .. Len(rows[c]) : rows[c][i].at <= Len(log)
  BY DEF IInv, RowsInv
<1>4. CASE c \in Committers
  BY <1>1, <1>2, <1>3, <1>4, OnceIsDid DEF Kept
<1>5. CASE c \notin Committers
  <2>1. Did(rows[c], p) \/ Did(rows[c], p + 1)
    BY <1>2, <1>3, <1>5 DEF Kept
  <2>2. ASSUME Did(rows[c], p + 1) PROVE FALSE
    <3>1. \E i \in 1 .. Len(rows[c]) : rows[c][i].at = p + 1
      BY <1>1, <2>2, DidLast
    <3> QED
      BY <1>1, <1>2, <1>3, <3>1
  <2> QED
    BY <1>2, <2>1, <2>2
<1> QED
  BY <1>4, <1>5

LEMMA CaughtUpKeeps == ASSUME IInv, CaughtUp PROVE IInv'
<1>1. /\ phase = "poll" /\ todo # << >> /\ EndTurn /\ UNCHANGED durable
      /\ pos = Position(Head(todo)) /\ pos >= Len(log) /\ pos \in Nat
      /\ Recorded(Head(todo), pos, FALSE, FALSE)
      /\ UNCHANGED <<registered, stopping, spent>>
  BY DEF CaughtUp, Current, IInv, LoopInv, TypeOK
<1>2. UNCHANGED <<log, checkpoint, own, rows, requests>>
  BY <1>1 DEF durable
<1>3. /\ LoopInv' /\ RebuildInv' /\ phase' = "load"
      /\ rebuilding' \in Seq(Names) /\ todo' \in Seq(Names)
      /\ pos' \in Nat /\ batch' \in Seq(Nat) /\ blocked' \in BOOLEAN
      /\ Range(todo) = {Head(todo)} \cup Range(todo')
  BY <1>1, <1>2, EndTurnLoop DEF Rebuild
<1>4. Head(todo) \in Names
  BY <1>1, TodoParts DEF IInv
<1>5. /\ progress' \in [Names -> Progress \cup {None}]
      /\ progress'[Head(todo)].pos = pos
      /\ \A d \in Names : d # Head(todo) => progress'[d] = progress[d]
  BY <1>1, <1>4, RecordedParts DEF IInv
<1>6. ~Rebuilding(Head(todo)) => Did(rows[Head(todo)], Position(Head(todo)))
  BY <1>1, <1>4, CaughtUpDid
<1>7. TypeOK'
  BY <1>1, <1>2, <1>3, <1>5 DEF IInv, TypeOK, Phases
<1>8. RowsInv' /\ ExactInv'
  BY <1>1, <1>3, QuietRows, QuietExact
<1>9. StatusInv'
  BY <1>1, <1>3, <1>5, <1>6, QuietStatus
<1> QED
  BY <1>3, <1>7, <1>8, <1>9 DEF IInv

\* The smaller of two numbers.
LEMMA MinOfTwo ==
  ASSUME NEW a \in Nat \ {0}, NEW b \in Nat \ {0}
  PROVE  Min({a, b}) \in Nat \ {0} /\ Min({a, b}) <= b
<1>1. \E x \in {a, b} : \A y \in {a, b} : x <= y
  <2>1. CASE a <= b
    BY <2>1
  <2>2. CASE b <= a
    BY <2>2
  <2> QED
    BY <2>1, <2>2
<1>2. Min({a, b}) \in {a, b} /\ \A y \in {a, b} : Min({a, b}) <= y
  BY <1>1 DEF Min
<1> QED
  BY <1>2

LEMMA PollKeeps == ASSUME IInv, Poll PROVE IInv'
<1> DEFINE m == Min({Limit, Len(log) - pos})
<1>1. /\ phase = "poll" /\ phase' = "deliver" /\ todo # << >>
      /\ pos = Position(Head(todo)) /\ pos < Len(log) /\ pos \in Nat
      /\ batch' = [i \in 1 .. m |-> pos + i] /\ UNCHANGED durable
      /\ Recorded(Head(todo), pos, TRUE, blocked) /\ blocked \in BOOLEAN
      /\ UNCHANGED <<registered, rebuilding, todo, pos, blocked, stopping, spent>>
  BY DEF Poll, Current, IInv, LoopInv, TypeOK
<1>2. UNCHANGED <<log, checkpoint, own, rows, requests>>
  BY <1>1 DEF durable
<1>3. \A c : Position(c)' = Position(c)
  BY <1>2, SamePositions
<1>4. Head(todo) \in Names /\ Len(log) \in Nat
  BY <1>1, TodoParts DEF IInv, TypeOK
<1>5. /\ progress' \in [Names -> Progress \cup {None}]
      /\ progress'[Head(todo)].pending = TRUE
      /\ \A d \in Names : d # Head(todo) => progress'[d] = progress[d]
  BY <1>1, <1>4, RecordedParts DEF IInv
<1>6. m \in Nat \ {0} /\ m <= Len(log) - pos
  <2>1. Len(log) - pos \in Nat \ {0}
    BY <1>1, <1>4
  <2> QED
    BY <2>1, BoundsAssumption, MinOfTwo
<1> HIDE DEF m
<1>7. /\ batch' \in Seq(Nat) /\ batch' # << >> /\ Len(batch') = m
      /\ \A i \in 1 .. m : batch'[i] = pos + i /\ batch'[i] <= Len(log)
  <2>1. \A i \in 1 .. m : pos + i \in Nat /\ pos + i <= Len(log)
    BY <1>1, <1>4, <1>6
  <2>2. batch' \in [1 .. m -> Nat]
    BY <1>1, <2>1
  <2>3. batch' \in Seq(Nat) /\ Len(batch') = m
    BY <1>6, <2>2
  <2>4. batch' # << >>
    BY <1>6, <2>3
  <2> QED
    BY <1>1, <2>1, <2>3, <2>4
<1>8. TypeOK'
  BY <1>1, <1>2, <1>5, <1>7 DEF IInv, TypeOK, Phases
<1>9. LoopInv'
  BY <1>1, <1>2, <1>3, <1>5, <1>7 DEF IInv, LoopInv, Rebuild
<1>10. RebuildInv'
  BY <1>1, <1>2 DEF IInv, RebuildInv
<1>11. RowsInv' /\ ExactInv'
  BY <1>1, QuietRows, QuietExact
<1>12. StatusInv'
  <2>1. Head(todo) \in Range(todo)
    BY <1>1, TodoParts DEF IInv
  <2> QED
    BY <1>1, <1>5, <2>1, QuietStatus
<1> QED
  BY <1>8, <1>9, <1>10, <1>11, <1>12 DEF IInv

-----------------------------------------------------------------------------
(* Deliveries.                                                             *)

\* What the loop is after an event, with the consumer's position moved to it.
LEMMA AfterEventLoop ==
  ASSUME IInv, phase \in {"deliver", "save"}, AfterEvent,
         NEW c, c = Head(todo), Position(c)' = Head(batch),
         \A d \in Committers : checkpoint'[d] = checkpoint[d],
         UNCHANGED <<log, requests>>
  PROVE  /\ LoopInv' /\ RebuildInv' /\ phase' \in {"load", "poll", "deliver"}
         /\ rebuilding' \in Seq(Names) /\ todo' \in Seq(Names)
         /\ pos' \in Nat /\ batch' \in Seq(Nat) /\ blocked' \in BOOLEAN
         /\ progress' \in [Names -> Progress \cup {None}]
         /\ \A d \in Names \ Range(todo') :
              \/ progress'[d] = progress[d] /\ d \notin Range(todo)
              \/ progress'[d] = None
              \/ progress'[d].pending
<1>1. PICK p, rest : p = Head(batch) /\ rest = Tail(batch)
  OBVIOUS
<1>2. /\ todo # << >> /\ c \in Names /\ p \in Nat /\ rest \in Seq(Nat)
      /\ \A i \in 1 .. Len(rest) : rest[i] = p + i /\ rest[i] <= Len(log)
  <2>1. /\ todo # << >> /\ Head(todo) \in Names /\ pos \in Nat
        /\ Head(batch) = pos + 1 /\ Tail(batch) \in Seq(Nat)
        /\ \A i \in 1 .. Len(Tail(batch)) :
             Tail(batch)[i] = Head(batch) + i /\ Tail(batch)[i] <= Len(log)
    BY BatchParts
  <2>2. p \in Nat
    BY <1>1, <2>1
  <2> QED
    BY <1>1, <2>1, <2>2
<1>3. /\ todo \in Seq(Names) /\ Tail(todo) \in Seq(Names) /\ c \in Range(todo)
      /\ Range(todo) = {c} \cup Range(Tail(todo))
      /\ progress \in [Names -> Progress \cup {None}]
      /\ progress[c] = None \/ progress[c].pending
  BY <1>1, <1>2, TodoParts DEF IInv, TypeOK, LoopInv
<1>4. rebuilding = << >> /\ Range(rebuilding) = {} /\ IsInjective(rebuilding)
      /\ rebuilding' = rebuilding
  BY NoRebuild DEF Rebuild, AfterEvent
<1>5. << >> \in Seq(Names) /\ << >> \in Seq(Nat)
  OBVIOUS
<1>6. pos' = p /\ blocked' = FALSE
  BY <1>1 DEF AfterEvent
<1>7. RebuildInv' \/ phase' \in Rebuild
  BY DEF IInv, RebuildInv, Rebuild
<1>8. CASE batch' = << >> /\ todo' = Tail(todo) /\ phase' = "load"
           /\ progress' = progress
  <2>1. LoopInv'
    BY <1>4, <1>8 DEF LoopInv, Rebuild
  <2>2. \A d \in Names \ Range(todo') :
          (progress'[d] = progress[d] /\ d \notin Range(todo))
            \/ progress'[d] = None \/ progress'[d].pending
    BY <1>3, <1>8
  <2>3. RebuildInv'
    BY <1>7, <1>8 DEF Rebuild
  <2>4. pos' \in Nat /\ batch' \in Seq(Nat) /\ blocked' \in BOOLEAN
        /\ rebuilding' \in Seq(Names) /\ todo' \in Seq(Names)
    BY <1>2, <1>3, <1>4, <1>5, <1>6, <1>8
  <2> QED
    BY <1>3, <1>8, <2>1, <2>2, <2>3, <2>4
<1>9. CASE batch' = rest /\ phase' = "poll" /\ todo' = todo /\ progress' = progress
  <2>1. LoopInv'
    BY <1>1, <1>2, <1>4, <1>6, <1>9 DEF LoopInv, Rebuild
  <2> QED
    BY <1>2, <1>3, <1>4, <1>5, <1>6, <1>7, <1>9, <2>1 DEF Rebuild
<1>10. CASE rest # << >> /\ batch' = rest /\ phase' = "deliver" /\ todo' = todo
            /\ Recorded(c, p, TRUE, FALSE)
  <2>1. /\ progress' \in [Names -> Progress \cup {None}]
        /\ progress'[c].pending = TRUE
        /\ \A d \in Names : d # c => progress'[d] = progress[d]
    BY <1>2, <1>10, RecordedParts DEF IInv
  <2>2. LoopInv'
    BY <1>1, <1>2, <1>4, <1>6, <1>10, <2>1 DEF LoopInv, Rebuild
  <2> QED
    BY <1>2, <1>3, <1>4, <1>5, <1>6, <1>7, <1>10, <2>1, <2>2 DEF Rebuild
<1> QED
  BY <1>1, <1>8, <1>9, <1>10 DEF AfterEvent, Current

\* One more deed, of the event being delivered.
LEMMA DeedDone ==
  ASSUME IInv, phase = "deliver", NEW c, c = Head(todo),
         NEW p, p = Head(batch),
         rows' = [rows EXCEPT ![c] = Append(rows[c], Deed(c, p))],
         log' = log
  PROVE  /\ rows' \in [Names -> Seq(Deeds)]
         /\ rows'[c] = Append(rows[c], Deed(c, p))
         /\ Len(rows'[c]) = Len(rows[c]) + 1
         /\ \A d \in Names : d # c => rows'[d] = rows[d]
         /\ \A d \in Names : \A i \in 1 .. Len(rows'[d]) :
              rows'[d][i].at <= Len(log)
<1>1. c \in Names /\ p \in Nat \ {0} /\ p <= Len(log)
      /\ rows \in [Names -> Seq(Deeds)]
  <2>1. c \in Names /\ pos \in Nat /\ p = pos + 1 /\ p <= Len(log)
    BY BatchParts
  <2>2. rows \in [Names -> Seq(Deeds)]
    BY DEF IInv, TypeOK
  <2> QED
    BY <2>1, <2>2
<1>2. PICK d : d = Deed(c, p)
  OBVIOUS
<1>3. d \in Deeds /\ d.at = p
  BY <1>1, <1>2, DeedParts
<1>4. PICK s : s = rows[c]
  OBVIOUS
<1>5. PICK t : t = Append(s, d)
  OBVIOUS
<1>6. /\ s \in Seq(Deeds) /\ t \in Seq(Deeds) /\ Len(t) = Len(s) + 1
      /\ Len(s) \in Nat
      /\ t[Len(s) + 1] = d /\ \A i \in 1 .. Len(s) : t[i] = s[i]
  BY <1>1, <1>3, <1>4, <1>5
<1>7. rows' \in [Names -> Seq(Deeds)] /\ rows'[c] = t
      /\ \A e \in Names : e # c => rows'[e] = rows[e]
  BY <1>1, <1>2, <1>4, <1>5, <1>6
<1>8. ASSUME NEW i \in 1 .. Len(t) PROVE i = Len(s) + 1 \/ i \in 1 .. Len(s)
  BY <1>6
<1>9. ASSUME NEW e \in Names, NEW i \in 1 .. Len(rows'[e])
      PROVE  rows'[e][i].at <= Len(log)
  <2>1. \A f \in Names : \A j \in 1 .. Len(rows[f]) : rows[f][j].at <= Len(log)
    BY DEF IInv, RowsInv
  <2>2. CASE e # c
    BY <1>7, <1>9, <2>1, <2>2
  <2>3. CASE e = c
    BY <1>1, <1>3, <1>4, <1>6, <1>7, <1>8, <1>9, <2>1, <2>3
  <2> QED
    BY <2>2, <2>3
<1> QED
  BY <1>2, <1>4, <1>5, <1>6, <1>7, <1>9

\* Only the consumer in its turn has its rows or its position changed.
LEMMA OthersKeep ==
  ASSUME IInv, NEW c, c = Head(todo), phase \in {"deliver", "save"},
         phase' = "save" => Head(todo') = c, requests' = requests,
         NEW d \in Names, d # c, rows'[d] = rows[d], Position(d)' = Position(d)
  PROVE  /\ ~Rebuilding(d)' => Kept(d)'
         /\ ~Saving(d) /\ ~Saving(d)'
         /\ Rebuilding(d)' <=> Rebuilding(d)
         /\ d \notin Range(todo) /\ progress'[d] = progress[d] => Shown(d)'
<1>1. Rebuilding(d)' <=> Rebuilding(d)
  BY DEF Rebuilding
<1>2. ~Saving(d) /\ ~Saving(d)'
  BY DEF Saving
<1>3. ~Rebuilding(d) => Kept(d)
  BY DEF IInv, RowsInv
<1>4. ~Rebuilding(d)' => Kept(d)'
  BY <1>1, <1>2, <1>3 DEF Kept, Once, Did
<1>5. d \notin Range(todo) => Shown(d)
  BY DEF IInv, StatusInv
<1>6. d \notin Range(todo) /\ progress'[d] = progress[d] => Shown(d)'
  BY <1>1, <1>5 DEF Shown, Did
<1> QED
  BY <1>1, <1>2, <1>4, <1>6

LEMMA TurnKeeps ==
  ASSUME IInv, NEW c, c = Head(todo), phase \in {"deliver", "save"},
         phase' = "save" => Head(todo') = c, UNCHANGED requests,
         \A d \in Names : d # c => rows'[d] = rows[d] /\ Position(d)' = Position(d),
         \A d \in Names : \A i \in 1 .. Len(rows'[d]) :
           rows'[d][i].at <= Len(log)',
         ~Rebuilding(c) => Kept(c)',
         spent'.faults = 0 =>
           /\ spent.faults = 0
           /\ ~Rebuilding(c) =>
                Len(rows'[c]) = IF Saving(c)' THEN Position(c)' + 1
                                ELSE Position(c)',
         \A d \in Names \ Range(todo') :
           \/ progress'[d] = progress[d] /\ d \notin Range(todo)
           \/ progress'[d] = None
           \/ progress'[d].pending
  PROVE  RowsInv' /\ ExactInv' /\ StatusInv'
<1>1. c \in Range(todo)
  BY BatchParts, TodoParts DEF IInv
<1>2. \A d : Rebuilding(d)' <=> Rebuilding(d)
  BY DEF Rebuilding
<1>3. ASSUME NEW d \in Names, d # c
      PROVE  /\ ~Rebuilding(d)' => Kept(d)'
             /\ ~Saving(d) /\ ~Saving(d)'
             /\ d \notin Range(todo) /\ progress'[d] = progress[d] => Shown(d)'
  BY <1>3, OthersKeep
<1>4. RowsInv'
  <2>1. \A d \in Names : ~Rebuilding(d)' => Kept(d)'
    BY <1>2, <1>3
  <2> QED
    BY <2>1 DEF RowsInv
<1>5. ExactInv'
  <2>1. ASSUME spent'.faults = 0, NEW d \in Names, ~Rebuilding(d)', d # c
        PROVE  Len(rows'[d]) = IF Saving(d)' THEN Position(d)' + 1
                               ELSE Position(d)'
    <3>1. Len(rows[d]) = Position(d)
      BY <1>2, <1>3, <2>1 DEF IInv, ExactInv
    <3> QED
      BY <1>3, <2>1, <3>1
  <2> QED
    BY <1>2, <2>1 DEF ExactInv
<1>6. StatusInv'
  <2>1. ASSUME NEW d \in Names \ Range(todo') PROVE Shown(d)'
    <3>1. CASE progress'[d] = progress[d] /\ d \notin Range(todo)
      BY <1>1, <1>3, <2>1, <3>1
    <3>2. CASE progress'[d] = None \/ progress'[d].pending
      BY <3>2 DEF Shown
    <3> QED
      BY <2>1, <3>1, <3>2
  <2> QED
    BY <2>1 DEF StatusInv
<1> QED
  BY <1>4, <1>5, <1>6

LEMMA CommitKeeps == ASSUME IInv, Commit PROVE IInv'
<1>1. PICK c, p : c = Head(todo) /\ p = Head(batch)
  OBVIOUS
<1>2. /\ phase = "deliver" /\ c \in Committers
      /\ rows' = [rows EXCEPT ![c] = Append(rows[c], Deed(c, p))]
      /\ own' = [own EXCEPT ![c] = p] /\ AfterEvent
      /\ UNCHANGED <<log, checkpoint, requests, registered, stopping, spent>>
  BY <1>1 DEF Commit, Current
<1>3. c \in Names /\ pos \in Nat /\ pos = Position(c) /\ p = pos + 1 /\ p \in Nat
  <2>1. c \in Names /\ pos \in Nat /\ pos = Position(c) /\ p = pos + 1
    BY <1>1, <1>2, BatchParts
  <2> QED
    BY <2>1
<1>4. Save(c, p)
  BY <1>2 DEF Save
<1>5. /\ checkpoint' \in [Names -> Nat] /\ own' \in [Committers -> Nat \cup {None}]
      /\ Position(c)' = p
      /\ \A d \in Names : d # c => Position(d)' = Position(d)
      /\ \A d \in Committers : checkpoint'[d] = checkpoint[d]
  BY <1>3, <1>4, SaveParts DEF IInv
<1>6. /\ rows' \in [Names -> Seq(Deeds)]
      /\ rows'[c] = Append(rows[c], Deed(c, p))
      /\ \A d \in Names : d # c => rows'[d] = rows[d]
      /\ \A d \in Names : \A i \in 1 .. Len(rows'[d]) :
           rows'[d][i].at <= Len(log)
  BY <1>1, <1>2, DeedDone
<1>7. /\ LoopInv' /\ RebuildInv' /\ phase' \in {"load", "poll", "deliver"}
      /\ rebuilding' \in Seq(Names) /\ todo' \in Seq(Names)
      /\ pos' \in Nat /\ batch' \in Seq(Nat) /\ blocked' \in BOOLEAN
      /\ progress' \in [Names -> Progress \cup {None}]
      /\ \A d \in Names \ Range(todo') :
           \/ progress'[d] = progress[d] /\ d \notin Range(todo)
           \/ progress'[d] = None
           \/ progress'[d].pending
  BY <1>1, <1>2, <1>5, AfterEventLoop
<1>8. rows[c] \in Seq(Deeds) /\ Deed(c, p) \in Deeds /\ Deed(c, p).at = pos + 1
  BY <1>3, DeedParts DEF IInv, TypeOK
<1>9. ~Rebuilding(c) => Once(rows[c], pos)
  BY <1>2, <1>3 DEF IInv, RowsInv, Kept
<1>10. ~Rebuilding(c) => Once(rows'[c], p)
  BY <1>3, <1>6, <1>8, <1>9, OnceAppend
<1>11. ~Rebuilding(c) => Kept(c)' /\ Len(rows'[c]) = Position(c)'
  BY <1>2, <1>5, <1>10 DEF Kept, Once
<1>12. ~Saving(c)' /\ phase' # "save"
  BY <1>7 DEF Saving
<1>13. RowsInv' /\ ExactInv' /\ StatusInv'
  <2>1. spent'.faults = 0 =>
          spent.faults = 0 /\ (~Rebuilding(c) => Len(rows'[c]) = Position(c)')
    BY <1>2, <1>11
  <2>2. \A d \in Names : \A i \in 1 .. Len(rows'[d]) : rows'[d][i].at <= Len(log)'
    BY <1>2, <1>6
  <2>3. /\ \A d \in Names : d # c => rows'[d] = rows[d] /\ Position(d)' = Position(d)
        /\ UNCHANGED requests /\ phase \in {"deliver", "save"}
    BY <1>2, <1>5, <1>6
  <2> QED
    BY <1>1, <1>7, <1>11, <1>12, <2>1, <2>2, <2>3, TurnKeeps
<1>14. TypeOK'
  BY <1>2, <1>5, <1>6, <1>7 DEF IInv, TypeOK, Phases
<1> QED
  BY <1>6, <1>7, <1>13, <1>14 DEF IInv

LEMMA SaveCheckpointKeeps == ASSUME IInv, SaveCheckpoint PROVE IInv'
<1>1. PICK c, p : c = Head(todo) /\ p = Head(batch)
  OBVIOUS
<1>2. /\ phase = "save" /\ Save(c, p) /\ AfterEvent
      /\ UNCHANGED <<log, rows, requests, registered, stopping, spent>>
  BY <1>1 DEF SaveCheckpoint, Current
<1>3. c \in Names /\ pos \in Nat /\ pos = Position(c) /\ p = pos + 1 /\ p \in Nat
  <2>1. c \in Names /\ pos \in Nat /\ pos = Position(c) /\ p = pos + 1
    BY <1>1, <1>2, BatchParts
  <2> QED
    BY <2>1
<1>4. /\ checkpoint' \in [Names -> Nat] /\ own' \in [Committers -> Nat \cup {None}]
      /\ Position(c)' = p
      /\ \A d \in Names : d # c => Position(d)' = Position(d)
      /\ \A d \in Committers : checkpoint'[d] = checkpoint[d]
  BY <1>2, <1>3, SaveParts DEF IInv
<1>5. /\ LoopInv' /\ RebuildInv' /\ phase' \in {"load", "poll", "deliver"}
      /\ rebuilding' \in Seq(Names) /\ todo' \in Seq(Names)
      /\ pos' \in Nat /\ batch' \in Seq(Nat) /\ blocked' \in BOOLEAN
      /\ progress' \in [Names -> Progress \cup {None}]
      /\ \A d \in Names \ Range(todo') :
           \/ progress'[d] = progress[d] /\ d \notin Range(todo)
           \/ progress'[d] = None
           \/ progress'[d].pending
  BY <1>1, <1>2, <1>4, AfterEventLoop
<1>6. c \notin Committers /\ Saving(c)
  BY <1>1, <1>2 DEF IInv, LoopInv, Saving
<1>7. ~Saving(c)' /\ phase' # "save"
  BY <1>5 DEF Saving
<1>8. ~Rebuilding(c) => Did(rows[c], p)
  BY <1>3, <1>6 DEF IInv, RowsInv, Kept
<1>9. ~Rebuilding(c) => Kept(c)'
  BY <1>2, <1>4, <1>6, <1>7, <1>8 DEF Kept, Did
<1>10. spent'.faults = 0 =>
         spent.faults = 0 /\ (~Rebuilding(c) => Len(rows'[c]) = Position(c)')
  BY <1>2, <1>3, <1>4, <1>6 DEF IInv, ExactInv
<1>11. \A d \in Names : \A i \in 1 .. Len(rows'[d]) : rows'[d][i].at <= Len(log)'
  BY <1>2 DEF IInv, RowsInv
<1>12. RowsInv' /\ ExactInv' /\ StatusInv'
  BY <1>1, <1>2, <1>4, <1>5, <1>7, <1>9, <1>10, <1>11, TurnKeeps
<1>13. TypeOK'
  BY <1>2, <1>4, <1>5 DEF IInv, TypeOK, Phases
<1> QED
  BY <1>5, <1>12, <1>13 DEF IInv

\* The rows of a consumer that saves its position apart, once it has applied
\* the event in flight again or for the first time.
LEMMA AppliedOnceMore ==
  ASSUME IInv, NEW c, c = Head(todo), NEW p, p = Head(batch),
         phase = "deliver", c \notin Committers, ~Rebuilding(c)
  PROVE  Did(Append(rows[c], Deed(c, p)), Position(c) + 1)
<1>1. c \in Names /\ pos \in Nat /\ pos = Position(c) /\ p = pos + 1
  BY BatchParts
<1>2. rows[c] \in Seq(Deeds) /\ Deed(c, p) \in Deeds /\ Deed(c, p).at = pos + 1
  BY <1>1, DeedParts DEF IInv, TypeOK
<1>3. Did(rows[c], pos) \/ Did(rows[c], pos + 1)
  BY <1>1 DEF IInv, RowsInv, Kept
<1> QED
  BY <1>1, <1>2, <1>3, DidAppend

LEMMA ApplyKeeps == ASSUME IInv, Apply PROVE IInv'
<1>1. PICK c, p : c = Head(todo) /\ p = Head(batch)
  OBVIOUS
<1>2. /\ phase = "deliver" /\ c \notin Committers /\ phase' = "save"
      /\ rows' = [rows EXCEPT ![c] = Append(rows[c], Deed(c, p))]
      /\ UNCHANGED <<log, checkpoint, own, requests, registered, progress,
                     rebuilding, todo, pos, batch, blocked, stopping, spent>>
  BY <1>1 DEF Apply, Current, turn
<1>3. c \in Names /\ pos \in Nat /\ pos = Position(c) /\ todo # << >>
  BY <1>1, <1>2, BatchParts
<1>4. \A d : Position(d)' = Position(d)
  BY <1>2, SamePositions
<1>5. /\ rows' \in [Names -> Seq(Deeds)]
      /\ rows'[c] = Append(rows[c], Deed(c, p))
      /\ Len(rows'[c]) = Len(rows[c]) + 1
      /\ \A d \in Names : d # c => rows'[d] = rows[d]
      /\ \A d \in Names : \A i \in 1 .. Len(rows'[d]) :
           rows'[d][i].at <= Len(log)
  BY <1>1, <1>2, DeedDone
<1>6. Saving(c)' /\ ~Saving(c)
  BY <1>1, <1>2 DEF Saving
<1>7. ~Rebuilding(c) => Kept(c)'
  <2>1. ~Rebuilding(c) => Did(rows'[c], Position(c)' + 1)
    BY <1>1, <1>2, <1>4, <1>5, AppliedOnceMore
  <2> QED
    BY <1>2, <2>1 DEF Kept, Did
<1>8. spent'.faults = 0 =>
        spent.faults = 0 /\ (~Rebuilding(c) => Len(rows'[c]) = Position(c)' + 1)
  BY <1>2, <1>3, <1>4, <1>5, <1>6 DEF IInv, ExactInv
<1>9. \A d \in Names \ Range(todo') : progress'[d] = progress[d] /\ d \notin Range(todo)
  BY <1>2
<1>10. RowsInv' /\ ExactInv' /\ StatusInv'
  BY <1>1, <1>2, <1>4, <1>5, <1>6, <1>7, <1>8, <1>9, TurnKeeps
<1>11. TypeOK'
  BY <1>2, <1>5 DEF IInv, TypeOK, Phases
<1>12. LoopInv'
  BY <1>1, <1>2, <1>3, <1>4 DEF IInv, LoopInv, Rebuild
<1>13. RebuildInv'
  BY <1>2 DEF IInv, RebuildInv
<1> QED
  BY <1>5, <1>10, <1>11, <1>12, <1>13 DEF IInv

LEMMA DeliveryFailsKeeps == ASSUME IInv, DeliveryFails PROVE IInv'
<1>1. PICK c, p : c = Head(todo) /\ p = Head(batch)
  OBVIOUS
<1>2. /\ phase = "deliver" /\ EndTurn /\ Recorded(c, pos, TRUE, TRUE)
      /\ IF <<c, p>> \in Poison THEN UNCHANGED spent ELSE Fault
      /\ \/ UNCHANGED rows
         \/ /\ c \notin Committers /\ <<c, p>> \notin Poison
            /\ rows' = [rows EXCEPT ![c] = Append(rows[c], Deed(c, p))]
      /\ UNCHANGED <<log, checkpoint, own, requests, registered, stopping>>
  BY <1>1 DEF DeliveryFails, Current
<1>3. c \in Names /\ pos \in Nat /\ pos = Position(c) /\ todo # << >>
  BY <1>1, <1>2, BatchParts
<1>4. \A d : Position(d)' = Position(d)
  BY <1>2, SamePositions
<1>5. /\ LoopInv' /\ RebuildInv' /\ phase' = "load"
      /\ rebuilding' \in Seq(Names) /\ todo' \in Seq(Names)
      /\ pos' \in Nat /\ batch' \in Seq(Nat) /\ blocked' \in BOOLEAN
      /\ Range(todo) = {c} \cup Range(todo')
  BY <1>1, <1>2, <1>3, EndTurnLoop DEF Rebuild
<1>6. /\ progress' \in [Names -> Progress \cup {None}]
      /\ progress'[c].pending = TRUE
      /\ \A d \in Names : d # c => progress'[d] = progress[d]
  BY <1>2, <1>3, RecordedParts DEF IInv
<1>7. spent' \in Budget /\ (spent' = spent \/ spent'.faults # 0)
  BY <1>2, SpendParts DEF IInv, TypeOK
<1>8. ~Saving(c) /\ ~Saving(c)' /\ phase' # "save"
  BY <1>2, <1>5 DEF Saving
<1>9. \A d \in Names \ Range(todo') :
        (progress'[d] = progress[d] /\ d \notin Range(todo)) \/ progress'[d].pending
  BY <1>5, <1>6
<1>10. /\ rows' \in [Names -> Seq(Deeds)]
       /\ \A d \in Names : d # c => rows'[d] = rows[d]
       /\ \A d \in Names : \A i \in 1 .. Len(rows'[d]) :
            rows'[d][i].at <= Len(log)
  <2>1. CASE rows' = rows
    BY <1>2, <2>1 DEF IInv, TypeOK, RowsInv
  <2>2. CASE rows' = [rows EXCEPT ![c] = Append(rows[c], Deed(c, p))]
    BY <1>1, <1>2, <2>2, DeedDone
  <2> QED
    BY <1>2, <2>1, <2>2
<1>11. ~Rebuilding(c) => Kept(c)'
  <2>1. CASE rows' = rows
    <3>1. ~Rebuilding(c) => Kept(c)
      BY <1>3 DEF IInv, RowsInv
    <3> QED
      BY <1>4, <1>8, <2>1, <3>1 DEF Kept, Once, Did
  <2>2. CASE c \notin Committers
             /\ rows' = [rows EXCEPT ![c] = Append(rows[c], Deed(c, p))]
    <3>1. rows'[c] = Append(rows[c], Deed(c, p))
      BY <1>1, <1>2, <2>2, DeedDone
    <3>2. ~Rebuilding(c) => Did(rows'[c], Position(c)' + 1)
      BY <1>1, <1>2, <1>4, <2>2, <3>1, AppliedOnceMore
    <3> QED
      BY <2>2, <3>2 DEF Kept, Did
  <2> QED
    BY <1>2, <2>1, <2>2
<1>12. spent'.faults = 0 =>
         spent.faults = 0 /\ (~Rebuilding(c) => Len(rows'[c]) = Position(c)')
  <2> SUFFICES ASSUME spent'.faults = 0
               PROVE  spent.faults = 0 /\ (~Rebuilding(c) => Len(rows'[c]) = Position(c)')
    OBVIOUS
  <2>1. spent' = spent /\ <<c, p>> \in Poison
    BY <1>2, SpendParts, <1>7 DEF IInv
  <2>2. rows' = rows
    BY <1>2, <2>1
  <2> QED
    BY <1>3, <1>4, <1>8, <2>1, <2>2 DEF IInv, ExactInv
<1>13. RowsInv' /\ ExactInv' /\ StatusInv'
  BY <1>1, <1>2, <1>4, <1>8, <1>9, <1>10, <1>11, <1>12, TurnKeeps
<1>14. TypeOK'
  BY <1>2, <1>5, <1>6, <1>7, <1>10 DEF IInv, TypeOK, Phases
<1> QED
  BY <1>5, <1>10, <1>13, <1>14 DEF IInv

-----------------------------------------------------------------------------
(* Every step.                                                             *)

LEMMA StutterKeeps == ASSUME IInv, UNCHANGED vars PROVE IInv'
<1>1. UNCHANGED <<log, checkpoint, own, rows, requests, registered, progress,
                  phase, rebuilding, todo, pos, batch, blocked, stopping, spent>>
  BY DEF vars
<1>2. \A d : Position(d)' = Position(d)
  BY <1>1, SamePositions
<1>3. \A d : /\ Rebuilding(d)' <=> Rebuilding(d)
             /\ Saving(d)' <=> Saving(d)
  BY <1>1 DEF Rebuilding, Saving
<1>4. TypeOK'
  BY <1>1 DEF IInv, TypeOK
<1>5. LoopInv'
  BY <1>1, <1>2 DEF IInv, LoopInv
<1>6. RebuildInv'
  BY <1>1, <1>2 DEF IInv, RebuildInv
<1>7. RowsInv'
  <2>1. \A d : Kept(d) => Kept(d)'
    BY <1>1, <1>2, <1>3 DEF Kept, Once, Did
  <2> QED
    BY <1>1, <1>3, <2>1 DEF IInv, RowsInv
<1>8. ExactInv'
  BY <1>1, <1>2, <1>3 DEF IInv, ExactInv
<1>9. StatusInv'
  <2>1. \A d : Shown(d) => Shown(d)'
    BY <1>1, <1>2, <1>3 DEF Shown, Did
  <2> QED
    BY <1>1, <2>1 DEF IInv, StatusInv
<1> QED
  BY <1>4, <1>5, <1>6, <1>7, <1>8, <1>9 DEF IInv

LEMMA NextIInv == IInv /\ [Next]_vars => IInv'
<1> SUFFICES ASSUME IInv, [Next]_vars PROVE IInv'
  OBVIOUS
<1>1. CASE EngineStep
  <2>1. CASE StartPass \/ WipeRows \/ WipeFails \/ DropRequest
             \/ ResetCheckpoint \/ ResetFails \/ TakeOff
    BY <2>1, StartPassKeeps, WipeRowsKeeps, WipeFailsKeeps, DropRequestKeeps,
       ResetCheckpointKeeps, ResetFailsKeeps, TakeOffKeeps
  <2>2. CASE LoadPosition \/ ReadFails \/ Poll \/ CaughtUp \/ EndPass \/ StopIdle
    BY <2>2, LoadPositionKeeps, ReadFailsKeeps, PollKeeps, CaughtUpKeeps,
       EndPassKeeps, StopIdleKeeps
  <2>3. CASE Commit \/ Apply \/ DeliveryFails \/ SaveCheckpoint \/ SaveFails
    BY <2>3, CommitKeeps, ApplyKeeps, DeliveryFailsKeeps, SaveCheckpointKeeps,
       SaveFailsKeeps
  <2> QED
    BY <1>1, <2>1, <2>2, <2>3 DEF EngineStep
<1>2. CASE Environment
  <2>1. CASE \E origin \in {"native", "imported"} : NewEvent(origin)
    BY <2>1, NewEventKeeps
  <2>2. CASE \E c \in Names : Request(c) \/ Unregister(c) \/ Register(c)
    BY <2>2, RequestKeeps, UnregisterKeeps, RegisterKeeps
  <2>3. CASE Stop \/ Restart \/ Crash
    BY <2>3, StopKeeps, RestartKeeps, CrashKeeps
  <2> QED
    BY <1>2, <2>1, <2>2, <2>3 DEF Environment
<1>3. CASE UNCHANGED vars
  BY <1>3, StutterKeeps
<1> QED
  BY <1>1, <1>2, <1>3 DEF Next

LEMMA AlwaysIInv == Spec => []IInv
BY InitIInv, NextIInv, PTL DEF Spec

-----------------------------------------------------------------------------
(* The theorems.                                                           *)

\* Every state is one the engine can be in: each position is a number, and no
\* consumer is registered twice, whatever reloads, fails, stops or dies.
THEOREM TypeCorrect == Spec => []TypeOK
<1>1. IInv => TypeOK
  BY DEF IInv
<1> QED
  BY <1>1, AlwaysIInv, PTL

\* Whatever fails, dies or reloads, a consumer has handled every event up to its
\* position in the order of the log, and at most one it has not recorded.
THEOREM ConsumersHandleInOrder == Spec => []HandledInOrder
<1>1. IInv => HandledInOrder
  <2> SUFFICES ASSUME IInv, NEW c \in Names, ~Rebuilding(c)
               PROVE  \/ Did(rows[c], Position(c))
                      \/ c \notin Committers /\ Did(rows[c], Position(c) + 1)
    BY DEF HandledInOrder
  <2>1. Kept(c) /\ rows[c] \in Seq(Deeds) /\ Position(c) \in Nat
    BY PositionNat DEF IInv, RowsInv, TypeOK
  <2>2. CASE c \in Committers
    BY <2>1, <2>2, OnceIsDid DEF Kept
  <2>3. CASE c \notin Committers
    BY <2>1, <2>3 DEF Kept
  <2> QED
    BY <2>2, <2>3
<1> QED
  BY <1>1, AlwaysIInv, PTL

\* A consumer that commits its rows with its position applies every event up to
\* it exactly once, in order.
THEOREM CommittersApplyOnce == Spec => []CommittedOnce
<1>1. IInv => CommittedOnce
  BY NamesAssumption DEF IInv, RowsInv, Kept, CommittedOnce
<1> QED
  BY <1>1, AlwaysIInv, PTL

\* A graceful stop in a life without faults leaves every event done recorded.
THEOREM StopsCleanly == Spec => []StopIsClean
<1>1. IInv => StopIsClean
  BY DEF IInv, ExactInv, Saving, StopIsClean
<1> QED
  BY <1>1, AlwaysIInv, PTL

\* Between passes, what Status shows as caught up is.
THEOREM StatusIsHonest == Spec => []StatusHonest
<1>1. IInv => StatusHonest
  <2> SUFFICES ASSUME IInv, phase = "idle", NEW c \in Names PROVE Shown(c)
    BY DEF StatusHonest, Shown
  <2>1. c \in Names \ Range(todo)
    BY RangeEmpty DEF IInv, LoopInv
  <2> QED
    BY <2>1 DEF IInv, StatusInv
<1> QED
  BY <1>1, AlwaysIInv, PTL

=============================================================================
