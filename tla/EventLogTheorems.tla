-------------------------- MODULE EventLogTheorems --------------------------
(***************************************************************************)
(* Facts about the operators of EventLog that the proofs about the modules *)
(* owning a log rest on: what an append or an import does to each stream,  *)
(* to its length, its numbering and its history, which rows are one        *)
(* command's, and what a log followed by staged rows holds.                *)
(***************************************************************************)
EXTENDS EventLog, FiniteSetTheorems, FunctionTheorems, SequenceTheorems,
        TLAPS

\* A stream of a log is a finite set of positions, so its length is a number.
LEMMA StreamFinite ==
  ASSUME NEW l \in Seq(Events), NEW s
  PROVE  /\ StreamOf(l, s) \subseteq 1 .. Len(l)
         /\ IsFiniteSet(StreamOf(l, s))
         /\ Length(l, s) \in Nat
<1>1. StreamOf(l, s) \subseteq 1 .. Len(l)
  BY DEF StreamOf
<1>2. IsFiniteSet(1 .. Len(l))
  BY FS_Interval, LenProperties
<1>3. IsFiniteSet(StreamOf(l, s))
  BY <1>1, <1>2, FS_Subset
<1> QED
  BY <1>1, <1>3, FS_CardinalityType DEF Length

\* On a contiguously numbered stream MAX(sequence), which Append checks, is
\* the number of rows, which the decider counted.
LEMMA CurrentIsLength ==
  ASSUME NEW l \in Seq(Events), NEW s, Numbered(l, s)
  PROVE  CurrentSequence(l, s) = Length(l, s)
<1> DEFINE n == Length(l, s)
           S == {l[p].seq : p \in StreamOf(l, s)}
<1>1. n \in Nat
  BY StreamFinite
<1>2. S = 1 .. n
  BY DEF Numbered
<1>3. /\ n \in S \cup {0}
      /\ \A p \in StreamOf(l, s) : l[p].seq <= n
  BY <1>1, <1>2
<1>4. ASSUME NEW m \in S \cup {0}, \A p \in StreamOf(l, s) : l[p].seq <= m
      PROVE  m = n
  <2>1. m \in 0 .. n
    BY <1>1, <1>2
  <2>2. CASE n = 0
    BY <2>1, <2>2
  <2>3. CASE n # 0
    <3>1. PICK p \in StreamOf(l, s) : l[p].seq = n
      BY <1>1, <1>2, <2>3
    <3> QED
      BY <1>1, <1>4, <2>1, <3>1
  <2> QED
    BY <2>2, <2>3
<1>5. CurrentSequence(l, s) =
        CHOOSE m \in S \cup {0} : \A p \in StreamOf(l, s) : l[p].seq <= m
  BY DEF CurrentSequence
<1> HIDE DEF n, S
<1> QED
  BY <1>3, <1>4, <1>5 DEF n

\* The rows of one command are well-formed events.
LEMMA StampedType ==
  ASSUME NEW c \in Commands, NEW types \in Seq(Types), NEW base \in Nat
  PROVE  /\ Stamped(c, types, base) \in Seq(Events)
         /\ Len(Stamped(c, types, base)) = Len(types)
         /\ \A i \in 1 .. Len(types) :
              Stamped(c, types, base)[i] =
                [stream |-> Target[c], seq |-> base + i, type |-> types[i],
                 by |-> c, imported |-> FALSE]
<1>1. Len(types) \in Nat /\ types \in [1 .. Len(types) -> Types]
  BY LenProperties
<1>2. ASSUME NEW i \in 1 .. Len(types)
      PROVE  [stream |-> Target[c], seq |-> base + i, type |-> types[i],
              by |-> c, imported |-> FALSE] \in Events
  <2>1. base + i \in Nat \ {0} /\ types[i] \in Types /\ Target[c] \in Streams
    BY <1>1, CommandsAssumption
  <2> QED
    BY <2>1 DEF Events
<1>3. Stamped(c, types, base) \in [1 .. Len(types) -> Events]
  BY <1>2 DEF Stamped
<1>4. Stamped(c, types, base) \in Seq(Events)
  BY <1>1, <1>3, SeqDef
<1> QED
  BY <1>1, <1>3, <1>4, LenProperties DEF Stamped

\* An append keeps every event where it was and puts the command's rows after
\* the last one.
LEMMA AppendedEntries ==
  ASSUME NEW l \in Seq(Events), NEW c \in Commands, NEW types \in Seq(Types),
         NEW base \in Nat
  PROVE  LET r == Appended(l, c, types, base)
         IN /\ r \in Seq(Events)
            /\ Len(r) = Len(l) + Len(types)
            /\ \A p \in 1 .. Len(l) : r[p] = l[p]
            /\ \A p \in Len(l) + 1 .. Len(l) + Len(types) :
                 r[p] = [stream |-> Target[c], seq |-> base + (p - Len(l)),
                         type |-> types[p - Len(l)], by |-> c,
                         imported |-> FALSE]
<1> DEFINE m == Stamped(c, types, base)
           r == Appended(l, c, types, base)
<1>1. /\ m \in Seq(Events) /\ Len(m) = Len(types)
      /\ \A i \in 1 .. Len(types) :
           m[i] = [stream |-> Target[c], seq |-> base + i, type |-> types[i],
                   by |-> c, imported |-> FALSE]
  BY StampedType
<1>2. r = l \o m
  BY DEF Appended
<1> HIDE DEF m, r
<1>3. Len(l) \in Nat /\ Len(m) \in Nat
  BY <1>1, LenProperties
<1>4. /\ r \in Seq(Events)
      /\ Len(r) = Len(l) + Len(m)
      /\ \A p \in 1 .. Len(l) + Len(m) :
           r[p] = IF p <= Len(l) THEN l[p] ELSE m[p - Len(l)]
  <2>1. m \in Seq(Events)
    BY <1>1
  <2>2. /\ l \o m \in Seq(Events)
        /\ Len(l \o m) = Len(l) + Len(m)
        /\ \A p \in 1 .. Len(l) + Len(m) :
             (l \o m)[p] = IF p <= Len(l) THEN l[p] ELSE m[p - Len(l)]
    BY <2>1, ConcatProperties, Zenon
  <2> QED
    BY <1>2, <2>2, Zenon
<1>5. ASSUME NEW p \in 1 .. Len(l)
      PROVE  r[p] = l[p]
  BY <1>3, <1>4
<1>6. ASSUME NEW p \in Len(l) + 1 .. Len(l) + Len(types)
      PROVE  r[p] = [stream |-> Target[c], seq |-> base + (p - Len(l)),
                     type |-> types[p - Len(l)], by |-> c, imported |-> FALSE]
  <2>1. p - Len(l) \in 1 .. Len(types)
    BY <1>1, <1>3
  <2>2. r[p] = m[p - Len(l)]
    BY <1>1, <1>3, <1>4
  <2> QED
    BY <1>1, <2>1, <2>2
<1> QED
  BY <1>1, <1>4, <1>5, <1>6 DEF r

\* The same of a log named r: the old rows, then c's, with its types in order.
LEMMA AppendedRows ==
  ASSUME NEW l \in Seq(Events), NEW c \in Commands, NEW types \in Seq(Types),
         NEW base \in Nat, NEW r, r = Appended(l, c, types, base)
  PROVE  /\ r \in Seq(Events)
         /\ Len(l) \in Nat /\ Len(types) \in Nat
         /\ Len(r) = Len(l) + Len(types)
         /\ DOMAIN l = 1 .. Len(l) /\ DOMAIN r = 1 .. Len(r)
         /\ \A p \in 1 .. Len(l) : r[p] = l[p]
         /\ \A p \in Len(l) + 1 .. Len(r) :
              /\ r[p].by = c /\ r[p].stream = Target[c] /\ ~r[p].imported
              /\ r[p].type = types[p - Len(l)]
<1>1. /\ r \in Seq(Events)
      /\ Len(r) = Len(l) + Len(types)
      /\ \A p \in 1 .. Len(l) : r[p] = l[p]
      /\ \A p \in Len(l) + 1 .. Len(l) + Len(types) :
           r[p] = [stream |-> Target[c], seq |-> base + (p - Len(l)),
                   type |-> types[p - Len(l)], by |-> c, imported |-> FALSE]
  BY AppendedEntries
<1>2. Len(l) \in Nat /\ Len(types) \in Nat
  BY LenProperties
<1>3. DOMAIN l = 1 .. Len(l) /\ DOMAIN r = 1 .. Len(r)
  BY <1>1, LenProperties
<1>4. ASSUME NEW p \in Len(l) + 1 .. Len(r)
      PROVE  /\ r[p].by = c /\ r[p].stream = Target[c] /\ ~r[p].imported
             /\ r[p].type = types[p - Len(l)]
  <2>1. r[p] = [stream |-> Target[c], seq |-> base + (p - Len(l)),
                type |-> types[p - Len(l)], by |-> c, imported |-> FALSE]
    BY <1>1
  <2> QED
    BY <2>1
<1> QED
  BY <1>1, <1>2, <1>3, <1>4

\* An append adds the positions after the log's end to its own stream and
\* leaves every other stream alone.
LEMMA AppendedStreams ==
  ASSUME NEW l \in Seq(Events), NEW c \in Commands, NEW types \in Seq(Types),
         NEW base \in Nat, NEW s
  PROVE  /\ s = Target[c] =>
              StreamOf(Appended(l, c, types, base), s) =
                StreamOf(l, s) \cup (Len(l) + 1 .. Len(l) + Len(types))
         /\ s # Target[c] =>
              StreamOf(Appended(l, c, types, base), s) = StreamOf(l, s)
<1> DEFINE r == Appended(l, c, types, base)
<1>1. /\ r \in Seq(Events)
      /\ Len(r) = Len(l) + Len(types)
      /\ \A p \in 1 .. Len(l) : r[p] = l[p]
      /\ \A p \in Len(l) + 1 .. Len(l) + Len(types) :
           r[p] = [stream |-> Target[c], seq |-> base + (p - Len(l)),
                   type |-> types[p - Len(l)], by |-> c, imported |-> FALSE]
  BY AppendedEntries
<1> HIDE DEF r
<1>2. Len(l) \in Nat /\ Len(types) \in Nat
  BY LenProperties
<1>3. DOMAIN r = 1 .. Len(l) + Len(types) /\ DOMAIN l = 1 .. Len(l)
  BY <1>1, LenProperties
<1>4. ASSUME NEW p \in 1 .. Len(l)
      PROVE  p \in StreamOf(r, s) <=> p \in StreamOf(l, s)
  BY <1>1, <1>2, <1>3 DEF StreamOf
<1>5. ASSUME NEW p \in Len(l) + 1 .. Len(l) + Len(types)
      PROVE  p \in StreamOf(r, s) <=> s = Target[c]
  <2>1. r[p] = [stream |-> Target[c], seq |-> base + (p - Len(l)),
                type |-> types[p - Len(l)], by |-> c, imported |-> FALSE]
    BY <1>1, Zenon
  <2>2. r[p].stream = Target[c]
    BY <2>1
  <2> QED
    BY <1>2, <1>3, <2>2 DEF StreamOf
<1>6. StreamOf(r, s) \subseteq 1 .. Len(l) + Len(types)
  BY <1>3 DEF StreamOf
<1>7. StreamOf(l, s) \subseteq 1 .. Len(l)
  BY StreamFinite
<1>8. 1 .. Len(l) + Len(types) =
        (1 .. Len(l)) \cup (Len(l) + 1 .. Len(l) + Len(types))
  BY <1>2
<1> QED
  BY <1>4, <1>5, <1>6, <1>7, <1>8, Zenon DEF r

\* k consecutive positions are k positions.
LEMMA BlockSize ==
  ASSUME NEW n \in Nat, NEW k \in Nat
  PROVE  IsFiniteSet(n + 1 .. n + k) /\ Cardinality(n + 1 .. n + k) = k
<1>1. n + 1 \in Int /\ n + k \in Int
  OBVIOUS
<1>2. /\ IsFiniteSet(n + 1 .. n + k)
      /\ Cardinality(n + 1 .. n + k) =
           IF n + 1 > n + k THEN 0 ELSE (n + k) - (n + 1) + 1
  BY <1>1, FS_Interval, Zenon
<1> QED
  BY <1>2

\* The command's stream grows by the number of its events; no other does.
LEMMA AppendedLength ==
  ASSUME NEW l \in Seq(Events), NEW c \in Commands, NEW types \in Seq(Types),
         NEW base \in Nat, NEW s
  PROVE  /\ s = Target[c] =>
              Length(Appended(l, c, types, base), s) =
                Length(l, s) + Len(types)
         /\ s # Target[c] =>
              Length(Appended(l, c, types, base), s) = Length(l, s)
<1>1. CASE s # Target[c]
  <2>1. StreamOf(Appended(l, c, types, base), s) = StreamOf(l, s)
    BY <1>1, AppendedStreams
  <2> QED
    BY <1>1, <2>1 DEF Length
<1>2. CASE s = Target[c]
  <2>1. PICK old, added :
          /\ old = StreamOf(l, s)
          /\ added = Len(l) + 1 .. Len(l) + Len(types)
    OBVIOUS
  <2>2. Len(l) \in Nat /\ Len(types) \in Nat
    BY LenProperties
  <2>3. old \subseteq 1 .. Len(l) /\ IsFiniteSet(old) /\ Cardinality(old) \in Nat
    BY <2>1, StreamFinite DEF Length
  <2>4. IsFiniteSet(added) /\ Cardinality(added) = Len(types)
    BY <2>1, <2>2, BlockSize
  <2>5. old \cap added = {}
    BY <2>1, <2>2, <2>3
  <2>6. Cardinality(old \cap added) = 0
    BY <2>5, FS_EmptySet
  <2>7. Cardinality(old \cup added) =
          Cardinality(old) + Cardinality(added) - Cardinality(old \cap added)
    BY <2>3, <2>4, FS_Union, Zenon
  <2>8. Cardinality(old \cup added) = Cardinality(old) + Len(types)
    BY <2>2, <2>3, <2>4, <2>6, <2>7
  <2>9. StreamOf(Appended(l, c, types, base), s) =
          StreamOf(l, s) \cup (Len(l) + 1 .. Len(l) + Len(types))
    BY <1>2, AppendedStreams
  <2> QED
    BY <1>2, <2>1, <2>8, <2>9 DEF Length
<1> QED
  BY <1>1, <1>2

\* Appending at the stream's length keeps every stream numbered.
LEMMA AppendedNumbered ==
  ASSUME NEW l \in Seq(Events), NEW c \in Commands, NEW types \in Seq(Types),
         NEW s, Numbered(l, s)
  PROVE  Numbered(Appended(l, c, types, Length(l, Target[c])), s)
<1> DEFINE base == Length(l, Target[c])
           r == Appended(l, c, types, base)
           added == Len(l) + 1 .. Len(l) + Len(types)
<1>1. Len(l) \in Nat /\ Len(types) \in Nat /\ base \in Nat
  BY StreamFinite, LenProperties
<1>2. /\ \A p \in 1 .. Len(l) : r[p] = l[p]
      /\ \A p \in added :
           r[p] = [stream |-> Target[c], seq |-> base + (p - Len(l)),
                   type |-> types[p - Len(l)], by |-> c, imported |-> FALSE]
  BY <1>1, AppendedEntries
<1>3. /\ s = Target[c] => StreamOf(r, s) = StreamOf(l, s) \cup added
      /\ s # Target[c] => StreamOf(r, s) = StreamOf(l, s)
  BY <1>1, AppendedStreams
<1>4. /\ s = Target[c] => Length(r, s) = Length(l, s) + Len(types)
      /\ s # Target[c] => Length(r, s) = Length(l, s)
  BY <1>1, AppendedLength
<1>5. StreamOf(l, s) \subseteq 1 .. Len(l) /\ Length(l, s) \in Nat
  BY StreamFinite
<1>6. /\ {l[p].seq : p \in StreamOf(l, s)} = 1 .. Length(l, s)
      /\ \A p, q \in StreamOf(l, s) : p < q => l[p].seq < l[q].seq
  BY DEF Numbered
<1> HIDE DEF r
<1>7. \A p \in StreamOf(l, s) :
        r[p].seq = l[p].seq /\ l[p].seq \in 1 .. Length(l, s)
  BY <1>2, <1>5, <1>6
<1>8. CASE s # Target[c]
  <2>1. StreamOf(r, s) = StreamOf(l, s) /\ Length(r, s) = Length(l, s)
    BY <1>3, <1>4, <1>8
  <2>2. {r[p].seq : p \in StreamOf(l, s)} = {l[p].seq : p \in StreamOf(l, s)}
    BY <1>7
  <2> QED
    BY <1>6, <1>7, <2>1, <2>2 DEF Numbered, r
<1>9. CASE s = Target[c]
  <2>1. /\ StreamOf(r, s) = StreamOf(l, s) \cup added
        /\ Length(r, s) = base + Len(types)
        /\ Length(l, s) = base
    BY <1>3, <1>4, <1>9
  <2>2. ASSUME NEW p \in added
        PROVE  r[p].seq = base + (p - Len(l))
    <3>1. r[p] = [stream |-> Target[c], seq |-> base + (p - Len(l)),
                  type |-> types[p - Len(l)], by |-> c, imported |-> FALSE]
      BY <1>2, Zenon
    <3> QED
      BY <3>1
  <2> HIDE DEF base
  <2>3. ASSUME NEW n \in 1 .. base + Len(types)
        PROVE  \E p \in StreamOf(l, s) \cup added : r[p].seq = n
    <3>1. CASE n <= base
      <4>1. n \in {l[p].seq : p \in StreamOf(l, s)}
        BY <1>1, <1>6, <2>1, <3>1
      <4>2. PICK p \in StreamOf(l, s) : l[p].seq = n
        BY <4>1
      <4> QED
        BY <1>7, <4>2
    <3>2. CASE n > base
      <4>1. n - base + Len(l) \in added
        BY <1>1, <3>2
      <4>2. r[n - base + Len(l)].seq = n
        BY <1>1, <2>2, <4>1
      <4> QED
        BY <4>1, <4>2
    <3> QED
      BY <1>1, <3>1, <3>2
  <2>4. ASSUME NEW p \in StreamOf(l, s) \cup added
        PROVE  r[p].seq \in 1 .. base + Len(types)
    BY <1>1, <1>7, <2>1, <2>2
  <2>5. {r[p].seq : p \in StreamOf(r, s)} = 1 .. Length(r, s)
    BY <2>1, <2>3, <2>4
  <2>6. ASSUME NEW p \in StreamOf(r, s), NEW q \in StreamOf(r, s), p < q
        PROVE  r[p].seq < r[q].seq
    <3>1. CASE p \in StreamOf(l, s) /\ q \in StreamOf(l, s)
      BY <1>6, <1>7, <2>6, <3>1
    <3>2. CASE p \in StreamOf(l, s) /\ q \in added
      <4>1. r[p].seq \in 1 .. base
        BY <1>7, <2>1, <3>2
      <4>2. r[q].seq = base + (q - Len(l)) /\ q > Len(l) /\ q \in Nat
        BY <1>1, <2>2, <3>2
      <4> QED
        BY <1>1, <4>1, <4>2
    <3>3. CASE p \in added /\ q \in StreamOf(l, s)
      BY <1>1, <1>5, <2>6, <3>3
    <3>4. CASE p \in added /\ q \in added
      BY <1>1, <2>2, <2>6, <3>4
    <3> QED
      BY <2>1, <3>1, <3>2, <3>3, <3>4
  <2> QED
    BY <2>5, <2>6 DEF Numbered, r, base
<1> QED
  BY <1>8, <1>9

\* What a decider folds, entry by entry: the n-th entry of the history is the
\* type of the one event numbered n.
LEMMA HistoryEntries ==
  ASSUME NEW l \in Seq(Events), NEW s, Numbered(l, s)
  PROVE  /\ History(l, s) \in Seq(Types)
         /\ Len(History(l, s)) = Length(l, s)
         /\ \A p \in StreamOf(l, s) :
              /\ l[p].seq \in 1 .. Length(l, s)
              /\ History(l, s)[l[p].seq] = l[p].type
         /\ \A n \in 1 .. Length(l, s) : \E p \in StreamOf(l, s) : l[p].seq = n
<1> DEFINE at(n) == CHOOSE p \in StreamOf(l, s) : l[p].seq = n
<1>1. /\ StreamOf(l, s) \subseteq 1 .. Len(l)
      /\ Length(l, s) \in Nat
      /\ Len(l) \in Nat
  BY StreamFinite, LenProperties
<1>2. /\ {l[p].seq : p \in StreamOf(l, s)} = 1 .. Length(l, s)
      /\ \A p, q \in StreamOf(l, s) : p < q => l[p].seq < l[q].seq
  BY DEF Numbered
<1>3. \A n \in 1 .. Length(l, s) : \E p \in StreamOf(l, s) : l[p].seq = n
  BY <1>2
<1>4. ASSUME NEW n \in 1 .. Length(l, s)
      PROVE  at(n) \in StreamOf(l, s) /\ l[at(n)].seq = n
  BY <1>3
<1>5. ASSUME NEW n \in 1 .. Length(l, s)
      PROVE  l[at(n)].type \in Types
  <2>1. l[at(n)] \in Events
    BY <1>1, <1>4, ElementOfSeq
  <2> QED
    BY <2>1 DEF Events
<1>6. History(l, s) = [n \in 1 .. Length(l, s) |-> l[at(n)].type]
  BY DEF History
<1> HIDE DEF at
<1>7. History(l, s) \in [1 .. Length(l, s) -> Types]
  BY <1>5, <1>6
<1>8. History(l, s) \in Seq(Types)
  BY <1>1, <1>7, SeqDef
<1>9. Len(History(l, s)) = Length(l, s)
  BY <1>1, <1>7, <1>8, LenProperties
<1>10. ASSUME NEW p \in StreamOf(l, s)
       PROVE  /\ l[p].seq \in 1 .. Length(l, s)
              /\ History(l, s)[l[p].seq] = l[p].type
  <2>1. l[p].seq \in 1 .. Length(l, s)
    BY <1>2
  <2>2. at(l[p].seq) \in StreamOf(l, s) /\ l[at(l[p].seq)].seq = l[p].seq
    BY <1>4, <2>1
  <2>3. at(l[p].seq) = p
    BY <1>1, <1>2, <2>1, <2>2
  <2> QED
    BY <1>6, <2>1, <2>3
<1> QED
  BY <1>3, <1>8, <1>9, <1>10

\* A log that agrees with another on a stream gives it the same history.
LEMMA SameHistory ==
  ASSUME NEW l \in Seq(Events), NEW r \in Seq(Events), NEW s,
         Numbered(l, s), Numbered(r, s),
         StreamOf(r, s) = StreamOf(l, s),
         \A p \in StreamOf(l, s) : r[p] = l[p]
  PROVE  History(r, s) = History(l, s)
<1>1. Length(r, s) = Length(l, s)
  BY DEF Length
<1>2. /\ History(l, s) \in Seq(Types) /\ Len(History(l, s)) = Length(l, s)
      /\ History(r, s) \in Seq(Types) /\ Len(History(r, s)) = Length(r, s)
  BY HistoryEntries
<1>3. ASSUME NEW n \in 1 .. Length(l, s)
      PROVE  History(r, s)[n] = History(l, s)[n]
  <2>1. PICK p \in StreamOf(l, s) : l[p].seq = n
    BY HistoryEntries
  <2>2. History(l, s)[n] = l[p].type
    BY <2>1, HistoryEntries
  <2>3. p \in StreamOf(r, s) /\ r[p] = l[p]
    BY <2>1
  <2>4. History(r, s)[r[p].seq] = r[p].type
    BY <2>3, HistoryEntries
  <2> QED
    BY <2>1, <2>2, <2>3, <2>4
<1> QED
  BY <1>1, <1>2, <1>3, SeqEqual

\* Appending at the stream's length extends its history by the command's
\* events, and no other history.
LEMMA AppendedHistory ==
  ASSUME NEW l \in Seq(Events), NEW c \in Commands, NEW types \in Seq(Types),
         NEW s \in Streams, Contiguous(l)
  PROVE  History(Appended(l, c, types, Length(l, Target[c])), s) =
           IF s = Target[c] THEN History(l, s) \o types ELSE History(l, s)
<1>1. PICK base \in Nat : base = Length(l, Target[c])
  BY StreamFinite
<1>2. PICK r : r = Appended(l, c, types, base)
  OBVIOUS
<1>3. /\ r \in Seq(Events)
      /\ Len(r) = Len(l) + Len(types)
      /\ \A p \in 1 .. Len(l) : r[p] = l[p]
      /\ \A p \in Len(l) + 1 .. Len(l) + Len(types) :
           r[p] = [stream |-> Target[c], seq |-> base + (p - Len(l)),
                   type |-> types[p - Len(l)], by |-> c, imported |-> FALSE]
  BY <1>2, AppendedEntries
<1>4. Numbered(l, s) /\ Numbered(r, s)
  BY <1>1, <1>2, AppendedNumbered DEF Contiguous
<1>5. StreamOf(l, s) \subseteq 1 .. Len(l) /\ Len(l) \in Nat /\ Len(types) \in Nat
  BY StreamFinite, LenProperties
<1>6. CASE s # Target[c]
  <2>1. StreamOf(r, s) = StreamOf(l, s)
    BY <1>2, <1>6, AppendedStreams
  <2>2. \A p \in StreamOf(l, s) : r[p] = l[p]
    BY <1>3, <1>5
  <2>3. History(r, s) = History(l, s)
    BY <1>3, <1>4, <2>1, <2>2, SameHistory
  <2> QED
    BY <1>1, <1>2, <1>6, <2>3
<1>7. CASE s = Target[c]
  <2>1. /\ StreamOf(r, s) =
             StreamOf(l, s) \cup (Len(l) + 1 .. Len(l) + Len(types))
        /\ Length(r, s) = base + Len(types)
    BY <1>1, <1>2, <1>7, AppendedStreams, AppendedLength
  <2>2. PICK h, g : h = History(l, s) /\ g = History(r, s)
    OBVIOUS
  <2>3. /\ h \in Seq(Types) /\ Len(h) = base
        /\ g \in Seq(Types) /\ Len(g) = base + Len(types)
    BY <1>1, <1>3, <1>4, <1>7, <2>1, <2>2, HistoryEntries
  <2>4. /\ h \o types \in Seq(Types)
        /\ Len(h \o types) = base + Len(types)
        /\ \A n \in 1 .. base + Len(types) :
             (h \o types)[n] = IF n <= base THEN h[n] ELSE types[n - base]
    BY <2>3, ConcatProperties
  <2>5. ASSUME NEW n \in 1 .. base + Len(types)
        PROVE  g[n] = (h \o types)[n]
    <3>1. CASE n <= base
      <4>1. PICK p \in StreamOf(l, s) : l[p].seq = n
        BY <1>1, <1>4, <1>7, <3>1, HistoryEntries
      <4>2. h[n] = l[p].type
        BY <1>4, <2>2, <4>1, HistoryEntries
      <4>3. p \in StreamOf(r, s) /\ r[p] = l[p]
        BY <1>3, <1>5, <2>1, <4>1
      <4>4. g[r[p].seq] = r[p].type
        BY <1>3, <1>4, <2>2, <4>3, HistoryEntries
      <4> QED
        BY <2>4, <3>1, <4>1, <4>2, <4>3, <4>4
    <3>2. CASE n > base
      <4>1. PICK p \in Len(l) + 1 .. Len(l) + Len(types) : p - Len(l) = n - base
        <5>1. n - base + Len(l) \in Len(l) + 1 .. Len(l) + Len(types)
          BY <1>5, <3>2
        <5>2. (n - base + Len(l)) - Len(l) = n - base
          BY <1>5
        <5> QED
          BY <5>1, <5>2
      <4>2. r[p] = [stream |-> Target[c], seq |-> base + (p - Len(l)),
                    type |-> types[p - Len(l)], by |-> c, imported |-> FALSE]
        BY <1>3, Zenon
      <4>3. r[p].seq = n /\ r[p].type = types[n - base]
        BY <1>5, <4>1, <4>2
      <4>4. p \in StreamOf(r, s)
        BY <2>1
      <4>5. g[r[p].seq] = r[p].type
        BY <1>3, <1>4, <2>2, <4>4, HistoryEntries
      <4>6. g[n] = types[n - base]
        BY <4>3, <4>5, Zenon
      <4> QED
        BY <2>4, <3>2, <4>6
    <3>3. n <= base \/ n > base
      BY <2>5
    <3> QED
      BY <3>1, <3>2, <3>3
  <2>6. g = h \o types
    BY <2>3, <2>4, <2>5, SeqEqual
  <2> QED
    BY <1>1, <1>2, <1>7, <2>2, <2>6
<1> QED
  BY <1>6, <1>7

-----------------------------------------------------------------------------
(* Imports.                                                                *)

\* An import keeps every event where it was and puts the batch after the last
\* one, each event with its own stream, sequence and type.
LEMMA ImportedEntries ==
  ASSUME NEW l \in Seq(Events), NEW b \in Seq(Events)
  PROVE  /\ Imported(l, b) \in Seq(Events)
         /\ Len(Imported(l, b)) = Len(l) + Len(b)
         /\ \A p \in 1 .. Len(l) : Imported(l, b)[p] = l[p]
         /\ \A i \in 1 .. Len(b) :
              /\ Imported(l, b)[Len(l) + i].stream = b[i].stream
              /\ Imported(l, b)[Len(l) + i].seq = b[i].seq
              /\ Imported(l, b)[Len(l) + i].type = b[i].type
              /\ Imported(l, b)[Len(l) + i].imported = TRUE
<1> DEFINE m == [i \in 1 .. Len(b) |-> [b[i] EXCEPT !.imported = TRUE]]
<1>1. PICK r : r = Imported(l, b)
  OBVIOUS
<1>2. Len(l) \in Nat /\ Len(b) \in Nat
  BY LenProperties
<1>3. ASSUME NEW i \in 1 .. Len(b)
      PROVE  /\ m[i] \in Events
             /\ m[i].stream = b[i].stream /\ m[i].seq = b[i].seq
             /\ m[i].type = b[i].type /\ m[i].imported = TRUE
  <2>1. b[i] \in Events
    BY ElementOfSeq
  <2>2. m[i] = [b[i] EXCEPT !.imported = TRUE]
    OBVIOUS
  <2> HIDE DEF m
  <2> QED
    BY <2>1, <2>2 DEF Events
<1>4. m \in [1 .. Len(b) -> Events]
  BY <1>3
<1>5. m \in Seq(Events)
  BY <1>2, <1>4, SeqDef
<1>6. Len(m) = Len(b)
  BY <1>2, <1>4, <1>5, LenProperties
<1>7. r = l \o m
  BY <1>1 DEF Imported
<1> HIDE DEF m
<1>8. /\ r \in Seq(Events)
      /\ Len(r) = Len(l) + Len(b)
      /\ \A p \in 1 .. Len(l) + Len(b) :
           r[p] = IF p <= Len(l) THEN l[p] ELSE m[p - Len(l)]
  <2>1. /\ l \o m \in Seq(Events)
        /\ Len(l \o m) = Len(l) + Len(m)
        /\ \A p \in 1 .. Len(l) + Len(m) :
             (l \o m)[p] = IF p <= Len(l) THEN l[p] ELSE m[p - Len(l)]
    BY <1>5, ConcatProperties, Zenon
  <2> QED
    BY <1>6, <1>7, <2>1
<1>9. ASSUME NEW p \in 1 .. Len(l)
      PROVE  r[p] = l[p]
  BY <1>2, <1>8
<1>10. ASSUME NEW i \in 1 .. Len(b)
       PROVE  r[Len(l) + i] = m[i]
  <2>1. Len(l) + i \in 1 .. Len(l) + Len(b) /\ ~(Len(l) + i <= Len(l))
    BY <1>2
  <2>2. (Len(l) + i) - Len(l) = i
    BY <1>2
  <2> QED
    BY <1>8, <2>1, <2>2
<1> QED
  BY <1>1, <1>3, <1>8, <1>9, <1>10

\* A batch that does not collide brings streams the log has nothing of: those
\* get the batch's numbering, the others stay as they are.
LEMMA ImportedStreams ==
  ASSUME NEW l \in Seq(Events), NEW b \in Seq(Events), NEW s,
         StreamOf(l, s) = {} \/ StreamOf(b, s) = {}
  PROVE  /\ StreamOf(b, s) = {} => StreamOf(Imported(l, b), s) = StreamOf(l, s)
         /\ StreamOf(l, s) = {} =>
              /\ StreamOf(Imported(l, b), s) =
                   {Len(l) + i : i \in StreamOf(b, s)}
              /\ Length(Imported(l, b), s) = Length(b, s)
<1>1. PICK r : r = Imported(l, b)
  OBVIOUS
<1>2. /\ r \in Seq(Events)
      /\ Len(r) = Len(l) + Len(b)
      /\ \A p \in 1 .. Len(l) : r[p] = l[p]
      /\ \A i \in 1 .. Len(b) : r[Len(l) + i].stream = b[i].stream
  BY <1>1, ImportedEntries
<1>3. Len(l) \in Nat /\ Len(b) \in Nat
  BY LenProperties
<1>4. /\ DOMAIN r = 1 .. Len(l) + Len(b)
      /\ DOMAIN l = 1 .. Len(l)
      /\ DOMAIN b = 1 .. Len(b)
  BY <1>2, LenProperties
<1>5. ASSUME NEW p \in 1 .. Len(l)
      PROVE  p \in StreamOf(r, s) <=> p \in StreamOf(l, s)
  BY <1>2, <1>3, <1>4 DEF StreamOf
<1>6. ASSUME NEW i \in 1 .. Len(b)
      PROVE  Len(l) + i \in StreamOf(r, s) <=> i \in StreamOf(b, s)
  BY <1>2, <1>3, <1>4 DEF StreamOf
<1>7. /\ StreamOf(r, s) \subseteq 1 .. Len(l) + Len(b)
      /\ StreamOf(l, s) \subseteq 1 .. Len(l)
      /\ StreamOf(b, s) \subseteq 1 .. Len(b)
  BY <1>4 DEF StreamOf
<1>8. \A p \in 1 .. Len(l) + Len(b) :
        p \in 1 .. Len(l) \/ \E i \in 1 .. Len(b) : p = Len(l) + i
  <2> TAKE p \in 1 .. Len(l) + Len(b)
  <2>1. CASE p <= Len(l)
    BY <1>3, <2>1
  <2>2. CASE p > Len(l)
    <3>1. p - Len(l) \in 1 .. Len(b) /\ p = Len(l) + (p - Len(l))
      BY <1>3, <2>2
    <3> QED
      BY <3>1
  <2> QED
    BY <1>3, <2>1, <2>2
<1>9. ASSUME StreamOf(b, s) = {}
      PROVE  StreamOf(r, s) = StreamOf(l, s)
  <2>1. ASSUME NEW p \in StreamOf(r, s)
        PROVE  p \in StreamOf(l, s)
    BY <1>5, <1>6, <1>7, <1>8, <1>9, <2>1
  <2>2. ASSUME NEW p \in StreamOf(l, s)
        PROVE  p \in StreamOf(r, s)
    BY <1>5, <1>7
  <2> QED
    BY <2>1, <2>2
<1>10. ASSUME StreamOf(l, s) = {}
       PROVE  /\ StreamOf(r, s) = {Len(l) + i : i \in StreamOf(b, s)}
              /\ Length(r, s) = Length(b, s)
  <2>1. StreamOf(r, s) = {Len(l) + i : i \in StreamOf(b, s)}
    <3>1. ASSUME NEW p \in StreamOf(r, s)
          PROVE  p \in {Len(l) + i : i \in StreamOf(b, s)}
      BY <1>5, <1>6, <1>7, <1>8, <1>10, <3>1
    <3>2. ASSUME NEW i \in StreamOf(b, s)
          PROVE  Len(l) + i \in StreamOf(r, s)
      BY <1>6, <1>7
    <3> QED
      BY <3>1, <3>2
  <2> DEFINE f == [i \in StreamOf(b, s) |-> Len(l) + i]
  <2>2. f \in Bijection(StreamOf(b, s), StreamOf(r, s))
    <3>1. f \in [StreamOf(b, s) -> StreamOf(r, s)]
      BY <2>1
    <3>2. ASSUME NEW i \in StreamOf(b, s), NEW j \in StreamOf(b, s), f[i] = f[j]
          PROVE  i = j
      BY <1>3, <1>7, <3>2
    <3>3. ASSUME NEW p \in StreamOf(r, s)
          PROVE  \E i \in StreamOf(b, s) : f[i] = p
      BY <2>1
    <3> HIDE DEF f
    <3> QED
      BY <3>1, <3>2, <3>3, Fun_IsBij
  <2>3. IsFiniteSet(StreamOf(b, s))
    BY StreamFinite
  <2>4. ExistsBijection(StreamOf(b, s), StreamOf(r, s))
    BY <2>2 DEF ExistsBijection
  <2>5. Cardinality(StreamOf(r, s)) = Cardinality(StreamOf(b, s))
    BY <2>3, <2>4, FS_Bijection
  <2> QED
    BY <2>1, <2>5 DEF Length
<1> QED
  BY <1>1, <1>9, <1>10

\* An import without a collision keeps every stream numbered.
LEMMA ImportedNumbered ==
  ASSUME NEW l \in Seq(Events), NEW b \in Seq(Events), NEW s,
         StreamOf(l, s) = {} \/ StreamOf(b, s) = {},
         Numbered(l, s), Numbered(b, s)
  PROVE  Numbered(Imported(l, b), s)
<1>1. PICK r : r = Imported(l, b)
  OBVIOUS
<1>2. /\ r \in Seq(Events)
      /\ \A p \in 1 .. Len(l) : r[p] = l[p]
      /\ \A i \in 1 .. Len(b) : r[Len(l) + i].seq = b[i].seq
  BY <1>1, ImportedEntries
<1>3. Len(l) \in Nat /\ Len(b) \in Nat
  BY LenProperties
<1>4. /\ StreamOf(l, s) \subseteq 1 .. Len(l)
      /\ StreamOf(b, s) \subseteq 1 .. Len(b)
  BY StreamFinite
<1>5. CASE StreamOf(b, s) = {}
  <2>1. StreamOf(r, s) = StreamOf(l, s)
    BY <1>1, <1>5, ImportedStreams
  <2>2. Length(r, s) = Length(l, s)
    BY <2>1 DEF Length
  <2>3. \A p \in StreamOf(l, s) : r[p].seq = l[p].seq
    BY <1>2, <1>4
  <2>4. {r[p].seq : p \in StreamOf(l, s)} = {l[p].seq : p \in StreamOf(l, s)}
    BY <2>3
  <2> QED
    BY <1>1, <2>1, <2>2, <2>3, <2>4 DEF Numbered
<1>6. CASE StreamOf(l, s) = {}
  <2>1. /\ StreamOf(r, s) = {Len(l) + i : i \in StreamOf(b, s)}
        /\ Length(r, s) = Length(b, s)
    BY <1>1, <1>6, ImportedStreams
  <2>2. \A i \in StreamOf(b, s) : r[Len(l) + i].seq = b[i].seq
    BY <1>2, <1>4
  <2>3. {r[p].seq : p \in StreamOf(r, s)} = {b[i].seq : i \in StreamOf(b, s)}
    BY <2>1, <2>2
  <2>4. ASSUME NEW p \in StreamOf(r, s), NEW q \in StreamOf(r, s), p < q
        PROVE  r[p].seq < r[q].seq
    <3>1. PICK i \in StreamOf(b, s) : p = Len(l) + i
      BY <2>1
    <3>2. PICK j \in StreamOf(b, s) : q = Len(l) + j
      BY <2>1
    <3>3. i < j
      BY <1>3, <1>4, <2>4, <3>1, <3>2
    <3>4. b[i].seq < b[j].seq
      BY <3>3 DEF Numbered
    <3> QED
      BY <2>2, <3>1, <3>2, <3>4
  <2> QED
    BY <1>1, <2>1, <2>3, <2>4 DEF Numbered
<1> QED
  BY <1>5, <1>6

-----------------------------------------------------------------------------
(* The rows of one command.                                                *)

\* A log that grows by rows of others holds the same of d.
LEMMA OtherRows ==
  ASSUME NEW l \in Seq(Events), NEW r \in Seq(Events), NEW d,
         Len(l) <= Len(r),
         \A p \in 1 .. Len(l) : r[p] = l[p],
         \A p \in Len(l) + 1 .. Len(r) : r[p].by # d
  PROVE  /\ RowsOf(r, d) = RowsOf(l, d)
         /\ \A types \in Seq(Types) : Holds(l, d, types) => Holds(r, d, types)
<1>1. /\ Len(l) \in Nat /\ Len(r) \in Nat
      /\ DOMAIN l = 1 .. Len(l) /\ DOMAIN r = 1 .. Len(r)
  BY LenProperties
<1>2. RowsOf(r, d) = RowsOf(l, d)
  <2>1. ASSUME NEW p \in RowsOf(r, d)
        PROVE  p \in RowsOf(l, d)
    BY <1>1 DEF RowsOf
  <2>2. ASSUME NEW p \in RowsOf(l, d)
        PROVE  p \in RowsOf(r, d)
    BY <1>1 DEF RowsOf
  <2> QED
    BY <2>1, <2>2
<1>3. ASSUME NEW types \in Seq(Types), Holds(l, d, types)
      PROVE  Holds(r, d, types)
  <2>1. PICK base \in 0 .. Len(l) - Len(types) :
          /\ RowsOf(l, d) = base + 1 .. base + Len(types)
          /\ \A i \in 1 .. Len(types) : l[base + i].type = types[i]
    BY <1>3 DEF Holds
  <2>2. Len(types) \in Nat
    BY LenProperties
  <2>3. base \in 0 .. Len(r) - Len(types)
    BY <1>1, <2>1, <2>2
  <2>4. \A i \in 1 .. Len(types) : base + i \in 1 .. Len(l)
    BY <1>1, <2>1, <2>2
  <2>5. \A i \in 1 .. Len(types) : r[base + i].type = types[i]
    BY <2>1, <2>4
  <2> QED
    BY <1>2, <2>1, <2>3, <2>5 DEF Holds
<1> QED
  BY <1>2, <1>3

\* An append leaves the other commands' rows alone ...
LEMMA AppendedOthers ==
  ASSUME NEW l \in Seq(Events), NEW c \in Commands, NEW types \in Seq(Types),
         NEW base \in Nat, NEW r, r = Appended(l, c, types, base), NEW d, d # c
  PROVE  /\ RowsOf(r, d) = RowsOf(l, d)
         /\ \A ts \in Seq(Types) : Holds(l, d, ts) => Holds(r, d, ts)
<1>1. /\ r \in Seq(Events) /\ Len(l) \in Nat /\ Len(types) \in Nat
      /\ Len(r) = Len(l) + Len(types)
      /\ \A p \in 1 .. Len(l) : r[p] = l[p]
      /\ \A p \in Len(l) + 1 .. Len(r) : r[p].by = c
  BY AppendedRows
<1>2. Len(l) <= Len(r)
  BY <1>1
<1>3. \A p \in Len(l) + 1 .. Len(r) : r[p].by # d
  BY <1>1
<1> QED
  BY <1>1, <1>2, <1>3, OtherRows

\* ... and holds the events of a command that had none, as they were decided.
LEMMA AppendedHolds ==
  ASSUME NEW l \in Seq(Events), NEW c \in Commands, NEW types \in Seq(Types),
         NEW base \in Nat, NEW r, r = Appended(l, c, types, base),
         RowsOf(l, c) = {}
  PROVE  /\ Holds(r, c, types)
         /\ RowsOf(r, c) = Len(l) + 1 .. Len(l) + Len(types)
<1>1. /\ Len(l) \in Nat /\ Len(types) \in Nat
      /\ Len(r) = Len(l) + Len(types)
      /\ DOMAIN l = 1 .. Len(l) /\ DOMAIN r = 1 .. Len(r)
      /\ \A p \in 1 .. Len(l) : r[p] = l[p]
      /\ \A p \in Len(l) + 1 .. Len(r) :
           r[p].by = c /\ r[p].type = types[p - Len(l)]
  BY AppendedRows
<1>2. \A p \in 1 .. Len(l) : r[p].by # c
  BY <1>1 DEF RowsOf
<1>3. RowsOf(r, c) = Len(l) + 1 .. Len(l) + Len(types)
  <2>1. ASSUME NEW p \in RowsOf(r, c)
        PROVE  p \in Len(l) + 1 .. Len(l) + Len(types)
    BY <1>1, <1>2 DEF RowsOf
  <2>2. ASSUME NEW p \in Len(l) + 1 .. Len(l) + Len(types)
        PROVE  p \in RowsOf(r, c)
    BY <1>1 DEF RowsOf
  <2> QED
    BY <2>1, <2>2
<1>4. ASSUME NEW i \in 1 .. Len(types)
      PROVE  r[Len(l) + i].type = types[i]
  <2>1. Len(l) + i \in Len(l) + 1 .. Len(r) /\ (Len(l) + i) - Len(l) = i
    BY <1>1
  <2> QED
    BY <1>1, <2>1
<1>5. Len(l) \in 0 .. Len(r) - Len(types)
  BY <1>1
<1> QED
  BY <1>3, <1>4, <1>5 DEF Holds

\* A command without rows holds the empty answer.
LEMMA HoldsNothing ==
  ASSUME NEW l \in Seq(Events), NEW c, RowsOf(l, c) = {}
  PROVE  Holds(l, c, << >>)
<1>1. Len(l) \in Nat /\ Len(<< >>) = 0
  BY LenProperties
<1>2. 0 \in 0 .. Len(l) - Len(<< >>)
  BY <1>1
<1>3. RowsOf(l, c) = 0 + 1 .. 0 + Len(<< >>)
  BY <1>1
<1>4. \A i \in 1 .. Len(<< >>) : l[0 + i].type = << >>[i]
  BY <1>1
<1> QED
  BY <1>2, <1>3, <1>4 DEF Holds

\* The history a decider folds has the stream's length.
LEMMA HistoryLength ==
  ASSUME NEW l \in Seq(Events), NEW s
  PROVE  Len(History(l, s)) = Length(l, s) /\ Len(History(l, s)) \in Nat
<1>1. Length(l, s) \in Nat
  BY StreamFinite
<1>2. PICK n \in Nat : n = Length(l, s)
  BY <1>1
<1>3. PICK h : h = History(l, s)
  OBVIOUS
<1>4. h = [i \in 1 .. n |-> h[i]]
  BY <1>2, <1>3 DEF History
<1>5. PICK S : S = {h[i] : i \in 1 .. n}
  OBVIOUS
<1>6. h \in [1 .. n -> S]
  BY <1>4, <1>5
<1>7. h \in Seq(S) /\ Len(h) = n
  BY <1>2, <1>6
<1> QED
  BY <1>2, <1>3, <1>7

-----------------------------------------------------------------------------
(* Logs put together.                                                      *)

\* The entries of two logs, one after the other.
LEMMA Joined ==
  ASSUME NEW a \in Seq(Events), NEW b \in Seq(Events), NEW r, r = a \o b
  PROVE  /\ r \in Seq(Events)
         /\ Len(a) \in Nat /\ Len(b) \in Nat /\ Len(r) = Len(a) + Len(b)
         /\ DOMAIN a = 1 .. Len(a) /\ DOMAIN b = 1 .. Len(b)
         /\ DOMAIN r = 1 .. Len(a) + Len(b)
         /\ \A p \in 1 .. Len(a) : r[p] = a[p]
         /\ \A i \in 1 .. Len(b) : r[Len(a) + i] = b[i]
         /\ \A p \in Len(a) + 1 .. Len(a) + Len(b) : r[p] = b[p - Len(a)]
<1>1. /\ a \o b \in Seq(Events)
      /\ Len(a \o b) = Len(a) + Len(b)
      /\ \A p \in 1 .. Len(a) + Len(b) :
           (a \o b)[p] = IF p <= Len(a) THEN a[p] ELSE b[p - Len(a)]
  BY ConcatProperties, Zenon
<1>2. Len(a) \in Nat /\ Len(b) \in Nat
  BY LenProperties
<1>3. /\ r \in Seq(Events) /\ Len(r) = Len(a) + Len(b)
      /\ \A p \in 1 .. Len(a) + Len(b) :
           r[p] = IF p <= Len(a) THEN a[p] ELSE b[p - Len(a)]
  BY <1>1
<1>4. /\ DOMAIN a = 1 .. Len(a) /\ DOMAIN b = 1 .. Len(b)
      /\ DOMAIN r = 1 .. Len(a) + Len(b)
  BY <1>3, LenProperties
<1>5. \A p \in 1 .. Len(a) : r[p] = a[p]
  BY <1>2, <1>3
<1>6. \A p \in Len(a) + 1 .. Len(a) + Len(b) : r[p] = b[p - Len(a)]
  BY <1>2, <1>3
<1>7. ASSUME NEW i \in 1 .. Len(b) PROVE r[Len(a) + i] = b[i]
  <2>1. Len(a) + i \in Len(a) + 1 .. Len(a) + Len(b) /\ (Len(a) + i) - Len(a) = i
    BY <1>2
  <2> QED
    BY <1>6, <2>1
<1> QED
  BY <1>2, <1>3, <1>4, <1>5, <1>6, <1>7

\* The first n entries of a log.
LEMMA Prefix ==
  ASSUME NEW l \in Seq(Events), NEW n \in 0 .. Len(l), NEW m, m = SubSeq(l, 1, n)
  PROVE  m \in Seq(Events) /\ Len(m) = n /\ \A p \in 1 .. n : m[p] = l[p]
<1>1. Len(l) \in Nat /\ n \in Int
  BY LenProperties
<1>2. \A p \in 1 .. n : l[p] \in Events
  BY <1>1, ElementOfSeq
<1>3. /\ SubSeq(l, 1, n) \in Seq(Events)
      /\ Len(SubSeq(l, 1, n)) = IF 1 <= n THEN n - 1 + 1 ELSE 0
      /\ \A i \in 1 .. n - 1 + 1 : SubSeq(l, 1, n)[i] = l[1 + i - 1]
  BY <1>1, <1>2, SubSeqProperties
<1>4. Len(m) = n
  BY <1>1, <1>3
<1>5. ASSUME NEW p \in 1 .. n PROVE m[p] = l[p]
  <2>1. p \in 1 .. n - 1 + 1 /\ 1 + p - 1 = p
    BY <1>1
  <2> QED
    BY <1>3, <2>1
<1> QED
  BY <1>3, <1>4, <1>5

\* A prefix that ends in the first of two logs, or in the second.
LEMMA JoinedPrefix ==
  ASSUME NEW a \in Seq(Events), NEW b \in Seq(Events)
  PROVE  /\ \A n \in 0 .. Len(a) : SubSeq(a \o b, 1, n) = SubSeq(a, 1, n)
         /\ \A n \in 0 .. Len(b) :
              SubSeq(a \o b, 1, Len(a) + n) = a \o SubSeq(b, 1, n)
<1>1. PICK r : r = a \o b
  OBVIOUS
<1>2. /\ r \in Seq(Events)
      /\ Len(a) \in Nat /\ Len(b) \in Nat /\ Len(r) = Len(a) + Len(b)
      /\ \A p \in 1 .. Len(a) : r[p] = a[p]
      /\ \A i \in 1 .. Len(b) : r[Len(a) + i] = b[i]
  BY <1>1, Joined
<1>3. ASSUME NEW n \in 0 .. Len(a) PROVE SubSeq(r, 1, n) = SubSeq(a, 1, n)
  <2>1. PICK x, y : x = SubSeq(r, 1, n) /\ y = SubSeq(a, 1, n)
    OBVIOUS
  <2>2. n \in 0 .. Len(r)
    BY <1>2
  <2>3. x \in Seq(Events) /\ Len(x) = n /\ \A p \in 1 .. n : x[p] = r[p]
    BY <1>2, <2>1, <2>2, Prefix
  <2>4. y \in Seq(Events) /\ Len(y) = n /\ \A p \in 1 .. n : y[p] = a[p]
    BY <2>1, Prefix
  <2>5. \A p \in 1 .. n : x[p] = y[p]
    BY <1>2, <2>3, <2>4
  <2> QED
    BY <2>1, <2>3, <2>4, <2>5, SeqEqual
<1>4. ASSUME NEW n \in 0 .. Len(b)
      PROVE  SubSeq(r, 1, Len(a) + n) = a \o SubSeq(b, 1, n)
  <2>1. PICK x, y, z : /\ x = SubSeq(r, 1, Len(a) + n) /\ y = SubSeq(b, 1, n)
                       /\ z = a \o y
    OBVIOUS
  <2>2. Len(a) + n \in 0 .. Len(r)
    BY <1>2
  <2>3. /\ x \in Seq(Events) /\ Len(x) = Len(a) + n
        /\ \A p \in 1 .. Len(a) + n : x[p] = r[p]
    BY <1>2, <2>1, <2>2, Prefix
  <2>4. y \in Seq(Events) /\ Len(y) = n /\ \A p \in 1 .. n : y[p] = b[p]
    BY <2>1, Prefix
  <2>5. /\ z \in Seq(Events) /\ Len(z) = Len(a) + n
        /\ \A p \in 1 .. Len(a) : z[p] = a[p]
        /\ \A i \in 1 .. n : z[Len(a) + i] = y[i]
    BY <2>1, <2>4, Joined
  <2>6. ASSUME NEW p \in 1 .. Len(a) + n PROVE x[p] = z[p]
    <3>1. CASE p <= Len(a)
      <4>1. p \in 1 .. Len(a)
        BY <1>2, <3>1
      <4> QED
        BY <1>2, <2>3, <2>5, <4>1
    <3>2. CASE p > Len(a)
      <4>1. PICK i \in 1 .. n : p = Len(a) + i
        <5>1. p - Len(a) \in 1 .. n /\ p = Len(a) + (p - Len(a))
          BY <1>2, <3>2
        <5> QED
          BY <5>1
      <4>2. i \in 1 .. Len(b)
        BY <1>2
      <4>3. r[Len(a) + i] = b[i] /\ z[Len(a) + i] = y[i] /\ y[i] = b[i]
        BY <1>2, <2>4, <2>5, <4>2
      <4> QED
        BY <2>3, <4>1, <4>3
    <3> QED
      BY <1>2, <3>1, <3>2
  <2> QED
    BY <2>1, <2>3, <2>5, <2>6, SeqEqual
<1> QED
  BY <1>1, <1>3, <1>4

\* The whole of a log is a prefix of it, and so is nothing.
LEMMA EndPrefixes ==
  ASSUME NEW l \in Seq(Events)
  PROVE  SubSeq(l, 1, Len(l)) = l /\ SubSeq(l, 1, 0) = << >>
<1>1. PICK m, n : m = SubSeq(l, 1, Len(l)) /\ n = SubSeq(l, 1, 0)
  OBVIOUS
<1>2. Len(l) \in Nat /\ Len(l) \in 0 .. Len(l) /\ 0 \in 0 .. Len(l)
  BY LenProperties
<1>3. /\ m \in Seq(Events) /\ Len(m) = Len(l)
      /\ \A p \in 1 .. Len(l) : m[p] = l[p]
  BY <1>1, <1>2, Prefix
<1>4. n \in Seq(Events) /\ Len(n) = 0
  BY <1>1, <1>2, Prefix
<1>5. m = l
  BY <1>2, <1>3, SeqEqual
<1>6. n = << >>
  BY <1>4, EmptySeq
<1> QED
  BY <1>1, <1>5, <1>6

\* A command's rows put after two logs.
LEMMA JoinedAppended ==
  ASSUME NEW a \in Seq(Events), NEW b \in Seq(Events), NEW c \in Commands,
         NEW types \in Seq(Types), NEW base \in Nat
  PROVE  a \o Appended(b, c, types, base) = Appended(a \o b, c, types, base)
<1>1. PICK x : x = Stamped(c, types, base)
  OBVIOUS
<1>2. x \in Seq(Events)
  BY <1>1, StampedType
<1>3. (a \o b) \o x = a \o (b \o x)
  BY <1>2, ConcatAssociative
<1> QED
  BY <1>1, <1>3 DEF Appended

\* Two logs have the same rows of stream s in the same order: f takes each row
\* of l to the one of m.
Matching(f, l, m, s) ==
  /\ f \in [StreamOf(l, s) -> StreamOf(m, s)]
  /\ \A q \in StreamOf(m, s) : \E p \in StreamOf(l, s) : f[p] = q
  /\ \A p, q \in StreamOf(l, s) : p < q => f[p] < f[q]
  /\ \A p \in StreamOf(l, s) :
       m[f[p]].seq = l[p].seq /\ m[f[p]].type = l[p].type

\* They show the same stream.
LEMMA MatchingStreams ==
  ASSUME NEW l \in Seq(Events), NEW m \in Seq(Events), NEW s, Numbered(l, s),
         NEW f, Matching(f, l, m, s)
  PROVE  /\ Numbered(m, s)
         /\ Length(m, s) = Length(l, s)
         /\ History(m, s) = History(l, s)
<1>0. /\ f \in [StreamOf(l, s) -> StreamOf(m, s)]
      /\ \A q \in StreamOf(m, s) : \E p \in StreamOf(l, s) : f[p] = q
      /\ \A p, q \in StreamOf(l, s) : p < q => f[p] < f[q]
      /\ \A p \in StreamOf(l, s) :
           m[f[p]].seq = l[p].seq /\ m[f[p]].type = l[p].type
  BY DEF Matching
<1> USE <1>0
<1>1. /\ StreamOf(l, s) \subseteq 1 .. Len(l) /\ Len(l) \in Nat
      /\ StreamOf(m, s) \subseteq 1 .. Len(m) /\ Len(m) \in Nat
  BY StreamFinite, LenProperties
<1>2. ASSUME NEW p \in StreamOf(l, s), NEW q \in StreamOf(l, s), f[p] = f[q]
      PROVE  p = q
  <2>1. f[p] \in Nat /\ p \in Nat /\ q \in Nat
    BY <1>1
  <2>2. ~(p < q) /\ ~(q < p)
    BY <1>2, <2>1
  <2> QED
    BY <2>1, <2>2
<1>3. Length(m, s) = Length(l, s)
  <2>1. f \in Bijection(StreamOf(l, s), StreamOf(m, s))
    BY <1>2, Fun_IsBij
  <2>2. ExistsBijection(StreamOf(l, s), StreamOf(m, s))
    BY <2>1 DEF ExistsBijection
  <2>3. IsFiniteSet(StreamOf(l, s))
    BY StreamFinite
  <2> QED
    BY <2>2, <2>3, FS_Bijection DEF Length
<1>4. {m[q].seq : q \in StreamOf(m, s)} = {l[p].seq : p \in StreamOf(l, s)}
  OBVIOUS
<1>5. ASSUME NEW x \in StreamOf(m, s), NEW y \in StreamOf(m, s), x < y
      PROVE  m[x].seq < m[y].seq
  <2>1. PICK p \in StreamOf(l, s) : f[p] = x
    OBVIOUS
  <2>2. PICK q \in StreamOf(l, s) : f[q] = y
    OBVIOUS
  <2>3. ~(q < p) /\ p # q
    BY <1>1, <1>5, <2>1, <2>2
  <2>4. p < q
    BY <1>1, <2>3
  <2>5. l[p].seq < l[q].seq
    BY <2>4 DEF Numbered
  <2> QED
    BY <2>1, <2>2, <2>5
<1>6. Numbered(m, s)
  BY <1>3, <1>4, <1>5 DEF Numbered
<1>7. PICK h, g : h = History(l, s) /\ g = History(m, s)
  OBVIOUS
<1>8. /\ h \in Seq(Types) /\ Len(h) = Length(l, s)
      /\ g \in Seq(Types) /\ Len(g) = Length(l, s)
  BY <1>3, <1>6, <1>7, HistoryEntries
<1>9. ASSUME NEW n \in 1 .. Length(l, s) PROVE g[n] = h[n]
  <2>1. PICK p \in StreamOf(l, s) : l[p].seq = n
    BY HistoryEntries
  <2>2. h[n] = l[p].type
    BY <1>7, <2>1, HistoryEntries
  <2>3. f[p] \in StreamOf(m, s) /\ m[f[p]].seq = n /\ m[f[p]].type = l[p].type
    BY <2>1
  <2>4. g[m[f[p]].seq] = m[f[p]].type
    BY <1>6, <1>7, <2>3, HistoryEntries
  <2> QED
    BY <2>2, <2>3, <2>4
<1>10. g = h
  BY <1>8, <1>9, SeqEqual
<1> QED
  BY <1>3, <1>6, <1>7, <1>10

\* Entries of other streams put between two parts of a log do not show in a
\* stream of it ...
LEMMA InsertedForeign ==
  ASSUME NEW a \in Seq(Events), NEW r \in Seq(Events), NEW b \in Seq(Events),
         NEW s, StreamOf(r, s) = {}, Numbered(a \o b, s)
  PROVE  /\ Numbered((a \o r) \o b, s)
         /\ Length((a \o r) \o b, s) = Length(a \o b, s)
         /\ History((a \o r) \o b, s) = History(a \o b, s)
<1>1. PICK l, x, m : l = a \o b /\ x = a \o r /\ m = x \o b
  OBVIOUS
<1>2. PICK i, j, k : i = Len(a) /\ j = Len(r) /\ k = Len(b)
  OBVIOUS
<1>3. /\ i \in Nat /\ j \in Nat /\ k \in Nat
      /\ l \in Seq(Events) /\ Len(l) = i + k /\ DOMAIN l = 1 .. i + k
      /\ \A p \in 1 .. i : l[p] = a[p]
      /\ \A p \in 1 .. k : l[i + p] = b[p]
  BY <1>1, <1>2, Joined
<1>4. /\ x \in Seq(Events) /\ Len(x) = i + j
      /\ \A p \in 1 .. i : x[p] = a[p]
      /\ \A p \in 1 .. j : x[i + p] = r[p]
      /\ DOMAIN r = 1 .. j
  BY <1>1, <1>2, Joined
<1>5. /\ m \in Seq(Events) /\ DOMAIN m = 1 .. (i + j) + k
      /\ \A p \in 1 .. i + j : m[p] = x[p]
      /\ \A p \in 1 .. k : m[(i + j) + p] = b[p]
  BY <1>1, <1>2, <1>4, Joined
<1>6. ASSUME NEW p \in 1 .. i PROVE m[p] = l[p]
  <2>1. p \in 1 .. i + j
    BY <1>3
  <2> QED
    BY <1>3, <1>4, <1>5, <2>1
<1>7. ASSUME NEW p \in 1 .. k PROVE m[(i + j) + p] = l[i + p]
  BY <1>3, <1>5
<1>8. ASSUME NEW p \in 1 .. j PROVE m[i + p].stream # s
  <2>1. i + p \in 1 .. i + j
    BY <1>3
  <2>2. m[i + p] = r[p]
    BY <1>4, <1>5, <2>1
  <2> QED
    BY <1>4, <2>2 DEF StreamOf
<1>9. StreamOf(l, s) \subseteq 1 .. i + k /\ StreamOf(m, s) \subseteq 1 .. (i + j) + k
  BY <1>3, <1>5 DEF StreamOf
<1> DEFINE f == [p \in StreamOf(l, s) |-> IF p <= i THEN p ELSE p + j]
<1>10. ASSUME NEW p \in StreamOf(l, s)
       PROVE  f[p] \in StreamOf(m, s) /\ m[f[p]] = l[p]
  <2>1. CASE p <= i
    <3>1. p \in 1 .. i /\ p \in 1 .. (i + j) + k /\ f[p] = p
      BY <1>3, <1>9, <2>1
    <3>2. m[p] = l[p]
      BY <1>6, <3>1
    <3> QED
      BY <1>5, <3>1, <3>2 DEF StreamOf
  <2>2. CASE p > i
    <3>1. /\ p - i \in 1 .. k /\ i + (p - i) = p /\ (i + j) + (p - i) = p + j
          /\ p + j \in 1 .. (i + j) + k /\ f[p] = p + j
      BY <1>3, <1>9, <2>2
    <3>2. m[(i + j) + (p - i)] = l[i + (p - i)]
      BY <1>7, <3>1
    <3>3. m[p + j] = l[p]
      BY <3>1, <3>2
    <3> QED
      BY <1>5, <3>1, <3>3 DEF StreamOf
  <2> QED
    BY <1>3, <1>9, <2>1, <2>2
<1>11. ASSUME NEW q \in StreamOf(m, s)
       PROVE  \E p \in StreamOf(l, s) : f[p] = q
  <2>1. q \in 1 .. (i + j) + k /\ m[q].stream = s
    BY <1>9 DEF StreamOf
  <2>2. CASE q <= i
    <3>1. q \in 1 .. i /\ q \in 1 .. i + k
      BY <1>3, <2>1, <2>2
    <3>2. q \in StreamOf(l, s)
      BY <1>3, <1>6, <2>1, <3>1 DEF StreamOf
    <3> QED
      BY <2>2, <3>2
  <2>3. CASE q > i /\ q <= i + j
    <3>1. q - i \in 1 .. j /\ i + (q - i) = q
      BY <1>3, <2>1, <2>3
    <3> QED
      BY <1>8, <2>1, <3>1
  <2>4. CASE q > i + j
    <3>1. /\ q - (i + j) \in 1 .. k /\ (i + j) + (q - (i + j)) = q
          /\ i + (q - (i + j)) = q - j /\ q - j \in 1 .. i + k
          /\ ~(q - j <= i) /\ (q - j) + j = q
      BY <1>3, <2>1, <2>4
    <3>2. m[(i + j) + (q - (i + j))] = l[i + (q - (i + j))]
      BY <1>7, <3>1
    <3>3. m[q] = l[q - j]
      BY <3>1, <3>2
    <3>4. q - j \in StreamOf(l, s)
      BY <1>3, <2>1, <3>1, <3>3 DEF StreamOf
    <3>5. f[q - j] = q
      BY <3>1, <3>4
    <3> QED
      BY <3>4, <3>5
  <2> QED
    BY <1>3, <2>1, <2>2, <2>3, <2>4
<1>12. ASSUME NEW p \in StreamOf(l, s), NEW q \in StreamOf(l, s), p < q
       PROVE  f[p] < f[q]
  BY <1>3, <1>9, <1>12
<1>13. f \in [StreamOf(l, s) -> StreamOf(m, s)]
  BY <1>10
<1>14. \A p \in StreamOf(l, s) : m[f[p]].seq = l[p].seq /\ m[f[p]].type = l[p].type
  BY <1>10
<1>15. Numbered(l, s)
  BY <1>1
<1>16. PICK g : g = f
  OBVIOUS
<1> HIDE DEF f
<1>17. g \in [StreamOf(l, s) -> StreamOf(m, s)]
  BY <1>13, <1>16
<1>18. \A q \in StreamOf(m, s) : \E p \in StreamOf(l, s) : g[p] = q
  BY <1>11, <1>16
<1>19. \A p, q \in StreamOf(l, s) : p < q => g[p] < g[q]
  BY <1>12, <1>16
<1>20. \A p \in StreamOf(l, s) :
         m[g[p]].seq = l[p].seq /\ m[g[p]].type = l[p].type
  BY <1>14, <1>16
<1>21. l \in Seq(Events) /\ m \in Seq(Events)
  BY <1>3, <1>5
<1>22. Matching(g, l, m, s)
  BY <1>17, <1>18, <1>19, <1>20 DEF Matching
<1>23. /\ Numbered(m, s) /\ Length(m, s) = Length(l, s)
       /\ History(m, s) = History(l, s)
  BY <1>15, <1>21, <1>22, MatchingStreams
<1> QED
  BY <1>1, <1>23

\* ... nor do entries of other streams after it.
LEMMA ForeignTail ==
  ASSUME NEW a \in Seq(Events), NEW b \in Seq(Events), NEW s,
         StreamOf(b, s) = {}, Numbered(a, s)
  PROVE  /\ Numbered(a \o b, s)
         /\ Length(a \o b, s) = Length(a, s)
         /\ History(a \o b, s) = History(a, s)
<1>1. PICK e : e = << >>
  OBVIOUS
<1>2. e \in Seq(Events) /\ a \o e = a
  BY <1>1, ConcatEmptySeq, EmptySeq
<1>3. a \o b \in Seq(Events)
  BY ConcatProperties
<1>4. (a \o b) \o e = a \o b
  BY <1>1, <1>3, ConcatEmptySeq
<1>5. Numbered(a \o e, s)
  BY <1>2
<1>6. /\ Numbered((a \o b) \o e, s)
      /\ Length((a \o b) \o e, s) = Length(a \o e, s)
      /\ History((a \o b) \o e, s) = History(a \o e, s)
  <2>1. \A x, y, z \in Seq(Events) :
          StreamOf(y, s) = {} /\ Numbered(x \o z, s) =>
            /\ Numbered((x \o y) \o z, s)
            /\ Length((x \o y) \o z, s) = Length(x \o z, s)
            /\ History((x \o y) \o z, s) = History(x \o z, s)
    BY InsertedForeign
  <2> QED
    BY <1>2, <1>5, <2>1, Zenon
<1> QED
  BY <1>2, <1>4, <1>6, Zenon

\* The rows of a command in two logs put together.
LEMMA JoinedRowsOf ==
  ASSUME NEW a \in Seq(Events), NEW b \in Seq(Events), NEW c
  PROVE  /\ RowsOf(a \o b, c) = RowsOf(a, c) \cup {Len(a) + i : i \in RowsOf(b, c)}
         /\ RowsOf(a, c) \subseteq 1 .. Len(a)
         /\ RowsOf(b, c) \subseteq 1 .. Len(b)
<1>1. PICK r : r = a \o b
  OBVIOUS
<1>2. /\ Len(a) \in Nat /\ Len(b) \in Nat
      /\ DOMAIN a = 1 .. Len(a) /\ DOMAIN b = 1 .. Len(b)
      /\ DOMAIN r = 1 .. Len(a) + Len(b)
      /\ \A p \in 1 .. Len(a) : r[p] = a[p]
      /\ \A i \in 1 .. Len(b) : r[Len(a) + i] = b[i]
  BY <1>1, Joined
<1>3. RowsOf(a, c) \subseteq 1 .. Len(a) /\ RowsOf(b, c) \subseteq 1 .. Len(b)
  BY <1>2 DEF RowsOf
<1>4. ASSUME NEW p \in RowsOf(r, c)
      PROVE  p \in RowsOf(a, c) \cup {Len(a) + i : i \in RowsOf(b, c)}
  <2>1. p \in 1 .. Len(a) + Len(b) /\ r[p].by = c
    BY <1>2 DEF RowsOf
  <2>2. CASE p <= Len(a)
    <3>1. p \in 1 .. Len(a)
      BY <1>2, <2>1, <2>2
    <3> QED
      BY <1>2, <2>1, <3>1 DEF RowsOf
  <2>3. CASE p > Len(a)
    <3>1. PICK i \in 1 .. Len(b) : p = Len(a) + i
      <4>1. p - Len(a) \in 1 .. Len(b) /\ p = Len(a) + (p - Len(a))
        BY <1>2, <2>1, <2>3
      <4> QED
        BY <4>1
    <3>2. i \in RowsOf(b, c)
      BY <1>2, <2>1, <3>1 DEF RowsOf
    <3> QED
      BY <3>1, <3>2
  <2> QED
    BY <1>2, <2>1, <2>2, <2>3
<1>5. ASSUME NEW p \in RowsOf(a, c) PROVE p \in RowsOf(r, c)
  <2>1. p \in 1 .. Len(a) /\ p \in 1 .. Len(a) + Len(b)
    BY <1>2, <1>3
  <2> QED
    BY <1>2, <2>1 DEF RowsOf
<1>6. ASSUME NEW i \in RowsOf(b, c) PROVE Len(a) + i \in RowsOf(r, c)
  <2>1. i \in 1 .. Len(b) /\ Len(a) + i \in 1 .. Len(a) + Len(b)
    BY <1>2, <1>3
  <2> QED
    BY <1>2, <2>1 DEF RowsOf
<1>7. RowsOf(r, c) = RowsOf(a, c) \cup {Len(a) + i : i \in RowsOf(b, c)}
  BY <1>4, <1>5, <1>6
<1> QED
  BY <1>1, <1>3, <1>7

\* What the second log holds of a command the first knows nothing of, the two
\* together hold.
LEMMA JoinedHolds ==
  ASSUME NEW a \in Seq(Events), NEW b \in Seq(Events), NEW c, RowsOf(a, c) = {},
         NEW types \in Seq(Types), Holds(b, c, types)
  PROVE  Holds(a \o b, c, types)
<1>1. PICK r : r = a \o b
  OBVIOUS
<1>2. /\ Len(a) \in Nat /\ Len(b) \in Nat /\ Len(r) = Len(a) + Len(b)
      /\ \A i \in 1 .. Len(b) : r[Len(a) + i] = b[i]
  BY <1>1, Joined
<1>3. Len(types) \in Nat
  BY LenProperties
<1>4. PICK base \in 0 .. Len(b) - Len(types) :
        /\ RowsOf(b, c) = base + 1 .. base + Len(types)
        /\ \A i \in 1 .. Len(types) : b[base + i].type = types[i]
  BY DEF Holds
<1>5. PICK n : n = Len(a) + base
  OBVIOUS
<1>6. n \in 0 .. Len(r) - Len(types)
  BY <1>2, <1>3, <1>5
<1>7. RowsOf(r, c) = n + 1 .. n + Len(types)
  <2>1. RowsOf(r, c) = {Len(a) + i : i \in base + 1 .. base + Len(types)}
    <3>1. RowsOf(r, c) = {} \cup {Len(a) + i : i \in RowsOf(b, c)}
      BY <1>1, JoinedRowsOf, ZenonT(40)
    <3>2. RowsOf(r, c) = {Len(a) + i : i \in RowsOf(b, c)}
      BY <3>1
    <3> QED
      BY <1>4, <3>2, Zenon
  <2>2. ASSUME NEW p \in n + 1 .. n + Len(types)
        PROVE  p \in {Len(a) + i : i \in base + 1 .. base + Len(types)}
    <3>1. /\ p - Len(a) \in base + 1 .. base + Len(types)
          /\ p = Len(a) + (p - Len(a))
      BY <1>2, <1>3, <1>5
    <3> QED
      BY <3>1
  <2>3. ASSUME NEW i \in base + 1 .. base + Len(types)
        PROVE  Len(a) + i \in n + 1 .. n + Len(types)
    BY <1>2, <1>3, <1>5
  <2> QED
    BY <2>1, <2>2, <2>3
<1>8. ASSUME NEW i \in 1 .. Len(types) PROVE r[n + i].type = types[i]
  <2>1. base + i \in 1 .. Len(b) /\ n + i = Len(a) + (base + i)
    BY <1>2, <1>3, <1>4, <1>5
  <2>2. r[n + i] = b[base + i]
    BY <1>2, <2>1
  <2> QED
    BY <1>4, <2>2
<1> QED
  BY <1>1, <1>6, <1>7, <1>8 DEF Holds
=============================================================================
