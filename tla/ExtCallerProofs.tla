-------------------------- MODULE ExtCallerProofs --------------------------
(***************************************************************************)
(* Proofs about ExtCaller, for every log, set of responses, number of      *)
(* attempts and number of faults: its types, that the consumer's           *)
(* checkpoint never passes work that nobody will do, that an answer is     *)
(* asked for again only after a fault, and that the follow-ups of an event *)
(* are of one answer.                                                      *)
(*                                                                         *)
(* The invariant follows an entry's work.  Once the third party answered,  *)
(* the work names a response it gave and the follow-ups before the next    *)
(* one are applied, in the entry as in the worker's hand; a recorded 200   *)
(* means the follow-up is applied; an entry is taken out of the outbox only*)
(* when its event is settled.                                              *)
(***************************************************************************)
EXTENDS ExtCaller, SequenceTheorems, FiniteSetTheorems, TLAPS

FollowUp(e, i, r) == [event |-> e, index |-> i, resp |-> r]

Settled(e) == e \in dead \/ e \in unlisted \/ Completed(e)

\* The work w of e: a response was given and what precedes w.next is applied.
Begun(e, w) ==
  /\ w.resp \in Responses /\ w.resp \in Range(answers[e])
  /\ w.next \in 1 .. FollowUps[w.resp]
  /\ \A i \in 1 .. w.next - 1 : FollowUp(e, i, w.resp) \in Range(applied)

BoxInv ==
  \A e \in Matching : box[e] # None /\ box[e].called => Begun(e, box[e])

HandInv ==
  hand # None =>
    /\ box[hand.event] # None
    /\ hand.step # "done" /\ hand.work.called => Begun(hand.event, hand.work)
    /\ hand.step = "dispatch" => hand.work.called
    /\ hand.step = "done" => Settled(hand.event)

RecordsInv ==
  \A e \in Matching, i \in Indices :
    records[<<e, i>>] # None /\ records[<<e, i>>].status = 200
      => FollowUp(e, i, records[<<e, i>>].resp) \in Range(applied)

Kept(e) == box[e] # None \/ Settled(e)

KeptInv ==
  \A e \in Matching :
    e <= checkpoint \/ (recorded /\ e = checkpoint + 1) => Kept(e)

RecordedInv == recorded => checkpoint < LogLen

IInv == TypeOK /\ BoxInv /\ HandInv /\ RecordsInv /\ KeptInv /\ RecordedInv

-----------------------------------------------------------------------------
(* What is applied, answered and dead-lettered stays so.                   *)

LEMMA RangeAppend ==
  ASSUME NEW S, NEW s \in Seq(S), NEW x \in S
  PROVE  /\ Append(s, x) \in Seq(S)
         /\ Range(Append(s, x)) = Range(s) \cup {x}
<1>1. Append(s, x) \in Seq(S) /\ Len(Append(s, x)) = Len(s) + 1
  OBVIOUS
<1>2. \A i \in 1 .. Len(s) : Append(s, x)[i] = s[i]
  OBVIOUS
<1>3. Append(s, x)[Len(s) + 1] = x
  OBVIOUS
<1>4. Range(Append(s, x)) = {Append(s, x)[i] : i \in 1 .. Len(s) + 1}
  BY <1>1 DEF Range
<1>5. Range(s) = {s[i] : i \in 1 .. Len(s)}
  BY DEF Range
<1>6. Len(s) \in Nat
  OBVIOUS
<1>7. Range(Append(s, x)) \subseteq Range(s) \cup {x}
  BY <1>2, <1>3, <1>4, <1>5, <1>6
<1>8. Range(s) \cup {x} \subseteq Range(Append(s, x))
  BY <1>2, <1>3, <1>4, <1>5, <1>6
<1> QED
  BY <1>1, <1>7, <1>8

Grows ==
  /\ Range(applied) \subseteq Range(applied)'
  /\ \A e \in Matching : Range(answers[e]) \subseteq Range(answers[e])'
  /\ dead \subseteq dead' /\ unlisted \subseteq unlisted'

LEMMA StaysBegun ==
  ASSUME Grows, NEW e \in Matching, NEW w, Begun(e, w)
  PROVE  Begun(e, w)'
BY DEF Grows, Begun

LEMMA StaysSettled ==
  ASSUME Grows, NEW e \in Matching, Settled(e)
  PROVE  Settled(e)'
<1>1. CASE e \in dead \/ e \in unlisted
  BY <1>1 DEF Grows, Settled
<1>2. CASE Completed(e)
  BY <1>2 DEF Grows, Settled, Completed
<1> QED
  BY <1>1, <1>2 DEF Settled

\* A step that only lets these grow keeps what the invariant says of the
\* parts that it leaves alone.
LEMMA BoxSame ==
  ASSUME IInv, Grows, UNCHANGED box PROVE BoxInv'
<1>1. ASSUME NEW e \in Matching, box'[e] # None, box'[e].called
      PROVE  Begun(e, box[e])'
  <2>1. Begun(e, box[e])
    BY <1>1 DEF IInv, BoxInv
  <2>2. PICK w : w = box[e]
    OBVIOUS
  <2>3. Begun(e, w)'
    BY <2>1, <2>2, StaysBegun
  <2>4. w = box'[e]
    BY <2>2
  <2> QED
    BY <2>3, <2>4 DEF Begun
<1> QED
  BY <1>1 DEF BoxInv

LEMMA KeptSame ==
  ASSUME IInv, Grows, UNCHANGED <<consumer, box>> PROVE KeptInv'
<1>1. ASSUME NEW e \in Matching, Kept(e) PROVE Kept(e)'
  BY <1>1, StaysSettled DEF Kept
<1> QED
  BY <1>1 DEF IInv, KeptInv, consumer

LEMMA RecordsSame ==
  ASSUME IInv, Grows, UNCHANGED records PROVE RecordsInv'
BY DEF IInv, RecordsInv, Grows

LEMMA HandSame ==
  ASSUME IInv, Grows, UNCHANGED <<hand, box>> PROVE HandInv'
<1> SUFFICES ASSUME hand # None PROVE HandInv'
  BY DEF HandInv
<1>1. PICK e \in Matching, w \in Works : e = hand.event /\ w = hand.work
  BY DEF IInv, TypeOK, Hands
<1>2. box[e] # None
  BY <1>1 DEF IInv, HandInv
<1>3. hand.step # "done" /\ w.called => Begun(e, w)'
  BY <1>1, StaysBegun DEF IInv, HandInv
<1>4. hand.step = "done" => Settled(e)'
  BY <1>1, StaysSettled DEF IInv, HandInv
<1>5. hand.step = "dispatch" => w.called
  BY <1>1 DEF IInv, HandInv
<1>6. e = hand'.event /\ w = hand'.work /\ hand'.step = hand.step
  BY <1>1
<1> HIDE DEF Begun, Settled
<1>7. hand'.step # "done" /\ hand'.work.called => Begun(hand.event, hand.work)'
  BY <1>3, <1>6 DEF Begun
<1> QED
  BY <1>1, <1>2, <1>4, <1>5, <1>6, <1>7 DEF HandInv

-----------------------------------------------------------------------------
(* Types, and the parts of the work in hand.                               *)

LEMMA HandParts ==
  ASSUME TypeOK, hand # None
  PROVE  /\ hand \in Hands /\ hand.event \in Matching /\ hand.work \in Works
         /\ hand.step \in {"call", "dispatch", "again", "giveUp", "done"}
         /\ hand = [event |-> hand.event, work |-> hand.work, step |-> hand.step]
BY DEF TypeOK, Hands

LEMMA WorkParts ==
  ASSUME NEW w \in Works
  PROVE  /\ w # None
         /\ w.called \in BOOLEAN /\ w.resp \in Responses \cup {None}
         /\ w.next \in Indices \cup {1} /\ w.tries \in 0 .. MaxAttempts - 1
BY NoneAssumption DEF Works

\* Goes and Gives leave the entry's event.
LEMMA GoesParts ==
  ASSUME TypeOK, hand # None, NEW w, NEW step, Goes(w, step)
  PROVE  hand' = [event |-> hand.event, work |-> w, step |-> step]
<1>1. hand = [event |-> hand.event, work |-> hand.work, step |-> hand.step]
  BY HandParts
<1> QED
  BY <1>1 DEF Goes

LEMMA GivesParts ==
  ASSUME TypeOK, hand # None, NEW up \in BOOLEAN, Gives(up)
  PROVE  hand' = [event |-> hand.event, work |-> hand.work,
                  step |-> IF up THEN "giveUp" ELSE "done"]
<1>1. hand = [event |-> hand.event, work |-> hand.work, step |-> hand.step]
  BY HandParts
<1> QED
  BY <1>1 DEF Gives

\* A try more, within the bound, or none.
LEMMA RetryParts ==
  ASSUME TypeOK, hand # None, Retry(hand.work)
  PROVE  \E w \in Works :
           /\ w.called = hand.work.called /\ w.resp = hand.work.resp
           /\ w.next = hand.work.next
           /\ \E step \in {"giveUp", "again"} :
                hand' = [event |-> hand.event, work |-> w, step |-> step]
<1> DEFINE h == hand.work
<1>1. h \in Works
  BY HandParts
<1>2. MaxAttempts \in Nat \ {0}
  BY ExtCallerAssumption
<1>3. CASE h.tries + 1 >= MaxAttempts
  <2>1. Gives(TRUE)
    BY <1>3 DEF Retry
  <2>2. hand' = [event |-> hand.event, work |-> h, step |-> "giveUp"]
    BY <2>1, GivesParts
  <2> QED
    BY <1>1, <2>2
<1>4. CASE ~(h.tries + 1 >= MaxAttempts)
  <2>1. PICK w : w = [h EXCEPT !.tries = @ + 1]
    OBVIOUS
  <2>2. Goes(w, "again")
    BY <1>4, <2>1 DEF Retry
  <2>3. hand' = [event |-> hand.event, work |-> w, step |-> "again"]
    BY <2>2, GoesParts
  <2>4. h.tries \in 0 .. MaxAttempts - 1
    BY <1>1, WorkParts
  <2>5. h.tries + 1 \in 0 .. MaxAttempts - 1
    BY <1>2, <1>4, <2>4
  <2>6. /\ w \in Works
        /\ w.called = h.called /\ w.resp = h.resp /\ w.next = h.next
    BY <1>1, <2>1, <2>5 DEF Works
  <2> QED
    BY <2>3, <2>6
<1> QED
  BY <1>3, <1>4

\* What the worker dispatches: the next follow-up of a response that was given.
LEMMA CommandParts ==
  ASSUME IInv, At("dispatch")
  PROVE  /\ hand # None /\ hand.event \in Matching /\ hand.work \in Works
         /\ Begun(hand.event, hand.work)
         /\ hand.work.next \in Indices
         /\ Command = FollowUp(hand.event, hand.work.next, hand.work.resp)
         /\ Command \in FollowUpCommands
         /\ KeyOf(Command) = <<hand.event, hand.work.next>>
         /\ <<hand.event, hand.work.next>> \in Matching \X Indices
         /\ Command.resp = hand.work.resp
         /\ Command.event = hand.event
<1>1. hand # None /\ hand.step = "dispatch"
  BY DEF At
<1>2. hand.event \in Matching /\ hand.work \in Works
  BY <1>1, HandParts DEF IInv
<1>3. Begun(hand.event, hand.work)
  BY <1>1 DEF IInv, HandInv
<1>4. hand.work.next \in Indices /\ hand.work.resp \in Responses
  BY <1>3 DEF Begun, Indices
<1> QED
  BY <1>1, <1>2, <1>3, <1>4 DEF Command, FollowUp, FollowUpCommands, KeyOf

\* When the next follow-up is applied, the work goes on to the one after it,
\* or is done and its event settled.
LEMMA DispatchedKeeps ==
  ASSUME IInv, At("dispatch"), Dispatched, Grows, UNCHANGED box,
         Command \in Range(applied)'
  PROVE  HandInv' /\ hand' \in Hands
<1>1. PICK e \in Matching, w \in Works :
        /\ hand # None /\ e = hand.event /\ w = hand.work /\ Begun(e, w)
        /\ Command = FollowUp(e, w.next, w.resp)
  BY CommandParts
<1>2. /\ w.resp \in Responses /\ w.resp \in Range(answers[e])'
      /\ w.next \in 1 .. FollowUps[w.resp] /\ FollowUps[w.resp] \in Nat
  <2>1. w.resp \in Responses /\ w.next \in 1 .. FollowUps[w.resp]
    BY <1>1 DEF Begun
  <2>2. w.resp \in Range(answers[e])'
    BY <1>1 DEF Begun, Grows
  <2> QED
    BY <2>1, <2>2, ExtCallerAssumption
<1>3. \A i \in 1 .. w.next : FollowUp(e, i, w.resp) \in Range(applied)'
  <2>1. ASSUME NEW i \in 1 .. w.next PROVE FollowUp(e, i, w.resp) \in Range(applied)'
    <3>1. CASE i = w.next
      BY <1>1, <3>1
    <3>2. CASE i # w.next
      <4>1. i \in 1 .. w.next - 1
        BY <1>2, <3>2
      <4> QED
        BY <1>1, <4>1 DEF Begun, Grows
    <3> QED
      BY <3>1, <3>2
  <2> QED
    BY <2>1
<1>4. box'[e] # None
  BY <1>1 DEF IInv, HandInv
<1>5. CASE w.next = FollowUps[w.resp]
  <2>1. Gives(FALSE)
    BY <1>1, <1>5 DEF Dispatched
  <2>2. hand' = [event |-> e, work |-> w, step |-> "done"]
    BY <1>1, <2>1, GivesParts DEF IInv
  <2>3. Completed(e)'
    BY <1>2, <1>3, <1>5 DEF Completed, FollowUp
  <2>4. hand'.event = e /\ hand'.step = "done" /\ hand' \in Hands
    BY <1>1, <2>2 DEF Hands
  <2>5. Settled(e)'
    BY <2>3 DEF Settled
  <2>6. Settled(hand.event)'
    BY <2>4, <2>5 DEF Settled, Completed
  <2> QED
    BY <1>4, <2>4, <2>6 DEF HandInv
<1>6. CASE w.next # FollowUps[w.resp]
  <2>1. PICK n : n = w.next + 1
    OBVIOUS
  <2>2. PICK u : u = [w EXCEPT !.next = n]
    OBVIOUS
  <2>3. Goes(u, "dispatch")
    BY <1>1, <1>6, <2>1, <2>2 DEF Dispatched
  <2>4. hand' = [event |-> e, work |-> u, step |-> "dispatch"]
    BY <1>1, <2>3, GoesParts DEF IInv
  <2>5. n \in 1 .. FollowUps[w.resp] /\ n - 1 = w.next
    BY <1>2, <1>6, <2>1
  <2>6. n \in Indices
    BY <1>2, <2>5 DEF Indices
  <2>7. /\ u \in Works /\ u.resp = w.resp /\ u.next = n /\ u.called = w.called
    BY <1>1, <2>2, <2>6 DEF Works
  <2>8. Begun(e, u)'
    BY <1>2, <1>3, <2>5, <2>7 DEF Begun
  <2>9. w.called
    BY <1>1 DEF IInv, HandInv, At
  <2>10. hand'.event = e /\ hand'.step = "dispatch" /\ hand'.work = u /\ hand' \in Hands
    BY <1>1, <2>4, <2>7 DEF Hands
  <2>11. Begun(hand.event, hand.work)'
    BY <2>8, <2>10 DEF Begun
  <2> QED
    BY <1>4, <2>7, <2>9, <2>10, <2>11 DEF HandInv
<1> QED
  BY <1>5, <1>6

\* A try that is put off, or the last one, keeps the work as it is.
LEMMA RetryKeeps ==
  ASSUME IInv, hand # None, hand.step # "done", Retry(hand.work) \/ Gives(TRUE),
         Grows, UNCHANGED box
  PROVE  HandInv' /\ hand' \in Hands
<1>1. PICK e \in Matching, w \in Works : e = hand.event /\ w = hand.work
  BY HandParts DEF IInv
<1>2. w.called => Begun(e, w)
  BY <1>1 DEF IInv, HandInv
<1>3. PICK u \in Works, step \in {"giveUp", "again"} :
        /\ u.called = w.called /\ u.resp = w.resp /\ u.next = w.next
        /\ hand' = [event |-> e, work |-> u, step |-> step]
  <2>1. CASE Retry(hand.work)
    BY <1>1, <2>1, RetryParts DEF IInv
  <2>2. CASE Gives(TRUE)
    <3>1. hand' = [event |-> e, work |-> w, step |-> "giveUp"]
      BY <1>1, <2>2, GivesParts DEF IInv
    <3> QED
      BY <1>1, <3>1
  <2> QED
    BY <2>1, <2>2
<1>4. u.called => Begun(e, u)'
  <2>1. Begun(e, w) => Begun(e, u)
    BY <1>3 DEF Begun
  <2> QED
    BY <1>1, <1>2, <1>3, <2>1, StaysBegun
<1>5. box'[e] # None
  BY <1>1 DEF IInv, HandInv
<1>6. hand'.event = e /\ hand'.step = step /\ hand'.work = u /\ hand' \in Hands
  BY <1>1, <1>3 DEF Hands
<1>7. hand'.work.called => Begun(hand.event, hand.work)'
  BY <1>4, <1>6 DEF Begun
<1> QED
  BY <1>5, <1>6, <1>7 DEF HandInv

-----------------------------------------------------------------------------
(* Every step keeps the invariant.                                         *)

LEMMA InitIInv == Init => IInv
<1> SUFFICES ASSUME Init PROVE IInv
  OBVIOUS
<1>1. MaxAttempts \in Nat \ {0} /\ LogLen \in Nat /\ MaxFaults \in Nat
  BY ExtCallerAssumption
<1>2. TypeOK
  <2>1. << >> \in Seq(FollowUpCommands) /\ << >> \in Seq(Responses)
    OBVIOUS
  <2>2. records \in [Matching \X Indices -> Records \cup {None}]
    BY DEF Init
  <2>3. answers \in [Matching -> Seq(Responses)]
    BY <2>1 DEF Init
  <2>4. box \in [Matching -> Works \cup {None}]
    BY DEF Init
  <2>5. checkpoint \in 0 .. LogLen /\ faults \in 0 .. MaxFaults
    BY <1>1 DEF Init
  <2>6. late \in Seq(FollowUpCommands) /\ applied \in Seq(FollowUpCommands)
    BY <2>1 DEF Init
  <2> QED
    BY <2>2, <2>3, <2>4, <2>5, <2>6 DEF Init, TypeOK
<1>3. BoxInv /\ HandInv /\ RecordsInv
  BY DEF Init, BoxInv, HandInv, RecordsInv
<1>4. KeptInv /\ RecordedInv
  BY <1>1, ExtCallerAssumption DEF Init, KeptInv, RecordedInv
<1> QED
  BY <1>2, <1>3, <1>4 DEF IInv

LEMMA SameGrows ==
  ASSUME UNCHANGED <<applied, answers, dead, unlisted>> PROVE Grows
BY DEF Grows

\* What is left to show of a step that only moves the hand.
LEMMA HandMoves ==
  ASSUME IInv, HandInv', hand' \in Hands \cup {None},
         UNCHANGED <<consumer, box, letters, via, gateway, answers>>,
         faults' \in 0 .. MaxFaults
  PROVE  IInv'
<1>1. UNCHANGED <<checkpoint, recorded, box, dead, unlisted, via, records, late,
                  applied, unrecorded, answers>>
  BY DEF consumer, letters, gateway
<1>2. Grows
  BY <1>1, SameGrows
<1>3. BoxInv' /\ KeptInv' /\ RecordsInv'
  BY <1>1, <1>2, BoxSame, KeptSame, RecordsSame
<1>4. TypeOK' /\ RecordedInv'
  BY <1>1 DEF IInv, TypeOK, RecordedInv
<1> QED
  BY <1>3, <1>4 DEF IInv

LEMMA FaultBound ==
  ASSUME TypeOK, Fault PROVE faults' \in 0 .. MaxFaults
BY ExtCallerAssumption DEF TypeOK, Fault

LEMMA ApplyKeeps == ASSUME IInv, Apply PROVE IInv'
<1>1. /\ ~recorded /\ recorded' = TRUE /\ checkpoint < LogLen
      /\ UNCHANGED <<checkpoint, hand, dead, unlisted, via, records, late,
                     applied, unrecorded, answers, faults>>
  BY DEF Apply, letters, gateway
<1>2. Grows /\ RecordedInv'
  BY <1>1, SameGrows DEF RecordedInv
<1>3. CASE UNCHANGED box /\ checkpoint + 1 \notin Matching
  <2>1. BoxInv' /\ HandInv' /\ RecordsInv'
    BY <1>1, <1>2, <1>3, BoxSame, HandSame, RecordsSame
  <2>2. TypeOK'
    BY <1>1, <1>3 DEF IInv, TypeOK
  <2>3. ASSUME NEW e \in Matching, Kept(e) PROVE Kept(e)'
    BY <1>2, <1>3, <2>3, StaysSettled DEF Kept
  <2>4. KeptInv'
    BY <1>1, <1>3, <2>3 DEF IInv, KeptInv
  <2> QED
    BY <1>2, <2>1, <2>2, <2>4 DEF IInv
<1>4. CASE checkpoint + 1 \in Matching /\ Enqueue(checkpoint + 1)
  <2> DEFINE fresh == [called |-> FALSE, resp |-> None, next |-> 1, tries |-> 0]
  <2>1. PICK n \in Matching : n = checkpoint + 1
    BY <1>4
  <2>2. fresh \in Works /\ ~fresh.called /\ fresh # None
    <3>1. 0 \in 0 .. MaxAttempts - 1
      BY ExtCallerAssumption
    <3>2. fresh \in Works
      BY <3>1 DEF Works
    <3>3. fresh # None
      BY <3>2, NoneAssumption
    <3> QED
      BY <3>2, <3>3
  <2>3. box' = [box EXCEPT ![n] = IF @ # None THEN @ ELSE fresh]
    BY <1>4, <2>1 DEF Enqueue
  <2>4. box \in [Matching -> Works \cup {None}]
    BY DEF IInv, TypeOK
  <2>5. /\ box' \in [Matching -> Works \cup {None}]
        /\ \A e \in Matching : box[e] # None => box'[e] = box[e]
        /\ \A e \in Matching : box[e] = None => box'[e] = None \/ box'[e] = fresh
        /\ box'[n] # None
    BY <2>2, <2>3, <2>4
  <2> HIDE DEF fresh
  <2>6. TypeOK'
    BY <1>1, <2>5 DEF IInv, TypeOK
  <2>7. BoxInv'
    <3>1. ASSUME NEW e \in Matching, box'[e] # None, box'[e].called
          PROVE  Begun(e, box[e])'
      <4>1. box[e] # None /\ box'[e] = box[e]
        BY <2>2, <2>5, <3>1
      <4>2. Begun(e, box[e])
        BY <3>1, <4>1 DEF IInv, BoxInv
      <4> QED
        BY <1>1, <4>1, <4>2 DEF Begun
    <3> QED
      BY <3>1 DEF BoxInv
  <2>8. HandInv'
    <3>1. hand # None => hand.event \in Matching /\ box'[hand.event] # None
      BY <2>5, HandParts DEF IInv, HandInv
    <3>2. hand # None /\ hand.step # "done" /\ hand.work.called
            => Begun(hand.event, hand.work)'
      BY <1>1 DEF IInv, HandInv, Begun
    <3>3. hand # None /\ hand.step = "done" => Settled(hand.event)'
      BY <1>1 DEF IInv, HandInv, Settled, Completed
    <3> QED
      BY <1>1, <3>1, <3>2, <3>3 DEF HandInv, IInv
  <2>9. RecordsInv'
    BY <1>1, <1>2, RecordsSame
  <2>10. KeptInv'
    <3>1. ASSUME NEW e \in Matching, Kept(e) PROVE Kept(e)'
      BY <1>2, <2>5, <3>1, StaysSettled DEF Kept
    <3>2. Kept(n)'
      BY <2>5 DEF Kept
    <3> QED
      BY <1>1, <2>1, <3>1, <3>2 DEF IInv, KeptInv
  <2> QED
    BY <1>2, <2>6, <2>7, <2>8, <2>9, <2>10 DEF IInv
<1> QED
  BY <1>3, <1>4 DEF Apply

LEMMA SaveCheckpointKeeps == ASSUME IInv, SaveCheckpoint PROVE IInv'
<1>1. /\ recorded /\ recorded' = FALSE
      /\ UNCHANGED <<box, hand, dead, unlisted, via, records, late, applied,
                     unrecorded, answers>>
  BY DEF SaveCheckpoint, letters, gateway
<1>2. Grows
  BY <1>1, SameGrows
<1>3. BoxInv' /\ HandInv' /\ RecordsInv'
  BY <1>1, <1>2, BoxSame, HandSame, RecordsSame
<1>4. checkpoint' \in {checkpoint, checkpoint + 1} /\ faults' \in 0 .. MaxFaults
  BY FaultBound DEF SaveCheckpoint, IInv, TypeOK
<1>5. checkpoint' \in 0 .. LogLen
  <2>1. checkpoint \in 0 .. LogLen /\ LogLen \in Nat
    BY ExtCallerAssumption DEF IInv, TypeOK
  <2> QED
    BY <1>4, <2>1 DEF SaveCheckpoint, IInv, RecordedInv
<1>6. TypeOK'
  BY <1>1, <1>4, <1>5 DEF IInv, TypeOK
<1>7. KeptInv'
  <2>1. ASSUME NEW e \in Matching, Kept(e) PROVE Kept(e)'
    BY <1>1, <1>2, <2>1, StaysSettled DEF Kept
  <2>2. ASSUME NEW e \in Matching, e <= checkpoint'
        PROVE  e <= checkpoint \/ (recorded /\ e = checkpoint + 1)
    <3>1. e \in Nat /\ checkpoint \in Nat
      BY ExtCallerAssumption DEF IInv, TypeOK
    <3> QED
      BY <1>1, <1>4, <2>2, <3>1
  <2> QED
    BY <1>1, <2>1, <2>2 DEF IInv, KeptInv
<1> QED
  BY <1>1, <1>3, <1>6, <1>7 DEF IInv, RecordedInv

LEMMA TakeKeeps == ASSUME IInv, NEW e \in Matching, Take(e) PROVE IInv'
<1>1. /\ box[e] # None
      /\ UNCHANGED <<consumer, box, letters, via, gateway, answers, faults>>
  BY DEF Take
<1>2. PICK w \in Works : w = box[e]
  BY <1>1 DEF IInv, TypeOK
<1>3. hand' = [event |-> e, work |-> w,
               step |-> IF w.called THEN "dispatch" ELSE "call"]
  BY <1>2 DEF Take
<1>4. Grows /\ UNCHANGED <<box, answers, applied>>
  BY <1>1, SameGrows DEF letters, gateway
<1>5. w.called => Begun(e, w)'
  BY <1>1, <1>2, <1>4, StaysBegun DEF IInv, BoxInv
<1>6. /\ hand' \in Hands /\ hand'.event = e /\ hand'.work = w
      /\ hand'.step # "done" /\ (hand'.step = "dispatch" => w.called)
  <2>1. CASE w.called
    BY <1>3, <2>1 DEF Hands
  <2>2. CASE ~w.called
    BY <1>3, <2>2 DEF Hands
  <2> QED
    BY <2>1, <2>2
<1>7. hand'.work.called => Begun(hand.event, hand.work)'
  BY <1>5, <1>6 DEF Begun
<1>8. HandInv'
  BY <1>1, <1>6, <1>7 DEF HandInv
<1>9. faults' \in 0 .. MaxFaults
  BY <1>1 DEF IInv, TypeOK
<1> QED
  BY <1>1, <1>6, <1>8, <1>9, HandMoves

\* A step that puts the work off, or gives it up.
LEMMA PutOffKeeps ==
  ASSUME IInv, hand # None, hand.step # "done", Retry(hand.work) \/ Gives(TRUE),
         UNCHANGED <<consumer, box, letters, via, gateway, answers, faults>>
  PROVE  IInv'
<1>1. Grows
  BY SameGrows DEF letters, gateway
<1>2. HandInv' /\ hand' \in Hands
  BY <1>1, RetryKeeps
<1>3. faults' \in 0 .. MaxFaults
  BY DEF IInv, TypeOK
<1> QED
  BY <1>2, <1>3, HandMoves

LEMMA CallFailsKeeps == ASSUME IInv, CallFails PROVE IInv'
BY PutOffKeeps DEF CallFails, At

LEMMA UnavailableKeeps == ASSUME IInv, Unavailable PROVE IInv'
BY PutOffKeeps DEF Unavailable, At

LEMMA RejectKeeps == ASSUME IInv, Reject PROVE IInv'
BY PutOffKeeps DEF Reject, At

LEMMA CallAnsweredKeeps ==
  ASSUME IInv, NEW r \in Responses, CallAnswered(r) PROVE IInv'
<1>1. PICK e \in Matching : e = hand.event /\ hand # None
  BY HandParts DEF IInv, CallAnswered, At
<1>2. PICK w : w = [called |-> TRUE, resp |-> r, next |-> 1, tries |-> 0]
  OBVIOUS
<1>3. PICK step : step = IF FollowUps[r] = 0 THEN "done" ELSE "dispatch"
  OBVIOUS
<1>4. Goes(w, step) /\ UNCHANGED <<consumer, box, letters, via, gateway, faults>>
  BY <1>2, <1>3 DEF CallAnswered
<1>5. hand' = [event |-> e, work |-> w, step |-> step]
  BY <1>1, <1>4, GoesParts DEF IInv
<1>6. w \in Works /\ w.called /\ w.resp = r /\ w.next = 1
  <2>1. 0 \in 0 .. MaxAttempts - 1
    BY ExtCallerAssumption
  <2> QED
    BY <1>2, <2>1 DEF Works
<1>7. /\ hand' \in Hands /\ hand'.event = e /\ hand'.work = w /\ hand'.step = step
  BY <1>3, <1>5, <1>6 DEF Hands
<1>8. /\ answers' = [answers EXCEPT ![e] = Append(@, r)]
      /\ answers \in [Matching -> Seq(Responses)]
  BY <1>1 DEF CallAnswered, IInv, TypeOK
<1>9. PICK s \in Seq(Responses) : s = answers[e]
  BY <1>8
<1>10. Append(s, r) \in Seq(Responses) /\ Range(Append(s, r)) = Range(s) \cup {r}
  BY RangeAppend
<1>11. /\ answers' \in [Matching -> Seq(Responses)]
       /\ answers'[e] = Append(s, r)
       /\ \A d \in Matching : d # e => answers'[d] = answers[d]
  BY <1>8, <1>9, <1>10
<1>12. r \in Range(answers'[e])
  BY <1>10, <1>11
<1>13. UNCHANGED <<applied, dead, unlisted, box>>
  BY <1>4 DEF letters, gateway
<1>14. Grows
  <2>1. ASSUME NEW d \in Matching PROVE Range(answers[d]) \subseteq Range(answers'[d])
    <3>1. CASE d = e
      BY <1>9, <1>10, <1>11, <3>1
    <3>2. CASE d # e
      BY <1>11, <3>2
    <3> QED
      BY <3>1, <3>2
  <2> QED
    BY <1>13, <2>1 DEF Grows
<1>15. FollowUps[r] \in Nat
  BY ExtCallerAssumption
<1>16. step = "dispatch" => Begun(hand.event, hand.work)'
  <2>1. ASSUME step = "dispatch" PROVE Begun(e, w)'
    BY <1>3, <1>6, <1>12, <1>15, <2>1 DEF Begun
  <2> QED
    BY <1>7, <2>1 DEF Begun
<1>17. step = "done" => Settled(hand.event)'
  <2>1. ASSUME step = "done" PROVE Completed(e)'
    <3>1. FollowUps[r] = 0
      BY <1>3, <2>1
    <3> QED
      BY <1>12, <3>1 DEF Completed
  <2>2. step = "done" => Completed(hand.event)'
    BY <1>7, <2>1 DEF Completed
  <2> QED
    BY <2>2 DEF Settled
<1>18. HandInv'
  <2>1. box'[hand'.event] # None
    BY <1>1, <1>7, <1>13 DEF IInv, HandInv
  <2>2. step \in {"dispatch", "done"}
    BY <1>3
  <2> QED
    BY <1>6, <1>7, <1>16, <1>17, <2>1, <2>2 DEF HandInv
<1>19. BoxInv' /\ KeptInv' /\ RecordsInv'
  BY <1>4, <1>14, BoxSame, KeptSame, RecordsSame DEF gateway
<1>20. TypeOK' /\ RecordedInv'
  BY <1>4, <1>7, <1>11 DEF IInv, TypeOK, RecordedInv, consumer, letters, gateway
<1> QED
  BY <1>18, <1>19, <1>20 DEF IInv

LEMMA LookupKeeps == ASSUME IInv, Lookup PROVE IInv'
<1>1. /\ At("dispatch") /\ RecordOf(Command) # None
      /\ UNCHANGED <<consumer, box, letters, via, gateway, answers, faults>>
  BY DEF Lookup
<1>2. CASE Retry(hand.work) \/ Gives(TRUE)
  BY <1>1, <1>2, PutOffKeeps DEF At
<1>3. CASE /\ RecordOf(Command).resp = Command.resp
           /\ RecordOf(Command).status = 200 /\ Dispatched
  <2>1. PICK e \in Matching, i \in Indices :
          /\ e = hand.event /\ i = hand.work.next
          /\ Command = FollowUp(e, i, Command.resp) /\ KeyOf(Command) = <<e, i>>
    BY <1>1, CommandParts
  <2>2. FollowUp(e, i, records[<<e, i>>].resp) \in Range(applied)
    BY <1>1, <1>3, <2>1 DEF RecordOf, IInv, RecordsInv
  <2>3. Command \in Range(applied)'
    BY <1>1, <1>3, <2>1, <2>2 DEF RecordOf, gateway
  <2>4. Grows
    BY <1>1, SameGrows DEF letters, gateway
  <2>5. HandInv' /\ hand' \in Hands
    BY <1>1, <1>3, <2>3, <2>4, DispatchedKeeps
  <2>6. faults' \in 0 .. MaxFaults
    BY <1>1 DEF IInv, TypeOK
  <2> QED
    BY <1>1, <2>5, <2>6, HandMoves
<1> QED
  BY <1>2, <1>3 DEF Lookup

\* What a saved record leaves of the others.
LEMMA SavedParts ==
  ASSUME IInv, At("dispatch"), NEW status \in {200, 409}, Saved(Command, status)
  PROVE  /\ records' \in [Matching \X Indices -> Records \cup {None}]
         /\ \E k \in Matching \X Indices :
              /\ k = <<hand.event, hand.work.next>>
              /\ records'[k] = [resp |-> Command.resp, status |-> status]
              /\ \A j \in Matching \X Indices : j # k => records'[j] = records[j]
<1>1. PICK k \in Matching \X Indices :
        k = <<hand.event, hand.work.next>> /\ KeyOf(Command) = k
  BY CommandParts
<1>2. Command.resp \in Responses
  BY CommandParts DEF FollowUpCommands
<1>3. records' = [records EXCEPT ![k] = [resp |-> Command.resp, status |-> status]]
  BY <1>1 DEF Saved
<1>4. records \in [Matching \X Indices -> Records \cup {None}]
  BY DEF IInv, TypeOK
<1> QED
  BY <1>1, <1>2, <1>3, <1>4 DEF Records

LEMMA AcceptKeeps == ASSUME IInv, Accept PROVE IInv'
<1>1. /\ At("dispatch") /\ hand # None /\ hand.step # "done"
      /\ UNCHANGED <<checkpoint, recorded, box, dead, unlisted, via, late, answers>>
      /\ applied' = Append(applied, Command)
  BY DEF Accept, At, consumer, letters
<1>2. PICK e \in Matching, i \in Indices, f \in FollowUpCommands :
        /\ e = hand.event /\ i = hand.work.next /\ f = Command
        /\ f = FollowUp(e, i, f.resp)
  BY <1>1, CommandParts
<1>3. /\ applied' \in Seq(FollowUpCommands)
      /\ Range(applied') = Range(applied) \cup {f}
  <2>1. applied \in Seq(FollowUpCommands)
    BY DEF IInv, TypeOK
  <2>2. PICK s \in Seq(FollowUpCommands) : s = applied
    BY <2>1
  <2>3. applied' = Append(s, f)
    BY <1>1, <1>2, <2>2
  <2> QED
    BY <2>2, <2>3, RangeAppend
<1>4. Grows /\ Command \in Range(applied)'
  BY <1>1, <1>2, <1>3 DEF Grows
<1>5. Retry(hand.work) \/ Dispatched
  BY DEF Accept
<1>6. HandInv' /\ hand' \in Hands
  <2>1. CASE Retry(hand.work)
    BY <1>1, <1>4, <2>1, RetryKeeps
  <2>2. CASE Dispatched
    BY <1>1, <1>4, <2>2, DispatchedKeeps
  <2> QED
    BY <1>5, <2>1, <2>2
<1>7. BoxInv' /\ KeptInv'
  BY <1>1, <1>4, BoxSame, KeptSame DEF consumer
<1>8. faults' \in 0 .. MaxFaults
  BY FaultBound DEF Accept, IInv, TypeOK
<1>9. unrecorded' \subseteq Matching
  BY <1>2 DEF Accept, IInv, TypeOK
<1>10. CASE Saved(Command, 200)
  <2>1. /\ records' \in [Matching \X Indices -> Records \cup {None}]
        /\ \E k \in Matching \X Indices :
             /\ k = <<e, i>>
             /\ records'[k] = [resp |-> f.resp, status |-> 200]
             /\ \A j \in Matching \X Indices : j # k => records'[j] = records[j]
    BY <1>1, <1>2, <1>10, SavedParts
  <2>2. RecordsInv'
    <3>1. ASSUME NEW d \in Matching, NEW n \in Indices,
                 records'[<<d, n>>] # None, records'[<<d, n>>].status = 200
          PROVE  FollowUp(d, n, records'[<<d, n>>].resp) \in Range(applied')
      <4>1. CASE <<d, n>> = <<e, i>>
        <5>1. records'[<<d, n>>].resp = f.resp /\ d = e /\ n = i
          BY <2>1, <4>1
        <5> QED
          BY <1>2, <1>3, <5>1
      <4>2. CASE <<d, n>> # <<e, i>>
        <5>1. records'[<<d, n>>] = records[<<d, n>>]
          BY <2>1, <4>2
        <5> QED
          BY <1>3, <3>1, <5>1 DEF IInv, RecordsInv
      <4> QED
        BY <4>1, <4>2
    <3> QED
      BY <3>1 DEF RecordsInv
  <2>3. TypeOK' /\ RecordedInv'
    BY <1>1, <1>3, <1>6, <1>8, <1>9, <2>1 DEF IInv, TypeOK, RecordedInv
  <2> QED
    BY <1>6, <1>7, <2>2, <2>3 DEF IInv
<1>11. CASE UNCHANGED records
  <2>1. RecordsInv'
    BY <1>4, <1>11, RecordsSame
  <2>2. TypeOK' /\ RecordedInv'
    BY <1>1, <1>3, <1>6, <1>8, <1>9, <1>11 DEF IInv, TypeOK, RecordedInv
  <2> QED
    BY <1>6, <1>7, <2>1, <2>2 DEF IInv
<1> QED
  BY <1>10, <1>11 DEF Accept

LEMMA ConflictKeeps == ASSUME IInv, Conflict PROVE IInv'
<1>1. /\ At("dispatch") /\ hand # None /\ hand.step # "done" /\ Retry(hand.work)
      /\ UNCHANGED <<checkpoint, recorded, box, dead, unlisted, via, late, applied,
                     unrecorded, answers, faults>>
  BY DEF Conflict, At, consumer, letters
<1>2. Grows
  BY <1>1, SameGrows
<1>3. HandInv' /\ hand' \in Hands
  BY <1>1, <1>2, RetryKeeps
<1>4. BoxInv' /\ KeptInv'
  BY <1>1, <1>2, BoxSame, KeptSame DEF consumer
<1>5. Saved(Command, 409)
  BY DEF Conflict
<1>6. PICK k \in Matching \X Indices :
        /\ records'[k] = [resp |-> Command.resp, status |-> 409]
        /\ \A j \in Matching \X Indices : j # k => records'[j] = records[j]
  BY <1>1, <1>5, SavedParts
<1>7. RecordsInv'
  <2>1. ASSUME NEW d \in Matching, NEW n \in Indices,
               records'[<<d, n>>] # None, records'[<<d, n>>].status = 200
        PROVE  FollowUp(d, n, records'[<<d, n>>].resp) \in Range(applied')
    <3>1. <<d, n>> # k
      BY <1>6, <2>1
    <3>2. records'[<<d, n>>] = records[<<d, n>>]
      BY <1>6, <3>1
    <3> QED
      BY <1>1, <2>1, <3>2 DEF IInv, RecordsInv
  <2> QED
    BY <2>1 DEF RecordsInv
<1>8. TypeOK' /\ RecordedInv'
  BY <1>1, <1>3, <1>5, SavedParts DEF IInv, TypeOK, RecordedInv
<1> QED
  BY <1>3, <1>4, <1>7, <1>8 DEF IInv

LEMMA TimeoutKeeps == ASSUME IInv, Timeout PROVE IInv'
<1>1. /\ At("dispatch") /\ hand # None /\ hand.step # "done" /\ Retry(hand.work)
      /\ UNCHANGED <<checkpoint, recorded, box, dead, unlisted, via, records,
                     applied, unrecorded, answers>>
      /\ late' = Append(late, Command)
  BY DEF Timeout, At, consumer, letters
<1>2. Grows
  BY <1>1, SameGrows
<1>3. HandInv' /\ hand' \in Hands
  BY <1>1, <1>2, RetryKeeps
<1>4. BoxInv' /\ KeptInv' /\ RecordsInv'
  BY <1>1, <1>2, BoxSame, KeptSame, RecordsSame DEF consumer
<1>5. late' \in Seq(FollowUpCommands)
  <2>1. Command \in FollowUpCommands /\ late \in Seq(FollowUpCommands)
    BY <1>1, CommandParts DEF IInv, TypeOK
  <2> QED
    BY <1>1, <2>1
<1>6. faults' \in 0 .. MaxFaults
  BY FaultBound DEF Timeout, IInv
<1>7. TypeOK' /\ RecordedInv'
  BY <1>1, <1>3, <1>5, <1>6 DEF IInv, TypeOK, RecordedInv
<1> QED
  BY <1>3, <1>4, <1>7 DEF IInv

LEMMA LateApplyKeeps == ASSUME IInv, LateApply PROVE IInv'
<1>1. /\ late # << >> /\ late' = Tail(late)
      /\ UNCHANGED <<checkpoint, recorded, box, hand, dead, unlisted, via, records,
                     answers, faults>>
  BY DEF LateApply, consumer, letters
<1>2. PICK q \in Seq(FollowUpCommands) : q = late
  BY DEF IInv, TypeOK
<1>3. q # << >> /\ Head(q) \in FollowUpCommands /\ Tail(q) \in Seq(FollowUpCommands)
  BY <1>1, <1>2
<1>4. PICK f \in FollowUpCommands : f = Head(late)
  BY <1>2, <1>3
<1>5. PICK s \in Seq(FollowUpCommands) : s = applied
  BY DEF IInv, TypeOK
<1>6. \/ applied' = Append(s, f) /\ unrecorded' = unrecorded \cup {f.event}
      \/ applied' = s /\ unrecorded' = unrecorded
  BY <1>4, <1>5 DEF LateApply
<1>7. applied' \in Seq(FollowUpCommands) /\ Range(s) \subseteq Range(applied')
  <2>1. Append(s, f) \in Seq(FollowUpCommands) /\ Range(s) \subseteq Range(Append(s, f))
    BY RangeAppend
  <2> QED
    BY <1>6, <2>1
<1>8. Grows
  BY <1>1, <1>5, <1>7 DEF Grows
<1>9. BoxInv' /\ HandInv' /\ KeptInv' /\ RecordsInv'
  BY <1>1, <1>8, BoxSame, HandSame, KeptSame, RecordsSame DEF consumer
<1>10. unrecorded' \subseteq Matching
  BY <1>6 DEF IInv, TypeOK, FollowUpCommands
<1>11. TypeOK' /\ RecordedInv'
  BY <1>1, <1>2, <1>3, <1>7, <1>10 DEF IInv, TypeOK, RecordedInv
<1> QED
  BY <1>9, <1>11 DEF IInv

LEMMA PruneKeeps ==
  ASSUME IInv, NEW k \in Matching \X Indices, Prune(k) PROVE IInv'
<1>1. /\ records' = [records EXCEPT ![k] = None]
      /\ UNCHANGED <<checkpoint, recorded, box, hand, dead, unlisted, via, late,
                     applied, answers, faults>>
  BY DEF Prune, consumer, letters
<1>2. Grows
  BY <1>1, SameGrows
<1>3. BoxInv' /\ HandInv' /\ KeptInv'
  BY <1>1, <1>2, BoxSame, HandSame, KeptSame DEF consumer
<1>4. records \in [Matching \X Indices -> Records \cup {None}]
  BY DEF IInv, TypeOK
<1>5. /\ records' \in [Matching \X Indices -> Records \cup {None}]
      /\ \A j \in Matching \X Indices : records'[j] # None => records'[j] = records[j]
  BY <1>1, <1>4
<1>6. RecordsInv'
  <2>1. ASSUME NEW e \in Matching, NEW i \in Indices, records'[<<e, i>>] # None
        PROVE  records'[<<e, i>>] = records[<<e, i>>]
    BY <1>5, <2>1
  <2> QED
    BY <1>1, <2>1 DEF IInv, RecordsInv
<1>7. unrecorded' \subseteq Matching
  BY DEF Prune, IInv, TypeOK
<1>8. TypeOK' /\ RecordedInv'
  BY <1>1, <1>5, <1>7 DEF IInv, TypeOK, RecordedInv
<1> QED
  BY <1>3, <1>6, <1>8 DEF IInv

LEMMA DeadLetterKeeps == ASSUME IInv, DeadLetter PROVE IInv'
<1>1. /\ hand # None /\ Gives(FALSE)
      /\ UNCHANGED <<checkpoint, recorded, box, via, records, late, applied,
                     unrecorded, answers>>
  BY DEF DeadLetter, At, consumer, gateway
<1>2. PICK e \in Matching, w \in Works : e = hand.event /\ w = hand.work
  BY <1>1, HandParts DEF IInv
<1>3. hand' = [event |-> e, work |-> w, step |-> "done"]
  BY <1>1, <1>2, GivesParts DEF IInv
<1>4. /\ hand' \in Hands /\ hand'.event = e /\ hand'.step = "done"
  BY <1>3 DEF Hands
<1>5. /\ e \in dead' \/ e \in unlisted'
      /\ dead \subseteq dead' /\ unlisted \subseteq unlisted'
      /\ dead' \subseteq Matching /\ unlisted' \subseteq Matching
  BY <1>2 DEF DeadLetter, IInv, TypeOK
<1>6. Grows
  BY <1>1, <1>5 DEF Grows
<1>7. Settled(hand.event)'
  BY <1>4, <1>5 DEF Settled
<1>8. HandInv'
  BY <1>1, <1>2, <1>4, <1>7 DEF IInv, HandInv
<1>9. BoxInv' /\ KeptInv' /\ RecordsInv'
  BY <1>1, <1>6, BoxSame, KeptSame, RecordsSame DEF consumer
<1>10. faults' \in 0 .. MaxFaults
  BY FaultBound DEF DeadLetter, IInv, TypeOK
<1>11. TypeOK' /\ RecordedInv'
  BY <1>1, <1>4, <1>5, <1>10 DEF IInv, TypeOK, RecordedInv
<1> QED
  BY <1>8, <1>9, <1>11 DEF IInv

\* A step that ends with the hand empty and the entry of e as it should be.
LEMMA PutBackKeeps ==
  ASSUME IInv, hand' = None, NEW e \in Matching, NEW w \in Works \cup {None},
         box' = [box EXCEPT ![e] = w],
         w # None /\ w.called => Begun(e, w), w = None => Settled(e),
         UNCHANGED <<checkpoint, letters, via, gateway, answers>>,
         recorded' \in BOOLEAN, recorded' => recorded, faults' \in 0 .. MaxFaults
  PROVE  IInv'
<1>1. UNCHANGED <<checkpoint, dead, unlisted, via, records, late, applied, unrecorded,
                  answers>>
  BY DEF letters, gateway
<1>2. Grows /\ HandInv'
  BY <1>1, SameGrows DEF HandInv
<1>3. box \in [Matching -> Works \cup {None}]
  BY DEF IInv, TypeOK
<1>4. /\ box' \in [Matching -> Works \cup {None}] /\ box'[e] = w
      /\ \A d \in Matching : d # e => box'[d] = box[d]
  BY <1>3
<1>5. BoxInv'
  <2>1. ASSUME NEW d \in Matching, NEW u \in Works, u = box'[d], u.called
        PROVE  Begun(d, u)'
    <3>1. CASE d = e
      BY <1>2, <1>4, <2>1, <3>1, WorkParts, StaysBegun
    <3>2. CASE d # e
      <4>1. u = box[d] /\ u # None
        BY <1>4, <2>1, <3>2, WorkParts
      <4>2. Begun(d, u)
        BY <2>1, <4>1 DEF IInv, BoxInv
      <4> QED
        BY <1>2, <4>2, StaysBegun
    <3> QED
      BY <3>1, <3>2
  <2>2. ASSUME NEW d \in Matching, box'[d] # None, box'[d].called
        PROVE  Begun(d, box[d])'
    <3>1. PICK u \in Works : u = box'[d]
      BY <1>4, <2>2
    <3>2. Begun(d, u)'
      BY <2>1, <2>2, <3>1
    <3> QED
      BY <3>1, <3>2 DEF Begun
  <2> QED
    BY <2>2 DEF BoxInv
<1>6. RecordsInv'
  BY <1>1, <1>2, RecordsSame
<1>7. KeptInv'
  <2>1. ASSUME NEW d \in Matching, Kept(d) PROVE Kept(d)'
    <3>1. CASE d = e
      <4>1. w = None => Settled(e)'
        BY <1>2, StaysSettled
      <4> QED
        BY <1>4, <3>1, <4>1 DEF Kept
    <3>2. CASE d # e
      BY <1>2, <1>4, <2>1, <3>2, StaysSettled DEF Kept
    <3> QED
      BY <3>1, <3>2
  <2> QED
    BY <2>1 DEF IInv, KeptInv
<1>8. RecordedInv'
  BY <1>1 DEF IInv, RecordedInv
<1>9. TypeOK'
  BY <1>1, <1>4 DEF IInv, TypeOK
<1> QED
  BY <1>2, <1>5, <1>6, <1>7, <1>8, <1>9 DEF IInv

\* The same with the outbox as it is.
LEMMA LetGoKeeps ==
  ASSUME IInv, hand' = None, UNCHANGED <<checkpoint, box, letters, via, gateway, answers>>,
         recorded' \in BOOLEAN, recorded' => recorded, faults' \in 0 .. MaxFaults
  PROVE  IInv'
<1>1. UNCHANGED <<checkpoint, dead, unlisted, via, records, late, applied, unrecorded,
                  answers>>
  BY DEF letters, gateway
<1>2. Grows /\ HandInv'
  BY <1>1, SameGrows DEF HandInv
<1>3. BoxInv' /\ RecordsInv'
  BY <1>1, <1>2, BoxSame, RecordsSame
<1>4. ASSUME NEW d \in Matching, Kept(d) PROVE Kept(d)'
  BY <1>2, <1>4, StaysSettled DEF Kept
<1>5. KeptInv'
  BY <1>4 DEF IInv, KeptInv
<1>6. RecordedInv'
  BY <1>1 DEF IInv, RecordedInv
<1>7. TypeOK'
  BY <1>1 DEF IInv, TypeOK
<1> QED
  BY <1>2, <1>3, <1>5, <1>6, <1>7 DEF IInv

LEMMA DoneKeeps == ASSUME IInv, Done PROVE IInv'
<1>1. PICK e \in Matching : e = hand.event /\ Settled(e)
  BY HandParts DEF IInv, HandInv, Done, At
<1>2. /\ hand' = None /\ recorded' \in BOOLEAN /\ (recorded' => recorded)
      /\ UNCHANGED <<checkpoint, letters, via, gateway, answers>>
      /\ faults' \in 0 .. MaxFaults
  BY FaultBound DEF Done, IInv, TypeOK, consumer
<1>3. CASE box' = [box EXCEPT ![hand.event] = None]
  <2>1. PICK w \in Works \cup {None} : w = None
    OBVIOUS
  <2>2. box' = [box EXCEPT ![e] = w]
    BY <1>1, <1>3, <2>1
  <2> QED
    BY <1>1, <1>2, <2>1, <2>2, PutBackKeeps
<1>4. CASE UNCHANGED box
  BY <1>2, <1>4, LetGoKeeps
<1> QED
  BY <1>3, <1>4 DEF Done

LEMMA RescheduleKeeps == ASSUME IInv, Reschedule PROVE IInv'
<1>1. PICK e \in Matching, w \in Works :
        e = hand.event /\ w = hand.work /\ (w.called => Begun(e, w))
  BY HandParts DEF IInv, HandInv, Reschedule, At
<1>2. /\ hand' = None /\ recorded' \in BOOLEAN /\ (recorded' => recorded)
      /\ UNCHANGED <<checkpoint, letters, via, gateway, answers>>
      /\ faults' \in 0 .. MaxFaults
  BY FaultBound DEF Reschedule, IInv, TypeOK, consumer
<1>3. CASE box' = [box EXCEPT ![hand.event] = hand.work]
  BY <1>1, <1>2, <1>3, WorkParts, PutBackKeeps
<1>4. CASE UNCHANGED box
  BY <1>2, <1>4, LetGoKeeps
<1> QED
  BY <1>3, <1>4 DEF Reschedule

LEMMA CrashKeeps == ASSUME IInv, Crash PROVE IInv'
<1>1. faults' \in 0 .. MaxFaults
  BY FaultBound DEF Crash, IInv
<1> QED
  BY <1>1, LetGoKeeps DEF Crash

LEMMA NextIInv == IInv /\ [Next]_vars => IInv'
<1> SUFFICES ASSUME IInv, [Next]_vars PROVE IInv'
  OBVIOUS
<1>1. CASE Engine
  BY <1>1, ApplyKeeps, SaveCheckpointKeeps DEF Engine
<1>2. CASE Worker
  <2>1. CASE \E e \in Matching : Take(e)
    BY <2>1, TakeKeeps
  <2>2. CASE \E r \in Responses : CallAnswered(r)
    BY <2>2, CallAnsweredKeeps
  <2>3. CASE Dispatch
    BY <2>3, UnavailableKeeps, LookupKeeps, AcceptKeeps, RejectKeeps,
       ConflictKeeps, TimeoutKeeps DEF Dispatch
  <2>4. CASE CallFails \/ DeadLetter \/ Done \/ Reschedule
    BY <2>4, CallFailsKeeps, DeadLetterKeeps, DoneKeeps, RescheduleKeeps
  <2> QED
    BY <1>2, <2>1, <2>2, <2>3, <2>4 DEF Worker
<1>3. CASE LateApply \/ \E k \in Matching \X Indices : Prune(k)
  BY <1>3, LateApplyKeeps, PruneKeeps
<1>4. CASE Crash
  BY <1>4, CrashKeeps
<1>5. CASE UNCHANGED vars
  <2>1. /\ UNCHANGED <<checkpoint, recorded, box, hand, dead, unlisted, via, records,
                       late, applied, unrecorded, answers, faults>>
    BY <1>5 DEF vars
  <2>2. Grows
    BY <2>1, SameGrows
  <2>3. BoxInv' /\ HandInv' /\ KeptInv' /\ RecordsInv'
    BY <2>1, <2>2, BoxSame, HandSame, KeptSame, RecordsSame DEF consumer
  <2>4. TypeOK' /\ RecordedInv'
    BY <2>1 DEF IInv, TypeOK, RecordedInv
  <2> QED
    BY <2>3, <2>4 DEF IInv
<1> QED
  BY <1>1, <1>2, <1>3, <1>4, <1>5 DEF Next

LEMMA AlwaysIInv == Spec => []IInv
BY InitIInv, NextIInv, PTL DEF Spec

-----------------------------------------------------------------------------
(* The theorems.                                                           *)

\* Every state is one the program can store: an entry, a record or a queued
\* follow-up is never half made.
THEOREM TypeCorrect == Spec => []TypeOK
<1>1. IInv => TypeOK
  BY DEF IInv
<1> QED
  BY <1>1, AlwaysIInv, PTL

\* The consumer's checkpoint never passes an event whose work is lost: it is
\* still in the outbox, it was given up in the open, or all the follow-ups of
\* one of the third party's answers are applied.
THEOREM CheckpointKeepsWork == Spec => []WorkIsKept
<1>1. IInv => WorkIsKept
  BY DEF IInv, KeptInv, Kept, Settled, WorkIsKept
<1> QED
  BY <1>1, AlwaysIInv, PTL
-----------------------------------------------------------------------------
(* How often the third party is asked.                                     *)

\* Before the call the work in hand is the entry's, and once the entry is
\* called so is the work.
CallInv ==
  hand # None =>
    /\ hand.step = "call" => ~hand.work.called
    /\ box[hand.event].called => hand.work.called

\* e's entry may still cause a call ...
MayCall(e) ==
  /\ box[e] # None /\ ~box[e].called
  /\ ~(hand # None /\ hand.event = e /\ hand.work.called)

\* ... and its delivery may still create one.
MayEnter(e) == e > checkpoint /\ ~(recorded /\ e = checkpoint + 1)

One(b) == IF b THEN 1 ELSE 0

\* The answers e had, and those it can get without another fault.
AnswersInv ==
  \A e \in Matching :
    Len(answers[e]) + One(MayCall(e)) + One(MayEnter(e)) <= 1 + 2 * faults


LEMMA InitAsked == Init => CallInv /\ AnswersInv
<1> SUFFICES ASSUME Init PROVE CallInv /\ AnswersInv
  OBVIOUS
<1>1. CallInv
  BY DEF Init, CallInv
<1>2. ASSUME NEW e \in Matching
      PROVE  Len(answers[e]) + One(MayCall(e)) + One(MayEnter(e)) <= 1 + 2 * faults
  <2>1. Len(answers[e]) = 0 /\ faults = 0
    BY DEF Init
  <2>2. One(MayCall(e)) = 0
    BY DEF Init, MayCall, One
  <2>3. One(MayEnter(e)) \in {0, 1}
    BY DEF One
  <2> QED
    BY <2>1, <2>2, <2>3
<1> QED
  BY <1>1, <1>2 DEF AnswersInv

\* A step that makes no third party answer keeps the count, if what may come
\* of it grows only with the faults.
LEMMA AskedKeeps ==
  ASSUME TypeOK, AnswersInv, UNCHANGED answers, faults' \in 0 .. MaxFaults,
         \/ /\ faults' = faults + 1
         \/ /\ faults' = faults
            /\ \A e \in Matching :
                 \/ /\ MayCall(e)' => MayCall(e)
                    /\ MayEnter(e)' => MayEnter(e)
                 \/ MayEnter(e) /\ ~MayEnter(e)'
  PROVE  AnswersInv'
<1> SUFFICES ASSUME NEW e \in Matching
             PROVE  Len(answers[e])' + One(MayCall(e)') + One(MayEnter(e)')
                      <= 1 + 2 * faults'
  BY DEF AnswersInv, One
<1>1. Len(answers[e]) + One(MayCall(e)) + One(MayEnter(e)) <= 1 + 2 * faults
  BY DEF AnswersInv
<1>2. /\ Len(answers[e])' = Len(answers[e]) /\ Len(answers[e]) \in Nat
      /\ faults \in Nat
  <2>1. answers[e] \in Seq(Responses) /\ faults \in Nat
    BY ExtCallerAssumption DEF TypeOK
  <2> QED
    BY <2>1, LenProperties
<1>3. /\ One(MayCall(e)) \in {0, 1} /\ One(MayCall(e)') \in {0, 1}
      /\ One(MayEnter(e)) \in {0, 1} /\ One(MayEnter(e)') \in {0, 1}
  BY DEF One
<1>4. CASE faults' = faults + 1
  BY <1>1, <1>2, <1>3, <1>4
<1>5. CASE faults' = faults /\ (MayCall(e)' => MayCall(e)) /\ (MayEnter(e)' => MayEnter(e))
  <2>1. One(MayCall(e)') <= One(MayCall(e)) /\ One(MayEnter(e)') <= One(MayEnter(e))
    BY <1>5 DEF One
  <2> QED
    BY <1>1, <1>2, <1>3, <1>5, <2>1
<1>6. CASE faults' = faults /\ MayEnter(e) /\ ~MayEnter(e)'
  <2>1. One(MayEnter(e)) = 1 /\ One(MayEnter(e)') = 0 /\ faults' = faults
    BY <1>6 DEF One
  <2>2. Len(answers[e]) + One(MayCall(e)) + 1 <= 1 + 2 * faults
    BY <1>1, <2>1
  <2>3. Len(answers[e]) + One(MayCall(e)') <= 1 + 2 * faults
    BY <1>2, <1>3, <2>2
  <2> QED
    BY <1>2, <1>3, <2>1, <2>3
<1> QED
  BY <1>4, <1>5, <1>6

\* The worker's next step with the same entry: the call is as made as it was.
LEMMA HandGoesOn ==
  ASSUME IInv, CallInv, hand # None,
         \/ Retry(hand.work) \/ (\E up \in BOOLEAN : Gives(up))
         \/ (At("dispatch") /\ Dispatched)
  PROVE  /\ hand' # None /\ hand'.event = hand.event
         /\ hand'.work.called = hand.work.called
         /\ hand'.step # "call"
<1>0. /\ hand.event \in Matching /\ hand.work \in Works
  BY HandParts DEF IInv
<1>1. \E w, step : /\ hand' = [event |-> hand.event, work |-> w, step |-> step]
                   /\ w.called = hand.work.called /\ w \in Works
                   /\ step \in {"again", "giveUp", "done", "dispatch"}
  <2>1. CASE Retry(hand.work)
    BY <2>1, RetryParts DEF IInv
  <2>2. CASE \E up \in BOOLEAN : Gives(up)
    BY <1>0, <2>2, GivesParts DEF IInv
  <2>3. CASE At("dispatch") /\ Dispatched
    <3>1. CASE Gives(FALSE)
      BY <1>0, <3>1, GivesParts DEF IInv
    <3>2. CASE /\ hand.work.next # FollowUps[hand.work.resp]
               /\ Goes([hand.work EXCEPT !.next = @ + 1], "dispatch")
      <4>1. PICK u : u = [hand.work EXCEPT !.next = @ + 1]
        OBVIOUS
      <4>2. hand' = [event |-> hand.event, work |-> u, step |-> "dispatch"]
        BY <3>2, <4>1, GoesParts DEF IInv
      <4>3. hand.work.next + 1 \in Indices
        <5>1. Begun(hand.event, hand.work)
          BY <2>3, CommandParts
        <5>2. /\ hand.work.resp \in Responses
              /\ hand.work.next \in 1 .. FollowUps[hand.work.resp]
              /\ FollowUps[hand.work.resp] \in Nat
          BY <5>1, ExtCallerAssumption DEF Begun
        <5>3. hand.work.next + 1 \in 1 .. FollowUps[hand.work.resp]
          BY <3>2, <5>2
        <5> QED
          BY <5>2, <5>3 DEF Indices
      <4>4. u \in Works /\ u.called = hand.work.called
        BY <1>0, <4>1, <4>3 DEF Works
      <4> QED
        BY <4>2, <4>4
    <3> QED
      BY <2>3, <3>1, <3>2 DEF Dispatched
  <2> QED
    BY <2>1, <2>2, <2>3
<1>2. PICK w, step : /\ hand' = [event |-> hand.event, work |-> w, step |-> step]
                     /\ w.called = hand.work.called /\ w \in Works
                     /\ step \in {"again", "giveUp", "done", "dispatch"}
  BY <1>1
<1>3. hand' \in Hands
  BY <1>0, <1>2 DEF Hands
<1>4. hand' # None
  <2>1. hand'.work = w /\ hand'.event = hand.event /\ hand'.step = step
    BY <1>2
  <2> QED
    BY <1>2, <1>3, NoneAssumption
<1> QED
  BY <1>2, <1>4

\* Every step of the handling of one entry that makes no answer.
LEMMA HandlingAsked ==
  ASSUME IInv, CallInv, AnswersInv, IInv', hand # None,
         \/ Retry(hand.work) \/ (\E up \in BOOLEAN : Gives(up))
         \/ (At("dispatch") /\ Dispatched),
         UNCHANGED <<checkpoint, recorded, box, answers>>,
         faults' = faults \/ faults' = faults + 1
  PROVE  CallInv' /\ AnswersInv'
<1>1. /\ hand' # None /\ hand'.event = hand.event
      /\ hand'.work.called = hand.work.called /\ hand'.step # "call"
  BY HandGoesOn
<1>2. CallInv'
  BY <1>1 DEF CallInv
<1>3. \A e \in Matching : /\ MayCall(e)' => MayCall(e)
                          /\ MayEnter(e)' => MayEnter(e)
  BY <1>1 DEF MayCall, MayEnter
<1>4. AnswersInv'
  BY <1>3, AskedKeeps DEF IInv, TypeOK
<1> QED
  BY <1>2, <1>4

LEMMA ApplyAsked ==
  ASSUME IInv, CallInv, AnswersInv, IInv', Apply PROVE CallInv' /\ AnswersInv'
<1>1. /\ ~recorded /\ recorded' = TRUE
      /\ UNCHANGED <<checkpoint, hand, answers, faults>>
      /\ checkpoint \in Nat /\ box \in [Matching -> Works \cup {None}]
      /\ faults' \in 0 .. MaxFaults
  BY ExtCallerAssumption DEF Apply, letters, gateway, IInv, TypeOK
<1>2. CASE UNCHANGED box
  <2>1. CallInv'
    BY <1>1, <1>2 DEF CallInv
  <2>2. \A e \in Matching : /\ MayCall(e)' => MayCall(e)
                            /\ MayEnter(e)' => MayEnter(e)
    BY <1>1, <1>2 DEF MayCall, MayEnter
  <2> QED
    BY <1>1, <2>1, <2>2, AskedKeeps DEF IInv
<1>3. CASE checkpoint + 1 \in Matching /\ Enqueue(checkpoint + 1)
  <2>1. PICK n \in Matching : n = checkpoint + 1
    BY <1>3
  <2>2. \A e \in Matching : e # n \/ box[e] # None => box'[e] = box[e]
    BY <1>1, <1>3, <2>1 DEF Enqueue
  <2>3. hand # None => hand.event \in Matching /\ box[hand.event] # None
    BY HandParts DEF IInv, HandInv
  <2>4. CallInv'
    BY <1>1, <2>2, <2>3 DEF CallInv
  <2>5. MayEnter(n) /\ ~MayEnter(n)'
    BY <1>1, <2>1 DEF MayEnter
  <2>6. \A e \in Matching \ {n} : /\ MayCall(e)' => MayCall(e)
                                  /\ MayEnter(e)' => MayEnter(e)
    BY <1>1, <2>2 DEF MayCall, MayEnter
  <2>7. \A e \in Matching :
          \/ (MayCall(e)' => MayCall(e)) /\ (MayEnter(e)' => MayEnter(e))
          \/ MayEnter(e) /\ ~MayEnter(e)'
    BY <2>5, <2>6
  <2> QED
    BY <1>1, <2>4, <2>7, AskedKeeps DEF IInv
<1> QED
  BY <1>2, <1>3 DEF Apply

LEMMA SaveCheckpointAsked ==
  ASSUME IInv, CallInv, AnswersInv, IInv', SaveCheckpoint
  PROVE  CallInv' /\ AnswersInv'
<1>1. /\ recorded /\ recorded' = FALSE /\ UNCHANGED <<box, hand, answers>>
      /\ checkpoint \in Nat /\ faults' \in 0 .. MaxFaults
  BY ExtCallerAssumption DEF SaveCheckpoint, IInv, TypeOK
<1>2. CallInv'
  BY <1>1 DEF CallInv
<1>3. CASE faults' = faults + 1
  BY <1>1, <1>2, <1>3, AskedKeeps DEF IInv
<1>4. CASE checkpoint' = checkpoint + 1 /\ faults' = faults
  <2>1. ASSUME NEW e \in Matching
        PROVE  (MayCall(e)' => MayCall(e)) /\ (MayEnter(e)' => MayEnter(e))
    <3>1. e \in Nat
      BY ExtCallerAssumption
    <3> QED
      BY <1>1, <1>4, <3>1 DEF MayCall, MayEnter
  <2> QED
    BY <1>1, <1>2, <1>4, <2>1, AskedKeeps DEF IInv
<1> QED
  BY <1>3, <1>4 DEF SaveCheckpoint, Fault

LEMMA TakeAsked ==
  ASSUME IInv, CallInv, AnswersInv, IInv', NEW e \in Matching, Take(e)
  PROVE  CallInv' /\ AnswersInv'
<1>1. /\ hand = None /\ box[e] # None
      /\ UNCHANGED <<checkpoint, recorded, box, answers, faults>>
      /\ box[e] \in Works /\ faults' \in 0 .. MaxFaults
  BY DEF Take, consumer, IInv, TypeOK
<1>2. /\ hand'.event = e /\ hand'.work = box[e]
      /\ hand'.step = "call" => ~box[e].called
  <2>1. hand' = [event |-> e, work |-> box[e],
                 step |-> IF box[e].called THEN "dispatch" ELSE "call"]
    BY DEF Take
  <2> QED
    BY <2>1
<1>3. CallInv'
  BY <1>1, <1>2 DEF CallInv
<1>4. \A d \in Matching : /\ MayCall(d)' => MayCall(d)
                          /\ MayEnter(d)' => MayEnter(d)
  BY <1>1 DEF MayCall, MayEnter
<1> QED
  BY <1>1, <1>3, <1>4, AskedKeeps DEF IInv

\* The answer uses up what the entry could cause.
LEMMA CallAnsweredAsked ==
  ASSUME IInv, CallInv, AnswersInv, IInv', NEW r \in Responses, CallAnswered(r)
  PROVE  CallInv' /\ AnswersInv'
<1>1. PICK e \in Matching : /\ e = hand.event /\ hand # None
                            /\ hand.step = "call" /\ box[e] # None
  BY HandParts DEF IInv, HandInv, CallAnswered, At
<1>2. ~hand.work.called /\ ~box[e].called
  BY <1>1 DEF CallInv
<1>3. /\ UNCHANGED <<checkpoint, recorded, box, faults>>
      /\ answers' = [answers EXCEPT ![e] = Append(@, r)]
      /\ answers \in [Matching -> Seq(Responses)] /\ faults \in Nat
  BY <1>1, ExtCallerAssumption DEF CallAnswered, consumer, IInv, TypeOK
<1>4. PICK w : w = [called |-> TRUE, resp |-> r, next |-> 1, tries |-> 0]
  OBVIOUS
<1>5. PICK step : step = IF FollowUps[r] = 0 THEN "done" ELSE "dispatch"
  OBVIOUS
<1>6. hand' = [event |-> e, work |-> w, step |-> step]
  <2>1. Goes(w, step)
    BY <1>4, <1>5 DEF CallAnswered
  <2> QED
    BY <1>1, <2>1, GoesParts DEF IInv
<1>7. hand'.event = e /\ hand'.work.called /\ hand'.step # "call"
  <2>1. hand'.work = w /\ hand'.event = e /\ hand'.step = step
    BY <1>6
  <2> QED
    BY <1>4, <1>5, <2>1
<1>8. hand' # None
  <2>1. step \in {"done", "dispatch"} /\ w \in Works
    <3>1. 0 \in 0 .. MaxAttempts - 1
      BY ExtCallerAssumption
    <3> QED
      BY <1>4, <1>5, <3>1 DEF Works
  <2>2. hand' \in Hands
    BY <1>6, <2>1 DEF Hands
  <2> QED
    BY <2>2, NoneAssumption
<1>9. CallInv'
  BY <1>7 DEF CallInv
<1>10. MayCall(e) /\ ~MayCall(e)'
  BY <1>1, <1>2, <1>7, <1>8 DEF MayCall
<1>11. ASSUME NEW d \in Matching
       PROVE  Len(answers[d])' + One(MayCall(d)') + One(MayEnter(d)')
                <= 1 + 2 * faults'
  <2>1. Len(answers[d]) + One(MayCall(d)) + One(MayEnter(d)) <= 1 + 2 * faults
    BY DEF AnswersInv
  <2>2. One(MayEnter(d)') = One(MayEnter(d)) /\ One(MayEnter(d)) \in {0, 1}
    BY <1>3 DEF One, MayEnter
  <2>3. PICK s \in Seq(Responses) : s = answers[d]
    BY <1>3
  <2>4. Len(s) \in Nat /\ Len(Append(s, r)) = Len(s) + 1
    OBVIOUS
  <2>5. CASE d = e
    <3>1. Len(answers'[d]) = Len(s) + 1
      BY <1>3, <2>3, <2>4, <2>5
    <3>2. One(MayCall(d)) = 1 /\ One(MayCall(d)') = 0
      BY <1>10, <2>5 DEF One
    <3> QED
      BY <1>3, <2>1, <2>2, <2>3, <2>4, <3>1, <3>2
  <2>6. CASE d # e
    <3>1. answers'[d] = s
      BY <1>3, <2>3, <2>6
    <3>2. MayCall(d)' => MayCall(d)
      BY <1>1, <1>3, <2>6 DEF MayCall
    <3>3. /\ One(MayCall(d)') <= One(MayCall(d))
          /\ One(MayCall(d)') \in {0, 1} /\ One(MayCall(d)) \in {0, 1}
      BY <3>2 DEF One
    <3> QED
      BY <1>3, <2>1, <2>2, <2>3, <2>4, <3>1, <3>3
  <2> QED
    BY <2>5, <2>6
<1>12. AnswersInv'
  BY <1>11 DEF AnswersInv, One
<1> QED
  BY <1>9, <1>12

\* The worker lets go of the entry, and the outbox keeps what it did to it.
LEMMA PutBackAsked ==
  ASSUME IInv, CallInv, AnswersInv, IInv', hand' = None,
         UNCHANGED <<checkpoint, answers>>,
         \/ faults' = faults + 1
         \/ /\ hand # None /\ faults' = faults /\ UNCHANGED recorded
            /\ \/ box' = [box EXCEPT ![hand.event] = None]
               \/ box' = [box EXCEPT ![hand.event] = hand.work]
  PROVE  CallInv' /\ AnswersInv'
<1>1. CallInv'
  BY DEF CallInv
<1>2. CASE faults' = faults + 1
  BY <1>1, <1>2, AskedKeeps DEF IInv, TypeOK
<1>3. CASE /\ hand # None /\ faults' = faults /\ UNCHANGED recorded
           /\ \/ box' = [box EXCEPT ![hand.event] = None]
              \/ box' = [box EXCEPT ![hand.event] = hand.work]
  <2>1. PICK e \in Matching : e = hand.event /\ box[e] # None
    BY <1>3, HandParts DEF IInv, HandInv
  <2>2. /\ \A d \in Matching : d # e => box'[d] = box[d]
        /\ box'[e] = None \/ box'[e] = hand.work
    BY <1>3, <2>1 DEF IInv, TypeOK
  <2>3. box[e].called => hand.work.called
    BY <1>3, <2>1 DEF CallInv
  <2>4. ASSUME NEW d \in Matching, MayCall(d)'
        PROVE  MayCall(d)
    <3>1. box'[d] # None /\ ~box'[d].called
      BY <2>4 DEF MayCall
    <3>2. CASE d = e
      BY <1>3, <2>1, <2>2, <2>3, <3>1, <3>2 DEF MayCall
    <3>3. CASE d # e
      BY <2>1, <2>2, <3>1, <3>3 DEF MayCall
    <3> QED
      BY <3>2, <3>3
  <2>5. \A d \in Matching : MayEnter(d)' => MayEnter(d)
    BY <1>3 DEF MayEnter
  <2> QED
    BY <1>1, <1>3, <2>4, <2>5, AskedKeeps DEF IInv, TypeOK
<1> QED
  BY <1>2, <1>3

LEMMA NextAsked ==
  IInv /\ IInv' /\ CallInv /\ AnswersInv /\ [Next]_vars => CallInv' /\ AnswersInv'
<1> SUFFICES ASSUME IInv, IInv', CallInv, AnswersInv, [Next]_vars
             PROVE  CallInv' /\ AnswersInv'
  OBVIOUS
<1> USE DEF At, consumer
<1>1. CASE Engine
  BY <1>1, ApplyAsked, SaveCheckpointAsked DEF Engine
<1>2. CASE Worker
  <2>1. CASE \E e \in Matching : Take(e)
    BY <2>1, TakeAsked
  <2>2. CASE \E r \in Responses : CallAnswered(r)
    BY <2>2, CallAnsweredAsked
  <2>3. CASE CallFails \/ Unavailable \/ Reject
    BY <2>3, HandlingAsked DEF CallFails, Unavailable, Reject
  <2>4. CASE Lookup
    BY <2>4, HandlingAsked DEF Lookup
  <2>5. CASE Accept
    BY <2>5, HandlingAsked DEF Accept, Fault
  <2>6. CASE Conflict \/ Timeout
    BY <2>6, HandlingAsked DEF Conflict, Timeout, Fault
  <2>7. CASE DeadLetter
    BY <2>7, HandlingAsked DEF DeadLetter, Fault
  <2>8. CASE Done
    BY <2>8, PutBackAsked DEF Done, Fault
  <2>9. CASE Reschedule
    BY <2>9, PutBackAsked DEF Reschedule, Fault
  <2> QED
    BY <1>2, <2>1, <2>2, <2>3, <2>4, <2>5, <2>6, <2>7, <2>8, <2>9
    DEF Worker, Dispatch
<1>3. CASE \/ LateApply \/ UNCHANGED vars
         \/ \E k \in Matching \X Indices : Prune(k)
  <2>1. UNCHANGED <<checkpoint, recorded, box, hand, answers, faults>>
    BY <1>3 DEF LateApply, Prune, vars
  <2>2. \A e \in Matching : /\ MayCall(e)' => MayCall(e)
                            /\ MayEnter(e)' => MayEnter(e)
    BY <2>1 DEF MayCall, MayEnter
  <2>3. CallInv'
    BY <2>1 DEF CallInv
  <2> QED
    BY <2>1, <2>2, <2>3, AskedKeeps DEF IInv, TypeOK
<1>4. CASE Crash
  BY <1>4, PutBackAsked DEF Crash, Fault
<1> QED
  BY <1>1, <1>2, <1>3, <1>4 DEF Next

-----------------------------------------------------------------------------
(* What is applied under the derived keys.                                 *)

\* What is applied for an event none of whose follow-ups went unrecorded has
\* its record, follows the ones before it, and is of the same response.
MixInv ==
  \A p \in DOMAIN applied :
    LET f == applied[p]
    IN f.event \notin unrecorded =>
         /\ records[KeyOf(f)] = [resp |-> f.resp, status |-> 200]
         /\ \A i \in 1 .. f.index - 1 :
              \E q \in 1 .. p - 1 : applied[q] = FollowUp(f.event, i, f.resp)
         /\ \A q \in 1 .. p - 1 :
              applied[q].event = f.event =>
                applied[q].resp = f.resp /\ applied[q].index < f.index

LEMMA InitMix == Init => MixInv
BY DEF Init, MixInv

\* More events with something unrecorded, and of the others every recorded 200
\* stays.
LEMMA MixSame ==
  ASSUME TypeOK, MixInv, UNCHANGED applied, unrecorded \subseteq unrecorded',
         \A k \in Matching \X Indices :
           records[k] # None /\ records[k].status = 200 /\ k[1] \notin unrecorded'
             => records'[k] = records[k]
  PROVE  MixInv'
<1>1. ASSUME NEW p \in DOMAIN applied, applied[p].event \notin unrecorded'
      PROVE  records'[KeyOf(applied[p])] = records[KeyOf(applied[p])]
  <2>1. applied[p] \in FollowUpCommands
    BY DEF TypeOK
  <2>2. PICK k \in Matching \X Indices : k = KeyOf(applied[p])
    BY <2>1 DEF FollowUpCommands, KeyOf
  <2>3. /\ records[k] = [resp |-> applied[p].resp, status |-> 200]
        /\ applied[p].resp \in Responses
    BY <1>1, <2>1, <2>2 DEF MixInv, FollowUpCommands
  <2>4. records[k] # None /\ k[1] \notin unrecorded'
    BY <1>1, <2>2, <2>3, NoneAssumption DEF Records, KeyOf
  <2> QED
    BY <2>2, <2>3, <2>4
<1>2. \A p \in DOMAIN applied' :
        KeyOf(applied'[p]) = KeyOf(applied[p])
  OBVIOUS
<1>3. \A p \in DOMAIN applied :
        applied[p].event \notin unrecorded' => applied[p].event \notin unrecorded
  OBVIOUS
<1> QED
  BY <1>1, <1>2, <1>3 DEF MixInv, KeyOf

\* An application the gateway does not record: its event is out.
LEMMA MixUnrecorded ==
  ASSUME TypeOK, MixInv, NEW f \in FollowUpCommands,
         applied' = Append(applied, f), unrecorded' = unrecorded \cup {f.event},
         UNCHANGED records
  PROVE  MixInv'
<1>1. PICK s \in Seq(FollowUpCommands) : s = applied
  BY DEF TypeOK
<1>2. /\ DOMAIN s = 1 .. Len(s) /\ DOMAIN Append(s, f) = 1 .. Len(s) + 1
      /\ Len(s) \in Nat /\ Append(s, f)[Len(s) + 1] = f
      /\ \A p \in 1 .. Len(s) : Append(s, f)[p] = s[p]
  OBVIOUS
<1>3. SUFFICES ASSUME NEW p \in DOMAIN applied', applied'[p].event \notin unrecorded'
               PROVE  /\ records'[KeyOf(applied'[p])] =
                           [resp |-> applied'[p].resp, status |-> 200]
                      /\ \A i \in 1 .. applied'[p].index - 1 :
                           \E q \in 1 .. p - 1 :
                             applied'[q] = FollowUp(applied'[p].event, i,
                                                    applied'[p].resp)
                      /\ \A q \in 1 .. p - 1 :
                           applied'[q].event = applied'[p].event =>
                             /\ applied'[q].resp = applied'[p].resp
                             /\ applied'[q].index < applied'[p].index
  BY DEF MixInv, KeyOf
<1>4. p \in 1 .. Len(s) /\ p \in DOMAIN applied /\ applied'[p] = applied[p]
  BY <1>1, <1>2, <1>3
<1>5. \A q \in 1 .. p - 1 : applied'[q] = applied[q]
  <2>1. \A q \in 1 .. p - 1 : q \in 1 .. Len(s)
    BY <1>2, <1>4
  <2> QED
    BY <1>1, <1>2, <2>1
<1>6. applied[p].event \notin unrecorded
  BY <1>3, <1>4
<1> QED
  BY <1>4, <1>5, <1>6 DEF MixInv

\* What is applied before it, of the same event, when the next follow-up's key
\* is free.
LEMMA MixBefore ==
  ASSUME IInv, MixInv, At("dispatch"), RecordOf(Command) = None,
         Command.event \notin unrecorded
  PROVE  /\ \A i \in 1 .. Command.index - 1 :
              \E q \in DOMAIN applied :
                applied[q] = FollowUp(Command.event, i, Command.resp)
         /\ \A q \in DOMAIN applied :
              applied[q].event = Command.event =>
                /\ applied[q].resp = Command.resp
                /\ applied[q].index < Command.index
<1>1. PICK f \in FollowUpCommands : f = Command
  BY CommandParts
<1>2. /\ f = FollowUp(f.event, f.index, f.resp) /\ f.event = hand.event
      /\ f.index = hand.work.next /\ f.resp = hand.work.resp
      /\ Begun(hand.event, hand.work)
  <2>1. /\ Command = FollowUp(hand.event, hand.work.next, hand.work.resp)
        /\ Begun(hand.event, hand.work)
    BY CommandParts
  <2> QED
    BY <1>1, <2>1 DEF FollowUp
<1>3. PICK e, n, r : e = f.event /\ n = f.index /\ r = f.resp
  OBVIOUS
<1>4. /\ e \in Matching /\ n \in Indices /\ n \in Nat \ {0} /\ r \in Responses
      /\ e \notin unrecorded /\ records[<<e, n>>] = None
  <2>1. /\ FollowUps[hand.work.resp] \in Nat
        /\ hand.work.next \in 1 .. FollowUps[hand.work.resp]
    BY <1>2, ExtCallerAssumption DEF Begun
  <2>2. n \in Nat \ {0}
    BY <1>2, <1>3, <2>1
  <2> QED
    BY <1>1, <1>3, <2>2 DEF FollowUpCommands, RecordOf, KeyOf
<1>5. ASSUME NEW i \in 1 .. n - 1
      PROVE  \E q \in DOMAIN applied : applied[q] = FollowUp(e, i, r)
  <2>1. FollowUp(e, i, r) \in Range(applied)
    BY <1>2, <1>3 DEF Begun
  <2> QED
    BY <2>1 DEF Range
<1>6. ASSUME NEW q \in DOMAIN applied, applied[q].event = e
      PROVE  applied[q].resp = r /\ applied[q].index < n
  <2>1. PICK g \in FollowUpCommands : g = applied[q]
    BY DEF IInv, TypeOK
  <2>2. /\ g.index \in Nat \ {0}
        /\ records[<<e, g.index>>] = [resp |-> g.resp, status |-> 200]
        /\ \A i \in 1 .. g.index - 1 :
             \E o \in 1 .. q - 1 : applied[o] = FollowUp(e, i, g.resp)
    <3>1. g.index \in Nat \ {0}
      BY <2>1, ExtCallerAssumption DEF FollowUpCommands, Indices
    <3> QED
      BY <1>4, <1>6, <2>1, <3>1 DEF MixInv, KeyOf
  <2>3. \A o \in 1 .. q - 1 : o \in DOMAIN applied
    BY DEF IInv, TypeOK
  <2>4. ASSUME NEW i \in 1 .. g.index
        PROVE  records[<<e, i>>] = [resp |-> g.resp, status |-> 200]
    <3>1. CASE i = g.index
      BY <2>2, <3>1
    <3>2. CASE i # g.index
      <4>1. i \in 1 .. g.index - 1
        BY <2>2, <3>2
      <4>2. PICK o \in DOMAIN applied : applied[o] = FollowUp(e, i, g.resp)
        BY <2>2, <2>3, <4>1
      <4>3. /\ applied[o].event = e /\ applied[o].index = i
            /\ applied[o].resp = g.resp
        BY <4>2 DEF FollowUp
      <4> QED
        BY <1>4, <4>3 DEF MixInv, KeyOf
    <3> QED
      BY <3>1, <3>2
  <2>5. \A i \in 1 .. g.index : records[<<e, i>>] # None
    <3>1. g.resp \in Responses
      BY DEF FollowUpCommands
    <3> QED
      BY <2>4, <3>1, NoneAssumption DEF Records
  <2>6. g.index < n
    <3>1. n \notin 1 .. g.index
      BY <1>4, <2>5
    <3> QED
      BY <1>4, <2>2, <3>1
  <2>7. 1 \in 1 .. n - 1 /\ 1 \in 1 .. g.index
    BY <1>4, <2>2, <2>6
  <2>8. PICK o \in DOMAIN applied : applied[o] = FollowUp(e, 1, r)
    BY <1>5, <2>7
  <2>9. applied[o].event = e /\ applied[o].index = 1 /\ applied[o].resp = r
    BY <2>8 DEF FollowUp
  <2>10. records[<<e, 1>>] = [resp |-> r, status |-> 200]
    BY <1>4, <2>9 DEF MixInv, KeyOf
  <2>11. records[<<e, 1>>] = [resp |-> g.resp, status |-> 200]
    BY <2>4, <2>7
  <2>12. g.resp = r
    BY <2>10, <2>11
  <2> QED
    BY <2>1, <2>6, <2>12
<1> QED
  BY <1>1, <1>3, <1>5, <1>6

\* An application with its record.
LEMMA MixRecorded ==
  ASSUME IInv, MixInv, At("dispatch"), RecordOf(Command) = None,
         applied' = Append(applied, Command), Saved(Command, 200),
         UNCHANGED unrecorded
  PROVE  MixInv'
<1>1. PICK f \in FollowUpCommands : f = Command
  BY CommandParts
<1>2. PICK k \in Matching \X Indices :
        /\ k = KeyOf(f) /\ records[k] = None
        /\ records'[k] = [resp |-> f.resp, status |-> 200]
        /\ \A j \in Matching \X Indices : j # k => records'[j] = records[j]
  <2>1. KeyOf(Command) = <<hand.event, hand.work.next>>
    BY CommandParts
  <2> QED
    BY <1>1, <2>1, SavedParts DEF RecordOf
<1>3. PICK s \in Seq(FollowUpCommands) : s = applied
  BY DEF IInv, TypeOK
<1>4. /\ DOMAIN s = 1 .. Len(s) /\ DOMAIN Append(s, f) = 1 .. Len(s) + 1
      /\ Len(s) \in Nat /\ Append(s, f)[Len(s) + 1] = f
      /\ \A p \in 1 .. Len(s) : Append(s, f)[p] = s[p]
  OBVIOUS
<1>5. /\ DOMAIN applied' = 1 .. Len(s) + 1 /\ applied'[Len(s) + 1] = f
      /\ \A p \in 1 .. Len(s) : applied'[p] = applied[p]
  BY <1>1, <1>3, <1>4
<1>6. SUFFICES ASSUME NEW p \in DOMAIN applied', NEW g \in FollowUpCommands,
                      g = applied'[p], g.event \notin unrecorded
               PROVE  /\ records'[KeyOf(g)] = [resp |-> g.resp, status |-> 200]
                      /\ \A i \in 1 .. g.index - 1 :
                           \E q \in 1 .. p - 1 :
                             applied'[q] = FollowUp(g.event, i, g.resp)
                      /\ \A q \in 1 .. p - 1 :
                           applied'[q].event = g.event =>
                             applied'[q].resp = g.resp /\ applied'[q].index < g.index
  <2>1. \A p \in DOMAIN applied' : applied'[p] \in FollowUpCommands
    BY <1>3, <1>4, <1>5
  <2> QED
    BY <2>1 DEF MixInv, KeyOf
<1>7. \A q \in 1 .. p - 1 : q \in 1 .. Len(s) /\ applied'[q] = applied[q]
  BY <1>4, <1>5, <1>6
<1>8. CASE p \in 1 .. Len(s)
  <2>1. g = applied[p] /\ p \in DOMAIN applied
    BY <1>3, <1>4, <1>5, <1>6, <1>8
  <2>2. PICK j \in Matching \X Indices : j = KeyOf(g)
    BY DEF FollowUpCommands, KeyOf
  <2>3. /\ records[j] = [resp |-> g.resp, status |-> 200]
        /\ \A i \in 1 .. g.index - 1 :
             \E q \in 1 .. p - 1 : applied[q] = FollowUp(g.event, i, g.resp)
        /\ \A q \in 1 .. p - 1 :
             applied[q].event = g.event =>
               applied[q].resp = g.resp /\ applied[q].index < g.index
    BY <1>6, <2>1, <2>2 DEF MixInv
  <2>4. records[j] # None
    <3>1. g.resp \in Responses
      BY DEF FollowUpCommands
    <3> QED
      BY <2>3, <3>1, NoneAssumption DEF Records
  <2>5. records'[j] = records[j]
    BY <1>2, <2>4
  <2>6. \A i \in 1 .. g.index - 1 :
          \E q \in 1 .. p - 1 : applied'[q] = FollowUp(g.event, i, g.resp)
    <3>1. ASSUME NEW i \in 1 .. g.index - 1
          PROVE  \E q \in 1 .. p - 1 : applied'[q] = FollowUp(g.event, i, g.resp)
      <4>1. PICK q \in 1 .. p - 1 : applied[q] = FollowUp(g.event, i, g.resp)
        BY <2>3
      <4>2. applied'[q] = applied[q]
        BY <1>7
      <4> QED
        BY <4>1, <4>2
    <3> QED
      BY <3>1
  <2>7. \A q \in 1 .. p - 1 :
          applied'[q].event = g.event =>
            applied'[q].resp = g.resp /\ applied'[q].index < g.index
    BY <1>7, <2>3, ZenonT(40)
  <2>8. records'[KeyOf(g)] = [resp |-> g.resp, status |-> 200]
    BY <2>2, <2>3, <2>5
  <2> QED
    BY <2>6, <2>7, <2>8
<1>9. CASE p = Len(s) + 1
  <2>1. g = f /\ f.event \notin unrecorded /\ 1 .. p - 1 = DOMAIN applied
    BY <1>3, <1>4, <1>5, <1>6, <1>9
  <2>2. /\ \A i \in 1 .. f.index - 1 :
             \E q \in DOMAIN applied : applied[q] = FollowUp(f.event, i, f.resp)
        /\ \A q \in DOMAIN applied :
             applied[q].event = f.event =>
               applied[q].resp = f.resp /\ applied[q].index < f.index
    BY <1>1, <2>1, MixBefore
  <2>3. records'[KeyOf(f)] = [resp |-> f.resp, status |-> 200]
    BY <1>2
  <2>4. \A i \in 1 .. g.index - 1 :
          \E q \in 1 .. p - 1 : applied'[q] = FollowUp(g.event, i, g.resp)
    BY <1>7, <2>1, <2>2, Zenon
  <2>5. \A q \in 1 .. p - 1 :
          applied'[q].event = g.event =>
            applied'[q].resp = g.resp /\ applied'[q].index < g.index
    BY <1>7, <2>1, <2>2, Zenon
  <2> QED
    BY <2>1, <2>3, <2>4, <2>5
<1>10. p \in 1 .. Len(s) \/ p = Len(s) + 1
  BY <1>4, <1>5
<1> QED
  BY <1>8, <1>9, <1>10

LEMMA NextMix == IInv /\ MixInv /\ [Next]_vars => MixInv'
<1> SUFFICES ASSUME IInv, MixInv, [Next]_vars PROVE MixInv'
  OBVIOUS
<1>t. TypeOK
  BY DEF IInv
<1>1. CASE UNCHANGED gateway
  BY <1>t, <1>1, MixSame DEF gateway
<1>2. CASE Accept
  <2>1. CASE Saved(Command, 200) /\ UNCHANGED unrecorded
    BY <1>2, <2>1, MixRecorded DEF Accept
  <2>2. CASE unrecorded' = unrecorded \cup {hand.event} /\ UNCHANGED records
    <3>1. Command \in FollowUpCommands /\ Command.event = hand.event
      BY <1>2, CommandParts DEF Accept
    <3>2. PICK f \in FollowUpCommands : f = Command /\ f.event = hand.event
      BY <3>1
    <3>3. applied' = Append(applied, f) /\ unrecorded' = unrecorded \cup {f.event}
      BY <1>2, <2>2, <3>2 DEF Accept
    <3> QED
      BY <1>t, <2>2, <3>3, MixUnrecorded
  <2> QED
    BY <1>2, <2>1, <2>2 DEF Accept
<1>3. CASE Conflict
  <2>1. /\ At("dispatch") /\ RecordOf(Command) = None /\ Saved(Command, 409)
        /\ UNCHANGED <<applied, unrecorded>>
    BY <1>3 DEF Conflict
  <2>2. records[<<hand.event, hand.work.next>>] = None
    BY <2>1, CommandParts DEF RecordOf
  <2>3. \A k \in Matching \X Indices : records[k] # None => records'[k] = records[k]
    BY <2>1, <2>2, SavedParts
  <2> QED
    BY <1>t, <2>1, <2>3, MixSame
<1>4. CASE Timeout
  BY <1>t, <1>4, MixSame DEF Timeout
<1>5. CASE LateApply
  <2>1. PICK q \in Seq(FollowUpCommands) : q = late /\ q # << >>
    BY <1>t, <1>5 DEF TypeOK, LateApply
  <2>2. Head(q) \in FollowUpCommands
    BY <2>1
  <2>3. PICK f \in FollowUpCommands : f = Head(late)
    BY <2>1, <2>2
  <2>4. CASE applied' = Append(applied, f) /\ unrecorded' = unrecorded \cup {f.event}
    BY <1>t, <1>5, <2>4, MixUnrecorded DEF LateApply
  <2>5. CASE UNCHANGED <<applied, unrecorded>>
    BY <1>t, <1>5, <2>5, MixSame DEF LateApply
  <2> QED
    BY <1>5, <2>3, <2>4, <2>5 DEF LateApply
<1>6. CASE UNCHANGED vars
  BY <1>1, <1>6 DEF vars, gateway
<1>9. CASE \E k \in Matching \X Indices : Prune(k)
  <2>1. PICK k \in Matching \X Indices : Prune(k)
    BY <1>9
  <2>2. /\ UNCHANGED applied /\ unrecorded \subseteq unrecorded'
        /\ records' = [records EXCEPT ![k] = None] /\ records[k] # None
        /\ records[k].status = 200 => k[1] \in unrecorded'
    BY <2>1 DEF Prune
  <2>3. records \in [Matching \X Indices -> Records \cup {None}]
    BY <1>t DEF TypeOK
  <2>4. \A j \in Matching \X Indices :
          records[j].status = 200 /\ j[1] \notin unrecorded'
            => records'[j] = records[j]
    BY <2>2, <2>3
  <2> QED
    BY <1>t, <2>2, <2>4, MixSame
<1>7. CASE Engine \/ Crash
  BY <1>1, <1>7 DEF Engine, Apply, SaveCheckpoint, Crash
<1>8. CASE Worker
  BY <1>1, <1>2, <1>3, <1>4, <1>8
  DEF Worker, Take, CallAnswered, CallFails, Dispatch, Unavailable, Lookup,
      Reject, DeadLetter, Done, Reschedule
<1> QED
  BY <1>5, <1>6, <1>7, <1>8, <1>9 DEF Next

\* The follow-ups of one event lie in the log in the order of their indices,
\* none missing: the index of each counts those up to it.
LEMMA MixCounts ==
  ASSUME TypeOK, MixInv, NEW e \in Matching \ unrecorded,
         NEW mine, mine = {p \in DOMAIN applied : applied[p].event = e},
         NEW p \in mine
  PROVE  applied[p].index = Cardinality({o \in mine : o <= p})
<1> DEFINE upTo == {o \in mine : o <= p}
<1>1. PICK n, r : n = applied[p].index /\ r = applied[p].resp
  OBVIOUS
<1>2. /\ p \in DOMAIN applied /\ applied[p].event = e
      /\ DOMAIN applied = 1 .. Len(applied) /\ Len(applied) \in Nat
      /\ applied \in [1 .. Len(applied) -> FollowUpCommands]
  BY LenProperties DEF TypeOK
<1>3. \A o \in DOMAIN applied : applied[o].index \in Nat \ {0}
  BY <1>2, ExtCallerAssumption DEF FollowUpCommands, Indices
<1>4. /\ \A i \in 1 .. n - 1 :
           \E q \in 1 .. p - 1 : applied[q] = FollowUp(e, i, r)
      /\ \A q \in 1 .. p - 1 :
           applied[q].event = e => applied[q].index < n
  BY <1>1, <1>2, ZenonT(40) DEF MixInv
<1>5. \A a, b \in mine : a < b => applied[a].index < applied[b].index
  <2>1. ASSUME NEW a \in mine, NEW b \in mine, a < b
        PROVE  applied[a].index < applied[b].index
    <3>1. a \in 1 .. b - 1 /\ b \in DOMAIN applied /\ a \in DOMAIN applied
      BY <1>2, <2>1
    <3> QED
      BY <1>2, <2>1, <3>1, ZenonT(40) DEF MixInv
  <2> QED
    BY <2>1
<1>6. \A o \in upTo : /\ o \in DOMAIN applied /\ o \in 1 .. Len(applied)
                      /\ o = p \/ o \in 1 .. p - 1
  BY <1>2
<1>7. \A o \in upTo : applied[o].index \in 1 .. n
  <2>1. ASSUME NEW o \in upTo PROVE applied[o].index \in 1 .. n
    <3>1. applied[o].index <= n
      BY <1>1, <1>3, <1>4, <1>6
    <3> QED
      BY <1>1, <1>2, <1>3, <1>6, <3>1
  <2> QED
    BY <2>1
<1>8. \A i \in 1 .. n : \E o \in upTo : applied[o].index = i
  <2>1. ASSUME NEW i \in 1 .. n PROVE \E o \in upTo : applied[o].index = i
    <3>1. n \in Nat \ {0}
      BY <1>1, <1>2, <1>3
    <3>2. CASE i = n
      <4>1. p \in upTo
        BY <1>2
      <4> QED
        BY <1>1, <3>2, <4>1
    <3>3. CASE i # n
      <4>1. PICK q \in 1 .. p - 1 : applied[q] = FollowUp(e, i, r)
        BY <1>4, <3>1, <3>3
      <4>2. applied[q].event = e /\ applied[q].index = i
        BY <4>1 DEF FollowUp
      <4>3. q \in upTo
        BY <1>2, <4>2
      <4> QED
        BY <4>2, <4>3
    <3> QED
      BY <3>2, <3>3
  <2> QED
    BY <2>1
<1> HIDE DEF upTo
<1>9. PICK g : g = [o \in upTo |-> applied[o].index]
  OBVIOUS
<1>10. g \in [upTo -> 1 .. n] /\ \A o \in upTo : g[o] = applied[o].index
  BY <1>7, <1>9
<1>11. \A a, b \in upTo : g[a] = g[b] => a = b
  <2>1. ASSUME NEW a \in upTo, NEW b \in upTo, a # b
        PROVE  g[a] # g[b]
    <3>1. a \in mine /\ b \in mine /\ a \in 1 .. Len(applied) /\ b \in 1 .. Len(applied)
      BY <1>6 DEF upTo
    <3>2. a < b \/ b < a
      BY <1>2, <2>1, <3>1
    <3>3. applied[a].index \in Nat /\ applied[b].index \in Nat
      BY <1>2, <1>3, <3>1
    <3>4. applied[a].index # applied[b].index
      BY <1>5, <3>1, <3>2, <3>3
    <3> QED
      BY <1>10, <3>4
  <2> QED
    BY <2>1
<1>12. \A i \in 1 .. n : \E o \in upTo : g[o] = i
  BY <1>8, <1>10
<1>13. g \in Bijection(upTo, 1 .. n)
  BY <1>10, <1>11, <1>12 DEF Bijection, Injection, Surjection, IsInjective
<1>14. upTo \subseteq 1 .. Len(applied)
  BY <1>6
<1>15. IsFiniteSet(upTo)
  <2>1. IsFiniteSet(1 .. Len(applied))
    BY <1>2, FS_Interval
  <2> QED
    BY <1>14, <2>1, FS_Subset
<1>16. Cardinality(1 .. n) = Cardinality(upTo)
  BY <1>13, <1>15, FS_Bijection DEF ExistsBijection
<1>17. n \in Nat /\ n >= 1
  BY <1>1, <1>2, <1>3
<1>18. Cardinality(1 .. n) = n
  BY <1>17, FS_Interval
<1> QED
  BY <1>1, <1>16, <1>18 DEF upTo

-----------------------------------------------------------------------------
(* The theorems about them.                                                *)

\* Only a crash or a failed write makes the third party answer again for one
\* event, at most twice each.
THEOREM ThirdPartyAnswersOnce == Spec => []AnsweredOnce
<1>1. TypeOK /\ AnswersInv => AnsweredOnce
  <2> SUFFICES ASSUME TypeOK, AnswersInv, NEW e \in Matching
               PROVE  Len(answers[e]) <= 1 + 2 * faults
    BY DEF AnsweredOnce
  <2>1. Len(answers[e]) + One(MayCall(e)) + One(MayEnter(e)) <= 1 + 2 * faults
    BY DEF AnswersInv
  <2>2. One(MayCall(e)) \in {0, 1} /\ One(MayEnter(e)) \in {0, 1}
    BY DEF One
  <2>3. Len(answers[e]) \in Nat /\ faults \in Nat
    <3>1. answers[e] \in Seq(Responses) /\ faults \in Nat
      BY ExtCallerAssumption DEF TypeOK
    <3> QED
      BY <3>1, LenProperties
  <2> QED
    BY <2>1, <2>2, <2>3
<1>2. Spec => [](CallInv /\ AnswersInv)
  <2>1. Init => CallInv /\ AnswersInv
    BY InitAsked
  <2>2. IInv /\ IInv' /\ CallInv /\ AnswersInv /\ [Next]_vars
          => (CallInv /\ AnswersInv)'
    BY NextAsked
  <2> QED
    BY <2>1, <2>2, AlwaysIInv, PTL DEF Spec
<1> QED
  BY <1>1, <1>2, TypeCorrect, PTL

\* The follow-ups applied for an event are those of one response, in order and
\* each once, unless the gateway has no record of one it applied.
THEOREM FollowUpsOfOneAnswer == Spec => []FollowUpsDoNotMix
<1>1. TypeOK /\ MixInv => FollowUpsDoNotMix
  <2> SUFFICES ASSUME TypeOK, MixInv, NEW e \in Matching \ unrecorded,
                      NEW mine, mine = {p \in DOMAIN applied : applied[p].event = e},
                      NEW p \in mine, NEW q \in mine
               PROVE  /\ applied[p].resp = applied[q].resp
                      /\ applied[p].index = Cardinality({o \in mine : o <= p})
    BY DEF FollowUpsDoNotMix
  <2>1. applied[p].index = Cardinality({o \in mine : o <= p})
    BY MixCounts
  <2>2. p \in DOMAIN applied /\ q \in DOMAIN applied
    OBVIOUS
  <2>3. DOMAIN applied = 1 .. Len(applied) /\ Len(applied) \in Nat
    BY LenProperties DEF TypeOK
  <2>4. p = q \/ p \in 1 .. q - 1 \/ q \in 1 .. p - 1
    BY <2>2, <2>3
  <2>5. applied[p].event \notin unrecorded /\ applied[q].event \notin unrecorded
        /\ applied[p].event = applied[q].event
    OBVIOUS
  <2>6. p \in 1 .. q - 1 => applied[p].resp = applied[q].resp
    BY <2>2, <2>5 DEF MixInv
  <2>7. q \in 1 .. p - 1 => applied[p].resp = applied[q].resp
    BY <2>2, <2>5 DEF MixInv
  <2>8. applied[p].resp = applied[q].resp
    BY <2>4, <2>6, <2>7
  <2> QED
    BY <2>1, <2>8
<1>2. Spec => []MixInv
  BY InitMix, NextMix, AlwaysIInv, PTL DEF Spec
<1> QED
  BY <1>1, <1>2, TypeCorrect, PTL
=============================================================================
