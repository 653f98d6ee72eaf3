--------------------------- MODULE ReadSideProofs ---------------------------
(***************************************************************************)
(* Proofs about ReadSide, for every script, host and number of viewers.    *)
(* First, no change is lost between a viewer's subscription, its reads and *)
(* the notices, so that a viewer that waits is up to date.  Its invariant  *)
(* follows a stream from its read on: what it has read, or was last sent,  *)
(* is what a read would show now, or a notice of the difference is in its  *)
(* slot or still due from a hook or a listener.                            *)
(*                                                                         *)
(* Then, whenever a projection's position moves on its rows say what the   *)
(* log says up to it.  That invariant says what the tables hold at every   *)
(* step of an event's delivery and of a rebuild, the tables no property    *)
(* mentions included, and needs what one more event makes of each.         *)
(***************************************************************************)
EXTENDS ReadSide, FiniteSetTheorems, FunctionTheorems, TLAPS

\* A stream is a record of the six fields of ReadSide.
Streams ==
  /\ DOMAIN viewers = Viewers
  /\ viewers = [v \in Viewers |-> viewers[v]]
  /\ \A v \in Viewers :
       /\ viewers[v].of \in Projections
       /\ viewers[v] = [of |-> viewers[v].of, at |-> viewers[v].at,
                        slot |-> viewers[v].slot, rows |-> viewers[v].rows,
                        last |-> viewers[v].last, told |-> viewers[v].told]

\* A notice is in the stream's slot, or due.
NoticeDue(v) ==
  \/ viewers[v].slot
  \/ viewers[v].of \in changed
  \/ viewers[v].of \in Personal /\ erasure = "marked"

Fresh(v) ==
  /\ viewers[v].at = "revealing" =>
       viewers[v].rows = Rows(viewers[v].of) \/ viewers[v].slot
                                             \/ viewers[v].of \in changed
  /\ viewers[v].at = "waiting" =>
       viewers[v].last = Now(v) \/ NoticeDue(v) \/ viewers[v].told = "error"

IInv == hosted \subseteq Projections /\ Streams /\ \A v \in Viewers : Fresh(v)

-----------------------------------------------------------------------------
(* What a step that is not a viewer's leaves of a stream.                  *)

\* A row that a viewer might show has changed only with a hook due.
Hooked ==
  /\ changed \subseteq changed'
  /\ \A p \in Projections : Rows(p)' = Rows(p) \/ p \in changed'

LEMMA StreamsKept ==
  ASSUME IInv, Hooked, UNCHANGED <<hosted, viewers, erasure>>
  PROVE  IInv'
<1>1. Streams'
  BY DEF IInv, Streams
<1>2. ASSUME NEW v \in Viewers PROVE Fresh(v)'
  <2>1. viewers[v].of \in Projections
    BY DEF IInv, Streams
  <2>2. Rows(viewers[v].of)' = Rows(viewers[v].of) \/ viewers[v].of \in changed'
    BY <2>1 DEF Hooked, Rows
  <2>3. Fresh(v)
    BY DEF IInv
  <2> QED
    BY <2>2, <2>3 DEF Fresh, NoticeDue, Now, Redacted, Hooked
<1> QED
  BY <1>1, <1>2 DEF IInv

LEMMA Quiet ==
  ASSUME IInv, UNCHANGED <<hosted, orders, rollup, changed, viewers, erasure>>
  PROVE  IInv'
<1>1. Hooked
  BY DEF Hooked, Rows
<1> QED
  BY <1>1, StreamsKept

\* Noticed leaves each stream as it is, but for a notice to open ones.
LEMMA NoticedStreams ==
  ASSUME IInv, NEW C, viewers' = Noticed(C)
  PROVE  /\ Streams'
         /\ \A v \in Viewers :
              /\ viewers'[v].of = viewers[v].of
              /\ viewers'[v].at = viewers[v].at
              /\ viewers'[v].rows = viewers[v].rows
              /\ viewers'[v].last = viewers[v].last
              /\ viewers'[v].told = viewers[v].told
              /\ viewers'[v].slot \/ viewers'[v].slot = viewers[v].slot
              /\ viewers[v].of \in C /\ viewers[v].at # "closed"
                   => viewers'[v].slot
<1>1. ASSUME NEW v \in Viewers
      PROVE  \/ viewers'[v] = viewers[v]
                /\ ~(viewers[v].of \in C /\ viewers[v].at # "closed")
             \/ viewers'[v] = [viewers[v] EXCEPT !.slot = TRUE]
  BY DEF Noticed
<1>2. ASSUME NEW v \in Viewers
      PROVE  viewers[v] = [of |-> viewers[v].of, at |-> viewers[v].at,
                           slot |-> viewers[v].slot, rows |-> viewers[v].rows,
                           last |-> viewers[v].last, told |-> viewers[v].told]
  BY DEF IInv, Streams
<1>3. ASSUME NEW v \in Viewers
      PROVE  \/ viewers'[v] = viewers[v]
                /\ ~(viewers[v].of \in C /\ viewers[v].at # "closed")
             \/ viewers'[v] = [of |-> viewers[v].of, at |-> viewers[v].at,
                               slot |-> TRUE, rows |-> viewers[v].rows,
                               last |-> viewers[v].last, told |-> viewers[v].told]
  BY <1>1, <1>2
<1>4. DOMAIN viewers' = Viewers /\ viewers' = [v \in Viewers |-> viewers'[v]]
  BY DEF Noticed
<1>5. \A v \in Viewers : viewers[v].of \in Projections
  BY DEF IInv, Streams
<1>6. ASSUME NEW v \in Viewers
      PROVE  /\ viewers'[v].of = viewers[v].of
             /\ viewers'[v].at = viewers[v].at
             /\ viewers'[v].rows = viewers[v].rows
             /\ viewers'[v].last = viewers[v].last
             /\ viewers'[v].told = viewers[v].told
             /\ viewers'[v].slot \/ viewers'[v].slot = viewers[v].slot
             /\ viewers[v].of \in C /\ viewers[v].at # "closed"
                  => viewers'[v].slot
             /\ viewers'[v] = [of |-> viewers'[v].of, at |-> viewers'[v].at,
                               slot |-> viewers'[v].slot, rows |-> viewers'[v].rows,
                               last |-> viewers'[v].last, told |-> viewers'[v].told]
  <2>1. CASE viewers'[v] = viewers[v] /\ ~(viewers[v].of \in C /\ viewers[v].at # "closed")
    BY <1>2, <2>1
  <2>2. CASE viewers'[v] = [of |-> viewers[v].of, at |-> viewers[v].at,
                            slot |-> TRUE, rows |-> viewers[v].rows,
                            last |-> viewers[v].last, told |-> viewers[v].told]
    BY <2>2
  <2> QED
    BY <1>3, <2>1, <2>2
<1>7. Streams'
  BY <1>4, <1>5, <1>6 DEF Streams
<1> QED
  BY <1>6, <1>7

-----------------------------------------------------------------------------
(* Each action keeps the invariant.                                        *)

LEMMA NotifyKeeps ==
  ASSUME IInv, Notify PROVE IInv'
<1>1. viewers' = Noticed(changed) /\ UNCHANGED <<hosted, orders, rollup, erasure>>
  BY DEF Notify, database, byOrder, byCustomer
<1>2. ASSUME NEW v \in Viewers PROVE Fresh(v)'
  <2>1. Fresh(v)
    BY DEF IInv
  <2>2. /\ viewers'[v].of = viewers[v].of
        /\ viewers'[v].at = viewers[v].at
        /\ viewers'[v].rows = viewers[v].rows
        /\ viewers'[v].last = viewers[v].last
        /\ viewers'[v].told = viewers[v].told
        /\ viewers'[v].slot \/ viewers'[v].slot = viewers[v].slot
        /\ viewers[v].of \in changed /\ viewers[v].at # "closed"
             => viewers'[v].slot
    BY <1>1, NoticedStreams
  <2> QED
    BY <1>1, <2>1, <2>2 DEF Fresh, NoticeDue, Now, Redacted, Rows
<1> QED
  BY <1>1, <1>2, NoticedStreams DEF IInv

LEMMA AnnounceKeeps ==
  ASSUME IInv, Announce PROVE IInv'
<1>1. /\ viewers' = Noticed(Personal) /\ UNCHANGED <<hosted, orders, rollup, changed>>
      /\ erasure = "marked" /\ erasure' = "announced"
  BY DEF Announce, database, byOrder, byCustomer
<1>2. ASSUME NEW v \in Viewers PROVE Fresh(v)'
  <2>1. Fresh(v)
    BY DEF IInv
  <2>2. /\ viewers'[v].of = viewers[v].of
        /\ viewers'[v].at = viewers[v].at
        /\ viewers'[v].rows = viewers[v].rows
        /\ viewers'[v].last = viewers[v].last
        /\ viewers'[v].told = viewers[v].told
        /\ viewers'[v].slot \/ viewers'[v].slot = viewers[v].slot
        /\ viewers[v].of \in Personal /\ viewers[v].at # "closed"
             => viewers'[v].slot
    BY <1>1, NoticedStreams
  <2> QED
    BY <1>1, <2>1, <2>2 DEF Fresh, NoticeDue, Now, Redacted, Rows
<1> QED
  BY <1>1, <1>2, NoticedStreams DEF IInv

LEMMA MarkErasedKeeps ==
  ASSUME IInv, MarkErased PROVE IInv'
<1>1. /\ UNCHANGED <<hosted, orders, rollup, changed, viewers>>
      /\ erasure = "none" /\ erasure' = "marked"
  BY DEF MarkErased, database, byOrder, byCustomer
<1>2. Streams'
  BY <1>1 DEF IInv, Streams
<1>3. ASSUME NEW v \in Viewers PROVE Fresh(v)'
  <2>1. Fresh(v)
    BY DEF IInv
  <2> QED
    BY <1>1, <2>1 DEF Fresh, NoticeDue, Now, Redacted, Rows
<1> QED
  BY <1>1, <1>2, <1>3 DEF IInv

\* An order's row is saved with the hook of orders due.
LEMMA OrdersKeep ==
  ASSUME IInv, ApplyOrder \/ Totals \/ Save PROVE IInv'
<1>1. /\ changed = {}
      /\ orders' = orders \/ "orders" \in changed'
      /\ UNCHANGED <<hosted, rollup, viewers, erasure>>
  BY DEF ApplyOrder, Totals, Save, At, byOrder, byCustomer
<1>2. Hooked
  BY <1>1 DEF Hooked, Rows
<1> QED
  BY <1>1, <1>2, StreamsKept

LEMMA RollupKeeps ==
  ASSUME IInv, CommitRollup PROVE IInv'
<1>1. /\ changed = {}
      /\ rollup' = rollup \/ "orders_by_customer" \in changed'
      /\ UNCHANGED <<hosted, orders, viewers, erasure>>
  BY DEF CommitRollup, At, byOrder, byCustomer
<1>2. Hooked
  BY <1>1 DEF Hooked, Rows, Projections
<1> QED
  BY <1>1, <1>2, StreamsKept

LEMMA WipeKeeps ==
  ASSUME IInv, Wipe PROVE IInv'
<1>1. /\ changed = {}
      /\ orders' = orders \/ "orders" \in changed'
      /\ rollup' = rollup \/ "orders_by_customer" \in changed'
      /\ UNCHANGED <<hosted, viewers, erasure>>
  BY DEF Wipe, At, byOrder, byCustomer
<1>2. Hooked
  BY <1>1 DEF Hooked, Rows, Projections
<1> QED
  BY <1>1, <1>2, StreamsKept

\* The steps that touch no row, stream, hook or erasure.
LEMMA OthersKeep ==
  ASSUME IInv,
         \/ AppendEvent \/ CommitFails \/ RebuildFails \/ Reset \/ TakeOff
         \/ \E p \in Projections : Deliver(p) \/ BeginRebuild(p) \/ RequestRebuild(p)
  PROVE  IInv'
<1>1. UNCHANGED <<hosted, orders, rollup, changed, viewers, erasure>>
  BY DEF AppendEvent, CommitFails, RebuildFails, Reset, TakeOff, Deliver,
         BeginRebuild, RequestRebuild, database, byOrder, byCustomer
<1> QED
  BY <1>1, Quiet

LEMMA CrashKeeps ==
  ASSUME IInv, Crash PROVE IInv'
<1>1. /\ viewers' = [v \in Viewers |-> Gone] /\ hosted' = hosted
  BY DEF Crash
<1>2. Streams'
  BY <1>1 DEF Streams, Gone, Stream, Projections
<1>3. ASSUME NEW v \in Viewers PROVE Fresh(v)'
  BY <1>1 DEF Fresh, Gone, Stream
<1> QED
  BY <1>1, <1>2, <1>3 DEF IInv

-----------------------------------------------------------------------------
(* A viewer's own step replaces its stream and leaves the others.          *)

LEMMA OneStream ==
  ASSUME IInv, NEW v \in Viewers, NEW s,
         viewers' = [viewers EXCEPT ![v] = s],
         UNCHANGED <<hosted, orders, rollup, changed, erasure>>,
         s.of \in Projections,
         s = [of |-> s.of, at |-> s.at, slot |-> s.slot, rows |-> s.rows,
              last |-> s.last, told |-> s.told],
         s.at = "revealing" => s.rows = Rows(s.of) \/ s.slot \/ s.of \in changed,
         s.at = "waiting" =>
           \/ s.last = [rows |-> Rows(s.of), redacted |-> Redacted(s.of)]
           \/ s.slot \/ s.of \in changed
           \/ s.of \in Personal /\ erasure = "marked"
           \/ s.told = "error"
  PROVE  IInv'
<1>1. viewers'[v] = s /\ \A w \in Viewers \ {v} : viewers'[w] = viewers[w]
  BY DEF IInv, Streams
<1>2. Streams'
  <2>1. DOMAIN viewers' = Viewers /\ viewers' = [w \in Viewers |-> viewers'[w]]
    BY DEF IInv, Streams
  <2>2. ASSUME NEW w \in Viewers
        PROVE  /\ viewers'[w].of \in Projections
               /\ viewers'[w] = [of |-> viewers'[w].of, at |-> viewers'[w].at,
                                 slot |-> viewers'[w].slot, rows |-> viewers'[w].rows,
                                 last |-> viewers'[w].last, told |-> viewers'[w].told]
    <3>1. CASE w = v
      BY <1>1, <3>1
    <3>2. CASE w # v
      <4>1. viewers'[w] = viewers[w]
        BY <1>1, <3>2
      <4> QED
        BY <4>1 DEF IInv, Streams
    <3> QED
      BY <3>1, <3>2
  <2> QED
    BY <2>1, <2>2 DEF Streams
<1>3. ASSUME NEW w \in Viewers PROVE Fresh(w)'
  <2>1. CASE w = v
    BY <1>1, <2>1 DEF Fresh, NoticeDue, Now, Rows, Redacted
  <2>2. CASE w # v
    <3>1. viewers'[w] = viewers[w]
      BY <1>1, <2>2
    <3>2. Fresh(w)
      BY DEF IInv
    <3> QED
      BY <3>1, <3>2 DEF Fresh, NoticeDue, Now, Rows, Redacted
  <2> QED
    BY <2>1, <2>2
<1> QED
  BY <1>2, <1>3 DEF IInv

\* A stream opened, or closed, has nothing to show yet.
LEMMA OpenLeaveKeep ==
  ASSUME IInv, NEW v \in Viewers, Open(v) \/ Leave(v) PROVE IInv'
<1>1. UNCHANGED <<hosted, orders, rollup, changed, erasure>>
  BY DEF Open, Leave, database, byOrder, byCustomer
<1>2. PICK p \in Projections, a \in {"reading", "closed"} :
        viewers' = [viewers EXCEPT ![v] = Stream(p, a)]
  BY DEF Open, Leave, Gone, Projections, IInv
<1>3. PICK t : t = Stream(p, a)
  OBVIOUS
<1>4. /\ t.of = p /\ t.at = a
      /\ t = [of |-> t.of, at |-> t.at, slot |-> t.slot, rows |-> t.rows,
              last |-> t.last, told |-> t.told]
  BY <1>3 DEF Stream
<1>5. viewers' = [viewers EXCEPT ![v] = t]
  BY <1>2, <1>3
<1> HIDE DEF Stream
<1> QED
  BY <1>1, <1>4, <1>5, OneStream

\* What is read is what is there now; a notice goes into the free slot while
\* the handler reads and reveals.
LEMMA HandlerKeeps ==
  ASSUME IInv, NEW v \in Viewers,
         ReadRows(v) \/ Reveal(v) \/ TakeNotice(v) \/ AnswerFails(v)
  PROVE  IInv'
<1>1. UNCHANGED <<hosted, orders, rollup, changed, erasure>>
  BY DEF ReadRows, Reveal, TakeNotice, AnswerFails, database, byOrder, byCustomer
<1>2. PICK s : s = viewers[v]
  OBVIOUS
<1>3. s = [of |-> s.of, at |-> s.at, slot |-> s.slot, rows |-> s.rows,
           last |-> s.last, told |-> s.told] /\ s.of \in Projections
  BY <1>2 DEF IInv, Streams
<1>4. Fresh(v) /\ DOMAIN viewers = Viewers
  BY DEF IInv, Streams
<1>5. CASE ReadRows(v)
  <2>1. PICK t : t = [s EXCEPT !.at = "revealing", !.rows = Rows(s.of)]
    OBVIOUS
  <2>2. /\ t.of = s.of /\ t.at = "revealing" /\ t.slot = s.slot /\ t.rows = Rows(s.of)
        /\ t.last = s.last /\ t.told = s.told
        /\ t = [of |-> t.of, at |-> t.at, slot |-> t.slot, rows |-> t.rows,
                last |-> t.last, told |-> t.told]
    BY <1>3, <2>1
  <2>3. viewers' = [viewers EXCEPT ![v] = t]
    BY <1>2, <1>4, <1>5, <2>1 DEF ReadRows
  <2> QED
    BY <1>1, <1>3, <2>2, <2>3, OneStream
<1>6. CASE Reveal(v)
  <2>1. PICK view : view = [rows |-> s.rows, redacted |-> Redacted(s.of)]
    OBVIOUS
  <2>2. PICK told : told = IF view = s.last THEN s.told ELSE "view"
    OBVIOUS
  <2>3. PICK t : t = [s EXCEPT !.at = "waiting", !.rows = {}, !.last = view,
                               !.told = told]
    OBVIOUS
  <2>4. /\ t.of = s.of /\ t.at = "waiting" /\ t.slot = s.slot /\ t.rows = {}
        /\ t.last = view /\ t.told = told
        /\ t = [of |-> t.of, at |-> t.at, slot |-> t.slot, rows |-> t.rows,
                last |-> t.last, told |-> t.told]
    BY <1>3, <2>3
  <2>5. viewers' = [viewers EXCEPT ![v] = t]
    BY <1>2, <1>4, <1>6, <2>1, <2>2, <2>3 DEF Reveal
  <2>6. s.rows = Rows(s.of) \/ s.slot \/ s.of \in changed
    BY <1>2, <1>4, <1>6 DEF Reveal, Fresh
  <2>7. \/ t.last = [rows |-> Rows(t.of), redacted |-> Redacted(t.of)]
        \/ t.slot \/ t.of \in changed
    BY <2>1, <2>4, <2>6
  <2> QED
    BY <1>1, <1>3, <2>4, <2>5, <2>7, OneStream
<1>7. CASE TakeNotice(v)
  <2>1. PICK t : t = [s EXCEPT !.at = "reading", !.slot = FALSE]
    OBVIOUS
  <2>2. /\ t.of = s.of /\ t.at = "reading" /\ t.slot = FALSE /\ t.rows = s.rows
        /\ t.last = s.last /\ t.told = s.told
        /\ t = [of |-> t.of, at |-> t.at, slot |-> t.slot, rows |-> t.rows,
                last |-> t.last, told |-> t.told]
    BY <1>3, <2>1
  <2>3. viewers' = [viewers EXCEPT ![v] = t]
    BY <1>2, <1>4, <1>7, <2>1 DEF TakeNotice
  <2> QED
    BY <1>1, <1>3, <2>2, <2>3, OneStream
<1>8. CASE AnswerFails(v) /\ s.last = Nothing
  <2>1. PICK t : t = Gone
    OBVIOUS
  <2>2. /\ t.of \in Projections /\ t.at = "closed"
        /\ t = [of |-> t.of, at |-> t.at, slot |-> t.slot, rows |-> t.rows,
                last |-> t.last, told |-> t.told]
    BY <2>1 DEF Gone, Stream, Projections
  <2>3. viewers' = [viewers EXCEPT ![v] = t]
    BY <1>2, <1>4, <1>8, <2>1 DEF AnswerFails
  <2> QED
    BY <1>1, <2>2, <2>3, OneStream
<1>9. CASE AnswerFails(v) /\ s.last # Nothing
  <2>1. PICK t : t = [s EXCEPT !.at = "waiting", !.rows = {}, !.told = "error"]
    OBVIOUS
  <2>2. /\ t.of = s.of /\ t.at = "waiting" /\ t.told = "error"
        /\ t = [of |-> t.of, at |-> t.at, slot |-> t.slot, rows |-> t.rows,
                last |-> t.last, told |-> t.told]
    BY <1>3, <2>1
  <2>3. viewers' = [viewers EXCEPT ![v] = t]
    BY <1>2, <1>4, <1>9, <2>1 DEF AnswerFails
  <2> QED
    BY <1>1, <1>3, <2>2, <2>3, OneStream
<1> QED
  BY <1>5, <1>6, <1>7, <1>8, <1>9

-----------------------------------------------------------------------------

LEMMA InitIInv == Init => IInv
<1> SUFFICES ASSUME Init PROVE IInv
  OBVIOUS
<1>1. viewers = [v \in Viewers |-> Gone]
  BY DEF Init
<1>2. hosted \subseteq Projections
  BY ReadSideAssumption DEF Init
<1>3. Streams
  BY <1>1 DEF Streams, Gone, Stream, Projections
<1>4. ASSUME NEW v \in Viewers PROVE Fresh(v)
  BY <1>1 DEF Fresh, Gone, Stream
<1> QED
  BY <1>2, <1>3, <1>4 DEF IInv

LEMMA NextIInv == IInv /\ [Next]_vars => IInv'
<1> SUFFICES ASSUME IInv, [Next]_vars PROVE IInv'
  OBVIOUS
<1>1. CASE UNCHANGED vars
  BY <1>1, Quiet DEF vars
<1>2. CASE EngineStep
  BY <1>2, NotifyKeeps, OrdersKeep, RollupKeeps, WipeKeeps, OthersKeep DEF EngineStep
<1>3. CASE \/ AppendEvent \/ CommitFails \/ RebuildFails
           \/ \E p \in Projections : Deliver(p) \/ BeginRebuild(p) \/ RequestRebuild(p)
  BY <1>3, OthersKeep
<1>4. CASE \E v \in Viewers : Open(v) \/ ViewerStep(v) \/ AnswerFails(v) \/ Leave(v)
  BY <1>4, OpenLeaveKeep, HandlerKeeps DEF ViewerStep
<1>5. CASE MarkErased \/ Announce \/ Crash
  BY <1>5, MarkErasedKeeps, AnnounceKeeps, CrashKeeps
<1> QED
  BY <1>1, <1>2, <1>3, <1>4, <1>5 DEF Next

\* A viewer that waits without a notice was last sent what a read would show
\* now, or has been told of an error since: live subscribes before it reads,
\* hooks run after the commit, and a notice is kept for a handler at work.
THEOREM ViewersAreCurrent == Spec => []IdleIsCurrent
<1>1. IInv => IdleIsCurrent
  BY DEF IInv, Fresh, NoticeDue, IdleIsCurrent
<1> QED
  BY <1>1, InitIInv, NextIInv, PTL DEF Spec

-----------------------------------------------------------------------------
(* The rows.  What the tables that OrdersSay and RollupSays do not name hold  *)
(* when the log's first q events are projected.                              *)

LinesSay(q) ==
  {[order |-> Log[p].order, sku |-> Log[p].sku, amount |-> Log[p].amount] :
     p \in LastLines(q)}

CustomerOf(o) == Log[CHOOSE p \in DOMAIN Log : Places(p, o)].customer

PlacedSay(q) ==
  {[order |-> Log[p].order, customer |-> Log[p].customer] : p \in Placements(q)}

AmountsSay(q) ==
  {[order |-> Log[p].order, sku |-> Log[p].sku,
    customer |-> CustomerOf(Log[p].order), amount |-> Log[p].amount] :
     p \in LastLines(q)}

\* orders as it is after q events, and half way through the next one.
Follows(q) == lines = LinesSay(q) /\ orders = OrdersSay(q)

Half(q) == lines = LinesSay(q + 1) /\ orders \in {OrdersSay(q), OrdersSay(q + 1)}

ShapeInv ==
  /\ \A r \in orders :
       r = [order |-> r.order, customer |-> r.customer, status |-> r.status,
            total |-> r.total, lineCount |-> r.lineCount]
  /\ \A l \in lines : \E r \in orders : r.order = l.order

PlaceInv ==
  /\ head \in 0 .. Len(Log) /\ requests \subseteq Projections
  /\ positions \in [Projections -> 0 .. head]

\* Where the engine is says what it has done so far: of an event's delivery,
\* or of a rebuild, whose request is there until its tables are empty and its
\* position is 0.
TurnInv ==
  turn # Nobody =>
    /\ turn \in Turns
    /\ turn.step \in {"apply", "totals", "save"} => positions[turn.projection] < head
    /\ turn.step \in {"totals", "save"} => turn.projection = "orders"
    /\ turn.step = "totals" => Event("orders").type = "OrderLineAdded"
    /\ turn.step \in {"wiping", "reset", "off"} => turn.projection \in requests
    /\ turn.step \in {"reset", "off"} =>
         IF turn.projection = "orders" THEN orders = {} /\ lines = {}
         ELSE placed = {} /\ amounts = {} /\ rollup = {}
    /\ turn.step = "off" => positions[turn.projection] = 0

OrdersInv ==
  "orders" \notin requests =>
    LET q == positions["orders"]
    IN /\ Follows(q) \/ (q < head /\ Half(q))
       /\ turn # Nobody /\ turn.projection = "orders" =>
            /\ turn.step = "totals" => Half(q)
            /\ turn.step = "save" => Follows(q + 1)

RollupInv ==
  "orders_by_customer" \notin requests =>
    LET q == positions["orders_by_customer"]
    IN placed = PlacedSay(q) /\ amounts = AmountsSay(q) /\ rollup = RollupSays(q)

RowsInv == ShapeInv /\ PlaceInv /\ TurnInv /\ OrdersInv /\ RollupInv

-----------------------------------------------------------------------------
(* What one more event makes of them.                                        *)

LEMMA LogDomain ==
  /\ DOMAIN Log = 1 .. Len(Log) /\ Len(Log) \in Nat
  /\ \A q \in 0 .. Len(Log) : q \in Nat /\ \A p \in 1 .. q : p \in DOMAIN Log
<1>1. PICK S : S = {Log[p] : p \in DOMAIN Log}
  OBVIOUS
<1>2. Log \in Seq(S)
  BY <1>1, ReadSideAssumption
<1>3. DOMAIN Log = 1 .. Len(Log) /\ Len(Log) \in Nat
  BY <1>2
<1> QED
  BY <1>3

LEMMA EventTypes ==
  ASSUME NEW p \in DOMAIN Log
  PROVE  Log[p].type \in {"OrderPlaced", "OrderLineAdded", "OrderConfirmed",
                          "OrderCancelled"}
BY ReadSideAssumption

LEMMA PlacementsNext ==
  ASSUME NEW q \in Nat
  PROVE  /\ Log[q + 1].type = "OrderPlaced" =>
              Placements(q + 1) = Placements(q) \cup {q + 1}
         /\ Log[q + 1].type # "OrderPlaced" =>
              Placements(q + 1) = Placements(q)
         /\ q + 1 \notin Placements(q)
<1>1. 1 .. q + 1 = (1 .. q) \cup {q + 1} /\ q + 1 \notin 1 .. q
  OBVIOUS
<1> QED
  BY <1>1 DEF Placements

\* A line's last event is its last still, unless the new event is of the line.
LEMMA LastLinesNext ==
  ASSUME NEW q \in Nat
  PROVE  /\ Log[q + 1].type # "OrderLineAdded" => LastLines(q + 1) = LastLines(q)
         /\ Log[q + 1].type = "OrderLineAdded" =>
              LastLines(q + 1) =
                {p \in LastLines(q) : Log[p].order # Log[q + 1].order \/
                                      Log[p].sku # Log[q + 1].sku} \cup {q + 1}
<1>1. 1 .. q + 1 = (1 .. q) \cup {q + 1} /\ q + 1 \notin 1 .. q
  OBVIOUS
<1>2. (q + 1) + 1 .. q + 1 = {}
  OBVIOUS
<1>3. ASSUME NEW p \in 1 .. q
      PROVE  p + 1 .. q + 1 = (p + 1 .. q) \cup {q + 1}
  OBVIOUS
<1>4. ASSUME NEW p \in 1 .. q
      PROVE  p \in LastLines(q + 1) <=>
               /\ p \in LastLines(q)
               /\ \/ Log[q + 1].type # "OrderLineAdded"
                  \/ Log[q + 1].order # Log[p].order
                  \/ Log[q + 1].sku # Log[p].sku
  BY <1>1, <1>3 DEF LastLines
<1>5. q + 1 \in LastLines(q + 1) <=> Log[q + 1].type = "OrderLineAdded"
  BY <1>1, <1>2 DEF LastLines
<1>6. LastLines(q) \subseteq 1 .. q /\ LastLines(q + 1) \subseteq 1 .. q + 1
  BY DEF LastLines
<1> QED
  BY <1>1, <1>4, <1>5, <1>6

LEMMA LinesSayNext ==
  ASSUME NEW q \in Nat
  PROVE  /\ Log[q + 1].type # "OrderLineAdded" => LinesSay(q + 1) = LinesSay(q)
         /\ Log[q + 1].type = "OrderLineAdded" =>
              LinesSay(q + 1) =
                {l \in LinesSay(q) : l.order # Log[q + 1].order \/
                                     l.sku # Log[q + 1].sku} \cup
                {[order |-> Log[q + 1].order, sku |-> Log[q + 1].sku,
                  amount |-> Log[q + 1].amount]}
<1> DEFINE row(p) == [order |-> Log[p].order, sku |-> Log[p].sku,
                      amount |-> Log[p].amount]
<1>1. CASE Log[q + 1].type # "OrderLineAdded"
  BY <1>1, LastLinesNext DEF LinesSay
<1>2. CASE Log[q + 1].type = "OrderLineAdded"
  <2>1. LastLines(q + 1) =
          {p \in LastLines(q) : Log[p].order # Log[q + 1].order \/
                                Log[p].sku # Log[q + 1].sku} \cup {q + 1}
    BY <1>2, LastLinesNext
  <2>2. \A p : row(p).order = Log[p].order /\ row(p).sku = Log[p].sku
    OBVIOUS
  <2>3. /\ LinesSay(q) = {row(p) : p \in LastLines(q)}
        /\ LinesSay(q + 1) = {row(p) : p \in LastLines(q + 1)}
    BY DEF LinesSay
  <2> HIDE DEF row
  <2>4. LinesSay(q + 1) =
          {l \in LinesSay(q) : l.order # Log[q + 1].order \/
                               l.sku # Log[q + 1].sku} \cup {row(q + 1)}
    BY <2>1, <2>2, <2>3
  <2> QED
    BY <1>2, <2>4 DEF row
<1> QED
  BY <1>1, <1>2

\* The lines of one order.
LEMMA LinesOfOne ==
  ASSUME NEW q \in Nat, NEW o
  PROVE  /\ LinesOf(o, q) = {l \in LinesSay(q) : l.order = o}
         /\ o # Log[q + 1].order \/ Log[q + 1].type # "OrderLineAdded" =>
              LinesOf(o, q + 1) = LinesOf(o, q)
<1>1. \A n \in Nat : LinesOf(o, n) = {l \in LinesSay(n) : l.order = o}
  <2> SUFFICES ASSUME NEW n \in Nat
               PROVE  LinesOf(o, n) = {l \in LinesSay(n) : l.order = o}
    OBVIOUS
  <2> DEFINE row(p) == [order |-> Log[p].order, sku |-> Log[p].sku,
                        amount |-> Log[p].amount]
  <2>1. \A p : row(p).order = Log[p].order
    OBVIOUS
  <2>2. LinesSay(n) = {row(p) : p \in LastLines(n)}
    BY DEF LinesSay
  <2>3. LinesOf(o, n) = {row(p) : p \in {x \in LastLines(n) : Log[x].order = o}}
    BY DEF LinesOf
  <2> HIDE DEF row
  <2> QED
    BY <2>1, <2>2, <2>3
<1>2. ASSUME o # Log[q + 1].order \/ Log[q + 1].type # "OrderLineAdded"
      PROVE  LinesOf(o, q + 1) = LinesOf(o, q)
  <2>1. {x \in LastLines(q + 1) : Log[x].order = o}
          = {x \in LastLines(q) : Log[x].order = o}
    BY <1>2, LastLinesNext
  <2> QED
    BY <2>1 DEF LinesOf
<1> QED
  BY <1>1, <1>2

LEMMA BecameNext ==
  ASSUME NEW q \in Nat, NEW o
  PROVE  /\ \/ o # Log[q + 1].order
            \/ Log[q + 1].type \notin {"OrderConfirmed", "OrderCancelled"}
            => Became(o, q + 1) = Became(o, q)
         /\ o = Log[q + 1].order /\ Log[q + 1].type = "OrderConfirmed" =>
              Became(o, q + 1) = "confirmed"
         /\ o = Log[q + 1].order /\ Log[q + 1].type = "OrderCancelled" =>
              Became(o, q + 1) = "cancelled"
<1> DEFINE ends(n) == {p \in 1 .. n : Log[p].order = o /\
                         Log[p].type \in {"OrderConfirmed", "OrderCancelled"}}
<1>1. 1 .. q + 1 = (1 .. q) \cup {q + 1} /\ q + 1 \notin 1 .. q
  OBVIOUS
<1>2. CASE \/ o # Log[q + 1].order
           \/ Log[q + 1].type \notin {"OrderConfirmed", "OrderCancelled"}
  <2>1. ends(q + 1) = ends(q)
    BY <1>1, <1>2
  <2> QED
    BY <1>2, <2>1 DEF Became
<1>3. CASE /\ o = Log[q + 1].order
           /\ Log[q + 1].type \in {"OrderConfirmed", "OrderCancelled"}
  <2>1. q + 1 \in ends(q + 1) /\ \A p \in ends(q + 1) : p <= q + 1 /\ p \in Nat
    BY <1>1, <1>3
  <2>2. Max(ends(q + 1)) = q + 1
    <3>1. PICK s : s = ends(q + 1)
      OBVIOUS
    <3>2. /\ q + 1 \in s /\ \A p \in s : q + 1 >= p
          /\ \A x \in s : (\A p \in s : x >= p) => x = q + 1
      BY <2>1, <3>1
    <3>3. Max(s) = q + 1
      BY <3>2 DEF Max
    <3> QED
      BY <3>1, <3>3
  <2>3. ends(q + 1) # {}
    BY <2>1
  <2>4. Became(o, q + 1) = IF Log[q + 1].type = "OrderConfirmed"
                           THEN "confirmed" ELSE "cancelled"
    <3>1. Became(o, q + 1) =
            IF ends(q + 1) = {} THEN "open"
            ELSE IF Log[Max(ends(q + 1))].type = "OrderConfirmed"
                 THEN "confirmed" ELSE "cancelled"
      BY DEF Became
    <3> HIDE DEF ends
    <3> QED
      BY <2>2, <2>3, <3>1
  <2> QED
    BY <1>3, <2>4
<1> QED
  BY <1>2, <1>3

\* No event of an order comes before the one that places it, and no other event
\* places it.
LEMMA PlacedFirst ==
  ASSUME NEW q \in 0 .. Len(Log), q + 1 \in DOMAIN Log
  PROVE  /\ Log[q + 1].type = "OrderPlaced" =>
              \A p \in 1 .. q : Log[p].order # Log[q + 1].order
         /\ Log[q + 1].type # "OrderPlaced" =>
              \E p \in Placements(q) : Log[p].order = Log[q + 1].order
<1>1. q \in Nat /\ q + 1 \in Nat /\ \A p \in 1 .. q : p \in DOMAIN Log /\ p \in Nat
  BY LogDomain
<1>2. ASSUME Log[q + 1].type = "OrderPlaced", NEW p \in 1 .. q,
             Log[p].order = Log[q + 1].order
      PROVE  FALSE
  <2>1. PICK n \in 1 .. p : Places(n, Log[p].order)
    BY <1>1, ScriptAssumption
  <2>2. n \in 1 .. q /\ n \in DOMAIN Log /\ n # q + 1
    BY <1>1, <2>1
  <2>3. Places(n, Log[q + 1].order)
    BY <1>2, <2>1
  <2>4. q + 1 = n
    BY <1>2, <2>2, <2>3, ScriptAssumption
  <2> QED
    BY <2>2, <2>4
<1>3. ASSUME Log[q + 1].type # "OrderPlaced"
      PROVE  \E p \in Placements(q) : Log[p].order = Log[q + 1].order
  <2>1. PICK n \in 1 .. q + 1 : Places(n, Log[q + 1].order)
    BY ScriptAssumption
  <2>2. n # q + 1
    BY <1>3, <2>1 DEF Places
  <2>3. n \in 1 .. q
    BY <1>1, <2>2
  <2> QED
    BY <2>1, <2>3 DEF Places, Placements
<1> QED
  BY <1>2, <1>3

LEMMA PlacedOnce ==
  ASSUME NEW q \in 0 .. Len(Log), NEW p \in Placements(q), NEW n \in Placements(q),
         Log[p].order = Log[n].order
  PROVE  p = n
<1>1. p \in DOMAIN Log /\ n \in DOMAIN Log
  BY LogDomain DEF Placements
<1>2. Log[p].type = "OrderPlaced" /\ Places(n, Log[p].order)
  BY DEF Placements, Places
<1> QED
  BY <1>1, <1>2, ScriptAssumption

\* Only the event's own order has another row after it.
LEMMA SaysOther ==
  ASSUME NEW q \in Nat, NEW p, Log[p].order # Log[q + 1].order
  PROVE  OrderSays(p, q + 1) = OrderSays(p, q)
<1>1. Became(Log[p].order, q + 1) = Became(Log[p].order, q)
  BY BecameNext
<1>2. LinesOf(Log[p].order, q + 1) = LinesOf(Log[p].order, q)
  BY LinesOfOne
<1> QED
  BY <1>1, <1>2 DEF OrderSays

LEMMA NothingYet == Sum({}) = 0 /\ Cardinality({}) = 0
<1>1. Sum({}) = 0
  BY Zenon DEF Sum, MapThenSumSet, MapThenFoldSet
<1> QED
  BY <1>1, FS_EmptySet

\* An order that is placed has an open row with nothing in it.
LEMMA OrdersSayPlaced ==
  ASSUME NEW q \in 0 .. Len(Log), q + 1 \in DOMAIN Log,
         Log[q + 1].type = "OrderPlaced"
  PROVE  /\ OrdersSay(q + 1) = OrdersSay(q) \cup
              {[order |-> Log[q + 1].order, customer |-> Log[q + 1].customer,
                status |-> "open", total |-> 0, lineCount |-> 0]}
         /\ \A r \in OrdersSay(q) : r.order # Log[q + 1].order
<1>1. q \in Nat /\ \A p \in Placements(q) : p \in 1 .. q
  BY LogDomain DEF Placements
<1>2. \A p \in 1 .. q : Log[p].order # Log[q + 1].order
  BY PlacedFirst
<1>3. \A p \in Placements(q) : OrderSays(p, q + 1) = OrderSays(p, q)
  BY <1>1, <1>2, SaysOther
<1> DEFINE o == Log[q + 1].order
<1>4. LinesOf(o, q + 1) = {}
  <2>1. LastLines(q) \subseteq 1 .. q /\ LastLines(q + 1) = LastLines(q)
    BY <1>1, LastLinesNext DEF LastLines
  <2>2. {x \in LastLines(q + 1) : Log[x].order = o} = {}
    BY <1>2, <2>1
  <2> QED
    BY <2>2 DEF LinesOf
<1>5. Became(o, q + 1) = "open"
  <2>1. Became(o, q + 1) = Became(o, q)
    BY <1>1, BecameNext
  <2>2. {p \in 1 .. q : Log[p].order = o /\
           Log[p].type \in {"OrderConfirmed", "OrderCancelled"}} = {}
    BY <1>2
  <2>3. Became(o, q) = "open"
    BY <2>2 DEF Became
  <2> QED
    BY <2>1, <2>3
<1>6. OrderSays(q + 1, q + 1) =
        [order |-> o, customer |-> Log[q + 1].customer, status |-> "open",
         total |-> 0, lineCount |-> 0]
  BY <1>4, <1>5, NothingYet DEF OrderSays
<1>7. Placements(q + 1) = Placements(q) \cup {q + 1}
  BY <1>1, PlacementsNext
<1>8. OrdersSay(q + 1) = OrdersSay(q) \cup {OrderSays(q + 1, q + 1)}
  BY <1>3, <1>7 DEF OrdersSay
<1>9. \A p \in Placements(q) : OrderSays(p, q).order # o
  BY <1>1, <1>2 DEF OrderSays
<1>10. \A r \in OrdersSay(q) : r.order # o
  BY <1>9 DEF OrdersSay
<1> QED
  BY <1>6, <1>8, <1>10

\* Any other event changes the one row of its order.
LEMMA OrdersSayNext ==
  ASSUME NEW q \in 0 .. Len(Log), q + 1 \in DOMAIN Log,
         Log[q + 1].type # "OrderPlaced"
  PROVE  \E p \in Placements(q), rest \in SUBSET OrdersSay(q) :
           /\ OrdersSay(q) = rest \cup {OrderSays(p, q)}
           /\ OrdersSay(q + 1) = rest \cup {OrderSays(p, q + 1)}
           /\ Log[p].order = Log[q + 1].order
           /\ \A r \in rest : r.order # Log[q + 1].order
<1>1. q \in Nat
  BY LogDomain
<1>2. PICK p \in Placements(q) : Log[p].order = Log[q + 1].order
  BY PlacedFirst
<1> DEFINE others == Placements(q) \ {p}
           rest   == {OrderSays(n, q) : n \in others}
<1>3. \A n \in others : Log[n].order # Log[q + 1].order
  BY <1>2, PlacedOnce
<1>4. \A n \in others : OrderSays(n, q + 1) = OrderSays(n, q)
  BY <1>1, <1>3, SaysOther
<1>5. Placements(q) = others \cup {p} /\ Placements(q + 1) = Placements(q)
  <2>1. Placements(q + 1) = Placements(q)
    BY <1>1, PlacementsNext
  <2> QED
    BY <1>2, <2>1
<1>6. OrdersSay(q) = rest \cup {OrderSays(p, q)}
  BY <1>5 DEF OrdersSay
<1>7. OrdersSay(q + 1) = rest \cup {OrderSays(p, q + 1)}
  BY <1>4, <1>5 DEF OrdersSay
<1>8. \A r \in rest : r.order # Log[q + 1].order
  BY <1>3 DEF OrderSays
<1>9. rest \in SUBSET OrdersSay(q)
  BY <1>6
<1> HIDE DEF others, rest
<1> QED
  BY <1>2, <1>6, <1>7, <1>8, <1>9

-----------------------------------------------------------------------------
(* The rows of orders, step by step.                                         *)

\* Of the rows with one order there is one.
LEMMA OneRow ==
  ASSUME NEW rest, NEW a, NEW b, NEW o, \A x \in rest : x.order # o,
         a.order = o, b.order = o,
         NEW S \in {rest \cup {a}, rest \cup {b}}, NEW r \in S, r.order = o
  PROVE  r \in {a, b} /\ S \ {r} = rest /\ {x \in S : x.order = o} = {r}
OBVIOUS

\* A row with another status.
LEMMA OtherStatus ==
  ASSUME NEW o, NEW c, NEW w, NEW t, NEW k, NEW s
  PROVE  [[order |-> o, customer |-> c, status |-> w, total |-> t, lineCount |-> k]
            EXCEPT !.status = s]
           = [order |-> o, customer |-> c, status |-> s, total |-> t, lineCount |-> k]
OBVIOUS

LEMMA StatusRow ==
  ASSUME NEW q \in Nat, NEW p, Log[p].order = Log[q + 1].order,
         Log[q + 1].type \in {"OrderConfirmed", "OrderCancelled"},
         NEW r \in {OrderSays(p, q), OrderSays(p, q + 1)}
  PROVE  [r EXCEPT !.status = IF Log[q + 1].type = "OrderCancelled"
                              THEN "cancelled" ELSE "confirmed"]
           = OrderSays(p, q + 1)
<1> DEFINE o == Log[p].order
           s == IF Log[q + 1].type = "OrderCancelled" THEN "cancelled" ELSE "confirmed"
<1>1. Became(o, q + 1) = s
  BY BecameNext
<1>2. LinesOf(o, q + 1) = LinesOf(o, q)
  BY LinesOfOne
<1>3. PICK c, t, k, w :
        /\ r = [order |-> o, customer |-> c, status |-> w, total |-> t, lineCount |-> k]
        /\ c = Log[p].customer /\ t = Sum(LinesOf(o, q + 1))
        /\ k = Cardinality(LinesOf(o, q + 1))
  BY <1>2 DEF OrderSays
<1>4. OrderSays(p, q + 1) =
        [order |-> o, customer |-> c, status |-> s, total |-> t, lineCount |-> k]
  BY <1>1, <1>3 DEF OrderSays
<1> HIDE DEF o, s
<1>5. [r EXCEPT !.status = s] =
        [order |-> o, customer |-> c, status |-> s, total |-> t, lineCount |-> k]
  BY <1>3, OtherStatus
<1>6. [r EXCEPT !.status = s] = OrderSays(p, q + 1)
  BY <1>4, <1>5
<1> QED
  BY <1>6 DEF s

\* ... and one with other totals.
Totalled(m, r, L) == m = [r EXCEPT !.total = Sum(L), !.lineCount = Cardinality(L)]

LEMMA TotalsRow ==
  ASSUME NEW q \in Nat, NEW p, Log[p].order = Log[q + 1].order,
         Log[q + 1].type = "OrderLineAdded",
         NEW r \in {OrderSays(p, q), OrderSays(p, q + 1)},
         NEW m, Totalled(m, r, LinesOf(Log[p].order, q + 1))
  PROVE  m = OrderSays(p, q + 1)
<1> DEFINE o == Log[p].order
<1>1. Became(o, q + 1) = Became(o, q)
  BY BecameNext
<1> PICK t, k : /\ t = Sum(LinesOf(o, q + 1))
                /\ k = Cardinality(LinesOf(o, q + 1))
  OBVIOUS
<1>0. m = [r EXCEPT !.total = t, !.lineCount = k]
  BY DEF Totalled
<1>2. PICK c, w, x, y :
        /\ r = [order |-> o, customer |-> c, status |-> w, total |-> x, lineCount |-> y]
        /\ c = Log[p].customer /\ w = Became(o, q + 1)
  BY <1>1 DEF OrderSays
<1>3. OrderSays(p, q + 1) =
        [order |-> o, customer |-> c, status |-> w, total |-> t, lineCount |-> k]
  BY <1>2 DEF OrderSays
<1> HIDE DEF o
<1> DEFINE n == [order |-> o, customer |-> c, status |-> w, total |-> t, lineCount |-> y]
           e == [order |-> o, customer |-> c, status |-> w, total |-> t, lineCount |-> k]
<1>4. [r EXCEPT !.total = t] = n
  BY <1>2
<1>5. [n EXCEPT !.lineCount = k] = e
  OBVIOUS
<1>6. e = OrderSays(p, q + 1)
  BY <1>3
<1> HIDE DEF n, e
<1>7. [[r EXCEPT !.total = t] EXCEPT !.lineCount = k] = e
  BY <1>4, <1>5
<1> QED
  BY <1>0, <1>6, <1>7

\* Where the projection is when it has an event to take.
LEMMA AtEvent ==
  ASSUME RowsInv, NEW p \in Projections, positions[p] < head
  PROVE  /\ positions[p] \in Nat /\ positions[p] \in 0 .. Len(Log)
         /\ positions[p] + 1 \in DOMAIN Log
         /\ positions[p] + 1 \in 0 .. head
<1>1. head \in 0 .. Len(Log) /\ positions[p] \in 0 .. head
  BY DEF RowsInv, PlaceInv
<1> QED
  BY <1>1, LogDomain

\* A step that writes nothing, whether the engine goes on or gives up.
LEMMA RowsQuiet ==
  ASSUME RowsInv, UNCHANGED <<head, database>>, turn' = turn \/ turn' = Nobody
  PROVE  RowsInv'
<1>1. UNCHANGED <<orders, lines, placed, amounts, rollup, positions, requests>>
  BY DEF database, byOrder, byCustomer
<1>2. ShapeInv' /\ PlaceInv' /\ RollupInv'
  BY <1>1 DEF RowsInv, ShapeInv, PlaceInv, RollupInv
<1>3. TurnInv'
  BY <1>1 DEF RowsInv, TurnInv, Event
<1>4. OrdersInv'
  <2> SUFFICES ASSUME "orders" \notin requests'
               PROVE  OrdersInv!2'
    BY DEF OrdersInv
  <2>1. PICK q : q = positions["orders"]
    OBVIOUS
  <2> QED
    BY <1>1, <2>1 DEF RowsInv, OrdersInv, Follows, Half
<1> QED
  BY <1>2, <1>3, <1>4 DEF RowsInv

\* A step that leaves a projection's rows and its place in the log alone.
LEMMA OrdersUntouched ==
  ASSUME RowsInv, UNCHANGED byOrder, positions'["orders"] = positions["orders"],
         head' = head \/ head' = head + 1,
         "orders" \in requests => "orders" \in requests',
         \/ turn' = turn
         \/ turn' = Nobody
         \/ turn'.projection # "orders"
         \/ turn'.step \notin {"totals", "save"}
  PROVE  OrdersInv'
<1> SUFFICES ASSUME "orders" \notin requests'
             PROVE  OrdersInv!2'
  BY DEF OrdersInv
<1>1. lines' = lines /\ orders' = orders
  BY DEF byOrder
<1>2. PICK q : q = positions["orders"]
  OBVIOUS
<1>3. q < head => q < head'
  BY <1>2 DEF RowsInv, PlaceInv, Projections
<1>4. Follows(q) \/ (q < head /\ Half(q))
  BY <1>2 DEF RowsInv, OrdersInv
<1>5. Follows(q)' \/ (q < head' /\ Half(q)')
  BY <1>1, <1>3, <1>4 DEF Follows, Half
<1>6. turn' = turn /\ turn # Nobody /\ turn.projection = "orders" =>
        /\ turn.step = "totals" => Half(q)
        /\ turn.step = "save" => Follows(q + 1)
  BY <1>2 DEF RowsInv, OrdersInv
<1>7. turn' = turn /\ turn' # Nobody /\ turn'.projection = "orders" =>
        /\ turn'.step = "totals" => Half(q)'
        /\ turn'.step = "save" => Follows(q + 1)'
  BY <1>1, <1>6 DEF Follows, Half
<1> QED
  BY <1>2, <1>5, <1>7

LEMMA RollupUntouched ==
  ASSUME RowsInv, UNCHANGED byCustomer,
         positions'["orders_by_customer"] = positions["orders_by_customer"],
         "orders_by_customer" \in requests => "orders_by_customer" \in requests'
  PROVE  RollupInv'
BY DEF RowsInv, RollupInv, byCustomer

LEMMA RowsStart == Init => RowsInv
<1> SUFFICES ASSUME Init
             PROVE  RowsInv
  OBVIOUS
<1>1. Placements(0) = {} /\ LastLines(0) = {}
  BY DEF Placements, LastLines
<1>2. /\ LinesSay(0) = {} /\ OrdersSay(0) = {} /\ PlacedSay(0) = {}
      /\ AmountsSay(0) = {} /\ RollupSays(0) = {}
  BY <1>1 DEF LinesSay, OrdersSay, PlacedSay, AmountsSay, RollupSays
<1>3. positions["orders"] = 0 /\ positions["orders_by_customer"] = 0
  BY DEF Init, Projections
<1>4. ShapeInv
  BY DEF Init, ShapeInv
<1>5. PlaceInv
  BY LogDomain DEF Init, PlaceInv
<1>6. TurnInv
  BY DEF Init, TurnInv
<1>7. OrdersInv
  BY <1>2, <1>3 DEF Init, OrdersInv, Follows
<1>8. RollupInv
  BY <1>2, <1>3 DEF Init, RollupInv
<1> QED
  BY <1>4, <1>5, <1>6, <1>7, <1>8 DEF RowsInv

LEMMA AppendKeepsRows == RowsInv /\ AppendEvent => RowsInv'
<1> SUFFICES ASSUME RowsInv, AppendEvent
             PROVE  RowsInv'
  OBVIOUS
<1>1. /\ head' = head + 1 /\ head < Len(Log)
      /\ UNCHANGED <<orders, lines, byCustomer, positions, requests, turn>>
  BY DEF AppendEvent, database, byOrder
<1>2. PlaceInv'
  BY <1>1, LogDomain DEF RowsInv, PlaceInv
<1>3. ShapeInv'
  BY <1>1 DEF RowsInv, ShapeInv
<1>4. OrdersInv'
  BY <1>1, OrdersUntouched DEF byOrder
<1>5. RollupInv'
  BY <1>1, RollupUntouched
<1>6. TurnInv'
  <2>1. Event("orders")' = Event("orders")
    BY <1>1 DEF Event
  <2>2. positions \in [Projections -> 0 .. head] /\ head \in Nat
    BY LogDomain DEF RowsInv, PlaceInv
  <2>3. turn # Nobody => turn.projection \in Projections
    BY DEF RowsInv, TurnInv, Turns
  <2>4. turn # Nobody /\ positions[turn.projection] < head =>
          positions[turn.projection] < head'
    BY <1>1, <2>2, <2>3
  <2> QED
    BY <1>1, <2>1, <2>4 DEF RowsInv, TurnInv, byCustomer
<1> QED
  BY <1>2, <1>3, <1>4, <1>5, <1>6 DEF RowsInv

LEMMA TurnsKeepRows ==
  ASSUME RowsInv, NEW p \in Projections,
         Deliver(p) \/ BeginRebuild(p) \/ RequestRebuild(p)
  PROVE  RowsInv'
<1>1. /\ UNCHANGED <<head, orders, lines, byCustomer, positions>>
      /\ requests \subseteq requests' /\ requests' \subseteq Projections
  BY DEF Deliver, BeginRebuild, RequestRebuild, database, byOrder, RowsInv, PlaceInv
<1>2. \/ turn' = turn
      \/ /\ turn' = [projection |-> p, step |-> "apply"] /\ positions[p] < head
      \/ /\ turn' = [projection |-> p, step |-> "wiping"] /\ p \in requests
  BY DEF Deliver, BeginRebuild, RequestRebuild
<1>3. PlaceInv' /\ ShapeInv'
  BY <1>1 DEF RowsInv, PlaceInv, ShapeInv
<1>4. OrdersInv'
  BY <1>1, <1>2, OrdersUntouched DEF byOrder
<1>5. RollupInv'
  BY <1>1, RollupUntouched
<1>6. TurnInv'
  <2>1. CASE turn' = turn
    BY <1>1, <2>1 DEF RowsInv, TurnInv, Event, byCustomer
  <2>2. CASE turn' = [projection |-> p, step |-> "apply"] /\ positions[p] < head
    <3>1. turn'.step = "apply" /\ turn'.projection = p /\ turn' \in Turns
      BY <2>2 DEF Turns
    <3> QED
      BY <1>1, <2>2, <3>1 DEF TurnInv
  <2>3. CASE turn' = [projection |-> p, step |-> "wiping"] /\ p \in requests
    <3>1. turn'.step = "wiping" /\ turn'.projection = p /\ turn' \in Turns
      BY <2>3 DEF Turns
    <3> QED
      BY <1>1, <2>3, <3>1 DEF TurnInv
  <2> QED
    BY <1>2, <2>1, <2>2, <2>3
<1> QED
  BY <1>3, <1>4, <1>5, <1>6 DEF RowsInv

\* The engine goes on to totals or save with the rows it has just written.
LEMMA StepTo ==
  ASSUME RowsInv, NEW step \in {"totals", "save"},
         turn = [projection |-> "orders", step |-> "apply"] \/
         turn = [projection |-> "orders", step |-> "totals"],
         turn' = [turn EXCEPT !.step = step],
         step = "totals" => Event("orders").type = "OrderLineAdded",
         UNCHANGED <<head, byCustomer, positions, requests>>, ShapeInv',
         "orders" \notin requests =>
           IF step = "totals" THEN Half(positions["orders"])'
           ELSE Follows(positions["orders"] + 1)'
  PROVE  RowsInv'
<1>1. /\ turn' = [projection |-> "orders", step |-> step]
      /\ turn' # Nobody /\ turn' \in Turns
  <2>1. turn' = [projection |-> "orders", step |-> step]
    OBVIOUS
  <2>2. turn' \in Turns
    <3>1. \A p \in Projections, x \in {"apply", "totals", "save", "wiping", "reset", "off"} :
            [projection |-> p, step |-> x] \in Turns
      BY DEF Turns
    <3> QED
      BY <2>1, <3>1 DEF Projections
  <2> QED
    BY <2>1, <2>2, ReadSideAssumption
<1>2. turn'.projection = "orders" /\ turn'.step = step
  BY <1>1
<1>3. positions["orders"] < head
  <2>1. turn # Nobody /\ turn.projection = "orders" /\ turn.step \in {"apply", "totals"}
    BY ReadSideAssumption DEF Turns, Projections
  <2> QED
    BY <2>1 DEF RowsInv, TurnInv
<1>4. PlaceInv'
  BY DEF RowsInv, PlaceInv
<1>5. RollupInv'
  BY RollupUntouched
<1>6. TurnInv'
  <2>1. Event("orders")' = Event("orders")
    BY DEF Event
  <2> QED
    BY <1>1, <1>2, <1>3, <2>1 DEF TurnInv
<1>7. OrdersInv'
  <2> SUFFICES ASSUME "orders" \notin requests'
               PROVE  OrdersInv!2'
    BY DEF OrdersInv
  <2>1. PICK q : q = positions["orders"]
    OBVIOUS
  <2>2. IF step = "totals" THEN Half(q)' ELSE Follows(q + 1)'
    BY <2>1
  <2>3. Half(q)'
    BY <2>2 DEF Half, Follows
  <2> QED
    BY <1>2, <1>3, <2>1, <2>2, <2>3
<1> QED
  BY <1>4, <1>5, <1>6, <1>7 DEF RowsInv

\* The line an event adds, whether it has been added before or not.
LEMMA LineAdded ==
  ASSUME NEW q \in Nat, Log[q + 1].type = "OrderLineAdded",
         NEW L \in {LinesSay(q), LinesSay(q + 1)}
  PROVE  {l \in L : l.order # Log[q + 1].order \/ l.sku # Log[q + 1].sku} \cup
         {[order |-> Log[q + 1].order, sku |-> Log[q + 1].sku,
           amount |-> Log[q + 1].amount]} = LinesSay(q + 1)
<1> DEFINE n == [order |-> Log[q + 1].order, sku |-> Log[q + 1].sku,
                 amount |-> Log[q + 1].amount]
           keep(S) == {l \in S : l.order # Log[q + 1].order \/ l.sku # Log[q + 1].sku}
<1>1. LinesSay(q + 1) = keep(LinesSay(q)) \cup {n}
  BY LinesSayNext
<1>2. n.order = Log[q + 1].order /\ n.sku = Log[q + 1].sku
  OBVIOUS
<1> HIDE DEF n
<1>3. keep(keep(LinesSay(q)) \cup {n}) = keep(LinesSay(q))
  BY <1>2
<1>4. keep(L) \cup {n} = LinesSay(q + 1)
  BY <1>1, <1>3
<1> QED
  BY <1>4 DEF n

\* The rows before a step of the projection's event.
LEMMA RowsAtEvent ==
  ASSUME RowsInv, "orders" \notin requests, positions["orders"] < head,
         NEW q, q = positions["orders"]
  PROVE  /\ q \in Nat /\ q \in 0 .. Len(Log) /\ q + 1 \in DOMAIN Log
         /\ Event("orders") = Log[q + 1]
         /\ orders \in {OrdersSay(q), OrdersSay(q + 1)}
         /\ \/ lines = LinesSay(q) /\ orders = OrdersSay(q)
            \/ lines = LinesSay(q + 1)
BY AtEvent DEF RowsInv, OrdersInv, Follows, Half, Event, Projections

LEMMA ApplyKeepsRows == RowsInv /\ ApplyOrder => RowsInv'
<1> SUFFICES ASSUME RowsInv, ApplyOrder
             PROVE  RowsInv'
  OBVIOUS
<1> DEFINE ev  == Event("orders")
           row == OrderOf(ev.order)
<1>1. /\ turn = [projection |-> "orders", step |-> "apply"]
      /\ UNCHANGED <<head, byCustomer, positions, requests>>
  BY DEF ApplyOrder, At
<1>2. positions["orders"] < head
  BY <1>1, ReadSideAssumption DEF RowsInv, TurnInv, Turns, Projections
<1>3. PICK q : q = positions["orders"]
  OBVIOUS
<1>4. /\ q \in Nat /\ q \in 0 .. Len(Log) /\ q + 1 \in DOMAIN Log
      /\ ev = Log[q + 1]
  BY <1>2, <1>3, AtEvent DEF Projections, Event
<1>5. "orders" \notin requests =>
        /\ orders \in {OrdersSay(q), OrdersSay(q + 1)}
        /\ \/ lines = LinesSay(q) /\ orders = OrdersSay(q)
           \/ lines = LinesSay(q + 1)
  BY <1>2, <1>3, RowsAtEvent
<1>6. CASE /\ ev.type = "OrderPlaced" /\ row = {}
           /\ orders' = orders \cup {[order |-> ev.order, customer |-> ev.customer,
                                      status |-> "open", total |-> 0, lineCount |-> 0]}
           /\ Goes("save") /\ UNCHANGED lines
  <2>1. ShapeInv'
    BY <1>6 DEF RowsInv, ShapeInv
  <2>2. ASSUME "orders" \notin requests
        PROVE  Follows(q + 1)'
    <3> DEFINE new == [order |-> ev.order, customer |-> ev.customer,
                       status |-> "open", total |-> 0, lineCount |-> 0]
    <3>1. OrdersSay(q + 1) = OrdersSay(q) \cup {new}
      BY <1>4, <1>6, OrdersSayPlaced
    <3>2. LinesSay(q + 1) = LinesSay(q)
      BY <1>4, <1>6, LinesSayNext
    <3>3. orders' = orders \cup {new}
      BY <1>6
    <3> HIDE DEF new
    <3>4. orders' = OrdersSay(q + 1)
      BY <1>5, <2>2, <3>1, <3>3
    <3> QED
      BY <1>5, <1>6, <2>2, <3>2, <3>4 DEF Follows
  <2> QED
    BY <1>1, <1>3, <1>6, <2>1, <2>2, StepTo DEF Goes
<1>7. CASE /\ ev.type = "OrderLineAdded" /\ row # {}
           /\ lines' = {l \in lines : l.order # ev.order \/ l.sku # ev.sku} \cup
                       {[order |-> ev.order, sku |-> ev.sku, amount |-> ev.amount]}
           /\ Goes("totals") /\ UNCHANGED orders
  <2>1. ShapeInv'
    BY <1>7 DEF RowsInv, ShapeInv, OrderOf
  <2>2. ASSUME "orders" \notin requests
        PROVE  Half(q)'
    <3>1. lines \in {LinesSay(q), LinesSay(q + 1)}
      BY <1>5, <2>2
    <3>2. lines' = LinesSay(q + 1)
      BY <1>4, <1>7, <3>1, LineAdded
    <3> QED
      BY <1>5, <1>7, <2>2, <3>2 DEF Half
  <2> QED
    BY <1>1, <1>3, <1>7, <2>1, <2>2, StepTo DEF Goes
<1>8. CASE \E r \in row :
             /\ ev.type \in {"OrderConfirmed", "OrderCancelled"}
             /\ orders' = (orders \ row) \cup
                  {[r EXCEPT !.status = IF ev.type = "OrderCancelled"
                                        THEN "cancelled" ELSE "confirmed"]}
             /\ Goes("save") /\ UNCHANGED lines
  <2>1. PICK r \in row :
             /\ ev.type \in {"OrderConfirmed", "OrderCancelled"}
             /\ orders' = (orders \ row) \cup
                  {[r EXCEPT !.status = IF ev.type = "OrderCancelled"
                                        THEN "cancelled" ELSE "confirmed"]}
             /\ Goes("save") /\ UNCHANGED lines
    BY <1>8
  <2>2. r \in orders /\ r.order = ev.order
    BY DEF OrderOf
  <2>3. PICK s : s = IF ev.type = "OrderCancelled" THEN "cancelled" ELSE "confirmed"
    OBVIOUS
  <2>4. orders' = (orders \ row) \cup {[r EXCEPT !.status = s]}
    BY <2>1, <2>3
  <2>5. ShapeInv'
    <3>1. PICK o, c, w, t, k :
            /\ r = [order |-> o, customer |-> c, status |-> w, total |-> t,
                    lineCount |-> k]
            /\ o = ev.order
      BY <2>2 DEF RowsInv, ShapeInv
    <3>2. [r EXCEPT !.status = s] =
            [order |-> o, customer |-> c, status |-> s, total |-> t, lineCount |-> k]
      BY <3>1, OtherStatus
    <3>3. PICK m : m = [r EXCEPT !.status = s]
      OBVIOUS
    <3>4. /\ m.order = ev.order
          /\ m = [order |-> m.order, customer |-> m.customer, status |-> m.status,
                  total |-> m.total, lineCount |-> m.lineCount]
      BY <3>1, <3>2, <3>3
    <3>5. orders' = {x \in orders : x.order # ev.order} \cup {m}
      BY <2>4, <3>3 DEF OrderOf
    <3> QED
      BY <2>1, <3>4, <3>5 DEF RowsInv, ShapeInv
  <2>6. ASSUME "orders" \notin requests
        PROVE  Follows(q + 1)'
    <3>1. PICK p \in Placements(q), rest \in SUBSET OrdersSay(q) :
           /\ OrdersSay(q) = rest \cup {OrderSays(p, q)}
           /\ OrdersSay(q + 1) = rest \cup {OrderSays(p, q + 1)}
           /\ Log[p].order = Log[q + 1].order
           /\ \A x \in rest : x.order # Log[q + 1].order
      BY <1>4, <2>1, OrdersSayNext
    <3>2. PICK a, b : a = OrderSays(p, q) /\ b = OrderSays(p, q + 1)
      OBVIOUS
    <3>3. a.order = ev.order /\ b.order = ev.order
      BY <1>4, <3>1, <3>2 DEF OrderSays
    <3>4. orders \in {rest \cup {a}, rest \cup {b}}
      BY <1>5, <2>6, <3>1, <3>2
    <3>5. \A x \in rest : x.order # ev.order
      BY <1>4, <3>1
    <3>6. r \in {a, b} /\ orders \ {r} = rest /\ {x \in orders : x.order = ev.order} = {r}
      <4>1. PICK S, o : S = orders /\ o = ev.order
        OBVIOUS
      <4>2. S \in {rest \cup {a}, rest \cup {b}} /\ r \in S /\ r.order = o
        BY <2>2, <3>4, <4>1
      <4>3. a.order = o /\ b.order = o /\ \A x \in rest : x.order # o
        BY <3>3, <3>5, <4>1
      <4>4. r \in {a, b} /\ S \ {r} = rest /\ {x \in S : x.order = o} = {r}
        BY ONLY <4>2, <4>3
      <4> QED
        BY <4>1, <4>4
    <3>7. orders \ row = rest
      BY <3>6 DEF OrderOf
    <3>8. [r EXCEPT !.status = s] = OrderSays(p, q + 1)
      BY <1>4, <2>1, <2>3, <3>1, <3>2, <3>6, StatusRow
    <3>9. orders' = OrdersSay(q + 1)
      BY <2>4, <3>1, <3>7, <3>8
    <3>10. LinesSay(q + 1) = LinesSay(q)
      BY <1>4, <2>1, LinesSayNext
    <3> QED
      BY <1>5, <2>1, <2>6, <3>9, <3>10 DEF Follows
  <2> QED
    BY <1>1, <1>3, <2>1, <2>5, <2>6, StepTo DEF Goes
<1>9. CASE ev.type = "OrderPlaced" /\ row # {} /\ Goes("save") /\ UNCHANGED byOrder
  <2>1. orders' = orders /\ lines' = lines
    BY <1>9 DEF byOrder
  <2>2. ShapeInv'
    BY <2>1 DEF RowsInv, ShapeInv
  <2>3. ASSUME "orders" \notin requests
        PROVE  Follows(q + 1)'
    <3>1. \A r \in OrdersSay(q) : r.order # ev.order
      BY <1>4, <1>9, OrdersSayPlaced
    <3>2. orders = OrdersSay(q + 1)
      BY <1>5, <1>9, <2>3, <3>1 DEF OrderOf
    <3>3. lines = LinesSay(q + 1)
      BY <1>4, <1>5, <1>9, <2>3, LinesSayNext
    <3> QED
      BY <2>1, <3>2, <3>3 DEF Follows
  <2> QED
    BY <1>1, <1>3, <1>9, <2>2, <2>3, StepTo DEF Goes
<1>10. CASE turn' = Nobody /\ UNCHANGED byOrder
  BY <1>1, <1>10, RowsQuiet DEF database
<1> QED
  BY <1>6, <1>7, <1>8, <1>9, <1>10 DEF ApplyOrder

LEMMA TotalsKeepRows == RowsInv /\ Totals => RowsInv'
<1> SUFFICES ASSUME RowsInv, Totals
             PROVE  RowsInv'
  OBVIOUS
<1> DEFINE ev == Event("orders")
<1>1. /\ turn = [projection |-> "orders", step |-> "totals"]
      /\ UNCHANGED <<head, lines, byCustomer, positions, requests>>
  BY DEF Totals, At
<1>2. /\ turn # Nobody /\ turn.projection = "orders" /\ turn.step = "totals"
      /\ positions["orders"] < head /\ ev.type = "OrderLineAdded"
  BY <1>1, ReadSideAssumption DEF RowsInv, TurnInv, Turns, Projections
<1>3. PICK q : q = positions["orders"]
  OBVIOUS
<1>4. /\ q \in Nat /\ q \in 0 .. Len(Log) /\ q + 1 \in DOMAIN Log /\ q + 1 \in Nat
      /\ ev = Log[q + 1]
  BY <1>2, <1>3, AtEvent DEF Projections, Event
<1>5. "orders" \notin requests => Half(q)
  BY <1>2, <1>3 DEF RowsInv, OrdersInv
<1>6. ASSUME NEW r \in OrderOf(ev.order), NEW mine,
             mine = {l \in lines : l.order = r.order}, Goes("save"),
             orders' = (orders \ {r}) \cup
               {[r EXCEPT !.total = Sum(mine), !.lineCount = Cardinality(mine)]}
      PROVE  RowsInv'
  <2>1. r \in orders /\ r.order = ev.order
    BY DEF OrderOf
  <2>2. PICK t, k, m : /\ t = Sum(mine) /\ k = Cardinality(mine)
                       /\ m = [r EXCEPT !.total = t, !.lineCount = k]
    OBVIOUS
  <2>3. orders' = (orders \ {r}) \cup {m}
    BY <1>6, <2>2
  <2>4. ShapeInv'
    <3>1. PICK o, c, w, x, y :
            /\ r = [order |-> o, customer |-> c, status |-> w, total |-> x,
                    lineCount |-> y]
            /\ o = ev.order
      BY <2>1 DEF RowsInv, ShapeInv
    <3>2. m = [order |-> o, customer |-> c, status |-> w, total |-> t, lineCount |-> k]
      <4> DEFINE n == [order |-> o, customer |-> c, status |-> w, total |-> t,
                       lineCount |-> y]
                 e == [order |-> o, customer |-> c, status |-> w, total |-> t,
                       lineCount |-> k]
      <4>1. [r EXCEPT !.total = t] = n
        BY <3>1
      <4>2. [n EXCEPT !.lineCount = k] = e
        OBVIOUS
      <4> HIDE DEF n, e
      <4>3. m = [[r EXCEPT !.total = t] EXCEPT !.lineCount = k]
        BY <2>2
      <4>4. m = e
        BY <4>1, <4>2, <4>3
      <4> QED
        BY <4>4 DEF e
    <3>3. /\ m.order = r.order
          /\ m = [order |-> m.order, customer |-> m.customer, status |-> m.status,
                  total |-> m.total, lineCount |-> m.lineCount]
      BY <2>1, <3>1, <3>2
    <3> QED
      BY <1>1, <2>1, <2>3, <3>3 DEF RowsInv, ShapeInv
  <2>5. ASSUME "orders" \notin requests
        PROVE  Follows(q + 1)'
    <3>1. PICK p \in Placements(q), rest \in SUBSET OrdersSay(q) :
           /\ OrdersSay(q) = rest \cup {OrderSays(p, q)}
           /\ OrdersSay(q + 1) = rest \cup {OrderSays(p, q + 1)}
           /\ Log[p].order = Log[q + 1].order
           /\ \A x \in rest : x.order # Log[q + 1].order
      BY <1>2, <1>4, OrdersSayNext
    <3>2. PICK a, b : a = OrderSays(p, q) /\ b = OrderSays(p, q + 1)
      OBVIOUS
    <3>3. a.order = ev.order /\ b.order = ev.order
      BY <1>4, <3>1, <3>2 DEF OrderSays
    <3>4. lines = LinesSay(q + 1) /\ orders \in {rest \cup {a}, rest \cup {b}}
      BY <1>5, <2>5, <3>1, <3>2 DEF Half
    <3>5. \A x \in rest : x.order # ev.order
      BY <1>4, <3>1
    <3>6. r \in {a, b} /\ orders \ {r} = rest
      <4>1. PICK S, o : S = orders /\ o = ev.order
        OBVIOUS
      <4>2. S \in {rest \cup {a}, rest \cup {b}} /\ r \in S /\ r.order = o
        BY <2>1, <3>4, <4>1
      <4>3. a.order = o /\ b.order = o /\ \A x \in rest : x.order # o
        BY <3>3, <3>5, <4>1
      <4>4. r \in {a, b} /\ S \ {r} = rest /\ {x \in S : x.order = o} = {r}
        BY ONLY <4>2, <4>3
      <4> QED
        BY <4>1, <4>4
    <3>7. mine = LinesOf(Log[p].order, q + 1)
      BY <1>4, <1>6, <2>1, <3>1, <3>4, LinesOfOne
    <3>8. m = OrderSays(p, q + 1)
      <4>1. r \in {OrderSays(p, q), OrderSays(p, q + 1)}
        BY <3>2, <3>6
      <4>2. Log[p].order = Log[q + 1].order /\ Log[q + 1].type = "OrderLineAdded"
        BY <1>2, <1>4, <3>1
      <4>3. Totalled(m, r, LinesOf(Log[p].order, q + 1))
        BY <2>2, <3>7 DEF Totalled
      <4> QED
        BY <1>4, <4>1, <4>2, <4>3, TotalsRow
    <3>9. orders' = OrdersSay(q + 1)
      BY <2>3, <3>1, <3>6, <3>8
    <3> QED
      BY <1>1, <3>4, <3>9 DEF Follows
  <2> QED
    BY <1>1, <1>3, <1>6, <2>4, <2>5, StepTo DEF Goes
<1>7. CASE turn' = Nobody /\ UNCHANGED orders
  BY <1>1, <1>7, RowsQuiet DEF database, byOrder
<1> QED
  BY <1>6, <1>7 DEF Totals

LEMMA SaveKeepsRows == RowsInv /\ Save => RowsInv'
<1> SUFFICES ASSUME RowsInv, Save
             PROVE  RowsInv'
  OBVIOUS
<1>1. /\ turn = [projection |-> "orders", step |-> "save"] /\ turn' = Nobody
      /\ UNCHANGED <<head, orders, lines, byCustomer, requests>>
  BY DEF Save, At, byOrder
<1>2. /\ turn # Nobody /\ turn.projection = "orders" /\ turn.step = "save"
      /\ positions["orders"] < head
  BY <1>1, ReadSideAssumption DEF RowsInv, TurnInv, Turns, Projections
<1>3. CASE UNCHANGED positions
  BY <1>1, <1>3, RowsQuiet DEF database, byOrder
<1>4. CASE positions' = [positions EXCEPT !["orders"] = @ + 1]
  <2>1. PICK q : q = positions["orders"]
    OBVIOUS
  <2>2. positions \in [Projections -> 0 .. head] /\ head \in Nat
    BY LogDomain DEF RowsInv, PlaceInv
  <2>3. /\ positions' \in [Projections -> 0 .. head]
        /\ positions'["orders"] = q + 1
        /\ positions'["orders_by_customer"] = positions["orders_by_customer"]
    BY <1>2, <1>4, <2>1, <2>2 DEF Projections
  <2>4. PlaceInv' /\ ShapeInv' /\ TurnInv'
    BY <1>1, <2>3 DEF RowsInv, PlaceInv, ShapeInv, TurnInv
  <2>5. RollupInv'
    BY <1>1, <2>3, RollupUntouched
  <2>6. OrdersInv'
    <3> SUFFICES ASSUME "orders" \notin requests'
                 PROVE  OrdersInv!2'
      BY DEF OrdersInv
    <3>1. Follows(q + 1)
      BY <1>1, <1>2, <2>1 DEF RowsInv, OrdersInv
    <3>2. Follows(q + 1)'
      BY <1>1, <3>1 DEF Follows
    <3> QED
      BY <1>1, <2>3, <3>2
  <2> QED
    BY <2>4, <2>5, <2>6 DEF RowsInv
<1> QED
  BY <1>3, <1>4 DEF Save

-----------------------------------------------------------------------------
(* The rows of orders_by_customer.                                           *)

LEMMA CustomerOfPlaced ==
  ASSUME NEW q \in 0 .. Len(Log), NEW p \in Placements(q)
  PROVE  CustomerOf(Log[p].order) = Log[p].customer
<1>1. p \in DOMAIN Log /\ Log[p].type = "OrderPlaced"
  BY LogDomain DEF Placements
<1>2. \A n \in DOMAIN Log : Places(n, Log[p].order) <=> n = p
  BY <1>1, ScriptAssumption DEF Places
<1>3. (CHOOSE n \in DOMAIN Log : Places(n, Log[p].order)) = p
  BY <1>1, <1>2
<1> QED
  BY <1>3 DEF CustomerOf

\* The order of a line is one of the customer's who placed it.
LEMMA TheirsAre ==
  ASSUME NEW q \in 0 .. Len(Log), NEW p \in LastLines(q), NEW c
  PROVE  Log[p].order \in Theirs(c, q) <=> CustomerOf(Log[p].order) = c
<1>1. p \in 1 .. q /\ p \in DOMAIN Log /\ q \in Nat
  BY LogDomain DEF LastLines
<1>2. PICK n \in 1 .. p : Places(n, Log[p].order)
  BY <1>1, ScriptAssumption
<1>3. n \in Placements(q) /\ Log[n].order = Log[p].order
  BY <1>1, <1>2 DEF Placements, Places
<1>4. CustomerOf(Log[p].order) = Log[n].customer
  BY <1>3, CustomerOfPlaced
<1>5. \A m \in Placements(q) : Log[m].order = Log[p].order => m = n
  BY <1>3, PlacedOnce
<1> QED
  BY <1>3, <1>4, <1>5 DEF Theirs

LEMMA TheirLinesAre ==
  ASSUME NEW q \in 0 .. Len(Log), NEW c
  PROVE  TheirLines(c, q) = {a \in AmountsSay(q) : a.customer = c}
<1> DEFINE row(p) == [order |-> Log[p].order, sku |-> Log[p].sku,
                      customer |-> CustomerOf(Log[p].order), amount |-> Log[p].amount]
           mine == {n \in LastLines(q) : Log[n].order \in Theirs(c, q)}
<1>1. \A p \in LastLines(q) : p \in mine <=> CustomerOf(Log[p].order) = c
  BY TheirsAre
<1>2. \A p \in mine : row(p) = [order |-> Log[p].order, sku |-> Log[p].sku,
                                customer |-> c, amount |-> Log[p].amount]
  BY <1>1
<1>3. \A p \in LastLines(q) : row(p).customer = CustomerOf(Log[p].order)
  OBVIOUS
<1>4. AmountsSay(q) = {row(p) : p \in LastLines(q)}
  BY DEF AmountsSay
<1>5. TheirLines(c, q) = {row(p) : p \in mine}
  BY <1>2 DEF TheirLines
<1>6. mine \subseteq LastLines(q)
  OBVIOUS
<1> HIDE DEF row, mine
<1> QED
  BY <1>1, <1>3, <1>4, <1>5, <1>6

LEMMA AmountsSayNext ==
  ASSUME NEW q \in Nat
  PROVE  /\ Log[q + 1].type # "OrderLineAdded" => AmountsSay(q + 1) = AmountsSay(q)
         /\ Log[q + 1].type = "OrderLineAdded" =>
              AmountsSay(q + 1) =
                {a \in AmountsSay(q) : a.order # Log[q + 1].order \/
                                       a.sku # Log[q + 1].sku} \cup
                {[order |-> Log[q + 1].order, sku |-> Log[q + 1].sku,
                  customer |-> CustomerOf(Log[q + 1].order),
                  amount |-> Log[q + 1].amount]}
         /\ \A a \in AmountsSay(q) : a.customer = CustomerOf(a.order)
<1> DEFINE row(p) == [order |-> Log[p].order, sku |-> Log[p].sku,
                      customer |-> CustomerOf(Log[p].order), amount |-> Log[p].amount]
<1>1. CASE Log[q + 1].type # "OrderLineAdded"
  BY <1>1, LastLinesNext DEF AmountsSay
<1>2. \A p : /\ row(p).order = Log[p].order /\ row(p).sku = Log[p].sku
             /\ row(p).customer = CustomerOf(Log[p].order)
  OBVIOUS
<1>3. /\ AmountsSay(q) = {row(p) : p \in LastLines(q)}
      /\ AmountsSay(q + 1) = {row(p) : p \in LastLines(q + 1)}
  BY DEF AmountsSay
<1>4. ASSUME Log[q + 1].type = "OrderLineAdded"
      PROVE  AmountsSay(q + 1) =
               {a \in AmountsSay(q) : a.order # Log[q + 1].order \/
                                      a.sku # Log[q + 1].sku} \cup {row(q + 1)}
  <2>1. LastLines(q + 1) =
          {p \in LastLines(q) : Log[p].order # Log[q + 1].order \/
                                Log[p].sku # Log[q + 1].sku} \cup {q + 1}
    BY <1>4, LastLinesNext
  <2> HIDE DEF row
  <2> QED
    BY <1>2, <1>3, <2>1
<1>5. \A a \in AmountsSay(q) : a.customer = CustomerOf(a.order)
  <2> HIDE DEF row
  <2> QED
    BY <1>2, <1>3
<1> QED
  BY <1>1, <1>4, <1>5

\* The orders a customer has placed, counted by their rows.
LEMMA OrdersCounted ==
  ASSUME NEW q \in 0 .. Len(Log), NEW c,
         NEW S, S = {x \in PlacedSay(q) : x.customer = c}
  PROVE  /\ IsFiniteSet(S) /\ IsFiniteSet(Theirs(c, q))
         /\ Cardinality(S) = Cardinality(Theirs(c, q))
<1> DEFINE mine == {p \in Placements(q) : Log[p].customer = c}
           pair(x) == [order |-> x, customer |-> c]
           f == [x \in Theirs(c, q) |-> pair(x)]
<1>1. IsFiniteSet(mine)
  <2>1. q \in Nat /\ mine \subseteq 1 .. q
    BY LogDomain DEF Placements
  <2>2. IsFiniteSet(1 .. q)
    BY <2>1, FS_Interval
  <2> QED
    BY <2>1, <2>2, FS_Subset
<1>2. Theirs(c, q) = {Log[p].order : p \in mine}
  BY DEF Theirs
<1>3. IsFiniteSet(Theirs(c, q))
  <2> DEFINE g == [p \in mine |-> Log[p].order]
  <2>1. g \in Surjection(mine, Theirs(c, q))
    BY <1>2 DEF Surjection
  <2> HIDE DEF g, mine
  <2> QED
    BY <1>1, <2>1, FS_Surjection
<1>4. S = {pair(x) : x \in Theirs(c, q)}
  <2> DEFINE row(p) == [order |-> Log[p].order, customer |-> Log[p].customer]
  <2>1. \A p : row(p).customer = Log[p].customer
    OBVIOUS
  <2>2. \A p \in mine : row(p) = pair(Log[p].order)
    OBVIOUS
  <2>3. PlacedSay(q) = {row(p) : p \in Placements(q)}
    BY DEF PlacedSay
  <2>4. \A p : p \in mine <=> p \in Placements(q) /\ Log[p].customer = c
    OBVIOUS
  <2> HIDE DEF row, pair, mine
  <2>5. S = {row(p) : p \in mine}
    BY <2>1, <2>3, <2>4
  <2> QED
    BY <1>2, <2>2, <2>5
<1>5. f \in Bijection(Theirs(c, q), S)
  <2>1. \A x, y \in Theirs(c, q) : pair(x) = pair(y) => x = y
    <3>1. \A x : pair(x).order = x
      OBVIOUS
    <3> QED
      BY <3>1
  <2> HIDE DEF pair
  <2>2. f \in [Theirs(c, q) -> S] /\ \A x \in Theirs(c, q) : f[x] = pair(x)
    BY <1>4
  <2> HIDE DEF f
  <2>3. f \in Injection(Theirs(c, q), S)
    BY <2>1, <2>2 DEF Injection, IsInjective
  <2>4. f \in Surjection(Theirs(c, q), S)
    BY <1>4, <2>2 DEF Surjection
  <2> QED
    BY <2>3, <2>4 DEF Bijection
<1> HIDE DEF f
<1> QED
  BY <1>3, <1>5, FS_Bijection DEF ExistsBijection

\* Of an event about one customer, the others' rows are as they were.
LEMMA RollupSaysNext ==
  ASSUME NEW q \in Nat, NEW c,
         \A d : d # c => CustomerSays(d, q + 1) = CustomerSays(d, q),
         {Log[p].customer : p \in Placements(q + 1)}
           = {Log[p].customer : p \in Placements(q)} \cup {c}
  PROVE  RollupSays(q + 1) =
           {r \in RollupSays(q) : r.customer # c} \cup {CustomerSays(c, q + 1)}
<1>1. \A d, n : CustomerSays(d, n).customer = d
  BY DEF CustomerSays
<1>2. PICK A, B : /\ A = {Log[p].customer : p \in Placements(q)}
                  /\ B = {Log[p].customer : p \in Placements(q + 1)}
  OBVIOUS
<1>3. /\ RollupSays(q) = {CustomerSays(d, q) : d \in A}
      /\ RollupSays(q + 1) = {CustomerSays(d, q + 1) : d \in B}
  BY <1>2 DEF RollupSays
<1>4. B = A \cup {c}
  BY <1>2
<1> QED
  BY <1>1, <1>3, <1>4

\* The rollup's rows with a customer's written anew.
RolledFrom(q, c, n, rows) ==
  {r \in RollupSays(q) : r.customer # c} \cup
  {[customer |-> c, orderCount |-> n, total |-> Sum(rows)]}

NewPlace(q) == [order |-> Log[q + 1].order, customer |-> Log[q + 1].customer]

NewAmounts(q, o) ==
  {a \in AmountsSay(q) : a.order # Log[q + 1].order \/ a.sku # Log[q + 1].sku} \cup
  {[order |-> Log[q + 1].order, sku |-> Log[q + 1].sku, customer |-> o.customer,
    amount |-> Log[q + 1].amount]}

\* The placing of an order is counted to its customer and to nobody else.
LEMMA RollupPlaced ==
  ASSUME NEW q \in 0 .. Len(Log), q + 1 \in DOMAIN Log, q + 1 \in 0 .. Len(Log),
         Log[q + 1].type = "OrderPlaced"
  PROVE  /\ PlacedSay(q + 1) = {x \in PlacedSay(q) : x.order # NewPlace(q).order}
                                 \cup {NewPlace(q)}
         /\ AmountsSay(q + 1) = AmountsSay(q)
         /\ RollupSays(q + 1) =
              RolledFrom(q, NewPlace(q).customer,
                Cardinality({x \in PlacedSay(q) : x.customer = NewPlace(q).customer}
                              \ {NewPlace(q)}) + 1,
                {a \in AmountsSay(q) : a.customer = NewPlace(q).customer})
<1>0. PICK c, o, n, t :
        /\ c = NewPlace(q).customer /\ o = NewPlace(q)
        /\ n = Cardinality({x \in PlacedSay(q) : x.customer = c} \ {NewPlace(q)}) + 1
        /\ t = Sum({a \in AmountsSay(q) : a.customer = c})
  OBVIOUS
<1>1. q \in Nat /\ Placements(q) \subseteq 1 .. q
  BY LogDomain DEF Placements
<1>2. Placements(q + 1) = Placements(q) \cup {q + 1}
  BY <1>1, PlacementsNext
<1>3. \A p \in Placements(q) : Log[p].order # Log[q + 1].order
  BY <1>1, PlacedFirst
<1>4. /\ o.order = Log[q + 1].order /\ o.customer = c
      /\ c = Log[q + 1].customer
  BY <1>0 DEF NewPlace
<1>5. /\ PlacedSay(q + 1) = PlacedSay(q) \cup {o}
      /\ \A x \in PlacedSay(q) : x.order # o.order
  <2> DEFINE row(p) == [order |-> Log[p].order, customer |-> Log[p].customer]
  <2>1. \A p : row(p).order = Log[p].order
    OBVIOUS
  <2>2. row(q + 1) = o
    BY <1>0 DEF NewPlace
  <2>3. /\ PlacedSay(q) = {row(p) : p \in Placements(q)}
        /\ PlacedSay(q + 1) = {row(p) : p \in Placements(q + 1)}
    BY DEF PlacedSay
  <2> HIDE DEF row
  <2> QED
    BY <1>2, <1>3, <1>4, <2>1, <2>2, <2>3
<1>6. AmountsSay(q + 1) = AmountsSay(q)
  BY <1>1, AmountsSayNext
<1>7. \A d : TheirLines(d, q + 1) = TheirLines(d, q)
  BY <1>6, TheirLinesAre
<1>8. /\ \A d : d # c => Theirs(d, q + 1) = Theirs(d, q)
      /\ Theirs(c, q + 1) = Theirs(c, q) \cup {o.order}
      /\ o.order \notin Theirs(c, q)
  BY <1>2, <1>3, <1>4 DEF Theirs
<1>9. \A d : d # c => CustomerSays(d, q + 1) = CustomerSays(d, q)
  BY <1>7, <1>8 DEF CustomerSays
<1>10. Cardinality(Theirs(c, q + 1)) = n
  <2>1. PICK S : S = {x \in PlacedSay(q) : x.customer = c}
    OBVIOUS
  <2>2. S \ {o} = S
    BY <1>5, <2>1
  <2>3. IsFiniteSet(Theirs(c, q)) /\ Cardinality(S) = Cardinality(Theirs(c, q))
    BY <2>1, OrdersCounted
  <2>4. Cardinality(Theirs(c, q + 1)) = Cardinality(Theirs(c, q)) + 1
    BY <1>8, <2>3, FS_AddElement
  <2> QED
    BY <1>0, <2>1, <2>2, <2>3, <2>4
<1>11. Sum(TheirLines(c, q + 1)) = t
  <2>1. TheirLines(c, q) = {a \in AmountsSay(q) : a.customer = c}
    BY TheirLinesAre
  <2>2. TheirLines(c, q + 1) = TheirLines(c, q)
    BY <1>7
  <2> QED
    BY <1>0, <2>1, <2>2
<1>12. CustomerSays(c, q + 1) = [customer |-> c, orderCount |-> n, total |-> t]
  BY <1>10, <1>11 DEF CustomerSays
<1>13. {Log[p].customer : p \in Placements(q + 1)}
         = {Log[p].customer : p \in Placements(q)} \cup {c}
  BY <1>2, <1>4
<1>14. RollupSays(q + 1) =
         {r \in RollupSays(q) : r.customer # c} \cup {CustomerSays(c, q + 1)}
  BY <1>1, <1>9, <1>13, RollupSaysNext
<1>15. {x \in PlacedSay(q) : x.order # o.order} = PlacedSay(q)
  BY <1>5
<1> QED
  BY <1>0, <1>5, <1>6, <1>12, <1>14, <1>15 DEF RolledFrom

\* An event of an order that is placed: whose it is.
LEMMA KnownOrder ==
  ASSUME NEW q \in 0 .. Len(Log), q + 1 \in DOMAIN Log,
         Log[q + 1].type # "OrderPlaced"
  PROVE  \E o \in PlacedSay(q) :
           /\ {x \in PlacedSay(q) : x.order = Log[q + 1].order} = {o}
           /\ o.customer = CustomerOf(Log[q + 1].order)
           /\ o.customer \in {Log[p].customer : p \in Placements(q)}
<1>1. PICK p \in Placements(q) : Log[p].order = Log[q + 1].order
  BY PlacedFirst
<1> DEFINE row(n) == [order |-> Log[n].order, customer |-> Log[n].customer]
<1>2. \A n : row(n).order = Log[n].order /\ row(n).customer = Log[n].customer
  OBVIOUS
<1>3. PlacedSay(q) = {row(n) : n \in Placements(q)}
  BY DEF PlacedSay
<1>4. \A n \in Placements(q) : Log[n].order = Log[q + 1].order => n = p
  BY <1>1, PlacedOnce
<1>5. CustomerOf(Log[q + 1].order) = Log[p].customer
  BY <1>1, CustomerOfPlaced
<1> HIDE DEF row
<1>6. {x \in PlacedSay(q) : x.order = Log[q + 1].order} = {row(p)}
  BY <1>1, <1>2, <1>3, <1>4
<1> QED
  BY <1>2, <1>3, <1>5, <1>6

\* The adding of a line is counted to the customer of its order.
LEMMA RollupLine ==
  ASSUME NEW q \in 0 .. Len(Log), q + 1 \in DOMAIN Log, q + 1 \in 0 .. Len(Log),
         Log[q + 1].type = "OrderLineAdded",
         NEW o \in PlacedSay(q), o.order = Log[q + 1].order
  PROVE  /\ PlacedSay(q + 1) = PlacedSay(q)
         /\ AmountsSay(q + 1) = NewAmounts(q, o)
         /\ RollupSays(q + 1) =
              RolledFrom(q, o.customer,
                Cardinality({x \in PlacedSay(q) : x.customer = o.customer}),
                {a \in NewAmounts(q, o) : a.customer = o.customer})
<1>0. PICK A, n, t :
        /\ A = NewAmounts(q, o)
        /\ n = Cardinality({x \in PlacedSay(q) : x.customer = o.customer})
        /\ t = Sum({a \in A : a.customer = o.customer})
  OBVIOUS
<1>1. q \in Nat
  BY LogDomain
<1>2. Placements(q + 1) = Placements(q)
  BY <1>1, PlacementsNext
<1>3. PlacedSay(q + 1) = PlacedSay(q)
  BY <1>2 DEF PlacedSay
<1>4. PICK c : /\ c = o.customer /\ c = CustomerOf(Log[q + 1].order)
               /\ c \in {Log[p].customer : p \in Placements(q)}
  BY KnownOrder
<1>5. AmountsSay(q + 1) = A
  BY <1>0, <1>1, <1>4, AmountsSayNext DEF NewAmounts
<1>6. \A d : Theirs(d, q + 1) = Theirs(d, q)
  BY <1>2 DEF Theirs
<1>7. \A d : d # c => TheirLines(d, q + 1) = TheirLines(d, q)
  <2> TAKE d
  <2> HAVE d # c
  <2>1. \A a \in AmountsSay(q) : a.order = Log[q + 1].order => a.customer = c
    BY <1>1, <1>4, AmountsSayNext
  <2>2. PICK l, w : /\ l = [order |-> Log[q + 1].order, sku |-> Log[q + 1].sku,
                            customer |-> w, amount |-> Log[q + 1].amount]
                    /\ w = o.customer
    OBVIOUS
  <2>3. l.customer = c
    BY <1>4, <2>2
  <2>4. A = {a \in AmountsSay(q) : a.order # Log[q + 1].order \/
                                   a.sku # Log[q + 1].sku} \cup {l}
    BY <1>0, <2>2 DEF NewAmounts
  <2>5. {a \in A : a.customer = d} = {a \in AmountsSay(q) : a.customer = d}
    BY <2>1, <2>3, <2>4
  <2>6. /\ TheirLines(d, q + 1) = {a \in A : a.customer = d}
        /\ TheirLines(d, q) = {a \in AmountsSay(q) : a.customer = d}
    BY <1>5, TheirLinesAre
  <2> QED
    BY <2>5, <2>6
<1>8. \A d : d # c => CustomerSays(d, q + 1) = CustomerSays(d, q)
  BY <1>6, <1>7 DEF CustomerSays
<1>9. Cardinality(Theirs(c, q + 1)) = n
  <2>1. PICK S : S = {x \in PlacedSay(q) : x.customer = c}
    OBVIOUS
  <2>2. Cardinality(S) = Cardinality(Theirs(c, q))
    BY <2>1, OrdersCounted
  <2> QED
    BY <1>0, <1>4, <1>6, <2>1, <2>2
<1>10. Sum(TheirLines(c, q + 1)) = t
  BY <1>0, <1>4, <1>5, TheirLinesAre
<1>11. CustomerSays(c, q + 1) = [customer |-> c, orderCount |-> n, total |-> t]
  BY <1>9, <1>10 DEF CustomerSays
<1>12. {Log[p].customer : p \in Placements(q + 1)}
         = {Log[p].customer : p \in Placements(q)} \cup {c}
  BY <1>2, <1>4
<1>13. RollupSays(q + 1) =
         {r \in RollupSays(q) : r.customer # c} \cup {CustomerSays(c, q + 1)}
  BY <1>1, <1>8, <1>12, RollupSaysNext
<1> QED
  BY <1>0, <1>3, <1>4, <1>5, <1>11, <1>13 DEF RolledFrom

\* Any other event leaves the three tables alone.
LEMMA RollupOther ==
  ASSUME NEW q \in 0 .. Len(Log), q + 1 \in 0 .. Len(Log),
         Log[q + 1].type \notin {"OrderPlaced", "OrderLineAdded"}
  PROVE  /\ PlacedSay(q + 1) = PlacedSay(q) /\ AmountsSay(q + 1) = AmountsSay(q)
         /\ RollupSays(q + 1) = RollupSays(q)
<1>1. q \in Nat
  BY LogDomain
<1>2. Placements(q + 1) = Placements(q) /\ LastLines(q + 1) = LastLines(q)
  BY <1>1, PlacementsNext, LastLinesNext
<1>3. PlacedSay(q + 1) = PlacedSay(q) /\ AmountsSay(q + 1) = AmountsSay(q)
  BY <1>2 DEF PlacedSay, AmountsSay
<1>4. \A d : CustomerSays(d, q + 1) = CustomerSays(d, q)
  BY <1>2 DEF CustomerSays, Theirs, TheirLines
<1> QED
  BY <1>2, <1>3, <1>4 DEF RollupSays

LEMMA CommitKeepsRows == RowsInv /\ CommitRollup => RowsInv'
<1> SUFFICES ASSUME RowsInv, CommitRollup
             PROVE  RowsInv'
  OBVIOUS
<1> DEFINE ev == Event("orders_by_customer")
<1>1. /\ turn = [projection |-> "orders_by_customer", step |-> "apply"]
      /\ turn' = Nobody
      /\ positions' = [positions EXCEPT !["orders_by_customer"] = @ + 1]
      /\ UNCHANGED <<head, orders, lines, requests>>
  BY DEF CommitRollup, At, byOrder
<1>2. positions["orders_by_customer"] < head
  BY <1>1, ReadSideAssumption DEF RowsInv, TurnInv, Turns, Projections
<1>3. PICK q : q = positions["orders_by_customer"]
  OBVIOUS
<1>4. /\ q \in Nat /\ q \in 0 .. Len(Log) /\ q + 1 \in DOMAIN Log
      /\ q + 1 \in 0 .. Len(Log) /\ ev = Log[q + 1]
  BY <1>2, <1>3, AtEvent, LogDomain DEF Projections, Event
<1>5. /\ positions' \in [Projections -> 0 .. head]
      /\ positions'["orders_by_customer"] = q + 1
      /\ positions'["orders"] = positions["orders"]
  <2>1. positions \in [Projections -> 0 .. head] /\ head \in Nat
    BY LogDomain DEF RowsInv, PlaceInv
  <2> QED
    BY <1>1, <1>2, <1>3, <2>1 DEF Projections
<1>6. PlaceInv' /\ ShapeInv' /\ TurnInv'
  BY <1>1, <1>5 DEF RowsInv, PlaceInv, ShapeInv, TurnInv
<1>7. OrdersInv'
  BY <1>1, <1>5, OrdersUntouched DEF byOrder
<1>8. ASSUME "orders_by_customer" \notin requests
      PROVE  /\ placed' = PlacedSay(q + 1) /\ amounts' = AmountsSay(q + 1)
             /\ rollup' = RollupSays(q + 1)
  <2>1. placed = PlacedSay(q) /\ amounts = AmountsSay(q) /\ rollup = RollupSays(q)
    BY <1>3, <1>8 DEF RowsInv, RollupInv
  <2>2. ASSUME ev.type = "OrderPlaced", NEW o,
               o = [order |-> ev.order, customer |-> ev.customer],
               placed' = {x \in placed : x.order # o.order} \cup {o},
               rollup' = Rolled(o.customer,
                           Cardinality(OrdersOf(o.customer) \ {o}) + 1,
                           {a \in amounts : a.customer = o.customer}),
               UNCHANGED amounts
        PROVE  <1>8!2
    <3>1. o = NewPlace(q) /\ o.customer = Log[q + 1].customer
      BY <1>4, <2>2 DEF NewPlace
    <3>2. rollup' =
            RolledFrom(q, o.customer,
              Cardinality({x \in PlacedSay(q) : x.customer = o.customer} \ {o}) + 1,
              {a \in AmountsSay(q) : a.customer = o.customer})
      BY <2>1, <2>2 DEF Rolled, OrdersOf, RolledFrom
    <3>3. Log[q + 1].type = "OrderPlaced"
      BY <1>4, <2>2
    <3>4. /\ PlacedSay(q + 1) = {x \in PlacedSay(q) : x.order # NewPlace(q).order}
                                 \cup {NewPlace(q)}
          /\ AmountsSay(q + 1) = AmountsSay(q)
          /\ RollupSays(q + 1) =
              RolledFrom(q, NewPlace(q).customer,
                Cardinality({x \in PlacedSay(q) : x.customer = NewPlace(q).customer}
                              \ {NewPlace(q)}) + 1,
                {a \in AmountsSay(q) : a.customer = NewPlace(q).customer})
      BY <1>4, <3>3, RollupPlaced
    <3> QED
      BY <2>1, <2>2, <3>1, <3>2, <3>4
  <2>3. ASSUME ev.type = "OrderLineAdded", NEW o \in placed, o.order = ev.order,
               amounts' = {a \in amounts : a.order # ev.order \/ a.sku # ev.sku} \cup
                          {[order |-> ev.order, sku |-> ev.sku,
                            customer |-> o.customer, amount |-> ev.amount]},
               rollup' = Rolled(o.customer, Cardinality(OrdersOf(o.customer)),
                           {a \in amounts' : a.customer = o.customer}),
               UNCHANGED placed
        PROVE  <1>8!2
    <3>1. amounts' = NewAmounts(q, o)
      BY <1>4, <2>1, <2>3 DEF NewAmounts
    <3>2. rollup' =
            RolledFrom(q, o.customer,
              Cardinality({x \in PlacedSay(q) : x.customer = o.customer}),
              {a \in NewAmounts(q, o) : a.customer = o.customer})
      BY <2>1, <2>3, <3>1 DEF Rolled, OrdersOf, RolledFrom
    <3>3. /\ Log[q + 1].type = "OrderLineAdded" /\ o \in PlacedSay(q)
          /\ o.order = Log[q + 1].order
      BY <1>4, <2>1, <2>3
    <3> QED
      BY <1>4, <2>1, <2>3, <3>1, <3>2, <3>3, RollupLine
  <2>4. ASSUME ev.type # "OrderPlaced",
               ev.type # "OrderLineAdded" \/ {x \in placed : x.order = ev.order} = {},
               UNCHANGED byCustomer
        PROVE  <1>8!2
    <3>1. {x \in PlacedSay(q) : x.order = Log[q + 1].order} # {}
      BY <1>4, <2>4, KnownOrder
    <3>2. Log[q + 1].type \notin {"OrderPlaced", "OrderLineAdded"}
      BY <1>4, <2>1, <2>4, <3>1
    <3> QED
      BY <1>4, <2>1, <2>4, <3>2, RollupOther DEF byCustomer
  <2>5. \/ \E o \in {[order |-> ev.order, customer |-> ev.customer] :
                       k \in {n \in {1} : ev.type = "OrderPlaced"}} :
             /\ placed' = {x \in placed : x.order # o.order} \cup {o}
             /\ rollup' = Rolled(o.customer,
                            Cardinality(OrdersOf(o.customer) \ {o}) + 1,
                            {a \in amounts : a.customer = o.customer})
             /\ UNCHANGED amounts
        \/ \E o \in {x \in placed : x.order = ev.order} :
             /\ ev.type = "OrderLineAdded"
             /\ amounts' = {a \in amounts : a.order # ev.order \/ a.sku # ev.sku} \cup
                           {[order |-> ev.order, sku |-> ev.sku,
                             customer |-> o.customer, amount |-> ev.amount]}
             /\ rollup' = Rolled(o.customer, Cardinality(OrdersOf(o.customer)),
                            {a \in amounts' : a.customer = o.customer})
             /\ UNCHANGED placed
        \/ /\ ev.type # "OrderPlaced"
           /\ ev.type # "OrderLineAdded" \/ {x \in placed : x.order = ev.order} = {}
           /\ UNCHANGED byCustomer
    BY DEF CommitRollup
  <2> HIDE DEF ev
  <2> QED
    BY <2>2, <2>3, <2>4, <2>5
<1>9. RollupInv'
  BY <1>1, <1>5, <1>8 DEF RollupInv
<1> QED
  BY <1>6, <1>7, <1>9 DEF RowsInv

LEMMA WipeKeepsRows == RowsInv /\ Wipe => RowsInv'
<1> SUFFICES ASSUME RowsInv, Wipe
             PROVE  RowsInv'
  OBVIOUS
<1>1. UNCHANGED <<head, positions, requests>>
  BY DEF Wipe
<1>2. PlaceInv'
  BY <1>1 DEF RowsInv, PlaceInv
<1>3. \A p \in Projections : turn = [projection |-> p, step |-> "wiping"] =>
        /\ turn # Nobody /\ turn.projection = p /\ turn.step = "wiping"
        /\ p \in requests
        /\ turn' = [turn EXCEPT !.step = "reset"] =>
             turn' = [projection |-> p, step |-> "reset"] /\ turn' \in Turns
  <2> TAKE p \in Projections
  <2> HAVE turn = [projection |-> p, step |-> "wiping"]
  <2>1. turn \in Turns /\ turn.projection = p /\ turn.step = "wiping"
    BY DEF Turns
  <2>2. turn # Nobody
    BY <2>1, ReadSideAssumption
  <2>3. p \in requests
    BY <2>1, <2>2 DEF RowsInv, TurnInv
  <2>4. [projection |-> p, step |-> "reset"] \in Turns
    BY DEF Turns
  <2> QED
    BY <2>1, <2>2, <2>3, <2>4
<1>4. CASE /\ At("orders", "wiping") /\ UNCHANGED byCustomer
           /\ \/ \E r \in orders :
                   /\ orders' = orders \ {r}
                   /\ lines' = {l \in lines : l.order # r.order}
                   /\ UNCHANGED turn
              \/ orders = {} /\ Goes("reset") /\ UNCHANGED byOrder
  <2>1. /\ turn # Nobody /\ turn.projection = "orders" /\ turn.step = "wiping"
        /\ "orders" \in requests
    BY <1>3, <1>4 DEF At, Projections
  <2>2. OrdersInv'
    BY <1>1, <2>1 DEF OrdersInv
  <2>3. RollupInv'
    BY <1>1, <1>4, RollupUntouched
  <2>4. CASE \E r \in orders :
               /\ orders' = orders \ {r}
               /\ lines' = {l \in lines : l.order # r.order}
               /\ UNCHANGED turn
    <3>1. ShapeInv'
      BY <2>4 DEF RowsInv, ShapeInv
    <3>2. TurnInv'
      BY <1>1, <2>1, <2>4 DEF RowsInv, TurnInv
    <3> QED
      BY <1>2, <2>2, <2>3, <3>1, <3>2 DEF RowsInv
  <2>5. CASE orders = {} /\ Goes("reset") /\ UNCHANGED byOrder
    <3>1. turn' = [projection |-> "orders", step |-> "reset"] /\ turn' \in Turns
      BY <1>3, <1>4, <2>5 DEF At, Goes, Projections
    <3>2. turn'.projection = "orders" /\ turn'.step = "reset"
      BY <3>1
    <3>3. orders' = {} /\ lines' = {}
      BY <2>5 DEF RowsInv, ShapeInv, byOrder
    <3>4. ShapeInv'
      BY <3>3 DEF ShapeInv
    <3>5. TurnInv'
      BY <1>1, <2>1, <3>1, <3>2, <3>3 DEF TurnInv
    <3> QED
      BY <1>2, <2>2, <2>3, <3>4, <3>5 DEF RowsInv
  <2> QED
    BY <1>4, <2>4, <2>5
<1>5. CASE /\ At("orders_by_customer", "wiping") /\ UNCHANGED byOrder
           /\ \/ UNCHANGED turn
              \/ /\ rollup = {} /\ amounts = {} /\ placed = {} /\ Goes("reset")
                 /\ UNCHANGED byCustomer
  <2>1. /\ turn # Nobody /\ turn.projection = "orders_by_customer"
        /\ turn.step = "wiping" /\ "orders_by_customer" \in requests
    BY <1>3, <1>5 DEF At, Projections
  <2>2. RollupInv'
    BY <1>1, <2>1 DEF RollupInv
  <2>3. ShapeInv'
    BY <1>5 DEF RowsInv, ShapeInv, byOrder
  <2>4. CASE UNCHANGED turn
    <3>1. TurnInv'
      BY <1>1, <2>1, <2>4 DEF RowsInv, TurnInv
    <3>2. OrdersInv'
      BY <1>1, <1>5, <2>4, OrdersUntouched
    <3> QED
      BY <1>2, <2>2, <2>3, <3>1, <3>2 DEF RowsInv
  <2>5. CASE /\ rollup = {} /\ amounts = {} /\ placed = {} /\ Goes("reset")
             /\ UNCHANGED byCustomer
    <3>1. /\ turn' = [projection |-> "orders_by_customer", step |-> "reset"]
          /\ turn' \in Turns
      BY <1>3, <1>5, <2>5 DEF At, Goes, Projections
    <3>2. turn'.projection = "orders_by_customer" /\ turn'.step = "reset"
      BY <3>1
    <3>3. placed' = {} /\ amounts' = {} /\ rollup' = {}
      BY <2>5 DEF byCustomer
    <3>4. TurnInv'
      BY <1>1, <2>1, <3>1, <3>2, <3>3 DEF TurnInv
    <3>5. OrdersInv'
      BY <1>1, <1>5, <3>2, OrdersUntouched
    <3> QED
      BY <1>2, <2>2, <2>3, <3>4, <3>5 DEF RowsInv
  <2> QED
    BY <1>5, <2>4, <2>5
<1> QED
  BY <1>4, <1>5 DEF Wipe

LEMMA ResetKeepsRows == RowsInv /\ Reset => RowsInv'
<1> SUFFICES ASSUME RowsInv, Reset
             PROVE  RowsInv'
  OBVIOUS
<1>1. PICK p \in Projections : /\ turn = [projection |-> p, step |-> "reset"]
                               /\ positions' = [positions EXCEPT ![p] = 0]
  BY DEF Reset, At
<1>2. UNCHANGED <<head, orders, lines, placed, amounts, rollup, requests>>
  BY DEF Reset, byOrder, byCustomer
<1>3. turn \in Turns /\ turn.projection = p /\ turn.step = "reset" /\ turn # Nobody
  BY <1>1, ReadSideAssumption DEF Turns
<1>4. /\ turn' = [projection |-> p, step |-> "off"] /\ turn' \in Turns
      /\ turn'.projection = p /\ turn'.step = "off"
  <2>1. turn' = [projection |-> p, step |-> "off"]
    BY <1>1 DEF Reset, Goes
  <2> QED
    BY <2>1 DEF Turns
<1>5. /\ p \in requests
      /\ IF p = "orders" THEN orders = {} /\ lines = {}
         ELSE placed = {} /\ amounts = {} /\ rollup = {}
  BY <1>3 DEF RowsInv, TurnInv
<1>6. /\ positions' \in [Projections -> 0 .. head] /\ positions'[p] = 0
      /\ \A x \in Projections \ {p} : positions'[x] = positions[x]
  <2>1. positions \in [Projections -> 0 .. head] /\ head \in Nat
    BY LogDomain DEF RowsInv, PlaceInv
  <2> QED
    BY <1>1, <2>1
<1>7. PlaceInv' /\ ShapeInv'
  BY <1>2, <1>6 DEF RowsInv, PlaceInv, ShapeInv
<1>8. TurnInv'
  BY <1>2, <1>4, <1>5, <1>6 DEF TurnInv
<1>9. OrdersInv'
  <2>1. CASE p = "orders"
    BY <1>2, <1>5, <2>1 DEF OrdersInv
  <2>2. CASE p # "orders"
    <3>1. positions'["orders"] = positions["orders"]
      BY <1>6, <2>2 DEF Projections
    <3> QED
      BY <1>2, <1>4, <2>2, <3>1, OrdersUntouched DEF byOrder
  <2> QED
    BY <2>1, <2>2
<1>10. RollupInv'
  <2>1. CASE p = "orders_by_customer"
    BY <1>2, <1>5, <2>1 DEF RollupInv
  <2>2. CASE p # "orders_by_customer"
    <3>1. positions'["orders_by_customer"] = positions["orders_by_customer"]
      BY <1>6, <2>2 DEF Projections
    <3> QED
      BY <1>2, <3>1, RollupUntouched DEF byCustomer
  <2> QED
    BY <2>1, <2>2
<1> QED
  BY <1>7, <1>8, <1>9, <1>10 DEF RowsInv

\* A rebuild's end: the tables say what no event says.
LEMMA TakeOffKeepsRows == RowsInv /\ TakeOff => RowsInv'
<1> SUFFICES ASSUME RowsInv, TakeOff
             PROVE  RowsInv'
  OBVIOUS
<1>1. PICK p \in Projections : /\ turn = [projection |-> p, step |-> "off"]
                               /\ requests' = requests \ {p}
  BY DEF TakeOff, At
<1>2. UNCHANGED <<head, orders, lines, placed, amounts, rollup, positions>> /\ turn' = Nobody
  BY DEF TakeOff, byOrder, byCustomer
<1>3. turn \in Turns /\ turn.projection = p /\ turn.step = "off" /\ turn # Nobody
  BY <1>1, ReadSideAssumption DEF Turns
<1>4. /\ positions[p] = 0
      /\ IF p = "orders" THEN orders = {} /\ lines = {}
         ELSE placed = {} /\ amounts = {} /\ rollup = {}
  BY <1>3 DEF RowsInv, TurnInv
<1>5. PlaceInv' /\ ShapeInv' /\ TurnInv'
  BY <1>1, <1>2 DEF RowsInv, PlaceInv, ShapeInv, TurnInv
<1>6. Placements(0) = {} /\ LastLines(0) = {}
  BY DEF Placements, LastLines
<1>7. /\ LinesSay(0) = {} /\ OrdersSay(0) = {} /\ PlacedSay(0) = {}
      /\ AmountsSay(0) = {} /\ RollupSays(0) = {}
  BY <1>6 DEF LinesSay, OrdersSay, PlacedSay, AmountsSay, RollupSays
<1>8. OrdersInv'
  <2>1. CASE p = "orders"
    BY <1>2, <1>4, <1>7, <2>1 DEF OrdersInv, Follows
  <2>2. CASE p # "orders"
    BY <1>1, <1>2, <2>2, OrdersUntouched DEF byOrder
  <2> QED
    BY <2>1, <2>2
<1>9. RollupInv'
  <2>1. CASE p = "orders"
    BY <1>1, <1>2, <2>1, RollupUntouched DEF byCustomer
  <2>2. CASE p = "orders_by_customer"
    BY <1>2, <1>4, <1>7, <2>2 DEF RollupInv
  <2> QED
    BY <2>1, <2>2 DEF Projections
<1> QED
  BY <1>5, <1>8, <1>9 DEF RowsInv

LEMMA RowsStep == RowsInv /\ [Next]_vars => RowsInv'
<1> SUFFICES ASSUME RowsInv, [Next]_vars
             PROVE  RowsInv'
  OBVIOUS
<1>1. CASE AppendEvent
  BY <1>1, AppendKeepsRows
<1>2. CASE EngineStep
  <2>1. CASE Notify
    BY <2>1, RowsQuiet DEF Notify
  <2> QED
    BY <1>2, <2>1, ApplyKeepsRows, TotalsKeepRows, SaveKeepsRows, CommitKeepsRows,
       WipeKeepsRows, ResetKeepsRows, TakeOffKeepsRows DEF EngineStep
<1>3. CASE CommitFails \/ RebuildFails \/ Crash
  <2>1. UNCHANGED <<head, database>> /\ turn' = Nobody
    BY <1>3 DEF CommitFails, RebuildFails, Crash
  <2> QED
    BY <2>1, RowsQuiet
<1>4. CASE \E p \in Projections : Deliver(p) \/ BeginRebuild(p) \/ RequestRebuild(p)
  BY <1>4, TurnsKeepRows
<1>5. CASE \E v \in Viewers : Open(v) \/ ViewerStep(v) \/ AnswerFails(v) \/ Leave(v)
  <2>1. UNCHANGED <<head, database, turn>>
    BY <1>5 DEF Open, ViewerStep, ReadRows, Reveal, TakeNotice, AnswerFails, Leave
  <2> QED
    BY <2>1, RowsQuiet
<1>6. CASE MarkErased \/ Announce
  <2>1. UNCHANGED <<head, database, turn>>
    BY <1>6 DEF MarkErased, Announce
  <2> QED
    BY <2>1, RowsQuiet
<1>7. CASE UNCHANGED vars
  <2>1. UNCHANGED <<head, database, turn>>
    BY <1>7 DEF vars, database, byOrder, byCustomer
  <2> QED
    BY <2>1, RowsQuiet
<1> QED
  BY <1>1, <1>2, <1>3, <1>4, <1>5, <1>6, <1>7 DEF Next

\* RowsInv holds throughout: the tables say what the log says up to the
\* projection's position, or for orders, which saves record by record, what
\* half of the next event makes of it (Engine.deliver, recomputeTotals).
THEOREM RowsAlways == Spec => []RowsInv
BY RowsStart, RowsStep, PTL DEF Spec

\* The two steps that move a position on, Save and CommitRollup, leave rows that
\* say what the log says up to it.
LEMMA MovesOn ==
  ASSUME RowsInv, [Next]_vars, NEW p \in Projections, positions'[p] > positions[p],
         p \notin requests
  PROVE  Rows(p)' = IF p = "orders" THEN OrdersSay(positions'[p])
                    ELSE RollupSays(positions'[p])
<1>1. RowsInv'
  BY RowsStep
<1>2. positions \in [Projections -> 0 .. head] /\ head \in Nat
  BY LogDomain DEF RowsInv, PlaceInv
<1>3. positions[p] \in Nat
  BY <1>2
<1>4. positions' # positions
  BY <1>3
<1>5. ~Reset
  <2> SUFFICES ASSUME Reset
               PROVE  FALSE
    OBVIOUS
  <2>1. PICK x \in Projections : positions' = [positions EXCEPT ![x] = 0]
    BY DEF Reset
  <2>2. positions'[p] = IF p = x THEN 0 ELSE positions[p]
    BY <1>2, <2>1
  <2> QED
    BY <1>3, <2>2
<1>6. Save \/ CommitRollup
  BY <1>4, <1>5 DEF Next, EngineStep, vars, database, byOrder, byCustomer, AppendEvent,
     Notify, ApplyOrder, Totals, Wipe, TakeOff, CommitFails, RebuildFails, Deliver,
     BeginRebuild, RequestRebuild, Open, ViewerStep, ReadRows, Reveal, AnswerFails,
     TakeNotice, Leave, MarkErased, Announce, Crash
<1>7. requests' = requests /\ turn' = Nobody
  BY <1>6 DEF Save, CommitRollup
<1>8. CASE p = "orders_by_customer"
  BY <1>1, <1>7, <1>8 DEF RowsInv, RollupInv, Rows
<1>9. CASE p = "orders"
  <2>1. Save
    <3> SUFFICES ASSUME CommitRollup
                 PROVE  FALSE
      BY <1>6
    <3>1. positions'["orders"] = positions["orders"]
      BY <1>2 DEF CommitRollup, Projections
    <3> QED
      BY <1>3, <1>9, <3>1
  <2>2. PICK q : q = positions["orders"]
    OBVIOUS
  <2>3. turn = [projection |-> "orders", step |-> "save"]
    BY <2>1 DEF Save, At
  <2>4. turn # Nobody /\ turn.projection = "orders" /\ turn.step = "save"
    BY <2>3, ReadSideAssumption DEF Turns, Projections
  <2>5. orders = OrdersSay(q + 1)
    BY <1>9, <2>2, <2>4 DEF RowsInv, OrdersInv, Follows
  <2>6. orders' = orders /\ positions'["orders"] = q + 1
    <3>1. positions' = [positions EXCEPT !["orders"] = @ + 1] \/ positions' = positions
      BY <2>1 DEF Save
    <3>2. positions' = [positions EXCEPT !["orders"] = @ + 1]
      BY <1>4, <3>1
    <3> QED
      BY <1>2, <2>1, <2>2, <3>2 DEF Save, byOrder, Projections
  <2> QED
    BY <1>9, <2>5, <2>6 DEF Rows
<1> QED
  BY <1>8, <1>9 DEF Projections

\* Whenever a projection's position moves on, and no rebuild of it was asked for,
\* its rows say what the log does up to there: the events that were delivered
\* twice, or in part, before a crash or a failing save have left no trace in them.
THEOREM ReadModelsAreRight == Spec => ReadModelsFollow
<1>1. RowsInv /\ [Next]_vars =>
        [\A p \in Projections :
           positions'[p] > positions[p] /\ p \notin requests =>
             Rows(p)' = IF p = "orders" THEN OrdersSay(positions'[p])
                        ELSE RollupSays(positions'[p])]_vars
  BY MovesOn
<1> QED
  BY <1>1, RowsAlways, PTL DEF Spec, ReadModelsFollow
=============================================================================
