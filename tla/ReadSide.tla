------------------------------ MODULE ReadSide ------------------------------
(***************************************************************************)
(* The read side: two projections of order events, run by the consumer     *)
(* engine, and the live views of queryroute on the collections they keep.  *)
(* orders (projections/orders.go) is delivered at least once and saves its *)
(* records one by one; orders_by_customer (the shipped script) commits its *)
(* rows with its position.  A requested rebuild wipes and replays one of   *)
(* them.  Each committed write is a notice to the collection's viewers, who*)
(* read again and are sent what changed.                                   *)
(*                                                                         *)
(* A record of order_lines goes with its order (the relation cascades), so *)
(* orders' lines are kept by order.  Quantity times price is one amount.   *)
(***************************************************************************)
EXTENDS Naturals, Sequences, FiniteSetsExt

CONSTANTS
  Log,        \* the script: order events
  Hosts,      \* the sets of projections a host may register
  Viewers,    \* live streams
  Personal,   \* the collections that hold an erased subject's value
  Nobody,     \* no projection is at work
  Nothing,    \* a viewer has been sent no view
  MaxFaults   \* bound: crashes, failing operations, rebuilds and leavers

Projections == {"orders", "orders_by_customer"}

Orders    == {Log[p].order : p \in DOMAIN Log}
Customers == {Log[p].customer : p \in {q \in DOMAIN Log :
                                         Log[q].type = "OrderPlaced"}}
Skus      == {Log[p].sku : p \in {q \in DOMAIN Log :
                                    Log[q].type = "OrderLineAdded"}}

\* A projection whose event, or rebuild, the engine is at, and how far it is.
Turns == [projection : Projections,
          step : {"apply", "totals", "save", "wiping", "reset", "off"}]

ASSUME ReadSideAssumption ==
  /\ Log \in Seq({Log[p] : p \in DOMAIN Log})
  /\ \A p \in DOMAIN Log :
       Log[p].type \in {"OrderPlaced", "OrderLineAdded", "OrderConfirmed",
                       "OrderCancelled"}
  /\ \A p \in DOMAIN Log : Log[p].type = "OrderLineAdded" => Log[p].amount \in Nat
  /\ Hosts \subseteq SUBSET Projections
  /\ Personal \subseteq Projections
  /\ Nobody \notin Turns
  /\ MaxFaults \in Nat

Places(p, o) == Log[p].type = "OrderPlaced" /\ Log[p].order = o

\* What the order's decider lets into the log: an order's first event places it
\* and no other does (OrderDecide refuses the rest).
ASSUME ScriptAssumption ==
  /\ \A n \in DOMAIN Log : \E p \in 1 .. n : Places(p, Log[n].order)
  /\ \A p, n \in DOMAIN Log :
       Log[p].type = "OrderPlaced" /\ Places(n, Log[p].order) => p = n

VARIABLES
  hosted,    \* the projections registered here
  head,      \* how much of the script is in the log
  orders,    \* data.db: collection orders
  lines,     \* ... order_lines
  placed,    \* ... orders_by_customer_orders
  amounts,   \* ... orders_by_customer_lines
  rollup,    \* ... orders_by_customer
  positions, \* ... each projection's position
  requests,  \* ... the projections to be rebuilt
  turn,      \* the engine: what it is at
  changed,   \* collections committed to whose after-commit hook has not run
  erasure,   \* the reveal cache: the subject is known, marked or announced erased
  viewers,   \* each stream: of which collection, where its handler is, its slot
             \* for a notice, the rows read, the last view and event it was sent
  faults     \* bound: faults so far

vars == <<hosted, head, orders, lines, placed, amounts, rollup, positions, requests,
          turn, changed, erasure, viewers, faults>>

byOrder    == <<orders, lines>>
byCustomer == <<placed, amounts, rollup>>
database   == <<byOrder, byCustomer, positions, requests>>

OrderRows  == [order : Orders, customer : Customers, total : Nat, lineCount : Nat,
               status : {"open", "confirmed", "cancelled"}]
RollupRows == [customer : Customers, orderCount : Nat, total : Nat]

Views == [rows : SUBSET OrderRows \cup SUBSET RollupRows, redacted : BOOLEAN]

TypeOK ==
  /\ hosted \in Hosts
  /\ head \in 0 .. Len(Log)
  /\ orders \subseteq OrderRows
  /\ lines \subseteq [order : Orders, sku : Skus, amount : Nat]
  /\ placed \subseteq [order : Orders, customer : Customers]
  /\ amounts \subseteq [order : Orders, sku : Skus, customer : Customers, amount : Nat]
  /\ rollup \subseteq RollupRows
  /\ positions \in [Projections -> 0 .. head]
  /\ requests \subseteq Projections
  /\ turn \in Turns \cup {Nobody}
  /\ changed \subseteq Projections
  /\ erasure \in {"none", "marked", "announced"}
  /\ viewers \in [Viewers ->
       [of : Projections, at : {"closed", "reading", "revealing", "waiting"},
        slot : BOOLEAN, rows : SUBSET OrderRows \cup SUBSET RollupRows,
        last : Views \cup {Nothing}, told : {"nothing", "view", "error"}]]
  /\ faults \in 0 .. MaxFaults

Stream(collection, at) ==
  [of |-> collection, at |-> at, slot |-> FALSE, rows |-> {}, last |-> Nothing,
   told |-> "nothing"]

Gone == Stream("orders", "closed")

Init ==
  /\ hosted \in Hosts
  /\ head = 0
  /\ orders = {} /\ lines = {} /\ placed = {} /\ amounts = {} /\ rollup = {}
  /\ positions = [p \in Projections |-> 0] /\ requests = {}
  /\ turn = Nobody /\ changed = {} /\ erasure = "none"
  /\ viewers = [v \in Viewers |-> Gone]
  /\ faults = 0

Fault == faults < MaxFaults /\ faults' = faults + 1

AppendEvent ==
  /\ head < Len(Log) /\ head' = head + 1
  /\ UNCHANGED <<hosted, database, turn, changed, erasure, viewers, faults>>

-----------------------------------------------------------------------------
(* The hub.                                                                *)

\* Seeded fault: a viewer that is reading is passed over.
NoticedWaiting(collections) ==
  [v \in Viewers |->
     IF viewers[v].of \in collections /\ viewers[v].at = "waiting"
     THEN [viewers[v] EXCEPT !.slot = TRUE] ELSE viewers[v]]

\* notify: a viewer holding a notice gets no second one.
Noticed(collections) ==
  [v \in Viewers |->
     IF viewers[v].of \in collections /\ viewers[v].at # "closed"
     THEN [viewers[v] EXCEPT !.slot = TRUE] ELSE viewers[v]]

\* PocketBase runs a committed record's hooks before the save returns: the
\* projection goes on when they have run.
Notify ==
  /\ changed # {} /\ changed' = {}
  /\ viewers' = Noticed(changed)
  /\ UNCHANGED <<hosted, head, database, turn, erasure, faults>>

-----------------------------------------------------------------------------
(* The projections' events.                                                *)

At(projection, step) ==
  /\ turn = [projection |-> projection, step |-> step]
  /\ changed = {}

Goes(step) == turn' = [turn EXCEPT !.step = step]

Event(projection) == Log[positions[projection] + 1]

\* A pass hands the projection its next event ...
Deliver(p) ==
  /\ turn = Nobody /\ changed = {} /\ p \in hosted /\ positions[p] < head
  /\ turn' = [projection |-> p, step |-> "apply"]
  /\ UNCHANGED <<hosted, head, database, changed, erasure, viewers, faults>>

\* ... and begins with the rebuild that was asked for before it.
BeginRebuild(p) ==
  /\ turn = Nobody /\ changed = {} /\ p \in requests
  /\ turn' = [projection |-> p, step |-> "wiping"]
  /\ UNCHANGED <<hosted, head, database, changed, erasure, viewers, faults>>

OrderOf(o) == {r \in orders : r.order = o}

\* ordersProjection.Apply, the event's first record.  An order that is not
\* there is an error, and the event is tried again.
ApplyOrder ==
  LET ev  == Event("orders")
      row == OrderOf(ev.order)
  IN /\ At("orders", "apply")
     /\ \/ /\ ev.type = "OrderPlaced" /\ row = {}
           /\ orders' = orders \cup {[order |-> ev.order, customer |-> ev.customer,
                                      status |-> "open", total |-> 0, lineCount |-> 0]}
           /\ changed' = {"orders"} /\ Goes("save") /\ UNCHANGED <<lines, faults>>
        \/ /\ ev.type = "OrderLineAdded" /\ row # {}
           /\ lines' = {l \in lines : l.order # ev.order \/ l.sku # ev.sku} \cup
                       {[order |-> ev.order, sku |-> ev.sku, amount |-> ev.amount]}
           /\ Goes("totals") /\ UNCHANGED <<orders, changed, faults>>
        \/ \E r \in row :
             /\ ev.type \in {"OrderConfirmed", "OrderCancelled"}
             /\ orders' = (orders \ row) \cup
                  {[r EXCEPT !.status = IF ev.type = "OrderCancelled"
                                        THEN "cancelled" ELSE "confirmed"]}
             /\ changed' = IF orders' = orders THEN {} ELSE {"orders"}
             /\ Goes("save") /\ UNCHANGED <<lines, faults>>
        \/ /\ ev.type = "OrderPlaced" /\ row # {}
           /\ Goes("save") /\ UNCHANGED <<byOrder, changed, faults>>
        \/ /\ ev.type # "OrderPlaced" /\ row = {}
           /\ turn' = Nobody /\ UNCHANGED <<byOrder, changed, faults>>
        \/ Fault /\ turn' = Nobody /\ UNCHANGED <<byOrder, changed>>
     /\ UNCHANGED <<hosted, head, byCustomer, positions, requests, erasure,
                    viewers>>

Sum(rows) == MapThenSumSet(LAMBDA l : l.amount, rows)

\* Seeded fault: the line's amount is added to the order's total.
TotalsIncremented ==
  /\ At("orders", "totals")
  /\ \E r \in OrderOf(Event("orders").order) :
       orders' = (orders \ {r}) \cup
         {[r EXCEPT !.total = @ + Event("orders").amount,
                    !.lineCount = Cardinality({l \in lines : l.order = r.order})]}
  /\ changed' = {"orders"} /\ Goes("save")
  /\ UNCHANGED <<hosted, head, lines, byCustomer, positions, requests, erasure,
                 viewers, faults>>

\* recomputeTotals, from the order's lines.
Totals ==
  /\ At("orders", "totals")
  /\ \/ \E r \in OrderOf(Event("orders").order) :
          LET mine == {l \in lines : l.order = r.order}
          IN /\ orders' = (orders \ {r}) \cup
                  {[r EXCEPT !.total = Sum(mine), !.lineCount = Cardinality(mine)]}
             /\ changed' = IF orders' = orders THEN {} ELSE {"orders"}
             /\ Goes("save") /\ UNCHANGED faults
     \/ Fault /\ turn' = Nobody /\ UNCHANGED <<orders, changed>>
  /\ UNCHANGED <<hosted, head, lines, byCustomer, positions, requests, erasure,
                 viewers>>

\* The engine saves the position; if that fails the event is applied again.
Save ==
  /\ At("orders", "save") /\ turn' = Nobody
  /\ \/ positions' = [positions EXCEPT !["orders"] = @ + 1] /\ UNCHANGED faults
     \/ Fault /\ UNCHANGED positions
  /\ UNCHANGED <<hosted, head, byOrder, byCustomer, requests, changed, erasure,
                 viewers>>

\* rollup(customerRef, orderCount, lines), an upsert.
Rolled(customer, count, rows) ==
  {r \in rollup : r.customer # customer} \cup
  {[customer |-> customer, orderCount |-> count, total |-> Sum(rows)]}

OrdersOf(customer) == {o \in placed : o.customer = customer}

\* project(event) of the script and its ops, committed with the position.  A
\* line of an order that is not there changes no row.
CommitRollup ==
  LET ev    == Event("orders_by_customer")
      place == {[order |-> ev.order, customer |-> ev.customer] :
                  k \in {n \in {1} : ev.type = "OrderPlaced"}}
      known == {o \in placed : o.order = ev.order}
  IN /\ At("orders_by_customer", "apply") /\ turn' = Nobody
     /\ \/ \E o \in place :
             /\ placed' = {x \in placed : x.order # o.order} \cup {o}
             /\ rollup' = Rolled(o.customer,
                            Cardinality(OrdersOf(o.customer) \ {o}) + 1,
                            {a \in amounts : a.customer = o.customer})
             /\ changed' = {"orders_by_customer"} /\ UNCHANGED amounts
        \/ \E o \in known :
             LET line == [order |-> ev.order, sku |-> ev.sku,
                          customer |-> o.customer, amount |-> ev.amount]
                 rest == {a \in amounts : a.order # ev.order \/ a.sku # ev.sku}
             IN /\ ev.type = "OrderLineAdded"
                /\ amounts' = rest \cup {line}
                /\ rollup' = Rolled(o.customer, Cardinality(OrdersOf(o.customer)),
                               {a \in amounts' : a.customer = o.customer})
                /\ changed' = {"orders_by_customer"} /\ UNCHANGED placed
        \/ /\ ev.type # "OrderPlaced"
           /\ ev.type # "OrderLineAdded" \/ known = {}
           /\ UNCHANGED <<byCustomer, changed>>
     /\ positions' = [positions EXCEPT !["orders_by_customer"] = @ + 1]
     /\ UNCHANGED <<hosted, head, byOrder, requests, erasure, viewers, faults>>

CommitFails ==
  /\ At("orders_by_customer", "apply") /\ Fault /\ turn' = Nobody
  /\ UNCHANGED <<hosted, head, database, changed, erasure, viewers>>

-----------------------------------------------------------------------------
(* A rebuild: takeRebuilds and Wipe.                                       *)

RequestRebuild(p) ==
  /\ p \in hosted \ requests /\ Fault
  /\ requests' = requests \cup {p}
  /\ UNCHANGED <<hosted, head, byOrder, byCustomer, positions, turn, changed,
                 erasure, viewers>>

\* The records are deleted one by one, collection by collection; an error
\* leaves the request for the next pass, and the pass goes on meanwhile.
Wipe ==
  /\ \/ /\ At("orders", "wiping")
        /\ \/ \E r \in orders :
                /\ orders' = orders \ {r}
                /\ lines' = {l \in lines : l.order # r.order}
                /\ changed' = {"orders"} /\ UNCHANGED turn
           \/ orders = {} /\ Goes("reset") /\ UNCHANGED <<byOrder, changed>>
        /\ UNCHANGED byCustomer
     \/ /\ At("orders_by_customer", "wiping")
        /\ \/ \E r \in rollup :
                /\ rollup' = rollup \ {r} /\ UNCHANGED <<placed, amounts>>
                /\ changed' = {"orders_by_customer"} /\ UNCHANGED turn
           \/ \E a \in amounts :
                /\ rollup = {} /\ amounts' = amounts \ {a}
                /\ UNCHANGED <<placed, rollup, changed, turn>>
           \/ \E o \in placed :
                /\ rollup = {} /\ amounts = {} /\ placed' = placed \ {o}
                /\ UNCHANGED <<amounts, rollup, changed, turn>>
           \/ /\ rollup = {} /\ amounts = {} /\ placed = {} /\ Goes("reset")
              /\ UNCHANGED <<byCustomer, changed>>
        /\ UNCHANGED byOrder
  /\ UNCHANGED <<hosted, head, positions, requests, erasure, viewers, faults>>

Reset ==
  /\ \E p \in Projections :
       At(p, "reset") /\ positions' = [positions EXCEPT ![p] = 0]
  /\ Goes("off")
  /\ UNCHANGED <<hosted, head, byOrder, byCustomer, requests, changed, erasure,
                 viewers, faults>>

TakeOff ==
  /\ \E p \in Projections : At(p, "off") /\ requests' = requests \ {p}
  /\ turn' = Nobody
  /\ UNCHANGED <<hosted, head, byOrder, byCustomer, positions, changed, erasure,
                 viewers, faults>>

\* A step of the rebuild fails: the request stays for the next pass, and this
\* one goes on to deliver.
RebuildFails ==
  /\ turn # Nobody /\ changed = {}
  /\ turn.step \in {"wiping", "reset", "off"}
  /\ Fault /\ turn' = Nobody
  /\ UNCHANGED <<hosted, head, database, changed, erasure, viewers>>

-----------------------------------------------------------------------------
(* A live view.                                                            *)

Rows(collection) == IF collection = "orders" THEN orders ELSE rollup

\* live subscribes before it reads.
Open(v) ==
  /\ viewers[v].at = "closed"
  /\ \E p \in hosted :
       viewers' = [viewers EXCEPT ![v] = Stream(p, "reading")]
  /\ UNCHANGED <<hosted, head, database, turn, changed, erasure, faults>>

\* answer: the rows ...
ReadRows(v) ==
  /\ viewers[v].at = "reading"
  /\ viewers' = [viewers EXCEPT ![v].at = "revealing",
                                ![v].rows = Rows(viewers[v].of)]
  /\ UNCHANGED <<hosted, head, database, turn, changed, erasure, faults>>

Redacted(collection) == collection \in Personal /\ erasure # "none"

\* Seeded fault: notices that came while it read are taken as answered.
RevealDrains(v) ==
  LET view == [rows |-> viewers[v].rows, redacted |-> Redacted(viewers[v].of)]
  IN /\ viewers[v].at = "revealing"
     /\ viewers' = [viewers EXCEPT ![v].at = "waiting", ![v].rows = {},
                      ![v].last = view, ![v].slot = FALSE,
                      ![v].told = IF view = viewers[v].last THEN @ ELSE "view"]
     /\ UNCHANGED <<hosted, head, database, turn, changed, erasure, faults>>

\* ... then their personal values; a view is sent unless it is the last one.
Reveal(v) ==
  LET view == [rows |-> viewers[v].rows, redacted |-> Redacted(viewers[v].of)]
  IN /\ viewers[v].at = "revealing"
     /\ viewers' = [viewers EXCEPT ![v].at = "waiting", ![v].rows = {},
                      ![v].last = view,
                      ![v].told = IF view = viewers[v].last THEN @ ELSE "view"]
     /\ UNCHANGED <<hosted, head, database, turn, changed, erasure, faults>>

\* The answer is not 200: refused before any stream, an error event after.
AnswerFails(v) ==
  /\ viewers[v].at = "revealing" /\ Fault
  /\ viewers' = [viewers EXCEPT ![v] =
                   IF @.last = Nothing THEN Gone
                   ELSE [@ EXCEPT !.at = "waiting", !.rows = {}, !.told = "error"]]
  /\ UNCHANGED <<hosted, head, database, turn, changed, erasure>>

TakeNotice(v) ==
  /\ viewers[v].at = "waiting" /\ viewers[v].slot
  /\ viewers' = [viewers EXCEPT ![v].at = "reading", ![v].slot = FALSE]
  /\ UNCHANGED <<hosted, head, database, turn, changed, erasure, faults>>

\* The viewer disconnects or its token expires.
Leave(v) ==
  /\ viewers[v].at = "waiting" /\ Fault
  /\ viewers' = [viewers EXCEPT ![v] = Gone]
  /\ UNCHANGED <<hosted, head, database, turn, changed, erasure>>

\* MarkErased: the cache refuses the subject, then tells its listeners.
MarkErased ==
  /\ erasure = "none" /\ erasure' = "marked"
  /\ UNCHANGED <<hosted, head, database, turn, changed, viewers, faults>>

Announce ==
  /\ erasure = "marked" /\ erasure' = "announced"
  /\ viewers' = Noticed(Personal)
  /\ UNCHANGED <<hosted, head, database, turn, changed, faults>>

\* The process dies and is started again: its cache, its viewers and its
\* engine's place are gone.
Crash ==
  /\ Fault
  /\ turn' = Nobody /\ changed' = {} /\ erasure' = "none"
  /\ viewers' = [v \in Viewers |-> Gone]
  /\ UNCHANGED <<hosted, head, database>>

EngineStep ==
  \/ Notify \/ ApplyOrder \/ Totals \/ Save \/ CommitRollup
  \/ Wipe \/ Reset \/ TakeOff

ViewerStep(v) == ReadRows(v) \/ Reveal(v) \/ TakeNotice(v)

Next ==
  \/ AppendEvent \/ EngineStep \/ CommitFails \/ RebuildFails
  \/ \E p \in Projections : Deliver(p) \/ BeginRebuild(p) \/ RequestRebuild(p)
  \/ \E v \in Viewers : Open(v) \/ ViewerStep(v) \/ AnswerFails(v) \/ Leave(v)
  \/ MarkErased \/ Announce \/ Crash

Spec == Init /\ [][Next]_vars

\* The engine runs passes over every projection, a listener is called, and a
\* viewer's handler is a goroutine that runs.
FairSpec ==
  /\ Spec
  /\ WF_vars(EngineStep) /\ WF_vars(Announce)
  /\ \A p \in Projections : SF_vars(Deliver(p)) /\ SF_vars(BeginRebuild(p))
  /\ \A v \in Viewers : WF_vars(ViewerStep(v))

-----------------------------------------------------------------------------
(* Properties.                                                             *)

\* What the first q events say, from their definition: the last amount of each
\* line, and what became of each order.
Placements(q) == {p \in 1 .. q : Log[p].type = "OrderPlaced"}

LastLines(q) ==
  {p \in 1 .. q : Log[p].type = "OrderLineAdded" /\ \A n \in p + 1 .. q :
     Log[n].type # "OrderLineAdded" \/ Log[n].order # Log[p].order
                                    \/ Log[n].sku # Log[p].sku}

LinesOf(o, q) ==
  {[order |-> o, sku |-> Log[p].sku, amount |-> Log[p].amount] :
     p \in {n \in LastLines(q) : Log[n].order = o}}

Became(o, q) ==
  LET ends == {p \in 1 .. q : Log[p].order = o /\
                 Log[p].type \in {"OrderConfirmed", "OrderCancelled"}}
  IN IF ends = {} THEN "open"
     ELSE IF Log[Max(ends)].type = "OrderConfirmed" THEN "confirmed" ELSE "cancelled"

OrderSays(p, q) ==
  LET o == Log[p].order
  IN [order |-> o, customer |-> Log[p].customer, status |-> Became(o, q),
      total |-> Sum(LinesOf(o, q)), lineCount |-> Cardinality(LinesOf(o, q))]

OrdersSay(q) == {OrderSays(p, q) : p \in Placements(q)}

\* The orders of customer c, and the lines of all of them.
Theirs(c, q) == {Log[p].order : p \in {n \in Placements(q) : Log[n].customer = c}}

TheirLines(c, q) ==
  {[order |-> Log[p].order, sku |-> Log[p].sku, customer |-> c,
    amount |-> Log[p].amount] :
      p \in {n \in LastLines(q) : Log[n].order \in Theirs(c, q)}}

CustomerSays(c, q) ==
  [customer |-> c, orderCount |-> Cardinality(Theirs(c, q)),
   total |-> Sum(TheirLines(c, q))]

RollupSays(q) ==
  {CustomerSays(c, q) : c \in {Log[p].customer : p \in Placements(q)}}

\* Whenever a projection's position moves on its rows say what the log does up
\* to it: an event applied twice, half of one, or a rebuild leave no trace.  A
\* projection whose rebuild was asked for may be half wiped.
ReadModelsFollow ==
  [][\A p \in Projections :
       positions'[p] > positions[p] /\ p \notin requests =>
         Rows(p)' = IF p = "orders" THEN OrdersSay(positions'[p])
                    ELSE RollupSays(positions'[p])]_vars

Now(v) == [rows |-> Rows(viewers[v].of), redacted |-> Redacted(viewers[v].of)]

\* A viewer that waits without a notice was last sent what a read would show
\* now, or has been told of an error since, unless a hook or a listener that
\* will tell it has yet to run.
IdleIsCurrent ==
  \A v \in Viewers :
    /\ viewers[v].at = "waiting" /\ ~viewers[v].slot
    /\ viewers[v].of \notin changed
    /\ viewers[v].of \in Personal => erasure # "marked"
    => viewers[v].last = Now(v) \/ viewers[v].told = "error"

\* Every stream ends up showing what both the log and the erasures say, unless
\* it was closed or told of an error.
ViewersSettle ==
  \A v \in Viewers :
    <>[](viewers[v].at = "closed" \/ viewers[v].told = "error" \/
         /\ viewers[v].last = Now(v)
         /\ Rows(viewers[v].of) = IF viewers[v].of = "orders" THEN OrdersSay(head)
                               ELSE RollupSays(head))
=============================================================================
