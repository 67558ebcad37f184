----------------------------- MODULE LiveOrders -----------------------------
(***************************************************************************)
(* The live order path: the router's _execute_live, the broker client's    *)
(* retry loop, the in-memory OMS, the reconciler and the committed rows,   *)
(* run by the one thread of the worker process against the broker.         *)
(*                                                                         *)
(* A request is what adopt_unclaimed and in_flight_fingerprint compare:    *)
(* the triple (tradingsymbol, side, quantity) of one deployment.  Internal *)
(* ids and broker ids are numbered in the order they are created.          *)
(***************************************************************************)
EXTENDS Integers, FiniteSets

CONSTANTS
  NumOrders,     \* bound: orders the strategies submit
  MaxBroker,     \* bound: orders the broker's book can hold
  Requests,      \* the different requests
  NoRequest,     \* "no request yet"
  Qty,           \* the quantity of each request
  MaxAttempts,   \* stop_after_attempt(...) of KiteClient._raw_request
  Faults,        \* which of "crash", "dbfail", "foreign" may happen
  MaxFaults      \* bound: how many of them may happen

ASSUME BoundsAssumption ==
  /\ NumOrders \in Nat /\ MaxBroker \in Nat /\ MaxFaults \in Nat
  /\ MaxAttempts \in Nat \ {0}
ASSUME RequestAssumption ==
  /\ NoRequest \notin Requests
  /\ Qty \in [Requests -> Nat \ {0}]

Orders    == 1..NumOrders
BrokerIds == 1..MaxBroker
NoId      == 0

----------------------------------------------------------------------------
(* Data *)

Terminal == {"FILLED", "REJECTED", "CANCELLED", "FAILED"}
Live     == {"CREATED", "SUBMITTED", "ACKNOWLEDGED", "OPEN", "PARTIALLY_FILLED"}
Absent   == [state |-> "ABSENT", boid |-> NoId, filled |-> 0]
OmsOrder == [state : {"ABSENT"} \cup Live \cup Terminal,
             boid : BrokerIds \cup {NoId}, filled : Nat]

\* _ALLOWED
Allowed ==
  [s \in Live |->
    CASE s = "CREATED" -> {"SUBMITTED", "REJECTED", "FAILED"}
      [] s = "SUBMITTED" -> (Live \ {"CREATED", "SUBMITTED"}) \cup Terminal
      [] s = "ACKNOWLEDGED" -> {"OPEN", "PARTIALLY_FILLED"} \cup Terminal
      [] s = "OPEN" -> {"PARTIALLY_FILLED"} \cup Terminal
      [] s = "PARTIALLY_FILLED" ->
           {"PARTIALLY_FILLED", "FILLED", "CANCELLED", "FAILED"}]

\* The statuses of the broker's book, one for each class _KITE_MAP tells
\* apart: REQ stands for the four request/validation statuses, CANCEL
\* PENDING for those the map does not name.
KiteStatus == {"REQ", "OPEN", "CANCEL PENDING", "COMPLETE", "REJECTED", "CANCELLED"}

\* Changed: the spelling of one status is missed.
KiteMapMissesCancelled(st) ==
  CASE st = "COMPLETE" -> "FILLED"
    [] st = "REJECTED" -> "REJECTED"
    [] st = "OPEN" -> "OPEN"
    [] st = "REQ" -> "SUBMITTED"
    [] OTHER -> "NONE"

\* _KITE_MAP.get(status); "NONE" is Python's None
KiteMap(st) ==
  CASE st = "COMPLETE" -> "FILLED"
    [] st = "REJECTED" -> "REJECTED"
    [] st = "CANCELLED" -> "CANCELLED"
    [] st = "OPEN" -> "OPEN"
    [] st = "REQ" -> "SUBMITTED"
    [] OTHER -> "NONE"

\* An entry of the broker's book.  Nothing in it names the internal order whose
\* POST created it.
NoEntry == [st |-> "NONE", rq |-> NoRequest, filled |-> 0]
Entry   == [st : {"NONE"} \cup KiteStatus, rq : Requests \cup {NoRequest},
            filled : Nat]

\* An orders row with its trades.
DbNone   == [status |-> "NONE", boid |-> NoId, trades |-> 0, traded |-> 0]
DbStatus == {"PENDING", "OPEN", "COMPLETE", "REJECTED", "CANCELLED"}
DbRow    == [status : {"NONE"} \cup DbStatus, boid : BrokerIds \cup {NoId},
             trades : Nat, traded : Nat]

\* _STATE_TO_DB
StateToDb(s) ==
  CASE s = "FILLED" -> "COMPLETE"
    [] s = "CANCELLED" -> "CANCELLED"
    [] OTHER -> "REJECTED"

----------------------------------------------------------------------------
VARIABLES
  pc,      \* the worker thread: "idle", "posting" an order, "folding" a book
  cur,     \* the last internal id handed out
  tries,   \* failed POST attempts of the order being placed
  rq,      \* rq[o]: the request of order o
  oms,     \* OMS_ENGINE._orders
  broker,  \* the broker's order book
  nextId,  \* the next broker order id
  book,    \* the reply of get_orders(): the entries the loop still has to fold
  db,      \* the committed rows
  sess,    \* the rows as the open session sees them
  risk,    \* risk[o]: quantity RISK.record_fill was told of for order o
  faults   \* faults so far

worker == <<pc, cur, tries, rq, book>>
store  == <<db, sess, risk>>
vars   == <<pc, cur, tries, rq, oms, broker, nextId, book, db, sess, risk, faults>>

TypeOK ==
  /\ pc \in {"idle", "posting", "folding"}
  /\ cur \in 0..NumOrders
  /\ tries \in 0..(MaxAttempts - 1)
  /\ rq \in [Orders -> Requests \cup {NoRequest}]
  /\ oms \in [Orders -> OmsOrder]
  /\ broker \in [BrokerIds -> Entry]
  /\ nextId \in 1..(MaxBroker + 1)
  /\ book \in [BrokerIds -> Entry]
  /\ db \in [Orders -> DbRow]
  /\ sess \in [Orders -> DbRow]
  /\ risk \in [Orders -> Nat]
  /\ faults \in 0..MaxFaults

EmptyBook == [b \in BrokerIds |-> NoEntry]

Init ==
  /\ pc = "idle" /\ cur = 0 /\ tries = 0
  /\ rq = [o \in Orders |-> NoRequest]
  /\ oms = [o \in Orders |-> Absent]
  /\ broker = EmptyBook /\ nextId = 1
  /\ book = EmptyBook
  /\ db = [o \in Orders |-> DbNone] /\ sess = db
  /\ risk = [o \in Orders |-> 0]
  /\ faults = 0

Fault(f) == f \in Faults /\ faults < MaxFaults /\ faults' = faults + 1

----------------------------------------------------------------------------
(* The router and the client: one order is placed *)

\* OrderRouter._execute_live up to the broker call: the row is flushed (not
\* committed) and the OMS registers the order.  Nothing asks the OMS whether
\* an equal order is already in flight.
Submit(r) ==
  LET o == cur + 1 IN
  /\ pc = "idle" /\ cur < NumOrders
  /\ cur' = o /\ pc' = "posting"
  /\ rq' = [rq EXCEPT ![o] = r]
  /\ sess' = [db EXCEPT ![o] = [DbNone EXCEPT !.status = "PENDING"]]
  /\ oms' = [oms EXCEPT ![o] = [Absent EXCEPT !.state = "CREATED"]]
  /\ UNCHANGED <<tries, broker, nextId, book, db, risk, faults>>

\* The broker takes the order of the POST into its book (external).
Taken ==
  /\ nextId \in BrokerIds
  /\ broker' = [broker EXCEPT ![nextId] =
                  [st |-> "REQ", rq |-> rq[cur], filled |-> 0]]
  /\ nextId' = nextId + 1

Untaken == UNCHANGED <<broker, nextId>>

\* db.commit(): the session's rows become the committed ones, or the commit
\* raises and the session is rolled back.
Commit(rows) ==
  \/ /\ db' = rows /\ sess' = rows
     /\ UNCHANGED faults
  \/ /\ Fault("dbfail") /\ sess' = db
     /\ UNCHANGED db

\* mark_submitted(internal_id, boid), from CREATED
MarkSubmitted(o, boid) ==
  oms' = [oms EXCEPT ![o] = [@ EXCEPT !.state = "SUBMITTED", !.boid = boid]]

\* place_order returned an order id.
Accepted ==
  /\ pc = "posting" /\ Taken
  /\ MarkSubmitted(cur, nextId)
  /\ Commit([sess EXCEPT ![cur] = [@ EXCEPT !.status = "OPEN", !.boid = nextId]])
  /\ pc' = "idle" /\ tries' = 0
  /\ UNCHANGED <<cur, rq, book, risk>>

\* A retryable failure (timeout, connection error, 429): _raw_request sends
\* the same POST again.  The broker may have taken the failed one.
Retry ==
  /\ pc = "posting" /\ tries + 1 < MaxAttempts
  /\ tries' = tries + 1
  /\ (Taken \/ Untaken)
  /\ UNCHANGED <<pc, cur, rq, oms, book, db, sess, risk, faults>>

\* place_order raised: the last attempt failed, or the error is not one the
\* client retries (a 5xx, an unreadable reply), or the broker refused the
\* order with a 4xx.  Every case takes the same except branch.
Failed ==
  /\ pc = "posting"
  /\ (Taken \/ Untaken)
  /\ MarkSubmitted(cur, NoId)
  /\ Commit([sess EXCEPT ![cur] = [@ EXCEPT !.status = "PENDING"]])
  /\ pc' = "idle" /\ tries' = 0
  /\ UNCHANGED <<cur, rq, book, risk>>

----------------------------------------------------------------------------
(* The reconciler: one pass over the broker's book *)

OpenOrders == {o \in Orders : oms[o].state \in Live}
Known      == {oms[o].boid : o \in Orders} \ {NoId}
Orphans    == {o \in Orders : oms[o].state = "SUBMITTED" /\ oms[o].boid = NoId}
Listed     == {b \in BrokerIds : broker[b].st # "NONE"}

\* Changed: entries that are tracked already are not left out.
MatchTracked(o, b) == b \in Listed /\ broker[b].rq = rq[o]

\* adopt_unclaimed pairs orphans with untracked entries of the same request,
\* one to one, and leaves an orphan alone only when no entry is left for it.
\* The order of the broker's list, hence the choice among equal entries, is
\* not the program's to know.
Match(o, b) == b \in Listed \ Known /\ broker[b].rq = rq[o]

\* Changed: known is not extended by what this call adopts.
AdoptionShared(m) ==
  /\ \A o \in DOMAIN m : m[o] # NoId => Match(o, m[o])
  /\ \A o \in DOMAIN m : m[o] = NoId => \A b \in BrokerIds : ~Match(o, b)

\* The pairing m of the orphans, NoId for one left alone.
Adoption(m) ==
  /\ \A o \in DOMAIN m : m[o] # NoId => Match(o, m[o])
  /\ \A o, p \in DOMAIN m : o # p /\ m[o] # NoId => m[o] # m[p]
  /\ \A o \in DOMAIN m : m[o] = NoId =>
       \A b \in BrokerIds : Match(o, b) => \E p \in DOMAIN m : p < o /\ m[p] = b

\* The order apply_broker_status finds for entry b.
Tracks(o, b) == oms[o].boid = b /\ oms[o].state \in Live

\* reconcile() up to its loop.  A get_orders() that raises changes nothing,
\* and so does an entry that no live OMS order follows: book leaves it out.
StartPass ==
  /\ pc = "idle" /\ OpenOrders # {}
  /\ pc' = "folding"
  /\ \E m \in [Orphans -> BrokerIds \cup {NoId}] :
       /\ Adoption(m)
       /\ oms' = [o \in Orders |->
                    IF o \in Orphans THEN [oms[o] EXCEPT !.boid = m[o]] ELSE oms[o]]
  /\ book' = [b \in BrokerIds |->
                IF \E o \in Orders : Tracks(o, b)' THEN broker[b] ELSE NoEntry]
  /\ UNCHANGED <<cur, tries, rq, broker, nextId, db, sess, risk, faults>>

\* Changed: any fill counts as the whole.
TargetAnyFill(e, qty) == IF e.filled > 0 THEN "FILLED" ELSE KiteMap(e.st)

\* The state apply_broker_status asks for, "NONE" when the entry says nothing.
Target(e, qty) ==
  IF e.filled >= qty THEN "FILLED"
  ELSE IF e.filled > 0 /\ KiteMap(e.st) \notin Terminal THEN "PARTIALLY_FILLED"
  ELSE KiteMap(e.st)

Folded(x, e, qty) ==
  LET t == Target(e, qty) IN
  [x EXCEPT !.filled = IF e.filled > 0 THEN e.filled ELSE @,
            !.state  = IF t \in Terminal \/ t \in Allowed[x.state] THEN t ELSE @]

\* int(oms_order.filled_qty or oms_order.quantity)
FillOf(x, qty) == IF x.filled > 0 THEN x.filled ELSE qty

\* Changed: a Trade for every terminal order.
SettledWithTrade(row, x, qty) ==
  [row EXCEPT !.status = StateToDb(x.state), !.trades = 1, !.traded = FillOf(x, qty)]

\* Changed: only an acknowledged row gets its Trade, not an adopted one.
SettledIfOpen(row, x, qty) ==
  IF x.state # "FILLED" \/ row.status # "OPEN"
  THEN [row EXCEPT !.status = StateToDb(x.state)]
  ELSE [row EXCEPT !.status = StateToDb(x.state), !.trades = 1,
                   !.traded = FillOf(x, qty)]

\* _persist_terminal's row: the status, and one Trade on a fill.
Settled(row, x, qty) ==
  IF x.state # "FILLED" THEN [row EXCEPT !.status = StateToDb(x.state)]
  ELSE [row EXCEPT !.status = StateToDb(x.state),
                   !.trades = IF @ = 0 THEN 1 ELSE @,
                   !.traded = IF row.trades = 0 THEN FillOf(x, qty) ELSE @]

\* _persist_terminal goes on only for a row it finds with another status.
Persists(o, x) ==
  /\ x.state \in Terminal
  /\ sess[o].status \notin {"NONE", StateToDb(x.state)}

\* One turn of the loop: apply_broker_status, then _persist_terminal when the
\* order became terminal.
Fold(b) ==
  /\ pc = "folding" /\ book[b] # NoEntry
  /\ book' = [book EXCEPT ![b] = NoEntry]
  /\ \E o \in Orders :
       LET x == Folded(oms[o], book[b], Qty[rq[o]]) IN
       /\ Tracks(o, b)
       /\ oms' = [oms EXCEPT ![o] = x]
       /\ IF Persists(o, x)
          THEN sess' = [sess EXCEPT ![o] = Settled(@, x, Qty[rq[o]])]
          ELSE UNCHANGED sess
       /\ IF Persists(o, x) /\ x.state = "FILLED"
          THEN risk' = [risk EXCEPT ![o] = @ + FillOf(x, Qty[rq[o]])]
          ELSE UNCHANGED risk
  /\ UNCHANGED <<pc, cur, tries, rq, broker, nextId, db, faults>>

\* The database read of _persist_terminal raises: the OMS order is terminal
\* already, the pass is abandoned and its session rolled back.
FoldRaises(b) ==
  /\ pc = "folding" /\ book[b] # NoEntry /\ Fault("dbfail")
  /\ \E o \in Orders :
       LET x == Folded(oms[o], book[b], Qty[rq[o]]) IN
       /\ Tracks(o, b) /\ x.state \in Terminal
       /\ oms' = [oms EXCEPT ![o] = x]
  /\ sess' = db
  /\ pc' = "idle" /\ book' = EmptyBook
  /\ UNCHANGED <<cur, tries, rq, broker, nextId, db, risk>>

\* The loop is over; _reconcile_live_orders commits.
EndPass ==
  /\ pc = "folding" /\ book = EmptyBook
  /\ Commit(sess)
  /\ pc' = "idle"
  /\ UNCHANGED <<cur, tries, rq, oms, broker, nextId, book, risk>>

\* The worker dies and starts again: OMS_ENGINE and RISK are in memory only.
Crash ==
  /\ Fault("crash")
  /\ pc' = "idle" /\ tries' = 0 /\ book' = EmptyBook
  /\ oms' = [o \in Orders |-> Absent]
  /\ risk' = [o \in Orders |-> 0]
  /\ sess' = db
  /\ UNCHANGED <<cur, rq, broker, nextId, db>>

----------------------------------------------------------------------------
(* The broker (external) *)

\* What one entry of the book may become.  A fill can still arrive while a
\* cancel is pending; a part-filled order can be cancelled.
Moves(e) ==
  CASE e.st = "REQ" -> {[e EXCEPT !.st = "OPEN"], [e EXCEPT !.st = "REJECTED"]}
    [] e.st \in {"OPEN", "CANCEL PENDING"} ->
         {[e EXCEPT !.filled = @ + 1,
                    !.st = IF e.filled + 1 = Qty[e.rq] THEN "COMPLETE" ELSE @],
          [e EXCEPT !.st = IF @ = "OPEN" THEN "CANCEL PENDING" ELSE "CANCELLED"]}
    [] OTHER -> {}

Advance(b) ==
  /\ \E e \in Moves(broker[b]) : broker' = [broker EXCEPT ![b] = e]
  /\ UNCHANGED <<worker, oms, nextId, store, faults>>

\* An order of the same account placed elsewhere: by hand on the broker's
\* site, or by the API process, whose OMS is another one.
Foreign(r) ==
  /\ nextId \in BrokerIds /\ Fault("foreign")
  /\ broker' = [broker EXCEPT ![nextId] =
                  [st |-> "REQ", rq |-> r, filled |-> 0]]
  /\ nextId' = nextId + 1
  /\ UNCHANGED <<worker, oms, store>>

----------------------------------------------------------------------------
Work ==
  \/ Accepted \/ Retry \/ Failed
  \/ StartPass \/ EndPass
  \/ \E b \in BrokerIds : Fold(b) \/ FoldRaises(b)

Next ==
  \/ \E r \in Requests : Submit(r)
  \/ Work
  \/ Crash
  \/ \E b \in BrokerIds : Advance(b)
  \/ \E r \in Requests : Foreign(r)

Spec == Init /\ [][Next]_vars

\* The worker polls for ever, and the exchange ends every order it holds.
FairSpec ==
  /\ Spec
  /\ WF_vars(Work)
  /\ \A b \in BrokerIds : WF_vars(Advance(b))

----------------------------------------------------------------------------
(* Properties *)

\* Two OMS orders never follow the same broker order, through any sequence
\* of timeouts, duplicates and adoptions: apply_broker_status settles the
\* first order it finds and would leave the other one open for ever.
TrackedIdsDistinct ==
  \A o, p \in Orders :
    o # p /\ oms[o].boid # NoId => oms[o].boid # oms[p].boid

\* The OMS never runs ahead of the broker order it follows: not in quantity,
\* not in outcome, and that order carries the same request, although book is
\* a copy that the exchange has moved past.
OmsReflectsBroker ==
  \A o \in Orders :
    oms[o].boid # NoId =>
      LET e == broker[oms[o].boid] IN
      /\ e.rq = rq[o]
      /\ oms[o].filled <= e.filled
      /\ oms[o].state = "FILLED" => e.filled = Qty[rq[o]]
      /\ oms[o].state \in {"REJECTED", "CANCELLED"} => e.st = oms[o].state

\* The reconciler invents no fill: for each request, no more rows are
\* COMPLETE than the broker filled orders of it.
Completed(r) == {o \in Orders : rq[o] = r /\ db[o].status = "COMPLETE"}
FilledAt(r)  == {b \in BrokerIds : broker[b].rq = r /\ broker[b].filled = Qty[r]}
FillsNotInvented ==
  \A r \in Requests : Cardinality(Completed(r)) <= Cardinality(FilledAt(r))

\* The position book of RISK and the trades of the session agree for every
\* order this process knows.
BooksAgree ==
  \A o \in Orders : oms[o].state # "ABSENT" => risk[o] = sess[o].traded

\* The committed rows implement OrderRows.
Abs == INSTANCE OrderRows
         WITH rows <- [o \in Orders |-> [status |-> db[o].status, trades |-> db[o].trades]]
RowsRefined == Abs!Spec

\* Every order whose broker id is known reaches a final row: the worker's
\* polls carry each outcome of the exchange through to the database.
OrdersSettle ==
  \A o \in Orders : oms[o].boid # NoId ~> db[o].status \in Abs!Final

=============================================================================
