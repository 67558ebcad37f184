---------------------------- MODULE PaperAccount ----------------------------
(***************************************************************************)
(* The paper trading account, one request or scheduler cycle at a time:    *)
(* orders, fills, the lots of holdings and positions, the margin they      *)
(* block, and the cash book.                                               *)
(*                                                                         *)
(* Money is in rupees.  A lot keeps cost = avg_price * |quantity| instead  *)
(* of the average.  The rows of trades and of the cash book are kept as    *)
(* totals per instrument.  A product is given after its normalisation in   *)
(* place_order, so an instrument stands for a (symbol, product) pair.      *)
(* Requests that _validate refuses are left out.  The code's fractions of  *)
(* a rupee are cut off where a margin, a charge or a part of a lot is      *)
(* worked out.                                                             *)
(***************************************************************************)
EXTENDS Integers, FiniteSets, FiniteSetsExt, Functions

CONSTANTS
  Instruments, \* (symbol, product) pairs
  Kind,        \* kind of each instrument: see Kinds
  Ids,         \* order ids
  Prices,      \* live prices
  Asked,       \* the requests users and the auto traders make
  Openings,    \* opening balances
  Deposits,    \* amounts add_funds is called with
  ChargeBps,   \* statutory charges of a kind, per 10000 of the value
  MaxFunds     \* bound: funds added, in absolute value

Kinds == {"CNC", "MIS", "FUT", "OPT"}
Sides == {"BUY", "SELL"}
None  == 0  \* no price

Types    == {"MARKET", "LIMIT", "SL", "SL-M"}
Requests == [ins : Instruments, side : Sides, type : Types, qty : Nat \ {0},
             price : Nat, trigger : Nat]
\* What _validate asks of the prices of a request.
Valid(o) ==
  /\ o.type \in {"LIMIT", "SL"} => o.price # None
  /\ o.type \in {"SL", "SL-M"} => o.trigger # None

ASSUME KindAssumption  == Kind \in [Instruments -> Kinds]
ASSUME FiniteAssumption == IsFiniteSet(Instruments) /\ IsFiniteSet(Ids)
ASSUME OrderAssumption ==
  /\ Prices \subseteq Nat \ {0}
  /\ Asked \subseteq Requests /\ \A o \in Asked : Valid(o)
ASSUME MoneyAssumption ==
  /\ Openings \subseteq Nat \ {0} /\ Deposits \subseteq Int \ {0} /\ MaxFunds \in Nat
  /\ ChargeBps \in [Kinds -> Nat]

VARIABLES
  acct,   \* the account row: cash, realized_pnl, charges_paid
  orders, \* the order rows
  lots,   \* holding or open position of each instrument
  funds,  \* total of the FUNDS_ADD rows of the cash book
  ledger, \* total of its other rows, by the instrument of their order
  log,    \* totals of the trade rows of each instrument
  cycle   \* _fill_resting: orders still to look at, and the quotes taken

books == <<acct, lots, ledger, log>>
vars  == <<books, orders, funds, cycle>>

Statuses == {"OPEN", "COMPLETE", "REJECTED", "CANCELLED"}
Order    == [req : Requests, status : Statuses]
NoOrder  == [status |-> "NONE"]
Lot      == [qty : Int, cost : Nat, blocked : Nat, t1 : Nat]
NoLot    == [qty |-> 0, cost |-> 0, blocked |-> 0, t1 |-> 0]
NoTrade  == [bought |-> 0, sold |-> 0, paid |-> 0, got |-> 0,
             charges |-> 0, realized |-> 0]
NoQuotes == [i \in Instruments |-> None]
Idle     == [todo |-> {}, quote |-> NoQuotes]

TypeOK ==
  /\ acct \in [cash : Int, realized : Int, charges : Nat]
  /\ orders \in [Ids -> Order \cup {NoOrder}]
  /\ lots \in [Instruments -> Lot]
  /\ \A i \in Instruments : Kind[i] = "CNC" => lots[i].qty >= lots[i].t1
  /\ funds \in Int /\ ledger \in [Instruments -> Int]
  /\ log \in [Instruments -> [bought : Nat, sold : Nat, paid : Nat, got : Nat,
                              charges : Nat, realized : Int]]
  /\ cycle \in [todo : SUBSET Ids,
                quote : [Instruments -> Prices \cup {None}]]
  /\ \A id \in cycle.todo : orders[id].status = "OPEN"

----------------------------------------------------------------------------
(* Margin, charges and the lot a fill leaves.                              *)

Abs(n) == IF n < 0 THEN -n ELSE n
Smaller(m, n) == IF m < n THEN m ELSE n
Larger(m, n)  == IF m < n THEN n ELSE m
Signed(side, q) == IF side = "BUY" THEN q ELSE -q
Holding(i) == Kind[i] = "CNC"

\* The part of a total that goes with some of its units.
Prorata(total, part, whole) == (total * part) \div whole

MarginPct(i, side) ==
  CASE Kind[i] = "OPT" -> IF side = "BUY" THEN 100 ELSE 16
    [] Kind[i] = "FUT" -> 16
    [] Kind[i] = "MIS" -> 20
    [] OTHER           -> 100
Margin(i, side, value) == (value * MarginPct(i, side)) \div 100

\* The statutory charges; the cost model's rates stand as one per kind.
Charges(i, value) == (value * ChargeBps[Kind[i]]) \div 10000

CashNeeded(i, side, value) ==
  IF side = "SELL" /\ Holding(i) THEN 0
  ELSE Margin(i, side, value) + Larger(20, (6 * value) \div 10000)

\* Each outcome: the lot left, the amount booked in cash, the profit.
Bought(l, q, value) ==
  [lot |-> [l EXCEPT !.qty = @ + q, !.cost = @ + value, !.t1 = @ + q],
   cash |-> -value, gross |-> 0]
Delivered(l, q, value) ==
  LET out == Prorata(l.cost, q, l.qty)
      t1  == Smaller(l.t1, l.qty - q)
  IN  [lot |-> [l EXCEPT !.qty = @ - q, !.cost = @ - out, !.t1 = t1],
       cash |-> value, gross |-> value - out]
ApplyHolding(l, side, q, px) ==
  IF side = "BUY" THEN Bought(l, q, px * q) ELSE Delivered(l, q, px * q)

Opened(l, i, side, q, px) ==
  LET m == Margin(i, side, px * q)
  IN  [lot |-> [l EXCEPT !.qty = @ + Signed(side, q), !.cost = @ + px * q,
                         !.blocked = @ + m],
       cash |-> -m, gross |-> 0]
\* Mutants: the profit of a short is taken like that of a long; the margin
\* released is not taken off the position.
ReducedLongOnly(l, side, q, px) ==
  LET out      == Prorata(l.cost, q, Abs(l.qty))
      released == Prorata(l.blocked, q, Abs(l.qty))
  IN  [lot |-> [l EXCEPT !.qty = @ + Signed(side, q), !.cost = @ - out,
                         !.blocked = @ - released],
       cash |-> released + q * px - out, gross |-> q * px - out]
Reduced(l, side, q, px) ==
  LET out      == Prorata(l.cost, q, Abs(l.qty))
      released == Prorata(l.blocked, q, Abs(l.qty))
      gross    == IF l.qty > 0 THEN q * px - out ELSE out - q * px
  IN  [lot |-> [l EXCEPT !.qty = @ + Signed(side, q), !.cost = @ - out,
                         !.blocked = @ - released],
       cash |-> released + gross, gross |-> gross]
\* Mutants: the margin of the rest is not taken from the cash; it is taken
\* for the whole order.
FlippedUnpaid(l, i, side, q, px) ==
  LET closed == Reduced(l, side, Abs(l.qty), px)
      rest   == Opened(closed.lot, i, side, q - Abs(l.qty), px)
  IN  [lot |-> rest.lot, cash |-> closed.cash, gross |-> closed.gross]
FlippedWhole(l, i, side, q, px) ==
  LET closed == Reduced(l, side, Abs(l.qty), px)
      rest   == Opened(closed.lot, i, side, q - Abs(l.qty), px)
      more   == Margin(i, side, px * Abs(l.qty))
  IN  [lot |-> [rest.lot EXCEPT !.blocked = @ + more],
       cash |-> closed.cash + rest.cash - more, gross |-> closed.gross]
\* A fill beyond the position closes it and opens the rest at its price.
Flipped(l, i, side, q, px) ==
  LET closed == Reduced(l, side, Abs(l.qty), px)
      rest   == Opened(closed.lot, i, side, q - Abs(l.qty), px)
  IN  [lot |-> rest.lot, cash |-> closed.cash + rest.cash,
       gross |-> closed.gross]
SameSide(l, side) == l.qty = 0 \/ (l.qty > 0 <=> side = "BUY")
ApplyPosition(l, i, side, q, px) ==
  IF SameSide(l, side) THEN Opened(l, i, side, q, px)
  ELSE IF q <= Abs(l.qty) THEN Reduced(l, side, q, px)
  ELSE Flipped(l, i, side, q, px)

Applied(l, i, side, q, px) ==
  IF Holding(i) THEN ApplyHolding(l, side, q, px)
  ELSE ApplyPosition(l, i, side, q, px)

----------------------------------------------------------------------------
(* Filling an order.                                                       *)

HasInventory(o) ==
  Holding(o.ins) /\ o.side = "SELL" => lots[o.ins].qty >= o.qty
Affordable(o, px) == CashNeeded(o.ins, o.side, px * o.qty) <= acct.cash

\* The totals of an instrument's trades with one more.
Tally(t, side, q, value, fee, net) ==
  IF side = "BUY"
  THEN [t EXCEPT !.bought = @ + q, !.paid = @ + value, !.charges = @ + fee,
                 !.realized = @ + net]
  ELSE [t EXCEPT !.sold = @ + q, !.got = @ + value, !.charges = @ + fee,
                 !.realized = @ + net]

\* The rows _fill writes: the lot, the trade, the cash book, the account.
Fill(o, px) ==
  LET i     == o.ins
      value == px * o.qty
      fee   == Charges(i, value)
      done  == Applied(lots[i], i, o.side, o.qty, px)
      net   == done.gross - fee
  IN  /\ lots' = [lots EXCEPT ![i] = done.lot]
      /\ ledger' = [ledger EXCEPT ![i] = @ + done.cash - fee]
      /\ log' = [log EXCEPT ![i] = Tally(@, o.side, o.qty, value, fee, net)]
      /\ acct' = [cash |-> acct.cash + done.cash - fee,
                  realized |-> acct.realized + net,
                  charges |-> acct.charges + fee]

Row(o, status) == [req |-> o, status |-> status]
TryFill(id, o, px) ==
  IF Affordable(o, px) /\ HasInventory(o)
  THEN /\ Fill(o, px)
       /\ orders' = [orders EXCEPT ![id] = Row(o, "COMPLETE")]
  ELSE /\ orders' = [orders EXCEPT ![id] = Row(o, "REJECTED")]
       /\ UNCHANGED books

----------------------------------------------------------------------------
(* The account's requests.  Each runs while no cycle is under way.         *)

\* place_order with the live price ltp.
Submit(id, o, ltp) ==
  /\ orders[id] = NoOrder
  /\ IF o.type = "MARKET"
     THEN IF ltp = None
          THEN /\ orders' = [orders EXCEPT ![id] = Row(o, "REJECTED")]
               /\ UNCHANGED books
          ELSE TryFill(id, o, ltp)
     ELSE LET ref    == IF o.price # None THEN o.price ELSE o.trigger
              status == IF Affordable(o, ref) THEN "OPEN" ELSE "REJECTED"
          IN  orders' = [orders EXCEPT ![id] = Row(o, status)]
              /\ UNCHANGED books
  /\ UNCHANGED <<funds, cycle>>

Quiet == cycle = Idle
Place(id) ==
  /\ Quiet
  /\ \E o \in Asked, ltp \in Prices \cup {None} : Submit(id, o, ltp)

Cancel(id) ==
  /\ Quiet
  /\ orders[id].status = "OPEN"
  /\ orders' = [orders EXCEPT ![id].status = "CANCELLED"]
  /\ UNCHANGED <<books, funds, cycle>>

Retry(old, id) ==
  /\ Quiet
  /\ orders[old].status \in {"REJECTED", "CANCELLED"}
  /\ \E ltp \in Prices \cup {None} : Submit(id, orders[old].req, ltp)

\* Nothing is checked against the cash until the order fills.
Modify(id) ==
  /\ Quiet
  /\ orders[id].status = "OPEN"
  /\ \E o \in Asked :
       /\ <<o.ins, o.side, o.type>> =
            <<orders[id].req.ins, orders[id].req.side, orders[id].req.type>>
       /\ orders' = [orders EXCEPT ![id].req = o]
  /\ UNCHANGED <<books, funds, cycle>>

\* The MARKET order that would close a position.
Closing(i) ==
  [ins |-> i, side |-> IF lots[i].qty > 0 THEN "SELL" ELSE "BUY",
   type |-> "MARKET", qty |-> Abs(lots[i].qty), price |-> None,
   trigger |-> None]
ExitPosition(id, i, ltp) ==
  /\ Quiet
  /\ ~Holding(i) /\ lots[i].qty # 0
  /\ Submit(id, Closing(i), ltp)

AddFunds(a) ==
  /\ Quiet
  /\ Abs(funds + a) <= MaxFunds
  /\ acct' = [acct EXCEPT !.cash = @ + a]
  /\ funds' = funds + a
  /\ UNCHANGED <<orders, lots, ledger, log, cycle>>

Fresh(ob) == [cash |-> ob, realized |-> 0, charges |-> 0]
Reset(ob) ==
  /\ Quiet
  /\ acct' = Fresh(ob)
  /\ orders' = [id \in Ids |-> NoOrder]
  /\ lots' = [i \in Instruments |-> NoLot]
  /\ funds' = ob
  /\ ledger' = [i \in Instruments |-> 0]
  /\ log' = [i \in Instruments |-> NoTrade]
  /\ UNCHANGED cycle

----------------------------------------------------------------------------
(* The scheduler.                                                          *)

\* The price a resting order fills at when the market trades at ltp.
PriceFor(o, ltp) ==
  LET buy    == o.side = "BUY"
      inside == IF buy THEN ltp <= o.price ELSE ltp >= o.price
      hit    == IF buy THEN ltp >= o.trigger ELSE ltp <= o.trigger
  IN  CASE o.type = "LIMIT" /\ inside -> ltp
        [] o.type = "SL" /\ hit       -> o.price
        [] o.type = "SL-M" /\ hit     -> ltp
        [] OTHER                      -> None

CycleStart ==
  /\ Quiet
  /\ \E id \in Ids : orders[id].status = "OPEN"
  /\ \E quote \in [Instruments -> Prices \cup {None}] :
       cycle' = [todo |-> {id \in Ids : orders[id].status = "OPEN"},
                 quote |-> quote]
  /\ UNCHANGED <<books, orders, funds>>

CycleFill(id) ==
  /\ id \in cycle.todo
  /\ LET o    == orders[id].req
         ltp  == cycle.quote[o.ins]
         rest == cycle.todo \ {id}
     IN  /\ IF ltp # None /\ PriceFor(o, ltp) # None
            THEN TryFill(id, o, PriceFor(o, ltp))
            ELSE UNCHANGED <<books, orders>>
         /\ cycle' = IF rest = {} THEN Idle ELSE [cycle EXCEPT !.todo = rest]
  /\ UNCHANGED funds

\* The end of the day settles the day's deliveries.
EodRoll ==
  /\ Quiet
  /\ \E i \in Instruments : lots[i].t1 > 0
  /\ lots' = [i \in Instruments |-> [lots[i] EXCEPT !.t1 = 0]]
  /\ UNCHANGED <<acct, ledger, log, orders, funds, cycle>>

----------------------------------------------------------------------------
Init ==
  /\ \E ob \in Openings : acct = Fresh(ob) /\ funds = ob
  /\ orders = [id \in Ids |-> NoOrder]
  /\ lots = [i \in Instruments |-> NoLot]
  /\ ledger = [i \in Instruments |-> 0]
  /\ log = [i \in Instruments |-> NoTrade]
  /\ cycle = Idle

Exit(id) == \E i \in Instruments, ltp \in Prices \cup {None} :
              ExitPosition(id, i, ltp)

Next ==
  \/ \E id \in Ids : \/ Place(id) \/ Cancel(id) \/ Modify(id) \/ Exit(id)
                     \/ CycleFill(id)
                     \/ \E old \in Ids : Retry(old, id)
  \/ \E a \in Deposits : AddFunds(a)
  \/ \E ob \in Openings : Reset(ob)
  \/ CycleStart \/ EodRoll

Spec == Init /\ [][Next]_vars

----------------------------------------------------------------------------
(* Properties.                                                             *)

\* What the trades of an instrument did to the cash, as reconcile sees it.
TradeCash(i) ==
  IF Holding(i) THEN log[i].got - log[i].paid - log[i].charges
  ELSE log[i].realized - lots[i].blocked

\* Each instrument's rows of the cash book are what its trades did.
LedgerExplained == \A i \in Instruments : ledger[i] = TradeCash(i)

\* reconcile, which rebuilds cash, profit and charges from the trades and
\* the blocked margin, finds nothing to correct.
ReconcileAgrees ==
  /\ LedgerExplained
  /\ acct.cash = funds + SumFunction([i \in Instruments |-> TradeCash(i)])
  /\ acct.realized = SumFunction([i \in Instruments |-> log[i].realized])
  /\ acct.charges = SumFunction([i \in Instruments |-> log[i].charges])

\* The profit booked on an instrument, before charges, is what it sold for
\* less what it bought for, less the cost of the lot still open: through
\* partial closes and flips nothing is counted twice or lost, and the lot
\* is what was bought less what was sold.
Basis(l) == IF l.qty >= 0 THEN l.cost ELSE -l.cost
PnlExplained ==
  \A i \in Instruments :
    /\ lots[i].qty = log[i].bought - log[i].sold
    /\ log[i].realized + log[i].charges
         = log[i].got - log[i].paid + Basis(lots[i])

\* A position that is flat has no cost and blocks no margin, and no holding
\* is short: no sequence of adds, partial closes and flips leaves a rest.
FlatIsClean ==
  \A i \in Instruments :
    /\ lots[i].qty = 0 => lots[i].cost = 0 /\ lots[i].blocked = 0
    /\ Holding(i) => lots[i].qty >= 0 /\ lots[i].blocked = 0

\* The margin blocked is the margin rate of the side held, on the cost of the
\* lot: adds, partial closes and flips keep it in step.  Each rounds to the
\* rupee, so that the two are at most a rupee apart for every order filled
\* since the last reset.
Filled(i) == {id \in Ids : orders[id].status = "COMPLETE" /\ orders[id].req.ins = i}
MarginFollowsLot ==
  \A i \in Instruments :
    LET side == IF lots[i].qty > 0 THEN "BUY" ELSE "SELL"
        off  == 100 * lots[i].blocked - MarginPct(i, side) * lots[i].cost
    IN  ~Holding(i) => Abs(off) <= 100 * Cardinality(Filled(i))

=============================================================================
