------------------------------ MODULE Backtest -------------------------------
(***************************************************************************)
(* The backtest engine (app/backtesting/engine.py) over a stream of bars   *)
(* of several instruments, and the round trips read back from its fills    *)
(* (app/backtesting/trades.py).                                            *)
(*                                                                         *)
(* The strategy is any: on a bar it may order any instrument.  The lots    *)
(* and the results of reconstruct_trades are carried along fill by fill,   *)
(* as its one pass over the list of fills computes them.                   *)
(*                                                                         *)
(* Bound: slippage is a fixed amount and the other charges are a fixed     *)
(* amount a share, so that both divide by the share without a rest.        *)
(*                                                                         *)
(* The initial predicate, the actions and the specification carry the name *)
(* of the replay: the module with the proofs also extends PaperAccount.    *)
(***************************************************************************)
EXTENDS Integers, Sequences, FiniteSets, FiniteSetsExt, Functions

CONSTANTS
    Universe,
    Closes,      \* closes
    Quantities,  \* bound: quantities a strategy orders
    Capital,     \* initial_capital
    CapGross,    \* max_gross_exposure * initial_capital
    Slip,        \* slippage of a share
    Charge,      \* statutory charges of a share
    MaxBars,     \* bound: bars of the run
    MaxOrders    \* bound: orders of the run

ASSUME BacktestAssumption ==
    /\ IsFiniteSet(Universe)
    /\ Closes \subseteq Nat \ {0} /\ \A p \in Closes : p > Slip
    /\ Quantities \subseteq Nat
    /\ {Capital, CapGross} \subseteq Nat \ {0}
    /\ {Slip, Charge, MaxBars, MaxOrders} \subseteq Nat

VARIABLES
    at,       \* between the bars, or at the orders of one
    bar,      \* the bar: its instrument and close
    last,     \* last_price; 0 where there has been no bar
    pos,      \* positions
    cash,
    costs,    \* total_costs
    equity,   \* the last point of the equity curve
    ruined,
    openLots, \* per instrument, oldest first: quantity, price and entry cost
    sideOf,   \* side_by_instrument: of the open lots
    closed,   \* of the closed trades: gross_pnl and costs
    flipped,  \* ghost: a fill has reversed a position
    bars, submitted

replayVars == <<at, bar, last, pos, cash, costs, equity, ruined, openLots, sideOf,
                closed, flipped, bars, submitted>>
book   == <<pos, cash, costs, flipped>>
trades == <<openLots, sideOf, closed>>

ReplayInit ==
    /\ at = "next" /\ bar \in [of : Universe, close : Closes]
    /\ last = [i \in Universe |-> 0]
    /\ pos = [i \in Universe |-> 0]
    /\ cash = Capital /\ costs = 0 /\ equity = Capital /\ ruined = FALSE
    /\ openLots = [i \in Universe |-> <<>>]
    /\ sideOf = [i \in Universe |-> "none"]
    /\ closed = [gross |-> 0, costs |-> 0]
    /\ flipped = FALSE
    /\ bars = 0 /\ submitted = 0

-----------------------------------------------------------------------------
(* The exposure cap. *)

Size(n) == IF n < 0 THEN -n ELSE n
Least(m, n) == IF m <= n THEN m ELSE n

GrossOf(p) == SumFunction([i \in Universe |-> Size(p[i]) * last[i]])
Worth(p)   == SumFunction([i \in Universe |-> p[i] * last[i]])

\* The price an order of instrument i refers to: its own last close, or the close
\* of the bar at hand when it has none.
Reference(i) == IF last[i] # 0 THEN last[i] ELSE bar.close

\* What a signed order adds to the size of a position.
Adds(cur, n) == Size(cur + n) - Size(cur)

\* The bisection between no share and the whole order (sign s) for the largest part
\* that adds no more than head shares: each round halves what is open, so that qty
\* rounds are enough.
Halved(w, cur, s, head) ==
    LET mid == (w.lo + w.hi + 1) \div 2
    IN  IF w.lo >= w.hi THEN w
        ELSE IF Adds(cur, s * mid) <= head THEN [w EXCEPT !.lo = mid]
        ELSE [w EXCEPT !.hi = mid - 1]
Bisect(cur, s, head, qty) ==
    LET window[k \in 0..qty] ==
          IF k = 0 THEN [lo |-> 0, hi |-> qty] ELSE Halved(window[k - 1], cur, s, head)
    IN  window[qty].lo

Headroom(i) ==
    IF CapGross > GrossOf(pos) THEN (CapGross - GrossOf(pos)) \div Reference(i) ELSE 0

\* The quantity that is filled of an order.
FitsHeadroom(i, s, qty) ==   \* mutant: never more than the headroom, whatever it closes
    Least(qty, Headroom(i))
Fits(i, s, qty) ==
    IF Adds(pos[i], s * qty) * Reference(i) > 0
    THEN Bisect(pos[i], s, Headroom(i), qty)
    ELSE qty

-----------------------------------------------------------------------------
(* Round trips, first in first out: reconstruct_trades. *)

Sign(way) == IF way = "long" THEN 1 ELSE -1

MatchLong(done, lot, price, exitCost, way) ==   \* mutant: each trade a long one
    LET m     == Least(done.left, lot.qty)
        entry == (lot.cost * m) \div lot.qty
    IN  [left  |-> done.left - m,
         gross |-> done.gross + (price - lot.price) * m,
         costs |-> done.costs + entry + exitCost * m,
         lots  |-> IF m = lot.qty THEN done.lots
                   ELSE Append(done.lots, [qty |-> lot.qty - m, price |-> lot.price,
                                           cost |-> lot.cost - entry])]
MatchWhole(done, lot, price, exitCost, way) ==   \* mutant: the lot keeps its whole cost
    LET m     == Least(done.left, lot.qty)
        entry == (lot.cost * m) \div lot.qty
    IN  [left  |-> done.left - m,
         gross |-> done.gross + Sign(way) * (price - lot.price) * m,
         costs |-> done.costs + entry + exitCost * m,
         lots  |-> IF m = lot.qty THEN done.lots
                   ELSE Append(done.lots, [qty |-> lot.qty - m, price |-> lot.price,
                                           cost |-> lot.cost])]
\* One lot against the rest of a closing fill.
Match(done, lot, price, exitCost, way) ==
    LET m     == Least(done.left, lot.qty)
        entry == (lot.cost * m) \div lot.qty
    IN  [left  |-> done.left - m,
         gross |-> done.gross + Sign(way) * (price - lot.price) * m,
         costs |-> done.costs + entry + exitCost * m,
         lots  |-> IF m = lot.qty THEN done.lots
                   ELSE Append(done.lots, [qty |-> lot.qty - m, price |-> lot.price,
                                           cost |-> lot.cost - entry])]

\* A closing fill against all the open lots ls, oldest first.
Matched(ls, way, qty, price, exitCost) ==
    LET done[k \in 0..Len(ls)] ==
          IF k = 0
          THEN [left |-> qty, gross |-> closed.gross, costs |-> closed.costs, lots |-> <<>>]
          ELSE Match(done[k - 1], ls[k], price, exitCost, way)
    IN  done[Len(ls)]

\* A fill of qty shares at price, cost of which is perShare each, on the open lots
\* of i: it adds a lot, or it closes the oldest ones, and what is left of it then
\* opens a lot on the other side, for no cost.
Rounds(i, way, qty, price, perShare) ==
    IF sideOf[i] \in {"none", way}
    THEN /\ openLots' = [openLots EXCEPT ![i] =
               Append(@, [qty |-> qty, price |-> price, cost |-> perShare * qty])]
         /\ sideOf' = [sideOf EXCEPT ![i] = way]
         /\ UNCHANGED closed
    ELSE LET done == Matched(openLots[i], sideOf[i], qty, price, perShare)
         IN  /\ closed' = [gross |-> done.gross, costs |-> done.costs]
             /\ openLots' = [openLots EXCEPT ![i] =
                   IF done.left > 0
                   THEN <<[qty |-> done.left, price |-> price, cost |-> 0]>>
                   ELSE done.lots]
             /\ sideOf' = [sideOf EXCEPT ![i] =
                   CASE done.left > 0 -> way
                     [] done.left = 0 /\ done.lots = <<>> -> "none"
                     [] OTHER -> @]

-----------------------------------------------------------------------------
(* The run. *)

\* A bar of any instrument; a ruined book is only marked, and its orders dropped.
Bar ==
    /\ at = "next" /\ bars < MaxBars
    /\ \E i \in Universe, p \in Closes :
         /\ bar' = [of |-> i, close |-> p]
         /\ last' = [last EXCEPT ![i] = p]
    /\ at' = "bar" /\ bars' = bars + 1
    /\ UNCHANGED <<book, trades, equity, ruined, submitted>>

\* An order of the strategy: nothing fits, or it fills at the reference price, worse
\* by the slippage, which is also one of its costs.
SimulatedFill(i, s, qty) ==
    /\ at = "bar" /\ ~ruined /\ submitted < MaxOrders
    /\ qty > 0
    /\ submitted' = submitted + 1
    /\ LET n     == Fits(i, s, qty)
           price == Reference(i) + s * Slip
           now   == pos[i] + s * n
       IN  IF n = 0
           THEN UNCHANGED <<book, trades>>
           ELSE /\ pos' = [pos EXCEPT ![i] = now]
                /\ cash' = cash - s * n * price - (Slip + Charge) * n
                /\ costs' = costs + (Slip + Charge) * n
                /\ flipped' = (flipped \/ pos[i] * now < 0)
                /\ Rounds(i, IF s = 1 THEN "long" ELSE "short", n, price, Slip + Charge)
    /\ UNCHANGED <<at, bar, last, equity, ruined, bars>>

Mark ==
    /\ at = "bar" /\ at' = "next"
    /\ equity' = cash + Worth(pos)
    /\ ruined' = (ruined \/ equity' <= 0)
    /\ UNCHANGED <<bar, last, book, trades, bars, submitted>>

ReplayNext ==
    \/ Bar \/ Mark
    \/ \E i \in Universe, s \in {1, -1}, qty \in Quantities : SimulatedFill(i, s, qty)

ReplaySpec == ReplayInit /\ [][ReplayNext]_replayVars

-----------------------------------------------------------------------------
(* Properties. *)

Shares(ls) == SumFunction([k \in DOMAIN ls |-> ls[k].qty])
Value(ls)  == SumFunction([k \in DOMAIN ls |-> ls[k].qty * ls[k].price])
Entry(ls)  == SumFunction([k \in DOMAIN ls |-> ls[k].cost])

\* The mark of an open lot: the last close of its instrument, or the lot's own price
\* where the instrument has had no bar.
MarkPrice(i, lot) == IF last[i] # 0 THEN last[i] ELSE lot.price

\* What reconstruct_trades reports as the gross profit of the open lots of i.
OpenGross(i) ==
    SumFunction([k \in DOMAIN openLots[i] |->
        Sign(sideOf[i]) * ((MarkPrice(i, openLots[i][k]) - openLots[i][k].price)
                             * openLots[i][k].qty)])

\* What was paid for lots whose instrument has had no bar: the engine marks them at
\* nothing, the report at what they cost.
Unpriced(i) == IF last[i] # 0 THEN 0 ELSE Sign(sideOf[i]) * Value(openLots[i])

\* The gross profit of the closed and of the open trades, less the costs, is what the
\* equity curve has gained, but for what was paid for open lots without a bar (the
\* trades of a report and its curve come from two computations).
CurveExplained ==
    cash + Worth(pos)
      = Capital + closed.gross + SumFunction([i \in Universe |-> OpenGross(i)]) - costs
        - SumFunction([i \in Universe |-> Unpriced(i)])

\* The trades carry the costs of the fills, each once; a reversal alone loses some.
CostsCarried ==
    LET carried == closed.costs + SumFunction([i \in Universe |-> Entry(openLots[i])])
    IN  carried <= costs /\ (~flipped => carried = costs)

\* Of every order the cap lets through the largest part that fits, and all of an
\* order that does not enlarge the position (test_engine_risk_guards.py:
\* a reducing order must always go through).
LargestFits ==
    at = "bar" =>
    \A i \in Universe, s \in {1, -1}, qty \in Quantities :
        LET room == IF CapGross > GrossOf(pos) THEN CapGross - GrossOf(pos) ELSE 0
            fits == {n \in 0..qty : Adds(pos[i], s * n) * Reference(i) <= room}
        IN  Fits(i, s, qty) = IF Adds(pos[i], s * qty) <= 0 THEN qty ELSE Max(fits)

==============================================================================
