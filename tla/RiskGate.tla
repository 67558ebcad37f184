------------------------------ MODULE RiskGate ------------------------------
(***************************************************************************)
(* The pre-trade limits of RISK for one paper or simulation deployment, as *)
(* OrderRouter.submit uses them in the worker: evaluate, record_submitted, *)
(* the executor's commit, the reload of the row and record_fill.  Time     *)
(* passes between evaluate and record_submitted, the counters start again  *)
(* with each UTC day, and a restarted worker starts with an empty engine.  *)
(*                                                                         *)
(* A limit of 0 is no limit.  Quantities are signed: a SELL is negative.   *)
(* The kill switch is the subject of TradingHalt; the daily loss check is  *)
(* left out, since nothing in the program calls record_realized_pnl, and   *)
(* so are the lengths of the deques (4096 order times, 256 fingerprints)   *)
(* and a wall clock that is set back.                                      *)
(***************************************************************************)
EXTENDS Integers, Sequences, FiniteSets

CONSTANTS
  Symbols,    \* the instruments of the deployment's universe
  Quantities, \* the signed quantities its strategy may ask for
  Rates,      \* the order-rate limits: records [len, cap]
  PerDay,     \* max_orders_per_day
  DupWindow,  \* duplicate_window_seconds
  MaxQty,     \* max_order_quantity
  MaxPos,     \* max_position_qty_per_instrument
  MaxOpen,    \* max_open_positions
  DayLength,  \* time units of a day
  Horizon,    \* bound: the last instant
  MaxSubmits, \* bound: orders submitted by one process
  MaxCrashes  \* bound: restarts of the worker

ASSUME LimitAssumption ==
  /\ Rates \subseteq [len : Nat, cap : Nat]
  /\ PerDay \in Nat /\ DupWindow \in Nat /\ MaxQty \in Nat
  /\ MaxPos \in Nat /\ MaxOpen \in Nat
ASSUME OrderAssumption ==
  /\ IsFiniteSet(Symbols) /\ Quantities \subseteq Int \ {0}
ASSUME ClockAssumption ==
  /\ DayLength \in Nat \ {0} /\ Horizon \in Nat
  /\ MaxSubmits \in Nat /\ MaxCrashes \in Nat

\* What the fingerprint tells apart; order type and price are one of it.
Order == [sym : Symbols, qty : Quantities]
Abs(n) == IF n < 0 THEN -n ELSE n

VARIABLES
  now,      \* the clock
  day,      \* _DeploymentRisk.day
  times,    \* order_times
  today,    \* orders_today
  recent,   \* recent: pairs of an order and its time
  pos,      \* positions
  intent,   \* the order between evaluate and its execution, as <<o>>, or <<>>
  net,      \* per symbol, the sum of the committed COMPLETE orders
  carried,  \* history: net when this process started
  missed,   \* history: per symbol, the quantity committed that record_fill was never told
  log,      \* history: the orders of this process that passed, in turn
  crashes   \* restarts so far

engine == <<day, times, today, recent, pos>>
past   == <<carried, crashes>>
vars   == <<now, engine, intent, net, missed, log, past>>

Day(t) == t \div DayLength
Entry  == [at : 0..Horizon, order : Order]

TypeOK ==
  /\ now \in 0..Horizon /\ day \in 0..Day(Horizon)
  /\ times \in Seq(0..Horizon)
  /\ today \in Nat
  /\ recent \subseteq (Order \X (0..Horizon))
  /\ pos \in [Symbols -> Int]
  /\ net \in [Symbols -> Int] /\ carried \in [Symbols -> Int]
  /\ missed \in [Symbols -> Nat]
  /\ crashes \in 0..MaxCrashes
  /\ intent \in Seq(Order) /\ Len(intent) <= 1
  /\ log \in Seq(Entry)
  /\ Len(log) <= MaxSubmits

Flat == [s \in Symbols |-> 0]

Init ==
  /\ now = 0 /\ day = 0
  /\ times = <<>> /\ today = 0 /\ recent = {}
  /\ pos = Flat /\ net = Flat /\ carried = Flat
  /\ missed = Flat /\ crashes = 0
  /\ intent = <<>> /\ log = <<>>

----------------------------------------------------------------------------
(* The engine as it is after roll_day_if_needed *)

Rolled == day # Day(now)
Times  == IF Rolled THEN <<>> ELSE times
Today  == IF Rolled THEN 0 ELSE today
Recent == IF Rolled THEN {} ELSE recent

\* sum(1 for t in order_times if now - t < len)
Within(len) == Cardinality({i \in DOMAIN Times : now - Times[i] < len})

QtyOK(o)  == MaxQty # 0 => Abs(o.qty) <= MaxQty

\* Changed: one order more is let through.
RatesPlusOne == \A r \in Rates : r.cap # 0 => Within(r.len) <= r.cap
RatesOK      == \A r \in Rates : r.cap # 0 => Within(r.len) < r.cap

DayOK      == PerDay # 0 => Today < PerDay

\* Changed: the comparison is with the last order only.
LastNotEqual(o) ==
  \A e \in Recent : e[1] = o /\ (\A f \in Recent : f[2] <= e[2]) => now - e[2] >= DupWindow
NoDuplicate(o) == \A e \in Recent : e[1] = o => now - e[2] >= DupWindow

Projected(o) == [pos EXCEPT ![o.sym] = @ + o.qty]
OpenIn(p)    == {s \in Symbols : p[s] # 0}

\* Changed: the position is capped as it is, not as it would be.
PositionUnprojected(o) ==
  /\ MaxPos # 0 => Abs(pos[o.sym]) < MaxPos
  /\ MaxOpen # 0 => Cardinality(OpenIn(pos)) <= MaxOpen

PositionOK(o) ==
  /\ MaxPos # 0 => Abs(Projected(o)[o.sym]) <= MaxPos
  /\ MaxOpen # 0 => Cardinality(OpenIn(Projected(o))) <= MaxOpen

Approved(o) ==
  QtyOK(o) /\ RatesOK /\ DayOK /\ NoDuplicate(o) /\ PositionOK(o)

Roll ==
  /\ day' = Day(now)
  /\ times' = Times /\ today' = Today /\ recent' = Recent

----------------------------------------------------------------------------
(* OrderRouter.submit *)

\* RISK.evaluate.  A refused order is recorded REJECTED and forgotten.
Evaluate(o) ==
  /\ intent = <<>> /\ Len(log) < MaxSubmits
  /\ Roll
  /\ intent' = IF Approved(o) THEN <<o>> ELSE <<>>
  /\ UNCHANGED <<now, pos, net, missed, log, past>>

\* record_submitted
Record(o) ==
  /\ day' = Day(now)
  /\ times' = Append(Times, now)
  /\ today' = Today + 1
  /\ recent' = Recent \cup {<<o, now>>}
  /\ log' = Append(log, [at |-> now, order |-> o])

\* What becomes of an order after record_submitted: its row is not committed;
\* the row is committed and record_fill told; or the row is committed and then
\* its reload raises (the commit has expired it, and reading result.order.status
\* reads it again), and the book never hears of it.
Outcomes == {"failed", "filled", "unheard"}

\* The executor commits a COMPLETE row and the router calls record_fill.
Filled(o, outcome) ==
  /\ net' = IF outcome = "failed" THEN net ELSE [net EXCEPT ![o.sym] = @ + o.qty]
  /\ pos' = IF outcome = "filled" THEN Projected(o) ELSE pos
  /\ missed' = IF outcome = "unheard" THEN [missed EXCEPT ![o.sym] = @ + Abs(o.qty)]
               ELSE missed

\* The rest of submit.
Execute(outcome) ==
  /\ intent # <<>>
  /\ Record(intent[1]) /\ Filled(intent[1], outcome)
  /\ intent' = <<>>
  /\ UNCHANGED <<now, past>>

----------------------------------------------------------------------------
Tick ==
  /\ now < Horizon /\ now' = now + 1
  /\ UNCHANGED <<engine, intent, net, missed, log, past>>

\* The worker is restarted: RISK is new, the rows stay.
Crash ==
  /\ crashes < MaxCrashes /\ crashes' = crashes + 1
  /\ day' = Day(now)
  /\ times' = <<>> /\ today' = 0 /\ recent' = {} /\ pos' = Flat
  /\ intent' = <<>> /\ log' = <<>> /\ carried' = net /\ missed' = Flat
  /\ UNCHANGED <<now, net>>

Next ==
  \/ \E o \in Order : Evaluate(o)
  \/ \E outcome \in Outcomes : Execute(outcome)
  \/ Tick \/ Crash

Spec == Init /\ [][Next]_vars

----------------------------------------------------------------------------
(* Properties *)

SameDay(i, j) == Day(log[i].at) = Day(log[j].at)

\* However orders are spread and however long each takes between its check
\* and its record, cap + 1 orders of one day that this process let through
\* are never within the window of an order-rate limit.
RateCap ==
  \A r \in Rates : r.cap # 0 =>
    \A i \in 1..(Len(log) - r.cap) :
      SameDay(i, i + r.cap) => log[i + r.cap].at - log[i].at >= r.len

\* No day of this process sees more orders than the daily limit.
DayCap ==
  PerDay # 0 =>
    \A i \in 1..(Len(log) - PerDay) : ~SameDay(i, i + PerDay)

\* Two equal orders of one day are at least the duplicate window apart.
EqualOrdersApart ==
  \A i, j \in DOMAIN log :
    i < j /\ log[i].order = log[j].order /\ SameDay(i, j)
      => log[j].at - log[i].at >= DupWindow

\* What the orders committed since the process started add up to.
Made == [s \in Symbols |-> net[s] - carried[s]]

\* The caps are checked against the book, and the book can miss a committed
\* fill.  The committed positions of an instrument still pass the quantity cap
\* by no more than the fills the book missed of it, and of the instruments of
\* which it missed none no more are open than the cap on open positions allows.
PositionCaps ==
  /\ MaxPos # 0 => \A s \in Symbols : Abs(Made[s]) <= MaxPos + missed[s]
  /\ MaxOpen # 0 => Cardinality({s \in OpenIn(Made) : missed[s] = 0}) <= MaxOpen
=============================================================================
