------------------------- MODULE PaperAccountProofs -------------------------
(***************************************************************************)
(* The books of PaperAccount hold for any instruments, prices, charges and *)
(* number of orders.  One lemma says what a fill does to a lot; every      *)
(* action either leaves the books alone, fills one order, or starts them   *)
(* anew.  ReconcileAgrees needs lemmas on sums over the instruments: they  *)
(* change as one of their terms does, by induction on the size of the set. *)
(*                                                                         *)
(* The last parts are about Backtest, whose books are sums too: the trades *)
(* read back from the fills explain the equity curve and carry the costs,  *)
(* and the bisection of the exposure cap finds the largest part that fits. *)
(***************************************************************************)
EXTENDS PaperAccount, Backtest, FiniteSetTheorems, SequenceTheorems,
        WellFoundedInduction, TLAPS

\* What FlatIsClean and TypeOK say of one lot.
Clean(i, l) ==
  /\ l.qty = 0 => l.cost = 0 /\ l.blocked = 0
  /\ Holding(i) => l.qty >= l.t1 /\ l.blocked = 0

\* A share of a total is part of it, and the share of all units is all.
LEMMA ProrataShare ==
  ASSUME NEW total \in Nat, NEW part \in Nat, NEW whole \in Nat \ {0},
         part <= whole
  PROVE  /\ Prorata(total, part, whole) \in Nat
         /\ Prorata(total, part, whole) <= total
         /\ part = whole => Prorata(total, part, whole) = total
<1> DEFINE p == Prorata(total, part, whole)
<1>1. total * part \in Nat /\ total * part <= total * whole
  OBVIOUS
<1>2. p \in Int /\ whole * p <= total * part /\ total * part < whole * (p + 1)
  BY <1>1 DEF Prorata
<1>3. p >= 0
  <2>1. SUFFICES ASSUME p + 1 <= 0 PROVE FALSE
    BY <1>2
  <2>2. whole * (p + 1) <= 0
    BY <2>1, <1>2
  <2> QED BY <2>2, <1>1, <1>2
<1>4. p <= total
  <2>1. SUFFICES ASSUME total + 1 <= p PROVE FALSE
    BY <1>2
  <2>2. whole * (total + 1) <= whole * p
    BY <2>1, <1>2
  <2>3. whole * (total + 1) = total * whole + whole
    OBVIOUS
  <2> QED BY <2>2, <2>3, <1>1, <1>2
<1>5. ASSUME part = whole PROVE p = total
  <2>1. SUFFICES ASSUME p + 1 <= total PROVE FALSE
    BY <1>2, <1>4
  <2>2. whole * (p + 1) <= whole * total
    BY <2>1, <1>2
  <2> QED BY <2>2, <1>2, <1>5
<1> QED BY <1>2, <1>3, <1>4, <1>5

LEMMA ValueType ==
  ASSUME NEW i \in Instruments, NEW side \in Sides, NEW v \in Nat
  PROVE  Margin(i, side, v) \in Nat /\ Charges(i, v) \in Nat
<1>1. MarginPct(i, side) \in Nat
  BY DEF MarginPct
<1>2. Kind[i] \in Kinds /\ ChargeBps[Kind[i]] \in Nat
  BY KindAssumption, MoneyAssumption
<1>3. v * MarginPct(i, side) \in Nat /\ v * ChargeBps[Kind[i]] \in Nat
  BY <1>1, <1>2
<1> QED BY <1>3 DEF Margin, Charges

----------------------------------------------------------------------------
\* What Applied returns: see FillsAreSound.
Sound(d, l, i, side, q, px) ==
  /\ d.lot \in Lot /\ d.cash \in Int /\ d.gross \in Int
  /\ d.lot.qty = l.qty + Signed(side, q)
  /\ Clean(i, d.lot)
  /\ d.gross = Basis(d.lot) - Basis(l) - Signed(side, px * q)
  /\ d.cash = IF Holding(i) THEN -Signed(side, px * q)
              ELSE d.gross + l.blocked - d.lot.blocked

LEMMA HoldingSound ==
  ASSUME NEW l \in Lot, NEW i \in Instruments, NEW side \in Sides,
         NEW q \in Nat \ {0}, NEW px \in Nat \ {0}, Clean(i, l), Holding(i),
         side = "SELL" => l.qty >= q
  PROVE  Sound(ApplyHolding(l, side, q, px), l, i, side, q, px)
<1> DEFINE d == ApplyHolding(l, side, q, px)
           v == px * q
<1>1. v \in Nat
  OBVIOUS
<1>2. l.qty \in Int /\ l.cost \in Nat /\ l.t1 \in Nat /\ l.blocked = 0 /\ l.qty >= l.t1
  BY DEF Lot, Clean
<1>3. CASE side = "BUY"
  <2>1. d = Bought(l, q, v)
    BY <1>3 DEF ApplyHolding
  <2> HIDE DEF d
  <2>2. /\ d.lot = [qty |-> l.qty + q, cost |-> l.cost + v,
                    blocked |-> l.blocked, t1 |-> l.t1 + q]
        /\ d.cash = -v /\ d.gross = 0
    BY <2>1 DEF Bought, Lot
  <2>3. l.qty = 0 => l.cost = 0
    BY DEF Clean
  <2>4. Sound(d, l, i, side, q, px)
    BY <1>1, <1>2, <1>3, <2>2, <2>3 DEF Sound, Signed, Basis, Clean, Lot
  <2> QED BY <2>4 DEF d
<1>4. CASE side = "SELL"
  <2>1. d = Delivered(l, q, v)
    BY <1>4 DEF ApplyHolding
  <2> HIDE DEF d
  <2> DEFINE out == Prorata(l.cost, q, l.qty)
  <2>2. l.qty \in Nat \ {0} /\ q <= l.qty
    BY <1>2, <1>4
  <2>3. out \in Nat /\ out <= l.cost /\ (q = l.qty => out = l.cost)
    BY <1>2, <2>2, ProrataShare
  <2>4. PICK t1 \in Nat : /\ t1 = Smaller(l.t1, l.qty - q)
                          /\ t1 <= l.qty - q
    <3>1. Smaller(l.t1, l.qty - q) \in Nat
          /\ Smaller(l.t1, l.qty - q) <= l.qty - q
      BY <1>2, <2>2 DEF Smaller
    <3> QED BY <3>1
  <2>5. /\ d.lot = [qty |-> l.qty - q, cost |-> l.cost - out,
                    blocked |-> l.blocked, t1 |-> t1]
        /\ d.cash = v /\ d.gross = v - out
    BY <2>1, <2>4 DEF Delivered, Lot
  <2> HIDE DEF out
  <2>6. Sound(d, l, i, side, q, px)
    BY <1>1, <1>2, <1>4, <2>2, <2>3, <2>4, <2>5
       DEF Sound, Signed, Basis, Clean, Lot
  <2> QED BY <2>6 DEF d
<1> QED BY <1>3, <1>4 DEF Sides

LEMMA OpenedSound ==
  ASSUME NEW l \in Lot, NEW i \in Instruments, NEW side \in Sides,
         NEW q \in Nat \ {0}, NEW px \in Nat \ {0}, Clean(i, l), ~Holding(i),
         SameSide(l, side)
  PROVE  Sound(Opened(l, i, side, q, px), l, i, side, q, px)
<1> DEFINE d == Opened(l, i, side, q, px)
           v == px * q
           m == Margin(i, side, v)
<1>1. v \in Nat /\ m \in Nat
  BY ValueType
<1>2. l.qty \in Int /\ l.cost \in Nat /\ l.t1 \in Nat /\ l.blocked \in Nat
  BY DEF Lot
<1>3. /\ d.lot = [qty |-> l.qty + Signed(side, q), cost |-> l.cost + v,
                  blocked |-> l.blocked + m, t1 |-> l.t1]
      /\ d.cash = -m /\ d.gross = 0
  BY DEF Opened, Lot
<1> HIDE DEF d, m
<1>4. d.lot.qty # 0 /\ Basis(d.lot) = Basis(l) + Signed(side, v)
  <2>1. CASE side = "BUY"
    <3>1. l.qty >= 0 /\ d.lot.qty = l.qty + q /\ d.lot.cost = l.cost + v
      BY <1>2, <1>3, <2>1 DEF SameSide, Signed
    <3>2. Basis(l) = l.cost /\ Basis(d.lot) = d.lot.cost /\ d.lot.qty # 0
      BY <3>1, <1>2 DEF Basis
    <3> QED BY <3>1, <3>2, <2>1 DEF Signed
  <2>2. CASE side = "SELL"
    <3>1. l.qty <= 0 /\ d.lot.qty = l.qty - q /\ d.lot.cost = l.cost + v
      BY <1>2, <1>3, <2>2 DEF SameSide, Signed
    <3>2. Basis(d.lot) = -(l.cost + v) /\ d.lot.qty # 0
      BY <3>1, <1>2 DEF Basis
    <3>4. Basis(l) = -l.cost \/ (Basis(l) = 0 /\ l.cost = 0)
      BY <3>1, <1>2 DEF Basis, Clean
    <3>3. Signed(side, v) = -v
      BY <2>2 DEF Signed
    <3> QED BY <3>1, <3>2, <3>3, <3>4, <1>1, <1>2
  <2> QED BY <2>1, <2>2 DEF Sides
<1>5. d.lot \in Lot
  BY <1>1, <1>2, <1>3 DEF Lot, Signed
<1>6. Sound(d, l, i, side, q, px)
  <2>1. d.gross = Basis(d.lot) - Basis(l) - Signed(side, px * q)
    BY <1>1, <1>2, <1>3, <1>4, <1>5 DEF Signed, Basis, Lot
  <2>2. d.cash = d.gross + l.blocked - d.lot.blocked
    BY <1>1, <1>2, <1>3
  <2> QED BY <1>1, <1>3, <1>4, <1>5, <2>1, <2>2 DEF Sound, Clean
<1> QED BY <1>6 DEF d

LEMMA ReducedSound ==
  ASSUME NEW l \in Lot, NEW i \in Instruments, NEW side \in Sides,
         NEW q \in Nat \ {0}, NEW px \in Nat \ {0}, Clean(i, l), ~Holding(i),
         ~SameSide(l, side), q <= Abs(l.qty)
  PROVE  /\ Sound(Reduced(l, side, q, px), l, i, side, q, px)
         /\ q = Abs(l.qty) => SameSide(Reduced(l, side, q, px).lot, side)
<1> DEFINE d   == Reduced(l, side, q, px)
           v   == px * q
           out == Prorata(l.cost, q, Abs(l.qty))
           rel == Prorata(l.blocked, q, Abs(l.qty))
<1>1. l.qty \in Int /\ l.cost \in Nat /\ l.t1 \in Nat /\ l.blocked \in Nat
  BY DEF Lot
<1>2. l.qty # 0 /\ Abs(l.qty) \in Nat \ {0}
  BY <1>1 DEF SameSide, Abs
<1>3. /\ out \in Nat /\ out <= l.cost /\ (q = Abs(l.qty) => out = l.cost)
      /\ rel \in Nat /\ rel <= l.blocked /\ (q = Abs(l.qty) => rel = l.blocked)
  BY <1>1, <1>2, ProrataShare
<1>4. v \in Nat /\ q * px = v
  OBVIOUS
<1>5. /\ d.lot = [qty |-> l.qty + Signed(side, q), cost |-> l.cost - out,
                  blocked |-> l.blocked - rel, t1 |-> l.t1]
      /\ d.gross = IF l.qty > 0 THEN q * px - out ELSE out - q * px
      /\ d.cash = rel + d.gross
  BY DEF Reduced, Lot
<1> HIDE DEF d, out, rel
<1>6. CASE l.qty > 0
  <2>1. side = "SELL" /\ Abs(l.qty) = l.qty
    BY <1>1, <1>6 DEF SameSide, Sides, Abs
  <2>2. d.lot.qty = l.qty - q /\ d.lot.qty >= 0 /\ d.lot.cost = l.cost - out
    BY <1>1, <1>5, <2>1 DEF Signed
  <2>3. /\ Basis(l) = l.cost /\ Basis(d.lot) = l.cost - out
        /\ Signed(side, px * q) = -v
    BY <1>1, <1>5, <1>6, <2>1, <2>2 DEF Basis, Signed
  <2>4. d.gross = Basis(d.lot) - Basis(l) - Signed(side, px * q)
    BY <1>1, <1>3, <1>4, <1>5, <1>6, <2>3
  <2>5. d.lot \in Lot /\ d.cash = d.gross + l.blocked - d.lot.blocked
    BY <1>1, <1>3, <1>4, <1>5, <1>6, <2>1 DEF Lot, Signed
  <2>6. Clean(i, d.lot) /\ d.gross \in Int /\ d.cash \in Int
    BY <1>1, <1>3, <1>4, <1>5, <1>6, <2>1, <2>2 DEF Clean
  <2>7. Sound(d, l, i, side, q, px)
    BY <1>5, <2>4, <2>5, <2>6 DEF Sound
  <2>8. q = Abs(l.qty) => SameSide(d.lot, side)
    BY <1>1, <1>5, <2>1 DEF SameSide, Signed
  <2> QED BY <2>7, <2>8 DEF d
<1>7. CASE l.qty < 0
  <2>1. side = "BUY" /\ Abs(l.qty) = -l.qty
    BY <1>1, <1>7 DEF SameSide, Sides, Abs
  <2>2. d.lot.qty = l.qty + q /\ d.lot.qty <= 0 /\ d.lot.cost = l.cost - out
    BY <1>1, <1>5, <2>1 DEF Signed
  <2>3. Basis(l) = -l.cost /\ Signed(side, px * q) = v
    BY <1>1, <1>7, <2>1 DEF Basis, Signed
  <2>4. Basis(d.lot) = out - l.cost
    <3>1. CASE d.lot.qty = 0
      <4>1. q = Abs(l.qty)
        BY <1>1, <2>1, <2>2, <3>1
      <4> QED BY <1>1, <1>3, <2>2, <3>1, <4>1 DEF Basis
    <3>2. CASE d.lot.qty # 0
      BY <1>1, <1>3, <2>2, <3>2 DEF Basis
    <3> QED BY <3>1, <3>2
  <2>5. d.gross = Basis(d.lot) - Basis(l) - Signed(side, px * q)
    BY <1>1, <1>3, <1>4, <1>5, <1>7, <2>2, <2>3, <2>4
  <2>6. d.lot \in Lot /\ d.cash = d.gross + l.blocked - d.lot.blocked
    BY <1>1, <1>3, <1>4, <1>5, <1>7, <2>1 DEF Lot, Signed
  <2>7. Clean(i, d.lot) /\ d.gross \in Int /\ d.cash \in Int
    BY <1>1, <1>3, <1>4, <1>5, <1>7, <2>1, <2>2 DEF Clean
  <2>8. Sound(d, l, i, side, q, px)
    BY <1>5, <2>5, <2>6, <2>7 DEF Sound
  <2>9. q = Abs(l.qty) => SameSide(d.lot, side)
    BY <1>1, <1>5, <2>1 DEF SameSide, Signed
  <2> QED BY <2>8, <2>9 DEF d
<1> QED BY <1>1, <1>2, <1>6, <1>7

\* A flip is a close and an opening.
LEMMA FlippedSound ==
  ASSUME NEW l \in Lot, NEW i \in Instruments, NEW side \in Sides,
         NEW q \in Nat \ {0}, NEW px \in Nat \ {0}, Clean(i, l), ~Holding(i),
         ~SameSide(l, side), q > Abs(l.qty)
  PROVE  Sound(Flipped(l, i, side, q, px), l, i, side, q, px)
<1> DEFINE n == Abs(l.qty)
           c == Reduced(l, side, n, px)
           r == Opened(c.lot, i, side, q - n, px)
           d == Flipped(l, i, side, q, px)
<1>1. n \in Nat \ {0} /\ q - n \in Nat \ {0}
  BY DEF Abs, Lot, SameSide
<1> HIDE DEF n
<1>2. Sound(c, l, i, side, n, px) /\ SameSide(c.lot, side)
  BY <1>1, ReducedSound DEF n
<1> HIDE DEF c
<1>3. Sound(r, c.lot, i, side, q - n, px)
  <2>1. c.lot \in Lot /\ Clean(i, c.lot)
    BY <1>2 DEF Sound
  <2> QED BY <1>1, <1>2, <2>1, OpenedSound
<1>4. d = [lot |-> r.lot, cash |-> c.cash + r.cash, gross |-> c.gross]
  BY DEF Flipped, r, c, n
<1>5. r.gross = 0
  BY DEF r, Opened
<1> HIDE DEF d, r
<1>6. /\ Signed(side, q) = Signed(side, n) + Signed(side, q - n)
      /\ Signed(side, px * q) = Signed(side, px * n) + Signed(side, px * (q - n))
      /\ {Signed(side, px * q), Signed(side, px * n), Signed(side, px * (q - n)),
          Signed(side, q), Signed(side, n), Signed(side, q - n)} \subseteq Int
  <2>1. px * q = px * n + px * (q - n) /\ px * n \in Nat /\ px * (q - n) \in Nat
    BY <1>1
  <2> QED BY <1>1, <2>1 DEF Signed
<1>7. /\ Basis(l) \in Int /\ Basis(c.lot) \in Int /\ Basis(d.lot) \in Int
      /\ l.qty \in Int /\ c.lot.qty \in Int /\ c.lot.blocked \in Nat
      /\ l.blocked \in Nat /\ d.lot.blocked \in Nat
  BY <1>2, <1>3, <1>4 DEF Sound, Lot, Basis
<1>8. /\ c.lot.qty = l.qty + Signed(side, n)
      /\ r.lot.qty = c.lot.qty + Signed(side, q - n)
      /\ c.gross = Basis(c.lot) - Basis(l) - Signed(side, px * n)
      /\ r.gross = Basis(r.lot) - Basis(c.lot) - Signed(side, px * (q - n))
      /\ c.cash = c.gross + l.blocked - c.lot.blocked
      /\ r.cash = r.gross + c.lot.blocked - r.lot.blocked
      /\ c.cash \in Int /\ r.cash \in Int /\ c.gross \in Int
      /\ r.lot \in Lot /\ Clean(i, r.lot)
  BY <1>2, <1>3 DEF Sound
<1>9. /\ d.lot = r.lot /\ d.cash = c.cash + r.cash /\ d.gross = c.gross
  BY <1>4
<1>10. d.lot.qty = l.qty + Signed(side, q)
  BY <1>6, <1>7, <1>8, <1>9
<1>11. d.gross = Basis(d.lot) - Basis(l) - Signed(side, px * q)
  <2>1. 0 = Basis(d.lot) - Basis(c.lot) - Signed(side, px * (q - n))
    BY <1>5, <1>8, <1>9
  <2> QED BY <1>6, <1>7, <1>8, <1>9, <2>1
<1>12. d.cash = d.gross + l.blocked - d.lot.blocked
  BY <1>5, <1>7, <1>8, <1>9
<1> QED BY <1>8, <1>9, <1>10, <1>11, <1>12 DEF Sound, d

\* What a fill does to a lot: the lot stays clean, its change is the signed
\* quantity, the profit is the change of its basis less the money it took,
\* and the cash is that money, or the profit and the margin released.
LEMMA FillsAreSound ==
  ASSUME NEW l \in Lot, NEW i \in Instruments, NEW side \in Sides,
         NEW q \in Nat \ {0}, NEW px \in Nat \ {0}, Clean(i, l),
         Holding(i) /\ side = "SELL" => l.qty >= q
  PROVE  Sound(Applied(l, i, side, q, px), l, i, side, q, px)
<1>1. CASE Holding(i)
  BY <1>1, HoldingSound DEF Applied
<1>2. CASE ~Holding(i) /\ SameSide(l, side)
  BY <1>2, OpenedSound DEF Applied, ApplyPosition
<1>3. CASE ~Holding(i) /\ ~SameSide(l, side) /\ q <= Abs(l.qty)
  BY <1>3, ReducedSound DEF Applied, ApplyPosition
<1>4. CASE ~Holding(i) /\ ~SameSide(l, side) /\ ~(q <= Abs(l.qty))
  <2>1. Abs(l.qty) \in Int
    BY DEF Lot, Abs
  <2> QED BY <1>4, <2>1, FlippedSound DEF Applied, ApplyPosition
<1> QED BY <1>1, <1>2, <1>3, <1>4

----------------------------------------------------------------------------
Trades == [bought : Nat, sold : Nat, paid : Nat, got : Nat,
           charges : Nat, realized : Int]

\* The invariant: what the books say, and what an order row may hold.
BooksOK ==
  /\ acct \in [cash : Int, realized : Int, charges : Nat]
  /\ lots \in [Instruments -> Lot]
  /\ \A i \in Instruments : Clean(i, lots[i])
  /\ ledger \in [Instruments -> Int]
  /\ log \in [Instruments -> Trades]
  /\ PnlExplained
  /\ LedgerExplained
OrdersOK == orders \in [Ids -> Order \cup {NoOrder}]
CycleOK ==
  /\ cycle \in [todo : SUBSET Ids,
                quote : [Instruments -> Prices \cup {None}]]
  /\ \A id \in cycle.todo : orders[id].status = "OPEN"
IInv == BooksOK /\ OrdersOK /\ CycleOK /\ funds \in Int

\* What Tally returns.
Tallied(u, t, side, q, v, fee, net) ==
  /\ u \in Trades
  /\ u.charges = t.charges + fee /\ u.realized = t.realized + net
  /\ u.bought - u.sold = t.bought - t.sold + Signed(side, q)
  /\ u.got - u.paid = t.got - t.paid - Signed(side, v)

LEMMA TallySound ==
  ASSUME NEW t \in Trades, NEW side \in Sides, NEW q \in Nat, NEW v \in Nat,
         NEW fee \in Nat, NEW net \in Int
  PROVE  Tallied(Tally(t, side, q, v, fee, net), t, side, q, v, fee, net)
<1> DEFINE u == Tally(t, side, q, v, fee, net)
<1>1. /\ t.bought \in Nat /\ t.sold \in Nat /\ t.paid \in Nat /\ t.got \in Nat
      /\ t.charges \in Nat /\ t.realized \in Int
  BY DEF Trades
<1>2. CASE side = "BUY"
  <2>1. u = [bought |-> t.bought + q, sold |-> t.sold, paid |-> t.paid + v,
             got |-> t.got, charges |-> t.charges + fee,
             realized |-> t.realized + net]
    BY <1>2 DEF Tally, Trades
  <2> HIDE DEF u
  <2>2. u \in Trades
    BY <1>1, <2>1 DEF Trades
  <2>3. /\ u.charges = t.charges + fee /\ u.realized = t.realized + net
        /\ u.bought - u.sold = t.bought - t.sold + Signed(side, q)
        /\ u.got - u.paid = t.got - t.paid - Signed(side, v)
    BY <1>1, <1>2, <2>1 DEF Signed
  <2> QED BY <2>2, <2>3 DEF u, Tallied
<1>3. CASE side = "SELL"
  <2>1. u = [bought |-> t.bought, sold |-> t.sold + q, paid |-> t.paid,
             got |-> t.got + v, charges |-> t.charges + fee,
             realized |-> t.realized + net]
    BY <1>3 DEF Tally, Trades
  <2> HIDE DEF u
  <2>2. u \in Trades
    BY <1>1, <2>1 DEF Trades
  <2>3. /\ u.charges = t.charges + fee /\ u.realized = t.realized + net
        /\ u.bought - u.sold = t.bought - t.sold + Signed(side, q)
        /\ u.got - u.paid = t.got - t.paid - Signed(side, v)
    BY <1>1, <1>3, <2>1 DEF Signed
  <2> QED BY <2>2, <2>3 DEF u, Tallied
<1> QED BY <1>2, <1>3 DEF Sides

LEMMA FillKeepsBooks ==
  ASSUME BooksOK, NEW o \in Requests, NEW px \in Nat \ {0},
         HasInventory(o), Fill(o, px)
  PROVE  BooksOK'
<1> DEFINE i == o.ins
           q == o.qty
           v == px * q
           fee == Charges(i, v)
           d == Applied(lots[i], i, o.side, q, px)
           T == Trades
<1>1. i \in Instruments /\ o.side \in Sides /\ q \in Nat \ {0} /\ v \in Nat
  BY DEF Requests
<1>2. fee \in Nat
  BY <1>1, ValueType
<1>3. Sound(d, lots[i], i, o.side, q, px)
  <2>1. lots[i] \in Lot /\ Clean(i, lots[i])
    BY <1>1 DEF BooksOK
  <2>2. Holding(i) /\ o.side = "SELL" => lots[i].qty >= q
    BY DEF HasInventory
  <2> QED BY <1>1, <2>1, <2>2, FillsAreSound
<1>4. /\ lots' = [lots EXCEPT ![i] = d.lot]
      /\ ledger' = [ledger EXCEPT ![i] = @ + d.cash - fee]
      /\ acct' = [cash |-> acct.cash + d.cash - fee,
                  realized |-> acct.realized + (d.gross - fee),
                  charges |-> acct.charges + fee]
      /\ log' = [log EXCEPT ![i] = Tally(@, o.side, q, v, fee, d.gross - fee)]
  BY DEF Fill
<1> HIDE DEF d, fee
<1>5. /\ d.lot \in Lot /\ d.cash \in Int /\ d.gross \in Int /\ Clean(i, d.lot)
      /\ lots[i] \in Lot /\ ledger[i] \in Int /\ log[i] \in T
  BY <1>1, <1>3 DEF Sound, BooksOK
<1>6. log'[i] \in T
      /\ log'[i].charges = log[i].charges + fee
      /\ log'[i].realized = log[i].realized + (d.gross - fee)
      /\ log'[i].bought - log'[i].sold = log[i].bought - log[i].sold + Signed(o.side, q)
      /\ log'[i].got - log'[i].paid = log[i].got - log[i].paid - Signed(o.side, v)
  <2>1. log'[i] = Tally(log[i], o.side, q, v, fee, d.gross - fee)
    BY <1>1, <1>4 DEF BooksOK
  <2> DEFINE t   == log[i]
             net == d.gross - fee
             u   == Tally(t, o.side, q, v, fee, net)
  <2>2. t \in Trades /\ q \in Nat /\ v \in Nat /\ fee \in Nat /\ net \in Int
    BY <1>1, <1>2, <1>5
  <2>3. Tallied(u, t, o.side, q, v, fee, net)
    <3> HIDE DEF t, net, q, v
    <3> QED BY <1>1, <2>2, TallySound
  <2> HIDE DEF u
  <2> QED BY <2>1, <2>3 DEF u, Tallied
<1>7. /\ lots'[i] = d.lot /\ ledger'[i] = ledger[i] + d.cash - fee
      /\ \A j \in Instruments \ {i} :
           lots'[j] = lots[j] /\ ledger'[j] = ledger[j] /\ log'[j] = log[j]
  BY <1>1, <1>4 DEF BooksOK
<1>8. /\ lots' \in [Instruments -> Lot] /\ ledger' \in [Instruments -> Int]
      /\ log' \in [Instruments -> T]
      /\ \A j \in Instruments : Clean(j, lots'[j])
  <2>1. \A j \in Instruments : /\ lots'[j] \in Lot /\ Clean(j, lots'[j])
                               /\ ledger'[j] \in Int /\ log'[j] \in T
    BY <1>2, <1>5, <1>6, <1>7 DEF BooksOK
  <2> QED BY <1>1, <1>4, <2>1 DEF BooksOK
<1>9. acct' \in [cash : Int, realized : Int, charges : Nat]
  BY <1>2, <1>4, <1>5 DEF BooksOK
<1>10. PnlExplained'
  <2> SUFFICES ASSUME NEW j \in Instruments
               PROVE  /\ lots'[j].qty = log'[j].bought - log'[j].sold
                      /\ log'[j].realized + log'[j].charges
                           = log'[j].got - log'[j].paid + Basis(lots'[j])
    BY DEF PnlExplained, Basis
  <2>1. CASE j # i
    BY <1>7, <2>1 DEF BooksOK, PnlExplained
  <2>2. CASE j = i
    <3>1. /\ lots[i].qty = log[i].bought - log[i].sold
          /\ log[i].realized + log[i].charges
               = log[i].got - log[i].paid + Basis(lots[i])
      BY <1>1 DEF BooksOK, PnlExplained
    <3>2. /\ d.lot.qty = lots[i].qty + Signed(o.side, q)
          /\ d.gross = Basis(d.lot) - Basis(lots[i]) - Signed(o.side, v)
      BY <1>3 DEF Sound
    <3>3. /\ Basis(d.lot) \in Int /\ Basis(lots[i]) \in Int
          /\ Signed(o.side, v) \in Int /\ Signed(o.side, q) \in Int
          /\ log[i].got - log[i].paid \in Int /\ log[i].bought - log[i].sold \in Int
      BY <1>1, <1>5 DEF Basis, Lot, Signed, Trades
    <3>4. lots'[j] = d.lot /\ d.lot.qty = log'[i].bought - log'[i].sold
      BY <1>6, <1>7, <2>2, <3>1, <3>2, <3>3
    <3>5. log[i].realized \in Int /\ log[i].charges \in Nat
      BY <1>5 DEF Trades
    <3>6. log'[i].realized + log'[i].charges
            = log'[i].got - log'[i].paid + Basis(d.lot)
      <4>1. log'[i].realized + log'[i].charges
              = log[i].realized + log[i].charges + d.gross
        BY <1>2, <1>5, <1>6, <3>5
      <4>2. log'[i].got - log'[i].paid = log[i].got - log[i].paid - Signed(o.side, v)
        BY <1>6
      <4> HIDE DEF i, v
      <4> QED BY <4>1, <4>2, <1>5, <3>1, <3>2, <3>3
    <3> QED BY <2>2, <3>4, <3>6
  <2> QED BY <2>1, <2>2
<1>11. LedgerExplained'
  <2> SUFFICES ASSUME NEW j \in Instruments
               PROVE  ledger'[j] = IF Holding(j)
                        THEN log'[j].got - log'[j].paid - log'[j].charges
                        ELSE log'[j].realized - lots'[j].blocked
    BY DEF LedgerExplained, TradeCash, Holding
  <2>1. CASE j # i
    BY <1>7, <2>1 DEF BooksOK, LedgerExplained, TradeCash
  <2>2. CASE j = i
    <3>1. ledger[i] = IF Holding(i) THEN log[i].got - log[i].paid - log[i].charges
                      ELSE log[i].realized - lots[i].blocked
      BY <1>1 DEF BooksOK, LedgerExplained, TradeCash
    <3>2. d.cash = IF Holding(i) THEN -Signed(o.side, v)
                   ELSE d.gross + lots[i].blocked - d.lot.blocked
      BY <1>3 DEF Sound
    <3>3. /\ Signed(o.side, v) \in Int /\ log[i].got - log[i].paid \in Int
          /\ lots[i].blocked \in Nat /\ d.lot.blocked \in Nat
          /\ log[i].charges \in Nat /\ log[i].realized \in Int
      BY <1>1, <1>5 DEF Lot, Signed, Trades
    <3> QED BY <1>2, <1>5, <1>6, <1>7, <2>2, <3>1, <3>2, <3>3
  <2> QED BY <2>1, <2>2
<1> QED BY <1>8, <1>9, <1>10, <1>11 DEF BooksOK

LEMMA BooksKept ==
  ASSUME BooksOK, UNCHANGED books
  PROVE  BooksOK'
BY DEF books, BooksOK, PnlExplained, LedgerExplained, TradeCash, Clean, Holding, Basis

LEMMA FreshBooks ==
  ASSUME NEW ob \in Openings
  PROVE  /\ acct' = Fresh(ob) /\ lots' = [i \in Instruments |-> NoLot]
           /\ ledger' = [i \in Instruments |-> 0]
           /\ log' = [i \in Instruments |-> NoTrade] => BooksOK'
         /\ acct = Fresh(ob) /\ lots = [i \in Instruments |-> NoLot]
           /\ ledger = [i \in Instruments |-> 0]
           /\ log = [i \in Instruments |-> NoTrade] => BooksOK
<1>1. Fresh(ob) \in [cash : Int, realized : Int, charges : Nat]
  BY MoneyAssumption DEF Fresh
<1>2. NoLot \in Lot /\ NoTrade \in Trades
  BY DEF NoLot, Lot, NoTrade, Trades
<1>3. \A i \in Instruments : Clean(i, NoLot)
  BY DEF Clean, NoLot
<1>4. Basis(NoLot) = 0 /\ NoLot.qty = 0 /\ NoLot.blocked = 0
  BY DEF Basis, NoLot
<1>5. /\ NoTrade.bought - NoTrade.sold = 0 /\ NoTrade.realized + NoTrade.charges = 0
      /\ NoTrade.got - NoTrade.paid = 0
      /\ NoTrade.got - NoTrade.paid - NoTrade.charges = 0
      /\ NoTrade.realized - 0 = 0 /\ 0 + 0 = 0
  BY DEF NoTrade
<1>6. ASSUME acct' = Fresh(ob), lots' = [i \in Instruments |-> NoLot],
             ledger' = [i \in Instruments |-> 0],
             log' = [i \in Instruments |-> NoTrade]
      PROVE  BooksOK'
  BY <1>1, <1>2, <1>3, <1>4, <1>5, <1>6
     DEF BooksOK, PnlExplained, LedgerExplained, TradeCash, Clean, Holding, Basis
<1>7. ASSUME acct = Fresh(ob), lots = [i \in Instruments |-> NoLot],
             ledger = [i \in Instruments |-> 0],
             log = [i \in Instruments |-> NoTrade]
      PROVE  BooksOK
  BY <1>1, <1>2, <1>3, <1>4, <1>5, <1>7
     DEF BooksOK, PnlExplained, LedgerExplained, TradeCash, Clean, Holding, Basis
<1> QED BY <1>6, <1>7

LEMMA RowType ==
  ASSUME NEW o \in Requests, NEW st \in Statuses
  PROVE  Row(o, st) \in Order
BY DEF Row, Order

\* An order settles: its row says how, and the books take it or stay.
LEMMA TryFillKeeps ==
  ASSUME BooksOK, OrdersOK, NEW id \in Ids, NEW o \in Requests,
         NEW px \in Nat \ {0}, TryFill(id, o, px)
  PROVE  /\ BooksOK' /\ OrdersOK'
         /\ \A other \in Ids \ {id} : orders'[other] = orders[other]
<1>1. CASE Affordable(o, px) /\ HasInventory(o)
  <2>1. BooksOK'
    BY <1>1, FillKeepsBooks DEF TryFill
  <2>2. orders' = [orders EXCEPT ![id] = Row(o, "COMPLETE")]
    BY <1>1 DEF TryFill
  <2>3. Row(o, "COMPLETE") \in Order
    BY RowType DEF Statuses
  <2> QED BY <2>1, <2>2, <2>3 DEF OrdersOK
<1>2. CASE ~(Affordable(o, px) /\ HasInventory(o))
  <2>1. BooksOK'
    BY <1>2, BooksKept DEF TryFill
  <2>2. orders' = [orders EXCEPT ![id] = Row(o, "REJECTED")]
    BY <1>2 DEF TryFill
  <2>3. Row(o, "REJECTED") \in Order
    BY RowType DEF Statuses
  <2> QED BY <2>1, <2>2, <2>3 DEF OrdersOK
<1> QED BY <1>1, <1>2

\* Between cycles nothing is left to look at.
LEMMA QuietCycle ==
  ASSUME Quiet, cycle' = cycle
  PROVE  CycleOK'
<1>1. cycle' = Idle
  BY DEF Quiet
<1>2. Idle.todo = {} /\ Idle \in [todo : SUBSET Ids, quote : [Instruments -> Prices \cup {None}]]
  BY DEF Idle, NoQuotes
<1> QED BY <1>1, <1>2 DEF CycleOK

LEMMA SubmitKeeps ==
  ASSUME IInv, Quiet, NEW id \in Ids, NEW o \in Requests,
         NEW ltp \in Prices \cup {None}, Submit(id, o, ltp)
  PROVE  IInv'
<1>1. CycleOK' /\ funds' \in Int
  BY QuietCycle DEF Submit, IInv
<1>2. CASE o.type = "MARKET" /\ ltp # None
  <2>1. TryFill(id, o, ltp) /\ ltp \in Nat \ {0}
    BY <1>2, OrderAssumption DEF Submit
  <2> QED BY <1>1, <2>1, TryFillKeeps DEF IInv
<1>3. CASE ~(o.type = "MARKET" /\ ltp # None)
  <2>1. UNCHANGED books
        /\ \E st \in Statuses : orders' = [orders EXCEPT ![id] = Row(o, st)]
    BY <1>3 DEF Submit, Statuses
  <2>2. PICK st \in Statuses : orders' = [orders EXCEPT ![id] = Row(o, st)]
    BY <2>1
  <2>3. OrdersOK'
    BY <2>2, RowType DEF OrdersOK, IInv
  <2> QED BY <1>1, <2>1, <2>3, BooksKept DEF IInv
<1> QED BY <1>2, <1>3

LEMMA ClosingType ==
  ASSUME BooksOK, NEW i \in Instruments, lots[i].qty # 0
  PROVE  Closing(i) \in Requests
<1>1. lots[i].qty \in Int
  BY DEF BooksOK, Lot
<1>2. Abs(lots[i].qty) \in Nat \ {0}
  BY <1>1 DEF Abs
<1> QED BY <1>2 DEF Closing, Requests, Sides, Types, None

LEMMA OpenRow ==
  ASSUME OrdersOK, NEW id \in Ids, orders[id].status \in Statuses
  PROVE  orders[id] \in Order /\ orders[id].req \in Requests
BY DEF OrdersOK, NoOrder, Order, Statuses

----------------------------------------------------------------------------
LEMMA InitIInv == Init => IInv
<1> SUFFICES ASSUME Init PROVE IInv
  OBVIOUS
<1>1. PICK ob \in Openings : acct = Fresh(ob) /\ funds = ob
  BY DEF Init
<1>2. BooksOK
  BY <1>1, FreshBooks DEF Init
<1>3. funds \in Int
  BY <1>1, MoneyAssumption
<1>4. CycleOK /\ OrdersOK
  BY DEF Init, CycleOK, OrdersOK, Idle, NoQuotes
<1> QED BY <1>2, <1>3, <1>4 DEF IInv

LEMMA NextIInv == IInv /\ [Next]_vars => IInv'
<1> SUFFICES ASSUME IInv, [Next]_vars PROVE IInv'
  OBVIOUS
<1>1. ASSUME NEW id \in Ids, Place(id) PROVE IInv'
  BY <1>1, SubmitKeeps, OrderAssumption DEF Place
<1>2. ASSUME NEW id \in Ids, Cancel(id) PROVE IInv'
  <2>1. BooksOK' /\ CycleOK' /\ funds' \in Int
    BY <1>2, BooksKept, QuietCycle DEF Cancel, IInv
  <2>2. orders[id] \in Order
    BY <1>2, OpenRow DEF Cancel, IInv, Statuses
  <2>3. orders' = [orders EXCEPT ![id] = [@ EXCEPT !.status = "CANCELLED"]]
    BY <1>2 DEF Cancel
  <2>4. [orders[id] EXCEPT !.status = "CANCELLED"] \in Order
    BY <2>2 DEF Order, Statuses
  <2>5. OrdersOK'
    BY <2>3, <2>4 DEF OrdersOK, IInv
  <2> QED BY <2>1, <2>5 DEF IInv
<1>3. ASSUME NEW id \in Ids, Modify(id) PROVE IInv'
  <2>1. BooksOK' /\ CycleOK' /\ funds' \in Int
    BY <1>3, BooksKept, QuietCycle DEF Modify, IInv
  <2>2. orders[id] \in Order
    BY <1>3, OpenRow DEF Modify, IInv, Statuses
  <2>3. PICK o \in Asked : orders' = [orders EXCEPT ![id] = [@ EXCEPT !.req = o]]
    BY <1>3 DEF Modify
  <2>4. [orders[id] EXCEPT !.req = o] \in Order
    BY <2>2, OrderAssumption DEF Order
  <2>5. OrdersOK'
    BY <2>3, <2>4 DEF OrdersOK, IInv
  <2> QED BY <2>1, <2>5 DEF IInv
<1>4. ASSUME NEW id \in Ids, Exit(id) PROVE IInv'
  <2>1. PICK i \in Instruments, ltp \in Prices \cup {None} : ExitPosition(id, i, ltp)
    BY <1>4 DEF Exit
  <2>2. Closing(i) \in Requests
    BY <2>1, ClosingType DEF ExitPosition, IInv
  <2> QED BY <2>1, <2>2, SubmitKeeps DEF ExitPosition
<1>5. ASSUME NEW id \in Ids, CycleFill(id) PROVE IInv'
  <2> DEFINE o    == orders[id].req
             px   == PriceFor(o, cycle.quote[o.ins])
             rest == cycle.todo \ {id}
  <2>1. /\ cycle.todo \subseteq Ids /\ id \in cycle.todo
        /\ cycle.quote \in [Instruments -> Prices \cup {None}]
        /\ orders[id].status = "OPEN"
    BY <1>5 DEF CycleFill, IInv, CycleOK
  <2>2. o \in Requests
    BY <2>1, OpenRow DEF IInv, Statuses
  <2>3. /\ BooksOK' /\ OrdersOK'
        /\ \A other \in Ids \ {id} : orders'[other] = orders[other]
    <3>1. CASE cycle.quote[o.ins] # None /\ px # None
      <4>1. o.ins \in Instruments /\ o.price \in Nat
        BY <2>2 DEF Requests
      <4>2. cycle.quote[o.ins] \in Nat
        <5>1. cycle.quote[o.ins] \in Prices \cup {None}
          BY <2>1, <4>1
        <5>2. Prices \subseteq Nat /\ None \in Nat
          BY OrderAssumption DEF None
        <5> HIDE DEF o
        <5> QED BY <5>1, <5>2
      <4>3. px \in Nat \ {0}
        BY <3>1, <4>1, <4>2 DEF PriceFor, None
      <4>4. TryFill(id, o, px)
        BY <1>5, <3>1 DEF CycleFill
      <4> HIDE DEF o, px
      <4> QED BY <2>2, <4>3, <4>4, TryFillKeeps DEF IInv
    <3>2. CASE ~(cycle.quote[o.ins] # None /\ px # None)
      <4>1. UNCHANGED <<books, orders>>
        BY <1>5, <3>2 DEF CycleFill
      <4> QED BY <4>1, BooksKept DEF IInv, OrdersOK
    <3> QED BY <3>1, <3>2
  <2>4. CycleOK'
    <3>1. CASE rest = {}
      <4>1. cycle' = Idle
        BY <1>5, <3>1 DEF CycleFill
      <4> QED BY <4>1 DEF CycleOK, Idle, NoQuotes
    <3>2. CASE rest # {}
      <4>1. cycle' = [cycle EXCEPT !.todo = rest]
        BY <1>5, <3>2 DEF CycleFill
      <4>2. cycle' \in [todo : SUBSET Ids, quote : [Instruments -> Prices \cup {None}]]
            /\ cycle'.todo = rest
        BY <2>1, <4>1 DEF IInv, CycleOK
      <4> QED BY <2>1, <2>3, <4>2 DEF IInv, CycleOK
    <3> QED BY <3>1, <3>2
  <2> QED BY <1>5, <2>3, <2>4 DEF CycleFill, IInv
<1>6. ASSUME NEW id \in Ids, NEW old \in Ids, Retry(old, id) PROVE IInv'
  <2>1. orders[old].req \in Requests
    BY <1>6, OpenRow DEF Retry, IInv, Statuses
  <2> QED BY <1>6, <2>1, SubmitKeeps DEF Retry
<1>7. ASSUME NEW a \in Deposits, AddFunds(a) PROVE IInv'
  <2>1. a \in Int
    BY MoneyAssumption
  <2>2. acct' \in [cash : Int, realized : Int, charges : Nat] /\ funds' \in Int
    BY <1>7, <2>1 DEF AddFunds, IInv, BooksOK
  <2>3. BooksOK'
    BY <1>7, <2>2 DEF AddFunds, IInv, BooksOK, PnlExplained, LedgerExplained,
                      TradeCash, Clean, Holding, Basis
  <2> QED BY <1>7, <2>2, <2>3, QuietCycle DEF AddFunds, IInv, OrdersOK
<1>8. ASSUME NEW ob \in Openings, Reset(ob) PROVE IInv'
  <2>1. BooksOK'
    BY <1>8, FreshBooks DEF Reset
  <2>2. funds' \in Int /\ OrdersOK' /\ CycleOK'
    BY <1>8, QuietCycle, MoneyAssumption DEF Reset, OrdersOK
  <2> QED BY <2>1, <2>2 DEF IInv
<1>9. ASSUME CycleStart PROVE IInv'
  <2>1. BooksOK' /\ OrdersOK' /\ funds' \in Int
    BY <1>9, BooksKept DEF CycleStart, IInv, OrdersOK
  <2>2. CycleOK'
    BY <1>9 DEF CycleStart, CycleOK
  <2> QED BY <2>1, <2>2 DEF IInv
<1>10. ASSUME EodRoll PROVE IInv'
  <2>1. /\ lots' = [i \in Instruments |-> [lots[i] EXCEPT !.t1 = 0]]
        /\ UNCHANGED <<acct, ledger, log, orders, funds, cycle>> /\ Quiet
    BY <1>10 DEF EodRoll
  <2>2. ASSUME NEW i \in Instruments
        PROVE  /\ lots'[i] \in Lot /\ lots'[i].qty = lots[i].qty
               /\ lots'[i].cost = lots[i].cost /\ lots'[i].blocked = lots[i].blocked
               /\ Clean(i, lots'[i]) /\ Basis(lots'[i]) = Basis(lots[i])
    <3>1. lots[i] \in Lot /\ Clean(i, lots[i])
      BY DEF IInv, BooksOK
    <3>2. lots'[i] = [lots[i] EXCEPT !.t1 = 0]
      BY <2>1
    <3> QED BY <3>1, <3>2 DEF Lot, Clean, Basis
  <2>3. lots' \in [Instruments -> Lot]
    BY <2>1, <2>2
  <2>4. PnlExplained' /\ LedgerExplained'
    BY <2>1, <2>2, ZenonT(40) DEF IInv, BooksOK, PnlExplained, LedgerExplained, TradeCash,
                      Holding, Basis
  <2> QED BY <2>1, <2>2, <2>3, <2>4, QuietCycle
          DEF IInv, BooksOK, OrdersOK, Clean, Holding
<1>11. CASE UNCHANGED vars
  BY <1>11, BooksKept DEF vars, IInv, OrdersOK, CycleOK, books
<1> QED BY <1>1, <1>2, <1>3, <1>4, <1>5, <1>6, <1>7, <1>8, <1>9, <1>10, <1>11 DEF Next

LEMMA AlwaysIInv == Spec => []IInv
BY InitIInv, NextIInv, PTL DEF Spec

----------------------------------------------------------------------------
(* Sums of functions.  The library's induction theorems take an operator;   *)
(* here induction is that a set of numbers that is not empty has a least    *)
(* one, which needs no operator.                                            *)

LEMMA NatSet ==
  ASSUME NEW T, T \subseteq Nat, 0 \in T, \A n \in T : n + 1 \in T
  PROVE  \A n \in Nat : n \in T
<1> SUFFICES ASSUME Nat \ T # {} PROVE FALSE
  OBVIOUS
<1>1. IsWellFoundedOn(OpToRel(<, Nat), Nat)
  BY NatLessThanWellFounded
<1>2. \A m, n \in Nat : m < n => <<m, n>> \in OpToRel(<, Nat)
  BY DEF OpToRel
<1> DEFINE R == OpToRel(<, Nat)
<1> HIDE DEF R
<1>3. IsWellFoundedOn(R, Nat)
  BY <1>1 DEF R
<1>4. PICK n \in Nat \ T : \A m \in Nat \ T : ~ (<<m, n>> \in R)
  BY <1>3, WFMin
<1>5. \A m \in Nat : m < n => m \in T
  BY <1>2, <1>4 DEF R
<1>6. n # 0 /\ n - 1 \in T
  BY <1>5
<1> QED BY <1>6

LEMMA SmallerParts ==
  ASSUME NEW S, IsFiniteSet(S), NEW s \in SUBSET S
  PROVE  /\ Cardinality(s) \in Nat
         /\ Cardinality(s) = 0 => s = {}
         /\ \A x \in s : s \ {x} \in SUBSET S /\ Cardinality(s \ {x}) = Cardinality(s) - 1
<1>1. IsFiniteSet(s)
  BY FS_Subset
<1> QED BY <1>1, FS_CardinalityType, FS_EmptySet, FS_RemoveElement

\* What passes from the parts with one element less to a part holds for all parts.
LEMMA PartInduction ==
  ASSUME NEW S, IsFiniteSet(S), NEW T,
         \A s \in SUBSET S : (\A x \in s : s \ {x} \in T) => s \in T
  PROVE  SUBSET S \subseteq T
<1> DEFINE All(n) == \A s \in SUBSET S : Cardinality(s) = n => s \in T
           N      == {n \in Nat : All(n)}
<1>1. All(0)
  BY SmallerParts
<1>2. ASSUME NEW n \in Nat, All(n)
      PROVE  All(n + 1)
  <2> SUFFICES ASSUME NEW s \in SUBSET S, Cardinality(s) = n + 1 PROVE s \in T
    OBVIOUS
  <2>1. \A x \in s : s \ {x} \in SUBSET S /\ Cardinality(s \ {x}) = n
    BY SmallerParts
  <2>2. \A x \in s : s \ {x} \in T
    BY <1>2, <2>1
  <2> QED BY <2>2
<1> HIDE DEF All
<1>3. N \subseteq Nat /\ 0 \in N /\ \A n \in N : n + 1 \in N
  BY <1>1, <1>2
<1> HIDE DEF N
<1>4. \A n \in Nat : n \in N
  BY <1>3, NatSet
<1>5. \A s \in SUBSET S : s \in T
  BY <1>4, SmallerParts DEF N, All
<1> QED BY <1>5

\* SumFunction sums the parts of a domain, each from the part with one less.
Part(s) == CHOOSE x \in s : TRUE
Step(f, g, s) == IF s = {} THEN 0 ELSE f[Part(s)] + g[s \ {Part(s)}]
Parts(f, S) == CHOOSE g : g = [s \in SUBSET S |-> Step(f, g, s)]

LEMMA SumParts ==
  ASSUME NEW f
  PROVE  SumFunction(f) = Parts(f, DOMAIN f)[DOMAIN f]
BY DEF SumFunction, SumFunctionOnSet, FoldFunctionOnSet, MapThenFoldSet, Parts, Step, Part

\* The sums of the parts with at most n elements.
UpTo(S, n) == {s \in SUBSET S : Cardinality(s) <= n}

\* The sums of the parts of f exist: the recursion of SumFunction is sound.
LEMMA PartsExist ==
  ASSUME NEW S, IsFiniteSet(S), NEW f
  PROVE  \E g : g = [s \in SUBSET S |-> Step(f, g, s)]
<1> DEFINE Sums(g, n) == g = [s \in UpTo(S, n) |-> Step(f, g, s)]
           T == {n \in Nat : \E g : Sums(g, n)}
<1>1. 0 \in T
  <2> DEFINE g == [s \in UpTo(S, 0) |-> 0]
  <2>1. \A s \in UpTo(S, 0) : s = {}
    BY SmallerParts DEF UpTo
  <2>2. Sums(g, 0)
    BY <2>1 DEF Step
  <2> HIDE DEF g, Sums
  <2> QED BY <2>2
<1>2. ASSUME NEW n \in T
      PROVE  n + 1 \in T
  <2>1. n \in Nat
    OBVIOUS
  <2>2. PICK g : Sums(g, n)
    OBVIOUS
  <2>3. \A s \in UpTo(S, n + 1) : s # {} => Part(s) \in s /\ s \ {Part(s)} \in UpTo(S, n)
    <3> SUFFICES ASSUME NEW s \in UpTo(S, n + 1), s # {}
                 PROVE  Part(s) \in s /\ s \ {Part(s)} \in UpTo(S, n)
      OBVIOUS
    <3>1. Part(s) \in s
      BY DEF Part
    <3>2. s \in SUBSET S /\ Cardinality(s) <= n + 1
      BY DEF UpTo
    <3>3. s \ {Part(s)} \in SUBSET S /\ Cardinality(s \ {Part(s)}) = Cardinality(s) - 1
      BY <3>1, <3>2, SmallerParts
    <3>4. Cardinality(s) \in Nat
      BY <3>2, SmallerParts
    <3> QED BY <2>1, <3>1, <3>2, <3>3, <3>4 DEF UpTo
  <2>4. UpTo(S, n) \subseteq UpTo(S, n + 1)
    BY <2>1, SmallerParts DEF UpTo
  <2> DEFINE h == [s \in UpTo(S, n + 1) |-> Step(f, g, s)]
  <2>5. \A s \in UpTo(S, n) : h[s] = g[s]
    BY <2>2, <2>4
  <2>6. \A s \in UpTo(S, n + 1) : Step(f, g, s) = Step(f, h, s)
    BY <2>3, <2>5 DEF Step
  <2>7. Sums(h, n + 1)
    BY <2>6
  <2> HIDE DEF h, Sums
  <2> QED BY <2>1, <2>7
<1>3. Cardinality(S) \in T
  <2> HIDE DEF T
  <2>1. T \subseteq Nat
    BY DEF T
  <2> QED BY <1>1, <1>2, <2>1, NatSet, FS_CardinalityType
<1>4. UpTo(S, Cardinality(S)) = SUBSET S
  BY FS_Subset DEF UpTo
<1> QED BY <1>3, <1>4

\* The function that SumFunction chooses is one of them.
LEMMA PartsSummed ==
  ASSUME NEW S, IsFiniteSet(S), NEW f, NEW s \in SUBSET S
  PROVE  Parts(f, S)[s] = Step(f, Parts(f, S), s)
<1>1. Parts(f, S) = [r \in SUBSET S |-> Step(f, Parts(f, S), r)]
  BY PartsExist DEF Parts
<1> QED BY <1>1

LEMMA PartsStep ==
  ASSUME NEW S, IsFiniteSet(S), NEW f, NEW s \in SUBSET S, s # {}
  PROVE  /\ Part(s) \in s
         /\ Parts(f, S)[s] = f[Part(s)] + Parts(f, S)[s \ {Part(s)}]
BY PartsSummed DEF Step, Part

LEMMA PartsOfNone ==
  ASSUME NEW S, IsFiniteSet(S), NEW f
  PROVE  Parts(f, S)[{}] = 0
BY PartsSummed DEF Step

LEMMA PartsTyped ==
  ASSUME NEW S, IsFiniteSet(S), NEW f \in [S -> Int], NEW s \in SUBSET S
  PROVE  Parts(f, S)[s] \in Int /\ ((\A x \in S : f[x] >= 0) => Parts(f, S)[s] >= 0)
<1> DEFINE T == {r \in SUBSET S : /\ Parts(f, S)[r] \in Int
                                  /\ (\A x \in S : f[x] >= 0) => Parts(f, S)[r] >= 0}
<1>1. ASSUME NEW r \in SUBSET S, \A x \in r : r \ {x} \in T
      PROVE  r \in T
  <2>1. CASE r = {}
    <3>1. Parts(f, S)[r] = 0
      BY <2>1, PartsOfNone
    <3> QED BY <3>1
  <2>2. CASE r # {}
    <3>1. /\ Part(r) \in r
          /\ Parts(f, S)[r] = f[Part(r)] + Parts(f, S)[r \ {Part(r)}]
      <4> HIDE DEF T
      <4> QED BY <2>2, PartsStep
    <3>2. /\ Parts(f, S)[r \ {Part(r)}] \in Int
          /\ (\A x \in S : f[x] >= 0) => Parts(f, S)[r \ {Part(r)}] >= 0
      BY <1>1, <3>1
    <3>3. Part(r) \in S /\ f[Part(r)] \in Int
      BY <3>1
    <3> QED BY <3>1, <3>2, <3>3
  <2> QED BY <2>1, <2>2
<1> HIDE DEF T
<1>2. SUBSET S \subseteq T
  BY <1>1, PartInduction
<1> QED BY <1>2 DEF T

\* Any element of a part may be taken last.
LEMMA PartsTake ==
  ASSUME NEW S, IsFiniteSet(S), NEW f \in [S -> Int], NEW s \in SUBSET S, NEW z \in s
  PROVE  Parts(f, S)[s] = f[z] + Parts(f, S)[s \ {z}]
<1> DEFINE P == Parts(f, S)
           T == {r \in SUBSET S : \A x \in r : P[r] = f[x] + P[r \ {x}]}
<1>1. ASSUME NEW r \in SUBSET S, \A x \in r : r \ {x} \in T
      PROVE  r \in T
  <2> SUFFICES ASSUME NEW x \in r PROVE P[r] = f[x] + P[r \ {x}]
    OBVIOUS
  <2> DEFINE y == Part(r)
  <2>1. y \in r /\ P[r] = f[y] + P[r \ {y}]
    BY PartsStep
  <2> HIDE DEF y
  <2>2. CASE x = y
    BY <2>1, <2>2
  <2>3. CASE x # y
    <3>1. P[r \ {y}] = f[x] + P[(r \ {y}) \ {x}]
      BY <1>1, <2>1, <2>3
    <3>2. P[r \ {x}] = f[y] + P[(r \ {x}) \ {y}]
      BY <1>1, <2>1, <2>3
    <3>3. (r \ {y}) \ {x} = (r \ {x}) \ {y} /\ (r \ {x}) \ {y} \in SUBSET S
      OBVIOUS
    <3>4. P[(r \ {x}) \ {y}] \in Int /\ f[x] \in Int /\ f[y] \in Int
      BY <2>1, <3>3, PartsTyped
    <3>5. P[r] = f[y] + (f[x] + P[(r \ {x}) \ {y}])
      BY <2>1, <3>1, <3>3
    <3> HIDE DEF P
    <3> QED BY <3>2, <3>4, <3>5
  <2> QED BY <2>2, <2>3
<1> HIDE DEF T
<1>2. SUBSET S \subseteq T
  BY <1>1, PartInduction
<1> QED BY <1>2 DEF T

\* Where two functions agree, so do the sums of the parts.
LEMMA PartsAlike ==
  ASSUME NEW S, IsFiniteSet(S), NEW R, IsFiniteSet(R), NEW f, NEW h,
         NEW D \in SUBSET (S \cap R), \A x \in D : f[x] = h[x]
  PROVE  Parts(f, S)[D] = Parts(h, R)[D]
<1>2. \A r \in SUBSET S : r # {} => /\ Part(r) \in r
          /\ Parts(f, S)[r] = f[Part(r)] + Parts(f, S)[r \ {Part(r)}]
  BY PartsStep
<1>3. \A r \in SUBSET R : r # {} => /\ Part(r) \in r
          /\ Parts(h, R)[r] = h[Part(r)] + Parts(h, R)[r \ {Part(r)}]
  BY PartsStep
<1> DEFINE T == {r \in SUBSET D : Parts(f, S)[r] = Parts(h, R)[r]}
<1>1. ASSUME NEW r \in SUBSET D, \A x \in r : r \ {x} \in T
      PROVE  r \in T
  <2>1. r \in SUBSET S /\ r \in SUBSET R
    OBVIOUS
  <2>2. CASE r = {}
    BY <2>2, PartsOfNone
  <2>3. CASE r # {}
    <3>1. /\ Part(r) \in r
          /\ Parts(f, S)[r] = f[Part(r)] + Parts(f, S)[r \ {Part(r)}]
          /\ Parts(h, R)[r] = h[Part(r)] + Parts(h, R)[r \ {Part(r)}]
      BY <2>1, <2>3, <1>2, <1>3
    <3>2. Parts(f, S)[r \ {Part(r)}] = Parts(h, R)[r \ {Part(r)}]
      BY <1>1, <3>1
    <3> QED BY <3>1, <3>2
  <2> QED BY <2>2, <2>3
<1> HIDE DEF T
<1>4. IsFiniteSet(D)
  BY FS_Subset
<1>5. SUBSET D \subseteq T
  BY <1>1, <1>4, PartInduction
<1> QED BY <1>5 DEF T

LEMMA SumTyped ==
  ASSUME NEW S, IsFiniteSet(S), NEW f \in [S -> Int]
  PROVE  SumFunction(f) \in Int /\ ((\A x \in S : f[x] >= 0) => SumFunction(f) >= 0)
BY SumParts, PartsTyped

\* Any entry of a sum may be taken last.
LEMMA SumTake ==
  ASSUME NEW S, IsFiniteSet(S), NEW f \in [S -> Int], NEW x \in S
  PROVE  /\ SumFunction(f) = f[x] + Parts(f, S)[S \ {x}]
         /\ Parts(f, S)[S \ {x}] \in Int
<1>1. DOMAIN f = S /\ S \in SUBSET S /\ S \ {x} \in SUBSET S
  OBVIOUS
<1>2. Parts(f, S)[S] = f[x] + Parts(f, S)[S \ {x}]
  BY <1>1, PartsTake
<1>3. Parts(f, S)[S \ {x}] \in Int
  BY <1>1, PartsTyped
<1>4. SumFunction(f) = Parts(f, S)[S]
  BY <1>1, SumParts
<1> QED BY <1>2, <1>3, <1>4

\* A sum moves by what its only changed entry moves.
LEMMA SumMoved ==
  ASSUME NEW S, IsFiniteSet(S), NEW f \in [S -> Int], NEW h \in [S -> Int],
         NEW x \in S, \A i \in S : i # x => h[i] = f[i]
  PROVE  SumFunction(f) \in Int /\ SumFunction(h) = SumFunction(f) + h[x] - f[x]
<1>1. SumFunction(f) = f[x] + Parts(f, S)[S \ {x}] /\ Parts(f, S)[S \ {x}] \in Int
  BY SumTake
<1>2. SumFunction(h) = h[x] + Parts(h, S)[S \ {x}]
  BY SumTake
<1>3. Parts(f, S)[S \ {x}] = Parts(h, S)[S \ {x}]
  BY PartsAlike
<1> QED BY <1>1, <1>2, <1>3

\* The sum of sums, and the sum of nothing.
LEMMA SumAdded ==
  ASSUME NEW S, IsFiniteSet(S), NEW f \in [S -> Int], NEW g \in [S -> Int],
         NEW h \in [S -> Int], \A i \in S : h[i] = f[i] + g[i]
  PROVE  SumFunction(h) = SumFunction(f) + SumFunction(g)
<1> DEFINE Adds3(r) == Parts(h, S)[r] = Parts(f, S)[r] + Parts(g, S)[r]
           T == {r \in SUBSET S : Adds3(r)}
<1>1. ASSUME NEW r \in SUBSET S, \A x \in r : r \ {x} \in T
      PROVE  r \in T
  <2>1. CASE r = {}
    <3>1. Parts(f, S)[r] = 0 /\ Parts(g, S)[r] = 0 /\ Parts(h, S)[r] = 0
      BY <2>1, PartsOfNone
    <3> QED BY <3>1
  <2>2. CASE r # {}
    <3> DEFINE x == Part(r)
               q == r \ {x}
    <3>5. ASSUME NEW k PROVE Parts(k, S)[r] = k[x] + Parts(k, S)[q]
      <4> HIDE DEF T, Adds3
      <4> QED BY <2>2, PartsStep
    <3>1. x \in r
      BY <2>2, PartsStep
    <3>2. q \in SUBSET S /\ Adds3(q)
      BY <1>1, <3>1
    <3>3. Parts(f, S)[q] \in Int /\ Parts(g, S)[q] \in Int
      BY <3>2, PartsTyped
    <3>4. h[x] = f[x] + g[x] /\ f[x] \in Int /\ g[x] \in Int
      BY <3>1
    <3> HIDE DEF x, q
    <3>7. Adds3(r)
      BY <3>2, <3>3, <3>4, <3>5
    <3> QED BY <3>7
  <2> QED BY <2>1, <2>2
<1> HIDE DEF T
<1>2. SUBSET S \subseteq T
  BY <1>1, PartInduction
<1>3. Adds3(S)
  BY <1>2 DEF T
<1> QED BY <1>3, SumParts

LEMMA SumZero ==
  ASSUME NEW S, IsFiniteSet(S)
  PROVE  SumFunction([i \in S |-> 0]) = 0
<1> DEFINE f == [i \in S |-> 0]
<1>1. f \in [S -> Int] /\ \A i \in S : f[i] = f[i] + f[i]
  OBVIOUS
<1> HIDE DEF f
<1>2. SumFunction(f) = SumFunction(f) + SumFunction(f) /\ SumFunction(f) \in Int
  BY <1>1, SumAdded, SumTyped
<1> DEFINE z == SumFunction(f)
<1>3. z = z + z /\ z \in Int
  BY <1>2
<1> HIDE DEF z
<1>4. z = 0
  BY <1>3
<1> QED BY <1>4 DEF f, z

\* A factor of every entry is one of the sum.
LEMMA SumScaled ==
  ASSUME NEW S, IsFiniteSet(S), NEW f \in [S -> Int], NEW h \in [S -> Int], NEW c \in Int,
         \A i \in S : h[i] = c * f[i]
  PROVE  SumFunction(h) = c * SumFunction(f)
<1> DEFINE Scaled(r) == Parts(h, S)[r] = c * Parts(f, S)[r]
           T == {r \in SUBSET S : Scaled(r)}
<1>1. ASSUME NEW r \in SUBSET S, \A x \in r : r \ {x} \in T
      PROVE  r \in T
  <2>1. CASE r = {}
    <3>1. Parts(f, S)[r] = 0 /\ Parts(h, S)[r] = 0
      BY <2>1, PartsOfNone
    <3> QED BY <3>1
  <2>2. CASE r # {}
    <3> DEFINE x == Part(r)
               q == r \ {x}
               y == Parts(f, S)[q]
    <3>1. ASSUME NEW k PROVE Parts(k, S)[r] = k[x] + Parts(k, S)[q]
      <4> HIDE DEF T, Scaled
      <4> QED BY <2>2, PartsStep
    <3>2. x \in r
      BY <2>2, PartsStep
    <3>3. q \in SUBSET S /\ Parts(h, S)[q] = c * y
      BY <1>1, <3>2
    <3>4. y \in Int
      BY <3>3, PartsTyped
    <3>5. h[x] = c * f[x] /\ f[x] \in Int
      BY <3>2
    <3>6. Parts(f, S)[r] = f[x] + y /\ Parts(h, S)[r] = h[x] + Parts(h, S)[q]
      BY <3>1
    <3> HIDE DEF x, q, y
    <3>7. c * (f[x] + y) = c * f[x] + c * y
      BY <3>4, <3>5
    <3>8. Scaled(r)
      BY <3>3, <3>5, <3>6, <3>7
    <3> QED BY <3>8
  <2> QED BY <2>1, <2>2
<1> HIDE DEF T
<1>2. SUBSET S \subseteq T
  BY <1>1, PartInduction
<1>3. Scaled(S)
  BY <1>2 DEF T
<1> QED BY <1>3, SumParts

----------------------------------------------------------------------------
(* The account is the sum of its books. *)

Realized == [i \in Instruments |-> log[i].realized]
Charged  == [i \in Instruments |-> log[i].charges]
SumInv ==
  /\ acct.cash = funds + SumFunction(ledger)
  /\ acct.realized = SumFunction(Realized) /\ acct.charges = SumFunction(Charged)

\* What a fill adds to the account it adds to the books of one instrument.
LEMMA FillEffect ==
  ASSUME BooksOK, NEW o \in Requests, NEW px \in Nat \ {0}, HasInventory(o), Fill(o, px)
  PROVE  \E c \in Int, n \in Int, fee \in Nat :
           /\ acct' = [cash |-> acct.cash + c, realized |-> acct.realized + n,
                       charges |-> acct.charges + fee]
           /\ ledger'[o.ins] = ledger[o.ins] + c
           /\ log'[o.ins].realized = log[o.ins].realized + n
           /\ log'[o.ins].charges = log[o.ins].charges + fee
           /\ \A j \in Instruments \ {o.ins} : ledger'[j] = ledger[j] /\ log'[j] = log[j]
<1> DEFINE i == o.ins
           v == px * o.qty
           fee == Charges(i, v)
           d == Applied(lots[i], i, o.side, o.qty, px)
           n == d.gross - fee
<1>1. i \in Instruments /\ o.side \in Sides /\ o.qty \in Nat \ {0} /\ v \in Nat
  BY DEF Requests
<1>2. fee \in Nat
  BY <1>1, ValueType
<1>3. d.cash \in Int /\ d.gross \in Int
  <2>1. lots[i] \in Lot /\ Clean(i, lots[i])
    BY <1>1 DEF BooksOK
  <2>2. Holding(i) /\ o.side = "SELL" => lots[i].qty >= o.qty
    BY DEF HasInventory
  <2>3. Sound(d, lots[i], i, o.side, o.qty, px)
    BY <1>1, <2>1, <2>2, FillsAreSound
  <2> QED BY <2>3 DEF Sound
<1>4. /\ ledger' = [ledger EXCEPT ![i] = @ + d.cash - fee]
      /\ acct' = [cash |-> acct.cash + d.cash - fee, realized |-> acct.realized + n,
                  charges |-> acct.charges + fee]
      /\ log' = [log EXCEPT ![i] = Tally(@, o.side, o.qty, v, fee, n)]
  BY DEF Fill
<1> HIDE DEF d, fee, v
<1>5. /\ n \in Int /\ log[i] \in Trades /\ ledger[i] \in Int
      /\ acct.cash \in Int
  BY <1>1, <1>2, <1>3 DEF BooksOK
<1> HIDE DEF n
<1>6. /\ log'[i].realized = log[i].realized + n /\ log'[i].charges = log[i].charges + fee
  <2>1. log'[i] = Tally(log[i], o.side, o.qty, v, fee, n)
    BY <1>1, <1>4 DEF BooksOK
  <2>2. Tallied(log'[i], log[i], o.side, o.qty, v, fee, n)
    BY <1>1, <1>2, <1>5, <2>1, TallySound
  <2> QED BY <2>2 DEF Tallied
<1>7. /\ ledger'[i] = ledger[i] + (d.cash - fee)
      /\ acct.cash + d.cash - fee = acct.cash + (d.cash - fee)
  BY <1>1, <1>2, <1>3, <1>4, <1>5 DEF BooksOK
<1>8. \A j \in Instruments \ {i} : ledger'[j] = ledger[j] /\ log'[j] = log[j]
  BY <1>1, <1>4 DEF BooksOK
<1>9. d.cash - fee \in Int
  BY <1>2, <1>3
<1> QED BY <1>2, <1>4, <1>5, <1>6, <1>7, <1>8, <1>9

LEMMA FillKeepsSums ==
  ASSUME BooksOK, SumInv, NEW o \in Requests, NEW px \in Nat \ {0},
         HasInventory(o), Fill(o, px), funds' = funds, funds \in Int
  PROVE  SumInv'
<1> DEFINE i == o.ins
<1>1. PICK c \in Int, n \in Int, fee \in Nat :
         /\ acct' = [cash |-> acct.cash + c, realized |-> acct.realized + n,
                     charges |-> acct.charges + fee]
         /\ ledger'[i] = ledger[i] + c
         /\ log'[i].realized = log[i].realized + n
         /\ log'[i].charges = log[i].charges + fee
         /\ \A j \in Instruments \ {i} : ledger'[j] = ledger[j] /\ log'[j] = log[j]
  BY FillEffect
<1>2. i \in Instruments
  BY DEF Requests
<1>3. BooksOK'
  BY FillKeepsBooks
<1>4. /\ ledger \in [Instruments -> Int] /\ ledger' \in [Instruments -> Int]
      /\ \A j \in Instruments : /\ log[j].realized \in Int /\ log[j].charges \in Int
                                /\ log'[j].realized \in Int /\ log'[j].charges \in Int
  BY <1>3 DEF BooksOK, Trades
<1>5. /\ Realized \in [Instruments -> Int] /\ Realized' \in [Instruments -> Int]
      /\ Realized'[i] = Realized[i] + n /\ Realized[i] \in Int
      /\ \A j \in Instruments : j # i => Realized'[j] = Realized[j]
  BY <1>1, <1>2, <1>4 DEF Realized
<1>6. /\ Charged \in [Instruments -> Int] /\ Charged' \in [Instruments -> Int]
      /\ Charged'[i] = Charged[i] + fee /\ Charged[i] \in Int
      /\ \A j \in Instruments : j # i => Charged'[j] = Charged[j]
  BY <1>1, <1>2, <1>4 DEF Charged
<1>7. SumFunction(ledger) \in Int /\ SumFunction(ledger') = SumFunction(ledger) + ledger'[i] - ledger[i]
  <2>1. \A j \in Instruments : j # i => ledger'[j] = ledger[j]
    BY <1>1
  <2> QED BY <1>2, <1>4, <2>1, FiniteAssumption, SumMoved
<1>8. SumFunction(Realized) \in Int /\ SumFunction(Realized') = SumFunction(Realized) + Realized'[i] - Realized[i]
  BY <1>2, <1>5, FiniteAssumption, SumMoved
<1>9. SumFunction(Charged) \in Int /\ SumFunction(Charged') = SumFunction(Charged) + Charged'[i] - Charged[i]
  BY <1>2, <1>6, FiniteAssumption, SumMoved
<1>10. ledger[i] \in Int /\ acct.cash \in Int
  BY <1>2, <1>4 DEF BooksOK
<1>11. acct'.cash = funds' + SumFunction(ledger')
  BY <1>1, <1>7, <1>10 DEF SumInv
<1>12. acct'.realized = SumFunction(Realized') /\ acct'.charges = SumFunction(Charged')
  BY <1>1, <1>5, <1>6, <1>8, <1>9 DEF SumInv
<1> QED BY <1>11, <1>12 DEF SumInv

\* A step that moves no money keeps the lots, and the rows of the orders filled.
Still ==
  /\ UNCHANGED <<acct, ledger, log, funds>>
  /\ \A i \in Instruments : /\ lots'[i].qty = lots[i].qty /\ lots'[i].cost = lots[i].cost
                            /\ lots'[i].blocked = lots[i].blocked
  /\ \A id \in Ids : orders[id].status = "COMPLETE" => orders'[id] = orders[id]
\* A step that fills an order, which was not filled before.
Fills ==
  \E id \in Ids, o \in Requests, px \in Nat \ {0} :
    /\ HasInventory(o) /\ Fill(o, px) /\ funds' = funds
    /\ orders[id].status # "COMPLETE"
    /\ orders' = [orders EXCEPT ![id] = Row(o, "COMPLETE")]

\* A step moves money with a fill, with funds, with a reset, or not at all.
LEMMA MoneyMoves ==
  ASSUME IInv, [Next]_vars
  PROVE  \/ Still \/ Fills
         \/ \E a \in Deposits : AddFunds(a)
         \/ \E ob \in Openings : Reset(ob)
<1>10. ASSUME NEW id \in Ids, orders[id].status # "COMPLETE", NEW row,
              orders' = [orders EXCEPT ![id] = row], UNCHANGED <<books, funds>>
       PROVE  Still
  <2>1. \A other \in Ids : other # id => orders'[other] = orders[other]
    BY <1>10 DEF IInv, OrdersOK
  <2> QED BY <1>10, <2>1 DEF Still, books
<1>11. ASSUME UNCHANGED <<books, orders, funds>>
       PROVE  Still
  BY <1>11 DEF Still, books
<1>1. ASSUME NEW id \in Ids, NEW o \in Requests, NEW px \in Nat \ {0}, TryFill(id, o, px),
             funds' = funds, orders[id].status # "COMPLETE"
      PROVE  Still \/ Fills
  <2>1. CASE Affordable(o, px) /\ HasInventory(o)
    BY <1>1, <2>1 DEF TryFill, Fills
  <2>2. CASE ~(Affordable(o, px) /\ HasInventory(o))
    BY <1>1, <1>10, <2>2 DEF TryFill
  <2> QED BY <2>1, <2>2
<1>2. ASSUME NEW id \in Ids, NEW o \in Requests, NEW ltp \in Prices \cup {None},
             Submit(id, o, ltp)
      PROVE  Still \/ Fills
  <2>3. orders[id].status # "COMPLETE" /\ funds' = funds
    BY <1>2 DEF Submit, NoOrder
  <2>1. CASE o.type = "MARKET" /\ ltp # None
    <3>1. TryFill(id, o, ltp) /\ ltp \in Nat \ {0}
      BY <1>2, <2>1, OrderAssumption DEF Submit
    <3> QED BY <1>1, <2>3, <3>1
  <2>2. CASE ~(o.type = "MARKET" /\ ltp # None)
    <3>1. UNCHANGED books /\ \E row : orders' = [orders EXCEPT ![id] = row]
      BY <1>2, <2>2 DEF Submit
    <3> QED BY <1>10, <2>3, <3>1
  <2> QED BY <2>1, <2>2
<1>3. ASSUME NEW id \in Ids, CycleFill(id)
      PROVE  Still \/ Fills
  <2> DEFINE o  == orders[id].req
             px == PriceFor(o, cycle.quote[o.ins])
  <2>1. /\ id \in cycle.todo /\ orders[id].status = "OPEN"
        /\ cycle.quote \in [Instruments -> Prices \cup {None}]
    BY <1>3 DEF CycleFill, IInv, CycleOK
  <2>2. o \in Requests
    BY <2>1, OpenRow DEF IInv, Statuses
  <2>3. CASE cycle.quote[o.ins] # None /\ px # None
    <3>1. o.ins \in Instruments /\ o.price \in Nat
      BY <2>2 DEF Requests
    <3>2. cycle.quote[o.ins] \in Nat
      <4>1. cycle.quote[o.ins] \in Prices \cup {None}
        BY <2>1, <3>1
      <4>2. Prices \subseteq Nat /\ None \in Nat
        BY OrderAssumption DEF None
      <4> HIDE DEF o
      <4> QED BY <4>1, <4>2
    <3>3. px \in Nat \ {0}
      BY <2>3, <3>1, <3>2 DEF PriceFor, None
    <3>4. TryFill(id, o, px) /\ funds' = funds
      BY <1>3, <2>3 DEF CycleFill
    <3> HIDE DEF o, px
    <3> QED BY <1>1, <2>1, <2>2, <3>3, <3>4
  <2>4. CASE ~(cycle.quote[o.ins] # None /\ px # None)
    <3>1. UNCHANGED <<books, orders, funds>>
      BY <1>3, <2>4 DEF CycleFill
    <3> QED BY <1>11, <3>1
  <2> QED BY <2>3, <2>4
<1>4. ASSUME NEW id \in Ids, Place(id)
      PROVE  Still \/ Fills
  <2>1. PICK o \in Asked, ltp \in Prices \cup {None} : Submit(id, o, ltp)
    BY <1>4 DEF Place
  <2>2. o \in Requests
    BY OrderAssumption
  <2> QED BY <1>2, <2>1, <2>2
<1>5. ASSUME NEW id \in Ids, NEW old \in Ids, Retry(old, id)
      PROVE  Still \/ Fills
  <2>1. orders[old].req \in Requests
    BY <1>5, OpenRow DEF Retry, IInv, Statuses
  <2>2. PICK ltp \in Prices \cup {None} : Submit(id, orders[old].req, ltp)
    BY <1>5 DEF Retry
  <2> QED BY <1>2, <2>1, <2>2
<1>6. ASSUME NEW id \in Ids, Exit(id)
      PROVE  Still \/ Fills
  <2>1. PICK i \in Instruments, ltp \in Prices \cup {None} : ExitPosition(id, i, ltp)
    BY <1>6 DEF Exit
  <2>2. Closing(i) \in Requests /\ Submit(id, Closing(i), ltp)
    BY <2>1, ClosingType DEF ExitPosition, IInv
  <2> QED BY <1>2, <2>2
<1>7. ASSUME NEW id \in Ids, Cancel(id) \/ Modify(id)
      PROVE  Still
  <2>1. orders[id].status # "COMPLETE" /\ UNCHANGED <<books, funds>>
    BY <1>7 DEF Cancel, Modify
  <2>2. \E row : orders' = [orders EXCEPT ![id] = row]
    BY <1>7 DEF Cancel, Modify
  <2> QED BY <1>10, <2>1, <2>2
<1>8. CASE CycleStart \/ UNCHANGED vars
  BY <1>8, <1>11 DEF CycleStart, vars
<1>9. CASE EodRoll
  <2>1. /\ lots' = [i \in Instruments |-> [lots[i] EXCEPT !.t1 = 0]]
        /\ UNCHANGED <<acct, ledger, log, orders, funds>>
    BY <1>9 DEF EodRoll
  <2>2. ASSUME NEW i \in Instruments
        PROVE  /\ lots'[i].qty = lots[i].qty /\ lots'[i].cost = lots[i].cost
               /\ lots'[i].blocked = lots[i].blocked
    <3>1. lots[i] \in Lot /\ lots'[i] = [lots[i] EXCEPT !.t1 = 0]
      BY <2>1 DEF IInv, BooksOK
    <3> QED BY <3>1 DEF Lot
  <2> QED BY <2>1, <2>2 DEF Still
<1> QED BY <1>3, <1>4, <1>5, <1>6, <1>7, <1>8, <1>9 DEF Next

LEMMA FreshSums ==
  ASSUME NEW ob \in Openings
  PROVE  /\ acct = Fresh(ob) /\ funds = ob /\ ledger = [i \in Instruments |-> 0]
            /\ log = [i \in Instruments |-> NoTrade] => SumInv
         /\ acct' = Fresh(ob) /\ funds' = ob /\ ledger' = [i \in Instruments |-> 0]
            /\ log' = [i \in Instruments |-> NoTrade] => SumInv'
<1>1. ob \in Int
  BY MoneyAssumption
<1> DEFINE zeros == [i \in Instruments |-> 0]
<1>2. log = [i \in Instruments |-> NoTrade] => Realized = zeros /\ Charged = zeros
  BY DEF Realized, Charged, NoTrade
<1>3. log' = [i \in Instruments |-> NoTrade] => Realized' = zeros /\ Charged' = zeros
  BY DEF Realized, Charged, NoTrade
<1>4. SumFunction(zeros) = 0 /\ Fresh(ob).cash = ob /\ Fresh(ob).realized = 0 /\ Fresh(ob).charges = 0
  BY SumZero, FiniteAssumption DEF Fresh
<1> HIDE DEF zeros
<1>5. ASSUME acct = Fresh(ob), funds = ob, ledger = zeros, Realized = zeros, Charged = zeros
      PROVE  SumInv
  BY <1>1, <1>4, <1>5 DEF SumInv
<1>6. ASSUME acct' = Fresh(ob), funds' = ob, ledger' = zeros, Realized' = zeros, Charged' = zeros
      PROVE  SumInv'
  BY <1>1, <1>4, <1>6 DEF SumInv
<1> QED BY <1>2, <1>3, <1>5, <1>6 DEF zeros

LEMMA NextSums == IInv /\ SumInv /\ [Next]_vars => SumInv'
<1> SUFFICES ASSUME IInv, SumInv, [Next]_vars PROVE SumInv'
  OBVIOUS
<1>1. CASE Still
  BY <1>1 DEF Still, SumInv, Realized, Charged
<1>2. CASE Fills
  BY <1>2, FillKeepsSums DEF Fills, IInv
<1>3. ASSUME NEW a \in Deposits, AddFunds(a)
      PROVE  SumInv'
  <2>1. /\ acct' = [acct EXCEPT !.cash = @ + a] /\ funds' = funds + a
        /\ ledger' = ledger /\ log' = log
    BY <1>3 DEF AddFunds
  <2>2. a \in Int /\ funds \in Int /\ acct.cash \in Int
        /\ acct \in [cash : Int, realized : Int, charges : Nat]
    BY MoneyAssumption DEF IInv, BooksOK
  <2>3. /\ acct'.cash = acct.cash + a /\ acct'.realized = acct.realized
        /\ acct'.charges = acct.charges
    BY <2>1, <2>2
  <2>4. SumFunction(ledger) \in Int
    BY FiniteAssumption, SumTyped DEF IInv, BooksOK
  <2>5. acct'.cash = funds' + SumFunction(ledger')
    BY <2>1, <2>2, <2>3, <2>4 DEF SumInv
  <2> QED BY <2>1, <2>3, <2>5 DEF SumInv, Realized, Charged
<1>4. ASSUME NEW ob \in Openings, Reset(ob)
      PROVE  SumInv'
  BY <1>4, FreshSums DEF Reset
<1> QED BY <1>1, <1>2, <1>3, <1>4, MoneyMoves

LEMMA AlwaysSumInv == Spec => [](IInv /\ SumInv)
<1>1. Init => SumInv
  <2> SUFFICES ASSUME Init PROVE SumInv
    OBVIOUS
  <2>1. PICK ob \in Openings : acct = Fresh(ob) /\ funds = ob
    BY DEF Init
  <2> QED BY <2>1, FreshSums DEF Init
<1> QED BY <1>1, InitIInv, NextIInv, NextSums, PTL DEF Spec

\* The rows keep their types; an order a cycle has still to look at is open.
THEOREM TypeCorrect == Spec => []TypeOK
<1>1. IInv => TypeOK
  BY DEF IInv, BooksOK, OrdersOK, CycleOK, TypeOK, Trades, Clean, Holding
<1> QED BY <1>1, AlwaysIInv, PTL

\* Through any adds, partial closes and flips the profit booked is what the
\* trades took less what they gave and the basis of the lot still open.
THEOREM PnlHolds == Spec => []PnlExplained
<1>1. IInv => PnlExplained
  BY DEF IInv, BooksOK
<1> QED BY <1>1, AlwaysIInv, PTL

\* A flat position costs nothing and blocks no margin; no holding is short.
THEOREM FlatHolds == Spec => []FlatIsClean
<1>1. IInv => FlatIsClean
  BY DEF IInv, BooksOK, FlatIsClean, Clean, Lot
<1> QED BY <1>1, AlwaysIInv, PTL

\* The cash book of each instrument is what reconcile rebuilds from trades.
THEOREM LedgerHolds == Spec => []LedgerExplained
<1>1. IInv => LedgerExplained
  BY DEF IInv, BooksOK
<1> QED BY <1>1, AlwaysIInv, PTL

\* reconcile finds nothing to correct: for any instruments and any sequence of
\* requests, cycles, funds and resets the account's cash, profit and charges are
\* the sums of what its trades, its blocked margin and its funds say.
THEOREM ReconcileHolds == Spec => []ReconcileAgrees
<1>1. IInv /\ SumInv => ReconcileAgrees
  <2> SUFFICES ASSUME IInv, SumInv PROVE ReconcileAgrees
    OBVIOUS
  <2>1. LedgerExplained /\ ledger \in [Instruments -> Int]
    BY DEF IInv, BooksOK
  <2>2. ledger = [i \in Instruments |-> TradeCash(i)]
    BY <2>1 DEF LedgerExplained
  <2> QED BY <2>1, <2>2 DEF ReconcileAgrees, SumInv, Realized, Charged
<1> QED BY <1>1, AlwaysSumInv, PTL

----------------------------------------------------------------------------
(* The blocked margin follows the lot: a fill moves the two apart by less  *)
(* than a rupee, and an order fills once.                                  *)

\* A hundred times one total and p times another are at most 100 further apart once
\* both have given up the rounded share of q of their n units.
LEMMA SharesDrift ==
  ASSUME NEW b \in Nat, NEW c \in Nat, NEW p \in Nat, p <= 100,
         NEW n \in Nat \ {0}, NEW q \in Nat, q <= n
  PROVE  Abs(100 * (b - Prorata(b, q, n)) - p * (c - Prorata(c, q, n)))
           <= Abs(100 * b - p * c) + 100
<1> DEFINE x  == Prorata(b, q, n)
           y  == Prorata(c, q, n)
           e0 == 100 * b - p * c
           e1 == 100 * (b - x) - p * (c - y)
           E  == Abs(e0)
           k  == n - q
           r  == b * q - n * x
           s  == c * q - n * y
           ps == p * s
           ke == k * e0
           kE == k * E
           ne == n * e1
           nE == n * E
<1>1. x \in Int /\ r \in 0..(n - 1)
  <2> DEFINE t == b * q
  <2>1. t \in Nat
    OBVIOUS
  <2> HIDE DEF t
  <2>2. t \div n \in Int /\ n * (t \div n) <= t /\ t < n * (t \div n + 1)
    BY <2>1
  <2>3. n * (t \div n + 1) = n * (t \div n) + n
    BY <2>2
  <2>4. t - n * (t \div n) \in 0..(n - 1)
    <3> DEFINE z == n * (t \div n)
    <3>1. z \in Int /\ z <= t /\ t < z + n
      BY <2>2, <2>3
    <3> HIDE DEF z
    <3>2. t - z \in 0..(n - 1)
      BY <2>1, <3>1
    <3> QED BY <3>2 DEF z
  <2> QED BY <2>2, <2>4 DEF Prorata, t
<1>2. y \in Int /\ s \in 0..(n - 1)
  <2> DEFINE t == c * q
  <2>1. t \in Nat
    OBVIOUS
  <2> HIDE DEF t
  <2>2. t \div n \in Int /\ n * (t \div n) <= t /\ t < n * (t \div n + 1)
    BY <2>1
  <2>3. n * (t \div n + 1) = n * (t \div n) + n
    BY <2>2
  <2>4. t - n * (t \div n) \in 0..(n - 1)
    <3> DEFINE z == n * (t \div n)
    <3>1. z \in Int /\ z <= t /\ t < z + n
      BY <2>2, <2>3
    <3> HIDE DEF z
    <3>2. t - z \in 0..(n - 1)
      BY <2>1, <3>1
    <3> QED BY <3>2 DEF z
  <2> QED BY <2>2, <2>4 DEF Prorata, t
<1> HIDE DEF x, y
<1>3. e0 \in Int /\ e1 \in Int /\ k \in 0..n
  BY <1>1, <1>2
<1>4. ne = ke + 100 * r - ps
  <2>1. k * e0 = 100 * (n * b) - 100 * (b * q) - p * (n * c) + p * (c * q)
    OBVIOUS
  <2>2. n * e1 = 100 * (n * b) - 100 * (n * x) - p * (n * c) + p * (n * y)
    BY <1>1, <1>2
  <2>3. p * s = p * (c * q) - p * (n * y)
    BY <1>2
  <2> DEFINE A == n * b
             B == b * q
             C == p * (n * c)
             D == p * (c * q)
             X == n * x
             Y == p * (n * y)
  <2>4. A \in Int /\ B \in Int /\ C \in Int /\ D \in Int /\ X \in Int /\ Y \in Int
    BY <1>1, <1>2
  <2>5. ke = 100 * A - 100 * B - C + D /\ ne = 100 * A - 100 * X - C + Y
        /\ ps = D - Y /\ r = B - X
    BY <2>1, <2>2, <2>3
  <2> HIDE DEF A, B, C, D, X, Y, ke, ne, ps, r
  <2> QED BY <2>4, <2>5
<1>5. ps \in Int /\ 0 <= ps /\ ps <= 100 * (n - 1)
  <2> HIDE DEF s
  <2>1. p * s <= 100 * s /\ p * s \in Nat
    BY <1>2
  <2> QED BY <1>2, <2>1
<1> HIDE DEF e0, e1, k, r, s, ps
<1>6. E \in Nat /\ -E <= e0 /\ e0 <= E
  BY <1>3 DEF Abs
<1>10. E = e0 \/ E = -e0
  BY <1>3 DEF Abs
<1> HIDE DEF E
<1>7. ke \in Int /\ kE \in Int /\ nE \in Int /\ -kE <= ke /\ ke <= kE /\ kE <= nE
  <2>1. k * e0 \in Int /\ k * E \in Int /\ n * E \in Int /\ k * E <= n * E
    BY <1>3, <1>6
  <2>2. k * E >= 0
    BY <1>3, <1>6
  <2>3. k * e0 = k * E \/ k * e0 = -(k * E)
    BY <1>3, <1>6, <1>10
  <2> QED BY <2>1, <2>2, <2>3
<1> HIDE DEF ke, kE, nE, ne
<1>8. -(nE + 100 * n) < ne /\ ne < nE + 100 * n /\ ne \in Int
  BY <1>1, <1>4, <1>5, <1>7
<1>9. -(E + 100) <= e1 /\ e1 <= E + 100
  <2>1. nE + 100 * n = n * (E + 100) /\ -(n * (E + 100)) = n * (-(E + 100))
    BY <1>6 DEF nE
  <2>2. n * e1 < n * (E + 100) /\ n * (-(E + 100)) < n * e1
    BY <1>8, <2>1 DEF ne
  <2>3. E + 100 < e1 => n * (E + 100) <= n * e1
    BY <1>3, <1>6
  <2>4. e1 < -(E + 100) => n * e1 <= n * (-(E + 100))
    BY <1>3, <1>6
  <2>5. n * e1 \in Int /\ n * (E + 100) \in Int /\ n * (-(E + 100)) \in Int
    BY <1>3, <1>6
  <2> QED BY <1>3, <1>6, <2>2, <2>3, <2>4, <2>5
<1>11. Abs(e1) <= E + 100
  BY <1>3, <1>6, <1>9 DEF Abs
<1> QED BY <1>11 DEF e1, E, e0, x, y

\* How far, in hundredths, the margin of a lot is off its rate.
HeldSide(l) == IF l.qty > 0 THEN "BUY" ELSE "SELL"
Off(i, l)   == 100 * l.blocked - MarginPct(i, HeldSide(l)) * l.cost

LEMMA Rates ==
  ASSUME NEW i \in Instruments, NEW side
  PROVE  MarginPct(i, side) \in Nat /\ MarginPct(i, side) <= 100
BY DEF MarginPct

LEMMA OpenedDrifts ==
  ASSUME NEW l \in Lot, NEW i \in Instruments, NEW side \in Sides,
         NEW q \in Nat \ {0}, NEW px \in Nat \ {0}, Clean(i, l), SameSide(l, side)
  PROVE  /\ Off(i, l) \in Int /\ Off(i, Opened(l, i, side, q, px).lot) \in Int
         /\ Off(i, Opened(l, i, side, q, px).lot) <= Off(i, l)
         /\ Off(i, l) - 100 <= Off(i, Opened(l, i, side, q, px).lot)
<1> DEFINE p == MarginPct(i, side)
           v == px * q
           pv == v * p
           m == pv \div 100
           h == Opened(l, i, side, q, px).lot
           pc == p * l.cost
           off == 100 * l.blocked - pc
<1>1. l.qty \in Int /\ l.cost \in Nat /\ l.blocked \in Nat /\ p \in Nat /\ v \in Nat /\ pv \in Nat
      /\ pc \in Nat
  BY Rates DEF Lot
<1>2. /\ h.qty = l.qty + Signed(side, q) /\ h.cost = l.cost + v /\ h.blocked = l.blocked + m
  BY DEF Opened, Lot, Margin
<1> HIDE DEF h
<1>3. HeldSide(h) = side
  BY <1>1, <1>2 DEF HeldSide, SameSide, Signed, Sides
<1>4. Off(i, l) = off
  <2>1. CASE l.qty = 0
    <3>1. l.cost = 0 /\ l.blocked = 0
      BY <2>1 DEF Clean
    <3>2. MarginPct(i, HeldSide(l)) * 0 = 0 /\ p * 0 = 0
      BY Rates
    <3> QED BY <3>1, <3>2 DEF Off
  <2>2. CASE l.qty # 0
    <3>1. HeldSide(l) = side
      BY <1>1, <2>2 DEF HeldSide, SameSide, Sides
    <3> QED BY <3>1 DEF Off
  <2> QED BY <2>1, <2>2
<1>5. p * (l.cost + v) = pc + pv
  <2> HIDE DEF v, p
  <2> QED BY <1>1
<1>6. Off(i, h) = 100 * (l.blocked + m) - (pc + pv)
  <2>1. Off(i, h) = 100 * (l.blocked + m) - p * (l.cost + v)
    BY <1>2, <1>3 DEF Off
  <2> QED BY <1>5, <2>1
<1> HIDE DEF pc, pv
<1>7. m \in Int /\ 100 * m <= pv /\ pv < 100 * m + 100
  BY <1>1
<1> HIDE DEF m
<1>8. Off(i, h) = off + (100 * m - pv) /\ off \in Int
  BY <1>1, <1>6, <1>7
<1> HIDE DEF off
<1>9. Off(i, h) \in Int /\ Off(i, h) <= off /\ off - 100 <= Off(i, h)
  BY <1>1, <1>7, <1>8
<1> QED BY <1>4, <1>8, <1>9 DEF h

LEMMA ReducedDrifts ==
  ASSUME NEW l \in Lot, NEW i \in Instruments, NEW side \in Sides,
         NEW q \in Nat \ {0}, NEW px \in Nat \ {0}, Clean(i, l), ~Holding(i),
         ~SameSide(l, side), q <= Abs(l.qty)
  PROVE  /\ Off(i, l) \in Int /\ Off(i, Reduced(l, side, q, px).lot) \in Int
         /\ Abs(Off(i, Reduced(l, side, q, px).lot)) <= Abs(Off(i, l)) + 100
         /\ q = Abs(l.qty) => Off(i, Reduced(l, side, q, px).lot) = 0
<1> DEFINE p == MarginPct(i, HeldSide(l))
           n == Abs(l.qty)
           h == Reduced(l, side, q, px).lot
           b == l.blocked - Prorata(l.blocked, q, n)
           c == l.cost - Prorata(l.cost, q, n)
<1>1. l.qty \in Int /\ l.cost \in Nat /\ l.blocked \in Nat /\ p \in Nat /\ p <= 100
  BY Rates DEF Lot
<1>2. n \in Nat \ {0}
  BY <1>1 DEF SameSide, Abs
<1>3. h.qty = l.qty + Signed(side, q) /\ h.cost = c /\ h.blocked = b
  BY DEF Reduced, Lot
<1>4. b \in Nat /\ c \in Nat /\ (q = n => b = 0 /\ c = 0)
  <2> HIDE DEF n
  <2>1. /\ Prorata(l.blocked, q, n) \in Nat /\ Prorata(l.blocked, q, n) <= l.blocked
        /\ q = n => Prorata(l.blocked, q, n) = l.blocked
    BY <1>1, <1>2, ProrataShare DEF n
  <2>2. /\ Prorata(l.cost, q, n) \in Nat /\ Prorata(l.cost, q, n) <= l.cost
        /\ q = n => Prorata(l.cost, q, n) = l.cost
    BY <1>1, <1>2, ProrataShare DEF n
  <2> QED BY <1>1, <2>1, <2>2
<1>5. Abs(100 * b - p * c) <= Abs(100 * l.blocked - p * l.cost) + 100
  <2>1. q \in Nat /\ q <= n
    OBVIOUS
  <2> HIDE DEF n, p
  <2> QED BY <1>1, <1>2, <2>1, SharesDrift
<1> HIDE DEF h
<1>6. q # n => HeldSide(h) = HeldSide(l)
  <2> SUFFICES ASSUME q # n PROVE HeldSide(h) = HeldSide(l)
    OBVIOUS
  <2>1. CASE l.qty > 0
    <3>1. side = "SELL" /\ q < l.qty
      BY <1>1, <2>1 DEF SameSide, Sides, Abs
    <3> QED BY <1>1, <1>3, <2>1, <3>1 DEF HeldSide, Signed
  <2>2. CASE ~(l.qty > 0)
    <3>1. side = "BUY" /\ q < -l.qty
      BY <1>1, <2>2 DEF SameSide, Sides, Abs
    <3> QED BY <1>1, <1>3, <2>2, <3>1 DEF HeldSide, Signed
  <2> QED BY <2>1, <2>2
<1>7. Off(i, l) = 100 * l.blocked - p * l.cost
  BY DEF Off
<1>8. CASE q = n
  <2>1. b = 0 /\ c = 0
    BY <1>4, <1>8
  <2>2. Off(i, h) = 100 * 0 - MarginPct(i, HeldSide(h)) * 0
    BY <1>3, <2>1 DEF Off
  <2>3. MarginPct(i, HeldSide(h)) \in Nat
    BY Rates
  <2>4. Off(i, h) = 0
    <3> DEFINE r == MarginPct(i, HeldSide(h))
    <3> HIDE DEF r
    <3>1. r * 0 = 0
      BY <2>3 DEF r
    <3> QED BY <2>2, <3>1 DEF r
  <2>5. p * l.cost \in Nat
    BY <1>1
  <2>6. Off(i, l) \in Int
    BY <1>1, <1>7, <2>5
  <2>7. Abs(Off(i, h)) = 0 /\ Abs(Off(i, l)) \in Nat
    BY <2>4, <2>6 DEF Abs
  <2> QED BY <2>4, <2>6, <2>7 DEF h
<1>9. CASE q # n
  <2>1. Off(i, h) = 100 * b - p * c
    BY <1>3, <1>6, <1>9 DEF Off
  <2>2. p * l.cost \in Nat /\ p * c \in Int
    BY <1>1, <1>4
  <2>3. 100 * l.blocked \in Int /\ 100 * b \in Int
    BY <1>1, <1>4
  <2> HIDE DEF p, b, c, n
  <2>4. Off(i, l) \in Int /\ Off(i, h) \in Int
    BY <1>7, <2>1, <2>2, <2>3
  <2>5. Abs(Off(i, h)) <= Abs(Off(i, l)) + 100
    BY <1>5, <1>7, <2>1
  <2> QED BY <1>9, <2>4, <2>5 DEF h, n
<1> QED BY <1>8, <1>9

\* A fill moves the margin of a position off its rate by at most 100 hundredths.
LEMMA FillDrifts ==
  ASSUME NEW l \in Lot, NEW i \in Instruments, NEW side \in Sides,
         NEW q \in Nat \ {0}, NEW px \in Nat \ {0}, Clean(i, l), ~Holding(i)
  PROVE  /\ Off(i, l) \in Int /\ Off(i, Applied(l, i, side, q, px).lot) \in Int
         /\ Abs(Off(i, Applied(l, i, side, q, px).lot)) <= Abs(Off(i, l)) + 100
<1> DEFINE n == Abs(l.qty)
<1>0. l.qty \in Int /\ n \in Nat
  BY DEF Lot, Abs
<1>1. CASE SameSide(l, side)
  <2> DEFINE h == Opened(l, i, side, q, px).lot
  <2>1. Applied(l, i, side, q, px).lot = h
    BY <1>1 DEF Applied, ApplyPosition
  <2> HIDE DEF h
  <2>2. /\ Off(i, l) \in Int /\ Off(i, h) \in Int
        /\ Off(i, h) <= Off(i, l) /\ Off(i, l) - 100 <= Off(i, h)
    BY <1>1, OpenedDrifts DEF h
  <2>3. Abs(Off(i, h)) <= Abs(Off(i, l)) + 100
    BY <2>2 DEF Abs
  <2> QED BY <2>1, <2>2, <2>3
<1>2. CASE ~SameSide(l, side) /\ q <= n
  <2> DEFINE h == Reduced(l, side, q, px).lot
  <2>1. Applied(l, i, side, q, px).lot = h
    BY <1>2 DEF Applied, ApplyPosition
  <2> HIDE DEF h
  <2>2. /\ Off(i, l) \in Int /\ Off(i, h) \in Int
        /\ Abs(Off(i, h)) <= Abs(Off(i, l)) + 100
    BY <1>2, ReducedDrifts DEF h
  <2> QED BY <2>1, <2>2
<1>3. CASE ~SameSide(l, side) /\ ~(q <= n)
  <2> DEFINE c == Reduced(l, side, n, px).lot
             h == Opened(c, i, side, q - n, px).lot
  <2>1. Applied(l, i, side, q, px).lot = h
    BY <1>3 DEF Applied, ApplyPosition, Flipped
  <2>2. n \in Nat \ {0} /\ q - n \in Nat \ {0} /\ n <= n
    BY <1>0, <1>3 DEF SameSide, Abs
  <2> HIDE DEF n
  <2>3. Sound(Reduced(l, side, n, px), l, i, side, n, px) /\ SameSide(c, side)
    BY <1>3, <2>2, ReducedSound DEF n
  <2>4. c \in Lot /\ Clean(i, c)
    BY <2>3 DEF Sound
  <2>5. Off(i, l) \in Int /\ Off(i, c) = 0
    BY <1>3, <2>2, ReducedDrifts DEF n
  <2> HIDE DEF c
  <2>6. /\ Off(i, h) \in Int /\ Off(i, h) <= Off(i, c) /\ Off(i, c) - 100 <= Off(i, h)
    BY <2>2, <2>3, <2>4, OpenedDrifts
  <2> HIDE DEF h
  <2>7. Abs(Off(i, h)) <= Abs(Off(i, l)) + 100
    BY <2>5, <2>6 DEF Abs
  <2> QED BY <2>1, <2>5, <2>6, <2>7
<1> QED BY <1>1, <1>2, <1>3

LEMMA FilledFinite ==
  ASSUME NEW i
  PROVE  IsFiniteSet(Filled(i)) /\ Cardinality(Filled(i)) \in Nat
<1>1. Filled(i) \subseteq Ids
  BY DEF Filled
<1>2. IsFiniteSet(Filled(i))
  BY <1>1, FiniteAssumption, FS_Subset
<1> QED BY <1>2, FS_CardinalityType

\* More orders filled, more room.
LEMMA RoomKept ==
  ASSUME NEW i, \A id \in Ids : orders[id].status = "COMPLETE" => orders'[id] = orders[id],
         NEW n \in Int, n <= 100 * Cardinality(Filled(i))
  PROVE  n <= 100 * Cardinality(Filled(i)')
<1>1. Filled(i) \subseteq Filled(i)'
  BY DEF Filled
<1>2. Filled(i)' \subseteq Ids
  BY DEF Filled
<1>3. IsFiniteSet(Filled(i)')
  BY <1>2, FiniteAssumption, FS_Subset
<1>4. /\ Cardinality(Filled(i)) \in Nat /\ Cardinality(Filled(i)') \in Nat
      /\ Cardinality(Filled(i)) <= Cardinality(Filled(i)')
  BY <1>1, <1>3, FS_Subset, FS_CardinalityType
<1> QED BY <1>4

LEMMA MarginSteps == IInv /\ MarginFollowsLot /\ [Next]_vars => MarginFollowsLot'
<1> SUFFICES ASSUME IInv, MarginFollowsLot, [Next]_vars, NEW i \in Instruments, ~Holding(i)
             PROVE  Abs(Off(i, lots'[i])) <= 100 * Cardinality(Filled(i)')
  BY DEF MarginFollowsLot, Off, HeldSide, MarginPct, Holding
<1>1. Abs(Off(i, lots[i])) <= 100 * Cardinality(Filled(i))
  BY DEF MarginFollowsLot, Off, HeldSide
<1>2. lots[i] \in Lot /\ Clean(i, lots[i])
  BY DEF IInv, BooksOK
<1>3. Off(i, lots[i]) \in Int /\ Abs(Off(i, lots[i])) \in Int
  <2>1. Off(i, lots[i]) \in Int
    BY <1>2, FillDrifts DEF Sides
  <2> QED BY <2>1 DEF Abs
<1>4. ASSUME \A id \in Ids : orders[id].status = "COMPLETE" => orders'[id] = orders[id],
             Off(i, lots'[i]) = Off(i, lots[i])
      PROVE  Abs(Off(i, lots'[i])) <= 100 * Cardinality(Filled(i)')
  BY <1>1, <1>3, <1>4, RoomKept
<1>5. CASE Still
  <2>1. /\ lots'[i].qty = lots[i].qty /\ lots'[i].cost = lots[i].cost
        /\ lots'[i].blocked = lots[i].blocked
    BY <1>5 DEF Still
  <2>2. Off(i, lots'[i]) = Off(i, lots[i])
    BY <2>1 DEF Off, HeldSide
  <2> QED BY <1>4, <1>5, <2>2 DEF Still
<1>6. CASE Fills
  <2>1. PICK id \in Ids, o \in Requests, px \in Nat \ {0} :
           /\ HasInventory(o) /\ Fill(o, px) /\ funds' = funds
           /\ orders[id].status # "COMPLETE"
           /\ orders' = [orders EXCEPT ![id] = Row(o, "COMPLETE")]
    BY <1>6 DEF Fills
  <2>2. o.ins \in Instruments /\ o.side \in Sides /\ o.qty \in Nat \ {0}
    BY DEF Requests
  <2>3. lots' = [lots EXCEPT ![o.ins] = Applied(lots[o.ins], o.ins, o.side, o.qty, px).lot]
    BY <2>1 DEF Fill
  <2>4. \A other \in Ids : other # id => orders'[other] = orders[other]
    BY <2>1 DEF IInv, OrdersOK
  <2>5. orders'[id].status = "COMPLETE" /\ orders'[id].req = o
    BY <2>1 DEF IInv, OrdersOK, Row
  <2>6. CASE o.ins # i
    <3>1. lots'[i] = lots[i]
      BY <2>2, <2>3, <2>6 DEF IInv, BooksOK
    <3> QED BY <1>4, <2>1, <2>4, <3>1
  <2>7. CASE o.ins = i
    <3> DEFINE h == Applied(lots[i], i, o.side, o.qty, px).lot
    <3>1. lots'[i] = h
      BY <2>2, <2>3, <2>7 DEF IInv, BooksOK
    <3>2. Off(i, h) \in Int /\ Abs(Off(i, h)) <= Abs(Off(i, lots[i])) + 100
      BY <1>2, <2>2, FillDrifts
    <3> HIDE DEF h
    <3>3. Filled(i)' = Filled(i) \cup {id} /\ id \notin Filled(i)
      BY <2>1, <2>4, <2>5, <2>7 DEF Filled
    <3>4. /\ Cardinality(Filled(i)) \in Nat
          /\ Cardinality(Filled(i)') = Cardinality(Filled(i)) + 1
      BY <3>3, FilledFinite, FS_AddElement
    <3>5. Abs(Off(i, h)) \in Int
      BY <3>2 DEF Abs
    <3> QED BY <1>1, <1>3, <3>1, <3>2, <3>4, <3>5
  <2> QED BY <2>6, <2>7
<1>7. ASSUME NEW a \in Deposits, AddFunds(a)
      PROVE  Abs(Off(i, lots'[i])) <= 100 * Cardinality(Filled(i)')
  BY <1>4, <1>7 DEF AddFunds
<1>8. ASSUME NEW ob \in Openings, Reset(ob)
      PROVE  Abs(Off(i, lots'[i])) <= 100 * Cardinality(Filled(i)')
  <2>1. lots'[i] = NoLot /\ orders' = [id \in Ids |-> NoOrder]
    BY <1>8 DEF Reset
  <2>2. MarginPct(i, HeldSide(NoLot)) * 0 = 0
    BY Rates
  <2>3. Off(i, NoLot) = 0
    BY <2>2 DEF Off, NoLot
  <2>4. Filled(i)' = {}
    BY <2>1 DEF Filled, NoOrder
  <2>5. Cardinality(Filled(i)') = 0
    BY <2>4, FS_EmptySet
  <2> QED BY <2>1, <2>3, <2>5 DEF Abs
<1> QED BY <1>5, <1>6, <1>7, <1>8, MoneyMoves

\* The blocked margin of a position is its margin rate on its cost, to within a rupee
\* for every order of it filled, through any adds, partial closes and flips.
THEOREM MarginHolds == Spec => []MarginFollowsLot
<1>1. Init => MarginFollowsLot
  <2> SUFFICES ASSUME Init, NEW i \in Instruments
               PROVE  Abs(Off(i, lots[i])) <= 100 * Cardinality(Filled(i))
    BY DEF MarginFollowsLot, Off, HeldSide
  <2>1. lots[i] = NoLot
    BY DEF Init
  <2>2. MarginPct(i, HeldSide(NoLot)) * 0 = 0
    BY Rates
  <2>3. Off(i, NoLot) = 0
    BY <2>2 DEF Off, NoLot
  <2>4. Cardinality(Filled(i)) \in Nat
    BY FilledFinite
  <2> QED BY <2>1, <2>3, <2>4 DEF Abs
<1> QED BY <1>1, InitIInv, NextIInv, MarginSteps, PTL DEF Spec

----------------------------------------------------------------------------
(* The replay of a backtest: the sums over the open lots.  *)

SimLot == [qty : Nat \ {0}, price : Int, cost : Int]

\* The sum of a sequence is that of all but the last, and the last.
LEMMA SumLast ==
  ASSUME NEW n \in Nat \ {0}, NEW f \in [1..n -> Int], NEW g \in [1..(n - 1) -> Int],
         \A k \in 1..(n - 1) : f[k] = g[k]
  PROVE  SumFunction(g) \in Int /\ SumFunction(f) = SumFunction(g) + f[n]
<1> DEFINE R == 1..n
           S == 1..(n - 1)
<1>1. IsFiniteSet(R) /\ IsFiniteSet(S)
  BY FS_Interval
<1>2. n \in R /\ R \ {n} = S /\ S \in SUBSET (R \cap S)
  OBVIOUS
<1>3. SumFunction(f) = f[n] + Parts(f, R)[R \ {n}] /\ f[n] \in Int
  <2> HIDE DEF S
  <2> QED BY <1>1, <1>2, SumTake
<1>4. SumFunction(g) \in Int /\ SumFunction(g) = Parts(g, S)[S]
  <2> HIDE DEF R
  <2> QED BY <1>1, SumTyped, SumParts
<1>5. \A k \in S : f[k] = g[k]
  OBVIOUS
<1> HIDE DEF S, R
<1>6. Parts(f, R)[S] = Parts(g, S)[S]
  BY <1>1, <1>2, <1>5, PartsAlike
<1>7. Parts(f, R)[R \ {n}] = SumFunction(g)
  BY <1>2, <1>4, <1>6
<1> QED BY <1>3, <1>4, <1>7

\* The sums over the first k lots.
SharesTo(ls, k) == SumFunction([j \in 1..k |-> ls[j].qty])
ValueTo(ls, k)  == SumFunction([j \in 1..k |-> ls[j].qty * ls[j].price])
EntryTo(ls, k)  == SumFunction([j \in 1..k |-> ls[j].cost])

LEMMA NoLots ==
  ASSUME NEW ls
  PROVE  /\ SharesTo(ls, 0) = 0 /\ ValueTo(ls, 0) = 0 /\ EntryTo(ls, 0) = 0
         /\ Shares(<<>>) = 0 /\ Value(<<>>) = 0 /\ Entry(<<>>) = 0
<1> DEFINE e == [j \in {} |-> 0]
<1>1. SumFunction(e) = 0
  <2>1. IsFiniteSet({})
    BY FS_EmptySet
  <2> QED BY <2>1, SumZero
<1>3. 1..0 = {} /\ DOMAIN <<>> = {}
  OBVIOUS
<1>4. /\ [j \in 1..0 |-> ls[j].qty] = e /\ [j \in 1..0 |-> ls[j].qty * ls[j].price] = e
      /\ [j \in 1..0 |-> ls[j].cost] = e
  BY <1>3
<1>5. /\ [j \in DOMAIN <<>> |-> <<>>[j].qty] = e
      /\ [j \in DOMAIN <<>> |-> <<>>[j].qty * <<>>[j].price] = e
      /\ [j \in DOMAIN <<>> |-> <<>>[j].cost] = e
  BY <1>3
<1> HIDE DEF e
<1> QED BY <1>1, <1>4, <1>5 DEF SharesTo, ValueTo, EntryTo, Shares, Value, Entry

LEMMA LotsTo ==
  ASSUME NEW ls \in Seq(SimLot), NEW k \in 1..Len(ls)
  PROVE  /\ SharesTo(ls, k) = SharesTo(ls, k - 1) + ls[k].qty
         /\ ValueTo(ls, k) = ValueTo(ls, k - 1) + ls[k].qty * ls[k].price
         /\ EntryTo(ls, k) = EntryTo(ls, k - 1) + ls[k].cost
<1>1. /\ k \in Nat \ {0}
      /\ \A j \in 1..k : /\ ls[j].qty \in Nat \ {0} /\ ls[j].price \in Int
                         /\ ls[j].cost \in Int /\ ls[j].qty * ls[j].price \in Int
  <2>1. \A j \in 1..k : ls[j] \in SimLot
    OBVIOUS
  <2> QED BY <2>1 DEF SimLot
<1>2. SharesTo(ls, k) = SharesTo(ls, k - 1) + ls[k].qty
  <2> DEFINE f == [j \in 1..k |-> ls[j].qty]
             g == [j \in 1..(k - 1) |-> ls[j].qty]
  <2>1. /\ f \in [1..k -> Int] /\ g \in [1..(k - 1) -> Int] /\ f[k] = ls[k].qty
        /\ \A j \in 1..(k - 1) : f[j] = g[j]
    BY <1>1
  <2> HIDE DEF f, g
  <2>2. SumFunction(f) = SumFunction(g) + f[k]
    BY <1>1, <2>1, SumLast
  <2> QED BY <2>1, <2>2 DEF f, g, SharesTo
<1>3. ValueTo(ls, k) = ValueTo(ls, k - 1) + ls[k].qty * ls[k].price
  <2> DEFINE v(j) == ls[j].qty * ls[j].price
             f == [j \in 1..k |-> v(j)]
             g == [j \in 1..(k - 1) |-> v(j)]
  <2>1. /\ f \in [1..k -> Int] /\ g \in [1..(k - 1) -> Int] /\ f[k] = v(k)
        /\ \A j \in 1..(k - 1) : f[j] = g[j]
    <3>1. k \in Nat \ {0} /\ \A j \in 1..k : v(j) \in Int
      BY <1>1
    <3> HIDE DEF v
    <3> QED BY <3>1
  <2> HIDE DEF f, g
  <2>2. SumFunction(f) = SumFunction(g) + f[k]
    BY <1>1, <2>1, SumLast
  <2> QED BY <2>1, <2>2 DEF f, g, ValueTo
<1>4. EntryTo(ls, k) = EntryTo(ls, k - 1) + ls[k].cost
  <2> DEFINE f == [j \in 1..k |-> ls[j].cost]
             g == [j \in 1..(k - 1) |-> ls[j].cost]
  <2>1. /\ f \in [1..k -> Int] /\ g \in [1..(k - 1) -> Int] /\ f[k] = ls[k].cost
        /\ \A j \in 1..(k - 1) : f[j] = g[j]
    BY <1>1
  <2> HIDE DEF f, g
  <2>2. SumFunction(f) = SumFunction(g) + f[k]
    BY <1>1, <2>1, SumLast
  <2> QED BY <2>1, <2>2 DEF f, g, EntryTo
<1> QED BY <1>2, <1>3, <1>4

LEMMA LotsAll ==
  ASSUME NEW ls \in Seq(SimLot)
  PROVE  /\ Shares(ls) = SharesTo(ls, Len(ls)) /\ Value(ls) = ValueTo(ls, Len(ls))
         /\ Entry(ls) = EntryTo(ls, Len(ls))
         /\ Shares(ls) \in Nat /\ Value(ls) \in Int /\ Entry(ls) \in Int
         /\ ls # <<>> => Shares(ls) > 0
<1> DEFINE S == DOMAIN ls
           f == [j \in S |-> ls[j].qty]
           g == [j \in S |-> ls[j].qty * ls[j].price]
           h == [j \in S |-> ls[j].cost]
<1>1. S = 1..Len(ls) /\ Len(ls) \in Nat /\ IsFiniteSet(S)
  BY FS_Interval
<1>2. /\ f \in [S -> Int] /\ g \in [S -> Int] /\ h \in [S -> Int]
      /\ \A j \in S : f[j] > 0
  <2>1. \A j \in S : ls[j] \in SimLot
    OBVIOUS
  <2>2. \A j \in S : /\ ls[j].qty \in Nat \ {0} /\ ls[j].qty * ls[j].price \in Int
                     /\ ls[j].cost \in Int
    BY <2>1 DEF SimLot
  <2> HIDE DEF S
  <2> QED BY <2>2
<1>3. /\ Shares(ls) = SumFunction(f) /\ Value(ls) = SumFunction(g)
      /\ Entry(ls) = SumFunction(h)
  BY DEF Shares, Value, Entry
<1>4. /\ Shares(ls) = SharesTo(ls, Len(ls)) /\ Value(ls) = ValueTo(ls, Len(ls))
      /\ Entry(ls) = EntryTo(ls, Len(ls))
  BY <1>1, <1>3 DEF SharesTo, ValueTo, EntryTo
<1> HIDE DEF f, g, h, S
<1>5. Shares(ls) \in Nat /\ Value(ls) \in Int /\ Entry(ls) \in Int
  <2>1. \A x \in S : f[x] >= 0
    BY <1>2
  <2>2. SumFunction(f) \in Int /\ SumFunction(f) >= 0
    BY <1>1, <1>2, <2>1, SumTyped
  <2>3. SumFunction(g) \in Int /\ SumFunction(h) \in Int
    BY <1>1, <1>2, SumTyped
  <2> QED BY <1>3, <2>2, <2>3
<1>6. ASSUME ls # <<>>
      PROVE  Shares(ls) > 0
  <2>1. Len(ls) \in Nat \ {0}
    BY <1>6
  <2> DEFINE n == Len(ls)
             e == [j \in 1..(n - 1) |-> f[j]]
  <2>2. e \in [1..(n - 1) -> Int] /\ \A j \in 1..(n - 1) : e[j] >= 0 /\ f[j] = e[j]
    <3>1. \A j \in 1..n : f[j] \in Int /\ f[j] > 0
      BY <1>1, <1>2
    <3>2. n \in Nat \ {0}
      BY <2>1
    <3> HIDE DEF n
    <3>3. \A j \in 1..(n - 1) : f[j] \in Int /\ f[j] >= 0
      BY <3>1, <3>2
    <3> QED BY <3>3
  <2>3. IsFiniteSet(1..(n - 1))
    BY <2>1, FS_Interval
  <2> HIDE DEF e
  <2>4. SumFunction(e) \in Int /\ SumFunction(e) >= 0
    BY <2>2, <2>3, SumTyped
  <2>5. SumFunction(f) = SumFunction(e) + f[n]
    BY <1>1, <1>2, <2>1, <2>2, SumLast
  <2>6. f[n] \in Int /\ f[n] > 0
    BY <1>1, <1>2, <2>1
  <2> QED BY <1>3, <2>4, <2>5, <2>6
<1> QED BY <1>4, <1>5, <1>6

LEMMA ToTyped ==
  ASSUME NEW ls \in Seq(SimLot), NEW k \in 1..Len(ls)
  PROVE  ValueTo(ls, k - 1) \in Int /\ EntryTo(ls, k - 1) \in Int
<1>1. IsFiniteSet(1..(k - 1))
  BY FS_Interval
<1>2. \A j \in 1..(k - 1) : ls[j] \in SimLot
  OBVIOUS
<1>3. \A j \in 1..(k - 1) : ls[j].qty * ls[j].price \in Int /\ ls[j].cost \in Int
  BY <1>2 DEF SimLot
<1> DEFINE S == 1..(k - 1)
           f == [j \in S |-> ls[j].qty * ls[j].price]
           g == [j \in S |-> ls[j].cost]
<1> HIDE DEF S
<1>4. f \in [S -> Int] /\ g \in [S -> Int]
  BY <1>3 DEF S
<1> HIDE DEF f, g
<1>5. SumFunction(f) \in Int /\ SumFunction(g) \in Int
  BY <1>1, <1>4, SumTyped DEF S
<1> QED BY <1>5 DEF ValueTo, EntryTo, f, g, S

LEMMA LotAdded ==
  ASSUME NEW ls \in Seq(SimLot), NEW lot \in SimLot
  PROVE  /\ Append(ls, lot) \in Seq(SimLot) /\ Append(ls, lot) # <<>>
         /\ Shares(Append(ls, lot)) = Shares(ls) + lot.qty
         /\ Value(Append(ls, lot)) = Value(ls) + lot.qty * lot.price
         /\ Entry(Append(ls, lot)) = Entry(ls) + lot.cost
<1> DEFINE as == Append(ls, lot)
           n  == Len(ls)
<1>1. /\ as \in Seq(SimLot) /\ as # <<>> /\ Len(as) = n + 1 /\ n \in Nat
      /\ as[n + 1] = lot /\ \A j \in 1..n : as[j] = ls[j]
  OBVIOUS
<1> HIDE DEF as
<1>2. /\ SharesTo(as, n) = SharesTo(ls, n) /\ ValueTo(as, n) = ValueTo(ls, n)
      /\ EntryTo(as, n) = EntryTo(ls, n)
  <2>1. /\ [j \in 1..n |-> as[j].qty] = [j \in 1..n |-> ls[j].qty]
        /\ [j \in 1..n |-> as[j].qty * as[j].price] = [j \in 1..n |-> ls[j].qty * ls[j].price]
        /\ [j \in 1..n |-> as[j].cost] = [j \in 1..n |-> ls[j].cost]
    BY <1>1
  <2> QED BY <2>1 DEF SharesTo, ValueTo, EntryTo
<1>3. /\ SharesTo(as, n + 1) = SharesTo(as, n) + as[n + 1].qty
      /\ ValueTo(as, n + 1) = ValueTo(as, n) + as[n + 1].qty * as[n + 1].price
      /\ EntryTo(as, n + 1) = EntryTo(as, n) + as[n + 1].cost
  <2>1. n + 1 \in 1..Len(as) /\ (n + 1) - 1 = n
    BY <1>1
  <2> QED BY <1>1, <2>1, LotsTo
<1>4. /\ Shares(as) = SharesTo(as, n + 1) /\ Value(as) = ValueTo(as, n + 1)
      /\ Entry(as) = EntryTo(as, n + 1)
  BY <1>1, LotsAll
<1>5. /\ Shares(ls) = SharesTo(ls, n) /\ Value(ls) = ValueTo(ls, n)
      /\ Entry(ls) = EntryTo(ls, n)
  BY LotsAll
<1> HIDE DEF n
<1>6. /\ Shares(as) = Shares(ls) + lot.qty /\ Entry(as) = Entry(ls) + lot.cost
      /\ Value(as) = Value(ls) + lot.qty * lot.price
  BY <1>1, <1>2, <1>3, <1>4, <1>5
<1> QED BY <1>1, <1>6 DEF as

LEMMA OneLot ==
  ASSUME NEW lot \in SimLot
  PROVE  /\ <<lot>> \in Seq(SimLot) /\ <<lot>> # <<>>
         /\ Shares(<<lot>>) = lot.qty /\ Value(<<lot>>) = lot.qty * lot.price
         /\ Entry(<<lot>>) = lot.cost
<1>1. <<lot>> = Append(<<>>, lot) /\ <<>> \in Seq(SimLot)
  OBVIOUS
<1>2. lot.qty \in Int /\ lot.price \in Int /\ lot.cost \in Int
  BY DEF SimLot
<1>3. /\ Append(<<>>, lot) \in Seq(SimLot) /\ Append(<<>>, lot) # <<>>
      /\ Shares(Append(<<>>, lot)) = Shares(<<>>) + lot.qty
      /\ Value(Append(<<>>, lot)) = Value(<<>>) + lot.qty * lot.price
      /\ Entry(Append(<<>>, lot)) = Entry(<<>>) + lot.cost
  BY <1>1, LotAdded
<1> QED BY <1>1, <1>2, <1>3, NoLots

----------------------------------------------------------------------------
(* A closing fill.  *)

\* What n steps, each by a function of its own, make of a start a.
Iterated(g, n, D, a, F) ==
  /\ g = [k \in 0..n |-> g[k]] /\ \A k \in 0..n : g[k] \in D
  /\ g[0] = a /\ \A k \in 1..n : g[k] = F[k][g[k - 1]]

LEMMA Iterates ==
  ASSUME NEW n \in Nat, NEW D, NEW a \in D, NEW F,
         \A k \in 1..n : \A d \in D : F[k][d] \in D
  PROVE  \E g : Iterated(g, n, D, a, F)
<1> DEFINE Goes(g, m) == Iterated(g, m, D, a, F)
           T == {m \in Nat : m <= n => \E g : Goes(g, m)}
<1>1. 0 \in T
  <2> DEFINE g == [k \in 0..0 |-> a]
  <2>1. Goes(g, 0)
    BY DEF Iterated
  <2> HIDE DEF g, Goes
  <2> QED BY <2>1
<1>2. ASSUME NEW m \in T
      PROVE  m + 1 \in T
  <2>1. m \in Nat
    OBVIOUS
  <2>2. CASE m + 1 <= n
    <3>1. PICK g : Goes(g, m)
      BY <2>1, <2>2
    <3>2. m + 1 \in 1..n /\ g[m] \in D
      BY <2>1, <2>2, <3>1 DEF Iterated
    <3>3. F[m + 1][g[m]] \in D
      BY <3>2
    <3> DEFINE h == [k \in 0..(m + 1) |-> IF k = m + 1 THEN F[m + 1][g[m]] ELSE g[k]]
    <3>9. h[m + 1] = F[m + 1][g[m]] /\ \A k \in 0..m : h[k] = g[k]
      BY <2>1
    <3>7. h = [k \in 0..(m + 1) |-> h[k]]
      OBVIOUS
    <3> HIDE DEF h
    <3>4. \A k \in 0..(m + 1) : h[k] \in D
      BY <2>1, <3>1, <3>3, <3>9 DEF Iterated
    <3>5. h[0] = a
      BY <2>1, <3>1, <3>9 DEF Iterated
    <3>6. ASSUME NEW k \in 1..(m + 1) PROVE h[k] = F[k][h[k - 1]]
      <4>1. CASE k = m + 1
        BY <2>1, <3>9, <4>1
      <4>2. CASE k # m + 1
        <5>1. k \in 1..m /\ k - 1 \in 0..m /\ k \in 0..m
          BY <2>1, <4>2
        <5> QED BY <3>1, <3>9, <5>1 DEF Iterated
      <4> QED BY <4>1, <4>2
    <3>8. Goes(h, m + 1)
      BY <3>4, <3>5, <3>6, <3>7 DEF Iterated
    <3> HIDE DEF Goes
    <3> QED BY <2>1, <3>8
  <2>3. CASE ~(m + 1 <= n)
    BY <2>1, <2>3
  <2> QED BY <2>2, <2>3
<1>3. n \in T
  <2> HIDE DEF T
  <2>1. T \subseteq Nat
    BY DEF T
  <2> QED BY <1>1, <1>2, <2>1, NatSet
<1> QED BY <1>3

\* A cost split over the shares of a lot, all of them taken, is all of it.
LEMMA WholeCost ==
  ASSUME NEW c \in Int, NEW q \in Nat \ {0}
  PROVE  (c * q) \div q = c
<1> DEFINE d == (c * q) \div q
<1>1. c * q \in Int /\ d \in Int /\ q * d <= c * q /\ c * q < q * (d + 1)
  OBVIOUS
<1> HIDE DEF d
<1>2. ~(d < c)
  <2> SUFFICES ASSUME d + 1 <= c PROVE FALSE
    BY <1>1
  <2>1. q * (d + 1) <= q * c
    BY <1>1
  <2> QED BY <1>1, <2>1
<1>3. ~(c < d)
  <2> SUFFICES ASSUME c + 1 <= d PROVE FALSE
    BY <1>1
  <2>1. q * (c + 1) <= q * d /\ q * (c + 1) = q * c + q
    BY <1>1
  <2> QED BY <1>1, <2>1
<1> QED BY <1>1, <1>2, <1>3 DEF d

\* A fill on its way through the lots: what is left of it, the trades booked so far
\* and the lots that stay open.
Passage == [left : Nat, gross : Int, costs : Int, lots : Seq(SimLot)]

\* The gross profit of n shares closed at price p that were opened for v.
ProfitOf(way, p, n, v) == Sign(way) * (p * n - v)

LEMMA ProfitAdds ==
  ASSUME NEW way, NEW p \in Int, NEW m \in Int, NEW n \in Int, NEW v \in Int, NEW w \in Int
  PROVE  /\ ProfitOf(way, p, m, v) \in Int /\ ProfitOf(way, p, n, w) \in Int
         /\ ProfitOf(way, p, m, v) + ProfitOf(way, p, n, w) = ProfitOf(way, p, m + n, v + w)
<1> DEFINE pm == p * m
           pn == p * n
           pmn == p * (m + n)
           s == Sign(way)
<1>1. pm \in Int /\ pn \in Int /\ pmn = pm + pn
  OBVIOUS
<1>2. s = 1 \/ s = -1
  BY DEF Sign
<1> HIDE DEF pm, pn, pmn, s
<1>3. CASE s = 1
  BY <1>1, <1>3 DEF ProfitOf, s, pm, pn, pmn
<1>4. CASE s = -1
  <2>1. (-1) * (pm - v) + (-1) * (pn - w) = (-1) * (pmn - (v + w))
    BY <1>1
  <2> QED BY <1>1, <1>4, <2>1 DEF ProfitOf, s, pm, pn, pmn
<1> QED BY <1>2, <1>3, <1>4

LEMMA TimesAdds ==
  ASSUME NEW x \in Int, NEW m \in Int, NEW n \in Int
  PROVE  x * m \in Int /\ x * n \in Int /\ x * m + x * n = x * (m + n)
OBVIOUS

\* What one lot does to it: see Match.
Took(d, e, lot, price, x, way) ==
  /\ e \in Passage
  /\ e.left <= d.left
  /\ e.left > 0 => e.lots = d.lots
  /\ Shares(e.lots) = Shares(d.lots) + lot.qty - (d.left - e.left)
  /\ e.gross = d.gross + ProfitOf(way, price, d.left - e.left,
                                  lot.qty * lot.price + Value(d.lots) - Value(e.lots))
  /\ e.costs = d.costs + x * (d.left - e.left) + lot.cost + Entry(d.lots) - Entry(e.lots)

LEMMA MatchTakes ==
  ASSUME NEW d \in Passage, NEW lot \in SimLot, NEW price \in Int, NEW x \in Int, NEW way
  PROVE  Took(d, Match(d, lot, price, x, way), lot, price, x, way)
<1> DEFINE m == Least(d.left, lot.qty)
           entry == (lot.cost * m) \div lot.qty
           rest == [qty |-> lot.qty - m, price |-> lot.price, cost |-> lot.cost - entry]
           e == Match(d, lot, price, x, way)
<1>1. /\ lot.qty \in Nat \ {0} /\ lot.price \in Int /\ lot.cost \in Int
      /\ d.left \in Nat /\ d.gross \in Int /\ d.costs \in Int /\ d.lots \in Seq(SimLot)
      /\ Sign(way) \in Int
  BY DEF SimLot, Passage, Sign
<1>2. m \in Nat /\ m <= d.left /\ m <= lot.qty /\ (m = d.left \/ m = lot.qty)
  BY <1>1 DEF Least
<1>3. e.left = d.left - m
  BY DEF Match
<1>5. e.lots = IF m = lot.qty THEN d.lots ELSE Append(d.lots, rest)
  BY DEF Match
<1>15. e.gross = d.gross + Sign(way) * (price - lot.price) * m
  BY DEF Match
<1>16. e.costs = d.costs + entry + x * m
  BY DEF Match
<1>14. e = [left |-> e.left, gross |-> e.gross, costs |-> e.costs, lots |-> e.lots]
  BY DEF Match
<1>4. entry \in Int /\ (m = lot.qty => entry = lot.cost)
  <2>1. lot.cost * m \in Int
    BY <1>1, <1>2
  <2>2. m = lot.qty => entry = lot.cost
    BY <1>1, WholeCost
  <2> HIDE DEF m
  <2> QED BY <1>1, <2>1, <2>2
<1> HIDE DEF m, entry, e
<1>6. m # lot.qty => rest \in SimLot
  <2> SUFFICES ASSUME m # lot.qty PROVE rest \in SimLot
    OBVIOUS
  <2>1. lot.qty - m \in Nat \ {0} /\ lot.cost - entry \in Int
    BY <1>1, <1>2, <1>4
  <2> QED BY <1>1, <2>1 DEF SimLot
<1>17. rest.qty = lot.qty - m /\ rest.price = lot.price /\ rest.cost = lot.cost - entry
  OBVIOUS
<1> HIDE DEF rest
<1>7. /\ e.lots \in Seq(SimLot)
      /\ Shares(e.lots) = Shares(d.lots) + lot.qty - m
      /\ Value(e.lots) = Value(d.lots) + (lot.qty - m) * lot.price
      /\ Entry(e.lots) = Entry(d.lots) + lot.cost - entry
  <2>1. Shares(d.lots) \in Nat /\ Value(d.lots) \in Int /\ Entry(d.lots) \in Int
    BY <1>1, LotsAll
  <2>2. CASE m = lot.qty
    <3>1. (lot.qty - m) * lot.price = 0 /\ lot.qty - m = 0 /\ lot.cost - entry = 0
      BY <1>1, <1>4, <2>2
    <3>2. e.lots = d.lots /\ m \in Int /\ entry \in Int
      BY <1>2, <1>4, <1>5, <2>2
    <3>3. Shares(e.lots) = Shares(d.lots) + lot.qty - m
      BY <1>1, <2>1, <2>2, <3>2
    <3>4. Entry(e.lots) = Entry(d.lots) + lot.cost - entry
      BY <1>1, <1>4, <2>1, <2>2, <3>2
    <3>5. Value(e.lots) = Value(d.lots) + 0
      BY <2>1, <3>2
    <3> QED BY <1>1, <3>1, <3>2, <3>3, <3>4, <3>5
  <2>3. CASE m # lot.qty
    <3>1. e.lots = Append(d.lots, rest) /\ rest \in SimLot
      BY <1>5, <1>6, <2>3
    <3>2. /\ Append(d.lots, rest) \in Seq(SimLot)
          /\ Shares(Append(d.lots, rest)) = Shares(d.lots) + rest.qty
          /\ Value(Append(d.lots, rest)) = Value(d.lots) + rest.qty * rest.price
          /\ Entry(Append(d.lots, rest)) = Entry(d.lots) + rest.cost
      BY <1>1, <3>1, LotAdded
    <3>4. Shares(e.lots) = Shares(d.lots) + lot.qty - m
      BY <1>1, <1>2, <1>17, <2>1, <3>1, <3>2
    <3>5. Entry(e.lots) = Entry(d.lots) + lot.cost - entry
      BY <1>1, <1>4, <1>17, <2>1, <3>1, <3>2
    <3> QED BY <1>17, <3>1, <3>2, <3>4, <3>5
  <2> QED BY <2>2, <2>3
<1>8. e \in Passage
  <2>1. Sign(way) * (price - lot.price) * m \in Int /\ x * m \in Int
    BY <1>1, <1>2
  <2>3. e.left \in Nat
    BY <1>1, <1>2, <1>3
  <2>4. e.gross \in Int
    BY <1>1, <1>15, <2>1
  <2>5. e.costs \in Int
    <3> DEFINE xm == x * m
    <3>1. xm \in Int /\ e.costs = d.costs + entry + xm
      BY <1>16, <2>1
    <3> HIDE DEF xm
    <3> QED BY <1>1, <1>4, <3>1
  <2>2. e.left \in Nat /\ e.gross \in Int /\ e.costs \in Int
    BY <2>3, <2>4, <2>5
  <2> QED BY <1>14, <1>7, <2>2 DEF Passage
<1>9. d.left - e.left = m /\ (e.left > 0 => m = lot.qty) /\ e.left <= d.left
  BY <1>1, <1>2, <1>3
<1>10. e.left > 0 => e.lots = d.lots
  BY <1>5, <1>9
<1>11. e.gross = d.gross + ProfitOf(way, price, m,
                                    lot.qty * lot.price + Value(d.lots) - Value(e.lots))
  <2>1. Value(d.lots) \in Int
    BY <1>1, LotsAll
  <2>2. (lot.qty - m) * lot.price = lot.qty * lot.price - m * lot.price
    BY <1>1, <1>2
  <2>3. /\ lot.qty * lot.price \in Int /\ m * lot.price \in Int /\ price * m \in Int
        /\ (price - lot.price) * m = price * m - m * lot.price
    BY <1>1, <1>2
  <2>4. lot.qty * lot.price + Value(d.lots) - Value(e.lots) = m * lot.price
    BY <1>7, <2>1, <2>2, <2>3
  <2>5. Sign(way) * (price - lot.price) * m = Sign(way) * ((price - lot.price) * m)
    BY <1>1, <1>2
  <2> QED BY <1>15, <2>3, <2>4, <2>5 DEF ProfitOf
<1>12. e.costs = d.costs + x * m + lot.cost + Entry(d.lots) - Entry(e.lots)
  <2>1. Entry(d.lots) \in Int /\ x * m \in Int
    BY <1>1, <1>2, LotsAll
  <2> DEFINE xm == x * m
  <2>2. xm \in Int /\ e.costs = d.costs + entry + xm
    BY <1>16, <2>1
  <2>3. Entry(e.lots) = Entry(d.lots) + lot.cost - entry
    BY <1>7
  <2>4. Entry(d.lots) \in Int
    BY <2>1
  <2> HIDE DEF xm
  <2>5. e.costs = d.costs + xm + lot.cost + Entry(d.lots) - Entry(e.lots)
    BY <1>1, <1>4, <2>2, <2>3, <2>4
  <2> QED BY <2>5 DEF xm
<1> QED BY <1>7, <1>8, <1>9, <1>10, <1>11, <1>12 DEF Took, e

\* What a closing fill makes of the lots: see Matched.
ClosedOut(d, ls, way, qty, price, x) ==
  /\ d \in Passage
  /\ d.left <= qty
  /\ d.left > 0 => d.lots = <<>>
  /\ Shares(ls) = (qty - d.left) + Shares(d.lots)
  /\ d.gross = closed.gross + ProfitOf(way, price, qty - d.left, Value(ls) - Value(d.lots))
  /\ d.costs = closed.costs + x * (qty - d.left) + Entry(ls) - Entry(d.lots)

LEMMA MatchedCloses ==
  ASSUME NEW ls \in Seq(SimLot), NEW way, NEW qty \in Nat, NEW price \in Int, NEW x \in Int,
         closed \in [gross : Int, costs : Int]
  PROVE  ClosedOut(Matched(ls, way, qty, price, x), ls, way, qty, price, x)
<1> DEFINE n == Len(ls)
           start == [left |-> qty, gross |-> closed.gross, costs |-> closed.costs,
                     lots |-> <<>>]
           F == [k \in 1..n |-> [d \in Passage |-> Match(d, ls[k], price, x, way)]]
           Run(g) == g = [k \in 0..n |-> IF k = 0 THEN start
                                         ELSE Match(g[k - 1], ls[k], price, x, way)]
           done == CHOOSE g : Run(g)
<1>1. n \in Nat /\ \A k \in 1..n : ls[k] \in SimLot
  OBVIOUS
<1>2. start \in Passage
  BY DEF Passage
<1>3. \A k \in 1..n, d \in Passage : Took(d, Match(d, ls[k], price, x, way), ls[k], price, x, way)
  BY <1>1, MatchTakes
<1>4. \A k \in 1..n : \A d \in Passage : F[k][d] = Match(d, ls[k], price, x, way)
                                         /\ F[k][d] \in Passage
  BY <1>3 DEF Took
<1>5. PICK g : Iterated(g, n, Passage, start, F)
  <2> HIDE DEF start, F, n
  <2> QED BY <1>1, <1>2, <1>4, Iterates
<1>6. Run(g)
  <2> HIDE DEF start
  <2>1. \A k \in 1..n : k - 1 \in 0..n /\ g[k] = Match(g[k - 1], ls[k], price, x, way)
    <3> HIDE DEF n, F
    <3>1. \A k \in 1..n : k - 1 \in 0..n
      BY <1>1
    <3> QED BY <1>4, <1>5, <3>1 DEF Iterated
  <2> HIDE DEF n, F
  <2>2. \A k \in 0..n : g[k] = IF k = 0 THEN start ELSE Match(g[k - 1], ls[k], price, x, way)
    <3>1. \A k \in 0..n : k = 0 \/ k \in 1..n
      BY <1>1
    <3> QED BY <1>5, <2>1, <3>1 DEF Iterated
  <2> QED BY <1>5, <2>2 DEF Iterated
<1>7. Run(done)
  <2> HIDE DEF Run
  <2> QED BY <1>6
<1>8. Matched(ls, way, qty, price, x) = done[n]
  BY DEF Matched
<1>9. /\ done[0] = start
      /\ \A k \in 1..n : done[k] = Match(done[k - 1], ls[k], price, x, way)
  <2> HIDE DEF done, start, F, n
  <2> QED BY <1>1, <1>7
<1> HIDE DEF done
\* What holds of the fill once it has met the first k lots.
<1> DEFINE Met(k) ==
      LET d == done[k]
      IN  /\ d \in Passage /\ d.left <= qty
          /\ d.left > 0 => d.lots = <<>>
          /\ SharesTo(ls, k) = (qty - d.left) + Shares(d.lots)
          /\ d.gross = closed.gross
                 + ProfitOf(way, price, qty - d.left, ValueTo(ls, k) - Value(d.lots))
          /\ d.costs = closed.costs + x * (qty - d.left) + EntryTo(ls, k) - Entry(d.lots)
           N == {k \in Nat : k <= n => Met(k)}
<1>10. Met(0)
  <2>1. qty - qty = 0 /\ x * 0 = 0 /\ ProfitOf(way, price, 0, 0) = 0
    BY DEF Sign, ProfitOf
  <2>2. closed.gross \in Int /\ closed.costs \in Int
    OBVIOUS
  <2>3. /\ start.left = qty /\ start.gross = closed.gross /\ start.costs = closed.costs
        /\ start.lots = <<>>
    OBVIOUS
  <2> HIDE DEF start
  <2>4. /\ start.gross = closed.gross
               + ProfitOf(way, price, qty - start.left, ValueTo(ls, 0) - Value(start.lots))
        /\ start.costs = closed.costs + x * (qty - start.left)
                            + EntryTo(ls, 0) - Entry(start.lots)
        /\ SharesTo(ls, 0) = (qty - start.left) + Shares(start.lots)
    BY <2>1, <2>2, <2>3, NoLots
  <2> QED BY <1>2, <1>9, <2>3, <2>4
<1>11. ASSUME NEW k \in Nat, k + 1 <= n, Met(k)
       PROVE  Met(k + 1)
  <2> DEFINE d == done[k]
             e == done[k + 1]
             lot == ls[k + 1]
  <2>1. k + 1 \in 1..n /\ (k + 1) - 1 = k
    BY <1>1, <1>11
  <2>2. lot \in SimLot /\ d \in Passage /\ Took(d, e, lot, price, x, way)
    BY <1>1, <1>3, <1>9, <1>11, <2>1
  <2>3. /\ SharesTo(ls, k + 1) = SharesTo(ls, k) + lot.qty
        /\ EntryTo(ls, k + 1) = EntryTo(ls, k) + lot.cost
    BY <2>1, LotsTo
  <2>19. ValueTo(ls, k + 1) = ValueTo(ls, k) + lot.qty * lot.price
    BY <2>1, LotsTo
  <2>4. /\ d.left \in Nat /\ d.gross \in Int /\ d.costs \in Int /\ d.lots \in Seq(SimLot)
        /\ e \in Passage
        /\ e.left \in Nat /\ e.gross \in Int /\ e.costs \in Int /\ e.lots \in Seq(SimLot)
        /\ lot.qty \in Nat /\ lot.price \in Int /\ lot.cost \in Int
        /\ closed.gross \in Int /\ closed.costs \in Int
    <3>1. d \in Passage /\ e \in Passage /\ lot \in SimLot
      BY <2>2 DEF Took
    <3> HIDE DEF d, e, lot
    <3> QED BY <3>1 DEF Passage, SimLot
  <2>5. /\ Shares(d.lots) \in Nat /\ Value(d.lots) \in Int /\ Entry(d.lots) \in Int
        /\ Shares(e.lots) \in Nat /\ Value(e.lots) \in Int /\ Entry(e.lots) \in Int
    BY <2>4, LotsAll
  <2>6. d.left <= qty /\ (d.left > 0 => d.lots = <<>>)
    BY <1>11
  <2>7. SharesTo(ls, k) = (qty - d.left) + Shares(d.lots)
    BY <1>11
  <2>8. d.gross = closed.gross
           + ProfitOf(way, price, qty - d.left, ValueTo(ls, k) - Value(d.lots))
    BY <1>11
  <2>9. d.costs = closed.costs + x * (qty - d.left) + EntryTo(ls, k) - Entry(d.lots)
    BY <1>11
  <2>10. e.left <= d.left /\ (e.left > 0 => e.lots = d.lots)
    BY <2>2 DEF Took
  <2>11. Shares(e.lots) = Shares(d.lots) + lot.qty - (d.left - e.left)
    BY <2>2 DEF Took
  <2>12. e.gross = d.gross + ProfitOf(way, price, d.left - e.left,
                                     lot.qty * lot.price + Value(d.lots) - Value(e.lots))
    BY <2>2 DEF Took
  <2>13. e.costs = d.costs + x * (d.left - e.left) + lot.cost + Entry(d.lots) - Entry(e.lots)
    BY <2>2 DEF Took
  <2>14. ValueTo(ls, k) \in Int /\ EntryTo(ls, k) \in Int
    BY <2>1, ToTyped
  <2>21. /\ d.left \in Nat /\ e.left \in Nat
         /\ d.gross \in Int /\ e.gross \in Int /\ d.costs \in Int /\ e.costs \in Int
         /\ lot.qty \in Nat /\ lot.price \in Int /\ lot.cost \in Int
         /\ closed.gross \in Int /\ closed.costs \in Int
    BY <2>4
  <2> HIDE DEF d, e, lot, Met, Run, F, start, n, N
  <2>15. e.left <= qty /\ (e.left > 0 => e.lots = <<>>)
    BY <2>4, <2>6, <2>10
  <2> DEFINE a == qty - d.left
             b == d.left - e.left
  <2>20. a \in Int /\ b \in Int /\ a + b = qty - e.left
    <3>1. d.left \in Nat /\ e.left \in Nat
      BY <2>21
    <3> QED BY <3>1
  <2>16. SharesTo(ls, k + 1) = (qty - e.left) + Shares(e.lots)
    <3> DEFINE sd == Shares(d.lots)
               se == Shares(e.lots)
               s0 == SharesTo(ls, k)
               s1 == SharesTo(ls, k + 1)
               sl == lot.qty
    <3>1. /\ sd \in Int /\ se \in Int /\ sl \in Int
          /\ s1 = s0 + sl /\ s0 = a + sd /\ se = sd + sl - b
      BY <2>3, <2>5, <2>7, <2>11, <2>21
    <3> HIDE DEF sd, se, s0, s1, sl, a, b
    <3>2. s1 = (a + b) + se
      BY <2>20, <3>1
    <3> QED BY <2>20, <3>2 DEF s1, se
  <2>17. e.gross = closed.gross
           + ProfitOf(way, price, qty - e.left, ValueTo(ls, k + 1) - Value(e.lots))
    <3> DEFINE v0 == ValueTo(ls, k)
               v1 == ValueTo(ls, k + 1)
               vd == Value(d.lots)
               ve == Value(e.lots)
               lv == lot.qty * lot.price
               u == v0 - vd
               w == lv + vd - ve
    <3>1. /\ lv \in Int /\ v0 \in Int /\ vd \in Int /\ ve \in Int
          /\ v1 = v0 + lv
      <4>1. lv \in Int
        BY <2>21
      <4> QED BY <2>5, <2>14, <2>19, <4>1
    <3>3. /\ d.gross = closed.gross + ProfitOf(way, price, a, u)
          /\ e.gross = d.gross + ProfitOf(way, price, b, w)
      BY <2>8, <2>12
    <3> HIDE DEF lv, v0, v1, vd, ve
    <3>2. u \in Int /\ w \in Int /\ u + w = v1 - ve
      BY <3>1
    <3> HIDE DEF u, w, a, b
    <3>4. /\ ProfitOf(way, price, a, u) \in Int /\ ProfitOf(way, price, b, w) \in Int
          /\ ProfitOf(way, price, a, u) + ProfitOf(way, price, b, w)
                = ProfitOf(way, price, a + b, u + w)
      BY <2>20, <3>2, ProfitAdds
    <3>5. e.gross = closed.gross + ProfitOf(way, price, a + b, u + w)
      BY <2>21, <3>3, <3>4
    <3> QED BY <2>20, <3>2, <3>5 DEF v1, ve
  <2>18. e.costs = closed.costs + x * (qty - e.left) + EntryTo(ls, k + 1) - Entry(e.lots)
    <3> DEFINE xa == x * a
               xb == x * b
               xc == x * (a + b)
               c0 == EntryTo(ls, k)
               c1 == EntryTo(ls, k + 1)
               cd == Entry(d.lots)
               ce == Entry(e.lots)
               cl == lot.cost
               x0 == closed.costs
               x1 == d.costs
               x2 == e.costs
    <3>1. xa \in Int /\ xb \in Int /\ xc = xa + xb
      <4> HIDE DEF a, b
      <4> QED BY <2>20, TimesAdds
    <3>2. x1 = x0 + xa + c0 - cd /\ x2 = x1 + xb + cl + cd - ce
      BY <2>9, <2>13
    <3>4. /\ x0 \in Int /\ x1 \in Int /\ x2 \in Int
          /\ c0 \in Int /\ cd \in Int /\ ce \in Int /\ cl \in Int /\ c1 = c0 + cl
      BY <2>3, <2>5, <2>14, <2>21
    <3> HIDE DEF xa, xb, xc, c0, c1, cd, ce, cl, x0, x1, x2
    <3>3. x2 = x0 + xc + c1 - ce
      BY <3>1, <3>2, <3>4
    <3> HIDE DEF a, b
    <3> QED BY <2>20, <3>3 DEF xc, c1, ce, x0, x2
  <2> QED BY <2>4, <2>15, <2>16, <2>17, <2>18 DEF Met, e
<1> HIDE DEF Met
<1>12. Met(n)
  <2>1. N \subseteq Nat /\ 0 \in N
    BY <1>10
  <2>2. ASSUME NEW k \in N PROVE k + 1 \in N
    <3>1. k \in Nat /\ (k <= n => Met(k))
      OBVIOUS
    <3>2. k + 1 <= n => Met(k + 1)
      BY <1>1, <1>11, <3>1
    <3> QED BY <3>1, <3>2
  <2> HIDE DEF N
  <2>3. n \in N
    BY <1>1, <2>1, <2>2, NatSet
  <2> QED BY <1>1, <2>3 DEF N
<1>13. /\ Shares(ls) = SharesTo(ls, n) /\ Value(ls) = ValueTo(ls, n)
       /\ Entry(ls) = EntryTo(ls, n)
  BY LotsAll
<1>14. Matched(ls, way, qty, price, x) = done[n]
  BY <1>8
<1> HIDE DEF n
<1> QED BY <1>12, <1>13, <1>14 DEF Met, ClosedOut

----------------------------------------------------------------------------
(* What a fill does to the open lots of its instrument.  *)

SimSides == {"none", "long", "short"}

SimTyped ==
  /\ at \in {"next", "bar"}
  /\ bar \in [of : Universe, close : Closes]
  /\ last \in [Universe -> Nat]
  /\ pos \in [Universe -> Int]
  /\ cash \in Int /\ costs \in Int
  /\ openLots \in [Universe -> Seq(SimLot)]
  /\ sideOf \in [Universe -> SimSides]
  /\ closed \in [gross : Int, costs : Int]
  /\ flipped \in BOOLEAN

\* The open lots are on one side, and are the position.
LotsArePosition ==
  \A i \in Universe :
    /\ sideOf[i] = "none" <=> openLots[i] = <<>>
    /\ pos[i] = Sign(sideOf[i]) * Shares(openLots[i])

\* The fill of n shares at price, for a cost of x each, moves the position by n, the
\* money in the open lots and the trades by what it paid, and the costs in them by
\* its own, less what a reversal loses.
Rounded(i, s, n, price, x) ==
  /\ openLots' \in [Universe -> Seq(SimLot)]
  /\ sideOf' \in [Universe -> SimSides]
  /\ closed' \in [gross : Int, costs : Int]
  /\ \A j \in Universe \ {i} : openLots'[j] = openLots[j] /\ sideOf'[j] = sideOf[j]
  /\ sideOf'[i] = "none" <=> openLots'[i] = <<>>
  /\ Sign(sideOf'[i]) * Shares(openLots'[i]) = pos[i] + s * n
  /\ Sign(sideOf'[i]) * Value(openLots'[i]) - closed'.gross
       = Sign(sideOf[i]) * Value(openLots[i]) - closed.gross + s * (n * price)
  /\ \E lost \in Nat :
       /\ Entry(openLots'[i]) + closed'.costs
            = Entry(openLots[i]) + closed.costs + x * n - lost
       /\ lost > 0 => pos[i] * (pos[i] + s * n) < 0

\* A fill on the side of the open lots, or where there are none.
LEMMA FillOpens ==
  ASSUME SimTyped, LotsArePosition, NEW i \in Universe, NEW s \in {1, -1},
         NEW n \in Nat \ {0}, NEW price \in Int, NEW x \in Nat, NEW way,
         way = IF s = 1 THEN "long" ELSE "short",
         sideOf[i] \in {"none", way}, Rounds(i, way, n, price, x)
  PROVE  Rounded(i, s, n, price, x)
<1> DEFINE lot == [qty |-> n, price |-> price, cost |-> x * n]
           ls == openLots[i]
           v == Value(ls)
           np == n * price
<1>1. /\ openLots' = [openLots EXCEPT ![i] = Append(ls, lot)]
      /\ sideOf' = [sideOf EXCEPT ![i] = way] /\ closed' = closed
  BY DEF Rounds
<1>2. /\ ls \in Seq(SimLot) /\ openLots \in [Universe -> Seq(SimLot)]
      /\ sideOf \in [Universe -> SimSides] /\ closed \in [gross : Int, costs : Int]
      /\ pos[i] \in Int
  BY DEF SimTyped
<1>3. lot \in SimLot /\ lot.qty = n /\ lot.price = price /\ lot.cost = x * n
  <2>1. x * n \in Int
    OBVIOUS
  <2> QED BY <2>1 DEF SimLot
<1>4. way \in SimSides /\ way # "none" /\ Sign(way) = s
  BY DEF SimSides, Sign
<1>5. sideOf[i] = way \/ (sideOf[i] = "none" /\ ls = <<>>)
  BY DEF LotsArePosition
<1>6. pos[i] = Sign(sideOf[i]) * Shares(ls)
  BY DEF LotsArePosition
<1> HIDE DEF lot, ls
<1>7. /\ Append(ls, lot) \in Seq(SimLot) /\ Append(ls, lot) # <<>>
      /\ Shares(Append(ls, lot)) = Shares(ls) + n
      /\ Value(Append(ls, lot)) = Value(ls) + np
      /\ Entry(Append(ls, lot)) = Entry(ls) + x * n
  BY <1>2, <1>3, LotAdded
<1>8. Shares(ls) \in Nat /\ v \in Int /\ Entry(ls) \in Int
  BY <1>2, LotsAll
<1>9. openLots'[i] = Append(ls, lot) /\ sideOf'[i] = way
  BY <1>1, <1>2
<1>10. /\ openLots' \in [Universe -> Seq(SimLot)]
       /\ \A j \in Universe \ {i} : openLots'[j] = openLots[j]
  BY <1>1, <1>2, <1>7
<1>11. /\ sideOf' \in [Universe -> SimSides]
       /\ \A j \in Universe \ {i} : sideOf'[j] = sideOf[j]
  BY <1>1, <1>2, <1>4
<1>12. Sign(way) * Shares(Append(ls, lot)) = pos[i] + s * n
  <2> DEFINE q == Shares(ls)
  <2>1. q \in Int /\ Shares(Append(ls, lot)) = q + n /\ n \in Int
    BY <1>7, <1>8
  <2>2. pos[i] = s * q
    <3>1. CASE sideOf[i] = way
      BY <1>4, <1>6, <3>1
    <3>2. CASE ls = <<>> /\ sideOf[i] = "none"
      BY <1>6, <3>2, NoLots DEF Sign
    <3> QED BY <1>5, <3>1, <3>2
  <2> HIDE DEF q
  <2>3. s * (q + n) = s * q + s * n
    BY <2>1
  <2> QED BY <1>4, <2>1, <2>2, <2>3
<1>13. Sign(way) * Value(Append(ls, lot)) - closed'.gross
         = Sign(sideOf[i]) * Value(ls) - closed.gross + s * np
  <2> DEFINE cg == closed.gross
  <2>1. np \in Int /\ cg \in Int /\ closed'.gross = cg
    BY <1>1, <1>2
  <2>2. Sign(sideOf[i]) * Value(ls) = s * v
    <3>1. CASE sideOf[i] = way
      BY <1>4, <3>1
    <3>2. CASE ls = <<>> /\ sideOf[i] = "none"
      BY <3>2, NoLots DEF Sign
    <3> QED BY <1>5, <3>1, <3>2
  <2>3. Value(Append(ls, lot)) = v + np
    BY <1>7
  <2> HIDE DEF v, np, cg
  <2>4. s * (v + np) = s * v + s * np /\ s * v \in Int /\ s * np \in Int
    BY <1>8, <2>1
  <2>5. s * (v + np) - cg = s * v - cg + s * np
    <3> DEFINE sv == s * v
               sn == s * np
    <3>1. sv \in Int /\ sn \in Int /\ s * (v + np) = sv + sn
      BY <2>4
    <3> HIDE DEF sv, sn
    <3>2. (sv + sn) - cg = sv - cg + sn
      BY <2>1, <3>1
    <3> QED BY <3>1, <3>2 DEF sv, sn
  <2> QED BY <1>4, <2>1, <2>2, <2>3, <2>5 DEF cg
<1>14. Entry(openLots'[i]) + closed'.costs = Entry(ls) + closed.costs + x * n - 0
  <2> DEFINE xn == x * n
             cc == closed.costs
             en == Entry(ls)
  <2>1. /\ xn \in Int /\ cc \in Int /\ en \in Int /\ closed'.costs = cc
        /\ Entry(openLots'[i]) = en + xn
    BY <1>1, <1>2, <1>7, <1>8, <1>9
  <2> HIDE DEF xn, cc, en
  <2>2. (en + xn) + cc = en + cc + xn - 0
    BY <2>1
  <2> QED BY <2>1, <2>2 DEF xn, cc, en
<1>15. closed' \in [gross : Int, costs : Int]
  BY <1>1, <1>2
<1>16. \E lost \in Nat :
         /\ Entry(openLots'[i]) + closed'.costs = Entry(ls) + closed.costs + x * n - lost
         /\ lost > 0 => pos[i] * (pos[i] + s * n) < 0
  <2>1. 0 \in Nat /\ ~(0 > 0)
    OBVIOUS
  <2> QED BY <1>14, <2>1
<1> QED BY <1>4, <1>7, <1>9, <1>10, <1>11, <1>12, <1>13, <1>15, <1>16 DEF Rounded, ls, np

\* A fill against the open lots.
LEMMA FillCloses ==
  ASSUME SimTyped, LotsArePosition, NEW i \in Universe, NEW s \in {1, -1},
         NEW n \in Nat \ {0}, NEW price \in Int, NEW x \in Nat, NEW way,
         way = IF s = 1 THEN "long" ELSE "short",
         sideOf[i] \notin {"none", way}, Rounds(i, way, n, price, x)
  PROVE  Rounded(i, s, n, price, x)
<1> DEFINE ls == openLots[i]
           sd == sideOf[i]
           d == Matched(ls, sd, n, price, x)
           ls2 == IF d.left > 0 THEN <<[qty |-> d.left, price |-> price, cost |-> 0]>>
                  ELSE d.lots
           sd2 == CASE d.left > 0 -> way
                    [] d.left = 0 /\ d.lots = <<>> -> "none"
                    [] OTHER -> sd
           q  == Shares(ls)
           q1 == Shares(d.lots)
           q2 == Shares(ls2)
           v  == Value(ls)
           v1 == Value(d.lots)
           v2 == Value(ls2)
           e  == Entry(ls)
           e1 == Entry(d.lots)
           e2 == Entry(ls2)
           l  == d.left
           np == n * price
           xn == x * n
           xl == x * l
           g  == closed.gross
           c  == closed.costs
<1>1. /\ openLots' = [openLots EXCEPT ![i] = ls2]
      /\ sideOf' = [sideOf EXCEPT ![i] = sd2]
      /\ closed' = [gross |-> d.gross, costs |-> d.costs]
  BY DEF Rounds
<1>2. /\ ls \in Seq(SimLot) /\ openLots \in [Universe -> Seq(SimLot)]
      /\ sideOf \in [Universe -> SimSides] /\ closed \in [gross : Int, costs : Int]
      /\ pos[i] \in Int /\ sd \in SimSides
  BY DEF SimTyped
<1>3. sd # "none" /\ way \in SimSides /\ way # "none" /\ Sign(way) = s /\ Sign(sd) = -s
  BY <1>2 DEF SimSides, Sign
<1>4. ls # <<>> /\ pos[i] = (-s) * q
  BY <1>3 DEF LotsArePosition
<1> HIDE DEF ls, sd
<1>5. ClosedOut(d, ls, sd, n, price, x)
  <2>1. n \in Nat /\ x \in Int
    OBVIOUS
  <2> QED BY <1>2, <2>1, MatchedCloses
<1> HIDE DEF d
<1>6. d \in Passage /\ l <= n /\ (l > 0 => d.lots = <<>>)
  BY <1>5 DEF ClosedOut
<1>7. d.lots \in Seq(SimLot) /\ l \in Nat /\ d.gross \in Int /\ d.costs \in Int
  BY <1>6 DEF Passage
<1>8. q = (n - l) + q1
  BY <1>5 DEF ClosedOut
<1>9. d.gross = g + ProfitOf(sd, price, n - l, v - v1)
  BY <1>5 DEF ClosedOut
<1>10. d.costs = c + x * (n - l) + e - e1
  BY <1>5 DEF ClosedOut
<1>11. /\ q \in Nat /\ q > 0 /\ v \in Int /\ e \in Int
       /\ q1 \in Nat /\ v1 \in Int /\ e1 \in Int
       /\ g \in Int /\ c \in Int /\ n \in Int /\ l \in Int
  <2>1. q \in Nat /\ q > 0 /\ v \in Int /\ e \in Int
    BY <1>2, <1>4, LotsAll
  <2>2. q1 \in Nat /\ v1 \in Int /\ e1 \in Int
    BY <1>7, LotsAll
  <2>3. g \in Int /\ c \in Int
    BY <1>2
  <2>4. n \in Int /\ l \in Int
    BY <1>7
  <2> HIDE DEF q, v, e, q1, v1, e1, g, c, l
  <2> QED BY <2>1, <2>2, <2>3, <2>4
<1>12. /\ ls2 \in Seq(SimLot) /\ (sd2 = "none" <=> ls2 = <<>>) /\ sd2 \in SimSides
       /\ l > 0 => /\ Sign(sd2) = s /\ q2 = l /\ v2 = l * price /\ e2 = 0
                   /\ q1 = 0 /\ v1 = 0 /\ e1 = 0
       /\ l = 0 => ls2 = d.lots /\ (Sign(sd2) = -s \/ ls2 = <<>>)
  <2>1. CASE l > 0
    <3> DEFINE lot == [qty |-> l, price |-> price, cost |-> 0]
    <3>1. ls2 = <<lot>> /\ sd2 = way
      BY <2>1
    <3>2. lot \in SimLot /\ lot.qty = l /\ lot.price = price /\ lot.cost = 0
      BY <1>7, <2>1 DEF SimLot
    <3> HIDE DEF lot
    <3>3. /\ <<lot>> \in Seq(SimLot) /\ <<lot>> # <<>>
          /\ Shares(<<lot>>) = l /\ Value(<<lot>>) = l * price /\ Entry(<<lot>>) = 0
      BY <3>2, OneLot
    <3>4. q1 = 0 /\ v1 = 0 /\ e1 = 0
      BY <1>6, <2>1, NoLots
    <3>5. ~(l = 0)
      BY <2>1
    <3> HIDE DEF ls2, sd2, q1, v1, e1, l
    <3> QED BY <1>3, <3>1, <3>3, <3>4, <3>5
  <2>2. CASE ~(l > 0)
    <3>1. l = 0 /\ ls2 = d.lots /\ sd2 = IF d.lots = <<>> THEN "none" ELSE sd
      BY <1>7, <2>2
    <3>2. ls2 \in Seq(SimLot)
      BY <1>7, <3>1
    <3>3. sd2 \in SimSides /\ (sd2 = "none" <=> ls2 = <<>>) /\ (Sign(sd2) = -s \/ ls2 = <<>>)
      <4> HIDE DEF ls2, sd2, l
      <4>1. CASE d.lots = <<>>
        BY <3>1, <4>1 DEF SimSides
      <4>2. CASE d.lots # <<>>
        BY <1>2, <1>3, <3>1, <4>2
      <4> QED BY <4>1, <4>2
    <3> HIDE DEF ls2, sd2, l
    <3> QED BY <2>2, <3>1, <3>2, <3>3
  <2> QED BY <2>1, <2>2
<1>13. q2 \in Nat /\ v2 \in Int /\ e2 \in Int
  BY <1>12, LotsAll
<1> HIDE DEF ls2, sd2
<1>14. openLots'[i] = ls2 /\ sideOf'[i] = sd2 /\ closed'.gross = d.gross /\ closed'.costs = d.costs
  BY <1>1, <1>2
<1>15. /\ openLots' \in [Universe -> Seq(SimLot)]
       /\ \A j \in Universe \ {i} : openLots'[j] = openLots[j]
  BY <1>1, <1>2, <1>12
<1>16. /\ sideOf' \in [Universe -> SimSides]
       /\ \A j \in Universe \ {i} : sideOf'[j] = sideOf[j]
  BY <1>1, <1>2, <1>12
<1>17. closed' \in [gross : Int, costs : Int]
  BY <1>1, <1>7
\* Where nothing is left of the fill, the sums are those of the lots that stay.
<1>18. l = 0 => q2 = q1 /\ v2 = v1 /\ e2 = e1
  BY <1>12
<1>19. l = 0 => Sign(sd2) * q2 = (-s) * q2 /\ Sign(sd2) * v2 = (-s) * v2
  <2>1. CASE ls2 = <<>>
    <3>1. q2 = 0 /\ v2 = 0
      BY <2>1, NoLots
    <3>2. Sign(sd2) * 0 = 0 /\ (-s) * 0 = 0
      BY DEF Sign
    <3> QED BY <3>1, <3>2
  <2> QED BY <1>12, <2>1
<1>20. s = 1 \/ s = -1
  OBVIOUS
<1>21. xl \in Nat /\ xn \in Int /\ x * (n - l) = xn - xl /\ np \in Int
  <2>1. x * (n - l) = x * n - x * l
    BY <1>11
  <2> QED BY <1>7, <2>1
<1>22. \E pn, lp \in Int : /\ pn = np /\ lp = l * price
                           /\ ProfitOf(sd, price, n - l, v - v1) = (-s) * ((pn - lp) - (v - v1))
  <2>1. price * (n - l) = n * price - l * price /\ n * price \in Int /\ l * price \in Int
    BY <1>11
  <2> QED BY <1>3, <2>1 DEF ProfitOf
<1>30. Sign(sd2) * q2 = pos[i] + s * n
  <2> HIDE DEF q, q1, q2, l
  <2>1. CASE s = 1
    BY <1>4, <1>7, <1>8, <1>11, <1>12, <1>13, <1>18, <1>19, <2>1
  <2>2. CASE s = -1
    BY <1>4, <1>7, <1>8, <1>11, <1>12, <1>13, <1>18, <1>19, <2>2
  <2> QED BY <1>20, <2>1, <2>2
<1>31. Sign(sd2) * v2 - d.gross = Sign(sd) * v - g + s * np
  <2>1. PICK pn \in Int, lp \in Int :
            /\ pn = np /\ lp = l * price
            /\ ProfitOf(sd, price, n - l, v - v1) = (-s) * ((pn - lp) - (v - v1))
    BY <1>22
  <2>2. d.gross = g + (-s) * ((pn - lp) - (v - v1))
    BY <1>9, <2>1
  <2>3. l > 0 => Sign(sd2) = s /\ v2 = lp /\ v1 = 0
    BY <1>12, <2>1
  <2>4. l = 0 => lp = 0
    BY <1>11, <2>1
  <2> DEFINE sv2 == Sign(sd2) * v2
             dg == d.gross
  <2>5. sv2 = IF l = 0 THEN (-s) * v1 ELSE s * lp
    BY <1>7, <1>18, <1>19, <2>3
  <2>6. dg = g + (-s) * ((pn - lp) - (v - v1))
    BY <2>2
  <2>7. l = 0 \/ v1 = 0
    BY <1>7, <2>3
  <2> HIDE DEF sv2, dg, g, v, v1, l, np
  <2>8. CASE s = 1
    BY <1>3, <1>11, <2>1, <2>4, <2>5, <2>6, <2>7, <2>8 DEF sv2, dg
  <2>9. CASE s = -1
    BY <1>3, <1>11, <2>1, <2>4, <2>5, <2>6, <2>7, <2>9 DEF sv2, dg
  <2> QED BY <1>20, <2>8, <2>9
<1>32. e2 + d.costs = e + c + xn - xl
  <2> DEFINE dc == d.costs
  <2>1. dc = c + (xn - xl) + e - e1
    BY <1>10, <1>21
  <2>2. e2 = e1
    BY <1>7, <1>12, <1>18
  <2> HIDE DEF dc, c, xn, xl, e, e1, e2
  <2>3. e2 + dc = e + c + xn - xl
    BY <1>11, <1>21, <2>1, <2>2
  <2> QED BY <2>3 DEF dc
<1>33. xl > 0 => pos[i] * (pos[i] + s * n) < 0
  <2> SUFFICES ASSUME xl > 0 PROVE pos[i] * (pos[i] + s * n) < 0
    OBVIOUS
  <2>1. l > 0
    <3>1. l = 0 => xl = 0
      OBVIOUS
    <3> QED BY <1>7, <3>1
  <2>2. pos[i] + s * n = s * l /\ pos[i] = (-s) * q
    BY <1>4, <1>12, <1>30, <2>1
  <2> HIDE DEF q, l
  <2>3. q * l > 0 /\ ((-s) * q) * (s * l) = -(q * l)
    BY <1>7, <1>11, <2>1
  <2>4. pos[i] * (pos[i] + s * n) = -(q * l) /\ q * l \in Int
    BY <1>11, <2>2, <2>3
  <2> QED BY <2>3, <2>4
<1> QED BY <1>12, <1>14, <1>15, <1>16, <1>17, <1>21, <1>30, <1>31, <1>32, <1>33
        DEF Rounded, ls, sd, np, xn, g, c, q, v, e, q2, v2, e2

----------------------------------------------------------------------------
(* The bisection of the exposure cap.  *)

\* A smaller part of an order never adds more than a positive room the larger one
\* keeps to: closing, it takes from the size of the position, opening it adds less.
LEMMA AddsLess ==
  ASSUME NEW cur \in Int, NEW s \in {1, -1}, NEW head \in Nat,
         NEW m \in Nat, NEW k \in Nat, k <= m, Adds(cur, s * m) <= head
  PROVE  Adds(cur, s * k) <= head
<1>1. CASE s = 1
  <2>1. s * m = m /\ s * k = k
    BY <1>1
  <2> QED BY <2>1 DEF Adds, Size
<1>2. CASE s = -1
  <2>1. s * m = -m /\ s * k = -k
    BY <1>2
  <2> QED BY <2>1 DEF Adds, Size
<1> QED BY <1>1, <1>2

Window(qty) == [lo : 0..qty, hi : 0..qty]

\* The window after k rounds: what it starts with fits, and nothing past it does.
Narrowed(w, k, cur, s, head, qty) ==
  /\ w \in Window(qty)
  /\ w.lo <= w.hi /\ w.hi - w.lo <= qty - k
  /\ Adds(cur, s * w.lo) <= head
  /\ \A m \in 0..qty : Adds(cur, s * m) <= head => m <= w.hi

LEMMA HalvedTyped ==
  ASSUME NEW qty \in Nat, NEW w \in Window(qty), NEW cur, NEW s, NEW head
  PROVE  Halved(w, cur, s, head) \in Window(qty)
<1> DEFINE mid == (w.lo + w.hi + 1) \div 2
<1>1. w.lo \in 0..qty /\ w.hi \in 0..qty
  BY DEF Window
<1>2. w.lo < w.hi => mid \in 0..qty /\ mid - 1 \in 0..qty
  BY <1>1
<1>3. /\ Halved(w, cur, s, head) \in {w, [w EXCEPT !.lo = mid], [w EXCEPT !.hi = mid - 1]}
      /\ w.lo >= w.hi => Halved(w, cur, s, head) = w
  BY DEF Halved
<1> HIDE DEF mid
<1> QED BY <1>1, <1>2, <1>3 DEF Window

LEMMA HalvedCloses ==
  ASSUME NEW qty \in Nat, NEW w, NEW k \in Nat, k + 1 <= qty,
         NEW cur \in Int, NEW s \in {1, -1}, NEW head \in Nat,
         Narrowed(w, k, cur, s, head, qty)
  PROVE  Narrowed(Halved(w, cur, s, head), k + 1, cur, s, head, qty)
<1> DEFINE mid == (w.lo + w.hi + 1) \div 2
           h == Halved(w, cur, s, head)
<1>1. w \in Window(qty) /\ w.lo \in 0..qty /\ w.hi \in 0..qty
  BY DEF Narrowed, Window
<1>2. w.lo <= w.hi /\ w.hi - w.lo <= qty - k /\ Adds(cur, s * w.lo) <= head
  BY DEF Narrowed
<1>3. \A m \in 0..qty : Adds(cur, s * m) <= head => m <= w.hi
  BY DEF Narrowed
<1>4. h \in Window(qty)
  BY <1>1, HalvedTyped
<1>5. CASE w.lo >= w.hi
  <2>1. h = w
    BY <1>5 DEF Halved
  <2>2. w.hi - w.lo <= qty - (k + 1)
    BY <1>1, <1>5
  <2> HIDE DEF h
  <2> QED BY <1>1, <1>2, <1>3, <2>1, <2>2 DEF Narrowed, h
<1>6. CASE w.lo < w.hi /\ Adds(cur, s * mid) <= head
  <2>1. h = [w EXCEPT !.lo = mid]
    BY <1>1, <1>6 DEF Halved
  <2>2. mid <= w.hi /\ w.hi - mid <= qty - (k + 1)
    BY <1>1, <1>2, <1>6
  <2> HIDE DEF h, mid
  <2>3. h.lo = mid /\ h.hi = w.hi
    BY <1>1, <2>1 DEF Window
  <2> QED BY <1>3, <1>4, <1>6, <2>2, <2>3 DEF Narrowed, h
<1>7. CASE w.lo < w.hi /\ ~(Adds(cur, s * mid) <= head)
  <2>1. h = [w EXCEPT !.hi = mid - 1]
    BY <1>1, <1>7 DEF Halved
  <2>2. mid \in Nat /\ w.lo <= mid - 1 /\ (mid - 1) - w.lo <= qty - (k + 1)
    BY <1>1, <1>2, <1>7
  <2> HIDE DEF h, mid
  <2>3. h.lo = w.lo /\ h.hi = mid - 1
    BY <1>1, <2>1 DEF Window
  <2>4. ASSUME NEW m \in 0..qty, Adds(cur, s * m) <= head
        PROVE  m <= mid - 1
    <3>1. m \in Nat
      BY <2>4
    <3>2. mid <= m => Adds(cur, s * mid) <= head
      BY <2>2, <2>4, <3>1, AddsLess
    <3> QED BY <1>7, <2>2, <3>1, <3>2
  <2> QED BY <1>2, <1>4, <2>2, <2>3, <2>4 DEF Narrowed, h
<1> QED BY <1>1, <1>5, <1>6, <1>7

\* The bisection finds the largest part that adds no more than head.
LEMMA BisectFinds ==
  ASSUME NEW cur \in Int, NEW s \in {1, -1}, NEW head \in Nat, NEW qty \in Nat
  PROVE  /\ Bisect(cur, s, head, qty) \in 0..qty
         /\ Adds(cur, s * Bisect(cur, s, head, qty)) <= head
         /\ \A m \in 0..qty : Adds(cur, s * m) <= head => m <= Bisect(cur, s, head, qty)
<1> DEFINE start == [lo |-> 0, hi |-> qty]
           F == [k \in 1..qty |-> [w \in Window(qty) |-> Halved(w, cur, s, head)]]
           Run(g) == g = [k \in 0..qty |-> IF k = 0 THEN start
                                           ELSE Halved(g[k - 1], cur, s, head)]
           window == CHOOSE g : Run(g)
<1>1. start \in Window(qty)
  BY DEF Window
<1>2. \A k \in 1..qty : \A w \in Window(qty) : /\ F[k][w] = Halved(w, cur, s, head)
                                               /\ F[k][w] \in Window(qty)
  BY HalvedTyped
<1>3. PICK g : Iterated(g, qty, Window(qty), start, F)
  <2> HIDE DEF start, F
  <2> QED BY <1>1, <1>2, Iterates
<1>4. Run(g)
  <2> HIDE DEF start, F
  <2>1. \A k \in 1..qty : k - 1 \in 0..qty /\ k \in 0..qty
    OBVIOUS
  <2>2. \A k \in 1..qty : g[k] = Halved(g[k - 1], cur, s, head)
    BY <1>2, <1>3, <2>1 DEF Iterated
  <2>3. \A k \in 0..qty : k = 0 \/ k \in 1..qty
    OBVIOUS
  <2>4. \A k \in 0..qty : g[k] = IF k = 0 THEN start ELSE Halved(g[k - 1], cur, s, head)
    BY <1>3, <2>2, <2>3 DEF Iterated
  <2> QED BY <1>3, <2>4 DEF Iterated
<1>5. Run(window)
  <2> HIDE DEF Run
  <2> QED BY <1>4
<1>6. Bisect(cur, s, head, qty) = window[qty].lo
  BY DEF Bisect
<1>7. /\ window[0] = start
      /\ \A k \in 1..qty : window[k] = Halved(window[k - 1], cur, s, head)
  <2> HIDE DEF window, start, F
  <2> QED BY <1>5
<1> HIDE DEF window, Run, F
<1> DEFINE N == {k \in Nat : k <= qty => Narrowed(window[k], k, cur, s, head, qty)}
<1>8. 0 \in N
  <2>1. start.lo = 0 /\ start.hi = qty /\ s * 0 = 0 /\ Adds(cur, 0) = 0
    BY DEF Adds, Size
  <2> HIDE DEF start
  <2>2. Narrowed(start, 0, cur, s, head, qty)
    BY <1>1, <2>1 DEF Narrowed
  <2> QED BY <1>7, <2>2
<1>9. ASSUME NEW k \in N PROVE k + 1 \in N
  <2>1. k \in Nat /\ (k <= qty => Narrowed(window[k], k, cur, s, head, qty))
    OBVIOUS
  <2>2. ASSUME k + 1 <= qty PROVE Narrowed(window[k + 1], k + 1, cur, s, head, qty)
    <3>1. k + 1 \in 1..qty /\ (k + 1) - 1 = k /\ k <= qty
      BY <2>1, <2>2
    <3>2. window[k + 1] = Halved(window[k], cur, s, head)
      BY <1>7, <3>1
    <3> QED BY <2>1, <2>2, <3>1, <3>2, HalvedCloses
  <2> QED BY <2>1, <2>2
<1>10. Narrowed(window[qty], qty, cur, s, head, qty)
  <2> N \subseteq Nat
    OBVIOUS
  <2> HIDE DEF N
  <2>1. qty \in N
    BY <1>8, <1>9, NatSet
  <2> QED BY <2>1 DEF N
<1> DEFINE w == window[qty]
<1>11. /\ w.lo \in 0..qty /\ w.hi \in 0..qty /\ w.hi <= w.lo
       /\ Adds(cur, s * w.lo) <= head
       /\ \A m \in 0..qty : Adds(cur, s * m) <= head => m <= w.hi
  <2> HIDE DEF w
  <2>1. Narrowed(w, qty, cur, s, head, qty)
    BY <1>10 DEF w
  <2>2. w.lo \in 0..qty /\ w.hi \in 0..qty
    BY <2>1 DEF Narrowed, Window
  <2> QED BY <2>1, <2>2 DEF Narrowed
<1> HIDE DEF w
<1>12. \A m \in 0..qty : Adds(cur, s * m) <= head => m <= w.lo
  BY <1>11
<1> QED BY <1>6, <1>11, <1>12 DEF w

LEMMA FloorFits ==
  ASSUME NEW a \in Int, NEW h \in Nat, NEW r \in Nat \ {0}
  PROVE  a * r <= h <=> a <= h \div r
<1> DEFINE f == h \div r
<1>1. f \in Int /\ r * f <= h /\ h < r * (f + 1)
  OBVIOUS
<1> HIDE DEF f
<1>2. ASSUME a <= f PROVE a * r <= h
  <2>1. a * r <= r * f /\ a * r \in Int /\ r * f \in Int
    BY <1>1, <1>2
  <2> QED BY <1>1, <2>1
<1>3. ASSUME ~(a <= f) PROVE ~(a * r <= h)
  <2>1. f + 1 <= a
    BY <1>1, <1>3
  <2>2. r * (f + 1) <= a * r /\ a * r \in Int /\ r * (f + 1) \in Int
    BY <1>1, <2>1
  <2> QED BY <1>1, <2>2
<1> QED BY <1>2, <1>3 DEF f

Room == IF CapGross > GrossOf(pos) THEN CapGross - GrossOf(pos) ELSE 0

LEMMA RoomTyped ==
  ASSUME SimTyped, NEW i \in Universe
  PROVE  /\ Room \in Nat /\ Reference(i) \in Nat \ {0} /\ Headroom(i) \in Nat
         /\ \A a \in Int : a * Reference(i) <= Room <=> a <= Headroom(i)
<1> DEFINE g == GrossOf(pos)
           r == Reference(i)
<1>1. CapGross \in Nat /\ IsFiniteSet(Universe)
  BY BacktestAssumption
<1>2. g \in Int
  <2> DEFINE f == [j \in Universe |-> Size(pos[j]) * last[j]]
  <2>1. \A j \in Universe : Size(pos[j]) \in Int /\ last[j] \in Int
    BY DEF SimTyped, Size
  <2>2. f \in [Universe -> Int]
    BY <2>1
  <2> HIDE DEF f
  <2>3. SumFunction(f) \in Int
    BY <1>1, <2>2, SumTyped
  <2> QED BY <2>3 DEF GrossOf, f
<1>3. r \in Nat \ {0}
  <2>1. last[i] \in Nat /\ bar.close \in Nat \ {0}
    BY BacktestAssumption DEF SimTyped
  <2> QED BY <2>1 DEF Reference
<1>4. /\ Room = IF CapGross > g THEN CapGross - g ELSE 0
      /\ Headroom(i) = IF CapGross > g THEN (CapGross - g) \div r ELSE 0
  BY DEF Room, Headroom
<1> HIDE DEF g, r
<1>5. Room \in Nat
  BY <1>1, <1>2, <1>4
<1>6. Headroom(i) = Room \div r
  <2>1. 0 \div r = 0
    BY <1>3
  <2> QED BY <1>4, <2>1
<1>7. \A a \in Int : a * r <= Room <=> a <= Room \div r
  BY <1>3, <1>5, FloorFits
<1>8. Room \div r \in Nat
  BY <1>3, <1>5
<1> QED BY <1>3, <1>5, <1>6, <1>7, <1>8 DEF r

LEMMA FitsTyped ==
  ASSUME SimTyped, NEW i \in Universe, NEW s \in {1, -1}, NEW qty \in Nat
  PROVE  Fits(i, s, qty) \in 0..qty
<1>1. pos[i] \in Int /\ Headroom(i) \in Nat
  BY RoomTyped DEF SimTyped
<1>2. Bisect(pos[i], s, Headroom(i), qty) \in 0..qty
  BY <1>1, BisectFinds
<1> QED BY <1>2 DEF Fits

----------------------------------------------------------------------------
(* The trades of a report explain its curve.  *)

\* What the open lots were bought for, less what they were sold for, and their costs.
Invested == [i \in Universe |-> Sign(sideOf[i]) * Value(openLots[i])]
Carried  == [i \in Universe |-> Entry(openLots[i])]

CashExplained == cash = Capital + closed.gross - costs - SumFunction(Invested)

SimInv == SimTyped /\ LotsArePosition /\ CashExplained /\ CostsCarried

LEMMA LotSums ==
  ASSUME SimTyped
  PROVE  /\ Invested \in [Universe -> Int] /\ SumFunction(Invested) \in Int
         /\ Carried \in [Universe -> Int] /\ SumFunction(Carried) \in Int
<1>1. \A i \in Universe : /\ Value(openLots[i]) \in Int /\ Entry(openLots[i]) \in Int
                          /\ Sign(sideOf[i]) \in Int
  BY LotsAll DEF SimTyped, Sign
<1>2. Invested \in [Universe -> Int] /\ Carried \in [Universe -> Int]
  BY <1>1 DEF Invested, Carried
<1> QED BY <1>2, BacktestAssumption, SumTyped

LEMMA FillKeeps ==
  ASSUME SimInv, NEW i \in Universe, NEW s \in {1, -1}, NEW qty \in Quantities,
         SimulatedFill(i, s, qty)
  PROVE  SimInv'
<1> DEFINE n == Fits(i, s, qty)
           price == Reference(i) + s * Slip
           x == Slip + Charge
           way == IF s = 1 THEN "long" ELSE "short"
<1>1. qty \in Nat /\ IsFiniteSet(Universe) /\ x \in Nat /\ Slip \in Nat /\ Capital \in Int
  BY BacktestAssumption
<1>2. n \in Nat
  BY <1>1, FitsTyped DEF SimInv
<1>3. price \in Int
  <2>1. Reference(i) \in Int
    BY RoomTyped DEF SimInv
  <2>2. s * Slip \in Int
    BY <1>1
  <2> QED BY <2>1, <2>2
<1>4. at' = at /\ bar' = bar /\ last' = last
  BY DEF SimulatedFill
<1>5. CASE n = 0
  <2>1. /\ pos' = pos /\ cash' = cash /\ costs' = costs /\ flipped' = flipped
        /\ openLots' = openLots /\ sideOf' = sideOf /\ closed' = closed
    BY <1>5 DEF SimulatedFill, book, trades
  <2>2. Invested' = Invested
    BY <2>1 DEF Invested
  <2> QED BY <1>4, <2>1, <2>2 DEF SimInv, SimTyped, LotsArePosition, CashExplained, CostsCarried
<1>6. CASE n # 0
  <2>1. /\ pos' = [pos EXCEPT ![i] = pos[i] + s * n]
        /\ cash' = cash - s * n * price - x * n
        /\ costs' = costs + x * n
        /\ flipped' = (flipped \/ pos[i] * (pos[i] + s * n) < 0)
        /\ Rounds(i, way, n, price, x)
    BY <1>6 DEF SimulatedFill
  <2> HIDE DEF n, price, x
  <2>2. Rounded(i, s, n, price, x)
    <3>1. n \in Nat \ {0} /\ SimTyped /\ LotsArePosition
      BY <1>2, <1>6 DEF SimInv
    <3> DEFINE w == way
    <3>2. w = IF s = 1 THEN "long" ELSE "short"
      OBVIOUS
    <3>3. Rounds(i, w, n, price, x)
      BY <2>1
    <3> HIDE DEF w
    <3>4. CASE sideOf[i] \in {"none", w}
      BY <1>1, <1>3, <3>1, <3>2, <3>3, <3>4, FillOpens
    <3>5. CASE sideOf[i] \notin {"none", w}
      BY <1>1, <1>3, <3>1, <3>2, <3>3, <3>5, FillCloses
    <3> QED BY <3>4, <3>5
  <2>3. SimTyped'
    <3>1. s * n \in Int /\ s * n * price \in Int /\ x * n \in Int
      BY <1>1, <1>2, <1>3
    <3> DEFINE sn == s * n
               snp == s * n * price
               xn == x * n
    <3>2. sn \in Int /\ snp \in Int /\ xn \in Int
      BY <3>1
    <3>3. pos' = [pos EXCEPT ![i] = pos[i] + sn] /\ cash' = cash - snp - xn /\ costs' = costs + xn
      BY <2>1
    <3> HIDE DEF sn, snp, xn
    <3>4. pos' \in [Universe -> Int] /\ cash' \in Int /\ costs' \in Int
      BY <3>2, <3>3 DEF SimInv, SimTyped
    <3>5. flipped' \in BOOLEAN
      BY <2>1 DEF SimInv, SimTyped
    <3>6. at' \in {"next", "bar"} /\ bar' \in [of : Universe, close : Closes]
          /\ last' \in [Universe -> Nat]
      BY <1>4 DEF SimInv, SimTyped
    <3>7. /\ openLots' \in [Universe -> Seq(SimLot)]
          /\ sideOf' \in [Universe -> SimSides]
          /\ closed' \in [gross : Int, costs : Int]
      BY <2>2 DEF Rounded
    <3> QED BY <3>4, <3>5, <3>6, <3>7 DEF SimTyped
  <2>4. LotsArePosition'
    <3>1. ASSUME NEW j \in Universe \ {i}
          PROVE  /\ sideOf'[j] = "none" <=> openLots'[j] = <<>>
                 /\ pos'[j] = Sign(sideOf'[j]) * Shares(openLots'[j])
      <4>1. openLots'[j] = openLots[j] /\ sideOf'[j] = sideOf[j]
        BY <2>2 DEF Rounded
      <4>2. pos'[j] = pos[j]
        BY <2>1 DEF SimInv, SimTyped
      <4> QED BY <4>1, <4>2 DEF SimInv, LotsArePosition
    <3>2. /\ sideOf'[i] = "none" <=> openLots'[i] = <<>>
          /\ Sign(sideOf'[i]) * Shares(openLots'[i]) = pos[i] + s * n
      BY <2>2 DEF Rounded
    <3>3. pos'[i] = pos[i] + s * n
      BY <2>1 DEF SimInv, SimTyped
    <3> QED BY <3>1, <3>2, <3>3 DEF LotsArePosition
  <2>5. CashExplained'
    <3> DEFINE f == Invested
               h == Invested'
               fi == f[i]
               hi == h[i]
               F == SumFunction(f)
               H == SumFunction(h)
               g == closed.gross
               gn == closed'.gross
               xn == x * n
               sp == s * (n * price)
    <3>1. f \in [Universe -> Int] /\ F \in Int /\ h \in [Universe -> Int]
      <4>1. f \in [Universe -> Int] /\ F \in Int
        BY LotSums DEF SimInv
      <4>2. \A j \in Universe : /\ Value(openLots'[j]) \in Int /\ Sign(sideOf'[j]) \in Int
        <5>1. \A j \in Universe : openLots'[j] \in Seq(SimLot)
          BY <2>3 DEF SimTyped
        <5> QED BY <5>1, LotsAll DEF Sign
      <4>3. h \in [Universe -> Int]
        BY <4>2 DEF Invested
      <4> QED BY <4>1, <4>3
    <3>2. \A j \in Universe : j # i => h[j] = f[j]
      BY <2>2 DEF Rounded, Invested
    <3>3. hi - gn = fi - g + sp
      BY <2>2 DEF Rounded, Invested
    <3>4. /\ g \in Int /\ gn \in Int /\ cash \in Int /\ costs \in Int
          /\ cash = Capital + g - costs - F
      BY <2>3 DEF SimInv, SimTyped, CashExplained
    <3>5. sp \in Int /\ xn \in Int /\ cash' = cash - sp - xn /\ costs' = costs + xn
      <4>1. s * n * price = s * (n * price) /\ s * (n * price) \in Int /\ x * n \in Int
        BY <1>1, <1>2, <1>3
      <4> QED BY <2>1, <4>1
    <3>6. fi \in Int /\ hi \in Int
      BY <3>1
    <3> HIDE DEF f, h, g, gn, xn, sp
    <3>7. H = F + h[i] - f[i]
      BY <1>1, <3>1, <3>2, SumMoved
    <3> HIDE DEF fi, hi, F, H
    <3>8. H = F + hi - fi
      BY <3>7 DEF fi, hi
    <3>9. cash' = Capital + gn - costs' - H
      BY <1>1, <3>1, <3>3, <3>4, <3>5, <3>6, <3>8
    <3> QED BY <3>9 DEF CashExplained, gn, H, h
  <2>6. CostsCarried'
    <3> DEFINE f == Carried
               h == Carried'
               fi == f[i]
               hi == h[i]
               F == SumFunction(f)
               H == SumFunction(h)
               c == closed.costs
               cn == closed'.costs
               xn == x * n
               turned == pos[i] * (pos[i] + s * n) < 0
    <3>1. f \in [Universe -> Int] /\ F \in Int /\ h \in [Universe -> Int]
      <4>1. f \in [Universe -> Int] /\ F \in Int
        BY LotSums DEF SimInv
      <4>2. \A j \in Universe : Entry(openLots'[j]) \in Int
        <5>1. \A j \in Universe : openLots'[j] \in Seq(SimLot)
          BY <2>3 DEF SimTyped
        <5> QED BY <5>1, LotsAll
      <4>3. h \in [Universe -> Int]
        BY <4>2 DEF Carried
      <4> QED BY <4>1, <4>3
    <3>2. \A j \in Universe : j # i => h[j] = f[j]
      BY <2>2 DEF Rounded, Carried
    <3>3. PICK lost \in Nat : hi + cn = fi + c + xn - lost /\ (lost > 0 => turned)
      BY <2>2 DEF Rounded, Carried
    <3>4. /\ c \in Int /\ cn \in Int /\ costs \in Int
          /\ c + F <= costs /\ (~flipped => c + F = costs)
      BY <2>3 DEF SimInv, SimTyped, CostsCarried, Carried
    <3>5. xn \in Int /\ costs' = costs + xn /\ flipped' = (flipped \/ turned)
      BY <1>1, <1>2, <2>1
    <3>6. fi \in Int /\ hi \in Int
      BY <3>1
    <3> HIDE DEF f, h, c, cn, xn, turned
    <3>7. H = F + h[i] - f[i]
      BY <1>1, <3>1, <3>2, SumMoved
    <3> HIDE DEF fi, hi, F, H
    <3>8. H = F + hi - fi
      BY <3>7 DEF fi, hi
    <3>9. cn + H <= costs'
      BY <3>1, <3>3, <3>4, <3>5, <3>6, <3>8
    <3>10. ASSUME ~flipped' PROVE cn + H = costs'
      <4>1. ~flipped /\ ~turned
        BY <3>5, <3>10
      <4>2. lost = 0 /\ c + F = costs
        BY <3>3, <3>4, <4>1
      <4> QED BY <3>1, <3>3, <3>4, <3>5, <3>6, <3>8, <4>2
    <3> QED BY <3>9, <3>10 DEF CostsCarried, Carried, cn, H, h
  <2> QED BY <2>3, <2>4, <2>5, <2>6 DEF SimInv
<1> QED BY <1>5, <1>6

LEMMA ReplayStarts == ReplayInit => SimInv
<1> SUFFICES ASSUME ReplayInit PROVE SimInv
  OBVIOUS
<1> USE DEF ReplayInit
<1>1. SimTyped
  <2>1. Capital \in Int
    BY BacktestAssumption
  <2>2. <<>> \in Seq(SimLot)
    OBVIOUS
  <2>3. openLots \in [Universe -> Seq(SimLot)]
    BY <2>2
  <2>4. sideOf \in [Universe -> SimSides]
    BY DEF SimSides
  <2>5. last \in [Universe -> Nat] /\ pos \in [Universe -> Int]
    OBVIOUS
  <2>7. closed \in [gross : Int, costs : Int]
    <3>1. closed = [gross |-> 0, costs |-> 0]
      OBVIOUS
    <3> QED BY <3>1
  <2>8. bar \in [of : Universe, close : Closes] /\ at \in {"next", "bar"} /\ flipped \in BOOLEAN
    OBVIOUS
  <2>6. cash \in Int /\ costs \in Int
    BY <2>1
  <2> QED BY <2>3, <2>4, <2>5, <2>6, <2>7, <2>8 DEF SimTyped
<1>2. LotsArePosition
  BY NoLots DEF LotsArePosition, Sign
<1>3. SumFunction(Invested) = 0 /\ SumFunction(Carried) = 0
  <2>1. Invested = [i \in Universe |-> 0] /\ Carried = [i \in Universe |-> 0]
    BY NoLots DEF Invested, Carried, Sign
  <2>2. IsFiniteSet(Universe)
    BY BacktestAssumption
  <2> QED BY <2>1, <2>2, SumZero
<1>4. CashExplained
  <2>1. Capital \in Int
    BY BacktestAssumption
  <2> QED BY <1>3, <2>1 DEF CashExplained
<1>5. CostsCarried
  BY <1>3 DEF CostsCarried, Carried
<1> QED BY <1>1, <1>2, <1>4, <1>5 DEF SimInv

LEMMA ReplaySteps == SimInv /\ [ReplayNext]_replayVars => SimInv'
<1> SUFFICES ASSUME SimInv, [ReplayNext]_replayVars PROVE SimInv'
  OBVIOUS
<1>1. ASSUME UNCHANGED <<pos, cash, costs, flipped, openLots, sideOf, closed>>, SimTyped'
      PROVE  SimInv'
  <2>1. Invested' = Invested
    BY <1>1 DEF Invested
  <2> QED BY <1>1, <2>1 DEF SimInv, LotsArePosition, CashExplained, CostsCarried
<1>2. ASSUME Bar PROVE SimInv'
  <2>1. UNCHANGED <<pos, cash, costs, flipped, openLots, sideOf, closed>> /\ at' = "bar"
    BY <1>2 DEF Bar, book, trades
  <2>2. PICK i \in Universe, p \in Closes : /\ bar' = [of |-> i, close |-> p]
                                            /\ last' = [last EXCEPT ![i] = p]
    BY <1>2 DEF Bar
  <2>3. p \in Nat
    BY BacktestAssumption
  <2>4. bar' \in [of : Universe, close : Closes] /\ last' \in [Universe -> Nat]
    BY <2>2, <2>3 DEF SimInv, SimTyped
  <2>5. SimTyped'
    BY <2>1, <2>4 DEF SimInv, SimTyped
  <2> QED BY <1>1, <2>1, <2>5
<1>3. ASSUME Mark PROVE SimInv'
  <2>1. /\ UNCHANGED <<pos, cash, costs, flipped, openLots, sideOf, closed>>
        /\ at' = "next" /\ bar' = bar /\ last' = last
    BY <1>3 DEF Mark, book, trades
  <2>2. SimTyped'
    BY <2>1 DEF SimInv, SimTyped
  <2> QED BY <1>1, <2>1, <2>2
<1>4. ASSUME NEW i \in Universe, NEW s \in {1, -1}, NEW qty \in Quantities,
             SimulatedFill(i, s, qty)
      PROVE  SimInv'
  BY <1>4, FillKeeps
<1>5. ASSUME UNCHANGED replayVars PROVE SimInv'
  <2>1. /\ UNCHANGED <<pos, cash, costs, flipped, openLots, sideOf, closed>>
        /\ at' = at /\ bar' = bar /\ last' = last
    BY <1>5 DEF replayVars
  <2>2. SimTyped'
    BY <2>1 DEF SimInv, SimTyped
  <2> QED BY <1>1, <2>1, <2>2
<1> QED BY <1>2, <1>3, <1>4, <1>5 DEF ReplayNext

LEMMA ReplayKeeps == ReplaySpec => []SimInv
BY ReplayStarts, ReplaySteps, PTL DEF ReplaySpec

\* What the report makes of the open lots of an instrument: its position at the last
\* close less what the lots were bought for, or nothing where there has been no bar.
LEMMA OpenMarked ==
  ASSUME SimTyped, NEW i \in Universe
  PROVE  OpenGross(i) = IF last[i] = 0 THEN 0
                        ELSE Sign(sideOf[i]) * (last[i] * Shares(openLots[i]))
                               - Sign(sideOf[i]) * Value(openLots[i])
<1> DEFINE ls == openLots[i]
           t == Sign(sideOf[i])
           l == last[i]
           S == DOMAIN ls
           mark(k) == MarkPrice(i, ls[k])
           h == [k \in S |-> t * ((mark(k) - ls[k].price) * ls[k].qty)]
           f == [k \in S |-> ls[k].qty]
           g == [k \in S |-> ls[k].qty * ls[k].price]
<1>1. ls \in Seq(SimLot) /\ l \in Nat /\ t \in {1, -1}
  BY DEF SimTyped, Sign
<1>2. IsFiniteSet(S)
  <2>1. S = 1..Len(ls) /\ Len(ls) \in Nat
    BY <1>1
  <2> QED BY <2>1, FS_Interval
<1>3. /\ OpenGross(i) = SumFunction(h) /\ Shares(ls) = SumFunction(f)
      /\ Value(ls) = SumFunction(g)
  BY DEF OpenGross, Shares, Value
<1>4. \A k \in S : ls[k].qty \in Int /\ ls[k].price \in Int
  <2>1. \A k \in S : ls[k] \in SimLot
    BY <1>1
  <2> QED BY <2>1 DEF SimLot
<1>5. \A k \in S : mark(k) = IF l = 0 THEN ls[k].price ELSE l
  BY DEF MarkPrice
<1> HIDE DEF ls, t, l, S, mark
<1>6. \A k \in S : ls[k].qty * ls[k].price \in Int
  BY <1>4
<1>7. f \in [S -> Int] /\ g \in [S -> Int]
  BY <1>4, <1>6
<1>8. SumFunction(f) \in Int /\ SumFunction(g) \in Int
  <2> HIDE DEF f, g
  <2> QED BY <1>2, <1>7, SumTyped
<1>9. CASE l = 0
  <2>1. \A k \in S : mark(k) - ls[k].price = 0
    BY <1>4, <1>5, <1>9
  <2>2. \A k \in S : t * ((mark(k) - ls[k].price) * ls[k].qty) = 0
    BY <1>1, <1>4, <2>1
  <2>3. h = [k \in S |-> 0]
    BY <2>2
  <2>4. SumFunction(h) = 0
    BY <1>2, <2>3, SumZero
  <2> QED BY <1>3, <1>9, <2>4 DEF l
<1>10. CASE l # 0
  <2> DEFINE c == t * l
             F == SumFunction(f)
             G == SumFunction(g)
             cf == [k \in S |-> c * f[k]]
             tg == [k \in S |-> (-t) * g[k]]
  <2>1. c \in Int /\ -t \in Int
    BY <1>1
  <2>2. cf \in [S -> Int] /\ tg \in [S -> Int]
    <3> HIDE DEF c, f, g
    <3>1. \A k \in S : c * f[k] \in Int /\ (-t) * g[k] \in Int
      BY <1>7, <2>1
    <3> QED BY <3>1
  <2>3. ASSUME NEW k \in S
        PROVE  h[k] = cf[k] + tg[k]
    <3> DEFINE q == ls[k].qty
               p == ls[k].price
    <3>1. h[k] = t * ((l - p) * q) /\ cf[k] = (t * l) * q /\ tg[k] = (-t) * (q * p)
      BY <1>5, <1>10, <2>3
    <3>2. q \in Int /\ p \in Int
      BY <1>4, <2>3
    <3> HIDE DEF q, p, h, cf, tg
    <3>3. CASE t = 1
      <4>1. (l - p) * q = l * q - q * p /\ l * q \in Int /\ q * p \in Int
        BY <1>1, <3>2
      <4>2. 1 * ((l - p) * q) = l * q - q * p /\ (1 * l) * q = l * q
            /\ (-1) * (q * p) = -(q * p)
        BY <1>1, <3>2, <4>1
      <4> QED BY <3>1, <3>3, <4>1, <4>2
    <3>4. CASE t = -1
      <4>1. (l - p) * q = l * q - q * p /\ l * q \in Int /\ q * p \in Int
        BY <1>1, <3>2
      <4>2. (-1) * ((l - p) * q) = q * p - l * q /\ ((-1) * l) * q = -(l * q)
            /\ (-(-1)) * (q * p) = q * p
        BY <1>1, <3>2, <4>1
      <4> QED BY <3>1, <3>4, <4>1, <4>2
    <3> QED BY <1>1, <3>3, <3>4
  <2>4. h \in [S -> Int]
    <3>1. \A k \in S : cf[k] + tg[k] \in Int
      <4> HIDE DEF cf, tg
      <4> QED BY <2>2
    <3>2. \A k \in S : h[k] \in Int
      BY <2>3, <3>1
    <3> QED BY <3>2
  <2>5. SumFunction(cf) = c * F
    <3>1. \A k \in S : cf[k] = c * f[k]
      OBVIOUS
    <3> HIDE DEF cf, f, c
    <3> QED BY <1>2, <1>7, <2>1, <2>2, <3>1, SumScaled
  <2>6. SumFunction(tg) = (-t) * G
    <3>1. \A k \in S : tg[k] = (-t) * g[k]
      OBVIOUS
    <3> DEFINE mt == -t
    <3>2. mt \in Int /\ \A k \in S : tg[k] = mt * g[k]
      BY <2>1, <3>1
    <3> HIDE DEF tg, g, mt
    <3>3. SumFunction(tg) = mt * SumFunction(g)
      BY <1>2, <1>7, <2>2, <3>2, SumScaled
    <3> QED BY <3>3 DEF mt
  <2>7. SumFunction(h) = c * F + (-t) * G
    <3> HIDE DEF h, cf, tg, F, G, c
    <3> QED BY <1>2, <2>2, <2>3, <2>4, <2>5, <2>6, SumAdded
  <2>8. c * F + (-t) * G = t * (l * F) - t * G
    <3> HIDE DEF F, G
    <3>1. F \in Int /\ G \in Int
      BY <1>8 DEF F, G
    <3>2. (t * l) * F = t * (l * F) /\ (-t) * G = -(t * G)
          /\ t * (l * F) \in Int /\ t * G \in Int
      <4>1. CASE t = 1
        BY <1>1, <3>1, <4>1
      <4>2. CASE t = -1
        <5>1. ((-1) * l) * F = (-1) * (l * F) /\ (-(-1)) * G = -((-1) * G)
              /\ (-1) * (l * F) \in Int /\ (-1) * G \in Int
          BY <1>1, <3>1
        <5> QED BY <4>2, <5>1
      <4> QED BY <1>1, <4>1, <4>2
    <3> QED BY <3>2
  <2> QED BY <1>3, <1>10, <2>7, <2>8 DEF l, t, ls
<1> QED BY <1>9, <1>10

\* The gross profit of the closed and of the open trades of a report, less the costs,
\* is what the equity curve has gained, but for what was paid for open lots of
\* instruments without a bar.
THEOREM CurveHolds == ReplaySpec => []CurveExplained
<1>1. SimInv => CurveExplained
  <2> SUFFICES ASSUME SimInv PROVE CurveExplained
    OBVIOUS
  <2> DEFINE v == Invested
             f == [i \in Universe |-> pos[i] * last[i]]
             h == [i \in Universe |-> OpenGross(i)]
             u == [i \in Universe |-> Unpriced(i)]
             hv == [i \in Universe |-> h[i] + v[i]]
             V == SumFunction(v)
             F == SumFunction(f)
             H == SumFunction(h)
             U == SumFunction(u)
             g == closed.gross
  <2>1. IsFiniteSet(Universe) /\ Capital \in Int
    BY BacktestAssumption
  <2>2. v \in [Universe -> Int] /\ V \in Int
    BY LotSums DEF SimInv
  <2>3. ASSUME NEW i \in Universe
        PROVE  h[i] \in Int /\ f[i] \in Int /\ u[i] \in Int /\ h[i] + v[i] = f[i] + u[i]
    <3> DEFINE q == Shares(openLots[i])
               w == Value(openLots[i])
               l == last[i]
               t == Sign(sideOf[i])
    <3>1. q \in Int /\ w \in Int /\ l \in Int /\ (t = 1 \/ t = -1) /\ pos[i] = t * q
      BY LotsAll DEF SimInv, SimTyped, LotsArePosition, Sign
    <3>2. h[i] = IF l = 0 THEN 0 ELSE t * (l * q) - t * w
      BY OpenMarked DEF SimInv
    <3>3. f[i] = (t * q) * l /\ v[i] = t * w /\ u[i] = IF l = 0 THEN t * w ELSE 0
      BY <3>1 DEF Invested, Unpriced
    <3> HIDE DEF q, w, l, t, h, f, v, u
    <3>4. (t * q) * l = t * (l * q) /\ t * (l * q) \in Int /\ t * w \in Int
      <4>1. l * q \in Int /\ l * q = q * l
        BY <3>1
      <4>2. CASE t = 1
        BY <3>1, <4>1, <4>2
      <4>3. CASE t = -1
        <5>1. ((-1) * q) * l = (-1) * (l * q)
          BY <3>1
        <5> QED BY <3>1, <4>1, <4>3, <5>1
      <4> QED BY <3>1, <4>2, <4>3
    <3>5. CASE l = 0
      <4>1. (t * q) * l = 0
        <5>1. t * q \in Int
          BY <3>1
        <5> QED BY <3>5, <5>1
      <4> QED BY <3>2, <3>3, <3>4, <3>5, <4>1
    <3>6. CASE l # 0
      BY <3>2, <3>3, <3>4, <3>6
    <3> QED BY <3>5, <3>6
  <2>4. h \in [Universe -> Int] /\ f \in [Universe -> Int] /\ u \in [Universe -> Int]
    BY <2>3
  <2>5. \A i \in Universe : h[i] + v[i] = f[i] + u[i]
    BY <2>3
  <2> HIDE DEF h, f, v, u
  <2>6. hv \in [Universe -> Int] /\ \A i \in Universe : hv[i] = h[i] + v[i] /\ hv[i] = f[i] + u[i]
    BY <2>2, <2>4, <2>5
  <2> HIDE DEF hv
  <2>7. SumFunction(hv) = H + V /\ SumFunction(hv) = F + U
    BY <2>1, <2>2, <2>4, <2>6, SumAdded
  <2>8. H \in Int /\ F \in Int /\ U \in Int
    BY <2>1, <2>4, SumTyped
  <2>9. cash = Capital + g - costs - V /\ cash \in Int /\ costs \in Int /\ g \in Int
    BY DEF SimInv, SimTyped, CashExplained, v
  <2>10. H + V = F + U
    BY <2>7
  <2> HIDE DEF F, H, V, U, g
  <2>11. cash + F = Capital + g + H - costs - U
    BY <2>1, <2>2, <2>8, <2>9, <2>10
  <2> QED BY <2>11 DEF CurveExplained, Worth, F, H, U, f, h, u, g
<1> QED BY <1>1, ReplayKeeps, PTL

\* The trades carry the costs of the fills, each at most once, and all of them where
\* no fill has reversed a position.
THEOREM CostsHold == ReplaySpec => []CostsCarried
<1>1. SimInv => CostsCarried
  BY DEF SimInv
<1> QED BY <1>1, ReplayKeeps, PTL

\* Of every order the cap lets through the largest part that fits, and all of one
\* that does not enlarge the position.
THEOREM FitsHold == ReplaySpec => []LargestFits
<1>1. SimInv => LargestFits
  <2> SUFFICES ASSUME SimInv, NEW i \in Universe, NEW s \in {1, -1}, NEW qty \in Quantities
               PROVE  Fits(i, s, qty)
                        = IF Adds(pos[i], s * qty) <= 0 THEN qty
                          ELSE Max({n \in 0..qty : Adds(pos[i], s * n) * Reference(i) <= Room})
    BY DEF LargestFits, Room
  <2> DEFINE cur == pos[i]
             r == Reference(i)
             head == Headroom(i)
             b == Bisect(cur, s, head, qty)
             T == {n \in 0..qty : Adds(cur, s * n) * r <= Room}
  <2>1. qty \in Nat /\ cur \in Int
    BY BacktestAssumption DEF SimInv, SimTyped
  <2>2. /\ r \in Nat \ {0} /\ head \in Nat
        /\ \A a \in Int : a * r <= Room <=> a <= head
    BY RoomTyped DEF SimInv
  <2>3. \A n \in 0..qty : Adds(cur, s * n) \in Int
    <3> HIDE DEF cur
    <3>1. \A n \in 0..qty : s * n \in Int
      BY <2>1
    <3> QED BY <2>1, <3>1 DEF Adds, Size
  <2>4. /\ b \in 0..qty /\ Adds(cur, s * b) <= head
        /\ \A m \in 0..qty : Adds(cur, s * m) <= head => m <= b
    <3> HIDE DEF cur, head
    <3> QED BY <2>1, <2>2, BisectFinds
  <2> HIDE DEF cur, r, head, b
  <2>5. b \in T /\ \A m \in T : b >= m
    BY <2>1, <2>2, <2>3, <2>4
  <2>6. Max(T) = b
    <3> DEFINE t == Max(T)
    <3>1. t \in T /\ \A m \in T : t >= m
      <4> HIDE DEF T
      <4> QED BY <2>5 DEF Max
    <3>2. T \subseteq Int
      BY <2>1
    <3> HIDE DEF T, t
    <3>3. t >= b /\ b >= t /\ t \in Int /\ b \in Int
      BY <2>5, <3>1, <3>2
    <3>4. t = b
      BY <3>3
    <3> QED BY <3>4 DEF t
  <2>7. Adds(cur, s * qty) * r > 0 <=> ~(Adds(cur, s * qty) <= 0)
    <3>1. Adds(cur, s * qty) \in Int
      BY <2>1, <2>3
    <3> DEFINE a == Adds(cur, s * qty)
    <3> HIDE DEF a
    <3>2. a > 0 => a * r > 0
      BY <2>2, <3>1 DEF a
    <3>3. a <= 0 => a * r <= 0
      BY <2>2, <3>1 DEF a
    <3>4. a * r \in Int
      BY <2>2, <3>1 DEF a
    <3> QED BY <3>1, <3>2, <3>3, <3>4 DEF a
  <2>8. Fits(i, s, qty) = IF Adds(cur, s * qty) * r > 0 THEN b ELSE qty
    BY DEF Fits, cur, r, head, b
  <2>9. Fits(i, s, qty) = IF Adds(cur, s * qty) <= 0 THEN qty ELSE Max(T)
    <3> HIDE DEF T
    <3> QED BY <2>6, <2>7, <2>8
  <2> QED BY <2>9 DEF cur, r
<1> QED BY <1>1, ReplayKeeps, PTL
=============================================================================
