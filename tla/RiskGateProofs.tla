--------------------------- MODULE RiskGateProofs ---------------------------
(***************************************************************************)
(* The limits of RiskGate hold for every universe, every set of limits and *)
(* every length of a day.  The inductive invariant ties the deque of the   *)
(* engine to the history: order_times is the tail of the log that belongs  *)
(* to the engine's day; and an order between its check and its execution   *)
(* keeps what the check established, since time only passes meanwhile.     *)
(*                                                                         *)
(* The last part is about TradingHalt, the checks that submit makes before *)
(* these: its types.                                                       *)
(***************************************************************************)
EXTENDS RiskGate, TradingHalt, FiniteSetTheorems, TLAPS

LEMMA DayMonotone ==
  ASSUME NEW s \in Nat, NEW t \in Nat, s <= t
  PROVE  Day(s) \in Nat /\ Day(s) <= Day(t)
<1>1. DayLength \in Nat /\ DayLength > 0
  BY ClockAssumption
<1>2. /\ Day(s) \in Nat /\ Day(t) \in Nat
      /\ DayLength * Day(s) <= s /\ t < DayLength * (Day(t) + 1)
  BY <1>1 DEF Day
<1>3. ASSUME Day(t) + 1 <= Day(s) PROVE FALSE
  <2>1. DayLength * (Day(t) + 1) <= DayLength * Day(s)
    BY <1>1, <1>2, <1>3
  <2> QED BY <2>1, <1>1, <1>2
<1> QED BY <1>2, <1>3

\* What comes later is nearer to t.
LEMMA Nearer ==
  ASSUME NEW t \in Nat, NEW x \in Nat, NEW y \in Nat, NEW len \in Nat,
         x <= y, t - x < len
  PROVE  t - y < len
OBVIOUS

\* When fewer than cap entries of a rising sequence are within len of t, the
\* cap-th entry from the end is not.
LEMMA Counting ==
  ASSUME NEW s \in Seq(Nat), NEW t \in Nat, NEW len \in Nat, NEW cap \in Nat \ {0},
         \A i, j \in 1..Len(s) : i <= j => s[i] <= s[j],
         cap <= Len(s),
         Cardinality({i \in DOMAIN s : t - s[i] < len}) < cap
  PROVE  t - s[Len(s) - cap + 1] >= len
<1> DEFINE k == Len(s) - cap + 1
           W == {i \in DOMAIN s : t - s[i] < len}
<1>1. k \in 1..Len(s) /\ DOMAIN s = 1..Len(s) /\ \A i \in 1..Len(s) : s[i] \in Nat
  OBVIOUS
<1>2. SUFFICES ASSUME t - s[k] < len PROVE FALSE
  BY <1>1
<1>3. k..Len(s) \subseteq W
  <2> SUFFICES ASSUME NEW i \in k..Len(s) PROVE i \in W
    OBVIOUS
  <2>1. i \in 1..Len(s) /\ k <= i /\ i \in DOMAIN s
    BY <1>1
  <2>2. /\ s[k] <= s[i] /\ t - s[k] < len
        /\ s[k] \in Nat /\ s[i] \in Nat /\ t \in Nat /\ len \in Nat
    BY <1>1, <1>2, <2>1
  <2>3. t - s[i] < len
    BY <2>2, Nearer
  <2> QED BY <2>1, <2>3
<1>4. IsFiniteSet(W)
  <2>1. IsFiniteSet(1..Len(s))
    BY FS_Interval
  <2> QED BY <2>1, <1>1, FS_Subset
<1>5. Cardinality(k..Len(s)) = cap
  BY <1>1, FS_Interval
<1>6. Cardinality(k..Len(s)) <= Cardinality(W) /\ Cardinality(W) \in Nat
  BY <1>3, <1>4, FS_Subset, FS_CardinalityType
<1> QED BY <1>5, <1>6

----------------------------------------------------------------------------
Off == Len(log) - Len(times)

\* order_times is the part of the log that belongs to the engine's day.
History ==
  /\ Len(times) <= Len(log) /\ today = Len(times) /\ day <= Day(now)
  /\ \A i \in 1..Len(times) : log[Off + i].at = times[i]
  /\ \A i \in 1..Len(log) : log[i].at <= now
  /\ \A i \in 1..Len(log) : i <= Off => Day(log[i].at) < day
  /\ \A i \in 1..Len(log) : i > Off => Day(log[i].at) = day
  /\ \A i \in 1..Len(log) : i > Off => <<log[i].order, log[i].at>> \in recent
  /\ \A i, j \in 1..Len(log) : i <= j => log[i].at <= log[j].at

\* What the check found is still so when the order is executed.
Vetted(o) ==
  /\ \A r \in Rates : r.cap # 0 /\ r.cap <= Len(Times) =>
       now - Times[Len(Times) - r.cap + 1] >= r.len
  /\ DayOK /\ NoDuplicate(o) /\ PositionOK(o)
Pending == intent # <<>> => Vetted(intent[1]) /\ Len(log) < MaxSubmits

\* The book of RISK is off what was committed by no more than what it missed,
\* and is within the caps.
BookFollows == \A s \in Symbols : Abs(Made[s] - pos[s]) <= missed[s]
BookCapped ==
  /\ MaxPos # 0 => \A s \in Symbols : Abs(pos[s]) <= MaxPos
  /\ MaxOpen # 0 => Cardinality(OpenIn(pos)) <= MaxOpen

IInv ==
  /\ TypeOK /\ History /\ Pending
  /\ RateCap /\ DayCap /\ EqualOrdersApart
  /\ BookFollows /\ BookCapped

LEMMA LogType ==
  ASSUME TypeOK
  PROVE  /\ Len(log) \in Nat
         /\ \A i \in 1..Len(log) : log[i] \in Entry /\ log[i].at \in Nat
<1>1. log \in Seq(Entry)
  BY DEF TypeOK
<1>2. \A i \in 1..Len(log) : log[i] \in Entry
  BY <1>1
<1> QED BY <1>1, <1>2, ClockAssumption DEF Entry

\* The engine after roll_day_if_needed stands to the log as before, with
\* today's date.
LEMMA RolledHistory ==
  ASSUME TypeOK, History
  PROVE  /\ Times \in Seq(0..Horizon) /\ Recent \subseteq (Order \X (0..Horizon))
         /\ Today \in Nat /\ Today = Len(Times) /\ Len(Times) <= Len(log)
         /\ Day(now) \in 0..Day(Horizon)
         /\ \A i \in 1..Len(Times) : log[Len(log) - Len(Times) + i].at = Times[i]
         /\ \A i \in 1..Len(log) : i <= Len(log) - Len(Times) => Day(log[i].at) < Day(now)
         /\ \A i \in 1..Len(log) : i > Len(log) - Len(Times) => Day(log[i].at) = Day(now)
         /\ \A i \in 1..Len(log) :
              i > Len(log) - Len(Times) => <<log[i].order, log[i].at>> \in Recent
         /\ \A i, j \in 1..Len(Times) : i <= j => Times[i] <= Times[j]
<1>1. /\ now \in Nat /\ now <= Horizon /\ Horizon \in Nat /\ day \in Nat
      /\ Len(log) \in Nat /\ Len(times) \in Nat
      /\ \A i \in 1..Len(log) : log[i] \in Entry
  <2>1. Horizon \in Nat /\ Day(Horizon) \in Nat
    BY ClockAssumption, DayMonotone
  <2>2. now \in Nat /\ now <= Horizon /\ day \in Nat
    BY <2>1 DEF TypeOK
  <2>3. log \in Seq(Entry) /\ times \in Seq(0..Horizon)
    BY DEF TypeOK
  <2> QED BY <2>1, <2>2, <2>3
<1>2. Day(now) \in Nat /\ Day(now) <= Day(Horizon) /\ Day(Horizon) \in Nat
  BY <1>1, DayMonotone
<1>3. \A i \in 1..Len(log) : Day(log[i].at) \in Nat
  BY <1>1, DayMonotone DEF Entry
<1>4. CASE ~Rolled
  <2>1. Times = times /\ Today = today /\ Recent = recent /\ day = Day(now)
    BY <1>4 DEF Times, Today, Recent, Rolled
  <2>2. \A i, j \in 1..Len(times) : i <= j => times[i] <= times[j]
    <3> SUFFICES ASSUME NEW i \in 1..Len(times), NEW j \in 1..Len(times), i <= j
                 PROVE  times[i] <= times[j]
      OBVIOUS
    <3>1. Off + i \in 1..Len(log) /\ Off + j \in 1..Len(log) /\ Off + i <= Off + j
      BY <1>1 DEF Off, History
    <3> QED BY <3>1 DEF History
  <2> QED BY <1>1, <1>2, <2>1, <2>2 DEF TypeOK, History, Off
<1>5. CASE Rolled
  <2>1. Times = <<>> /\ Today = 0 /\ Recent = {} /\ day < Day(now)
    BY <1>1, <1>2, <1>5 DEF Times, Today, Recent, Rolled, History
  <2>2. Len(Times) = 0 /\ Times \in Seq(0..Horizon)
    BY <2>1
  <2>3. \A i \in 1..Len(log) : Day(log[i].at) <= day
    <3> SUFFICES ASSUME NEW i \in 1..Len(log) PROVE Day(log[i].at) <= day
      OBVIOUS
    <3>1. i <= Off \/ i > Off
      BY <1>1 DEF Off
    <3> QED BY <1>1, <1>3, <3>1 DEF History
  <2> QED BY <1>1, <1>2, <1>3, <2>1, <2>2, <2>3
<1> QED BY <1>4, <1>5

----------------------------------------------------------------------------
LEMMA InitInv == Init => IInv
<1> SUFFICES ASSUME Init PROVE IInv
  OBVIOUS
<1>1. 0 \in Nat /\ Horizon \in Nat /\ Day(0) \in Nat /\ Day(Horizon) \in Nat /\ Day(0) <= Day(Horizon)
  BY ClockAssumption, DayMonotone
<1>2. Len(log) = 0 /\ Len(times) = 0 /\ Len(intent) = 0
  BY DEF Init
<1>3. TypeOK
  BY <1>1, <1>2, ClockAssumption DEF Init, TypeOK, Flat
<1>4. History /\ Pending
  BY <1>1, <1>2 DEF Init, History, Pending, Off
<1>5. RateCap /\ DayCap /\ EqualOrdersApart
  <2>1. \A n \in Nat \ {0} : 1..(0 - n) = {}
    OBVIOUS
  <2> QED BY <1>2, <2>1, LimitAssumption DEF Init, RateCap, DayCap, EqualOrdersApart
<1>6. Made = Flat /\ pos = Flat /\ missed = Flat
  BY DEF Init, Made, Flat
<1>7. OpenIn(Flat) = {} /\ Cardinality({}) = 0
  BY FS_EmptySet DEF OpenIn, Flat
<1>8. BookFollows /\ BookCapped
  BY <1>6, <1>7, LimitAssumption DEF BookFollows, BookCapped, Flat, Abs
<1> QED BY <1>3, <1>4, <1>5, <1>8 DEF IInv

----------------------------------------------------------------------------
\* A history that did not grow keeps its properties.
LEMMA SameLog ==
  ASSUME IInv, UNCHANGED log
  PROVE  RateCap' /\ DayCap' /\ EqualOrdersApart'
BY DEF IInv, RateCap, DayCap, EqualOrdersApart, SameDay, Day

LEMMA SamePositions ==
  ASSUME IInv, UNCHANGED <<pos, net, carried, missed>>
  PROVE  BookFollows' /\ BookCapped'
BY DEF IInv, BookFollows, BookCapped, Made, OpenIn, Abs

LEMMA EvaluateInv ==
  ASSUME IInv, NEW o \in Order, Evaluate(o)
  PROVE  IInv'
<1>1. TypeOK /\ History
  BY DEF IInv
<1>2. /\ day' = Day(now) /\ times' = Times /\ today' = Today /\ recent' = Recent
      /\ intent' = IF Approved(o) THEN <<o>> ELSE <<>>
      /\ UNCHANGED <<now, pos, net, missed, log, carried, crashes>>
  BY DEF Evaluate, Roll, past
<1>3. ~Rolled' /\ Times' = Times /\ Today' = Today /\ Recent' = Recent
  BY <1>2 DEF Rolled, Times, Today, Recent, Day
<1>4. intent' \in Seq(Order) /\ Len(intent') <= 1
  BY <1>2
<1>5. TypeOK'
  BY <1>1, <1>2, <1>4, RolledHistory DEF TypeOK, Day
<1>6. History'
  <2>1. Len(log) \in Nat /\ Len(Times) \in Nat /\ Day(now)' = Day(now)
    BY <1>1, <1>2, RolledHistory DEF TypeOK, Day
  <2>2. Day(now) <= Day(now)
    BY <1>1, RolledHistory, <1>5, ClockAssumption, DayMonotone, SMTT(30) DEF TypeOK
  <2>3. \A i \in 1..Len(log) : log[i].at <= now
    BY <1>1 DEF History
  <2>4. \A i, j \in 1..Len(log) : i <= j => log[i].at <= log[j].at
    BY <1>1 DEF History
  <2> QED BY <1>1, <1>2, <2>1, <2>2, <2>3, <2>4, RolledHistory DEF History, Off, Day
<1>7. Pending'
  <2> SUFFICES ASSUME Approved(o) PROVE Vetted(o)'
    BY <1>2 DEF Pending, Evaluate
  <2>1. DayOK' /\ NoDuplicate(o)' /\ PositionOK(o)'
    BY <1>2, <1>3 DEF Approved, DayOK, NoDuplicate, PositionOK, Projected, OpenIn, Abs
  <2>2. ASSUME NEW r \in Rates, r.cap # 0, r.cap <= Len(Times)
        PROVE  now - Times[Len(Times) - r.cap + 1] >= r.len
    <3>1. r.cap \in Nat \ {0} /\ r.len \in Nat /\ now \in Nat
      BY <2>2, <1>1, LimitAssumption, ClockAssumption DEF TypeOK
    <3>2. Times \in Seq(Nat) /\ \A i, j \in 1..Len(Times) : i <= j => Times[i] <= Times[j]
      <4>1. Times \in Seq(0..Horizon)
        BY <1>1, RolledHistory
      <4> QED BY <4>1, <1>1, RolledHistory, ClockAssumption
    <3>3. Cardinality({i \in DOMAIN Times : now - Times[i] < r.len}) < r.cap
      BY <2>2 DEF Approved, RatesOK, Within
    <3> HIDE DEF Times
    <3> QED BY <2>2, <3>1, <3>2, <3>3, Counting
  <2> QED BY <2>1, <2>2, <1>2, <1>3 DEF Vetted
<1>8. RateCap' /\ DayCap' /\ EqualOrdersApart'
  BY <1>2, SameLog
<1>9. BookFollows' /\ BookCapped'
  BY <1>2, SamePositions
<1> QED BY <1>5, <1>6, <1>7, <1>8, <1>9 DEF IInv

LEMMA TickInv ==
  ASSUME IInv, Tick
  PROVE  IInv'
<1>1. TypeOK /\ History /\ Pending
  BY DEF IInv
<1>2. /\ now < Horizon /\ now' = now + 1
      /\ UNCHANGED <<day, times, today, recent, pos, intent, net, missed, log, carried, crashes>>
  BY DEF Tick, engine, past
<1>3. /\ now \in Nat /\ now' \in Nat /\ now' <= Horizon /\ day \in Nat /\ Horizon \in Nat
      /\ Day(now) \in Nat /\ Day(now') \in Nat /\ Day(now) <= Day(now')
  <2>1. /\ now \in Nat /\ now' \in Nat /\ now' <= Horizon /\ Horizon \in Nat /\ now <= now'
    BY <1>1, <1>2, ClockAssumption DEF TypeOK
  <2>2. Day(Horizon) \in Nat
    BY <2>1, DayMonotone
  <2>3. day \in Nat
    BY <2>2, <1>1 DEF TypeOK
  <2> QED BY <2>1, <2>3, DayMonotone
<1>4. TypeOK'
  BY <1>1, <1>2, <1>3 DEF TypeOK, Day
<1>5. History'
  <2>1. /\ \A i \in 1..Len(log) : log[i].at \in Nat
        /\ \A i \in 1..Len(log) : log[i].at <= now
    BY <1>1, LogType DEF History
  <2>2. \A i \in 1..Len(log) : log[i].at <= now'
    BY <2>1, <1>2, <1>3
  <2>3. day <= Day(now')
    BY <1>1, <1>3 DEF History
  <2> QED BY <1>1, <1>2, <2>2, <2>3 DEF History, Off, Day
<1>6. Pending'
  <2> SUFFICES ASSUME intent # <<>> PROVE Vetted(intent[1])'
    BY <1>1, <1>2 DEF Pending
  <2>1. Vetted(intent[1])
    BY <1>1 DEF Pending
  <2>2. intent[1] \in Order
    BY <1>1 DEF TypeOK
  <2>3. PositionOK(intent[1])'
    BY <2>1, <1>2 DEF Vetted, PositionOK, Projected, OpenIn, Abs
  <2>4. CASE Rolled'
    <3>1. Times' = <<>> /\ Today' = 0 /\ Recent' = {}
      BY <2>4 DEF Times, Today, Recent
    <3>2. Len(Times') = 0 /\ \A r \in Rates : r.cap \in Nat
      BY <3>1, LimitAssumption
    <3> QED BY <2>3, <3>1, <3>2, LimitAssumption DEF Vetted, DayOK, NoDuplicate
  <2>5. CASE ~Rolled'
    <3>1. day = Day(now)' /\ Day(now)' = Day(now')
      BY <2>5, <1>2 DEF Rolled, Day
    <3>2. ~Rolled
      BY <3>1, <1>1, <1>3 DEF Rolled, History
    <3>3. Times' = Times /\ Today' = Today /\ Recent' = Recent
      BY <2>5, <3>2, <1>2 DEF Times, Today, Recent
    <3>4. Times \in Seq(0..Horizon) /\ Recent \subseteq (Order \X (0..Horizon))
      BY <1>1, RolledHistory
    <3>5. ASSUME NEW r \in Rates, r.cap # 0, r.cap <= Len(Times)
          PROVE  now' - Times[Len(Times) - r.cap + 1] >= r.len
      <4>1. now - Times[Len(Times) - r.cap + 1] >= r.len
        BY <2>1, <3>5 DEF Vetted
      <4>2. r.cap \in Nat /\ r.len \in Nat
        BY LimitAssumption
      <4>3. Len(Times) - r.cap + 1 \in 1..Len(Times)
        BY <3>4, <3>5, <4>2
      <4>4. Times[Len(Times) - r.cap + 1] \in Nat
        BY <3>4, <4>3, <1>3
      <4> QED BY <4>1, <4>2, <4>4, <1>2, <1>3, SMTT(30)
    <3>6. NoDuplicate(intent[1])'
      <4> SUFFICES ASSUME NEW e \in Recent, e[1] = intent[1] PROVE now' - e[2] >= DupWindow
        BY <1>2, <3>3 DEF NoDuplicate
      <4>1. now - e[2] >= DupWindow
        BY <2>1 DEF Vetted, NoDuplicate
      <4>2. e[2] \in 0..Horizon
        BY <3>4
      <4> QED BY <4>1, <4>2, <1>2, <1>3, LimitAssumption
    <3>7. DayOK'
      BY <2>1, <3>3 DEF Vetted, DayOK
    <3> QED BY <2>3, <3>3, <3>5, <3>6, <3>7, <1>2 DEF Vetted
  <2> QED BY <2>4, <2>5
<1>7. RateCap' /\ DayCap' /\ EqualOrdersApart'
  BY <1>2, SameLog
<1>8. BookFollows' /\ BookCapped'
  BY <1>2, SamePositions
<1> QED BY <1>4, <1>5, <1>6, <1>7, <1>8 DEF IInv

LEMMA ExecuteInv ==
  ASSUME IInv, NEW outcome \in Outcomes, Execute(outcome)
  PROVE  IInv'
<1> DEFINE o == intent[1]
           n == Len(log)
           k == Len(Times)
           e == [at |-> now, order |-> o]
<1>1. TypeOK /\ History /\ Pending
  BY DEF IInv
<1>2. /\ intent # <<>> /\ intent' = <<>>
      /\ day' = Day(now) /\ times' = Append(Times, now) /\ today' = Today + 1
      /\ recent' = Recent \cup {<<o, now>>} /\ log' = Append(log, e)
      /\ UNCHANGED <<now, carried, crashes>>
      /\ Filled(o, outcome)
  BY DEF Execute, Record, past
<1>3. /\ now \in Nat /\ now \in 0..Horizon /\ Horizon \in Nat /\ o \in Order /\ e \in Entry
      /\ n \in Nat /\ n <= MaxSubmits
  BY <1>1, <1>2, ClockAssumption DEF TypeOK, Entry
<1>4. /\ Times \in Seq(0..Horizon) /\ Recent \subseteq (Order \X (0..Horizon))
      /\ Today \in Nat /\ Today = k /\ k <= n /\ k \in Nat
      /\ Day(now) \in 0..Day(Horizon) /\ Day(now) \in Nat
  BY <1>1, <1>3, RolledHistory, DayMonotone
<1>5. Vetted(o) /\ n < MaxSubmits
  BY <1>1, <1>2 DEF Pending
<1>6. /\ log' \in Seq(Entry) /\ Len(log') = n + 1 /\ log'[n + 1] = e
      /\ \A i \in 1..n : log'[i] = log[i]
      /\ times' \in Seq(0..Horizon) /\ Len(times') = k + 1 /\ times'[k + 1] = now
      /\ \A i \in 1..k : times'[i] = Times[i]
  <2>1. log \in Seq(Entry)
    BY <1>1 DEF TypeOK
  <2> QED BY <2>1, <1>2, <1>3, <1>4
<1>7. \A i \in 1..n : /\ log[i].at \in Nat /\ log[i].at <= now /\ Day(log[i].at) \in Nat
                      /\ Day(log[i].at) <= Day(now)
  BY <1>1, <1>3, LogType, DayMonotone DEF History
\* An order of the same day is in order_times.
<1>8. ASSUME NEW i \in 1..n, Day(log[i].at) = Day(now)
      PROVE  /\ i - (n - k) \in 1..k /\ Times[i - (n - k)] = log[i].at
             /\ <<log[i].order, log[i].at>> \in Recent
  <2>1. i > n - k
    BY <1>1, <1>3, <1>4, <1>7, <1>8, RolledHistory
  <2>2. i - (n - k) \in 1..k /\ (n - k) + (i - (n - k)) = i
    BY <2>1, <1>3, <1>4
  <2>3. \A j \in 1..k : log[(n - k) + j].at = Times[j]
    BY <1>1, RolledHistory
  <2>4. <<log[i].order, log[i].at>> \in Recent
    BY <2>1, <1>1, RolledHistory
  <2> HIDE DEF k, n
  <2> QED BY <2>2, <2>3, <2>4
<1> HIDE DEF e, n, k, o
<1>9. \A i \in 1..(n + 1) : (i \in 1..n /\ log'[i] = log[i]) \/ (i = n + 1 /\ log'[i] = e)
  BY <1>3, <1>6
<1>10. e.at = now /\ e.order = o
  BY DEF e
<1>11. pos' \in [Symbols -> Int] /\ net' \in [Symbols -> Int] /\ missed' \in [Symbols -> Nat]
  <2>1. pos \in [Symbols -> Int] /\ net \in [Symbols -> Int] /\ missed \in [Symbols -> Nat]
    BY <1>1 DEF TypeOK
  <2>2. o.sym \in Symbols /\ o.qty \in Int
    BY <1>3, OrderAssumption DEF Order
  <2>6. Abs(o.qty) \in Nat
    BY <2>2 DEF Abs
  <2>3. Projected(o) \in [Symbols -> Int] /\ [net EXCEPT ![o.sym] = @ + o.qty] \in [Symbols -> Int]
    BY <2>1, <2>2 DEF Projected
  <2>4. missed[o.sym] + Abs(o.qty) \in Nat
    BY <2>1, <2>2, <2>6
  <2>5. [missed EXCEPT ![o.sym] = @ + Abs(o.qty)] \in [Symbols -> Nat]
    BY <2>1, <2>4
  <2> QED BY <1>2, <2>1, <2>3, <2>5 DEF Filled
<1>12. times' \in Seq(0..Horizon) /\ today' \in Nat /\ recent' \subseteq (Order \X (0..Horizon))
  BY <1>2, <1>3, <1>4, <1>6
<1>13. TypeOK'
  <2>1. intent' \in Seq(Order) /\ Len(intent') <= 1
    BY <1>2
  <2>2. Len(log') <= MaxSubmits
    BY <1>3, <1>5, <1>6, ClockAssumption
  <2>3. now' \in 0..Horizon /\ carried' \in [Symbols -> Int] /\ crashes' \in 0..MaxCrashes
    BY <1>1, <1>2 DEF TypeOK
  <2>4. day' \in 0..Day(Horizon)
    BY <1>2, <1>4
  <2> QED BY <1>6, <1>11, <1>12, <2>1, <2>2, <2>3, <2>4 DEF TypeOK, Day
<1>14. History'
  <2>1. Off' = n - k /\ Day(now)' = Day(now)
    BY <1>2, <1>3, <1>4, <1>6 DEF Off, Day
  <2>2. Len(times') <= Len(log') /\ today' = Len(times') /\ day' <= Day(now)'
    BY <1>2, <1>3, <1>4, <1>6, <2>1
  <2>3. ASSUME NEW i \in 1..(k + 1) PROVE log'[Off' + i].at = times'[i]
    <3>1. CASE i = k + 1
      BY <3>1, <2>1, <1>3, <1>4, <1>6, <1>10
    <3>2. CASE i \in 1..k
      <4>1. (n - k) + i \in 1..n
        BY <3>2, <1>3, <1>4
      <4>2. log[(n - k) + i].at = Times[i]
        BY <1>1, <3>2, RolledHistory DEF n, k
      <4> QED BY <4>1, <4>2, <2>1, <1>6, <3>2
    <3> QED BY <3>1, <3>2, <1>4
  <2>4. ASSUME NEW i \in 1..(n + 1)
        PROVE  /\ log'[i].at <= now
               /\ i <= n - k => Day(log'[i].at) < Day(now)
               /\ i > n - k => Day(log'[i].at) = Day(now)
               /\ i > n - k => <<log'[i].order, log'[i].at>> \in recent'
    <3>1. CASE i = n + 1
      <4>1. log'[i].at = now /\ log'[i].order = o /\ <<o, now>> \in recent'
        BY <3>1, <1>2, <1>6, <1>10
      <4>2. ~(i <= n - k) /\ now <= now
        BY <3>1, <1>3, <1>4
      <4> QED BY <4>1, <4>2
    <3>2. CASE i \in 1..n
      <4>1. log'[i] = log[i] /\ log[i].at <= now
        BY <3>2, <1>6, <1>7
      <4>2. /\ i <= n - k => Day(log[i].at) < Day(now)
            /\ i > n - k => Day(log[i].at) = Day(now)
            /\ i > n - k => <<log[i].order, log[i].at>> \in Recent
        BY <3>2, <1>1, RolledHistory DEF n, k
      <4> QED BY <4>1, <4>2, <1>2
    <3> QED BY <3>1, <3>2, <1>3
  <2>5. ASSUME NEW i \in 1..(n + 1), NEW j \in 1..(n + 1), i <= j
        PROVE  log'[i].at <= log'[j].at
    <3>1. CASE j = n + 1
      BY <3>1, <2>4, <1>6, <1>10
    <3>2. CASE j \in 1..n
      <4>1. i \in 1..n
        BY <3>2, <2>5, <1>3
      <4>2. log[i].at <= log[j].at
        BY <3>2, <4>1, <2>5, <1>1 DEF History, n
      <4> QED BY <3>2, <4>1, <4>2, <1>6
    <3> QED BY <3>1, <3>2, <1>3
  <2>6. \A t : Day(t)' = Day(t)
    BY DEF Day
  <2> QED BY <2>1, <2>2, <2>3, <2>4, <2>5, <2>6, <1>2, <1>6 DEF History
<1>15. Pending'
  BY <1>2 DEF Pending
<1>16. RateCap'
  <2> SUFFICES ASSUME NEW r \in Rates, r.cap # 0, NEW i \in 1..((n + 1) - r.cap),
                      Day(log'[i].at) = Day(log'[i + r.cap].at)
               PROVE  log'[i + r.cap].at - log'[i].at >= r.len
    BY <1>6 DEF RateCap, SameDay, Day
  <2>1. r.cap \in Nat \ {0} /\ r.len \in Nat
    BY LimitAssumption
  <2>2. i \in 1..n /\ i + r.cap \in 1..(n + 1)
    BY <2>1, <1>3
  <2>3. CASE i + r.cap <= n
    <3>1. i + r.cap \in 1..n /\ i \in 1..(n - r.cap)
      BY <2>1, <2>2, <2>3, <1>3
    <3>2. log'[i] = log[i] /\ log'[i + r.cap] = log[i + r.cap]
      BY <2>2, <3>1, <1>6
    <3> QED BY <3>1, <3>2 DEF IInv, RateCap, SameDay, n
  <2>4. CASE i + r.cap = n + 1
    <3>1. log'[i] = log[i] /\ log'[i + r.cap].at = now
      BY <2>2, <2>4, <1>6, <1>10
    <3>2. i - (n - k) \in 1..k /\ Times[i - (n - k)] = log[i].at
      BY <2>2, <3>1, <1>8
    <3>3. i - (n - k) = k - r.cap + 1 /\ r.cap <= k
      <4>1. i \in Nat /\ n \in Nat /\ k \in Nat /\ r.cap \in Nat
        BY <2>2, <2>1, <1>3, <1>4
      <4>2. i + r.cap = n + 1 /\ i - (n - k) \in 1..k
        BY <3>2, <2>4
      <4> QED BY ONLY <4>1, <4>2
    <3>4. now - Times[k - r.cap + 1] >= r.len
      BY <1>5, <3>3 DEF Vetted, k
    <3> QED BY <3>1, <3>2, <3>3, <3>4
  <2> QED BY <2>2, <2>3, <2>4, <1>3
<1>17. DayCap'
  <2> SUFFICES ASSUME PerDay # 0, NEW i \in 1..((n + 1) - PerDay),
                      Day(log'[i].at) = Day(log'[i + PerDay].at)
               PROVE  FALSE
    BY <1>6 DEF DayCap, SameDay, Day
  <2>1. PerDay \in Nat \ {0} /\ i \in 1..n /\ i + PerDay \in 1..(n + 1)
    BY LimitAssumption, <1>3
  <2>2. CASE i + PerDay <= n
    <3>1. i + PerDay \in 1..n /\ i \in 1..(n - PerDay)
      BY <2>1, <2>2, <1>3
    <3>2. log'[i] = log[i] /\ log'[i + PerDay] = log[i + PerDay]
      BY <2>1, <3>1, <1>6
    <3> QED BY <3>1, <3>2 DEF IInv, DayCap, SameDay, n
  <2>3. CASE i + PerDay = n + 1
    <3>1. log'[i] = log[i] /\ log'[i + PerDay].at = now
      BY <2>1, <2>3, <1>6, <1>10
    <3>2. i - (n - k) \in 1..k
      BY <2>1, <3>1, <1>8
    <3>3. Today < PerDay
      BY <1>5 DEF Vetted, DayOK
    <3> QED BY <3>2, <3>3, <2>1, <2>3, <1>3, <1>4, SMTT(30)
  <2> QED BY <2>1, <2>2, <2>3, <1>3
<1>18. EqualOrdersApart'
  <2> SUFFICES ASSUME NEW i \in 1..(n + 1), NEW j \in 1..(n + 1), i < j,
                      log'[i].order = log'[j].order, Day(log'[i].at) = Day(log'[j].at)
               PROVE  log'[j].at - log'[i].at >= DupWindow
    BY <1>6 DEF EqualOrdersApart, SameDay, Day
  <2>1. i \in 1..n /\ log'[i] = log[i]
    BY <1>3, <1>6
  <2>2. CASE j \in 1..n
    <3>1. log'[j] = log[j] /\ DOMAIN log = 1..n
      BY <2>2, <1>1, <1>6 DEF TypeOK, n
    <3> QED BY <2>1, <2>2, <3>1 DEF IInv, EqualOrdersApart, SameDay
  <2>3. CASE j = n + 1
    <3>1. log[i].order = o /\ Day(log[i].at) = Day(now) /\ log'[j].at = now
      BY <2>1, <2>3, <1>6, <1>10
    <3>2. <<log[i].order, log[i].at>> \in Recent
      BY <2>1, <3>1, <1>8
    <3>3. now - log[i].at >= DupWindow
      BY <3>1, <3>2, <1>5 DEF Vetted, NoDuplicate
    <3> QED BY <2>1, <3>1, <3>3
  <2> QED BY <2>2, <2>3, <1>3
<1>19. BookFollows'
  <2>1. /\ pos \in [Symbols -> Int] /\ net \in [Symbols -> Int]
        /\ carried \in [Symbols -> Int] /\ missed \in [Symbols -> Nat]
        /\ o.sym \in Symbols /\ o.qty \in Int
    BY <1>1, <1>3, OrderAssumption DEF TypeOK, Order
  <2> SUFFICES ASSUME NEW s \in Symbols PROVE Abs(Made'[s] - pos'[s]) <= missed'[s]
    BY DEF BookFollows, Abs
  <2>2. Abs((net[s] - carried[s]) - pos[s]) <= missed[s]
    BY DEF IInv, BookFollows, Made
  <2>3. Made'[s] = net'[s] - carried[s]
    BY <1>2 DEF Made
  <2>4. CASE s # o.sym \/ outcome = "failed"
    <3>1. net'[s] = net[s] /\ pos'[s] = pos[s] /\ missed'[s] = missed[s]
      BY <2>1, <2>4, <1>2 DEF Filled, Projected
    <3> QED BY <2>2, <2>3, <3>1
  <2>5. CASE s = o.sym /\ outcome = "filled"
    <3>1. net'[s] = net[s] + o.qty /\ pos'[s] = pos[s] + o.qty /\ missed'[s] = missed[s]
      BY <2>1, <2>5, <1>2 DEF Filled, Projected
    <3>2. net[s] \in Int /\ carried[s] \in Int /\ pos[s] \in Int /\ o.qty \in Int
      BY <2>1
    <3>3. Made'[s] = (net[s] + o.qty) - carried[s]
      BY <2>3, <3>1
    <3>4. Made'[s] - pos'[s] = (net[s] - carried[s]) - pos[s]
      BY <3>1, <3>2, <3>3
    <3> QED BY <2>2, <3>1, <3>4
  <2>6. CASE s = o.sym /\ outcome = "unheard"
    <3>1. net'[s] = net[s] + o.qty /\ pos'[s] = pos[s] /\ missed'[s] = missed[s] + Abs(o.qty)
      BY <2>1, <2>6, <1>2 DEF Filled
    <3>2. net[s] \in Int /\ carried[s] \in Int /\ pos[s] \in Int /\ missed[s] \in Nat
      BY <2>1
    <3> QED BY <2>1, <2>2, <2>3, <3>1, <3>2 DEF Abs
  <2> QED BY <2>4, <2>5, <2>6 DEF Outcomes
<1>20. BookCapped'
  <2>1. CASE outcome # "filled"
    BY <2>1, <1>2 DEF IInv, Filled, BookCapped, OpenIn, Abs
  <2>2. CASE outcome = "filled"
    <3>1. pos' = Projected(o)
      BY <2>2, <1>2 DEF Filled
    <3>2. MaxOpen # 0 => Cardinality(OpenIn(Projected(o))) <= MaxOpen
      BY <1>5 DEF Vetted, PositionOK
    <3>3. ASSUME MaxPos # 0, NEW s \in Symbols PROVE Abs(Projected(o)[s]) <= MaxPos
      <4>1. CASE s = o.sym
        BY <3>3, <4>1, <1>5 DEF Vetted, PositionOK
      <4>2. CASE s # o.sym
        <5>1. Projected(o)[s] = pos[s]
          BY <4>2, <1>1 DEF Projected, TypeOK
        <5> QED BY <3>3, <5>1 DEF IInv, BookCapped
      <4> QED BY <4>1, <4>2
    <3> QED BY <3>1, <3>2, <3>3 DEF BookCapped, OpenIn, Abs
  <2> QED BY <2>1, <2>2
<1> QED BY <1>13, <1>14, <1>15, <1>16, <1>17, <1>18, <1>19, <1>20 DEF IInv

LEMMA CrashInv ==
  ASSUME IInv, Crash
  PROVE  IInv'
<1>1. TypeOK
  BY DEF IInv
<1>2. /\ day' = Day(now) /\ times' = <<>> /\ today' = 0 /\ recent' = {} /\ pos' = Flat
      /\ intent' = <<>> /\ log' = <<>> /\ carried' = net /\ missed' = Flat
      /\ crashes' \in 0..MaxCrashes /\ UNCHANGED <<now, net>>
  BY <1>1, ClockAssumption DEF Crash, TypeOK
<1>3. now \in Nat /\ Horizon \in Nat /\ now <= Horizon
  BY <1>1, ClockAssumption DEF TypeOK
<1>4. Day(now) \in 0..Day(Horizon) /\ Day(now) <= Day(now)
  <2>1. Day(now) \in Nat /\ Day(Horizon) \in Nat /\ Day(now) <= Day(Horizon)
    BY <1>3, DayMonotone
  <2> QED BY <2>1
<1>5. Len(log') = 0 /\ Len(times') = 0 /\ Len(intent') = 0 /\ DOMAIN log' = {}
  BY <1>2
<1>6. Flat \in [Symbols -> Int] /\ Flat \in [Symbols -> Nat]
  BY DEF Flat
<1>7. TypeOK'
  BY <1>1, <1>2, <1>4, <1>5, <1>6, ClockAssumption DEF TypeOK, Day
<1>8. History' /\ Pending'
  BY <1>2, <1>4, <1>5 DEF History, Pending, Off, Day
<1>9. RateCap' /\ DayCap' /\ EqualOrdersApart'
  <2>1. \A m \in Nat \ {0} : 1..(0 - m) = {}
    OBVIOUS
  <2> QED BY <1>5, <2>1, LimitAssumption DEF RateCap, DayCap, EqualOrdersApart
<1>10. Made' = Flat
  <2>1. \A s \in Symbols : net[s] - net[s] = 0
    BY <1>1 DEF TypeOK
  <2> QED BY <1>2, <2>1 DEF Made, Flat
<1>11. OpenIn(Flat) = {} /\ Cardinality({}) = 0
  BY FS_EmptySet DEF OpenIn, Flat
<1>12. BookFollows' /\ BookCapped'
  <2>1. Made' = Flat /\ pos' = Flat /\ missed' = Flat /\ OpenIn(pos)' = {}
    BY <1>2, <1>10, <1>11 DEF OpenIn
  <2> QED BY <2>1, <1>11, LimitAssumption DEF BookFollows, BookCapped, Flat, Abs
<1> QED BY <1>7, <1>8, <1>9, <1>12 DEF IInv

LEMMA NextInv == IInv /\ [Next]_vars => IInv'
<1> SUFFICES ASSUME IInv, [Next]_vars PROVE IInv'
  OBVIOUS
<1>1. CASE Next
  BY <1>1, EvaluateInv, ExecuteInv, TickInv, CrashInv DEF Next
<1>2. CASE UNCHANGED vars
  <2>1. UNCHANGED <<now, day, times, today, recent, pos, intent, net, missed, log, carried, crashes>>
    BY <1>2 DEF vars, engine, past
  <2>2. TypeOK' /\ History' /\ Pending'
    BY <2>1 DEF IInv, TypeOK, History, Pending, Off, Day, Vetted, DayOK, NoDuplicate,
                PositionOK, Projected, OpenIn, Abs, Times, Today, Recent, Rolled
  <2>3. RateCap' /\ DayCap' /\ EqualOrdersApart' /\ BookFollows' /\ BookCapped'
    BY <2>1, SameLog, SamePositions
  <2> QED BY <2>2, <2>3 DEF IInv
<1> QED BY <1>1, <1>2

LEMMA Invariance == Spec => []IInv
BY InitInv, NextInv, PTL DEF Spec

----------------------------------------------------------------------------
(* Theorems *)

\* Every state of the engine and of the router is of its type; in particular
\* the router holds at most one approved order.
THEOREM TypeCorrect == Spec => []TypeOK
<1>1. IInv => TypeOK
  BY DEF IInv
<1> QED BY <1>1, Invariance, PTL

\* The order-rate limits hold for the orders a process let through, whatever
\* time passes between evaluate and record_submitted.
THEOREM RatesHold == Spec => []RateCap
<1>1. IInv => RateCap
  BY DEF IInv
<1> QED BY <1>1, Invariance, PTL

\* The daily limit holds, and equal orders are the duplicate window apart.
THEOREM DaysHold == Spec => [](DayCap /\ EqualOrdersApart)
<1>1. IInv => DayCap /\ EqualOrdersApart
  BY DEF IInv
<1> QED BY <1>1, Invariance, PTL

\* However many commits fail, and however many fills the book misses because the
\* row's reload raised, no sequence of orders takes the committed positions of a
\* process over a cap by more than the fills its book missed: the book cannot
\* move between evaluate and the fill it approved.
THEOREM CapsHold == Spec => []PositionCaps
<1>1. IInv => PositionCaps
  <2> SUFFICES ASSUME IInv PROVE PositionCaps
    OBVIOUS
  <2>1. /\ Made \in [Symbols -> Int] /\ pos \in [Symbols -> Int] /\ missed \in [Symbols -> Nat]
        /\ BookFollows /\ BookCapped
    BY DEF IInv, TypeOK, Made
  <2>2. ASSUME MaxPos # 0, NEW s \in Symbols PROVE Abs(Made[s]) <= MaxPos + missed[s]
    <3>1. Abs(Made[s] - pos[s]) <= missed[s] /\ Abs(pos[s]) <= MaxPos
      BY <2>1, <2>2 DEF BookFollows, BookCapped
    <3>2. Made[s] \in Int /\ pos[s] \in Int /\ missed[s] \in Nat /\ MaxPos \in Nat
      BY <2>1, LimitAssumption
    <3> QED BY <3>1, <3>2 DEF Abs
  <2>3. ASSUME MaxOpen # 0
        PROVE  Cardinality({s \in OpenIn(Made) : missed[s] = 0}) <= MaxOpen
    <3> DEFINE heard == {s \in OpenIn(Made) : missed[s] = 0}
    <3>1. heard \subseteq OpenIn(pos)
      <4> SUFFICES ASSUME NEW s \in Symbols, Made[s] # 0, missed[s] = 0 PROVE pos[s] # 0
        BY DEF OpenIn
      <4>1. Abs(Made[s] - pos[s]) <= 0 /\ Made[s] \in Int /\ pos[s] \in Int
        BY <2>1 DEF BookFollows
      <4> QED BY <4>1 DEF Abs
    <3>2. IsFiniteSet(OpenIn(pos))
      <4>1. OpenIn(pos) \subseteq Symbols
        BY DEF OpenIn
      <4> QED BY <4>1, OrderAssumption, FS_Subset
    <3>3. /\ Cardinality(heard) <= Cardinality(OpenIn(pos))
          /\ Cardinality(heard) \in Nat /\ Cardinality(OpenIn(pos)) \in Nat
      BY <3>1, <3>2, FS_Subset, FS_CardinalityType
    <3>4. Cardinality(OpenIn(pos)) <= MaxOpen
      BY <2>1, <2>3 DEF BookCapped
    <3> QED BY <3>3, <3>4, LimitAssumption
  <2> QED BY <2>2, <2>3 DEF PositionCaps
<1> QED BY <1>1, Invariance, PTL

-----------------------------------------------------------------------------
(* The two halts in front of the limits: the properties of TradingHalt, for *)
(* any deployments and any number of orders, calls and events.              *)

LEMMA BreakersTyped ==
  ASSUME HaltTypeOK, NEW b \in [reasons : SUBSET Reasons, override : BOOLEAN],
         Breakers(b)
  PROVE  /\ globalKill' \in [Proc -> BOOLEAN]
         /\ killed' \in [Proc -> SUBSET Deployments]
         /\ reasons' \in [Proc -> SUBSET Reasons]
         /\ override' \in [Proc -> BOOLEAN]
BY DEF HaltTypeOK, Breakers

\* What a reading leaves of the breakers has their types.
LEMMA TripTyped ==
  ASSUME HaltTypeOK, NEW r \in Reasons
  PROVE  /\ Tripped(r, reasons["api"], override["api"])
              \in [reasons : SUBSET Reasons, override : BOOLEAN]
         /\ Cleared(r, reasons["api"], override["api"])
              \in [reasons : SUBSET Reasons, override : BOOLEAN]
<1>1. reasons["api"] \subseteq Reasons /\ override["api"] \in BOOLEAN
  BY DEF HaltTypeOK, Proc
<1>2. reasons["api"] \cup {r} \subseteq Reasons /\ reasons["api"] \ {r} \subseteq Reasons
  BY <1>1
<1>3. (override["api"] /\ reasons["api"] \ {r} # {}) \in BOOLEAN
  OBVIOUS
<1> QED BY <1>2, <1>3 DEF Tripped, Cleared

\* The types, with room for the order that is under way.
HaltTyped == HaltTypeOK /\ (submit # NoSubmit => orders < MaxOrders)

LEMMA HaltInvariance == HaltSpec => []HaltTyped
<1> USE HaltAssumption DEF halts, bounded
<1>1. HaltInit => HaltTyped
  <2> SUFFICES ASSUME HaltInit PROVE HaltTyped
    OBVIOUS
  <2>1. feed \in Feed
    BY DEF HaltInit, Feed, Age
  <2>2. submit \in [dep : Deployments \cup {NoDep}, halted : BOOLEAN]
    BY DEF HaltInit, NoSubmit
  <2>3. asked \in [all : BOOLEAN, deps : SUBSET Deployments]
    BY DEF HaltInit
  <2> QED BY <2>1, <2>2, <2>3 DEF HaltInit, HaltTypeOK, HaltTyped
<1>2. HaltTyped /\ [HaltNext]_haltVars => HaltTyped'
  <2> SUFFICES ASSUME HaltTyped, [HaltNext]_haltVars PROVE HaltTyped'
    OBVIOUS
  <2>1. ASSUME NEW e \in BOOLEAN, KillAll(e) PROVE HaltTyped'
    <3>1. globalKill' \in [Proc -> BOOLEAN]
      BY <2>1 DEF HaltTyped, HaltTypeOK, KillAll
    <3>2. asked' \in [all : BOOLEAN, deps : SUBSET Deployments]
      BY <2>1 DEF HaltTyped, HaltTypeOK, KillAll
    <3>3. ops' \in 0..MaxOps /\ events' \in 0..MaxEvents
      BY <2>1 DEF HaltTyped, HaltTypeOK, KillAll, Operator
    <3> QED BY <2>1, <3>1, <3>2, <3>3 DEF HaltTyped, HaltTypeOK, KillAll
  <2>2. ASSUME NEW d \in Deployments, NEW e \in BOOLEAN, Kill(d, e) PROVE HaltTyped'
    <3> DEFINE With(S) == IF e THEN S \cup {d} ELSE S \ {d}
    <3>1. /\ killed' = [killed EXCEPT !["api"] = With(killed["api"])]
          /\ asked' = [asked EXCEPT !.deps = With(asked.deps)]
      BY <2>2 DEF Kill
    <3>2. \A S \in SUBSET Deployments : With(S) \in SUBSET Deployments
      OBVIOUS
    <3> HIDE DEF With
    <3>3. killed' \in [Proc -> SUBSET Deployments]
      BY <3>1, <3>2 DEF HaltTyped, HaltTypeOK, Proc
    <3>4. asked' \in [all : BOOLEAN, deps : SUBSET Deployments]
      BY <3>1, <3>2 DEF HaltTyped, HaltTypeOK
    <3>5. ops' \in 0..MaxOps /\ events' \in 0..MaxEvents
      BY <2>2 DEF HaltTyped, HaltTypeOK, Kill, Operator
    <3> QED BY <2>2, <3>3, <3>4, <3>5 DEF HaltTyped, HaltTypeOK, Kill
  <2>3. CASE Override
    <3>1. override' \in [Proc -> BOOLEAN]
      BY <2>3 DEF HaltTyped, HaltTypeOK, Override
    <3>2. ops' \in 0..MaxOps /\ events' \in 0..MaxEvents
      BY <2>3 DEF HaltTyped, HaltTypeOK, Override, Operator
    <3> QED BY <2>3, <3>1, <3>2 DEF HaltTyped, HaltTypeOK, Override
  <2>4. CASE ApiRestart
    <3>1. feed' \in Feed
      BY <2>4 DEF HaltTyped, HaltTypeOK, ApiRestart, Feed, Age
    <3>2. submit' \in [dep : Deployments \cup {NoDep}, halted : BOOLEAN]
      BY <2>4 DEF HaltTyped, HaltTypeOK, ApiRestart, NoSubmit
    <3>3. ops' \in 0..MaxOps /\ events' \in 0..MaxEvents
      BY <2>4 DEF HaltTyped, HaltTypeOK, ApiRestart, Operator
    <3>4. /\ globalKill' \in [Proc -> BOOLEAN] /\ killed' \in [Proc -> SUBSET Deployments]
          /\ reasons' \in [Proc -> SUBSET Reasons] /\ override' \in [Proc -> BOOLEAN]
      BY <2>4 DEF HaltTyped, HaltTypeOK, ApiRestart
    <3>5. submit' # NoSubmit => orders' < MaxOrders
      BY <2>4 DEF HaltTyped, ApiRestart
    <3>6. /\ monitor' \in {"asleep", "stale", "live"} /\ orders' \in 0..MaxOrders
          /\ asked' \in [all : BOOLEAN, deps : SUBSET Deployments]
      BY <2>4 DEF HaltTyped, HaltTypeOK, ApiRestart
    <3> QED BY <3>1, <3>2, <3>3, <3>4, <3>5, <3>6 DEF HaltTyped, HaltTypeOK
  <2>5. CASE StartTicker
    <3>1. feed' \in Feed
      BY <2>5 DEF HaltTyped, HaltTypeOK, StartTicker, Feed
    <3> QED BY <2>5, <3>1 DEF HaltTyped, HaltTypeOK, StartTicker
  <2>6. CASE ObserveFeed
    <3>1. "broker_feed_disconnected" \in Reasons
      BY DEF Reasons
    <3>2. PICK b \in [reasons : SUBSET Reasons, override : BOOLEAN] : Breakers(b)
      BY <2>6, <3>1, TripTyped DEF HaltTyped, ObserveFeed
    <3> QED BY <2>6, <3>2, BreakersTyped DEF HaltTyped, HaltTypeOK, ObserveFeed
  <2>7. CASE ObserveData
    <3>1. "market_data_stale" \in Reasons
      BY DEF Reasons
    <3>2. PICK b \in [reasons : SUBSET Reasons, override : BOOLEAN] : Breakers(b)
      BY <2>7, <3>1, TripTyped DEF HaltTyped, ObserveData
    <3> QED BY <2>7, <3>2, BreakersTyped DEF HaltTyped, HaltTypeOK, ObserveData
  <2>8. CASE FeedEvent
    <3>1. feed' \in Feed
      BY <2>8 DEF HaltTyped, HaltTypeOK, FeedEvent, Feed, Age
    <3>2. events' \in 0..MaxEvents
      BY <2>8 DEF HaltTyped, HaltTypeOK, FeedEvent
    <3> QED BY <2>8, <3>1, <3>2 DEF HaltTyped, HaltTypeOK, FeedEvent
  <2>9. ASSUME NEW d \in Deployments, ReadHalted(d) PROVE HaltTyped'
    <3>1. Halted("api") \in BOOLEAN
      BY DEF Halted
    <3>2. submit' \in [dep : Deployments \cup {NoDep}, halted : BOOLEAN]
      BY <2>9, <3>1 DEF HaltTyped, HaltTypeOK, ReadHalted, NoSubmit
    <3> QED BY <2>9, <3>2 DEF HaltTyped, HaltTypeOK, ReadHalted
  <2>10. CASE EvaluateKills
    <3>1. submit' = NoSubmit /\ NoSubmit \in [dep : Deployments \cup {NoDep}, halted : BOOLEAN]
      BY <2>10 DEF EvaluateKills, NoSubmit
    <3>2. orders' \in 0..MaxOrders
      BY <2>10 DEF HaltTyped, HaltTypeOK, EvaluateKills
    <3> QED BY <2>10, <3>1, <3>2 DEF HaltTyped, HaltTypeOK, EvaluateKills
  <2>11. CASE UNCHANGED haltVars
    BY <2>11 DEF HaltTyped, HaltTypeOK, haltVars
  <2> QED BY <2>1, <2>2, <2>3, <2>4, <2>5, <2>6, <2>7, <2>8, <2>9, <2>10, <2>11
          DEF HaltNext, Observe
<1> QED BY <1>1, <1>2, PTL DEF HaltSpec

\* The kill switch, the breakers, the feed and the submit under way keep their
\* types through the operator's calls, restarts, readings and events.
THEOREM HaltTypes == HaltSpec => []HaltTypeOK
BY HaltInvariance, PTL DEF HaltTyped
=============================================================================
