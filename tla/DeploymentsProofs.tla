-------------------------- MODULE DeploymentsProofs --------------------------
(***************************************************************************)
(* For any number of deployments, request threads, bars and faults: the    *)
(* types, the audit trail and the order of the trades.  The audit row and  *)
(* the status change in the same commit, so that property is inductive by  *)
(* itself; the order of the trades needs that what an instance has traded  *)
(* beyond last_bar_ts is a torn bar or the one at hand, and no later than  *)
(* any bar that it can be fed next.  The pause needs that whatever the     *)
(* worker's session takes for RUNNING was so at some moment of the tick.   *)
(***************************************************************************)
EXTENDS Deployments, TLAPS

LEMMA InitTyped == Init => TypeOK
<1> SUFFICES ASSUME Init PROVE TypeOK
  OBVIOUS
<1>1. row \in [Deps -> Status] /\ cached \in [Deps -> Status \cup {"expired"}]
  BY DEF Init, Status
<1>2. audit \in [Deps -> [before : Status, after : Status]]
  BY DEF Init, Status
<1>3. last \in [Deps -> 0..MaxBar] /\ latest \in 0..MaxBar
  BY DeploymentAssumption DEF Init
<1>4. traded \in [Deps -> Seq(1..MaxBar)]
  <2>1. <<>> \in Seq(1..MaxBar)
    OBVIOUS
  <2> QED BY <2>1 DEF Init
<1>6. torn \in [Deps -> SUBSET (1..MaxBar)] /\ placed \in BOOLEAN
  BY DEF Init
<1>5. ops \in 0..MaxOps /\ faults \in 0..MaxFaults
  BY DeploymentAssumption DEF Init
<1> QED BY <1>1, <1>2, <1>3, <1>4, <1>5, <1>6 DEF Init, TypeOK

\* The set of bars handed to an instance is one of the market's.
LEMMA NewBarsTyped ==
  ASSUME TypeOK, NEW d \in Deps, NEW seen \in 0..MaxBar
  PROVE  /\ NewBars(d, seen) \subseteq 1..MaxBar
         /\ \A b \in NewBars(d, seen) : b > seen
BY DeploymentAssumption DEF TypeOK, NewBars

LEMMA StatusTyped ==
  ASSUME TypeOK, NEW d \in Deps
  PROVE  StatusOf(d) \in Status
BY DEF TypeOK, StatusOf

LEMMA CommitTyped ==
  ASSUME TypeOK, Commit
  PROVE  /\ row' \in [Deps -> Status]
         /\ audit' \in [Deps -> [before : Status, after : Status]]
         /\ dirty' \subseteq Deps
BY DEF TypeOK, Commit, Status

\* Every step of every request, of the worker and of the market keeps the types.
LEMMA Typed == TypeOK /\ [Next]_vars => TypeOK'
<1> SUFFICES ASSUME TypeOK, [Next]_vars PROVE TypeOK'
  OBVIOUS
<1> USE DEF rows, session, runtime
<1>1. ASSUME NEW t \in Threads, NEW d \in Deps, NEW op \in Ops, Check(t, d, op)
      PROVE  TypeOK'
  <2>1. [dep |-> d, op |-> op, before |-> row[d]] \in Request
    BY DEF TypeOK, Request
  <2>2. ops' \in 0..MaxOps
    BY <1>1, DeploymentAssumption DEF TypeOK, Check
  <2> QED BY <1>1, <2>1, <2>2 DEF TypeOK, Check
<1>2. ASSUME NEW t \in Threads, Write(t) PROVE TypeOK'
  <2>1. request[t] \in Request
    BY <1>2 DEF TypeOK, Write
  <2>2. request[t].dep \in Deps /\ request[t].before \in Status /\ To[request[t].op] \in Status
    BY <2>1 DEF Request, Ops, From, To, Status
  <2> QED BY <1>2, <2>2 DEF TypeOK, Write
<1>3. CASE Load
  BY <1>3 DEF TypeOK, Load
<1>4. ASSUME NEW d \in Deps, Begin(d) PROVE TypeOK'
  <2> DEFINE seen == IF d \in on THEN last[d] ELSE 0
  <2>1. seen \in 0..MaxBar
    BY DeploymentAssumption DEF TypeOK
  <2>2. cached' \in [Deps -> Status \cup {"expired"}] /\ todo' \subseteq active'
    BY <1>4, StatusTyped DEF TypeOK, Begin
  <2>3. on' \subseteq Deps /\ last' \in [Deps -> 0..MaxBar] /\ traded' \in [Deps -> Seq(1..MaxBar)]
    <3>1. <<>> \in Seq(1..MaxBar)
      OBVIOUS
    <3>2. CASE Evaluates(d)
      <4>1. /\ on' = on \cup {d} /\ last' = [last EXCEPT ![d] = seen]
            /\ traded' = traded \/ traded' = [traded EXCEPT ![d] = <<>>]
        BY <1>4, <3>2 DEF Begin
      <4> HIDE DEF seen
      <4> QED BY <4>1, <3>1, <2>1 DEF TypeOK
    <3>3. CASE ~Evaluates(d)
      BY <1>4, <3>3 DEF TypeOK, Begin
    <3> QED BY <3>2, <3>3
  <2>4. cur' \in Deps \cup {NoDep} /\ bars' \subseteq 1..MaxBar /\ faults' \in 0..MaxFaults
    <3>1. NewBars(d, seen) \subseteq 1..MaxBar
      BY <2>1, NewBarsTyped
    <3>2. \/ cur' = d /\ bars' = NewBars(d, seen) /\ faults' = faults
          \/ faults < MaxFaults /\ faults' = faults + 1 /\ cur' = cur /\ bars' = bars
          \/ cur' = cur /\ bars' = bars /\ faults' = faults
      BY <1>4 DEF Begin
    <3> HIDE DEF seen
    <3>3. cur \in Deps \cup {NoDep} /\ bars \subseteq 1..MaxBar /\ faults \in 0..MaxFaults
      BY DEF TypeOK
    <3>4. bars' = NewBars(d, seen) \/ bars' = bars
      BY <3>2
    <3>5. cur' = d \/ cur' = cur
      BY <3>2
    <3>6. faults' \in 0..MaxFaults
      BY <3>2, <3>3, DeploymentAssumption
    <3> QED BY <1>4, <3>1, <3>3, <3>4, <3>5, <3>6
  <2>5. torn' \in [Deps -> SUBSET (1..MaxBar)]
    <3>1. torn' = torn \/ torn' = [torn EXCEPT ![d] = {}]
      BY <1>4 DEF Begin
    <3> QED BY <3>1 DEF TypeOK
  <2> QED BY <1>4, <2>2, <2>3, <2>4, <2>5 DEF TypeOK, Begin
<1>5. ASSUME NEW b \in bars, Feed(b) \/ Record(b) PROVE TypeOK'
  <2>1. b \in 1..MaxBar
    BY DEF TypeOK
  <2>2. last' \in [Deps -> 0..MaxBar] /\ bars' \subseteq 1..MaxBar
    <3>1. last' = [last EXCEPT ![cur] = b] /\ bars' = bars \ {b}
      BY <1>5 DEF Feed, Record, Seen
    <3>2. last \in [Deps -> 0..MaxBar] /\ b \in 0..MaxBar /\ bars \subseteq 1..MaxBar
      BY <2>1, DeploymentAssumption DEF TypeOK
    <3>3. last' \in [Deps -> 0..MaxBar]
      BY <3>1, <3>2
    <3> QED BY <3>1, <3>2, <3>3
  <2>3. placed' \in BOOLEAN
    BY <1>5 DEF TypeOK, Feed, Record
  <2> QED BY <1>5, <2>2, <2>3 DEF TypeOK, Feed, Record
<1>13. ASSUME NEW b \in bars, Place(b) PROVE TypeOK'
  <2>1. b \in 1..MaxBar /\ cur \in Deps
    BY <1>13 DEF TypeOK, Place
  <2>2. /\ row' \in [Deps -> Status]
        /\ audit' \in [Deps -> [before : Status, after : Status]]
        /\ dirty' \subseteq Deps
    BY <1>13, CommitTyped DEF Place
  <2>3. cached' \in [Deps -> Status \cup {"expired"}]
    BY <1>13 DEF Place
  <2>4. traded' \in [Deps -> Seq(1..MaxBar)]
    <3>1. Append(traded[cur], b) \in Seq(1..MaxBar)
      BY <2>1 DEF TypeOK
    <3> QED BY <1>13, <3>1 DEF TypeOK, Place
  <2>5. placed' \in BOOLEAN
    BY <1>13 DEF Place
  <2> QED BY <1>13, <2>2, <2>3, <2>4, <2>5 DEF TypeOK, Place
<1>6. CASE Done
  BY <1>6 DEF TypeOK, Done
<1>7. CASE Raise
  <2>1. cur \in Deps /\ faults' \in 0..MaxFaults
    BY <1>7, DeploymentAssumption DEF TypeOK, Raise
  <2> QED BY <1>7, <2>1 DEF TypeOK, Raise, Status
<1>8. CASE Abandon
  <2>1. faults' \in 0..MaxFaults
    BY <1>8, DeploymentAssumption DEF TypeOK, Abandon
  <2>2. torn' \in [Deps -> SUBSET (1..MaxBar)]
    BY <1>8 DEF TypeOK, Abandon, First
  <2>3. cached' \in [Deps -> Status \cup {"expired"}]
    BY <1>8 DEF Abandon, Rollback, Closed
  <2> QED BY <1>8, <2>1, <2>2, <2>3 DEF TypeOK, Abandon, Rollback, Closed
<1>9. CASE Finish
  BY <1>9, CommitTyped DEF TypeOK, Finish, Kept, Closed
<1>14. CASE FinishFails
  <2>1. faults' \in 0..MaxFaults
    BY <1>14, DeploymentAssumption DEF TypeOK, FinishFails
  <2> QED BY <1>14, <2>1 DEF TypeOK, FinishFails, Rollback, Kept, Closed
<1>10. CASE Restart
  <2>1. faults' \in 0..MaxFaults
    BY <1>10, DeploymentAssumption DEF TypeOK, Restart
  <2> QED BY <1>10, <2>1 DEF TypeOK, Restart, Rollback, Closed
<1>11. CASE NewBar
  BY <1>11, DeploymentAssumption DEF TypeOK, NewBar
<1>12. CASE UNCHANGED vars
  BY <1>12 DEF TypeOK, vars
<1> QED
  BY <1>1, <1>2, <1>3, <1>4, <1>5, <1>6, <1>7, <1>8, <1>9, <1>10, <1>11, <1>12,
     <1>13, <1>14 DEF Next, Worker

\* The types hold for every set of deployments and threads and every bound.
THEOREM TypeCorrect == Spec => []TypeOK
BY InitTyped, Typed, PTL DEF Spec

-----------------------------------------------------------------------------
(* The audit trail. *)

LEMMA AuditKept == TypeOK /\ StatusAudited /\ [Next]_vars => StatusAudited'
<1> SUFFICES ASSUME TypeOK, StatusAudited, [Next]_vars PROVE StatusAudited'
  OBVIOUS
<1> USE DEF rows, session, runtime
<1>1. ASSUME Commit PROVE StatusAudited'
  BY <1>1 DEF Commit, StatusAudited, TypeOK
<1>2. ASSUME row' = row, audit' = audit PROVE StatusAudited'
  BY <1>2 DEF StatusAudited
<1>3. ASSUME NEW t \in Threads, Write(t) PROVE StatusAudited'
  <2>1. request[t] \in Request
    BY <1>3 DEF TypeOK, Write
  <2>2. request[t].dep \in Deps
    BY <2>1 DEF Request
  <2> QED BY <1>3, <2>2 DEF Write, StatusAudited, TypeOK
<1>4. ASSUME NEW b \in bars, Feed(b) \/ Place(b) \/ Record(b) PROVE StatusAudited'
  BY <1>4, <1>1, <1>2 DEF Feed, Place, Record
<1>5. CASE Finish
  BY <1>5, <1>1 DEF Finish
<1>6. CASE Load \/ Done \/ Raise \/ Abandon \/ FinishFails \/ Restart \/ NewBar \/ UNCHANGED vars
  BY <1>6, <1>2 DEF Load, Done, Raise, Abandon, FinishFails, Restart, NewBar, Rollback, vars
<1>7. ASSUME NEW d \in Deps, Begin(d) PROVE StatusAudited'
  BY <1>7, <1>2 DEF Begin
<1>8. ASSUME NEW t \in Threads, NEW d \in Deps, NEW op \in Ops, Check(t, d, op)
      PROVE  StatusAudited'
  BY <1>8, <1>2 DEF Check
<1> QED BY <1>3, <1>4, <1>5, <1>6, <1>7, <1>8 DEF Next, Worker

\* For any number of deployments and concurrent requests the last audit row of a
\* deployment tells its status.
THEOREM AuditHolds == Spec => []StatusAudited
<1>1. Init => TypeOK /\ StatusAudited
  BY InitTyped DEF Init, StatusAudited
<1>2. TypeOK /\ StatusAudited /\ [Next]_vars => (TypeOK /\ StatusAudited)'
  BY Typed, AuditKept
<1> QED BY <1>1, <1>2, PTL DEF Spec

-----------------------------------------------------------------------------
(* The order of the trades. *)

\* What an instance that runs has traded beyond last_bar_ts: a torn bar, or the bar at
\* hand once its order is committed, and no later than any it can be fed next.
Open(d, b) == b \in torn[d] \/ (placed /\ d = cur /\ b \in First)
Behind ==
  \A d \in on : \A i \in DOMAIN traded[d] :
    /\ traded[d][i] <= latest
    /\ traded[d][i] > last[d] =>
         /\ Open(d, traded[d][i])
         /\ \A b \in NewBars(d, last[d]) : traded[d][i] <= b
         /\ d = cur => \A b \in bars : traded[d][i] <= b

\* The bars under way are newer than last_bar_ts, and all there are up to the
\* last of them.
Newer ==
  /\ placed => cur # NoDep /\ bars # {}
  /\ cur # NoDep => cur \in on
  /\ cur # NoDep =>
       \A b \in bars :
         /\ b > last[cur] /\ b <= latest
         /\ last[cur] = 0 => bars = {b}
         /\ \A c \in NewBars(cur, last[cur]) : c \in bars \/ c > b
Torn == Behind /\ Newer /\ TradesAdvance
IInv == TypeOK /\ Torn

LEMMA BarsAreNumbers ==
  ASSUME NEW n \in Nat, NEW s \in Seq(1..n)
  PROVE  /\ s \in Seq(Nat) /\ \A i \in DOMAIN s : s[i] \in 1..n
         /\ DOMAIN s = 1..Len(s) /\ Len(s) \in Nat
<1>1. Len(s) \in Nat /\ DOMAIN s = 1..Len(s) /\ s \in [1..Len(s) -> 1..n]
  OBVIOUS
<1>2. s \in [1..Len(s) -> Nat]
  BY <1>1
<1>3. \A k \in Nat : \A f \in [1..k -> Nat] : f \in Seq(Nat)
  OBVIOUS
<1> QED BY <1>1, <1>2, <1>3

\* The types of what an instance traded and of the bars under way.
LEMMA BarsTyped ==
  ASSUME TypeOK
  PROVE  /\ latest \in Nat /\ MaxBar \in Nat /\ bars \subseteq Nat \ {0}
         /\ \A d \in Deps : last[d] \in Nat /\ NewBars(d, last[d]) \subseteq Nat
         /\ \A d \in Deps : \A i \in DOMAIN traded[d] : traded[d][i] \in Nat
         /\ \A d \in Deps : /\ DOMAIN traded[d] = 1..Len(traded[d])
                            /\ Len(traded[d]) \in Nat /\ traded[d] \in Seq(Nat)
<1>1. \A d \in Deps : traded[d] \in Seq(1..MaxBar)
  BY DEF TypeOK
<1>2. MaxBar \in Nat
  BY DeploymentAssumption
<1>3. \A d \in Deps : /\ traded[d] \in Seq(Nat)
                     /\ \A i \in DOMAIN traded[d] : traded[d][i] \in 1..MaxBar
  BY <1>1, <1>2, BarsAreNumbers
<1>4. \A d \in Deps : DOMAIN traded[d] = 1..Len(traded[d]) /\ Len(traded[d]) \in Nat
  BY <1>1, <1>2, BarsAreNumbers
<1>5. \A d \in Deps : last[d] \in Nat /\ NewBars(d, last[d]) \subseteq Nat
  BY <1>2 DEF TypeOK, NewBars
<1>6. \A d \in Deps : \A i \in DOMAIN traded[d] : traded[d][i] \in Nat
  BY <1>2, <1>3
<1> QED BY <1>2, <1>3, <1>4, <1>5, <1>6 DEF TypeOK

\* Nothing but the market moves the bars that an instance can be fed next.
LEMMA SameBars ==
  ASSUME UNCHANGED latest, NEW d \in Deps, last'[d] = last[d]
  PROVE  NewBars(d, last[d])' = NewBars(d, last[d])
BY DEF NewBars

\* A step that feeds nothing, and leaves the instances and the market alone.
LEMMA TradesSame ==
  ASSUME IInv, UNCHANGED <<last, traded, latest>>,
         \/ UNCHANGED <<cur, bars, placed, torn, on>>
         \/ /\ cur' = NoDep /\ ~placed' /\ on' \subseteq on
            /\ \A d \in Deps : torn[d] \subseteq torn'[d]
            /\ \A d \in on', b \in bars : Open(d, b) => b \in torn'[d]
  PROVE  Torn'
<1>1. \A d \in Deps : NewBars(d, last[d])' = NewBars(d, last[d])
  BY SameBars
<1>2. CASE UNCHANGED <<cur, bars, placed, torn, on>>
  <2>1. First' = First /\ on \subseteq Deps
    BY <1>2 DEF First, IInv, TypeOK
  <2> QED BY <1>1, <1>2, <2>1 DEF IInv, Torn, Behind, Newer, Open, TradesAdvance
<1>3. CASE /\ cur' = NoDep /\ ~placed' /\ on' \subseteq on
           /\ \A d \in Deps : torn[d] \subseteq torn'[d]
           /\ \A d \in on', b \in bars : Open(d, b) => b \in torn'[d]
  <2>1. on \subseteq Deps /\ NoDep \notin on'
    BY <1>3, DeploymentAssumption DEF IInv, TypeOK
  <2>2. \A d \in on' : \A b : Open(d, b) => b \in torn'[d]
    BY <1>3, <2>1 DEF Open, First
  <2>3. TradesAdvance'
    BY <1>3 DEF IInv, Torn, TradesAdvance
  <2>4. Behind'
    BY <1>1, <1>3, <2>1, <2>2 DEF IInv, Torn, Behind, Open
  <2> QED BY <1>3, <2>3, <2>4 DEF Torn, Newer
<1> QED BY <1>2, <1>3

LEMMA BeginTrades ==
  ASSUME IInv, NEW d \in Deps, Begin(d)
  PROVE  Torn'
<1> DEFINE seen == IF d \in on THEN last[d] ELSE 0
<1>1. TypeOK /\ Torn /\ d # NoDep /\ cur = NoDep /\ ~placed
  BY DeploymentAssumption DEF IInv, Begin, Torn, Newer
<1>2. CASE ~Evaluates(d)
  <2>1. UNCHANGED <<last, traded, latest, cur, bars, placed, torn, on>>
    BY <1>2 DEF Begin, runtime
  <2> QED BY <2>1, TradesSame
<1>3. CASE Evaluates(d)
  <2>1. /\ last' = [last EXCEPT ![d] = seen]
        /\ traded' = IF d \in on THEN traded ELSE [traded EXCEPT ![d] = <<>>]
        /\ torn' = IF d \in on THEN torn ELSE [torn EXCEPT ![d] = {}]
        /\ (cur' = d /\ bars' = NewBars(d, seen)) \/ cur' = NoDep
        /\ latest' = latest /\ placed' = placed /\ on' = on \cup {d} /\ on \subseteq Deps
    BY <1>1, <1>3 DEF Begin, TypeOK
  <2>2. last'[d] = seen /\ seen \in 0..MaxBar
    BY <1>1, <2>1, DeploymentAssumption DEF TypeOK
  <2>3. /\ d \in on => last'[d] = last[d] /\ traded'[d] = traded[d] /\ torn'[d] = torn[d]
        /\ d \notin on => traded'[d] = <<>>
        /\ \A e \in Deps : e # d =>
             last'[e] = last[e] /\ traded'[e] = traded[e] /\ torn'[e] = torn[e]
    BY <1>1, <2>1 DEF TypeOK
  <2>4. NewBars(d, last[d])' = NewBars(d, seen)
    BY <2>1, <2>2 DEF NewBars
  <2> HIDE DEF seen
  <2>5. TradesAdvance'
    BY <1>1, <2>3 DEF Torn, TradesAdvance
  <2>6. Behind'
    <3> SUFFICES ASSUME NEW e \in on', NEW i \in DOMAIN traded'[e]
                 PROVE  /\ traded'[e][i] <= latest
                        /\ traded'[e][i] > last'[e] =>
                             /\ traded'[e][i] \in torn'[e]
                             /\ \A b \in NewBars(e, last[e])' : traded'[e][i] <= b
                             /\ e = cur' => \A b \in bars' : traded'[e][i] <= b
      BY <2>1 DEF Behind, Open
    <3>1. e \in on /\ e \in Deps
      BY <2>1, <2>3
    <3>2. last'[e] = last[e] /\ traded'[e] = traded[e] /\ torn'[e] = torn[e]
      BY <2>3, <3>1
    <3>3. NewBars(e, last[e])' = NewBars(e, last[e])
      BY <2>1, <3>2, SameBars
    <3>4. /\ traded[e][i] <= latest
          /\ traded[e][i] > last[e] =>
               /\ traded[e][i] \in torn[e]
               /\ \A b \in NewBars(e, last[e]) : traded[e][i] <= b
      BY <1>1, <3>1, <3>2 DEF Torn, Behind, Open
    <3>5. e = cur' => bars' = NewBars(e, last[e])'
      BY <2>1, <2>4, DeploymentAssumption
    <3> QED BY <3>2, <3>3, <3>4, <3>5
  <2>7. Newer'
    <3>1. CASE cur' = NoDep
      BY <3>1, <1>1, <2>1 DEF Newer
    <3>2. CASE cur' = d /\ bars' = NewBars(d, seen)
      <4>1. \A b \in NewBars(d, seen) : b > seen /\ b <= latest /\ (seen = 0 => NewBars(d, seen) = {b})
        BY <1>1, <2>2, DeploymentAssumption DEF NewBars, TypeOK
      <4> QED BY <3>2, <4>1, <1>1, <2>1, <2>2, <2>4 DEF Newer
    <3> QED BY <2>1, <3>1, <3>2
  <2> QED BY <2>5, <2>6, <2>7 DEF Torn
<1> QED BY <1>2, <1>3

\* last_bar_ts moves to the bar at hand.
LEMMA SeenTrades ==
  ASSUME IInv, NEW b \in bars, Feed(b) \/ Record(b)
  PROVE  Torn'
<1>1. /\ TypeOK /\ Torn /\ cur \in Deps /\ cur # NoDep /\ b \in First
      /\ last' = [last EXCEPT ![cur] = b] /\ bars' = bars \ {b} /\ ~placed'
      /\ cur \in on /\ on \subseteq Deps
      /\ UNCHANGED <<cur, traded, torn, latest, on>>
  BY DEF IInv, TypeOK, Torn, Newer, Feed, Record, Seen
<1>2. /\ last'[cur] = b /\ \A d \in Deps : d # cur => last'[d] = last[d]
      /\ b \in Nat \ {0} /\ \A c \in bars : b <= c /\ c \in Nat
  BY <1>1, BarsTyped DEF TypeOK, First
<1>3. TradesAdvance'
  BY <1>1 DEF Torn, TradesAdvance
<1>4. Behind'
  <2> SUFFICES ASSUME NEW d \in on, NEW i \in DOMAIN traded[d]
               PROVE  /\ traded[d][i] <= latest
                      /\ traded[d][i] > last'[d] =>
                           /\ traded[d][i] \in torn[d]
                           /\ \A c \in NewBars(d, last[d])' : traded[d][i] <= c
                           /\ d = cur => \A c \in bars' : traded[d][i] <= c
    BY <1>1 DEF Behind, Open
  <2>1. /\ traded[d][i] <= latest
        /\ traded[d][i] > last[d] =>
             /\ Open(d, traded[d][i])
             /\ \A c \in NewBars(d, last[d]) : traded[d][i] <= c
             /\ d = cur => \A c \in bars : traded[d][i] <= c
    BY <1>1 DEF Torn, Behind
  <2>2. CASE d # cur
    <3>1. NewBars(d, last[d])' = NewBars(d, last[d])
      BY <1>1, <1>2, <2>2, SameBars
    <3>2. last'[d] = last[d]
      BY <1>1, <1>2, <2>2
    <3> QED BY <2>1, <2>2, <3>1, <3>2 DEF Open
  <2>3. CASE d = cur
    <3>1. traded[cur][i] \in Nat /\ last[cur] \in Nat
      BY <1>1, <2>3, BarsTyped
    <3>2. ~(traded[cur][i] > b)
      <4>1. SUFFICES ASSUME traded[cur][i] > b PROVE FALSE
        OBVIOUS
      <4>2. b > last[cur]
        BY <1>1 DEF Torn, Newer
      <4>3. traded[cur][i] > last[cur]
        BY <4>1, <4>2, <3>1, <1>2
      <4>4. traded[cur][i] <= b
        BY <4>3, <2>1, <2>3
      <4> QED BY <4>1, <4>4, <3>1, <1>2
    <3> QED BY <3>2, <2>1, <2>3, <1>2
  <2> QED BY <2>2, <2>3
<1>5. Newer'
  <2> SUFFICES ASSUME NEW c \in bars, c # b
               PROVE  /\ c > b /\ c <= latest
                      /\ \A a \in NewBars(cur, last[cur])' : a \in bars \ {b} \/ a > c
    BY <1>1, <1>2 DEF Newer
  <2>1. /\ c > last[cur] /\ c <= latest /\ (last[cur] = 0 => bars = {c})
        /\ \A a \in NewBars(cur, last[cur]) : a \in bars \/ a > c
    BY <1>1 DEF Torn, Newer
  <2>2. c > b
    <3>1. c \in Nat /\ b \in Nat /\ b <= c
      BY <1>2
    <3> QED BY <3>1
  <2>3. last[cur] # 0 /\ last[cur] \in Nat /\ b > last[cur]
    <3>1. last[cur] # 0
      BY <2>1
    <3> QED BY <1>1, <3>1, BarsTyped DEF Torn, Newer
  <2>4. ASSUME NEW a \in NewBars(cur, last[cur])'
        PROVE  a \in bars \ {b} \/ a > c
    <3>1. /\ NewBars(cur, last[cur])' = {x \in 1..latest : x > b /\ x + Window > latest}
          /\ NewBars(cur, last[cur]) = {x \in 1..latest : x > last[cur] /\ x + Window > latest}
      BY <1>1, <1>2, <2>3 DEF NewBars
    <3>2. a \in NewBars(cur, last[cur]) /\ a # b
      BY <2>4, <3>1, <2>3, <1>1, <1>2, BarsTyped
    <3> QED BY <3>2, <2>1
  <2> QED BY <2>1, <2>2, <2>4
<1> QED BY <1>3, <1>4, <1>5 DEF Torn

\* An order of the bar at hand is committed.
LEMMA PlaceTrades ==
  ASSUME IInv, NEW b \in bars, Place(b)
  PROVE  Torn'
<1>1. /\ TypeOK /\ Torn /\ cur \in Deps /\ cur # NoDep /\ b \in First /\ ~placed /\ placed'
      /\ traded' = [traded EXCEPT ![cur] = Append(@, b)]
      /\ cur \in on /\ on \subseteq Deps
      /\ UNCHANGED <<cur, bars, last, torn, latest, on>>
  BY DEF IInv, TypeOK, Torn, Newer, Place
<1> DEFINE s == traded[cur]
           n == Len(s)
<1>2. /\ s \in Seq(Nat) /\ n \in Nat /\ DOMAIN s = 1..n
      /\ \A i \in 1..n : s[i] \in Nat
      /\ b \in Nat /\ last[cur] \in Nat /\ latest \in Nat /\ bars \subseteq Nat
  BY <1>1, BarsTyped
<1>3. /\ b > last[cur] /\ b <= latest /\ \A c \in bars : b <= c
      /\ \A c \in NewBars(cur, last[cur]) : c \in bars \/ c > b
  BY <1>1 DEF Torn, Newer, First
<1>4. First' = First /\ \A d \in Deps : NewBars(d, last[d])' = NewBars(d, last[d])
  BY <1>1, SameBars DEF First
<1>5. /\ traded'[cur] = Append(s, b)
      /\ \A d \in Deps : d # cur => traded'[d] = traded[d]
  BY <1>1 DEF TypeOK
<1>6. /\ DOMAIN Append(s, b) = 1..(n + 1) /\ Append(s, b)[n + 1] = b
      /\ \A i \in 1..n : Append(s, b)[i] = s[i]
  BY <1>2
<1>7. \A i \in 1..n :
        /\ s[i] <= latest
        /\ s[i] > last[cur] =>
             /\ s[i] \in torn[cur] /\ \A c \in bars : s[i] <= c
             /\ \A c \in NewBars(cur, last[cur]) : s[i] <= c
  BY <1>1, <1>2 DEF Torn, Behind, Open
<1> HIDE DEF s, n
\* Earlier trades are earlier bars, or the same bar when it was torn.
<1>8. \A i \in 1..n : s[i] < b \/ (s[i] = b /\ s[i] \in torn[cur])
  <2> SUFFICES ASSUME NEW i \in 1..n PROVE s[i] < b \/ (s[i] = b /\ s[i] \in torn[cur])
    OBVIOUS
  <2>1. CASE s[i] > last[cur]
    <3>1. s[i] <= b /\ s[i] \in torn[cur] /\ s[i] \in Nat
      BY <2>1, <1>2, <1>7
    <3> QED BY <3>1, <1>2
  <2>2. CASE ~(s[i] > last[cur])
    BY <2>2, <1>2, <1>3
  <2> QED BY <2>1, <2>2
<1>9. \A i \in 1..(n + 1) : i \in 1..n \/ i = n + 1
  BY <1>2
<1>10. TradesAdvance'
  <2> SUFFICES ASSUME NEW d \in Deps, NEW i \in DOMAIN traded'[d], NEW j \in DOMAIN traded'[d], i < j
               PROVE  \/ traded'[d][i] < traded'[d][j]
                      \/ traded'[d][i] = traded'[d][j] /\ traded'[d][i] \in torn[d]
    BY <1>1 DEF TradesAdvance
  <2>1. CASE d # cur
    BY <2>1, <1>1, <1>5 DEF Torn, TradesAdvance
  <2>2. CASE d = cur
    <3>1. i \in 1..(n + 1) /\ j \in 1..(n + 1) /\ traded'[d] = Append(s, b)
      BY <2>2, <1>5, <1>6
    <3>2. i \in 1..n
      BY <3>1, <1>2
    <3>3. CASE j \in 1..n
      <4>1. s[i] < s[j] \/ (s[i] = s[j] /\ s[i] \in torn[cur])
        BY <3>2, <3>3, <1>1, <1>2 DEF Torn, TradesAdvance, s, n
      <4> QED BY <4>1, <3>1, <3>2, <3>3, <1>6, <2>2
    <3>4. CASE j = n + 1
      BY <3>1, <3>2, <3>4, <1>6, <1>8, <2>2
    <3> QED BY <3>1, <3>3, <3>4, <1>9
  <2> QED BY <2>1, <2>2
<1>11. Behind'
  <2> SUFFICES ASSUME NEW d \in on, NEW i \in DOMAIN traded'[d]
               PROVE  /\ traded'[d][i] <= latest
                      /\ traded'[d][i] > last[d] =>
                           /\ \/ traded'[d][i] \in torn[d]
                              \/ d = cur /\ traded'[d][i] \in First
                           /\ \A c \in NewBars(d, last[d]) : traded'[d][i] <= c
                           /\ d = cur => \A c \in bars : traded'[d][i] <= c
    BY <1>1, <1>4 DEF Behind, Open
  <2>1. CASE d # cur
    BY <2>1, <1>1, <1>5 DEF Torn, Behind, Open
  <2>2. CASE d = cur
    <3>1. i \in 1..(n + 1) /\ traded'[d] = Append(s, b)
      BY <2>2, <1>5, <1>6
    <3>2. CASE i \in 1..n
      BY <2>2, <3>1, <3>2, <1>1, <1>6, <1>7 DEF Open
    <3>3. CASE i = n + 1
      <4>1. traded'[d][i] = b
        BY <3>1, <3>3, <1>6
      <4>2. \A c \in NewBars(cur, last[cur]) : b <= c
        <5>1. \A c \in NewBars(cur, last[cur]) : c \in Nat
          BY <1>1, BarsTyped
        <5> QED BY <5>1, <1>2, <1>3
      <4> QED BY <4>1, <4>2, <1>1, <1>3, <1>4, <2>2 DEF Open
    <3> QED BY <3>1, <3>2, <3>3, <1>9
  <2> QED BY <2>1, <2>2
<1>12. Newer'
  BY <1>1, <1>4 DEF Torn, Newer
<1> QED BY <1>10, <1>11, <1>12 DEF Torn

\* A new bar of the market is later than all there is.
LEMMA NewBarTrades ==
  ASSUME IInv, NewBar
  PROVE  Torn'
<1>1. /\ TypeOK /\ Torn /\ latest' = latest + 1
      /\ on \subseteq Deps
      /\ UNCHANGED <<cur, bars, placed, last, traded, torn, on>>
  BY DEF IInv, TypeOK, NewBar, session, runtime
<1>2. latest \in Nat /\ First' = First /\ Window \in Nat
  BY <1>1, BarsTyped, DeploymentAssumption DEF First
<1>3. ASSUME NEW d \in Deps, NEW c \in NewBars(d, last[d])'
      PROVE  c \in NewBars(d, last[d]) \/ c = latest + 1
  <2>1. NewBars(d, last[d])' = IF last[d] = 0 THEN {latest + 1} \ {0}
                              ELSE {b \in 1..(latest + 1) : b > last[d] /\ b + Window > latest + 1}
    BY <1>1 DEF NewBars
  <2>2. CASE last[d] = 0
    BY <1>3, <2>1, <2>2
  <2>3. CASE last[d] # 0
    <3>1. c \in 1..(latest + 1) /\ c > last[d] /\ c + Window > latest + 1
      BY <1>3, <2>1, <2>3
    <3>2. (c \in 1..latest /\ c + Window > latest) \/ c = latest + 1
      BY <3>1, <1>2
    <3> QED BY <2>3, <3>1, <3>2 DEF NewBars
  <2> QED BY <2>2, <2>3
<1>4. \A d \in on : \A i \in DOMAIN traded[d] :
        traded[d][i] \in Nat /\ traded[d][i] <= latest + 1
  <2> SUFFICES ASSUME NEW d \in on, NEW i \in DOMAIN traded[d]
               PROVE  traded[d][i] \in Nat /\ traded[d][i] <= latest + 1
    OBVIOUS
  <2>1. traded[d][i] \in Nat /\ traded[d][i] <= latest
    BY <1>1, BarsTyped DEF Torn, Behind
  <2> QED BY <2>1, <1>2
<1>5. TradesAdvance'
  BY <1>1 DEF Torn, TradesAdvance
<1>6. Behind'
  BY <1>1, <1>2, <1>3, <1>4 DEF Torn, Behind, Open
<1>7. Newer'
  <2>1. bars # {} /\ cur # NoDep => cur \in Deps
    BY <1>1 DEF TypeOK
  <2>2. \A b \in bars : b \in Nat
    BY <1>1, BarsTyped
  <2> QED BY <1>1, <1>2, <1>3, <2>1, <2>2 DEF Torn, Newer
<1> QED BY <1>5, <1>6, <1>7 DEF Torn

LEMMA TradesKept == IInv /\ [Next]_vars => IInv'
<1> SUFFICES ASSUME IInv, [Next]_vars PROVE Torn'
  BY Typed DEF IInv
<1> USE DEF rows, session, runtime
<1>1. ASSUME NEW d \in Deps, Begin(d) PROVE Torn'
  BY <1>1, BeginTrades
<1>2. ASSUME NEW b \in bars, Feed(b) \/ Place(b) \/ Record(b) PROVE Torn'
  BY <1>2, SeenTrades, PlaceTrades
<1>3. ASSUME NEW t \in Threads, Write(t) \/ \E d \in Deps, op \in Ops : Check(t, d, op)
      PROVE  Torn'
  BY <1>3, TradesSame DEF Write, Check
<1>4. CASE Load \/ UNCHANGED vars
  BY <1>4, TradesSame DEF Load, vars
<1>5. ~placed => \A d : \A b : Open(d, b) => b \in torn[d]
  BY DEF Open
<1>6. CASE Abandon
  <2>1. /\ cur' = NoDep /\ ~placed' /\ UNCHANGED <<on, last, traded, latest>>
        /\ torn' = IF placed THEN [torn EXCEPT ![cur] = @ \cup First] ELSE torn
    BY <1>6 DEF Abandon, Rollback
  <2>2. \A d \in Deps : torn[d] \subseteq torn'[d]
    BY <2>1 DEF IInv, TypeOK
  <2>3. \A d \in on', b \in bars : Open(d, b) => b \in torn'[d]
    BY <2>1 DEF IInv, TypeOK, Open
  <2> QED BY <2>1, <2>2, <2>3, TradesSame
<1>7. CASE Done \/ Finish \/ FinishFails
  <2>1. ~placed
    BY <1>7 DEF IInv, Torn, Newer, Done, Finish, FinishFails
  <2>2. /\ cur' = NoDep /\ ~placed' /\ on' \subseteq on /\ UNCHANGED <<last, traded, latest, torn>>
    BY <1>7, <2>1 DEF Done, Finish, FinishFails, Rollback, Kept
  <2> QED BY <1>5, <2>1, <2>2, TradesSame
<1>8. CASE Raise
  <2>1. /\ cur' = NoDep /\ ~placed' /\ on' = on \ {cur} /\ UNCHANGED <<last, traded, latest, torn>>
    BY <1>8 DEF Raise
  <2>2. \A d \in on', b \in bars : Open(d, b) => b \in torn'[d]
    BY <2>1 DEF Open
  <2> QED BY <2>1, <2>2, TradesSame
<1>9. CASE Restart
  <2>1. /\ cur' = NoDep /\ ~placed' /\ on' = {} /\ UNCHANGED <<last, traded, latest, torn>>
    BY <1>9 DEF Restart, Rollback
  <2> QED BY <2>1, TradesSame
<1>10. CASE NewBar
  BY <1>10, NewBarTrades
<1> QED BY <1>1, <1>2, <1>3, <1>4, <1>5, <1>6, <1>7, <1>8, <1>9, <1>10 DEF Next, Worker

\* However often ticks are abandoned and instances rebuilt, an instance trades its
\* bars in order and each at most once, for any window and any number of faults.
THEOREM TradesHold == Spec => []TradesAdvance
<1>1. Init => IInv
  BY InitTyped DEF Init, IInv, Torn, Behind, Newer, TradesAdvance
<1>2. IInv /\ [Next]_vars => IInv'
  BY TradesKept
<1>3. IInv => TradesAdvance
  BY DEF IInv, Torn
<1> QED BY <1>1, <1>2, <1>3, PTL DEF Spec

-----------------------------------------------------------------------------
(* A pause takes effect within one tick. *)

\* A row that is RUNNING, or that the session of the worker takes for RUNNING,
\* was so at a moment of this tick; so was the row under _evaluate.
RanInv ==
  /\ \A d \in Deps : row[d] = "RUNNING" \/ cached[d] = "RUNNING" => d \in ran
  /\ cur # NoDep => polling /\ cur \in ran

LEMMA RanKept == TypeOK /\ RanInv /\ [Next]_vars => RanInv'
<1> SUFFICES ASSUME TypeOK, RanInv, [Next]_vars PROVE RanInv'
  OBVIOUS
<1> USE DEF rows, session, runtime
<1>1. ASSUME row' = row, cached' = cached, ran' = ran,
             cur' = NoDep \/ (cur' = cur /\ polling' = polling)
      PROVE  RanInv'
  BY <1>1 DEF RanInv
<1>2. Commit => \A d \in Deps : row'[d] = "RUNNING" => row[d] = "RUNNING"
  BY DEF Commit
<1>3. ASSUME NEW t \in Threads, Write(t) PROVE RanInv'
  <2>1. request[t] \in Request
    BY <1>3 DEF TypeOK, Write
  <2>2. request[t].dep \in Deps /\ request[t].op \in Ops
    BY <2>1 DEF Request
  <2>3. /\ row' = [row EXCEPT ![request[t].dep] = To[request[t].op]]
        /\ ran' = IF To[request[t].op] = "RUNNING" THEN ran \cup {request[t].dep} ELSE ran
        /\ UNCHANGED <<cached, cur, polling>>
    BY <1>3 DEF Write
  <2>4. \A d \in Deps : row'[d] = "RUNNING" => d \in ran'
    BY <2>2, <2>3 DEF RanInv, TypeOK
  <2> QED BY <2>3, <2>4 DEF RanInv
<1>4. CASE Load
  <2>1. /\ ~polling /\ cached' = row /\ row' = row /\ cur' = cur
        /\ ran' = {d \in Deps : row[d] = "RUNNING"}
    BY <1>4 DEF Load
  <2> QED BY <2>1 DEF RanInv
<1>5. ASSUME NEW d \in Deps, Begin(d) PROVE RanInv'
  <2>1. /\ cached' = [cached EXCEPT ![d] = StatusOf(d)]
        /\ row' = row /\ ran' = ran /\ polling' = polling /\ polling
    BY <1>5 DEF Begin
  <2>2. StatusOf(d) = "RUNNING" => d \in ran
    BY DEF StatusOf, RanInv
  <2>3. \A e \in Deps : cached'[e] = "RUNNING" => e \in ran
    BY <2>1, <2>2 DEF RanInv, TypeOK
  <2>4. cur' # NoDep => cur' \in ran
    BY <1>5, <2>2 DEF Begin, Evaluates
  <2> QED BY <2>1, <2>3, <2>4 DEF RanInv
<1>6. ASSUME NEW b \in bars, Feed(b) \/ Record(b) PROVE RanInv'
  BY <1>1, <1>6 DEF Feed, Record
<1>12. ASSUME NEW b \in bars, Place(b) PROVE RanInv'
  <2>1. /\ ran' = ran /\ cur' = cur /\ polling' = polling
        /\ Commit /\ cached' = [d \in Deps |-> "expired"]
    BY <1>12 DEF Place
  <2>2. \A d \in Deps : row'[d] = "RUNNING" => row[d] = "RUNNING"
    BY <1>2, <2>1
  <2>3. \A d \in Deps : cached'[d] # "RUNNING"
    BY <2>1
  <2> QED BY <2>1, <2>2, <2>3 DEF RanInv
<1>7. CASE Raise
  <2>1. /\ cached' = [cached EXCEPT ![cur] = "ERROR"] /\ cur' = NoDep
        /\ row' = row /\ ran' = ran
    BY <1>7 DEF Raise
  <2>2. \A d \in Deps : cached'[d] = "RUNNING" => cached[d] = "RUNNING"
    BY <2>1 DEF TypeOK
  <2> QED BY <2>1, <2>2 DEF RanInv
<1>8. CASE Finish
  <2>1. /\ Commit /\ cached' = [d \in Deps |-> "expired"] /\ ran' = ran /\ cur' = NoDep
    BY <1>8 DEF Finish, Closed
  <2>2. \A d \in Deps : row'[d] = "RUNNING" => row[d] = "RUNNING"
    BY <1>2, <2>1
  <2> QED BY <2>1, <2>2 DEF RanInv
<1>9. CASE Done \/ NewBar \/ UNCHANGED vars
  BY <1>1, <1>9 DEF Done, NewBar, vars
<1>10. CASE Abandon \/ FinishFails \/ Restart
  <2>1. Rollback
    BY <1>10 DEF Abandon, FinishFails, Restart
  <2>2. /\ row' = row /\ ran' = ran /\ cur' = NoDep
        /\ \A d \in Deps : cached'[d] # "RUNNING"
    BY <2>1 DEF Rollback, Closed
  <2> QED BY <2>2 DEF RanInv
<1>11. ASSUME NEW t \in Threads, NEW d \in Deps, NEW op \in Ops, Check(t, d, op)
       PROVE  RanInv'
  BY <1>1, <1>11 DEF Check
<1> QED BY <1>3, <1>4, <1>5, <1>6, <1>7, <1>8, <1>9, <1>10, <1>11, <1>12
       DEF Next, Worker

\* Only the deployment under _evaluate commits an order.
LEMMA OnlyCurTrades ==
  ASSUME TypeOK, [Next]_vars, NEW d \in Deps, Len(traded'[d]) > Len(traded[d])
  PROVE  cur # NoDep /\ d = cur
<1> USE DEF rows, session, runtime
<1>1. \A e \in Deps : traded[e] \in Seq(1..MaxBar)
  BY DEF TypeOK
<1>2. Len(traded[d]) \in Nat /\ Len(<<>>) = 0
  BY <1>1
<1>3. traded'[d] # traded[d] /\ traded'[d] # <<>>
  BY <1>2
<1>4. ASSUME NEW e \in Deps, Begin(e) PROVE FALSE
  <2>1. traded' = traded \/ traded' = [traded EXCEPT ![e] = <<>>]
    BY <1>4 DEF Begin
  <2> QED BY <1>3, <2>1 DEF TypeOK
<1>5. ASSUME NEW b \in bars, Place(b) PROVE cur # NoDep /\ d = cur
  <2>1. cur # NoDep /\ traded' = [traded EXCEPT ![cur] = Append(@, b)]
    BY <1>5 DEF Place
  <2> QED BY <1>3, <2>1 DEF TypeOK
<1>6. CASE UNCHANGED traded
  BY <1>3, <1>6
<1>7. CASE (\E t \in Threads : Write(t) \/ \E e \in Deps, op \in Ops : Check(t, e, op))
           \/ (\E b \in bars : Feed(b) \/ Record(b))
           \/ Load \/ Done \/ Raise \/ Abandon \/ Finish \/ FinishFails \/ Restart \/ NewBar
           \/ UNCHANGED vars
  BY <1>6, <1>7 DEF Write, Check, Feed, Record, Load, Done, Raise, Abandon, Finish, FinishFails,
                    Restart, Rollback, NewBar, vars
<1> QED BY <1>4, <1>5, <1>7 DEF Next, Worker

\* A deployment that was RUNNING at no moment of a tick commits no order in it, for
\* any requests, exceptions and restarts, although the worker reads the status from
\* its session, where a commit expires it and a read before the pause stays.
THEOREM PausesHold == Spec => PauseHolds
<1>1. Init => TypeOK /\ RanInv
  BY InitTyped DEF Init, RanInv
<1>2. TypeOK /\ RanInv /\ [Next]_vars => (TypeOK /\ RanInv)'
  BY Typed, RanKept
<1>3. TypeOK /\ RanInv /\ [Next]_vars
        => [\A d \in Deps : Len(traded'[d]) > Len(traded[d]) => d \in ran]_vars
  BY OnlyCurTrades DEF RanInv
<1> QED BY <1>1, <1>2, <1>3, PTL DEF Spec, PauseHolds
=============================================================================
