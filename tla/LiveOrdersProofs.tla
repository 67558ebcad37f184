-------------------------- MODULE LiveOrdersProofs --------------------------
(***************************************************************************)
(* What holds of LiveOrders for every number of orders, every set of       *)
(* requests and every combination of faults.                               *)
(***************************************************************************)
EXTENDS LiveOrders, FiniteSetTheorems, TLAPS

\* Ids are handed out in order, and what has no id yet has no state; an
\* order the OMS knows carries a request; the order being posted has no
\* broker id.
Numbered ==
  /\ \A o \in Orders : oms[o].state # "ABSENT" => rq[o] \in Requests
  /\ \A o \in Orders : oms[o].state = "ABSENT" => oms[o].boid = NoId
  /\ \A o \in Orders : oms[o].boid # NoId => oms[o].boid < nextId
  /\ \A b \in BrokerIds : b >= nextId => broker[b].st = "NONE"
  /\ pc = "posting" => cur \in Orders /\ oms[cur].state = "CREATED"

IInv == TypeOK /\ Numbered /\ TrackedIdsDistinct

USE DEF Orders, BrokerIds, NoId

\* The records the handlers build have the types of their tables.
LEMMA FoldedType ==
  ASSUME NEW x \in OmsOrder, x.state \in Live, NEW e \in Entry, NEW qty
  PROVE  /\ Folded(x, e, qty) \in OmsOrder
         /\ Folded(x, e, qty).boid = x.boid
         /\ Folded(x, e, qty).state # "ABSENT"
<1> DEFINE t  == Target(e, qty)
           fl == IF e.filled > 0 THEN e.filled ELSE x.filled
           st == IF t \in Terminal \/ t \in Allowed[x.state] THEN t ELSE x.state
<1>1. fl \in Nat
  BY DEF Entry, OmsOrder
<1>2. st \in Live \cup Terminal
  <2> HIDE DEF t
  <2> QED BY DEF Allowed, Live, Terminal
<1>3. Folded(x, e, qty) = [x EXCEPT !.filled = fl, !.state = st]
  BY DEF Folded
<1> HIDE DEF fl, st
<1>4. Folded(x, e, qty) = [state |-> st, boid |-> x.boid, filled |-> fl]
  BY <1>3 DEF OmsOrder
<1> QED BY <1>1, <1>2, <1>4 DEF OmsOrder, Live, Terminal

LEMMA SettledType ==
  ASSUME NEW row \in DbRow, NEW x \in OmsOrder, NEW qty \in Nat
  PROVE  Settled(row, x, qty) \in DbRow
<1> DEFINE st == StateToDb(x.state)
           tr == IF x.state # "FILLED" THEN row.trades
                 ELSE IF row.trades = 0 THEN 1 ELSE row.trades
           td == IF x.state # "FILLED" THEN row.traded
                 ELSE IF row.trades = 0 THEN FillOf(x, qty) ELSE row.traded
<1>1. st \in DbStatus
  BY DEF StateToDb, DbStatus
<1>2. tr \in Nat /\ td \in Nat
  BY DEF DbRow, OmsOrder, FillOf
<1>3. Settled(row, x, qty) = [row EXCEPT !.status = st, !.trades = tr, !.traded = td]
  BY DEF Settled, DbRow
<1> HIDE DEF st, tr, td
<1> QED BY <1>1, <1>2, <1>3 DEF DbRow

LEMMA MovesType ==
  ASSUME NEW e \in Entry, NEW f \in Moves(e)
  PROVE  f \in Entry /\ f.st # "NONE" /\ e.st # "NONE" /\ f.rq = e.rq
<1>1. CASE e.st = "REQ"
  <2>1. f \in {[e EXCEPT !.st = "OPEN"], [e EXCEPT !.st = "REJECTED"]}
    BY <1>1 DEF Moves
  <2> QED BY <1>1, <2>1 DEF Entry, KiteStatus
<1>2. CASE e.st \in {"OPEN", "CANCEL PENDING"}
  <2> DEFINE full == IF e.filled + 1 = Qty[e.rq] THEN "COMPLETE" ELSE e.st
             next == IF e.st = "OPEN" THEN "CANCEL PENDING" ELSE "CANCELLED"
  <2>1. f \in {[e EXCEPT !.filled = e.filled + 1, !.st = full], [e EXCEPT !.st = next]}
    BY <1>2 DEF Moves, Entry
  <2>2. full \in KiteStatus /\ next \in KiteStatus
    BY <1>2 DEF KiteStatus
  <2> HIDE DEF full, next
  <2>3. e.filled \in Nat /\ e.filled + 1 \in Nat
    BY DEF Entry
  <2> QED BY <1>2, <2>1, <2>2, <2>3 DEF Entry, KiteStatus
<1>3. CASE e.st \notin {"REQ", "OPEN", "CANCEL PENDING"}
  BY <1>3 DEF Moves
<1> QED BY <1>1, <1>2, <1>3

\* The effect of taking an order into the book.
LEMMA TakenType ==
  ASSUME TypeOK, Numbered, pc = "posting", Taken
  PROVE  /\ broker' \in [BrokerIds -> Entry] /\ nextId' \in 1..(MaxBroker + 1)
         /\ \A b \in BrokerIds : b >= nextId' => broker'[b].st = "NONE"
         /\ nextId \in BrokerIds /\ nextId' = nextId + 1
<1>1. [st |-> "REQ", rq |-> rq[cur], filled |-> 0] \in Entry
  BY DEF TypeOK, Numbered, Entry, KiteStatus
<1> QED BY <1>1, BoundsAssumption DEF TypeOK, Numbered, Taken

LEMMA FaultType ==
  ASSUME TypeOK, NEW f, Fault(f)
  PROVE  faults' \in 0..MaxFaults
BY BoundsAssumption DEF TypeOK, Fault

LEMMA CommitType ==
  ASSUME TypeOK, NEW rows \in [Orders -> DbRow], Commit(rows)
  PROVE  /\ db' \in [Orders -> DbRow] /\ sess' \in [Orders -> DbRow]
         /\ faults' \in 0..MaxFaults
<1>1. CASE db' = rows /\ sess' = rows /\ UNCHANGED faults
  BY <1>1 DEF TypeOK
<1>2. CASE Fault("dbfail") /\ sess' = db /\ UNCHANGED db
  BY <1>2, FaultType DEF TypeOK
<1> QED BY <1>1, <1>2 DEF Commit

LEMMA NoEntryType == NoEntry \in Entry /\ EmptyBook \in [BrokerIds -> Entry]
BY DEF NoEntry, Entry, EmptyBook

LEMMA AbsentType == Absent \in OmsOrder /\ Absent.state = "ABSENT" /\ Absent.boid = NoId
BY DEF Absent, OmsOrder

LEMMA InitInv == Init => IInv
<1> SUFFICES ASSUME Init PROVE IInv
  OBVIOUS
<1>1. DbNone \in DbRow
  BY DEF DbNone, DbRow
<1>2. TypeOK
  BY <1>1, NoEntryType, AbsentType, BoundsAssumption DEF Init, TypeOK
<1>3. Numbered /\ TrackedIdsDistinct
  BY AbsentType DEF Init, Numbered, TrackedIdsDistinct, EmptyBook, NoEntry
<1> QED BY <1>2, <1>3 DEF IInv

LEMMA SubmitInv ==
  ASSUME IInv, NEW r \in Requests, Submit(r)
  PROVE  IInv'
<1> USE DEF IInv
<1> DEFINE x == [Absent EXCEPT !.state = "CREATED"]
           row == [DbNone EXCEPT !.status = "PENDING"]
<1>1. cur + 1 \in Orders /\ cur' = cur + 1
  BY BoundsAssumption DEF TypeOK, Submit
<1>2. x \in OmsOrder /\ x.boid = NoId /\ x.state = "CREATED" /\ row \in DbRow
  BY DEF Absent, OmsOrder, Live, DbNone, DbRow, DbStatus
<1>3. /\ oms' = [oms EXCEPT ![cur + 1] = x]
      /\ sess' = [db EXCEPT ![cur + 1] = row]
      /\ rq' = [rq EXCEPT ![cur + 1] = r]
      /\ pc' = "posting"
      /\ UNCHANGED <<tries, broker, nextId, book, db, risk, faults>>
  BY DEF Submit
<1> HIDE DEF x, row
<1>4. TypeOK'
  BY <1>1, <1>2, <1>3 DEF TypeOK
<1>5. Numbered'
  BY <1>1, <1>2, <1>3 DEF TypeOK, Numbered
<1>6. TrackedIdsDistinct'
  BY <1>1, <1>2, <1>3 DEF TypeOK, TrackedIdsDistinct
<1> QED BY <1>4, <1>5, <1>6

\* mark_submitted with no id, or with an id nothing tracks yet.
LEMMA MarkInv ==
  ASSUME IInv, pc = "posting", NEW b, MarkSubmitted(cur, b),
         b = NoId \/ (b = nextId /\ nextId \in BrokerIds /\ nextId' = nextId + 1),
         nextId' \in 1..(MaxBroker + 1), nextId' >= nextId, rq' = rq
  PROVE  /\ oms' \in [Orders -> OmsOrder]
         /\ \A o \in Orders : oms'[o].state # "ABSENT" => rq[o] \in Requests
         /\ \A o \in Orders : oms'[o].state = "ABSENT" => oms'[o].boid = NoId
         /\ \A o \in Orders : oms'[o].boid # NoId => oms'[o].boid < nextId'
         /\ TrackedIdsDistinct'
<1> USE DEF IInv
<1> DEFINE x == [oms[cur] EXCEPT !.state = "SUBMITTED", !.boid = b]
<1>1. cur \in Orders /\ oms[cur] \in OmsOrder /\ oms[cur].state = "CREATED"
  BY DEF TypeOK, Numbered
<1>2. x \in OmsOrder /\ x.boid = b /\ x.state = "SUBMITTED"
  BY <1>1 DEF OmsOrder, Live
<1>3. oms' = [oms EXCEPT ![cur] = x]
  BY DEF MarkSubmitted
<1> HIDE DEF x
<1>4. oms' \in [Orders -> OmsOrder]
  BY <1>1, <1>2, <1>3 DEF TypeOK
<1>5. \A o \in Orders : oms'[o].boid # NoId => oms'[o].boid < nextId'
  BY <1>1, <1>2, <1>3 DEF TypeOK, Numbered, OmsOrder
<1>6. TrackedIdsDistinct'
  BY <1>1, <1>2, <1>3 DEF TypeOK, Numbered, TrackedIdsDistinct
<1> QED BY <1>1, <1>2, <1>3, <1>4, <1>5, <1>6 DEF TypeOK, Numbered

LEMMA AcceptedInv ==
  ASSUME IInv, Accepted
  PROVE  IInv'
<1> USE DEF IInv
<1> DEFINE row == [sess[cur] EXCEPT !.status = "OPEN", !.boid = nextId]
           rows == [sess EXCEPT ![cur] = row]
<1>1. /\ pc = "posting" /\ Taken /\ MarkSubmitted(cur, nextId) /\ Commit(rows)
      /\ pc' = "idle" /\ tries' = 0 /\ UNCHANGED <<cur, rq, book, risk>>
  BY DEF Accepted
<1>2. /\ broker' \in [BrokerIds -> Entry] /\ nextId' \in 1..(MaxBroker + 1)
      /\ \A b \in BrokerIds : b >= nextId' => broker'[b].st = "NONE"
      /\ nextId \in BrokerIds /\ nextId' = nextId + 1
  BY <1>1, TakenType
<1>3. /\ oms' \in [Orders -> OmsOrder]
      /\ \A o \in Orders : oms'[o].state # "ABSENT" => rq[o] \in Requests
      /\ \A o \in Orders : oms'[o].state = "ABSENT" => oms'[o].boid = NoId
      /\ \A o \in Orders : oms'[o].boid # NoId => oms'[o].boid < nextId'
      /\ TrackedIdsDistinct'
  BY <1>1, <1>2, MarkInv
<1>4. row \in DbRow
  BY <1>1, <1>2 DEF TypeOK, Numbered, DbRow, DbStatus
<1>5. rows \in [Orders -> DbRow]
  BY <1>4 DEF TypeOK
<1>6. /\ db' \in [Orders -> DbRow] /\ sess' \in [Orders -> DbRow]
      /\ faults' \in 0..MaxFaults
  BY <1>1, <1>5, CommitType
<1> QED BY <1>1, <1>2, <1>3, <1>6, BoundsAssumption DEF TypeOK, Numbered

LEMMA RetryInv ==
  ASSUME IInv, Retry
  PROVE  IInv'
<1> USE DEF IInv
<1>1. /\ broker' \in [BrokerIds -> Entry] /\ nextId' \in 1..(MaxBroker + 1)
      /\ \A b \in BrokerIds : b >= nextId' => broker'[b].st = "NONE"
      /\ nextId' >= nextId
  <2>1. CASE Taken
    BY <2>1, TakenType DEF Retry
  <2>2. CASE Untaken
    BY <2>2 DEF Untaken, TypeOK, Numbered
  <2> QED BY <2>1, <2>2 DEF Retry
<1>2. tries' \in 0..(MaxAttempts - 1)
  BY BoundsAssumption DEF Retry, TypeOK
<1>3. TypeOK'
  BY <1>1, <1>2 DEF Retry, TypeOK
<1>4. Numbered'
  BY <1>1 DEF Retry, Numbered, TypeOK, OmsOrder
<1>5. TrackedIdsDistinct'
  BY DEF Retry, TrackedIdsDistinct
<1> QED BY <1>3, <1>4, <1>5

LEMMA FailedInv ==
  ASSUME IInv, Failed
  PROVE  IInv'
<1> USE DEF IInv
<1> DEFINE row == [sess[cur] EXCEPT !.status = "PENDING"]
           rows == [sess EXCEPT ![cur] = row]
<1>1. /\ pc = "posting" /\ MarkSubmitted(cur, NoId) /\ Commit(rows)
      /\ pc' = "idle" /\ tries' = 0 /\ UNCHANGED <<cur, rq, book, risk>>
  BY DEF Failed
<1>2. /\ broker' \in [BrokerIds -> Entry] /\ nextId' \in 1..(MaxBroker + 1)
      /\ \A b \in BrokerIds : b >= nextId' => broker'[b].st = "NONE"
      /\ nextId' >= nextId
  <2>1. CASE Taken
    BY <1>1, <2>1, TakenType
  <2>2. CASE Untaken
    BY <2>2 DEF Untaken, TypeOK, Numbered
  <2> QED BY <2>1, <2>2 DEF Failed
<1>3. /\ oms' \in [Orders -> OmsOrder]
      /\ \A o \in Orders : oms'[o].state # "ABSENT" => rq[o] \in Requests
      /\ \A o \in Orders : oms'[o].state = "ABSENT" => oms'[o].boid = NoId
      /\ \A o \in Orders : oms'[o].boid # NoId => oms'[o].boid < nextId'
      /\ TrackedIdsDistinct'
  BY <1>1, <1>2, MarkInv
<1>4. row \in DbRow
  BY <1>1 DEF TypeOK, Numbered, DbRow, DbStatus
<1>5. rows \in [Orders -> DbRow]
  BY <1>4 DEF TypeOK
<1>6. /\ db' \in [Orders -> DbRow] /\ sess' \in [Orders -> DbRow]
      /\ faults' \in 0..MaxFaults
  BY <1>1, <1>5, CommitType
<1> QED BY <1>1, <1>2, <1>3, <1>6, BoundsAssumption DEF TypeOK, Numbered

LEMMA StartPassInv ==
  ASSUME IInv, StartPass
  PROVE  IInv'
<1> USE DEF IInv
<1>1. PICK m \in [Orphans -> BrokerIds \cup {NoId}] :
         /\ Adoption(m)
         /\ oms' = [o \in Orders |->
                      IF o \in Orphans THEN [oms[o] EXCEPT !.boid = m[o]] ELSE oms[o]]
  BY DEF StartPass
<1>2. \A o \in Orders \ Orphans : oms'[o] = oms[o]
  BY <1>1
<1>3. ASSUME NEW o \in Orphans
      PROVE  /\ o \in Orders /\ oms'[o] \in OmsOrder /\ oms'[o].boid = m[o]
             /\ oms'[o].state = "SUBMITTED" /\ oms[o].state = "SUBMITTED"
             /\ m[o] \in BrokerIds \cup {NoId}
  BY <1>1 DEF TypeOK, OmsOrder, Orphans
<1>4. oms' \in [Orders -> OmsOrder]
  BY <1>1, <1>2, <1>3 DEF TypeOK
<1>5. ASSUME NEW o \in Orphans, m[o] # NoId
      PROVE  /\ m[o] < nextId
             /\ \A p \in Orders : oms[p].boid # m[o]
             /\ \A p \in Orphans : p # o => m[p] # m[o]
  <2>1. m[o] \in Listed \ Known
    BY <1>1, <1>5 DEF Adoption, Match
  <2>2. m[o] < nextId
    BY <2>1 DEF Listed, Numbered, TypeOK
  <2>3. \A p \in Orders : oms[p].boid # m[o]
    BY <2>1, <1>5 DEF Known
  <2>4. \A p \in Orphans : p # o => m[p] # m[o]
    BY <1>1, <1>5 DEF Adoption
  <2> QED BY <2>2, <2>3, <2>4
<1>6. book' \in [BrokerIds -> Entry]
  BY NoEntryType DEF StartPass, TypeOK
<1>7. TypeOK'
  BY <1>4, <1>6 DEF StartPass, TypeOK
<1>8. Numbered'
  BY <1>2, <1>3, <1>5, ZenonT(40) DEF StartPass, Numbered
<1>9. TrackedIdsDistinct'
  BY <1>2, <1>3, <1>5 DEF TrackedIdsDistinct
<1> QED BY <1>7, <1>8, <1>9

\* The effect of one fold on the OMS, common to Fold and FoldRaises.
LEMMA FoldOms ==
  ASSUME IInv, NEW o \in Orders, NEW e \in Entry, oms[o].state \in Live,
         oms' = [oms EXCEPT ![o] = Folded(oms[o], e, Qty[rq[o]])],
         UNCHANGED <<rq, broker, nextId>>, pc' \in {"idle", "folding"}
  PROVE  /\ oms' \in [Orders -> OmsOrder]
         /\ \A p \in Orders : oms'[p].boid = oms[p].boid
         /\ Numbered' /\ TrackedIdsDistinct'
<1> USE DEF IInv
<1> DEFINE x == Folded(oms[o], e, Qty[rq[o]])
<1>1. x \in OmsOrder /\ x.boid = oms[o].boid /\ x.state # "ABSENT" /\ oms[o].state # "ABSENT"
  BY FoldedType DEF TypeOK, Live
<1> HIDE DEF x
<1>2. oms' = [oms EXCEPT ![o] = x]
  BY DEF x
<1>3. oms' \in [Orders -> OmsOrder] /\ \A p \in Orders : oms'[p].boid = oms[p].boid
  BY <1>1, <1>2 DEF TypeOK
<1>4. \A p \in Orders : oms'[p].state = "ABSENT" <=> oms[p].state = "ABSENT"
  BY <1>1, <1>2 DEF TypeOK
<1>5. Numbered'
  BY <1>3, <1>4 DEF Numbered
<1>6. TrackedIdsDistinct'
  BY <1>3 DEF TrackedIdsDistinct
<1> QED BY <1>3, <1>5, <1>6

LEMMA FoldInv ==
  ASSUME IInv, NEW b \in BrokerIds, Fold(b)
  PROVE  IInv'
<1> USE DEF IInv
<1> DEFINE X(o) == Folded(oms[o], book[b], Qty[rq[o]])
<1>1. PICK o \in Orders :
        /\ Tracks(o, b)
        /\ oms' = [oms EXCEPT ![o] = X(o)]
        /\ IF Persists(o, X(o))
           THEN sess' = [sess EXCEPT ![o] = Settled(sess[o], X(o), Qty[rq[o]])]
           ELSE UNCHANGED sess
        /\ IF Persists(o, X(o)) /\ X(o).state = "FILLED"
           THEN risk' = [risk EXCEPT ![o] = risk[o] + FillOf(X(o), Qty[rq[o]])]
           ELSE UNCHANGED risk
  BY DEF Fold, TypeOK
<1>2. /\ oms[o].state \in Live /\ oms[o] \in OmsOrder /\ book[b] \in Entry
      /\ rq[o] \in Requests /\ Qty[rq[o]] \in Nat
  BY <1>1, RequestAssumption DEF Tracks, TypeOK, Numbered, Live
<1>3. X(o) \in OmsOrder
  BY <1>2, FoldedType
<1>4. Settled(sess[o], X(o), Qty[rq[o]]) \in DbRow /\ FillOf(X(o), Qty[rq[o]]) \in Nat
  BY <1>2, <1>3, SettledType DEF TypeOK, FillOf, OmsOrder
<1>5. /\ UNCHANGED <<pc, cur, tries, rq, broker, nextId, db, faults>>
      /\ pc = "folding" /\ book' = [book EXCEPT ![b] = NoEntry]
  BY DEF Fold
<1>6. oms' \in [Orders -> OmsOrder] /\ Numbered' /\ TrackedIdsDistinct'
  BY <1>1, <1>2, <1>5, FoldOms
<1> HIDE DEF X
<1>7. sess' \in [Orders -> DbRow]
  BY <1>1, <1>4 DEF TypeOK
<1>8. risk' \in [Orders -> Nat]
  BY <1>1, <1>4 DEF TypeOK
<1>9. book' \in [BrokerIds -> Entry]
  BY <1>5, NoEntryType DEF TypeOK
<1>10. TypeOK'
  BY <1>5, <1>6, <1>7, <1>8, <1>9 DEF TypeOK
<1> QED BY <1>6, <1>10

LEMMA FoldRaisesInv ==
  ASSUME IInv, NEW b \in BrokerIds, FoldRaises(b)
  PROVE  IInv'
<1> USE DEF IInv
<1>1. PICK o \in Orders :
        /\ Tracks(o, b)
        /\ oms' = [oms EXCEPT ![o] = Folded(oms[o], book[b], Qty[rq[o]])]
  BY DEF FoldRaises
<1>2. /\ UNCHANGED <<cur, tries, rq, broker, nextId, db, risk>>
      /\ pc' = "idle" /\ book' = EmptyBook /\ sess' = db
  BY DEF FoldRaises
<1>3. oms[o].state \in Live /\ book[b] \in Entry
  BY <1>1 DEF Tracks, TypeOK
<1>4. oms' \in [Orders -> OmsOrder] /\ Numbered' /\ TrackedIdsDistinct'
  BY <1>1, <1>2, <1>3, FoldOms
<1>5. faults' \in 0..MaxFaults
  BY FaultType DEF FoldRaises
<1>6. TypeOK'
  BY <1>2, <1>4, <1>5, NoEntryType DEF TypeOK
<1> QED BY <1>4, <1>6

LEMMA EndPassInv ==
  ASSUME IInv, EndPass
  PROVE  IInv'
<1> USE DEF IInv
<1>1. /\ db' \in [Orders -> DbRow] /\ sess' \in [Orders -> DbRow]
      /\ faults' \in 0..MaxFaults
  BY CommitType DEF EndPass, TypeOK
<1> QED BY <1>1 DEF EndPass, TypeOK, Numbered, TrackedIdsDistinct

LEMMA CrashInv ==
  ASSUME IInv, Crash
  PROVE  IInv'
<1> USE DEF IInv
<1>1. faults' \in 0..MaxFaults
  BY FaultType DEF Crash
<1>2. TypeOK'
  BY <1>1, NoEntryType, AbsentType, BoundsAssumption DEF Crash, TypeOK
<1>3. Numbered' /\ TrackedIdsDistinct'
  BY AbsentType DEF Crash, TypeOK, Numbered, TrackedIdsDistinct
<1> QED BY <1>2, <1>3

LEMMA AdvanceInv ==
  ASSUME IInv, NEW b \in BrokerIds, Advance(b)
  PROVE  IInv'
<1> USE DEF IInv
<1>1. PICK e \in Moves(broker[b]) : broker' = [broker EXCEPT ![b] = e]
  BY DEF Advance
<1>2. e \in Entry /\ e.st # "NONE" /\ broker[b].st # "NONE"
  BY MovesType DEF TypeOK
<1>3. /\ UNCHANGED <<pc, cur, tries, rq, book>> /\ UNCHANGED <<oms, nextId>>
      /\ UNCHANGED <<db, sess, risk>> /\ UNCHANGED faults
  BY DEF Advance, worker, store
<1>4. TypeOK'
  BY <1>1, <1>2, <1>3 DEF TypeOK
<1>5. Numbered' /\ TrackedIdsDistinct'
  BY <1>1, <1>2, <1>3 DEF TypeOK, Numbered, TrackedIdsDistinct
<1> QED BY <1>4, <1>5

LEMMA ForeignInv ==
  ASSUME IInv, NEW r \in Requests, Foreign(r)
  PROVE  IInv'
<1> USE DEF IInv
<1> DEFINE e == [st |-> "REQ", rq |-> r, filled |-> 0]
<1>1. /\ broker' = [broker EXCEPT ![nextId] = e] /\ nextId' = nextId + 1
      /\ nextId \in BrokerIds
      /\ UNCHANGED <<pc, cur, tries, rq, book>> /\ UNCHANGED oms
      /\ UNCHANGED <<db, sess, risk>>
  BY DEF Foreign, worker, store
<1>2. e \in Entry
  BY DEF Entry, KiteStatus
<1>3. faults' \in 0..MaxFaults
  BY FaultType DEF Foreign
<1> HIDE DEF e
<1>4. TypeOK'
  BY <1>1, <1>2, <1>3, BoundsAssumption DEF TypeOK
<1>5. Numbered'
  BY <1>1, <1>2, BoundsAssumption DEF TypeOK, Numbered, OmsOrder
<1>6. TrackedIdsDistinct'
  BY <1>1 DEF TrackedIdsDistinct
<1> QED BY <1>4, <1>5, <1>6

LEMMA NextInv == IInv /\ [Next]_vars => IInv'
<1> SUFFICES ASSUME IInv, [Next]_vars PROVE IInv'
  OBVIOUS
<1>1. CASE \E r \in Requests : Submit(r)
  BY <1>1, SubmitInv
<1>2. CASE Work
  BY <1>2, AcceptedInv, RetryInv, FailedInv, StartPassInv, EndPassInv, FoldInv,
     FoldRaisesInv DEF Work
<1>3. CASE Crash
  BY <1>3, CrashInv
<1>4. CASE \E b \in BrokerIds : Advance(b)
  BY <1>4, AdvanceInv
<1>5. CASE \E r \in Requests : Foreign(r)
  BY <1>5, ForeignInv
<1>6. CASE UNCHANGED vars
  BY <1>6 DEF IInv, TypeOK, Numbered, TrackedIdsDistinct, vars
<1> QED BY <1>1, <1>2, <1>3, <1>4, <1>5, <1>6 DEF Next

\* Every reachable state of the live order path is well typed, and what IInv
\* adds holds too.
THEOREM TypeCorrect == Spec => []IInv
<1>1. Init => IInv
  BY InitInv
<1>2. IInv /\ [Next]_vars => IInv'
  BY NextInv
<1> QED BY <1>1, <1>2, PTL DEF Spec

\* However POSTs time out, are repeated, and are adopted, no two OMS orders
\* follow one broker order.
THEOREM TrackingIsInjective == Spec => []TrackedIdsDistinct
<1>1. IInv => TrackedIdsDistinct
  BY DEF IInv
<1> QED BY <1>1, TypeCorrect, PTL

----------------------------------------------------------------------------
(* The committed rows implement OrderRows: whatever fails, is repeated or     *)
(* restarts, they only take the steps OrderRows allows.                      *)

WaitingRow == {"PENDING", "OPEN"}
FinalRow   == {"COMPLETE", "REJECTED", "CANCELLED"}

\* The session's row is the committed one, or the outcome of a waiting order.
Ahead(row, new) ==
  \/ new = row
  \/ /\ row.status \in WaitingRow /\ new.status \in FinalRow
     /\ new.trades = IF new.status = "COMPLETE" THEN 1 ELSE 0

RowInv ==
  /\ \A o \in Orders : o > cur => db[o] = DbNone
  /\ \A o \in Orders : db[o].status \notin FinalRow => db[o].trades = 0
  /\ pc = "idle" => sess = db
  /\ pc = "posting" =>
       /\ db[cur] = DbNone
       /\ sess = [db EXCEPT ![cur] = [DbNone EXCEPT !.status = "PENDING"]]
  /\ pc = "folding" => \A o \in Orders : Ahead(db[o], sess[o])
  /\ \A o \in Orders : oms[o].state \in Live => sess[o].status \notin FinalRow

RInv == IInv /\ RowInv

LEMMA RowOpposites == WaitingRow \cap FinalRow = {} /\ "NONE" \notin WaitingRow \cup FinalRow
BY DEF WaitingRow, FinalRow

LEMMA InitRow == Init => RowInv
<1> SUFFICES ASSUME Init PROVE RowInv
  OBVIOUS
<1> QED BY AbsentType DEF Init, RowInv, DbNone, FinalRow, Live

LEMMA SubmitRow ==
  ASSUME RInv, NEW r \in Requests, Submit(r)
  PROVE  RowInv'
<1> USE DEF RInv, IInv
<1> DEFINE row == [DbNone EXCEPT !.status = "PENDING"]
           x == [Absent EXCEPT !.state = "CREATED"]
<1>1. cur + 1 \in Orders /\ cur' = cur + 1 /\ pc = "idle" /\ pc' = "posting"
  BY BoundsAssumption DEF TypeOK, Submit
<1>2. /\ sess' = [db EXCEPT ![cur + 1] = row] /\ db' = db
      /\ oms' = [oms EXCEPT ![cur + 1] = x]
  BY DEF Submit
<1>3. row.status = "PENDING"
  BY DEF DbNone
<1> HIDE DEF x
<1>4. \A o \in Orders : oms'[o].state \in Live => sess'[o].status \notin FinalRow
  <2> HIDE DEF row
  <2> QED BY <1>1, <1>2, <1>3 DEF TypeOK, RowInv, FinalRow
<1>5. db[cur + 1] = DbNone
  BY <1>1 DEF RowInv, TypeOK
<1> HIDE DEF row
<1>6. sess' = [db' EXCEPT ![cur'] = row] /\ db'[cur'] = DbNone
  BY <1>1, <1>2, <1>5
<1>7. \A o \in Orders : o > cur' => db'[o] = DbNone
  BY <1>1, <1>2 DEF RowInv, TypeOK
<1> QED BY <1>1, <1>2, <1>4, <1>6, <1>7 DEF RowInv, row

\* A commit that ends the posting of cur: its row appears, or is lost.
LEMMA PostedRow ==
  ASSUME RInv, pc = "posting", NEW row, row.status \in WaitingRow, row.trades = 0,
         Commit([sess EXCEPT ![cur] = row]), NEW b, MarkSubmitted(cur, b),
         pc' = "idle", cur' = cur
  PROVE  /\ RowInv'
         /\ db' = db \/ db' = [db EXCEPT ![cur] = row]
         /\ db[cur] = DbNone /\ cur \in Orders
<1> USE DEF RInv, IInv
<1>1. /\ db[cur] = DbNone /\ cur \in Orders /\ oms[cur].state = "CREATED"
      /\ sess = [db EXCEPT ![cur] = [DbNone EXCEPT !.status = "PENDING"]]
  BY DEF RowInv, Numbered
<1>2. [sess EXCEPT ![cur] = row] = [db EXCEPT ![cur] = row]
  BY <1>1 DEF TypeOK
<1>3. sess' = db' /\ (db' = db \/ db' = [db EXCEPT ![cur] = row])
  BY <1>2 DEF Commit
<1>4. \A o \in Orders : o # cur => oms'[o] = oms[o] /\ db'[o] = db[o] /\ sess'[o] = sess[o]
  BY <1>1, <1>3 DEF TypeOK, MarkSubmitted
<1>5. sess'[cur].status \notin FinalRow /\ db'[cur].trades = 0
  <2>1. CASE db' = db
    BY <1>1, <1>3, <2>1 DEF DbNone, FinalRow
  <2>2. CASE db' = [db EXCEPT ![cur] = row]
    <3>1. db'[cur] = row
      BY <1>1, <2>2 DEF TypeOK
    <3> QED BY <1>3, <3>1, RowOpposites
  <2> QED BY <1>3, <2>1, <2>2
<1>6. \A o \in Orders : oms'[o].state \in Live => sess'[o].status \notin FinalRow
  BY <1>4, <1>5 DEF RowInv
<1>7. \A o \in Orders : db'[o].status \notin FinalRow => db'[o].trades = 0
  BY <1>4, <1>5 DEF RowInv
<1>8. \A o \in Orders : o > cur => db'[o] = DbNone
  BY <1>4, <1>1 DEF RowInv, TypeOK
<1> QED BY <1>1, <1>3, <1>6, <1>7, <1>8 DEF RowInv

LEMMA AcceptedRow ==
  ASSUME RInv, Accepted
  PROVE  /\ RowInv'
         /\ db' = db \/ \E row : /\ db' = [db EXCEPT ![cur] = row]
                                /\ row.status \in WaitingRow /\ row.trades = 0
         /\ db[cur] = DbNone /\ cur \in Orders
<1> DEFINE row == [sess[cur] EXCEPT !.status = "OPEN", !.boid = nextId]
<1>1. pc = "posting" /\ Commit([sess EXCEPT ![cur] = row]) /\ MarkSubmitted(cur, nextId)
      /\ pc' = "idle" /\ cur' = cur
  BY DEF Accepted
<1>2. sess[cur] = [DbNone EXCEPT !.status = "PENDING"]
  BY <1>1 DEF RInv, IInv, RowInv, Numbered, TypeOK
<1>3. row.status \in WaitingRow /\ row.trades = 0
  BY <1>2 DEF DbNone, WaitingRow
<1> HIDE DEF row
<1> QED BY <1>1, <1>3, PostedRow

LEMMA FailedRow ==
  ASSUME RInv, Failed
  PROVE  /\ RowInv'
         /\ db' = db \/ \E row : /\ db' = [db EXCEPT ![cur] = row]
                                /\ row.status \in WaitingRow /\ row.trades = 0
         /\ db[cur] = DbNone /\ cur \in Orders
<1> DEFINE row == [sess[cur] EXCEPT !.status = "PENDING"]
<1>1. pc = "posting" /\ Commit([sess EXCEPT ![cur] = row]) /\ MarkSubmitted(cur, NoId)
      /\ pc' = "idle" /\ cur' = cur
  BY DEF Failed
<1>2. sess[cur] = [DbNone EXCEPT !.status = "PENDING"]
  BY <1>1 DEF RInv, IInv, RowInv, Numbered, TypeOK
<1>3. row.status \in WaitingRow /\ row.trades = 0
  BY <1>2 DEF DbNone, WaitingRow
<1> HIDE DEF row
<1> QED BY <1>1, <1>3, PostedRow

LEMMA StartPassRow ==
  ASSUME RInv, StartPass
  PROVE  RowInv'
<1> USE DEF RInv, IInv
<1>1. /\ pc = "idle" /\ pc' = "folding"
      /\ UNCHANGED <<cur, tries, rq, broker, nextId, db, sess, risk, faults>>
  BY DEF StartPass
<1>2. \A o \in Orders : oms'[o].state = oms[o].state
  BY DEF StartPass, TypeOK, OmsOrder
<1> QED BY <1>1, <1>2 DEF RowInv, Ahead

\* _persist_terminal's row is a legal outcome of the row it found.
LEMMA SettledAhead ==
  ASSUME NEW row \in DbRow, row.status \in WaitingRow, row.trades = 0,
         NEW x, x.state \in Terminal, NEW qty
  PROVE  /\ Ahead(row, Settled(row, x, qty))
         /\ Settled(row, x, qty).status \in FinalRow
<1>1. CASE x.state = "FILLED"
  <2> DEFINE td == IF row.trades = 0 THEN FillOf(x, qty) ELSE row.traded
  <2>1. Settled(row, x, qty) = [row EXCEPT !.status = "COMPLETE", !.trades = 1, !.traded = td]
    BY <1>1 DEF Settled, StateToDb, DbRow
  <2> HIDE DEF td
  <2> QED BY <2>1 DEF DbRow, Ahead, FinalRow
<1>2. CASE x.state # "FILLED"
  <2> DEFINE st == StateToDb(x.state)
  <2>1. Settled(row, x, qty) = [row EXCEPT !.status = st]
    BY <1>2 DEF Settled
  <2>2. st \in {"REJECTED", "CANCELLED"}
    BY <1>2 DEF StateToDb
  <2> HIDE DEF st
  <2> QED BY <2>1, <2>2 DEF DbRow, Ahead, FinalRow
<1> QED BY <1>1, <1>2

LEMMA FoldRow ==
  ASSUME RInv, NEW b \in BrokerIds, Fold(b)
  PROVE  RowInv'
<1> USE DEF RInv, IInv
<1> DEFINE X(o) == Folded(oms[o], book[b], Qty[rq[o]])
<1>1. PICK o \in Orders :
        /\ Tracks(o, b)
        /\ oms' = [oms EXCEPT ![o] = X(o)]
        /\ IF Persists(o, X(o))
           THEN sess' = [sess EXCEPT ![o] = Settled(sess[o], X(o), Qty[rq[o]])]
           ELSE UNCHANGED sess
  BY DEF Fold, TypeOK
<1>2. /\ pc = "folding" /\ UNCHANGED <<pc, cur, tries, rq, broker, nextId, db, faults>>
  BY DEF Fold
<1> HIDE DEF X
<1>3. oms[o].state \in Live /\ sess[o].status \notin FinalRow /\ sess[o] \in DbRow
  BY <1>1 DEF Tracks, RowInv, TypeOK
<1>4. sess[o] = db[o] /\ db[o].trades = 0
  BY <1>2, <1>3 DEF RowInv, Ahead
<1>5. \A p \in Orders : p # o => sess'[p] = sess[p] /\ oms'[p] = oms[p]
  BY <1>1 DEF TypeOK
<1>6. CASE Persists(o, X(o))
  <2> DEFINE new == Settled(sess[o], X(o), Qty[rq[o]])
  <2>1. sess[o].status \in WaitingRow /\ X(o).state \in Terminal
    BY <1>3, <1>6 DEF Persists, DbRow, DbStatus, WaitingRow, FinalRow
  <2>2. Ahead(db[o], new) /\ new.status \in FinalRow
    BY <1>3, <1>4, <2>1, SettledAhead
  <2> HIDE DEF new
  <2>3. sess'[o] = new /\ oms'[o].state \notin Live
    BY <1>1, <1>6, <2>1 DEF new, TypeOK, Live, Terminal
  <2> QED BY <1>2, <1>5, <2>2, <2>3 DEF RowInv
<1>7. CASE ~Persists(o, X(o))
  BY <1>1, <1>2, <1>3, <1>5, <1>7 DEF RowInv
<1> QED BY <1>6, <1>7

\* Rolling the session back leaves the rows of live orders unsettled.
LEMMA RollbackRow ==
  ASSUME RInv, pc = "folding", NEW o \in Orders, oms[o].state \in Live
  PROVE  db[o].status \notin FinalRow
BY RowOpposites DEF RInv, RowInv, Ahead

LEMMA FoldRaisesRow ==
  ASSUME RInv, NEW b \in BrokerIds, FoldRaises(b)
  PROVE  RowInv'
<1> USE DEF RInv, IInv
<1> DEFINE X(o) == Folded(oms[o], book[b], Qty[rq[o]])
<1>1. PICK o \in Orders : X(o).state \in Terminal /\ oms' = [oms EXCEPT ![o] = X(o)]
  BY DEF FoldRaises
<1> HIDE DEF X
<1>2. /\ pc = "folding" /\ pc' = "idle" /\ sess' = db
      /\ UNCHANGED <<cur, tries, rq, broker, nextId, db, risk>>
  BY DEF FoldRaises
<1>3. \A p \in Orders : oms'[p].state \in Live => oms[p].state \in Live
  BY <1>1 DEF TypeOK, Live, Terminal
<1>4. \A p \in Orders : oms'[p].state \in Live => sess'[p].status \notin FinalRow
  BY <1>2, <1>3, RollbackRow
<1> QED BY <1>2, <1>4 DEF RowInv

LEMMA EndPassRow ==
  ASSUME RInv, EndPass
  PROVE  /\ RowInv'
         /\ pc = "folding" /\ (db' = db \/ db' = sess)
<1> USE DEF RInv, IInv
<1>1. /\ pc = "folding" /\ pc' = "idle" /\ Commit(sess)
      /\ UNCHANGED <<cur, tries, rq, oms, broker, nextId, book, risk>>
  BY DEF EndPass
<1>2. sess' = db' /\ (db' = db \/ db' = sess)
  BY <1>1 DEF Commit
<1>3. \A o \in Orders : Ahead(db[o], sess[o])
  BY <1>1 DEF RowInv
<1>4. \A o \in Orders : oms'[o].state \in Live => sess'[o].status \notin FinalRow
  BY <1>1, <1>2, RollbackRow DEF RowInv
<1>5. \A o \in Orders : db'[o].status \notin FinalRow => db'[o].trades = 0
  BY <1>2, <1>3 DEF RowInv, Ahead
<1>6. \A o \in Orders : o > cur' => db'[o] = DbNone
  BY <1>1, <1>2, <1>3, RowOpposites DEF RowInv, Ahead, DbNone
<1> QED BY <1>1, <1>2, <1>4, <1>5, <1>6 DEF RowInv

LEMMA CrashRow ==
  ASSUME RInv, Crash
  PROVE  RowInv'
BY AbsentType DEF RInv, IInv, Crash, RowInv, Live

\* The steps of the broker, and those of the client's retries, touch nothing
\* RowInv speaks of.
LEMMA QuietRow ==
  ASSUME RInv, UNCHANGED <<pc, cur, oms, db, sess>>
  PROVE  RowInv'
BY DEF RInv, RowInv

LEMMA RInvNext == RInv /\ [Next]_vars => RInv'
<1> SUFFICES ASSUME RInv, [Next]_vars PROVE RInv'
  OBVIOUS
<1>1. IInv'
  BY NextInv DEF RInv
<1>2. CASE \E r \in Requests : Submit(r)
  BY <1>1, <1>2, SubmitRow DEF RInv
<1>3. CASE Accepted \/ Failed
  BY <1>1, <1>3, AcceptedRow, FailedRow DEF RInv
<1>4. CASE StartPass \/ EndPass \/ \E b \in BrokerIds : Fold(b) \/ FoldRaises(b)
  BY <1>1, <1>4, StartPassRow, EndPassRow, FoldRow, FoldRaisesRow DEF RInv
<1>5. CASE Crash
  BY <1>1, <1>5, CrashRow DEF RInv
<1>6. CASE Retry
  BY <1>1, <1>6, QuietRow DEF RInv, Retry
<1>7. CASE (\E b \in BrokerIds : Advance(b)) \/ \E r \in Requests : Foreign(r)
  BY <1>1, <1>7, QuietRow DEF RInv, Advance, Foreign, worker, store
<1>8. CASE UNCHANGED vars
  BY <1>1, <1>8, QuietRow DEF RInv, vars
<1> QED BY <1>2, <1>3, <1>4, <1>5, <1>6, <1>7, <1>8 DEF Next, Work

----------------------------------------------------------------------------
absRows == [o \in Orders |-> [status |-> db[o].status, trades |-> db[o].trades]]

LEMMA InitRefines == Init => Abs!Init
BY DEF Init, Abs!Init, Abs!NoRow, DbNone

\* A committed insertion is OrderRows' Insert.
LEMMA InsertRefines ==
  ASSUME RInv, cur \in Orders, db[cur] = DbNone,
         NEW row, db' = [db EXCEPT ![cur] = row], row.status \in WaitingRow, row.trades = 0
  PROVE  Abs!Next
<1>1. absRows[cur] = Abs!NoRow
  BY DEF absRows, Abs!NoRow, DbNone
<1>2. absRows' = [absRows EXCEPT ![cur] = [status |-> row.status, trades |-> 0]]
  BY DEF RInv, IInv, TypeOK, absRows
<1>3. Abs!Insert(cur, row.status)
  BY <1>1, <1>2 DEF Abs!Insert, absRows
<1>4. row.status \in Abs!Waiting
  BY DEF WaitingRow, Abs!Waiting
<1> QED BY <1>3, <1>4 DEF Abs!Next

\* A committed pass is OrderRows' Settle, for the rows it changed.
LEMMA SettleRefines ==
  ASSUME RInv, pc = "folding", db' = sess
  PROVE  Abs!Next
<1> DEFINE S == {o \in Orders : sess[o] # db[o]}
           out == [o \in S |-> sess[o].status]
<1>1. \A o \in S : /\ db[o].status \in WaitingRow /\ sess[o].status \in FinalRow
                   /\ sess[o].trades = IF sess[o].status = "COMPLETE" THEN 1 ELSE 0
  BY DEF RInv, RowInv, Ahead
<1>2. \A o \in S : absRows[o].status \in Abs!Waiting
  BY <1>1 DEF absRows, Abs!Waiting, WaitingRow
<1>3. out \in [S -> Abs!Final]
  BY <1>1 DEF FinalRow, Abs!Final
<1>4. absRows' = [o \in Orders |->
                    IF o \in S
                    THEN [status |-> out[o],
                          trades |-> IF out[o] = "COMPLETE" THEN 1 ELSE 0]
                    ELSE absRows[o]]
  BY <1>1 DEF absRows
<1> HIDE DEF out
<1> DEFINE outcome(T) ==
             /\ \A o \in T : absRows[o].status \in Abs!Waiting
             /\ \E f \in [T -> Abs!Final] :
                  absRows' = [o \in Orders |->
                                IF o \in T
                                THEN [status |-> f[o],
                                      trades |-> IF f[o] = "COMPLETE" THEN 1 ELSE 0]
                                ELSE absRows[o]]
<1>5. S \in SUBSET Orders
  OBVIOUS
<1>6. outcome(S)
  <2> HIDE DEF S
  <2> QED BY <1>2, <1>3, <1>4
<1>7. \E T \in SUBSET Orders : outcome(T)
  <2> HIDE DEF S, outcome
  <2> QED BY <1>5, <1>6
<1> QED BY <1>7 DEF Abs!Next, Abs!Settle, absRows

LEMMA NextRefines == RInv /\ [Next]_vars => [Abs!Next]_absRows
<1> SUFFICES ASSUME RInv, [Next]_vars PROVE Abs!Next \/ UNCHANGED absRows
  OBVIOUS
<1>1. CASE UNCHANGED db
  BY <1>1 DEF absRows
<1>2. CASE Accepted \/ Failed
  BY <1>1, <1>2, AcceptedRow, FailedRow, InsertRefines
<1>3. CASE EndPass
  BY <1>1, <1>3, EndPassRow, SettleRefines
<1>4. CASE (\E r \in Requests : Submit(r)) \/ Retry \/ StartPass \/ Crash
  BY <1>1, <1>4 DEF Submit, Retry, StartPass, Crash
<1>5. CASE \E b \in BrokerIds : Fold(b) \/ FoldRaises(b)
  BY <1>1, <1>5 DEF Fold, FoldRaises
<1>6. CASE (\E b \in BrokerIds : Advance(b)) \/ \E r \in Requests : Foreign(r)
  BY <1>1, <1>6 DEF Advance, Foreign, store
<1>7. CASE UNCHANGED vars
  BY <1>1, <1>7 DEF vars
<1> QED BY <1>1, <1>2, <1>3, <1>4, <1>5, <1>6, <1>7 DEF Next, Work

\* The committed orders and trades of every behaviour are those of a
\* behaviour of OrderRows: a row settles at most once, and a Trade appears
\* exactly with the COMPLETE status of its order.
THEOREM Refinement == Spec => RowsRefined
<1>1. Init => RInv
  BY InitInv, InitRow DEF RInv
<1>2. Spec => []RInv
  BY <1>1, RInvNext, PTL DEF Spec
<1>3. Init => Abs!Init
  BY InitRefines
<1>4. RInv /\ [Next]_vars => [Abs!Next]_absRows
  BY NextRefines
<1> QED BY <1>2, <1>3, <1>4, PTL DEF Spec, RowsRefined, Abs!Spec, absRows

----------------------------------------------------------------------------
(* What the OMS and the copy of the book say of the broker *)

Ended == {"COMPLETE", "REJECTED", "CANCELLED"}

\* An entry is COMPLETE exactly when it is filled.
WellFilled(e) ==
  /\ e.rq \in Requests /\ e.st # "NONE"
  /\ e.st = "COMPLETE" => e.filled = Qty[e.rq]
  /\ e.st # "COMPLETE" => e.filled < Qty[e.rq]

\* Entry e, read earlier, says no more than entry f says now.
Behind(e, f) ==
  /\ e.rq = f.rq /\ e.filled <= f.filled
  /\ e.st \in Ended => e = f

\* What OMS order x of request r may say of the entry e it follows.
Reflects(x, r, e) ==
  /\ e.st # "NONE" /\ e.rq = r
  /\ x.filled <= e.filled
  /\ x.state = "FILLED" => e.filled = Qty[r]
  /\ x.state \in {"REJECTED", "CANCELLED"} => e.st = x.state

BrokerSound == \A b \in BrokerIds : broker[b].st # "NONE" => WellFilled(broker[b])
BookSound ==
  \A b \in BrokerIds : book[b] # NoEntry =>
    broker[b].st # "NONE" /\ WellFilled(book[b]) /\ Behind(book[b], broker[b])
OmsSound ==
  /\ \A o \in Orders : oms[o].boid # NoId =>
       Reflects(oms[o], rq[o], broker[oms[o].boid])
  /\ \A o \in Orders : oms[o].boid = NoId => oms[o].filled = 0
  /\ \A o \in Orders : oms[o].state = "CREATED" => oms[o].boid = NoId

BookInv == BrokerSound /\ BookSound /\ OmsSound

SInv == RInv /\ BookInv

LEMMA InitBook == Init => BookInv
BY AbsentType DEF Init, BookInv, BrokerSound, BookSound, OmsSound, EmptyBook, NoEntry,
   Absent

\* The broker takes an order: the book grows, and nothing that is there changes.
LEMMA GrownBook ==
  ASSUME TypeOK, Numbered, BookInv, NEW r \in Requests, nextId \in BrokerIds,
         broker' = [broker EXCEPT ![nextId] = [st |-> "REQ", rq |-> r, filled |-> 0]],
         book' = book
  PROVE  /\ BrokerSound' /\ BookSound'
         /\ \A o \in Orders : oms[o].boid # NoId =>
              broker'[oms[o].boid] = broker[oms[o].boid]
         /\ broker'[nextId] = [st |-> "REQ", rq |-> r, filled |-> 0]
<1> DEFINE e == [st |-> "REQ", rq |-> r, filled |-> 0]
<1>1. WellFilled(e)
  BY RequestAssumption DEF WellFilled
<1> HIDE DEF e
<1>2. broker'[nextId] = e /\ \A b \in BrokerIds : b # nextId => broker'[b] = broker[b]
  BY DEF TypeOK, e
<1>3. BrokerSound'
  BY <1>1, <1>2 DEF BookInv, BrokerSound
<1>4. book[nextId] = NoEntry
  BY DEF BookInv, BookSound, Numbered, TypeOK
<1>5. BookSound'
  BY <1>2, <1>4 DEF BookInv, BookSound
<1>6. ASSUME NEW o \in Orders, oms[o].boid # NoId
      PROVE  oms[o].boid \in BrokerIds /\ oms[o].boid # nextId
  BY <1>6 DEF TypeOK, OmsOrder, Numbered
<1> QED BY <1>2, <1>3, <1>5, <1>6 DEF e

LEMMA TakenBook ==
  ASSUME SInv, pc = "posting", Taken, book' = book
  PROVE  /\ BrokerSound' /\ BookSound' /\ nextId \in BrokerIds
         /\ \A o \in Orders : oms[o].boid # NoId =>
              broker'[oms[o].boid] = broker[oms[o].boid]
         /\ broker'[nextId] = [st |-> "REQ", rq |-> rq[cur], filled |-> 0]
<1>1. rq[cur] \in Requests
  BY DEF SInv, RInv, IInv, Numbered
<1> QED BY <1>1, GrownBook DEF SInv, RInv, IInv, Taken

LEMMA SubmitBook ==
  ASSUME SInv, NEW r \in Requests, Submit(r)
  PROVE  BookInv'
<1> USE DEF SInv, RInv, IInv
<1> DEFINE x == [Absent EXCEPT !.state = "CREATED"]
<1>1. cur + 1 \in Orders
  BY BoundsAssumption DEF TypeOK, Submit
<1>2. /\ oms' = [oms EXCEPT ![cur + 1] = x] /\ rq' = [rq EXCEPT ![cur + 1] = r]
      /\ UNCHANGED <<broker, book>>
  BY DEF Submit
<1>3. x.boid = NoId /\ x.filled = 0
  BY DEF Absent
<1> HIDE DEF x
<1>4. \A o \in Orders : IF o = cur + 1 THEN oms'[o] = x
                                       ELSE oms'[o] = oms[o] /\ rq'[o] = rq[o]
  BY <1>2 DEF TypeOK
<1>5. OmsSound'
  BY <1>2, <1>3, <1>4 DEF BookInv, OmsSound
<1> QED BY <1>2, <1>5 DEF BookInv, BrokerSound, BookSound

\* mark_submitted keeps the filled quantity of an order just created.
LEMMA MarkedOrder ==
  ASSUME SInv, pc = "posting", NEW b, MarkSubmitted(cur, b)
  PROVE  /\ cur \in Orders /\ oms'[cur].boid = b /\ oms'[cur].state = "SUBMITTED"
         /\ oms'[cur].filled = 0
         /\ \A o \in Orders : o # cur => oms'[o] = oms[o]
<1>1. cur \in Orders /\ oms[cur] \in OmsOrder /\ oms[cur].filled = 0
  BY DEF SInv, RInv, IInv, TypeOK, Numbered, BookInv, OmsSound
<1> QED BY <1>1 DEF MarkSubmitted, SInv, RInv, IInv, TypeOK, OmsOrder

LEMMA AcceptedBook ==
  ASSUME SInv, Accepted
  PROVE  BookInv'
<1>1. /\ pc = "posting" /\ Taken /\ MarkSubmitted(cur, nextId)
      /\ UNCHANGED <<cur, rq, book, risk>>
  BY DEF Accepted
<1>2. /\ BrokerSound' /\ BookSound' /\ nextId \in BrokerIds
      /\ \A o \in Orders : oms[o].boid # NoId =>
           broker'[oms[o].boid] = broker[oms[o].boid]
      /\ broker'[nextId] = [st |-> "REQ", rq |-> rq[cur], filled |-> 0]
  BY <1>1, TakenBook
<1>3. /\ cur \in Orders /\ oms'[cur].boid = nextId /\ oms'[cur].state = "SUBMITTED"
      /\ oms'[cur].filled = 0
      /\ \A o \in Orders : o # cur => oms'[o] = oms[o]
  BY <1>1, MarkedOrder
<1>4. Reflects(oms'[cur], rq[cur], broker'[nextId])
  BY <1>2, <1>3 DEF Reflects
<1>5. OmsSound'
  BY <1>1, <1>2, <1>3, <1>4 DEF SInv, BookInv, OmsSound
<1> QED BY <1>2, <1>5 DEF BookInv

LEMMA RetryBook ==
  ASSUME SInv, Retry
  PROVE  BookInv'
<1>1. pc = "posting" /\ (Taken \/ Untaken) /\ UNCHANGED <<rq, oms, book>>
  BY DEF Retry
<1>2. CASE Taken
  <2>1. /\ BrokerSound' /\ BookSound'
        /\ \A o \in Orders : oms[o].boid # NoId =>
             broker'[oms[o].boid] = broker[oms[o].boid]
    BY <1>1, <1>2, TakenBook
  <2>2. OmsSound'
    BY <1>1, <2>1 DEF SInv, BookInv, OmsSound
  <2> QED BY <2>1, <2>2 DEF BookInv
<1>3. CASE Untaken
  BY <1>1, <1>3 DEF Untaken, SInv, BookInv, BrokerSound, BookSound, OmsSound
<1> QED BY <1>1, <1>2, <1>3

LEMMA FailedBook ==
  ASSUME SInv, Failed
  PROVE  BookInv'
<1>1. /\ pc = "posting" /\ (Taken \/ Untaken) /\ MarkSubmitted(cur, NoId)
      /\ UNCHANGED <<cur, rq, book, risk>>
  BY DEF Failed
<1>2. /\ BrokerSound' /\ BookSound'
      /\ \A o \in Orders : oms[o].boid # NoId =>
           broker'[oms[o].boid] = broker[oms[o].boid]
  <2>1. CASE Taken
    BY <1>1, <2>1, TakenBook
  <2>2. CASE Untaken
    BY <1>1, <2>2 DEF Untaken, SInv, BookInv, BrokerSound, BookSound
  <2> QED BY <1>1, <2>1, <2>2
<1>3. /\ oms'[cur].boid = NoId /\ oms'[cur].state = "SUBMITTED"
      /\ oms'[cur].filled = 0
      /\ \A o \in Orders : o # cur => oms'[o] = oms[o]
  BY <1>1, MarkedOrder
<1>4. OmsSound'
  BY <1>1, <1>2, <1>3 DEF SInv, BookInv, OmsSound
<1> QED BY <1>2, <1>4 DEF BookInv

\* An orphan has no fill yet, and adopts an entry of its own request.
LEMMA StartPassBook ==
  ASSUME SInv, StartPass
  PROVE  BookInv'
<1> USE DEF SInv, RInv, IInv
<1>1. PICK m \in [Orphans -> BrokerIds \cup {NoId}] :
         /\ Adoption(m)
         /\ oms' = [o \in Orders |->
                      IF o \in Orphans THEN [oms[o] EXCEPT !.boid = m[o]] ELSE oms[o]]
  BY DEF StartPass
<1>2. UNCHANGED <<rq, broker>>
      /\ book' = [b \in BrokerIds |->
                    IF \E o \in Orders : Tracks(o, b)' THEN broker[b] ELSE NoEntry]
  BY DEF StartPass
<1>3. \A o \in Orders \ Orphans : oms'[o] = oms[o]
  BY <1>1
<1>4. ASSUME NEW o \in Orphans
      PROVE  /\ o \in Orders /\ oms'[o].boid = m[o] /\ m[o] \in BrokerIds \cup {NoId}
             /\ oms'[o].state = "SUBMITTED" /\ oms'[o].filled = 0
             /\ m[o] # NoId => broker[m[o]].st # "NONE" /\ broker[m[o]].rq = rq[o]
  <2>1. o \in Orders /\ oms[o] \in OmsOrder /\ oms[o].state = "SUBMITTED" /\ oms[o].filled = 0
    BY DEF TypeOK, Orphans, BookInv, OmsSound
  <2>2. m[o] # NoId => Match(o, m[o])
    BY <1>1 DEF Adoption
  <2>3. oms'[o] = [oms[o] EXCEPT !.boid = m[o]]
    BY <1>1, <2>1
  <2> QED BY <1>1, <2>1, <2>2, <2>3 DEF OmsOrder, Match, Listed
<1>5. ASSUME NEW o \in Orphans, m[o] # NoId
      PROVE  Reflects(oms'[o], rq[o], broker[m[o]])
  BY <1>4, <1>5 DEF Reflects, TypeOK, Entry
<1>6. OmsSound'
  BY <1>2, <1>3, <1>4, <1>5 DEF BookInv, OmsSound
<1>7. ASSUME NEW b \in BrokerIds, book'[b] # NoEntry
      PROVE  book'[b] = broker[b] /\ broker[b].st # "NONE"
  <2>1. PICK o \in Orders : Tracks(o, b)'
    BY <1>2, <1>7
  <2>2. book'[b] = broker[b] /\ oms'[o].boid = b
    BY <1>2, <2>1 DEF Tracks
  <2> QED BY <1>2, <1>6, <2>2 DEF OmsSound, Reflects
<1>8. BookSound'
  BY <1>2, <1>7 DEF BookInv, BrokerSound, BookSound, Behind, TypeOK, Entry
<1> QED BY <1>2, <1>6, <1>8 DEF BookInv, BrokerSound

\* What apply_broker_status makes of an entry that is behind the broker's.
LEMMA FoldedReflects ==
  ASSUME NEW x \in OmsOrder, x.state \in Live, NEW e \in Entry, NEW f \in Entry,
         NEW r \in Requests, WellFilled(e), Behind(e, f), WellFilled(f),
         Reflects(x, r, f)
  PROVE  Reflects(Folded(x, e, Qty[r]), r, f)
<1> DEFINE t  == Target(e, Qty[r])
           fl == IF e.filled > 0 THEN e.filled ELSE x.filled
           st == IF t \in Terminal \/ t \in Allowed[x.state] THEN t ELSE x.state
<1>1. fl \in Nat /\ fl <= f.filled
  BY DEF Entry, OmsOrder, Behind, Reflects
<1>2. Qty[r] \in Nat /\ e.rq = r /\ f.rq = r
  BY RequestAssumption DEF Behind, Reflects
<1>3. t = "FILLED" => f.filled = Qty[r]
  <2>1. KiteMap(e.st) = "FILLED" => e.st = "COMPLETE"
    BY DEF KiteMap
  <2>2. t = "FILLED" => e.filled = Qty[r]
    BY <1>2, <2>1 DEF Target, WellFilled, Entry
  <2> QED BY <1>2, <2>2 DEF Behind, WellFilled, Entry
<1>4. t \in {"REJECTED", "CANCELLED"} => f.st = t
  <2>1. KiteMap(e.st) \in {"REJECTED", "CANCELLED"} => e.st = KiteMap(e.st)
    BY DEF KiteMap
  <2>2. t \in {"REJECTED", "CANCELLED"} => t = KiteMap(e.st)
    BY DEF Target
  <2> QED BY <2>1, <2>2 DEF Behind, Ended
<1>5. st = t \/ st \in Live
  OBVIOUS
<1>6. Folded(x, e, Qty[r]) = [x EXCEPT !.filled = fl, !.state = st]
  BY DEF Folded
<1> HIDE DEF t, fl, st
<1>7. Folded(x, e, Qty[r]).filled = fl /\ Folded(x, e, Qty[r]).state = st
  BY <1>6 DEF OmsOrder
<1> QED BY <1>1, <1>2, <1>3, <1>4, <1>5, <1>7 DEF Reflects, Live

LEMMA FoldBook ==
  ASSUME SInv, NEW o \in Orders, NEW b \in BrokerIds, book[b] # NoEntry, Tracks(o, b),
         oms' = [oms EXCEPT ![o] = Folded(oms[o], book[b], Qty[rq[o]])],
         UNCHANGED <<rq, broker>>
  PROVE  OmsSound'
<1> USE DEF SInv, RInv, IInv
<1> DEFINE x == Folded(oms[o], book[b], Qty[rq[o]])
<1>1. /\ oms[o] \in OmsOrder /\ oms[o].state \in Live /\ oms[o].boid = b
      /\ rq[o] \in Requests /\ book[b] \in Entry /\ broker[b] \in Entry
  BY DEF Tracks, TypeOK, Numbered, Live
<1>2. /\ WellFilled(book[b]) /\ Behind(book[b], broker[b]) /\ WellFilled(broker[b])
      /\ Reflects(oms[o], rq[o], broker[b])
  BY <1>1 DEF BookInv, BrokerSound, BookSound, OmsSound
<1>3. Reflects(x, rq[o], broker[b])
  BY <1>1, <1>2, FoldedReflects
<1>4. x.boid = b /\ x \in OmsOrder
  BY <1>1, FoldedType
<1>5. x.state # "CREATED"
  <2>1. oms[o].state # "CREATED"
    BY <1>1 DEF BookInv, OmsSound
  <2>2. Target(book[b], Qty[rq[o]]) # "CREATED"
    BY DEF Target, KiteMap
  <2> QED BY <2>1, <2>2, <1>1 DEF Folded, OmsOrder
<1> HIDE DEF x
<1>6. oms'[o] = x /\ \A p \in Orders : p # o => oms'[p] = oms[p]
  BY DEF x, TypeOK
<1> QED BY <1>3, <1>4, <1>5, <1>6 DEF BookInv, OmsSound

LEMMA BookFolds ==
  ASSUME SInv, NEW b \in BrokerIds, Fold(b) \/ FoldRaises(b)
  PROVE  BookInv'
<1> USE DEF SInv, RInv, IInv
<1>1. /\ book[b] # NoEntry /\ UNCHANGED <<rq, broker>>
      /\ book' \in {[book EXCEPT ![b] = NoEntry], EmptyBook}
      /\ \E o \in Orders :
           /\ Tracks(o, b)
           /\ oms' = [oms EXCEPT ![o] = Folded(oms[o], book[b], Qty[rq[o]])]
  BY DEF Fold, FoldRaises
<1>2. OmsSound'
  BY <1>1, FoldBook
<1>3. \A c \in BrokerIds : book'[c] # NoEntry => book'[c] = book[c]
  BY <1>1 DEF TypeOK, EmptyBook
<1> QED BY <1>1, <1>2, <1>3 DEF BookInv, BrokerSound, BookSound

LEMMA CrashBook ==
  ASSUME SInv, Crash
  PROVE  BookInv'
BY DEF SInv, BookInv, BrokerSound, BookSound, OmsSound, Crash, Absent, EmptyBook

\* An entry only moves forward, and not at all once it has ended.
LEMMA MovesForward ==
  ASSUME NEW e \in Entry, WellFilled(e), NEW f \in Moves(e)
  PROVE  /\ WellFilled(f) /\ Behind(e, f) /\ e.st \notin Ended
<1>1. e.filled \in Nat /\ Qty[e.rq] \in Nat
  BY RequestAssumption DEF Entry, WellFilled
<1>2. CASE e.st = "REQ"
  <2>1. f \in {[e EXCEPT !.st = "OPEN"], [e EXCEPT !.st = "REJECTED"]}
    BY <1>2 DEF Moves
  <2> QED BY <1>1, <1>2, <2>1 DEF WellFilled, Behind, Ended, Entry
<1>3. CASE e.st \in {"OPEN", "CANCEL PENDING"}
  <2> DEFINE full == IF e.filled + 1 = Qty[e.rq] THEN "COMPLETE" ELSE e.st
             next == IF e.st = "OPEN" THEN "CANCEL PENDING" ELSE "CANCELLED"
  <2>1. f \in {[e EXCEPT !.filled = e.filled + 1, !.st = full], [e EXCEPT !.st = next]}
    BY <1>3 DEF Moves, Entry
  <2>2. e.filled < Qty[e.rq] /\ e.rq \in Requests /\ e.st \notin Ended
    BY <1>3 DEF WellFilled, Ended
  <2>3. next \notin {"NONE", "COMPLETE"} /\ full # "NONE"
    BY <1>3
  <2>4. IF e.filled + 1 = Qty[e.rq] THEN full = "COMPLETE" ELSE full # "COMPLETE"
    BY <1>3
  <2> HIDE DEF full, next
  <2>5. CASE f = [e EXCEPT !.filled = e.filled + 1, !.st = full]
    <3>1. f.filled = e.filled + 1 /\ f.st = full /\ f.rq = e.rq
      BY <2>5 DEF Entry
    <3>2. WellFilled(f)
      BY <1>1, <2>2, <2>3, <2>4, <3>1 DEF WellFilled
    <3> QED BY <1>1, <2>2, <3>1, <3>2 DEF Behind
  <2>6. CASE f = [e EXCEPT !.st = next]
    <3>1. f.filled = e.filled /\ f.st = next /\ f.rq = e.rq
      BY <2>6 DEF Entry
    <3>2. WellFilled(f)
      BY <1>1, <2>2, <2>3, <3>1 DEF WellFilled
    <3> QED BY <1>1, <2>2, <3>1, <3>2 DEF Behind
  <2> QED BY <2>1, <2>2, <2>5, <2>6
<1>4. CASE e.st \notin {"REQ", "OPEN", "CANCEL PENDING"}
  BY <1>4 DEF Moves
<1> QED BY <1>2, <1>3, <1>4

LEMMA AdvanceBook ==
  ASSUME SInv, NEW b \in BrokerIds, Advance(b)
  PROVE  BookInv'
<1> USE DEF SInv, RInv, IInv
<1>1. PICK f \in Moves(broker[b]) : broker' = [broker EXCEPT ![b] = f]
  BY DEF Advance
<1>2. UNCHANGED <<rq, book>> /\ UNCHANGED oms
  BY DEF Advance, worker
<1> DEFINE e == broker[b]
<1>3. e \in Entry /\ f \in Entry /\ f.st # "NONE" /\ e.st # "NONE"
  BY MovesType DEF TypeOK
<1>4. WellFilled(e)
  BY <1>3 DEF BookInv, BrokerSound
<1>5. WellFilled(f) /\ Behind(e, f) /\ e.st \notin Ended
  BY <1>3, <1>4, MovesForward
<1>6. broker'[b] = f /\ \A c \in BrokerIds : c # b => broker'[c] = broker[c]
  BY <1>1 DEF TypeOK
<1>7. BrokerSound'
  BY <1>5, <1>6 DEF BookInv, BrokerSound
<1>8. ASSUME book[b] # NoEntry
      PROVE  Behind(book[b], f)
  <2>1. Behind(book[b], e) /\ book[b] \in Entry
    BY <1>8 DEF BookInv, BookSound, TypeOK
  <2> QED BY <1>3, <1>5, <2>1 DEF Behind, Entry
<1>9. BookSound'
  BY <1>2, <1>3, <1>6, <1>8 DEF BookInv, BookSound
<1>10. ASSUME NEW o \in Orders, oms[o].boid = b
       PROVE  Reflects(oms[o], rq[o], f)
  <2>1. Reflects(oms[o], rq[o], e) /\ oms[o] \in OmsOrder
    BY <1>10 DEF BookInv, OmsSound, TypeOK
  <2>2. oms[o].state # "FILLED" /\ oms[o].state \notin {"REJECTED", "CANCELLED"}
    BY <1>4, <1>5, <2>1, <1>3 DEF Reflects, Ended, WellFilled, Entry
  <2> QED BY <1>3, <1>5, <2>1, <2>2 DEF Reflects, Behind, OmsOrder, Entry
<1> HIDE DEF e
<1>11. OmsSound'
  BY <1>2, <1>6, <1>10 DEF BookInv, OmsSound, TypeOK, OmsOrder
<1> QED BY <1>7, <1>9, <1>11 DEF BookInv

LEMMA ForeignBook ==
  ASSUME SInv, NEW r \in Requests, Foreign(r)
  PROVE  BookInv'
<1>1. /\ nextId \in BrokerIds /\ UNCHANGED <<rq, book>> /\ UNCHANGED oms
      /\ broker' = [broker EXCEPT ![nextId] = [st |-> "REQ", rq |-> r, filled |-> 0]]
  BY DEF Foreign, worker
<1>2. /\ BrokerSound' /\ BookSound'
      /\ \A o \in Orders : oms[o].boid # NoId =>
           broker'[oms[o].boid] = broker[oms[o].boid]
  BY <1>1, GrownBook DEF SInv, RInv, IInv
<1>3. OmsSound'
  BY <1>1, <1>2 DEF SInv, BookInv, OmsSound
<1> QED BY <1>2, <1>3 DEF BookInv

LEMMA QuietBook ==
  ASSUME SInv, UNCHANGED <<rq, oms, broker, book>>
  PROVE  BookInv'
BY DEF SInv, BookInv, BrokerSound, BookSound, OmsSound

LEMMA SInvNext == SInv /\ [Next]_vars => SInv'
<1> SUFFICES ASSUME SInv, [Next]_vars PROVE SInv'
  OBVIOUS
<1>1. RInv'
  BY RInvNext DEF SInv
<1>2. CASE \E r \in Requests : Submit(r) \/ Foreign(r)
  BY <1>1, <1>2, SubmitBook, ForeignBook DEF SInv
<1>3. CASE Accepted \/ Retry \/ Failed \/ StartPass \/ Crash
  BY <1>1, <1>3, AcceptedBook, RetryBook, FailedBook, StartPassBook, CrashBook DEF SInv
<1>4. CASE \E b \in BrokerIds : Fold(b) \/ FoldRaises(b) \/ Advance(b)
  BY <1>1, <1>4, BookFolds, AdvanceBook DEF SInv
<1>5. CASE EndPass
  BY <1>1, <1>5, QuietBook DEF SInv, EndPass
<1>6. CASE UNCHANGED vars
  BY <1>1, <1>6, QuietBook DEF SInv, vars
<1> QED BY <1>2, <1>3, <1>4, <1>5, <1>6 DEF Next, Work

LEMMA SInvAlways == Spec => []SInv
<1>1. Init => SInv
  BY InitInv, InitRow, InitBook DEF SInv, RInv
<1> QED BY <1>1, SInvNext, PTL DEF Spec

\* For any sequence of timeouts, adoptions, failed commits and restarts, the
\* OMS says no more of the broker order it follows than the broker does.
THEOREM ReflectionHolds == Spec => []OmsReflectsBroker
<1>1. SInv => OmsReflectsBroker
  BY DEF SInv, BookInv, OmsSound, OmsReflectsBroker, Reflects
<1> QED BY <1>1, SInvAlways, PTL

----------------------------------------------------------------------------
(* Without restarts: the OMS remembers what the rows owe their status to *)

FillInv ==
  \A o \in Orders :
    "COMPLETE" \in {db[o].status, sess[o].status} =>
      oms[o].state = "FILLED" /\ oms[o].boid # NoId

\* A step that completes no row, and leaves the orders of complete ones alone.
LEMMA FillsKept ==
  ASSUME FillInv,
         \A o \in Orders : "COMPLETE" \in {db'[o].status, sess'[o].status} =>
           "COMPLETE" \in {db[o].status, sess[o].status} /\ oms'[o] = oms[o]
  PROVE  FillInv'
BY DEF FillInv

LEMMA FillsSubmit ==
  ASSUME SInv, FillInv, NEW r \in Requests, Submit(r)
  PROVE  FillInv'
<1> USE DEF SInv, RInv, IInv
<1> DEFINE row == [DbNone EXCEPT !.status = "PENDING"]
           x == [Absent EXCEPT !.state = "CREATED"]
<1>1. /\ cur + 1 \in Orders /\ oms' = [oms EXCEPT ![cur + 1] = x]
      /\ sess' = [db EXCEPT ![cur + 1] = row] /\ db' = db
  BY BoundsAssumption DEF TypeOK, Submit
<1>2. db[cur + 1] = DbNone
  BY <1>1 DEF RowInv, TypeOK
<1>3. row.status # "COMPLETE" /\ DbNone.status # "COMPLETE"
  BY DEF DbNone
<1> HIDE DEF row, x
<1> QED BY <1>1, <1>2, <1>3, FillsKept DEF TypeOK

LEMMA FillsPosted ==
  ASSUME SInv, FillInv, Accepted \/ Failed
  PROVE  FillInv'
<1>1. /\ RowInv' /\ db[cur] = DbNone
      /\ db' = db \/ \E row : db' = [db EXCEPT ![cur] = row] /\ row.status \in WaitingRow
  BY AcceptedRow, FailedRow DEF SInv
<1>2. pc = "posting" /\ pc' = "idle" /\ \E b : MarkSubmitted(cur, b)
  BY DEF Accepted, Failed
<1>3. cur \in Orders /\ \A o \in Orders : o # cur => oms'[o] = oms[o]
  BY <1>2, MarkedOrder
<1>4. sess' = db'
  BY <1>1, <1>2 DEF RowInv
<1>5. \A o \in Orders : o # cur => db'[o] = db[o]
  BY <1>1, <1>3 DEF SInv, RInv, IInv, TypeOK
<1>6. db'[cur].status # "COMPLETE"
  <2>1. CASE db' = db
    BY <1>1, <2>1 DEF DbNone
  <2>2. ASSUME NEW row, db' = [db EXCEPT ![cur] = row], row.status \in WaitingRow
        PROVE  db'[cur].status # "COMPLETE"
    BY <1>3, <2>2 DEF SInv, RInv, IInv, TypeOK, WaitingRow
  <2> QED BY <1>1, <2>1, <2>2
<1> QED BY <1>3, <1>4, <1>5, <1>6, FillsKept

LEMMA FillsStartPass ==
  ASSUME SInv, FillInv, StartPass
  PROVE  FillInv'
<1> USE DEF SInv, RInv, IInv
<1>1. pc = "idle" /\ UNCHANGED <<db, sess>>
      /\ \A o \in Orders : o \notin Orphans => oms'[o] = oms[o]
  BY DEF StartPass
<1>2. \A o \in Orphans : "COMPLETE" \notin {db[o].status, sess[o].status}
  BY DEF FillInv, Orphans
<1> QED BY <1>1, <1>2, FillsKept

LEMMA SettledFields ==
  ASSUME NEW row \in DbRow, NEW x, NEW qty
  PROVE  /\ Settled(row, x, qty).status = StateToDb(x.state)
         /\ row.trades = 0 => Settled(row, x, qty).traded =
                                IF x.state = "FILLED" THEN FillOf(x, qty) ELSE row.traded
<1> DEFINE st == StateToDb(x.state)
           tr == IF row.trades = 0 THEN 1 ELSE row.trades
           td == IF row.trades = 0 THEN FillOf(x, qty) ELSE row.traded
<1>1. Settled(row, x, qty) = IF x.state # "FILLED" THEN [row EXCEPT !.status = st]
        ELSE [row EXCEPT !.status = st, !.trades = tr, !.traded = td]
  BY DEF Settled, DbRow
<1>2. row.trades = 0 => td = FillOf(x, qty)
  OBVIOUS
<1> HIDE DEF st, tr, td
<1> QED BY <1>1, <1>2 DEF DbRow, st

LEMMA FillsFold ==
  ASSUME SInv, FillInv, NEW b \in BrokerIds, Fold(b)
  PROVE  FillInv'
<1> USE DEF SInv, RInv, IInv
<1> DEFINE X(o) == Folded(oms[o], book[b], Qty[rq[o]])
<1>1. PICK o \in Orders :
        /\ Tracks(o, b)
        /\ oms' = [oms EXCEPT ![o] = X(o)]
        /\ IF Persists(o, X(o))
           THEN sess' = [sess EXCEPT ![o] = Settled(sess[o], X(o), Qty[rq[o]])]
           ELSE UNCHANGED sess
  BY DEF Fold, TypeOK
<1>2. UNCHANGED <<pc, cur, db>>
  BY DEF Fold
<1>3. /\ oms[o].state \in Live /\ oms[o] \in OmsOrder /\ book[b] \in Entry
      /\ oms[o].boid = b
  BY <1>1 DEF Tracks, TypeOK
<1>4. "COMPLETE" \notin {db[o].status, sess[o].status}
  BY <1>3 DEF FillInv, Live
<1>5. X(o).boid = b
  BY <1>3, FoldedType
<1> HIDE DEF X
<1>6. /\ oms'[o] = X(o)
      /\ \A p \in Orders : p # o => oms'[p] = oms[p] /\ sess'[p] = sess[p]
  BY <1>1 DEF TypeOK
<1>7. CASE Persists(o, X(o))
  <2>1. sess'[o].status = StateToDb(X(o).state)
    <3>1. sess[o] \in DbRow
      BY DEF TypeOK
    <3>2. sess'[o] = Settled(sess[o], X(o), Qty[rq[o]])
      BY <1>1, <1>7 DEF TypeOK
    <3> QED BY <3>1, <3>2, SettledFields
  <2>2. sess'[o].status = "COMPLETE" => X(o).state = "FILLED"
    BY <2>1 DEF StateToDb
  <2> QED BY <1>2, <1>4, <1>5, <1>6, <2>2 DEF FillInv
<1>8. CASE ~Persists(o, X(o))
  BY <1>1, <1>2, <1>4, <1>6, <1>8, FillsKept
<1> QED BY <1>7, <1>8

LEMMA FillsFoldRaises ==
  ASSUME SInv, FillInv, NEW b \in BrokerIds, FoldRaises(b)
  PROVE  FillInv'
<1>1. sess' = db /\ db' = db
      /\ \E o \in Orders : oms[o].state \in Live /\ \A p \in Orders : p # o => oms'[p] = oms[p]
  BY DEF FoldRaises, Tracks, SInv, RInv, IInv, TypeOK
<1>2. PICK o \in Orders : /\ oms[o].state \in Live
                          /\ \A p \in Orders : p # o => oms'[p] = oms[p]
  BY <1>1
<1>3. "COMPLETE" \notin {db[o].status, sess[o].status}
  BY <1>2 DEF FillInv, Live
<1> QED BY <1>1, <1>2, <1>3, FillsKept

LEMMA FillInvNext ==
  ASSUME "crash" \notin Faults, SInv, FillInv, [Next]_vars
  PROVE  FillInv'
<1>1. CASE \E r \in Requests : Submit(r)
  BY <1>1, FillsSubmit
<1>2. CASE Accepted \/ Failed
  BY <1>2, FillsPosted
<1>3. CASE StartPass \/ \E b \in BrokerIds : Fold(b) \/ FoldRaises(b)
  BY <1>3, FillsStartPass, FillsFold, FillsFoldRaises
<1>4. CASE EndPass
  BY <1>4, FillsKept DEF EndPass, Commit
<1>5. CASE Retry \/ \E b \in BrokerIds : Advance(b)
  BY <1>5, FillsKept DEF Retry, Advance, store
<1>6. CASE \E r \in Requests : Foreign(r)
  BY <1>6, FillsKept DEF Foreign, store
<1>7. CASE Crash
  BY <1>7 DEF Crash, Fault
<1>8. CASE UNCHANGED vars
  BY <1>8, FillsKept DEF vars
<1> QED BY <1>1, <1>2, <1>3, <1>4, <1>5, <1>6, <1>7, <1>8 DEF Next, Work

\* Each complete row of a request owes its fill to a filled entry of its own.
LEMMA FillsCounted ==
  ASSUME SInv, FillInv
  PROVE  FillsNotInvented
<1> SUFFICES ASSUME NEW r \in Requests
             PROVE  Cardinality(Completed(r)) <= Cardinality(FilledAt(r))
  BY DEF FillsNotInvented
<1> DEFINE f == [o \in Completed(r) |-> oms[o].boid]
<1>1. ASSUME NEW o \in Completed(r)
      PROVE  o \in Orders /\ oms[o].boid \in FilledAt(r) /\ oms[o].boid # NoId
  <2>1. o \in Orders /\ rq[o] = r /\ oms[o].state = "FILLED" /\ oms[o].boid # NoId
    BY DEF Completed, FillInv
  <2>2. oms[o].boid \in BrokerIds
    BY <2>1 DEF SInv, RInv, IInv, TypeOK, OmsOrder
  <2>3. Reflects(oms[o], r, broker[oms[o].boid])
    BY <2>1 DEF SInv, BookInv, OmsSound
  <2> QED BY <2>1, <2>2, <2>3 DEF Reflects, FilledAt
<1>2. f \in Injection(Completed(r), FilledAt(r))
  BY <1>1 DEF Injection, IsInjective, SInv, RInv, IInv, TrackedIdsDistinct
<1>3. IsFiniteSet(FilledAt(r))
  <2>1. FilledAt(r) \in SUBSET BrokerIds
    BY DEF FilledAt
  <2>2. IsFiniteSet(BrokerIds)
    BY FS_Interval, BoundsAssumption
  <2> QED BY <2>1, <2>2, FS_Subset
<1> QED BY <1>2, <1>3, FS_Injection

\* As long as the process is not restarted, no more rows of a request are
\* COMPLETE than the broker filled orders of it, however many requests are
\* equal, whatever is placed elsewhere and however commits fail.
THEOREM FillsHold ==
  ASSUME "crash" \notin Faults
  PROVE  Spec => []FillsNotInvented
<1>1. Init => FillInv
  BY DEF Init, FillInv, DbNone
<1>2. SInv /\ FillInv /\ [Next]_vars => FillInv'
  BY FillInvNext
<1>3. SInv /\ FillInv => FillsNotInvented
  BY FillsCounted
<1> QED BY <1>1, <1>2, <1>3, SInvAlways, PTL DEF Spec

----------------------------------------------------------------------------
(* Without failed commits: the position book and the trades *)

\* A waiting order has no trade, and RISK has heard nothing of it.
TradeInv ==
  /\ \A o \in Orders : o > cur => risk[o] = 0
  /\ \A o \in Orders : oms[o].state \in Live =>
       /\ sess[o].status \in WaitingRow
       /\ sess[o].trades = 0 /\ sess[o].traded = 0 /\ risk[o] = 0
  /\ BooksAgree

LEMMA TradesSubmit ==
  ASSUME RInv, TradeInv, NEW r \in Requests, Submit(r)
  PROVE  TradeInv'
<1> USE DEF RInv, IInv
<1> DEFINE row == [DbNone EXCEPT !.status = "PENDING"]
           x == [Absent EXCEPT !.state = "CREATED"]
<1>1. /\ cur + 1 \in Orders /\ oms' = [oms EXCEPT ![cur + 1] = x]
      /\ sess' = [db EXCEPT ![cur + 1] = row] /\ sess = db
      /\ cur' = cur + 1 /\ risk' = risk
  BY BoundsAssumption DEF TypeOK, Submit, RowInv
<1>2. row.status \in WaitingRow /\ row.trades = 0 /\ row.traded = 0
  BY DEF DbNone, WaitingRow
<1>3. risk[cur + 1] = 0
  BY <1>1 DEF TradeInv, TypeOK
<1> HIDE DEF row, x
<1>4. \A o \in Orders : IF o = cur + 1 THEN sess'[o] = row
                        ELSE sess'[o] = sess[o] /\ oms'[o] = oms[o]
  BY <1>1 DEF TypeOK
<1>5. \A o \in Orders : o > cur' => risk'[o] = 0
  BY <1>1 DEF TradeInv, TypeOK
<1> QED BY <1>1, <1>2, <1>3, <1>4, <1>5 DEF TradeInv, BooksAgree

\* The commit of a posted order, when it does not fail.
LEMMA TradesPosted ==
  ASSUME RInv, TradeInv, "dbfail" \notin Faults, Accepted \/ Failed
  PROVE  TradeInv'
<1> USE DEF RInv, IInv
<1>1. /\ pc = "posting" /\ UNCHANGED <<cur, risk>>
      /\ \E b : MarkSubmitted(cur, b)
  BY DEF Accepted, Failed
<1>2. cur \in Orders /\ oms[cur].state = "CREATED" /\ sess[cur] \in DbRow
  BY <1>1 DEF Numbered, TypeOK
<1>3. PICK row : row \in {[sess[cur] EXCEPT !.status = "OPEN", !.boid = nextId],
                          [sess[cur] EXCEPT !.status = "PENDING"]}
                 /\ sess' = [sess EXCEPT ![cur] = row]
  BY DEF Accepted, Failed, Commit, Fault
<1>4. /\ row.status \in WaitingRow
      /\ row.trades = sess[cur].trades /\ row.traded = sess[cur].traded
  BY <1>2, <1>3 DEF DbRow, WaitingRow
<1>5. \A o \in Orders : o # cur => oms'[o] = oms[o] /\ sess'[o] = sess[o]
  BY <1>1, <1>3 DEF MarkSubmitted, TypeOK
<1>6. sess'[cur] = row
  BY <1>2, <1>3 DEF TypeOK
<1>7. sess[cur].trades = 0 /\ sess[cur].traded = 0 /\ risk[cur] = 0
  BY <1>2 DEF TradeInv, Live
<1> QED BY <1>1, <1>4, <1>5, <1>6, <1>7 DEF TradeInv, BooksAgree

LEMMA TradesStartPass ==
  ASSUME RInv, TradeInv, StartPass
  PROVE  TradeInv'
<1>1. \A o \in Orders : oms'[o].state = oms[o].state
  BY DEF RInv, IInv, StartPass, TypeOK, OmsOrder
<1> QED BY <1>1 DEF StartPass, TradeInv, BooksAgree

LEMMA TradesFold ==
  ASSUME RInv, TradeInv, NEW b \in BrokerIds, Fold(b)
  PROVE  TradeInv'
<1> USE DEF RInv, IInv
<1> DEFINE X(o) == Folded(oms[o], book[b], Qty[rq[o]])
           F(o) == FillOf(X(o), Qty[rq[o]])
           S(o) == Settled(sess[o], X(o), Qty[rq[o]])
<1>1. PICK o \in Orders :
        /\ Tracks(o, b)
        /\ oms' = [oms EXCEPT ![o] = X(o)]
        /\ IF Persists(o, X(o))
           THEN sess' = [sess EXCEPT ![o] = S(o)]
           ELSE UNCHANGED sess
        /\ IF Persists(o, X(o)) /\ X(o).state = "FILLED"
           THEN risk' = [risk EXCEPT ![o] = risk[o] + F(o)]
           ELSE UNCHANGED risk
  BY DEF Fold, TypeOK
<1>2. UNCHANGED <<pc, cur, rq>>
  BY DEF Fold
<1>3. /\ oms[o].state \in Live /\ oms[o] \in OmsOrder /\ book[b] \in Entry
      /\ rq[o] \in Requests /\ Qty[rq[o]] \in Nat
  BY <1>1, RequestAssumption DEF Tracks, TypeOK, Numbered, Live
<1>4. /\ sess[o].status \in WaitingRow /\ sess[o] \in DbRow
      /\ sess[o].trades = 0 /\ sess[o].traded = 0 /\ risk[o] = 0
  BY <1>3 DEF TradeInv, TypeOK
<1>5. X(o) \in OmsOrder /\ F(o) \in Nat
  BY <1>3, FoldedType DEF FillOf, OmsOrder
<1>6. S(o).traded = IF X(o).state = "FILLED" THEN F(o) ELSE 0
  BY <1>4, SettledFields
<1> HIDE DEF X, F, S
<1>7. \A p \in Orders : p # o =>
        oms'[p] = oms[p] /\ sess'[p] = sess[p] /\ risk'[p] = risk[p]
  BY <1>1 DEF TypeOK
<1>8. oms'[o] = X(o)
  BY <1>1 DEF TypeOK
<1>9. ~(o > cur)
  BY <1>4, RowOpposites DEF RowInv, DbNone, Ahead, TypeOK
<1>10. CASE X(o).state \in Terminal
  <2>1. Persists(o, X(o))
    BY <1>4, <1>10 DEF Persists, StateToDb, WaitingRow
  <2>2. sess'[o] = S(o)
    BY <1>1, <2>1 DEF TypeOK
  <2>3. risk'[o] = sess'[o].traded
    <3>1. CASE X(o).state = "FILLED"
      <4>1. risk'[o] = risk[o] + F(o)
        BY <1>1, <2>1, <3>1 DEF TypeOK
      <4> QED BY <1>4, <1>5, <1>6, <2>2, <3>1, <4>1
    <3>2. CASE X(o).state # "FILLED"
      BY <1>1, <1>4, <1>6, <2>2, <3>2
    <3> QED BY <3>1, <3>2
  <2>4. oms'[o].state \notin Live
    BY <1>8, <1>10 DEF Live, Terminal
  <2> QED BY <1>2, <1>7, <1>9, <2>3, <2>4 DEF TradeInv, BooksAgree
<1>11. CASE X(o).state \notin Terminal
  <2>1. sess' = sess /\ risk' = risk
    BY <1>1, <1>11 DEF Persists
  <2> QED BY <1>2, <1>4, <1>7, <2>1 DEF TradeInv, BooksAgree
<1> QED BY <1>10, <1>11

LEMMA TradesCrash ==
  ASSUME RInv, TradeInv, Crash
  PROVE  TradeInv'
BY DEF RInv, IInv, TypeOK, TradeInv, BooksAgree, Crash, Absent, Live

LEMMA TradesQuiet ==
  ASSUME TradeInv, UNCHANGED <<cur, oms, sess, risk>>
  PROVE  TradeInv'
BY DEF TradeInv, BooksAgree

LEMMA TradeInvNext ==
  ASSUME "dbfail" \notin Faults, RInv, TradeInv, [Next]_vars
  PROVE  TradeInv'
<1>1. CASE (\E r \in Requests : Submit(r)) \/ Accepted \/ Failed
  BY <1>1, TradesSubmit, TradesPosted
<1>2. CASE StartPass \/ \E b \in BrokerIds : Fold(b)
  BY <1>2, TradesStartPass, TradesFold
<1>3. CASE EndPass \/ \E b \in BrokerIds : FoldRaises(b)
  BY <1>3, TradesQuiet DEF EndPass, FoldRaises, Commit, Fault
<1>4. CASE Crash
  BY <1>4, TradesCrash
<1>5. CASE Retry \/ \E b \in BrokerIds : Advance(b)
  BY <1>5, TradesQuiet DEF Retry, Advance, worker, store
<1>6. CASE \E r \in Requests : Foreign(r)
  BY <1>6, TradesQuiet DEF Foreign, worker, store
<1>7. CASE UNCHANGED vars
  BY <1>7, TradesQuiet DEF vars
<1> QED BY <1>1, <1>2, <1>3, <1>4, <1>5, <1>6, <1>7 DEF Next, Work

\* As long as no commit and no read fails, what RISK was told of each order the
\* process knows is what its trades in the session say, through restarts too.
THEOREM BooksHold ==
  ASSUME "dbfail" \notin Faults
  PROVE  Spec => []BooksAgree
<1>1. Init => TradeInv
  BY DEF Init, TradeInv, BooksAgree, DbNone, Absent, Live
<1>2. RInv /\ TradeInv /\ [Next]_vars => TradeInv'
  BY TradeInvNext
<1>3. SInv => RInv
  BY DEF SInv
<1>4. TradeInv => BooksAgree
  BY DEF TradeInv
<1> QED BY <1>1, <1>2, <1>3, <1>4, SInvAlways, PTL DEF Spec

=============================================================================
