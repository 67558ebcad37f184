----------------------- MODULE OptionsInstancesProofs -----------------------
(***************************************************************************)
(* Proofs about OptionsInstances: the status of an instance tells its open *)
(* legs, and an ended instance stays ended, for any number of instances,   *)
(* operators and concurrent passes.                                        *)
(***************************************************************************)
EXTENDS OptionsInstances, TLAPS

\* Only rows that exist are worked on.
RowsExist(s) ==
  \A i \in Ids :
    s.cur = i \/ i \in s.todo \/ i \in s.flushed => inst[i] # NoRow

\* What a session holds of a row is current, unless the row is shared.
ReadIsCurrent(s) ==
  \A i \in Ids \ shared :
    s.cur = i \/ (i \in s.todo /\ s.seen[i] # Unread)
      => s.seen[i] = inst[i].status

\* What a session does is what it has read allows.
DoesAsRead(s) ==
  \A i \in Ids :
    s.cur = i => /\ s.doing = "enter" => s.seen[i] \in Entrable
                 /\ s.doing \in {"monitor", "exit"} => s.seen[i] = "ACTIVE"

\* A row marked VALIDATING was one to enter; it is locked.
FlushedEntrable(s) ==
  \A i \in Ids \ shared : i \in s.flushed => inst[i].status \in Entrable

Shaped(s) ==
  /\ s \in Session
  /\ s.cur = None <=> s.doing = "nothing"
  /\ s.cur \notin s.todo

Fits(s) == /\ Shaped(s) /\ RowsExist(s) /\ ReadIsCurrent(s)
           /\ DoesAsRead(s) /\ FlushedEntrable(s)
IInv == TypeOK /\ LegsFollowStatus /\ \A t \in Threads : Fits(sess[t])

LEMMA IdleFits == Fits(Idle)
BY NoneAssumption
   DEF Fits, Shaped, RowsExist, ReadIsCurrent, DoesAsRead, FlushedEntrable,
       Session, Idle, NotSeen, Unread

LEMMA InitIInv == Init => IInv
<1> SUFFICES ASSUME Init PROVE IInv OBVIOUS
<1>1. TypeOK
  BY NoneAssumption
     DEF Init, TypeOK, Row, NoRow, Lots, Flat, Session, Idle, NotSeen, Unread
<1>2. LegsFollowStatus
  BY DEF Init, LegsFollowStatus, LegsFit, NoRow, Flat, Entrable, Closed
<1>3. \A t \in Threads : Fits(sess[t])
  BY IdleFits DEF Init
<1> QED BY <1>1, <1>2, <1>3 DEF IInv

----------------------------------------------------------------------------
(* Steps that change a session and no row.                                 *)

LEMMA SessionStep ==
  ASSUME IInv, UNCHANGED <<inst, legs, shared>>, NEW t \in Threads,
         NEW s, Fits(s), sess' = [sess EXCEPT ![t] = s]
  PROVE  IInv'
<1>1. sess' \in [Threads -> Session] /\ \A u \in Threads : Fits(sess'[u])
  BY DEF IInv, TypeOK, Fits, Shaped
<1>2. \A u \in Threads : Fits(sess[u])'
  BY <1>1 DEF Fits, Shaped, RowsExist, ReadIsCurrent, DoesAsRead,
              FlushedEntrable
<1>3. TypeOK'
  BY <1>1 DEF IInv, TypeOK, Fits, Shaped
<1>4. LegsFollowStatus'
  BY DEF IInv, LegsFollowStatus
<1> QED BY <1>2, <1>3, <1>4 DEF IInv

\* To leave an instance, with some of the rows flushed, keeps a session fit.
LEMMA LeaveFits ==
  ASSUME IInv, NEW s, Fits(s) PROVE Fits(Leave(s))
<1>1. CASE s.todo = {}
  BY <1>1, IdleFits DEF Leave
<1>2. CASE s.todo # {}
  <2> DEFINE l == [s EXCEPT !.doing = "nothing", !.cur = None]
  <2>1. Leave(s) = l
    BY <1>2 DEF Leave
  <2>2. Shaped(l)
    BY NoneAssumption DEF Fits, Shaped, Session
  <2>3. /\ l.cur \notin Ids /\ l.todo = s.todo /\ l.seen = s.seen
        /\ l.flushed = s.flushed
    BY NoneAssumption DEF Fits, Shaped, Session
  <2> QED BY <2>1, <2>2, <2>3
          DEF Fits, RowsExist, ReadIsCurrent, DoesAsRead, FlushedEntrable
<1> QED BY <1>1, <1>2

LEMMA AskKeeps ==
  ASSUME IInv, NEW t \in Threads, NEW i \in Ids,
         NEW what \in {"enter", "exit", "evaluate"}, Ask(t, i, what)
  PROVE  IInv'
<1> DEFINE s == [Idle EXCEPT !.doing = what, !.cur = i,
                             !.seen[i] = inst[i].status]
<1>1. inst[i].status \in Statuses
  BY DEF IInv, TypeOK, Ask, Exists, Row
<1>2. /\ s.cur = i /\ s.todo = {} /\ s.flushed = {} /\ s.doing = what
      /\ s.seen = [NotSeen EXCEPT ![i] = inst[i].status]
      /\ s.seen[i] = inst[i].status
  BY DEF Idle, NotSeen
<1>3. Shaped(s)
  BY <1>1, <1>2, NoneAssumption DEF Shaped, Session, Idle, NotSeen
<1>4. DoesAsRead(s)
  BY <1>2 DEF DoesAsRead, Ask, Allowed
<1>5. Fits(s)
  BY <1>2, <1>3, <1>4
     DEF Ask, Exists, Fits, RowsExist, ReadIsCurrent, FlushedEntrable
<1> QED BY <1>5, SessionStep DEF Ask

LEMMA PassStartKeeps ==
  ASSUME IInv, NEW t \in Threads, PassStart(t) PROVE IInv'
<1> DEFINE rows == {i \in Ids : inst[i].status \in Actionable}
           seen == [i \in Ids |-> IF i \in rows THEN inst[i].status ELSE Unread]
           s    == [Idle EXCEPT !.todo = rows, !.seen = seen]
<1>1. \A i \in rows : inst[i] # NoRow /\ inst[i].status \in Statuses
  BY DEF IInv, TypeOK, Row, NoRow, Actionable, Entrable
<1>2. s \in Session /\ s.todo = rows /\ s.seen = seen /\ s.flushed = {}
      /\ s.cur = None /\ s.doing = "nothing"
  BY <1>1 DEF Session, Idle
<1>3. Fits(s)
  BY <1>1, <1>2, NoneAssumption
     DEF Fits, Shaped, RowsExist, ReadIsCurrent, DoesAsRead, FlushedEntrable
<1> QED BY <1>3, SessionStep DEF PassStart

LEMMA VisitKeeps ==
  ASSUME IInv, NEW t \in Threads, NEW i \in Ids, Visit(t, i) PROVE IInv'
<1> DEFINE s      == sess[t]
           status == IF s.seen[i] = Unread THEN inst[i].status ELSE s.seen[i]
           on     == [s EXCEPT !.todo = @ \ {i}, !.seen[i] = status]
<1>1. Fits(s) /\ s.cur = None /\ i \in s.todo
  BY DEF IInv, Visit
<1>2. inst[i] # NoRow /\ inst[i].status \in Statuses /\ status \in Statuses
  BY <1>1 DEF IInv, TypeOK, Fits, Shaped, RowsExist, Row, Session
<1>3. i \notin shared => status = inst[i].status
  BY <1>1 DEF Fits, ReadIsCurrent
<1>4. on \in Session
  BY <1>1, <1>2 DEF Fits, Shaped, Session
<1>5. /\ on.todo = s.todo \ {i} /\ on.flushed = s.flushed /\ on.cur = None
      /\ on.doing = s.doing /\ on.seen[i] = status
      /\ \A j \in Ids \ {i} : on.seen[j] = s.seen[j]
  BY <1>1 DEF Fits, Shaped, Session
<1>6. Fits(on)
  BY <1>1, <1>4, <1>5, NoneAssumption
     DEF Fits, Shaped, RowsExist, ReadIsCurrent, DoesAsRead, FlushedEntrable
<1>7. ASSUME NEW what \in {"enter", "monitor"},
             what = "enter" => status \in Entrable,
             what = "monitor" => status = "ACTIVE"
      PROVE  Fits([on EXCEPT !.cur = i, !.doing = what])
  <2> DEFINE r == [on EXCEPT !.cur = i, !.doing = what]
  <2>1. r \in Session /\ r.cur = i /\ r.doing = what /\ r.todo = on.todo
        /\ r.seen = on.seen /\ r.flushed = on.flushed
    BY <1>4 DEF Session
  <2>2. Shaped(r)
    BY <2>1, <1>5, NoneAssumption DEF Shaped
  <2>3. RowsExist(r) /\ FlushedEntrable(r)
    BY <2>1, <1>2, <1>6 DEF Fits, RowsExist, FlushedEntrable
  <2>4. ReadIsCurrent(r)
    BY <2>1, <1>3, <1>5, <1>6 DEF Fits, ReadIsCurrent
  <2>5. DoesAsRead(r)
    BY <2>1, <1>5, <1>7 DEF DoesAsRead
  <2> QED BY <2>2, <2>3, <2>4, <2>5 DEF Fits
<1>8. Fits(Leave(on))
  BY <1>6, LeaveFits
<1>9. \E r : Fits(r) /\ sess' = [sess EXCEPT ![t] = r]
  BY <1>7, <1>8 DEF Visit
<1> QED BY <1>9, SessionStep DEF Visit

----------------------------------------------------------------------------
(* Commits.                                                                *)

\* What a commit does to the rows: a row is written as asked, or stays, or
\* was to enter and becomes VALIDATING; and everything fits together after.
LEMMA Committed ==
  ASSUME IInv, NEW t \in Threads, NEW i \in Ids, sess[t].cur = i,
         NEW rows, DOMAIN rows \subseteq {i},
         \A j \in DOMAIN rows : rows[j] \in Statuses,
         Commit(t, rows)
  PROVE  /\ inst' \in [Ids -> Row \cup {NoRow}] /\ shared \subseteq shared'
         /\ shared' \subseteq Ids
         /\ \A u \in Threads : Fits(sess[u])'
         /\ sess' \in [Threads -> Session]
         /\ \A j \in DOMAIN rows : inst'[j].status = rows[j]
         /\ \A j \in Ids \ shared' : j \notin DOMAIN rows =>
              \/ inst'[j] = inst[j]
              \/ inst[j].status \in Entrable /\ inst'[j].status \in Entrable
<1> DEFINE s == sess[t]
           written == DOMAIN rows \cup s.flushed
           Written(j) == IF j \in DOMAIN rows THEN rows[j] ELSE "VALIDATING"
           left == [s EXCEPT !.seen = NotSeen, !.flushed = {}]
<1>1. /\ \A u \in Threads \ {t} : written \cap sess[u].flushed = {}
      /\ inst' = [j \in Ids |-> IF j \in written
                                THEN [inst[j] EXCEPT !.status = Written(j)]
                                ELSE inst[j]]
      /\ sess' = [sess EXCEPT ![t] = Leave(left)]
      /\ shared' = shared \cup {j \in written : Held(t, j)}
  BY DEF Commit
<1>2. /\ \A u \in Threads : Fits(sess[u]) /\ sess[u] \in Session
      /\ inst \in [Ids -> Row \cup {NoRow}] /\ shared \subseteq Ids
      /\ sess \in [Threads -> Session]
  BY DEF IInv, TypeOK, Fits, Shaped
<1>3. written \subseteq Ids /\ \A j \in written : inst[j] \in Row
  BY <1>2 DEF Session, Fits, RowsExist
<1>4. \A j \in Ids : Written(j) \in Statuses
  BY DEF Statuses, Entrable
<1>5. \A j \in written : /\ [inst[j] EXCEPT !.status = Written(j)] \in Row
                         /\ [inst[j] EXCEPT !.status = Written(j)].status
                              = Written(j)
  BY <1>3, <1>4 DEF Row
<1>6. inst' \in [Ids -> Row \cup {NoRow}]
  BY <1>1, <1>2, <1>5
<1>7. \A j \in Ids : inst[j] # NoRow => inst'[j] # NoRow
  BY <1>1, <1>5 DEF Row, NoRow, Statuses, Entrable, Terminal, Closed
<1>8. shared \subseteq shared' /\ shared' \subseteq Ids
  BY <1>1, <1>2, <1>3
<1>9. ASSUME NEW v, v = Leave(left) PROVE Fits(v)' /\ v \in Session
  <2>1. CASE s.todo = {}
    <3>1. v = Idle
      BY <1>9, <2>1, <1>2 DEF Leave, Session
    <3> QED BY <3>1, NoneAssumption
            DEF Fits, Shaped, RowsExist, ReadIsCurrent, DoesAsRead,
                FlushedEntrable, Session, Idle, NotSeen, Unread
  <2>2. CASE s.todo # {}
    <3>1. v = [left EXCEPT !.doing = "nothing", !.cur = None]
      BY <1>9, <2>2, <1>2 DEF Leave, Session
    <3>2. v \in Session /\ v.cur = None /\ v.doing = "nothing"
          /\ v.todo = s.todo /\ v.seen = NotSeen /\ v.flushed = {}
      BY <3>1, <1>2 DEF Session, NotSeen
    <3>3. None \notin s.todo
      BY <1>2, NoneAssumption DEF Session
    <3>4. \A j \in s.todo : inst'[j] # NoRow
      BY <1>2, <1>7 DEF Fits, RowsExist, Session
    <3>5. \A j \in Ids : v.seen[j] = Unread
      BY <3>2 DEF NotSeen
    <3>6. Shaped(v)
      BY <3>2, <3>3 DEF Shaped
    <3> HIDE DEF s, left, written, Written
    <3> QED BY <3>2, <3>4, <3>5, <3>6, NoneAssumption
            DEF Fits, Shaped, RowsExist, ReadIsCurrent, DoesAsRead,
                FlushedEntrable
  <2> QED BY <2>1, <2>2
<1>10. ASSUME NEW u \in Threads, u # t PROVE Fits(sess[u])'
  <2>1. sess'[u] = sess[u]
    BY <1>1, <1>2, <1>10
  <2>2. \A j \in written : j \in Ids \ shared' => ~Held(t, j)
    BY <1>1
  <2>3. \A j \in written : j \notin sess[u].flushed
    BY <1>1, <1>10
  <2>4. \A j \in Ids \ written : inst'[j] = inst[j]
    BY <1>1
  <2>5. ReadIsCurrent(sess[u])'
    BY <2>1, <2>2, <2>4, <1>2, <1>8, <1>10 DEF Fits, ReadIsCurrent, Held
  <2>6. FlushedEntrable(sess[u])'
    BY <2>1, <2>3, <2>4, <1>2, <1>8 DEF Fits, FlushedEntrable
  <2>7. RowsExist(sess[u])'
    BY <2>1, <1>2, <1>7 DEF Fits, RowsExist
  <2> QED BY <2>1, <2>5, <2>6, <2>7, <1>2 DEF Fits, Shaped, DoesAsRead
<1>11. Fits(sess[t])' /\ sess'[t] \in Session
  <2>1. sess'[t] = Leave(left)
    BY <1>1, <1>2
  <2> QED BY <2>1, <1>9 DEF Fits, Shaped, RowsExist, ReadIsCurrent,
                            DoesAsRead, FlushedEntrable
<1>12. /\ \A u \in Threads : Fits(sess[u])'
       /\ sess' \in [Threads -> Session]
  <2>1. DOMAIN sess' = Threads /\ sess' = [u \in Threads |-> sess'[u]]
    BY <1>1, <1>2
  <2>2. \A u \in Threads \ {t} : sess'[u] \in Session
    BY <1>1, <1>2
  <2> HIDE DEF s, left, written, Written
  <2> QED BY <2>1, <2>2, <1>10, <1>11
<1>13. \A j \in DOMAIN rows : inst'[j].status = rows[j]
  BY <1>1, <1>3, <1>5
<1>14. ASSUME NEW j \in Ids \ shared', j \notin DOMAIN rows
       PROVE  \/ inst'[j] = inst[j]
              \/ inst[j].status \in Entrable /\ inst'[j].status \in Entrable
  <2>1. CASE j \in s.flushed
    BY <2>1, <1>1, <1>2, <1>5, <1>8, <1>14 DEF Fits, FlushedEntrable, Entrable
  <2>2. CASE j \notin s.flushed
    BY <2>2, <1>1, <1>14
  <2> QED BY <2>1, <2>2
<1> HIDE DEF s, left, written, Written
<1> QED BY <1>6, <1>8, <1>12, <1>13, <1>14

\* The rest of TypeOK after a commit.
LEMMA CommitKeeps ==
  ASSUME IInv, NEW t \in Threads, NEW i \in Ids, sess[t].cur = i,
         NEW rows, DOMAIN rows \subseteq {i},
         \A j \in DOMAIN rows : rows[j] \in Statuses,
         Commit(t, rows), NEW left \in Lots,
         legs' = [legs EXCEPT ![i] = left],
         i \notin shared' => LegsFit(inst'[i].status, left)
  PROVE  IInv'
<1>1. /\ inst' \in [Ids -> Row \cup {NoRow}] /\ shared \subseteq shared'
      /\ shared' \subseteq Ids
      /\ \A u \in Threads : Fits(sess[u])'
      /\ sess' \in [Threads -> Session]
      /\ \A j \in Ids \ shared' : j \notin DOMAIN rows =>
           \/ inst'[j] = inst[j]
           \/ inst[j].status \in Entrable /\ inst'[j].status \in Entrable
  BY Committed
<1>2. legs' \in [Ids -> Lots] /\ legs'[i] = left
      /\ \A j \in Ids \ {i} : legs'[j] = legs[j]
  BY DEF IInv, TypeOK
<1>3. TypeOK'
  BY <1>1, <1>2 DEF TypeOK, Fits, Shaped
<1>4. ASSUME NEW j \in Ids \ shared' PROVE LegsFit(inst'[j].status, legs'[j])
  <2>1. CASE j = i
    BY <2>1, <1>2
  <2>2. CASE j # i
    BY <2>2, <1>1, <1>2 DEF IInv, LegsFollowStatus, LegsFit, Entrable, Closed
  <2> QED BY <2>1, <2>2
<1>5. LegsFollowStatus'
  BY <1>4 DEF LegsFollowStatus
<1> QED BY <1>1, <1>3, <1>5 DEF IInv

\* What a session that is busy has read, and what its instance holds.
LEMMA BusyReads ==
  ASSUME IInv, NEW t \in Threads, NEW i \in Ids, sess[t].cur = i
  PROVE  /\ legs[i] \in Lots
         /\ sess[t].doing = "enter" /\ i \notin shared => legs[i] = Flat
         /\ sess[t].doing \in {"monitor", "exit"} /\ i \notin shared
              => legs[i] = Basket
BY DEF IInv, TypeOK, Fits, ReadIsCurrent, DoesAsRead, LegsFollowStatus,
       LegsFit, Entrable, Closed

\* A close, an entry and a part of one, seen from the legs before.
LEMMA LegSums ==
  /\ \A x, y \in Lots : Plus(x, y) \in Lots /\ Minus(x, y) \in Lots
  /\ \A x \in Lots : Plus(Flat, x) = x
  /\ Minus(Basket, Basket) = Flat
  /\ Flat \in Lots /\ Basket \in Lots /\ Partials \subseteq Lots
<1>1. \A x, y \in Lots : Plus(x, y) \in Lots /\ Minus(x, y) \in Lots
  BY DEF Lots, Plus, Minus
<1>2. Flat \in Lots /\ Basket \in Lots /\ Partials \subseteq Lots
  BY DEF Lots, Flat, Basket, Partials
<1>3. \A x \in Lots : Plus(Flat, x) = x
  BY DEF Lots, Flat, Plus
<1>4. Minus(Basket, Basket) = Flat
  BY DEF Flat, Basket, Minus
<1> QED BY <1>1, <1>2, <1>3, <1>4

\* The legs and the status a saved row is left with.
LEMMA SaveKeeps ==
  ASSUME IInv, NEW t \in Threads, NEW i \in Ids, sess[t].cur = i,
         NEW status \in Statuses, Save(t, i, status), NEW left \in Lots,
         legs' = [legs EXCEPT ![i] = left],
         i \notin shared => LegsFit(status, left)
  PROVE  IInv'
<1> DEFINE rows == [j \in {i} |-> status]
<1>1. DOMAIN rows \subseteq {i} /\ Commit(t, rows)
      /\ \A j \in DOMAIN rows : rows[j] \in Statuses
  BY DEF Save
<1>2. rows[i] = status /\ i \in DOMAIN rows
  OBVIOUS
<1> HIDE DEF rows
<1>3. inst'[i].status = status /\ shared \subseteq shared'
  BY <1>1, <1>2, Committed
<1> QED BY <1>1, <1>3, CommitKeeps

LEMMA EnterKeeps ==
  ASSUME IInv, NEW t \in Threads, NEW i \in Ids, Busy(t, i, "enter")
  PROVE  /\ Ineligible(t, i) => IInv'
         /\ Lost(t, i) => IInv'
         /\ Entered(t, i) => IInv'
<1>1. /\ sess[t].cur = i /\ legs[i] \in Lots
      /\ i \notin shared => legs[i] = Flat
  BY BusyReads DEF Busy
<1>2. ASSUME Ineligible(t, i) PROVE IInv'
  <2>1. legs' = [legs EXCEPT ![i] = legs[i]]
    BY <1>2 DEF Ineligible, IInv, TypeOK
  <2>2. i \notin shared => LegsFit("CREATED", legs[i])
    BY <1>1 DEF LegsFit
  <2>3. "CREATED" \in Statuses
    BY DEF Statuses, Entrable
  <2> QED BY <1>1, <1>2, <2>1, <2>2, <2>3, SaveKeeps DEF Ineligible
<1>3. ASSUME Lost(t, i) PROVE IInv'
  <2>1. PICK part \in Partials : legs' = [legs EXCEPT ![i] = Plus(@, part)]
    BY <1>3 DEF Lost
  <2>2. Plus(legs[i], part) \in Lots
    BY <1>1, LegSums
  <2>3. i \notin shared => LegsFit("FAILED", Plus(legs[i], part))
    BY <1>1, LegSums DEF LegsFit, Entrable, Closed
  <2>4. "FAILED" \in Statuses
    BY DEF Statuses, Terminal
  <2> QED BY <1>1, <1>3, <2>1, <2>2, <2>3, <2>4, SaveKeeps DEF Lost
<1>4. ASSUME Entered(t, i) PROVE IInv'
  <2>1. legs' = [legs EXCEPT ![i] = Plus(legs[i], Basket)]
    BY <1>4 DEF Entered
  <2>2. Plus(legs[i], Basket) \in Lots
    BY <1>1, LegSums
  <2>3. i \notin shared => LegsFit("ACTIVE", Plus(legs[i], Basket))
    BY <1>1, LegSums DEF LegsFit, Entrable, Closed
  <2>4. "ACTIVE" \in Statuses
    BY DEF Statuses
  <2> QED BY <1>1, <1>4, <2>1, <2>2, <2>3, <2>4, SaveKeeps DEF Entered
<1> QED BY <1>2, <1>3, <1>4

LEMMA CloseKeeps ==
  ASSUME IInv, NEW t \in Threads, NEW i \in Ids, NEW status \in Closed,
         Busy(t, i, "monitor") \/ Busy(t, i, "exit"), CloseBasket(t, i, status)
  PROVE  IInv'
<1>1. /\ sess[t].cur = i /\ legs[i] \in Lots
      /\ i \notin shared => legs[i] = Basket
  BY BusyReads DEF Busy
<1>2. legs' = [legs EXCEPT ![i] = Minus(legs[i], Basket)]
  BY DEF CloseBasket
<1>3. Minus(legs[i], Basket) \in Lots
  BY <1>1, LegSums
<1>4. i \notin shared => LegsFit(status, Minus(legs[i], Basket))
  BY <1>1, LegSums DEF LegsFit, Closed
<1>5. status \in Statuses
  BY DEF Statuses, Terminal
<1> QED BY <1>1, <1>2, <1>3, <1>4, <1>5, SaveKeeps DEF CloseBasket

LEMMA HoldKeeps ==
  ASSUME IInv, NEW t \in Threads, NEW i \in Ids, Hold(t, i) PROVE IInv'
<1> DEFINE rows == [j \in {} |-> "VALIDATING"]
<1>1. sess[t].cur = i /\ Commit(t, rows) /\ UNCHANGED legs
  BY DEF Hold, Busy, SaveRest
<1>2. DOMAIN rows = {}
  OBVIOUS
<1> HIDE DEF rows
<1>3. /\ inst' \in [Ids -> Row \cup {NoRow}] /\ shared \subseteq shared'
      /\ shared' \subseteq Ids
      /\ \A u \in Threads : Fits(sess[u])'
      /\ sess' \in [Threads -> Session]
      /\ \A j \in Ids \ shared' :
           \/ inst'[j] = inst[j]
           \/ inst[j].status \in Entrable /\ inst'[j].status \in Entrable
  BY <1>1, <1>2, Committed
<1>4. TypeOK'
  BY <1>1, <1>3 DEF IInv, TypeOK, Fits, Shaped
<1>5. LegsFollowStatus'
  BY <1>1, <1>3 DEF IInv, LegsFollowStatus, LegsFit, Entrable, Closed
<1> QED BY <1>3, <1>4, <1>5 DEF IInv

\* The steps that end a visit or a session and write nothing.
LEMMA FailKeeps ==
  ASSUME IInv, NEW t \in Threads, Fail(t) PROVE IInv'
BY IdleFits, SessionStep DEF Fail

LEMMA QuietKeeps ==
  ASSUME IInv, NEW t \in Threads, NEW i \in Ids
  PROVE  /\ NoData(t, i) => IInv'
         /\ Raised(t, i) => IInv'
         /\ Noted(t, i) => IInv'
<1>1. Fits(sess[t])
  BY DEF IInv
<1>3. ASSUME NoData(t, i) PROVE IInv'
  <2>1. sess' = [sess EXCEPT ![t] = Leave(sess[t])]
    BY <1>3 DEF NoData
  <2> QED BY <1>1, <1>3, <2>1, LeaveFits, SessionStep DEF NoData
<1>4. ASSUME Raised(t, i) PROVE IInv'
  <2> DEFINE s == sess[t]
             r == [s EXCEPT !.flushed = @ \cup {i}]
  <2>1. s \in Session /\ s.cur = i /\ s.doing = "enter"
    BY <1>1, <1>4 DEF Fits, Shaped, Raised, Busy
  <2>2. /\ r \in Session /\ r.doing = s.doing /\ r.cur = s.cur
        /\ r.todo = s.todo /\ r.seen = s.seen
        /\ r.flushed = s.flushed \cup {i}
    BY <2>1 DEF Session
  <2>3. inst[i] # NoRow /\ (i \notin shared => inst[i].status \in Entrable)
    BY <1>1, <2>1 DEF Fits, RowsExist, ReadIsCurrent, DoesAsRead
  <2>4. Shaped(r)
    BY <1>1, <2>2 DEF Fits, Shaped
  <2>5. RowsExist(r) /\ ReadIsCurrent(r) /\ DoesAsRead(r)
    BY <1>1, <2>2, <2>3 DEF Fits, RowsExist, ReadIsCurrent, DoesAsRead
  <2>6. FlushedEntrable(r)
    BY <1>1, <2>2, <2>3 DEF Fits, FlushedEntrable
  <2>7. Fits(Leave(r))
    BY <2>4, <2>5, <2>6, LeaveFits DEF Fits
  <2>8. sess' = [sess EXCEPT ![t] = Leave(r)]
    BY <1>4 DEF Raised
  <2> QED BY <1>4, <2>7, <2>8, SessionStep DEF Raised
<1>5. ASSUME Noted(t, i) PROVE IInv'
  BY <1>5, IdleFits, SessionStep DEF Noted
<1> QED BY <1>3, <1>4, <1>5

LEMMA FinishKeeps ==
  ASSUME IInv, NEW t \in Threads, NEW i \in Ids, Finish(t, i)
  PROVE  IInv'
<1>1. CASE Ineligible(t, i)
  BY <1>1, EnterKeeps DEF Ineligible
<1>2. CASE Lost(t, i)
  BY <1>2, EnterKeeps DEF Lost
<1>3. CASE Entered(t, i)
  BY <1>3, EnterKeeps DEF Entered
<1>4. CASE Raised(t, i) \/ NoData(t, i)
  BY <1>4, QuietKeeps
<1>5. CASE Hold(t, i)
  BY <1>5, HoldKeeps
<1>6. CASE Exit(t, i)
  BY <1>6, CloseKeeps DEF Exit, Closed
<1> QED BY <1>1, <1>2, <1>3, <1>4, <1>5, <1>6 DEF Finish, Enter

LEMMA CreateKeeps ==
  ASSUME IInv, NEW i \in Ids, NEW e \in Expiries, Create(i, e) PROVE IInv'
<1>1. PICK f \in BOOLEAN :
        inst' = [inst EXCEPT ![i] = [status |-> "CREATED", expiry |-> e,
                                     first |-> f]]
  BY DEF Create
<1>2. /\ inst' \in [Ids -> Row \cup {NoRow}] /\ inst[i] = NoRow
      /\ inst'[i].status = "CREATED" /\ inst'[i] # NoRow
      /\ \A j \in Ids \ {i} : inst'[j] = inst[j]
      /\ UNCHANGED <<legs, sess, shared>>
  BY <1>1 DEF IInv, TypeOK, Create, Exists, Row, NoRow, Statuses, Entrable
<1>3. TypeOK'
  BY <1>2 DEF IInv, TypeOK
<1>4. LegsFollowStatus'
  BY <1>2 DEF IInv, LegsFollowStatus, LegsFit, NoRow, Entrable, Closed
<1>5. ASSUME NEW t \in Threads PROVE Fits(sess[t])'
  BY <1>2 DEF IInv, Fits, Shaped, RowsExist, ReadIsCurrent, DoesAsRead,
              FlushedEntrable
<1> QED BY <1>3, <1>4, <1>5 DEF IInv

LEMMA EvaluatedKeeps ==
  ASSUME IInv, NEW t \in Threads, NEW i \in Ids, Evaluated(t, i) PROVE IInv'
<1>1. /\ sess[t].cur = i /\ Fits(sess[t]) /\ UNCHANGED legs
      /\ inst' = [inst EXCEPT ![i].status = "ENTRY_PENDING"]
      /\ sess' = [sess EXCEPT ![t] = Idle]
      /\ shared' = IF Held(t, i) \/ sess[t].seen[i] \notin Entrable
                   THEN shared \cup {i} ELSE shared
  BY DEF Evaluated, Busy, IInv
<1>2. inst[i] \in Row
  BY <1>1 DEF IInv, TypeOK, Fits, RowsExist
<1>3. /\ inst' \in [Ids -> Row \cup {NoRow}]
      /\ inst'[i].status = "ENTRY_PENDING" /\ inst'[i] # NoRow
      /\ \A j \in Ids \ {i} : inst'[j] = inst[j]
  BY <1>1, <1>2
     DEF IInv, TypeOK, Row, NoRow, Statuses, Entrable
<1>4. i \notin shared' => inst[i].status \in Entrable
  BY <1>1 DEF Fits, ReadIsCurrent
<1>5. \A u \in Threads : /\ sess'[u] \in Session
                         /\ u # t => sess'[u] = sess[u]
                         /\ u = t => sess'[u] = Idle
  BY <1>1, IdleFits DEF IInv, TypeOK, Fits, Shaped
<1>6. TypeOK'
  BY <1>1, <1>3, <1>5, IdleFits DEF IInv, TypeOK, Fits, Shaped
<1>7. LegsFollowStatus'
  BY <1>1, <1>3, <1>4
     DEF IInv, LegsFollowStatus, LegsFit, Entrable, Closed
<1>8. ASSUME NEW u \in Threads PROVE Fits(sess[u])'
  <2>1. CASE u = t
    <3>1. sess'[u] = Idle
      BY <1>5, <2>1
    <3> QED BY <3>1, NoneAssumption
            DEF Fits, Shaped, RowsExist, ReadIsCurrent, DoesAsRead,
                FlushedEntrable, Session, Idle, NotSeen, Unread
  <2>2. CASE u # t
    <3>1. sess'[u] = sess[u] /\ Fits(sess[u])
      BY <1>5, <2>2 DEF IInv
    <3>2. i \notin shared' => /\ sess[u].cur # i
                             /\ ~(i \in sess[u].todo /\ sess[u].seen[i] # Unread)
      BY <1>1, <2>2 DEF Held
    <3>3. i \notin sess[u].flushed
      BY DEF Evaluated
    <3> QED BY <1>1, <1>3, <3>1, <3>2, <3>3
            DEF Fits, Shaped, RowsExist, ReadIsCurrent, DoesAsRead,
                FlushedEntrable
  <2> QED BY <2>1, <2>2
<1> QED BY <1>6, <1>7, <1>8 DEF IInv

LEMMA NextIInv == IInv /\ [Next]_vars => IInv'
<1> SUFFICES ASSUME IInv, [Next]_vars PROVE IInv' OBVIOUS
<1>1. ASSUME NEW i \in Ids, NEW e \in Expiries, Create(i, e) PROVE IInv'
  BY <1>1, CreateKeeps
<1>2. ASSUME NEW t \in Threads,
             \/ PassStart(t) \/ Fail(t)
             \/ \E i \in Ids : Visit(t, i) \/ Finish(t, i)
      PROVE  IInv'
  BY <1>2, PassStartKeeps, FailKeeps, VisitKeeps, FinishKeeps
<1>3. ASSUME NEW t \in Operators, NEW i \in Ids,
             Request(t, i) \/ ManualExit(t, i) \/ Evaluated(t, i) \/ Noted(t, i)
      PROVE  IInv'
  <2>1. t \in Threads
    BY DEF Threads
  <2>2. CASE Request(t, i)
    BY <2>1, <2>2, AskKeeps DEF Request
  <2>3. CASE ManualExit(t, i)
    BY <2>1, <2>3, CloseKeeps DEF ManualExit, Closed
  <2>4. CASE Evaluated(t, i) \/ Noted(t, i)
    BY <2>1, <2>4, EvaluatedKeeps, QuietKeeps
  <2> QED BY <1>3, <2>2, <2>3, <2>4
<1>4. ASSUME UNCHANGED vars PROVE IInv'
  BY <1>4 DEF vars, IInv, TypeOK, LegsFollowStatus, Fits, Shaped, RowsExist,
              ReadIsCurrent, DoesAsRead, FlushedEntrable
<1> QED BY <1>1, <1>2, <1>3, <1>4 DEF Next

LEMMA AlwaysIInv == Spec => []IInv
BY InitIInv, NextIInv, PTL DEF Spec

\* Every reachable state has its type.
THEOREM TypeCorrect == Spec => []TypeOK
<1>1. IInv => TypeOK
  BY DEF IInv
<1> QED BY <1>1, AlwaysIInv, PTL

\* The status of an instance that is not shared tells its open legs.
THEOREM LegsHold == Spec => []LegsFollowStatus
<1>1. IInv => LegsFollowStatus
  BY DEF IInv
<1> QED BY <1>1, AlwaysIInv, PTL

----------------------------------------------------------------------------
\* What ends the row of an instance changes no ended row that is not shared.
LEMMA EndedStep ==
  ASSUME IInv, [Next]_vars, NEW i \in Ids, inst[i].status \in Terminal,
         i \notin shared'
  PROVE  inst'[i] = inst[i]
<1>1. inst[i].status \notin Entrable /\ inst[i].status # "ACTIVE"
  BY DEF Terminal, Closed, Entrable
<1>2. inst[i] # NoRow
  BY DEF NoRow, Terminal, Closed
<1>3. ASSUME NEW t \in Threads, NEW j \in Ids, NEW status \in Statuses,
             sess[t].cur = j, Save(t, j, status),
             sess[t].doing \in {"enter", "monitor", "exit"}
      PROVE  inst'[i] = inst[i]
  <2> DEFINE rows == [k \in {j} |-> status]
  <2>1. DOMAIN rows = {j} /\ Commit(t, rows)
        /\ \A k \in DOMAIN rows : rows[k] \in Statuses
    BY <1>3 DEF Save
  <2> HIDE DEF rows
  <2>2. shared \subseteq shared'
        /\ (i # j => \/ inst'[i] = inst[i]
                     \/ inst[i].status \in Entrable)
    BY <1>3, <2>1, Committed
  <2>3. i # j
    BY <1>1, <1>3, <2>2 DEF IInv, Fits, ReadIsCurrent, DoesAsRead
  <2> QED BY <1>1, <2>2, <2>3
<1>4. ASSUME NEW t \in Threads, NEW j \in Ids, Hold(t, j)
      PROVE  inst'[i] = inst[i]
  <2> DEFINE rows == [k \in {} |-> "VALIDATING"]
  <2>1. sess[t].cur = j /\ Commit(t, rows) /\ DOMAIN rows = {}
    BY <1>4 DEF Hold, Busy, SaveRest
  <2> HIDE DEF rows
  <2>2. inst'[i] = inst[i] \/ inst[i].status \in Entrable
    BY <2>1, Committed
  <2> QED BY <1>1, <2>2
<1>5. ASSUME NEW t \in Threads, NEW j \in Ids, Evaluated(t, j)
      PROVE  inst'[i] = inst[i]
  BY <1>1, <1>5 DEF Evaluated, Busy, IInv, TypeOK, Fits, ReadIsCurrent
<1>6. ASSUME NEW j \in Ids, NEW e \in Expiries, Create(j, e)
      PROVE  inst'[i] = inst[i]
  BY <1>2, <1>6 DEF Create, Exists, IInv, TypeOK
<1>7. ASSUME NEW t \in Threads, NEW j \in Ids, Finish(t, j)
      PROVE  inst'[i] = inst[i]
  <2>1. CASE Ineligible(t, j)
    BY <2>1, <1>3 DEF Ineligible, Busy, Statuses, Entrable
  <2>2. CASE Lost(t, j)
    BY <2>2, <1>3 DEF Lost, Busy, Statuses, Terminal
  <2>3. CASE Entered(t, j)
    BY <2>3, <1>3 DEF Entered, Busy, Statuses
  <2>4. CASE Raised(t, j) \/ NoData(t, j)
    BY <2>4 DEF Raised, NoData
  <2>5. CASE Hold(t, j)
    BY <2>5, <1>4
  <2>6. CASE Exit(t, j)
    BY <2>6, <1>3 DEF Exit, CloseBasket, Busy, Statuses, Terminal, Closed
  <2> QED BY <1>7, <2>1, <2>2, <2>3, <2>4, <2>5, <2>6 DEF Finish, Enter
<1>8. ASSUME NEW t \in Operators, NEW j \in Ids, ManualExit(t, j)
      PROVE  inst'[i] = inst[i]
  BY <1>3, <1>8
     DEF ManualExit, CloseBasket, Busy, Threads, Statuses, Terminal, Closed
<1>9. ASSUME NEW t \in Threads, NEW j \in Ids,
             \/ PassStart(t) \/ Fail(t) \/ Visit(t, j) \/ Noted(t, j)
             \/ Request(t, j)
      PROVE  inst'[i] = inst[i]
  BY <1>9 DEF PassStart, Fail, Visit, Noted, Request, Ask
<1> QED BY <1>4, <1>5, <1>6, <1>7, <1>8, <1>9 DEF Next, vars, Threads

\* An ended instance stays as it ended unless it is shared.
THEOREM EndedHolds == Spec => EndedStays
<1>1. ASSUME IInv, [Next]_vars
      PROVE  [\A i \in Ids : inst[i].status \in Terminal /\ i \notin shared'
                             => inst'[i] = inst[i]]_vars
  BY <1>1, EndedStep
<1>2. Spec => [][\A i \in Ids : inst[i].status \in Terminal /\ i \notin shared'
                                => inst'[i] = inst[i]]_vars
  BY <1>1, AlwaysIInv, PTL DEF Spec
<1> QED BY <1>2 DEF EndedStays
=============================================================================
