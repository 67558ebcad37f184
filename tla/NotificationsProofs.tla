------------------------- MODULE NotificationsProofs -------------------------
(***************************************************************************)
(* What holds of the outbox for any number of processes, test requests,    *)
(* rows, attempts and faults.                                              *)
(***************************************************************************)
EXTENDS Notifications, FiniteSetTheorems, SequenceTheorems, TLAPS

\* A summary that was started has a place.
Reserving == {p \in Procs : summary[p] # 0}
Reserved == Len(rows) + Cardinality(Reserving) <= MaxRows

\* What a batch knows of a row: it was due when it was read; until it is sent
\* the session has not touched it, and it is sent only if it was seen.
Held1(d, m) ==
  LET was == job[d].loaded[m]
      now == job[d].now[m]
  IN  /\ was.status \in {"pending", "failed"} /\ was.attempts < MaxAttempts
      /\ m \in job[d].todo => now = was
      /\ now.status = "sent" => got[m] > 0
BatchInv == \A d \in Dispatchers : \A m \in Loaded(d) : Held1(d, m)

\* A row that nothing puts in doubt is in one batch at most, and once it was
\* delivered the batch, or the table when no batch has it, says so.
Clear(m) ==
  /\ got[m] <= 1
  /\ \A d, e \in Dispatchers : m \in Loaded(d) /\ m \in Loaded(e) => d = e
  /\ \A d \in Dispatchers :
       m \in Loaded(d) /\ got[m] > 0 => job[d].now[m].status = "sent"
  /\ m \in Ids /\ got[m] > 0 =>
       (\E d \in Dispatchers : m \in Loaded(d)) \/ rows[m].status = "sent"
DoubtInv ==
  /\ \A m \in Rows : m \notin doubt => Clear(m)
  /\ \A m \in Rows : m \notin Ids => got[m] = 0

\* Until two loops run at once or one is cancelled in mid summary: one loop, one
\* summary under way, and its day is later than every day that has one.
Single ==
  /\ \A p, q \in running : p = q
  /\ \A p \in Procs : summary[p] # 0 => last < summary[p]
  /\ \A m \in Ids : rows[m].day <= last
  /\ \A m, n \in Ids : rows[m].day # 0 /\ rows[m].day = rows[n].day => m = n
DayInv ==
  /\ last <= day
  /\ \A p \in Procs : summary[p] # 0 => p \in running /\ summary[p] <= day
  /\ ~split => Single

IInv ==
  /\ job = [d \in Dispatchers |-> job[d]]
  /\ TypeOK /\ Reserved /\ BatchInv /\ SentWasSeen /\ DoubtInv /\ DayInv

----------------------------------------------------------------------------
(* Rows and batches *)

LEMMA NewRowType ==
  ASSUME NEW passes \in BOOLEAN, NEW d \in 0..Days
  PROVE  /\ NewRow(passes, d) \in Row /\ NewRow(passes, d).day = d
         /\ NewRow(passes, d).status \in {"pending", "skipped"}
BY NotificationsAssumption DEF NewRow, Row, Statuses

LEMMA OutcomeType ==
  ASSUME NEW was \in Row, was.attempts < MaxAttempts, NEW how
  PROVE  /\ Outcome(was, how) \in Row
         /\ Outcome(was, how).status = "sent" <=> how = "ok"
<1>1. was.attempts + 1 \in 0..MaxAttempts /\ was.attempts \in Int
  BY NotificationsAssumption DEF Row
<1>2. CASE how = "skipped"
  <2>1. Outcome(was, how) = [was EXCEPT !.status = "skipped"]
    BY <1>2 DEF Outcome
  <2> QED BY <1>2, <2>1 DEF Row, Statuses
<1>3. CASE how = "ok"
  <2>1. Outcome(was, how) = [was EXCEPT !.status = "sent", !.attempts = was.attempts + 1]
    BY <1>3 DEF Outcome, Row
  <2> QED BY <1>1, <1>3, <2>1 DEF Row, Statuses
<1>4. CASE how \notin {"skipped", "ok"}
  <2>1. Outcome(was, how) = [was EXCEPT !.status = "failed", !.attempts = was.attempts + 1]
    BY <1>4 DEF Outcome, Row
  <2> QED BY <1>1, <1>4, <2>1 DEF Row, Statuses
<1> QED BY <1>2, <1>3, <1>4

\* What the types say of a dispatcher's batch.
LEMMA BatchType ==
  ASSUME TypeOK, NEW d \in Dispatchers
  PROVE  /\ Loaded(d) \subseteq Ids /\ job[d].todo \subseteq Loaded(d)
         /\ job[d].loaded \in [Loaded(d) -> Row] /\ job[d].now \in [Loaded(d) -> Row]
         /\ job[d] = [todo |-> job[d].todo, loaded |-> job[d].loaded, now |-> job[d].now]
<1>1. PICK S \in SUBSET Ids : job[d] \in BatchOf(S)
  BY DEF TypeOK
<1>2. Loaded(d) = S
  BY <1>1 DEF BatchOf, Loaded
<1> QED BY <1>1, <1>2 DEF BatchOf

LEMMA RowIds ==
  ASSUME TypeOK
  PROVE  /\ Len(rows) \in Nat /\ Ids \subseteq Rows
         /\ \A m \in Ids : rows[m] \in Row /\ m \in Nat
BY NotificationsAssumption DEF TypeOK, Ids, Rows

LEMMA IdleType ==
  /\ DOMAIN Idle.loaded = {} /\ Idle \in BatchOf({})
BY DEF Idle, BatchOf

\* The outbox grows by the row r.
Grows(r) ==
  /\ rows' \in Seq(Row) /\ Len(rows') = Len(rows) + 1 /\ Len(rows') <= MaxRows
  /\ Ids' = Ids \cup {Len(rows) + 1} /\ Len(rows) + 1 \notin Ids
  /\ Len(rows) + 1 \in Rows
  /\ \A m \in Ids : rows'[m] = rows[m]
  /\ rows'[Len(rows) + 1] = r

LEMMA AppendRow ==
  ASSUME TypeOK, NEW r \in Row, rows' = Append(rows, r), Len(rows) < MaxRows
  PROVE  Grows(r)
<1>1. rows \in Seq(Row) /\ Len(rows) \in Nat /\ MaxRows \in Nat
  BY NotificationsAssumption DEF TypeOK
<1>2. /\ rows' \in Seq(Row) /\ Len(rows') = Len(rows) + 1
      /\ \A m \in 1..Len(rows) : rows'[m] = rows[m]
      /\ rows'[Len(rows) + 1] = r
  BY <1>1
<1> QED BY <1>1, <1>2 DEF Ids, Rows, Grows

\* The batches keep their type while the outbox grows or is written.
LEMMA BatchesKept ==
  ASSUME TypeOK, job' = job, Ids \subseteq Ids'
  PROVE  \A d \in Dispatchers : \E S \in SUBSET Ids' : job'[d] \in BatchOf(S)
BY DEF TypeOK, BatchOf

----------------------------------------------------------------------------
(* The room of the summaries *)

LEMMA ReservingFinite ==
  /\ IsFiniteSet(Reserving) /\ Cardinality(Reserving) \in Nat
<1>1. Reserving \in SUBSET Procs
  BY DEF Reserving
<1> QED BY <1>1, NotificationsAssumption, FS_Subset, FS_CardinalityType

LEMMA ReservedKept ==
  ASSUME TypeOK, Reserved, Len(rows') <= Len(rows), Len(rows') \in Nat,
         \A p \in Procs : summary'[p] # 0 => summary[p] # 0
  PROVE  Reserved'
<1>1. Reserving' \in SUBSET Reserving
  BY DEF Reserving
<1>2. /\ Cardinality(Reserving') <= Cardinality(Reserving)
      /\ Cardinality(Reserving') \in Nat /\ Cardinality(Reserving) \in Nat
  BY <1>1, ReservingFinite, FS_Subset, FS_CardinalityType
<1> QED BY <1>2, NotificationsAssumption, RowIds DEF Reserved

\* A row that finds room leaves the places of the summaries alone.
LEMMA ReservedRoom ==
  ASSUME TypeOK, Room, Len(rows') = Len(rows) + 1, summary' = summary
  PROVE  Reserved' /\ Len(rows) < MaxRows
<1>1. Reserving' = Reserving
  BY DEF Reserving
<1> QED BY <1>1, NotificationsAssumption, RowIds, ReservingFinite
        DEF Reserved, Room, Reserving

LEMMA ReservedStart ==
  ASSUME TypeOK, Room, rows' = rows, NEW p \in Procs, NEW n \in 0..Days,
         summary[p] = 0, summary' = [summary EXCEPT ![p] = n]
  PROVE  Reserved'
<1>1. Reserving' \in SUBSET (Reserving \cup {p})
  BY DEF Reserving, TypeOK
<1>2. p \notin Reserving
  BY DEF Reserving
<1>3. /\ IsFiniteSet(Reserving \cup {p})
      /\ Cardinality(Reserving \cup {p}) = Cardinality(Reserving) + 1
  BY <1>2, ReservingFinite, FS_AddElement
<1>4. Cardinality(Reserving') <= Cardinality(Reserving) + 1 /\ Cardinality(Reserving') \in Nat
  BY <1>1, <1>3, FS_Subset, FS_CardinalityType
<1> QED BY <1>4, NotificationsAssumption, RowIds, ReservingFinite
        DEF Reserved, Room, Reserving

LEMMA ReservedCommit ==
  ASSUME TypeOK, Reserved, NEW p \in Procs, summary[p] # 0
  PROVE  /\ Len(rows) < MaxRows
         /\ Len(rows') = Len(rows) + 1 /\ summary' = [summary EXCEPT ![p] = 0] => Reserved'
<1>1. p \in Reserving
  BY DEF Reserving
<1>2. /\ IsFiniteSet(Reserving \ {p})
      /\ Cardinality(Reserving \ {p}) = Cardinality(Reserving) - 1
      /\ Cardinality(Reserving \ {p}) \in Nat
  BY <1>1, ReservingFinite, FS_RemoveElement, FS_CardinalityType
<1>3. Len(rows) < MaxRows
  BY <1>2, NotificationsAssumption, RowIds, ReservingFinite DEF Reserved
<1>4. ASSUME Len(rows') = Len(rows) + 1, summary' = [summary EXCEPT ![p] = 0]
      PROVE  Reserved'
  <2>1. Reserving' = Reserving \ {p}
    BY <1>4 DEF Reserving, TypeOK
  <2> QED BY <1>2, <1>4, <2>1, NotificationsAssumption, RowIds, ReservingFinite DEF Reserved
<1> QED BY <1>3, <1>4

----------------------------------------------------------------------------
(* The outbox grows *)

\* A new row was never delivered and is in no batch.
LEMMA GrownInv ==
  ASSUME IInv, NEW r \in Row, r.status # "sent", Grows(r), UNCHANGED <<job, got, doubt>>
  PROVE  /\ \A d \in Dispatchers : \E S \in SUBSET Ids' : job'[d] \in BatchOf(S)
         /\ BatchInv' /\ SentWasSeen' /\ DoubtInv'
<1> USE DEF IInv
<1>1. \A d \in Dispatchers : \E S \in SUBSET Ids' : job'[d] \in BatchOf(S)
  BY BatchesKept DEF Grows
<1>2. BatchInv'
  BY DEF BatchInv, Held1, Loaded
<1>3. SentWasSeen'
  BY DEF SentWasSeen, Grows
<1>4. ASSUME NEW m \in Rows, m \notin doubt'
      PROVE  Clear(m)'
  <2>1. Clear(m) /\ (m \notin Ids => got[m] = 0)
    BY <1>4 DEF DoubtInv
  <2>2. m \in Ids /\ got[m] > 0 => rows'[m] = rows[m]
    BY DEF Grows
  <2> QED BY <2>1, <2>2 DEF Clear, Loaded
<1>5. DoubtInv'
  BY <1>4 DEF DoubtInv, Grows
<1> QED BY <1>1, <1>2, <1>3, <1>5

\* A row that is no summary does not touch the days.
LEMMA GrownDays ==
  ASSUME IInv, NEW r, r.day = 0, Grows(r), UNCHANGED <<day, last, running, split, summary>>
  PROVE  DayInv'
<1>1. last \in Nat
  BY NotificationsAssumption DEF IInv, TypeOK
<1>2. ASSUME Single
      PROVE  Single'
  <2>1. \A m \in Ids' : rows'[m].day <= last'
    BY <1>1, <1>2 DEF Single, Grows
  <2>2. \A m, n \in Ids' : rows'[m].day # 0 /\ rows'[m].day = rows'[n].day => m = n
    BY <1>2 DEF Single, Grows
  <2> QED BY <1>2, <2>1, <2>2 DEF Single
<1> QED BY <1>2 DEF DayInv, IInv

LEMMA EnqueueInv ==
  ASSUME IInv, Enqueue
  PROVE  IInv'
<1> USE DEF IInv
<1>1. PICK passes \in BOOLEAN : rows' = Append(rows, NewRow(passes, 0))
  BY DEF Enqueue
<1> DEFINE r == NewRow(passes, 0)
<1>2. r \in Row /\ r.status # "sent" /\ r.day = 0
  BY NewRowType, NotificationsAssumption
<1>3. /\ Room /\ UNCHANGED <<job, got, doubt>>
      /\ UNCHANGED <<team, day, last, lock, running, pinned, split, summary, faults>>
  BY DEF Enqueue, clock, lease, ghosts
<1> HIDE DEF r
<1>4. rows' = Append(rows, r)
  BY <1>1 DEF r
<1>5. Len(rows) < MaxRows
  BY <1>3, RowIds, ReservingFinite, NotificationsAssumption DEF Room, Reserving
<1>6. Grows(r)
  BY <1>2, <1>4, <1>5, AppendRow
<1>7. /\ \A d \in Dispatchers : \E S \in SUBSET Ids' : job'[d] \in BatchOf(S)
      /\ BatchInv' /\ SentWasSeen' /\ DoubtInv'
  BY <1>2, <1>3, <1>6, GrownInv
<1>8. Reserved'
  BY <1>3, <1>6, ReservedRoom DEF Grows
<1>9. TypeOK'
  BY <1>3, <1>6, <1>7 DEF TypeOK, Grows
<1>10. DayInv'
  BY <1>2, <1>3, <1>6, GrownDays
<1> QED BY <1>3, <1>7, <1>8, <1>9, <1>10

----------------------------------------------------------------------------
(* A batch is fetched *)

LEMMA FreshBatch ==
  ASSUME NEW queue, NEW table, NEW b \in Batches(queue, table),
         \A m \in queue : /\ table[m] \in Row /\ table[m].attempts < MaxAttempts
                          /\ table[m].status \in {"pending", "failed"}
  PROVE  /\ b \in BatchOf(queue) /\ DOMAIN b.loaded = queue
         /\ \A m \in queue : /\ b.loaded[m] = table[m] /\ b.now[m].status # "sent"
                             /\ m \in b.todo => b.now[m] = b.loaded[m]
<1> DEFINE was == [m \in queue |-> table[m]]
           now == [m \in queue |-> Outcome(was[m], "skipped")]
<1>1. \/ b = [todo |-> queue, loaded |-> was, now |-> was]
      \/ b = [todo |-> {}, loaded |-> was, now |-> now]
  BY DEF Batches
<1>2. was \in [queue -> Row] /\ \A m \in queue : was[m] = table[m]
  OBVIOUS
<1>3. now \in [queue -> Row] /\ \A m \in queue : now[m].status # "sent"
  BY OutcomeType
<1>4. \A m \in queue : was[m].status # "sent"
  OBVIOUS
<1> HIDE DEF was, now
<1> QED BY <1>1, <1>2, <1>3, <1>4 DEF BatchOf

\* The table as a dispatcher reads it: the committed rows, and at most its own
\* new ones.
Extends ==
  /\ Ids \subseteq Ids' /\ Ids' \subseteq Rows
  /\ \A m \in Ids' : rows'[m] \in Row
  /\ \A m \in Ids : rows'[m] = rows[m]
  /\ \A m \in Ids' \ Ids : rows'[m].status # "sent"

LEMMA OldestDue ==
  ASSUME NEW n
  PROVE  \A m \in Oldest(n) : /\ m \in Ids /\ rows[m].status \in {"pending", "failed"}
                              /\ rows[m].attempts < MaxAttempts
BY DEF Oldest, Due

LEMMA FetchInv ==
  ASSUME IInv, NEW d \in Dispatchers, ~Working(d), Extends, NEW queue \in SUBSET Ids',
         \A m \in queue : /\ rows'[m].status \in {"pending", "failed"}
                          /\ rows'[m].attempts < MaxAttempts,
         NEW b \in Batches(queue, rows'), job' = [job EXCEPT ![d] = b],
         doubt' = doubt \cup (queue \cap Held(d)), got' = got
  PROVE  /\ job' = [e \in Dispatchers |-> job'[e]]
         /\ \A e \in Dispatchers : \E S \in SUBSET Ids' : job'[e] \in BatchOf(S)
         /\ doubt' \subseteq Rows
         /\ BatchInv' /\ SentWasSeen' /\ DoubtInv'
<1> USE DEF IInv
<1>1. /\ b \in BatchOf(queue) /\ DOMAIN b.loaded = queue
      /\ \A m \in queue : /\ b.loaded[m] = rows'[m] /\ b.now[m].status # "sent"
                          /\ m \in b.todo => b.now[m] = b.loaded[m]
  BY FreshBatch DEF Extends
<1>2. Loaded(d) = {}
  BY IdleType DEF Working, Loaded
<1>3. job'[d] = b /\ \A e \in Dispatchers : e # d => job'[e] = job[e]
  OBVIOUS
<1>4. Loaded(d)' = queue /\ \A e \in Dispatchers : e # d => Loaded(e)' = Loaded(e)
  BY <1>1, <1>3 DEF Loaded
<1>5. job' = [e \in Dispatchers |-> job'[e]]
  OBVIOUS
<1>6. \A e \in Dispatchers : \E S \in SUBSET Ids' : job'[e] \in BatchOf(S)
  BY <1>1, <1>3 DEF TypeOK, Extends
<1>7. doubt' \subseteq Rows
  BY DEF TypeOK, Extends
<1>8. BatchInv'
  BY <1>1, <1>3, <1>4 DEF BatchInv, Held1
<1>9. SentWasSeen'
  BY DEF SentWasSeen, Extends
<1>10. ASSUME NEW m \in Rows, m \notin doubt'
       PROVE  Clear(m)'
  <2>1. Clear(m) /\ (m \notin Ids => got[m] = 0) /\ m \notin doubt /\ got[m] \in Nat
    BY <1>10 DEF DoubtInv, TypeOK
  <2>2. CASE m \in queue
    <3>1. \A e \in Dispatchers : e # d => m \notin Loaded(e)
      BY <1>10, <2>2 DEF Held
    <3>2. got[m] = 0
      BY <1>2, <2>1, <2>2, <3>1 DEF Clear, Extends
    <3> QED BY <1>4, <2>2, <3>1, <3>2 DEF Clear
  <2>3. CASE m \notin queue
    <3>1. \A e \in Dispatchers : m \in Loaded(e)' <=> m \in Loaded(e) /\ e # d
      BY <1>2, <1>4, <2>3
    <3>2. m \in Ids' /\ got[m] > 0 =>
            m \in Ids /\ rows'[m] = rows[m]
      BY <2>1 DEF Extends
    <3> QED BY <1>2, <1>3, <2>1, <3>1, <3>2 DEF Clear
  <2> QED BY <2>2, <2>3
<1>11. DoubtInv'
  BY <1>10 DEF DoubtInv, Extends
<1> QED BY <1>5, <1>6, <1>7, <1>8, <1>9, <1>11

LEMMA LoopFetchInv ==
  ASSUME IInv, NEW p \in Procs, LoopFetch(p)
  PROVE  IInv'
<1> USE DEF IInv
<1> DEFINE queue == Oldest(Limit)
<1>1. /\ ~Working(p) /\ doubt' = doubt \cup (queue \cap Held(p))
      /\ UNCHANGED <<team, rows, day, last, lock, running, pinned, split, summary, got, faults>>
      /\ \E b \in Batches(queue, rows) : job' = [job EXCEPT ![p] = b]
  BY DEF LoopFetch, clock, lease
<1>2. Ids' = Ids /\ Extends
  BY <1>1, RowIds DEF Ids, Extends
<1>3. /\ queue \in SUBSET Ids'
      /\ \A m \in queue : /\ rows'[m].status \in {"pending", "failed"}
                          /\ rows'[m].attempts < MaxAttempts
  BY <1>1, <1>2, OldestDue
<1> HIDE DEF queue
<1>4. PICK b \in Batches(queue, rows') : job' = [job EXCEPT ![p] = b]
  BY <1>1
<1>5. /\ job' = [e \in Dispatchers |-> job'[e]]
      /\ \A e \in Dispatchers : \E S \in SUBSET Ids' : job'[e] \in BatchOf(S)
      /\ doubt' \subseteq Rows
      /\ BatchInv' /\ SentWasSeen' /\ DoubtInv'
  BY <1>1, <1>2, <1>3, <1>4, FetchInv DEF Dispatchers
<1>6. TypeOK'
  BY <1>1, <1>5 DEF TypeOK
<1>7. Reserved' /\ DayInv'
  BY <1>1 DEF Reserved, Reserving, DayInv, Single, Ids
<1> QED BY <1>5, <1>6, <1>7

LEMMA SendTestInv ==
  ASSUME IInv, NEW d \in Testers, SendTest(d)
  PROVE  IInv'
<1> USE DEF IInv
<1> DEFINE queue == Oldest(TestLimit)'
           r == NewRow(TRUE, 0)
<1>1. /\ ~Working(d) /\ doubt' = doubt \cup (queue \cap Held(d)) /\ Room
      /\ UNCHANGED <<team, day, last, lock, running, pinned, split, summary, got, faults>>
      /\ rows' = Append(rows, r)
      /\ \E b \in Batches(queue, rows') : job' = [job EXCEPT ![d] = b]
  BY DEF SendTest, clock, lease
<1>2. r \in Row /\ r.status = "pending" /\ r.day = 0
  BY NotificationsAssumption DEF NewRow, Row, Statuses
<1>3. Len(rows) < MaxRows
  BY <1>1, RowIds, ReservingFinite, NotificationsAssumption DEF Room, Reserving
<1>4. Grows(r)
  BY <1>1, <1>2, <1>3, AppendRow
<1>5. /\ queue \in SUBSET Ids'
      /\ \A m \in queue : /\ rows'[m].status \in {"pending", "failed"}
                          /\ rows'[m].attempts < MaxAttempts
  BY DEF Oldest, Due
<1> HIDE DEF r, queue
<1>6. Extends
  BY <1>2, <1>4, RowIds DEF Grows, Extends
<1>7. PICK b \in Batches(queue, rows') : job' = [job EXCEPT ![d] = b]
  BY <1>1
<1>8. /\ job' = [e \in Dispatchers |-> job'[e]]
      /\ \A e \in Dispatchers : \E S \in SUBSET Ids' : job'[e] \in BatchOf(S)
      /\ doubt' \subseteq Rows
      /\ BatchInv' /\ SentWasSeen' /\ DoubtInv'
  BY <1>1, <1>5, <1>6, <1>7, FetchInv DEF Dispatchers
<1>9. TypeOK'
  BY <1>1, <1>4, <1>8 DEF TypeOK, Grows
<1>10. Reserved'
  BY <1>1, <1>4, ReservedRoom DEF Grows
<1>11. DayInv'
  BY <1>1, <1>2, <1>4, GrownDays
<1> QED BY <1>8, <1>9, <1>10, <1>11

----------------------------------------------------------------------------
(* A message is sent *)

LEMMA MinTwo ==
  ASSUME NEW n \in Nat
  PROVE  Min({2, n}) = IF n < 2 THEN n ELSE 2
<1> DEFINE least == IF n < 2 THEN n ELSE 2
<1>1. least \in {2, n} /\ \A y \in {2, n} : least <= y
  OBVIOUS
<1>2. \A x \in {2, n} : (\A y \in {2, n} : x <= y) => x = least
  OBVIOUS
<1> HIDE DEF least
<1>3. (CHOOSE x \in {2, n} : \A y \in {2, n} : x <= y) = least
  BY <1>1, <1>2
<1> QED BY <1>3 DEF Min, least

LEMMA AnswerFacts ==
  ASSUME NEW a \in Answers
  PROVE  /\ a.seen \in 0..2
         /\ a.how = "ok" => a.seen > 0
         /\ ~Blurred(a) => a.seen = IF a.how = "ok" THEN 1 ELSE 0
BY DEF Answers, Blurred

\* The first row of a batch is sent: it leaves the rows to do, its outcome is in
\* the session, and the recipient saw what the answer says.
LEMMA SendEffect ==
  ASSUME IInv, NEW d \in Dispatchers, NEW m \in job[d].todo, NEW a \in Answers,
         job' = [job EXCEPT ![d].todo = @ \ {m}, ![d].now[m] = Outcome(@, a.how)],
         got' = [got EXCEPT ![m] = Min({2, @ + a.seen})]
  PROVE  /\ m \in Loaded(d) /\ m \in Rows /\ m \in Ids
         /\ job' = [e \in Dispatchers |-> job'[e]]
         /\ \A e \in Dispatchers : e # d => job'[e] = job[e]
         /\ job'[d] \in BatchOf(Loaded(d))
         /\ job'[d].todo = job[d].todo \ {m} /\ job'[d].loaded = job[d].loaded
         /\ \A k \in Loaded(d) : k # m => job'[d].now[k] = job[d].now[k]
         /\ job'[d].now[m].status = "sent" <=> a.how = "ok"
         /\ got' \in [Rows -> 0..2] /\ \A k \in Rows : got'[k] >= got[k]
         /\ \A k \in Rows : k # m => got'[k] = got[k]
         /\ a.seen > 0 => got'[m] > 0
         /\ got[m] = 0 => got'[m] = a.seen
<1> USE DEF IInv
<1> DEFINE new == Outcome(job[d].now[m], a.how)
<1>1. /\ Loaded(d) \subseteq Ids /\ job[d].todo \subseteq Loaded(d) /\ m \in Loaded(d)
      /\ job[d].loaded \in [Loaded(d) -> Row] /\ job[d].now \in [Loaded(d) -> Row]
      /\ job[d] = [todo |-> job[d].todo, loaded |-> job[d].loaded, now |-> job[d].now]
  BY BatchType
<1>2. m \in Rows /\ m \in Ids
  BY <1>1, RowIds
<1>3. job[d].now[m] \in Row /\ job[d].now[m].attempts < MaxAttempts
  BY <1>1 DEF BatchInv, Held1
<1>4. new \in Row /\ (new.status = "sent" <=> a.how = "ok")
  BY <1>3, OutcomeType
<1> HIDE DEF new
<1>5. job' = [job EXCEPT ![d].todo = job[d].todo \ {m}, ![d].now[m] = new]
  BY DEF new
<1>6. /\ job' = [e \in Dispatchers |-> job'[e]]
      /\ \A e \in Dispatchers : e # d => job'[e] = job[e]
  BY <1>5
<1>7. job'[d] = [todo |-> job[d].todo \ {m}, loaded |-> job[d].loaded,
                 now |-> [job[d].now EXCEPT ![m] = new]]
  BY <1>1, <1>5
<1>8. [job[d].now EXCEPT ![m] = new] \in [Loaded(d) -> Row]
  BY <1>1, <1>4
<1>9. job'[d] \in BatchOf(Loaded(d))
  BY <1>1, <1>7, <1>8 DEF BatchOf
<1>10. a.seen \in 0..2 /\ got \in [Rows -> 0..2] /\ got[m] + a.seen \in Nat
  <2>1. a.seen \in 0..2 /\ got \in [Rows -> 0..2]
    BY AnswerFacts DEF TypeOK
  <2> QED BY <1>2, <2>1
<1>11. got'[m] = (IF got[m] + a.seen < 2 THEN got[m] + a.seen ELSE 2)
       /\ \A k \in Rows : k # m => got'[k] = got[k]
  BY <1>2, <1>10, MinTwo
<1>12. got' \in [Rows -> 0..2]
  BY <1>2, <1>10, <1>11
<1>13. got[m] \in 0..2
  BY <1>2 DEF TypeOK
<1>14. /\ \A k \in Rows : got'[k] >= got[k]
       /\ a.seen > 0 => got'[m] > 0
       /\ got[m] = 0 => got'[m] = a.seen
  BY <1>2, <1>10, <1>11, <1>12, <1>13, AnswerFacts
<1> QED BY <1>1, <1>2, <1>4, <1>6, <1>7, <1>9, <1>11, <1>12, <1>14

LEMMA SendOneInv ==
  ASSUME IInv, NEW d \in Dispatchers, SendOne(d)
  PROVE  IInv'
<1> USE DEF IInv
<1>1. PICK m \in job[d].todo, a \in Answers :
         /\ job' = [job EXCEPT ![d].todo = @ \ {m}, ![d].now[m] = Outcome(@, a.how)]
         /\ got' = [got EXCEPT ![m] = Min({2, @ + a.seen})]
         /\ doubt' = IF Blurred(a) THEN doubt \cup {m} ELSE doubt
  BY DEF SendOne
<1>2. UNCHANGED <<team, rows, day, last, lock, running, pinned, split, summary, faults>>
  BY DEF SendOne, clock, lease
<1>3. /\ m \in Loaded(d) /\ m \in Rows /\ m \in Ids
      /\ job' = [e \in Dispatchers |-> job'[e]]
      /\ \A e \in Dispatchers : e # d => job'[e] = job[e]
      /\ job'[d] \in BatchOf(Loaded(d))
      /\ job'[d].todo = job[d].todo \ {m} /\ job'[d].loaded = job[d].loaded
      /\ \A k \in Loaded(d) : k # m => job'[d].now[k] = job[d].now[k]
      /\ job'[d].now[m].status = "sent" <=> a.how = "ok"
      /\ got' \in [Rows -> 0..2] /\ \A k \in Rows : got'[k] >= got[k]
      /\ \A k \in Rows : k # m => got'[k] = got[k]
      /\ a.seen > 0 => got'[m] > 0
      /\ got[m] = 0 => got'[m] = a.seen
  BY <1>1, SendEffect
<1>4. \A e \in Dispatchers : Loaded(e)' = Loaded(e)
  BY <1>3 DEF Loaded
<1>5. Ids' = Ids /\ Ids \subseteq Rows
  BY <1>2, RowIds DEF Ids
<1>6. \A e \in Dispatchers : Loaded(e) \subseteq Rows
  BY <1>5, BatchType
<1>7. TypeOK'
  <2>1. Loaded(d) \in SUBSET Ids
    BY BatchType
  <2>2. \A e \in Dispatchers : \E S \in SUBSET Ids' : job'[e] \in BatchOf(S)
    BY <1>3, <1>5, <2>1 DEF TypeOK
  <2>3. doubt' \subseteq Rows
    BY <1>1, <1>3 DEF TypeOK
  <2> QED BY <1>2, <1>3, <2>2, <2>3 DEF TypeOK
<1>8. Reserved' /\ DayInv'
  BY <1>2 DEF Reserved, Reserving, DayInv, Single, Ids
<1>9. ASSUME NEW e \in Dispatchers, NEW k \in Loaded(e)'
      PROVE  Held1(e, k)'
  <2>1. k \in Loaded(e) /\ k \in Rows /\ Held1(e, k)
    BY <1>4, <1>6 DEF BatchInv
  <2>2. got[k] \in 0..2 /\ got'[k] \in 0..2 /\ got'[k] >= got[k]
    BY <1>3, <2>1 DEF TypeOK
  <2>3. CASE e = d /\ k = m
    <3>1. a.how = "ok" => got'[m] > 0
      BY <1>3, AnswerFacts
    <3> QED BY <1>3, <2>1, <2>3, <3>1 DEF Held1
  <2>4. CASE ~(e = d /\ k = m)
    <3>1. /\ job'[e].loaded = job[e].loaded /\ job'[e].now[k] = job[e].now[k]
          /\ job'[e].todo \subseteq job[e].todo
      BY <1>3, <2>1, <2>4
    <3> QED BY <2>1, <2>2, <3>1 DEF Held1
  <2> QED BY <2>3, <2>4
<1>10. BatchInv'
  BY <1>9 DEF BatchInv
<1>11. SentWasSeen'
  <2>1. ASSUME NEW k \in Ids, rows[k].status = "sent"
        PROVE  got'[k] > 0
    BY <1>3, <1>5, <2>1 DEF SentWasSeen, TypeOK
  <2> QED BY <1>2, <1>5, <2>1 DEF SentWasSeen
<1>12. ASSUME NEW k \in Rows, k \notin doubt'
       PROVE  Clear(k)'
  <2>1. k \notin doubt /\ Clear(k)
    BY <1>1, <1>12 DEF DoubtInv
  <2>2. CASE k = m
    <3>1. ~Blurred(a) /\ a.seen = IF a.how = "ok" THEN 1 ELSE 0
      BY <1>1, <1>12, <2>2, AnswerFacts
    <3>2. got[m] = 0
      <4>1. job[d].now[m].status # "sent"
        BY <1>3 DEF BatchInv, Held1
      <4> QED BY <1>3, <2>1, <2>2, <4>1 DEF Clear, TypeOK
    <3>3. got'[m] <= 1 /\ (got'[m] > 0 => job'[d].now[m].status = "sent")
      BY <1>3, <3>1, <3>2
    <3>4. \A e \in Dispatchers : m \in Loaded(e) => e = d
      BY <1>3, <2>1, <2>2 DEF Clear
    <3> QED BY <1>3, <1>4, <2>2, <3>3, <3>4 DEF Clear
  <2>3. CASE k # m
    <3>1. \A e \in Dispatchers : k \in Loaded(e) => job'[e].now[k] = job[e].now[k]
      BY <1>3, <2>3
    <3>2. got'[k] = got[k]
      BY <1>3, <2>3
    <3> QED BY <1>2, <1>4, <1>5, <2>1, <3>1, <3>2 DEF Clear
  <2> QED BY <2>2, <2>3
<1>13. DoubtInv'
  BY <1>3, <1>5, <1>12 DEF DoubtInv
<1> QED BY <1>3, <1>7, <1>8, <1>10, <1>11, <1>13

----------------------------------------------------------------------------
(* A batch ends *)

LEMMA ToIdle ==
  ASSUME IInv, NEW d \in Dispatchers, job' = [job EXCEPT ![d] = Idle]
  PROVE  /\ job' = [e \in Dispatchers |-> job'[e]]
         /\ job'[d] = Idle /\ \A e \in Dispatchers : e # d => job'[e] = job[e]
         /\ Loaded(d)' = {} /\ \A e \in Dispatchers : e # d => Loaded(e)' = Loaded(e)
         /\ Ids' = Ids => \A e \in Dispatchers : \E S \in SUBSET Ids' : job'[e] \in BatchOf(S)
         /\ got' = got => BatchInv'
<1> USE DEF IInv
<1>1. /\ job' = [e \in Dispatchers |-> job'[e]]
      /\ job'[d] = Idle /\ \A e \in Dispatchers : e # d => job'[e] = job[e]
  OBVIOUS
<1>2. Loaded(d)' = {} /\ \A e \in Dispatchers : e # d => Loaded(e)' = Loaded(e)
  BY <1>1, IdleType DEF Loaded
<1>3. ASSUME Ids' = Ids, NEW e \in Dispatchers
      PROVE  \E S \in SUBSET Ids' : job'[e] \in BatchOf(S)
  <2>1. CASE e = d
    <3>1. job'[e] \in BatchOf({}) /\ {} \in SUBSET Ids'
      BY <1>1, <2>1, IdleType
    <3> QED BY <3>1
  <2>2. CASE e # d
    BY <1>1, <1>3, <2>2 DEF TypeOK
  <2> QED BY <2>1, <2>2
<1>4. ASSUME got' = got
      PROVE  BatchInv'
  BY <1>1, <1>2, <1>4 DEF BatchInv, Held1
<1> QED BY <1>1, <1>2, <1>3, <1>4

LEMMA WrittenFacts ==
  ASSUME NEW m, rows[m] \in Row, NEW was \in Row, NEW new \in Row
  PROVE  /\ Written(m, was, new) \in Row /\ Written(m, was, new).day = rows[m].day
         /\ Written(m, was, new).status =
              IF new.status = was.status THEN rows[m].status ELSE new.status
<1> DEFINE s == IF new.status = was.status THEN rows[m].status ELSE new.status
           a == IF new.attempts = was.attempts THEN rows[m].attempts ELSE new.attempts
<1>1. s \in Statuses /\ a \in 0..MaxAttempts
  BY DEF Row
<1>2. Written(m, was, new) = [rows[m] EXCEPT !.status = s, !.attempts = a]
  BY DEF Written, Row
<1> HIDE DEF s, a
<1>3. /\ Written(m, was, new) \in Row /\ Written(m, was, new).day = rows[m].day
      /\ Written(m, was, new).status = s
  BY <1>1, <1>2 DEF Row
<1> QED BY <1>3 DEF s

\* A commit writes the rows of the batch, and no day.
LEMMA CommitRows ==
  ASSUME IInv, NEW d \in Dispatchers, NEW now \in [Loaded(d) -> Row], rows' = Flushed(d, now)
  PROVE  /\ rows' \in Seq(Row) /\ Len(rows') = Len(rows) /\ Ids' = Ids
         /\ \A m \in Ids : rows'[m].day = rows[m].day
         /\ \A m \in Ids \ Loaded(d) : rows'[m] = rows[m]
         /\ \A m \in Loaded(d) :
              rows'[m].status = IF now[m].status = job[d].loaded[m].status
                                THEN rows[m].status ELSE now[m].status
<1> USE DEF IInv
<1> DEFINE w(m) == IF m \in Loaded(d)
                   THEN Written(m, job[d].loaded[m], now[m]) ELSE rows[m]
<1>1. rows' = [m \in Ids |-> w(m)]
  BY DEF Flushed
<1>2. Loaded(d) \subseteq Ids
      /\ \A m \in Loaded(d) : job[d].loaded[m] \in Row /\ now[m] \in Row
  BY BatchType
<1>3. \A m \in Ids : rows[m] \in Row
  BY RowIds
<1>4. \A m \in Loaded(d) :
        /\ w(m) \in Row /\ w(m).day = rows[m].day
        /\ w(m).status = IF now[m].status = job[d].loaded[m].status
                         THEN rows[m].status ELSE now[m].status
  <2> TAKE m \in Loaded(d)
  <2>1. w(m) = Written(m, job[d].loaded[m], now[m])
    OBVIOUS
  <2> QED BY <1>2, <1>3, <2>1, WrittenFacts
<1>5. \A m \in Ids \ Loaded(d) : w(m) = rows[m]
  OBVIOUS
<1> HIDE DEF w
<1>6. rows' \in [1..Len(rows) -> Row]
  BY <1>1, <1>3, <1>4, <1>5 DEF Ids
<1>7. rows' \in Seq(Row) /\ Len(rows') = Len(rows)
  BY <1>6, RowIds
<1> QED BY <1>1, <1>2, <1>4, <1>5, <1>7 DEF Ids

LEMMA CommitBatchInv ==
  ASSUME IInv, NEW d \in Dispatchers, CommitBatch(d)
  PROVE  IInv'
<1> USE DEF IInv
<1>1. /\ job' = [job EXCEPT ![d] = Idle] /\ pinned' = pinned \ {d}
      /\ UNCHANGED <<team, day, last, lock, running, split, summary, got, doubt, faults>>
  BY DEF CommitBatch, Unpin, clock, ghosts
<1>2. /\ rows' \in Seq(Row) /\ Len(rows') = Len(rows) /\ Ids' = Ids
      /\ \A m \in Ids : rows'[m].day = rows[m].day
      /\ \A m \in Ids \ Loaded(d) : rows'[m] = rows[m]
      /\ \A m \in Loaded(d) :
           rows'[m].status = IF job[d].now[m].status = job[d].loaded[m].status
                             THEN rows[m].status ELSE job[d].now[m].status
  <2>1. rows' = Flushed(d, job[d].now) /\ job[d].now \in [Loaded(d) -> Row]
    BY BatchType DEF CommitBatch
  <2> QED BY <2>1, CommitRows
<1>3. /\ job' = [e \in Dispatchers |-> job'[e]]
      /\ Loaded(d)' = {} /\ \A e \in Dispatchers : e # d => Loaded(e)' = Loaded(e)
      /\ \A e \in Dispatchers : e # d => job'[e] = job[e]
      /\ \A e \in Dispatchers : \E S \in SUBSET Ids' : job'[e] \in BatchOf(S)
      /\ BatchInv'
  BY <1>1, <1>2, ToIdle
<1>4. TypeOK'
  BY <1>1, <1>2, <1>3 DEF TypeOK
<1>5. Reserved'
  BY <1>1, <1>2 DEF Reserved, Reserving
<1>6. DayInv'
  <2>1. Single => Single'
    BY <1>1, <1>2 DEF Single
  <2> QED BY <1>1, <2>1 DEF DayInv
<1>7. SentWasSeen'
  <2>1. ASSUME NEW m \in Ids, rows'[m].status = "sent"
        PROVE  got[m] > 0
    <3>1. CASE rows[m].status = "sent"
      BY <3>1 DEF SentWasSeen
    <3>2. CASE rows[m].status # "sent"
      <4>1. m \in Loaded(d) /\ job[d].now[m].status = "sent"
        BY <1>2, <2>1, <3>2
      <4> QED BY <4>1 DEF BatchInv, Held1
    <3> QED BY <3>1, <3>2
  <2> QED BY <1>1, <1>2, <2>1 DEF SentWasSeen
<1>8. ASSUME NEW m \in Rows, m \notin doubt
      PROVE  Clear(m)'
  <2>1. Clear(m)
    BY <1>8 DEF DoubtInv
  <2>2. ASSUME m \in Ids, got[m] > 0, \A e \in Dispatchers : m \notin Loaded(e)'
        PROVE  rows'[m].status = "sent"
    <3>1. CASE m \in Loaded(d)
      <4>1. job[d].now[m].status = "sent"
        BY <2>1, <2>2, <3>1 DEF Clear
      <4>2. job[d].loaded[m].status # "sent"
        BY <3>1 DEF BatchInv, Held1
      <4> QED BY <1>2, <3>1, <4>1, <4>2
    <3>2. CASE m \notin Loaded(d)
      <4>1. \A e \in Dispatchers : m \notin Loaded(e)
        BY <1>3, <2>2, <3>2
      <4>2. rows[m].status = "sent"
        BY <2>1, <2>2, <4>1 DEF Clear
      <4> QED BY <1>2, <2>2, <3>2, <4>2
    <3> QED BY <3>1, <3>2
  <2>3. \A e \in Dispatchers : m \in Loaded(e)' => e # d /\ m \in Loaded(e)
    BY <1>3
  <2> QED BY <1>1, <1>2, <1>3, <2>1, <2>2, <2>3 DEF Clear
<1>9. DoubtInv'
  BY <1>1, <1>2, <1>8 DEF DoubtInv
<1> QED BY <1>3, <1>4, <1>5, <1>6, <1>7, <1>9

\* A batch is lost with its session: what it sent is in doubt from now on.
LEMMA LoseEffect ==
  ASSUME IInv, NEW d \in Dispatchers, Lose(d), rows' = rows, got' = got
  PROVE  /\ job' = [e \in Dispatchers |-> job'[e]]
         /\ \A e \in Dispatchers : \E S \in SUBSET Ids' : job'[e] \in BatchOf(S)
         /\ doubt' \subseteq Rows
         /\ BatchInv' /\ SentWasSeen' /\ DoubtInv'
<1> USE DEF IInv
<1>1. job' = [job EXCEPT ![d] = Idle] /\ doubt' = doubt \cup SentOf(d) /\ Ids' = Ids
  BY DEF Lose, Ids
<1>2. /\ job' = [e \in Dispatchers |-> job'[e]]
      /\ Loaded(d)' = {} /\ \A e \in Dispatchers : e # d => Loaded(e)' = Loaded(e)
      /\ \A e \in Dispatchers : e # d => job'[e] = job[e]
      /\ \A e \in Dispatchers : \E S \in SUBSET Ids' : job'[e] \in BatchOf(S)
      /\ BatchInv'
  BY <1>1, ToIdle
<1>3. doubt' \subseteq Rows
  <2>1. Loaded(d) \subseteq Rows
    BY BatchType, RowIds
  <2> QED BY <1>1, <2>1 DEF TypeOK, SentOf
<1>4. SentWasSeen'
  BY <1>1 DEF SentWasSeen
<1>5. ASSUME NEW m \in Rows, m \notin doubt'
      PROVE  Clear(m)'
  <2>1. Clear(m) /\ m \notin SentOf(d)
    BY <1>1, <1>5 DEF DoubtInv
  <2>2. m \in Loaded(d) => ~(got[m] > 0)
    BY <2>1 DEF Clear, SentOf
  <2>3. \A e \in Dispatchers : m \in Loaded(e)' => e # d /\ m \in Loaded(e)
    BY <1>2
  <2>4. ASSUME m \in Ids, got[m] > 0, \A e \in Dispatchers : m \notin Loaded(e)'
        PROVE  rows[m].status = "sent"
    <3>1. \A e \in Dispatchers : m \notin Loaded(e)
      BY <1>2, <2>2, <2>4
    <3> QED BY <2>1, <2>4, <3>1 DEF Clear
  <2> QED BY <1>1, <1>2, <2>1, <2>3, <2>4 DEF Clear
<1>6. DoubtInv'
  BY <1>1, <1>5 DEF DoubtInv
<1> QED BY <1>2, <1>3, <1>4, <1>6

LEMMA BatchLostInv ==
  ASSUME IInv, NEW d \in Dispatchers, BatchLost(d)
  PROVE  IInv'
<1> USE DEF IInv
<1>1. /\ Lose(d) /\ faults < MaxFaults /\ faults' = faults + 1 /\ pinned' = pinned \ {d}
      /\ UNCHANGED <<team, rows, day, last, lock, running, split, summary, got>>
  BY DEF BatchLost, Unpin, clock
<1>2. /\ job' = [e \in Dispatchers |-> job'[e]]
      /\ \A e \in Dispatchers : \E S \in SUBSET Ids' : job'[e] \in BatchOf(S)
      /\ doubt' \subseteq Rows
      /\ BatchInv' /\ SentWasSeen' /\ DoubtInv'
  BY <1>1, LoseEffect
<1>3. faults' \in 0..MaxFaults
  BY <1>1, NotificationsAssumption DEF TypeOK
<1>4. TypeOK'
  BY <1>1, <1>2, <1>3 DEF TypeOK
<1>5. Reserved' /\ DayInv'
  BY <1>1 DEF Reserved, Reserving, DayInv, Single, Ids
<1> QED BY <1>2, <1>4, <1>5

\* A loop that stops drops its batch and its summary.
LEMMA StopsInv ==
  ASSUME IInv, NEW p \in Procs, Stops(p)
  PROVE  IInv'
<1> USE DEF IInv
<1>1. /\ Lose(p) /\ faults < MaxFaults /\ faults' = faults + 1
      /\ running' = running \ {p} /\ pinned' = pinned \ {p}
      /\ lock' \in {lock, None} /\ summary' = [summary EXCEPT ![p] = 0]
      /\ UNCHANGED <<team, rows, day, last, split, got>>
  BY DEF Stops, Frees, clock
<1>2. /\ job' = [e \in Dispatchers |-> job'[e]]
      /\ \A e \in Dispatchers : \E S \in SUBSET Ids' : job'[e] \in BatchOf(S)
      /\ doubt' \subseteq Rows
      /\ BatchInv' /\ SentWasSeen' /\ DoubtInv'
  BY <1>1, LoseEffect DEF Dispatchers
<1>3. faults' \in 0..MaxFaults
  BY <1>1, NotificationsAssumption DEF TypeOK
<1>4. /\ summary' \in [Procs -> 0..Days]
      /\ \A q \in Procs : summary'[q] # 0 => q # p /\ summary'[q] = summary[q]
  BY <1>1, NotificationsAssumption DEF TypeOK
<1>5. TypeOK'
  BY <1>1, <1>2, <1>3, <1>4 DEF TypeOK
<1>6. Reserved'
  BY <1>1, <1>4, RowIds, ReservedKept
<1>7. DayInv'
  <2>1. Single => Single'
    BY <1>1, <1>4 DEF Single, Ids
  <2> QED BY <1>1, <1>4, <2>1 DEF DayInv
<1> QED BY <1>2, <1>5, <1>6, <1>7

\* A cancelled loop writes the outcomes it has; the message on its way is in doubt
\* once it was seen.
LEMMA CancelledInv ==
  ASSUME IInv, NEW p \in Procs, Cancelled(p)
  PROVE  IInv'
<1> USE DEF IInv
<1>1. PICK m \in job[p].todo, a \in Answers :
         /\ rows' = Flushed(p, [job[p].now EXCEPT ![m].attempts = @ + 1])
         /\ got' = [got EXCEPT ![m] = Min({2, @ + a.seen})]
         /\ doubt' = IF a.seen > 0 THEN doubt \cup {m} ELSE doubt
  BY DEF Cancelled
<1>2. /\ job' = [job EXCEPT ![p] = Idle] /\ faults < MaxFaults /\ faults' = faults + 1
      /\ running' = running \ {p} /\ pinned' = pinned \ {p} /\ lock' \in {lock, None}
      /\ summary' = [summary EXCEPT ![p] = 0] /\ UNCHANGED <<team, day, last, split>>
  BY DEF Cancelled, Frees, clock
<1>3. p \in Dispatchers
  BY DEF Dispatchers
<1> DEFINE new == [job[p].now EXCEPT ![m].attempts = @ + 1]
<1>4. /\ Loaded(p) \subseteq Ids /\ job[p].todo \subseteq Loaded(p) /\ m \in Loaded(p)
      /\ job[p].loaded \in [Loaded(p) -> Row] /\ job[p].now \in [Loaded(p) -> Row]
  BY <1>3, BatchType
<1>5. m \in Rows /\ m \in Ids /\ Held1(p, m) /\ job[p].now[m].status # "sent"
  BY <1>3, <1>4, RowIds DEF BatchInv, Held1
<1>6. /\ new \in [Loaded(p) -> Row] /\ new[m].status = job[p].now[m].status
      /\ \A k \in Loaded(p) : k # m => new[k] = job[p].now[k]
  <2> DEFINE r == [job[p].now[m] EXCEPT !.attempts = job[p].now[m].attempts + 1]
  <2>1. job[p].now[m] \in Row /\ job[p].now[m].attempts < MaxAttempts
    BY <1>4, <1>5 DEF Held1
  <2>2. job[p].now[m].attempts + 1 \in 0..MaxAttempts
    BY <2>1, NotificationsAssumption DEF Row
  <2>3. r \in Row /\ r.status = job[p].now[m].status
    BY <2>1, <2>2 DEF Row
  <2>4. new = [job[p].now EXCEPT ![m] = r]
    BY <1>4
  <2> HIDE DEF r, new
  <2>5. new[m] = r /\ new \in [Loaded(p) -> Row]
        /\ \A k \in Loaded(p) : k # m => new[k] = job[p].now[k]
    BY <1>4, <2>3, <2>4
  <2> QED BY <2>3, <2>5
<1> HIDE DEF new
<1>7. rows' = Flushed(p, new)
  BY <1>1 DEF new
<1>8. /\ rows' \in Seq(Row) /\ Len(rows') = Len(rows) /\ Ids' = Ids
      /\ \A k \in Ids : rows'[k].day = rows[k].day
      /\ \A k \in Ids \ Loaded(p) : rows'[k] = rows[k]
      /\ \A k \in Loaded(p) :
           rows'[k].status = IF new[k].status = job[p].loaded[k].status
                             THEN rows[k].status ELSE new[k].status
  BY <1>3, <1>6, <1>7, CommitRows
<1>9. \A k \in Loaded(p) : new[k].status = job[p].now[k].status
  BY <1>6
<1>10. /\ job' = [e \in Dispatchers |-> job'[e]]
       /\ Loaded(p)' = {} /\ \A e \in Dispatchers : e # p => Loaded(e)' = Loaded(e)
       /\ \A e \in Dispatchers : e # p => job'[e] = job[e]
       /\ \A e \in Dispatchers : \E S \in SUBSET Ids' : job'[e] \in BatchOf(S)
  BY <1>2, <1>3, <1>8, ToIdle
<1>11. /\ got' \in [Rows -> 0..2] /\ \A k \in Rows : got'[k] >= got[k]
       /\ \A k \in Rows : k # m => got'[k] = got[k]
       /\ a.seen = 0 => got'[m] = got[m]
  <2>1. a.seen \in 0..2 /\ got \in [Rows -> 0..2] /\ got[m] \in 0..2
    BY <1>5, AnswerFacts DEF TypeOK
  <2>2. got[m] + a.seen \in Nat
    BY <2>1
  <2>3. got'[m] = (IF got[m] + a.seen < 2 THEN got[m] + a.seen ELSE 2)
        /\ \A k \in Rows : k # m => got'[k] = got[k]
    BY <1>1, <1>5, <2>1, <2>2, MinTwo
  <2>4. got'[m] \in 0..2 /\ got'[m] >= got[m] /\ (a.seen = 0 => got'[m] = got[m])
    BY <2>1, <2>3
  <2>5. got' = [got EXCEPT ![m] = got'[m]]
    BY <1>1, <2>1
  <2>6. got' \in [Rows -> 0..2]
    BY <2>1, <2>3, <2>4, <2>5
  <2>7. \A k \in Rows : got[k] \in 0..2
    BY <2>1
  <2> QED BY <2>3, <2>4, <2>6, <2>7
<1>12. doubt' \subseteq Rows /\ doubt \subseteq doubt'
  BY <1>1, <1>5 DEF TypeOK
<1>13. faults' \in 0..MaxFaults
  BY <1>2, NotificationsAssumption DEF TypeOK
<1>22. /\ summary' \in [Procs -> 0..Days]
       /\ \A q \in Procs : summary'[q] # 0 => q # p /\ summary'[q] = summary[q]
  BY <1>2, NotificationsAssumption DEF TypeOK
<1>14. TypeOK'
  BY <1>22, <1>2, <1>8, <1>10, <1>11, <1>12, <1>13 DEF TypeOK
<1>15. Reserved'
  BY <1>8, <1>22, RowIds, ReservedKept
<1>16. DayInv'
  <2>1. Single => Single'
    BY <1>2, <1>8, <1>22 DEF Single
  <2> QED BY <1>2, <1>22, <2>1 DEF DayInv
<1>17. ASSUME NEW e \in Dispatchers, NEW k \in Loaded(e)'
       PROVE  Held1(e, k)'
  <2>1. e # p /\ k \in Loaded(e) /\ job'[e] = job[e]
    BY <1>10
  <2>2. Held1(e, k) /\ k \in Rows
    BY <2>1, BatchType, RowIds DEF BatchInv
  <2>3. got[k] > 0 => got'[k] > 0
    BY <1>11, <2>2 DEF TypeOK
  <2> QED BY <2>1, <2>2, <2>3 DEF Held1
<1>18. BatchInv'
  BY <1>17 DEF BatchInv
<1>19. SentWasSeen'
  <2>1. ASSUME NEW k \in Ids, rows'[k].status = "sent"
        PROVE  got[k] > 0
    <3>1. CASE rows[k].status = "sent"
      BY <3>1 DEF SentWasSeen
    <3>2. CASE rows[k].status # "sent"
      <4>1. k \in Loaded(p) /\ job[p].now[k].status = "sent"
        BY <1>8, <1>9, <2>1, <3>2
      <4> QED BY <1>3, <4>1 DEF BatchInv, Held1
    <3> QED BY <3>1, <3>2
  <2>2. \A k \in Ids : got[k] > 0 => got'[k] > 0
    BY <1>11, RowIds DEF TypeOK
  <2> QED BY <1>8, <2>1, <2>2 DEF SentWasSeen
<1>20. ASSUME NEW k \in Rows, k \notin doubt'
       PROVE  Clear(k)'
  <2>1. Clear(k)
    BY <1>12, <1>20 DEF DoubtInv
  <2>2. got'[k] = got[k]
    <3>1. CASE k = m
      <4>1. ~(a.seen > 0)
        BY <1>1, <1>20, <3>1
      <4>2. a.seen = 0
        BY <4>1, AnswerFacts
      <4> QED BY <1>11, <3>1, <4>2
    <3> QED BY <1>11, <3>1
  <2>3. ASSUME k \in Ids, got[k] > 0, \A e \in Dispatchers : k \notin Loaded(e)'
        PROVE  rows'[k].status = "sent"
    <3>1. CASE k \in Loaded(p)
      <4>1. job[p].now[k].status = "sent"
        BY <1>3, <2>1, <2>3, <3>1 DEF Clear
      <4>2. job[p].loaded[k].status # "sent"
        BY <1>3, <3>1 DEF BatchInv, Held1
      <4> QED BY <1>8, <1>9, <3>1, <4>1, <4>2
    <3>2. CASE k \notin Loaded(p)
      <4>1. \A e \in Dispatchers : k \notin Loaded(e)
        BY <1>10, <2>3, <3>2
      <4>2. rows[k].status = "sent"
        BY <2>1, <2>3, <4>1 DEF Clear
      <4> QED BY <1>8, <2>3, <3>2, <4>2
    <3> QED BY <3>1, <3>2
  <2>4. \A e \in Dispatchers : k \in Loaded(e)' => e # p /\ k \in Loaded(e)
    BY <1>10
  <2> QED BY <1>8, <1>10, <2>1, <2>2, <2>3, <2>4 DEF Clear
<1>21. DoubtInv'
  <2>1. m \in Ids
    BY <1>5
  <2> QED BY <1>8, <1>11, <1>20, <2>1 DEF DoubtInv
<1> QED BY <1>10, <1>14, <1>15, <1>18, <1>19, <1>16, <1>21

----------------------------------------------------------------------------
(* The lock and the clock *)

\* A step that leaves the outbox and the batches alone.
LEMMA OutboxKept ==
  ASSUME IInv, UNCHANGED <<rows, job, got, doubt>>
  PROVE  /\ job' = [d \in Dispatchers |-> job'[d]]
         /\ \A d \in Dispatchers : \E S \in SUBSET Ids' : job'[d] \in BatchOf(S)
         /\ Ids' = Ids /\ BatchInv' /\ SentWasSeen' /\ DoubtInv'
<1> USE DEF IInv
<1>1. Ids' = Ids /\ \A d \in Dispatchers : Loaded(d)' = Loaded(d)
  BY DEF Ids, Loaded
<1>2. \A d \in Dispatchers : \E S \in SUBSET Ids' : job'[d] \in BatchOf(S)
  BY <1>1, BatchesKept
<1>3. BatchInv' /\ SentWasSeen'
  BY <1>1 DEF BatchInv, Held1, SentWasSeen
<1>4. \A m \in Rows : Clear(m) => Clear(m)'
  BY <1>1 DEF Clear
<1>5. DoubtInv'
  BY <1>1, <1>4 DEF DoubtInv
<1> QED BY <1>1, <1>2, <1>3, <1>5

\* A loop that starts beside another one sets split.
LEMMA AcquireInv ==
  ASSUME IInv, NEW p \in Procs, Acquire(p)
  PROVE  IInv'
<1> USE DEF IInv
<1>1. /\ lock' = p /\ running' = running \cup {p} /\ pinned' = pinned \cup {p}
      /\ split' = (split \/ running # {})
      /\ UNCHANGED <<rows, job, got, doubt>>
      /\ UNCHANGED <<team, day, last, summary, faults>>
  BY DEF Acquire, clock, ghosts
<1>2. TypeOK'
  BY <1>1, OutboxKept DEF TypeOK
<1>3. Reserved'
  BY <1>1 DEF Reserved, Reserving
<1>4. DayInv'
  <2>1. ASSUME ~split'
        PROVE  Single'
    <3>1. ~split /\ running' = {p}
      BY <1>1, <2>1 DEF TypeOK
    <3>2. Single
      BY <3>1 DEF DayInv
    <3> QED BY <1>1, <3>1, <3>2 DEF Single, Ids
  <2> QED BY <1>1, <2>1 DEF DayInv
<1> QED BY <1>1, <1>2, <1>3, <1>4, OutboxKept

LEMMA RecycleInv ==
  ASSUME IInv, NEW p \in Procs, Recycle(p)
  PROVE  IInv'
<1> USE DEF IInv
<1>1. /\ lock' = None /\ UNCHANGED <<rows, job, got, doubt>>
      /\ UNCHANGED <<team, day, last, running, pinned, split, summary, faults>>
  BY DEF Recycle, clock, ghosts
<1>2. TypeOK'
  BY <1>1, OutboxKept DEF TypeOK
<1>3. Reserved' /\ DayInv'
  BY <1>1 DEF Reserved, Reserving, DayInv, Single, Ids
<1> QED BY <1>1, <1>2, <1>3, OutboxKept

LEMMA CloseInv ==
  ASSUME IInv, Close
  PROVE  IInv'
<1> USE DEF IInv
<1>1. /\ day < Days /\ day' = day + 1 /\ UNCHANGED <<rows, job, got, doubt>>
      /\ UNCHANGED <<team, last, lock, running, pinned, split, summary, faults>>
  BY DEF Close, lease, ghosts
<1>2. day \in Nat /\ last \in Nat /\ \A p \in Procs : summary[p] \in Nat
  BY NotificationsAssumption DEF TypeOK
<1>3. TypeOK'
  BY <1>1, <1>2, NotificationsAssumption, OutboxKept DEF TypeOK
<1>4. Reserved'
  BY <1>1 DEF Reserved, Reserving
<1>5. DayInv'
  <2>1. Single => Single'
    BY <1>1 DEF Single, Ids
  <2> QED BY <1>1, <1>2, <2>1 DEF DayInv
<1> QED BY <1>1, <1>3, <1>4, <1>5, OutboxKept

----------------------------------------------------------------------------
(* The daily summary *)

LEMMA SummaryStartInv ==
  ASSUME IInv, NEW p \in Procs, SummaryStart(p)
  PROVE  IInv'
<1> USE DEF IInv
<1>1. /\ p \in running /\ summary[p] = 0 /\ last # day /\ Room
      /\ summary' = [summary EXCEPT ![p] = day] /\ UNCHANGED <<rows, job, got, doubt>>
      /\ UNCHANGED <<team, day, last, lock, running, pinned, split, faults>>
  BY DEF SummaryStart, clock, lease, ghosts
<1>2. day \in 0..Days /\ day \in Nat /\ last \in Nat /\ last < day
  BY <1>1, NotificationsAssumption DEF TypeOK, DayInv
<1>3. /\ summary' \in [Procs -> 0..Days] /\ summary'[p] = day
      /\ \A q \in Procs : q # p => summary'[q] = summary[q]
  BY <1>1, <1>2 DEF TypeOK
<1>4. TypeOK'
  BY <1>1, <1>3, OutboxKept DEF TypeOK
<1>5. Reserved'
  BY <1>1, <1>2, ReservedStart
<1>6. DayInv'
  <2>1. Single => Single'
    BY <1>1, <1>2, <1>3 DEF Single, Ids
  <2> QED BY <1>1, <1>2, <1>3, <2>1 DEF DayInv
<1> QED BY <1>1, <1>4, <1>5, <1>6, OutboxKept

\* A summary that ends, with its row or without.
LEMMA SummaryEnds ==
  ASSUME IInv, NEW p \in Procs, summary[p] # 0, summary' = [summary EXCEPT ![p] = 0],
         UNCHANGED rows \/ Summarised(p),
         last' \in 0..Days, running' \subseteq running, pinned' \subseteq running',
         lock' \in {lock, None}, split' \in BOOLEAN, faults' \in 0..MaxFaults,
         UNCHANGED <<team, day, job, got, doubt>>
  PROVE  /\ job' = [d \in Dispatchers |-> job'[d]]
         /\ TypeOK' /\ Reserved' /\ BatchInv' /\ SentWasSeen' /\ DoubtInv'
         /\ \A q \in Procs : summary'[q] # 0 => q # p /\ summary'[q] = summary[q]
         /\ Ids' = Ids \/ (Ids' = Ids \cup {Len(rows) + 1} /\ Len(rows) + 1 \notin Ids)
         /\ \A m \in Ids : rows'[m] = rows[m]
         /\ \A m \in Ids' \ Ids : m = Len(rows) + 1 /\ rows'[m].day = summary[p]
<1> USE DEF IInv
<1>1. /\ summary' \in [Procs -> 0..Days]
      /\ \A q \in Procs : summary'[q] # 0 => q # p /\ summary'[q] = summary[q]
  BY NotificationsAssumption DEF TypeOK
<1>2. CASE UNCHANGED rows
  <2>1. /\ job' = [d \in Dispatchers |-> job'[d]]
        /\ \A d \in Dispatchers : \E S \in SUBSET Ids' : job'[d] \in BatchOf(S)
        /\ Ids' = Ids /\ BatchInv' /\ SentWasSeen' /\ DoubtInv'
    BY <1>2, OutboxKept
  <2>2. TypeOK'
    BY <1>1, <1>2, <2>1 DEF TypeOK
  <2>3. Reserved'
    BY <1>1, <1>2, RowIds, ReservedKept
  <2>4. (\A m \in Ids : rows'[m] = rows[m]) /\ Ids' \ Ids = {}
    BY <1>2, <2>1
  <2> QED BY <1>1, <2>1, <2>2, <2>3, <2>4
<1>3. CASE rows' # rows
  <2>1. PICK passes \in BOOLEAN : rows' = Append(rows, NewRow(passes, summary[p]))
    BY <1>3 DEF Summarised
  <2> DEFINE r == NewRow(passes, summary[p])
  <2>2. r \in Row /\ r.status # "sent" /\ r.day = summary[p]
    <3>1. summary[p] \in 0..Days
      BY DEF TypeOK
    <3> QED BY <3>1, NewRowType
  <2> HIDE DEF r
  <2>3. rows' = Append(rows, r)
    BY <2>1 DEF r
  <2>4. Len(rows) < MaxRows
    BY ReservedCommit
  <2>5. Grows(r)
    BY <2>2, <2>3, <2>4, AppendRow
  <2>6. /\ \A d \in Dispatchers : \E S \in SUBSET Ids' : job'[d] \in BatchOf(S)
        /\ BatchInv' /\ SentWasSeen' /\ DoubtInv'
    BY <2>2, <2>5, GrownInv
  <2>7. Reserved'
    BY <2>5, ReservedCommit DEF Grows
  <2>8. TypeOK'
    BY <1>1, <2>5, <2>6 DEF TypeOK, Grows
  <2> QED BY <1>1, <2>2, <2>5, <2>6, <2>7, <2>8 DEF Grows
<1> QED BY <1>2, <1>3

\* The row and the mark are committed together: while one loop runs, the mark is
\* later than every day a row has, and so is the day of the next summary.
LEMMA SummaryCommitInv ==
  ASSUME IInv, NEW p \in Procs, SummaryCommit(p)
  PROVE  IInv'
<1> USE DEF IInv
<1>1. summary[p] \in 0..Days /\ summary[p] \in Nat /\ summary[p] # 0
  BY NotificationsAssumption DEF TypeOK, SummaryCommit
<1>2. /\ last' = summary[p] /\ summary' = [summary EXCEPT ![p] = 0]
      /\ pinned' = pinned \ {p} /\ Summarised(p) /\ UNCHANGED <<job, got, doubt>>
      /\ UNCHANGED <<team, day, lock, running, split, faults>>
  BY DEF SummaryCommit, Unpin, ghosts
<1>3. last' \in 0..Days /\ pinned' \subseteq running' /\ split' \in BOOLEAN
      /\ faults' \in 0..MaxFaults
  BY <1>1, <1>2 DEF TypeOK
<1>4. /\ job' = [d \in Dispatchers |-> job'[d]]
      /\ TypeOK' /\ Reserved' /\ BatchInv' /\ SentWasSeen' /\ DoubtInv'
      /\ \A q \in Procs : summary'[q] # 0 => q # p /\ summary'[q] = summary[q]
      /\ Ids' = Ids \/ (Ids' = Ids \cup {Len(rows) + 1} /\ Len(rows) + 1 \notin Ids)
      /\ \A m \in Ids : rows'[m] = rows[m]
      /\ \A m \in Ids' \ Ids : m = Len(rows) + 1 /\ rows'[m].day = summary[p]
  BY <1>1, <1>2, <1>3, SummaryEnds
<1>5. p \in running /\ summary[p] <= day
  BY <1>1 DEF DayInv
<1>6. ASSUME Single
      PROVE  Single'
  <2>1. last < summary[p] /\ last \in Nat
    BY <1>1, <1>6, NotificationsAssumption DEF Single, TypeOK
  <2>2. \A q \in Procs : summary'[q] = 0
    BY <1>4, <1>5, <1>6 DEF Single, DayInv
  <2>3. \A m \in Ids : rows[m].day \in Nat /\ rows[m].day <= last
    BY <1>6, RowIds, NotificationsAssumption DEF Single, Row
  <2>4. \A m \in Ids' : rows'[m].day <= last'
    BY <1>1, <1>2, <1>4, <2>1, <2>3
  <2>5. \A m \in Ids : rows'[m].day < summary[p]
    BY <1>1, <1>4, <2>1, <2>3
  <2>6. \A m, n \in Ids' : rows'[m].day # 0 /\ rows'[m].day = rows'[n].day => m = n
    <3> TAKE m, n \in Ids'
    <3> HAVE rows'[m].day # 0 /\ rows'[m].day = rows'[n].day
    <3>1. CASE m \in Ids /\ n \in Ids
      BY <1>4, <1>6, <3>1 DEF Single
    <3>2. CASE m \notin Ids /\ n \notin Ids
      BY <1>4, <3>2
    <3>3. CASE m \in Ids /\ n \notin Ids
      BY <1>1, <1>4, <2>3, <2>5, <3>3
    <3>4. CASE m \notin Ids /\ n \in Ids
      BY <1>1, <1>4, <2>3, <2>5, <3>4
    <3> QED BY <3>1, <3>2, <3>3, <3>4
  <2> QED BY <1>2, <1>6, <2>2, <2>4, <2>6 DEF Single
<1>7. DayInv'
  BY <1>2, <1>4, <1>5, <1>6 DEF DayInv
<1> QED BY <1>4, <1>7

LEMMA SummaryLostInv ==
  ASSUME IInv, NEW p \in Procs, SummaryLost(p)
  PROVE  IInv'
<1> USE DEF IInv
<1>1. /\ summary[p] # 0 /\ summary' = [summary EXCEPT ![p] = 0]
      /\ faults < MaxFaults /\ faults' = faults + 1
      /\ pinned' = pinned \ {p} /\ UNCHANGED <<rows, job, got, doubt>>
      /\ UNCHANGED <<team, day, last, lock, running, split>>
  BY DEF SummaryLost, Unpin, clock, ghosts
<1>2. last' \in 0..Days /\ pinned' \subseteq running' /\ split' \in BOOLEAN
      /\ faults' \in 0..MaxFaults
  BY <1>1, NotificationsAssumption DEF TypeOK
<1>3. /\ job' = [d \in Dispatchers |-> job'[d]]
      /\ TypeOK' /\ Reserved' /\ BatchInv' /\ SentWasSeen' /\ DoubtInv'
      /\ \A q \in Procs : summary'[q] # 0 => q # p /\ summary'[q] = summary[q]
  BY <1>1, <1>2, SummaryEnds
<1>4. DayInv'
  <2>1. Single => Single'
    BY <1>1, <1>3 DEF Single, Ids
  <2> QED BY <1>1, <1>3, <2>1 DEF DayInv
<1> QED BY <1>3, <1>4

LEMMA SummaryCutInv ==
  ASSUME IInv, NEW p \in Procs, SummaryCut(p)
  PROVE  IInv'
<1> USE DEF IInv
<1>1. /\ summary[p] # 0 /\ summary' = [summary EXCEPT ![p] = 0] /\ split' = TRUE
      /\ faults < MaxFaults /\ faults' = faults + 1 /\ Summarised(p)
      /\ running' = running \ {p} /\ pinned' = pinned \ {p} /\ lock' \in {lock, None}
      /\ UNCHANGED <<job, got, doubt>> /\ UNCHANGED <<team, day, last>>
  BY DEF SummaryCut, Frees, clock, ghosts
<1>2. last' \in 0..Days /\ pinned' \subseteq running' /\ running' \subseteq running
      /\ split' \in BOOLEAN /\ faults' \in 0..MaxFaults
  BY <1>1, NotificationsAssumption DEF TypeOK
<1>3. /\ job' = [d \in Dispatchers |-> job'[d]]
      /\ TypeOK' /\ Reserved' /\ BatchInv' /\ SentWasSeen' /\ DoubtInv'
      /\ \A q \in Procs : summary'[q] # 0 => q # p /\ summary'[q] = summary[q]
  BY <1>1, <1>2, SummaryEnds
<1>4. DayInv'
  BY <1>1, <1>3 DEF DayInv
<1> QED BY <1>3, <1>4

----------------------------------------------------------------------------
(* The invariant *)

LEMMA InitInv == Init => IInv
<1> SUFFICES ASSUME Init
             PROVE  IInv
  OBVIOUS
<1> USE DEF Init
<1>1. Len(rows) = 0 /\ rows \in Seq(Row) /\ Ids = {}
  BY DEF Ids
<1>2. \A d \in Dispatchers : job[d] = Idle /\ Loaded(d) = {}
  BY IdleType DEF Loaded
<1>3. TypeOK
  <2>1. \A d \in Dispatchers : job[d] \in BatchOf({})
    BY <1>2, IdleType
  <2>2. \A d \in Dispatchers : \E S \in SUBSET Ids : job[d] \in BatchOf(S)
    BY <1>1, <2>1
  <2>3. 0 \in 0..Days /\ 0 \in 0..MaxFaults /\ Len(rows) <= MaxRows
    BY <1>1, NotificationsAssumption
  <2>4. summary \in [Procs -> 0..Days] /\ got \in [Rows -> 0..2]
    BY <2>3
  <2> QED BY <1>1, <2>2, <2>3, <2>4 DEF TypeOK
<1>4. Reserved
  <2>1. Reserving = {}
    BY DEF Reserving
  <2> QED BY <1>1, <2>1, FS_EmptySet, NotificationsAssumption DEF Reserved
<1>5. BatchInv /\ SentWasSeen
  BY <1>1, <1>2 DEF BatchInv, SentWasSeen
<1>6. DoubtInv
  BY <1>1, <1>2 DEF DoubtInv, Clear
<1>7. DayInv
  BY <1>1 DEF DayInv, Single
<1> QED BY <1>3, <1>4, <1>5, <1>6, <1>7 DEF IInv

LEMMA NextInv == IInv /\ [Next]_vars => IInv'
<1> SUFFICES ASSUME IInv, [Next]_vars
             PROVE  IInv'
  OBVIOUS
<1>1. CASE Enqueue
  BY <1>1, EnqueueInv
<1>2. CASE Close
  BY <1>2, CloseInv
<1>3. CASE \E d \in Testers : SendTest(d)
  BY <1>3, SendTestInv DEF Dispatchers
<1>4. CASE \E d \in Dispatchers : SendOne(d) \/ CommitBatch(d) \/ BatchLost(d)
  BY <1>4, SendOneInv, CommitBatchInv, BatchLostInv
<1>5. CASE \E p \in Procs :
             \/ Acquire(p) \/ Recycle(p) \/ LoopFetch(p) \/ Stops(p) \/ Cancelled(p)
             \/ SummaryStart(p) \/ SummaryCommit(p) \/ SummaryLost(p) \/ SummaryCut(p)
  BY <1>5, AcquireInv, RecycleInv, LoopFetchInv, StopsInv, CancelledInv, SummaryStartInv,
     SummaryCommitInv, SummaryLostInv, SummaryCutInv
<1>6. CASE UNCHANGED vars
  <2>1. /\ UNCHANGED <<rows, job, got, doubt>>
        /\ UNCHANGED <<team, day, last, lock, running, pinned, split, summary, faults>>
    BY <1>6 DEF vars
  <2>2. TypeOK'
    BY <2>1, OutboxKept DEF TypeOK, IInv
  <2>3. Reserved' /\ DayInv'
    BY <2>1 DEF IInv, Reserved, Reserving, DayInv, Single, Ids
  <2> QED BY <2>1, <2>2, <2>3, OutboxKept DEF IInv
<1> QED BY <1>1, <1>2, <1>3, <1>4, <1>5, <1>6 DEF Next

LEMMA Invariance == Spec => []IInv
BY InitInv, NextInv, PTL DEF Spec

\* Every variable keeps its type: batches hold rows that exist, no row is tried
\* more often than MaxAttempts, and a summary always finds room.
THEOREM TypeCorrect == Spec => []TypeOK
<1>1. IInv => TypeOK
  BY DEF IInv
<1> QED BY <1>1, Invariance, PTL

\* A row is marked sent only after its message was seen, whatever batches, test
\* requests, crashes and lost commits come between the send and the mark.
THEOREM SentHolds == Spec => []SentWasSeen
<1>1. IInv => SentWasSeen
  BY DEF IInv
<1> QED BY <1>1, Invariance, PTL

\* A message that was seen twice was in two batches at once, or its outcome or
\* its answer was lost: the lock, the attempts and the commits add no other way.
THEOREM TwiceHolds == Spec => []TwiceExplained
<1>1. IInv => TwiceExplained
  <2>1. ASSUME IInv, NEW m \in Rows, got[m] > 1
        PROVE  m \in doubt
    <3>1. got[m] \in 0..2
      BY <2>1 DEF IInv, TypeOK
    <3> QED BY <2>1, <3>1 DEF IInv, DoubtInv, Clear
  <2> QED BY <2>1 DEF TwiceExplained
<1> QED BY <1>1, Invariance, PTL

\* A day's summary is queued once unless two loops ran at the same time or one was
\* cancelled while it wrote it: the row and the mark of the day go into one commit.
THEOREM SummaryHolds == Spec => []OneSummary
<1>1. IInv => OneSummary
  BY DEF IInv, DayInv, Single, OneSummary
<1> QED BY <1>1, Invariance, PTL

=============================================================================
