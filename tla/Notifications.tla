---------------------------- MODULE Notifications ----------------------------
(***************************************************************************)
(* The outbox of outbound messages and the loop that empties it            *)
(* (app/notifications).  Trade paths insert rows on their own transaction; *)
(* in every API process a loop tries to take a Postgres advisory lock, and *)
(* the one that gets it fetches the oldest due rows, sends them one by one *)
(* and commits the outcome of the whole batch.  "Send a test message"      *)
(* empties the same outbox from a request, beside the loop.                *)
(*                                                                         *)
(* The lock belongs to a database CONNECTION.  The loop's session gives    *)
(* its connection back to the pool at its first commit, the pool retires   *)
(* it when it is half an hour old, and the loop never asks again whether   *)
(* it still holds the lock: the same pattern, word for word, runs the      *)
(* paper account, the market scanner and the screener.                     *)
(***************************************************************************)
EXTENDS Integers, Sequences, FiniteSets, FiniteSetsExt

CONSTANTS
    Procs,         \* the API processes (uvicorn workers, replicas)
    Testers,       \* requests that send a test message
    Teams,         \* bound: the dispatchers that may be up in one behaviour
    None,          \* no holder of the lock
    MaxRows,       \* bound: rows the outbox ever holds
    Limit,         \* rows the loop fetches at once (20)
    TestLimit,     \* rows a test request fetches at once (5)
    MaxAttempts,   \* _MAX_ATTEMPTS (5)
    Days,          \* bound: market closes that pass
    MaxFaults      \* bound: crashes, failed loops and lost batches

ASSUME NotificationsAssumption ==
    /\ IsFiniteSet(Procs) /\ None \notin Procs /\ Procs \cap Testers = {}
    /\ Teams \subseteq SUBSET (Procs \cup Testers)
    /\ MaxRows \in Nat /\ Limit \in Nat \ {0} /\ TestLimit \in Nat \ {0}
    /\ MaxAttempts \in Nat \ {0} /\ Days \in Nat /\ MaxFaults \in Nat

Rows == 1..MaxRows
Dispatchers == Procs \cup Testers
Statuses == {"pending", "failed", "sent", "skipped"}

VARIABLES
    team,      \* the dispatchers that are up
    rows,      \* the committed outbox, oldest first: [status, attempts, day]
    day,       \* market closes seen so far: today
    last,      \* cfg.last_summary_day
    lock,      \* the process whose pool has the connection that holds the lock
    running,   \* processes inside the loop's inner while
    pinned,    \* processes whose loop still keeps the connection that locked
    job,       \* each dispatcher's batch: its session's rows, and those to send
    summary,   \* the day a loop is writing the daily summary for, 0 = none
    got,       \* ghost: deliveries of each row the recipient has seen,
               \* two standing for more
    doubt,     \* ghost: rows two batches held at once, and delivered rows whose
               \* outcome or answer was lost
    split,     \* ghost: a loop started while another one was running, or the thread
               \* of a cancelled one queued its summary
    faults

vars == <<team, rows, day, last, lock, running, pinned, job, summary,
          got, doubt, split, faults>>
clock   == <<day, last>>
lease   == <<lock, running, pinned, split>>
ghosts  == <<got, doubt>>

\* A batch: the rows still to send, the rows as loaded, and the rows as the
\* session has them now.
Idle == [todo |-> {}, loaded |-> <<>>, now |-> <<>>]
Working(d) == job[d] # Idle
Loaded(d) == DOMAIN job[d].loaded

Ids == 1..Len(rows)
Row == [status : Statuses, attempts : 0..MaxAttempts, day : 0..Days]
BatchOf(S) == [todo : SUBSET S, loaded : [S -> Row], now : [S -> Row]]

TypeOK ==
    /\ team \in Teams
    /\ rows \in Seq(Row) /\ Len(rows) <= MaxRows
    /\ day \in 0..Days /\ last \in 0..Days
    /\ lock \in Procs \cup {None}
    /\ running \subseteq Procs /\ pinned \subseteq running
    /\ \A d \in Dispatchers : \E S \in SUBSET Ids : job[d] \in BatchOf(S)
    /\ summary \in [Procs -> 0..Days]
    /\ got \in [Rows -> 0..2]
    /\ doubt \subseteq Rows
    /\ split \in BOOLEAN /\ faults \in 0..MaxFaults

Init ==
    /\ team \in Teams /\ rows = <<>>
    /\ day = 0 /\ last = 0
    /\ lock = None /\ running = {} /\ pinned = {}
    /\ job = [d \in Dispatchers |-> Idle]
    /\ summary = [p \in Procs |-> 0]
    /\ got = [m \in Rows |-> 0] /\ doubt = {}
    /\ split = FALSE /\ faults = 0

-----------------------------------------------------------------------------
(* The outbox. *)

\* What enqueue stores: skipped when the switch, the toggle of its kind or the
\* grade filter says so.
NewRow(wanted, d) ==
    [status |-> IF wanted THEN "pending" ELSE "skipped", attempts |-> 0, day |-> d]

\* Bound: a summary that was started has a place.
Room == Len(rows) + Cardinality({p \in Procs : summary[p] # 0}) < MaxRows

\* An event site commits the transaction its message rides on.
Enqueue ==
    /\ Room
    /\ \E passes \in BOOLEAN : rows' = Append(rows, NewRow(passes, 0))
    /\ UNCHANGED <<team, clock, lease, job, summary, ghosts, faults>>

\* Changed: an attempt more is always due.
DueForever(m) == rows[m].status \in {"pending", "failed"}
\* The rows dispatch_pending asks for.
Due(m) == rows[m].status \in {"pending", "failed"} /\ rows[m].attempts < MaxAttempts

Oldest(n) ==
    {m \in Ids : Due(m) /\ Cardinality({k \in Ids : k < m /\ Due(k)}) < n}

\* Rows in the batch of another dispatcher.
Held(d) == UNION {Loaded(e) : e \in Dispatchers \ {d}}

\* Changed: a failed attempt is not counted.
OutcomeUncounted(was, how) ==
    CASE how = "skipped" -> [was EXCEPT !.status = "skipped"]
      [] how = "ok"      -> [was EXCEPT !.status = "sent", !.attempts = @ + 1]
      [] OTHER           -> [was EXCEPT !.status = "failed"]
\* Changed: a refused message counts as sent.
OutcomeHopeful(was, how) ==
    IF how = "skipped" THEN [was EXCEPT !.status = "skipped"]
    ELSE [was EXCEPT !.status = "sent", !.attempts = @ + 1]

\* The row as the session will write it once its send has ended.
Outcome(was, how) ==
    CASE how = "skipped" -> [was EXCEPT !.status = "skipped"]
      [] how = "ok"      -> [was EXCEPT !.status = "sent", !.attempts = @ + 1]
      [] OTHER           -> [was EXCEPT !.status = "failed", !.attempts = @ + 1]

\* The configuration may be edited at any time: a message passes the toggles or
\* it does not, a batch finds a bot token and a chat id or all of it is skipped.
Batches(queue, table) ==
    LET was == [m \in queue |-> table[m]]
    IN  {[todo |-> queue, loaded |-> was, now |-> was],
         [todo |-> {}, loaded |-> was,
          now |-> [m \in queue |-> Outcome(was[m], "skipped")]]}

LoopFetch(p) ==
    /\ p \in running /\ summary[p] = 0 /\ ~Working(p)
    /\ LET queue == Oldest(Limit)
       IN  /\ queue # {}
           /\ \E b \in Batches(queue, rows) : job' = [job EXCEPT ![p] = b]
           /\ doubt' = doubt \cup (queue \cap Held(p))
    /\ UNCHANGED <<team, rows, clock, lease, summary, got, faults>>

\* send_test: the request adds a row of its own, past the toggles, commits it,
\* and dispatches the oldest due rows, whichever they are.
SendTest(d) ==
    /\ d \in team /\ ~Working(d) /\ Room
    /\ rows' = Append(rows, NewRow(TRUE, 0))
    /\ LET queue == Oldest(TestLimit)'
       IN  /\ \E b \in Batches(queue, rows') : job' = [job EXCEPT ![d] = b]
           /\ doubt' = doubt \cup (queue \cap Held(d))
    /\ UNCHANGED <<team, clock, lease, summary, got, faults>>

\* What the recipient saw.  Telegram may have taken a message whose answer was
\* lost: send_message then tries again, up to three times, or gives up.
Answers == {[how |-> "ok", seen |-> 1], [how |-> "ok", seen |-> 2],
            [how |-> "error", seen |-> 0], [how |-> "error", seen |-> 1]}
Blurred(a) == a \in {[how |-> "ok", seen |-> 2], [how |-> "error", seen |-> 1]}

SendOne(d) ==
    /\ \E m \in job[d].todo, a \in Answers :
         /\ \A k \in job[d].todo : m <= k
         /\ job' = [job EXCEPT ![d].todo = @ \ {m}, ![d].now[m] = Outcome(@, a.how)]
         /\ got' = [got EXCEPT ![m] = Min({2, @ + a.seen})]
         /\ doubt' = IF Blurred(a) THEN doubt \cup {m} ELSE doubt
    /\ UNCHANGED <<team, rows, clock, lease, summary, faults>>

\* db.commit() writes the attributes the session changed, and only those: a row
\* that was failed and failed again keeps whatever status is in the table.
WrittenCount(m, was, new) == [rows[m] EXCEPT !.attempts = new.attempts]
Written(m, was, new) ==
    [rows[m] EXCEPT !.status = IF new.status = was.status THEN @ ELSE new.status,
                    !.attempts = IF new.attempts = was.attempts THEN @ ELSE new.attempts]

\* The end of a transaction gives the session's connection back to the pool.
Unpin(d) == pinned' = pinned \ {d} /\ UNCHANGED <<lock, running, split>>

\* The table with the rows of d's session as they are in now.
Flushed(d, now) ==
    [m \in Ids |-> IF m \in Loaded(d) THEN Written(m, job[d].loaded[m], now[m])
                   ELSE rows[m]]

CommitBatch(d) ==
    /\ Working(d) /\ job[d].todo = {}
    /\ rows' = Flushed(d, job[d].now)
    /\ job' = [job EXCEPT ![d] = Idle]
    /\ Unpin(d)
    /\ UNCHANGED <<team, clock, summary, ghosts, faults>>

-----------------------------------------------------------------------------
(* What goes wrong. *)

SentOf(d) == {m \in Loaded(d) : job[d].now[m].status = "sent"}

\* The session's changes are gone, what was sent is not.
Lose(d) ==
    /\ job' = [job EXCEPT ![d] = Idle]
    /\ doubt' = doubt \cup SentOf(d)

\* An error that is not a TelegramError (a body that is not JSON), or a commit
\* that fails: the loop rolls back and goes on, the request ends.
BatchLost(d) ==
    /\ Working(d) /\ faults < MaxFaults
    /\ Lose(d)
    /\ faults' = faults + 1
    /\ Unpin(d)
    /\ UNCHANGED <<team, rows, clock, summary, got>>

\* A loop that ends unlocks on whatever connection the pool hands over: the one that
\* locked or another.
Frees(p) ==
    /\ running' = running \ {p} /\ pinned' = pinned \ {p}
    /\ \/ lock' = lock /\ p \notin pinned
       \/ lock' = IF lock = p THEN None ELSE lock

\* The process dies, or an error leaves the inner loop.
Stops(p) ==
    /\ p \in running /\ faults < MaxFaults
    /\ Frees(p)
    /\ Lose(p)
    /\ summary' = [summary EXCEPT ![p] = 0]
    /\ faults' = faults + 1
    /\ UNCHANGED <<team, rows, clock, split, got>>

\* stop() waits five seconds and then cancels the loop, but not the thread its cycle
\* runs in.  The unlock's commit writes what the session has of the batch, with an
\* attempt at the message m on its way; the send of m goes on, and the thread fails
\* at the next row, which its closed session does not know any more.
Cancelled(p) ==
    /\ p \in running /\ faults < MaxFaults
    /\ Frees(p)
    /\ \E m \in job[p].todo, a \in Answers :
         /\ \A k \in job[p].todo : m <= k
         /\ rows' = Flushed(p, [job[p].now EXCEPT ![m].attempts = @ + 1])
         /\ got' = [got EXCEPT ![m] = Min({2, @ + a.seen})]
         /\ doubt' = IF a.seen > 0 THEN doubt \cup {m} ELSE doubt
    /\ job' = [job EXCEPT ![p] = Idle]
    /\ summary' = [summary EXCEPT ![p] = 0]
    /\ faults' = faults + 1
    /\ UNCHANGED <<team, clock, split>>

-----------------------------------------------------------------------------
(* The lock. *)

\* pg_try_advisory_lock succeeds when nobody holds the lock, or on the very
\* connection that already does.
Acquire(p) ==
    /\ p \in team \ running /\ lock \in {None, p}
    /\ lock' = p
    /\ running' = running \cup {p} /\ pinned' = pinned \cup {p}
    /\ split' = (split \/ running # {})
    /\ UNCHANGED <<team, rows, clock, job, summary, ghosts, faults>>

\* The pool retires the connection (pool_recycle, or it was one too many), and
\* Postgres frees what it held.
Recycle(p) ==
    /\ lock = p /\ p \notin pinned
    /\ lock' = None
    /\ UNCHANGED <<team, rows, clock, running, pinned, split, job, summary, ghosts, faults>>

-----------------------------------------------------------------------------
(* The daily summary. *)

Close ==
    /\ day < Days /\ day' = day + 1
    /\ UNCHANGED <<team, rows, last, lease, job, summary, ghosts, faults>>

\* maybe_send_daily_summary, when it is switched on, reads the mark ...
SummaryStart(p) ==
    /\ p \in running /\ ~Working(p) /\ summary[p] = 0
    /\ last # day /\ Room
    /\ summary' = [summary EXCEPT ![p] = day]
    /\ UNCHANGED <<team, rows, clock, lease, job, ghosts, faults>>

\* enqueue stores the row or, where it fails, undoes its savepoint and says nothing.
Summarised(p) ==
    \/ UNCHANGED rows
    \/ \E passes \in BOOLEAN : rows' = Append(rows, NewRow(passes, summary[p]))

\* Changed: the day is not marked as summarised.
SummaryUnmarked(p) ==
    /\ summary[p] # 0
    /\ Summarised(p)
    /\ summary' = [summary EXCEPT ![p] = 0]
    /\ Unpin(p)
    /\ UNCHANGED <<team, clock, job, ghosts, faults>>

\* ... gathers the figures, and commits the row and the mark together.
SummaryCommit(p) ==
    /\ summary[p] # 0
    /\ Summarised(p)
    /\ last' = summary[p]
    /\ summary' = [summary EXCEPT ![p] = 0]
    /\ Unpin(p)
    /\ UNCHANGED <<team, day, job, ghosts, faults>>

\* The commit fails, or anything before it: the cycle rolls back and goes on.
SummaryLost(p) ==
    /\ summary[p] # 0 /\ faults < MaxFaults
    /\ summary' = [summary EXCEPT ![p] = 0]
    /\ faults' = faults + 1
    /\ Unpin(p)
    /\ UNCHANGED <<team, rows, clock, job, ghosts>>

\* stop() cancels the loop in mid summary: the thread commits the row, but sets the
\* mark on a configuration row its closed session does not know any more.
SummaryCut(p) ==
    /\ summary[p] # 0 /\ faults < MaxFaults
    /\ Frees(p)
    /\ Summarised(p) /\ split' = TRUE
    /\ summary' = [summary EXCEPT ![p] = 0]
    /\ faults' = faults + 1
    /\ UNCHANGED <<team, clock, job, ghosts>>

Next ==
    \/ Enqueue \/ Close
    \/ \E d \in Testers : SendTest(d)
    \/ \E d \in Dispatchers : SendOne(d) \/ CommitBatch(d) \/ BatchLost(d)
    \/ \E p \in Procs :
          \/ Acquire(p) \/ Recycle(p) \/ LoopFetch(p) \/ Stops(p) \/ Cancelled(p)
          \/ SummaryStart(p) \/ SummaryCommit(p) \/ SummaryLost(p) \/ SummaryCut(p)

Spec == Init /\ [][Next]_vars

\* A started batch or summary runs to its end, a loop comes round every ten
\* seconds and a process without the lock asks for it every 45.  At most one of
\* the four steps of a dispatcher is possible at a time.
Runs(d) ==
    \/ SendOne(d) \/ CommitBatch(d)
    \/ d \in Procs /\ (LoopFetch(d) \/ SummaryCommit(d))
Fairness ==
    /\ \A d \in Dispatchers : WF_vars(Runs(d))
    /\ \A p \in Procs : WF_vars(Acquire(p))

FairSpec == Spec /\ Fairness

-----------------------------------------------------------------------------
(* Properties. *)

\* A row is marked sent only after the recipient saw its message: no outcome is
\* written for another row, or before the send.
SentWasSeen == \A m \in Ids : rows[m].status = "sent" => got[m] > 0

\* A message reaches the recipient twice only where this design gives it up: two
\* dispatchers had it at once, its outcome was lost, or its answer was.
TwiceExplained == \A m \in Rows : got[m] > 1 => m \in doubt

\* A day's summary is queued once, unless two loops ran at the same time or one was
\* cancelled while it wrote it.
OneSummary ==
    \A m, n \in Ids :
      rows[m].day # 0 /\ rows[m].day = rows[n].day /\ m # n => split

\* Every message settles for good: sent, skipped, or given up after the last
\* attempt; older messages that keep failing do not hold it up.
Open(m) ==
    m \in Ids /\ rows[m].status \in {"pending", "failed"} /\ rows[m].attempts < MaxAttempts
Drains == \A m \in Rows : <>[]~Open(m)

=============================================================================
