---------------------------- MODULE Deployments ----------------------------
(***************************************************************************)
(* The lifecycle of paper and simulation deployments: requests of the API  *)
(* (deployment_service._transition), each in a session of its own, beside  *)
(* DeploymentWorker.tick, one session for a whole poll.  Each deployment   *)
(* trades one instrument; its strategy asks for at most one order a bar.   *)
(*                                                                         *)
(* A worker session keeps the statuses it loaded until the commit of an    *)
(* order expires them.  The ERROR of a deployment that raised is flushed,  *)
(* so its row is locked, and is committed by the next order or at the end  *)
(* of the tick; a database error leaves the session unusable, so the       *)
(* exception handler raises too and the tick is abandoned: the session is  *)
(* rolled back and the runtime stays, with the last_bar_ts it had.         *)
(***************************************************************************)
EXTENDS Naturals, Sequences

CONSTANTS
  Deps,      \* the deployments
  NoDep,     \* "no deployment"
  Threads,   \* the request threads of the API
  Window,    \* worker_candle_lookback, in bars
  MaxBar,    \* bound: bars of the market
  MaxOps,    \* bound: requests that pass their status check
  MaxFaults  \* bound: exceptions, failed commits, missing feeds and restarts

ASSUME DeploymentAssumption ==
  /\ NoDep \notin Deps
  /\ Window \in Nat \ {0} /\ MaxBar \in Nat /\ MaxOps \in Nat /\ MaxFaults \in Nat

Status == {"PENDING", "RUNNING", "PAUSED", "STOPPED", "ERROR"}
Loaded == {"RUNNING", "PAUSED"}

From == [deploy |-> {"PENDING", "STOPPED"},
         pause  |-> {"RUNNING"},
         resume |-> {"PAUSED"},
         stop   |-> {"RUNNING", "PAUSED", "ERROR"}]
To   == [deploy |-> "RUNNING", pause |-> "PAUSED", resume |-> "RUNNING", stop |-> "STOPPED"]
Ops  == DOMAIN From

VARIABLES
  row,      \* the committed Deployment.status
  audit,    \* before and after of the last committed audit row on the status
  request,  \* per thread, the request between its check and its commit
  polling,  \* whether a tick is under way
  active,   \* active_ids
  cached,   \* the statuses the worker's session holds, or "expired"
  todo,     \* the loaded deployments the loop has not come to
  cur,      \* the deployment under _evaluate
  bars,     \* the new bars it has not been fed, or not been done with
  placed,   \* whether the order on the first of them is committed
  dirty,    \* the deployments whose ERROR is flushed and not committed
  on,       \* keys of _runtimes
  last,     \* last_bar_ts; 0: none
  latest,   \* the newest bar of the market
  traded,   \* history: per instance, the bars it committed orders on
  torn,     \* history: per instance, the bars it committed an order on in a tick
            \* that was abandoned before it took the bar for seen
  ran,      \* history: deployments that were RUNNING at a moment of this tick
  ops, faults

rows    == <<row, audit, request, ops>>
session == <<polling, active, cached, todo, cur, bars, placed, dirty>>
runtime == <<on, last, traded, torn>>
vars    == <<rows, session, runtime, latest, ran, faults>>

NoRequest == [dep |-> NoDep]
Request   == [dep : Deps, op : Ops, before : Status]

TypeOK ==
  /\ row \in [Deps -> Status]
  /\ audit \in [Deps -> [before : Status, after : Status]]
  /\ request \in [Threads -> Request \cup {NoRequest}]
  /\ polling \in BOOLEAN
  /\ active \subseteq Deps /\ todo \subseteq active
  /\ cached \in [Deps -> Status \cup {"expired"}]
  /\ cur \in Deps \cup {NoDep} /\ bars \subseteq 1..MaxBar
  /\ placed \in BOOLEAN
  /\ dirty \subseteq Deps /\ on \subseteq Deps
  /\ last \in [Deps -> 0..MaxBar] /\ latest \in 0..MaxBar
  /\ traded \in [Deps -> Seq(1..MaxBar)] /\ torn \in [Deps -> SUBSET (1..MaxBar)]
  /\ ran \subseteq Deps
  /\ ops \in 0..MaxOps /\ faults \in 0..MaxFaults

Init ==
  /\ row = [d \in Deps |-> "PENDING"]
  /\ audit = [d \in Deps |-> [before |-> "PENDING", after |-> "PENDING"]]
  /\ request = [t \in Threads |-> NoRequest]
  /\ polling = FALSE /\ active = {} /\ cached = [d \in Deps |-> "expired"]
  /\ todo = {} /\ cur = NoDep /\ bars = {} /\ placed = FALSE /\ dirty = {}
  /\ on = {} /\ last = [d \in Deps |-> 0] /\ latest = 0
  /\ traded = [d \in Deps |-> <<>>] /\ torn = [d \in Deps |-> {}] /\ ran = {}
  /\ ops = 0 /\ faults = 0

----------------------------------------------------------------------------
(* _transition, in a thread of the API *)

\* The row is read and its status is checked against expected_from ...
Check(t, d, op) ==
  /\ request[t] = NoRequest /\ ops < MaxOps
  /\ row[d] \in From[op]
  /\ request' = [request EXCEPT ![t] = [dep |-> d, op |-> op, before |-> row[d]]]
  /\ ops' = ops + 1
  /\ UNCHANGED <<row, audit, session, runtime, latest, ran, faults>>

\* ... and written with its audit row, once the row is not locked.
Write(t) ==
  LET r == request[t] IN
  /\ r # NoRequest /\ r.dep \notin dirty
  /\ row' = [row EXCEPT ![r.dep] = To[r.op]]
  /\ audit' = [audit EXCEPT ![r.dep] = [before |-> r.before, after |-> To[r.op]]]
  /\ request' = [request EXCEPT ![t] = NoRequest]
  /\ ran' = IF To[r.op] = "RUNNING" THEN ran \cup {r.dep} ELSE ran
  /\ UNCHANGED <<session, runtime, latest, ops, faults>>

----------------------------------------------------------------------------
(* DeploymentWorker.tick *)

Load ==
  /\ ~polling /\ polling' = TRUE
  /\ active' = {d \in Deps : row[d] \in Loaded} /\ todo' = active'
  /\ cached' = row
  /\ ran' = {d \in Deps : row[d] = "RUNNING"}
  /\ UNCHANGED <<rows, cur, bars, placed, dirty, runtime, latest, faults>>

StatusOf(d) == IF cached[d] = "expired" THEN row[d] ELSE cached[d]

\* Changed: whatever was loaded is evaluated.
EvaluatesLoaded(d) == d \in active
Evaluates(d) == StatusOf(d) = "RUNNING"

\* Changed: a new instance is anchored and not fed.
NewBarsAnchored(d, seen) ==
  {b \in 1..latest : seen # 0 /\ b > seen /\ b + Window > latest}

\* recent_bars, less what the instance has seen: all newer bars of the
\* window, or for a new instance only the latest.
NewBars(d, seen) ==
  IF seen = 0 THEN {latest} \ {0}
  ELSE {b \in 1..latest : b > seen /\ b + Window > latest}

\* The loop comes to d; a deployment without a runtime gets a new instance.
Begin(d) ==
  LET seen == IF d \in on THEN last[d] ELSE 0 IN
  /\ polling /\ cur = NoDep /\ d \in todo
  /\ todo' = todo \ {d}
  /\ cached' = [cached EXCEPT ![d] = StatusOf(d)]
  /\ IF Evaluates(d)
     THEN /\ on' = on \cup {d}
          /\ last' = [last EXCEPT ![d] = seen]
          /\ traded' = IF d \in on THEN traded ELSE [traded EXCEPT ![d] = <<>>]
          /\ torn' = IF d \in on THEN torn ELSE [torn EXCEPT ![d] = {}]
          /\ \/ cur' = d /\ bars' = NewBars(d, seen) /\ UNCHANGED faults
             \/ /\ faults < MaxFaults /\ faults' = faults + 1  \* no market feed
                /\ UNCHANGED <<cur, bars>>
     ELSE UNCHANGED <<runtime, cur, bars, faults>>
  /\ UNCHANGED <<rows, polling, active, placed, dirty, latest, ran>>

\* Changed: the rows are committed and their audit rows are not.
CommitRowsOnly ==
  /\ row' = [d \in Deps |-> IF d \in dirty THEN "ERROR" ELSE row[d]]
  /\ dirty' = {}
  /\ UNCHANGED audit

\* A commit of the worker's session
Commit ==
  /\ row' = [d \in Deps |-> IF d \in dirty THEN "ERROR" ELSE row[d]]
  /\ audit' = [d \in Deps |-> IF d \in dirty THEN [before |-> "RUNNING", after |-> "ERROR"]
                              ELSE audit[d]]
  /\ dirty' = {}

\* Changed: the bars are taken for seen when all of them are done.
SeenAtEnd(b) == last' = IF bars = {b} THEN [last EXCEPT ![cur] = b] ELSE last
Seen(b) == last' = [last EXCEPT ![cur] = b]

\* The bar at hand
First == {b \in bars : \A c \in bars : b <= c}

\* A bar is fed that brings no order, or one that RISK rejects, whose row is
\* committed later.
Feed(b) ==
  /\ cur # NoDep /\ ~placed /\ b \in First
  /\ bars' = bars \ {b} /\ Seen(b)
  /\ UNCHANGED <<rows, polling, active, cached, todo, cur, placed, dirty, on, traded, torn,
                 latest, ran, faults>>

\* A bar is fed that brings an order, and the executor commits its row ...
Place(b) ==
  /\ cur # NoDep /\ ~placed /\ b \in First
  /\ Commit
  /\ cached' = [d \in Deps |-> "expired"]
  /\ traded' = [traded EXCEPT ![cur] = Append(@, b)]
  /\ placed' = TRUE
  /\ UNCHANGED <<request, ops, polling, active, todo, cur, bars, on, last, torn, latest, ran, faults>>

\* ... and, when the row is reloaded and its audit row flushed, the bar is done.
Record(b) ==
  /\ placed /\ b \in First
  /\ bars' = bars \ {b} /\ Seen(b)
  /\ placed' = FALSE
  /\ UNCHANGED <<rows, polling, active, cached, todo, cur, dirty, on, traded, torn, latest, ran, faults>>

Done ==
  /\ cur # NoDep /\ bars = {}
  /\ cur' = NoDep
  /\ UNCHANGED <<rows, polling, active, cached, todo, bars, placed, dirty, runtime, latest, ran, faults>>

\* The strategy, the feed, RISK or the reload of the order's row raises and the
\* session is usable: the deployment's row becomes ERROR, the instance is gone.
Raise ==
  /\ cur # NoDep /\ faults < MaxFaults /\ faults' = faults + 1
  /\ dirty' = dirty \cup {cur}
  /\ on' = on \ {cur} /\ cur' = NoDep /\ bars' = {} /\ placed' = FALSE
  /\ cached' = [cached EXCEPT ![cur] = "ERROR"]
  /\ UNCHANGED <<rows, polling, active, todo, last, traded, torn, latest, ran>>

\* The session is closed.
Closed == polling' = FALSE /\ active' = {} /\ cached' = [d \in Deps |-> "expired"]

Rollback ==
  /\ Closed /\ todo' = {}
  /\ cur' = NoDep /\ bars' = {} /\ placed' = FALSE /\ dirty' = {}
  /\ UNCHANGED <<rows, latest, ran>>

\* A database error, anywhere in the tick before its teardown.
Abandon ==
  /\ polling /\ faults < MaxFaults /\ faults' = faults + 1
  /\ torn' = IF placed THEN [torn EXCEPT ![cur] = @ \cup First] ELSE torn
  /\ Rollback /\ UNCHANGED <<on, last, traded>>

\* Changed: nothing is torn down when nothing is loaded.
KeptIfIdle == IF active = {} THEN on ELSE on \cap active
Kept == on \cap active

\* The rest of the tick: runtimes are torn down, the session is committed ...
Finish ==
  /\ polling /\ todo = {} /\ cur = NoDep
  /\ on' = Kept
  /\ Commit /\ Closed
  /\ UNCHANGED <<request, ops, todo, cur, bars, placed, last, traded, torn, latest, ran, faults>>

\* ... or its commit fails.
FinishFails ==
  /\ polling /\ todo = {} /\ cur = NoDep
  /\ faults < MaxFaults /\ faults' = faults + 1
  /\ on' = Kept
  /\ Rollback /\ UNCHANGED <<last, traded, torn>>

\* The worker process is restarted.
Restart ==
  /\ faults < MaxFaults /\ faults' = faults + 1
  /\ on' = {}
  /\ Rollback /\ UNCHANGED <<last, traded, torn>>

----------------------------------------------------------------------------
NewBar ==
  /\ latest < MaxBar /\ latest' = latest + 1
  /\ UNCHANGED <<rows, session, runtime, ran, faults>>

Worker ==
  \/ Load \/ (\E d \in Deps : Begin(d)) \/ (\E b \in bars : Feed(b) \/ Place(b) \/ Record(b))
  \/ Done \/ Raise \/ Abandon \/ Finish \/ FinishFails

Next ==
  \/ \E t \in Threads : Write(t) \/ \E d \in Deps, op \in Ops : Check(t, d, op)
  \/ Worker \/ Restart \/ NewBar

Spec == Init /\ [][Next]_vars

\* run_forever polls for ever.
FairSpec == Spec /\ WF_vars(Worker)

----------------------------------------------------------------------------
(* Properties *)

\* The last audit row on the status of a deployment tells its status, through
\* concurrent requests, exceptions of the worker and abandoned ticks.
StatusAudited == \A d \in Deps : audit[d].after = row[d]

\* An instance trades its bars in order and each once, also when a tick is
\* abandoned and the next one fetches the window again; except that a bar whose
\* order was committed in a tick abandoned before last_bar_ts is traded again.
TradesAdvance ==
  \A d \in Deps : \A i, j \in DOMAIN traded[d] : i < j =>
    \/ traded[d][i] < traded[d][j]
    \/ traded[d][i] = traded[d][j] /\ traded[d][i] \in torn[d]

\* A pause or a stop takes effect within one tick: no order is committed for a
\* deployment that was RUNNING at no moment of the tick, whatever its session
\* has cached.
PauseHolds == [][\A d \in Deps : Len(traded'[d]) > Len(traded[d]) => d \in ran]_vars

\* A RUNNING deployment is fed the latest bar in the end, whatever the others
\* do, when exceptions are few.
Fed ==
  \A d \in Deps :
    row[d] = "RUNNING" ~> (row[d] # "RUNNING" \/ (d \in on /\ last[d] = latest))

\* The runtime of a stopped deployment is torn down.
TornDown == \A d \in Deps : row[d] = "STOPPED" ~> (row[d] # "STOPPED" \/ d \notin on)

=============================================================================
