------------------------------- MODULE Baskets -------------------------------
(***************************************************************************)
(* Baskets deployed in the paper account (app/baskets/paper.py): the loop  *)
(* that rebalances each of them once a period, and the requests that       *)
(* deploy, rebalance, undeploy and delete them in threads of their own.    *)
(*                                                                         *)
(* A rebalance reads what the basket holds from its tagged orders, fetches *)
(* history and prices over the network, and then places one order after    *)
(* the other, each committed by itself.  A lock of the process is held     *)
(* over all of it; undeploy does not take that lock.                       *)
(*                                                                         *)
(* Bound: every share costs one unit and orders cost nothing, so the       *)
(* portfolio value of a basket is its capital.                             *)
(***************************************************************************)
EXTENDS Integers, FiniteSets, FiniteSetsExt

CONSTANTS
    Baskets,
    Capital,     \* the capital of each basket
    Symbols,     \* the stocks, as numbers: in the order of their names
    Rankings,    \* bound: the outcomes of resolve_targets, as sets of stocks
    Band,        \* drift_band_pct
    Loop,        \* the session of the paper account's loop
    Requests,    \* the sessions of API requests
    ProcOf,      \* the process each session runs in
    None,        \* no session
    Cash,        \* the account's cash at first
    Held,        \* shares of each stock the account holds outside the baskets
    Periods,     \* bound: rebalancing periods (weeks, months or quarters)
    MaxCrashes   \* bound: restarts of a process, and runs of orders an error ends

Sessions == Requests \cup {Loop}
Procs == {ProcOf[s] : s \in Sessions}

ASSUME BasketsAssumption ==
    /\ Baskets # {} /\ Loop \notin Requests /\ None \notin Sessions
    /\ Capital \in [Baskets -> Nat \ {0}]
    /\ Symbols \subseteq Nat /\ IsFiniteSet(Symbols)
    /\ Rankings \subseteq SUBSET Symbols
    /\ Band \in Nat
    /\ Cash \in Nat /\ Held \in [Symbols -> Nat]
    /\ Periods \in Nat \ {0} /\ MaxCrashes \in Nat

VARIABLES
    period,    \* the present period
    row,       \* the basket rows: status, and the period of last_rebalanced_at
    net,       \* per basket and stock: the sum of its tagged, filled orders
    cash,      \* the account's cash
    gate,      \* _rebalance_gate of each process: the session that holds it
    todo,      \* tick_all: deployed baskets it has still to look at
    job,       \* what each session is doing
    auto,      \* ghost: scheduled rebalances of each basket in this period
    crashes

vars == <<period, row, net, cash, gate, todo, job, auto, crashes>>
books == <<net, cash>>

NoOrders == [x \in Symbols |-> 0]
Idle == [at |-> "idle", of |-> CHOOSE b \in Baskets : TRUE, due |-> FALSE,
         seen |-> "draft", delta |-> NoOrders, sent |-> FALSE, now |-> 0]
Job == [at : {"idle", "funded", "gate", "plan", "buy", "sell"}, of : Baskets,
        due : BOOLEAN, seen : {"draft", "deployed", "archived"},
        delta : [Symbols -> Int], sent : BOOLEAN, now : 0..Periods]

TypeOK ==
    /\ period \in 1..Periods
    /\ row \in [Baskets -> [status : {"draft", "deployed", "archived"},
                            last : 0..period]]
    /\ net \in [Baskets -> [Symbols -> Int]]
    /\ cash \in Int
    /\ gate \in [Procs -> Sessions \cup {None}]
    /\ todo \subseteq Baskets
    /\ job \in [Sessions -> Job]
    /\ auto \in [Baskets -> Nat]
    /\ crashes \in 0..MaxCrashes

Init ==
    /\ period = 1
    /\ row = [b \in Baskets |-> [status |-> "draft", last |-> 0]]
    /\ net = [b \in Baskets |-> NoOrders]
    /\ cash = Cash
    /\ gate = [p \in Procs |-> None]
    /\ todo = {} /\ job = [s \in Sessions |-> Idle]
    /\ auto = [b \in Baskets |-> 0]
    /\ crashes = 0

-----------------------------------------------------------------------------
(* What a rebalance orders: plan_orders.                                     *)

Size(n) == IF n < 0 THEN -n ELSE n

\* int(round(n * 0.5)): to the nearest, and a half to the even one.
Halved(n) ==
    IF n % 2 = 0 THEN n \div 2
    ELSE IF ((n - 1) \div 2) % 2 = 0 THEN (n - 1) \div 2 ELSE (n + 1) \div 2

\* The order for a stock of which the basket holds cur and whose weight is worth
\* goal of the value: nothing within the band, half of the way up to one and a
\* half bands, all of it beyond; a stock that left the targets is sold out.
Delta(cur, goal, value) ==
    LET drift   == 100 * Size(goal - cur)
        dropped == goal = 0 /\ cur > 0
    IN  CASE dropped -> -cur
          [] ~dropped /\ drift < Band * value -> 0
          [] ~dropped /\ drift >= Band * value /\ cur > 0
                      /\ 2 * drift < 3 * Band * value -> Halved(goal - cur)
          [] OTHER -> goal - cur

\* The ranked stocks share the value evenly.
Goal(ranked, x, value) == IF x \in ranked THEN value \div Cardinality(ranked) ELSE 0
Plan(b, ranked) ==
    [x \in Symbols |-> Delta(net[b][x], Goal(ranked, x, Capital[b]), Capital[b])]

-----------------------------------------------------------------------------
(* The clock, the loop and the requests. *)

Due(b) == row[b].last = 0 \/ row[b].last # period

Tick ==
    /\ period < Periods /\ period' = period + 1
    /\ auto' = [b \in Baskets |-> 0]
    /\ UNCHANGED <<row, books, gate, todo, job, crashes>>

\* A session turns to the lock of its process for basket b.
AskGate(s, b, due) ==
    job' = [job EXCEPT ![s] = [Idle EXCEPT !.at = "gate", !.of = b, !.due = due]]

LoopList ==
    /\ todo = {} /\ job[Loop] = Idle
    /\ todo' = {b \in Baskets : row[b].status = "deployed"}
    /\ UNCHANGED <<period, row, books, gate, job, auto, crashes>>

\* The next basket of the list, as deployed as it was when the list was read.
LoopNext(b) ==
    /\ b \in todo /\ job[Loop] = Idle
    /\ todo' = todo \ {b}
    /\ IF Due(b) THEN AskGate(Loop, b, TRUE) ELSE UNCHANGED job
    /\ UNCHANGED <<period, row, books, gate, auto, crashes>>

Rebalance(r, b, force) ==
    /\ job[r] = Idle
    /\ row[b].status = "deployed" /\ (force \/ Due(b))
    /\ AskGate(r, b, ~force)
    /\ UNCHANGED <<period, row, books, gate, todo, auto, crashes>>

\* deploy: the funds are looked at, and the basket marked a moment later.
Deploy(r, b) ==
    /\ job[r] = Idle
    /\ row[b].status # "deployed" /\ Capital[b] <= cash + 1
    /\ job' = [job EXCEPT ![r] = [Idle EXCEPT !.at = "funded", !.of = b]]
    /\ UNCHANGED <<period, row, books, gate, todo, auto, crashes>>

DeployCommit(r) ==
    /\ job[r].at = "funded"
    /\ row' = [row EXCEPT ![job[r].of] = [status |-> "deployed", last |-> period]]
    /\ AskGate(r, job[r].of, FALSE)
    /\ UNCHANGED <<period, books, gate, todo, auto, crashes>>

\* undeploy reads what there is to sell, whatever the status of the basket.
Undeploy(r, b, liquidate) ==
    /\ job[r] = Idle
    /\ job' = [job EXCEPT ![r] =
         [Idle EXCEPT !.at = "sell", !.of = b, !.seen = row[b].status,
            !.delta = [x \in Symbols |->
                         IF liquidate /\ net[b][x] > 0 THEN -net[b][x] ELSE 0]]]
    /\ UNCHANGED <<period, row, books, gate, todo, auto, crashes>>

\* delete_basket: a basket that is not a draft is archived, with what it holds.
\* Bound: drafts are kept, their rows are of no use to the loop.
Delete(r, b) ==
    /\ job[r] = Idle /\ row[b].status # "draft"
    /\ row' = [row EXCEPT ![b].status = "archived"]
    /\ UNCHANGED <<period, books, gate, todo, job, auto, crashes>>

-----------------------------------------------------------------------------
(* A rebalance. *)

Free(s) == gate' = [gate EXCEPT ![ProcOf[s]] = None]
Leave(s) == job' = [job EXCEPT ![s] = Idle]

EnterUnchecked(s) ==   \* mutant: what the caller saw before the lock is good enough
    /\ job[s].at = "gate" /\ gate[ProcOf[s]] = None
    /\ gate' = [gate EXCEPT ![ProcOf[s]] = s]
    /\ job' = [job EXCEPT ![s].at = "plan", ![s].seen = row[job[s].of].status]
    /\ UNCHANGED <<period, row, books, todo, auto, crashes>>
EnterUnlocked(s) ==   \* mutant: rebalances are not kept apart
    /\ job[s].at = "gate"
    /\ IF job[s].due /\ ~Due(job[s].of)
       THEN Leave(s) /\ UNCHANGED gate
       ELSE /\ gate' = [gate EXCEPT ![ProcOf[s]] = s]
            /\ job' = [job EXCEPT ![s].at = "plan", ![s].seen = row[job[s].of].status]
    /\ UNCHANGED <<period, row, books, todo, auto, crashes>>

\* Under the lock the row is read again; one that came for the cadence goes away
\* if another rebalance has just been.
Enter(s) ==
    /\ job[s].at = "gate" /\ gate[ProcOf[s]] = None
    /\ IF job[s].due /\ ~Due(job[s].of)
       THEN Leave(s) /\ UNCHANGED gate
       ELSE /\ gate' = [gate EXCEPT ![ProcOf[s]] = s]
            /\ job' = [job EXCEPT ![s].at = "plan", ![s].seen = row[job[s].of].status]
    /\ UNCHANGED <<period, row, books, todo, auto, crashes>>

PlanOrders(s) ==
    /\ job[s].at = "plan"
    /\ \E ranked \in Rankings :
         job' = [job EXCEPT ![s].at = "buy", ![s].now = period,
                            ![s].delta = Plan(job[s].of, ranked)]
    /\ UNCHANGED <<period, row, books, gate, todo, auto, crashes>>

NoHistoryLocked(s) ==   \* mutant: the exception passes by the release
    /\ job[s].at = "plan"
    /\ Leave(s)
    /\ UNCHANGED <<period, row, books, gate, todo, auto, crashes>>
\* No price history just now: the exception lets go of the lock.
NoHistory(s) ==
    /\ job[s].at = "plan"
    /\ Leave(s) /\ Free(s)
    /\ UNCHANGED <<period, row, books, todo, auto, crashes>>

InAccount(x) == Held[x] + MapThenSumSet(LAMBDA b : net[b][x], Baskets)

\* One CNC market order, of a rebalance in the order of the names: it fills, or it is
\* rejected for want of cash or of stock in the account.
Send(s, x) ==
    /\ job[s].at \in {"buy", "sell"} /\ job[s].delta[x] # 0
    /\ job[s].at = "buy" => \A y \in Symbols : y < x => job[s].delta[y] = 0
    /\ LET q == job[s].delta[x]
           b == job[s].of
       IN  IF (q > 0 /\ q <= cash) \/ (q < 0 /\ InAccount(x) >= -q)
           THEN net' = [net EXCEPT ![b][x] = @ + q] /\ cash' = cash - q
           ELSE UNCHANGED books
    /\ job' = [job EXCEPT ![s] = [@ EXCEPT !.delta[x] = 0, !.sent = TRUE]]
    /\ UNCHANGED <<period, row, gate, todo, auto, crashes>>

AllSent(s, at) == job[s].at = at /\ job[s].delta = NoOrders

\* db.commit() writes the status if it is new to the session, or if a commit in
\* between had made the session forget the row.
Status(s, new) ==
    IF job[s].seen # new \/ job[s].sent THEN new ELSE row[job[s].of].status

EndRebalance(s) ==
    /\ AllSent(s, "buy")
    /\ row' = [row EXCEPT ![job[s].of] =
                 [status |-> Status(s, "deployed"), last |-> job[s].now]]
    /\ auto' = [auto EXCEPT ![job[s].of] =
                  IF job[s].due /\ job[s].now = period THEN @ + 1 ELSE @]
    /\ Leave(s) /\ Free(s)
    /\ UNCHANGED <<period, books, todo, crashes>>

EndUndeploy(s) ==
    /\ AllSent(s, "sell")
    /\ row' = [row EXCEPT ![job[s].of].status = Status(s, "draft")]
    /\ Leave(s)
    /\ UNCHANGED <<period, books, gate, todo, auto, crashes>>

\* An error other than a rejected order (the database's, or one after the commit of an
\* order) ends the run between two of its orders or at its last commit: no stamp is
\* written, and the lock is free.
Abandon(s) ==
    /\ job[s].at \in {"buy", "sell"} /\ crashes < MaxCrashes
    /\ Leave(s)
    /\ IF job[s].at = "buy" THEN Free(s) ELSE UNCHANGED gate
    /\ crashes' = crashes + 1
    /\ UNCHANGED <<period, row, books, todo, auto>>

\* A process ends between two steps of its sessions.
Crash(p) ==
    /\ crashes < MaxCrashes
    /\ \E s \in Sessions : ProcOf[s] = p /\ job[s] # Idle
    /\ job' = [s \in Sessions |-> IF ProcOf[s] = p THEN Idle ELSE job[s]]
    /\ gate' = [gate EXCEPT ![p] = None]
    /\ todo' = IF ProcOf[Loop] = p THEN {} ELSE todo
    /\ crashes' = crashes + 1
    /\ UNCHANGED <<period, row, books, auto>>

Next ==
    \/ Tick \/ LoopList
    \/ \E b \in Baskets : LoopNext(b)
    \/ \E r \in Requests :
         \/ DeployCommit(r)
         \/ \E b \in Baskets :
              \/ Deploy(r, b) \/ Delete(r, b)
              \/ \E flag \in BOOLEAN : Rebalance(r, b, flag) \/ Undeploy(r, b, flag)
    \/ \E s \in Sessions :
         \/ Enter(s) \/ PlanOrders(s) \/ NoHistory(s) \/ EndRebalance(s) \/ EndUndeploy(s)
         \/ Abandon(s)
         \/ \E x \in Symbols : Send(s, x)
    \/ \E p \in Procs : Crash(p)

Spec == Init /\ [][Next]_vars

-----------------------------------------------------------------------------
(* What is relied on: the threads go on with what they have begun, a lock    *)
(* that is free again and again is got, the price history is there again and *)
(* again, and the loop comes round.                                          *)

Fairness ==
    /\ WF_vars(LoopList)
    /\ \A b \in Baskets : WF_vars(LoopNext(b))
    /\ \A r \in Requests : WF_vars(DeployCommit(r))
    /\ \A s \in Sessions :
         /\ SF_vars(Enter(s)) /\ SF_vars(PlanOrders(s))
         /\ WF_vars(PlanOrders(s) \/ NoHistory(s))
         /\ WF_vars(EndRebalance(s)) /\ WF_vars(EndUndeploy(s))
         /\ \A x \in Symbols : WF_vars(Send(s, x))

FairSpec == Spec /\ Fairness

-----------------------------------------------------------------------------
(* Properties. *)

\* No two rebalances buy the same drift: a basket never holds more of a stock than
\* some ranking allots it of the capital, whatever deploys, forced rebalances,
\* undeploys, errors and restarts come together (the comment at paper.py:43-45).
Allotted(b, x, n) == n <= 0 \/ \E ranked \in Rankings : n <= Goal(ranked, x, Capital[b])
NoDoubleBuy == \A b \in Baskets, x \in Symbols : Allotted(b, x, net[b][x])

\* The cadence brings at most one rebalance of a basket a period, though the loop
\* and the requests look whether it is due before they wait for the lock
\* (_do_rebalance, require_due).
ScheduledOnce == \A b \in Baskets : auto[b] <= 1

\* A deployed basket whose period has come is rebalanced, or it is taken out of
\* the account: passes without a price history and restarts only delay it
\* (tick_all: one bad basket must not stall the loop).
Cadence ==
    \A b \in Baskets :
        (row[b].status = "deployed" /\ Due(b))
            ~> (row[b].status # "deployed" \/ ~Due(b))

==============================================================================
