------------------------------ MODULE PaperAlgo ------------------------------
(***************************************************************************)
(* The auto-trade bridge (app/paper_account/algo.py) between three writers *)
(* that do not know of each other: the tracker resolves the ideas of the   *)
(* market scanner, the paper account's loop takes and closes them and      *)
(* fills their protective stops, and the user sells and cancels by hand.   *)
(*                                                                         *)
(* The bridge keeps no record of a trade.  What an idea holds is summed    *)
(* from the completed orders that carry its tag; the shares themselves are *)
(* somewhere else, and the user's sale changes them under another tag.     *)
(*                                                                         *)
(* Quantities are one unit: every idea enters with one.  A cycle of the    *)
(* loop is a sequence of steps and the other two move between them; one    *)
(* order, with its commit, is one step, and what the bridge does after the *)
(* commit another: it may never come to it.  The loop has one session for  *)
(* its whole life, so whatever it commits next writes the cancels that     *)
(* manage left in memory, and a rollback forgets them.                     *)
(***************************************************************************)
EXTENDS Integers, FiniteSets

CONSTANTS
    Ideas,      \* the scan recommendations
    Swing,      \* those with horizon SWING; the others are INTRADAY
    Spreads,    \* those with trade_style OPTION: two legs
    SymOf,      \* the stock of each idea
    PairOf,     \* pair_id: an equity idea and its option share one
    DirsOf,     \* bound: the directions each pair may have
    Holding,    \* cfg.equity_product: "MIS" or "CNC"
    MaxOpen,    \* cfg.max_open_auto
    Days,       \* bound: trading days
    MaxFaults   \* bound: rollbacks of the loop's session and restarts

ASSUME PaperAlgoAssumption ==
    /\ IsFiniteSet(Ideas) /\ Swing \subseteq Ideas /\ Spreads \subseteq Ideas
    /\ \A i \in Ideas : DirsOf[PairOf[i]] \subseteq {1, -1}
    /\ Holding \in {"MIS", "CNC"}
    /\ MaxOpen \in Nat /\ Days \in Nat \ {0} /\ MaxFaults \in Nat

VARIABLES
    day,          \* the trading day
    idea,         \* each recommendation: status, direction, trading_day
    haltDay,      \* cfg.halted_day, 0 = none
    acted,        \* ideas that have an order
    net,          \* per idea and leg: the sum of its completed tagged orders
    stop,         \* ideas whose SL-M child is open
    shares,       \* the shares of each stock the account holds in delivery
    pc,           \* where the bridge is; "idle" is the rest of the loop's cycles
    cur,          \* the spread, or the expired idea, whose orders are being placed
    recs,         \* the ideas read once: the live ones to take, the open ones to manage
    room, seen,   \* run_once: the trades it may still take, the pairs it has taken
    closed,       \* manage: an exit was recorded, so it ends with a commit
    dropped,      \* stops that are cancelled in the session, not yet in the database
    faults,       \* history: rollbacks and restarts so far
    torn,         \* history: open stops whose clean-up one of them cut short
    uncounted     \* history: entries that raised after their commit, since a cycle
                  \* last found no more ideas open than it may

vars == <<day, idea, haltDay, acted, net, stop, shares, pc, cur, recs,
          room, seen, closed, dropped, faults, torn, uncounted>>
books   == <<acted, net, stop, shares>>
cycle   == <<pc, cur, recs, room, seen, closed>>
pending == <<dropped, faults, torn>>

Legs(i) == IF i \in Spreads THEN {"bought", "sold"} ELSE {"bought"}
Dir == {1, -1}
Pairs == {PairOf[i] : i \in Ideas}
Of(p) == {i \in Ideas : PairOf[i] = p}

\* A short cannot sit in a delivery account, and only a swing idea goes there.  The
\* others trade on margin, a swing short the stock's future: an order that opens such
\* a position or closes it is taken either way, and the bridge never reads it.
Delivered(i) == i \in Swing \ Spreads /\ idea[i].dir = 1 /\ Holding = "CNC"
Stocks == {SymOf[i] : i \in Ideas \ Spreads}

Unborn == [status |-> "none", dir |-> 1, day |-> 0]
Small == -1..1

TypeOK ==
    /\ day \in 1..Days
    /\ idea \in [Ideas -> [status : {"none", "LIVE", "EXPIRED"}, dir : Dir,
                           day : 0..Days]]
    /\ haltDay \in 0..day
    /\ acted \subseteq Ideas
    /\ net \in [Ideas -> [{"bought", "sold"} -> Small]]
    /\ stop \subseteq Ideas
    /\ shares \in [Stocks -> Int]
    /\ pc \in {"idle", "take", "sell", "manage", "exit", "drop"}
    /\ closed \in BOOLEAN
    /\ cur \subseteq Ideas /\ recs \subseteq Ideas
    /\ room \in 0..MaxOpen /\ seen \subseteq Pairs
    /\ faults \in 0..MaxFaults
    /\ dropped \subseteq Ideas /\ torn \subseteq Ideas /\ uncounted \subseteq Ideas

Init ==
    /\ day = 1
    /\ idea = [i \in Ideas |-> Unborn]
    /\ haltDay = 0
    /\ acted = {}
    /\ net = [i \in Ideas |-> [l \in {"bought", "sold"} |-> 0]]
    /\ stop = {}
    /\ shares = [s \in Stocks |-> 0]
    /\ pc = "idle" /\ closed = FALSE
    /\ cur = {} /\ recs = {} /\ room = 0 /\ seen = {}
    /\ dropped = {} /\ faults = 0 /\ torn = {} /\ uncounted = {}

-----------------------------------------------------------------------------
(* The clock and the settings. *)

\* The night, when the loop only rolls the day over.
Tick ==
    /\ day < Days /\ pc = "idle"
    /\ day' = day + 1
    /\ UNCHANGED <<idea, haltDay, books, cycle, pending, uncounted>>

\* set_config: a fresh enable clears a halt of an earlier day, never today's.
Enable ==
    /\ haltDay # 0
    /\ haltDay' = IF haltDay = day THEN haltDay ELSE 0
    /\ UNCHANGED <<day, idea, books, cycle, pending, uncounted>>

-----------------------------------------------------------------------------
(* The scanner and the tracker. *)

\* One scan publishes an equity idea and its option together, and they carry the
\* same prices on the same stock: the tracker resolves them together too.
Scan(p) ==
    /\ \A i \in Of(p) : idea[i].status = "none"
    /\ \E d \in DirsOf[p] :
         idea' = [i \in Ideas |-> IF i \in Of(p) THEN [status |-> "LIVE", dir |-> d, day |-> day]
                                ELSE idea[i]]
    /\ UNCHANGED <<day, haltDay, books, cycle, pending, uncounted>>

\* The price has reached the stop or the target, a limit entry was never touched,
\* or the hold window is over: whichever it is, the idea is resolved.
Track(p) ==
    /\ \A i \in Of(p) : idea[i].status = "LIVE"
    /\ idea' = [i \in Ideas |-> IF i \in Of(p) THEN [idea[i] EXCEPT !.status = "EXPIRED"]
                              ELSE idea[i]]
    /\ UNCHANGED <<day, haltDay, books, cycle, pending, uncounted>>

-----------------------------------------------------------------------------
(* Orders. *)

\* A sale of delivered stock needs the stock; anything else may open a position.
Sellable(i, q) == Delivered(i) /\ q < 0 => shares[SymOf[i]] >= -q

Moved(i, q) == IF Delivered(i) THEN [shares EXCEPT ![SymOf[i]] = @ + q] ELSE shares
Booked(i, l, q) == [net EXCEPT ![i][l] = @ + q]

\* Ideas _open_algo_rec_ids finds: the legs of an idea are summed together.
TotalOf(i) == net[i]["bought"] + net[i]["sold"]
\* mutant: only the ideas that are still live are counted
OpenIdsLive == {i \in Ideas : TotalOf(i) # 0 /\ idea[i].status = "LIVE"}
OpenIds == {i \in Ideas : TotalOf(i) # 0}

\* A commit of the loop's session writes the cancels it holds, a rollback forgets
\* them and leaves the stop of an idea whose clean-up is under way.
StopsAre(S) == stop' = S /\ dropped' = dropped \cap S /\ torn' = torn \cap S
Kept == stop \ dropped
Commits == StopsAre(Kept)
RollsBack ==
    /\ faults < MaxFaults /\ faults' = faults + 1
    /\ dropped' = {} /\ torn' = torn \cup ((dropped \cup cur) \cap stop)

\* The scheduler's _fill_resting: the price has reached the trigger.  It asks the
\* database, where a stop that is only cancelled in memory is still open.
StopFills(i) ==
    /\ pc = "idle" /\ i \in stop
    /\ LET q == -idea[i].dir
       IN  \/ /\ Sellable(i, q)
              /\ shares' = Moved(i, q) /\ net' = Booked(i, "bought", q)
           \/ UNCHANGED <<shares, net>>   \* rejected
    /\ StopsAre(stop \ {i})
    /\ UNCHANGED <<day, idea, haltDay, acted, cycle, faults, uncounted>>

-----------------------------------------------------------------------------
(* One cycle of the loop. *)

\* The strategies before the bridge, the baskets after it and the square-off, whose
\* orders carry other tags, use the same session.
OthersCommit ==
    /\ pc = "idle" /\ dropped # {}
    /\ Commits
    /\ UNCHANGED <<day, idea, haltDay, acted, net, shares, cycle, faults, uncounted>>

\* One of them raises, or an entry of the bridge before its commit.
OthersRollBack ==
    /\ pc \in {"idle", "take"} /\ dropped # {}
    /\ RollsBack
    /\ UNCHANGED <<day, idea, haltDay, books, cycle, uncounted>>

\* run_once up to its loop: the switch, the halt, the loss stop, room, cut-off.
Open == Cardinality(OpenIds)
\* The switch may be on or off, the time past the cut-off for new trades, and
\* today's realized P&L beyond the daily-loss stop, once the bridge has traded.
StartTaking ==
    /\ pc = "idle"
    /\ \E enabled, past \in BOOLEAN, losing \in {FALSE, acted # {}} :
       LET on == enabled /\ haltDay # day
           go == on /\ ~losing /\ Open < MaxOpen /\ ~past
       IN  /\ IF on /\ losing THEN haltDay' = day /\ Commits
              ELSE UNCHANGED <<haltDay, stop, dropped, torn>>
           /\ pc' = IF go THEN "take" ELSE "manage"
           /\ room' = IF go THEN MaxOpen - Open ELSE 0
           /\ recs' = IF go THEN {i \in Ideas : idea[i].status = "LIVE" /\ idea[i].day = day}
                      ELSE OpenIds
           /\ uncounted' = IF Open > MaxOpen THEN uncounted ELSE {}
    /\ seen' = {}
    /\ UNCHANGED <<day, idea, acted, net, shares, cur, closed, faults>>

\* The tracker may have resolved it since the list was read.
Candidate(i) ==
    /\ pc = "take" /\ room > 0
    /\ i \in recs /\ i \notin acted /\ PairOf[i] \notin seen

\* The idea uses up its pair and one place.
Counted(i) == seen' = seen \cup {PairOf[i]} /\ room' = room - 1

\* _take_equity and _take_futures: the entry, and its stop, which may be missing.
\* What raises once the entry is committed skips the counting.
TakeEquity(i) ==
    /\ Candidate(i) /\ i \notin Spreads
    /\ acted' = acted \cup {i}
    /\ \/ /\ shares' = Moved(i, idea[i].dir) /\ net' = Booked(i, "bought", idea[i].dir)
          /\ Commits \/ StopsAre(Kept \cup {i})
          /\ \/ Counted(i) /\ UNCHANGED uncounted
             \/ uncounted' = uncounted \cup {i} /\ UNCHANGED <<seen, room>>
       \/ Commits /\ UNCHANGED <<shares, net, seen, room, uncounted>>   \* rejected
    /\ UNCHANGED <<day, idea, haltDay, pc, cur, recs, closed, faults>>

BuyLegShortFirst(i) ==   \* mutant: the legs in the order of the overlay
    /\ Candidate(i) /\ i \in Spreads
    /\ acted' = acted \cup {i} /\ UNCHANGED <<seen, room>>
    /\ pc' = "sell" /\ cur' = {i} /\ net' = Booked(i, "sold", -1)
    /\ Commits
    /\ UNCHANGED <<day, idea, haltDay, shares, recs, closed, faults, uncounted>>
\* The long leg of a spread, and then the short one.  What raises after the commit
\* leaves the legs as they are.
BuyLeg(i) ==
    /\ Candidate(i) /\ i \in Spreads
    /\ acted' = acted \cup {i} /\ UNCHANGED <<seen, room>>
    /\ \/ /\ net' = Booked(i, "bought", 1)
          /\ \/ pc' = "sell" /\ cur' = {i}
             \/ UNCHANGED <<pc, cur>>
       \/ UNCHANGED <<pc, cur, net>>
    /\ Commits
    /\ UNCHANGED <<day, idea, haltDay, shares, recs, closed, faults, uncounted>>

\* When the short leg is rejected the long one is sold again, which may be
\* rejected too.
SellLeg(i) ==
    /\ pc = "sell" /\ i \in cur
    /\ pc' = "take" /\ cur' = {}
    /\ \/ /\ net' = Booked(i, "sold", -1)
          /\ Counted(i) \/ UNCHANGED <<seen, room>>
       \/ net' \in {net, Booked(i, "bought", -1)} /\ UNCHANGED <<seen, room>>
    /\ Commits
    /\ UNCHANGED <<day, idea, haltDay, acted, shares, recs, closed, faults, uncounted>>

EndTaking ==
    /\ pc = "take" /\ pc' = "manage"
    /\ recs' = OpenIds /\ room' = 0 /\ seen' = {}
    /\ UNCHANGED <<day, idea, haltDay, books, cur, closed, pending, uncounted>>

\* manage: the ideas that hold something, each looked at once.
ManagedToday(i) ==   \* mutant: the query of run_once, with its trading_day
    idea[i].status = "EXPIRED" /\ idea[i].day = day
Managed(i) == idea[i].status = "EXPIRED"

Visit(i) ==
    /\ pc = "manage" /\ i \in recs
    /\ recs' = recs \ {i}
    /\ IF Managed(i) THEN pc' = "exit" /\ cur' = {i} ELSE UNCHANGED <<pc, cur>>
    /\ UNCHANGED <<day, idea, haltDay, books, room, seen, closed, pending, uncounted>>

\* The exit is committed, and recorded unless what follows the commit raises.  An
\* idea the sum finds open has one leg.
Exited(i) ==
    /\ pc = "exit" /\ i \in cur /\ pc' = "drop"
    /\ closed' \in {closed, TRUE}
    /\ Commits
    /\ UNCHANGED <<day, idea, haltDay, acted, cur, recs, room, seen, faults, uncounted>>

ExitFills(i) ==
    /\ Exited(i)
    /\ \E l \in Legs(i) :
         /\ net[i][l] # 0 /\ Sellable(i, -net[i][l])
         /\ shares' = Moved(i, -net[i][l])
         /\ net' = Booked(i, l, -net[i][l])

ExitRejected(i) == Exited(i) /\ UNCHANGED <<net, shares>>

\* Its stop is cancelled whether or not the exit filled, or was placed at all: in
\* memory.
DroppedNone(i) == dropped   \* mutant: the clean-up of the stop forgotten
Dropped(i) == dropped \cup ({i} \cap stop)
Drop(i) ==
    /\ pc \in {"exit", "drop"} /\ i \in cur
    /\ pc' = "manage" /\ cur' = {} /\ dropped' = Dropped(i)
    /\ UNCHANGED <<day, idea, haltDay, books, recs, room, seen, closed, faults, torn,
                   uncounted>>

EndManaging ==
    /\ pc = "manage" /\ recs = {}
    /\ pc' = "idle" /\ closed' = FALSE
    /\ IF closed THEN Commits ELSE UNCHANGED <<stop, dropped, torn>>
    /\ UNCHANGED <<day, idea, haltDay, acted, net, shares, cur, recs, room, seen, faults,
                   uncounted>>

\* What the cycle keeps in memory.
Forgotten == cur' = {} /\ recs' = {} /\ room' = 0 /\ seen' = {} /\ closed' = FALSE

\* run_cycle's handler: a query of the bridge raised, and the cycle goes on without.
BridgeRaises ==
    /\ pc \in {"take", "manage", "exit", "drop"} /\ pc' = "idle"
    /\ Forgotten /\ RollsBack
    /\ UNCHANGED <<day, idea, haltDay, books, uncounted>>

\* The process ends wherever the cycle is: every order is committed by itself.
Restart ==
    /\ pc' = "idle"
    /\ Forgotten /\ RollsBack
    /\ UNCHANGED <<day, idea, haltDay, books, uncounted>>

-----------------------------------------------------------------------------
(* The user. *)

SellByHand(s) ==
    /\ shares[s] > 0
    /\ shares' = [shares EXCEPT ![s] = 0]
    /\ UNCHANGED <<day, idea, haltDay, acted, net, stop, cycle, pending, uncounted>>

CancelStop(i) ==
    /\ i \in stop
    /\ StopsAre(stop \ {i})
    /\ UNCHANGED <<day, idea, haltDay, acted, net, shares, cycle, faults, uncounted>>

Next ==
    \/ Tick \/ Enable
    \/ Restart \/ BridgeRaises \/ OthersCommit \/ OthersRollBack
    \/ StartTaking \/ EndTaking \/ EndManaging
    \/ \E p \in Pairs : Scan(p) \/ Track(p)
    \/ \E i \in Ideas :
         \/ StopFills(i) \/ TakeEquity(i)
         \/ BuyLeg(i) \/ SellLeg(i)
         \/ Visit(i) \/ ExitFills(i) \/ ExitRejected(i) \/ Drop(i) \/ CancelStop(i)
    \/ \E s \in Stocks : SellByHand(s)

Spec == Init /\ [][Next]_vars

\* The loop comes round every five seconds, and an exit that is tried again and
\* again is not rejected for ever for want of a quote or of funds.
Fairness ==
    /\ WF_vars(StartTaking) /\ WF_vars(EndTaking) /\ WF_vars(EndManaging)
    /\ WF_vars(\E i \in Ideas : SellLeg(i)) /\ WF_vars(\E i \in Ideas : Visit(i))
    /\ WF_vars(\E i \in Ideas : Drop(i))
    /\ \A i \in Ideas : SF_vars(ExitFills(i))

FairSpec == Spec /\ Fairness

-----------------------------------------------------------------------------
(* Properties. *)

\* max_open_auto: the ideas that hold what they entered with, spreads aside, never
\* exceed it, whatever is closed, stopped, rejected or cut short meanwhile, apart
\* from the entries that raised after their commit since a cycle last found the
\* bound kept.
EntryHeld(i) == net[i]["bought"] = idea[i].dir /\ net[i]["sold"] = 0 /\ i \in acted
CapHolds == Cardinality({i \in Ideas \ Spreads : EntryHeld(i)} \ uncounted) <= MaxOpen

\* A protective stop never rests once the orders of its idea have cancelled out,
\* where it would open a position of its own: the bridge is about to cancel it, or
\* a rollback or a restart cut that short.
StopHasEntry == \A i \in stop : EntryHeld(i) \/ i \in cur \/ i \in dropped \/ i \in torn

\* algo.py:437: "buy the long leg before selling the short one, so a mid-spread
\* failure can never leave a naked short."
LegsCovered == \A i \in Spreads : net[i]["sold"] < 0 => net[i]["bought"] > 0

\* The daily-loss stop lasts for the day: not re-enabling, nor a P&L that
\* recovers, lets the bridge take another idea before the next one.
HaltLasts ==
    [][haltDay = day /\ day' = day => haltDay' = day /\ acted' = acted]_vars

\* An expired equity idea is closed, unless it is delivery stock that is gone.
Gone(i) == ~Sellable(i, -net[i]["bought"])
ExpiredCloses ==
    \A i \in Ideas \ Spreads :
      (idea[i].status = "EXPIRED" /\ net[i]["bought"] # 0)
        ~> (net[i]["bought"] = 0 \/ Gone(i))

=============================================================================
