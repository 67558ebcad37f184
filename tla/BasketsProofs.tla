---------------------------- MODULE BasketsProofs ----------------------------
(***************************************************************************)
(* For any number of baskets, stocks, request sessions, periods and        *)
(* restarts, one process buys no drift twice and rebalances on the cadence *)
(* at most once a period.  The argument is the lock's: while a rebalance   *)
(* is at its orders nobody else raises a position or counts one, and what  *)
(* it has still to buy fits its goal as the positions are now.             *)
(***************************************************************************)
EXTENDS Baskets, FiniteSetTheorems, TLAPS

\* The deployment runs one API process (the comment at paper.py:43-45 reckons with
\* threads only).
OneProcess == \A s, t \in Sessions : ProcOf[s] = ProcOf[t]

LEMMA HalvedBounds ==
  ASSUME NEW n \in Int
  PROVE  /\ Halved(n) \in Int
         /\ n > 0 => Halved(n) <= n
         /\ n <= 0 => Halved(n) <= 0
BY DEF Halved

LEMMA DividedBounds ==
  ASSUME NEW v \in Nat, NEW c \in Nat \ {0}
  PROVE  v \div c \in Nat /\ v \div c <= v
OBVIOUS

\* No order of a rebalance takes a position beyond its goal.
LEMMA DeltaBounds ==
  ASSUME NEW cur \in Int, NEW value \in Nat, NEW goal \in Nat
  PROVE  /\ Delta(cur, goal, value) \in Int
         /\ Delta(cur, goal, value) > 0 => cur + Delta(cur, goal, value) <= goal
<1>1. goal - cur \in Int /\ Halved(goal - cur) \in Int
      /\ (goal - cur > 0 => Halved(goal - cur) <= goal - cur)
      /\ (goal - cur <= 0 => Halved(goal - cur) <= 0)
  BY HalvedBounds
<1> DEFINE d == Delta(cur, goal, value)
<1>2. (d = -cur /\ cur > 0) \/ d = 0 \/ d = Halved(goal - cur) \/ d = goal - cur
  BY DEF Delta
<1> QED BY <1>1, <1>2

LEMMA GoalType ==
  ASSUME NEW b \in Baskets, NEW x \in Symbols, NEW ranked \in Rankings
  PROVE  Goal(ranked, x, Capital[b]) \in Nat
<1>1. Capital[b] \in Nat
  BY BasketsAssumption
<1>2. CASE x \in ranked
  <2>1. IsFiniteSet(ranked) /\ ranked # {}
    BY <1>2, BasketsAssumption, FS_Subset
  <2>2. Cardinality(ranked) \in Nat \ {0}
    BY <2>1, FS_CardinalityType, FS_EmptySet
  <2> QED BY <1>1, <1>2, <2>2, DividedBounds DEF Goal
<1>3. CASE x \notin ranked
  BY <1>1, <1>3 DEF Goal
<1> QED BY <1>2, <1>3

\* Less than what is allotted is allotted.
LEMMA LessAllotted ==
  ASSUME NEW b \in Baskets, NEW x \in Symbols, NEW n \in Int, NEW m \in Int, m <= n,
         Allotted(b, x, n)
  PROVE  Allotted(b, x, m)
<1>1. CASE n <= 0
  BY <1>1 DEF Allotted
<1>2. CASE ~(n <= 0)
  <2>1. PICK ranked \in Rankings : n <= Goal(ranked, x, Capital[b])
    BY <1>2 DEF Allotted
  <2>2. m <= Goal(ranked, x, Capital[b])
    BY <2>1, GoalType
  <2> QED BY <2>2 DEF Allotted
<1> QED BY <1>1, <1>2

LEMMA PlanBounds ==
  ASSUME TypeOK, NEW b \in Baskets, NEW ranked \in Rankings
  PROVE  /\ Plan(b, ranked) \in [Symbols -> Int]
         /\ \A x \in Symbols : Plan(b, ranked)[x] > 0
                => Allotted(b, x, net[b][x] + Plan(b, ranked)[x])
<1> SUFFICES ASSUME NEW x \in Symbols
             PROVE  /\ Plan(b, ranked)[x] \in Int
                    /\ Plan(b, ranked)[x] > 0
                         => net[b][x] + Plan(b, ranked)[x] <= Goal(ranked, x, Capital[b])
  BY DEF Plan, Allotted
<1>1. net[b][x] \in Int /\ Capital[b] \in Nat
  BY BasketsAssumption DEF TypeOK
<1>2. Goal(ranked, x, Capital[b]) \in Nat
  BY GoalType
<1> QED BY <1>1, <1>2, DeltaBounds DEF Plan

-----------------------------------------------------------------------------
(* The inductive invariant. *)

Busy(s) == job[s].at \in {"plan", "buy"}

Locked == \A s \in Sessions : Busy(s) => gate[ProcOf[s]] = s

OrdersFit ==
    \A s \in Sessions, x \in Symbols :
        /\ job[s].at = "sell" => job[s].delta[x] <= 0
        /\ job[s].at = "buy" /\ job[s].delta[x] > 0
             => Allotted(job[s].of, x, net[job[s].of][x] + job[s].delta[x])

Timely == \A s \in Sessions : job[s].now <= period

Counted ==
    /\ \A b \in Baskets : auto[b] = 0 \/ (auto[b] = 1 /\ row[b].last = period)
    /\ \A s \in Sessions :
         /\ Busy(s) /\ job[s].due => auto[job[s].of] = 0
         /\ job[s].at = "buy" /\ job[s].now < period => \A b \in Baskets : auto[b] = 0

IInv == TypeOK /\ Locked /\ OrdersFit /\ Timely /\ Counted /\ NoDoubleBuy

\* One process: the session at its orders is the only one.
LEMMA Alone ==
  ASSUME OneProcess, IInv, NEW s \in Sessions, NEW t \in Sessions, Busy(s), Busy(t)
  PROVE  s = t
BY DEF OneProcess, IInv, Locked

LEMMA InitHolds == Init => IInv
<1> SUFFICES ASSUME Init PROVE IInv
  OBVIOUS
<1>1. Idle \in Job /\ Idle.at = "idle" /\ Idle.now = 0
  BY BasketsAssumption DEF Idle, Job, NoOrders
<1>2. TypeOK
  BY <1>1, BasketsAssumption DEF Init, TypeOK, NoOrders
<1>3. NoDoubleBuy
  <2>1. \A b \in Baskets, x \in Symbols : net[b][x] = 0
    BY DEF Init, NoOrders
  <2> QED BY <2>1 DEF NoDoubleBuy, Allotted
<1> QED
  BY <1>1, <1>2, <1>3, BasketsAssumption
     DEF Init, IInv, Locked, Busy, OrdersFit, Timely, Counted, NoOrders

LEMMA IdleJob == Idle \in Job /\ Idle.at = "idle" /\ Idle.now = 0 /\ Idle.delta = NoOrders
BY BasketsAssumption DEF Idle, Job, NoOrders

\* What the steps do to a job.
LEMMA JobSteps ==
  ASSUME NEW j \in Job, NEW b \in Baskets, NEW n \in 0..Periods,
         NEW at \in {"idle", "funded", "gate", "plan", "buy", "sell"},
         NEW st \in {"draft", "deployed", "archived"}, NEW d \in [Symbols -> Int]
  PROVE  /\ [Idle EXCEPT !.at = at, !.of = b] \in Job
         /\ [Idle EXCEPT !.at = at, !.of = b, !.seen = st, !.delta = d] \in Job
         /\ [j EXCEPT !.at = at, !.seen = st] \in Job
         /\ [j EXCEPT !.at = at, !.now = n, !.delta = d] \in Job
<1>1. Idle \in Job
  BY IdleJob
<1>2. [Idle EXCEPT !.at = at, !.of = b] \in Job
  BY <1>1 DEF Job
<1>3. [Idle EXCEPT !.at = at, !.of = b, !.seen = st, !.delta = d] \in Job
  BY <1>1 DEF Job
<1>4. [j EXCEPT !.at = at, !.seen = st] \in Job
  BY DEF Job
<1>5. [j EXCEPT !.at = at, !.now = n, !.delta = d] \in Job
  BY DEF Job
<1> QED BY <1>2, <1>3, <1>4, <1>5

LEMMA JobSends ==
  ASSUME NEW j \in Job, NEW x \in Symbols
  PROVE  [j EXCEPT !.delta[x] = 0, !.sent = TRUE] \in Job
<1>1. [j.delta EXCEPT ![x] = 0] \in [Symbols -> Int]
  BY DEF Job
<1> QED BY <1>1 DEF Job

\* Every step keeps the types, and nobody is ahead of the clock.
LEMMA Typed ==
  ASSUME TypeOK, Timely, [Next]_vars
  PROVE  TypeOK' /\ Timely'
<1> USE DEF TypeOK, Timely
<1>0. Loop \in Sessions /\ Requests \subseteq Sessions /\ \A s \in Sessions : ProcOf[s] \in Procs
  BY DEF Sessions, Procs
<1>1. ASSUME Tick PROVE TypeOK' /\ Timely'
  <2>1. period' \in 1..Periods /\ period < period'
    BY <1>1, BasketsAssumption DEF Tick
  <2>2. row' \in [Baskets -> [status : {"draft", "deployed", "archived"}, last : 0..period']]
    BY <1>1, <2>1 DEF Tick
  <2>3. auto' \in [Baskets -> Nat]
    BY <1>1 DEF Tick
  <2>4. \A s \in Sessions : job[s].now \in 0..Periods
    BY DEF Job
  <2> QED BY <1>1, <2>1, <2>2, <2>3, <2>4 DEF Tick, books
<1>2. ASSUME NEW s \in Sessions, NEW j \in Job, j.now <= period,
             job' = [job EXCEPT ![s] = j]
      PROVE  job' \in [Sessions -> Job] /\ \A t \in Sessions : job'[t].now <= period
  BY <1>2
<1>3. ASSUME NEW s \in Sessions, Leave(s)
      PROVE  job' \in [Sessions -> Job] /\ \A t \in Sessions : job'[t].now <= period
  BY <1>2, <1>3, IdleJob DEF Leave
<1>4. ASSUME NEW s \in Sessions, NEW b \in Baskets, NEW due \in BOOLEAN, AskGate(s, b, due)
      PROVE  job' \in [Sessions -> Job] /\ \A t \in Sessions : job'[t].now <= period
  <2>1. [Idle EXCEPT !.at = "gate", !.of = b, !.due = due] \in Job
    BY IdleJob DEF Job
  <2>2. [Idle EXCEPT !.at = "gate", !.of = b, !.due = due].now <= period
    BY IdleJob DEF Job
  <2> QED BY <1>2, <1>4, <2>1, <2>2 DEF AskGate
<1>5. CASE LoopList
  BY <1>5 DEF LoopList, books
<1>6. ASSUME NEW b \in Baskets, LoopNext(b) PROVE TypeOK' /\ Timely'
  BY <1>6, <1>4, <1>0 DEF LoopNext, books
<1>7. ASSUME NEW r \in Requests, NEW b \in Baskets, NEW flag \in BOOLEAN, Rebalance(r, b, flag)
      PROVE  TypeOK' /\ Timely'
  BY <1>7, <1>4, <1>0 DEF Rebalance, books
<1>8. ASSUME NEW r \in Requests, NEW b \in Baskets, Deploy(r, b) PROVE TypeOK' /\ Timely'
  <2>1. [Idle EXCEPT !.at = "funded", !.of = b] \in Job
        /\ [Idle EXCEPT !.at = "funded", !.of = b].now <= period
    <3>1. "funded" \in {"idle", "funded", "gate", "plan", "buy", "sell"} /\ 0 \in 0..Periods
          /\ NoOrders \in [Symbols -> Int] /\ "draft" \in {"draft", "deployed", "archived"}
      BY BasketsAssumption DEF NoOrders
    <3>2. [Idle EXCEPT !.at = "funded", !.of = b].now = 0
      BY IdleJob DEF Job
    <3>3. [Idle EXCEPT !.at = "funded", !.of = b] \in Job
      BY <3>1, IdleJob, JobSteps
    <3> QED BY <3>2, <3>3
  <2>2. job' = [job EXCEPT ![r] = [Idle EXCEPT !.at = "funded", !.of = b]]
    BY <1>8 DEF Deploy
  <2>3. job' \in [Sessions -> Job] /\ \A t \in Sessions : job'[t].now <= period
    BY <2>1, <2>2, <1>2, <1>0
  <2> QED BY <1>8, <2>3 DEF Deploy, books
<1>9. ASSUME NEW r \in Requests, DeployCommit(r) PROVE TypeOK' /\ Timely'
  <2>1. job[r].of \in Baskets
    BY <1>0 DEF Job
  <2>2. job' \in [Sessions -> Job] /\ \A t \in Sessions : job'[t].now <= period
    BY <1>9, <1>4, <1>0, <2>1 DEF DeployCommit
  <2>3. row' \in [Baskets -> [status : {"draft", "deployed", "archived"}, last : 0..period]]
    BY <1>9, <2>1 DEF DeployCommit
  <2> QED BY <1>9, <2>2, <2>3 DEF DeployCommit, books
<1>10. ASSUME NEW r \in Requests, NEW b \in Baskets, NEW flag \in BOOLEAN, Undeploy(r, b, flag)
       PROVE  TypeOK' /\ Timely'
  <2> DEFINE j == [Idle EXCEPT !.at = "sell", !.of = b, !.seen = row[b].status,
            !.delta = [x \in Symbols |-> IF flag /\ net[b][x] > 0 THEN -net[b][x] ELSE 0]]
  <2>0. row[b].status \in {"draft", "deployed", "archived"} /\ net[b] \in [Symbols -> Int]
    OBVIOUS
  <2>4. [x \in Symbols |-> IF flag /\ net[b][x] > 0 THEN -net[b][x] ELSE 0] \in [Symbols -> Int]
    BY <2>0
  <2>1. j \in Job /\ j.now <= period
    <3>1. "sell" \in {"idle", "funded", "gate", "plan", "buy", "sell"} /\ 0 \in 0..Periods
      BY BasketsAssumption
    <3>2. j.now = 0
      BY IdleJob DEF Job
    <3>3. ASSUME NEW st \in {"draft", "deployed", "archived"}, NEW d \in [Symbols -> Int]
          PROVE  [Idle EXCEPT !.at = "sell", !.of = b, !.seen = st, !.delta = d] \in Job
      BY <3>1, <3>3, JobSteps, IdleJob, ZenonT(40)
    <3>4. j \in Job
      BY <3>3, <2>0, <2>4
    <3> QED BY <3>2, <3>4
  <2>2. job' = [job EXCEPT ![r] = j]
    BY <1>10 DEF Undeploy
  <2>3. job' \in [Sessions -> Job] /\ \A t \in Sessions : job'[t].now <= period
    <3> HIDE DEF j
    <3> QED BY <2>1, <2>2, <1>2, <1>0
  <2> QED BY <1>10, <2>3 DEF Undeploy, books
<1>11. ASSUME NEW r \in Requests, NEW b \in Baskets, Delete(r, b) PROVE TypeOK' /\ Timely'
  BY <1>11 DEF Delete, books
<1>12. ASSUME NEW s \in Sessions, Enter(s) PROVE TypeOK' /\ Timely'
  <2>1. job' \in [Sessions -> Job] /\ \A t \in Sessions : job'[t].now <= period
    <3>1. CASE job[s].due /\ ~Due(job[s].of)
      BY <3>1, <1>12, <1>3 DEF Enter
    <3>2. CASE ~(job[s].due /\ ~Due(job[s].of))
      <4>1. job' = [job EXCEPT ![s].at = "plan", ![s].seen = row[job[s].of].status]
        BY <3>2, <1>12 DEF Enter
      <4>2. job[s].of \in Baskets /\ row[job[s].of].status \in {"draft", "deployed", "archived"}
        BY DEF Job
      <4> DEFINE j == [job[s] EXCEPT !.at = "plan", !.seen = row[job[s].of].status]
      <4>3. job' = [job EXCEPT ![s] = j]
        BY <4>1
      <4>4. j \in Job
        <5>1. "plan" \in {"idle", "funded", "gate", "plan", "buy", "sell"} /\ 0 \in 0..Periods
              /\ NoOrders \in [Symbols -> Int] /\ job[s] \in Job
          BY BasketsAssumption DEF NoOrders
        <5> QED BY <5>1, <4>2, JobSteps
      <4>5. j.now = job[s].now
        BY DEF Job
      <4> HIDE DEF j
      <4> QED BY <4>3, <4>4, <4>5, <1>2
    <3> QED BY <3>1, <3>2
  <2>2. gate' \in [Procs -> Sessions \cup {None}]
    BY <1>12, <1>0 DEF Enter, Leave
  <2> QED BY <1>12, <2>1, <2>2 DEF Enter, books
<1>13. ASSUME NEW s \in Sessions, PlanOrders(s) PROVE TypeOK' /\ Timely'
  <2>1. PICK ranked \in Rankings :
           job' = [job EXCEPT ![s].at = "buy", ![s].now = period,
                              ![s].delta = Plan(job[s].of, ranked)]
    BY <1>13 DEF PlanOrders
  <2>2. Plan(job[s].of, ranked) \in [Symbols -> Int]
    BY PlanBounds DEF Job
  <2>3. job' \in [Sessions -> Job] /\ \A t \in Sessions : job'[t].now <= period
    <3> DEFINE j == [job[s] EXCEPT !.at = "buy", !.now = period,
                                   !.delta = Plan(job[s].of, ranked)]
    <3>1. job' = [job EXCEPT ![s] = j]
      BY <2>1
    <3>2. "buy" \in {"idle", "funded", "gate", "plan", "buy", "sell"} /\ period \in 0..Periods
          /\ job[s] \in Job /\ job[s].of \in Baskets /\ "draft" \in {"draft", "deployed", "archived"}
      BY DEF Job
    <3>3. j \in Job
      BY <3>2, <2>2, JobSteps
    <3>4. j.now = period
      BY <3>2 DEF Job
    <3> HIDE DEF j
    <3> QED BY <3>1, <3>3, <3>4, <1>2
  <2> QED BY <1>13, <2>3 DEF PlanOrders, books
<1>14. ASSUME NEW s \in Sessions, NoHistory(s) PROVE TypeOK' /\ Timely'
  BY <1>14, <1>3, <1>0 DEF NoHistory, Free, books
<1>15. ASSUME NEW s \in Sessions, NEW x \in Symbols, Send(s, x) PROVE TypeOK' /\ Timely'
  <2>1. job[s].of \in Baskets /\ job[s].delta[x] \in Int
    BY DEF Job
  <2>2. job' \in [Sessions -> Job] /\ \A t \in Sessions : job'[t].now <= period
    <3> DEFINE j == [job[s] EXCEPT !.delta[x] = 0, !.sent = TRUE]
    <3>1. job' = [job EXCEPT ![s] = j]
      BY <1>15 DEF Send
    <3>2. job[s] \in Job
      OBVIOUS
    <3>3. j \in Job
      BY <3>2, JobSends
    <3>4. j.now = job[s].now
      BY <3>2 DEF Job
    <3> HIDE DEF j
    <3> QED BY <3>1, <3>3, <3>4, <1>2
  <2>3. net' \in [Baskets -> [Symbols -> Int]] /\ cash' \in Int
    <3> DEFINE q == job[s].delta[x]
               b == job[s].of
    <3>1. CASE net' = [net EXCEPT ![b][x] = @ + q] /\ cash' = cash - q
      <4>1. net[b] \in [Symbols -> Int] /\ q \in Int
        BY <2>1
      <4>2. [net[b] EXCEPT ![x] = @ + q] \in [Symbols -> Int]
        BY <4>1
      <4>3. net' = [net EXCEPT ![b] = [net[b] EXCEPT ![x] = @ + q]]
        BY <3>1
      <4> QED BY <3>1, <4>1, <4>2, <4>3, <2>1
    <3>2. CASE UNCHANGED books
      BY <3>2 DEF books
    <3> QED BY <1>15, <3>1, <3>2 DEF Send
  <2> QED BY <1>15, <2>2, <2>3 DEF Send
<1>16. ASSUME NEW s \in Sessions, EndRebalance(s) PROVE TypeOK' /\ Timely'
  <2>1. job[s].of \in Baskets /\ job[s].now \in 0..period
    BY DEF Job
  <2>2. Status(s, "deployed") \in {"draft", "deployed", "archived"}
    BY <2>1 DEF Status
  <2>3. row' \in [Baskets -> [status : {"draft", "deployed", "archived"}, last : 0..period]]
    BY <1>16, <2>1, <2>2 DEF EndRebalance
  <2>4. auto' \in [Baskets -> Nat]
    BY <1>16, <2>1 DEF EndRebalance
  <2>5. job' \in [Sessions -> Job] /\ \A t \in Sessions : job'[t].now <= period
    BY <1>16, <1>3 DEF EndRebalance
  <2>6. gate' \in [Procs -> Sessions \cup {None}]
    BY <1>16, <1>0 DEF EndRebalance, Free
  <2> QED BY <1>16, <2>3, <2>4, <2>5, <2>6 DEF EndRebalance, books
<1>17. ASSUME NEW s \in Sessions, EndUndeploy(s) PROVE TypeOK' /\ Timely'
  <2>1. job[s].of \in Baskets
    BY DEF Job
  <2>2. Status(s, "draft") \in {"draft", "deployed", "archived"}
    BY <2>1 DEF Status
  <2>3. row' \in [Baskets -> [status : {"draft", "deployed", "archived"}, last : 0..period]]
    BY <1>17, <2>1, <2>2 DEF EndUndeploy
  <2> QED BY <1>17, <1>3, <2>3 DEF EndUndeploy, books
<1>18. ASSUME NEW p \in Procs, Crash(p) PROVE TypeOK' /\ Timely'
  <2>1. job' \in [Sessions -> Job] /\ \A t \in Sessions : job'[t].now <= period
    BY <1>18, IdleJob DEF Crash
  <2>2. crashes' \in 0..MaxCrashes
    BY <1>18, BasketsAssumption DEF Crash
  <2>3. gate' \in [Procs -> Sessions \cup {None}] /\ todo' \subseteq Baskets
    BY <1>18 DEF Crash
  <2> QED BY <1>18, <2>1, <2>2, <2>3 DEF Crash, books
<1>19. ASSUME NEW s \in Sessions, Abandon(s) PROVE TypeOK' /\ Timely'
  <2>1. job' \in [Sessions -> Job] /\ \A t \in Sessions : job'[t].now <= period
    BY <1>19, <1>3 DEF Abandon
  <2>2. crashes' \in 0..MaxCrashes
    BY <1>19, BasketsAssumption DEF Abandon
  <2>3. gate' \in [Procs -> Sessions \cup {None}]
    BY <1>19, <1>0 DEF Abandon, Free
  <2> QED BY <1>19, <2>1, <2>2, <2>3 DEF Abandon, books
<1>20. CASE UNCHANGED vars
  BY <1>20 DEF vars, books
<1> QED
  BY <1>1, <1>5, <1>6, <1>7, <1>8, <1>9, <1>10, <1>11, <1>12, <1>13, <1>14, <1>15, <1>16,
     <1>17, <1>18, <1>19, <1>20 DEF Next

Kept == Locked' /\ OrdersFit' /\ Counted' /\ NoDoubleBuy'

\* A step that buys nothing, counts nothing and leaves the lock alone, and after
\* which the sessions it touched are not at a rebalance.
LEMMA Quiet ==
  ASSUME IInv,
         \A t \in Sessions : \/ job'[t] = job[t]
                             \/ job'[t].at \in {"idle", "funded", "gate"}
                             \/ job'[t].at = "sell" /\ \A x \in Symbols : job'[t].delta[x] <= 0,
         gate' = gate, net' = net, auto' = auto, period' = period,
         \A b \in Baskets : row'[b].last = row[b].last \/ row'[b].last = period
  PROVE  Kept
<1>1. Locked'
  BY DEF IInv, Locked, Busy
<1>2. OrdersFit'
  BY DEF IInv, OrdersFit
<1>3. Counted'
  BY DEF IInv, Counted, Busy
<1>4. NoDoubleBuy'
  BY DEF IInv, NoDoubleBuy
<1> QED BY <1>1, <1>2, <1>3, <1>4 DEF Kept

\* A step that takes session s, or all sessions of a process, out of a rebalance.
LEMMA Released ==
  ASSUME IInv, NEW p \in Procs,
         \A t \in Sessions : job'[t] = job[t] \/ job'[t].at = "idle",
         \A t \in Sessions : ProcOf[t] = p /\ Busy(t) => job'[t].at = "idle",
         gate' = [gate EXCEPT ![p] = None],
         net' = net, auto' = auto, period' = period, row' = row
  PROVE  Kept
<1>1. Locked'
  <2> SUFFICES ASSUME NEW t \in Sessions, Busy(t)' PROVE gate'[ProcOf[t]] = t
    BY DEF Locked
  <2>1. job'[t] = job[t] /\ Busy(t) /\ ProcOf[t] # p /\ ProcOf[t] \in Procs
    BY DEF Busy, Procs
  <2>2. gate[ProcOf[t]] = t /\ gate \in [Procs -> Sessions \cup {None}]
    BY <2>1 DEF IInv, Locked, TypeOK
  <2> QED BY <2>1, <2>2
<1>2. OrdersFit'
  BY DEF IInv, OrdersFit
<1>3. Counted'
  BY DEF IInv, Counted, Busy
<1>4. NoDoubleBuy'
  BY DEF IInv, NoDoubleBuy
<1> QED BY <1>1, <1>2, <1>3, <1>4 DEF Kept

LEMMA TickKeeps == ASSUME IInv, Tick PROVE Kept
<1>1. Locked' /\ OrdersFit' /\ NoDoubleBuy'
  BY DEF Tick, books, IInv, Locked, Busy, OrdersFit, NoDoubleBuy
<1>2. auto' = [b \in Baskets |-> 0]
  BY DEF Tick
<1>3. Counted'
  <2>1. \A s \in Sessions : job[s].of \in Baskets
    BY DEF IInv, TypeOK, Job
  <2> QED BY <1>2, <2>1 DEF Tick, Counted, Busy
<1> QED BY <1>1, <1>3 DEF Kept

LEMMA EnterKeeps == ASSUME IInv, NEW s \in Sessions, Enter(s) PROVE Kept
<1>1. CASE job[s].due /\ ~Due(job[s].of)
  <2>1. job' = [job EXCEPT ![s] = Idle] /\ gate' = gate
    BY <1>1 DEF Enter, Leave
  <2>2. \A t \in Sessions : job'[t] = job[t] \/ job'[t].at = "idle"
    BY <2>1, IdleJob DEF IInv, TypeOK
  <2> QED BY <2>1, <2>2, Quiet DEF Enter, books
<1>2. CASE ~(job[s].due /\ ~Due(job[s].of))
  <2>1. /\ gate[ProcOf[s]] = None /\ gate' = [gate EXCEPT ![ProcOf[s]] = s]
        /\ job' = [job EXCEPT ![s].at = "plan", ![s].seen = row[job[s].of].status]
        /\ UNCHANGED <<period, row, net, cash, todo, auto, crashes>>
    BY <1>2 DEF Enter, books
  <2>2. /\ job'[s].at = "plan" /\ job'[s].of = job[s].of /\ job'[s].due = job[s].due
        /\ \A t \in Sessions : t # s => job'[t] = job[t]
    BY <2>1 DEF IInv, TypeOK, Job
  <2>3. Locked'
    <3> SUFFICES ASSUME NEW t \in Sessions, Busy(t)' PROVE gate'[ProcOf[t]] = t
      BY DEF Locked
    <3>1. CASE t = s
      BY <3>1, <2>1 DEF IInv, TypeOK, Procs
    <3>2. CASE t # s
      <4>1. gate[ProcOf[t]] = t
        BY <3>2, <2>2 DEF IInv, Locked, Busy
      <4>2. ProcOf[t] # ProcOf[s]
        BY <4>1, <2>1, BasketsAssumption
      <4> QED BY <4>1, <4>2, <2>1 DEF IInv, TypeOK, Procs
    <3> QED BY <3>1, <3>2
  <2>4. OrdersFit' /\ NoDoubleBuy'
    BY <2>1, <2>2 DEF IInv, OrdersFit, NoDoubleBuy
  <2>5. Counted'
    <3>1. job[s].of \in Baskets
      BY DEF IInv, TypeOK, Job
    <3>2. job[s].due => auto[job[s].of] = 0
      BY <1>2, <3>1 DEF Due, IInv, Counted, TypeOK
    <3> QED BY <2>1, <2>2, <3>1, <3>2, ZenonT(40) DEF IInv, Counted, Busy
  <2> QED BY <2>3, <2>4, <2>5 DEF Kept
<1> QED BY <1>1, <1>2

LEMMA PlanKeeps == ASSUME IInv, NEW s \in Sessions, PlanOrders(s) PROVE Kept
<1>1. PICK ranked \in Rankings :
         job' = [job EXCEPT ![s].at = "buy", ![s].now = period,
                            ![s].delta = Plan(job[s].of, ranked)]
  BY DEF PlanOrders
<1>2. UNCHANGED <<period, row, net, cash, gate, todo, auto, crashes>> /\ Busy(s)
  BY DEF PlanOrders, books, Busy
<1>3. /\ job'[s].at = "buy" /\ job'[s].now = period /\ job'[s].of = job[s].of
      /\ job'[s].due = job[s].due /\ job'[s].delta = Plan(job[s].of, ranked)
      /\ \A t \in Sessions : t # s => job'[t] = job[t]
  BY <1>1 DEF IInv, TypeOK, Job
<1>4. Locked' /\ NoDoubleBuy'
  BY <1>2, <1>3 DEF IInv, Locked, Busy, NoDoubleBuy
<1>5. OrdersFit'
  <2>1. job[s].of \in Baskets
    BY DEF IInv, TypeOK, Job
  <2>2. \A x \in Symbols : Plan(job[s].of, ranked)[x] > 0
           => Allotted(job[s].of, x, net[job[s].of][x] + Plan(job[s].of, ranked)[x])
    BY <2>1, PlanBounds DEF IInv
  <2> QED BY <1>2, <1>3, <2>2 DEF IInv, OrdersFit
<1>6. Counted'
  <2>1. period \in Nat
    BY DEF IInv, TypeOK
  <2> QED BY <1>2, <1>3, <2>1 DEF IInv, Counted, Busy
<1> QED BY <1>4, <1>5, <1>6 DEF Kept

\* An order of s leaves what the other sessions have to buy as it was, since none
\* of them is at its orders when s raises a position.
LEMMA SendKeeps ==
  ASSUME OneProcess, IInv, NEW s \in Sessions, NEW x \in Symbols, Send(s, x)
  PROVE  Kept
<1> DEFINE q == job[s].delta[x]
           b == job[s].of
<1>1. job[s] \in Job /\ b \in Baskets /\ q \in Int /\ net \in [Baskets -> [Symbols -> Int]]
  BY DEF IInv, TypeOK, Job
<1>2. /\ job' = [job EXCEPT ![s] = [@ EXCEPT !.delta[x] = 0, !.sent = TRUE]]
      /\ UNCHANGED <<period, row, gate, todo, auto, crashes>>
      /\ job[s].at \in {"buy", "sell"}
  BY DEF Send
<1>3. /\ job'[s].at = job[s].at /\ job'[s].of = b /\ job'[s].due = job[s].due
      /\ job'[s].now = job[s].now /\ job'[s].delta = [job[s].delta EXCEPT ![x] = 0]
      /\ \A t \in Sessions : t # s => job'[t] = job[t]
  BY <1>1, <1>2 DEF IInv, TypeOK, Job
<1>40. job[s].delta \in [Symbols -> Int]
  BY <1>1 DEF Job
<1>4. job'[s].delta[x] = 0 /\ \A y \in Symbols : y # x => job'[s].delta[y] = job[s].delta[y]
  BY <1>40, <1>3
<1>5. Locked' /\ Counted'
  BY <1>2, <1>3 DEF IInv, Locked, Counted, Busy
<1>6. CASE net' = net
  <2>1. NoDoubleBuy'
    BY <1>6 DEF IInv, NoDoubleBuy
  <2>2. OrdersFit'
    <3> SUFFICES ASSUME NEW t \in Sessions, NEW y \in Symbols
                 PROVE  /\ job'[t].at = "sell" => job'[t].delta[y] <= 0
                        /\ job'[t].at = "buy" /\ job'[t].delta[y] > 0
                             => Allotted(job'[t].of, y, net[job'[t].of][y] + job'[t].delta[y])
      BY <1>6 DEF OrdersFit
    <3>1. job'[t].at = job[t].at /\ job'[t].of = job[t].of
          /\ (job'[t].delta[y] = job[t].delta[y] \/ job'[t].delta[y] = 0)
      BY <1>3, <1>4
    <3> QED BY <3>1 DEF IInv, OrdersFit
  <2> QED BY <1>5, <2>1, <2>2 DEF Kept
<1>7. CASE net' = [net EXCEPT ![b][x] = @ + q]
  <2>1. /\ net'[b][x] = net[b][x] + q
        /\ \A c \in Baskets, y \in Symbols : c # b \/ y # x => net'[c][y] = net[c][y]
    BY <1>1, <1>7
  <2>3. q > 0 => job[s].at = "buy" /\ Allotted(b, x, net[b][x] + q)
    BY <1>1, <1>2 DEF IInv, OrdersFit
  <2>4. NoDoubleBuy'
    <3> SUFFICES ASSUME NEW c \in Baskets, NEW y \in Symbols
                 PROVE  Allotted(c, y, net'[c][y])
      BY DEF NoDoubleBuy
    <3>1. Allotted(c, y, net[c][y]) /\ net[c][y] \in Int
      BY <1>1 DEF IInv, NoDoubleBuy
    <3>2. CASE c = b /\ y = x /\ ~(q > 0)
      <4>1. net[b][x] \in Int /\ net[b][x] + q \in Int /\ net[b][x] + q <= net[b][x]
        BY <1>1, <3>2
      <4> QED BY <2>1, <3>1, <3>2, <4>1, LessAllotted
    <3>3. CASE c = b /\ y = x /\ q > 0
      BY <2>1, <2>3, <3>3
    <3>4. CASE c # b \/ y # x
      BY <2>1, <3>1, <3>4
    <3> QED BY <3>2, <3>3, <3>4
  <2>5. OrdersFit'
    <3> SUFFICES ASSUME NEW t \in Sessions, NEW y \in Symbols
                 PROVE  /\ job'[t].at = "sell" => job'[t].delta[y] <= 0
                        /\ job'[t].at = "buy" /\ job'[t].delta[y] > 0
                             => Allotted(job'[t].of, y, net'[job'[t].of][y] + job'[t].delta[y])
      BY DEF OrdersFit
    <3>0. /\ job[t].at = "sell" => job[t].delta[y] <= 0
          /\ job[t].at = "buy" /\ job[t].delta[y] > 0
               => Allotted(job[t].of, y, net[job[t].of][y] + job[t].delta[y])
      BY DEF IInv, OrdersFit
    <3>1. CASE t = s
      BY <3>0, <3>1, <1>3, <1>4, <2>1, <1>1
    <3>2. CASE t # s
      <4>1. job'[t] = job[t] /\ job[t].of \in Baskets /\ job[t].delta[y] \in Int
            /\ net[job[t].of][y] \in Int
        BY <3>2, <1>3 DEF IInv, TypeOK, Job
      <4>2. job[t].at = "buy" => q <= 0
        <5>1. job[t].at = "buy" /\ job[s].at = "buy" => FALSE
          BY <3>2, Alone DEF Busy
        <5> QED BY <5>1, <2>3, <1>1
      <4>3. job[t].at = "buy" => net'[job[t].of][y] <= net[job[t].of][y]
        BY <4>1, <4>2, <2>1, <1>1
      <4>4. net'[job[t].of][y] \in Int
        BY <4>1, <2>1, <1>1
      <4>5. ASSUME job[t].at = "buy", job[t].delta[y] > 0
            PROVE  Allotted(job[t].of, y, net'[job[t].of][y] + job[t].delta[y])
        <5> DEFINE n == net[job[t].of][y] + job[t].delta[y]
                   m == net'[job[t].of][y] + job[t].delta[y]
        <5>1. n \in Int /\ m \in Int /\ m <= n
          BY <4>1, <4>3, <4>4, <4>5
        <5>2. Allotted(job[t].of, y, n)
          BY <3>0, <4>5
        <5> HIDE DEF n, m
        <5>3. Allotted(job[t].of, y, m)
          BY <4>1, <5>1, <5>2, LessAllotted
        <5> QED BY <5>3 DEF m
      <4> QED BY <3>0, <4>1, <4>5
    <3> QED BY <3>1, <3>2
  <2> QED BY <1>5, <2>4, <2>5 DEF Kept
<1> QED BY <1>6, <1>7 DEF Send, books

LEMMA EndKeeps ==
  ASSUME OneProcess, IInv, NEW s \in Sessions, EndRebalance(s)
  PROVE  Kept
<1> DEFINE b == job[s].of
<1>1. /\ job[s] \in Job /\ b \in Baskets /\ job[s].at = "buy" /\ Busy(s)
      /\ job[s].now \in Int /\ period \in Int /\ job[s].now <= period
  BY DEF IInv, TypeOK, Timely, Job, EndRebalance, AllSent, Busy
<1>2. /\ job' = [job EXCEPT ![s] = Idle] /\ gate' = [gate EXCEPT ![ProcOf[s]] = None]
      /\ net' = net /\ period' = period
  BY DEF EndRebalance, Leave, Free, books
<1>3. job'[s] = Idle /\ \A t \in Sessions : t # s => job'[t] = job[t] /\ ~Busy(t)
  BY <1>1, <1>2, Alone DEF IInv, TypeOK
<1>4. Locked' /\ OrdersFit' /\ NoDoubleBuy'
  BY <1>2, <1>3, IdleJob DEF IInv, Locked, Busy, OrdersFit, NoDoubleBuy
<1>5. Counted'
  <2>1. \A c \in Baskets : c # b => auto'[c] = auto[c] /\ row'[c] = row[c]
    BY <1>1 DEF EndRebalance, IInv, TypeOK
  <2>2. row'[b].last = job[s].now
    BY <1>1 DEF EndRebalance, IInv, TypeOK
  <2>3. auto'[b] = IF job[s].due /\ job[s].now = period THEN auto[b] + 1 ELSE auto[b]
    BY <1>1 DEF EndRebalance, IInv, TypeOK
  <2>4. /\ job[s].due => auto[b] = 0
        /\ job[s].now < period => auto[b] = 0
        /\ auto[b] = 0 \/ auto[b] = 1
    BY <1>1 DEF IInv, Counted
  <2>5. auto'[b] = 0 \/ (auto'[b] = 1 /\ row'[b].last = period)
    BY <1>1, <2>2, <2>3, <2>4
  <2>6. \A c \in Baskets : auto'[c] = 0 \/ (auto'[c] = 1 /\ row'[c].last = period')
    BY <1>2, <2>1, <2>5 DEF IInv, Counted
  <2>7. \A t \in Sessions : ~Busy(t)'
    BY <1>3, IdleJob DEF Busy
  <2> QED BY <2>6, <2>7 DEF Counted, Busy
<1> QED BY <1>4, <1>5 DEF Kept

LEMMA Inductive == ASSUME OneProcess, IInv, [Next]_vars PROVE IInv'
<1>0. TypeOK' /\ Timely'
  BY Typed DEF IInv
<1> SUFFICES Kept
  BY <1>0 DEF IInv, Kept
<1>1. Loop \in Sessions /\ Requests \subseteq Sessions /\ \A s \in Sessions : ProcOf[s] \in Procs
  BY DEF Sessions, Procs
<1>2. job \in [Sessions -> Job]
  BY DEF IInv, TypeOK
<1>3. ASSUME NEW s \in Sessions, NEW b \in Baskets, NEW due, AskGate(s, b, due)
      PROVE  \A t \in Sessions : job'[t] = job[t] \/ job'[t].at = "gate"
  BY <1>2, <1>3, IdleJob DEF AskGate, Job
<1>4. CASE Tick
  BY <1>4, TickKeeps
<1>5. CASE LoopList
  BY <1>5, Quiet DEF LoopList, books
<1>6. ASSUME NEW b \in Baskets, LoopNext(b) PROVE Kept
  <2>1. \A t \in Sessions : job'[t] = job[t] \/ job'[t].at = "gate"
    BY <1>6, <1>3, <1>1 DEF LoopNext
  <2> QED BY <1>6, <2>1, Quiet DEF LoopNext, books
<1>7. ASSUME NEW r \in Requests, NEW b \in Baskets, NEW flag \in BOOLEAN, Rebalance(r, b, flag)
      PROVE  Kept
  <2>1. \A t \in Sessions : job'[t] = job[t] \/ job'[t].at = "gate"
    BY <1>7, <1>3, <1>1 DEF Rebalance
  <2> QED BY <1>7, <2>1, Quiet DEF Rebalance, books
<1>8. ASSUME NEW r \in Requests, NEW b \in Baskets, Deploy(r, b) PROVE Kept
  <2>1. \A t \in Sessions : job'[t] = job[t] \/ job'[t].at = "funded"
    BY <1>8, <1>2, IdleJob DEF Deploy, Job
  <2> QED BY <1>8, <2>1, Quiet DEF Deploy, books
<1>9. ASSUME NEW r \in Requests, DeployCommit(r) PROVE Kept
  <2>1. job[r].of \in Baskets
    BY <1>1, <1>2 DEF Job
  <2>2. \A t \in Sessions : job'[t] = job[t] \/ job'[t].at = "gate"
    BY <1>9, <1>3, <1>1, <2>1 DEF DeployCommit
  <2>3. \A b \in Baskets : row'[b].last = row[b].last \/ row'[b].last = period
    BY <1>9, <2>1 DEF DeployCommit, IInv, TypeOK
  <2> QED BY <1>9, <2>2, <2>3, Quiet DEF DeployCommit, books
<1>10. ASSUME NEW r \in Requests, NEW b \in Baskets, NEW flag \in BOOLEAN, Undeploy(r, b, flag)
       PROVE  Kept
  <2> DEFINE d == [x \in Symbols |-> IF flag /\ net[b][x] > 0 THEN -net[b][x] ELSE 0]
             j == [Idle EXCEPT !.at = "sell", !.of = b, !.seen = row[b].status, !.delta = d]
  <2>1. j.at = "sell" /\ j.delta = d
    BY DEF Idle
  <2>0. net[b] \in [Symbols -> Int]
    BY DEF IInv, TypeOK
  <2>2. \A x \in Symbols : d[x] <= 0
    BY <2>0
  <2>3. job' = [job EXCEPT ![r] = j]
    BY <1>10 DEF Undeploy
  <2> HIDE DEF j, d
  <2>4. job'[r] = j /\ \A t \in Sessions : t # r => job'[t] = job[t]
    BY <2>3, <1>1, <1>2
  <2>5. \A t \in Sessions : \/ job'[t] = job[t]
                            \/ job'[t].at = "sell" /\ \A x \in Symbols : job'[t].delta[x] <= 0
    BY <2>1, <2>2, <2>4
  <2> QED BY <1>10, <2>5, Quiet DEF Undeploy, books
<1>11. ASSUME NEW r \in Requests, NEW b \in Baskets, Delete(r, b) PROVE Kept
  <2>1. \A c \in Baskets : row'[c].last = row[c].last
    BY <1>11 DEF Delete, IInv, TypeOK
  <2> QED BY <1>11, <2>1, Quiet DEF Delete, books
<1>12. ASSUME NEW s \in Sessions, NoHistory(s) PROVE Kept
  <2>1. job[s].at = "plan" /\ gate[ProcOf[s]] = s
    BY <1>12 DEF NoHistory, IInv, Locked, Busy
  <2>2. job' = [job EXCEPT ![s] = Idle] /\ gate' = [gate EXCEPT ![ProcOf[s]] = None]
    BY <1>12 DEF NoHistory, Leave, Free
  <2>3. \A t \in Sessions : job'[t] = job[t] \/ job'[t].at = "idle"
    BY <2>2, <1>2, IdleJob
  <2>4. \A t \in Sessions : ProcOf[t] = ProcOf[s] /\ Busy(t) => job'[t].at = "idle"
    BY <2>1, <2>2, <1>2, IdleJob DEF IInv, Locked
  <2> QED BY <1>12, <2>2, <2>3, <2>4, <1>1, Released DEF NoHistory, books
<1>13. ASSUME NEW s \in Sessions, EndUndeploy(s) PROVE Kept
  <2>1. job[s].of \in Baskets
    BY <1>2 DEF Job
  <2>2. \A t \in Sessions : job'[t] = job[t] \/ job'[t].at = "idle"
    BY <1>13, <1>2, IdleJob DEF EndUndeploy, Leave
  <2>3. \A c \in Baskets : row'[c].last = row[c].last
    BY <1>13, <2>1 DEF EndUndeploy, IInv, TypeOK
  <2> QED BY <1>13, <2>2, <2>3, Quiet DEF EndUndeploy, books
<1>14. ASSUME NEW p \in Procs, Crash(p) PROVE Kept
  <2>1. job' = [s \in Sessions |-> IF ProcOf[s] = p THEN Idle ELSE job[s]]
    BY <1>14 DEF Crash
  <2> QED BY <1>14, <2>1, IdleJob, Released DEF Crash, books
<1>15. ASSUME NEW s \in Sessions, Abandon(s) PROVE Kept
  <2>1. /\ job' = [job EXCEPT ![s] = Idle]
        /\ UNCHANGED <<period, row, net, cash, auto>>
        /\ IF job[s].at = "buy" THEN gate' = [gate EXCEPT ![ProcOf[s]] = None]
           ELSE gate' = gate
    BY <1>15 DEF Abandon, Leave, Free, books
  <2>2. \A t \in Sessions : job'[t] = job[t] \/ job'[t].at = "idle"
    BY <2>1, <1>2, IdleJob
  <2>3. CASE job[s].at = "buy"
    <3>1. gate[ProcOf[s]] = s
      BY <2>3 DEF IInv, Locked, Busy
    <3>2. \A t \in Sessions : ProcOf[t] = ProcOf[s] /\ Busy(t) => job'[t].at = "idle"
      BY <2>1, <3>1, <1>2, IdleJob DEF IInv, Locked
    <3> QED BY <2>1, <2>2, <2>3, <3>2, <1>1, Released
  <2>4. CASE job[s].at # "buy"
    BY <2>1, <2>2, <2>4, Quiet
  <2> QED BY <2>3, <2>4
<1>16. CASE UNCHANGED vars
  BY <1>16, Quiet DEF vars
<1> QED
  BY <1>4, <1>5, <1>6, <1>7, <1>8, <1>9, <1>10, <1>11, <1>12, <1>13, <1>14, <1>15, <1>16,
     EnterKeeps, PlanKeeps, SendKeeps, EndKeeps DEF Next

\* The variables keep their types in one process, whatever its sessions do.
THEOREM TypeCorrect == ASSUME OneProcess PROVE Spec => []TypeOK
<1>1. Init => IInv
  BY InitHolds
<1>2. IInv /\ [Next]_vars => IInv'
  BY Inductive
<1>3. IInv => TypeOK
  BY DEF IInv
<1> QED BY <1>1, <1>2, <1>3, PTL DEF Spec

\* For every set of baskets, stocks and sessions no position of a basket ever
\* exceeds what a ranking allots it.
THEOREM BuysHold == ASSUME OneProcess PROVE Spec => []NoDoubleBuy
<1>1. Init => IInv
  BY InitHolds
<1>2. IInv /\ [Next]_vars => IInv'
  BY Inductive
<1>3. IInv => NoDoubleBuy
  BY DEF IInv
<1> QED BY <1>1, <1>2, <1>3, PTL DEF Spec

\* The cadence brings one rebalance of a basket a period, at most, through any
\* number of restarts and forced rebalances.
THEOREM CadenceHolds == ASSUME OneProcess PROVE Spec => []ScheduledOnce
<1>1. Init => IInv
  BY InitHolds
<1>2. IInv /\ [Next]_vars => IInv'
  BY Inductive
<1>3. IInv => ScheduledOnce
  BY DEF IInv, Counted, ScheduledOnce
<1> QED BY <1>1, <1>2, <1>3, PTL DEF Spec
==============================================================================
