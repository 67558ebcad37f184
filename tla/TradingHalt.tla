----------------------------- MODULE TradingHalt -----------------------------
(***************************************************************************)
(* The two halts in front of every order: the manual kill switch of RISK   *)
(* and the automatic CircuitBreakers, each an in-memory singleton of its   *)
(* process.  The API process has the operator's endpoints, the ticker and  *)
(* the monitor loop; OrderRouter.submit runs in the worker, whose RISK and *)
(* BREAKERS are other objects.                                             *)
(*                                                                         *)
(* The names of the specification begin with Halt, as one module extends   *)
(* this one and RiskGate to reason about all the checks of submit.         *)
(***************************************************************************)
EXTENDS Naturals, FiniteSets

CONSTANTS
  Deployments,   \* the deployments whose strategies submit orders
  NoDep,         \* "no deployment"
  MaxOrders,     \* bound: orders accepted
  MaxOps,        \* bound: calls of the operator, and restarts of the API
  MaxEvents      \* bound: changes of the feed and of the market session

Proc == {"api", "worker"}
\* The process that builds the OrderRouter and calls submit
Router == "worker"

ASSUME HaltAssumption ==
  /\ NoDep \notin Deployments
  /\ MaxOrders \in Nat /\ MaxOps \in Nat /\ MaxEvents \in Nat

Reasons == {"broker_feed_disconnected", "market_data_stale"}

VARIABLES
  globalKill,  \* RISK._global_kill of each process
  killed,      \* the deployments with _DeploymentRisk.killed, of each process
  reasons,     \* BREAKERS._reasons of each process
  override,    \* BREAKERS._manual_override_clear of each process
  feed,        \* what the monitor reads: ticker there, connected, age of the last tick, session
  monitor,     \* the monitor loop: "asleep", or whether the data of its reading is "stale" or "live"
  submit,      \* the submit() under way: its deployment and what it found
  orders,      \* orders accepted
  asked,       \* what the operator last asked of this API process' kill switch
  ops, events  \* bounded counters

halts   == <<globalKill, killed, reasons, override>>
bounded == <<ops, events>>
haltVars    == <<halts, feed, monitor, submit, orders, asked, bounded>>

Age  == {"none", "fresh", "stale"}  \* "none": no tick since the process started
Feed == [ticker : BOOLEAN, connected : BOOLEAN, age : Age, open : BOOLEAN]
NoSubmit == [dep |-> NoDep, halted |-> FALSE]

HaltTypeOK ==
  /\ globalKill \in [Proc -> BOOLEAN]
  /\ killed \in [Proc -> SUBSET Deployments]
  /\ reasons \in [Proc -> SUBSET Reasons]
  /\ override \in [Proc -> BOOLEAN]
  /\ feed \in Feed
  /\ monitor \in {"asleep", "stale", "live"}
  /\ submit \in [dep : Deployments \cup {NoDep}, halted : BOOLEAN]
  /\ orders \in 0..MaxOrders
  /\ asked \in [all : BOOLEAN, deps : SUBSET Deployments]
  /\ ops \in 0..MaxOps /\ events \in 0..MaxEvents

Halted(p) == reasons[p] # {} /\ ~override[p]

HaltInit ==
  /\ globalKill = [p \in Proc |-> FALSE] /\ killed = [p \in Proc |-> {}]
  /\ reasons = [p \in Proc |-> {}] /\ override = [p \in Proc |-> FALSE]
  /\ feed \in [ticker : {FALSE}, connected : {FALSE}, age : {"none"}, open : BOOLEAN]
  /\ monitor = "asleep" /\ submit = NoSubmit /\ orders = 0
  /\ asked = [all |-> FALSE, deps |-> {}]
  /\ ops = 0 /\ events = 0

----------------------------------------------------------------------------
(* The operator: endpoints of the API process *)

Operator == ops < MaxOps /\ ops' = ops + 1 /\ UNCHANGED events

\* RISK.kill_all / resume_all, also the first step of emergency_flatten
KillAll(engaged) ==
  /\ Operator
  /\ globalKill' = [globalKill EXCEPT !["api"] = engaged]
  /\ asked' = [asked EXCEPT !.all = engaged]
  /\ UNCHANGED <<killed, reasons, override, feed, monitor, submit, orders>>

\* RISK.kill / resume of one deployment
Kill(d, engaged) ==
  LET With(S) == IF engaged THEN S \cup {d} ELSE S \ {d} IN
  /\ Operator
  /\ killed' = [killed EXCEPT !["api"] = With(@)]
  /\ asked' = [asked EXCEPT !.deps = With(@)]
  /\ UNCHANGED <<globalKill, reasons, override, feed, monitor, submit, orders>>

\* force_clear_all
Override ==
  /\ Operator
  /\ override' = [override EXCEPT !["api"] = TRUE]
  /\ UNCHANGED <<globalKill, killed, reasons, feed, monitor, submit, orders, asked>>

\* The API process starts again: its singletons are new and the ticker is gone
\* until a browser opens a chart.
ApiRestart ==
  /\ Operator
  /\ globalKill' = [globalKill EXCEPT !["api"] = FALSE]
  /\ killed' = [killed EXCEPT !["api"] = {}]
  /\ reasons' = [reasons EXCEPT !["api"] = {}]
  /\ override' = [override EXCEPT !["api"] = FALSE]
  /\ feed' = [feed EXCEPT !.ticker = FALSE, !.connected = FALSE, !.age = "none"]
  /\ monitor' = "asleep"
  /\ asked' = [all |-> FALSE, deps |-> {}]
  /\ UNCHANGED <<submit, orders>>

----------------------------------------------------------------------------
(* The breakers and the monitor loop of the API process *)

\* Changed: only a reason that is new counts as a trip.
TrippedIfNew(r, rs, ov) ==
  [reasons |-> rs \cup {r}, override |-> ov /\ r \in rs]
\* Changed: the last reason is kept.
ClearedButLast(r, rs, ov) ==
  [reasons |-> IF rs = {r} THEN rs ELSE rs \ {r}, override |-> ov]

\* What trip(r) and clear(r) leave of <<_reasons, _manual_override_clear>>.
Tripped(r, rs, ov) == [reasons |-> rs \cup {r}, override |-> FALSE]
Cleared(r, rs, ov) == [reasons |-> rs \ {r}, override |-> ov /\ rs \ {r} # {}]

Breakers(b) ==
  /\ reasons' = [reasons EXCEPT !["api"] = b.reasons]
  /\ override' = [override EXCEPT !["api"] = b.override]
  /\ UNCHANGED <<globalKill, killed>>

\* ensure_started(): a first subscriber starts the ticker and the monitor.
StartTicker ==
  /\ ~feed.ticker
  /\ feed' = [feed EXCEPT !.ticker = TRUE]
  /\ UNCHANGED <<halts, monitor, submit, orders, asked, bounded>>

\* _monitor_loop takes its reading and observe() handles the connection ...
ObserveFeed ==
  /\ feed.ticker /\ monitor = "asleep"
  /\ monitor' = IF feed.connected /\ feed.open /\ feed.age = "stale" THEN "stale" ELSE "live"
  /\ LET r == "broker_feed_disconnected" IN
     Breakers(IF feed.connected THEN Cleared(r, reasons["api"], override["api"])
                                ELSE Tripped(r, reasons["api"], override["api"]))
  /\ UNCHANGED <<feed, submit, orders, asked, bounded>>

\* ... and then, under another acquisition of the lock, the age of the data.
ObserveData ==
  /\ monitor # "asleep"
  /\ monitor' = "asleep"
  /\ LET r == "market_data_stale" IN
     Breakers(IF monitor = "stale" THEN Tripped(r, reasons["api"], override["api"])
                                   ELSE Cleared(r, reasons["api"], override["api"]))
  /\ UNCHANGED <<feed, submit, orders, asked, bounded>>

----------------------------------------------------------------------------
(* The feed and the exchange session (environment) *)

FeedEvent ==
  /\ events < MaxEvents /\ events' = events + 1
  /\ \/ feed.ticker /\ feed' = [feed EXCEPT !.connected = ~@]
     \/ feed.connected /\ feed.age # "fresh" /\ feed' = [feed EXCEPT !.age = "fresh"]
     \/ feed.age = "fresh" /\ feed' = [feed EXCEPT !.age = "stale"]
     \/ feed' = [feed EXCEPT !.open = ~@]
  /\ UNCHANGED <<halts, monitor, submit, orders, asked, ops>>

----------------------------------------------------------------------------
(* OrderRouter.submit *)

\* BREAKERS.halted; halted records whether the automatic halt was on.
ReadHalted(d) ==
  /\ submit = NoSubmit /\ orders < MaxOrders
  /\ submit' = IF Halted(Router) THEN NoSubmit
               ELSE [dep |-> d, halted |-> Halted("api")]
  /\ UNCHANGED <<halts, feed, monitor, orders, asked, bounded>>

\* The first two checks of RISK.evaluate
KillEngaged(d) == globalKill[Router] \/ d \in killed[Router]

\* Changed: the intent is not taken off.
EvaluateAgain ==
  /\ submit # NoSubmit
  /\ orders' = IF KillEngaged(submit.dep) THEN orders ELSE orders + 1
  /\ UNCHANGED <<halts, feed, monitor, submit, asked, bounded>>

\* RISK.evaluate; an approved order goes to its executor.
EvaluateKills ==
  /\ submit # NoSubmit
  /\ submit' = NoSubmit
  /\ orders' = IF KillEngaged(submit.dep) THEN orders ELSE orders + 1
  /\ UNCHANGED <<halts, feed, monitor, asked, bounded>>

----------------------------------------------------------------------------
Observe == ObserveFeed \/ ObserveData

HaltNext ==
  \/ \E e \in BOOLEAN : KillAll(e) \/ \E d \in Deployments : Kill(d, e)
  \/ Override \/ ApiRestart
  \/ StartTicker \/ Observe \/ FeedEvent
  \/ (\E d \in Deployments : ReadHalted(d)) \/ EvaluateKills

HaltSpec == HaltInit /\ [][HaltNext]_haltVars

\* The monitor loop runs again two seconds after each reading.
HaltFairSpec == HaltSpec /\ WF_haltVars(Observe)

----------------------------------------------------------------------------
(* Properties *)

\* "Engaging ... stops NEW orders" and "while any breaker is tripped,
\* OrderRouter refuses new orders": no order is accepted while the operator has
\* the kill switch engaged for all or for its deployment, nor when its submit
\* began during an automatic halt.  The code does not keep this.
HaltsRefuse ==
  [][orders' # orders =>
       ~asked.all /\ submit.dep \notin asked.deps /\ ~submit.halted]_haltVars

\* A feed that stays down, in whatever order drops, overrides and readings
\* came before, leaves trading halted, and one that stays up and fresh leaves
\* it free.
LossHalts == <>[](feed.ticker /\ ~feed.connected) => <>[]Halted("api")
RecoveryFrees ==
  <>[](feed.ticker /\ feed.connected /\ feed.age = "fresh") => <>[](~Halted("api"))
=============================================================================
