-------------------------- MODULE OptionsInstances --------------------------
(***************************************************************************)
(* The instances of the scheduled options basket: three legs bought and    *)
(* sold together at entry and closed together at exit.  The worker's       *)
(* passes and the operator's calls each run in a database session of their *)
(* own: rows are read, quotes are fetched over the network, and one commit *)
(* follows; the last one wins.                                             *)
(*                                                                         *)
(* legs holds the net lots of the committed COMPLETE orders of each leg.   *)
(* Bound: a shared instance is not worked on any further.                  *)
(*                                                                         *)
(* LIVE instances cannot be created, so recover_live_instances finds none  *)
(* and is left out; so are prices and profits, and the outcome of a gate   *)
(* is chosen.                                                              *)
(***************************************************************************)
EXTENDS Integers, FiniteSets

CONSTANTS
  Ids,       \* instance rows
  Expiries,  \* monthly expiries
  Worker,    \* the thread of the worker process
  Operators, \* threads of API requests
  Near,      \* instances so near to expiry that the safety exit applies
  None       \* no instance

Threads == {Worker} \cup Operators

ASSUME NoneAssumption == None \notin Ids
ASSUME NearAssumption == Near \subseteq Ids

VARIABLES
  inst,  \* the rows of options_strategy_instances
  legs,  \* net lots of each leg, over the committed orders of an instance
  sess,  \* the session of each thread
  shared \* instances written while another session held what it had read
         \* of them, or by an evaluation after their entry
vars == <<inst, legs, sess, shared>>

Entrable   == {"CREATED", "VALIDATING", "ENTRY_PENDING"}
\* EXITED is the status of any exit of monitor: see _EXIT_STATUS.
Closed     == {"EXITED", "MANUAL_EXIT"}
Terminal   == Closed \cup {"FAILED"}
\* Mutant: the query of a pass leaves the open instances out.
ActionableEntries == Entrable
Actionable == Entrable \cup {"ACTIVE"}
Statuses   == Entrable \cup {"ACTIVE"} \cup Terminal
Row        == [status : Statuses, expiry : Expiries, first : BOOLEAN]
NoRow      == [status |-> "NONE"]
Exists(i)  == inst[i] # NoRow

\* Lots by leg: of a basket, and of an entry that lost a quote on the way.
Lots     == [A : Int, B : Int, C : Int]
Flat     == [A |-> 0, B |-> 0, C |-> 0]
Basket   == [A |-> 1, B |-> -3, C |-> 2]
Partials == {Flat, [Flat EXCEPT !.A = 1], [Basket EXCEPT !.C = 0]}
Plus(x, y)  == [A |-> x.A + y.A, B |-> x.B + y.B, C |-> x.C + y.C]
Minus(x, y) == [A |-> x.A - y.A, B |-> x.B - y.B, C |-> x.C - y.C]

Unread  == "unread"
NotSeen == [i \in Ids |-> Unread]
\* cur is the instance a session is busy with; seen the statuses in its
\* identity map; flushed the rows it has marked VALIDATING, not committed.
Idle    == [doing |-> "nothing", cur |-> None, todo |-> {}, seen |-> NotSeen,
            flushed |-> {}]
Session == [doing : {"nothing", "enter", "monitor", "exit", "evaluate"},
            cur : Ids \cup {None}, todo : SUBSET Ids,
            seen : [Ids -> Statuses \cup {Unread}], flushed : SUBSET Ids]

TypeOK ==
  /\ inst \in [Ids -> Row \cup {NoRow}]
  /\ legs \in [Ids -> Lots]
  /\ sess \in [Threads -> Session]
  /\ shared \subseteq Ids
  /\ \A t \in Threads : sess[t].cur = None <=> sess[t].doing = "nothing"
  /\ \A t \in Threads : sess[t].cur \notin sess[t].todo

----------------------------------------------------------------------------
\* create_instance.  The look-up goes by the basket_id of the expiry, which
\* only its first instance has: later ones carry a time stamp.
Create(i, e) ==
  LET first == {j \in Ids : Exists(j) /\ inst[j].expiry = e /\ inst[j].first}
  IN  /\ ~Exists(i)
      /\ \A j \in first : inst[j].status \in Terminal
      /\ inst' = [inst EXCEPT ![i] = [status |-> "CREATED", expiry |-> e,
                                      first |-> first = {}]]
      /\ UNCHANGED <<legs, sess, shared>>

----------------------------------------------------------------------------
(* Sessions.                                                               *)

\* What a session still has to do once it is done with its instance; one
\* with nothing left is closed, and what it did not commit rolled back.
Leave(s) ==
  IF s.todo = {} THEN Idle ELSE [s EXCEPT !.doing = "nothing", !.cur = None]

\* Another session holds what it read of instance i.
Held(t, i) ==
  \E u \in Threads \ {t} :
    \/ sess[u].cur = i
    \/ i \in sess[u].todo /\ sess[u].seen[i] # Unread

\* The commit of thread t, which writes the given statuses over the rows
\* flushed as VALIDATING.  A row that another session has flushed is locked.
Commit(t, rows) ==
  LET s       == sess[t]
      written == DOMAIN rows \cup s.flushed
      Written(i) == IF i \in DOMAIN rows THEN rows[i] ELSE "VALIDATING"
  IN  /\ \A u \in Threads \ {t} : written \cap sess[u].flushed = {}
      /\ inst' = [i \in Ids |-> IF i \in written
                                THEN [inst[i] EXCEPT !.status = Written(i)]
                                ELSE inst[i]]
      /\ sess' = [sess EXCEPT ![t] =
                    Leave([s EXCEPT !.seen = NotSeen, !.flushed = {}])]
      /\ shared' = shared \cup {i \in written : Held(t, i)}

Save(t, i, status) == Commit(t, [j \in {i} |-> status])
SaveRest(t)        == Commit(t, [j \in {} |-> "VALIDATING"])
Busy(t, i, what)   == sess[t].cur = i /\ sess[t].doing = what

\* A request of an operator: it reads the row and goes on to the quotes.
\* Mutant: the status is not asked for.
AllowedAlways(what, status) == TRUE
Allowed(what, status) ==
  CASE what = "enter"    -> status \in Entrable
    [] what = "exit"     -> status = "ACTIVE"
    [] what = "evaluate" -> TRUE
Ask(t, i, what) ==
  /\ sess[t] = Idle /\ Exists(i) /\ i \notin shared
  /\ Allowed(what, inst[i].status)
  /\ sess' = [sess EXCEPT ![t] = [Idle EXCEPT !.doing = what, !.cur = i,
                                  !.seen[i] = inst[i].status]]
  /\ UNCHANGED <<inst, legs, shared>>

\* run_once: one query for the instances it will go through.
PassStart(t) ==
  /\ sess[t] = Idle
  /\ LET rows == {i \in Ids : inst[i].status \in Actionable}
     IN  /\ rows # {}
         /\ sess' = [sess EXCEPT ![t] =
                       [Idle EXCEPT !.todo = rows,
                          !.seen = [i \in Ids |-> IF i \in rows
                                                  THEN inst[i].status
                                                  ELSE Unread]]]
  /\ UNCHANGED <<inst, legs, shared>>

\* The next instance of the pass.  A row read before the last commit of the
\* session is read again.  Only an entry asks for the minute of the day.
Visit(t, i) ==
  LET s      == sess[t]
      status == IF s.seen[i] = Unread THEN inst[i].status ELSE s.seen[i]
      on     == [s EXCEPT !.todo = @ \ {i}, !.seen[i] = status]
  IN  /\ s.cur = None /\ i \in s.todo
      /\ \/ /\ status = "ACTIVE" /\ i \notin shared
            /\ sess' = [sess EXCEPT ![t] = [on EXCEPT !.cur = i,
                                                      !.doing = "monitor"]]
         \/ /\ status \in Entrable /\ i \notin shared
            /\ sess' = [sess EXCEPT ![t] = [on EXCEPT !.cur = i,
                                                      !.doing = "enter"]]
         \/ /\ status # "ACTIVE" \/ i \in shared
            /\ sess' = [sess EXCEPT ![t] = Leave(on)]
      /\ UNCHANGED <<inst, legs, shared>>

\* An error of the database makes every later use of the session fail, and
\* the process may die: the rest of the pass or request is lost.
Fail(t) ==
  /\ sess[t] # Idle
  /\ sess' = [sess EXCEPT ![t] = Idle]
  /\ UNCHANGED <<inst, legs, shared>>

----------------------------------------------------------------------------
(* enter.                                                                  *)

Ineligible(t, i) ==
  /\ Busy(t, i, "enter")
  /\ Save(t, i, "CREATED")
  /\ UNCHANGED legs

\* The quote of a leg is lost: the orders of the legs before it stay.
\* Mutant: the instance is left to be entered again.
LostRetried(t, i) ==
  /\ Busy(t, i, "enter")
  /\ Save(t, i, "ENTRY_PENDING")
  /\ \E part \in Partials : legs' = [legs EXCEPT ![i] = Plus(@, part)]
Lost(t, i) ==
  /\ Busy(t, i, "enter")
  /\ Save(t, i, "FAILED")
  /\ \E part \in Partials : legs' = [legs EXCEPT ![i] = Plus(@, part)]

Entered(t, i) ==
  /\ Busy(t, i, "enter")
  /\ Save(t, i, "ACTIVE")
  /\ legs' = [legs EXCEPT ![i] = Plus(@, Basket)]

\* The instruments cannot be loaded: run_once logs the exception and goes
\* on with the session, in which the row is marked VALIDATING.
Raised(t, i) ==
  /\ Busy(t, i, "enter")
  /\ \A u \in Threads : i \notin sess[u].flushed
  /\ LET s == sess[t]
     IN  sess' = [sess EXCEPT ![t] = Leave([s EXCEPT !.flushed = @ \cup {i}])]
  /\ UNCHANGED <<inst, legs, shared>>

----------------------------------------------------------------------------
(* monitor, manual_exit and evaluate.                                      *)

\* A quote is missing.
NoData(t, i) ==
  /\ Busy(t, i, "monitor")
  /\ sess' = [sess EXCEPT ![t] = Leave(@)]
  /\ UNCHANGED <<inst, legs, shared>>

\* The commit of the last prices leaves the status column alone.
Hold(t, i) ==
  /\ Busy(t, i, "monitor") /\ i \notin Near
  /\ SaveRest(t)
  /\ UNCHANGED legs

CloseBasket(t, i, status) ==
  /\ Save(t, i, status)
  /\ legs' = [legs EXCEPT ![i] = Minus(@, Basket)]

Exit(t, i)       == Busy(t, i, "monitor") /\ CloseBasket(t, i, "EXITED")
ManualExit(t, i) == Busy(t, i, "exit") /\ CloseBasket(t, i, "MANUAL_EXIT")

\* An eligible evaluation marks the instance, whatever its status.
Evaluated(t, i) ==
  /\ Busy(t, i, "evaluate") /\ sess[t].seen[i] # "ENTRY_PENDING"
  /\ inst' = [inst EXCEPT ![i].status = "ENTRY_PENDING"]
  /\ \A u \in Threads : i \notin sess[u].flushed
  /\ sess' = [sess EXCEPT ![t] = Idle]
  /\ shared' = IF Held(t, i) \/ sess[t].seen[i] \notin Entrable
               THEN shared \cup {i} ELSE shared
  /\ UNCHANGED legs
\* Not eligible, or marked already: only the reason is written.
Noted(t, i) ==
  /\ Busy(t, i, "evaluate")
  /\ sess' = [sess EXCEPT ![t] = Idle]
  /\ UNCHANGED <<inst, legs, shared>>

----------------------------------------------------------------------------
Init ==
  /\ inst = [i \in Ids |-> NoRow]
  /\ legs = [i \in Ids |-> Flat]
  /\ sess = [t \in Threads |-> Idle]
  /\ shared = {}

Enter(t, i)  == Ineligible(t, i) \/ Lost(t, i) \/ Entered(t, i) \/ Raised(t, i)
Finish(t, i) == Enter(t, i) \/ NoData(t, i) \/ Hold(t, i) \/ Exit(t, i)
Request(t, i) == \E what \in {"enter", "exit", "evaluate"} : Ask(t, i, what)
Next ==
  \/ \E i \in Ids, e \in Expiries : Create(i, e)
  \/ \E t \in Threads :
       \/ PassStart(t) \/ Fail(t)
       \/ \E i \in Ids : Visit(t, i) \/ Finish(t, i)
  \/ \E t \in Operators, i \in Ids :
       Request(t, i) \/ ManualExit(t, i) \/ Evaluated(t, i) \/ Noted(t, i)

\* The worker starts pass after pass, every network call ends, and a row lock
\* is granted in turn.  Neither the database nor the market data fails for
\* ever.
Fairness ==
  /\ WF_vars(PassStart(Worker))
  /\ \A i \in Ids : /\ SF_vars(Finish(Worker, i))
                    /\ SF_vars(Visit(Worker, i))
                    /\ SF_vars(Exit(Worker, i))
Spec     == Init /\ [][Next]_vars
FairSpec == Spec /\ Fairness

----------------------------------------------------------------------------
(* Properties.                                                             *)

\* The status tells the open legs, the promise monitoring rests on: none
\* before the entry and after a close, the whole basket while ACTIVE, less
\* than that only in a FAILED entry.  It holds, over passes, requests and
\* faults in any order, for instances that are not shared.
LegsFit(status, open) ==
  /\ status \in Entrable \cup Closed \cup {"NONE"} => open = Flat
  /\ status = "ACTIVE" => open = Basket
  /\ status = "FAILED" => open \in Partials
LegsFollowStatus ==
  \A i \in Ids \ shared : LegsFit(inst[i].status, legs[i])

\* An instance that has ended stays as it ended: no pass or request that is
\* late brings it back, unless the instance is shared.
EndedStays ==
  [][\A i \in Ids : inst[i].status \in Terminal /\ i \notin shared'
                      => inst'[i] = inst[i]]_vars

\* An open basket that comes near its expiry is closed in the end, through
\* lost quotes, exceptions and restarts, also of the others in the pass.
DueExits ==
  \A i \in Ids :
    inst[i].status = "ACTIVE" /\ i \in Near
      ~> inst[i].status # "ACTIVE" \/ i \in shared

=============================================================================
