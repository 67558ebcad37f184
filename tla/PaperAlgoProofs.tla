--------------------------- MODULE PaperAlgoProofs ---------------------------
(***************************************************************************)
(* For any ideas, stocks, days and user, through rollbacks and restarts:   *)
(* the open equity ideas that were counted stay within max_open_auto, no   *)
(* protective stop outlives its entry unless its clean-up was cut short,   *)
(* and no spread is left naked short.                                      *)
(* The bridge reads its places once a cycle, so the bound needs            *)
(* that nothing but its own entries adds an open idea while it takes them, *)
(* and all three need that an idea without orders holds nothing.           *)
(***************************************************************************)
EXTENDS PaperAlgo, FiniteSetTheorems, TLAPS

Leg   == {"bought", "sold"}
Nets  == [Ideas -> [Leg -> Small]]
Held  == {i \in Ideas \ Spreads : EntryHeld(i)} \ uncounted

Fresh  == \A i \in Ideas : i \notin acted => net[i]["bought"] = 0 /\ net[i]["sold"] = 0
Born   == \A i \in acted \cup recs : idea[i].status # "none"
Shape  == \A i \in Spreads :
            /\ net[i]["bought"] \in {0, 1} /\ net[i]["sold"] \in {-1, 0}
            /\ net[i]["sold"] = -1 => net[i]["bought"] = 1
OneLeg == \A i \in Ideas \ Spreads : net[i]["sold"] = 0
Aside(i) == i \in cur \/ i \in dropped \/ i \in torn
Stops  == \A i \in stop : /\ i \notin Spreads /\ i \in acted
                          /\ net[i]["bought"] \in {0, idea[i].dir}
                          /\ EntryHeld(i) \/ Aside(i)
Halves == /\ cur # {} => pc \in {"sell", "exit", "drop"}
          /\ \A i, j \in cur : i = j
          /\ pc = "sell" => /\ room > 0
                            /\ \A i \in cur : /\ i \in acted /\ i \in Spreads
                                              /\ net[i]["bought"] = 1 /\ net[i]["sold"] = 0
          /\ pc \in {"manage", "exit", "drop"} =>
               \A i \in Spreads : (i \in recs \/ i \in cur) => net[i]["sold"] = 0
Places == pc \in {"take", "sell"} => Cardinality(Held) + room <= MaxOpen

Lots == Fresh /\ Shape /\ OneLeg
IInv == TypeOK /\ Lots /\ Stops /\ Born /\ Halves /\ Places /\ CapHolds

-----------------------------------------------------------------------------
(* The books. *)

\* Any set of ideas is finite, and a smaller one has no more of them.
LEMMA Counts ==
  ASSUME NEW S \in SUBSET Ideas, NEW T \in SUBSET S
  PROVE  Cardinality(S) \in Nat /\ Cardinality(T) \in Nat /\ Cardinality(T) <= Cardinality(S)
<1>1. IsFiniteSet(S)
  BY FS_Subset, PaperAlgoAssumption
<1>2. IsFiniteSet(T) /\ Cardinality(T) <= Cardinality(S)
  BY <1>1, FS_Subset
<1> QED BY <1>1, <1>2, FS_CardinalityType

LEMMA CountsOneMore ==
  ASSUME NEW S \in SUBSET Ideas, NEW i \in Ideas
  PROVE  Cardinality(S \cup {i}) <= Cardinality(S) + 1
<1>1. IsFiniteSet(S)
  BY FS_Subset, PaperAlgoAssumption
<1>2. Cardinality(S) \in Nat
  BY <1>1, FS_CardinalityType
<1>3. Cardinality(S \cup {i}) = IF i \in S THEN Cardinality(S) ELSE Cardinality(S) + 1
  BY <1>1, FS_AddElement
<1> QED BY <1>2, <1>3

\* An order changes one leg of one idea.
LEMMA BookedIs ==
  ASSUME net \in Nets, NEW i \in Ideas, NEW l \in Leg, NEW q \in Int,
         net[i][l] + q \in Small
  PROVE  /\ Booked(i, l, q) \in Nets
         /\ Booked(i, l, q)[i][l] = net[i][l] + q
         /\ \A j \in Ideas, m \in Leg : (j # i \/ m # l) => Booked(i, l, q)[j][m] = net[j][m]
BY DEF Booked, Nets

LEMMA MovedTyped ==
  ASSUME TypeOK, NEW i \in Ideas, NEW q \in Int
  PROVE  Moved(i, q) \in [Stocks -> Int]
<1>1. CASE ~Delivered(i)
  BY <1>1 DEF Moved, TypeOK
<1>2. CASE Delivered(i)
  <2>1. SymOf[i] \in Stocks
    BY <1>2 DEF Delivered, Stocks
  <2> QED BY <1>2, <2>1 DEF Moved, TypeOK
<1> QED BY <1>1, <1>2

\* What a step that trades nothing leaves of the lots.
LEMMA Untraded ==
  ASSUME IInv, net' = net, acted' = acted, uncounted' = uncounted,
         \A i \in acted : idea'[i].dir = idea[i].dir
  PROVE  Lots' /\ Held' = Held /\ CapHolds'
<1>1. \A i \in Ideas : EntryHeld(i)' <=> EntryHeld(i)
  BY DEF EntryHeld
<1>2. Held' = Held
  BY <1>1 DEF Held
<1>3. CapHolds'
  BY <1>2 DEF IInv, CapHolds, Held
<1> QED BY <1>2, <1>3 DEF IInv, Lots, Fresh, Shape, OneLeg

\* What a step that adds no stop leaves of them.
LEMMA StopsStay ==
  ASSUME IInv, stop' \subseteq stop, acted \subseteq acted',
         \A i \in stop' : /\ net'[i]["bought"] = net[i]["bought"]
                          /\ net'[i]["sold"] = net[i]["sold"]
                          /\ idea'[i].dir = idea[i].dir
                          /\ Aside(i) => Aside(i)'
  PROVE  Stops'
<1>1. \A i \in stop' : EntryHeld(i) => EntryHeld(i)'
  BY DEF EntryHeld
<1> QED BY <1>1 DEF IInv, Stops

\* A commit writes the cancels it holds, a rollback forgets them.
LEMMA StopsAreFewer ==
  ASSUME TypeOK, NEW S \in SUBSET stop, StopsAre(S)
  PROVE  /\ stop' \subseteq stop /\ stop' \subseteq Ideas /\ dropped' \subseteq Ideas
         /\ torn' \subseteq Ideas
         /\ \A i \in stop' : (i \in dropped \/ i \in torn) => (i \in dropped' \/ i \in torn')
BY DEF StopsAre, TypeOK

LEMMA CommitKeeps ==
  ASSUME TypeOK, Commits
  PROVE  /\ stop' \subseteq stop /\ stop' \subseteq Ideas /\ dropped' \subseteq Ideas
         /\ torn' \subseteq Ideas
         /\ \A i \in stop' : (i \in dropped \/ i \in torn) => (i \in dropped' \/ i \in torn')
BY StopsAreFewer DEF Commits, Kept

LEMMA RollBackKeeps ==
  ASSUME TypeOK, RollsBack
  PROVE  /\ dropped' \subseteq Ideas /\ torn' \subseteq Ideas /\ faults' \in 0..MaxFaults
         /\ \A i \in stop : Aside(i) => Aside(i)'
<1>1. dropped' = {} /\ torn' = torn \cup ((dropped \cup cur) \cap stop)
      /\ faults < MaxFaults /\ faults' = faults + 1
  BY DEF RollsBack
<1>2. faults' \in 0..MaxFaults
  BY <1>1, PaperAlgoAssumption DEF TypeOK
<1> QED BY <1>1, <1>2 DEF TypeOK, Aside

\* What a step outside the taking of ideas leaves of the rest.
LEMMA NotTaking ==
  ASSUME pc' \in {"idle"}, cur' = {}
  PROVE  Halves' /\ Places'
BY DEF Halves, Places

\* An idea that closes what it holds, or whose stop fills after that, frees a place
\* and takes none.
LEMMA Released ==
  ASSUME IInv, NEW i \in Ideas, i \in acted, NEW q \in Int,
         net[i]["bought"] + q \in Small, net[i]["bought"] + q # idea[i].dir,
         i \in Spreads => net[i]["sold"] = 0 /\ net[i]["bought"] + q = 0,
         net' = Booked(i, "bought", q),
         UNCHANGED <<idea, acted, uncounted>>
  PROVE  net' \in Nets /\ Lots' /\ Held' \subseteq Held /\ CapHolds'
<1>1. /\ net' \in Nets /\ net'[i]["bought"] = net[i]["bought"] + q
      /\ \A j \in Ideas, m \in Leg : (j # i \/ m # "bought") => net'[j][m] = net[j][m]
  BY BookedIs DEF IInv, TypeOK, Nets, Leg
<1>2. \A j \in Ideas : j # i => (EntryHeld(j)' <=> EntryHeld(j))
  BY <1>1 DEF EntryHeld, Leg
<1>3. ~EntryHeld(i)'
  BY <1>1 DEF EntryHeld
<1>4. Held' \subseteq Held
  BY <1>2, <1>3 DEF Held
<1>5. CapHolds'
  <2>1. Held \subseteq Ideas
    BY DEF Held
  <2>2. Cardinality(Held') <= Cardinality(Held) /\ Cardinality(Held') \in Nat
        /\ Cardinality(Held) \in Nat
    BY <1>4, <2>1, Counts
  <2> QED BY <2>2, PaperAlgoAssumption DEF IInv, CapHolds, Held
<1>6. Fresh'
  BY <1>1 DEF IInv, Lots, Fresh, Leg
<1>7. OneLeg'
  BY <1>1 DEF IInv, Lots, OneLeg, Leg
<1>8. Shape'
  BY <1>1, PaperAlgoAssumption DEF IInv, Lots, Shape, Leg
<1> QED BY <1>1, <1>4, <1>5, <1>6, <1>7, <1>8 DEF Lots

-----------------------------------------------------------------------------
(* One lemma for each kind of step. *)

LEMMA InitInv == Init => IInv
<1> SUFFICES ASSUME Init PROVE IInv
  OBVIOUS
<1>1. TypeOK
  <2>1. idea \in [Ideas -> [status : {"none", "LIVE", "EXPIRED"}, dir : Dir, day : 0..Days]]
    BY PaperAlgoAssumption DEF Init, Unborn, Dir
  <2>2. net \in [Ideas -> [{"bought", "sold"} -> Small]] /\ shares \in [Stocks -> Int]
    BY DEF Init, Small
  <2>3. day \in 1..Days /\ haltDay \in 0..day /\ room \in 0..MaxOpen /\ faults \in 0..MaxFaults
    BY PaperAlgoAssumption DEF Init
  <2> QED BY <2>1, <2>2, <2>3 DEF Init, TypeOK
<1>2. Lots /\ Stops
  BY PaperAlgoAssumption DEF Init, Lots, Fresh, Shape, OneLeg, Stops
<1>3. CapHolds
  <2>1. {i \in Ideas \ Spreads : EntryHeld(i)} \ uncounted = {}
    BY DEF Init, EntryHeld
  <2> QED BY <2>1, FS_EmptySet, PaperAlgoAssumption DEF CapHolds
<1> QED BY <1>1, <1>2, <1>3 DEF Init, IInv, Born, Halves, Places

\* The scanner publishes ideas and the tracker resolves them.
LEMMA IdeasInv ==
  ASSUME IInv, NEW p \in Pairs, Scan(p) \/ Track(p)
  PROVE  IInv'
<1> USE DEF books, cycle, pending
<1>1. TypeOK
  BY DEF IInv
<1>2. UNCHANGED <<day, haltDay, books, cycle, pending, uncounted>>
  BY DEF Scan, Track
<1>3. /\ idea' \in [Ideas -> [status : {"none", "LIVE", "EXPIRED"}, dir : Dir, day : 0..Days]]
      /\ \A i \in Ideas : idea[i].status # "none" =>
                            idea'[i].dir = idea[i].dir /\ idea'[i].status # "none"
  <2>1. CASE Scan(p)
    <3>1. PICK d \in DirsOf[p] :
            idea' = [i \in Ideas |-> IF i \in Of(p)
                                     THEN [status |-> "LIVE", dir |-> d, day |-> day] ELSE idea[i]]
      BY <2>1 DEF Scan
    <3>2. d \in Dir /\ day \in 0..Days
      <4>1. DirsOf[p] \subseteq Dir
        BY PaperAlgoAssumption DEF Dir, Pairs
      <4>2. day \in 0..Days
        BY <1>1, PaperAlgoAssumption DEF TypeOK
      <4> QED BY <3>1, <4>1, <4>2
    <3>3. \A i \in Of(p) : idea[i].status = "none"
      BY <2>1 DEF Scan
    <3> QED BY <1>1, <3>1, <3>2, <3>3 DEF TypeOK
  <2>2. CASE Track(p)
    <3>1. idea' = [i \in Ideas |-> IF i \in Of(p) THEN [idea[i] EXCEPT !.status = "EXPIRED"]
                                   ELSE idea[i]]
      BY <2>2 DEF Track
    <3>2. \A i \in Ideas :
            /\ [idea[i] EXCEPT !.status = "EXPIRED"] \in
                 [status : {"none", "LIVE", "EXPIRED"}, dir : Dir, day : 0..Days]
            /\ [idea[i] EXCEPT !.status = "EXPIRED"].dir = idea[i].dir
            /\ [idea[i] EXCEPT !.status = "EXPIRED"].status = "EXPIRED"
      BY <1>1 DEF TypeOK
    <3> QED BY <1>1, <3>1, <3>2 DEF TypeOK
  <2> QED BY <2>1, <2>2
<1>4. TypeOK'
  BY <1>1, <1>2, <1>3 DEF TypeOK
<1>5. acted \subseteq Ideas /\ recs \subseteq Ideas /\ stop \subseteq acted
  BY DEF IInv, TypeOK, Stops
<1>6. \A i \in acted \cup recs : idea'[i].dir = idea[i].dir /\ idea'[i].status # "none"
  BY <1>3, <1>5 DEF IInv, Born
<1>7. Born'
  BY <1>2, <1>6 DEF Born
<1>8. Lots' /\ Held' = Held /\ CapHolds'
  BY <1>2, <1>6, Untraded
<1>9. Stops'
  BY <1>2, <1>5, <1>6, StopsStay DEF Aside
<1>10. Halves' /\ Places'
  BY <1>2, <1>8 DEF IInv, Halves, Places
<1> QED BY <1>4, <1>7, <1>8, <1>9, <1>10 DEF IInv

\* The night, the settings, the user, and the other users of the loop's session.
LEMMA AroundInv ==
  ASSUME IInv,
         \/ Tick \/ Enable \/ OthersCommit \/ OthersRollBack
         \/ (\E i \in Ideas : CancelStop(i))
         \/ (\E s \in Stocks : SellByHand(s))
  PROVE  IInv'
<1> USE DEF books, cycle, pending
<1>1. TypeOK
  BY DEF IInv
<1>2. UNCHANGED <<idea, net, acted, pc, cur, recs, room, seen, closed, uncounted>>
  BY DEF Tick, Enable, OthersCommit, OthersRollBack, CancelStop, SellByHand
<1>3. Lots' /\ Held' = Held /\ CapHolds'
  BY <1>2, Untraded
<1>4. Born' /\ Halves' /\ Places'
  BY <1>2, <1>3 DEF IInv, Born, Halves, Places
<1>5. CASE Tick
  <2>1. TypeOK'
    BY <1>1, <1>5, PaperAlgoAssumption DEF TypeOK, Tick
  <2>2. Stops'
    BY <1>2, <1>5, StopsStay DEF Tick, Aside
  <2> QED BY <1>3, <1>4, <2>1, <2>2 DEF IInv
<1>6. CASE Enable
  <2>1. TypeOK'
    BY <1>1, <1>6, PaperAlgoAssumption DEF TypeOK, Enable
  <2>2. Stops'
    BY <1>2, <1>6, StopsStay DEF Enable, Aside
  <2> QED BY <1>3, <1>4, <2>1, <2>2 DEF IInv
<1>7. CASE OthersCommit
  <2>1. Commits /\ UNCHANGED <<day, haltDay, shares, faults>>
    BY <1>7 DEF OthersCommit
  <2>2. TypeOK'
    BY <1>1, <1>2, <2>1, CommitKeeps DEF TypeOK
  <2>3. Stops'
    BY <1>1, <1>2, <2>1, CommitKeeps, StopsStay DEF Aside
  <2> QED BY <1>3, <1>4, <2>2, <2>3 DEF IInv
<1>8. CASE OthersRollBack
  <2>1. RollsBack /\ UNCHANGED <<day, haltDay, shares, stop>>
    BY <1>8 DEF OthersRollBack
  <2>2. TypeOK'
    BY <1>1, <1>2, <2>1, RollBackKeeps DEF TypeOK
  <2>3. Stops'
    BY <1>1, <1>2, <2>1, RollBackKeeps, StopsStay
  <2> QED BY <1>3, <1>4, <2>2, <2>3 DEF IInv
<1>9. ASSUME NEW i \in Ideas, CancelStop(i) PROVE IInv'
  <2>1. StopsAre(stop \ {i}) /\ UNCHANGED <<day, haltDay, shares, faults>>
    BY <1>9 DEF CancelStop
  <2>2. TypeOK'
    BY <1>1, <1>2, <2>1, StopsAreFewer DEF TypeOK
  <2>3. Stops'
    BY <1>1, <1>2, <2>1, StopsAreFewer, StopsStay DEF Aside
  <2> QED BY <1>3, <1>4, <2>2, <2>3 DEF IInv
<1>10. ASSUME NEW s \in Stocks, SellByHand(s) PROVE IInv'
  <2>1. shares' = [shares EXCEPT ![s] = 0] /\ UNCHANGED <<day, haltDay, stop, dropped, faults, torn>>
    BY <1>10 DEF SellByHand
  <2>2. TypeOK'
    BY <1>1, <1>2, <2>1 DEF TypeOK
  <2>3. Stops'
    BY <1>2, <2>1, StopsStay DEF Aside
  <2> QED BY <1>3, <1>4, <2>2, <2>3 DEF IInv
<1> QED BY <1>5, <1>6, <1>7, <1>8, <1>9, <1>10

\* What the bridge keeps in memory is gone, and with it the clean-up under way.
LEMMA FaultInv ==
  ASSUME IInv, BridgeRaises \/ Restart
  PROVE  IInv'
<1> USE DEF books
<1>1. TypeOK
  BY DEF IInv
<1>2. /\ UNCHANGED <<day, idea, haltDay, acted, net, stop, shares, uncounted>> /\ RollsBack
      /\ pc' = "idle" /\ cur' = {} /\ recs' = {} /\ room' = 0 /\ seen' = {} /\ closed' = FALSE
  BY DEF BridgeRaises, Restart, Forgotten
<1>3. TypeOK'
  <2>1. dropped' \subseteq Ideas /\ torn' \subseteq Ideas /\ faults' \in 0..MaxFaults
    BY <1>1, <1>2, RollBackKeeps
  <2>2. 0 \in 0..MaxOpen
    BY PaperAlgoAssumption
  <2> QED BY <1>1, <1>2, <2>1, <2>2 DEF TypeOK
<1>4. Lots' /\ CapHolds'
  BY <1>2, Untraded
<1>5. Stops'
  BY <1>1, <1>2, RollBackKeeps, StopsStay
<1>6. Born' /\ Halves' /\ Places'
  BY <1>2, NotTaking DEF IInv, Born
<1> QED BY <1>3, <1>4, <1>5, <1>6 DEF IInv

\* StartTaking counts the open ideas, which are at least those that hold their
\* entry: it starts counting afresh when they are within the bound.
LEMMA StartInv ==
  ASSUME IInv, StartTaking
  PROVE  IInv'
<1>1. TypeOK /\ cur = {} /\ Halves
  BY DEF IInv, Halves, StartTaking
<1>2. PICK enabled \in BOOLEAN, past \in BOOLEAN, losing \in {FALSE, acted # {}} :
       LET on == enabled /\ haltDay # day
           go == on /\ ~losing /\ Open < MaxOpen /\ ~past
       IN  /\ IF on /\ losing THEN haltDay' = day /\ Commits
              ELSE UNCHANGED <<haltDay, stop, dropped, torn>>
           /\ pc' = IF go THEN "take" ELSE "manage"
           /\ room' = IF go THEN MaxOpen - Open ELSE 0
           /\ recs' = IF go THEN {i \in Ideas : idea[i].status = "LIVE" /\ idea[i].day = day}
                      ELSE OpenIds
           /\ uncounted' = IF Open > MaxOpen THEN uncounted ELSE {}
  BY DEF StartTaking
<1>3. UNCHANGED <<day, idea, acted, net, shares, cur, closed, faults>> /\ seen' = {}
  BY DEF StartTaking
<1>4. haltDay' \in {haltDay, day}
  BY <1>2
<1>5. \/ pc' = "manage" /\ room' = 0 /\ recs' = OpenIds
      \/ /\ pc' = "take" /\ Open < MaxOpen /\ room' = MaxOpen - Open
         /\ recs' = {i \in Ideas : idea[i].status = "LIVE" /\ idea[i].day = day}
  BY <1>2
<1>6. uncounted' = IF Open > MaxOpen THEN uncounted ELSE {}
  BY <1>2
<1>7. /\ stop' \subseteq stop /\ dropped' \subseteq Ideas /\ torn' \subseteq Ideas
      /\ \A i \in stop' : (i \in dropped \/ i \in torn) => (i \in dropped' \/ i \in torn')
  <2>1. CASE Commits
    BY <1>1, <2>1, CommitKeeps
  <2>2. CASE UNCHANGED <<stop, dropped, torn>>
    BY <1>1, <2>2 DEF TypeOK
  <2> QED BY <1>2, <2>1, <2>2
<1>8. {i \in Ideas \ Spreads : EntryHeld(i)} \subseteq OpenIds /\ OpenIds \subseteq Ideas
  BY <1>1 DEF OpenIds, TotalOf, EntryHeld, TypeOK, Dir, Small
<1>9. Held' \subseteq OpenIds /\ (Open > MaxOpen => Held' = Held)
  <2>1. \A i \in Ideas : EntryHeld(i)' <=> EntryHeld(i)
    BY <1>3 DEF EntryHeld
  <2> QED BY <1>6, <1>8, <2>1 DEF Held
<1>10. Open \in Nat /\ Cardinality(Held') \in Nat /\ Cardinality(Held') <= Open
  BY <1>8, <1>9, Counts DEF Open
<1>11. CapHolds'
  <2>1. CASE Open > MaxOpen
    BY <1>9, <2>1 DEF IInv, CapHolds, Held
  <2>2. CASE Open <= MaxOpen
    <3>1. Cardinality(Held') <= MaxOpen
      BY <1>10, <2>2, PaperAlgoAssumption
    <3> QED BY <3>1 DEF CapHolds, Held
  <2> QED BY <1>10, <2>1, <2>2, PaperAlgoAssumption
<1>12. room' \in 0..MaxOpen /\ recs' \subseteq Ideas /\ uncounted' \subseteq Ideas
  BY <1>1, <1>5, <1>6, <1>8, <1>10, PaperAlgoAssumption DEF TypeOK
<1>13. TypeOK'
  BY <1>1, <1>3, <1>4, <1>5, <1>7, <1>12 DEF TypeOK
<1>14. Lots'
  BY <1>3 DEF IInv, Lots, Fresh, Shape, OneLeg
<1>15. Stops'
  BY <1>1, <1>3, <1>7, StopsStay DEF Aside
<1>16. OpenIds \subseteq acted
  BY DEF IInv, Lots, Fresh, OpenIds, TotalOf
<1>17. Born'
  BY <1>3, <1>5, <1>16 DEF IInv, Born
<1>18. \A i \in Spreads : i \in OpenIds => net[i]["sold"] = 0
  BY DEF OpenIds, TotalOf, IInv, Lots, Shape
<1>19. Halves'
  BY <1>1, <1>3, <1>5, <1>18 DEF Halves
<1>20. Places'
  BY <1>5, <1>10, PaperAlgoAssumption DEF Places
<1> QED BY <1>11, <1>13, <1>14, <1>15, <1>17, <1>19, <1>20 DEF IInv

\* The steps of the bridge between its orders.
LEMMA CycleInv ==
  ASSUME IInv, \/ EndTaking \/ EndManaging \/ (\E i \in Ideas : Visit(i) \/ Drop(i))
  PROVE  IInv'
<1> USE DEF books, pending
<1>1. TypeOK /\ Halves
  BY DEF IInv
<1>2. UNCHANGED <<day, idea, haltDay, acted, net, shares, faults, uncounted>>
  BY DEF EndTaking, EndManaging, Visit, Drop
<1>3. Lots' /\ CapHolds'
  BY <1>2, Untraded
<1>4. CASE EndTaking
  <2>1. /\ pc' = "manage" /\ cur' = {} /\ recs' = OpenIds /\ room' = 0 /\ seen' = {}
        /\ UNCHANGED <<stop, dropped, torn, closed, cur>>
    BY <1>1, <1>4 DEF EndTaking, Halves
  <2>2. TypeOK'
    BY <1>1, <1>2, <2>1, PaperAlgoAssumption DEF TypeOK, OpenIds
  <2>3. OpenIds \subseteq acted /\ \A i \in Spreads : i \in OpenIds => net[i]["sold"] = 0
    BY DEF OpenIds, TotalOf, IInv, Lots, Shape, Fresh
  <2>4. Born' /\ Halves' /\ Places'
    BY <1>2, <2>1, <2>3 DEF IInv, Born, Halves, Places
  <2>5. Stops'
    BY <1>2, <2>1, StopsStay DEF Aside
  <2> QED BY <1>3, <2>2, <2>4, <2>5 DEF IInv
<1>5. CASE EndManaging
  <2>1. /\ pc' = "idle" /\ cur' = {} /\ closed' = FALSE
        /\ UNCHANGED <<cur, recs, room, seen>>
        /\ Commits \/ UNCHANGED <<stop, dropped, torn>>
    BY <1>1, <1>5 DEF EndManaging, Halves
  <2>2. /\ stop' \subseteq stop /\ dropped' \subseteq Ideas /\ torn' \subseteq Ideas
        /\ \A i \in stop' : (i \in dropped \/ i \in torn) => (i \in dropped' \/ i \in torn')
    <3>1. CASE Commits
      BY <1>1, <3>1, CommitKeeps
    <3>2. CASE UNCHANGED <<stop, dropped, torn>>
      BY <1>1, <3>2 DEF TypeOK
    <3> QED BY <2>1, <3>1, <3>2
  <2>3. TypeOK'
    BY <1>1, <1>2, <2>1, <2>2 DEF TypeOK
  <2>4. Stops'
    BY <1>2, <2>1, <2>2, StopsStay DEF Aside
  <2>5. Born' /\ Halves' /\ Places'
    BY <1>2, <2>1, NotTaking DEF IInv, Born
  <2> QED BY <1>3, <2>3, <2>4, <2>5 DEF IInv
<1>6. ASSUME NEW i \in Ideas, Visit(i) PROVE IInv'
  <2>1. /\ pc = "manage" /\ cur = {} /\ i \in recs /\ recs' = recs \ {i}
        /\ \/ pc' = "exit" /\ cur' = {i}
           \/ pc' = pc /\ cur' = cur
        /\ UNCHANGED <<stop, dropped, torn, room, seen, closed>>
    BY <1>1, <1>6 DEF Visit, Halves
  <2>2. TypeOK'
    BY <1>1, <1>2, <2>1 DEF TypeOK
  <2>3. Stops'
    BY <1>2, <2>1, StopsStay DEF Aside
  <2>4. Born' /\ Halves' /\ Places'
    BY <1>1, <1>2, <2>1 DEF IInv, Born, Halves, Places
  <2> QED BY <1>3, <2>2, <2>3, <2>4 DEF IInv
<1>7. ASSUME NEW i \in Ideas, Drop(i) PROVE IInv'
  <2>1. /\ pc \in {"exit", "drop"} /\ pc' = "manage" /\ cur' = {}
        /\ dropped' = dropped \cup ({i} \cap stop)
        /\ UNCHANGED <<stop, torn, recs, room, seen, closed>>
    BY <1>7 DEF Drop, Dropped
  <2>2. TypeOK'
    BY <1>1, <1>2, <2>1 DEF TypeOK
  <2>3. cur \subseteq {i}
    BY <1>1, <1>7 DEF Drop, Halves
  <2>4. Stops'
    BY <1>2, <2>1, <2>3, StopsStay DEF Aside
  <2>5. Born' /\ Halves' /\ Places'
    BY <1>1, <1>2, <2>1 DEF IInv, Born, Halves, Places
  <2> QED BY <1>3, <2>2, <2>4, <2>5 DEF IInv
<1> QED BY <1>4, <1>5, <1>6, <1>7

\* A stop that fills closes what its idea holds, or opens the reverse where a
\* clean-up was cut short.
LEMMA StopInv ==
  ASSUME IInv, NEW i \in Ideas, StopFills(i)
  PROVE  IInv'
<1> USE DEF cycle
<1>1. TypeOK /\ cur = {}
  BY DEF IInv, Halves, StopFills
<1>2. /\ UNCHANGED <<day, idea, haltDay, acted, pc, cur, recs, room, seen, closed, faults, uncounted>>
      /\ pc = "idle" /\ StopsAre(stop \ {i}) /\ i \in stop
  BY DEF StopFills
<1>3. Born' /\ Halves' /\ Places'
  BY <1>1, <1>2, NotTaking DEF IInv, Born
<1>4. /\ stop' \subseteq stop /\ stop' \subseteq Ideas /\ dropped' \subseteq Ideas
      /\ torn' \subseteq Ideas /\ i \notin stop'
      /\ \A j \in stop' : (j \in dropped \/ j \in torn) => (j \in dropped' \/ j \in torn')
  BY <1>1, <1>2, StopsAreFewer DEF StopsAre
<1>5. CASE net' = net /\ shares' = shares
  <2>1. TypeOK'
    BY <1>1, <1>2, <1>4, <1>5 DEF TypeOK
  <2>2. Lots' /\ CapHolds'
    BY <1>2, <1>5, Untraded
  <2>3. Stops'
    BY <1>2, <1>4, <1>5, StopsStay DEF Aside
  <2> QED BY <1>3, <2>1, <2>2, <2>3 DEF IInv
<1>6. CASE net' = Booked(i, "bought", -idea[i].dir) /\ shares' = Moved(i, -idea[i].dir)
  <2>1. /\ i \notin Spreads /\ i \in acted /\ idea[i].dir \in Dir
        /\ net[i]["bought"] \in {0, idea[i].dir}
    BY <1>1, <1>2 DEF IInv, Stops, TypeOK
  <2>2. /\ -idea[i].dir \in Int /\ net[i]["bought"] + (-idea[i].dir) \in Small
        /\ net[i]["bought"] + (-idea[i].dir) # idea[i].dir
    BY <2>1 DEF Dir, Small
  <2>3. net' \in Nets /\ Lots' /\ CapHolds'
    BY <1>2, <1>6, <2>1, <2>2, Released
  <2>4. shares' \in [Stocks -> Int]
    BY <1>1, <1>6, <2>2, MovedTyped
  <2>5. TypeOK'
    BY <1>1, <1>2, <1>4, <2>3, <2>4 DEF TypeOK, Nets, Leg
  <2>6. \A j \in stop' : net'[j]["bought"] = net[j]["bought"] /\ net'[j]["sold"] = net[j]["sold"]
    <3>1. net \in Nets /\ "bought" \in Leg
      BY <1>1 DEF TypeOK, Nets, Leg
    <3>2. \A j \in Ideas, m \in Leg : (j # i \/ m # "bought") => net'[j][m] = net[j][m]
      BY <1>6, <2>2, <3>1, BookedIs
    <3> QED BY <1>4, <3>2 DEF Leg
  <2>7. Stops'
    BY <1>2, <1>4, <2>6, StopsStay DEF Aside
  <2> QED BY <1>3, <2>3, <2>5, <2>7 DEF IInv
<1> QED BY <1>5, <1>6 DEF StopFills

\* An exit closes what the idea holds; its stop waits for the clean-up.
LEMMA ExitInv ==
  ASSUME IInv, NEW i \in Ideas, ExitFills(i) \/ ExitRejected(i)
  PROVE  IInv'
<1>1. TypeOK /\ Halves
  BY DEF IInv
<1>2. /\ UNCHANGED <<day, idea, haltDay, acted, cur, recs, room, seen, faults, uncounted>>
      /\ pc = "exit" /\ pc' = "drop" /\ i \in cur /\ closed' \in BOOLEAN /\ Commits
  BY <1>1 DEF ExitFills, ExitRejected, Exited, TypeOK
<1>3. Born' /\ Places'
  BY <1>2 DEF IInv, Born, Places
<1>4. /\ stop' \subseteq stop /\ stop' \subseteq Ideas /\ dropped' \subseteq Ideas
      /\ torn' \subseteq Ideas
      /\ \A j \in stop' : (j \in dropped \/ j \in torn) => (j \in dropped' \/ j \in torn')
  BY <1>1, <1>2, CommitKeeps
<1>5. CASE net' = net /\ shares' = shares
  <2>1. TypeOK'
    BY <1>1, <1>2, <1>4, <1>5 DEF TypeOK
  <2>2. Lots' /\ CapHolds'
    BY <1>2, <1>5, Untraded
  <2>3. Stops'
    BY <1>2, <1>4, <1>5, StopsStay DEF Aside
  <2>4. Halves'
    BY <1>1, <1>2, <1>5 DEF Halves
  <2> QED BY <1>3, <2>1, <2>2, <2>3, <2>4 DEF IInv
<1>6. CASE ExitFills(i)
  <2>1. i \in Spreads => net[i]["sold"] = 0
    BY <1>1, <1>2 DEF Halves
  <2>2. PICK l \in Legs(i) : /\ net[i][l] # 0 /\ net' = Booked(i, l, -net[i][l])
                             /\ shares' = Moved(i, -net[i][l])
    BY <1>6 DEF ExitFills
  <2>3. l = "bought"
    BY <2>1, <2>2 DEF Legs
  <2>4. net[i]["bought"] \in Small
    BY <1>1 DEF TypeOK
  <2>5. i \in acted
    BY <2>2, <2>3 DEF IInv, Lots, Fresh
  <2>6. /\ -net[i]["bought"] \in Int /\ net[i]["bought"] + (-net[i]["bought"]) = 0
        /\ net[i]["bought"] + (-net[i]["bought"]) \in Small
    BY <2>4 DEF Small
  <2>7. idea[i].dir # 0
    BY <1>1 DEF TypeOK, Dir
  <2>8. net' \in Nets /\ Lots' /\ CapHolds'
    <3>1. net' = Booked(i, "bought", -net[i]["bought"])
      BY <2>2, <2>3
    <3> QED BY <1>2, <2>1, <2>5, <2>6, <2>7, <3>1, Released
  <2>9. shares' \in [Stocks -> Int]
    BY <1>1, <2>2, <2>3, <2>6, MovedTyped
  <2>10. TypeOK'
    BY <1>1, <1>2, <1>4, <2>8, <2>9 DEF TypeOK, Nets, Leg
  <2>11. /\ net'[i]["bought"] = 0
         /\ \A j \in Ideas, m \in Leg : (j # i \/ m # "bought") => net'[j][m] = net[j][m]
    <3>1. net \in Nets /\ "bought" \in Leg
      BY <1>1 DEF TypeOK, Nets, Leg
    <3> QED BY <2>2, <2>3, <2>6, <3>1, BookedIs
  <2>12. Stops'
    <3> SUFFICES ASSUME NEW j \in stop'
                 PROVE  /\ j \notin Spreads /\ j \in acted'
                        /\ net'[j]["bought"] \in {0, idea'[j].dir}
                        /\ EntryHeld(j)' \/ Aside(j)'
      BY DEF Stops
    <3>1. j \in stop /\ j \in Ideas
      BY <1>4
    <3>2. /\ j \notin Spreads /\ j \in acted /\ net[j]["bought"] \in {0, idea[j].dir}
          /\ EntryHeld(j) \/ Aside(j)
      BY <3>1 DEF IInv, Stops
    <3>3. Aside(j) => Aside(j)'
      BY <1>2, <1>4 DEF Aside
    <3>4. CASE j = i
      BY <1>2, <2>11, <3>2, <3>4 DEF Aside
    <3>5. CASE j # i
      <4>1. net'[j]["bought"] = net[j]["bought"] /\ net'[j]["sold"] = net[j]["sold"]
        BY <2>11, <3>1, <3>5 DEF Leg
      <4> QED BY <1>2, <3>2, <3>3, <4>1 DEF EntryHeld
    <3> QED BY <3>4, <3>5
  <2>13. Halves'
    <3>1. \A j \in Spreads : net'[j]["sold"] = net[j]["sold"]
      BY <2>11, PaperAlgoAssumption DEF Leg
    <3> QED BY <1>1, <1>2, <3>1 DEF Halves
  <2> QED BY <1>3, <2>8, <2>10, <2>12, <2>13 DEF IInv
<1> QED BY <1>5, <1>6 DEF ExitRejected

\* An equity entry takes a place of those the cycle found free; one that raised
\* after its commit is set aside.
LEMMA TakeInv ==
  ASSUME IInv, NEW i \in Ideas, TakeEquity(i)
  PROVE  IInv'
<1>1. /\ TypeOK /\ pc = "take" /\ room > 0 /\ i \in recs /\ i \notin acted /\ i \notin Spreads
      /\ cur = {}
  BY DEF IInv, Halves, TakeEquity, Candidate
<1>2. /\ UNCHANGED <<day, idea, haltDay, pc, cur, recs, closed, faults>>
      /\ acted' = acted \cup {i}
  BY DEF TakeEquity
<1>3. Born'
  BY <1>1, <1>2 DEF IInv, Born
<1>4. Halves'
  <2>1. cur' = {} /\ pc' = "take"
    BY <1>1, <1>2
  <2> QED BY <2>1 DEF Halves
<1>5. i \notin stop /\ net[i]["bought"] = 0 /\ net[i]["sold"] = 0 /\ idea[i].dir \in Dir
  BY <1>1 DEF IInv, Stops, Lots, Fresh, TypeOK
<1>6. CASE Commits /\ UNCHANGED <<net, shares, seen, room, uncounted>>
  <2>1. \A j \in Ideas : EntryHeld(j)' <=> EntryHeld(j)
    BY <1>2, <1>5, <1>6 DEF EntryHeld, Dir
  <2>2. Held' = Held
    BY <1>6, <2>1 DEF Held
  <2>3. TypeOK'
    BY <1>1, <1>2, <1>6, CommitKeeps DEF TypeOK
  <2>4. Stops'
    BY <1>1, <1>2, <1>6, CommitKeeps, StopsStay DEF Aside
  <2>5. Lots'
    BY <1>2, <1>6 DEF IInv, Lots, Fresh, Shape, OneLeg
  <2>6. CapHolds' /\ Places'
    BY <1>2, <1>6, <2>2 DEF IInv, CapHolds, Held, Places
  <2> QED BY <1>3, <1>4, <2>3, <2>4, <2>5, <2>6 DEF IInv
<1>7. CASE /\ shares' = Moved(i, idea[i].dir) /\ net' = Booked(i, "bought", idea[i].dir)
           /\ Commits \/ StopsAre(Kept \cup {i})
           /\ \/ Counted(i) /\ UNCHANGED uncounted
              \/ uncounted' = uncounted \cup {i} /\ UNCHANGED <<seen, room>>
  <2>1. /\ net' \in Nets /\ net'[i]["bought"] = idea[i].dir
        /\ \A j \in Ideas, m \in Leg : (j # i \/ m # "bought") => net'[j][m] = net[j][m]
    <3>1. idea[i].dir \in Int /\ net[i]["bought"] + idea[i].dir \in Small
          /\ net[i]["bought"] + idea[i].dir = idea[i].dir /\ "bought" \in Leg
      BY <1>5 DEF Dir, Small, Leg
    <3>2. net \in Nets
      BY <1>1 DEF TypeOK, Nets, Leg
    <3> QED BY <1>7, <3>1, <3>2, BookedIs
  <2>2. \A j \in Ideas : j # i => (EntryHeld(j)' <=> EntryHeld(j))
    BY <1>2, <2>1 DEF EntryHeld, Leg
  <2>3. EntryHeld(i)'
    BY <1>2, <1>5, <2>1 DEF EntryHeld, Leg
  <2>4. Held \subseteq Ideas /\ Cardinality(Held) \in Nat
    <3>1. Held \subseteq Ideas
      BY DEF Held
    <3> QED BY <3>1, Counts
  <2>5. room \in 0..MaxOpen /\ room' \in 0..MaxOpen
        /\ seen' \subseteq Pairs /\ uncounted' \subseteq Ideas
    BY <1>1, <1>7, PaperAlgoAssumption DEF Counted, TypeOK, Pairs
  <2>6. Cardinality(Held) + room <= MaxOpen
    BY <1>1 DEF IInv, Places
  <2>7. Cardinality(Held') \in Nat /\ Cardinality(Held') + room' <= MaxOpen
    <3>1. CASE Counted(i) /\ UNCHANGED uncounted
      <4>1. Held' \subseteq Held \cup {i} /\ Held \cup {i} \subseteq Ideas
        BY <2>2, <2>4, <3>1 DEF Held
      <4>2. Cardinality(Held') <= Cardinality(Held \cup {i}) /\ Cardinality(Held') \in Nat
            /\ Cardinality(Held \cup {i}) \in Nat
        BY <4>1, Counts
      <4>3. Cardinality(Held \cup {i}) <= Cardinality(Held) + 1
        BY <2>4, CountsOneMore
      <4>4. room' = room - 1
        BY <3>1 DEF Counted
      <4> QED BY <2>4, <2>5, <2>6, <4>2, <4>3, <4>4, PaperAlgoAssumption
    <3>2. CASE uncounted' = uncounted \cup {i} /\ UNCHANGED <<seen, room>>
      <4>1. Held' \subseteq Held
        BY <2>2, <3>2 DEF Held
      <4>2. Cardinality(Held') <= Cardinality(Held) /\ Cardinality(Held') \in Nat
        BY <2>4, <4>1, Counts
      <4> QED BY <2>4, <2>5, <2>6, <3>2, <4>2, PaperAlgoAssumption
    <3> QED BY <1>7, <3>1, <3>2
  <2>8. CapHolds' /\ Places'
    <3>1. Cardinality(Held') <= MaxOpen
      BY <2>5, <2>7, PaperAlgoAssumption
    <3> QED BY <2>7, <3>1 DEF CapHolds, Held, Places
  <2>9. /\ stop' \subseteq Ideas /\ dropped' \subseteq Ideas /\ torn' \subseteq Ideas
        /\ stop' \subseteq stop \cup {i}
        /\ \A j \in stop' : (j \in dropped \/ j \in torn) => (j \in dropped' \/ j \in torn')
    BY <1>1, <1>7 DEF Commits, StopsAre, Kept, TypeOK
  <2>10. Stops'
    <3> SUFFICES ASSUME NEW j \in stop'
                 PROVE  /\ j \notin Spreads /\ j \in acted'
                        /\ net'[j]["bought"] \in {0, idea'[j].dir}
                        /\ EntryHeld(j)' \/ Aside(j)'
      BY DEF Stops
    <3>1. CASE j = i
      BY <1>1, <1>2, <2>1, <2>3, <3>1
    <3>2. CASE j # i
      <4>1. /\ j \in stop /\ j \in Ideas /\ j \notin Spreads /\ j \in acted
            /\ net[j]["bought"] \in {0, idea[j].dir}
            /\ EntryHeld(j) \/ Aside(j)
        BY <2>9, <3>2 DEF IInv, Stops
      <4>2. Aside(j) => Aside(j)'
        BY <1>2, <2>9 DEF Aside
      <4>3. net'[j]["bought"] = net[j]["bought"]
        BY <2>1, <3>2, <4>1 DEF Leg
      <4> QED BY <1>2, <2>2, <3>2, <4>1, <4>2, <4>3
    <3> QED BY <3>1, <3>2
  <2>11. Fresh' /\ OneLeg'
    BY <1>2, <2>1 DEF IInv, Lots, Fresh, OneLeg, Leg
  <2>12. Shape'
    BY <1>1, <2>1, PaperAlgoAssumption DEF IInv, Lots, Shape, Leg
  <2>13. TypeOK'
    <3>1. shares' \in [Stocks -> Int]
      BY <1>1, <1>5, <1>7, MovedTyped DEF Dir
    <3> QED BY <1>1, <1>2, <2>1, <2>5, <2>9, <3>1 DEF TypeOK, Nets, Leg
  <2> QED BY <1>3, <1>4, <2>8, <2>10, <2>11, <2>12, <2>13 DEF IInv, Lots
<1> QED BY <1>6, <1>7 DEF TakeEquity

\* Buying and selling one leg of a spread leaves the equity ideas alone.
LEMMA LegBooked ==
  ASSUME IInv, NEW i \in Spreads, NEW l \in Leg, NEW q \in Int, net[i][l] + q \in Small,
         net' = Booked(i, l, q), acted' = acted \cup {i},
         net'[i]["bought"] \in {0, 1}, net'[i]["sold"] \in {-1, 0},
         net'[i]["sold"] = -1 => net'[i]["bought"] = 1,
         Commits, UNCHANGED <<idea, uncounted>>,
         \A j \in cur : j \notin stop \/ j \in cur'
  PROVE  net' \in Nets /\ Lots' /\ Held' = Held /\ CapHolds' /\ Stops'
<1>1. i \in Ideas /\ net \in Nets /\ TypeOK /\ i \notin stop
  BY PaperAlgoAssumption DEF IInv, TypeOK, Nets, Leg, Stops
<1>2. /\ net' \in Nets
      /\ \A j \in Ideas, m \in Leg : (j # i \/ m # l) => net'[j][m] = net[j][m]
  BY <1>1, BookedIs
<1>3. \A j \in Ideas : j # i => (EntryHeld(j)' <=> EntryHeld(j))
  BY <1>2 DEF EntryHeld, Leg
<1>4. Held' = Held
  BY <1>3 DEF Held
<1>5. CapHolds'
  BY <1>4 DEF IInv, CapHolds, Held
<1>6. Fresh' /\ OneLeg'
  BY <1>2, PaperAlgoAssumption DEF IInv, Lots, Fresh, OneLeg, Leg
<1>7. Shape'
  BY <1>2, PaperAlgoAssumption DEF IInv, Lots, Shape, Leg
<1>8. Stops'
  <2>1. /\ stop' \subseteq stop /\ stop' \subseteq Ideas
        /\ \A j \in stop' : (j \in dropped \/ j \in torn) => (j \in dropped' \/ j \in torn')
    BY <1>1, CommitKeeps
  <2>2. \A j \in stop' : net'[j]["bought"] = net[j]["bought"] /\ net'[j]["sold"] = net[j]["sold"]
    BY <1>1, <1>2, <2>1 DEF Leg
  <2> QED BY <2>1, <2>2, StopsStay DEF Aside
<1> QED BY <1>2, <1>4, <1>5, <1>6, <1>7, <1>8 DEF Lots

\* A leg that is rejected, or raises before its commit, trades nothing.
LEMMA LegMissed ==
  ASSUME IInv, NEW i \in Spreads, net' = net, acted' = acted \cup {i},
         Commits, UNCHANGED <<idea, uncounted>>,
         \A j \in cur : j \notin stop \/ j \in cur'
  PROVE  net' \in Nets /\ Lots' /\ Held' = Held /\ CapHolds' /\ Stops'
<1>1. TypeOK /\ net \in Nets
  BY DEF IInv, TypeOK, Nets, Leg
<1>2. \A j \in Ideas : j # i => (EntryHeld(j)' <=> EntryHeld(j))
  BY DEF EntryHeld
<1>3. Held' = Held
  BY <1>2 DEF Held
<1>4. CapHolds'
  BY <1>3 DEF IInv, CapHolds, Held
<1>5. Lots'
  BY DEF IInv, Lots, Fresh, Shape, OneLeg
<1>6. Stops'
  BY <1>1, CommitKeeps, StopsStay DEF Aside
<1> QED BY <1>1, <1>3, <1>4, <1>5, <1>6

LEMMA BuyInv ==
  ASSUME IInv, NEW i \in Ideas, BuyLeg(i)
  PROVE  IInv'
<1>1. /\ TypeOK /\ pc = "take" /\ room > 0 /\ i \in recs /\ i \notin acted /\ i \in Spreads
      /\ cur = {} /\ Cardinality(Held) + room <= MaxOpen
  BY DEF IInv, Halves, Places, BuyLeg, Candidate
<1>2. /\ UNCHANGED <<day, idea, haltDay, shares, recs, closed, faults, uncounted, seen, room>>
      /\ acted' = acted \cup {i} /\ Commits
  BY DEF BuyLeg
<1>3. Born'
  BY <1>1, <1>2 DEF IInv, Born
<1>4. net[i]["bought"] = 0 /\ net[i]["sold"] = 0
  BY <1>1 DEF IInv, Lots, Fresh
<1>5. stop' \subseteq Ideas /\ dropped' \subseteq Ideas /\ torn' \subseteq Ideas
  BY <1>1, <1>2, CommitKeeps
<1>6. CASE UNCHANGED <<pc, cur, net>>
  <2>1. net' \in Nets /\ Lots' /\ Held' = Held /\ CapHolds' /\ Stops'
    BY <1>1, <1>2, <1>6, LegMissed
  <2>2. TypeOK'
    BY <1>1, <1>2, <1>5, <1>6 DEF TypeOK
  <2>3. Halves' /\ Places'
    BY <1>1, <1>2, <1>6, <2>1 DEF Halves, Places
  <2> QED BY <1>3, <2>1, <2>2, <2>3 DEF IInv
<1>7. CASE /\ net' = Booked(i, "bought", 1)
           /\ (pc' = "sell" /\ cur' = {i}) \/ UNCHANGED <<pc, cur>>
  <2>1. /\ net' \in Nets /\ net'[i]["bought"] = 1 /\ net'[i]["sold"] = 0
        /\ "bought" \in Leg /\ net[i]["bought"] + 1 \in Small
    <3>1. "bought" \in Leg /\ net[i]["bought"] + 1 \in Small /\ net \in Nets
      BY <1>1, <1>4 DEF Leg, Small, TypeOK, Nets
    <3> QED BY <1>4, <1>7, <3>1, BookedIs DEF Leg
  <2>2. Lots' /\ Held' = Held /\ CapHolds' /\ Stops'
    BY <1>1, <1>2, <1>7, <2>1, LegBooked
  <2>3. TypeOK'
    BY <1>1, <1>2, <1>5, <1>7, <2>1 DEF TypeOK, Nets, Leg
  <2>4. Halves' /\ Places'
    BY <1>1, <1>2, <1>7, <2>1, <2>2 DEF Halves, Places
  <2> QED BY <1>3, <2>2, <2>3, <2>4 DEF IInv
<1> QED BY <1>6, <1>7 DEF BuyLeg

LEMMA SellInv ==
  ASSUME IInv, NEW i \in Ideas, SellLeg(i)
  PROVE  IInv'
<1>1. /\ TypeOK /\ pc = "sell" /\ room > 0 /\ i \in cur /\ i \in acted /\ i \in Spreads
      /\ net[i]["bought"] = 1 /\ net[i]["sold"] = 0
      /\ Cardinality(Held) + room <= MaxOpen
  BY DEF IInv, Halves, Places, SellLeg
<1>2. /\ UNCHANGED <<day, idea, haltDay, shares, recs, closed, faults, uncounted>>
      /\ acted' = acted /\ acted' = acted \cup {i} /\ pc' = "take" /\ cur' = {} /\ Commits
      /\ \/ room' = room - 1 /\ seen' = seen \cup {PairOf[i]}
         \/ room' = room /\ seen' = seen
      /\ net' \in {net, Booked(i, "sold", -1), Booked(i, "bought", -1)}
  BY <1>1 DEF SellLeg, Counted
<1>3. room' \in 0..MaxOpen /\ room' <= room /\ seen' \subseteq Pairs
  BY <1>1, <1>2, PaperAlgoAssumption DEF TypeOK, Pairs
<1>4. Born'
  BY <1>2 DEF IInv, Born
<1>5. net \in Nets /\ "sold" \in Leg /\ "bought" \in Leg
  BY <1>1 DEF TypeOK, Nets, Leg
<1>6. stop' \subseteq Ideas /\ dropped' \subseteq Ideas /\ torn' \subseteq Ideas
  BY <1>1, <1>2, CommitKeeps
<1>7. \A j \in cur : j \notin stop
  BY <1>1 DEF IInv, Halves, Stops
<1>8. net' \in Nets /\ Lots' /\ Held' = Held /\ CapHolds' /\ Stops'
  <2>1. CASE net' = net
    BY <1>1, <1>2, <1>7, <2>1, LegMissed
  <2>2. CASE net' = Booked(i, "sold", -1)
    <3>1. net[i]["sold"] + (-1) \in Small /\ net[i]["sold"] + (-1) = -1
      BY <1>1 DEF Small
    <3>2. net'[i]["sold"] = -1 /\ net'[i]["bought"] = 1
      BY <1>1, <1>5, <2>2, <3>1, BookedIs
    <3> QED BY <1>1, <1>2, <1>5, <1>7, <2>2, <3>1, <3>2, LegBooked
  <2>3. CASE net' = Booked(i, "bought", -1)
    <3>1. net[i]["bought"] + (-1) \in Small /\ net[i]["bought"] + (-1) = 0
      BY <1>1 DEF Small
    <3>2. net'[i]["bought"] = 0 /\ net'[i]["sold"] = 0
      BY <1>1, <1>5, <2>3, <3>1, BookedIs
    <3> QED BY <1>1, <1>2, <1>5, <1>7, <2>3, <3>1, <3>2, LegBooked
  <2> QED BY <1>2, <2>1, <2>2, <2>3
<1>9. TypeOK'
  BY <1>1, <1>2, <1>3, <1>6, <1>8 DEF TypeOK, Nets, Leg
<1>10. Places' /\ Halves'
  <2>1. Held \in SUBSET Ideas
    BY DEF Held
  <2>2. Cardinality(Held) \in Nat
    BY <2>1, Counts
  <2>3. room \in Nat /\ room' \in Nat /\ MaxOpen \in Nat
    BY <1>1, <1>3, PaperAlgoAssumption DEF TypeOK
  <2>4. Places'
    BY <1>1, <1>3, <1>8, <2>2, <2>3 DEF Places
  <2> QED BY <1>2, <2>4 DEF Halves
<1> QED BY <1>4, <1>8, <1>9, <1>10 DEF IInv

-----------------------------------------------------------------------------

LEMMA NextInv == IInv /\ [Next]_vars => IInv'
<1> SUFFICES ASSUME IInv, [Next]_vars PROVE IInv'
  OBVIOUS
<1>1. CASE UNCHANGED vars
  <2>1. Lots' /\ CapHolds' /\ Stops'
    BY <1>1, Untraded, StopsStay DEF vars, Aside
  <2> QED BY <1>1, <2>1 DEF vars, IInv, TypeOK, Born, Halves, Places, Held, EntryHeld
<1>2. CASE Next
  BY <1>2, IdeasInv, AroundInv, FaultInv, StartInv, CycleInv, StopInv, ExitInv, TakeInv,
     BuyInv, SellInv DEF Next
<1> QED BY <1>1, <1>2

LEMMA Invariant == Spec => []IInv
BY InitInv, NextInv, PTL DEF Spec

\* Every variable keeps its type, and an idea never holds more than one unit of a leg.
THEOREM TypeCorrect == Spec => []TypeOK
<1>1. IInv => TypeOK
  BY DEF IInv
<1> QED BY <1>1, Invariant, PTL

\* For any ideas and any max_open_auto: the bridge counts its open ideas once a
\* cycle, and still never lets more of them hold what they entered with, apart from
\* the entries that raised after their commit.
THEOREM CapsHold == Spec => []CapHolds
<1>1. IInv => CapHolds
  BY DEF IInv
<1> QED BY <1>1, Invariant, PTL

\* Whatever the user and the tracker do in between, and wherever the cycle ends: a
\* stop that still rests protects an entry that is still held, is about to be
\* cancelled, or was left behind by a rollback or a restart in its clean-up.
THEOREM StopsHold == Spec => []StopHasEntry
<1>1. IInv => StopHasEntry
  BY DEF IInv, Stops, StopHasEntry, Aside
<1> QED BY <1>1, Invariant, PTL

\* No spread is left naked short: not by a rejected leg, a rejected reversal, a leg
\* that raises, a restart between the legs or an exit.
THEOREM SpreadsCovered == Spec => []LegsCovered
<1>1. IInv => LegsCovered
  BY DEF IInv, Lots, Shape, LegsCovered
<1> QED BY <1>1, Invariant, PTL

\* The bridge takes ideas only on a day it is not halted.
Halting == pc \in {"take", "sell"} => haltDay # day
HInv    == IInv /\ Halting

LEMMA HaltingKept == HInv /\ [Next]_vars => Halting'
<1> SUFFICES ASSUME HInv, [Next]_vars PROVE Halting'
  OBVIOUS
<1> USE DEF books, cycle, pending
<1>1. CASE Tick
  BY <1>1 DEF Halting, Tick
<1>2. CASE StartTaking
  <2>1. pc' = "take" => haltDay # day /\ haltDay' = haltDay
    BY <1>2 DEF StartTaking
  <2>2. pc' \in {"take", "manage"} /\ day' = day
    BY <1>2 DEF StartTaking
  <2> QED BY <2>1, <2>2 DEF Halting
<1>3. CASE Enable
  BY <1>3, PaperAlgoAssumption DEF HInv, IInv, TypeOK, Halting, Enable
<1>4. CASE EndTaking \/ EndManaging \/ BridgeRaises \/ Restart \/ OthersCommit \/ OthersRollBack
  BY <1>4 DEF HInv, Halting, EndTaking, EndManaging, BridgeRaises, Restart, OthersCommit,
              OthersRollBack
<1>5. ASSUME NEW i \in Ideas,
             \/ StopFills(i) \/ Visit(i) \/ ExitFills(i) \/ ExitRejected(i) \/ Drop(i)
             \/ CancelStop(i)
      PROVE  Halting'
  BY <1>5 DEF HInv, Halting, StopFills, Visit, ExitFills, ExitRejected, Exited, Drop, CancelStop
<1>6. ASSUME NEW i \in Ideas, TakeEquity(i) \/ BuyLeg(i) \/ SellLeg(i) PROVE Halting'
  BY <1>6 DEF HInv, Halting, TakeEquity, BuyLeg, SellLeg, Candidate
<1>7. ASSUME NEW s \in Stocks, SellByHand(s) PROVE Halting'
  BY <1>7 DEF HInv, Halting, SellByHand
<1>8. ASSUME NEW p \in Pairs, Scan(p) \/ Track(p) PROVE Halting'
  BY <1>8 DEF HInv, Halting, Scan, Track
<1>9. CASE UNCHANGED vars
  BY <1>9 DEF HInv, Halting, vars
<1> QED BY <1>1, <1>2, <1>3, <1>4, <1>5, <1>6, <1>7, <1>8, <1>9 DEF Next

\* The daily-loss stop lasts for the day, whatever is enabled again and however the
\* realized profit recovers.
THEOREM HaltsLast == Spec => HaltLasts
<1>1. Init => HInv
  BY InitInv DEF Init, HInv, Halting
<1>2. HInv /\ [Next]_vars => HInv'
  BY NextInv, HaltingKept DEF HInv
<1>3. HInv /\ [Next]_vars
        => [haltDay = day /\ day' = day => haltDay' = day /\ acted' = acted]_vars
  <2> SUFFICES ASSUME HInv, Next, haltDay = day, day' = day
               PROVE  haltDay' = day /\ acted' = acted
    BY DEF vars
  <2> USE DEF books, cycle, pending
  <2>1. pc \notin {"take", "sell"}
    BY DEF HInv, Halting
  <2>2. CASE Tick \/ EndTaking \/ EndManaging \/ BridgeRaises \/ Restart \/ OthersCommit
             \/ OthersRollBack
    BY <2>2 DEF Tick, EndTaking, EndManaging, BridgeRaises, Restart, OthersCommit,
                OthersRollBack
  <2>3. CASE StartTaking
    BY <2>3 DEF StartTaking
  <2>4. CASE Enable
    BY <2>4 DEF Enable
  <2>5. ASSUME NEW i \in Ideas,
               \/ StopFills(i) \/ Visit(i) \/ ExitFills(i) \/ ExitRejected(i) \/ Drop(i)
               \/ CancelStop(i) \/ TakeEquity(i) \/ BuyLeg(i) \/ SellLeg(i)
        PROVE  haltDay' = day /\ acted' = acted
    BY <2>1, <2>5 DEF StopFills, Visit, ExitFills, ExitRejected, Exited, Drop, CancelStop,
                      TakeEquity, BuyLeg, SellLeg, Candidate
  <2>6. ASSUME NEW s \in Stocks, SellByHand(s)
        PROVE  haltDay' = day /\ acted' = acted
    BY <2>6 DEF SellByHand
  <2>7. ASSUME NEW p \in Pairs, Scan(p) \/ Track(p)
        PROVE  haltDay' = day /\ acted' = acted
    BY <2>7 DEF Scan, Track
  <2> QED BY <2>2, <2>3, <2>4, <2>5, <2>6, <2>7 DEF Next
<1> QED BY <1>1, <1>2, <1>3, PTL DEF Spec, HaltLasts
=============================================================================
