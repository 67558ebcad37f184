----------------------------- MODULE OrderRows -----------------------------
(***************************************************************************)
(* What the live order path promises to anyone who reads the committed     *)
(* "orders" and "trades" tables: an order row appears once, as PENDING or  *)
(* OPEN; later it settles at most once; and the Trade of a filled order is *)
(* committed together with its COMPLETE status, never before, never twice. *)
(* LiveOrders implements this specification (see RowsRefined there).       *)
(***************************************************************************)
EXTENDS Integers

CONSTANT Orders          \* the internal order ids

VARIABLE rows            \* rows[o]: the committed row of order o

Waiting == {"PENDING", "OPEN"}
Final   == {"COMPLETE", "REJECTED", "CANCELLED"}
Row     == [status : {"NONE"} \cup Waiting \cup Final, trades : {0, 1}]

NoRow == [status |-> "NONE", trades |-> 0]

Init == rows = [o \in Orders |-> NoRow]

\* The router commits the row of a new order.
Insert(o, s) ==
  /\ rows[o] = NoRow
  /\ rows' = [rows EXCEPT ![o] = [status |-> s, trades |-> 0]]

\* One reconciliation pass commits the outcome of the orders in S.
Settle(S) ==
  /\ \A o \in S : rows[o].status \in Waiting
  /\ \E out \in [S -> Final] :
       rows' = [o \in Orders |->
                  IF o \in S
                  THEN [status |-> out[o],
                        trades |-> IF out[o] = "COMPLETE" THEN 1 ELSE 0]
                  ELSE rows[o]]

Next ==
  \/ \E o \in Orders, s \in Waiting : Insert(o, s)
  \/ \E S \in SUBSET Orders : Settle(S)

Spec == Init /\ [][Next]_rows
=============================================================================
