---------------------------- MODULE MCLiveOrders ----------------------------
(***************************************************************************)
(* LiveOrders for TLC: a request of two units, which can be part filled,   *)
(* and one of a single unit.                                               *)
(***************************************************************************)
EXTENDS LiveOrders

CONSTANTS big, small

MCQty == [r \in Requests |-> IF r = big THEN 2 ELSE 1]
=============================================================================
