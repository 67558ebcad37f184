------------------------------ MODULE MCBaskets ------------------------------
(* Instances of Baskets for TLC. *)
EXTENDS Baskets

CONSTANT b1

MCCapital  == [b \in Baskets |-> 4]
MCRankings == {{2}, {1, 2}}
MCHeld     == [x \in Symbols |-> IF x = 1 THEN 2 ELSE 0]
MCOneProcess == [s \in Sessions |-> "api"]
==============================================================================
