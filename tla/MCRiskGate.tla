---------------------------- MODULE MCRiskGate ----------------------------
(***************************************************************************)
(* RiskGate for TLC: two rate limits, as per second and per minute, and a  *)
(* quantity that is over the order limit.                                  *)
(***************************************************************************)
EXTENDS RiskGate

MCRates      == {[len |-> 2, cap |-> 1], [len |-> 5, cap |-> 2]}
MCQuantities == {-1, 1, 2}
===========================================================================
