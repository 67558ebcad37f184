--------------------------- MODULE MCPaperAccount ---------------------------
(***************************************************************************)
(* PaperAccount for TLC: a delivered stock and an option, which is sold    *)
(* short on margin as well.  Prices at which margins, charges and the      *)
(* parts of a lot do not come out even.                                    *)
(***************************************************************************)
EXTENDS PaperAccount, TLC

CONSTANTS stock, deriv, low, high

MCKind    == (stock :> "CNC") @@ (deriv :> "OPT")
MCCharge  == [k \in Kinds |-> IF k = "CNC" THEN 10 ELSE 5]
MCDeposits == {-low}

Ask(i, side, type, q, price, trigger) ==
  [ins |-> i, side |-> side, type |-> type, qty |-> q, price |-> price,
   trigger |-> trigger]
\* Market orders of one and two lots; resting orders of every type.
MCAsked ==
  {Ask(i, side, "MARKET", q, None, None) :
     i \in Instruments, side \in Sides, q \in {1, 2}}
  \cup {Ask(stock, "BUY", "LIMIT", 2, low, None),
        Ask(stock, "BUY", "LIMIT", 1, high, None),
        Ask(stock, "SELL", "LIMIT", 1, high, None),
        Ask(stock, "SELL", "SL-M", 1, None, low),
        Ask(deriv, "SELL", "LIMIT", 2, high, None),
        Ask(deriv, "BUY", "SL", 2, high, low),
        Ask(deriv, "BUY", "SL-M", 1, None, high)}
Ordered  == Permutations(Ids)
=============================================================================
