---------------------------- MODULE MCPaperAlgo ----------------------------
(* Three ideas: a swing idea and an intraday idea on one stock, and the option *)
(* spread that is the swing idea's pair.                                       *)
EXTENDS PaperAlgo

MCIdeas == {"swing", "day", "spread"}
MCSwing == {"swing", "spread"}
MCSpreads == {"spread"}
MCSymOf == [i \in MCIdeas |-> IF i = "spread" THEN "options" ELSE "stock"]
MCDirsOf == [p \in {"swing", "day"} |-> IF p = "day" THEN {-1} ELSE {1}]
MCPairOf == [i \in MCIdeas |-> IF i = "spread" THEN "swing" ELSE i]
=============================================================================
