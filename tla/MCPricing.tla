------------------------------ MODULE MCPricing ------------------------------
(* One product; v1 at its price, v2 with so much off that it may come to     *)
(* less than nothing.                                                        *)
EXTENDS Pricing

CONSTANTS v1, v2, mug

MCProductOf == [i \in Items |-> mug]
MCAdjust == [i \in Items |-> IF i = v2 THEN -4 ELSE 0]
MCOldPrices == {-1, 3, 5}
=============================================================================
