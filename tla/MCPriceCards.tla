----------------------------- MODULE MCPriceCards -----------------------------
(* Instances of PriceCards for TLC.                                        *)
EXTENDS PriceCards

(* A stub names no price.  Two sections name one promo: the first states    *)
(* the regular price it goes back to, which another section names too.      *)
MCTexts == {"stub", "cheap", "dear", "sale", "last sale"}
MCPriceOf == [t \in MCTexts |->
    CASE t = "stub" -> 0 [] t = "cheap" -> 1 [] t = "dear" -> 2 [] OTHER -> 3]
MCPromos == {3}
MCRegularOf == [t \in MCTexts |-> IF t = "sale" THEN 2 ELSE 0]

=============================================================================
