------------------------ MODULE MCStockTokenAdapter -------------------------
EXTENDS StockTokenAdapter

CONSTANTS coarse, fine

(* A feed with fewer decimals than prices have here, and one with more.    *)
MCDecimals == [feed \in PriceFeeds |-> IF feed = coarse THEN 0 ELSE 2]

(* Nothing, a price both feeds scale, one that overflows the coarse feed's *)
(* word; the fine feed rounds the smaller one away.                        *)
MCAnswers == {0, 5, 20}
=============================================================================
