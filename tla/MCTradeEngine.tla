--------------------------- MODULE MCTradeEngine ---------------------------
(* A small instance of the trade engine for TLC: the threshold is 0.7,     *)
(* which no fraction of these quantities is equal to, so that doubles and  *)
(* exact fractions agree.                                                  *)
EXTENDS TradeEngine

MCOtherFeature == <<50, 1>>
============================================================================
