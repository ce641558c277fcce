--------------------------- MODULE MCMarketData ---------------------------
(* Small instances of the market data streams for TLC.                     *)
EXTENDS MarketDataRecovery
===========================================================================
