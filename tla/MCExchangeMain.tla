--------------------------- MODULE MCExchangeMain ---------------------------
(* A small instance of the exchange's program for TLC.                     *)
EXTENDS ExchangeMain
============================================================================
