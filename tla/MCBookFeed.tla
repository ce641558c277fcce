---------------------------- MODULE MCBookFeed ----------------------------
(* A small instance of the exchange's market data path for TLC.            *)
EXTENDS BookFeed
===========================================================================
