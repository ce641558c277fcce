------------------------------ MODULE MCBook ------------------------------
(* A small instance of the order book for TLC: one client, four orders at  *)
(* three prices, and pools of four cells, which hand out three before the  *)
(* process aborts on the fourth.                                           *)
EXTENDS MEOrderBook
===========================================================================
