---------------------------- MODULE MCClientBook ----------------------------
(* A small instance of the participant's book for TLC, with one gap that   *)
(* the consumer recovers from.                                             *)
EXTENDS ClientOrderBook
============================================================================
