---------------------------- MODULE MCOrderEntry ----------------------------
(* Small instances of order entry for TLC.                                 *)
EXTENDS OrderEntry
============================================================================
