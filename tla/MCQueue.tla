------------------------------ MODULE MCQueue ------------------------------
(* A small instance of the ring buffer for TLC, around which its indexes   *)
(* go twice.                                                               *)
EXTENDS SPSCQueue
============================================================================
