---------------------------- MODULE MCCircularQueue ----------------------------
(* Instances of CircularQueue for TLC. *)
EXTENDS CircularQueue, TLC
=============================================================================
