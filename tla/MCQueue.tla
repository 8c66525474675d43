------------------------------ MODULE MCQueue ------------------------------
(* Queue on a small instance. *)
EXTENDS Queue, TLC
=============================================================================
