---------------------------- MODULE MCThreadPool ----------------------------
(* ThreadPool on a small instance: two tasks, pushed one by one or as a list. *)
EXTENDS ThreadPool, TLC

CONSTANTS a, b

OneList == {<<a, b>>}
=============================================================================
