---------------------------- MODULE MCThreadPool ----------------------------
(* Three workers and three connections for TLC. *)
EXTENDS ThreadPool

CONSTANTS w1, w2, w3
=============================================================================
