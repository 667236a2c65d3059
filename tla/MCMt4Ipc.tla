------------------------------ MODULE MCMt4Ipc ------------------------------
(* A small instance of Mt4Ipc for TLC. *)
EXTENDS Mt4Ipc

CONSTANTS w1, w2, t1, a1, a2
=============================================================================
