------------------------------ MODULE MCNetwork ------------------------------
(* Two threads that send to the agents of two successive sessions. *)
EXTENDS Network
===============================================================================
