-------------------------- MODULE MCResourceBlocks --------------------------
(* Cells of a few UEs. *)
EXTENDS ResourceBlocks
=============================================================================
