----------------------------- MODULE MCRibUpdater -----------------------------
(* TLC instance of RibUpdater. *)
EXTENDS RibUpdater

Symmetry == Permutations(Rnti) \cup Permutations(Conf)
===============================================================================
