------------------------------- MODULE MCHarq -------------------------------
(* One or two HARQ processes: with losses, with a change of the scheduler,  *)
(* and without either for what must happen eventually.                      *)
EXTENDS Harq
=============================================================================
