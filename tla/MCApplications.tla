---------------------------- MODULE MCApplications ----------------------------
(* Two agents over two frames; the agent 0 is eICIC's macro cell.            *)
EXTENDS Applications

MCStepTime == << 2, 5, 8 >>
=============================================================================
