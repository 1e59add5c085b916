-------------------------- MODULE MCSchedulerControl --------------------------
(* SchedulerControl with the two applications the controller registers.    *)
EXTENDS SchedulerControl
===============================================================================
