---------------------------- MODULE MCTaskManager ----------------------------
(* TaskManager with three applications.                                    *)
EXTENDS TaskManager
===============================================================================
