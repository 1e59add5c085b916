--------------------------- MODULE RemoteDelegation ---------------------------
(***************************************************************************)
(* remote_scheduler_delegation: it schedules the agents of which no UE has *)
(* reported its channel, until one has; to that agent it delegates the     *)
(* control and then schedules no agent any more. delegation_enabled_ is    *)
(* one flag for all the agents.                                            *)
(***************************************************************************)
EXTENDS AgentClock

VARIABLES
  handled,    \* handled[a]: last_checked_frame_ and last_checked_subframe_
  delegated,  \* agents that have been sent the scheduler; non-empty: delegation_enabled_
  configured  \* history: agents that a dl_mac_config was sent to in the last run

remoteVars == <<handled, delegated, configured>>

RemoteInit ==
  /\ handled \in [Agent -> Starts]
  /\ delegated = {} /\ configured = {}

\* A mutant that does not look at the flag.
DelegationEnabledMutNot == FALSE
DelegationEnabled == delegated # {}

Pending == {a \in Agent : handled[a] # now[a]}

\* The run ends at the first agent whose control is delegated.
Reached(A, csi) ==
  IF A \cap csi = {} THEN A ELSE {a \in A : a < Least(A \cap csi)}

\* run_periodic_task. csi are the agents of which some UE has reported the channel of its
\* cell: the reports that are there in this run, for a UE that has reported may go.
\* configured' are the agents for which some UE is scheduled.
RunRemoteDelegation ==
  /\ RunTask("remote_delegation")
  /\ IF DelegationEnabled
     THEN configured' = {} /\ UNCHANGED <<handled, delegated>>
     ELSE \E csi \in SUBSET Agent :
       LET reached == Reached(Pending, csi)
       IN  /\ handled' = [a \in Agent |-> IF a \in reached THEN now[a] ELSE handled[a]]
           /\ configured' \in SUBSET reached
           /\ delegated' = IF reached = Pending THEN delegated
                           ELSE delegated \cup {Least(Pending \cap csi)}

\* The control of one agent is delegated once, and an agent that has been sent the
\* scheduler is sent no dl_mac_config, in that run or later, whether the UE that
\* reported is still there or not.
DelegatedLeftAlone ==
  /\ delegated \cap configured = {}
  /\ \A a, b \in delegated : a = b
=============================================================================
