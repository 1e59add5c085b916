----------------------------- MODULE Applications -----------------------------
(***************************************************************************)
(* The applications of the controller over the clocks of the agents. Main  *)
(* registers the flexible scheduler; the others stand there to be put in   *)
(* its place. A behaviour has one of them.                                 *)
(***************************************************************************)
EXTENDS DelegationManager, Eicic, FlexibleRounds, RemoteDelegation

appVars == <<delegationVars, eicicVars, flexVars, remoteVars>>
vars == <<clockVars, appVars>>

\* What the application that is not registered would keep stays at one value.
Init ==
  /\ ClockInit /\ DelegationInit /\ EicicInit /\ FlexInit /\ RemoteInit
  /\ app # "eicic" => checked = now /\ data = {}
  /\ app # "flexible" => last = now
  /\ app # "remote_delegation" => handled = now

\* The updater's turn: the triggers, and what the applications read beside the clocks.
Update(d) ==
  /\ UpdateSubframes(d)
  /\ IF app = "delegation_manager" THEN DelegationUpdate(d) ELSE UNCHANGED delegationVars
  /\ IF app = "eicic" THEN EicicUpdate ELSE UNCHANGED eicicVars
  /\ IF app = "flexible" THEN FlexUpdate(d) ELSE UNCHANGED flexVars
  /\ UNCHANGED remoteVars

Round ==
  \/ RunDelegationManager /\ UNCHANGED <<eicicVars, flexVars, remoteVars>>
  \/ RunEicic /\ UNCHANGED <<delegationVars, flexVars, remoteVars>>
  \/ RunFlexible /\ UNCHANGED <<delegationVars, eicicVars, remoteVars>>
  \/ RunRemoteDelegation /\ UNCHANGED <<delegationVars, eicicVars, flexVars>>

Next ==
  \/ \E d \in Jumps : Update(d)
  \/ Round

Spec == Init /\ [][Next]_vars

\* The real-time thread goes on with its rounds, and every agent's triggers keep coming.
ClockMoves(a) == \E d \in Jumps : d[a] > 0 /\ Update(d)
FairSpec ==
  /\ Spec
  /\ WF_vars(\E d \in Jumps : Update(d)) /\ WF_vars(Round)
  /\ \A a \in Agent : SF_vars(ClockMoves(a))

TypeOK ==
  /\ app \in Apps /\ now \in [Agent -> Moment] /\ phase \in {"update", "run"}
  /\ inStep \in BOOLEAN /\ skipped \in BOOLEAN
  /\ steps \subseteq Step /\ told \in [Agent -> SUBSET Step] /\ onTime \in BOOLEAN
  /\ checked \in [Agent -> Moment] /\ data \subseteq Agent
  /\ grants \subseteq [agent : Agent, at : Moment]
  /\ last \in [Agent -> Moment] /\ tpcAt \in [PowerAgents -> Moment]
  /\ sent \in [Agent -> Nat]
  /\ elapsed \in [PowerAgents -> 0 .. PowerGap] /\ gap \in [PowerAgents -> 0 .. PowerGap]
  /\ handled \in [Agent -> Moment]
  /\ delegated \subseteq Agent /\ configured \subseteq Agent
=============================================================================
