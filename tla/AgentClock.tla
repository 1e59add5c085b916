------------------------------ MODULE AgentClock ------------------------------
(***************************************************************************)
(* The frame and subframe of every agent as the RIB has them, and the      *)
(* rounds of the task manager over one registered application: the updater *)
(* applies the triggers that have come, then the application runs. The two *)
(* are never beside one another, so a run of an application is one step.   *)
(* TaskManager has the cycle itself, RibUpdater the messages.              *)
(***************************************************************************)
EXTENDS FrameTime

CONSTANTS Agent,    \* session ids of the agents in the RIB
          MaxJump,  \* bound: subframes that a clock may move in one round
          MaxApart, \* bound: subframes that two clocks may be apart
          Starts    \* moments of the first triggers

ASSUME ClockAssumption ==
  /\ Agent \subseteq Nat /\ Agent # {} /\ MaxJump \in Nat /\ MaxApart \in Nat
  /\ Starts \subseteq Moment /\ Starts # {}

VARIABLES
  app,     \* the application that main registers, of those it names
  now,     \* now[a]: current_frame_ and current_subframe_ of agent a
  phase,   \* what the round has before it: "update" or "run"
  inStep   \* history: the clocks have always shown the same moment

clockVars == <<app, now, phase, inStep>>

Apps == {"flexible", "delegation_manager", "eicic", "remote_delegation"}

\* run_periodic_task goes through std::set<int> of the agents: the least first.
Least(A) == CHOOSE a \in A : \A b \in A : a <= b

ClockInit ==
  /\ app \in Apps
  /\ now \in [Agent -> Starts]
  /\ phase = "update"
  /\ inStep = (\A a, b \in Agent : now[a] = now[b])

\* update_subframe of the triggers of a round: d[a] subframes at agent a.
Apart(s, t) == {After(s, -t), After(t, -s)}
Jumps == [Agent -> 0 .. MaxJump]
UpdateSubframes(d) ==
  /\ phase = "update" /\ phase' = "run"
  /\ now' = [a \in Agent |-> After(now[a], d[a])]
  /\ \A a, b \in Agent : Apart(now'[a], now'[b]) \cap 0 .. MaxApart # {}
  /\ inStep' = (inStep /\ \A a, b \in Agent : d[a] = d[b])
  /\ UNCHANGED app

Moved(a) == now'[a] # now[a]

\* The application's turn in the round.
RunTask(which) ==
  /\ phase = "run" /\ phase' = "update" /\ app = which
  /\ UNCHANGED <<app, now, inStep>>
=============================================================================
