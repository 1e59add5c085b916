--------------------------- MODULE DelegationManager ---------------------------
(***************************************************************************)
(* delegation_manager: a timetable of six steps. The first two push code   *)
(* for the scheduler of the agent, the others reconfigure it by a policy.  *)
(* A step is taken once, for the first agent found in its very subframe.   *)
(***************************************************************************)
EXTENDS AgentClock, Sequences

CONSTANT StepTime \* <<2000, 2500, 4000, 6000, 8000, 10000>>

Step == DOMAIN StepTime

ASSUME StepAssumption ==
  /\ StepTime \in Seq(Moment)
  /\ StepTime # <<>>
  /\ \A j, k \in Step : j < k => StepTime[j] < StepTime[k]

VARIABLES
  steps,   \* delegation_steps_: the steps that have been taken
  told,    \* told[a]: the steps of which agent a has been sent the message
  onTime,  \* history: every clock began before the first step
  skipped  \* history: a clock has gone past a subframe without a run in it

delegationVars == <<steps, told, onTime, skipped>>

DelegationInit ==
  /\ steps = {}
  /\ told = [a \in Agent |-> {}]
  /\ onTime = (\A a \in Agent : now[a] < StepTime[1])
  /\ skipped = FALSE

\* What a round does to the history.
DelegationUpdate(d) ==
  /\ skipped' = (skipped \/ \E a \in Agent : d[a] > 1)
  /\ UNCHANGED <<steps, told, onTime>>

\* The agents that are in the subframe of step k; the least one gets the message.
DueAt(k) == {a \in Agent : now[a] = StepTime[k]}

\* A mutant that looks at the flag of the first step in the second branch.
DueMutFlag(done) ==
  {k \in Step : DueAt(k) # {} /\ (IF k = 2 THEN 1 ELSE k) \notin done}
Due(done) == {k \in Step \ done : DueAt(k) # {}}

\* run_periodic_task.
RunDelegationManager ==
  /\ RunTask("delegation_manager")
  /\ steps' = steps \cup Due(steps)
  /\ told' = [a \in Agent |-> told[a] \cup {k \in Due(steps) : a = Least(DueAt(k))}]
  /\ UNCHANGED <<onTime, skipped>>

\* With the agents in step and every subframe seen, an agent gets the message of a step
\* only after those of all the steps before it: no policy before the code it is about.
StepsInOrder ==
  (inStep /\ onTime /\ ~skipped) =>
    \A a \in Agent, k \in Step : k \in told[a] => {j \in Step : j < k} \subseteq told[a]

\* Every step of the timetable is taken once, also those that the agents had gone past
\* when they came: the clock comes round again.
EveryStepTaken ==
  (app = "delegation_manager" /\ [](~skipped)) => <>(steps = Step)
=============================================================================
