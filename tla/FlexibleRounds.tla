---------------------------- MODULE FlexibleRounds ----------------------------
(***************************************************************************)
(* The loop of flexible_scheduler::run_central_scheduler over the agents:  *)
(* which of them are scheduled in a round, for which subframe; and when    *)
(* the transmission power of a UE on the PUCCH is stepped. CentralScheduler*)
(* has what is done for an agent that is scheduled.                        *)
(***************************************************************************)
EXTENDS AgentClock

CONSTANTS FlexAhead,   \* schedule_ahead: 0
          PowerAgents  \* agents of which one UE is followed

ASSUME FlexAssumption == FlexAhead \in 0 .. 9 /\ PowerAgents \subseteq Agent

VARIABLES
  last,    \* last[a]: last_checked_frame_ and last_checked_subframe_
  tpcAt,   \* tpcAt[a]: pucch_tpc_tx_frame_ and pucch_tpc_tx_subframe_ of the UE
  sent,    \* history: sent[a]: dl_mac_configs since the agent's clock has moved
  elapsed, \* history: elapsed[a]: subframes since the last step of power, up to PowerGap
  gap      \* history: gap[a]: subframes between the last two steps, up to PowerGap

flexVars == <<last, tpcAt, sent, elapsed, gap>>

PowerGap == 10

FlexInit ==
  /\ last \in [Agent -> Starts]
  /\ tpcAt = [a \in PowerAgents |-> 0]
  /\ sent = [a \in Agent |-> 0]
  /\ elapsed = [a \in PowerAgents |-> PowerGap]
  /\ gap = [a \in PowerAgents |-> PowerGap]

AtMost(m, n) == IF n > m THEN m ELSE n

\* The clock as the histories see it.
FlexUpdate(d) ==
  /\ sent' = [a \in Agent |-> IF Moved(a) THEN 0 ELSE sent[a]]
  /\ elapsed' = [a \in PowerAgents |-> AtMost(PowerGap, elapsed[a] + d[a])]
  /\ UNCHANGED <<last, tpcAt, gap>>

\* needs_scheduling, but not for the subframes 0 and 5 of the synchronisation signals.
FlexTarget(a) == Target(now[a], FlexAhead)
\* A mutant that does not ask whether the agent has been scheduled in this subframe.
ChosenMutAgain == {a \in Agent : SubframeOf(FlexTarget(a)) \notin {0, 5}}
Chosen == {a \in Agent : last[a] # now[a] /\ SubframeOf(FlexTarget(a)) \notin {0, 5}}

\* A mutant that takes every moment before the last step for one after the wrap.
CanStepMutWrap(from, target) == from + 10 <= target \/ from > target

\* May the power of the UE be stepped? Ten subframes from the last step, or, when the
\* frames have started again since, ten in all.
CanStep(from, target) ==
  \/ from + 10 <= target
  \/ from > target /\ 10 * NumFrames - from + target >= 10

\* run_central_scheduler: nonempty are the agents for which some UE is scheduled,
\* stepping those of which the UE has a new block and its power is reported to be off.
RunFlexible ==
  /\ RunTask("flexible")
  /\ last' = [a \in Agent |-> IF a \in Chosen THEN now[a] ELSE last[a]]
  /\ \E nonempty \in SUBSET Chosen :
       /\ sent' = [a \in Agent |-> IF a \in nonempty THEN sent[a] + 1 ELSE sent[a]]
       /\ \E off \in SUBSET (nonempty \cap PowerAgents) :
            LET stepping == {a \in off : CanStep(tpcAt[a], FlexTarget(a))}
            IN  /\ tpcAt' = [a \in PowerAgents |-> IF a \in stepping THEN FlexTarget(a) ELSE tpcAt[a]]
                /\ gap' = [a \in PowerAgents |-> IF a \in stepping THEN elapsed[a] ELSE gap[a]]
                /\ elapsed' = [a \in PowerAgents |-> IF a \in stepping THEN 0 ELSE elapsed[a]]

\* An agent gets at most one dl_mac_config for a subframe, however often the
\* application runs in it.
SubframeOnce == \A a \in Agent : sent[a] <= 1

\* Two steps of the power of a UE are at least ten subframes apart, also over the
\* wrap of the frame numbers.
PowerStepsSpaced == \A a \in PowerAgents : gap[a] >= PowerGap
=============================================================================
