--------------------------------- MODULE Eicic ---------------------------------
(***************************************************************************)
(* remote_scheduler_eicic: in the almost blank subframes of the macro cell *)
(* either the pico cells may send, when one of them has something to send, *)
(* or else the macro cell. The grant is an empty dl_mac_config.            *)
(***************************************************************************)
EXTENDS AgentClock

CONSTANT EicicAhead \* schedule_ahead: 1

ASSUME EicicAssumption == EicicAhead \in 0 .. 1

Macro == 0          \* macro_agent_id_
AlmostBlank == {1, 3, 7, 9}  \* abs_

VARIABLES
  checked, \* checked[a]: last_checked_frame_ and last_checked_subframe_
  data,    \* agents of which some UE has a non-empty queue in its report
  grants   \* history: the grants since the agent's clock has moved: [agent, at]

eicicVars == <<checked, data, grants>>

\* The scheduling information has no values in these fields when it is made.
EicicInit ==
  /\ checked \in [Agent -> Starts]
  /\ data \in SUBSET (Agent \ {Macro})
  /\ grants = {}

\* Reports come with the triggers; the grants of a moment end with it.
EicicUpdate ==
  /\ data' \in SUBSET (Agent \ {Macro})
  /\ grants' = {g \in grants : ~Moved(g.agent)}
  /\ UNCHANGED checked

\* A mutant that takes every agent in every run.
UncheckedMutAll == Agent

\* needs_scheduling
Unchecked == {a \in Agent : checked[a] # now[a]}

ScheduleFlag(A) == \E a \in A : TargetSubframe(SubframeOf(now[a]), EicicAhead) \in AlmostBlank
ScheduleMacro(A) == A \cap data = {}

\* sfn_sf of the grant. Its frame is the current one: what the wrap gave is overwritten.
GrantAt(a) ==
  10 * ((FrameOf(now[a]) + EicicAhead \div 10) % NumFrames)
    + TargetSubframe(SubframeOf(now[a]), EicicAhead)

\* run_periodic_task: the second loop sends to the macro cell or to all the others,
\* whether they were checked now or before.
RunEicic ==
  /\ RunTask("eicic")
  /\ checked' = now
  /\ grants' = IF ScheduleFlag(Unchecked)
               THEN grants \cup { [agent |-> a, at |-> GrantAt(a)] :
                                  a \in {b \in Agent : (b = Macro) = ScheduleMacro(Unchecked)} }
               ELSE grants
  /\ UNCHANGED data

\* While the clocks are in step, the macro cell and a pico cell never get the same
\* subframe, and what they get is the next subframe and an almost blank one.
MacroXorPico ==
  inStep =>
    /\ \A g, h \in grants : (g.agent = Macro /\ g.at = h.at) => h.agent = Macro
    /\ \A g \in grants : g.at = After(now[g.agent], EicicAhead) /\ SubframeOf(g.at) \in AlmostBlank
=============================================================================
