--------------------------- MODULE SchedulerControl ---------------------------
(***************************************************************************)
(* How the schedule of the agents is switched while the controller runs:  *)
(* flexible_scheduler's periodic task, driven by the task manager, and the *)
(* calls of the northbound API, which change its flag from the one thread  *)
(* of the REST server at any moment.                                       *)
(*                                                                         *)
(* The RIB gains agents while the RIB updater runs. What the scheduling of *)
(* one agent decides is left out: it sends a dl_mac_config or not.         *)
(***************************************************************************)
EXTENDS Naturals, FiniteSets

CONSTANTS Agent,          \* session ids
          NoAgent,
          NumApps,        \* registered applications
          Flex,           \* the slot of flexible_scheduler
          MaxExpirations  \* bound: see TaskManager

ASSUME ControlAssumption ==
  /\ Agent \subseteq Nat /\ IsFiniteSet(Agent) /\ NoAgent \notin Agent
  /\ NumApps \in 0 .. 100 /\ Flex \in 1 .. NumApps
  /\ MaxExpirations \in Nat \ {0}

VARIABLES
  pc, index, thread, timer, expirations, returned,  \* see TaskManager
  available,  \* the keys of eNB_configs_
  inserting,  \* the agent eNB_configs_.insert is adding, or NoAgent
  central,    \* central_scheduling
  codePushed, \* code_pushed_
  flexPc,     \* where the thread of flexible_scheduler is
  flexTodo,   \* agents its loop has not visited yet
  restPc,     \* where the REST thread is
  restTodo,   \* agents its loop has not visited yet
  told,       \* history: told[a]: the scheduler a was last told to use
  owed,       \* history: agents the last change of scheduler has to reach
  stale       \* history: stale[a]: dl_mac_configs sent to a since it is local

taskVars == <<pc, index, thread, timer, expirations, returned>>
ribVars == <<available, inserting>>
flexVars == <<codePushed, flexPc, flexTodo>>
restVars == <<central, restPc, restTodo>>
history == <<told, owed, stale>>
vars == <<taskVars, ribVars, flexVars, restVars, history>>

TM == INSTANCE TaskManager

Init ==
  /\ TM!Init
  /\ available = {} /\ inserting = NoAgent
  /\ central = FALSE /\ codePushed = FALSE
  /\ flexPc = "start" /\ flexTodo = {}
  /\ restPc = "idle" /\ restTodo = {}
  /\ told = [a \in Agent |-> "none"]
  /\ owed = {} /\ stale = [a \in Agent |-> 0]

\* The scheduler that goes with a value of the flag.
Mode(isCentral) == IF isCentral THEN "remote" ELSE "local"

\* The next agent of a loop over a std::set<int>.
IsFirst(a, todo) == a \in todo /\ \A b \in todo : a <= b

-------------------------------------------------------------------------------
(* The RIB updater's thread.                                               *)

\* eNB_configs_.insert takes its time; nothing keeps other threads out.
InsertBegins(a) ==
  /\ thread[0] = "running" /\ inserting = NoAgent /\ a \notin available
  /\ inserting' = a
  /\ UNCHANGED <<taskVars, available, flexVars, restVars, history>>

InsertEnds ==
  /\ thread[0] = "running" /\ inserting # NoAgent
  /\ available' = available \cup {inserting} /\ inserting' = NoAgent
  /\ UNCHANGED <<taskVars, flexVars, restVars, history>>

RibUpdaterEnds ==
  /\ inserting = NoAgent
  /\ TM!Finish(0)
  /\ UNCHANGED <<ribVars, flexVars, restVars, history>>

OtherAppEnds(x) ==
  /\ x # Flex
  /\ TM!Finish(x)
  /\ UNCHANGED <<ribVars, flexVars, restVars, history>>

\* The copies get_available_agents may return. Copying a map while another
\* thread inserts into it is a data race: the copy may miss any element.
Copies ==
  IF inserting = NoAgent THEN {available} ELSE SUBSET (available \cup {inserting})

-------------------------------------------------------------------------------
(* flexible_scheduler::run_periodic_task                                   *)

\* The first loop: nothing to push without agents, or when it was done before.
FlexBegins ==
  /\ thread[Flex] = "running" /\ flexPc = "start"
  /\ flexTodo' \in Copies
  /\ flexPc' = IF codePushed \/ flexTodo' = {} THEN "load" ELSE "push"
  /\ UNCHANGED <<taskVars, ribVars, codePushed, restVars, history>>

\* push_code, twice, to the first agent; the flag is set whether or not the
\* libraries could be read, and no other agent gets them.
PushCode ==
  /\ flexPc = "push"
  /\ codePushed' = TRUE /\ flexPc' = "load"
  /\ UNCHANGED <<taskVars, ribVars, flexTodo, restVars, history>>

\* Mutant of FlexReturns: the thread was detached, nobody joins it.
FlexReturnsMutDetached ==
  /\ flexPc' = "start" /\ flexTodo' = {}
  /\ thread' = [thread EXCEPT ![Flex] = "none"]
  /\ UNCHANGED <<pc, index, timer, expirations, returned>>

FlexReturns == flexPc' = "start" /\ flexTodo' = {} /\ TM!Finish(Flex)

\* Mutant of LoadFlag: the flag is not looked at.
LoadFlagMutIgnored ==
  /\ flexPc = "load"
  /\ flexPc' = "schedule" /\ flexTodo' \in Copies
  /\ UNCHANGED <<taskVars, ribVars, codePushed, restVars, history>>

\* central_scheduling.load(): begin run_central_scheduler, or return.
LoadFlag ==
  /\ flexPc = "load"
  /\ \/ /\ central
        /\ flexPc' = "schedule" /\ flexTodo' \in Copies
        /\ UNCHANGED taskVars
     \/ ~central /\ FlexReturns
  /\ UNCHANGED <<ribVars, codePushed, restVars, history>>

\* One agent of run_central_scheduler's loop; dl_mac_config is sent unless there
\* is nothing to schedule (or the subframe was scheduled before).
ScheduleAgent(a, sends) ==
  /\ flexPc = "schedule" /\ IsFirst(a, flexTodo)
  /\ flexTodo' = flexTodo \ {a}
  /\ stale' = [stale EXCEPT ![a] = IF sends /\ ~central THEN @ + 1 ELSE @]
  /\ UNCHANGED <<taskVars, ribVars, codePushed, flexPc, restVars, told, owed>>

\* Mutant of CentralEnds: the scheduler starts over instead of returning.
CentralEndsMutLoops ==
  /\ flexPc = "schedule" /\ flexTodo = {}
  /\ flexTodo' \in Copies
  /\ UNCHANGED <<taskVars, ribVars, codePushed, flexPc, restVars, history>>

CentralEnds ==
  /\ flexPc = "schedule" /\ flexTodo = {}
  /\ FlexReturns
  /\ UNCHANGED <<ribVars, codePushed, restVars, history>>

-------------------------------------------------------------------------------
(* The REST thread (north_api.init(1): there is one).                      *)

\* POST /dl_sched/0 and /dl_sched/1: enable_central_scheduling stores the flag.
ChangeScheduler(isCentral) ==
  /\ restPc = "idle"
  /\ central' = isCentral
  /\ restPc' = "change"
  /\ owed' = available
  /\ stale' = IF isCentral THEN [a \in Agent |-> 0] ELSE stale
  /\ UNCHANGED <<taskVars, ribVars, flexVars, restTodo, told>>

\* The agents that will be told. Those a race hides will not be.
ChangeSnapshot ==
  /\ restPc = "change"
  /\ restTodo' \in Copies
  /\ owed' = IF inserting = NoAgent THEN owed ELSE owed \cap restTodo'
  /\ restPc' = "tell"
  /\ UNCHANGED <<taskVars, ribVars, flexVars, central, told, stale>>

\* Mutant of Tell: the flag's new value has no policy of its own.
TellMutRemoteOnly(a, readable) ==
  /\ restPc = "tell" /\ IsFirst(a, restTodo)
  /\ restTodo' = restTodo \ {a}
  /\ IF readable
     THEN told' = [told EXCEPT ![a] = "remote"] /\ UNCHANGED owed
     ELSE owed' = owed \ {a} /\ UNCHANGED told
  /\ UNCHANGED <<taskVars, ribVars, flexVars, central, restPc, stale>>

\* reconfigure_agent_file: remote_policy.yaml or local_policy.yaml, unless the
\* file cannot be read.
Tell(a, readable) ==
  /\ restPc = "tell" /\ IsFirst(a, restTodo)
  /\ restTodo' = restTodo \ {a}
  /\ IF readable
     THEN told' = [told EXCEPT ![a] = Mode(central)] /\ UNCHANGED owed
     ELSE owed' = owed \ {a} /\ UNCHANGED told
  /\ UNCHANGED <<taskVars, ribVars, flexVars, central, restPc, stale>>

\* POST /rrm/:policyname and /rrm_config: refused while the flag says central.
ApplyPolicy ==
  /\ restPc = "idle" /\ ~central
  /\ restPc' = "policy"
  /\ UNCHANGED <<taskVars, ribVars, flexVars, central, restTodo, history>>

ApplySnapshot ==
  /\ restPc = "policy"
  /\ restTodo' \in Copies
  /\ restPc' = "apply"
  /\ UNCHANGED <<taskVars, ribVars, flexVars, central, history>>

\* reconfigure_agent_string: the policy goes to one agent.
Apply(a) ==
  /\ restPc = "apply" /\ IsFirst(a, restTodo)
  /\ restTodo' = restTodo \ {a}
  /\ UNCHANGED <<taskVars, ribVars, flexVars, central, restPc, history>>

\* The loop is over and the response is sent.
Respond ==
  /\ restPc \in {"tell", "apply"} /\ restTodo = {}
  /\ restPc' = "idle"
  /\ UNCHANGED <<taskVars, ribVars, flexVars, central, restTodo, history>>

-------------------------------------------------------------------------------
Manager ==
  /\ TM!Manage \/ TM!Expire
  /\ UNCHANGED <<ribVars, flexVars, restVars, history>>

RibUpdater == InsertEnds \/ RibUpdaterEnds \/ \E a \in Agent : InsertBegins(a)

FlexRuns ==
  \/ FlexBegins
  \/ PushCode
  \/ LoadFlag
  \/ \E a \in Agent, sends \in BOOLEAN : ScheduleAgent(a, sends)
  \/ CentralEnds

RestReturns ==
  \/ ChangeSnapshot
  \/ \E a \in Agent, readable \in BOOLEAN : Tell(a, readable)
  \/ ApplySnapshot
  \/ \E a \in Agent : Apply(a)
  \/ Respond

Next ==
  \/ Manager
  \/ RibUpdater
  \/ \E x \in 1 .. NumApps : OtherAppEnds(x)
  \/ FlexRuns
  \/ \E isCentral \in BOOLEAN : ChangeScheduler(isCentral)
  \/ ApplyPolicy
  \/ RestReturns

\* No thread is starved and time passes. Calls may never come; those that do
\* are carried through.
Fairness ==
  /\ WF_vars(TM!Manage /\ UNCHANGED <<ribVars, flexVars, restVars, history>>)
  /\ WF_vars(TM!Expire /\ UNCHANGED <<ribVars, flexVars, restVars, history>>)
  /\ WF_vars(RibUpdater)
  /\ \A x \in 1 .. NumApps : WF_vars(OtherAppEnds(x))
  /\ WF_vars(FlexRuns)
  /\ WF_vars(RestReturns)

Spec == Init /\ [][Next]_vars
FairSpec == Spec /\ Fairness

-------------------------------------------------------------------------------
TypeOK ==
  /\ available \in SUBSET Agent /\ inserting \in Agent \cup {NoAgent}
  /\ central \in BOOLEAN /\ codePushed \in BOOLEAN
  /\ flexPc \in {"start", "push", "load", "schedule"} /\ flexTodo \in SUBSET Agent
  /\ restPc \in {"idle", "change", "tell", "policy", "apply"}
  /\ restTodo \in SUBSET Agent
  /\ told \in [Agent -> {"none", "remote", "local"}]
  /\ owed \in SUBSET Agent /\ stale \in [Agent -> Nat]

\* The applications copy and follow the maps of the RIB without a lock: while
\* one of them runs no insertion is under way.
AppsReadQuietRib ==
  inserting # NoAgent => \A x \in 1 .. NumApps : thread[x] # "running"

\* After a change to local scheduling an agent may still get the dl_mac_config
\* of a run_central_scheduler that began before it, and no more than that one.
AtMostOneStaleConfig == \A a \in Agent : stale[a] <= 1

\* A change of scheduler is not atomic: the flag first, then one agent after the
\* other. When the call has returned, every agent it had to reach was last told
\* what the flag says.
AgentsFollowFlag == restPc = "idle" => \A a \in owed : told[a] = Mode(central)

\* An agent-side policy is pushed only while the flag says local, although the
\* flag is read once, before the loop over the agents.
PolicyOnlyWhenLocal == restPc \in {"policy", "apply"} => ~central

\* The composed threads do what TaskManager allows.
ImplementsTaskManager == TM!Spec

\* A change of the flag takes effect: local for ever stops run_central_scheduler,
\* central for ever keeps it running.
SwitchTakesEffect ==
  /\ <>[]~central => <>[](flexPc # "schedule")
  /\ <>[]central => []<>(flexPc = "schedule")
===============================================================================
