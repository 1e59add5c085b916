------------------------------ MODULE RibUpdater ------------------------------
(***************************************************************************)
(* The RIB and the two periodic tasks that drive the conversation with an *)
(* agent: rib_updater::update_rib, which takes messages from in_queue_ and *)
(* applies them to the Rib, and stats_manager, which asks every newly      *)
(* configured agent for reports. task_manager runs the first, then the     *)
(* second, once per millisecond.                                           *)
(*                                                                         *)
(* The network is what module Network shows it to be while sessions live:  *)
(* in_queue_ is one FIFO for all agents, and what is sent to one agent     *)
(* arrives in order. The agents are the other end of the protocol.         *)
(***************************************************************************)
EXTENDS EnbRibInfo, FiniteSets

CONSTANTS Agent,       \* session ids of the agents
          Budget,      \* messages_to_check_ (350 in the code)
          Overload,    \* may more messages arrive in a period than Budget?
          MaxQueue,    \* bound: length of in_queue_ under overload
          MaxChanges,  \* bound: UE state changes per agent
          MaxReports   \* bound: echoes, greetings, triggers and statistics per agent

ASSUME RibAssumption ==
  /\ Budget \in Nat \ {0} /\ MaxQueue \in Nat
  /\ MaxChanges \in Nat /\ MaxReports \in Nat
  /\ Overload \in BOOLEAN

\* Messages of an agent. "notice" is the empty frame of a new connection;
\* "hello" is the successful outcome of ours and "greeting" any other hello.
Kinds == {"notice", "hello", "greeting", "echo", "enbReply", "ueReply", "lcReply",
          "activated", "deactivated", "updated", "trigger", "stats"}
Item == [tag : Agent, kind : Kinds, ues : Seq(UeEntry)]
Requests == {"hello", "enbRequest", "ueRequest", "lcRequest", "echoReply",
             "statsRequest"}

VARIABLES
  inQueue,     \* in_queue_
  down,        \* down[a]: messages on their way to agent a
  phase,       \* which task of the cycle runs: "rib" or "apps"
  remMsgs,     \* rem_msgs, the local counter of update_rib
  pending,     \* pending_agents_
  eNBConfigs,  \* eNB_configs_: a function on the configured agents
  agentList,   \* stats_manager's agent_list_
  connected,   \* agent: has a session
  agentUEs,    \* agent: agentUEs[a]: the UEs a serves
  told,        \* agent: a has answered a UE configuration request
  reporting,   \* agent: a was asked for statistics
  changes,     \* bound: changes[a]: UE state changes so far
  reports      \* bound: reports[a]: reports so far

ribVars == <<pending, eNBConfigs>>
taskVars == <<phase, remMsgs, agentList>>
agentVars == <<connected, agentUEs, told, reporting, changes, reports>>
vars == <<inQueue, down, taskVars, ribVars, agentVars>>

configured == DOMAIN eNBConfigs
Msg(a, kind, ues) == [tag |-> a, kind |-> kind, ues |-> ues]

Init ==
  /\ inQueue = <<>> /\ down = [a \in Agent |-> <<>>]
  /\ phase = "rib" /\ remMsgs = Budget
  /\ pending = {} /\ eNBConfigs = [a \in {} |-> NewInfo]
  /\ agentList = {}
  /\ connected = {} /\ told = {} /\ reporting = {}
  /\ \E e \in UeEntry : agentUEs \in [Agent -> {<<>>, <<e>>}]
  /\ changes = [a \in Agent |-> 0] /\ reports = [a \in Agent |-> 0]

-------------------------------------------------------------------------------
(* rib_updater                                                             *)

\* net_xface_.send_msg, several messages in a row.
Send(a, requests) == down' = [down EXCEPT ![a] = @ \o requests]

\* A message for the entry of a configured agent; of any other it is dropped.
UpdateEntry(a, info) ==
  IF a \in configured THEN eNBConfigs' = [eNBConfigs EXCEPT ![a] = info]
  ELSE UNCHANGED eNBConfigs

\* An empty frame: a new connection is pending, and is greeted.
HandleNewConnection(a) ==
  /\ pending' = pending \cup {a}
  /\ Send(a, <<"hello">>)
  /\ UNCHANGED eNBConfigs

\* hello: the agent is alive, ask for its configuration.
HandleHello(a) ==
  /\ Send(a, <<"enbRequest", "ueRequest", "lcRequest">>)
  /\ UNCHANGED ribVars

\* A hello that answers none of ours is ignored; so is a trigger or a report for
\* what this module keeps (it names UEs, see ReportsOfKnownUEs).
HandleNothing == UNCHANGED <<ribVars, down>>

HandleEcho(a) == Send(a, <<"echoReply">>) /\ UNCHANGED ribVars

\* Mutant of HandleEnbReply: the agent stays pending.
HandleEnbReplyMutStaysPending(a) ==
  /\ IF a \in pending
     THEN /\ eNBConfigs' = [b \in configured \cup {a} |->
                              IF b \in configured THEN eNBConfigs[b] ELSE NewInfo]
     ELSE UNCHANGED eNBConfigs
  /\ UNCHANGED <<down, pending>>

\* enb_config_reply: only a pending agent gets an entry (map::insert keeps an
\* entry that is there).
HandleEnbReply(a) ==
  /\ IF a \in pending
     THEN /\ pending' = pending \ {a}
          /\ eNBConfigs' = [b \in configured \cup {a} |->
                              IF b \in configured THEN eNBConfigs[b] ELSE NewInfo]
     ELSE UNCHANGED ribVars
  /\ UNCHANGED down

HandleUeReply(a, ues) ==
  /\ UpdateEntry(a, UpdateUEConfig(eNBConfigs[a], ues))
  /\ UNCHANGED <<pending, down>>

HandleLcReply(a, ues) ==
  /\ UpdateEntry(a, UpdateLCConfig(eNBConfigs[a], [i \in DOMAIN ues |-> ues[i].rnti]))
  /\ UNCHANGED <<pending, down>>

\* Mutant of ChangedInfo: a state change of a UE that is known is dropped.
ChangedInfoMutIgnoresUpdate(info, kind, e) ==
  CASE kind = "activated" -> Activate(info, e)
    [] kind = "deactivated" -> Deactivate(info, e.rnti)
    [] OTHER -> info

ChangedInfo(info, kind, e) ==
  CASE kind = "activated" -> Activate(info, e)
    [] kind = "deactivated" -> Deactivate(info, e.rnti)
    [] OTHER -> UpdateUE(info, e)

\* ue_state_change of a configured agent: apply it and ask for the logical
\* channels again.
HandleStateChange(a, kind, e) ==
  /\ UpdateEntry(a, ChangedInfo(eNBConfigs[a], kind, e))
  /\ IF a \in configured THEN Send(a, <<"lcRequest">>) ELSE UNCHANGED down
  /\ UNCHANGED pending

Handle(m) ==
  CASE m.kind = "notice" -> HandleNewConnection(m.tag)
    [] m.kind = "hello" -> HandleHello(m.tag)
    [] m.kind = "echo" -> HandleEcho(m.tag)
    [] m.kind = "enbReply" -> HandleEnbReply(m.tag)
    [] m.kind = "ueReply" -> HandleUeReply(m.tag, m.ues)
    [] m.kind = "lcReply" -> HandleLcReply(m.tag, m.ues)
    [] m.kind \in {"activated", "deactivated", "updated"} ->
         HandleStateChange(m.tag, m.kind, m.ues[1])
    [] OTHER -> HandleNothing

\* One turn of the loop of update_rib: a message, with budget left.
CheckMessage ==
  /\ phase = "rib" /\ remMsgs > 0 /\ inQueue # <<>>
  /\ Handle(Head(inQueue))
  /\ inQueue' = Tail(inQueue)
  /\ remMsgs' = remMsgs - 1
  /\ UNCHANGED <<phase, agentList, agentVars>>

\* The loop ends for lack of budget: its condition has already taken the next
\* message from the queue, and nobody handles it.
DropMessage ==
  /\ phase = "rib" /\ remMsgs = 0 /\ inQueue # <<>>
  /\ inQueue' = Tail(inQueue)
  /\ phase' = "apps"
  /\ UNCHANGED <<down, remMsgs, ribVars, agentList, agentVars>>

\* The loop ends for lack of messages.
QueueEmpty ==
  /\ phase = "rib" /\ inQueue = <<>>
  /\ phase' = "apps"
  /\ UNCHANGED <<inQueue, down, remMsgs, ribVars, agentList, agentVars>>

\* Mutant of RunApps: an agent is listed while it is still pending, so the
\* request it should get once it is configured is never sent.
RunAppsMutListsPending ==
  /\ phase = "apps"
  /\ agentList' = agentList \cup configured \cup pending
  /\ down' = [a \in Agent |-> IF a \in configured \ agentList
                              THEN Append(down[a], "statsRequest") ELSE down[a]]
  /\ phase' = "rib" /\ remMsgs' = Budget
  /\ UNCHANGED <<inQueue, ribVars, agentVars>>

\* stats_manager::run_periodic_task, then the next cycle: one request to every
\* agent of the RIB that is not in agent_list_ yet.
RunApps ==
  /\ phase = "apps"
  /\ agentList' = agentList \cup configured
  /\ down' = [a \in Agent |-> IF a \in configured \ agentList
                              THEN Append(down[a], "statsRequest") ELSE down[a]]
  /\ phase' = "rib" /\ remMsgs' = Budget
  /\ UNCHANGED <<inQueue, ribVars, agentVars>>

-------------------------------------------------------------------------------
(* The agents.                                                             *)

\* Room for one more message in in_queue_. Without overload no period ever sees
\* more messages than update_rib has budget for.
Room ==
  IF Overload THEN Len(inQueue) < MaxQueue
  ELSE Len(inQueue) < IF phase = "rib" THEN remMsgs ELSE Budget

AgentSends(a, kind, ues) == Room /\ inQueue' = Append(inQueue, Msg(a, kind, ues))

\* A session is accepted: initialize_connection announces it.
Connect(a) ==
  /\ a \notin connected
  /\ connected' = connected \cup {a}
  /\ AgentSends(a, "notice", <<>>)
  /\ UNCHANGED <<down, taskVars, ribVars, agentUEs, told, reporting, changes, reports>>

\* The agent takes the next request and answers it from its present state.
AnswerWith(a, kind, ues) ==
  /\ AgentSends(a, kind, ues)
  /\ told' = IF kind = "ueReply" THEN told \cup {a} ELSE told
  /\ UNCHANGED reporting

NoAnswer(a, request) ==
  /\ reporting' = IF request = "statsRequest" THEN reporting \cup {a} ELSE reporting
  /\ UNCHANGED <<inQueue, told>>

Answer(a) ==
  /\ down[a] # <<>>
  /\ LET request == Head(down[a])
     IN CASE request = "hello" -> AnswerWith(a, "hello", <<>>)
          [] request = "enbRequest" -> AnswerWith(a, "enbReply", <<>>)
          [] request = "ueRequest" -> AnswerWith(a, "ueReply", agentUEs[a])
          [] request = "lcRequest" -> AnswerWith(a, "lcReply", agentUEs[a])
          [] OTHER -> NoAnswer(a, request)
  /\ down' = [down EXCEPT ![a] = Tail(@)]
  /\ UNCHANGED <<taskVars, ribVars, connected, agentUEs, changes, reports>>

\* A UE attaches, leaves or is reconfigured, and a connected agent says so.
Change(a, kind, e, ues) ==
  /\ a \in connected /\ changes[a] < MaxChanges
  /\ agentUEs' = [agentUEs EXCEPT ![a] = ues]
  /\ AgentSends(a, kind, <<e>>)
  /\ changes' = [changes EXCEPT ![a] = @ + 1]
  /\ UNCHANGED <<down, taskVars, ribVars, connected, told, reporting, reports>>

UeAttaches(a, e) ==
  /\ e.rnti \notin Rntis(agentUEs[a])
  /\ Change(a, "activated", e, Append(agentUEs[a], e))

UeLeaves(a, i) ==
  Change(a, "deactivated", agentUEs[a][i], RemoveAt(agentUEs[a], i))

UeReconfigured(a, i, c) ==
  LET e == [agentUEs[a][i] EXCEPT !.conf = c]
  IN /\ e # agentUEs[a][i]
     /\ Change(a, "updated", e, [agentUEs[a] EXCEPT ![i] = e])

\* What an agent says of its own accord. Once it has told the controller of its
\* UEs it names them in subframe triggers, and in statistics once asked to.
Report(a, kind, ues) ==
  /\ a \in connected /\ reports[a] < MaxReports
  /\ AgentSends(a, kind, ues)
  /\ reports' = [reports EXCEPT ![a] = @ + 1]
  /\ UNCHANGED <<down, taskVars, ribVars, connected, agentUEs, told, reporting, changes>>

Reports(a) ==
  \/ \E kind \in {"echo", "greeting"} : Report(a, kind, <<>>)
  \/ a \in told /\ Report(a, "trigger", agentUEs[a])
  \/ a \in reporting /\ Report(a, "stats", agentUEs[a])

-------------------------------------------------------------------------------
Cycle == CheckMessage \/ DropMessage \/ QueueEmpty \/ RunApps

UeChanges(a) ==
  \/ \E e \in UeEntry : UeAttaches(a, e)
  \/ \E i \in DOMAIN agentUEs[a] : UeLeaves(a, i)
  \/ \E i \in DOMAIN agentUEs[a], c \in Conf : UeReconfigured(a, i, c)

Next ==
  \/ CheckMessage
  \/ DropMessage
  \/ QueueEmpty
  \/ RunApps
  \/ \E a \in Agent : Connect(a)
  \/ \E a \in Agent : Answer(a)
  \/ \E a \in Agent : UeChanges(a)
  \/ \E a \in Agent : Reports(a)

\* task_manager runs for ever; an agent answers what it is asked.
Fairness ==
  /\ WF_vars(Cycle)
  /\ \A a \in Agent : WF_vars(Answer(a))

Spec == Init /\ [][Next]_vars
FairSpec == Spec /\ Fairness

-------------------------------------------------------------------------------
TypeOK ==
  /\ inQueue \in Seq(Item) /\ down \in [Agent -> Seq(Requests)]
  /\ phase \in {"rib", "apps"} /\ remMsgs \in 0 .. Budget
  /\ pending \in SUBSET Agent
  /\ configured \in SUBSET Agent /\ eNBConfigs \in [configured -> Info]
  /\ agentList \in SUBSET Agent
  /\ connected \in SUBSET Agent /\ told \in SUBSET Agent /\ reporting \in SUBSET Agent
  /\ agentUEs \in [Agent -> Seq(UeEntry)]
  /\ changes \in [Agent -> Nat] /\ reports \in [Agent -> Nat]

\* No agent is pending and configured at once, so a second eNB configuration
\* reply of an agent never restarts it (HandleEnbReply, HandleNewConnection);
\* only connected agents are either; statistics are asked only of configured ones.
Stages ==
  /\ pending \cap configured = {}
  /\ pending \cup configured \subseteq connected
  /\ agentList \subseteq configured

\* The schedulers look up the MAC entry of every UE of ue_config_ and use it
\* without a test (sort_UEs): each UE of the configuration has one, no other
\* rnti has, no UE is listed twice, and logical channels are those of listed UEs.
MacInfoMatchesConfig ==
  \A a \in configured :
    LET info == eNBConfigs[a]
    IN /\ info.mac = Rntis(info.ue)
       /\ Len(info.ue) = Cardinality(Rntis(info.ue))
       /\ \A i \in DOMAIN info.lc : info.lc[i] \in info.mac

\* What the RIB holds of an agent.
Standing(a) ==
  [pending |-> a \in pending, known |-> a \in configured,
   info |-> IF a \in configured THEN eNBConfigs[a] ELSE NewInfo]

\* And after a message of the agent.
After(s, m) ==
  CASE m.kind = "notice" -> [pending |-> TRUE, known |-> s.known, info |-> s.info]
    [] m.kind = "enbReply" /\ s.pending -> [pending |-> FALSE, known |-> TRUE, info |-> s.info]
    [] m.kind = "ueReply" /\ s.known -> [s EXCEPT !.info = UpdateUEConfig(@, m.ues)]
    [] m.kind = "lcReply" /\ s.known ->
         [s EXCEPT !.info = UpdateLCConfig(@, [i \in DOMAIN m.ues |-> m.ues[i].rnti])]
    [] m.kind \in {"activated", "deactivated", "updated"} /\ s.known ->
         [s EXCEPT !.info = ChangedInfo(@, m.kind, m.ues[1])]
    [] OTHER -> s

\* What the messages under way will make of what the RIB holds of agent a.
Foreseen(a) ==
  LET upTo[j \in 0 .. Len(inQueue)] ==
        IF j = 0 THEN Standing(a)
        ELSE IF inQueue[j].tag = a THEN After(upTo[j - 1], inQueue[j]) ELSE upTo[j - 1]
  IN  upTo[Len(inQueue)]

\* Once an agent has answered the UE configuration request, the messages under way
\* leave it configured, with the UEs that it serves: the RIB is behind, never wrong.
RibFollowsAgent ==
  \A a \in told : Foreseen(a).known /\ Foreseen(a).info.ue = agentUEs[a]

\* A subframe trigger or a statistics report that update_rib is about to apply
\* names only UEs the RIB has a MAC entry for. The comments in update_subframe
\* and update_mac_stats say of the other case: "This shouldn't happen".
ReportsOfKnownUEs ==
  phase = "rib" /\ remMsgs > 0 /\ inQueue # <<>> =>
    LET m == Head(inQueue)
    IN m.kind \in {"trigger", "stats"} /\ m.tag \in configured =>
         Rntis(m.ues) \subseteq eNBConfigs[m.tag].mac

\* The RIB never forgets an agent, and an entry is changed only by taking a
\* message of that agent from in_queue_.
EntriesOnlyByMessage ==
  [][\A a \in Agent :
       /\ a \in configured => a \in configured'
       /\ a \in configured /\ eNBConfigs'[a] # eNBConfigs[a] =>
            inQueue # <<>> /\ Head(inQueue).tag = a /\ inQueue' = Tail(inQueue)]_vars

\* A connected agent ends up configured, and is asked for statistics, once.
EventuallyReporting ==
  \A a \in Agent : a \in connected ~> a \in configured /\ a \in reporting
===============================================================================
