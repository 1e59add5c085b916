# FlexRAN real-time controller: specifications, model checking and proofs

The FlexRAN controller (`src/src`) manages LTE base stations. Every base station
runs an *agent* that connects to the controller over TCP. The controller keeps a
*RAN information base* (RIB) of the agents, updates it from their messages once
per millisecond, and runs *applications* on it: a statistics manager and a
scheduler that may take over the downlink scheduling of every agent, subframe by
subframe. A REST interface switches between central and agent-side scheduling.

This directory holds TLA+ models of the controller, the TLC runs that check them
and the TLAPS proofs of what matters most. Paths below are relative to `src/src`.

## 1. The system

### Threads

| thread | runs | started by |
|---|---|---|
| network | the `io_service`: accepting, reading, writing | `core/rt_controller.cc:177` |
| task manager | `manage_rt_tasks`, the cycle of 1 ms | `core/rt_controller.cc:180` |
| RIB updater | `rib_updater::execute_task`, a new thread per cycle | `core/task_manager.cc:56` |
| one per application | `stats_manager`, `flexible_scheduler`, a new thread per cycle | `core/task_manager.cc:64` |
| REST | the calls of the northbound API; `init(1)` makes it one | `core/rt_controller.cc:200` |

They share two bounded lock-free queues (network thread with all others), the RIB
(no lock), the atomic flag `central_scheduling` and nothing else.

### Components

| component | state | operations | what makes it correct |
|---|---|---|---|
| network (`network/async_xface`, `connection_manager`, `agent_session`) | `in_queue_`, `out_queue_`, handlers posted to the `io_service`, `sessions_`, `next_id_`, per session a socket, `write_queue_`, an outstanding read | accept, read header, read body, `send_msg` (push, then post), `forward_msg_to_agent`, `deliver`, `do_write` and its handler, `close_connection` | one handler per queued message; one write at a time; nothing accepted is lost, duplicated or reordered while the session lives; a new session's notice precedes its messages; and what was lost is the end of a connection |
| frames (`network/protocol_message`, `tagged_message`) | header and body of a frame | encode and decode the header, copy | the length announced is the length sent, also of a message that is cut |
| RIB (`rib/rib`, `rib/enb_rib_info`) | `pending_agents_`, `eNB_configs_`, per agent UE and logical channel configuration and one MAC entry per UE | the updates named after the messages | MAC entries are those of the configured UEs; an agent is pending or configured, never both |
| RIB updater (`rib/rib_updater`) | `rem_msgs` | one handler per message, a budget of 350 messages per period | the handshake (hello, configuration requests) completes; the RIB follows the agent |
| MAC state (`rib/ue_mac_rib_info`, `cell_mac_rib_info`, `rib_common`) | HARQ feedback and availability per process, reports | update from triggers and reports; `harq_scheduled` | a process is reused only after feedback |
| task manager (`core/task_manager`) | threads of the cycle, timer | spawn, join, wait | the updater never runs beside an application; no burst after an overrun |
| requests manager (`core/requests_manager`) | none | `send_message` | (ignores the result of `send_msg`) |
| statistics manager (`app/stats_manager`) | `agent_list_` | ask every new agent for statistics, once | every configured agent is asked |
| flexible scheduler, control (`app/flexible_scheduler.cc:41-241`) | `central_scheduling`, `code_pushed_` | periodic task, change of scheduler, agent-side policies | agents do what the flag says; a change takes effect |
| flexible scheduler, decisions (`app/flexible_scheduler.cc:243-731`, `remote_scheduler_helper`, `remote_scheduler_primitives`, `enb_scheduling_info`, `ue_scheduling_info`) | resource block groups, control channel elements, HARQ context per UE | preprocessor, control channel check, retransmission, packing of a new transport block | resource blocks of UEs are disjoint; a retransmission repeats its transmission; a transport block holds what was requested for it |
| northbound API (`north_api`) | none | two changes of scheduler, two ways to apply a policy, statistics as text | refuses policies while scheduling is central |
| delegation manager (`app/delegation_manager`) | `delegation_steps_` | in the subframe of each step of a timetable: push code to, or reconfigure, one agent | steps in their order, each once |
| eICIC scheduler (`app/remote_scheduler_eicic`) | the subframe checked last, per agent | grant almost blank subframes to the macro cell or to the pico cells | never to both |
| delegating scheduler (`app/remote_scheduler_delegation`) | `delegation_enabled_`, the subframe checked last | schedule until a UE reports its channel, then delegate | an agent that was sent the scheduler is left alone |
| first scheduler (`app/remote_scheduler`) | as the flexible scheduler | | (an older copy of it) |

### How they interact

An agent connects; the network layer pushes an empty frame for the new session
into `in_queue_`. The RIB updater takes it, remembers the agent as pending and
greets it. The agent answers; the updater asks for the configuration of the base
station, its UEs and its logical channels; the first reply moves the agent from
pending to configured. From then on the applications see it: the statistics
manager asks for periodic reports, and the scheduler, while it is central, sends
one `dl_mac_config` per subframe. The REST thread stores the flag and sends every
agent the policy file that selects its remote or local scheduler.

Hard about this are: two steps of `send_msg` (push, post) that interleave with
other threads and with the network thread; handlers that outlive their session;
a handshake of single messages that has no retries while other messages arrive
in between; a budget that ends with a message already taken; a RIB without locks
that the REST thread reads at any time; a flag that changes while the scheduler
runs; blocks that are sized with unsigned arithmetic in variables that outlive the
turn of a UE; clocks of agents that skip subframes and start again. The last four
components are not registered by `main` (`core/rt_controller.cc:157-174`), but stand
there to be registered. `PROJECT.json` lists these hazards with the line where each bites.

## 2. The modules

| module | models |
|---|---|
| `AgentChannel` | what the network layer promises about one session: accepted messages arrive in order, and all of them if the session stays alive |
| `Network` | `async_xface`, `connection_manager`, `agent_session`, `requests_manager` |
| `NetworkProofs` | theorems about `Network` and `ProtocolMessage` |
| `EnbRibInfo` | `enb_rib_info`: operators on the entry of one agent |
| `RibUpdater` | `rib_updater`, `Rib`, `stats_manager`, with agents at the other end |
| `RibUpdaterProofs` | theorems about `RibUpdater` |
| `TaskManager` | `task_manager`: the cycle |
| `TaskManagerProofs` | theorems about `TaskManager` |
| `SchedulerControl` | `TaskManager` composed with the control part of `flexible_scheduler` and the REST thread |
| `SchedulerControlProofs` | theorems about `SchedulerControl`: that it implements `TaskManager`, and its own invariant |
| `ResourceBlocks` | `run_dlsch_scheduler_preprocessor` and its helpers, and the assignments that `run_central_scheduler` makes of its result, for the UEs of one cell |
| `ResourceBlocksProofs` | theorems about `ResourceBlocks` |
| `Harq` | the HARQ processes of one UE between scheduler, RIB, agent and UE, with changes of the scheduler |
| `HarqProofs` | theorems about `Harq` |
| `Packing` | how a new transport block is filled from the logical channels, and the search for its RBs and MCS: operators |
| `Pdcch` | the control channel of a cell: its elements and the check of an assignment: operators |
| `CentralScheduler` | `run_central_scheduler` in one cell, UE after UE, over `Packing` and `Pdcch` |
| `CentralSchedulerProofs` | theorems about `CentralScheduler` |
| `FrameTime` | frames and subframes: packing, and the subframe that is planned for: operators |
| `ProtocolMessage` | the header of a frame: operators |
| `AgentClock` | the clocks of the agents in the RIB, and the rounds of an application over them |
| `FlexibleRounds`, `DelegationManager`, `Eicic`, `RemoteDelegation` | one application each over `AgentClock` |
| `Applications` | their composition with the clocks: one of them is registered |
| `ApplicationsProofs` | theorems about `Applications` and `FrameTime` |
| `MC...` | the modules TLC runs |

**Network.** An action is a completion handler (they all run on the network
thread) or half of `send_msg`, which other threads run. The two lock-free queues
are sequences that are changed atomically (linearisable push and pop). A frame's
bytes are abstract: a message is a model value, and a header may be one that
`decode_header` refuses. A read handler that outlives its session is an action of
its own (`DanglingRead`); what it does to freed memory is a choice. `crashed`
records the dereference of a null or freed session. What `send_msg` accepted
(`pushed`) and the sockets got (`written`) are history variables.

**RibUpdater.** `CheckMessage` is one turn of the loop of `update_rib` with the
whole handler; `DropMessage` is the end of the loop for lack of budget, which
loses the message that the condition has already taken. Messages name UEs by
rnti, with a configuration; contents of reports are left out. The agents serve
UEs that come, go and change, answer requests from their present state, and name
UEs in triggers once they have told the controller of them. What the RIB will hold of
an agent is `Foreseen`: its present `Standing` (pending, configured and with which
entry), passed through `After` for every message of the agent that waits in
`in_queue_`. `RibFollowsAgent` compares that with the agent: the RIB may be late, and
is then not wrong. `Overload` says whether agents may send more than `update_rib` has
budget for.

**TaskManager.** Each thread is "none", "running" or "done" (returned, not yet
joined). Tasks end at any time. The timer counts expirations that nobody has
read; with an invalid descriptor there is no wait at all.

**SchedulerControl.** The RIB updater's insertion takes two steps, and a copy of
the map that the REST thread makes in between may miss any agent (a data race).
`flexible_scheduler` is followed step by step: copy of the agents, `push_code`,
load of the flag, one agent after the other. So is the REST thread: store of the
flag, copy of the agents, one policy after the other. Files that cannot be read
are a choice.

**ResourceBlocks.** One behaviour is a sequence of subframes of one cell.
`StartSubframe` chooses what the RIB says of every UE: its queues, counted in the
RBs that they need at its MCS, whether it is at MCS 0, its priority class, and what
its next HARQ process asks for. `AssignRequired` is the first half of the
preprocessor as one step (it has no choices); the two rounds go group by group
(`TakeRbg`, `PassRbg`), because their loop over `i` is where groups could be given
twice. `StartSubframe` may leave equal UEs in any order: `compare_stats` returns
true for them, so that `std::sort` promises no order. `Transmit` and `Retransmit`
are the size and the bitmap of the assignment. Of a UE's HARQ processes the model
keeps one; `Harq` has the others. That the control channel has no room for a UE is
a choice of `PassUe`. A payload is bounded by `Demands` like a queue. Cells of 15
and 75 RBs are excluded (`RbAssumption`): `get_nb_rbg` knows them, `get_min_rb_unit`
and `get_bw_index` do not.

**Harq.** The scheduler's period is two steps, `BeginRun` (which loads
`central_scheduling`) and one of `ScheduleNew`, `ScheduleRepeat` and
`SchedulePass`; `ChangeScheduler` of the REST thread may come between them, while
`HandleTrigger` and `ReportQueues` may not: the task manager never runs the RIB
updater beside an application (`RibUpdaterRunsAlone`). `down` and `up` are the
messages under way. The agent and the UE are external and are modelled from what
the controller expects of them. `locals` counts the blocks that the agent has
scheduled on its own: the controller does not hear of them, only of their
feedback, so most properties speak of the time before.

**CentralScheduler.** The variables that `run_central_scheduler` declares before its
loops (`mcs`, `aggregation`, `ce_flags`) are state: a UE without a CSI report is
scheduled with what the UE before it has left, or with an uninitialised `mcs`
(`JunkMcs`). One action is the turn of a UE: passed over, a repetition, or a new
block with everything that follows from it. What the other views decide is a choice
here: how many RBs the UE has got (`ResourceBlocks`), whether a process is available
and what it repeats (`Harq`). `Packed` is the loop over the logical channels, a function
of how many of them have been visited, with the unsigned difference that may wrap. `NbRb`, `Lowered` and `Raised` state what
their loops find: the first number of RBs, the MCS where each search ends. The
region of the control channel starts without symbols in every subframe that is
scheduled; `NQuad` is then a negative number modulo 2^16, as in the code.

**AgentClock and the applications.** A clock is the frame and subframe of the last
trigger of an agent that was handled. In a round the updater applies the triggers
that have come: each clock moves by any number of subframes up to `MaxJump`, none
included. Then the application runs, as one step, because nothing else runs
meanwhile (`RibUpdaterRunsAlone`). `inStep` and `skipped` record whether the clocks
have always shown the same moment and whether one has passed a subframe unseen: the
properties that only hold then say so. In `FlexibleRounds` what is scheduled for an
agent is a choice (`CentralScheduler` has it), and the power control of a UE is
followed. In `RemoteDelegation` each run finds reports of the channel at any of the
agents, for a UE that has reported may have gone by the next run. `last`, `checked` and `handled` are not initialised by the code: they start
anywhere. `onTime` is for `delegation_manager`, which compares subframes for equality:
a clock that has its first trigger at a step or behind it may never be seen in it.

## 3. The runs

| run | asks | bounds |
|---|---|---|
| `network` | handlers match the queue, one write in flight, nothing lost, notices first, only a lost connection ends a session; `Network` implements `AgentChannel`, delivery included | two sending threads, two sessions, two accepted messages of each, two places in each queue |
| `rib` | the RIB follows the agent, MAC entries match its configuration, and a connected agent ends up configured and reporting | one agent, UEs of two rntis and configurations, three changes, within the budget |
| `rib_overload` | the stages of an agent's life while messages are lost to the budget | two agents, a budget of 1 |
| `rib_lost_message` | violated: see the findings | one agent, overload |
| `tasks` | the cycle, with progress | three applications, up to three unread expirations |
| `scheduler_control` | changes of scheduler and policies beside the running scheduler; a change takes effect; refinement of `TaskManager` | three agents, two applications, any number of calls |
| `resource_blocks` | groups are exclusive, counts exact, rounds within share and need, no group is left free that a UE needs, bitmaps carry the blocks | 50 RBs in 17 groups, the last one short; two UEs; demands of nothing, of a little more than a group, of most of the cell |
| `block_beyond_available` | violated: see the findings | as above |
| `harq` | no process is used twice or forgotten, indicators in step, a process to be repeated has a size | two processes, blocks of two sizes, losses, two messages each way, one change of the scheduler, one block of the agent's own |
| `harq_live` | processes do not run out; a block that was not acknowledged is repeated unless a lesser process is available | as above, one size, no losses, no block of the agent's own |
| `central_scheduler` | a block holds what it was asked to carry and is no larger than needed; where it is asked for more than its room; the control channel elements add up; a timing advance command does not starve | 6 RBs of which a UE has got 1 or 4, the table of block sizes for them, CQIs of 10 and 2, two UEs with one or two channels, queues below, at and above what fits and on both sides of the short header, a timer of 1 |
| `applications` | the steps of the timetable come in order and all come; macro and pico cells are never granted one subframe; an agent is scheduled once per subframe; steps of power are spaced; a delegated agent is left alone | two agents whose clocks may be a subframe apart, two subframes in a round, two frames, a timetable of three steps |

Small bounds are enough here for these reasons. The network layer has no
interaction between sessions but the two queues and the ids, so two sessions show
all of it; two threads show every interleaving of push and post, because a third
adds no new kind of step. The handshake of an agent is independent of the others
but for the queue they share. In `SchedulerControl` the loops over agents have a
first, a middle and a last agent with three. In `ResourceBlocks` two UEs compete
for every group, and 50 RBs has both a short group and a unit (3) that does not
divide the first try of 4 RBs. Processes of a UE only meet in
`get_next_available_harq`, where two show the order. In `CentralScheduler` the
second UE is the one that inherits variables, and the second channel the one whose
room may wrap; with a timer of 1 both of its branches recur. In `Applications` the
frames wrap after 20 subframes, which is more than the 10 that the power control
counts, so that both of its cases occur, and every subframe of a frame is met with
the clocks equal, apart, and standing still; `TaPeriod` and `StepTime` have the
code's values scaled down, as have the frames. `MaxPushed`, `MaxWire`,
`MaxExpirations`, `MaxQueue`, `MaxChanges`, `MaxReports`, `Cap`, `MaxSwitches`,
`MaxLocal`, `MaxJump` and `MaxApart` are bounds of the models and not of the code (but for `Cap` in the
place of queue capacities). A system that has used up such a bound, or whose
agents are silent, stops: this is why the runs of `Network` and `Harq` do not
check for deadlock. The theorems of section 4 do not
depend on any bound.

### Fairness

`Network`: a thread inside `send_msg` leaves it, the `io_service` runs handlers
that were posted (it is a loop that only ends with the process), and an
`async_write` completes or fails. Nothing is assumed of agents, connections or of
the arrival of messages.
`RibUpdater`: the cycle goes on, and an agent answers a request it was sent. The
second is an assumption on the agents, which are not in this repository; without
it the handshake stops, because it has no retries.
`TaskManager` and `SchedulerControl`: no thread is starved, tasks end, time
passes. REST calls are not assumed to come; those that came are carried through.
`Harq`: triggers and configurations are taken (weak fairness of `HandleTrigger`,
`TakeConfig`), the scheduler's period comes round (`BeginRun`, `SchedulePass`), the
agent has subframes and answers every transmission in one of them (strong fairness
of `Subframe` and of an answer for each process; the protocol of the air interface
answers after 4 ms). Strong fairness of `ScheduleNew` and `ScheduleRepeat` says that
of the periods in which a UE could be served infinitely many have RBs for it, which
is the preprocessor's matter, and not that it has them in every one.

`Applications`: the rounds go on (weak fairness of the updater's turn and of the
application's), and every agent's triggers keep coming (strong fairness of its clock
moving: while the bound on how far clocks may be apart holds it back, the other clock
may move first). The second is an assumption on the agents, as in `RibUpdater`.

### Findings

* `rib_lost_message`: `update_rib` takes a message from the queue before it looks
  at the budget (`rib/rib_updater.cc:42`) and drops the one that exceeds it. If
  that is a UE configuration reply, later reports name UEs that the RIB does not
  know, of which `rib/enb_rib_info.cc:103` says "This shouldn't happen".
* `block_beyond_available`: the first try of the number of RBs of a transport block
  (4 at MCS 0) is not compared with the RBs that the UE has got, unlike the tries
  after it ("If we've gone beyond the maximum number of RBs",
  `app/flexible_scheduler.cc:560`). With one group of 3 RBs the block is sized for 4.

Seen while modelling, but not the subject of a run:

* A UE without an available HARQ process gets groups in the second round (its
  required number is only reset if it is counted, `app/remote_scheduler_helper.cc:141`)
  and is passed over afterwards (`app/flexible_scheduler.cc:388`), so its groups stay
  unused in that subframe. `WorkConserving` counts them as given.
* After the agent has scheduled a UE, a process that is not acknowledged may have the
  size 0. It asks for no RBs, is passed over, and as the first available process it
  keeps the ones behind it from being used.
* `get_next_available_harq` returns the available process with the least number: a
  block that waits for repetition on a greater one waits as long as lesser ones
  become available (`RepeatedUnlessOvertaken` says no more than that).
* `apply_agent_rrm_policy` refuses a policy when "The central scheduler is currently
  running" (`app/flexible_scheduler.cc:78`). It tests the flag; a scheduler that loaded
  the flag before a change to local is still running when the policy is pushed.
  `AtMostOneStaleConfig` bounds the effect: at most one `dl_mac_config` per agent.
* After the agent has scheduled a process itself, the controller answers the feedback
  of the agent's block by repeating an older block of its own, and not the one
  "previously assigned to this HARQ process" (`app/flexible_scheduler.cc:417`).
* The control region starts without symbols (`app/enb_scheduling_info.cc:64`), for which
  `get_nquad` returns a negative number as 16 unsigned bits: more than 7000 elements
  seem to be free, so the region never grows and `CCE_allocation_infeasible` never
  refuses a UE (theorem `RegionNeverGrows`).
* The room for a channel is `dci_tbs - ta_len - header_len - sdu_length_total`
  (`app/flexible_scheduler.cc:502`), unsigned: when a first channel has filled the block
  but for less than a second header, the whole queue of the second channel is requested.
  `OverrunNeedsSecond` says that more is requested than fits in no other case but a room
  that is no larger than the timing advance command and the first header.
* `sdu_length_total` has 16 bits (`app/flexible_scheduler.cc:250`) and counts the payload
  of a block, which two such wrapped requests may take beyond 65535: the block is then
  sized for the remainder. `BlockFits` leaves out only this case.
* `ce_flags` is never cleared in a run (`app/flexible_scheduler.cc:490`): after one UE has
  a timing advance command it is announced for the UEs behind it too. If the block of the
  UE gets no payload, the command is announced for the others only, and its timer starts
  again.
* The row of `TBStable` for MCS 6 has a first entry larger than its second; with one RB the
  search for the MCS may thus end at 6 where 7 would do.
* `remote_scheduler_eicic` overwrites the frame that it has advanced at the wrap of the
  subframes (`app/remote_scheduler_eicic.cc:102`). With the almost blank subframes of the
  code no grant is for subframe 0, so that it does not show. When clocks of agents differ,
  macro and pico cells may be granted the same subframe.
* Once `remote_scheduler_delegation` has delegated one agent it schedules none of the
  others any more. The flags of `delegation_manager` are for all agents, too: each step
  reaches one of them. It does not test whether a library could be read.
* `current_frame_` and `current_subframe_` are not initialised: an application may read
  them between the configuration of an agent and its first trigger. The models start
  with the first trigger.

## 4. The theorems

All theorems hold for every value of the constants that satisfies the module's
named assumption.

**`NetworkProofs`.** The invariant relates, for each session, the write queue,
the outstanding writes and the socket, and counts handlers against messages: the
number of messages in `out_queue_` is the number of posted handlers and of
threads between push and post. The count needs the cardinality of the set of
threads between the halves, hence `FiniteSetTheorems`. From it follow: types,
`HandlerPerMessage` (so no handler pops an empty queue), `OneWriteInFlight`,
`OnlyLossEndsSessions`, and `IdsNotReused`, which no run needs to repeat.
The order of the messages takes a second invariant, `Kept`: what `send_msg` accepted
for a session is what the socket got, followed by its write queue, followed by its
messages in `out_queue_`, and once the session is gone the former begins with what was
written. Popping, pushing and moving from one queue to the other are lemmas on
concatenations and on `QueuedFor`, the part of `out_queue_` for one session. From it
follow `NothingLost` and that every step is one of `AgentChannel` or none
(`ImplementsChannel`: the safety part of the refinement). `NoticeFirst` needs that ids
are handed out once (`IdsHandedOut`): a notice is pushed for an id that no message in
`in_queue_` has. `FramesInStep` is arithmetic: the four bytes of a header
announce what follows them, for a message of any length, and `decode_header` never
refuses them.

**`RibUpdaterProofs`.** The first invariant says what the messages under way tell of the
stage of their agent. It holds under any load; from it follow `Stages`,
`EntriesOnlyByMessage`, and with the types of the entries `TypeCorrect`, whose difficult
part is that a handler keeps a function on a growing domain well typed.
The second, `FollowInv`, is about the conversation with each agent, and needs
`Overload = FALSE`: with overload a lost message refutes it, as `rib_lost_message`
shows. It has three parts. `Ends`: the messages that wait lead the standing of the agent,
one after the other and through sound standings only (no UE twice, a MAC entry for
every UE and for no other rnti, logical channels of listed UEs), to one that agrees with
the agent. `Asked`: the requests on their way are in an order in which they can be
answered, the configuration of the base station before that of the UEs before that of
the logical channels. `InTime`: `update_rib` has budget left for all that waits. A
message that is handled takes one step along the first, which `HandleIsAfter` says of
every handler at once; a message that is sent adds one step at its end (`Heard`). That
`Foreseen`, a recursive function, ends where `Ends` says is the only induction
(`ForeseenIs`). `MacInfoMatchesConfig` and `RibFollowsAgent` follow for any number of
agents and UEs and any budget. On the way the operators of `EnbRibInfo` have lemmas of
their own: what removing the first entry of an rnti leaves, and that the loop of
`delete_lc_config`, which steps over the element behind each one that it erases, misses
none as long as no UE is listed twice (`DeleteLcFacts`).

**`TaskManagerProofs`.** For each place of `manage_rt_tasks` the invariant says
which threads may be joinable, and that an unread expiration is younger than the
last wait that returned. `RibUpdaterRunsAlone`, `NoJoinableOverwritten` and
`NoCatchUp` follow, for any number of applications.

**`SchedulerControlProofs`.** First `Implements`: every step of the composition
is a step of `TaskManager` or leaves its variables alone; so the invariant of
`TaskManager` holds of the composition (`TaskInvariance`). With it: an insertion
lies within the updater's thread (`Quiet`); under central scheduling nothing is
stale, and a run in progress has sent nothing stale to agents it has not visited
(`Fresh`); and at each place of the REST thread what remains of a change
(`Following`). `AppsReadQuietRib`, `AtMostOneStaleConfig`, `AgentsFollowFlag` and
`PolicyOnlyWhenLocal` follow (the last is proved only).

**`ResourceBlocksProofs`.** The map of the cell is the disjoint union of the UEs'
groups; counts are the RBs of the groups by `RbsAdd`, the cardinality of a set with
one more group, short or not; `Quotas` says of each place of the rounds what is
left of each UE's share, which bounds what it holds; `BitmapWithin` that an
assignment's bitmap lies within the groups of its UE. Hence `TypeCorrect` (no count is
negative, no group beyond the cell), `GroupsExclusive`, `CountsExact` and
`RoundsWithinQuota`, for any number of UEs, any demands and each of the bandwidths.
`AssignmentsCarryBlocks` says of the loop that marks the bitmap that it leaves out no
group that the block was sized for, although its unsigned counter wraps.
`NothingFreeIsNeeded` rests on `Conserving`: what a UE has and what it may still take are
together no less than its share, or its requirement in the second round (the converse of
`Quotas`), and a UE that has gone through the groups lacks less than one or has seen all
of them taken. `EqualShares` is about all UEs at once: in the first round a UE that is
short of its share has seen every whole group taken, while no UE took more groups than
the equal share has (`Fair`), and the groups so counted are fewer than the cell has
(`UnionBound`).

**`HarqProofs`.** `Conserved` is `ProcessConserved` for one process. It is not enough for
the rest: `Knows` says of a process that is not lost that the controller's indicator
and size are those of the message under way to it or, when there is none, those the UE
has heard, the size apart while the process is free for a new block. One lemma for each
way in which a message comes or goes (`BlockSent`, `TriggerTaken`, `ConfigTaken`,
`Answered`) keeps both for every process, and `Untouched` does it where nothing of the
process is touched. `ProcessesConserved`, `IndicatorsStayInStep` and
`RepetitionsHaveSize` follow for any number of processes, sizes, losses and changes of
the scheduler.

**`CentralSchedulerProofs`.** `RegionOK` says of the types what the accounting needs,
and that the elements left and those assigned are the region's, whatever it grew by:
it is inductive because the growth recomputes the rest from the difference
(`GrownRegion`). `SearchFindsPlace` follows for any number of UEs. `FewAssigned`, eight
elements a turn, bounds what is assigned; below 900 UEs this is less than the wrapped
count of an empty region, so the region never grows (`RegionNeverGrows`) and the rest
stays above zero (`CcesAccounted`). `TaWaitIsBounded` rests on the sum of the timer and
of the opportunities since it was set.
The packing of a block is a loop of the code and a recursive function here. `Steps` is
the induction along such a loop and `Iterated` that the function exists; both come from
the least number of a set (`LeastNumber`), as the library's induction theorems take an
operator that the provers cannot instantiate. With them: what `Packed` counts is what
`Carried` adds up (`CarriedIsCounted`), and the searches for the RBs and the MCS end at a
block that is large enough, no other below it being both large enough and smaller
(`ChosenMcs`). This rests on `TableAssumption`: block sizes grow with the MCS but
for entries that come again further on, as the irregular one of row 6 does. Hence
`BlocksHoldTheirLoad` and `OverrunsComeFromTheSecond`, for any number of UEs and queues.

**`ApplicationsProofs`.** First the arithmetic of time: the 16 bits of a moment
(`PackedTime`) and the planned subframe as the moment `ahead` later, over the wrap of both
counters (`TargetIsAhead`). Then one invariant for each application, over the type of the
clocks (`ClockOK`). `DelegatedAgentLeftAlone`: the flag is tested before the loop.
`OneConfigPerSubframe`: what was sent was sent in the subframe that the last run noted.
`PowerSpaced`: while fewer than ten subframes have passed since the last step, the
subframe planned for lies that many behind it (`PowerClock`), and for none of those does
the test of the code, which only has the numbers of frame and subframe, allow another step,
on either side of the wrap (`StepAllowed`).
`MacroExcludesPico`: while the agents are in step, a subframe with a grant has been checked
for all of them, and its grants are all for the next subframe and all for the macro cell
or none. `TimetableInOrder`: while the agents are in step
and see every subframe, the steps taken are those the clock has passed, and all of them
reached the least agent.

What the theorems assume is named in the modules: no more than 4096 frames
(`FrameAssumption`, the 12 bits of a frame), an application that plans up to 9 subframes
ahead (`FlexAssumption`; up to 1 for eICIC, whose code has 1, `EicicAssumption`), a
timetable in ascending order (`StepAssumption`), up to 80 logical channels of a UE
(`CentralAssumption`: `header_len` has 8 bits), the shape of the table of block sizes
(`TableAssumption`), and cells of the bandwidths that every helper knows
(`RbAssumption`). The theorems that also assume something else say so in their statement:
`NumUes <= 900`, `Overload = FALSE`.

Only model-checked are the liveness properties: `EventuallyReporting`, `EveryTaskRecurs`,
`SwitchTakesEffect`, `UeServed`, `RepeatedUnlessOvertaken`, `EveryStepTaken`, and the
delivery that is part of `ChannelSpec`. They rest on fairness, whose `ENABLED` the prover
does not treat. Every safety property of a run that passes has a theorem.

## 5. Not modelled, and the plan

Left out for good: logging, command line, the wrappers of Linux scheduling
classes, protobuf encoding, the text of statistics, and the copying of frames and
reports. `remote_scheduler.cc` and the scheduling part of
`remote_scheduler_delegation.cc` are older copies of `run_central_scheduler` that
nothing runs: a model of them would repeat `CentralScheduler` for code that is not
built into a working controller. The order in which `std::sort` puts UEs is any
order. Of an rnti that leaves and comes back the code promises nothing: its
scheduling context stays (`app/flexible_scheduler.cc:357`). `push_code` after a file that
cannot be read is in `SchedulerControl`, without a property.

Planned, in this order:

1. Proofs: types of `CentralScheduler` and `Applications` as theorems of their own; that
   an agent which was asked for something is never without a request or an answer under
   way, which is the safety half of `EventuallyReporting`.
2. The safety half of `SwitchTakesEffect` and of `RepeatedUnlessOvertaken`: what must hold
   of a state in which the change, or the repetition, is still to come.
