-------------------------------- MODULE Harq --------------------------------
(***************************************************************************)
(* The downlink HARQ processes of one UE: run_central_scheduler takes the  *)
(* first process that the RIB shows as available, and sends a new block on *)
(* it, or repeats the last one when the process was not acknowledged. The  *)
(* agent transmits, and its subframe triggers bring the feedback back to   *)
(* the RIB. Meanwhile the scheduling of the agent may be switched between  *)
(* the controller ("central") and the agent itself.                        *)
(*                                                                         *)
(* The agent and the UE are modelled from what the controller expects of   *)
(* them: a UE takes a block as new when its new-data indicator differs     *)
(* from the last one of the process, and each transmission is answered.    *)
(***************************************************************************)
EXTENDS Naturals, Sequences, FiniteSets

CONSTANTS NumHarq,     \* MAX_NUM_HARQ
          Sizes,       \* numbers of RBs that a block may have
          Lossy,       \* messages may be lost: pushes refused, triggers over budget
          Cap,         \* bound: messages on their way, in each direction
          MaxSwitches, \* bound: changes of the scheduler
          MaxLocal     \* bound: blocks that the agent schedules by itself

ASSUME HarqAssumption ==
  /\ NumHarq \in Nat \ {0}
  /\ Sizes \subseteq Nat \ {0} /\ Sizes # {}
  /\ Lossy \in BOOLEAN
  /\ Cap \in Nat \ {0} /\ MaxSwitches \in Nat /\ MaxLocal \in Nat

Process == 0 .. NumHarq - 1

\* What is sent of a block: its new-data indicator and its number of RBs, which
\* stands for the MCS too.
Block == [ndi : 0 .. 1, nb : Sizes]

\* What the controller sends: a block on a process, or a change of the scheduler.
Config == [kind : {"new", "repeat"}, pid : Process, block : Block]
Switch == [kind : {"central", "local"}]

VARIABLES
  active,   \* active_harq_: the process can be scheduled
  nack,     \* harq_stats_ is not FLHS_ACK
  fresh,    \* the current subframe is not the one checked last
  ndi,      \* ndi_ of the scheduling context
  nb,       \* nb_scheduled_rbs_ and mcs_
  backlog,  \* the UE's reported queues are not empty
  central,  \* central_scheduling
  running,  \* run_central_scheduler has been called and has not returned
  switches, \* bound: changes of the scheduler so far
  down,     \* messages on their way to the agent
  remote,   \* agent: its scheduler is the controller
  heard,    \* agent and UE: the last block of each process ("none" before the first)
  pending,  \* agent: processes whose transmission is not answered yet
  up,       \* triggers on their way: each the feedback, "ack" or "nack" by process
  lost,     \* history: processes whose block or feedback was lost
  locals    \* history: blocks that the agent has scheduled by itself

ribVars == <<active, nack, fresh>>
contextVars == <<ndi, nb>>
agentVars == <<remote, heard, pending>>
schedulerVars == <<central, switches, running>>
vars == <<ribVars, contextVars, backlog, schedulerVars, down, agentVars, up, lost, locals>>

NoBlock == [ndi |-> 0, nb |-> 0]

\* A UE just connected. last_checked_frame_ is not initialised: it may be equal to
\* the current subframe by chance.
Init ==
  /\ active = [p \in Process |-> TRUE] /\ nack = [p \in Process |-> FALSE]
  /\ fresh \in BOOLEAN
  /\ ndi = [p \in Process |-> 0] /\ nb = [p \in Process |-> 0]
  /\ backlog = TRUE
  /\ central \in BOOLEAN /\ remote = central /\ switches = 0 /\ running = FALSE
  /\ down = <<>> /\ up = <<>>
  /\ heard = [p \in Process |-> NoBlock] /\ pending = {}
  /\ lost = {} /\ locals = 0

-----------------------------------------------------------------------------
(* The controller                                                          *)

\* get_next_available_harq: the available process with the least number.
IsNext(p) == active[p] /\ \A q \in Process : active[q] => p <= q

\* send_message: its result is ignored. A change of the scheduler is not lost here.
Send(msg) ==
  \/ Len(down) < Cap /\ down' = Append(down, msg) /\ UNCHANGED lost
  \/ Lossy /\ msg.kind \in {"new", "repeat"} /\ lost' = lost \cup {msg.pid} /\ UNCHANGED down

\* Mutant of Taken: a scheduled process stays available.
TakenMutNot(p) == active

\* harq_scheduled
Taken(p) == [active EXCEPT ![p] = FALSE]

\* The application's cycle, when needs_scheduling: no message is handled before it
\* has ended, but central_scheduling may change.
BeginRun ==
  /\ central /\ fresh /\ ~running
  /\ running' = TRUE
  /\ UNCHANGED <<ribVars, contextVars, backlog, central, switches, down, agentVars, up, lost, locals>>

\* The subframe has been checked.
EndRun == running /\ running' = FALSE /\ fresh' = FALSE

\* A new block of n RBs on process p: what it carries is taken off the reported queues.
ScheduleNew(p, n) ==
  /\ EndRun /\ IsNext(p) /\ ~nack[p] /\ backlog /\ backlog' \in BOOLEAN
  /\ Send([kind |-> "new", pid |-> p, block |-> [ndi |-> 1 - ndi[p], nb |-> n]])
  /\ ndi' = [ndi EXCEPT ![p] = 1 - @] /\ nb' = [nb EXCEPT ![p] = n]
  /\ active' = Taken(p)
  /\ UNCHANGED <<nack, central, switches, agentVars, up, locals>>

\* Mutant of ScheduleRepeat: the preprocessor resets the size of every process.
ScheduleRepeatMutResized(p) ==
  /\ EndRun /\ IsNext(p) /\ nack[p] /\ nb[p] > 0
  /\ \E n \in Sizes : Send([kind |-> "repeat", pid |-> p, block |-> [ndi |-> ndi[p], nb |-> n]])
  /\ active' = Taken(p)
  /\ UNCHANGED <<nack, contextVars, backlog, central, switches, agentVars, up, locals>>

\* Mutant of ScheduleRepeat: a UE with empty queues is not scheduled.
ScheduleRepeatMutBacklog(p) ==
  /\ EndRun /\ IsNext(p) /\ nack[p] /\ nb[p] > 0 /\ backlog
  /\ Send([kind |-> "repeat", pid |-> p, block |-> [ndi |-> ndi[p], nb |-> nb[p]]])
  /\ active' = Taken(p)
  /\ UNCHANGED <<nack, contextVars, backlog, central, switches, agentVars, up, locals>>

\* The last block of process p again: with a size of zero the preprocessor asks for
\* no RBs, gets none, and the UE is passed over.
ScheduleRepeat(p) ==
  /\ EndRun /\ IsNext(p) /\ nack[p] /\ nb[p] > 0
  /\ Send([kind |-> "repeat", pid |-> p, block |-> [ndi |-> ndi[p], nb |-> nb[p]]])
  /\ active' = Taken(p)
  /\ UNCHANGED <<nack, contextVars, backlog, central, switches, agentVars, up, locals>>

\* Mutant of SchedulePass: the size is reset whatever the feedback was.
SchedulePassMutResets ==
  /\ EndRun
  /\ nb' = [p \in Process |-> IF IsNext(p) THEN 0 ELSE nb[p]]
  /\ UNCHANGED <<active, nack, ndi, backlog, central, switches, down, agentVars, up, lost, locals>>

\* The UE is not scheduled in this subframe: it has no process or nothing to send,
\* or the cell has no RBs for it. The preprocessor has reset the size of its
\* next process nevertheless, if that was acknowledged.
SchedulePass ==
  /\ EndRun
  /\ nb' = [p \in Process |-> IF IsNext(p) /\ ~nack[p] THEN 0 ELSE nb[p]]
  /\ UNCHANGED <<active, nack, ndi, backlog, central, switches, down, agentVars, up, lost, locals>>

\* Mutant of Updated: an acknowledgement frees the process, anything else does not.
UpdatedMutAckOnly(fb) ==
  /\ active' = [p \in Process |-> (p \in DOMAIN fb /\ fb[p] = "ack") \/ active[p]]
  /\ nack' = [p \in Process |-> IF p \in DOMAIN fb THEN fb[p] = "nack" ELSE nack[p]]

\* update_dl_sf_info
Updated(fb) ==
  /\ active' = [p \in Process |-> p \in DOMAIN fb \/ active[p]]
  /\ nack' = [p \in Process |-> IF p \in DOMAIN fb THEN fb[p] = "nack" ELSE nack[p]]

HandleTrigger ==
  /\ ~running /\ up # <<>>
  /\ Updated(Head(up)) /\ up' = Tail(up)
  /\ fresh' = TRUE
  /\ UNCHANGED <<contextVars, backlog, schedulerVars, down, agentVars, lost, locals>>

\* The RIB updater has used up its budget: the message it holds is gone.
DropTrigger ==
  /\ Lossy /\ ~running /\ up # <<>>
  /\ up' = Tail(up) /\ lost' = lost \cup DOMAIN Head(up)
  /\ UNCHANGED <<ribVars, contextVars, backlog, schedulerVars, down, agentVars, locals>>

\* A statistics report: the UE's queues fill or drain.
ReportQueues ==
  /\ ~running /\ backlog' = ~backlog
  /\ UNCHANGED <<ribVars, contextVars, schedulerVars, down, agentVars, up, lost, locals>>

\* enable_central_scheduling, called at any time.
ChangeScheduler ==
  /\ switches < MaxSwitches /\ Len(down) < Cap
  /\ switches' = switches + 1 /\ central' = ~central
  /\ down' = Append(down, [kind |-> IF central THEN "local" ELSE "central"])
  /\ UNCHANGED <<ribVars, contextVars, backlog, running, agentVars, up, lost, locals>>

-----------------------------------------------------------------------------
(* The agent and the UE                                                    *)

\* The agent transmits what it is told; a block for an agent that schedules by
\* itself is not transmitted.
TakeConfig ==
  LET msg == Head(down)
  IN  /\ down # <<>> /\ down' = Tail(down)
      /\ IF msg.kind \in {"central", "local"}
         THEN remote' = (msg.kind = "central") /\ UNCHANGED <<heard, pending, lost>>
         ELSE IF remote
         THEN /\ heard' = [heard EXCEPT ![msg.pid] = msg.block]
              /\ pending' = pending \cup {msg.pid}
              /\ UNCHANGED <<remote, lost>>
         ELSE lost' = lost \cup {msg.pid} /\ UNCHANGED agentVars
      /\ UNCHANGED <<ribVars, contextVars, backlog, schedulerVars, up, locals>>

\* The agent's own scheduler sends a new block on a process that is free there.
TransmitLocally(p, n) ==
  /\ ~remote /\ p \notin pending /\ locals < MaxLocal
  /\ heard' = [heard EXCEPT ![p] = [ndi |-> 1 - heard[p].ndi, nb |-> n]]
  /\ pending' = pending \cup {p} /\ locals' = locals + 1
  /\ UNCHANGED <<ribVars, contextVars, backlog, schedulerVars, down, remote, up, lost>>

\* A subframe: the agent reports the feedback of any transmissions that it has.
Subframe ==
  /\ Len(up) < Cap
  /\ \E S \in SUBSET pending : \E fb \in [S -> {"ack", "nack"}] :
       /\ up' = Append(up, fb)
       /\ pending' = pending \ S
  /\ UNCHANGED <<ribVars, contextVars, backlog, schedulerVars, down, remote, heard, lost, locals>>

Next ==
  \/ \E p \in Process, n \in Sizes : ScheduleNew(p, n) \/ TransmitLocally(p, n)
  \/ \E p \in Process : ScheduleRepeat(p)
  \/ BeginRun \/ SchedulePass \/ HandleTrigger \/ DropTrigger \/ ReportQueues \/ ChangeScheduler
  \/ TakeConfig \/ Subframe

Spec == Init /\ [][Next]_vars

-----------------------------------------------------------------------------
\* The feedback of process p is on its way in the next trigger of the agent.
Answer(p) == Subframe /\ p \in pending /\ p \notin pending'

\* The RIB updater and the agent take their messages; the agent has subframes, and
\* answers each transmission in one of them. Infinitely often a subframe that the UE
\* could be scheduled in has RBs for it: what it gets is the preprocessor's matter.
Fairness ==
  /\ WF_vars(HandleTrigger) /\ WF_vars(BeginRun) /\ WF_vars(SchedulePass)
  /\ WF_vars(TakeConfig) /\ SF_vars(Subframe)
  /\ \A p \in Process : SF_vars(Answer(p)) /\ SF_vars(ScheduleRepeat(p))
  /\ SF_vars(\E p \in Process, n \in Sizes : ScheduleNew(p, n))

FairSpec == Spec /\ Fairness

-----------------------------------------------------------------------------
TypeOK ==
  /\ active \in [Process -> BOOLEAN] /\ nack \in [Process -> BOOLEAN]
  /\ {fresh, backlog, central, running, remote} \subseteq BOOLEAN
  /\ ndi \in [Process -> 0 .. 1] /\ nb \in [Process -> Sizes \cup {0}]
  /\ switches \in 0 .. MaxSwitches /\ locals \in 0 .. MaxLocal
  /\ down \in Seq(Config \cup Switch) /\ Len(down) <= Cap
  /\ heard \in [Process -> [ndi : 0 .. 1, nb : Sizes \cup {0}]]
  /\ pending \subseteq Process /\ lost \subseteq Process
  /\ up \in Seq(UNION {[S -> {"ack", "nack"}] : S \in SUBSET Process}) /\ Len(up) <= Cap

\* Message i to the agent is a block on process p.
Carries(i, p) == down[i].kind \in {"new", "repeat"} /\ down[i].pid = p

InDown(p) == \E i \in DOMAIN down : Carries(i, p)
InUp(p) == \E i \in DOMAIN up : p \in DOMAIN up[i]

Strayed == locals > 0

\* A process is never scheduled again before the feedback of what was sent on it has
\* come, and is not forgotten unless a message was lost: until the agent schedules by
\* itself every process is in exactly one place, available, on its way down, at the
\* agent, on its way up, or lost (flexible_scheduler.cc:688, ue_mac_rib_info.cc:33-36).
ProcessConserved ==
  ~Strayed => \A p \in Process :
    /\ active[p] \/ InDown(p) \/ p \in pending \/ InUp(p) \/ p \in lost
    /\ active[p] => ~InDown(p) /\ p \notin pending /\ ~InUp(p) /\ p \notin lost
    /\ InDown(p) => p \notin pending /\ ~InUp(p) /\ p \notin lost
    /\ p \in pending => ~InUp(p) /\ p \notin lost
    /\ InUp(p) => p \notin lost
    /\ \A i, j \in DOMAIN down : Carries(i, p) /\ Carries(j, p) => i = j
    /\ \A i, j \in DOMAIN up : p \in DOMAIN up[i] /\ p \in DOMAIN up[j] => i = j

\* The UE takes a new block as new and a repetition as one, of the same size: until the
\* agent schedules by itself the new-data indicators of controller and UE stay in step
\* even when blocks and feedback are lost, because such a process is not used again
\* (flexible_scheduler.cc:415-419,664-665).
IndicatorsInStep ==
  ~Strayed => \A i \in DOMAIN down :
    /\ down[i].kind = "new" => down[i].block.ndi # heard[down[i].pid].ndi
    /\ down[i].kind = "repeat" => down[i].block = heard[down[i].pid]

\* A process to be repeated has a block to repeat: until the agent schedules by itself
\* the size that the preprocessor resets is never that of a block that is to be
\* repeated, for a process without a size is passed over for ever and keeps the ones
\* behind it from being used (remote_scheduler_helper.cc:110-113, ue_mac_rib_info.h:69).
RepetitionHasSize == ~Strayed => \A p \in Process : active[p] /\ nack[p] => nb[p] > 0

\* A process is sent a block.
Serve == \E p \in Process : active[p] /\ ~active'[p]

\* As long as the UE has data and the controller schedules it, it is served again and
\* again: the processes do not run out when no message is lost.
UeServed == <>[](backlog /\ central /\ ~Strayed) => []<><<Serve>>_vars

\* A block that was not acknowledged is repeated, unless a process with a lesser
\* number is available: get_next_available_harq does not look behind it
\* (ue_mac_rib_info.h:69-76).
RepeatedUnlessOvertaken ==
  \A p \in Process :
    (active[p] /\ nack[p]) ~>
      (~active[p] \/ (\E q \in 0 .. p - 1 : active[q]) \/ ~central \/ Strayed)
=============================================================================
