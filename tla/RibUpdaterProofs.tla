--------------------------- MODULE RibUpdaterProofs ---------------------------
(***************************************************************************)
(* Proofs about RibUpdater for every number of agents and UEs, every      *)
(* budget, and with or without overload: how an agent moves from connected *)
(* to pending to configured, and who may change its entry. Without         *)
(* overload, moreover: every UE of an entry has its MAC entry, and the RIB *)
(* is behind an agent but never wrong about it. That takes an invariant    *)
(* about the whole conversation: the messages that wait in in_queue_ turn  *)
(* the entry of an agent, through sound entries only, into one that agrees *)
(* with the agent, and the requests on their way are in the order in which *)
(* an agent can answer them.                                               *)
(***************************************************************************)
EXTENDS RibUpdater, FiniteSetTheorems, TLAPS

\* The part of TypeOK the argument needs.
StageTypes ==
  /\ inQueue \in Seq(Item)
  /\ down \in [Agent -> Seq(Requests)]
  /\ agentUEs \in [Agent -> Seq(UeEntry)]
  /\ pending \in SUBSET Agent
  /\ configured \in SUBSET Agent

\* Every message in in_queue_ comes from a connected agent, and the notice of a
\* connection is in it at most once, and only before the agent is pending.
NoticeOnce ==
  \A i \in 1 .. Len(inQueue) :
    /\ inQueue[i].tag \in connected
    /\ inQueue[i].kind = "notice" =>
         /\ inQueue[i].tag \notin pending \cup configured
         /\ \A j \in 1 .. Len(inQueue) :
              j # i /\ inQueue[j].tag = inQueue[i].tag => inQueue[j].kind # "notice"

\* Only a connected agent is sent anything.
SentToConnected == \A a \in Agent : down[a] # <<>> => a \in connected

IInv == StageTypes /\ NoticeOnce /\ SentToConnected /\ Stages

-------------------------------------------------------------------------------
\* The invariant holds when the controller starts.
LEMMA InitIInv == Init => IInv
<1> SUFFICES ASSUME Init PROVE IInv
  OBVIOUS
<1>1. configured = {}
  BY DEF Init, configured
<1>2. inQueue = <<>> /\ Len(inQueue) = 0
  BY DEF Init
<1>3. agentUEs \in [Agent -> Seq(UeEntry)]
  <2>1. PICK e \in UeEntry : agentUEs \in [Agent -> {<<>>, <<e>>}]
    BY DEF Init
  <2>2. <<>> \in Seq(UeEntry) /\ <<e>> \in Seq(UeEntry)
    OBVIOUS
  <2> QED
    BY <2>1, <2>2
<1>4. down \in [Agent -> Seq(Requests)] /\ inQueue \in Seq(Item)
  BY DEF Init
<1>5. StageTypes
  BY <1>1, <1>3, <1>4 DEF Init, StageTypes
<1>6. NoticeOnce
  BY <1>2 DEF NoticeOnce
<1>7. Stages
  BY <1>1 DEF Init, Stages
<1>8. SentToConnected
  BY DEF Init, SentToConnected
<1> QED
  BY <1>5, <1>6, <1>7, <1>8 DEF IInv

-------------------------------------------------------------------------------
\* Taking the head of in_queue_ leaves messages that were there before.
LEMMA TailKeeps ==
  ASSUME StageTypes, inQueue # <<>>, inQueue' = Tail(inQueue)
  PROVE  /\ inQueue' \in Seq(Item)
         /\ Head(inQueue) \in Item /\ Head(inQueue) = inQueue[1]
         /\ 1 \in 1 .. Len(inQueue)
         /\ \A i \in 1 .. Len(inQueue') :
              inQueue'[i] = inQueue[i + 1] /\ i + 1 \in 1 .. Len(inQueue)
  BY DEF StageTypes

\* Where the agents of the RIB stand after a message was handled.
LEMMA HandleMoves ==
  ASSUME StageTypes, NEW m \in Item, Handle(m)
  PROVE  /\ pending' \in SUBSET Agent
         /\ \/ /\ m.kind = "notice"
               /\ pending' = pending \cup {m.tag} /\ configured' = configured
            \/ /\ m.kind = "enbReply" /\ m.tag \in pending
               /\ pending' = pending \ {m.tag} /\ configured' = configured \cup {m.tag}
            \/ pending' = pending /\ configured' = configured
<1>0. m.tag \in Agent
  BY DEF Item
<1>1. CASE m.kind = "notice"
  BY <1>0, <1>1 DEF Handle, HandleNewConnection, configured, StageTypes
<1>2. CASE m.kind \in {"hello", "echo"}
  BY <1>2 DEF Handle, HandleHello, HandleEcho, ribVars, configured, StageTypes
<1>3. CASE m.kind = "enbReply"
  BY <1>0, <1>3 DEF Handle, HandleEnbReply, ribVars, configured, StageTypes
<1>4. CASE m.kind = "ueReply"
  BY <1>4 DEF Handle, HandleUeReply, UpdateEntry, configured, StageTypes
<1>5. CASE m.kind = "lcReply"
  BY <1>5 DEF Handle, HandleLcReply, UpdateEntry, configured, StageTypes
<1>6. CASE m.kind \in {"activated", "deactivated", "updated"}
  BY <1>6 DEF Handle, HandleStateChange, UpdateEntry, configured, StageTypes
<1>7. CASE m.kind \in {"greeting", "trigger", "stats"}
  BY <1>7 DEF Handle, HandleNothing, ribVars, configured, StageTypes
<1> QED
  BY <1>1, <1>2, <1>3, <1>4, <1>5, <1>6, <1>7 DEF Item, Kinds

\* A message is answered, if at all, to the agent that sent it.
LEMMA HandleSends ==
  ASSUME StageTypes, NEW m \in Item, Handle(m)
  PROVE  /\ down' \in [Agent -> Seq(Requests)]
         /\ \A a \in Agent : a # m.tag => down'[a] = down[a]
<1>0. m.tag \in Agent
  BY DEF Item
<1>1. \/ UNCHANGED down
      \/ \E reqs \in {<<"hello">>, <<"enbRequest", "ueRequest", "lcRequest">>,
                       <<"echoReply">>, <<"lcRequest">>} :
            down' = [down EXCEPT ![m.tag] = @ \o reqs]
  <2>1. CASE m.kind \in {"notice", "hello", "echo"}
    BY <2>1 DEF Handle, HandleNewConnection, HandleHello, HandleEcho, Send
  <2>2. CASE m.kind \in {"enbReply", "ueReply", "lcReply"}
    BY <2>2 DEF Handle, HandleEnbReply, HandleUeReply, HandleLcReply
  <2>3. CASE m.kind \in {"activated", "deactivated", "updated"}
    BY <2>3 DEF Handle, HandleStateChange, Send
  <2>4. CASE m.kind \in {"greeting", "trigger", "stats"}
    BY <2>4 DEF Handle, HandleNothing
  <2> QED
    BY <2>1, <2>2, <2>3, <2>4 DEF Item, Kinds
<1>2. CASE UNCHANGED down
  BY <1>2 DEF StageTypes
<1>3. ASSUME NEW reqs \in Seq(Requests), down' = [down EXCEPT ![m.tag] = @ \o reqs]
      PROVE  /\ down' \in [Agent -> Seq(Requests)]
             /\ \A a \in Agent : a # m.tag => down'[a] = down[a]
  BY <1>0, <1>3 DEF StageTypes
<1>4. {<<"hello">>, <<"enbRequest", "ueRequest", "lcRequest">>, <<"echoReply">>,
       <<"lcRequest">>} \subseteq Seq(Requests)
  BY DEF Requests
<1> QED
  BY <1>1, <1>2, <1>3, <1>4

\* The loop of update_rib keeps the invariant.
LEMMA CheckStep ==
  ASSUME IInv, CheckMessage PROVE IInv'
<1> DEFINE m == Head(inQueue)
<1>1. /\ inQueue # <<>> /\ inQueue' = Tail(inQueue) /\ Handle(m)
      /\ UNCHANGED <<agentList, connected, agentUEs>>
  BY DEF CheckMessage, agentVars
<1>2. /\ inQueue' \in Seq(Item) /\ m \in Item /\ m = inQueue[1] /\ 1 \in 1 .. Len(inQueue)
      /\ \A i \in 1 .. Len(inQueue') :
           inQueue'[i] = inQueue[i + 1] /\ i + 1 \in 1 .. Len(inQueue)
  BY <1>1, TailKeeps DEF IInv
<1>3. m.tag \in Agent /\ m.tag \in connected
  BY <1>2 DEF IInv, NoticeOnce, Item
<1> HIDE DEF m
<1>4. /\ down' \in [Agent -> Seq(Requests)]
      /\ \A a \in Agent : a # m.tag => down'[a] = down[a]
  BY <1>1, <1>2, HandleSends DEF IInv
<1>5. /\ pending' \in SUBSET Agent
      /\ \/ /\ m.kind = "notice"
            /\ pending' = pending \cup {m.tag} /\ configured' = configured
         \/ /\ m.kind = "enbReply" /\ m.tag \in pending
            /\ pending' = pending \ {m.tag} /\ configured' = configured \cup {m.tag}
         \/ pending' = pending /\ configured' = configured
  BY <1>1, <1>2, HandleMoves DEF IInv
<1>6. StageTypes'
  BY <1>1, <1>2, <1>3, <1>4, <1>5 DEF IInv, StageTypes
<1>7. SentToConnected'
  BY <1>1, <1>3, <1>4 DEF IInv, SentToConnected
<1>8. m.kind = "notice" => m.tag \notin pending \cup configured
  BY <1>2 DEF IInv, NoticeOnce
<1>9. Stages'
  BY <1>1, <1>3, <1>5, <1>8 DEF IInv, Stages
<1>10. NoticeOnce'
  <2> SUFFICES ASSUME NEW i \in 1 .. Len(inQueue')
               PROVE  /\ inQueue'[i].tag \in connected
                      /\ inQueue'[i].kind = "notice" =>
                           /\ inQueue'[i].tag \notin pending' \cup configured'
                           /\ \A j \in 1 .. Len(inQueue') :
                                j # i /\ inQueue'[j].tag = inQueue'[i].tag =>
                                  inQueue'[j].kind # "notice"
    BY <1>1 DEF NoticeOnce
  <2>1. inQueue'[i] = inQueue[i + 1] /\ i + 1 \in 1 .. Len(inQueue) /\ i + 1 # 1
    BY <1>2
  <2>2. inQueue'[i].tag \in connected
    BY <2>1 DEF IInv, NoticeOnce
  <2>3. ASSUME inQueue'[i].kind = "notice"
        PROVE  inQueue'[i].tag \notin pending' \cup configured'
    <3>1. inQueue'[i].tag \notin pending \cup configured
      BY <2>1, <2>3 DEF IInv, NoticeOnce
    <3>2. m.kind = "notice" => inQueue'[i].tag # m.tag
      BY <1>2, <2>1, <2>3 DEF IInv, NoticeOnce
    <3> QED
      BY <1>5, <3>1, <3>2
  <2>4. ASSUME inQueue'[i].kind = "notice", NEW j \in 1 .. Len(inQueue'), j # i,
               inQueue'[j].tag = inQueue'[i].tag
        PROVE  inQueue'[j].kind # "notice"
    <3>1. inQueue'[j] = inQueue[j + 1] /\ j + 1 \in 1 .. Len(inQueue) /\ j + 1 # i + 1
      BY <1>2, <2>4
    <3> QED
      BY <2>1, <2>4, <3>1 DEF IInv, NoticeOnce
  <2> QED
    BY <2>2, <2>3, <2>4
<1> QED
  BY <1>6, <1>7, <1>9, <1>10 DEF IInv

\* So does giving up on the message that update_rib has no budget for.
LEMMA DropStep ==
  ASSUME IInv, DropMessage PROVE IInv'
<1>1. /\ inQueue # <<>> /\ inQueue' = Tail(inQueue)
      /\ UNCHANGED <<down, pending, eNBConfigs, agentList, connected, agentUEs>>
  BY DEF DropMessage, ribVars, agentVars
<1>2. /\ inQueue' \in Seq(Item)
      /\ \A i \in 1 .. Len(inQueue') :
           inQueue'[i] = inQueue[i + 1] /\ i + 1 \in 1 .. Len(inQueue)
  BY <1>1, TailKeeps DEF IInv
<1>3. configured' = configured
  BY <1>1 DEF configured
<1>4. StageTypes' /\ SentToConnected' /\ Stages'
  BY <1>1, <1>2, <1>3 DEF IInv, StageTypes, SentToConnected, Stages
<1>5. NoticeOnce'
  <2>1. \A i, j \in 1 .. Len(inQueue') : i # j => i + 1 # j + 1
    OBVIOUS
  <2> QED
    BY <1>1, <1>2, <1>3, <2>1 DEF IInv, NoticeOnce
<1> QED
  BY <1>4, <1>5 DEF IInv

\* A message of a connected agent, other than a notice, joins in_queue_.
LEMMA JoinStep ==
  ASSUME IInv, NEW a \in Agent, a \in connected, NEW kind \in Kinds \ {"notice"},
         NEW ues \in Seq(UeEntry), inQueue' = Append(inQueue, Msg(a, kind, ues)),
         UNCHANGED <<pending, eNBConfigs, agentList, connected>>
  PROVE  inQueue' \in Seq(Item) /\ NoticeOnce' /\ Stages'
<1>1. Msg(a, kind, ues) \in Item /\ Msg(a, kind, ues).tag = a /\ Msg(a, kind, ues).kind = kind
  BY DEF Msg, Item
<1>2. inQueue \in Seq(Item)
  BY DEF IInv, StageTypes
<1>3. inQueue' \in Seq(Item) /\ configured' = configured
  BY <1>1, <1>2 DEF configured
<1>4. Stages'
  BY <1>3 DEF IInv, Stages
<1>5. \A i \in 1 .. Len(inQueue') :
        \/ i \in 1 .. Len(inQueue) /\ inQueue'[i] = inQueue[i]
        \/ inQueue'[i].tag = a /\ inQueue'[i].kind # "notice"
  BY <1>1, <1>2
<1>6. NoticeOnce'
  BY <1>3, <1>5 DEF IInv, NoticeOnce
<1> QED
  BY <1>3, <1>4, <1>6

-------------------------------------------------------------------------------
\* Announcing a connection keeps the invariant.
LEMMA ConnectStep ==
  ASSUME IInv, NEW a \in Agent, Connect(a) PROVE IInv'
<1>1. /\ a \notin connected /\ connected' = connected \cup {a}
      /\ inQueue' = Append(inQueue, Msg(a, "notice", <<>>))
      /\ UNCHANGED <<down, pending, eNBConfigs, agentList, agentUEs>>
  BY DEF Connect, AgentSends, taskVars, ribVars
<1>2. /\ Msg(a, "notice", <<>>) \in Item
      /\ Msg(a, "notice", <<>>).tag = a
  BY DEF Msg, Item, Kinds
<1>3. inQueue \in Seq(Item)
  BY DEF IInv, StageTypes
<1>4. inQueue' \in Seq(Item) /\ configured' = configured
  BY <1>1, <1>2, <1>3 DEF configured
<1>5. StageTypes' /\ SentToConnected' /\ Stages'
  BY <1>1, <1>4 DEF IInv, StageTypes, SentToConnected, Stages
<1>6. \A i \in 1 .. Len(inQueue') :
        \/ i \in 1 .. Len(inQueue) /\ inQueue'[i] = inQueue[i]
        \/ i = Len(inQueue) + 1 /\ inQueue'[i].tag = a
  BY <1>1, <1>2, <1>3
<1>7. \A i \in 1 .. Len(inQueue) : inQueue[i].tag \in connected /\ inQueue[i].tag # a
  BY <1>1 DEF IInv, NoticeOnce
<1>8. a \notin pending \cup configured
  BY <1>1 DEF IInv, Stages
<1>9. NoticeOnce'
  BY <1>1, <1>3, <1>4, <1>6, <1>7, <1>8 DEF IInv, NoticeOnce
<1> QED
  BY <1>5, <1>9 DEF IInv

\* Asking the newly configured agents for statistics keeps it.
LEMMA AppsStep ==
  ASSUME IInv, RunApps PROVE IInv'
<1>1. /\ UNCHANGED <<inQueue, pending, eNBConfigs, connected, agentUEs>>
      /\ agentList' = agentList \cup configured
      /\ down' = [a \in Agent |-> IF a \in configured \ agentList
                                  THEN Append(down[a], "statsRequest") ELSE down[a]]
  BY DEF RunApps, ribVars, agentVars
<1>2. configured' = configured
  BY <1>1 DEF configured
<1>3. down' \in [Agent -> Seq(Requests)]
  BY <1>1 DEF IInv, StageTypes, Requests
<1>4. StageTypes' /\ NoticeOnce' /\ Stages'
  BY <1>1, <1>2, <1>3 DEF IInv, StageTypes, NoticeOnce, Stages
<1>5. SentToConnected'
  BY <1>1 DEF IInv, SentToConnected, Stages
<1> QED
  BY <1>4, <1>5 DEF IInv

\* An answer of an agent keeps it.
LEMMA AnswerStep ==
  ASSUME IInv, NEW a \in Agent, Answer(a) PROVE IInv'
<1>1. /\ down[a] # <<>> /\ down' = [down EXCEPT ![a] = Tail(@)]
      /\ UNCHANGED <<pending, eNBConfigs, agentList, connected, agentUEs>>
  BY DEF Answer, taskVars, ribVars
<1>2. a \in connected
  BY <1>1 DEF IInv, SentToConnected
<1>3. configured' = configured
  BY <1>1 DEF configured
<1>4. down' \in [Agent -> Seq(Requests)]
  BY <1>1 DEF IInv, StageTypes
<1>5. SentToConnected'
  BY <1>1, <1>2 DEF IInv, SentToConnected, StageTypes
<1>6. \/ UNCHANGED inQueue
      \/ \E kind \in Kinds \ {"notice"}, ues \in Seq(UeEntry) :
           inQueue' = Append(inQueue, Msg(a, kind, ues))
  <2>1. <<>> \in Seq(UeEntry) /\ agentUEs[a] \in Seq(UeEntry)
    BY DEF IInv, StageTypes
  <2>2. {"hello", "enbReply", "ueReply", "lcReply"} \subseteq Kinds \ {"notice"}
    BY DEF Kinds
  <2>3. CASE Head(down[a]) = "hello"
    BY <2>1, <2>2, <2>3 DEF Answer, AnswerWith, AgentSends
  <2>4. CASE Head(down[a]) = "enbRequest"
    BY <2>1, <2>2, <2>4 DEF Answer, AnswerWith, AgentSends
  <2>5. CASE Head(down[a]) = "ueRequest"
    BY <2>1, <2>2, <2>5 DEF Answer, AnswerWith, AgentSends
  <2>6. CASE Head(down[a]) = "lcRequest"
    BY <2>1, <2>2, <2>6 DEF Answer, AnswerWith, AgentSends
  <2>7. CASE Head(down[a]) \notin {"hello", "enbRequest", "ueRequest", "lcRequest"}
    BY <2>7 DEF Answer, NoAnswer
  <2> QED
    BY <2>3, <2>4, <2>5, <2>6, <2>7
<1>7. CASE UNCHANGED inQueue
  BY <1>1, <1>3, <1>4, <1>5, <1>7 DEF IInv, StageTypes, NoticeOnce, Stages
<1>8. CASE \E kind \in Kinds \ {"notice"}, ues \in Seq(UeEntry) :
             inQueue' = Append(inQueue, Msg(a, kind, ues))
  <2>1. inQueue' \in Seq(Item) /\ NoticeOnce' /\ Stages'
    BY <1>1, <1>2, <1>8, JoinStep
  <2> QED
    BY <1>1, <1>3, <1>4, <1>5, <2>1 DEF IInv, StageTypes
<1> QED
  BY <1>6, <1>7, <1>8

\* Whatever an agent says of its own accord keeps it.
LEMMA SpeakStep ==
  ASSUME IInv, NEW a \in Agent, UeChanges(a) \/ Reports(a) PROVE IInv'
<1> DEFINE Speaks(kind, ues, served) ==
      /\ inQueue' = Append(inQueue, Msg(a, kind, ues))
      /\ agentUEs' = [agentUEs EXCEPT ![a] = served]
      /\ a \in connected
      /\ UNCHANGED <<down, pending, eNBConfigs, agentList, connected>>
      SpeaksUp ==
        \E kind \in Kinds \ {"notice"}, ues, served \in Seq(UeEntry) : Speaks(kind, ues, served)
<1>1. agentUEs \in [Agent -> Seq(UeEntry)] /\ agentUEs[a] \in Seq(UeEntry)
  BY DEF IInv, StageTypes
<1>2. SpeaksUp
  <2>1. ASSUME NEW kind \in {"activated", "deactivated", "updated"}, NEW e \in UeEntry,
               NEW served \in Seq(UeEntry), Change(a, kind, e, served)
        PROVE  SpeaksUp
    <3>1. Speaks(kind, <<e>>, served)
      BY <2>1 DEF Change, AgentSends, taskVars, ribVars
    <3>2. kind \in Kinds \ {"notice"} /\ <<e>> \in Seq(UeEntry)
      BY DEF Kinds
    <3> QED
      BY <3>1, <3>2
  <2>2. ASSUME NEW e \in UeEntry, UeAttaches(a, e) PROVE SpeaksUp
    <3>1. Append(agentUEs[a], e) \in Seq(UeEntry)
      BY <1>1
    <3> QED
      BY <2>1, <2>2, <3>1 DEF UeAttaches
  <2>3. ASSUME NEW i \in DOMAIN agentUEs[a], UeLeaves(a, i) PROVE SpeaksUp
    <3>1. agentUEs[a][i] \in UeEntry /\ i \in 1 .. Len(agentUEs[a])
      BY <1>1
    <3>2. RemoveAt(agentUEs[a], i) \in Seq(UeEntry)
      BY <1>1, <3>1 DEF RemoveAt
    <3> QED
      BY <2>1, <2>3, <3>1, <3>2 DEF UeLeaves
  <2>4. ASSUME NEW i \in DOMAIN agentUEs[a], NEW c \in Conf, UeReconfigured(a, i, c)
        PROVE  SpeaksUp
    <3> DEFINE e == [agentUEs[a][i] EXCEPT !.conf = c]
    <3>1. agentUEs[a][i] \in UeEntry
      BY <1>1
    <3>2. e \in UeEntry
      BY <3>1 DEF UeEntry
    <3>3. [agentUEs[a] EXCEPT ![i] = e] \in Seq(UeEntry)
      BY <1>1, <3>2
    <3> QED
      BY <2>1, <2>4, <3>2, <3>3 DEF UeReconfigured
  <2>5. ASSUME NEW kind \in Kinds \ {"notice"}, NEW ues \in Seq(UeEntry), Report(a, kind, ues)
        PROVE  SpeaksUp
    <3>1. Speaks(kind, ues, agentUEs[a])
      BY <1>1, <2>5 DEF Report, AgentSends, taskVars, ribVars
    <3> QED
      BY <1>1, <3>1
  <2>6. CASE Reports(a)
    <3>1. {"echo", "greeting", "trigger", "stats"} \subseteq Kinds \ {"notice"} /\ <<>> \in Seq(UeEntry)
      BY DEF Kinds
    <3> QED
      BY <1>1, <2>5, <2>6, <3>1 DEF Reports
  <2> QED
    BY <2>2, <2>3, <2>4, <2>6 DEF UeChanges
<1>3. PICK kind \in Kinds \ {"notice"}, ues, served \in Seq(UeEntry) : Speaks(kind, ues, served)
  BY <1>2
<1>4. inQueue' \in Seq(Item) /\ NoticeOnce' /\ Stages'
  BY <1>3, JoinStep
<1>5. StageTypes' /\ SentToConnected'
  BY <1>1, <1>3, <1>4 DEF IInv, StageTypes, SentToConnected, configured
<1> QED
  BY <1>4, <1>5 DEF IInv

-------------------------------------------------------------------------------
\* IInv holds in every state.
THEOREM Invariance == Spec => []IInv
<1>1. Init => IInv
  BY InitIInv
<1>2. IInv /\ [Next]_vars => IInv'
  <2> SUFFICES ASSUME IInv, [Next]_vars PROVE IInv'
    OBVIOUS
  <2>1. CASE QueueEmpty
    BY <2>1 DEF QueueEmpty, ribVars, agentVars, IInv, StageTypes, NoticeOnce,
                SentToConnected, Stages, configured
  <2>2. CASE UNCHANGED vars
    BY <2>2 DEF vars, taskVars, ribVars, agentVars, IInv, StageTypes, NoticeOnce,
                SentToConnected, Stages, configured
  <2> QED
    BY <2>1, <2>2, CheckStep, DropStep, AppsStep, ConnectStep, AnswerStep, SpeakStep
    DEF Next
<1> QED
  BY <1>1, <1>2, PTL DEF Spec

\* No agent is ever pending and configured at once, only connected agents are
\* either, and statistics are asked only of configured ones: for any number of
\* agents, any budget of update_rib and any load.
THEOREM StagesHold == Spec => []Stages
  BY Invariance, PTL DEF IInv

\* The RIB never forgets an agent, and changes its entry only by taking a message
\* of that very agent, for any interleaving of the agents' messages.
THEOREM EntriesChangeByMessage == Spec => EntriesOnlyByMessage
<1> DEFINE Kept(a) ==
      /\ a \in configured => a \in configured'
      /\ a \in configured /\ eNBConfigs'[a] # eNBConfigs[a] =>
           inQueue # <<>> /\ Head(inQueue).tag = a /\ inQueue' = Tail(inQueue)
<1>1. IInv /\ [Next]_vars => [\A a \in Agent : Kept(a)]_vars
  <2> SUFFICES ASSUME IInv, [Next]_vars, NEW a \in Agent PROVE Kept(a)
    OBVIOUS
  <2>1. CASE UNCHANGED eNBConfigs
    BY <2>1 DEF configured
  <2>2. CASE CheckMessage
    <3> DEFINE m == Head(inQueue)
    <3>1. /\ inQueue # <<>> /\ inQueue' = Tail(inQueue) /\ Handle(m) /\ m \in Item
      BY <2>2 DEF CheckMessage, IInv, StageTypes
    <3> HIDE DEF m
    <3>2. a \in configured => a \in configured'
      BY <3>1, HandleMoves DEF IInv
    <3>3. a \in configured /\ m.tag # a => eNBConfigs'[a] = eNBConfigs[a]
      <4>1. CASE m.kind \in {"notice", "hello", "echo", "greeting", "trigger", "stats"}
        BY <3>1, <4>1 DEF Handle, HandleNewConnection, HandleHello, HandleEcho,
                          HandleNothing, ribVars
      <4>2. CASE m.kind = "enbReply"
        BY <3>1, <4>2 DEF Handle, HandleEnbReply, ribVars
      <4>3. CASE m.kind \in {"ueReply", "lcReply"}
        BY <3>1, <4>3 DEF Handle, HandleUeReply, HandleLcReply, UpdateEntry, configured
      <4>4. CASE m.kind \in {"activated", "deactivated", "updated"}
        BY <3>1, <4>4 DEF Handle, HandleStateChange, UpdateEntry, configured
      <4> QED
        BY <3>1, <4>1, <4>2, <4>3, <4>4 DEF Item, Kinds
    <3> QED
      BY <3>1, <3>2, <3>3 DEF m
  <2> QED
    BY <2>1, <2>2
    DEF Next, vars, DropMessage, QueueEmpty, RunApps, Connect, Answer, UeChanges,
        UeAttaches, UeLeaves, UeReconfigured, Change, Reports, Report, ribVars
<1> QED
  BY <1>1, Invariance, PTL DEF Spec, EntriesOnlyByMessage

-----------------------------------------------------------------------------
(* Numbers from 0 to n                                                     *)

\* A set of such numbers has a least one.
LEMMA LeastNumber ==
  ASSUME NEW n \in Nat, NEW T \in SUBSET (0 .. n), T # {}
  PROVE  /\ \E i \in T : \A k \in T : i <= k
         /\ Min(T) \in T /\ \A k \in T : Min(T) <= k
<1> DEFINE Closed == {U \in SUBSET T : U # {} /\ \A i \in U, k \in T : k < i => k \in U}
           R == StrictSubsetOrdering(T)
<1>1. IsFiniteSet(T) /\ \A i \in T : i \in Int
  <2>1. IsFiniteSet(0 .. n)
    BY FS_Interval
  <2>2. IsFiniteSet(T)
    BY <2>1, FS_Subset
  <2> QED
    BY <2>2
<1>2. IsWellFoundedOn(R, SUBSET T)
  BY <1>1, FS_StrictSubsetOrderingWellFounded, FS_FiniteSubsetsOfFinite
<1>3. Closed \subseteq SUBSET T /\ Closed # {}
  <2>1. T \in Closed
    OBVIOUS
  <2> QED
    BY <2>1
<1>4. PICK U \in Closed : \A V \in Closed : ~(<<V, U>> \in R)
  <2> HIDE DEF R, Closed
  <2> QED
    BY <1>2, <1>3, WFMin
<1>5. PICK i \in U : TRUE
  OBVIOUS
<1>6. i \in T /\ i \in Int
  BY <1>1
<1>7. ASSUME NEW k \in T, k < i PROVE FALSE
  <2> DEFINE V == {j \in U : j < i}
  <2>1. V \in Closed
    <3>1. k \in V
      BY <1>4, <1>5, <1>7
    <3>2. ASSUME NEW j \in V, NEW h \in T, h < j PROVE h \in V
      BY <1>1, <1>4, <1>6, <3>2
    <3> QED
      BY <1>4, <3>1, <3>2
  <2>2. V \subseteq U /\ V # U
    BY <1>5, <1>6
  <2>3. <<V, U>> \in R
    BY <2>1, <2>2 DEF StrictSubsetOrdering
  <2> QED
    BY <1>4, <2>1, <2>3
<1>8. \A k \in T : i <= k
  BY <1>1, <1>6, <1>7
<1> QED
  BY <1>6, <1>8 DEF Min

\* What holds of 0, and of a number when it holds of the one before, holds up to n.
LEMMA Steps ==
  ASSUME NEW n \in Nat, NEW S, 0 \in S, \A j \in 1 .. n : j - 1 \in S => j \in S
  PROVE  \A j \in 0 .. n : j \in S
<1> SUFFICES ASSUME (0 .. n) \ S # {} PROVE FALSE
  OBVIOUS
<1>1. PICK i \in (0 .. n) \ S : \A k \in (0 .. n) \ S : i <= k
  <2>1. (0 .. n) \ S \in SUBSET (0 .. n)
    OBVIOUS
  <2> QED
    BY <2>1, LeastNumber
<1>2. i # 0 /\ i \in 1 .. n /\ i - 1 \in 0 .. n
  OBVIOUS
<1>3. i - 1 \in S
  BY <1>1, <1>2
<1> QED
  BY <1>2, <1>3

\* g holds a value that starts as e and is made from the one before by step[j].
Iterates(g, n, T, e, step) ==
  /\ g \in [0 .. n -> T]
  /\ g[0] = e /\ \A j \in 1 .. n : g[j] = step[j][g[j - 1]]

\* There is one.
LEMMA Iterated ==
  ASSUME NEW n \in Nat, NEW T, NEW e \in T, NEW step \in [1 .. n -> [T -> T]]
  PROVE  \E g : Iterates(g, n, T, e, step)
<1> DEFINE Does(g, k) == g[0] = e /\ \A j \in 1 .. k : g[j] = step[j][g[j - 1]]
           S == {k \in 0 .. n : \E g \in [0 .. k -> T] : Does(g, k)}
<1>1. 0 \in S
  <2> DEFINE g == [i \in 0 .. 0 |-> e]
  <2>1. g \in [0 .. 0 -> T] /\ Does(g, 0)
    OBVIOUS
  <2> HIDE DEF g, Does
  <2> QED
    BY <2>1
<1>2. ASSUME NEW k \in 1 .. n, k - 1 \in S PROVE k \in S
  <2>1. PICK g \in [0 .. k - 1 -> T] : Does(g, k - 1)
    BY <1>2
  <2> DEFINE h == [i \in 0 .. k |-> IF i = k THEN step[k][g[k - 1]] ELSE g[i]]
  <2>2. g[k - 1] \in T /\ step[k] \in [T -> T]
    OBVIOUS
  <2>3. h \in [0 .. k -> T]
    BY <2>2
  <2>4. h[0] = e
    <3>1. g[0] = e /\ 0 # k /\ 0 \in 0 .. k
      BY <2>1
    <3> QED
      BY <3>1
  <2>5. ASSUME NEW j \in 1 .. k PROVE h[j] = step[j][h[j - 1]]
    <3>1. CASE j = k
      BY <3>1
    <3>2. CASE j # k
      <4>1. j \in 1 .. k - 1 /\ h[j] = g[j] /\ h[j - 1] = g[j - 1]
        BY <3>2
      <4> QED
        BY <2>1, <4>1
    <3> QED
      BY <3>1, <3>2
  <2>6. k \in 0 .. n /\ Does(h, k)
    <3> HIDE DEF h
    <3> QED
      BY <2>4, <2>5
  <2> HIDE DEF h, Does
  <2> QED
    BY <2>3, <2>6
<1>3. \A j \in 1 .. n : j - 1 \in S => j \in S
  <2> HIDE DEF S
  <2> QED
    BY <1>2
<1>4. n \in S
  <2> HIDE DEF S
  <2>1. \A j \in 0 .. n : j \in S
    BY <1>1, <1>3, Steps
  <2> QED
    BY <2>1
<1> QED
  BY <1>4 DEF Iterates

-------------------------------------------------------------------------------
(* The entry of an agent                                                       *)

\* No UE is listed twice.
Distinct(ue) == \A i, j \in DOMAIN ue : ue[i].rnti = ue[j].rnti => i = j

\* MacInfoMatchesConfig of one entry, with what a deactivation rests on: the logical
\* channels of a UE are listed once, so that none is stepped over.
SoundInfo(info) ==
  /\ info.mac = Rntis(info.ue) /\ Distinct(info.ue)
  /\ \A i \in DOMAIN info.lc : info.lc[i] \in info.mac
  /\ \A i, j \in DOMAIN info.lc : info.lc[i] = info.lc[j] => i = j

\* RemoveAt closes the gap that it makes.
LEMMA RemovedFacts ==
  ASSUME NEW T, NEW s \in Seq(T), NEW i \in 1 .. Len(s)
  PROVE  /\ RemoveAt(s, i) \in Seq(T)
         /\ Len(RemoveAt(s, i)) = Len(s) - 1
         /\ \A j \in 1 .. Len(s) - 1 : RemoveAt(s, i)[j] = IF j < i THEN s[j] ELSE s[j + 1]
<1> DEFINE left == SubSeq(s, 1, i - 1)
           right == SubSeq(s, i + 1, Len(s))
<1>1. Len(s) \in Nat /\ i \in Int /\ 1 <= i /\ i <= Len(s)
  OBVIOUS
<1>2. left \in Seq(T) /\ Len(left) = i - 1 /\ \A j \in 1 .. i - 1 : left[j] = s[j]
  BY <1>1
<1>3. /\ right \in Seq(T) /\ Len(right) = Len(s) - i
      /\ \A j \in 1 .. Len(s) - i : right[j] = s[j + i]
  BY <1>1
<1>4. RemoveAt(s, i) = left \o right
  BY DEF RemoveAt
<1> HIDE DEF left, right
<1>5. left \o right \in Seq(T) /\ Len(left \o right) = Len(s) - 1
  <2>1. left \o right \in Seq(T) /\ Len(left \o right) = Len(left) + Len(right)
    <3>1. left \in Seq(T) /\ right \in Seq(T)
      BY <1>2, <1>3
    <3> QED
      BY <3>1
  <2> QED
    BY <1>1, <1>2, <1>3, <2>1
<1>6. ASSUME NEW j \in 1 .. Len(s) - 1
      PROVE  (left \o right)[j] = IF j < i THEN s[j] ELSE s[j + 1]
  <2>1. CASE j < i
    <3>1. j \in 1 .. Len(left) /\ j \in 1 .. i - 1
      BY <1>1, <1>2, <2>1
    <3> QED
      BY <1>2, <1>3, <2>1, <3>1
  <2>2. CASE ~(j < i)
    <3>1. j - (i - 1) \in 1 .. Len(s) - i /\ j - (i - 1) + i = j + 1 /\ j > Len(left)
          /\ j <= Len(left) + Len(right)
      BY <1>1, <1>2, <1>3, <2>2
    <3>2. (left \o right)[j] = right[j - Len(left)]
      BY <1>2, <1>3, <3>1
    <3>3. right[j - (i - 1)] = s[j + 1]
      BY <1>3, <3>1
    <3> QED
      BY <1>2, <2>2, <3>2, <3>3
  <2> QED
    BY <2>1, <2>2
<1> QED
  BY <1>4, <1>5, <1>6

\* The UEs that are left when one goes.
LEMMA RemovedUe ==
  ASSUME NEW ue \in Seq(UeEntry), Distinct(ue), NEW i \in 1 .. Len(ue)
  PROVE  /\ RemoveAt(ue, i) \in Seq(UeEntry) /\ Distinct(RemoveAt(ue, i))
         /\ Rntis(RemoveAt(ue, i)) = Rntis(ue) \ {ue[i].rnti}
<1> DEFINE left == RemoveAt(ue, i)
           n == Len(ue)
           At(j) == IF j < i THEN j ELSE j + 1
<1>1. n \in Nat /\ i \in Int /\ 1 <= i /\ i <= n /\ DOMAIN ue = 1 .. n
  OBVIOUS
<1>2. /\ left \in Seq(UeEntry) /\ Len(left) = n - 1
      /\ \A j \in 1 .. n - 1 : left[j] = IF j < i THEN ue[j] ELSE ue[j + 1]
  BY RemovedFacts
<1> HIDE DEF left, n
<1>3. DOMAIN left = 1 .. n - 1
  BY <1>2
<1>4. \A j \in 1 .. n - 1 : left[j] = ue[At(j)] /\ At(j) \in 1 .. n /\ At(j) # i
  BY <1>1, <1>2
<1>5. \A j, k \in 1 .. n - 1 : At(j) = At(k) => j = k
  BY <1>1
<1> HIDE DEF At
<1>6. Distinct(left)
  BY <1>1, <1>3, <1>4, <1>5 DEF Distinct
<1>7. ASSUME NEW k \in 1 .. n, k # i PROVE \E j \in 1 .. n - 1 : At(j) = k
  <2>1. CASE k < i
    <3>1. k \in 1 .. n - 1 /\ At(k) = k
      BY <1>1, <2>1 DEF At
    <3> QED
      BY <3>1
  <2>2. CASE ~(k < i)
    <3>1. k - 1 \in 1 .. n - 1 /\ At(k - 1) = k
      BY <1>1, <1>7, <2>2 DEF At
    <3> QED
      BY <3>1
  <2> QED
    BY <2>1, <2>2
<1>8. Rntis(left) \subseteq Rntis(ue) \ {ue[i].rnti}
  <2> SUFFICES ASSUME NEW j \in 1 .. n - 1 PROVE left[j].rnti \in Rntis(ue) \ {ue[i].rnti}
    BY <1>3 DEF Rntis
  <2>1. left[j] = ue[At(j)] /\ At(j) \in DOMAIN ue /\ At(j) # i /\ i \in DOMAIN ue
    BY <1>1, <1>4
  <2> QED
    BY <2>1 DEF Rntis, Distinct
<1>9. Rntis(ue) \ {ue[i].rnti} \subseteq Rntis(left)
  <2> SUFFICES ASSUME NEW k \in 1 .. n, ue[k].rnti # ue[i].rnti PROVE ue[k].rnti \in Rntis(left)
    BY <1>1 DEF Rntis
  <2>1. PICK j \in 1 .. n - 1 : At(j) = k
    BY <1>7
  <2>2. left[j] = ue[k] /\ j \in DOMAIN left
    BY <1>3, <1>4, <2>1
  <2> QED
    BY <2>2 DEF Rntis
<1> QED
  BY <1>2, <1>6, <1>8, <1>9 DEF left

\* The first entry of an rnti goes, listed once or not.
LEMMA FirstRemoved ==
  ASSUME NEW ue \in Seq(UeEntry), NEW r \in Rntis(ue)
  PROVE  RemoveFirstOf(ue, r) \in Seq(UeEntry)
<1> DEFINE n == Len(ue)
           T == {i \in DOMAIN ue : ue[i].rnti = r}
<1>1. n \in Nat /\ DOMAIN ue = 1 .. n
  OBVIOUS
<1>2. T \in SUBSET (0 .. n) /\ T # {} /\ T \subseteq 1 .. n
  BY <1>1 DEF Rntis
<1> HIDE DEF T, n
<1>3. Min(T) \in T
  BY <1>1, <1>2, LeastNumber
<1>4. Min(T) \in 1 .. n
  BY <1>2, <1>3
<1>5. RemoveAt(ue, Min(T)) \in Seq(UeEntry)
  BY <1>4, RemovedFacts DEF n
<1> QED
  BY <1>5 DEF RemoveFirstOf, T

\* One more UE.
LEMMA AppendedUe ==
  ASSUME NEW ue \in Seq(UeEntry), Distinct(ue), NEW e \in UeEntry, e.rnti \notin Rntis(ue)
  PROVE  /\ Append(ue, e) \in Seq(UeEntry) /\ Distinct(Append(ue, e))
         /\ Rntis(Append(ue, e)) = Rntis(ue) \cup {e.rnti}
<1> DEFINE n == Len(ue)
           longer == Append(ue, e)
<1>1. /\ longer \in Seq(UeEntry) /\ n \in Nat /\ DOMAIN ue = 1 .. n
      /\ DOMAIN longer = 1 .. n + 1 /\ longer[n + 1] = e
      /\ \A i \in 1 .. n : longer[i] = ue[i]
  OBVIOUS
<1> HIDE DEF n, longer
<1>2. \A i \in 1 .. n + 1 : i = n + 1 \/ i \in 1 .. n
  BY <1>1
<1>3. n + 1 \in 1 .. n + 1 /\ \A i \in 1 .. n : i \in 1 .. n + 1
  BY <1>1
<1>4. Rntis(longer) = Rntis(ue) \cup {e.rnti}
  BY <1>1, <1>2, <1>3 DEF Rntis
<1>5. Distinct(longer)
  <2> SUFFICES ASSUME NEW i \in 1 .. n + 1, NEW j \in 1 .. n + 1,
                      longer[i].rnti = longer[j].rnti
               PROVE  i = j
    BY <1>1 DEF Distinct
  <2>1. \A k \in 1 .. n : longer[k].rnti # e.rnti
    BY <1>1 DEF Rntis
  <2> QED
    BY <1>1, <1>2, <2>1 DEF Distinct
<1> QED
  BY <1>1, <1>4, <1>5 DEF longer

\* Another configuration of a UE.
LEMMA ReplacedUe ==
  ASSUME NEW ue \in Seq(UeEntry), Distinct(ue), NEW i \in 1 .. Len(ue), NEW e \in UeEntry,
         ue[i].rnti = e.rnti
  PROVE  /\ [ue EXCEPT ![i] = e] \in Seq(UeEntry) /\ Distinct([ue EXCEPT ![i] = e])
         /\ Rntis([ue EXCEPT ![i] = e]) = Rntis(ue)
<1> DEFINE new == [ue EXCEPT ![i] = e]
<1>1. new \in Seq(UeEntry) /\ DOMAIN new = DOMAIN ue
  OBVIOUS
<1>2. \A k \in DOMAIN ue : new[k].rnti = ue[k].rnti
  OBVIOUS
<1> HIDE DEF new
<1> QED
  BY <1>1, <1>2 DEF new, Distinct, Rntis

\* Where an rnti is listed once, the first entry of it is the one.
LEMMA FirstIsOnly ==
  ASSUME NEW ue \in Seq(UeEntry), Distinct(ue), NEW i \in 1 .. Len(ue)
  PROVE  RemoveFirstOf(ue, ue[i].rnti) = RemoveAt(ue, i)
<1> DEFINE T == {k \in DOMAIN ue : ue[k].rnti = ue[i].rnti}
<1>1. DOMAIN ue = 1 .. Len(ue) /\ i \in DOMAIN ue /\ i \in Int
  OBVIOUS
<1>2. T = {i}
  BY <1>1 DEF Distinct
<1>3. Min({i}) = i
  <2>1. \E x \in {i} : \A y \in {i} : x <= y
    BY <1>1
  <2> QED
    BY <2>1 DEF Min
<1> QED
  BY <1>2, <1>3 DEF RemoveFirstOf

\* The loop over the logical channels removes those of r, where none is listed twice:
\* what it steps over is another's.
LEMMA DeleteLcFacts ==
  ASSUME NEW lc \in Seq(Rnti), NEW r
  PROVE  /\ DeleteLc(lc, r) \in Seq(Rnti)
         /\ (\A i, j \in DOMAIN lc : lc[i] = lc[j] => i = j) =>
              /\ \A i \in DOMAIN DeleteLc(lc, r) :
                   DeleteLc(lc, r)[i] # r /\ \E k \in DOMAIN lc : DeleteLc(lc, r)[i] = lc[k]
              /\ \A i, j \in DOMAIN DeleteLc(lc, r) :
                   DeleteLc(lc, r)[i] = DeleteLc(lc, r)[j] => i = j
<1> DEFINE n == Len(lc)
           Acc == [kept : Seq(Rnti), stepOver : BOOLEAN]
           first == [kept |-> <<>>, stepOver |-> FALSE]
           Next1(acc, x) == IF x = r /\ ~acc.stepOver THEN [acc EXCEPT !.stepOver = TRUE]
                            ELSE [kept |-> Append(acc.kept, x), stepOver |-> FALSE]
           E(f) == f = [j \in 0 .. n |-> IF j = 0 THEN first ELSE Next1(f[j - 1], lc[j])]
           step == [j \in 1 .. n |-> [acc \in Acc |-> Next1(acc, lc[j])]]
<1>1. n \in Nat /\ \A j \in 1 .. n : lc[j] \in Rnti
  OBVIOUS
<1>2. \A acc \in Acc, x \in Rnti : Next1(acc, x) \in Acc
  <2> SUFFICES ASSUME NEW acc \in Acc, NEW x \in Rnti PROVE Next1(acc, x) \in Acc
    OBVIOUS
  <2>1. Append(acc.kept, x) \in Seq(Rnti)
    OBVIOUS
  <2> QED
    BY <2>1
<1>3. first \in Acc
  OBVIOUS
<1> DEFINE h == CHOOSE f : E(f)
<1>4. E(h)
  <2>1. step \in [1 .. n -> [Acc -> Acc]]
    <3> HIDE DEF Acc, n, Next1
    <3> QED
      BY <1>1, <1>2
  <2>2. PICK g : Iterates(g, n, Acc, first, step)
    <3> HIDE DEF Acc, n, step, first, E
    <3> QED
      BY <1>1, <1>3, <2>1, Iterated
  <2>3. g = [j \in 0 .. n |-> IF j = 0 THEN first ELSE Next1(g[j - 1], lc[j])]
    <3>1. g \in [0 .. n -> Acc] /\ g[0] = first /\ \A j \in 1 .. n : g[j] = step[j][g[j - 1]]
      BY <2>2 DEF Iterates
    <3> HIDE DEF Acc, n, first, Next1
    <3>2. ASSUME NEW j \in 1 .. n PROVE g[j] = Next1(g[j - 1], lc[j])
      <4>1. j - 1 \in 0 .. n /\ g[j - 1] \in Acc
        BY <1>1, <3>1
      <4> QED
        BY <3>1, <4>1
    <3> QED
      BY <1>1, <3>1, <3>2
  <2>4. E(g)
    BY <2>3
  <2> HIDE DEF E
  <2> QED
    BY <2>4
<1>5. DeleteLc(lc, r) = h[n].kept
  BY DEF DeleteLc
<1>6. h[0] = first /\ \A j \in 1 .. n : h[j] = Next1(h[j - 1], lc[j])
  <2>1. h = [j \in 0 .. n |-> IF j = 0 THEN first ELSE Next1(h[j - 1], lc[j])]
    BY <1>4
  <2> HIDE DEF h, n, first, Next1, E
  <2> QED
    BY <1>1, <2>1
<1> HIDE DEF h
<1>12. DeleteLc(lc, r) \in Seq(Rnti)
  <2> DEFINE A == {j \in 0 .. n : h[j] \in Acc}
  <2>1. 0 \in A
    <3> HIDE DEF Acc, first, n
    <3>1. h[0] \in Acc
      BY <1>3, <1>6
    <3>2. 0 \in 0 .. n
      BY <1>1
    <3> QED
      BY <3>1, <3>2
  <2>2. ASSUME NEW j \in 1 .. n, j - 1 \in A PROVE j \in A
    <3> HIDE DEF Acc, Next1, n, first
    <3> QED
      BY <1>1, <1>2, <1>6, <2>2
  <2>3. n \in A
    <3> HIDE DEF A, n
    <3>1. \A j \in 0 .. n : j \in A
      BY <1>1, <2>1, <2>2, Steps
    <3> QED
      BY <1>1, <3>1
  <2> QED
    BY <1>5, <2>3
<1> SUFFICES ASSUME \A i, j \in DOMAIN lc : lc[i] = lc[j] => i = j
             PROVE  /\ \A i \in DOMAIN DeleteLc(lc, r) :
                         DeleteLc(lc, r)[i] # r /\ \E k \in DOMAIN lc : DeleteLc(lc, r)[i] = lc[k]
                    /\ \A i, j \in DOMAIN DeleteLc(lc, r) :
                         DeleteLc(lc, r)[i] = DeleteLc(lc, r)[j] => i = j
  BY <1>12
<1> DEFINE Kept(s, j) == /\ s \in Seq(Rnti)
                         /\ \A i \in DOMAIN s : s[i] # r /\ \E k \in 1 .. j : s[i] = lc[k]
                         /\ \A i, k \in DOMAIN s : s[i] = s[k] => i = k
           S == {j \in 0 .. n : /\ h[j] \in Acc /\ Kept(h[j].kept, j)
                                /\ h[j].stepOver => j > 0 /\ lc[j] = r}
<1>7. 0 \in S
  <2>1. h[0].kept = <<>> /\ h[0].stepOver = FALSE /\ h[0] \in Acc
    BY <1>3, <1>6
  <2>2. Kept(<<>>, 0)
    OBVIOUS
  <2> HIDE DEF Kept, Acc
  <2> QED
    BY <1>1, <2>1, <2>2
<1>8. ASSUME NEW j \in 1 .. n, j - 1 \in S PROVE j \in S
  <2> DEFINE s == h[j - 1].kept
             x == lc[j]
  <2>1. /\ j \in Int /\ x \in Rnti /\ h[j - 1] \in Acc /\ Kept(s, j - 1)
        /\ h[j - 1].stepOver => j - 1 > 0 /\ lc[j - 1] = r
    BY <1>1, <1>8
  <2>2. h[j] = Next1(h[j - 1], x)
    BY <1>6
  <2>3. h[j] \in Acc
    <3> HIDE DEF Next1, Acc, x
    <3> QED
      BY <1>2, <2>1, <2>2
  <2>4. CASE x = r /\ ~h[j - 1].stepOver
    <3>1. h[j].kept = s /\ h[j].stepOver = TRUE
      BY <2>1, <2>2, <2>4
    <3>2. Kept(s, j)
      BY <2>1
    <3> QED
      BY <1>1, <2>1, <2>3, <2>4, <3>1, <3>2
  <2>5. CASE ~(x = r /\ ~h[j - 1].stepOver)
    <3>1. h[j].kept = Append(s, x) /\ h[j].stepOver = FALSE
      BY <2>1, <2>2, <2>5
    <3>2. x # r
      <4>1. SUFFICES ASSUME x = r PROVE FALSE
        OBVIOUS
      <4>2. h[j - 1].stepOver
        BY <2>1, <2>5, <4>1
      <4>3. lc[j - 1] = lc[j] /\ j - 1 \in DOMAIN lc /\ j \in DOMAIN lc
        BY <1>1, <2>1, <4>1, <4>2
      <4> QED
        BY <2>1, <4>3
    <3>3. \A k \in 1 .. j - 1 : lc[k] # x
      BY <1>1, <2>1
    <3> HIDE DEF s, x
    <3>4. /\ s \in Seq(Rnti) /\ Append(s, x) \in Seq(Rnti)
          /\ DOMAIN s = 1 .. Len(s) /\ DOMAIN Append(s, x) = 1 .. Len(s) + 1
          /\ Len(s) \in Nat
          /\ Append(s, x)[Len(s) + 1] = x /\ \A i \in 1 .. Len(s) : Append(s, x)[i] = s[i]
      BY <2>1
    <3>5. \A i \in DOMAIN s : s[i] # x
      BY <2>1, <3>3
    <3>6. \A i \in 1 .. Len(s) + 1 : i = Len(s) + 1 \/ i \in 1 .. Len(s)
      BY <3>4
    <3>7. Kept(Append(s, x), j)
      <4>1. ASSUME NEW i \in 1 .. Len(s) + 1
            PROVE  Append(s, x)[i] # r /\ \E k \in 1 .. j : Append(s, x)[i] = lc[k]
        <5>1. CASE i = Len(s) + 1
          <6>1. x = lc[j] /\ j \in 1 .. j
            BY <2>1 DEF x
          <6> QED
            BY <3>2, <3>4, <5>1, <6>1
        <5>2. CASE i \in 1 .. Len(s)
          <6>1. s[i] # r /\ \E k \in 1 .. j - 1 : s[i] = lc[k]
            BY <2>1, <3>4, <5>2
          <6>2. \A k \in 1 .. j - 1 : k \in 1 .. j
            BY <2>1
          <6> QED
            BY <3>4, <5>2, <6>1, <6>2
        <5> QED
          BY <3>6, <5>1, <5>2
      <4>2. ASSUME NEW i \in 1 .. Len(s) + 1, NEW k \in 1 .. Len(s) + 1,
                   Append(s, x)[i] = Append(s, x)[k]
            PROVE  i = k
        BY <2>1, <3>4, <3>5, <3>6, <4>2
      <4> QED
        BY <3>4, <4>1, <4>2
    <3>8. Kept(h[j].kept, j) /\ ~h[j].stepOver
      BY <3>1, <3>7
    <3> HIDE DEF Kept, Acc
    <3> QED
      BY <1>1, <2>1, <2>3, <3>8
  <2> QED
    BY <2>4, <2>5
<1>9. n \in S
  <2> HIDE DEF S, n
  <2>1. \A j \in 0 .. n : j \in S
    BY <1>1, <1>7, <1>8, Steps
  <2> QED
    BY <1>1, <2>1
<1>10. Kept(h[n].kept, n)
  <2> HIDE DEF Kept, n
  <2> QED
    BY <1>9
<1>11. DOMAIN lc = 1 .. n
  OBVIOUS
<1> HIDE DEF n
<1> QED
  BY <1>5, <1>10, <1>11
-------------------------------------------------------------------------------
(* Types                                                                   *)

\* Whatever the entry holds, a reply or a state change makes another entry of it.
LEMMA ReplyTypes ==
  ASSUME NEW info \in Info, NEW ues \in Seq(UeEntry)
  PROVE  /\ UpdateUEConfig(info, ues) \in Info
         /\ UpdateLCConfig(info, [i \in DOMAIN ues |-> ues[i].rnti]) \in Info
<1> DEFINE lc == [i \in DOMAIN ues |-> ues[i].rnti]
           mac == info.mac \cup Rntis(ues)
<1>1. DOMAIN ues = 1 .. Len(ues) /\ Len(ues) \in Nat /\ \A i \in DOMAIN ues : ues[i] \in UeEntry
  OBVIOUS
<1>2. \A i \in DOMAIN ues : ues[i].rnti \in Rnti
  BY <1>1 DEF UeEntry
<1>3. lc \in Seq(Rnti)
  BY <1>1, <1>2
<1>4. mac \in SUBSET Rnti
  BY <1>2 DEF Info, Rntis
<1>5. UpdateUEConfig(info, ues) = [info EXCEPT !.ue = ues, !.mac = mac]
  BY DEF UpdateUEConfig
<1>6. UpdateLCConfig(info, lc) = [info EXCEPT !.lc = lc]
  BY DEF UpdateLCConfig
<1> HIDE DEF lc, mac
<1>7. UpdateUEConfig(info, ues) \in Info
  BY <1>4, <1>5 DEF Info
<1>8. UpdateLCConfig(info, lc) \in Info
  BY <1>3, <1>6 DEF Info
<1> QED
  BY <1>7, <1>8 DEF lc

LEMMA ChangeTypes ==
  ASSUME NEW info \in Info, NEW kind, NEW e \in UeEntry
  PROVE  ChangedInfo(info, kind, e) \in Info
<1>1. /\ info.ue \in Seq(UeEntry) /\ info.mac \in SUBSET Rnti /\ info.lc \in Seq(Rnti)
      /\ e.rnti \in Rnti
  BY DEF Info, UeEntry
<1>2. Activate(info, e) \in Info
  <2> DEFINE longer == Append(info.ue, e)
             mac == info.mac \cup {e.rnti}
  <2>1. longer \in Seq(UeEntry) /\ mac \in SUBSET Rnti
    BY <1>1
  <2>2. Activate(info, e) = [info EXCEPT !.ue = longer, !.mac = mac]
    BY DEF Activate
  <2> HIDE DEF longer, mac
  <2> QED
    BY <2>1, <2>2 DEF Info
<1>3. Deactivate(info, e.rnti) \in Info
  <2>1. CASE e.rnti \notin Rntis(info.ue)
    BY <2>1 DEF Deactivate
  <2>2. CASE e.rnti \in Rntis(info.ue)
    <3>1. RemoveFirstOf(info.ue, e.rnti) \in Seq(UeEntry)
      BY <1>1, <2>2, FirstRemoved
    <3>2. DeleteLc(info.lc, e.rnti) \in Seq(Rnti)
      BY <1>1, DeleteLcFacts
    <3> QED
      BY <1>1, <2>2, <3>1, <3>2 DEF Deactivate, Info
  <2> QED
    BY <2>1, <2>2
<1>4. UpdateUE(info, e) \in Info
  <2> DEFINE changed == [i \in DOMAIN info.ue |-> IF info.ue[i].rnti = e.rnti THEN e ELSE info.ue[i]]
  <2>1. changed \in Seq(UeEntry)
    BY <1>1
  <2>2. UpdateUE(info, e) = [info EXCEPT !.ue = changed]
    BY DEF UpdateUE
  <2> HIDE DEF changed
  <2> QED
    BY <2>1, <2>2 DEF Info
<1> QED
  BY <1>2, <1>3, <1>4 DEF ChangedInfo

\* TypeOK but for what StageTypes says, and that a state change names a UE.
OtherTypes ==
  /\ phase \in {"rib", "apps"} /\ remMsgs \in 0 .. Budget
  /\ eNBConfigs \in [configured -> Info]
  /\ connected \in SUBSET Agent /\ told \in SUBSET Agent /\ reporting \in SUBSET Agent
  /\ changes \in [Agent -> Nat] /\ reports \in [Agent -> Nat]
  /\ \A i \in 1 .. Len(inQueue) :
       inQueue[i].kind \in {"activated", "deactivated", "updated"} => inQueue[i].ues # <<>>

\* A handler leaves the RIB well typed.
LEMMA HandleTypes ==
  ASSUME StageTypes, eNBConfigs \in [configured -> Info], NEW m \in Item, Handle(m),
         m.kind \in {"activated", "deactivated", "updated"} => m.ues # <<>>
  PROVE  eNBConfigs' \in [configured' -> Info]
<1>1. m.tag \in Agent /\ m.kind \in Kinds /\ m.ues \in Seq(UeEntry)
  BY DEF Item
<1>2. ASSUME NEW new, m.tag \in configured => new \in Info, UpdateEntry(m.tag, new)
      PROVE  eNBConfigs' \in [configured' -> Info]
  BY <1>2 DEF UpdateEntry, configured
<1>3. CASE m.kind \in {"notice", "hello", "echo", "greeting", "trigger", "stats"}
  BY <1>3 DEF Handle, HandleNewConnection, HandleHello, HandleEcho, HandleNothing,
              ribVars, configured
<1>4. CASE m.kind = "enbReply"
  <2>1. NewInfo \in Info
    BY DEF NewInfo, Info
  <2>2. \/ UNCHANGED eNBConfigs
        \/ eNBConfigs' = [b \in configured \cup {m.tag} |->
                            IF b \in configured THEN eNBConfigs[b] ELSE NewInfo]
    BY <1>4 DEF Handle, HandleEnbReply, ribVars
  <2> QED
    BY <2>1, <2>2 DEF configured
<1>5. CASE m.kind = "ueReply"
  BY <1>1, <1>2, <1>5, ReplyTypes DEF Handle, HandleUeReply
<1>6. CASE m.kind = "lcReply"
  BY <1>1, <1>2, <1>6, ReplyTypes DEF Handle, HandleLcReply
<1>7. CASE m.kind \in {"activated", "deactivated", "updated"}
  <2>1. m.ues[1] \in UeEntry
    BY <1>1, <1>7
  <2>2. m.tag \in configured => ChangedInfo(eNBConfigs[m.tag], m.kind, m.ues[1]) \in Info
    BY <2>1, ChangeTypes
  <2>3. UpdateEntry(m.tag, ChangedInfo(eNBConfigs[m.tag], m.kind, m.ues[1]))
    BY <1>7 DEF Handle, HandleStateChange
  <2> QED
    BY <1>2, <2>2, <2>3
<1> QED
  BY <1>1, <1>3, <1>4, <1>5, <1>6, <1>7 DEF Kinds

\* Every variable stays in its type, whatever the load: rem_msgs within the budget, the
\* RIB a map of well formed entries, every message in the queue one that an agent sends
\* (rib_updater::update_rib and its handlers).
THEOREM TypeCorrect == Spec => []TypeOK
<1> DEFINE Named(q) == \A i \in 1 .. Len(q) :
      q[i].kind \in {"activated", "deactivated", "updated"} => q[i].ues # <<>>
<1>1. Init => OtherTypes
  <2> SUFFICES ASSUME Init PROVE OtherTypes
    OBVIOUS
  <2>1. Len(inQueue) = 0 /\ configured = {} /\ eNBConfigs \in [configured -> Info]
    BY DEF Init, configured
  <2> QED
    BY <2>1, RibAssumption DEF Init, OtherTypes
<1>2. IInv /\ OtherTypes /\ [Next]_vars => OtherTypes'
  <2> SUFFICES ASSUME IInv, OtherTypes, [Next]_vars PROVE OtherTypes'
    OBVIOUS
  <2>1. inQueue \in Seq(Item) /\ Named(inQueue)
    BY DEF IInv, StageTypes, OtherTypes
  <2>2. ASSUME inQueue # <<>>, inQueue' = Tail(inQueue) PROVE Named(inQueue')
    BY <2>1, <2>2, TailKeeps DEF IInv
  <2>3. ASSUME NEW a \in Agent, NEW kind, NEW ues, AgentSends(a, kind, ues),
               kind \in {"activated", "deactivated", "updated"} => ues # <<>>
        PROVE  Named(inQueue')
    <3> DEFINE m == Msg(a, kind, ues)
    <3>1. m.kind = kind /\ m.ues = ues /\ inQueue' = Append(inQueue, m)
      BY <2>3 DEF Msg, AgentSends
    <3> HIDE DEF m
    <3>2. \A i \in 1 .. Len(inQueue') :
            \/ i \in 1 .. Len(inQueue) /\ inQueue'[i] = inQueue[i]
            \/ inQueue'[i] = m
      BY <2>1, <3>1
    <3> QED
      BY <2>1, <2>3, <3>1, <3>2
  <2> HIDE DEF Named
  <2>4. CASE CheckMessage
    <3> DEFINE m == Head(inQueue)
    <3>1. /\ inQueue # <<>> /\ inQueue' = Tail(inQueue) /\ Handle(m)
          /\ remMsgs > 0 /\ remMsgs' = remMsgs - 1
          /\ UNCHANGED <<phase, connected, told, reporting, changes, reports>>
      BY <2>4 DEF CheckMessage, agentVars
    <3>2. m \in Item /\ m = inQueue[1] /\ 1 \in 1 .. Len(inQueue)
      BY <3>1, TailKeeps DEF IInv
    <3>3. m.kind \in {"activated", "deactivated", "updated"} => m.ues # <<>>
      BY <2>1, <3>2 DEF Named
    <3> HIDE DEF m
    <3>4. eNBConfigs' \in [configured' -> Info]
      BY <3>1, <3>2, <3>3, HandleTypes DEF IInv, OtherTypes
    <3>5. remMsgs' \in 0 .. Budget
      BY <3>1, RibAssumption DEF OtherTypes
    <3> QED
      BY <2>2, <3>1, <3>4, <3>5 DEF OtherTypes, Named
  <2>5. CASE DropMessage \/ QueueEmpty \/ RunApps \/ UNCHANGED vars
    <3>1. inQueue' = inQueue \/ (inQueue # <<>> /\ inQueue' = Tail(inQueue))
      BY <2>5 DEF DropMessage, QueueEmpty, RunApps, vars
    <3>2. /\ phase' \in {"rib", "apps"} /\ remMsgs' \in 0 .. Budget
          /\ UNCHANGED <<eNBConfigs, connected, told, reporting, changes, reports>>
      BY <2>5, RibAssumption
      DEF DropMessage, QueueEmpty, RunApps, vars, taskVars, ribVars, agentVars, OtherTypes
    <3>3. Named(inQueue')
      BY <2>1, <2>2, <3>1
    <3> QED
      BY <3>2, <3>3 DEF OtherTypes, configured, Named
  <2>6. ASSUME NEW a \in Agent, Connect(a) PROVE OtherTypes'
    <3>1. Named(inQueue')
      BY <2>3, <2>6 DEF Connect
    <3> QED
      BY <2>6, <3>1 DEF Connect, taskVars, ribVars, OtherTypes, configured, Named
  <2>7. ASSUME NEW a \in Agent, Answer(a) PROVE OtherTypes'
    <3>1. /\ told' \in SUBSET Agent /\ reporting' \in SUBSET Agent
          /\ inQueue' = inQueue \/ Named(inQueue')
      BY <2>3, <2>7 DEF Answer, AnswerWith, NoAnswer, OtherTypes
    <3> QED
      BY <2>1, <2>7, <3>1 DEF Answer, taskVars, ribVars, OtherTypes, configured, Named
  <2>8. ASSUME NEW a \in Agent, NEW kind, NEW e, NEW ues, Change(a, kind, e, ues)
        PROVE  OtherTypes'
    <3>1. Named(inQueue')
      BY <2>3, <2>8 DEF Change
    <3> QED
      BY <2>8, <3>1 DEF Change, taskVars, ribVars, OtherTypes, configured, Named
  <2>9. ASSUME NEW a \in Agent, NEW kind \in {"echo", "greeting", "trigger", "stats"},
               NEW ues, Report(a, kind, ues)
        PROVE  OtherTypes'
    <3>1. Named(inQueue')
      BY <2>3, <2>9 DEF Report
    <3> QED
      BY <2>9, <3>1 DEF Report, taskVars, ribVars, OtherTypes, configured, Named
  <2>10. ASSUME NEW a \in Agent, UeChanges(a) PROVE OtherTypes'
    BY <2>8, <2>10 DEF UeChanges, UeAttaches, UeLeaves, UeReconfigured
  <2>11. ASSUME NEW a \in Agent, Reports(a) PROVE OtherTypes'
    BY <2>9, <2>11 DEF Reports
  <2> QED
    BY <2>4, <2>5, <2>6, <2>7, <2>10, <2>11 DEF Next
<1>3. IInv /\ OtherTypes => TypeOK
  BY DEF IInv, StageTypes, OtherTypes, Stages, TypeOK
<1> QED
  BY <1>1, <1>2, <1>3, Invariance, PTL DEF Spec

\* A UE configuration reply that lists each UE once, and every UE that is known.
LEMMA RepliedInfo ==
  ASSUME NEW info \in Info, SoundInfo(info), NEW ues \in Seq(UeEntry), Distinct(ues),
         Rntis(info.ue) \subseteq Rntis(ues)
  PROVE  /\ UpdateUEConfig(info, ues) \in Info /\ SoundInfo(UpdateUEConfig(info, ues))
         /\ UpdateUEConfig(info, ues).ue = ues
<1> DEFINE new == UpdateUEConfig(info, ues)
<1>1. Rntis(ues) \subseteq Rnti
  <2>1. \A i \in DOMAIN ues : ues[i] \in UeEntry
    OBVIOUS
  <2> QED
    BY <2>1 DEF Rntis, UeEntry
<1>2. info.mac \cup Rntis(ues) \in SUBSET Rnti /\ info.mac \cup Rntis(ues) = Rntis(ues)
  BY <1>1 DEF Info, SoundInfo
<1>3. new = [info EXCEPT !.ue = ues, !.mac = info.mac \cup Rntis(ues)]
  BY DEF UpdateUEConfig
<1>4. new \in Info /\ new.ue = ues /\ new.mac = info.mac \cup Rntis(ues) /\ new.lc = info.lc
  <2> DEFINE mac == info.mac \cup Rntis(ues)
  <2> HIDE DEF mac
  <2>1. mac \in SUBSET Rnti /\ new = [info EXCEPT !.ue = ues, !.mac = mac]
    BY <1>2, <1>3 DEF mac
  <2> HIDE DEF new
  <2>3. new \in Info /\ new.ue = ues /\ new.mac = mac /\ new.lc = info.lc
    BY <2>1 DEF Info
  <2> QED
    BY <2>3 DEF mac
<1>5. new.ue = ues /\ new.mac = Rntis(ues) /\ new.lc = info.lc
  BY <1>2, <1>4
<1> HIDE DEF new
<1>6. SoundInfo(new)
  BY <1>5 DEF SoundInfo
<1> QED
  BY <1>4, <1>5, <1>6 DEF new

\* A reply of the logical channels of the UEs that are known.
LEMMA ListedInfo ==
  ASSUME NEW info \in Info, SoundInfo(info)
  PROVE  LET lc == [i \in DOMAIN info.ue |-> info.ue[i].rnti]
         IN  /\ UpdateLCConfig(info, lc) \in Info /\ SoundInfo(UpdateLCConfig(info, lc))
             /\ UpdateLCConfig(info, lc).ue = info.ue
<1> DEFINE lc == [i \in DOMAIN info.ue |-> info.ue[i].rnti]
           new == UpdateLCConfig(info, lc)
<1>1. /\ info.ue \in Seq(UeEntry) /\ info.mac \in SUBSET Rnti /\ info.lc \in Seq(Rnti)
      /\ info = [ue |-> info.ue, mac |-> info.mac, lc |-> info.lc]
  BY DEF Info
<1>2. lc \in Seq(Rnti) /\ DOMAIN lc = DOMAIN info.ue
  <2>1. DOMAIN info.ue = 1 .. Len(info.ue) /\ Len(info.ue) \in Nat
    BY <1>1
  <2>2. \A i \in DOMAIN info.ue : info.ue[i] \in UeEntry
    BY <1>1
  <2>3. \A i \in DOMAIN info.ue : info.ue[i].rnti \in Rnti
    BY <2>2 DEF UeEntry
  <2> QED
    BY <2>1, <2>3
<1>3. \A i \in DOMAIN lc : lc[i] = info.ue[i].rnti
  OBVIOUS
<1> HIDE DEF lc
<1>4. new = [ue |-> info.ue, mac |-> info.mac, lc |-> lc]
  BY <1>1 DEF UpdateLCConfig, Info
<1>5. new \in Info /\ new.ue = info.ue /\ new.mac = info.mac /\ new.lc = lc
  BY <1>1, <1>2, <1>4 DEF Info
<1> HIDE DEF new
<1>6. SoundInfo(new)
  BY <1>2, <1>3, <1>5 DEF SoundInfo, Distinct, Rntis
<1> QED
  BY <1>5, <1>6 DEF new, lc

\* A UE that was not known.
LEMMA ActivatedInfo ==
  ASSUME NEW info \in Info, SoundInfo(info), NEW e \in UeEntry, e.rnti \notin Rntis(info.ue)
  PROVE  /\ Activate(info, e) \in Info /\ SoundInfo(Activate(info, e))
         /\ Activate(info, e).ue = Append(info.ue, e)
         /\ Rntis(Activate(info, e).ue) = Rntis(info.ue) \cup {e.rnti}
<1> DEFINE new == Activate(info, e)
           longer == Append(info.ue, e)
           mac == info.mac \cup {e.rnti}
<1>1. info.ue \in Seq(UeEntry) /\ info.mac \in SUBSET Rnti /\ info.lc \in Seq(Rnti)
  BY DEF Info
<1>2. longer \in Seq(UeEntry) /\ Distinct(longer) /\ Rntis(longer) = Rntis(info.ue) \cup {e.rnti}
  BY <1>1, AppendedUe DEF SoundInfo
<1>3. new = [info EXCEPT !.ue = longer, !.mac = mac]
  BY DEF Activate
<1>4. mac \in SUBSET Rnti
  BY <1>1 DEF UeEntry
<1> HIDE DEF longer, mac, new
<1>5. new \in Info /\ new.ue = longer /\ new.mac = mac /\ new.lc = info.lc
  BY <1>2, <1>3, <1>4 DEF Info
<1>6. SoundInfo(new)
  BY <1>2, <1>5 DEF SoundInfo, mac
<1> QED
  BY <1>2, <1>5, <1>6 DEF new, longer

\* A UE that leaves, known or not.
LEMMA DeactivatedInfo ==
  ASSUME NEW info \in Info, SoundInfo(info), NEW r \in Rnti
  PROVE  /\ Deactivate(info, r) \in Info /\ SoundInfo(Deactivate(info, r))
         /\ Rntis(Deactivate(info, r).ue) = Rntis(info.ue) \ {r}
         /\ \A i \in 1 .. Len(info.ue) :
              info.ue[i].rnti = r => Deactivate(info, r).ue = RemoveAt(info.ue, i)
<1> DEFINE new == Deactivate(info, r)
           lc == DeleteLc(info.lc, r)
<1>1. /\ info.ue \in Seq(UeEntry) /\ info.mac \in SUBSET Rnti /\ info.lc \in Seq(Rnti)
      /\ DOMAIN info.ue = 1 .. Len(info.ue)
  BY DEF Info
<1>2. CASE r \notin Rntis(info.ue)
  BY <1>1, <1>2 DEF Deactivate, Rntis
<1>3. CASE r \in Rntis(info.ue)
  <2>1. PICK i \in 1 .. Len(info.ue) : info.ue[i].rnti = r
    BY <1>1, <1>3 DEF Rntis
  <2> DEFINE left == RemoveAt(info.ue, i)
  <2>2. /\ left \in Seq(UeEntry) /\ Distinct(left) /\ Rntis(left) = Rntis(info.ue) \ {r}
        /\ RemoveFirstOf(info.ue, r) = left
    BY <1>1, <2>1, RemovedUe, FirstIsOnly DEF SoundInfo
  <2>3. /\ lc \in Seq(Rnti)
        /\ \A k \in DOMAIN lc : lc[k] # r /\ \E j \in DOMAIN info.lc : lc[k] = info.lc[j]
        /\ \A k, j \in DOMAIN lc : lc[k] = lc[j] => k = j
    BY <1>1, DeleteLcFacts DEF SoundInfo
  <2> HIDE DEF left, lc
  <2>4. new = [ue |-> left, mac |-> info.mac \ {r}, lc |-> lc]
    BY <1>3, <2>2 DEF Deactivate, lc
  <2>5. new \in Info /\ new.ue = left /\ new.mac = info.mac \ {r} /\ new.lc = lc
    BY <1>1, <2>2, <2>3, <2>4 DEF Info
  <2> HIDE DEF new
  <2>6. SoundInfo(new)
    BY <2>2, <2>3, <2>5 DEF SoundInfo
  <2>7. \A k \in 1 .. Len(info.ue) : info.ue[k].rnti = r => k = i
    BY <1>1, <2>1 DEF SoundInfo, Distinct
  <2>8. \A k \in 1 .. Len(info.ue) : info.ue[k].rnti = r => new.ue = RemoveAt(info.ue, k)
    BY <2>5, <2>7 DEF left
  <2> QED
    BY <2>2, <2>5, <2>6, <2>8 DEF new
<1> QED
  BY <1>2, <1>3

\* A UE that is reconfigured, known or not.
LEMMA UpdatedInfo ==
  ASSUME NEW info \in Info, SoundInfo(info), NEW e \in UeEntry
  PROVE  /\ UpdateUE(info, e) \in Info /\ SoundInfo(UpdateUE(info, e))
         /\ Rntis(UpdateUE(info, e).ue) = Rntis(info.ue)
         /\ \A i \in 1 .. Len(info.ue) :
              info.ue[i].rnti = e.rnti => UpdateUE(info, e).ue = [info.ue EXCEPT ![i] = e]
<1> DEFINE new == UpdateUE(info, e)
           ue == info.ue
           changed == [i \in DOMAIN ue |-> IF ue[i].rnti = e.rnti THEN e ELSE ue[i]]
<1>1. /\ ue \in Seq(UeEntry) /\ info.mac \in SUBSET Rnti /\ info.lc \in Seq(Rnti)
      /\ DOMAIN ue = 1 .. Len(ue)
  BY DEF Info
<1>2. new.ue = changed /\ new.mac = info.mac /\ new.lc = info.lc
      /\ new = [info EXCEPT !.ue = changed]
  BY DEF UpdateUE, Info
<1> HIDE DEF ue
<1>3. changed \in Seq(UeEntry) /\ DOMAIN changed = DOMAIN ue
  BY <1>1
<1>4. \A i \in DOMAIN ue : changed[i].rnti = ue[i].rnti
  OBVIOUS
<1>5. Distinct(ue)
  BY DEF SoundInfo, ue
<1>6. ASSUME NEW i \in 1 .. Len(ue), ue[i].rnti = e.rnti PROVE changed = [ue EXCEPT ![i] = e]
  <2>1. \A k \in DOMAIN ue : ue[k].rnti = e.rnti <=> k = i
    BY <1>1, <1>5, <1>6 DEF Distinct
  <2> QED
    BY <1>1, <2>1
<1> HIDE DEF changed
<1>7. Rntis(changed) = Rntis(ue) /\ Distinct(changed)
  BY <1>3, <1>4, <1>5 DEF Rntis, Distinct
<1> HIDE DEF new
<1>8. new \in Info /\ new.ue = changed /\ new.mac = info.mac /\ new.lc = info.lc
  BY <1>2, <1>3 DEF Info
<1>9. SoundInfo(new)
  BY <1>7, <1>8 DEF SoundInfo, ue
<1> QED
  BY <1>6, <1>7, <1>8, <1>9 DEF new, ue

-------------------------------------------------------------------------------
(* What the messages under way make of an entry                               *)

Standings == [pending : BOOLEAN, known : BOOLEAN, info : Info]

\* Only an agent that is configured has an entry, and it is sound.
SoundStanding(s) ==
  /\ s \in Standings /\ SoundInfo(s.info)
  /\ ~s.known => s.info = NewInfo

\* One message of in_queue_, of agent a or of another.
AfterOf(s, m, a) == IF m.tag = a THEN After(s, m) ELSE s

\* st follows what the messages q make of the standing x of agent a: it is sound
\* all along, and an agent that is configured stays so.
Course(st, q, x, a) ==
  /\ st \in [0 .. Len(q) -> Standings] /\ st[0] = x
  /\ \A j \in 1 .. Len(q) : st[j] = AfterOf(st[j - 1], q[j], a)
  /\ \A j \in 0 .. Len(q) : SoundStanding(st[j]) /\ (st[j].known => st[Len(q)].known)

\* The messages q turn x into s.
Ends(s, q, x, a) == \E st : Course(st, q, x, a) /\ st[Len(q)] = s

\* No message, no change.
LEMMA EndsHere ==
  ASSUME NEW x, SoundStanding(x), NEW a PROVE Ends(x, <<>>, x, a)
<1> DEFINE st == [j \in 0 .. 0 |-> x]
<1>1. Len(<<>>) = 0 /\ st \in [0 .. 0 -> Standings] /\ st[0] = x
  BY DEF SoundStanding
<1> HIDE DEF st
<1>2. Course(st, <<>>, x, a)
  BY <1>1 DEF Course
<1> QED
  BY <1>1, <1>2 DEF Ends

\* A message joins the queue.
LEMMA EndsLater ==
  ASSUME NEW q \in Seq(Item), NEW x, NEW s, NEW a, Ends(s, q, x, a), NEW m \in Item,
         SoundStanding(AfterOf(s, m, a)), s.known => AfterOf(s, m, a).known
  PROVE  Ends(AfterOf(s, m, a), Append(q, m), x, a)
<1> DEFINE n == Len(q)
           t == AfterOf(s, m, a)
           longer == Append(q, m)
<1>1. PICK st : Course(st, q, x, a) /\ st[n] = s
  BY DEF Ends
<1>2. /\ n \in Nat /\ Len(longer) = n + 1 /\ longer[n + 1] = m
      /\ \A j \in 1 .. n : longer[j] = q[j]
  OBVIOUS
<1> HIDE DEF n, t, longer
<1>3. /\ st \in [0 .. n -> Standings] /\ st[0] = x
      /\ \A j \in 1 .. n : st[j] = AfterOf(st[j - 1], q[j], a)
      /\ \A j \in 0 .. n : SoundStanding(st[j]) /\ (st[j].known => s.known)
  BY <1>1 DEF Course, n
<1>4. SoundStanding(t) /\ t \in Standings /\ (s.known => t.known)
  BY DEF t, SoundStanding
<1> DEFINE new == [j \in 0 .. n + 1 |-> IF j = n + 1 THEN t ELSE st[j]]
<1>5. /\ new \in [0 .. n + 1 -> Standings] /\ new[n + 1] = t
      /\ \A j \in 0 .. n : new[j] = st[j]
  <2>1. \A j \in 0 .. n + 1 : j = n + 1 \/ j \in 0 .. n
    BY <1>2
  <2>2. n + 1 \notin 0 .. n /\ n + 1 \in 0 .. n + 1 /\ \A j \in 0 .. n : j \in 0 .. n + 1
    BY <1>2
  <2> QED
    BY <1>3, <1>4, <2>1, <2>2
<1> HIDE DEF new
<1>6. ASSUME NEW j \in 1 .. n + 1 PROVE new[j] = AfterOf(new[j - 1], longer[j], a)
  <2>1. CASE j = n + 1
    <3>1. new[j - 1] = s
      BY <1>1, <1>2, <1>5, <2>1 DEF n
    <3> QED
      BY <1>2, <1>5, <2>1, <3>1 DEF t
  <2>2. CASE j # n + 1
    <3>1. j \in 1 .. n /\ j - 1 \in 0 .. n /\ j \in 0 .. n
      BY <1>2, <2>2
    <3> QED
      BY <1>2, <1>3, <1>5, <3>1
  <2> QED
    BY <2>1, <2>2
<1>7. ASSUME NEW j \in 0 .. n + 1 PROVE SoundStanding(new[j]) /\ (new[j].known => t.known)
  <2>1. j = n + 1 \/ j \in 0 .. n
    BY <1>2
  <2> QED
    BY <1>3, <1>4, <1>5, <2>1
<1>8. new[0] = x
  BY <1>2, <1>3, <1>5
<1>9. Course(new, longer, x, a) /\ new[Len(longer)] = t
  BY <1>2, <1>5, <1>6, <1>7, <1>8 DEF Course
<1> QED
  BY <1>9 DEF Ends, t, longer

\* The first message is taken from the queue and handled.
LEMMA EndsSooner ==
  ASSUME NEW q \in Seq(Item), q # <<>>, NEW x, NEW s, NEW a, Ends(s, q, x, a)
  PROVE  Ends(s, Tail(q), AfterOf(x, Head(q), a), a)
<1> DEFINE n == Len(q)
           left == Tail(q)
<1>1. PICK st : Course(st, q, x, a) /\ st[n] = s
  BY DEF Ends
<1>2. /\ n \in Nat /\ n >= 1 /\ Len(left) = n - 1 /\ Head(q) = q[1]
      /\ \A j \in 1 .. n - 1 : left[j] = q[j + 1]
  OBVIOUS
<1> HIDE DEF n, left
<1>3. /\ st \in [0 .. n -> Standings] /\ st[0] = x
      /\ \A j \in 1 .. n : st[j] = AfterOf(st[j - 1], q[j], a)
      /\ \A j \in 0 .. n : SoundStanding(st[j]) /\ (st[j].known => st[n].known)
  BY <1>1 DEF Course, n
<1> DEFINE new == [j \in 0 .. n - 1 |-> st[j + 1]]
<1>4. \A j \in 0 .. n - 1 : j + 1 \in 0 .. n /\ j + 1 \in 1 .. n
  BY <1>2
<1>5. /\ new \in [0 .. n - 1 -> Standings]
      /\ \A j \in 0 .. n - 1 : new[j] = st[j + 1]
  BY <1>3, <1>4
<1> HIDE DEF new
<1>6. new[0] = st[1] /\ new[n - 1] = st[n] /\ st[1] = AfterOf(x, q[1], a)
  <2>1. 0 \in 0 .. n - 1 /\ n - 1 \in 0 .. n - 1 /\ n - 1 + 1 = n /\ 0 + 1 = 1
        /\ 1 \in 1 .. n /\ 1 - 1 = 0
    BY <1>2
  <2>2. new[0] = st[1] /\ new[n - 1] = st[n]
    BY <1>5, <2>1
  <2>3. st[1] = AfterOf(st[1 - 1], q[1], a)
    BY <1>3, <2>1
  <2> QED
    BY <1>3, <2>1, <2>2, <2>3
<1>7. ASSUME NEW j \in 1 .. n - 1 PROVE new[j] = AfterOf(new[j - 1], left[j], a)
  <2>1. /\ j \in 0 .. n - 1 /\ j - 1 \in 0 .. n - 1 /\ j + 1 \in 1 .. n
        /\ j - 1 + 1 = j /\ j + 1 - 1 = j
    BY <1>2
  <2>2. new[j] = st[j + 1] /\ new[j - 1] = st[j]
    BY <1>5, <2>1
  <2>3. st[j + 1] = AfterOf(st[j + 1 - 1], q[j + 1], a)
    BY <1>3, <2>1
  <2> QED
    BY <1>2, <2>1, <2>2, <2>3
<1>8. ASSUME NEW j \in 0 .. n - 1
      PROVE  SoundStanding(new[j]) /\ (new[j].known => new[n - 1].known)
  BY <1>3, <1>4, <1>5, <1>6
<1>9. Course(new, left, AfterOf(x, q[1], a), a) /\ new[Len(left)] = s
  BY <1>1, <1>2, <1>5, <1>6, <1>7, <1>8 DEF Course, n
<1> QED
  BY <1>2, <1>9 DEF Ends, left

\* The standing at the start of a course.
LEMMA EndsFacts ==
  ASSUME NEW q \in Seq(Item), NEW x, NEW s, NEW a, Ends(s, q, x, a)
  PROVE  SoundStanding(x) /\ SoundStanding(s) /\ (x.known => s.known)
<1>1. PICK st : Course(st, q, x, a) /\ st[Len(q)] = s
  BY DEF Ends
<1>2. 0 \in 0 .. Len(q) /\ Len(q) \in 0 .. Len(q)
  OBVIOUS
<1> QED
  BY <1>1, <1>2 DEF Course

\* What Foreseen computes.
LEMMA ForeseenIs ==
  ASSUME NEW a, inQueue \in Seq(Item), NEW s, Ends(s, inQueue, Standing(a), a)
  PROVE  Foreseen(a) = s
<1> DEFINE n == Len(inQueue)
           x == Standing(a)
           Then(t, m) == IF m.tag = a THEN After(t, m) ELSE t
           E(f) == f = [j \in 0 .. n |-> IF j = 0 THEN x ELSE Then(f[j - 1], inQueue[j])]
           h == CHOOSE f : E(f)
<1>1. PICK st : Course(st, inQueue, x, a) /\ st[n] = s
  BY DEF Ends
<1>2. n \in Nat
  OBVIOUS
<1>3. /\ st \in [0 .. n -> Standings] /\ st[0] = x
      /\ \A j \in 1 .. n : st[j] = Then(st[j - 1], inQueue[j])
  BY <1>1 DEF Course, AfterOf
<1>4. Foreseen(a) = h[n]
  BY DEF Foreseen
<1>5. E(h)
  <2>1. E(st)
    <3> HIDE DEF n, x, Then
    <3> QED
      BY <1>2, <1>3
  <2> HIDE DEF E
  <2> QED
    BY <2>1
<1>6. h[0] = x /\ \A j \in 1 .. n : h[j] = Then(h[j - 1], inQueue[j])
  <2>1. h = [j \in 0 .. n |-> IF j = 0 THEN x ELSE Then(h[j - 1], inQueue[j])]
    BY <1>5
  <2> HIDE DEF h, n, x, Then, E
  <2> QED
    BY <1>2, <2>1
<1> HIDE DEF h, n, x, Then, E
<1> DEFINE S == {j \in 0 .. n : h[j] = st[j]}
<1>7. 0 \in S
  BY <1>2, <1>3, <1>6
<1>8. ASSUME NEW j \in 1 .. n, j - 1 \in S PROVE j \in S
  <2>1. h[j - 1] = st[j - 1] /\ j \in 0 .. n
    BY <1>2, <1>8
  <2> QED
    BY <1>3, <1>6, <2>1
<1>9. n \in S
  <2> HIDE DEF S
  <2>1. \A j \in 0 .. n : j \in S
    BY <1>2, <1>7, <1>8, Steps
  <2> QED
    BY <1>2, <2>1
<1> QED
  BY <1>1, <1>4, <1>9

\* Handling a message does to the RIB what After says.
LEMMA HandleIsAfter ==
  ASSUME StageTypes, NEW m \in Item, Handle(m), NEW a \in Agent
  PROVE  Standing(a)' = AfterOf(Standing(a), m, a)
<1> DEFINE x == Standing(a)
<1>0. m.tag \in Agent /\ m.kind \in Kinds
  BY DEF Item
<1>1. /\ x.pending = (a \in pending) /\ x.known = (a \in configured)
      /\ x.info = IF a \in configured THEN eNBConfigs[a] ELSE NewInfo
  BY DEF Standing
<1>2. Standing(a)' = [pending |-> a \in pending', known |-> a \in configured',
                      info |-> IF a \in configured' THEN eNBConfigs'[a] ELSE NewInfo]
  BY DEF Standing
<1>3. x = [pending |-> a \in pending, known |-> a \in configured,
           info |-> IF a \in configured THEN eNBConfigs[a] ELSE NewInfo]
  BY DEF Standing
<1> HIDE DEF x
<1>4. CASE m.kind \in {"hello", "echo", "greeting", "trigger", "stats"}
  <2>1. UNCHANGED <<pending, eNBConfigs>>
    BY <1>4 DEF Handle, HandleHello, HandleEcho, HandleNothing, ribVars
  <2>2. AfterOf(x, m, a) = x
    BY <1>4 DEF AfterOf, After
  <2> QED
    BY <1>2, <1>3, <2>1, <2>2 DEF configured, x
<1>5. CASE m.kind = "notice"
  <2>1. pending' = pending \cup {m.tag} /\ UNCHANGED eNBConfigs
    BY <1>5 DEF Handle, HandleNewConnection
  <2>2. AfterOf(x, m, a) = IF m.tag = a THEN [pending |-> TRUE, known |-> x.known, info |-> x.info]
                           ELSE x
    BY <1>5 DEF AfterOf, After
  <2>4. CASE m.tag = a
    <3>1. (a \in pending') = TRUE /\ configured' = configured /\ eNBConfigs' = eNBConfigs
      BY <2>1, <2>4 DEF configured
    <3> QED
      BY <1>1, <1>2, <2>2, <2>4, <3>1 DEF x
  <2>5. CASE m.tag # a
    BY <1>2, <1>3, <2>1, <2>2, <2>5 DEF configured, x
  <2> QED
    BY <2>4, <2>5
<1>6. CASE m.kind = "enbReply"
  <2>1. HandleEnbReply(m.tag)
    BY <1>6 DEF Handle
  <2>2. AfterOf(x, m, a) = IF m.tag = a /\ a \in pending
                           THEN [pending |-> FALSE, known |-> TRUE, info |-> x.info] ELSE x
    BY <1>1, <1>6 DEF AfterOf, After
  <2>3. CASE m.tag \in pending
    <3>1. /\ pending' = pending \ {m.tag} /\ configured' = configured \cup {m.tag}
          /\ \A b \in configured \cup {m.tag} :
               eNBConfigs'[b] = IF b \in configured THEN eNBConfigs[b] ELSE NewInfo
      BY <2>1, <2>3 DEF HandleEnbReply, configured
    <3>2. CASE m.tag # a
      BY <1>2, <1>3, <2>2, <3>1, <3>2 DEF x
    <3>3. CASE m.tag = a
      <4>1. x.info = IF a \in configured THEN eNBConfigs[a] ELSE NewInfo
        BY <1>1
      <4>2. a \in configured' /\ eNBConfigs'[a] = x.info
        BY <3>1, <3>3, <4>1
      <4>3. (a \in pending') = FALSE /\ (a \in configured') = TRUE
        BY <3>1, <3>3
      <4> QED
        BY <1>2, <2>2, <2>3, <3>3, <4>2, <4>3 DEF x
    <3> QED
      BY <3>2, <3>3
  <2>4. CASE m.tag \notin pending
    <3>1. UNCHANGED <<pending, eNBConfigs>>
      BY <2>1, <2>4 DEF HandleEnbReply, ribVars
    <3> QED
      BY <1>2, <1>3, <2>2, <2>4, <3>1 DEF configured, x
  <2> QED
    BY <2>3, <2>4
<1>7. ASSUME NEW new, pending' = pending, UpdateEntry(m.tag, new),
             m.tag = a /\ a \in configured => AfterOf(x, m, a) = [x EXCEPT !.info = new],
             ~(m.tag = a /\ a \in configured) => AfterOf(x, m, a) = x
      PROVE  Standing(a)' = AfterOf(x, m, a)
  <2>1. /\ configured' = configured
        /\ a \in configured => eNBConfigs'[a] = IF a = m.tag THEN new ELSE eNBConfigs[a]
    BY <1>7 DEF UpdateEntry, configured
  <2>2. CASE m.tag = a /\ a \in configured
    <3>1. Standing(a)' = [pending |-> x.pending, known |-> x.known, info |-> new]
      BY <1>1, <1>2, <1>7, <2>1, <2>2
    <3>2. [x EXCEPT !.info = new] = [pending |-> x.pending, known |-> x.known, info |-> new]
      BY <1>3
    <3> QED
      BY <1>7, <2>2, <3>1, <3>2
  <2>3. CASE ~(m.tag = a /\ a \in configured)
    BY <1>2, <1>3, <1>7, <2>1, <2>3
  <2> QED
    BY <2>2, <2>3
<1>8. CASE m.kind = "ueReply"
  <2>1. HandleUeReply(m.tag, m.ues)
    BY <1>8 DEF Handle
  <2>2. m.tag = a /\ a \in configured =>
          AfterOf(x, m, a) = [x EXCEPT !.info = UpdateUEConfig(eNBConfigs[m.tag], m.ues)]
    BY <1>1, <1>8 DEF AfterOf, After
  <2>3. ~(m.tag = a /\ a \in configured) => AfterOf(x, m, a) = x
    BY <1>1, <1>8 DEF AfterOf, After
  <2> QED
    BY <1>7, <2>1, <2>2, <2>3 DEF HandleUeReply, x
<1>9. CASE m.kind = "lcReply"
  <2> DEFINE lc == [i \in DOMAIN m.ues |-> m.ues[i].rnti]
  <2>1. HandleLcReply(m.tag, m.ues)
    BY <1>9 DEF Handle
  <2>2. m.tag = a /\ a \in configured =>
          AfterOf(x, m, a) = [x EXCEPT !.info = UpdateLCConfig(eNBConfigs[m.tag], lc)]
    BY <1>1, <1>9 DEF AfterOf, After
  <2>3. ~(m.tag = a /\ a \in configured) => AfterOf(x, m, a) = x
    BY <1>1, <1>9 DEF AfterOf, After
  <2> QED
    BY <1>7, <2>1, <2>2, <2>3 DEF HandleLcReply, x
<1>10. CASE m.kind \in {"activated", "deactivated", "updated"}
  <2> DEFINE new == ChangedInfo(eNBConfigs[m.tag], m.kind, m.ues[1])
  <2>1. HandleStateChange(m.tag, m.kind, m.ues[1])
    BY <1>10 DEF Handle
  <2>2. m.tag = a /\ a \in configured => AfterOf(x, m, a) = [x EXCEPT !.info = new]
    BY <1>1, <1>10 DEF AfterOf, After
  <2>3. ~(m.tag = a /\ a \in configured) => AfterOf(x, m, a) = x
    BY <1>1, <1>10 DEF AfterOf, After
  <2>4. UpdateEntry(m.tag, new) /\ pending' = pending
    BY <2>1 DEF HandleStateChange
  <2> HIDE DEF new
  <2> QED
    BY <1>7, <2>2, <2>3, <2>4 DEF x
<1> QED
  BY <1>0, <1>4, <1>5, <1>6, <1>8, <1>9, <1>10 DEF Kinds, x

\* Another entry for the agent.
LEMMA NewEntry ==
  ASSUME NEW s, SoundStanding(s), s.known, NEW new \in Info, SoundInfo(new)
  PROVE  LET t == [s EXCEPT !.info = new]
         IN  /\ SoundStanding(t) /\ t.info = new
             /\ t.known = s.known /\ t.pending = s.pending
<1> DEFINE t == [s EXCEPT !.info = new]
<1>1. t \in Standings /\ t.info = new /\ t.known = s.known /\ t.pending = s.pending
  BY DEF SoundStanding, Standings
<1> HIDE DEF t
<1>2. SoundStanding(t)
  BY <1>1 DEF SoundStanding
<1> QED
  BY <1>1, <1>2 DEF t

\* A connection or a configuration reply moves an agent on.
LEMMA Moved ==
  ASSUME NEW s, SoundStanding(s), NEW m, m.kind \in {"notice", "enbReply"}
  PROVE  LET t == After(s, m)
         IN  /\ SoundStanding(t) /\ t.info = s.info /\ (s.known => t.known)
             /\ s.pending => t.pending \/ t.known
             /\ m.kind = "notice" => t.pending /\ t.known = s.known
             /\ m.kind = "enbReply" /\ s.pending => t.known
<1>1. s \in Standings /\ SoundInfo(s.info) /\ (~s.known => s.info = NewInfo)
  BY DEF SoundStanding
<1>2. CASE m.kind = "notice"
  <2> DEFINE t == [pending |-> TRUE, known |-> s.known, info |-> s.info]
  <2>1. After(s, m) = t
    BY <1>2 DEF After
  <2>2. t \in Standings /\ t.info = s.info /\ t.known = s.known /\ t.pending
    BY <1>1 DEF Standings
  <2> HIDE DEF t
  <2>3. SoundStanding(t)
    BY <1>1, <2>2 DEF SoundStanding
  <2> QED
    BY <1>2, <2>1, <2>2, <2>3
<1>3. CASE m.kind = "enbReply" /\ s.pending
  <2> DEFINE t == [pending |-> FALSE, known |-> TRUE, info |-> s.info]
  <2>1. After(s, m) = t
    BY <1>3 DEF After
  <2>2. t \in Standings /\ t.info = s.info /\ t.known
    BY <1>1 DEF Standings
  <2> HIDE DEF t
  <2>3. SoundStanding(t)
    BY <1>1, <2>2 DEF SoundStanding
  <2> QED
    BY <1>3, <2>1, <2>2, <2>3
<1>4. CASE m.kind = "enbReply" /\ ~s.pending
  BY <1>4 DEF After
<1> QED
  BY <1>2, <1>3, <1>4

-------------------------------------------------------------------------------
(* The requests under way to an agent                                         *)

\* An agent is asked for its UEs only after its eNB configuration, and for logical
\* channels only after its UEs; one that is known, or that will be, is or was asked
\* for its UEs. d: what is under way to it; known: its answers will make it so.
Asked(d, known, answered) ==
  /\ \A i \in DOMAIN d : d[i] = "ueRequest" =>
       known \/ \E j \in 1 .. i - 1 : d[j] = "enbRequest"
  /\ \A i \in DOMAIN d : d[i] = "lcRequest" =>
       answered \/ \E j \in 1 .. i - 1 : d[j] = "ueRequest"
  /\ known \/ (\E i \in DOMAIN d : d[i] = "enbRequest") =>
       answered \/ \E i \in DOMAIN d : d[i] = "ueRequest"

\* What update_rib or the applications send next keeps it.
LEMMA AskedMore ==
  ASSUME NEW d \in Seq(Requests), NEW known \in BOOLEAN, NEW answered \in BOOLEAN,
         Asked(d, known, answered),
         NEW r \in {"hello", "echoReply", "statsRequest", "lcRequest"},
         r = "lcRequest" => known
  PROVE  Asked(Append(d, r), known, answered)
<1> DEFINE n == Len(d)
           more == Append(d, r)
<1>1. /\ n \in Nat /\ DOMAIN d = 1 .. n /\ DOMAIN more = 1 .. n + 1 /\ more[n + 1] = r
      /\ \A i \in 1 .. n : more[i] = d[i]
  OBVIOUS
<1> HIDE DEF n, more
<1>2. /\ n + 1 \in 1 .. n + 1 /\ 1 .. n + 1 - 1 = 1 .. n
      /\ \A i \in 1 .. n + 1 : i = n + 1 \/ i \in 1 .. n
      /\ \A i \in 1 .. n : i \in 1 .. n + 1
      /\ \A i \in 1 .. n : \A j \in 1 .. i - 1 : j \in 1 .. n
  BY <1>1
<1>3. ASSUME NEW i \in 1 .. n + 1, more[i] = "ueRequest"
      PROVE  known \/ \E j \in 1 .. i - 1 : more[j] = "enbRequest"
  <2>1. i \in 1 .. n /\ d[i] = "ueRequest"
    BY <1>1, <1>2, <1>3
  <2> QED
    BY <1>1, <1>2, <2>1 DEF Asked
<1>4. known \/ (\E i \in 1 .. n : d[i] = "enbRequest") =>
        answered \/ \E i \in 1 .. n : more[i] = "ueRequest"
  BY <1>1 DEF Asked
<1>5. ASSUME NEW i \in 1 .. n + 1, more[i] = "lcRequest"
      PROVE  answered \/ \E j \in 1 .. i - 1 : more[j] = "ueRequest"
  <2>1. CASE i = n + 1
    <3>1. known
      BY <1>1, <1>5, <2>1
    <3>2. 1 .. i - 1 = 1 .. n
      BY <1>1, <2>1
    <3> QED
      BY <1>4, <3>1, <3>2
  <2>2. CASE i \in 1 .. n
    <3>1. d[i] = "lcRequest"
      BY <1>1, <1>5, <2>2
    <3> QED
      BY <1>1, <1>2, <2>2, <3>1 DEF Asked
  <2> QED
    BY <1>2, <2>1, <2>2
<1>6. known \/ (\E i \in 1 .. n + 1 : more[i] = "enbRequest") =>
        answered \/ \E i \in 1 .. n + 1 : more[i] = "ueRequest"
  <2>1. (\E i \in 1 .. n + 1 : more[i] = "enbRequest") => \E i \in 1 .. n : d[i] = "enbRequest"
    BY <1>1, <1>2
  <2> QED
    BY <1>2, <1>4, <2>1
<1> QED
  BY <1>1, <1>3, <1>5, <1>6 DEF Asked, more

\* So do the three requests that greet a new agent.
LEMMA AskedAll ==
  ASSUME NEW d \in Seq(Requests), NEW known \in BOOLEAN, NEW answered \in BOOLEAN,
         Asked(d, known, answered)
  PROVE  Asked(d \o <<"enbRequest", "ueRequest", "lcRequest">>, known, answered)
<1> DEFINE n == Len(d)
           three == <<"enbRequest", "ueRequest", "lcRequest">>
           more == d \o three
<1>1. n \in Nat /\ DOMAIN d = 1 .. n /\ Len(three) = 3 /\ three \in Seq(Requests)
  BY DEF Requests
<1>2. /\ DOMAIN more = 1 .. n + 3
      /\ more[n + 1] = "enbRequest" /\ more[n + 2] = "ueRequest" /\ more[n + 3] = "lcRequest"
      /\ \A i \in 1 .. n : more[i] = d[i]
  <2>1. \A i \in 1 .. n + 3 : more[i] = IF i <= n THEN d[i] ELSE three[i - n]
    BY <1>1
  <2>2. DOMAIN more = 1 .. n + 3
    BY <1>1
  <2> HIDE DEF more, n
  <2>4. more[n + 1] = three[1] /\ more[n + 2] = three[2] /\ more[n + 3] = three[3]
    <3>1. ASSUME NEW k \in 1 .. 3 PROVE more[n + k] = three[k]
      <4> DEFINE i == n + k
      <4>1. i \in 1 .. n + 3 /\ ~(i <= n) /\ i - n = k
        BY <1>1
      <4> HIDE DEF three, i
      <4>2. more[i] = three[i - n]
        BY <2>1, <4>1
      <4> QED
        BY <4>1, <4>2 DEF i
    <3>2. 1 \in 1 .. 3 /\ 2 \in 1 .. 3 /\ 3 \in 1 .. 3
      OBVIOUS
    <3> HIDE DEF three
    <3> QED
      BY <3>1, <3>2
  <2>5. \A i \in 1 .. n : more[i] = d[i]
    <3>1. \A i \in 1 .. n : i \in 1 .. n + 3 /\ i <= n
      BY <1>1
    <3> QED
      BY <2>1, <3>1
  <2> QED
    BY <2>2, <2>4, <2>5
<1> HIDE DEF n, more
<1>3. /\ \A i \in 1 .. n + 3 : i \in 1 .. n \/ i = n + 1 \/ i = n + 2 \/ i = n + 3
      /\ n + 2 \in 1 .. n + 3 /\ n + 1 \in 1 .. n + 2 - 1 /\ n + 2 \in 1 .. n + 3 - 1
      /\ \A i \in 1 .. n : \A j \in 1 .. i - 1 : j \in 1 .. n
  BY <1>1
<1>4. ASSUME NEW i \in 1 .. n + 3, more[i] = "ueRequest"
      PROVE  known \/ \E j \in 1 .. i - 1 : more[j] = "enbRequest"
  <2>1. i \in 1 .. n \/ i = n + 2
    BY <1>2, <1>3, <1>4
  <2>2. CASE i \in 1 .. n
    <3>1. d[i] = "ueRequest"
      BY <1>2, <1>4, <2>2
    <3> QED
      BY <1>1, <1>2, <1>3, <2>2, <3>1 DEF Asked
  <2>3. CASE i = n + 2
    <3>1. n + 1 \in 1 .. i - 1
      BY <1>1, <2>3
    <3> QED
      BY <1>2, <3>1
  <2> QED
    BY <2>1, <2>2, <2>3
<1>5. ASSUME NEW i \in 1 .. n + 3, more[i] = "lcRequest"
      PROVE  answered \/ \E j \in 1 .. i - 1 : more[j] = "ueRequest"
  <2>1. i \in 1 .. n \/ i = n + 3
    BY <1>2, <1>3, <1>5
  <2>2. CASE i \in 1 .. n
    <3>1. d[i] = "lcRequest"
      BY <1>2, <1>5, <2>2
    <3> QED
      BY <1>1, <1>2, <1>3, <2>2, <3>1 DEF Asked
  <2>3. CASE i = n + 3
    <3>1. n + 2 \in 1 .. i - 1
      BY <1>1, <2>3
    <3> QED
      BY <1>2, <3>1
  <2> QED
    BY <2>1, <2>2, <2>3
<1> QED
  BY <1>2, <1>3, <1>4, <1>5 DEF Asked, more

\* The agent takes the first request.
LEMMA AskedLess ==
  ASSUME NEW d \in Seq(Requests), d # <<>>, NEW known \in BOOLEAN, NEW answered \in BOOLEAN,
         Asked(d, known, answered)
  PROVE  /\ Head(d) = "ueRequest" => known
         /\ Head(d) = "lcRequest" => answered
         /\ \A k \in BOOLEAN, t \in BOOLEAN :
              /\ k = (known \/ Head(d) = "enbRequest")
              /\ t = (answered \/ Head(d) = "ueRequest")
              => Asked(Tail(d), k, t)
<1> DEFINE n == Len(d)
           left == Tail(d)
<1>1. /\ n \in Nat /\ n >= 1 /\ DOMAIN d = 1 .. n /\ DOMAIN left = 1 .. n - 1
      /\ Head(d) = d[1] /\ \A i \in 1 .. n - 1 : left[i] = d[i + 1]
  OBVIOUS
<1> HIDE DEF n, left
<1>2. /\ 1 \in 1 .. n /\ 1 .. 1 - 1 = {}
      /\ \A i \in 1 .. n - 1 : i + 1 \in 1 .. n
      /\ \A i \in 1 .. n : i = 1 \/ (i - 1 \in 1 .. n - 1 /\ i - 1 + 1 = i)
      /\ \A i \in 1 .. n - 1 : \A j \in 1 .. i + 1 - 1 :
           j = 1 \/ (j - 1 \in 1 .. i - 1 /\ j - 1 \in 1 .. n - 1 /\ j - 1 + 1 = j)
  BY <1>1
<1>3. (Head(d) = "ueRequest" => known) /\ (Head(d) = "lcRequest" => answered)
  BY <1>1, <1>2 DEF Asked
<1>4. ASSUME NEW k \in BOOLEAN, NEW t \in BOOLEAN, k = (known \/ Head(d) = "enbRequest"),
             t = (answered \/ Head(d) = "ueRequest")
      PROVE  Asked(left, k, t)
  <2>1. ASSUME NEW i \in 1 .. n - 1, left[i] = "ueRequest", ~k
        PROVE  \E j \in 1 .. i - 1 : left[j] = "enbRequest"
    <3>1. d[i + 1] = "ueRequest" /\ i + 1 \in DOMAIN d /\ ~known /\ d[1] # "enbRequest"
      BY <1>1, <1>2, <1>4, <2>1
    <3>2. PICK j \in 1 .. i + 1 - 1 : d[j] = "enbRequest"
      BY <3>1 DEF Asked
    <3>3. j - 1 \in 1 .. i - 1 /\ left[j - 1] = "enbRequest"
      BY <1>1, <1>2, <3>1, <3>2
    <3> QED
      BY <3>3
  <2>2. ASSUME NEW i \in 1 .. n - 1, left[i] = "lcRequest", ~t
        PROVE  \E j \in 1 .. i - 1 : left[j] = "ueRequest"
    <3>1. d[i + 1] = "lcRequest" /\ i + 1 \in DOMAIN d /\ ~answered /\ d[1] # "ueRequest"
      BY <1>1, <1>2, <1>4, <2>2
    <3>2. PICK j \in 1 .. i + 1 - 1 : d[j] = "ueRequest"
      BY <3>1 DEF Asked
    <3>3. j - 1 \in 1 .. i - 1 /\ left[j - 1] = "ueRequest"
      BY <1>1, <1>2, <3>1, <3>2
    <3> QED
      BY <3>3
  <2>3. ASSUME k \/ (\E i \in 1 .. n - 1 : left[i] = "enbRequest"), ~t
        PROVE  \E i \in 1 .. n - 1 : left[i] = "ueRequest"
    <3>1. known \/ \E i \in DOMAIN d : d[i] = "enbRequest"
      BY <1>1, <1>2, <1>4, <2>3
    <3>2. ~answered /\ d[1] # "ueRequest"
      BY <1>1, <1>4, <2>3
    <3>3. PICK i \in 1 .. n : d[i] = "ueRequest"
      BY <1>1, <3>1, <3>2 DEF Asked
    <3>4. i - 1 \in 1 .. n - 1 /\ left[i - 1] = "ueRequest"
      BY <1>1, <1>2, <3>2, <3>3
    <3> QED
      BY <3>4
  <2> QED
    BY <1>1, <2>1, <2>2, <2>3 DEF Asked
<1> QED
  BY <1>3, <1>4 DEF left

-------------------------------------------------------------------------------
(* The agents' UEs and what the RIB will hold of them                          *)

\* What a state change of an agent does to its UEs.
ChangesUEs(served, kind, e, new) ==
  \/ kind = "activated" /\ e.rnti \notin Rntis(served) /\ new = Append(served, e)
  \/ /\ kind = "deactivated"
     /\ \E i \in 1 .. Len(served) : e = served[i] /\ new = RemoveAt(served, i)
  \/ /\ kind = "updated"
     /\ \E i \in 1 .. Len(served) : served[i].rnti = e.rnti /\ new = [served EXCEPT ![i] = e]

\* The same happens to an entry that holds the UEs of the agent, and one that does
\* not hold them all yet gains no others.
LEMMA ChangedTogether ==
  ASSUME NEW info \in Info, SoundInfo(info), NEW e \in UeEntry,
         NEW served \in Seq(UeEntry), Distinct(served), Rntis(info.ue) \subseteq Rntis(served),
         NEW kind, NEW new, ChangesUEs(served, kind, e, new)
  PROVE  /\ new \in Seq(UeEntry) /\ Distinct(new)
         /\ ChangedInfo(info, kind, e) \in Info /\ SoundInfo(ChangedInfo(info, kind, e))
         /\ Rntis(ChangedInfo(info, kind, e).ue) \subseteq Rntis(new)
         /\ info.ue = served => ChangedInfo(info, kind, e).ue = new
<1>1. info.ue \in Seq(UeEntry) /\ e.rnti \in Rnti
  BY DEF Info, UeEntry
<1>2. CASE kind = "activated"
  <2>1. e.rnti \notin Rntis(served) /\ new = Append(served, e)
    BY <1>2 DEF ChangesUEs
  <2>2. ChangedInfo(info, kind, e) = Activate(info, e)
    BY <1>2 DEF ChangedInfo
  <2>3. /\ new \in Seq(UeEntry) /\ Distinct(new) /\ Rntis(new) = Rntis(served) \cup {e.rnti}
    BY <2>1, AppendedUe
  <2>4. e.rnti \notin Rntis(info.ue)
    BY <2>1
  <2>5. /\ Activate(info, e) \in Info /\ SoundInfo(Activate(info, e))
        /\ Activate(info, e).ue = Append(info.ue, e)
        /\ Rntis(Activate(info, e).ue) = Rntis(info.ue) \cup {e.rnti}
    BY <2>4, ActivatedInfo
  <2> QED
    BY <2>1, <2>2, <2>3, <2>5
<1>3. CASE kind = "deactivated"
  <2>1. PICK i \in 1 .. Len(served) : e = served[i] /\ new = RemoveAt(served, i)
    BY <1>3 DEF ChangesUEs
  <2>2. ChangedInfo(info, kind, e) = Deactivate(info, e.rnti)
    BY <1>3 DEF ChangedInfo
  <2>3. /\ new \in Seq(UeEntry) /\ Distinct(new) /\ Rntis(new) = Rntis(served) \ {e.rnti}
    BY <2>1, RemovedUe
  <2>4. /\ Deactivate(info, e.rnti) \in Info /\ SoundInfo(Deactivate(info, e.rnti))
        /\ Rntis(Deactivate(info, e.rnti).ue) = Rntis(info.ue) \ {e.rnti}
        /\ \A k \in 1 .. Len(info.ue) :
             info.ue[k].rnti = e.rnti => Deactivate(info, e.rnti).ue = RemoveAt(info.ue, k)
    BY <1>1, DeactivatedInfo
  <2> QED
    BY <2>1, <2>2, <2>3, <2>4
<1>4. CASE kind = "updated"
  <2>1. PICK i \in 1 .. Len(served) : served[i].rnti = e.rnti /\ new = [served EXCEPT ![i] = e]
    BY <1>4 DEF ChangesUEs
  <2>2. ChangedInfo(info, kind, e) = UpdateUE(info, e)
    BY <1>4 DEF ChangedInfo
  <2>3. /\ new \in Seq(UeEntry) /\ Distinct(new) /\ Rntis(new) = Rntis(served)
    BY <2>1, ReplacedUe
  <2>4. /\ UpdateUE(info, e) \in Info /\ SoundInfo(UpdateUE(info, e))
        /\ Rntis(UpdateUE(info, e).ue) = Rntis(info.ue)
        /\ \A k \in 1 .. Len(info.ue) :
             info.ue[k].rnti = e.rnti => UpdateUE(info, e).ue = [info.ue EXCEPT ![k] = e]
    BY <1>1, UpdatedInfo
  <2> QED
    BY <2>1, <2>2, <2>3, <2>4
<1> QED
  BY <1>2, <1>3, <1>4 DEF ChangesUEs

\* How the standing s that an agent is heading for compares with the agent.
EndOK(s, a) ==
  /\ a \in connected => s.pending \/ s.known
  /\ a \in told => s.known /\ s.info.ue = agentUEs[a]
  /\ Rntis(s.info.ue) \subseteq Rntis(agentUEs[a])
  /\ Asked(down[a], s.known, a \in told)

Behind(a) ==
  /\ Distinct(agentUEs[a])
  /\ \E s : Ends(s, inQueue, Standing(a), a) /\ EndOK(s, a)

\* update_rib has budget for what is in in_queue_.
InTime ==
  /\ remMsgs \in 0 .. Budget
  /\ Len(inQueue) <= IF phase = "rib" THEN remMsgs ELSE Budget

FollowInv == InTime /\ \A a \in Agent : Behind(a)

\* A message of agent a joins in_queue_: nothing changes for another agent.
LEMMA Heard ==
  ASSUME IInv, FollowInv, NEW a \in Agent, NEW m \in Item, m.tag = a,
         inQueue' = Append(inQueue, m), UNCHANGED <<pending, eNBConfigs>>,
         \A b \in Agent \ {a} : /\ (b \in connected') <=> (b \in connected)
                                /\ (b \in told') <=> (b \in told)
                                /\ agentUEs'[b] = agentUEs[b] /\ down'[b] = down[b],
         Distinct(agentUEs[a])',
         \A s : SoundStanding(s) /\ EndOK(s, a) =>
           /\ SoundStanding(After(s, m)) /\ (s.known => After(s, m).known)
           /\ EndOK(After(s, m), a)'
  PROVE  \A b \in Agent : Behind(b)'
<1> SUFFICES ASSUME NEW b \in Agent PROVE Behind(b)'
  OBVIOUS
<1>1. PICK s : Ends(s, inQueue, Standing(b), b) /\ EndOK(s, b)
  BY DEF FollowInv, Behind
<1>2. Standing(b)' = Standing(b)
  BY DEF Standing, configured
<1>3. inQueue \in Seq(Item)
  BY DEF IInv, StageTypes
<1>4. SoundStanding(s)
  BY <1>1, <1>3, EndsFacts
<1>5. CASE b = a
  <2>1. SoundStanding(After(s, m)) /\ (s.known => After(s, m).known) /\ EndOK(After(s, m), a)'
    BY <1>1, <1>4, <1>5
  <2>2. AfterOf(s, m, b) = After(s, m)
    BY <1>5 DEF AfterOf
  <2>3. Ends(After(s, m), Append(inQueue, m), Standing(b), b)
    BY <1>1, <1>3, <2>1, <2>2, EndsLater
  <2> QED
    BY <1>2, <1>5, <2>1, <2>3 DEF Behind
<1>6. CASE b # a
  <2>1. AfterOf(s, m, b) = s
    BY <1>6 DEF AfterOf
  <2>2. Ends(s, Append(inQueue, m), Standing(b), b)
    BY <1>1, <1>3, <1>4, <2>1, EndsLater
  <2>3. EndOK(s, b)'
    <3>1. (b \in told') = (b \in told)
      BY <1>6
    <3> QED
      BY <1>1, <1>6, <3>1 DEF EndOK
  <2>4. Distinct(agentUEs[b])'
    BY <1>6 DEF FollowInv, Behind
  <2> QED
    BY <1>2, <2>2, <2>3, <2>4 DEF Behind
<1> QED
  BY <1>5, <1>6

\* There was room for it.
LEMMA RoomKept ==
  ASSUME Overload = FALSE, InTime, inQueue \in Seq(Item), Room, NEW m,
         inQueue' = Append(inQueue, m), UNCHANGED <<phase, remMsgs>>
  PROVE  InTime'
<1>1. Len(inQueue') = Len(inQueue) + 1 /\ Len(inQueue) \in Nat /\ Budget \in Nat
  BY RibAssumption
<1> QED
  BY <1>1 DEF InTime, Room

-------------------------------------------------------------------------------
\* It holds when the controller starts.
LEMMA InitFollow == Init => FollowInv
<1> SUFFICES ASSUME Init PROVE FollowInv
  OBVIOUS
<1>1. inQueue = <<>> /\ Len(inQueue) = 0 /\ configured = {} /\ pending = {}
      /\ connected = {} /\ told = {} /\ remMsgs = Budget /\ phase = "rib"
  BY DEF Init, configured
<1>2. InTime
  BY <1>1, RibAssumption DEF InTime
<1>3. ASSUME NEW a \in Agent PROVE Behind(a)
  <2>1. PICK e \in UeEntry : agentUEs \in [Agent -> {<<>>, <<e>>}]
    BY DEF Init
  <2>2. Distinct(agentUEs[a])
    <3>1. agentUEs[a] = <<>> \/ agentUEs[a] = <<e>>
      BY <2>1
    <3>2. Distinct(<<>>) /\ Distinct(<<e>>)
      BY DEF Distinct
    <3> QED
      BY <3>1, <3>2
  <2> DEFINE x == Standing(a)
  <2>3. x = [pending |-> FALSE, known |-> FALSE, info |-> NewInfo]
    <3>1. (a \in pending) = FALSE /\ (a \in configured) = FALSE
      BY <1>1
    <3> QED
      BY <3>1 DEF Standing
  <2>4. NewInfo \in Info /\ SoundInfo(NewInfo) /\ Rntis(NewInfo.ue) = {}
    BY DEF NewInfo, Info, SoundInfo, Distinct, Rntis
  <2>5. x \in Standings /\ x.info = NewInfo /\ ~x.known
    BY <2>3, <2>4 DEF Standings
  <2> HIDE DEF x
  <2>6. SoundStanding(x)
    BY <2>4, <2>5 DEF SoundStanding
  <2>7. Ends(x, inQueue, x, a)
    BY <1>1, <2>6, EndsHere
  <2>8. Asked(down[a], x.known, a \in told)
    <3>1. down[a] = <<>> /\ DOMAIN down[a] = {}
      BY DEF Init
    <3> QED
      BY <2>5, <3>1 DEF Asked
  <2>9. EndOK(x, a)
    BY <1>1, <2>4, <2>5, <2>8 DEF EndOK
  <2> QED
    BY <2>2, <2>7, <2>9 DEF Behind, x
<1> QED
  BY <1>2, <1>3 DEF FollowInv

\* What handling a message sends to the agent it is of: logical channels are asked
\* for only of a configured one, unless its UEs are asked for too.
LEMMA HandleAsks ==
  ASSUME StageTypes, NEW m \in Item, Handle(m)
  PROVE  \/ down'[m.tag] = down[m.tag]
         \/ down'[m.tag] = down[m.tag] \o <<"enbRequest", "ueRequest", "lcRequest">>
         \/ \E r \in {"hello", "echoReply", "statsRequest", "lcRequest"} :
              /\ down'[m.tag] = Append(down[m.tag], r)
              /\ r = "lcRequest" => m.tag \in configured
<1>1. m.tag \in Agent /\ down \in [Agent -> Seq(Requests)] /\ down[m.tag] \in Seq(Requests)
  BY DEF Item, StageTypes
<1>2. ASSUME NEW reqs, Send(m.tag, reqs) PROVE down'[m.tag] = down[m.tag] \o reqs
  BY <1>1, <1>2 DEF Send
<1>3. ASSUME NEW r \in Requests PROVE down[m.tag] \o <<r>> = Append(down[m.tag], r)
  BY <1>1
<1>4. {"hello", "echoReply", "lcRequest"} \subseteq Requests
  BY DEF Requests
<1>5. CASE m.kind = "notice"
  BY <1>2, <1>3, <1>4, <1>5 DEF Handle, HandleNewConnection
<1>6. CASE m.kind = "hello"
  BY <1>2, <1>6 DEF Handle, HandleHello
<1>7. CASE m.kind = "echo"
  BY <1>2, <1>3, <1>4, <1>7 DEF Handle, HandleEcho
<1>8. CASE m.kind \in {"enbReply", "ueReply", "lcReply"}
  BY <1>8 DEF Handle, HandleEnbReply, HandleUeReply, HandleLcReply
<1>9. CASE m.kind \in {"activated", "deactivated", "updated"}
  BY <1>2, <1>3, <1>4, <1>9 DEF Handle, HandleStateChange
<1>10. CASE m.kind \in {"greeting", "trigger", "stats"}
  BY <1>10 DEF Handle, HandleNothing
<1> QED
  BY <1>5, <1>6, <1>7, <1>8, <1>9, <1>10 DEF Item, Kinds

\* update_rib takes a message.
LEMMA CheckFollow ==
  ASSUME IInv, FollowInv, CheckMessage PROVE FollowInv'
<1> DEFINE m == Head(inQueue)
<1>1. /\ inQueue # <<>> /\ inQueue' = Tail(inQueue) /\ Handle(m)
      /\ phase = "rib" /\ remMsgs > 0 /\ remMsgs' = remMsgs - 1
      /\ UNCHANGED <<phase, connected, agentUEs, told>>
  BY DEF CheckMessage, agentVars
<1>2. StageTypes /\ inQueue \in Seq(Item) /\ m \in Item
  BY <1>1 DEF IInv, StageTypes
<1>3. InTime'
  <2>1. Len(inQueue') = Len(inQueue) - 1 /\ Len(inQueue) \in Nat /\ Budget \in Nat
    BY <1>1, <1>2, RibAssumption
  <2> QED
    BY <1>1, <2>1 DEF FollowInv, InTime
<1> HIDE DEF m
<1>4. ASSUME NEW a \in Agent PROVE Behind(a)'
  <2>1. PICK s : Ends(s, inQueue, Standing(a), a) /\ EndOK(s, a)
    BY DEF FollowInv, Behind
  <2>2. Standing(a)' = AfterOf(Standing(a), m, a)
    BY <1>1, <1>2, HandleIsAfter
  <2>3. Ends(s, inQueue', Standing(a)', a)
    BY <1>1, <1>2, <2>1, <2>2, EndsSooner DEF m
  <2>4. SoundStanding(s) /\ (Standing(a).known => s.known)
    BY <1>2, <2>1, EndsFacts
  <2>5. Asked(down'[a], s.known, a \in told)
    <3>1. /\ s.known \in BOOLEAN /\ (a \in told) \in BOOLEAN /\ down[a] \in Seq(Requests)
          /\ Asked(down[a], s.known, a \in told)
      BY <1>2, <2>1, <2>4 DEF SoundStanding, Standings, StageTypes, EndOK
    <3>2. CASE m.tag # a
      <4>1. down'[a] = down[a]
        BY <1>1, <1>2, <3>2, HandleSends
      <4> QED
        BY <3>1, <4>1
    <3>3. CASE m.tag = a
      <4>1. a \in configured => s.known
        BY <2>4 DEF Standing
      <4>2. \/ down'[a] = down[a]
            \/ down'[a] = down[a] \o <<"enbRequest", "ueRequest", "lcRequest">>
            \/ \E r \in {"hello", "echoReply", "statsRequest", "lcRequest"} :
                 /\ down'[a] = Append(down[a], r)
                 /\ r = "lcRequest" => a \in configured
        BY <1>1, <1>2, <3>3, HandleAsks
      <4> QED
        BY <3>1, <4>1, <4>2, AskedMore, AskedAll
    <3> QED
      BY <3>2, <3>3
  <2>6. EndOK(s, a)'
    BY <1>1, <2>1, <2>5 DEF EndOK
  <2>7. Distinct(agentUEs[a])'
    BY <1>1 DEF FollowInv, Behind
  <2> QED
    BY <2>3, <2>6, <2>7 DEF Behind
<1> QED
  BY <1>3, <1>4 DEF FollowInv

\* It never runs out of budget with a message left.
LEMMA DropFollow ==
  ASSUME IInv, FollowInv, DropMessage PROVE FollowInv'
<1>1. Len(inQueue) = 0 /\ inQueue # <<>> /\ inQueue \in Seq(Item)
  BY DEF DropMessage, FollowInv, InTime, IInv, StageTypes
<1> QED
  BY <1>1

\* It finds no message left, or nothing happens.
LEMMA IdleFollow ==
  ASSUME FollowInv, QueueEmpty \/ UNCHANGED vars PROVE FollowInv'
<1>1. UNCHANGED <<inQueue, down, remMsgs, pending, eNBConfigs, connected, agentUEs, told>>
  BY DEF QueueEmpty, vars, taskVars, ribVars, agentVars
<1>2. phase' = phase \/ inQueue = <<>>
  BY DEF QueueEmpty, vars, taskVars
<1>3. InTime'
  <2>1. Budget \in Nat /\ (inQueue = <<>> => Len(inQueue) = 0)
    BY RibAssumption
  <2> QED
    BY <1>1, <1>2, <2>1 DEF FollowInv, InTime
<1>4. \A a \in Agent : Behind(a)'
  <2>1. \A a \in Agent : Standing(a)' = Standing(a)
    BY <1>1 DEF Standing, configured
  <2>2. \A a \in Agent : \A s : EndOK(s, a)' <=> EndOK(s, a)
    BY <1>1 DEF EndOK
  <2> QED
    BY <1>1, <2>1, <2>2 DEF FollowInv, Behind
<1> QED
  BY <1>3, <1>4 DEF FollowInv

\* The applications ask for statistics, and the next period begins.
LEMMA AppsFollow ==
  ASSUME IInv, FollowInv, RunApps PROVE FollowInv'
<1>1. /\ UNCHANGED <<inQueue, pending, eNBConfigs, connected, agentUEs, told>>
      /\ phase = "apps" /\ phase' = "rib" /\ remMsgs' = Budget
      /\ \A a \in Agent : down'[a] = down[a] \/ down'[a] = Append(down[a], "statsRequest")
  BY DEF RunApps, ribVars, agentVars
<1>2. InTime'
  BY <1>1, RibAssumption DEF FollowInv, InTime
<1>3. ASSUME NEW a \in Agent PROVE Behind(a)'
  <2>1. PICK s : Ends(s, inQueue, Standing(a), a) /\ EndOK(s, a)
    BY DEF FollowInv, Behind
  <2>2. Standing(a)' = Standing(a)
    BY <1>1 DEF Standing, configured
  <2>3. inQueue \in Seq(Item) /\ down[a] \in Seq(Requests)
    BY DEF IInv, StageTypes
  <2>4. SoundStanding(s)
    BY <2>1, <2>3, EndsFacts
  <2>5. /\ s.known \in BOOLEAN /\ (a \in told) \in BOOLEAN
        /\ Asked(down[a], s.known, a \in told)
    BY <2>1, <2>4 DEF SoundStanding, Standings, EndOK
  <2>6. Asked(down'[a], s.known, a \in told)
    BY <1>1, <2>3, <2>5, AskedMore
  <2>7. EndOK(s, a)' /\ Distinct(agentUEs[a])'
    BY <1>1, <2>1, <2>6 DEF EndOK, FollowInv, Behind
  <2> QED
    BY <1>1, <2>1, <2>2, <2>7 DEF Behind
<1> QED
  BY <1>2, <1>3 DEF FollowInv

\* A connection is announced.
LEMMA ConnectFollow ==
  ASSUME Overload = FALSE, IInv, FollowInv, NEW a \in Agent, Connect(a)
  PROVE  FollowInv'
<1> DEFINE m == Msg(a, "notice", <<>>)
<1>1. /\ connected' = connected \cup {a} /\ Room /\ inQueue' = Append(inQueue, m)
      /\ UNCHANGED <<down, phase, remMsgs, pending, eNBConfigs, agentUEs, told>>
  BY DEF Connect, AgentSends, taskVars, ribVars
<1>2. m \in Item /\ m.tag = a /\ m.kind = "notice"
  BY DEF Msg, Item, Kinds
<1>3. inQueue \in Seq(Item)
  BY DEF IInv, StageTypes
<1> HIDE DEF m
<1>4. InTime'
  BY <1>1, <1>3, RoomKept DEF FollowInv
<1>5. ASSUME NEW s, SoundStanding(s), EndOK(s, a)
      PROVE  /\ SoundStanding(After(s, m)) /\ (s.known => After(s, m).known)
             /\ EndOK(After(s, m), a)'
  <2> DEFINE t == After(s, m)
  <2>1. SoundStanding(t) /\ t.info = s.info /\ t.known = s.known /\ t.pending
    BY <1>2, <1>5, Moved
  <2> HIDE DEF t
  <2>2. EndOK(t, a)'
    BY <1>1, <1>5, <2>1 DEF EndOK
  <2> QED
    BY <2>1, <2>2 DEF t
<1>6. Distinct(agentUEs[a])'
  BY <1>1 DEF FollowInv, Behind
<1>7. \A b \in Agent \ {a} : /\ (b \in connected') <=> (b \in connected)
                             /\ (b \in told') <=> (b \in told)
                             /\ agentUEs'[b] = agentUEs[b] /\ down'[b] = down[b]
  BY <1>1
<1>8. \A b \in Agent : Behind(b)'
  BY <1>1, <1>2, <1>5, <1>6, <1>7, Heard
<1> QED
  BY <1>4, <1>8 DEF FollowInv

\* An agent says something that changes nothing in what the RIB keeps of its UEs.
LEMMA ReportFollow ==
  ASSUME Overload = FALSE, IInv, FollowInv, NEW a \in Agent, Reports(a)
  PROVE  FollowInv'
<1>1. PICK kind \in {"echo", "greeting", "trigger", "stats"}, ues \in Seq(UeEntry) :
        Report(a, kind, ues)
  <2>1. <<>> \in Seq(UeEntry) /\ agentUEs[a] \in Seq(UeEntry)
    BY DEF IInv, StageTypes
  <2> QED
    BY <2>1 DEF Reports
<1> DEFINE m == Msg(a, kind, ues)
<1>2. /\ Room /\ inQueue' = Append(inQueue, m)
      /\ UNCHANGED <<down, phase, remMsgs, pending, eNBConfigs, connected, agentUEs, told>>
  BY <1>1 DEF Report, AgentSends, taskVars, ribVars
<1>3. m \in Item /\ m.tag = a /\ m.kind = kind
  BY DEF Msg, Item, Kinds
<1>4. inQueue \in Seq(Item)
  BY DEF IInv, StageTypes
<1> HIDE DEF m
<1>5. InTime'
  BY <1>2, <1>4, RoomKept DEF FollowInv
<1>6. ASSUME NEW s PROVE After(s, m) = s
  BY <1>3 DEF After
<1>7. \A s : EndOK(s, a)' <=> EndOK(s, a)
  BY <1>2 DEF EndOK
<1>8. Distinct(agentUEs[a])'
  BY <1>2 DEF FollowInv, Behind
<1>9. \A b \in Agent : Behind(b)'
  <2>1. \A s : SoundStanding(s) /\ EndOK(s, a) =>
          /\ SoundStanding(After(s, m)) /\ (s.known => After(s, m).known)
          /\ EndOK(After(s, m), a)'
    BY <1>6, <1>7
  <2>2. \A b \in Agent \ {a} : /\ (b \in connected') <=> (b \in connected)
                               /\ (b \in told') <=> (b \in told)
                               /\ agentUEs'[b] = agentUEs[b] /\ down'[b] = down[b]
    BY <1>2
  <2> QED
    BY <1>2, <1>3, <1>8, <2>1, <2>2, Heard
<1> QED
  BY <1>5, <1>9 DEF FollowInv

\* A UE of the agent attaches, leaves or is reconfigured.
LEMMA ChangeFollow ==
  ASSUME Overload = FALSE, IInv, FollowInv, NEW a \in Agent, UeChanges(a)
  PROVE  FollowInv'
<1> DEFINE served == agentUEs[a]
<1>1. served \in Seq(UeEntry) /\ Distinct(served) /\ inQueue \in Seq(Item)
      /\ agentUEs \in [Agent -> Seq(UeEntry)]
  BY DEF IInv, StageTypes, FollowInv, Behind
<1>2a. PICK kind \in {"activated", "deactivated", "updated"}, e \in UeEntry :
         \E new : ChangesUEs(served, kind, e, new) /\ Change(a, kind, e, new)
  <2>1. CASE \E e \in UeEntry : UeAttaches(a, e)
    BY <2>1 DEF UeAttaches, ChangesUEs
  <2>2. CASE \E i \in DOMAIN agentUEs[a] : UeLeaves(a, i)
    <3>1. PICK i \in 1 .. Len(served) : UeLeaves(a, i)
      BY <1>1, <2>2
    <3>2. served[i] \in UeEntry
      BY <1>1
    <3>3. /\ ChangesUEs(served, "deactivated", served[i], RemoveAt(served, i))
          /\ Change(a, "deactivated", served[i], RemoveAt(served, i))
      BY <3>1 DEF UeLeaves, ChangesUEs
    <3> QED
      BY <3>2, <3>3
  <2>3. CASE \E i \in DOMAIN agentUEs[a], c \in Conf : UeReconfigured(a, i, c)
    <3>1. PICK i \in 1 .. Len(served), c \in Conf : UeReconfigured(a, i, c)
      BY <1>1, <2>3
    <3> DEFINE e == [served[i] EXCEPT !.conf = c]
    <3>2. served[i] \in UeEntry
      BY <1>1
    <3>3. e \in UeEntry /\ e.rnti = served[i].rnti
      BY <3>2 DEF UeEntry
    <3>4. Change(a, "updated", e, [served EXCEPT ![i] = e])
      BY <3>1 DEF UeReconfigured
    <3> HIDE DEF e
    <3>5. ChangesUEs(served, "updated", e, [served EXCEPT ![i] = e])
      BY <3>3 DEF ChangesUEs
    <3> QED
      BY <3>3, <3>4, <3>5
  <2> QED
    BY <2>1, <2>2, <2>3 DEF UeChanges
<1>2. PICK new : ChangesUEs(served, kind, e, new) /\ Change(a, kind, e, new)
  BY <1>2a
<1> DEFINE m == Msg(a, kind, <<e>>)
<1>3. /\ Room /\ inQueue' = Append(inQueue, m) /\ a \in connected
      /\ agentUEs' = [agentUEs EXCEPT ![a] = new]
      /\ UNCHANGED <<down, phase, remMsgs, pending, eNBConfigs, connected, told>>
  BY <1>2 DEF Change, AgentSends, taskVars, ribVars
<1>4. m \in Item /\ m.tag = a /\ m.kind = kind /\ m.ues[1] = e
  BY DEF Msg, Item, Kinds
<1> HIDE DEF m
<1>5. InTime'
  BY <1>1, <1>3, RoomKept DEF FollowInv
<1>6. agentUEs'[a] = new
  BY <1>1, <1>3
<1> HIDE DEF served
<1>7. ASSUME NEW s, SoundStanding(s), EndOK(s, a)
      PROVE  /\ SoundStanding(After(s, m)) /\ (s.known => After(s, m).known)
             /\ EndOK(After(s, m), a)' /\ Distinct(new)
  <2> DEFINE info == ChangedInfo(s.info, kind, e)
             t == After(s, m)
  <2>1. /\ s.info \in Info /\ SoundInfo(s.info) /\ Rntis(s.info.ue) \subseteq Rntis(served)
        /\ a \in told => s.known /\ s.info.ue = served
        /\ Asked(down[a], s.known, a \in told)
        /\ s.pending \/ s.known
    BY <1>3, <1>7 DEF SoundStanding, Standings, EndOK, served
  <2>2. /\ Distinct(new) /\ info \in Info /\ SoundInfo(info)
        /\ Rntis(info.ue) \subseteq Rntis(new) /\ (s.info.ue = served => info.ue = new)
    BY <1>1, <1>2, <2>1, ChangedTogether
  <2>3. CASE s.known
    <3>1. t = [s EXCEPT !.info = info]
      BY <1>4, <2>3 DEF After
    <3> HIDE DEF info, t
    <3>2. SoundStanding(t) /\ t.info = info /\ t.known = s.known /\ t.pending = s.pending
      BY <1>7, <2>2, <2>3, <3>1, NewEntry
    <3>3. EndOK(t, a)'
      BY <1>3, <1>6, <2>1, <2>2, <3>2 DEF EndOK
    <3> QED
      BY <2>2, <3>2, <3>3 DEF t
  <2>4. CASE ~s.known
    <3>1. t = s
      BY <1>4, <2>4 DEF After
    <3>2. Rntis(s.info.ue) = {}
      <4>1. s.info.ue = <<>>
        BY <1>7, <2>4 DEF SoundStanding, NewInfo
      <4> QED
        BY <4>1 DEF Rntis
    <3> HIDE DEF t
    <3>3. EndOK(s, a)'
      BY <1>3, <1>6, <2>1, <2>4, <3>2 DEF EndOK
    <3> QED
      BY <1>7, <2>2, <3>1, <3>3 DEF t
  <2> QED
    BY <2>3, <2>4
<1>8. Distinct(agentUEs[a])'
  <2>1. PICK s : Ends(s, inQueue, Standing(a), a) /\ EndOK(s, a)
    BY DEF FollowInv, Behind
  <2>2. SoundStanding(s)
    BY <1>1, <2>1, EndsFacts
  <2> QED
    BY <1>6, <1>7, <2>1, <2>2
<1>9. \A b \in Agent : Behind(b)'
  <2>1. \A b \in Agent \ {a} : /\ (b \in connected') <=> (b \in connected)
                               /\ (b \in told') <=> (b \in told)
                               /\ agentUEs'[b] = agentUEs[b] /\ down'[b] = down[b]
    BY <1>1, <1>3
  <2> QED
    BY <1>3, <1>4, <1>7, <1>8, <2>1, Heard
<1> QED
  BY <1>5, <1>9 DEF FollowInv

\* What an answer of agent a makes of the standing it is heading for.
LEMMA Answered ==
  ASSUME IInv, NEW a \in Agent, Answer(a), Distinct(agentUEs[a]),
         NEW s, SoundStanding(s), EndOK(s, a), NEW m \in Item,
         <<Head(down[a]), m.kind>> \in {<<"hello", "hello">>, <<"enbRequest", "enbReply">>,
                                        <<"ueRequest", "ueReply">>, <<"lcRequest", "lcReply">>},
         m.kind \in {"ueReply", "lcReply"} => m.ues = agentUEs[a],
         told' = IF m.kind = "ueReply" THEN told \cup {a} ELSE told
  PROVE  /\ SoundStanding(After(s, m)) /\ (s.known => After(s, m).known)
         /\ EndOK(After(s, m), a)'
<1> DEFINE d == down[a]
           served == agentUEs[a]
           t == After(s, m)
<1>1. /\ d \in Seq(Requests) /\ d # <<>> /\ down'[a] = Tail(d) /\ served \in Seq(UeEntry)
      /\ UNCHANGED <<connected, agentUEs>> /\ a \in connected
  BY DEF Answer, IInv, StageTypes, SentToConnected
<1>2. /\ s.info \in Info /\ SoundInfo(s.info) /\ Rntis(s.info.ue) \subseteq Rntis(served)
      /\ a \in told => s.known /\ s.info.ue = served
      /\ s.pending \/ s.known
      /\ s.known \in BOOLEAN /\ (a \in told) \in BOOLEAN
      /\ Asked(d, s.known, a \in told)
  BY <1>1 DEF SoundStanding, Standings, EndOK
<1>3. /\ Head(d) = "ueRequest" => s.known
      /\ Head(d) = "lcRequest" => a \in told
      /\ \A k \in BOOLEAN, u \in BOOLEAN :
           /\ k = (s.known \/ Head(d) = "enbRequest")
           /\ u = ((a \in told) \/ Head(d) = "ueRequest")
           => Asked(Tail(d), k, u)
  BY <1>1, <1>2, AskedLess
<1> HIDE DEF d, served
<1>4. CASE Head(d) = "hello" /\ m.kind = "hello"
  <2>1. t = s
    BY <1>4 DEF After
  <2> HIDE DEF t
  <2>2. Asked(Tail(d), s.known, a \in told)
    BY <1>2, <1>3, <1>4
  <2>3. told' = told
    BY <1>4
  <2>4. EndOK(s, a)'
    BY <1>1, <1>2, <2>2, <2>3 DEF EndOK, served
  <2> QED
    BY <2>1, <2>4 DEF t
<1>5. CASE Head(d) = "enbRequest" /\ m.kind = "enbReply"
  <2>1. SoundStanding(t) /\ t.info = s.info /\ t.known
    BY <1>2, <1>5, Moved
  <2> HIDE DEF t
  <2>2. t.known = TRUE
    BY <2>1 DEF SoundStanding, Standings
  <2>3. Asked(Tail(d), t.known, a \in told)
    BY <1>2, <1>3, <1>5, <2>2
  <2>4. told' = told
    BY <1>5
  <2>5. EndOK(t, a)'
    BY <1>1, <1>2, <2>1, <2>3, <2>4 DEF EndOK, served
  <2> QED
    BY <2>1, <2>5 DEF t
<1>6. CASE Head(d) = "ueRequest" /\ m.kind = "ueReply"
  <2> DEFINE info == UpdateUEConfig(s.info, served)
  <2>1. s.known /\ m.ues = served
    BY <1>3, <1>6 DEF served
  <2>2. info \in Info /\ SoundInfo(info) /\ info.ue = served
    BY <1>1, <1>2, RepliedInfo DEF served
  <2>3. t = [s EXCEPT !.info = info]
    BY <1>6, <2>1 DEF After
  <2> HIDE DEF info, t
  <2>4. SoundStanding(t) /\ t.info = info /\ t.known = s.known /\ t.pending = s.pending
    BY <2>1, <2>2, <2>3, NewEntry
  <2>5. (a \in told') = TRUE
    BY <1>6
  <2>6. Asked(Tail(d), s.known, TRUE)
    BY <1>2, <1>3, <1>6
  <2>7. EndOK(t, a)'
    BY <1>1, <2>1, <2>2, <2>4, <2>5, <2>6 DEF EndOK, served
  <2> QED
    BY <2>4, <2>7 DEF t
<1>7. CASE Head(d) = "lcRequest" /\ m.kind = "lcReply"
  <2> DEFINE lc == [i \in DOMAIN s.info.ue |-> s.info.ue[i].rnti]
             info == UpdateLCConfig(s.info, lc)
  <2>1. a \in told /\ s.known /\ s.info.ue = served /\ m.ues = served
    BY <1>2, <1>3, <1>7 DEF served
  <2>2. info \in Info /\ SoundInfo(info) /\ info.ue = served
    BY <1>2, <2>1, ListedInfo
  <2>3. t = [s EXCEPT !.info = info]
    BY <1>7, <2>1 DEF After
  <2> HIDE DEF info, t
  <2>4. SoundStanding(t) /\ t.info = info /\ t.known = s.known /\ t.pending = s.pending
    BY <2>1, <2>2, <2>3, NewEntry
  <2>5. told' = told
    BY <1>7
  <2>6. Asked(Tail(d), s.known, a \in told)
    BY <1>2, <1>3, <1>7
  <2>7. EndOK(t, a)'
    BY <1>1, <2>1, <2>2, <2>4, <2>5, <2>6 DEF EndOK, served
  <2> QED
    BY <2>4, <2>7 DEF t
<1> QED
  BY <1>4, <1>5, <1>6, <1>7 DEF d

\* The agent takes a request, and answers it or not.
LEMMA AnswerFollow ==
  ASSUME Overload = FALSE, IInv, FollowInv, NEW a \in Agent, Answer(a)
  PROVE  FollowInv'
<1> DEFINE d == down[a]
<1>1. /\ d \in Seq(Requests) /\ d # <<>> /\ down' = [down EXCEPT ![a] = Tail(@)]
      /\ down \in [Agent -> Seq(Requests)]
      /\ UNCHANGED <<phase, remMsgs, pending, eNBConfigs, connected, agentUEs>>
      /\ inQueue \in Seq(Item) /\ agentUEs[a] \in Seq(UeEntry) /\ Distinct(agentUEs[a])
  BY DEF Answer, IInv, StageTypes, FollowInv, Behind, taskVars, ribVars
<1>2. \A b \in Agent \ {a} : agentUEs'[b] = agentUEs[b] /\ down'[b] = down[b]
  BY <1>1
<1>3. Distinct(agentUEs[a])'
  BY <1>1
<1> DEFINE pairs == {<<"hello", "hello">>, <<"enbRequest", "enbReply">>,
                     <<"ueRequest", "ueReply">>, <<"lcRequest", "lcReply">>}
<1>4. ASSUME NEW kind \in Kinds, NEW ues \in Seq(UeEntry), <<Head(d), kind>> \in pairs,
             kind \in {"ueReply", "lcReply"} => ues = agentUEs[a], AnswerWith(a, kind, ues)
      PROVE  FollowInv'
  <2> DEFINE m == Msg(a, kind, ues)
  <2>1. /\ Room /\ inQueue' = Append(inQueue, m)
        /\ told' = IF kind = "ueReply" THEN told \cup {a} ELSE told
    BY <1>4 DEF AnswerWith, AgentSends
  <2>2. m \in Item /\ m.tag = a /\ m.kind = kind /\ m.ues = ues
    BY DEF Msg, Item
  <2> HIDE DEF m, d, pairs
  <2>3. InTime'
    BY <1>1, <2>1, RoomKept DEF FollowInv
  <2>4. \A s : SoundStanding(s) /\ EndOK(s, a) =>
          /\ SoundStanding(After(s, m)) /\ (s.known => After(s, m).known)
          /\ EndOK(After(s, m), a)'
    BY <1>1, <1>4, <2>1, <2>2, Answered DEF d, pairs
  <2>5. \A b \in Agent \ {a} : /\ (b \in connected') <=> (b \in connected)
                               /\ (b \in told') <=> (b \in told)
                               /\ agentUEs'[b] = agentUEs[b] /\ down'[b] = down[b]
    BY <1>1, <1>2, <2>1
  <2>6. \A b \in Agent : Behind(b)'
    BY <1>1, <1>3, <2>1, <2>2, <2>4, <2>5, Heard
  <2> QED
    BY <2>3, <2>6 DEF FollowInv
<1>5. <<>> \in Seq(UeEntry) /\ {"hello", "enbReply", "ueReply", "lcReply"} \subseteq Kinds
  BY DEF Kinds
<1>6. CASE Head(d) = "hello"
  BY <1>4, <1>5, <1>6 DEF Answer
<1>7. CASE Head(d) = "enbRequest"
  BY <1>4, <1>5, <1>7 DEF Answer
<1>8. CASE Head(d) = "ueRequest"
  BY <1>1, <1>4, <1>5, <1>8 DEF Answer
<1>9. CASE Head(d) = "lcRequest"
  BY <1>1, <1>4, <1>5, <1>9 DEF Answer
<1>10. CASE Head(d) \notin {"hello", "enbRequest", "ueRequest", "lcRequest"}
  <2>1. UNCHANGED <<inQueue, told>>
    BY <1>10 DEF Answer, NoAnswer
  <2>2. InTime'
    BY <1>1, <2>1 DEF FollowInv, InTime
  <2>3. ASSUME NEW b \in Agent PROVE Behind(b)'
    <3>1. PICK s : Ends(s, inQueue, Standing(b), b) /\ EndOK(s, b)
      BY DEF FollowInv, Behind
    <3>2. SoundStanding(s)
      BY <1>1, <3>1, EndsFacts
    <3>3. Standing(b)' = Standing(b)
      BY <1>1 DEF Standing, configured
    <3>4. Asked(down'[b], s.known, b \in told)
      <4>1. /\ s.known \in BOOLEAN /\ (b \in told) \in BOOLEAN
            /\ Asked(down[b], s.known, b \in told)
        BY <3>1, <3>2 DEF SoundStanding, Standings, EndOK
      <4>2. CASE b = a
        <5>1. Asked(Tail(d), s.known, a \in told)
          BY <1>1, <1>10, <4>1, <4>2, AskedLess
        <5> QED
          BY <1>1, <4>2, <5>1
      <4>3. CASE b # a
        BY <1>2, <4>1, <4>3
      <4> QED
        BY <4>2, <4>3
    <3>5. EndOK(s, b)'
      BY <1>1, <2>1, <3>1, <3>4 DEF EndOK
    <3>6. Distinct(agentUEs[b])'
      BY <1>1 DEF FollowInv, Behind
    <3> QED
      BY <2>1, <3>1, <3>3, <3>5, <3>6 DEF Behind
  <2> QED
    BY <2>2, <2>3 DEF FollowInv
<1> QED
  BY <1>6, <1>7, <1>8, <1>9, <1>10

-------------------------------------------------------------------------------
\* Without overload, FollowInv holds in every state.
THEOREM Following == ASSUME Overload = FALSE PROVE Spec => [](IInv /\ FollowInv)
<1>1. Init => FollowInv
  BY InitFollow
<1>2. IInv /\ FollowInv /\ [Next]_vars => FollowInv'
  <2> SUFFICES ASSUME IInv, FollowInv, [Next]_vars PROVE FollowInv'
    OBVIOUS
  <2> QED
    BY CheckFollow, DropFollow, IdleFollow, AppsFollow, ConnectFollow, AnswerFollow,
       ChangeFollow, ReportFollow
    DEF Next
<1> QED
  BY <1>1, <1>2, Invariance, PTL DEF Spec

\* Every UE of an agent's configuration has a MAC entry, and no other rnti has; no
\* UE is listed twice, and the logical channels are those of listed UEs: for any
\* number of agents and UEs and any history of attachments, departures and
\* reconfigurations, as long as no period sees more messages than update_rib checks.
THEOREM EveryUeHasMacInfo ==
  ASSUME Overload = FALSE PROVE Spec => []MacInfoMatchesConfig
<1>1. IInv /\ FollowInv => MacInfoMatchesConfig
  <2> SUFFICES ASSUME IInv, FollowInv, NEW a \in configured
               PROVE  LET info == eNBConfigs[a]
                      IN /\ info.mac = Rntis(info.ue)
                         /\ Len(info.ue) = Cardinality(Rntis(info.ue))
                         /\ \A i \in DOMAIN info.lc : info.lc[i] \in info.mac
    BY DEF MacInfoMatchesConfig
  <2>1. a \in Agent /\ inQueue \in Seq(Item)
    BY DEF IInv, StageTypes
  <2>2. PICK s : Ends(s, inQueue, Standing(a), a)
    BY <2>1 DEF FollowInv, Behind
  <2>3. SoundStanding(Standing(a))
    BY <2>1, <2>2, EndsFacts
  <2> DEFINE info == eNBConfigs[a]
             ue == info.ue
  <2>4. Standing(a).info = info
    BY DEF Standing
  <2>5. SoundInfo(info) /\ info \in Info
    BY <2>3, <2>4 DEF SoundStanding, Standings
  <2>6. ue \in Seq(UeEntry) /\ Distinct(ue)
    BY <2>5 DEF Info, SoundInfo
  <2> HIDE DEF info, ue
  <2>7. Len(ue) = Cardinality(Rntis(ue))
    <3> DEFINE f == [i \in 1 .. Len(ue) |-> ue[i].rnti]
    <3>1. DOMAIN ue = 1 .. Len(ue) /\ Len(ue) \in Nat
      BY <2>6
    <3>2. f \in Bijection(1 .. Len(ue), Rntis(ue))
      BY <2>6, <3>1 DEF Bijection, Injection, Surjection, IsInjective, Rntis, Distinct
    <3>3. IsFiniteSet(1 .. Len(ue)) /\ Cardinality(1 .. Len(ue)) = Len(ue)
      <4> DEFINE n == Len(ue)
      <4> HIDE DEF n
      <4>1. n \in Nat /\ 1 \in Int /\ n \in Int
        BY <3>1 DEF n
      <4>2. /\ IsFiniteSet(1 .. n)
            /\ Cardinality(1 .. n) = IF 1 > n THEN 0 ELSE n - 1 + 1
        BY <4>1, FS_Interval
      <4>3. Cardinality(1 .. n) = n
        BY <4>1, <4>2
      <4> QED
        BY <4>2, <4>3 DEF n
    <3> HIDE DEF f
    <3> QED
      BY <3>2, <3>3, FS_Bijection DEF ExistsBijection
  <2> QED
    BY <2>5, <2>7 DEF SoundInfo, info, ue
<1> QED
  BY <1>1, Following, PTL

\* An agent that has answered the UE configuration request is, or will be by the
\* messages under way, configured with the very UEs that it serves.
THEOREM RibIsNeverWrong ==
  ASSUME Overload = FALSE PROVE Spec => []RibFollowsAgent
<1>1. IInv /\ FollowInv /\ TypeOK => RibFollowsAgent
  <2> SUFFICES ASSUME IInv, FollowInv, told \in SUBSET Agent, NEW a \in told
               PROVE  Foreseen(a).known /\ Foreseen(a).info.ue = agentUEs[a]
    BY DEF RibFollowsAgent, TypeOK
  <2>1. PICK s : Ends(s, inQueue, Standing(a), a) /\ EndOK(s, a)
    BY DEF FollowInv, Behind
  <2>2. Foreseen(a) = s
    BY <2>1, ForeseenIs DEF IInv, StageTypes
  <2> QED
    BY <2>1, <2>2 DEF EndOK
<1> QED
  BY <1>1, Following, TypeCorrect, PTL

===============================================================================
