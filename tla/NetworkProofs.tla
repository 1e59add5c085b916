---------------------------- MODULE NetworkProofs ----------------------------
(***************************************************************************)
(* Proofs about Network for every number of threads, sessions, messages   *)
(* and every capacity of the queues, and about the header of a frame for   *)
(* every length. The inductive invariant of the network layer is IInv, and *)
(* Kept is what it needs for the order of the messages.                    *)
(***************************************************************************)
EXTENDS Network, ProtocolMessage, FiniteSetTheorems, SequenceTheorems, TLAPS

\* A session that is not in sessions_ queues and writes nothing, and an
\* async_write is outstanding exactly when something is queued.
WritesMatchQueue ==
  \A a \in Id :
    /\ writes[a] = IF writeQueue[a] = <<>> THEN 0 ELSE 1
    /\ a \notin sessions => writeQueue[a] = <<>>

\* The body of a frame is read only after its header was accepted.
BodyFollowsHeader ==
  \A a \in Id : readState[a] = "body" =>
     wire[a] # <<>> /\ Head(wire[a]) # Oversized

\* Only ids that do_accept has handed out are ever seen.
IdsHandedOut ==
  /\ \A a \in known : a < nextId
  /\ \A i \in 1 .. Len(inQueue) : inQueue[i].tag < nextId
  /\ \A i \in 1 .. Len(outQueue) : outQueue[i].tag < nextId
  /\ \A a \in Id : readState[a] # "none" => a < nextId

IInv ==
  /\ TypeOK
  /\ WritesMatchQueue
  /\ BodyFollowsHeader
  /\ IdsHandedOut
  /\ OnlyLossEndsSessions
  /\ HandlerPerMessage

-------------------------------------------------------------------------------
\* The strengthened invariant holds of the freshly constructed async_xface.
LEMMA InitIInv == Init => IInv
<1> SUFFICES ASSUME Init PROVE IInv
  OBVIOUS
<1> USE NetworkAssumption DEF NetworkAssumption
<1>1. TypeOK
  <2>1. inQueue \in Seq(InItem) /\ outQueue \in Seq(OutItem)
    BY DEF Init
  <2>2. caller \in [Thread -> {"idle", "posting", "refused"}]
    BY DEF Init
  <2>3. posted \in Nat /\ nextId \in 0 .. MaxSessions
    BY DEF Init
  <2>4. readState \in [Id -> {"none", "header", "body"}]
    BY DEF Init
  <2>5. /\ writeQueue \in [Id -> Seq(Msg)] /\ writes \in [Id -> Nat]
        /\ pushed \in [Id -> Seq(Msg)] /\ written \in [Id -> Seq(Msg)]
        /\ wire \in [Id -> Seq(Frame)]
    BY DEF Init
  <2> QED
    BY <2>1, <2>2, <2>3, <2>4, <2>5 DEF Init, TypeOK
<1>2. WritesMatchQueue
  BY DEF Init, WritesMatchQueue
<1>3. IdsHandedOut /\ BodyFollowsHeader
  BY DEF Init, IdsHandedOut, BodyFollowsHeader
<1>4. OnlyLossEndsSessions
  BY DEF Init, OnlyLossEndsSessions, Lost, Id
<1>5. Posting = {}
  BY DEF Init, Posting
<1>6. HandlerPerMessage
  BY <1>5, FS_EmptySet DEF Init, HandlerPerMessage
<1> QED
  BY <1>1, <1>2, <1>3, <1>4, <1>6 DEF IInv

-------------------------------------------------------------------------------
\* Pushing an item on in_queue_ keeps it a sequence of items.
LEMMA PushInType ==
  ASSUME inQueue \in Seq(InItem), NEW item \in InItem, PushIn(item)
  PROVE  inQueue' \in Seq(InItem)
  BY DEF PushIn

\* deliver keeps the types of the queue and of the count of writes.
LEMMA DeliverType ==
  ASSUME TypeOK, NEW a \in Id, NEW m \in Msg, Deliver(a, m)
  PROVE  writeQueue' \in [Id -> Seq(Msg)] /\ writes' \in [Id -> Nat]
<1>1. writeQueue' \in [Id -> Seq(Msg)]
  BY DEF Deliver, TypeOK
<1>2. CASE writeQueue[a] = <<>>
  <2>1. writes \in [Id -> Nat] /\ writes[a] \in Nat
    BY DEF TypeOK
  <2>2. writes' = [writes EXCEPT ![a] = writes[a] + 1]
    BY <1>2 DEF Deliver, DoWrite
  <2> QED
    BY <1>1, <2>1, <2>2
<1>3. CASE writeQueue[a] # <<>>
  BY <1>3 DEF Deliver, TypeOK
<1> QED
  BY <1>1, <1>2, <1>3

\* Every step of the network layer keeps the types, given that a write in
\* progress has something to write.
LEMMA TypeStep ==
  ASSUME TypeOK, WritesMatchQueue, BodyFollowsHeader, [Next]_vars
  PROVE  TypeOK'
<1> USE NetworkAssumption DEF NetworkAssumption, TypeOK
<1>1. CASE GetMsgFromNetwork
  <2>1. Head(inQueue) \in InItem /\ inQueue' \in Seq(InItem)
    BY <1>1 DEF GetMsgFromNetwork
  <2>2. known' \in SUBSET Id
    BY <1>1, <2>1 DEF GetMsgFromNetwork, InItem
  <2> QED
    BY <1>1, <2>1, <2>2 DEF GetMsgFromNetwork, writeVars
<1>2. ASSUME NEW t \in Thread, NEW a \in Id, NEW m \in Msg, SendPush(t, a, m)
      PROVE  TypeOK'
  BY <1>2 DEF SendPush, readVars, writeVars, OutItem
<1>3. ASSUME NEW t \in Thread, SendRefused(t) PROVE TypeOK'
  BY <1>3 DEF SendRefused, readVars, writeVars
<1>4. ASSUME NEW t \in Thread, SendReturns(t) PROVE TypeOK'
  <2>1. CASE SendPost(t)
    BY <2>1 DEF SendPost, readVars, writeVars
  <2>2. CASE DropRefused(t)
    BY <2>2 DEF DropRefused, readVars, writeVars
  <2> QED
    BY <1>4, <2>1, <2>2 DEF SendReturns
<1>5. CASE ForwardMsgToAgent
  <2>1. outQueue # <<>> /\ outQueue' = Tail(outQueue) /\ posted' = posted - 1 /\ posted > 0
    BY <1>5 DEF ForwardMsgToAgent
  <2>2. Head(outQueue) \in OutItem /\ outQueue' \in Seq(OutItem)
    BY <2>1
  <2> DEFINE msg == Head(outQueue)
  <2>3. msg.tag \in Id /\ msg.body \in Msg
    BY <2>2 DEF OutItem
  <2>4. writeQueue' \in [Id -> Seq(Msg)] /\ writes' \in [Id -> Nat] /\ crashed' \in BOOLEAN
    <3>1. CASE Deliver(msg.tag, msg.body) /\ UNCHANGED crashed
      BY <3>1, <2>3, DeliverType
    <3>2. CASE crashed' = TRUE /\ UNCHANGED <<writeQueue, writes>>
      BY <3>2
    <3> QED
      BY <1>5, <3>1, <3>2 DEF ForwardMsgToAgent
  <2> QED
    <3>1. posted' \in Nat
      BY <2>1
    <3> QED
      BY <1>5, <3>1, <2>2, <2>4 DEF ForwardMsgToAgent, readVars
<1>6. CASE DoAccept
  <2>1. nextId \in Id
    BY <1>6 DEF DoAccept, Id
  <2>2. inQueue' \in Seq(InItem)
    BY <1>6, <2>1, PushInType DEF DoAccept, InItem
  <2> QED
    <3>1. /\ sessions' \in SUBSET Id /\ socketOpen' \in SUBSET sessions'
          /\ readState' \in [Id -> {"none", "header", "body"}]
      BY <1>6, <2>1 DEF DoAccept
    <3>2. nextId' \in 0 .. MaxSessions
      BY <1>6 DEF DoAccept
    <3> QED
      BY <1>6, <2>2, <3>1, <3>2 DEF DoAccept, writeVars
<1>7. ASSUME NEW a \in Id, ReadHeader(a) PROVE TypeOK'
  BY <1>7 DEF ReadHeader, queueVars, writeVars
<1>8. ASSUME NEW a \in Id, ReadBody(a) PROVE TypeOK'
  <2>1. wire[a] # <<>> /\ Head(wire[a]) \in Msg
    BY <1>8 DEF ReadBody, BodyFollowsHeader, Frame
  <2>2. inQueue' \in Seq(InItem)
    BY <1>8, <2>1, PushInType DEF ReadBody, InItem
  <2>3. wire' \in [Id -> Seq(Frame)]
    BY <1>8, <2>1 DEF ReadBody
  <2> QED
    BY <1>8, <2>2, <2>3 DEF ReadBody, writeVars
<1>9. ASSUME NEW a \in Id, ReadFails(a) PROVE TypeOK'
  BY <1>9 DEF ReadFails, queueVars, writeVars
<1>10. ASSUME NEW a \in Id, WriteCompletes(a) PROVE TypeOK'
  <2>1. writeQueue[a] # <<>> /\ writeQueue[a] \in Seq(Msg)
    BY <1>10 DEF WriteCompletes, WritesMatchQueue
  <2>2. Head(writeQueue[a]) \in Msg /\ Tail(writeQueue[a]) \in Seq(Msg)
    BY <2>1
  <2> QED
    BY <1>10, <2>2 DEF WriteCompletes, queueVars, readVars
<1>11. ASSUME NEW a \in Id, WriteFails(a) PROVE TypeOK'
  BY <1>11 DEF WriteFails, queueVars, readVars
<1>12. ASSUME NEW a \in Id, DanglingRead(a) PROVE TypeOK'
  BY <1>12 DEF DanglingRead, queueVars, writeVars
<1>13. ASSUME NEW a \in Id, NEW f \in Frame, AgentSends(a, f) PROVE TypeOK'
  BY <1>13 DEF AgentSends, queueVars, writeVars
<1>14. ASSUME NEW a \in Id, ConnectionBreaks(a) PROVE TypeOK'
  BY <1>14 DEF ConnectionBreaks, queueVars, readVars, writeVars
<1>15. CASE UNCHANGED vars
  BY <1>15 DEF vars, queueVars
<1> QED
  BY <1>1, <1>2, <1>3, <1>4, <1>5, <1>6, <1>7, <1>8, <1>9, <1>10, <1>11, <1>12,
     <1>13, <1>14, <1>15 DEF Next, WriteEnds

-------------------------------------------------------------------------------
\* Every step keeps an async_write outstanding exactly for a non-empty
\* write_queue_, and erases a session only with its queue.
LEMMA WritesStep ==
  ASSUME TypeOK, WritesMatchQueue, [Next]_vars
  PROVE  WritesMatchQueue'
<1> USE DEF WritesMatchQueue
<1>1. CASE UNCHANGED <<writes, writeQueue, sessions>>
  BY <1>1
<1>2. CASE ForwardMsgToAgent
  <2> DEFINE msg == Head(outQueue)
  <2>1. msg.tag \in Id /\ msg.body \in Msg
    <3>1. outQueue \in Seq(OutItem) /\ outQueue # <<>>
      BY <1>2 DEF ForwardMsgToAgent, TypeOK
    <3>2. Head(outQueue) \in OutItem
      BY <3>1
    <3> QED
      BY <3>2 DEF OutItem
  <2>2. CASE msg.tag \in sessions /\ Deliver(msg.tag, msg.body)
    <3>1. UNCHANGED sessions
      BY <1>2 DEF ForwardMsgToAgent
    <3>2. writeQueue' = [writeQueue EXCEPT ![msg.tag] = Append(@, msg.body)]
      BY <2>2 DEF Deliver
    <3>3. writeQueue'[msg.tag] # <<>>
      <4>1. writeQueue \in [Id -> Seq(Msg)]
        BY DEF TypeOK
      <4>2. writeQueue'[msg.tag] = Append(writeQueue[msg.tag], msg.body)
        BY <2>1, <3>2, <4>1
      <4>3. writeQueue[msg.tag] \in Seq(Msg)
        BY <2>1, <4>1
      <4> HIDE DEF msg
      <4> QED
        BY <2>1, <4>2, <4>3
    <3>4. writes'[msg.tag] = 1
      <4>1. writes \in [Id -> Nat]
        BY DEF TypeOK
      <4>2. CASE writeQueue[msg.tag] = <<>>
        BY <2>1, <2>2, <4>1, <4>2 DEF Deliver, DoWrite
      <4>3. CASE writeQueue[msg.tag] # <<>>
        BY <2>1, <2>2, <4>1, <4>3 DEF Deliver
      <4> QED
        BY <4>2, <4>3
    <3>5. \A b \in Id : b # msg.tag =>
            writes'[b] = writes[b] /\ writeQueue'[b] = writeQueue[b]
      BY <2>1, <2>2 DEF Deliver, DoWrite, TypeOK
    <3> QED
      BY <2>2, <3>1, <3>3, <3>4, <3>5
  <2>3. CASE UNCHANGED <<writeQueue, writes>>
    BY <1>2, <2>3 DEF ForwardMsgToAgent
  <2> QED
    BY <1>2, <2>2, <2>3 DEF ForwardMsgToAgent
<1>3. CASE DoAccept
  BY <1>3 DEF DoAccept, writeVars
<1>4. ASSUME NEW a \in Id, WriteCompletes(a) PROVE WritesMatchQueue'
  <2>1. writeQueue[a] \in Seq(Msg) /\ writeQueue[a] # <<>> /\ writes[a] = 1
    BY <1>4 DEF WriteCompletes, TypeOK
  <2>2. writeQueue'[a] = Tail(writeQueue[a])
    BY <1>4 DEF WriteCompletes, TypeOK
  <2>3. writes'[a] = IF Len(writeQueue[a]) > 1 THEN 1 ELSE 0
    BY <1>4, <2>1 DEF WriteCompletes, TypeOK
  <2>4. (Tail(writeQueue[a]) = <<>>) <=> ~(Len(writeQueue[a]) > 1)
    <3>1. Len(Tail(writeQueue[a])) = Len(writeQueue[a]) - 1 /\ Len(writeQueue[a]) \in Nat \ {0}
      BY <2>1
    <3>2. Tail(writeQueue[a]) \in Seq(Msg)
      BY <2>1
    <3>3. Tail(writeQueue[a]) = <<>> <=> Len(Tail(writeQueue[a])) = 0
      BY <3>2, EmptySeq
    <3> QED
      BY <3>1, <3>3
  <2>5. a \in sessions /\ UNCHANGED sessions
    BY <1>4 DEF WriteCompletes, TypeOK
  <2>6. \A b \in Id : b # a =>
          writes'[b] = writes[b] /\ writeQueue'[b] = writeQueue[b]
    BY <1>4 DEF WriteCompletes, TypeOK
  <2> QED
    <3>1. writes'[a] = IF writeQueue'[a] = <<>> THEN 0 ELSE 1
      BY <2>2, <2>3, <2>4
    <3> QED
      BY <3>1, <2>5, <2>6
<1>5. ASSUME NEW a \in Id, WriteFails(a) PROVE WritesMatchQueue'
  <2>1. writes[a] = 1
    BY <1>5 DEF WriteFails
  <2>2. writes'[a] = 0 /\ writeQueue'[a] = <<>>
    BY <1>5, <2>1 DEF WriteFails, TypeOK
  <2>3. \A b \in Id : b # a =>
          writes'[b] = writes[b] /\ writeQueue'[b] = writeQueue[b]
    BY <1>5 DEF WriteFails, TypeOK
  <2>4. sessions' = sessions \ {a}
    BY <1>5 DEF WriteFails
  <2> QED
    BY <2>2, <2>3, <2>4
<1> QED
  BY <1>1, <1>2, <1>3, <1>4, <1>5
  DEF Next, vars, GetMsgFromNetwork, SendPush, SendRefused, SendReturns, SendPost,
      DropRefused, ReadHeader, ReadBody, ReadFails, WriteEnds, DanglingRead,
      AgentSends, ConnectionBreaks, queueVars, readVars, writeVars

\* Every step reads a body only behind a header that was accepted.
LEMMA BodyStep ==
  ASSUME TypeOK, BodyFollowsHeader, [Next]_vars
  PROVE  BodyFollowsHeader'
<1> USE DEF BodyFollowsHeader
<1>1. CASE UNCHANGED <<readState, wire>>
  BY <1>1
<1>2. CASE DoAccept
  BY <1>2 DEF DoAccept, TypeOK
<1>3. ASSUME NEW a \in Id, ReadHeader(a) PROVE BodyFollowsHeader'
  BY <1>3 DEF ReadHeader, TypeOK
<1>4. ASSUME NEW a \in Id, ReadBody(a) PROVE BodyFollowsHeader'
  BY <1>4 DEF ReadBody, TypeOK
<1>5. ASSUME NEW a \in Id, ReadFails(a) PROVE BodyFollowsHeader'
  BY <1>5 DEF ReadFails, TypeOK
<1>6. ASSUME NEW a \in Id, DanglingRead(a) PROVE BodyFollowsHeader'
  BY <1>6 DEF DanglingRead, TypeOK
<1>7. ASSUME NEW a \in Id, NEW f \in Frame, AgentSends(a, f)
      PROVE  BodyFollowsHeader'
  <2>1. wire[a] \in Seq(Frame) /\ wire'[a] = Append(wire[a], f)
    BY <1>7 DEF AgentSends, TypeOK
  <2>2. wire[a] # <<>> => Head(wire'[a]) = Head(wire[a]) /\ wire'[a] # <<>>
    BY <2>1
  <2>3. \A b \in Id : b # a => wire'[b] = wire[b]
    BY <1>7 DEF AgentSends, TypeOK
  <2>4. UNCHANGED readState
    BY <1>7 DEF AgentSends
  <2> QED
    BY <2>2, <2>3, <2>4
<1> QED
  BY <1>1, <1>2, <1>3, <1>4, <1>5, <1>6, <1>7
  DEF Next, vars, GetMsgFromNetwork, SendPush, SendRefused, SendReturns, SendPost,
      DropRefused, ForwardMsgToAgent, WriteEnds, WriteCompletes, WriteFails,
      ConnectionBreaks, queueVars, readVars, writeVars

-------------------------------------------------------------------------------
\* Every step hands the rest of the program only ids that do_accept gave out.
LEMMA IdsStep ==
  ASSUME TypeOK, IdsHandedOut, [Next]_vars
  PROVE  IdsHandedOut'
<1> USE DEF IdsHandedOut
<1>0. /\ inQueue \in Seq(InItem) /\ outQueue \in Seq(OutItem) /\ nextId \in Nat
      /\ readState \in [Id -> {"none", "header", "body"}]
  BY NetworkAssumption DEF TypeOK, NetworkAssumption
<1>1. CASE UNCHANGED <<known, inQueue, outQueue, readState, nextId>>
  BY <1>1
<1>2. CASE GetMsgFromNetwork
  <2>1. /\ known' = known \cup {inQueue[1].tag} /\ 1 \in 1 .. Len(inQueue)
        /\ UNCHANGED <<outQueue, readState, nextId>>
    BY <1>0, <1>2 DEF GetMsgFromNetwork
  <2>2. \A i \in 1 .. Len(inQueue') : inQueue'[i] = inQueue[i + 1] /\ i + 1 \in 1 .. Len(inQueue)
    BY <1>0, <1>2 DEF GetMsgFromNetwork
  <2> QED
    BY <2>1, <2>2
<1>3. ASSUME NEW t \in Thread, NEW a \in Id, NEW m \in Msg, SendPush(t, a, m)
      PROVE  IdsHandedOut'
  <2>1. /\ a < nextId
        /\ outQueue' = Append(outQueue, [tag |-> a, body |-> m])
        /\ UNCHANGED <<known, inQueue, readState, nextId>>
    BY <1>3 DEF SendPush, readVars
  <2>2. \A i \in 1 .. Len(outQueue') : i \in 1 .. Len(outQueue) \/ outQueue'[i].tag = a
    BY <1>0, <2>1
  <2>3. \A i \in 1 .. Len(outQueue) : outQueue'[i] = outQueue[i]
    BY <1>0, <2>1
  <2> QED
    BY <2>1, <2>2, <2>3
<1>4. CASE ForwardMsgToAgent
  <2>1. UNCHANGED <<known, inQueue, readState, nextId>>
    BY <1>4 DEF ForwardMsgToAgent, readVars
  <2>2. \A i \in 1 .. Len(outQueue') : outQueue'[i] = outQueue[i + 1] /\ i + 1 \in 1 .. Len(outQueue)
    BY <1>0, <1>4 DEF ForwardMsgToAgent
  <2> QED
    BY <2>1, <2>2
<1>5. CASE DoAccept
  <2>1. PushIn([tag |-> nextId, body |-> Notice]) /\ nextId' = nextId + 1
    BY <1>5 DEF DoAccept
  <2>2. \A i \in 1 .. Len(inQueue) : inQueue[i].tag < nextId'
    <3>1. \A i \in 1 .. Len(inQueue) : inQueue[i].tag \in Int
      <4>1. \A i \in 1 .. Len(inQueue) : inQueue[i] \in InItem
        BY <1>0
      <4> QED
        BY <4>1 DEF InItem, Id
    <3> QED
      BY <1>0, <2>1, <3>1
  <2>6. \A i \in 1 .. Len(inQueue') : inQueue'[i].tag < nextId'
    <3>1. CASE inQueue' = inQueue
      BY <2>2, <3>1
    <3>2. CASE inQueue' = Append(inQueue, [tag |-> nextId, body |-> Notice])
      BY <1>0, <2>1, <2>2, <3>2
    <3> QED
      BY <2>1, <3>1, <3>2 DEF PushIn
  <2>3. \A a \in Id : readState'[a] # "none" => a < nextId'
    BY <1>0, <1>5 DEF DoAccept, Id
  <2>4. UNCHANGED <<known, outQueue>>
    BY <1>5 DEF DoAccept
  <2>5. known \subseteq Int /\ \A i \in 1 .. Len(outQueue) : outQueue[i].tag \in Int
    <3>1. \A i \in 1 .. Len(outQueue) : outQueue[i] \in OutItem
      BY <1>0
    <3>2. known \subseteq Id /\ Id \subseteq Int
      BY DEF TypeOK, Id
    <3> QED
      BY <3>1, <3>2 DEF OutItem
  <2> QED
    BY <1>0, <2>1, <2>6, <2>3, <2>4, <2>5
<1>6. ASSUME NEW a \in Id, ReadBody(a) PROVE IdsHandedOut'
  <2>1. /\ PushIn([tag |-> a, body |-> Head(wire[a])]) /\ a < nextId
        /\ UNCHANGED <<known, outQueue, nextId>>
    BY <1>6 DEF ReadBody
  <2>2. \A i \in 1 .. Len(inQueue') : inQueue'[i].tag < nextId
    BY <1>0, <2>1 DEF PushIn
  <2>3. \A b \in Id : readState'[b] # "none" => b < nextId
    BY <1>0, <1>6, <2>1 DEF ReadBody
  <2> QED
    BY <2>1, <2>2, <2>3
<1>7. ASSUME NEW a \in Id, ReadHeader(a) \/ ReadFails(a) \/ DanglingRead(a)
      PROVE  IdsHandedOut'
  <2>1. UNCHANGED <<known, inQueue, outQueue, nextId>>
    BY <1>7 DEF ReadHeader, ReadFails, DanglingRead, queueVars
  <2>2. readState[a] # "none" /\ \A b \in Id : b # a => readState'[b] = readState[b]
    BY <1>0, <1>7 DEF ReadHeader, ReadFails, DanglingRead
  <2> QED
    BY <2>1, <2>2
<1> QED
  BY <1>1, <1>2, <1>3, <1>4, <1>5, <1>6, <1>7
  DEF Next, vars, SendRefused, SendReturns, SendPost, DropRefused, WriteEnds,
      WriteCompletes, WriteFails, AgentSends, ConnectionBreaks, queueVars, readVars,
      writeVars

-------------------------------------------------------------------------------
\* Every step keeps as many handlers posted, or about to be, as there are
\* messages in out_queue_.
LEMMA HandlerStep ==
  ASSUME TypeOK, HandlerPerMessage, [Next]_vars
  PROVE  HandlerPerMessage'
<1> USE DEF HandlerPerMessage
<1>0. IsFiniteSet(Posting) /\ Cardinality(Posting) \in Nat
  <2>1. Posting \subseteq Thread
    BY DEF Posting
  <2> QED
    BY <2>1, NetworkAssumption, FS_Subset, FS_CardinalityType DEF NetworkAssumption
<1>00. outQueue \in Seq(OutItem) /\ posted \in Nat
  BY DEF TypeOK
<1>1. CASE UNCHANGED <<crashed, posted, outQueue, caller>>
  BY <1>1 DEF Posting
<1>2. ASSUME NEW t \in Thread, NEW a \in Id, NEW m \in Msg, SendPush(t, a, m)
      PROVE  HandlerPerMessage'
  <2>1. Posting' = Posting \cup {t} /\ t \notin Posting
    BY <1>2 DEF SendPush, Posting, TypeOK
  <2>2. Cardinality(Posting') = Cardinality(Posting) + 1
    BY <1>0, <2>1, FS_AddElement
  <2>3. Len(outQueue') = Len(outQueue) + 1 /\ UNCHANGED <<posted, crashed>>
    BY <1>00, <1>2 DEF SendPush
  <2> QED
    BY <1>0, <1>00, <2>2, <2>3
<1>3. ASSUME NEW t \in Thread, SendRefused(t) \/ DropRefused(t)
      PROVE  HandlerPerMessage'
  <2>1. Posting' = Posting
    BY <1>3 DEF SendRefused, DropRefused, Posting, TypeOK
  <2>2. UNCHANGED <<posted, crashed, outQueue>>
    BY <1>3 DEF SendRefused, DropRefused
  <2> QED
    BY <2>1, <2>2
<1>4. ASSUME NEW t \in Thread, SendPost(t)
      PROVE  HandlerPerMessage'
  <2>1. Posting' = Posting \ {t} /\ t \in Posting
    BY <1>4 DEF SendPost, Posting, TypeOK
  <2>2. Cardinality(Posting') = Cardinality(Posting) - 1
    BY <1>0, <2>1, FS_RemoveElement
  <2>3. posted' = posted + 1 /\ UNCHANGED <<outQueue, crashed>>
    BY <1>4 DEF SendPost
  <2> QED
    BY <1>0, <1>00, <2>2, <2>3
<1>5. CASE ForwardMsgToAgent
  <2>1. Posting' = Posting /\ posted' = posted - 1
    BY <1>5 DEF ForwardMsgToAgent, Posting
  <2>2. Len(outQueue') = Len(outQueue) - 1
    BY <1>00, <1>5 DEF ForwardMsgToAgent
  <2>3. ~crashed
    BY <1>5 DEF ForwardMsgToAgent
  <2> QED
    BY <1>0, <1>00, <2>1, <2>2, <2>3
<1>6. ASSUME NEW a \in Id, DanglingRead(a) PROVE HandlerPerMessage'
  BY <1>6 DEF DanglingRead, queueVars, Posting
<1> QED
  BY <1>1, <1>2, <1>3, <1>4, <1>5, <1>6
  DEF Next, vars, GetMsgFromNetwork, SendReturns, DoAccept, ReadHeader, ReadBody,
      ReadFails, WriteEnds, WriteCompletes, WriteFails, AgentSends,
      ConnectionBreaks, queueVars, readVars, writeVars

-------------------------------------------------------------------------------
\* Every step that closes a socket, erases a session or crashes the process finds
\* a connection that was lost.
LEMMA LossStep ==
  ASSUME TypeOK, TypeOK', WritesMatchQueue, IdsHandedOut, OnlyLossEndsSessions, [Next]_vars
  PROVE  OnlyLossEndsSessions'
<1> USE DEF OnlyLossEndsSessions
<1>1. CASE UNCHANGED <<crashed, nextId, socketOpen, broken, wire>>
  BY <1>1 DEF Lost
<1>2. CASE ForwardMsgToAgent
  <2>1. UNCHANGED <<nextId, socketOpen, broken, wire>> /\ Lost' = Lost
    BY <1>2 DEF ForwardMsgToAgent, readVars, Lost
  <2>2. CASE Head(outQueue).tag \in sessions
    BY <1>2, <2>1, <2>2 DEF ForwardMsgToAgent
  <2>3. CASE Head(outQueue).tag \notin sessions
    <3>1. outQueue \in Seq(OutItem) /\ outQueue # <<>>
      BY <1>2 DEF ForwardMsgToAgent, TypeOK
    <3>2. outQueue[1] \in OutItem /\ outQueue[1] = Head(outQueue) /\ 1 \in 1 .. Len(outQueue)
      BY <3>1
    <3>3. outQueue[1].tag \in Id /\ outQueue[1].tag < nextId
      BY <3>2 DEF OutItem, IdsHandedOut
    <3>4. outQueue[1].tag \notin socketOpen
      BY <2>3, <3>2 DEF TypeOK
    <3> QED
      BY <2>1, <3>3, <3>4
  <2> QED
    BY <2>2, <2>3
<1>3. CASE DoAccept
  <2>1. socketOpen' = socketOpen \cup {nextId} /\ nextId' = nextId + 1 /\ ~crashed'
    BY <1>3 DEF DoAccept
  <2>2. Lost' = Lost
    BY <1>3 DEF DoAccept, Lost
  <2>3. \A a \in Id : a < nextId + 1 => a < nextId \/ a = nextId
    BY NetworkAssumption DEF TypeOK, Id, NetworkAssumption
  <2> QED
    BY <2>1, <2>2, <2>3
<1>4. ASSUME NEW a \in Id, ReadBody(a) PROVE OnlyLossEndsSessions'
  <2>1. a \in socketOpen /\ ~crashed' /\ UNCHANGED <<nextId, socketOpen, broken>>
    BY <1>4 DEF ReadBody
  <2>2. \A b \in Id : b # a => wire'[b] = wire[b]
    BY <1>4 DEF ReadBody, TypeOK
  <2> QED
    BY <2>1, <2>2 DEF Lost
<1>5. ASSUME NEW a \in Id, ReadFails(a) PROVE OnlyLossEndsSessions'
  BY <1>5 DEF ReadFails, Lost
<1>6. ASSUME NEW a \in Id, WriteCompletes(a) PROVE OnlyLossEndsSessions'
  BY <1>6 DEF WriteCompletes, readVars, Lost
<1>7. ASSUME NEW a \in Id, WriteFails(a) PROVE OnlyLossEndsSessions'
  BY <1>7 DEF WriteFails, readVars, Lost
<1>8. ASSUME NEW a \in Id, DanglingRead(a) PROVE OnlyLossEndsSessions'
  <2>1. a < nextId /\ a \notin socketOpen
    BY <1>8 DEF DanglingRead, IdsHandedOut, TypeOK
  <2>2. Lost' = Lost /\ UNCHANGED <<nextId, socketOpen>>
    BY <1>8 DEF DanglingRead, Lost
  <2> QED
    BY <2>1, <2>2
<1>9. ASSUME NEW a \in Id, NEW f \in Frame, AgentSends(a, f)
      PROVE  OnlyLossEndsSessions'
  <2>1. wire[a] \in Seq(Frame) /\ wire'[a] = Append(wire[a], f)
    BY <1>9 DEF AgentSends, TypeOK
  <2>2. wire[a] # <<>> => Head(wire'[a]) = Head(wire[a]) /\ wire'[a] # <<>>
    BY <2>1
  <2>3. \A b \in Id : b # a => wire'[b] = wire[b]
    BY <1>9 DEF AgentSends, TypeOK
  <2>4. ~crashed' /\ UNCHANGED <<nextId, socketOpen, broken>>
    BY <1>9 DEF AgentSends
  <2> QED
    BY <2>2, <2>3, <2>4 DEF Lost
<1>10. ASSUME NEW a \in Id, ConnectionBreaks(a) PROVE OnlyLossEndsSessions'
  BY <1>10 DEF ConnectionBreaks, readVars, Lost
<1> QED
  BY <1>1, <1>2, <1>3, <1>4, <1>5, <1>6, <1>7, <1>8, <1>9, <1>10
  DEF Next, vars, GetMsgFromNetwork, SendPush, SendRefused, SendReturns, SendPost,
      DropRefused, ReadHeader, WriteEnds, queueVars, readVars, writeVars

-------------------------------------------------------------------------------
\* IInv holds in every state the network layer reaches.
THEOREM Invariance == Spec => []IInv
<1>1. Init => IInv
  BY InitIInv
<1>2. IInv /\ [Next]_vars => IInv'
  BY TypeStep, WritesStep, BodyStep, IdsStep, HandlerStep, LossStep DEF IInv
<1> QED
  BY <1>1, <1>2, PTL DEF Spec

\* Every variable keeps its type; in particular a read or a write handler of a
\* session never works on an empty queue or on a socket that outlives it.
THEOREM TypeCorrect == Spec => []TypeOK
  BY Invariance, PTL DEF IInv

\* forward_msg_to_agent never pops an empty out_queue_, however the pushes and the
\* posts of any number of threads interleave.
THEOREM HandlersMatchMessages == Spec => []HandlerPerMessage
  BY Invariance, PTL DEF IInv

\* No session ever has two async_writes outstanding, nor messages queued without
\* one, for any number of sessions and messages.
THEOREM WritesNeverOverlap == Spec => []OneWriteInFlight
<1>1. IInv => OneWriteInFlight
  BY DEF IInv, TypeOK, WritesMatchQueue, OneWriteInFlight
<1> QED
  BY <1>1, Invariance, PTL

\* Only a lost connection ends a session or crashes the process.
THEOREM LossEndsSessions == Spec => []OnlyLossEndsSessions
  BY Invariance, PTL DEF IInv

\* The id of a session that is gone is never used for another connection.
THEOREM IdsAreFresh == Spec => IdsNotReused
<1>1. IInv /\ [Next]_vars => [\A a \in Id : a < nextId /\ a \notin sessions => a \notin sessions']_vars
  <2> SUFFICES ASSUME IInv, [Next]_vars, NEW a \in Id, a < nextId, a \notin sessions
               PROVE  a \notin sessions'
    OBVIOUS
  <2>1. CASE sessions' \subseteq sessions
    BY <2>1
  <2>2. CASE DoAccept
    BY <2>2, NetworkAssumption DEF DoAccept, IInv, TypeOK, Id, NetworkAssumption
  <2> QED
    BY <2>1, <2>2
    DEF Next, vars, GetMsgFromNetwork, SendPush, SendRefused, SendReturns, SendPost,
        DropRefused, ForwardMsgToAgent, ReadHeader, ReadBody, ReadFails, WriteEnds,
        WriteCompletes, WriteFails, DanglingRead, AgentSends, ConnectionBreaks,
        queueVars, readVars, writeVars
<1> QED
  BY <1>1, Invariance, PTL DEF Spec, IdsNotReused

-------------------------------------------------------------------------------
(* The order of the messages of one agent.                                 *)

\* The places of the items of a in q, in order: those of the last n messages of all.
Places(p, n, q, a) ==
  /\ p \in [1 .. n -> DOMAIN q]
  /\ \A i, j \in 1 .. n : i < j => p[i] < p[j]
  /\ \A j \in 1 .. n : q[p[j]].tag = a
  /\ \A k \in DOMAIN q : q[k].tag = a => \E j \in 1 .. n : p[j] = k

\* What was accepted for a is what is done with, and then what q holds for a.
Continues(all, done, q, a, n, p) ==
  /\ Places(p, n, q, a)
  /\ Len(all) = Len(done) + n
  /\ \A i \in 1 .. Len(done) : all[i] = done[i]
  /\ \A j \in 1 .. n : all[Len(done) + j] = q[p[j]].body

InOrder(all, done, q, a) == \E n \in Nat : \E p : Continues(all, done, q, a, n, p)

\* An item that is appended is the last one of its agent.
LEMMA OrderAfterSend ==
  ASSUME NEW all \in Seq(Msg), NEW done \in Seq(Msg), NEW q \in Seq(OutItem),
         NEW a \in Id, NEW item \in OutItem, InOrder(all, done, q, a)
  PROVE  InOrder(IF item.tag = a THEN Append(all, item.body) ELSE all, done, Append(q, item), a)
<1>1a. PICK n \in Nat : \E p : Continues(all, done, q, a, n, p)
  BY DEF InOrder
<1>1. PICK p : Continues(all, done, q, a, n, p)
  BY <1>1a
<1>2. PICK r : r = Append(q, item)
  OBVIOUS
<1>3. /\ Len(q) \in Nat /\ DOMAIN q = 1 .. Len(q) /\ DOMAIN r = 1 .. Len(q) + 1
      /\ r[Len(q) + 1] = item /\ \A i \in 1 .. Len(q) : r[i] = q[i]
  BY <1>2
<1>4. /\ p \in [1 .. n -> 1 .. Len(q)]
      /\ \A i, j \in 1 .. n : i < j => p[i] < p[j]
      /\ \A j \in 1 .. n : q[p[j]].tag = a
      /\ \A k \in 1 .. Len(q) : q[k].tag = a => \E j \in 1 .. n : p[j] = k
  BY <1>1, <1>3 DEF Continues, Places
<1>5. /\ Len(done) \in Nat /\ Len(all) = Len(done) + n
      /\ \A i \in 1 .. Len(done) : all[i] = done[i]
      /\ \A j \in 1 .. n : all[Len(done) + j] = q[p[j]].body
  BY <1>1 DEF Continues
<1>6. CASE item.tag = a
  <2> DEFINE s == [j \in 1 .. n + 1 |-> IF j = n + 1 THEN Len(q) + 1 ELSE p[j]]
  <2>1. s[n + 1] = Len(q) + 1 /\ \A j \in 1 .. n : s[j] = p[j]
    OBVIOUS
  <2>2. s \in [1 .. n + 1 -> 1 .. Len(q) + 1]
    BY <1>3, <1>4
  <2>3. \A i \in 1 .. n + 1 : i \in 1 .. n \/ i = n + 1
    OBVIOUS
  <2> HIDE DEF s
  <2>4. ASSUME NEW i \in 1 .. n + 1, NEW j \in 1 .. n + 1, i < j PROVE s[i] < s[j]
    <3>1. i \in 1 .. n /\ s[i] = p[i] /\ p[i] \in 1 .. Len(q)
      BY <1>4, <2>1, <2>3, <2>4
    <3>2. CASE j = n + 1
      BY <1>3, <2>1, <3>1, <3>2
    <3>3. CASE j \in 1 .. n
      BY <1>4, <2>1, <2>4, <3>1, <3>3
    <3> QED
      BY <2>3, <3>2, <3>3
  <2>5. ASSUME NEW j \in 1 .. n + 1 PROVE r[s[j]].tag = a
    <3>1. CASE j = n + 1
      BY <1>3, <1>6, <2>1, <3>1
    <3>2. CASE j \in 1 .. n
      <4>1. s[j] = p[j] /\ p[j] \in 1 .. Len(q)
        BY <1>4, <2>1, <3>2
      <4>2. r[s[j]] = q[p[j]]
        BY <1>3, <4>1
      <4> QED
        BY <1>4, <3>2, <4>2
    <3> QED
      BY <2>3, <3>1, <3>2
  <2>6. ASSUME NEW k \in 1 .. Len(q) + 1, r[k].tag = a PROVE \E j \in 1 .. n + 1 : s[j] = k
    <3>1. CASE k = Len(q) + 1
      BY <2>1, <3>1
    <3>2. CASE k \in 1 .. Len(q)
      <4>1. PICK j \in 1 .. n : p[j] = k
        BY <1>3, <1>4, <2>6, <3>2
      <4>2. s[j] = k /\ j \in 1 .. n + 1
        BY <2>1, <4>1
      <4> QED
        BY <4>2
    <3> QED
      BY <1>3, <3>1, <3>2
  <2>7. Places(s, n + 1, r, a)
    BY <1>3, <2>2, <2>4, <2>5, <2>6 DEF Places
  <2>8. PICK more : more = Append(all, item.body)
    OBVIOUS
  <2>9. /\ Len(more) = Len(all) + 1 /\ more[Len(all) + 1] = item.body
        /\ \A i \in 1 .. Len(all) : more[i] = all[i]
    BY <2>8
  <2>10. ASSUME NEW j \in 1 .. n + 1 PROVE more[Len(done) + j] = r[s[j]].body
    <3>1. CASE j = n + 1
      BY <1>3, <1>5, <2>1, <2>9, <3>1
    <3>2. CASE j \in 1 .. n
      <4>1. Len(done) + j \in 1 .. Len(all) /\ s[j] = p[j] /\ p[j] \in 1 .. Len(q)
        BY <1>4, <1>5, <2>1, <3>2
      <4> QED
        BY <1>3, <1>5, <2>9, <3>2, <4>1
    <3> QED
      BY <2>3, <3>1, <3>2
  <2>11. Len(more) = Len(done) + (n + 1) /\ \A i \in 1 .. Len(done) : more[i] = done[i]
    BY <1>5, <2>9
  <2>12. Continues(more, done, r, a, n + 1, s)
    BY <2>7, <2>10, <2>11 DEF Continues
  <2> QED
    BY <1>2, <1>6, <2>8, <2>12 DEF InOrder
<1>7. CASE item.tag # a
  <2>1. p \in [1 .. n -> DOMAIN r] /\ \A j \in 1 .. n : p[j] \in 1 .. Len(q)
    <3>1. \A j \in 1 .. n : p[j] \in 1 .. Len(q)
      BY <1>4
    <3>2. 1 .. Len(q) \subseteq DOMAIN r
      BY <1>3
    <3> QED
      BY <1>4, <3>1, <3>2
  <2>2. ASSUME NEW k \in DOMAIN r, r[k].tag = a PROVE \E j \in 1 .. n : p[j] = k
    <3>1. k \in 1 .. Len(q) \/ k = Len(q) + 1
      BY <1>3
    <3>2. k \in 1 .. Len(q) /\ q[k].tag = a
      BY <1>3, <1>7, <2>2, <3>1
    <3> QED
      BY <1>4, <3>2
  <2>3. Places(p, n, r, a)
    BY <1>3, <1>4, <2>1, <2>2 DEF Places
  <2>4. Continues(all, done, r, a, n, p)
    BY <1>3, <1>5, <2>1, <2>3 DEF Continues
  <2> QED
    BY <1>2, <1>7, <2>4 DEF InOrder
<1> QED
  BY <1>6, <1>7

\* An item that is taken from the front was the first one of its agent.
LEMMA OrderAfterForward ==
  ASSUME NEW all \in Seq(Msg), NEW done \in Seq(Msg), NEW q \in Seq(OutItem), q # <<>>,
         NEW a \in Id, InOrder(all, done, q, a)
  PROVE  InOrder(all, IF Head(q).tag = a THEN Append(done, Head(q).body) ELSE done, Tail(q), a)
<1>1a. PICK n \in Nat : \E p : Continues(all, done, q, a, n, p)
  BY DEF InOrder
<1>1. PICK p : Continues(all, done, q, a, n, p)
  BY <1>1a
<1>2. PICK r : r = Tail(q)
  OBVIOUS
<1>3. /\ Len(q) \in Nat \ {0} /\ DOMAIN q = 1 .. Len(q) /\ DOMAIN r = 1 .. Len(q) - 1
      /\ Head(q) = q[1] /\ \A i \in 1 .. Len(q) - 1 : r[i] = q[i + 1]
  BY <1>2
<1>4. /\ p \in [1 .. n -> 1 .. Len(q)]
      /\ \A i, j \in 1 .. n : i < j => p[i] < p[j]
      /\ \A j \in 1 .. n : q[p[j]].tag = a
      /\ \A k \in 1 .. Len(q) : q[k].tag = a => \E j \in 1 .. n : p[j] = k
  BY <1>1, <1>3 DEF Continues, Places
<1>5. /\ Len(done) \in Nat /\ Len(all) = Len(done) + n
      /\ \A i \in 1 .. Len(done) : all[i] = done[i]
      /\ \A j \in 1 .. n : all[Len(done) + j] = q[p[j]].body
  BY <1>1 DEF Continues
<1>6. CASE q[1].tag = a
  <2>1. PICK j \in 1 .. n : p[j] = 1
    BY <1>3, <1>4, <1>6
  <2>2. n >= 1 /\ p[1] = 1
    BY <1>4, <2>1
  <2> DEFINE s == [i \in 1 .. n - 1 |-> p[i + 1] - 1]
  <2>3. \A i \in 1 .. n - 1 : s[i] = p[i + 1] - 1 /\ i + 1 \in 1 .. n /\ p[i + 1] \in 2 .. Len(q)
    BY <1>4, <2>2
  <2>4. s \in [1 .. n - 1 -> 1 .. Len(q) - 1]
    BY <1>3, <2>3
  <2> HIDE DEF s
  <2>5. ASSUME NEW i \in 1 .. n - 1, NEW k \in 1 .. n - 1, i < k PROVE s[i] < s[k]
    BY <1>3, <1>4, <2>3, <2>5
  <2>6. \A i \in 1 .. n - 1 : s[i] \in 1 .. Len(q) - 1 /\ r[s[i]] = q[p[i + 1]]
    BY <1>3, <2>3, <2>4
  <2>7. ASSUME NEW k \in 1 .. Len(q) - 1, r[k].tag = a PROVE \E i \in 1 .. n - 1 : s[i] = k
    <3>1. k + 1 \in 1 .. Len(q) /\ q[k + 1].tag = a
      BY <1>3, <2>7
    <3>2. PICK i \in 1 .. n : p[i] = k + 1
      BY <1>4, <3>1
    <3>3. i # 1 /\ i - 1 \in 1 .. n - 1
      BY <2>2, <3>2
    <3>4. s[i - 1] = k
      BY <2>3, <3>2, <3>3
    <3> QED
      BY <3>3, <3>4
  <2>8. Places(s, n - 1, r, a)
    <3>1. ASSUME NEW i \in 1 .. n - 1 PROVE r[s[i]].tag = a
      <4>1. i + 1 \in 1 .. n /\ r[s[i]] = q[p[i + 1]]
        BY <2>3, <2>6
      <4> QED
        BY <1>4, <4>1
    <3> QED
      BY <1>3, <2>4, <2>5, <2>7, <3>1 DEF Places
  <2>9. PICK more : more = Append(done, q[1].body)
    OBVIOUS
  <2>10. /\ Len(more) = Len(done) + 1 /\ more[Len(done) + 1] = q[1].body
         /\ \A i \in 1 .. Len(done) : more[i] = done[i]
    BY <2>9
  <2>11. all[Len(done) + 1] = q[1].body
    BY <1>5, <2>2
  <2>12. \A i \in 1 .. Len(more) : all[i] = more[i]
    <3>1. \A i \in 1 .. Len(more) : i \in 1 .. Len(done) \/ i = Len(done) + 1
      BY <1>5, <2>10
    <3> QED
      BY <1>5, <2>10, <2>11, <3>1
  <2>13. ASSUME NEW i \in 1 .. n - 1 PROVE all[Len(more) + i] = r[s[i]].body
    <3>1. Len(more) + i = Len(done) + (i + 1) /\ i + 1 \in 1 .. n
      BY <1>5, <2>10
    <3> QED
      BY <1>5, <2>6, <3>1
  <2>14. n - 1 \in Nat /\ Len(all) = Len(more) + (n - 1)
    BY <1>5, <2>2, <2>10
  <2>15. Continues(all, more, r, a, n - 1, s)
    BY <2>8, <2>12, <2>13, <2>14 DEF Continues
  <2> QED
    BY <1>2, <1>3, <1>6, <2>9, <2>14, <2>15 DEF InOrder
<1>7. CASE q[1].tag # a
  <2>1. \A j \in 1 .. n : p[j] \in 2 .. Len(q)
    BY <1>3, <1>4, <1>7
  <2> DEFINE s == [j \in 1 .. n |-> p[j] - 1]
  <2>2. s \in [1 .. n -> 1 .. Len(q) - 1] /\ \A j \in 1 .. n : s[j] = p[j] - 1
    BY <1>3, <2>1
  <2> HIDE DEF s
  <2>3. \A j \in 1 .. n : s[j] \in 1 .. Len(q) - 1 /\ r[s[j]] = q[p[j]]
    BY <1>3, <2>1, <2>2
  <2>4. ASSUME NEW i \in 1 .. n, NEW j \in 1 .. n, i < j PROVE s[i] < s[j]
    BY <1>3, <1>4, <2>1, <2>2, <2>4
  <2>5. ASSUME NEW k \in 1 .. Len(q) - 1, r[k].tag = a PROVE \E j \in 1 .. n : s[j] = k
    <3>1. k + 1 \in 1 .. Len(q) /\ q[k + 1].tag = a
      BY <1>3, <2>5
    <3>2. PICK j \in 1 .. n : p[j] = k + 1
      BY <1>4, <3>1
    <3> QED
      BY <2>2, <3>2
  <2>6. Places(s, n, r, a)
    BY <1>3, <1>4, <2>2, <2>3, <2>4, <2>5 DEF Places
  <2>7. Continues(all, done, r, a, n, s)
    BY <1>5, <2>3, <2>6 DEF Continues
  <2> QED
    BY <1>2, <1>3, <1>7, <2>7 DEF InOrder
<1> QED
  BY <1>3, <1>6, <1>7

\* Two facts about what is moved from one sequence to the next.
LEMMA AppendOfConcat ==
  ASSUME NEW s \in Seq(Msg), NEW t \in Seq(Msg), NEW m \in Msg
  PROVE  s \o Append(t, m) = Append(s \o t, m)
<1>1. Append(t, m) = t \o <<m>> /\ s \o t \in Seq(Msg) /\ <<m>> \in Seq(Msg)
  BY AppendIsConcat
<1>2. Append(s \o t, m) = (s \o t) \o <<m>>
  BY <1>1, AppendIsConcat
<1> QED
  BY <1>1, <1>2, ConcatAssociative

LEMMA HeadMoves ==
  ASSUME NEW s \in Seq(Msg), NEW t \in Seq(Msg), t # <<>>
  PROVE  Append(s, Head(t)) \o Tail(t) = s \o t
<1>1. Head(t) \in Msg /\ Tail(t) \in Seq(Msg) /\ <<Head(t)>> \in Seq(Msg)
  OBVIOUS
<1>2. Append(s, Head(t)) = s \o <<Head(t)>>
  BY <1>1, AppendIsConcat
<1>3. <<Head(t)>> \o Tail(t) = t
  OBVIOUS
<1> QED
  BY <1>1, <1>2, <1>3, ConcatAssociative

\* The place of the j-th item of a is what Place finds.
LEMMA PlacesCounted ==
  ASSUME TypeOK, NEW a \in Id, NEW n \in Nat, NEW p, Places(p, n, outQueue, a)
  PROVE  /\ Cardinality(PlacesOf(a)) = n
         /\ \A j \in 1 .. n : Place(a, j) = p[j]
<1>1. /\ p \in [1 .. n -> DOMAIN outQueue] /\ DOMAIN outQueue \subseteq Nat
      /\ \A i, j \in 1 .. n : i < j => p[i] < p[j]
      /\ \A j \in 1 .. n : outQueue[p[j]].tag = a
      /\ \A k \in DOMAIN outQueue : outQueue[k].tag = a => \E j \in 1 .. n : p[j] = k
  BY DEF Places, TypeOK
<1>2. \A i \in 1 .. n : p[i] \in PlacesOf(a) /\ p[i] \in Nat
  BY <1>1 DEF PlacesOf
<1>3. \A k \in PlacesOf(a) : k \in Nat /\ \E j \in 1 .. n : p[j] = k
  BY <1>1 DEF PlacesOf
<1>4. ASSUME NEW i \in 1 .. n, NEW j \in 1 .. n, p[i] = p[j] PROVE i = j
  <2>1. ~(i < j) /\ ~(j < i)
    BY <1>1, <1>2, <1>4
  <2> QED
    BY <2>1
<1>5. ASSUME NEW i \in 1 .. n, NEW j \in 1 .. n PROVE p[i] <= p[j] <=> i <= j
  <2>1. (i < j => p[i] < p[j]) /\ (j < i => p[j] < p[i]) /\ p[i] \in Nat /\ p[j] \in Nat
    BY <1>1, <1>2
  <2> QED
    BY <2>1
<1>6. ASSUME NEW j \in 0 .. n
      PROVE  Cardinality({k \in PlacesOf(a) : \E i \in 1 .. j : p[i] = k}) = j
  <2> DEFINE S == {k \in PlacesOf(a) : \E i \in 1 .. j : p[i] = k}
             f == [i \in 1 .. j |-> p[i]]
  <2>1. f \in [1 .. j -> S]
    BY <1>2
  <2>2. \A x, y \in 1 .. j : f[x] = f[y] => x = y
    BY <1>4
  <2>3. \A k \in S : \E x \in 1 .. j : f[x] = k
    OBVIOUS
  <2>4. f \in Bijection(1 .. j, S)
    BY <2>1, <2>2, <2>3 DEF Bijection, Injection, Surjection, IsInjective
  <2>5. ExistsBijection(1 .. j, S)
    BY <2>4 DEF ExistsBijection
  <2> QED
    BY <2>5, FS_CountingElements
<1>7. Cardinality(PlacesOf(a)) = n
  <2>1. PlacesOf(a) = {k \in PlacesOf(a) : \E i \in 1 .. n : p[i] = k}
    BY <1>3
  <2> QED
    BY <1>6, <2>1
<1>8. ASSUME NEW j \in 1 .. n PROVE Cardinality({k \in PlacesOf(a) : k <= p[j]}) = j
  <2>1. {k \in PlacesOf(a) : k <= p[j]} = {k \in PlacesOf(a) : \E i \in 1 .. j : p[i] = k}
    <3>1. ASSUME NEW k \in PlacesOf(a) PROVE k <= p[j] <=> \E i \in 1 .. j : p[i] = k
      BY <1>3, <1>5
    <3> QED
      BY <3>1
  <2> QED
    BY <1>6, <2>1
<1>9. ASSUME NEW j \in 1 .. n PROVE Place(a, j) = p[j]
  <2>1. p[j] \in PlacesOf(a) /\ Cardinality({k \in PlacesOf(a) : k <= p[j]}) = j
    BY <1>2, <1>8
  <2>2. ASSUME NEW i \in PlacesOf(a), Cardinality({k \in PlacesOf(a) : k <= i}) = j PROVE i = p[j]
    <3>1. PICK x \in 1 .. n : p[x] = i
      BY <1>3
    <3> QED
      BY <1>8, <2>2, <3>1
  <2> QED
    BY <2>1, <2>2 DEF Place
<1> QED
  BY <1>7, <1>9

\* What is in order is the concatenation.
LEMMA OrderIsConcatenation ==
  ASSUME TypeOK, NEW a \in Id, NEW done \in Seq(Msg), InOrder(pushed[a], done, outQueue, a)
  PROVE  pushed[a] = done \o QueuedFor(a)
<1>1a. PICK n \in Nat : \E p : Continues(pushed[a], done, outQueue, a, n, p)
  BY DEF InOrder
<1>1. PICK p : Continues(pushed[a], done, outQueue, a, n, p)
  BY <1>1a
<1>2. Places(p, n, outQueue, a)
  BY <1>1 DEF Continues
<1>3. Cardinality(PlacesOf(a)) = n /\ \A j \in 1 .. n : Place(a, j) = p[j]
  BY <1>2, PlacesCounted
<1>4. PICK s : s = QueuedFor(a)
  OBVIOUS
<1>5. s = [j \in 1 .. n |-> outQueue[p[j]].body]
  BY <1>3, <1>4 DEF QueuedFor
<1>6. ASSUME NEW j \in 1 .. n PROVE outQueue[p[j]].body \in Msg
  <2>1. p[j] \in DOMAIN outQueue
    BY <1>2 DEF Places
  <2>2. outQueue[p[j]] \in OutItem
    BY <2>1 DEF TypeOK
  <2> QED
    BY <2>2 DEF OutItem
<1>7. s \in Seq(Msg) /\ Len(s) = n /\ \A j \in 1 .. n : s[j] = outQueue[p[j]].body
  BY <1>5, <1>6
<1>8. /\ done \o s \in Seq(Msg) /\ Len(done \o s) = Len(done) + n /\ Len(done) \in Nat
      /\ \A i \in 1 .. Len(done) + n :
           (done \o s)[i] = IF i <= Len(done) THEN done[i] ELSE s[i - Len(done)]
  <2>1. /\ done \o s \in Seq(Msg) /\ Len(done \o s) = Len(done) + Len(s)
        /\ \A i \in 1 .. Len(done) + Len(s) :
             (done \o s)[i] = IF i <= Len(done) THEN done[i] ELSE s[i - Len(done)]
    BY <1>7, ConcatProperties
  <2> QED
    BY <1>7, <2>1
<1>9. /\ Len(pushed[a]) = Len(done) + n /\ \A i \in 1 .. Len(done) : pushed[a][i] = done[i]
      /\ \A j \in 1 .. n : pushed[a][Len(done) + j] = outQueue[p[j]].body
  BY <1>1 DEF Continues
<1>10. ASSUME NEW i \in 1 .. Len(done) + n PROVE pushed[a][i] = (done \o s)[i]
  <2>1. CASE i <= Len(done)
    BY <1>8, <1>9, <2>1
  <2>2. CASE i > Len(done)
    <3>1. i - Len(done) \in 1 .. n /\ Len(done) + (i - Len(done)) = i
      BY <1>8, <2>2
    <3>2. pushed[a][i] = s[i - Len(done)]
      BY <1>7, <1>9, <3>1
    <3> QED
      BY <1>8, <2>2, <3>2
  <2> QED
    BY <1>8, <2>1, <2>2
<1>11. pushed[a] \in Seq(Msg)
  BY DEF TypeOK
<1>12. pushed[a] = done \o s
  BY <1>8, <1>9, <1>10, <1>11, SeqEqual
<1> QED
  BY <1>4, <1>12

\* The sessions that were not lost: those to come, and those in sessions_.
Alive == {a \in Id : ~crashed /\ (a >= nextId \/ a \in sessions)}

\* What was accepted for a session that was not lost is written, in write_queue_ or in
\* out_queue_, in the order of the pushes.
Kept ==
  /\ \A a \in sessions : a < nextId
  /\ \A a \in Alive : InOrder(pushed[a], written[a] \o writeQueue[a], outQueue, a)

LEMMA InitKept == Init => Kept
<1> SUFFICES ASSUME Init PROVE Kept
  OBVIOUS
<1>1. ASSUME NEW a \in Id PROVE InOrder(pushed[a], written[a] \o writeQueue[a], outQueue, a)
  <2>1. pushed[a] = <<>> /\ written[a] \o writeQueue[a] = <<>> /\ outQueue = <<>>
    BY <1>1, ConcatEmptySeq DEF Init
  <2> DEFINE p == [j \in 1 .. 0 |-> j]
  <2>2. p \in [1 .. 0 -> DOMAIN outQueue] /\ DOMAIN outQueue = {} /\ 1 .. 0 = {}
    BY <2>1
  <2>3. Places(p, 0, outQueue, a)
    BY <2>2 DEF Places
  <2>4. Continues(<<>>, <<>>, outQueue, a, 0, p)
    BY <2>2, <2>3 DEF Continues
  <2>5. 0 \in Nat
    OBVIOUS
  <2> QED
    BY <2>1, <2>4, <2>5 DEF InOrder
<1> QED
  BY <1>1 DEF Init, Kept, Alive

\* Every step leaves what was accepted for a session that lives in its order.
LEMMA KeptStep ==
  ASSUME IInv, Kept, [Next]_vars
  PROVE  Kept'
<1>1. /\ pushed \in [Id -> Seq(Msg)] /\ written \in [Id -> Seq(Msg)]
      /\ writeQueue \in [Id -> Seq(Msg)] /\ outQueue \in Seq(OutItem) /\ nextId \in Nat
      /\ sessions \subseteq Id /\ \A a \in Id : a \in Int
  <2>1. \A a \in Id : a \in Int
    BY NetworkAssumption DEF Id, NetworkAssumption
  <2>2. nextId \in Nat
    BY NetworkAssumption DEF IInv, TypeOK, NetworkAssumption
  <2> QED
    BY <2>1, <2>2 DEF IInv, TypeOK
<1>2. \A a \in Id : written[a] \o writeQueue[a] \in Seq(Msg)
  BY <1>1
<1>3. CASE /\ UNCHANGED <<pushed, written, writeQueue, outQueue>>
           /\ Alive' \subseteq Alive /\ \A a \in sessions' : a < nextId'
  BY <1>3 DEF Kept
<1>4. CASE UNCHANGED <<pushed, written, writeQueue, outQueue, nextId, sessions, crashed>>
  BY <1>4 DEF Kept, Alive
<1>5. ASSUME NEW t \in Thread, NEW b \in Id, NEW m \in Msg, SendPush(t, b, m) PROVE Kept'
  <2> DEFINE item == [tag |-> b, body |-> m]
  <2>1. /\ outQueue' = Append(outQueue, item) /\ pushed' = [pushed EXCEPT ![b] = Append(@, m)]
        /\ UNCHANGED <<written, writeQueue, nextId, sessions, crashed>>
    BY <1>5 DEF SendPush, readVars, writeVars
  <2>2. item \in OutItem /\ item.tag = b /\ item.body = m
    BY DEF OutItem
  <2> HIDE DEF item
  <2>3. ASSUME NEW a \in Alive
        PROVE  InOrder(pushed'[a], written[a] \o writeQueue[a], Append(outQueue, item), a)
    <3>1. a \in Id /\ InOrder(pushed[a], written[a] \o writeQueue[a], outQueue, a)
      BY DEF Kept, Alive
    <3>2. pushed'[a] = IF item.tag = a THEN Append(pushed[a], item.body) ELSE pushed[a]
      BY <1>1, <2>1, <2>2, <3>1
    <3>3. pushed[a] \in Seq(Msg) /\ written[a] \o writeQueue[a] \in Seq(Msg)
      BY <1>1, <1>2, <3>1
    <3> QED
      BY <1>1, <2>2, <3>1, <3>2, <3>3, OrderAfterSend
  <2>4. Alive' = Alive
    BY <2>1 DEF Alive
  <2> QED
    BY <2>1, <2>3, <2>4 DEF Kept
<1>6. CASE ForwardMsgToAgent
  <2> DEFINE msg == Head(outQueue)
  <2>1. /\ outQueue # <<>> /\ outQueue' = Tail(outQueue) /\ ~crashed
        /\ UNCHANGED <<pushed, written, nextId, sessions>>
    BY <1>6 DEF ForwardMsgToAgent, readVars
  <2>2. msg \in OutItem /\ msg.tag \in Id /\ msg.body \in Msg
    <3>1. Head(outQueue) \in OutItem
      BY <1>1, <2>1
    <3> QED
      BY <3>1 DEF OutItem
  <2>3. CASE crashed'
    BY <2>1, <2>3 DEF Kept, Alive
  <2>4. CASE ~crashed'
    <3>1. msg.tag \in sessions /\ writeQueue' = [writeQueue EXCEPT ![msg.tag] = Append(@, msg.body)]
      BY <1>6, <2>4 DEF ForwardMsgToAgent, Deliver
    <3>2. Alive' = Alive
      BY <2>1, <2>4 DEF Alive
    <3> HIDE DEF msg
    <3>3. ASSUME NEW a \in Alive
          PROVE  InOrder(pushed[a], written[a] \o writeQueue'[a], Tail(outQueue), a)
      <4>1. a \in Id /\ InOrder(pushed[a], written[a] \o writeQueue[a], outQueue, a)
        BY DEF Kept, Alive
      <4>2. /\ pushed[a] \in Seq(Msg) /\ written[a] \in Seq(Msg) /\ writeQueue[a] \in Seq(Msg)
            /\ written[a] \o writeQueue[a] \in Seq(Msg)
        BY <1>1, <1>2, <4>1
      <4>3. written[a] \o writeQueue'[a]
              = IF msg.tag = a THEN Append(written[a] \o writeQueue[a], msg.body)
                ELSE written[a] \o writeQueue[a]
        <5>1. CASE msg.tag = a
          <6>1. writeQueue'[a] = Append(writeQueue[a], msg.body)
            BY <1>1, <3>1, <4>1, <5>1
          <6>2. written[a] \o Append(writeQueue[a], msg.body)
                  = Append(written[a] \o writeQueue[a], msg.body)
            BY <2>2, <4>2, AppendOfConcat
          <6> QED
            BY <5>1, <6>1, <6>2
        <5>2. CASE msg.tag # a
          BY <1>1, <3>1, <4>1, <5>2
        <5> QED
          BY <5>1, <5>2
      <4>4. InOrder(pushed[a],
                    IF Head(outQueue).tag = a
                    THEN Append(written[a] \o writeQueue[a], Head(outQueue).body)
                    ELSE written[a] \o writeQueue[a], Tail(outQueue), a)
        BY <1>1, <2>1, <4>1, <4>2, OrderAfterForward
      <4> QED
        BY <4>3, <4>4 DEF msg
    <3> QED
      BY <2>1, <3>2, <3>3 DEF Kept
  <2> QED
    BY <2>3, <2>4
<1>7. CASE DoAccept
  <2>1. /\ UNCHANGED <<pushed, written, writeQueue, outQueue, crashed>>
        /\ nextId' = nextId + 1 /\ sessions' = sessions \cup {nextId}
    BY <1>7 DEF DoAccept, writeVars
  <2>2. Alive' \subseteq Alive
    BY <1>1, <2>1 DEF Alive
  <2>3. \A a \in sessions' : a < nextId'
    BY <1>1, <2>1 DEF Kept
  <2> QED
    BY <1>3, <2>1, <2>2, <2>3
<1>8. ASSUME NEW b \in Id, WriteCompletes(b) PROVE Kept'
  <2>1. /\ written' = [written EXCEPT ![b] = Append(@, Head(writeQueue[b]))]
        /\ writeQueue' = [writeQueue EXCEPT ![b] = Tail(@)] /\ writes[b] > 0
        /\ UNCHANGED <<pushed, outQueue, nextId, sessions, crashed>>
    BY <1>8 DEF WriteCompletes, queueVars, readVars
  <2>2. writeQueue[b] # <<>>
    BY <2>1 DEF IInv, WritesMatchQueue
  <2>3. ASSUME NEW a \in Id PROVE written'[a] \o writeQueue'[a] = written[a] \o writeQueue[a]
    <3>1. CASE a = b
      <4>1. /\ written'[b] = Append(written[b], Head(writeQueue[b])) /\ writeQueue'[b] = Tail(writeQueue[b])
            /\ written[b] \in Seq(Msg) /\ writeQueue[b] \in Seq(Msg)
        BY <1>1, <2>1
      <4> QED
        BY <2>2, <3>1, <4>1, HeadMoves
    <3>2. CASE a # b
      BY <1>1, <2>1, <3>2
    <3> QED
      BY <3>1, <3>2
  <2>4. Alive' = Alive /\ Alive \subseteq Id
    BY <2>1 DEF Alive
  <2>5. \A a \in Alive : written'[a] \o writeQueue'[a] = written[a] \o writeQueue[a]
    BY <2>3, <2>4
  <2> QED
    BY <2>1, <2>4, <2>5 DEF Kept
<1>9. ASSUME NEW b \in Id, WriteFails(b) PROVE Kept'
  <2>1. /\ writeQueue' = [writeQueue EXCEPT ![b] = <<>>] /\ sessions' = sessions \ {b}
        /\ UNCHANGED <<pushed, written, outQueue, nextId, crashed>> /\ writes[b] > 0
    BY <1>9 DEF WriteFails, queueVars, readVars
  <2>2. b \in sessions /\ b < nextId
    BY <2>1 DEF IInv, WritesMatchQueue, Kept
  <2>3. Alive' \subseteq Alive /\ b \notin Alive'
    BY <1>1, <2>1, <2>2 DEF Alive
  <2>4. \A a \in Alive' : a \in Id /\ writeQueue'[a] = writeQueue[a]
    BY <1>1, <2>1, <2>3 DEF Alive
  <2>5. \A a \in Alive' : InOrder(pushed[a], written[a] \o writeQueue'[a], outQueue, a)
    BY <2>3, <2>4 DEF Kept
  <2>6. \A a \in sessions' : a < nextId
    BY <2>1 DEF Kept
  <2> QED
    BY <2>1, <2>5, <2>6 DEF Kept
<1>10. ASSUME NEW b \in Id, DanglingRead(b) PROVE Kept'
  <2>1. UNCHANGED <<pushed, written, writeQueue, outQueue, nextId, sessions>> /\ ~crashed
    BY <1>10 DEF DanglingRead, queueVars, writeVars
  <2>2. Alive' \subseteq Alive
    BY <2>1 DEF Alive
  <2> QED
    BY <1>3, <2>1, <2>2 DEF Kept
<1> QED
  BY <1>4, <1>5, <1>6, <1>7, <1>8, <1>9, <1>10
  DEF Next, vars, GetMsgFromNetwork, SendRefused, SendReturns, SendPost, DropRefused,
      ReadHeader, ReadBody, ReadFails, WriteEnds, AgentSends, ConnectionBreaks,
      queueVars, readVars, writeVars

LEMMA KeptInvariance == Spec => []Kept
<1>1. IInv /\ Kept /\ [Next]_vars => Kept'
  BY KeptStep
<1> QED
  BY <1>1, InitKept, Invariance, PTL DEF Spec

\* Nothing that send_msg accepted for a session that lives is lost, duplicated or
\* reordered on its way through out_queue_ and write_queue_, for any number of threads
\* and any capacity of the queue (async_xface.cc:49-65, agent_session.cc:31-40,71-90).
THEOREM NoMessageLost == Spec => []NothingLost
<1>1. IInv /\ Kept => NothingLost
  <2> SUFFICES ASSUME IInv, Kept, ~crashed, NEW a \in sessions
               PROVE  pushed[a] = written[a] \o writeQueue[a] \o QueuedFor(a)
    BY DEF NothingLost
  <2>1. a \in Id /\ a \in Alive
    BY DEF IInv, TypeOK, Alive
  <2>2. TypeOK /\ written[a] \o writeQueue[a] \in Seq(Msg)
    BY <2>1 DEF IInv, TypeOK
  <2> QED
    BY <2>1, <2>2, OrderIsConcatenation DEF Kept
<1> QED
  BY <1>1, KeptInvariance, Invariance, PTL

-------------------------------------------------------------------------------
(* The notice of a session.                                                *)

LEMMA NoticeStep ==
  ASSUME IInv, NoticeFirst, [Next]_vars
  PROVE  NoticeFirst'
<1>1. inQueue \in Seq(InItem) /\ DOMAIN inQueue = 1 .. Len(inQueue) /\ Len(inQueue) \in Nat
  BY DEF IInv, TypeOK
<1>2. CASE UNCHANGED inQueue
  BY <1>2 DEF NoticeFirst
<1>3. CASE GetMsgFromNetwork
  <2>1. /\ \A i \in DOMAIN inQueue' : i \in Int /\ i + 1 \in DOMAIN inQueue
        /\ \A i \in DOMAIN inQueue' : inQueue'[i] = inQueue[i + 1]
    BY <1>1, <1>3 DEF GetMsgFromNetwork
  <2>2. ASSUME NEW i \in DOMAIN inQueue', NEW j \in DOMAIN inQueue', i < j,
               inQueue'[i].tag = inQueue'[j].tag
        PROVE  inQueue'[j].body # Notice
    <3>1. i + 1 < j + 1
      BY <2>1, <2>2
    <3> QED
      BY <2>1, <2>2, <3>1 DEF NoticeFirst
  <2> QED
    BY <2>2 DEF NoticeFirst
<1>4. ASSUME NEW item \in InItem, PushIn(item),
             item.body # Notice \/ \A i \in DOMAIN inQueue : inQueue[i].tag # item.tag
      PROVE  NoticeFirst'
  <2>1. CASE inQueue' = Append(inQueue, item)
    <3>1. /\ DOMAIN inQueue' = 1 .. Len(inQueue) + 1 /\ inQueue'[Len(inQueue) + 1] = item
          /\ \A i \in 1 .. Len(inQueue) : inQueue'[i] = inQueue[i]
      BY <1>1, <2>1
    <3>2. ASSUME NEW i \in DOMAIN inQueue', NEW j \in DOMAIN inQueue', i < j,
                 inQueue'[i].tag = inQueue'[j].tag
          PROVE  inQueue'[j].body # Notice
      <4>1. i \in 1 .. Len(inQueue)
        BY <1>1, <3>1, <3>2
      <4>2. CASE j = Len(inQueue) + 1
        BY <1>1, <1>4, <3>1, <3>2, <4>1, <4>2
      <4>3. CASE j \in 1 .. Len(inQueue)
        BY <1>1, <3>1, <3>2, <4>1, <4>3 DEF NoticeFirst
      <4> QED
        BY <1>1, <3>1, <4>2, <4>3
    <3> QED
      BY <3>2 DEF NoticeFirst
  <2> QED
    BY <1>2, <1>4, <2>1 DEF PushIn
<1>5. CASE DoAccept
  <2> DEFINE item == [tag |-> nextId, body |-> Notice]
  <2>1. PushIn(item) /\ nextId \in Id /\ nextId \in Int
    BY <1>5, NetworkAssumption DEF DoAccept, IInv, TypeOK, Id, NetworkAssumption
  <2>2. item \in InItem /\ item.tag = nextId
    BY <2>1 DEF InItem
  <2>3. \A i \in DOMAIN inQueue : inQueue[i].tag # nextId
    BY <1>1, <2>1 DEF IInv, IdsHandedOut
  <2> HIDE DEF item
  <2> QED
    BY <1>4, <2>1, <2>2, <2>3
<1>6. ASSUME NEW a \in Id, ReadBody(a) PROVE NoticeFirst'
  <2> DEFINE item == [tag |-> a, body |-> Head(wire[a])]
  <2>1. PushIn(item) /\ wire[a] # <<>> /\ Head(wire[a]) # Oversized /\ wire[a] \in Seq(Frame)
    BY <1>6 DEF ReadBody, IInv, BodyFollowsHeader, TypeOK
  <2>2. Head(wire[a]) \in Msg /\ Head(wire[a]) # Notice
    BY <2>1, NetworkAssumption DEF Frame, NetworkAssumption
  <2>3. item \in InItem /\ item.body # Notice
    BY <2>2 DEF InItem
  <2> HIDE DEF item
  <2> QED
    BY <1>4, <2>1, <2>3
<1> QED
  BY <1>2, <1>3, <1>5, <1>6
  DEF Next, vars, SendPush, SendRefused, SendReturns, SendPost, DropRefused,
      ForwardMsgToAgent, ReadHeader, ReadFails, WriteEnds, WriteCompletes, WriteFails,
      DanglingRead, AgentSends, ConnectionBreaks, queueVars, readVars, writeVars

\* The RIB updater never takes a message of a session before the notice of it: for any
\* capacity of in_queue_, full or not, and any number of sessions
\* (connection_manager.cc:39-52, async_xface.cc:39-47).
THEOREM NoticeComesFirst == Spec => []NoticeFirst
<1>1. Init => NoticeFirst
  BY DEF Init, NoticeFirst
<1>2. IInv /\ NoticeFirst /\ [Next]_vars => NoticeFirst'
  BY NoticeStep
<1> QED
  BY <1>1, <1>2, Invariance, PTL DEF Spec

-------------------------------------------------------------------------------
(* The channel to an agent.                                                *)

\* What AgentChannel allows, without what it promises to happen at last.
ChannelSafety == Channel!Init /\ [][Channel!Next]_(Channel!vars)

\* The write that completes delivers the oldest message that was not delivered.
LEMMA WriteDelivers ==
  ASSUME IInv, Kept, NEW a \in Id, WriteCompletes(a)
  PROVE  Channel!Deliver(a)
<1>1. /\ written' = [written EXCEPT ![a] = Append(@, Head(writeQueue[a]))]
      /\ writes[a] > 0 /\ a \in socketOpen /\ ~crashed
      /\ UNCHANGED <<pushed, nextId, sessions, crashed>>
  BY DEF WriteCompletes, queueVars, readVars
<1>2. a \in sessions /\ a \in Alive /\ writeQueue[a] # <<>>
  BY <1>1 DEF IInv, TypeOK, WritesMatchQueue, Alive
<1>3. written[a] \in Seq(Msg) /\ writeQueue[a] \in Seq(Msg) /\ pushed[a] \in Seq(Msg)
  BY DEF IInv, TypeOK
<1>4a. PICK n \in Nat : \E p : Continues(pushed[a], written[a] \o writeQueue[a], outQueue, a, n, p)
  BY <1>2 DEF Kept, InOrder
<1>4. PICK p : Continues(pushed[a], written[a] \o writeQueue[a], outQueue, a, n, p)
  BY <1>4a
<1>5. PICK done : done = written[a] \o writeQueue[a]
  OBVIOUS
<1>6. PICK w : w = Len(written[a])
  OBVIOUS
<1>7. PICK v : v = Len(writeQueue[a])
  OBVIOUS
<1>8. /\ w \in Nat /\ v \in Nat \ {0} /\ Head(writeQueue[a]) = writeQueue[a][1]
  BY <1>2, <1>3, <1>6, <1>7
<1>9. /\ Len(done) = w + v
      /\ \A i \in 1 .. w + v : done[i] = IF i <= w THEN written[a][i] ELSE writeQueue[a][i - w]
  BY <1>3, <1>5, <1>6, <1>7, ConcatProperties
<1>10. Len(pushed[a]) = w + v + n /\ \A i \in 1 .. w + v : pushed[a][i] = done[i]
  BY <1>4, <1>5, <1>9 DEF Continues
<1>11. w + 1 \in 1 .. w + v /\ ~(w + 1 <= w) /\ w + 1 - w = 1 /\ w < w + v + n
  BY <1>8
<1>12. done[w + 1] = Head(writeQueue[a])
  BY <1>8, <1>9, <1>11
<1>13. Len(written[a]) < Len(pushed[a]) /\ pushed[a][Len(written[a]) + 1] = Head(writeQueue[a])
  BY <1>6, <1>10, <1>11, <1>12
<1> QED
  BY <1>1, <1>2, <1>13 DEF Channel!Deliver, Alive

\* Every step of the network layer is a step of the channels, or none.
LEMMA ChannelStep ==
  ASSUME IInv, Kept, [Next]_vars
  PROVE  [Channel!Next]_(Channel!vars)
<1>1. CASE UNCHANGED <<pushed, written, nextId, sessions, crashed>>
  BY <1>1 DEF Channel!vars
<1>2. ASSUME NEW t \in Thread, NEW a \in Id, NEW m \in Msg, SendPush(t, a, m)
      PROVE  Channel!Accept(a, m)
  BY <1>2 DEF SendPush, readVars, writeVars, Channel!Accept
<1>3. CASE UNCHANGED <<pushed, written>> /\ Alive' \subseteq Alive
  <2>1. CASE Alive' = Alive
    BY <1>3, <2>1 DEF Channel!vars, Alive
  <2>2. CASE Alive' # Alive
    <3>1. PICK lost : lost = Alive \ Alive'
      OBVIOUS
    <3>2. lost \in SUBSET Alive /\ lost # {} /\ Alive' = Alive \ lost
      BY <1>3, <2>2, <3>1
    <3>3. Channel!Lose(lost)
      BY <1>3, <3>2 DEF Channel!Lose, Alive
    <3> QED
      BY <3>2, <3>3 DEF Channel!Next, Alive
  <2> QED
    BY <2>1, <2>2
<1>4. nextId \in Int /\ sessions \subseteq Id /\ \A a \in Id : a \in Int
  BY NetworkAssumption DEF IInv, TypeOK, Id, NetworkAssumption
<1>5. CASE ForwardMsgToAgent
  <2>1. UNCHANGED <<pushed, written, nextId, sessions>> /\ ~crashed
    BY <1>5 DEF ForwardMsgToAgent, readVars
  <2> QED
    BY <1>3, <2>1 DEF Alive
<1>6. CASE DoAccept
  <2>1. UNCHANGED <<pushed, written, crashed>> /\ nextId' = nextId + 1 /\ sessions' = sessions \cup {nextId}
    BY <1>6 DEF DoAccept, writeVars
  <2> QED
    BY <1>3, <1>4, <2>1 DEF Alive
<1>7. ASSUME NEW a \in Id, WriteFails(a) PROVE UNCHANGED <<pushed, written>> /\ Alive' \subseteq Alive
  BY <1>7 DEF WriteFails, queueVars, readVars, Alive
<1>8. ASSUME NEW a \in Id, DanglingRead(a) PROVE UNCHANGED <<pushed, written>> /\ Alive' \subseteq Alive
  BY <1>8 DEF DanglingRead, queueVars, writeVars, Alive
<1>9. ASSUME NEW a \in Id, WriteCompletes(a) PROVE Channel!Deliver(a)
  BY <1>9, WriteDelivers
<1>10. (\E a \in Id, m \in Msg : Channel!Accept(a, m)) \/ (\E a \in Id : Channel!Deliver(a)) => Channel!Next
  BY DEF Channel!Next
<1> QED
  BY <1>1, <1>2, <1>3, <1>5, <1>6, <1>7, <1>8, <1>9, <1>10
  DEF Next, vars, GetMsgFromNetwork, SendRefused, SendReturns, SendPost, DropRefused,
      ReadHeader, ReadBody, ReadFails, WriteEnds, AgentSends, ConnectionBreaks,
      queueVars, readVars, writeVars

\* What async_xface and the sessions do with the messages for an agent is what
\* AgentChannel says: they are delivered in the order they were accepted, each at most
\* once, until the session is lost; losing sessions is all that can go wrong. That what
\* was accepted is delivered at last is left to the run.
THEOREM ImplementsChannel == Spec => ChannelSafety
<1>1. Init => Channel!Init
  BY DEF Init, Channel!Init
<1>2. IInv /\ Kept /\ [Next]_vars => [Channel!Next]_(Channel!vars)
  BY ChannelStep
<1> QED
  BY <1>1, <1>2, KeptInvariance, Invariance, PTL DEF Spec, ChannelSafety

-------------------------------------------------------------------------------
(* The header of a frame                                                   *)

\* A byte and what is above it make up a number.
LEMMA LowAndShifted ==
  ASSUME NEW n \in Nat
  PROVE  Shifted(n) \in Nat /\ Low(n) \in 0 .. 255 /\ n = 256 * Shifted(n) + Low(n)
BY DEF Shifted, Low

\* The four bytes of a header give back the length that they were made of, if it
\* has no more than four.
LEMMA HeaderRoundTrip ==
  ASSUME NEW n \in Nat, Shifted(Shifted(Shifted(n))) < 256
  PROVE  Announced(EncodeHeader(n)) = n
<1> DEFINE q == Shifted(n)  r == Shifted(q)  u == Shifted(r)
<1>1. q \in Nat /\ Low(n) \in 0 .. 255 /\ n = 256 * q + Low(n)
  BY LowAndShifted
<1>2. r \in Nat /\ Low(q) \in 0 .. 255 /\ q = 256 * r + Low(q)
  BY <1>1, LowAndShifted
<1>3. u \in Nat /\ Low(r) \in 0 .. 255 /\ r = 256 * u + Low(r)
  BY <1>2, LowAndShifted
<1>4. Low(u) = u
  BY <1>3 DEF Low
<1>5. EncodeHeader(n) = << u, Low(r), Low(q), Low(n) >>
  BY <1>4 DEF EncodeHeader
<1> HIDE DEF q, r, u
<1>6. Announced(<< u, Low(r), Low(q), Low(n) >>) = n
  BY <1>1, <1>2, <1>3 DEF Announced
<1> QED
  BY <1>5, <1>6

\* The cap has three bytes.
LEMMA CapFits == MaxBodyLength \in Nat /\ \A n \in 0 .. MaxBodyLength : Shifted(Shifted(Shifted(n))) < 256
<1>1. MaxBodyLength \in Nat /\ MaxBodyLength < 1000 * 256
  BY DEF MaxBodyLength
<1>2. ASSUME NEW n \in 0 .. MaxBodyLength PROVE Shifted(Shifted(Shifted(n))) < 256
  <2>1. n \in Nat /\ Shifted(n) \in 0 .. 1000
    BY <1>1 DEF Shifted
  <2>2. Shifted(Shifted(n)) \in 0 .. 4
    BY <2>1 DEF Shifted
  <2> QED
    BY <2>2 DEF Shifted
<1> QED
  BY <1>1, <1>2

\* However long a message is, its frame stays in step with the stream: the header
\* announces exactly the bytes that follow it, and is never one that the receiver
\* refuses, for the length is cut before it is encoded (protocol_message.cc:35-39).
THEOREM FramesInStep ==
  ASSUME NEW size \in Nat
  PROVE  DecodeHeader(SetMessage(size).header) = [accepted |-> TRUE, length |-> SetMessage(size).copied]
<1>1. BodyLength(size) \in 0 .. MaxBodyLength
  BY CapFits DEF BodyLength
<1>2. Announced(EncodeHeader(BodyLength(size))) = BodyLength(size)
  BY <1>1, CapFits, HeaderRoundTrip
<1> QED
  BY <1>1, <1>2, CapFits DEF DecodeHeader, SetMessage
===============================================================================
