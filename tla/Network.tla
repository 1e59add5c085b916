------------------------------- MODULE Network -------------------------------
(***************************************************************************)
(* The network layer of the controller: async_xface (two bounded          *)
(* lock-free queues and the io_service), connection_manager (the map of   *)
(* sessions) and agent_session (one TCP connection).                       *)
(*                                                                         *)
(* Every completion handler of the io_service runs on the network thread, *)
(* so a handler is one atomic action. The threads that call send_msg run  *)
(* beside it: their push and their io_service.post are two steps.          *)
(***************************************************************************)
EXTENDS Naturals, Sequences, FiniteSets

CONSTANTS Thread,      \* controller threads that call send_msg
          Msg,         \* messages, in both directions
          Notice,      \* the empty frame that announces a new session
          Oversized,   \* a frame whose header decode_header refuses
          InCap,       \* capacity of in_queue_  (10000 in the code)
          OutCap,      \* capacity of out_queue_ (10000 in the code)
          MaxSessions, \* bound: connections accepted
          MaxPushed,   \* bound: messages accepted by send_msg per session
          MaxWire      \* bound: frames of an agent under way to the controller

ASSUME NetworkAssumption ==
  /\ IsFiniteSet(Thread)
  /\ InCap \in Nat \ {0} /\ OutCap \in Nat \ {0}
  /\ MaxSessions \in Nat /\ MaxPushed \in Nat /\ MaxWire \in Nat
  /\ Notice \notin Msg /\ Oversized \notin Msg /\ Notice # Oversized

Id == 0 .. MaxSessions - 1
Frame == Msg \cup {Oversized}
InItem == [tag : Id, body : Msg \cup {Notice}]
OutItem == [tag : Id, body : Msg]

VARIABLES
  inQueue,     \* in_queue_
  outQueue,    \* out_queue_
  caller,      \* caller[t]: where thread t is inside send_msg
  posted,      \* forward_msg_to_agent handlers posted and not run yet
  nextId,      \* next_id_
  sessions,    \* keys of sessions_ that hold a session
  readState,   \* readState[a]: the outstanding async_read of session a
  socketOpen,  \* sessions whose socket_ is open
  writeQueue,  \* writeQueue[a]: write_queue_
  writes,      \* writes[a]: outstanding async_writes of session a
  crashed,     \* the process dereferenced a null or freed session
  broken,      \* environment: connections that failed or were closed by the agent
  wire,        \* environment: wire[a]: frames from agent a, not read yet
  known,       \* history: session ids the controller has taken a message of
  pushed,      \* history: pushed[a]: messages send_msg accepted for a
  written      \* history: written[a]: messages written to a's socket

queueVars == <<inQueue, outQueue, caller, posted>>
readVars == <<nextId, readState, wire>>
writeVars == <<writeQueue, writes, written>>
vars == <<queueVars, nextId, sessions, readState, socketOpen, writeQueue,
          writes, crashed, broken, wire, known, pushed, written>>

Init ==
  /\ inQueue = <<>> /\ outQueue = <<>>
  /\ caller = [t \in Thread |-> "idle"]
  /\ posted = 0 /\ nextId = 0 /\ sessions = {}
  /\ readState = [a \in Id |-> "none"]
  /\ socketOpen = {}
  /\ writeQueue = [a \in Id |-> <<>>] /\ writes = [a \in Id |-> 0]
  /\ crashed = FALSE /\ broken = {}
  /\ wire = [a \in Id |-> <<>>]
  /\ known = {}
  /\ pushed = [a \in Id |-> <<>>] /\ written = [a \in Id |-> <<>>]

-------------------------------------------------------------------------------
(* async_xface, on the threads of the controller.                          *)

\* Mutant of PushIn: a lock-free stack in the place of the queue.
PushInMutStack(item) ==
  inQueue' = IF Len(inQueue) < InCap THEN <<item>> \o inQueue ELSE inQueue

\* in_queue_.push: a full queue drops the message and nobody looks.
PushIn(item) ==
  inQueue' = IF Len(inQueue) < InCap THEN Append(inQueue, item) ELSE inQueue

\* get_msg_from_network, called by the thread of the RIB updater.
GetMsgFromNetwork ==
  /\ ~crashed /\ inQueue # <<>>
  /\ known' = known \cup {Head(inQueue).tag}
  /\ inQueue' = Tail(inQueue)
  /\ UNCHANGED <<outQueue, caller, posted, nextId, sessions, readState, socketOpen,
                 writeVars, crashed, broken, wire, pushed>>

\* send_msg, first half: out_queue_.push succeeds.
SendPush(t, a, m) ==
  /\ ~crashed /\ caller[t] = "idle" /\ a \in known
  /\ Len(outQueue) < OutCap
  /\ Len(pushed[a]) < MaxPushed
  /\ outQueue' = Append(outQueue, [tag |-> a, body |-> m])
  /\ pushed' = [pushed EXCEPT ![a] = Append(@, m)]
  /\ caller' = [caller EXCEPT ![t] = "posting"]
  /\ UNCHANGED <<inQueue, posted, readVars, sessions, socketOpen, writeVars,
                 crashed, broken, known>>

\* Mutant of SendRefused: the handler is posted whatever push returned.
SendRefusedMutPosts(t) ==
  /\ ~crashed /\ caller[t] = "idle" /\ known # {}
  /\ Len(outQueue) = OutCap
  /\ caller' = [caller EXCEPT ![t] = "posting"]
  /\ UNCHANGED <<inQueue, outQueue, posted, readVars, sessions, socketOpen,
                 writeVars, crashed, broken, known, pushed>>

\* send_msg, first half: out_queue_ is full, the call returns false.
SendRefused(t) ==
  /\ ~crashed /\ caller[t] = "idle" /\ known # {}
  /\ Len(outQueue) = OutCap
  /\ caller' = [caller EXCEPT ![t] = "refused"]
  /\ UNCHANGED <<inQueue, outQueue, posted, readVars, sessions, socketOpen,
                 writeVars, crashed, broken, known, pushed>>

\* requests_manager::send_message ignores the result: the message is gone.
DropRefused(t) ==
  /\ ~crashed /\ caller[t] = "refused"
  /\ caller' = [caller EXCEPT ![t] = "idle"]
  /\ UNCHANGED <<inQueue, outQueue, posted, readVars, sessions, socketOpen,
                 writeVars, crashed, broken, known, pushed>>

\* send_msg, second half: io_service.post(forward_msg_to_agent).
SendPost(t) ==
  /\ ~crashed /\ caller[t] = "posting"
  /\ posted' = posted + 1
  /\ caller' = [caller EXCEPT ![t] = "idle"]
  /\ UNCHANGED <<inQueue, outQueue, readVars, sessions, socketOpen, writeVars,
                 crashed, broken, known, pushed>>

-------------------------------------------------------------------------------
(* agent_session and connection_manager, on the network thread.            *)

\* do_write: start one more async_write of the front of write_queue_.
DoWrite(a) == writes' = [writes EXCEPT ![a] = @ + 1]

\* Mutant of Deliver: every message starts a write.
DeliverMutAlwaysWrites(a, m) ==
  /\ writeQueue' = [writeQueue EXCEPT ![a] = Append(@, m)]
  /\ DoWrite(a)

\* Mutant of Deliver: write_in_progress is read after the push, so it always holds.
DeliverMutChecksLate(a, m) ==
  /\ writeQueue' = [writeQueue EXCEPT ![a] = Append(@, m)]
  /\ UNCHANGED writes

\* deliver: queue the message; start a write unless one is in progress.
Deliver(a, m) ==
  /\ writeQueue' = [writeQueue EXCEPT ![a] = Append(@, m)]
  /\ IF writeQueue[a] = <<>> THEN DoWrite(a) ELSE UNCHANGED writes

\* forward_msg_to_agent, then send_msg_to_agent: sessions_[tag]->deliver(msg).
\* operator[] of a session that was erased yields a null pointer.
ForwardMsgToAgent ==
  /\ ~crashed /\ posted > 0 /\ outQueue # <<>>
  /\ posted' = posted - 1
  /\ outQueue' = Tail(outQueue)
  /\ LET msg == Head(outQueue)
     IN \/ /\ msg.tag \in sessions
           /\ Deliver(msg.tag, msg.body)
           /\ UNCHANGED crashed
        \/ /\ msg.tag \notin sessions
           /\ crashed' = TRUE
           /\ UNCHANGED <<writeQueue, writes>>
  /\ UNCHANGED <<inQueue, caller, readVars, sessions, socketOpen, written, broken,
                 known, pushed>>

\* The handler of do_accept: a new session starts reading and is announced.
DoAccept ==
  /\ ~crashed /\ nextId < MaxSessions
  /\ sessions' = sessions \cup {nextId}
  /\ socketOpen' = socketOpen \cup {nextId}
  /\ readState' = [readState EXCEPT ![nextId] = "header"]
  /\ PushIn([tag |-> nextId, body |-> Notice])
  /\ nextId' = nextId + 1
  /\ UNCHANGED <<outQueue, caller, posted, writeVars, crashed, broken, wire,
                 known, pushed>>

\* The handler of do_read_header: a good header; do_read_body.
ReadHeader(a) ==
  /\ ~crashed /\ a \in sessions \cap socketOpen /\ readState[a] = "header"
  /\ wire[a] # <<>> /\ Head(wire[a]) # Oversized
  /\ readState' = [readState EXCEPT ![a] = "body"]
  /\ UNCHANGED <<queueVars, nextId, sessions, socketOpen, writeVars, crashed,
                 broken, wire, known, pushed>>

\* The handler of do_read_body: forward_message, then the next header.
ReadBody(a) ==
  /\ ~crashed /\ a \in sessions \cap socketOpen /\ readState[a] = "body"
  /\ PushIn([tag |-> a, body |-> Head(wire[a])])
  /\ wire' = [wire EXCEPT ![a] = Tail(@)]
  /\ readState' = [readState EXCEPT ![a] = "header"]
  /\ UNCHANGED <<outQueue, caller, posted, nextId, sessions, socketOpen,
                 writeVars, crashed, broken, known, pushed>>

\* Either read handler, on an error or a header it refuses: socket_.close()
\* and nothing else. The session stays in sessions_.
ReadFails(a) ==
  /\ ~crashed /\ a \in sessions \cap socketOpen /\ readState[a] # "none"
  /\ \/ a \in broken
     \/ readState[a] = "header" /\ wire[a] # <<>> /\ Head(wire[a]) = Oversized
  /\ socketOpen' = socketOpen \ {a}
  /\ readState' = [readState EXCEPT ![a] = "none"]
  /\ UNCHANGED <<queueVars, nextId, sessions, writeVars, crashed, broken, wire,
                 known, pushed>>

\* Mutant of WriteCompletes: no pop_front, so the front is written again.
WriteCompletesMutNoPop(a) ==
  /\ ~crashed /\ writes[a] > 0 /\ a \in socketOpen
  /\ Len(written[a]) < MaxPushed
  /\ written' = [written EXCEPT ![a] = Append(@, Head(writeQueue[a]))]
  /\ UNCHANGED <<queueVars, readVars, sessions, socketOpen, writeQueue, writes,
                 crashed, broken, known, pushed>>

\* Mutant of WriteCompletes: the else of close_connection belongs to the test of
\* an empty write_queue_.
WriteCompletesMutElse(a) ==
  /\ ~crashed /\ writes[a] > 0 /\ a \in socketOpen
  /\ written' = [written EXCEPT ![a] = Append(@, Head(writeQueue[a]))]
  /\ writeQueue' = [writeQueue EXCEPT ![a] = Tail(@)]
  /\ IF Len(writeQueue[a]) > 1
     THEN UNCHANGED <<writes, sessions, socketOpen>>
     ELSE /\ writes' = [writes EXCEPT ![a] = @ - 1]
          /\ sessions' = sessions \ {a} /\ socketOpen' = socketOpen \ {a}
  /\ UNCHANGED <<queueVars, readVars, crashed, broken, known, pushed>>

\* The handler of do_write without an error.
WriteCompletes(a) ==
  /\ ~crashed /\ writes[a] > 0 /\ a \in socketOpen
  /\ written' = [written EXCEPT ![a] = Append(@, Head(writeQueue[a]))]
  /\ writeQueue' = [writeQueue EXCEPT ![a] = Tail(@)]
  /\ writes' = [writes EXCEPT ![a] = IF Len(writeQueue[a]) > 1 THEN @ ELSE @ - 1]
  /\ UNCHANGED <<queueVars, readVars, sessions, socketOpen, crashed, broken,
                 known, pushed>>

\* The handler of do_write with an error: close_connection erases the session,
\* whose destructor closes the socket and cancels the read that may be pending.
WriteFails(a) ==
  /\ ~crashed /\ writes[a] > 0
  /\ a \in broken \/ a \notin socketOpen
  /\ writes' = [writes EXCEPT ![a] = @ - 1]
  /\ sessions' = sessions \ {a}
  /\ socketOpen' = socketOpen \ {a}
  /\ writeQueue' = [writeQueue EXCEPT ![a] = <<>>]
  /\ UNCHANGED <<queueVars, readVars, crashed, broken, known, pushed, written>>

\* The cancelled read of a session that is gone: its handler holds a raw
\* pointer to the session and calls socket_.close() on freed memory, which
\* may go unnoticed or crash the process.
DanglingRead(a) ==
  /\ ~crashed /\ a \notin sessions /\ readState[a] # "none"
  /\ readState' = [readState EXCEPT ![a] = "none"]
  /\ crashed' \in BOOLEAN
  /\ UNCHANGED <<queueVars, nextId, sessions, socketOpen, writeVars, broken,
                 wire, known, pushed>>

-------------------------------------------------------------------------------
(* The agents and the network between them and the controller.             *)

AgentSends(a, f) ==
  /\ ~crashed /\ a < nextId /\ a \notin broken
  /\ Len(wire[a]) < MaxWire
  /\ wire' = [wire EXCEPT ![a] = Append(@, f)]
  /\ UNCHANGED <<queueVars, nextId, sessions, readState, socketOpen, writeVars,
                 crashed, broken, known, pushed>>

ConnectionBreaks(a) ==
  /\ ~crashed /\ a < nextId /\ a \notin broken
  /\ broken' = broken \cup {a}
  /\ UNCHANGED <<queueVars, readVars, sessions, socketOpen, writeVars, crashed,
                 known, pushed>>

-------------------------------------------------------------------------------
WriteEnds(a) == WriteCompletes(a) \/ WriteFails(a)
SendReturns(t) == SendPost(t) \/ DropRefused(t)

Next ==
  \/ GetMsgFromNetwork
  \/ \E t \in Thread, a \in Id, m \in Msg : SendPush(t, a, m)
  \/ \E t \in Thread : SendRefused(t)
  \/ \E t \in Thread : SendReturns(t)
  \/ ForwardMsgToAgent
  \/ DoAccept
  \/ \E a \in Id : ReadHeader(a)
  \/ \E a \in Id : ReadBody(a)
  \/ \E a \in Id : ReadFails(a)
  \/ \E a \in Id : WriteEnds(a)
  \/ \E a \in Id : DanglingRead(a)
  \/ \E a \in Id, f \in Frame : AgentSends(a, f)
  \/ \E a \in Id : ConnectionBreaks(a)

\* A thread inside send_msg leaves it; the io_service runs what was posted to it;
\* every async_write ends (TCP writes or reports an error).
Fairness ==
  /\ \A t \in Thread : WF_vars(SendReturns(t))
  /\ WF_vars(ForwardMsgToAgent)
  /\ \A a \in Id : WF_vars(WriteEnds(a))

Spec == Init /\ [][Next]_vars
FairSpec == Spec /\ Fairness

-------------------------------------------------------------------------------
TypeOK ==
  /\ inQueue \in Seq(InItem) /\ outQueue \in Seq(OutItem)
  /\ caller \in [Thread -> {"idle", "posting", "refused"}]
  /\ posted \in Nat /\ nextId \in 0 .. MaxSessions
  /\ sessions \in SUBSET Id
  /\ readState \in [Id -> {"none", "header", "body"}]
  /\ socketOpen \in SUBSET sessions
  /\ writeQueue \in [Id -> Seq(Msg)] /\ writes \in [Id -> Nat]
  /\ crashed \in BOOLEAN /\ broken \in SUBSET Id
  /\ wire \in [Id -> Seq(Frame)] /\ known \in SUBSET Id
  /\ pushed \in [Id -> Seq(Msg)] /\ written \in [Id -> Seq(Msg)]

Posting == {t \in Thread : caller[t] = "posting"}

\* Every message in out_queue_ has its handler: posted already, or about to be by
\* the thread that pushed it. So the handler never pops an empty queue, which
\* would leave its pointer uninitialised (forward_msg_to_agent ignores the result
\* of pop), although the order of the posts need not be the order of the pushes.
HandlerPerMessage == ~crashed => posted + Cardinality(Posting) = Len(outQueue)

\* A session never has two async_writes outstanding, which would interleave the
\* bytes of two frames on the connection, and has one exactly when something is
\* queued, so no message waits for a write that nobody starts (deliver, do_write).
OneWriteInFlight ==
  \A a \in sessions : writes[a] = IF writeQueue[a] = <<>> THEN 0 ELSE 1

\* The connections that were lost: broken, or given up on for a refused header.
Lost == broken \cup {a \in Id : wire[a] # <<>> /\ Head(wire[a]) = Oversized}

\* Sending and receiving alone never end a session: the socket of a session that
\* was accepted is closed, its entry in sessions_ erased, or a null or freed
\* session dereferenced, only after a connection was lost (send_msg_to_agent, the
\* raw this of the read handlers, close_connection).
OnlyLossEndsSessions ==
  /\ \A a \in Id : a < nextId /\ a \notin socketOpen => a \in Lost
  /\ crashed => Lost # {}

\* The messages queued for session a in out_queue_, in order: the j-th of them is at
\* the place that has j places of a up to it.
PlacesOf(a) == {i \in DOMAIN outQueue : outQueue[i].tag = a}
Place(a, j) == CHOOSE i \in PlacesOf(a) : Cardinality({k \in PlacesOf(a) : k <= i}) = j
QueuedFor(a) == [j \in 1 .. Cardinality(PlacesOf(a)) |-> outQueue[Place(a, j)].body]

\* Nothing accepted for a live session is lost, duplicated or reordered: it is
\* written, in write_queue_ or in out_queue_, in the order of the pushes.
NothingLost ==
  ~crashed => \A a \in sessions :
     pushed[a] = written[a] \o writeQueue[a] \o QueuedFor(a)

\* The announcement of a session is never behind one of its messages: the RIB
\* updater learns of an agent before it hears from it (do_accept starts the read
\* before it pushes the notice, but in the same handler).
NoticeFirst ==
  \A i, j \in DOMAIN inQueue :
     i < j /\ inQueue[i].tag = inQueue[j].tag => inQueue[j].body # Notice

\* A session that is gone never comes back and its id is never used again
\* (next_id_ only grows), so a message for an old agent cannot reach a new one.
IdsNotReused == [][\A a \in Id : a < nextId /\ a \notin sessions => a \notin sessions']_vars

\* The abstract channel: what was pushed is delivered in order, and eventually,
\* while the session lives.
Channel == INSTANCE AgentChannel WITH
  accepted <- pushed, delivered <- written,
  alive <- {a \in Id : ~crashed /\ (a >= nextId \/ a \in sessions)}

ChannelSpec == Channel!Spec
===============================================================================
