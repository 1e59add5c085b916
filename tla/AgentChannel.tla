----------------------------- MODULE AgentChannel -----------------------------
(***************************************************************************)
(* What async_xface::send_msg promises its callers about one agent: the   *)
(* messages accepted for an agent reach the socket of that agent's        *)
(* session in the order they were accepted, each at most once, until the  *)
(* session is lost; and while the session lives, all of them do.          *)
(***************************************************************************)
EXTENDS Naturals, Sequences

CONSTANTS Id,          \* the session ids of the agents
          Msg,         \* the messages
          MaxPushed    \* bound: messages accepted per agent

VARIABLES accepted,    \* accepted[a]: what was accepted for a, in order
          delivered,   \* delivered[a]: what was written to a's socket, in order
          alive        \* the agents whose session is not lost

vars == <<accepted, delivered, alive>>

Init ==
  /\ accepted = [a \in Id |-> <<>>]
  /\ delivered = [a \in Id |-> <<>>]
  /\ alive = Id

Accept(a, m) ==
  /\ Len(accepted[a]) < MaxPushed
  /\ accepted' = [accepted EXCEPT ![a] = Append(@, m)]
  /\ UNCHANGED <<delivered, alive>>

\* The oldest accepted message that was not delivered yet goes out.
Deliver(a) ==
  /\ a \in alive
  /\ Len(delivered[a]) < Len(accepted[a])
  /\ delivered' = [delivered EXCEPT ![a] = Append(@, accepted[a][Len(@) + 1])]
  /\ UNCHANGED <<accepted, alive>>

\* Sessions are lost one at a time, or all of them with the process.
Lose(S) ==
  /\ S # {}
  /\ alive' = alive \ S
  /\ UNCHANGED <<accepted, delivered>>

Next ==
  \/ \E a \in Id, m \in Msg : Accept(a, m)
  \/ \E a \in Id : Deliver(a)
  \/ \E S \in SUBSET alive : Lose(S)

Spec == Init /\ [][Next]_vars /\ \A a \in Id : WF_vars(Deliver(a))
===============================================================================
