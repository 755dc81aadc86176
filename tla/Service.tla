------------------------------- MODULE Service -------------------------------
(***************************************************************************)
(* What the tracker promises each client that connects, whatever threads,  *)
(* queues and pools it is built of: the connection is accepted, answered   *)
(* at most once, and then closed once and for good.                        *)
(***************************************************************************)
EXTENDS Naturals, FiniteSets

CONSTANTS Clients,
          Capacity   \* the connections that are open at a time, at most

VARIABLES conn,      \* where each client's connection stands
          answers    \* the replies each client has been sent

Move(c, from, to) == /\ conn[c] = from
                     /\ conn' = [conn EXCEPT ![c] = to]

Init == /\ conn = [c \in Clients |-> "away"]
        /\ answers = [c \in Clients |-> 0]

Arrive(c) == Move(c, "away", "backlog") /\ UNCHANGED answers

\* The kernel drops the connections nobody has accepted when the listening
\* socket is closed.
Refuse == /\ conn' = [c \in Clients |-> IF conn[c] = "backlog" THEN "refused"
                                                               ELSE conn[c]]
          /\ UNCHANGED answers

Open == {c \in Clients : conn[c] = "open"}

Accept(c) == /\ Cardinality(Open) < Capacity
             /\ Move(c, "backlog", "open")
             /\ UNCHANGED answers

Answer(c) == /\ conn[c] = "open"
             /\ answers[c] = 0
             /\ answers' = [answers EXCEPT ![c] = 1]
             /\ UNCHANGED conn

Close(c) == Move(c, "open", "closed") /\ UNCHANGED answers

Next == \/ \E c \in Clients : Arrive(c) \/ Accept(c) \/ Answer(c) \/ Close(c)
        \/ Refuse

Spec == Init /\ [][Next]_<<conn, answers>>
=============================================================================
