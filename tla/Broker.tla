------------------------------- MODULE Broker -------------------------------
(***************************************************************************)
(* The whole system: the server, the runs of the subscriber program, the   *)
(* UDP clients that publish, and the operator at the server's terminal.    *)
(***************************************************************************)
EXTENDS Server, Subscriber

CONSTANTS
  MaxDgrams,    \* bound: datagrams that arrive
  OperatorExits \* whether the operator may stop the server

ASSUME BrokerAssumption ==
  /\ MaxDgrams \in Nat
  /\ OperatorExits \in BOOLEAN

vars == <<sockVars, srvVars, cliVars>>

Init == SocketsInit /\ ServerInit /\ SubscriberInit

\* A UDP client's datagram reaches the server's socket.  A datagram lost or
\* duplicated on the way is one that arrives never or twice.
Publish(t) ==
  /\ listening /\ arrived < MaxDgrams
  /\ arrived' = arrived + 1
  /\ udp' = Append(udp, [n |-> arrived + 1, topic |-> t])
  /\ UNCHANGED <<conn, backlog, listening, toServer, toClient, peer, rst, lost, missed, srvVars,
                 cliVars>>

\* The operator types a line at the server.
OperatorExit ==
  /\ OperatorExits /\ ~stdin /\ Alive
  /\ stdin' = TRUE
  /\ UNCHANGED <<sockVars, pc, why, subs, sv_fds, idx, ready, cur, pending, dgram, aliased,
                 admitted, cliVars>>

Next ==
  \/ ServerStep /\ UNCHANGED cliVars
  \/ \E p \in Clients : (ClientStep(p) \/ UserStep(p)) /\ UNCHANGED srvVars
  \/ \E t \in Topics : Publish(t)
  \/ OperatorExit
  \/ \E p \in Clients : (LoseToServer(p) \/ LoseToClient(p)) /\ UNCHANGED <<srvVars, cliVars>>

Spec == Init /\ [][Next]_vars

\* The operating system schedules the server and every subscriber; nothing
\* obliges a user, a publisher or the operator to act.
Fairness ==
  /\ WF_vars(ServerStep /\ UNCHANGED cliVars)
  /\ \A p \in Clients : WF_vars(ClientStep(p) /\ UNCHANGED srvVars)

FairSpec == Spec /\ Fairness

TypeOK == SocketsTypeOK /\ ServerTypeOK /\ SubscriberTypeOK
=============================================================================
