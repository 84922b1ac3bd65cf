------------------------------ MODULE Sockets ------------------------------
(***************************************************************************)
(* What the server and the subscribers share: the packets of common.h and  *)
(* strucs.h, and the kernel objects both sides reach only through socket   *)
(* calls - one TCP connection per subscriber process, the server's         *)
(* descriptor table, the accept queue of the listening socket and the      *)
(* receive queue of the UDP socket.                                        *)
(*                                                                         *)
(* One element of Clients is one run of the subscriber program.  Two       *)
(* elements with the same IdOf are a restart, or an intruder, depending on *)
(* when they connect.                                                      *)
(***************************************************************************)
EXTENDS Integers, Sequences, FiniteSets, SequencesExt

CONSTANTS
  Clients,   \* runs of the subscriber program
  Ids,       \* the identifiers given as argv[1]
  IdOf,      \* the identifier each run was given
  Topics,    \* topics a UDP client publishes on
  Patterns,  \* topics, possibly with wildcards, a subscriber asks for
  Matches,   \* the pairs <<topic, pattern>> that matches_topic accepts
  Fds,       \* descriptors left for subscriber connections (RLIMIT_NOFILE)
  None       \* no client, no descriptor, no datagram

ASSUME SocketsAssumption ==
  /\ IdOf \in [Clients -> Ids]
  /\ Matches \subseteq Topics \X Patterns
  /\ Fds \subseteq Nat
  /\ None \notin Clients \cup Fds

VARIABLES
  conn,      \* the connection each descriptor of the server names, or None
  backlog,   \* connections completed by the kernel and not yet accepted
  listening, \* the server's listening and UDP sockets exist
  toServer,  \* packets sent by a subscriber and not yet received
  toClient,  \* packets sent to a subscriber and not yet received
  peer,      \* the subscriber's end of its connection
  rst,       \* the subscriber's kernel has sent the server a reset
  udp,       \* datagrams waiting in the server's UDP socket
  arrived,   \* how many datagrams have arrived so far
  lost,      \* history: packets of a subscriber that a reset has lost
  missed     \* history: packets to a subscriber that a reset has lost

sockVars == <<conn, backlog, listening, toServer, toClient, peer, rst, udp, arrived,
              lost, missed>>

\* tcp_hdr plus payload.  The header's len field is the subject of the byte
\* level and not of this one: a packet is sent and received whole.
ToServerPackets ==
       [action : {"CONNECT_ACTION"}, id : Ids]
  \cup [action : {"SUBSCRIBE_ACTION", "UNSUBSCRIBE_ACTION"}, topic : Patterns]
  \cup [action : {"SHUTDOWN_CLOSE"}]

\* Datagrams are numbered in their order of arrival, so that two datagrams
\* with the same topic and payload remain two datagrams.
Datagrams == [n : Nat, topic : Topics]

ToClientPackets ==
       [action : {"NOTIFICATION_ACTION"}, dgram : Datagrams]
  \cup [action : {"SHUTDOWN_INTRUDER", "SHUTDOWN_CLOSE"}]

SocketsInit ==
  /\ conn = [f \in Fds |-> None]
  /\ backlog = <<>>
  /\ listening = TRUE
  /\ toServer = [p \in Clients |-> <<>>]
  /\ toClient = [p \in Clients |-> <<>>]
  /\ peer = [p \in Clients |-> "none"]
  /\ rst = [p \in Clients |-> FALSE]
  /\ udp = <<>>
  /\ arrived = 0
  /\ lost = [p \in Clients |-> <<>>]
  /\ missed = [p \in Clients |-> <<>>]

SocketsTypeOK ==
  /\ conn \in [Fds -> Clients \cup {None}]
  /\ backlog \in Seq(Clients)
  /\ listening \in BOOLEAN
  /\ toServer \in [Clients -> Seq(ToServerPackets)]
  /\ toClient \in [Clients -> Seq(ToClientPackets)]
  /\ peer \in [Clients -> {"none", "open", "closed"}]
  /\ rst \in [Clients -> BOOLEAN]
  /\ udp \in Seq(Datagrams)
  /\ arrived \in Nat
  /\ lost \in [Clients -> Seq(ToServerPackets)]
  /\ missed \in [Clients -> Seq(ToClientPackets)]

-----------------------------------------------------------------------------
\* The server's end of p's connection exists: accepted, or in the accept queue.
ServerEndOpen(p) ==
  \/ \E k \in DOMAIN backlog : backlog[k] = p
  \/ \E f \in Fds : conn[f] = p

\* accept() returns the lowest free descriptor, as POSIX requires.
IsLowestFree(f) ==
  /\ conn[f] = None
  /\ \A g \in Fds : conn[g] = None => f <= g

\* poll() reports POLLIN on a connection with a packet to read, and also when
\* the subscriber's end is closed: recv() would return 0.
Readable(f) ==
  conn[f] # None /\ (toServer[conn[f]] # <<>> \/ peer[conn[f]] = "closed")

\* send_tcp_packet() on a connection of the server whose descriptor is open.
\* A subscriber that is gone does not receive the packet, and its kernel
\* answers the segment with a reset.
DeliverTo(p, m) ==
  IF peer[p] = "open"
  THEN /\ toClient' = [toClient EXCEPT ![p] = Append(@, m)]
       /\ UNCHANGED rst
  ELSE /\ rst' = [rst EXCEPT ![p] = TRUE]
       /\ UNCHANGED toClient

\* send_tcp_packet() on the subscriber's socket.  The kernel takes the packet
\* also when the server's end is closed; nobody reads it then.
SendToServer(p, m) == toServer' = [toServer EXCEPT ![p] = Append(@, m)]

\* recv_tcp_packet() on the server: the packet leaves the socket.
TakeFrom(p) == toServer' = [toServer EXCEPT ![p] = Tail(@)]

\* The subscriber's end is closed with `unread` packets still in its receive
\* queue: the kernel then sends a reset, otherwise a FIN after the data.
CloseClientEnd(p, unread) ==
  /\ peer' = [peer EXCEPT ![p] = "closed"]
  /\ toClient' = [toClient EXCEPT ![p] = <<>>]
  /\ rst' = [rst EXCEPT ![p] = @ \/ unread # <<>>]

\* Data that is on its way when a reset is sent need not arrive: its last
\* packets are lost.  The server then finds less than p has sent, and behind
\* it an error that recv() reports once, and end of file.
LoseToServer(p) ==
  /\ rst[p] /\ ServerEndOpen(p) /\ toServer[p] # <<>>
  /\ toServer' = [toServer EXCEPT ![p] = Front(@)]
  /\ lost' = [lost EXCEPT ![p] = <<Last(toServer[p])>> \o @]
  /\ UNCHANGED <<conn, backlog, listening, toClient, peer, rst, udp, arrived, missed>>

\* The server's kernel sends the reset when the server's end is closed before
\* all that p has sent is read, and when more comes after that.
LoseToClient(p) ==
  /\ ~ServerEndOpen(p) /\ toServer[p] # <<>> /\ toClient[p] # <<>>
  /\ toClient' = [toClient EXCEPT ![p] = Front(@)]
  /\ missed' = [missed EXCEPT ![p] = <<Last(toClient[p])>> \o @]
  /\ UNCHANGED <<conn, backlog, listening, toServer, peer, rst, udp, arrived, lost>>

\* Every descriptor of the server is closed by the kernel when it exits.
CloseServerEnds ==
  /\ conn' = [f \in Fds |-> None]
  /\ backlog' = <<>>
  /\ listening' = FALSE
=============================================================================
