--------------------------- MODULE BrokerService ---------------------------
(***************************************************************************)
(* The programs together are the service of PubSub.                        *)
(***************************************************************************)
EXTENDS BrokerProperties

\* The runs that start_server polls.
Connected == IF Serving THEN {Session(k) : k \in DOMAIN sv_fds} ELSE {}

\* The topics of an identifier, none before it has a record.
TopicsOf(id) ==
  LET records == {i \in DOMAIN subs : subs[i].id = id}
  IN  IF records = {} THEN [t \in Patterns |-> 0]
                      ELSE subs[CHOOSE i \in records : TRUE].topics
TopicsById == [id \in Ids |-> TopicsOf(id)]

\* The datagrams at the front of a subscriber's socket: run_subscriber shows
\* them, and ends at the first packet that is not one.
Leading(queue) ==
  [k \in {k \in DOMAIN queue : \A j \in 1 .. k : queue[j].action = "NOTIFICATION_ACTION"}
     |-> queue[k].dgram]
InSocket(p) == Leading(toClient[p])

\* The datagram that send_packet_to_subscribers still has to send to p.
Promised(p) ==
  IF peer[p] = "open" /\ \E i \in pending : conn[subs[i].fd] = p THEN <<dgram>> ELSE <<>>

\* What each run was given: shown, in its socket, or still to be sent.
Inbox == [p \in Clients |-> shown[p] \o InSocket(p) \o Promised(p)]

\* The runs whose end of the connection is closed.
Left == {p \in Clients : peer[p] = "closed"}

\* Those that have closed it or are about to, after SHUTDOWN_CLOSE.
Ending == Left \cup {p \in Clients : cl[p] = "leaving"}

Service == INSTANCE PubSub WITH
  up        <- Serving,
  connected <- Connected,
  topics    <- TopicsById,
  incoming  <- udp,
  inbox     <- Inbox,
  ending    <- Ending,
  left      <- Left,
  void      <- aliased

\* Until two records share a descriptor, the broker is the service: sessions
\* begin and end one per identifier, a command changes the topics of the
\* identifier it came from, and a datagram is taken by all who want it or, where
\* a program ends, by nobody who would miss an earlier one.
IsAPubSub == Service!ServiceSpec
=============================================================================
