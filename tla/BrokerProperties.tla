-------------------------- MODULE BrokerProperties --------------------------
(***************************************************************************)
(* What server.cpp and subscriber.cpp promise together.                    *)
(*                                                                         *)
(* Records of subscribers that went offline keep the number of their old   *)
(* descriptor, and the kernel hands that number out again.  From then on   *)
(* get_subscriber_by_fd may return somebody else's record; the history     *)
(* variable aliased says whether two records have ever shared a number.    *)
(* Properties that hold in every behaviour come first, those that hold     *)
(* until that happens next, and last what the repository says and the      *)
(* code does not do.                                                       *)
(***************************************************************************)
EXTENDS Broker

-----------------------------------------------------------------------------
\* The run of the subscriber program behind the k-th polled descriptor.
Session(k) == conn[sv_fds[k]]

\* p's connection is polled by the server.
Polled(p) == \E k \in DOMAIN sv_fds : Session(k) = p

\* shutdown_server() has not begun to close what start_server() polls.
Serving == Alive /\ pc # "stop"

-----------------------------------------------------------------------------
(* Holds always.                                                           *)

\* An identifier has at most one session: no two polled descriptors belong to
\* runs with the same id, and no descriptor is polled twice or after it was
\* closed (check_and_add_new_sub, handle_shutdown_sub).  This survives even
\* the wrong lookups of get_subscriber_by_fd.
OneSessionPerId ==
  Serving =>
    /\ \A k \in DOMAIN sv_fds : Session(k) # None
    /\ \A j, k \in DOMAIN sv_fds : j # k => IdOf[Session(j)] # IdOf[Session(k)]

\* The assertions DIE(!sub) of handle_shutdown_sub, handle_subscribe and
\* handle_unsubscribe never fail: whatever is polled has some record.
LookupsSucceed == why # "get_sub"

\* The server can only be caught in the endless recv() of recv_tcp_packet when
\* some subscriber was killed, or left with a reset that lost its
\* SHUTDOWN_CLOSE: one whose packet arrives, before or after it is admitted and
\* before or after it has closed, never leaves the server reading an end of file.
EofMeansCutOff ==
  why = "eof" =>
    \E p \in Clients :
      \/ p \in MayCrash /\ cl[p] = "gone"
      \/ [action |-> "SHUTDOWN_CLOSE"] \in Range(lost[p])

\* Only an intruder costs the server a descriptor: one that stays open without
\* being polled belongs to a run that was never admitted, and is either the
\* connection whose CONNECT packet is awaited or that of a run whose id was
\* taken by an admitted one.  The descriptors of admitted runs are polled until
\* they are closed, whichever record the lookups find and whichever entry the
\* shift of handle_shutdown_sub moves.
OnlyIntrudersLeak ==
  Serving =>
    \A f \in Fds :
      conn[f] # None /\ f # cur /\ (\A k \in DOMAIN sv_fds : sv_fds[k] # f) =>
        /\ conn[f] \notin admitted
        /\ \E p \in admitted : IdOf[p] = IdOf[conn[f]]

\* What a reset lost of what the server sent to p was lost because p had sent
\* something that the server never read.
CutOffUnread(p, act) == toServer[p] # <<>> /\ \E n \in DOMAIN missed[p] : missed[p][n].action = act

\* After shutdown_server() has run to its end, every subscriber it had ever
\* admitted has left or is leaving, or will find SHUTDOWN_CLOSE as the last
\* packet in its socket, unless a reset has lost it.
StopReachesTheAdmitted ==
  why = "exit" =>
    \A p \in admitted :
      \/ cl[p] \in {"leaving", "gone"}
      \/ toClient[p] # <<>> /\ Last(toClient[p]).action = "SHUTDOWN_CLOSE"
      \/ CutOffUnread(p, "SHUTDOWN_CLOSE")

\* The record of p's identifier has a subscription that the datagram matches.
Wants(p, d) == \E i \in DOMAIN subs : subs[i].id = IdOf[p] /\ IsInterested(subs[i], d.topic)

\* The server is done with datagram d: all interested_subs were served, or
\* there were none.
DoneWith(d) ==
  /\ pc' = "poll"
  /\ \/ pc = "notify" /\ d = dgram
     \/ pc = "poll" /\ udp # <<>> /\ udp' = Tail(udp) /\ d = Head(udp)

\* The datagram is on its way to every connected subscriber who wants it, or
\* has been shown by him.
Serves(d) ==
  \A p \in Clients :
    Polled(p) /\ peer[p] = "open" /\ Wants(p, d)
      => \/ [action |-> "NOTIFICATION_ACTION", dgram |-> d] \in Range(toClient'[p])
         \/ d \in Range(shown[p])

\* When send_packet_to_subscribers returns, nobody was left out: neither a
\* subscriber who waits behind others nor one whose descriptor changed hands,
\* even when two records share a number.  Only a server that dies on the way
\* leaves somebody out.
ForwardingServesAll == [][\A d \in Range(udp) \cup {dgram} : DoneWith(d) => Serves(d)]_vars

-----------------------------------------------------------------------------
(* Holds until two records share a descriptor.                             *)

\* A record is online exactly while a run with its id is polled on its
\* descriptor.
OnlineMeansPolled ==
  Serving /\ ~aliased =>
    \A i \in DOMAIN subs :
      subs[i].online <=>
        \E k \in DOMAIN sv_fds : sv_fds[k] = subs[i].fd /\ IdOf[Session(k)] = subs[i].id

\* send() on a descriptor that was closed keeps send_tcp_packet in its loop for
\* ever: this needs a record that is online after its session ended.
StuckSendMeansAliased == why = "badfd" => aliased

\* The packets of p that the server has not read, and those it never will.
Unread(p) == toServer[p] \o lost[p]

\* How often a packet with this action and topic waits in a queue.
Waiting(queue, act, t) ==
  Cardinality({n \in DOMAIN queue : queue[n] = [action |-> act, topic |-> t]})

\* The packets of p about t that the server has read: subscriptions less
\* unsubscriptions.
NetRead(p, t) ==
    (asked[p][t] - Waiting(Unread(p), "SUBSCRIBE_ACTION", t))
  - (dropped[p][t] - Waiting(Unread(p), "UNSUBSCRIBE_ACTION", t))

\* The runs with this id that the server has admitted.
SessionsOf(id) == {p \in admitted : IdOf[p] = id}

\* The topics of a record are what the sessions of its id have subscribed to
\* and not unsubscribed from, over all reconnections, and nothing else: no
\* command is lost, applied twice, or applied to another record.
TopicsAccountedFor ==
  Alive /\ ~aliased =>
    \A i \in DOMAIN subs, t \in Patterns :
      subs[i].topics[t] =
        SumFunctionOnSet([p \in Clients |-> NetRead(p, t)], SessionsOf(subs[i].id))

\* A subscriber is never shown a datagram no session of its id asked for.
NoUnsolicited ==
  ~aliased =>
    \A p \in Clients : \A n \in DOMAIN shown[p] :
      \E q \in Clients, t \in Patterns :
        IdOf[q] = IdOf[p] /\ asked[q][t] > 0 /\ <<shown[p][n].topic, t>> \in Matches

\* Datagrams are shown in the order in which they arrived, and each at most
\* once per identifier, restarts included.
InOrderAndOnce ==
  ~aliased =>
    /\ \A p \in Clients : \A m, n \in DOMAIN shown[p] : m < n => shown[p][m].n < shown[p][n].n
    /\ \A p, q \in Clients : p # q /\ IdOf[p] = IdOf[q] =>
         Range(shown[p]) \cap Range(shown[q]) = {}

-----------------------------------------------------------------------------
(* Must happen.                                                            *)

\* Every subscriber admitted before the operator stops the server ends, unless
\* a reset has lost the packet that tells it to.
StopEndsTheAdmitted ==
  \A p \in Clients :
    (why = "exit" /\ p \in admitted) ~> (cl[p] = "gone" \/ CutOffUnread(p, "SHUTDOWN_CLOSE"))

\* Packets of a polled subscriber are read, or lost by a reset, also when the loop of lines
\* 426-430 of server.cpp has passed over its entry or other subscribers have
\* left in the same round, unless the server ends or is stuck.
PacketsAreRead ==
  \A p \in Clients :
    (Polled(p) /\ toServer[p] # <<>>) ~> (toServer[p] = <<>> \/ ~Alive)

\* A run that connects is admitted, or it is told to end, or the server ended
\* or is stuck.
ConnectIsAnswered ==
  \A p \in Clients :
    cl[p] = "connecting" ~> (p \in admitted \/ cl[p] = "gone" \/ ~Alive)

-----------------------------------------------------------------------------
(* Said by the repository and not done by the code.                        *)

\* README.md:69: SHUTDOWN_INTRUDER is for an id "associated with an online
\* user"; for an offline one "the server WILL NOT send this signal".  A user is
\* online while his program has its connection open.
IntrudersMeetAnOnlineUser ==
  [][RefuseIntruder =>
       \E q \in Clients \ {conn[cur]} : IdOf[q] = ConnectId /\ peer[q] = "open"]_vars

\* server.cpp:295: a subscription is added to "that sub's topics array".
SubscribeReachesItsOwner ==
  [][\A i \in DOMAIN subs, k \in DOMAIN sv_fds :
       pc = "clients" /\ sv_fds[k] = subs[i].fd /\ subs'[i].topics # subs[i].topics
         => IdOf[Session(k)] = subs[i].id]_vars

\* server.cpp:317: DIE asserts that a topic to be removed is in the array.
UnsubscribedTopicIsHeld == why # "not_subbed"

\* README.md:63: SHUTDOWN_CLOSE is sent "when the servers closes down, signals
\* the subscriber to close his socket on his end, and then his client".
StopEndsEverySubscriber ==
  \A p \in Clients :
    (pc = "stop" /\ p \in admitted) ~> (cl[p] = "gone" \/ CutOffUnread(p, "SHUTDOWN_CLOSE"))
=============================================================================
