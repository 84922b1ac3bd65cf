------------------------------- MODULE Server -------------------------------
(***************************************************************************)
(* server.cpp.  The server is one thread around poll(): it looks at stdin, *)
(* then at the listening socket, then at the UDP socket, and only when     *)
(* none of them is ready at the subscribers.  A step here is one branch of *)
(* start_server(), cut wherever the code blocks in recv(), sends to one    *)
(* more subscriber, or goes round one of its loops.                        *)
(*                                                                         *)
(* sv_fds is a sequence here.  The array of the code has room for three    *)
(* entries and 61 connections, and PollTable shows what the next one does  *)
(* to its storage: this module is about executions in which no more than   *)
(* 61 connections are polled at a time.                                    *)
(*                                                                         *)
(* A definition called Name_Something is not the code: it is Name with a   *)
(* bug somebody could have written, kept to show which property notices.   *)
(***************************************************************************)
EXTENDS Sockets

VARIABLES
  pc,        \* where start_server() is, see Phases
  why,       \* what ended the server, "" while nothing has
  subs,      \* vector<subscriber> subs, topics as a bag of patterns
  sv_fds,    \* sv_fds[3 ..]: the polled subscriber descriptors
  stdin,     \* a line is waiting on the server's standard input
  idx,       \* i, the index of the for loop over sv_fds
  ready,     \* the descriptors poll() marked with POLLIN for this round
  cur,       \* new_tcp_con_fd between accept() and the CONNECT packet
  pending,   \* interested_subs not served yet, as indices of subs
  dgram,     \* the datagram being forwarded
  aliased,   \* history: two records of subs have held the same fd
  admitted   \* history: the clients the server has added to sv_fds

srvVars == <<pc, why, subs, sv_fds, stdin, idx, ready, cur, pending, dgram,
             aliased, admitted>>

\* "poll": in poll(); "connect": in recv_tcp_packet() on a new connection;
\* "notify": in send_packet_to_subscribers(); "clients": in the loop of lines
\* 426-430; "stop": in shutdown_server(); "dead": exited; "spin": in a recv or
\* send loop that no longer makes progress.
Phases == {"poll", "connect", "notify", "clients", "stop", "dead", "spin"}

Subscribers == [id : Ids, fd : Fds, topics : [Patterns -> Nat], online : BOOLEAN]

ServerInit ==
  /\ pc = "poll" /\ why = ""
  /\ subs = <<>> /\ sv_fds = <<>>
  /\ stdin = FALSE
  /\ idx = 1 /\ ready = {} /\ cur = None /\ pending = {} /\ dgram = None
  /\ aliased = FALSE /\ admitted = {}

ServerTypeOK ==
  /\ pc \in Phases
  /\ why \in {"", "exit", "accept", "get_sub", "not_subbed", "sigpipe", "eof", "badfd"}
  /\ subs \in Seq(Subscribers)
  /\ sv_fds \in Seq(Fds)
  /\ stdin \in BOOLEAN
  /\ idx \in Nat \ {0}
  /\ ready \subseteq Fds
  /\ cur \in Fds \cup {None}
  /\ pending \subseteq DOMAIN subs
  /\ dgram \in Datagrams \cup {None}
  /\ aliased \in BOOLEAN
  /\ admitted \subseteq Clients

Alive == pc \notin {"dead", "spin"}

-----------------------------------------------------------------------------
\* The locals of one branch go out of scope.
ForgetLocals ==
  /\ idx' = 1 /\ ready' = {} /\ cur' = None /\ pending' = {} /\ dgram' = None

\* exit(), from DIE or at the end of shutdown_server(), or death by a signal.
Halt(cause) ==
  /\ pc' = "dead" /\ why' = cause
  /\ ForgetLocals
  /\ CloseServerEnds

\* recv() returns 0 or send() returns -1 again and again: both are added to
\* size_t counters, so the checks for < 0 never hold and the loop never ends.
Spin(cause) ==
  /\ pc' = "spin" /\ why' = cause
  /\ ForgetLocals
  /\ UNCHANGED <<conn, backlog, listening>>

-----------------------------------------------------------------------------
\* Variant: the loop of shutdown_server() starts one entry too far.
ReadStdin_FromSecond ==
  /\ pc = "poll" /\ stdin
  /\ pc' = "stop" /\ idx' = 2
  /\ UNCHANGED <<sockVars, why, subs, sv_fds, stdin, ready, cur, pending, dgram,
                 aliased, admitted>>

\* poll() returns with a line on stdin: shutdown_server() is entered.
ReadStdin ==
  /\ pc = "poll" /\ stdin
  /\ pc' = "stop" /\ idx' = 1
  /\ UNCHANGED <<sockVars, why, subs, sv_fds, stdin, ready, cur, pending, dgram,
                 aliased, admitted>>

\* A connection waits on the listening socket: accept() it, then wait for its
\* CONNECT packet.
Accept ==
  /\ pc = "poll" /\ ~stdin /\ backlog # <<>>
  /\ \E f \in Fds :
       /\ IsLowestFree(f)
       /\ conn' = [conn EXCEPT ![f] = Head(backlog)]
       /\ cur' = f
  /\ backlog' = Tail(backlog)
  /\ pc' = "connect"
  /\ UNCHANGED <<listening, toServer, toClient, peer, rst, udp, arrived, lost, missed, why,
                 subs, sv_fds, stdin, idx, ready, pending, dgram, aliased, admitted>>

\* No descriptor is left: DIE(new_tcp_con_fd < 0).
AcceptFails ==
  /\ pc = "poll" /\ ~stdin /\ backlog # <<>>
  /\ \A f \in Fds : conn[f] # None
  /\ Halt("accept")
  /\ UNCHANGED <<toServer, toClient, peer, rst, udp, arrived, lost, missed, subs, sv_fds,
                 stdin, aliased, admitted>>

-----------------------------------------------------------------------------
\* The CONNECT packet of the connection being accepted has arrived.
ConnectArrives == pc = "connect" /\ toServer[conn[cur]] # <<>>
ConnectId == Head(toServer[conn[cur]]).id

\* add_new_pollfd_struc() for a connection whose record is subs'[i].  The
\* history variable notes when another record holds the same descriptor.
PollNewConnection(i) ==
  /\ sv_fds' = Append(sv_fds, cur)
  /\ admitted' = admitted \cup {conn[cur]}
  /\ aliased' = (aliased \/ \E j \in DOMAIN subs : j # i /\ subs[j].fd = cur)
  /\ TakeFrom(conn[cur])
  /\ pc' = "poll" /\ ForgetLocals
  /\ UNCHANGED <<conn, backlog, listening, toClient, peer, rst, udp, arrived, lost, missed,
                 why, stdin>>

\* Variant: the online flag is not looked at.
Reconnect_EvenOnline ==
  /\ ConnectArrives
  /\ \E i \in DOMAIN subs :
       /\ subs[i].id = ConnectId
       /\ subs' = [subs EXCEPT ![i].fd = cur, ![i].online = TRUE]
       /\ PollNewConnection(i)

\* Variant: the record keeps its old descriptor.
Reconnect_OldFd ==
  /\ ConnectArrives
  /\ \E i \in DOMAIN subs :
       /\ subs[i].id = ConnectId /\ ~subs[i].online
       /\ subs' = [subs EXCEPT ![i].online = TRUE]
       /\ PollNewConnection(i)

\* Variant: the record starts again without topics.
Reconnect_ForgetsTopics ==
  /\ ConnectArrives
  /\ \E i \in DOMAIN subs :
       /\ subs[i].id = ConnectId /\ ~subs[i].online
       /\ subs' = [subs EXCEPT ![i].fd = cur, ![i].online = TRUE,
                               ![i].topics = [t \in Patterns |-> 0]]
       /\ PollNewConnection(i)

\* An identifier seen before and offline: the record gets the new descriptor
\* and keeps its topics.
Reconnect ==
  /\ ConnectArrives
  /\ \E i \in DOMAIN subs :
       /\ subs[i].id = ConnectId /\ ~subs[i].online
       /\ subs' = [subs EXCEPT ![i].fd = cur, ![i].online = TRUE]
       /\ PollNewConnection(i)

\* An identifier never seen before: push_back a new record.
AddNewSub ==
  /\ ConnectArrives
  /\ \A i \in DOMAIN subs : subs[i].id # ConnectId
  /\ subs' = Append(subs, [id |-> ConnectId, fd |-> cur,
                           topics |-> [t \in Patterns |-> 0], online |-> TRUE])
  /\ PollNewConnection(Len(subs) + 1)

\* Variant: the intruder is not told.
RefuseIntruder_Silently ==
  /\ ConnectArrives
  /\ \E i \in DOMAIN subs : subs[i].id = ConnectId /\ subs[i].online
  /\ TakeFrom(conn[cur])
  /\ pc' = "poll" /\ ForgetLocals
  /\ UNCHANGED <<conn, backlog, listening, toClient, peer, rst, udp, arrived, lost, missed,
                 why, subs, sv_fds, stdin, aliased, admitted>>

\* The identifier is online: the intruder is told to stop.  Its descriptor is
\* neither polled nor closed from here on.
RefuseIntruder ==
  /\ ConnectArrives
  /\ \E i \in DOMAIN subs : subs[i].id = ConnectId /\ subs[i].online
  /\ TakeFrom(conn[cur])
  /\ DeliverTo(conn[cur], [action |-> "SHUTDOWN_INTRUDER"])
  /\ pc' = "poll" /\ ForgetLocals
  /\ UNCHANGED <<conn, backlog, listening, peer, udp, arrived, lost, missed, why, subs,
                 sv_fds, stdin, aliased, admitted>>

\* The process went away between connect() and its CONNECT packet.
ConnectEof ==
  /\ pc = "connect" /\ toServer[conn[cur]] = <<>> /\ peer[conn[cur]] = "closed"
  /\ Spin("eof")
  /\ UNCHANGED <<toServer, toClient, peer, rst, udp, arrived, lost, missed, subs, sv_fds,
                 stdin, aliased, admitted>>

-----------------------------------------------------------------------------
\* sub_is_interesed_in_topic
IsInterested(sub, topic) ==
  \E t \in Patterns : sub.topics[t] > 0 /\ <<topic, t>> \in Matches

\* Variant: any topic will do.
SubsByTopic_Unmatched(topic) ==
  {i \in DOMAIN subs : (\E t \in Patterns : subs[i].topics[t] > 0) /\ subs[i].online}

\* Variant: the search ends at the first record that is interested.
SubsByTopic_First(topic) ==
  {i \in DOMAIN subs : /\ IsInterested(subs[i], topic) /\ subs[i].online
                       /\ \A j \in 1 .. i - 1 : ~IsInterested(subs[j], topic)}

\* get_subs_by_topic; the copies it returns stay equal to the records, which
\* do not change before the last of them is served.
SubsByTopic(topic) ==
  {i \in DOMAIN subs : IsInterested(subs[i], topic) /\ subs[i].online}

\* recvfrom(), parse_udp_packet() and the lookup of the interested subscribers.
ReceiveDatagram ==
  /\ pc = "poll" /\ ~stdin /\ backlog = <<>> /\ udp # <<>>
  /\ udp' = Tail(udp)
  /\ pending' = SubsByTopic(Head(udp).topic)
  /\ IF pending' = {} THEN dgram' = None /\ pc' = "poll"
                      ELSE dgram' = Head(udp) /\ pc' = "notify"
  /\ UNCHANGED <<conn, backlog, listening, toServer, toClient, peer, rst, arrived, lost,
                 missed, why, subs, sv_fds, stdin, idx, ready, cur, aliased, admitted>>

IsNextPending(i) == i \in pending /\ \A j \in pending : i <= j

\* Variant: the loop does not advance.
SendNotification_Again ==
  /\ pc = "notify"
  /\ \E i \in pending :
       /\ IsNextPending(i)
       /\ conn[subs[i].fd] # None
       /\ DeliverTo(conn[subs[i].fd], [action |-> "NOTIFICATION_ACTION", dgram |-> dgram])
  /\ UNCHANGED <<conn, backlog, listening, toServer, peer, udp, arrived, lost, missed, pc,
                 why, subs, sv_fds, stdin, idx, ready, cur, pending, dgram, aliased,
                 admitted>>

\* One turn of the loop of send_packet_to_subscribers, on an open descriptor.
SendNotification ==
  /\ pc = "notify"
  /\ \E i \in pending :
       /\ IsNextPending(i)
       /\ conn[subs[i].fd] # None
       /\ DeliverTo(conn[subs[i].fd], [action |-> "NOTIFICATION_ACTION", dgram |-> dgram])
       /\ pending' = pending \ {i}
  /\ IF pending' = {} THEN dgram' = None /\ pc' = "poll" ELSE UNCHANGED <<dgram, pc>>
  /\ UNCHANGED <<conn, backlog, listening, toServer, peer, udp, arrived, lost, missed, why,
                 subs, sv_fds, stdin, idx, ready, cur, aliased, admitted>>

\* The connection was reset by a subscriber that is gone: send() raises
\* SIGPIPE, which the server neither handles nor ignores.
NotificationSigpipe ==
  /\ pc = "notify"
  /\ \E i \in pending :
       /\ IsNextPending(i)
       /\ conn[subs[i].fd] # None /\ rst[conn[subs[i].fd]]
  /\ Halt("sigpipe")
  /\ UNCHANGED <<toServer, toClient, peer, rst, udp, arrived, lost, missed, subs, sv_fds,
                 stdin, aliased, admitted>>

\* The record of an online subscriber names a descriptor that was closed.
NotificationBadFd ==
  /\ pc = "notify"
  /\ \E i \in pending : IsNextPending(i) /\ conn[subs[i].fd] = None
  /\ Spin("badfd")
  /\ UNCHANGED <<toServer, toClient, peer, rst, udp, arrived, lost, missed, subs, sv_fds,
                 stdin, aliased, admitted>>

-----------------------------------------------------------------------------
\* Nothing else is ready: the loop over the subscribers starts, with the
\* revents of this call of poll().
StartRound ==
  /\ pc = "poll" /\ ~stdin /\ backlog = <<>> /\ udp = <<>>
  /\ ready' = {f \in Range(sv_fds) : Readable(f)}
  /\ ready' # {}
  /\ pc' = "clients" /\ idx' = 1
  /\ UNCHANGED <<sockVars, why, subs, sv_fds, stdin, cur, pending, dgram, aliased, admitted>>

\* The loop stops next at index k.
IsNextReady(k) ==
  /\ k \in DOMAIN sv_fds /\ idx <= k
  /\ sv_fds[k] \in ready
  /\ \A j \in idx .. k - 1 : sv_fds[j] \notin ready

\* get_subscriber_by_fd(f) returns &subs[i].
IsSubscriberByFd(i, f) ==
  /\ i \in DOMAIN subs /\ subs[i].fd = f
  /\ \A j \in DOMAIN subs : j < i => subs[j].fd # f

\* The assertions of handle_subscribe, handle_unsubscribe and
\* handle_shutdown_sub that packet m trips when it is read from descriptor f.
FailedAsserts(f, m) ==
  IF \A i \in DOMAIN subs : subs[i].fd # f THEN {"get_sub"}
  ELSE {c \in {"not_subbed"} :
          /\ m.action = "UNSUBSCRIBE_ACTION"
          /\ \E i \in DOMAIN subs : IsSubscriberByFd(i, f) /\ subs[i].topics[m.topic] = 0}

\* The loop has reached index k and a whole packet can be read there.
PacketReadyAt(k) ==
  /\ pc = "clients" /\ IsNextReady(k)
  /\ toServer[conn[sv_fds[k]]] # <<>>
PacketAt(k) == Head(toServer[conn[sv_fds[k]]])

HandleSubscribe(i, m) ==
  /\ m.action = "SUBSCRIBE_ACTION"
  /\ subs' = [subs EXCEPT ![i].topics[m.topic] = @ + 1]
  /\ UNCHANGED <<sv_fds, conn>>

\* Variant: the result of find() is not checked.
HandleUnsubscribe_Unchecked(i, m) ==
  /\ m.action = "UNSUBSCRIBE_ACTION"
  /\ subs' = [subs EXCEPT ![i].topics[m.topic] = @ - 1]
  /\ UNCHANGED <<sv_fds, conn>>

\* One occurrence of the topic is erased.
HandleUnsubscribe(i, m) ==
  /\ m.action = "UNSUBSCRIBE_ACTION"
  /\ subs[i].topics[m.topic] > 0
  /\ subs' = [subs EXCEPT ![i].topics[m.topic] = @ - 1]
  /\ UNCHANGED <<sv_fds, conn>>

\* Variant: the socket is neither closed nor taken out of the array.
HandleShutdownSub_OnlyMarks(i, m, k) ==
  /\ m.action = "SHUTDOWN_CLOSE"
  /\ subs' = [subs EXCEPT ![i].online = FALSE]
  /\ UNCHANGED <<conn, sv_fds>>

\* Variant: the record stays online.
HandleShutdownSub_StaysOnline(i, m, k) ==
  /\ m.action = "SHUTDOWN_CLOSE"
  /\ conn' = [conn EXCEPT ![subs[i].fd] = None]
  /\ sv_fds' = RemoveAt(sv_fds, k)
  /\ UNCHANGED subs

\* Variant: the later entries are not shifted down but lost.
HandleShutdownSub_NoShift(i, m, k) ==
  /\ m.action = "SHUTDOWN_CLOSE"
  /\ conn' = [conn EXCEPT ![subs[i].fd] = None]
  /\ subs' = [subs EXCEPT ![i].online = FALSE]
  /\ sv_fds' = SubSeq(sv_fds, 1, k - 1)

\* The entry leaves the array by shifting the later ones down, so the loop,
\* which then increments i, passes over the entry that took its place.  As no
\* descriptor is polled twice, get_poll_struc_by_fd finds index k again.
HandleShutdownSub(i, m, k) ==
  /\ m.action = "SHUTDOWN_CLOSE"
  /\ conn' = [conn EXCEPT ![subs[i].fd] = None]
  /\ subs' = [subs EXCEPT ![i].online = FALSE]
  /\ sv_fds' = RemoveAt(sv_fds, k)

\* parse_tcp_client_message for the next descriptor with POLLIN, on the record
\* that get_subscriber_by_fd finds.
ParseClientMessage ==
  /\ \E k \in DOMAIN sv_fds :
       /\ PacketReadyAt(k)
       /\ \E i \in DOMAIN subs :
            /\ IsSubscriberByFd(i, sv_fds[k])
            /\ \/ HandleSubscribe(i, PacketAt(k))
               \/ HandleUnsubscribe(i, PacketAt(k))
               \/ HandleShutdownSub(i, PacketAt(k), k)
       /\ TakeFrom(conn[sv_fds[k]])
       /\ idx' = k + 1
  /\ UNCHANGED <<backlog, listening, toClient, peer, rst, udp, arrived, lost, missed, pc,
                 why, stdin, ready, cur, pending, dgram, aliased, admitted>>

\* An assertion of the handler fails: DIE ends the whole server.
ClientMessageDies ==
  /\ \E k \in DOMAIN sv_fds :
       /\ PacketReadyAt(k)
       /\ \E c \in FailedAsserts(sv_fds[k], PacketAt(k)) : Halt(c)
       /\ TakeFrom(conn[sv_fds[k]])
  /\ UNCHANGED <<toClient, peer, rst, udp, arrived, lost, missed, subs, sv_fds, stdin,
                 aliased, admitted>>

\* POLLIN was end of file: the subscriber is gone and never said so.
ClientEof ==
  /\ pc = "clients"
  /\ \E k \in DOMAIN sv_fds :
       IsNextReady(k) /\ toServer[conn[sv_fds[k]]] = <<>>
  /\ Spin("eof")
  /\ UNCHANGED <<toServer, toClient, peer, rst, udp, arrived, lost, missed, subs, sv_fds,
                 stdin, aliased, admitted>>

EndRound ==
  /\ pc = "clients"
  /\ \A k \in DOMAIN sv_fds : ~IsNextReady(k)
  /\ pc' = "poll" /\ ForgetLocals
  /\ UNCHANGED <<sockVars, why, subs, sv_fds, stdin, aliased, admitted>>

-----------------------------------------------------------------------------
\* Variant: the socket is closed without a word.
StopClient_Silently ==
  /\ pc = "stop" /\ idx <= Len(sv_fds)
  /\ conn' = [conn EXCEPT ![sv_fds[idx]] = None]
  /\ idx' = idx + 1
  /\ UNCHANGED <<backlog, listening, toServer, toClient, peer, rst, udp, arrived, lost,
                 missed, pc, why, subs, sv_fds, stdin, ready, cur, pending, dgram, aliased,
                 admitted>>

\* One turn of the loop of shutdown_server: signal the subscriber, close.
StopClient ==
  /\ pc = "stop" /\ idx <= Len(sv_fds)
  /\ DeliverTo(conn[sv_fds[idx]], [action |-> "SHUTDOWN_CLOSE"])
  /\ conn' = [conn EXCEPT ![sv_fds[idx]] = None]
  /\ idx' = idx + 1
  /\ UNCHANGED <<backlog, listening, toServer, peer, udp, arrived, lost, missed, pc, why,
                 subs, sv_fds, stdin, ready, cur, pending, dgram, aliased, admitted>>

StopSigpipe ==
  /\ pc = "stop" /\ idx <= Len(sv_fds)
  /\ rst[conn[sv_fds[idx]]]
  /\ Halt("sigpipe")
  /\ UNCHANGED <<toServer, toClient, peer, rst, udp, arrived, lost, missed, subs, sv_fds,
                 stdin, aliased, admitted>>

StopServer ==
  /\ pc = "stop" /\ idx > Len(sv_fds)
  /\ Halt("exit")
  /\ UNCHANGED <<toServer, toClient, peer, rst, udp, arrived, lost, missed, subs, sv_fds,
                 stdin, aliased, admitted>>

ServerStep ==
  \/ ReadStdin \/ Accept \/ AcceptFails
  \/ Reconnect \/ AddNewSub \/ RefuseIntruder \/ ConnectEof
  \/ ReceiveDatagram \/ SendNotification \/ NotificationSigpipe \/ NotificationBadFd
  \/ StartRound \/ ParseClientMessage \/ ClientMessageDies \/ ClientEof \/ EndRound
  \/ StopClient \/ StopSigpipe \/ StopServer
=============================================================================
