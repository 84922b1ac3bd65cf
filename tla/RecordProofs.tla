---------------------------- MODULE RecordProofs ----------------------------
(***************************************************************************)
(* More proofs about the broker, on top of BrokerProofs: the descriptor of *)
(* an admitted run is polled until it is closed, a record is online        *)
(* exactly while its session is polled, and nobody is shown what he did    *)
(* not ask for.  The invariants are inductive together with IInv.          *)
(***************************************************************************)
EXTENDS BrokerProofs

\* A packet of the loop over the subscribers: whose it is, and what becomes of
\* records, connections and the array.  Only SHUTDOWN_CLOSE ends a session.
MessageHandled(k, i) ==
  /\ k \in DOMAIN sv_fds /\ i \in DOMAIN subs
  /\ PacketReadyAt(k) /\ IsSubscriberByFd(i, sv_fds[k])
  /\ TakeFrom(conn[sv_fds[k]]) /\ idx' = k + 1
  /\ DOMAIN subs' = DOMAIN subs
  /\ \A j \in DOMAIN subs : subs'[j].id = subs[j].id /\ subs'[j].fd = subs[j].fd
  /\ \A j \in DOMAIN subs : j # i => subs'[j] = subs[j]

SessionGoesOn(k, i) ==
  /\ PacketAt(k).action # "SHUTDOWN_CLOSE"
  /\ subs'[i].online = subs[i].online
  /\ UNCHANGED <<sv_fds, conn>>

SessionEnds(k, i) ==
  /\ PacketAt(k).action = "SHUTDOWN_CLOSE"
  /\ ~subs'[i].online /\ subs'[i].topics = subs[i].topics
  /\ conn' = [conn EXCEPT ![sv_fds[k]] = None]
  /\ \A j \in DOMAIN sv_fds : j # k => \E n \in DOMAIN sv_fds' : sv_fds'[n] = sv_fds[j]
  /\ \A n \in DOMAIN sv_fds' :
       \E j \in DOMAIN sv_fds : j # k /\ n <= j /\ sv_fds'[n] = sv_fds[j]

\* The entries that RemoveAt leaves are those at the other indices, and none
\* of them moves up.
LEMMA RemovedEntries ==
  ASSUME NEW S, NEW s \in Seq(S), NEW k \in DOMAIN s
  PROVE  /\ \A j \in DOMAIN s : j # k => \E n \in DOMAIN RemoveAt(s, k) : RemoveAt(s, k)[n] = s[j]
         /\ \A n \in DOMAIN RemoveAt(s, k) :
              \E j \in DOMAIN s : j # k /\ n <= j /\ RemoveAt(s, k)[n] = s[j]
<1> DEFINE r == RemoveAt(s, k)
<1>1. /\ r \in Seq(S) /\ Len(r) = Len(s) - 1
      /\ \A j \in DOMAIN r : r[j] = IF j < k THEN s[j] ELSE s[j + 1]
  BY RemoveAtFacts
<1> HIDE DEF r
<1>2. DOMAIN s = 1 .. Len(s) /\ Len(s) \in Nat /\ DOMAIN r = 1 .. Len(r)
  BY <1>1, LenProperties
<1>3. k \in 1 .. Len(s) /\ DOMAIN r = 1 .. Len(s) - 1
  BY <1>1, <1>2
<1>4. ASSUME NEW j \in DOMAIN s, j # k PROVE \E n \in DOMAIN r : r[n] = s[j]
  <2>1. CASE j < k
    <3>1. j \in DOMAIN r
      BY <1>2, <1>3, <2>1
    <3> QED  BY <1>1, <2>1, <3>1
  <2>2. CASE j > k
    <3>1. j - 1 \in DOMAIN r /\ ~(j - 1 < k) /\ (j - 1) + 1 = j
      BY <1>2, <1>3, <2>2
    <3> QED  BY <1>1, <3>1
  <2> QED  BY <1>2, <1>3, <1>4, <2>1, <2>2
<1>5. ASSUME NEW n \in DOMAIN r PROVE \E j \in DOMAIN s : j # k /\ n <= j /\ r[n] = s[j]
  <2>1. CASE n < k
    <3>1. n \in DOMAIN s /\ n # k /\ n <= n
      BY <1>2, <1>3, <2>1
    <3> QED  BY <1>1, <2>1, <3>1
  <2>2. CASE ~(n < k)
    <3>1. n + 1 \in DOMAIN s /\ n + 1 # k /\ n <= n + 1
      BY <1>2, <1>3, <2>2
    <3> QED  BY <1>1, <2>2, <3>1
  <2> QED  BY <2>1, <2>2
<1> QED  BY <1>4, <1>5 DEF r

\* The handlers, in these terms.
LEMMA MessageFacts ==
  ASSUME IInv, ParseClientMessage
  PROVE  \E k, i : MessageHandled(k, i) /\ (SessionGoesOn(k, i) \/ SessionEnds(k, i))
<1>1. PICK k \in DOMAIN sv_fds :
        /\ PacketReadyAt(k)
        /\ \E i \in DOMAIN subs :
             /\ IsSubscriberByFd(i, sv_fds[k])
             /\ \/ HandleSubscribe(i, PacketAt(k))
                \/ HandleUnsubscribe(i, PacketAt(k))
                \/ HandleShutdownSub(i, PacketAt(k), k)
        /\ TakeFrom(conn[sv_fds[k]])
        /\ idx' = k + 1
  BY DEF ParseClientMessage
<1>2. PICK i \in DOMAIN subs :
        /\ IsSubscriberByFd(i, sv_fds[k])
        /\ \/ HandleSubscribe(i, PacketAt(k))
           \/ HandleUnsubscribe(i, PacketAt(k))
           \/ HandleShutdownSub(i, PacketAt(k), k)
  BY <1>1
<1>3. subs \in Seq(Subscribers) /\ sv_fds \in Seq(Fds) /\ subs[i] \in Subscribers
  BY LenProperties, ElementOfSeq DEF IInv, TypeOK, ServerTypeOK
<1>4. CASE HandleSubscribe(i, PacketAt(k)) \/ HandleUnsubscribe(i, PacketAt(k))
  <2>1. PICK x : subs' = [subs EXCEPT ![i].topics[PacketAt(k).topic] = x]
    BY <1>4 DEF HandleSubscribe, HandleUnsubscribe
  <2>2. subs' = [subs EXCEPT ![i] = [subs[i] EXCEPT !.topics[PacketAt(k).topic] = x]]
    BY <2>1
  <2> DEFINE r == [subs[i] EXCEPT !.topics[PacketAt(k).topic] = x]
  <2>3. r.id = subs[i].id /\ r.fd = subs[i].fd /\ r.online = subs[i].online
    BY <1>3 DEF Subscribers
  <2> HIDE DEF r
  <2>4. DOMAIN subs' = DOMAIN subs /\ \A j \in DOMAIN subs : subs'[j] = IF j = i THEN r ELSE subs[j]
    BY <1>3, <2>2 DEF r
  <2>5. UNCHANGED <<sv_fds, conn>> /\ PacketAt(k).action # "SHUTDOWN_CLOSE"
    BY <1>4 DEF HandleSubscribe, HandleUnsubscribe
  <2>6. MessageHandled(k, i) /\ SessionGoesOn(k, i)
    BY <1>1, <1>2, <2>3, <2>4, <2>5 DEF MessageHandled, SessionGoesOn
  <2> QED  BY <2>6
<1>5. CASE HandleShutdownSub(i, PacketAt(k), k)
  <2> DEFINE r == [subs[i] EXCEPT !.online = FALSE]
  <2>1. r.id = subs[i].id /\ r.fd = subs[i].fd /\ r.topics = subs[i].topics /\ r.online = FALSE
    BY <1>3 DEF Subscribers
  <2>2. /\ PacketAt(k).action = "SHUTDOWN_CLOSE" /\ subs' = [subs EXCEPT ![i] = r]
        /\ conn' = [conn EXCEPT ![sv_fds[k]] = None] /\ sv_fds' = RemoveAt(sv_fds, k)
    BY <1>2, <1>5 DEF HandleShutdownSub, IsSubscriberByFd
  <2> HIDE DEF r
  <2>3. DOMAIN subs' = DOMAIN subs /\ \A j \in DOMAIN subs : subs'[j] = IF j = i THEN r ELSE subs[j]
    BY <1>3, <2>2
  <2>4. MessageHandled(k, i)
    BY <1>1, <1>2, <2>1, <2>3 DEF MessageHandled
  <2>5. SessionEnds(k, i)
    BY <1>3, <2>1, <2>2, <2>3, RemovedEntries DEF SessionEnds
  <2> QED  BY <2>4, <2>5
<1> QED  BY <1>2, <1>4, <1>5
-----------------------------------------------------------------------------
(***************************************************************************)
(* Admitted runs.  AdmittedPolled alone would not survive an accept: an    *)
(* admitted run could be waiting in the accept queue a second time.        *)
(***************************************************************************)

\* A run that was admitted has been through the accept queue, and only once.
AdmittedOnce ==
  \A p \in admitted : ~AwaitsConnect(p) /\ cl[p] # "off"

\* The descriptor of an admitted run is polled as long as it is open.
AdmittedPolled ==
  Serving => \A f \in Fds : conn[f] \in admitted => \E k \in DOMAIN sv_fds : sv_fds[k] = f

AdmissionInv == AdmittedOnce /\ AdmittedPolled

USE DEF sockVars, srvVars, cliVars

\* Steps that admit nobody and close nothing, or end the service.
LEMMA AdmissionKept ==
  ASSUME IInv, AdmissionInv, UNCHANGED admitted,
         \A p \in Clients : AwaitsConnect(p)' => AwaitsConnect(p),
         \A p \in Clients : cl'[p] = "off" => cl[p] = "off",
         Serving' => Serving /\ UNCHANGED <<conn, sv_fds>>
  PROVE  AdmissionInv'
<1>1. admitted \subseteq Clients
  BY DEF IInv, TypeOK, ServerTypeOK
<1>2. AdmittedOnce'
  BY <1>1 DEF AdmissionInv, AdmittedOnce
<1>3. AdmittedPolled'
  BY DEF AdmissionInv, AdmittedPolled
<1> QED
  BY <1>2, <1>3 DEF AdmissionInv

\* connect(): the run was not there before.
LEMMA ConnectAdmission ==
  ASSUME IInv, AdmissionInv, UNCHANGED srvVars, NEW p \in Clients, Connect(p)
  PROVE  AdmissionInv'
<1>1. backlog \in Seq(Clients) /\ cl \in [Clients -> ClientPhases] /\ admitted \subseteq Clients
  BY DEF IInv, TypeOK, SocketsTypeOK, SubscriberTypeOK, ServerTypeOK
<1>2. /\ DOMAIN backlog' = 1 .. Len(backlog) + 1 /\ DOMAIN backlog = 1 .. Len(backlog)
      /\ \A k \in DOMAIN backlog : backlog'[k] = backlog[k]
      /\ backlog'[Len(backlog) + 1] = p /\ Len(backlog) \in Nat
  BY <1>1, AppendFacts, LenProperties DEF Connect
<1>3. \A k \in DOMAIN backlog' : backlog'[k] = p \/ k \in DOMAIN backlog
  BY <1>2
<1>4. \A q \in Clients : AwaitsConnect(q)' => AwaitsConnect(q) \/ q = p
  BY <1>2, <1>3 DEF AwaitsConnect, Connect
<1>5. p \notin admitted
  BY DEF AdmissionInv, AdmittedOnce, Connect
<1>6. \A q \in Clients : cl'[q] = "off" => cl[q] = "off"
  BY <1>1 DEF Connect
<1>7. AdmittedOnce'
  BY <1>1, <1>4, <1>5, <1>6 DEF AdmissionInv, AdmittedOnce
<1>8. AdmittedPolled'
  BY DEF AdmissionInv, AdmittedPolled, Connect, Serving, Alive
<1> QED
  BY <1>7, <1>8 DEF AdmissionInv

\* accept(): the connection that leaves the queue is nobody's who is admitted.
LEMMA AcceptAdmission ==
  ASSUME IInv, AdmissionInv, UNCHANGED cliVars, Accept
  PROVE  AdmissionInv'
<1>1. PICK f \in Fds : conn' = [conn EXCEPT ![f] = Head(backlog)] /\ cur' = f
  BY DEF Accept
<1>2. /\ backlog # <<>> /\ backlog' = Tail(backlog) /\ pc = "poll"
      /\ UNCHANGED <<admitted, sv_fds>>
  BY DEF Accept
<1>3. backlog \in Seq(Clients) /\ conn \in [Fds -> Clients \cup {None}] /\ admitted \subseteq Clients
  BY DEF IInv, TypeOK, SocketsTypeOK, ServerTypeOK
<1>4. /\ 1 \in DOMAIN backlog /\ Head(backlog) = backlog[1]
      /\ \A k \in DOMAIN backlog' : k + 1 \in DOMAIN backlog /\ backlog'[k] = backlog[k + 1]
  BY <1>2, <1>3, TailFacts
<1>5. \A g \in Fds : conn'[g] = IF g = f THEN Head(backlog) ELSE conn[g]
  BY <1>1, <1>3
<1>6. AwaitsConnect(Head(backlog))
  BY <1>4 DEF AwaitsConnect
<1>7. \A q \in Clients : AwaitsConnect(q)' => AwaitsConnect(q)
  BY <1>1, <1>4, <1>5, <1>6 DEF AwaitsConnect
<1>8. AdmittedOnce'
  BY <1>2, <1>3, <1>7 DEF AdmissionInv, AdmittedOnce
<1>9. Serving /\ Head(backlog) \notin admitted
  BY <1>2, <1>6 DEF Serving, Alive, AdmissionInv, AdmittedOnce
<1>10. AdmittedPolled'
  BY <1>2, <1>5, <1>9 DEF AdmissionInv, AdmittedPolled
<1> QED
  BY <1>8, <1>10 DEF AdmissionInv

\* add_new_pollfd_struc(): the run that is admitted is polled.
LEMMA PollNewAdmission ==
  ASSUME IInv, AdmissionInv, UNCHANGED cliVars, ConnectArrives, NEW i, PollNewConnection(i)
  PROVE  AdmissionInv'
<1>1. /\ cur \in Fds /\ conn[cur] \in Clients
      /\ toServer[conn[cur]] # <<>>
      /\ \A k \in DOMAIN backlog : backlog[k] # conn[cur]
  BY ConnectFacts
<1>2. /\ sv_fds' = Append(sv_fds, cur) /\ admitted' = admitted \cup {conn[cur]}
      /\ pc' = "poll" /\ UNCHANGED <<conn, backlog>>
  BY DEF PollNewConnection
<1>3. sv_fds \in Seq(Fds) /\ admitted \subseteq Clients /\ ConnectionsDistinct
      /\ NothingBeforeConnect
  BY DEF IInv, TypeOK, ServerTypeOK
<1>4. cl[conn[cur]] # "off"
  BY <1>1, <1>3 DEF NothingBeforeConnect
<1>5. AdmittedOnce'
  BY <1>1, <1>2, <1>3, <1>4 DEF AdmissionInv, AdmittedOnce, AwaitsConnect
<1>6. /\ \A k \in DOMAIN sv_fds : k \in DOMAIN sv_fds' /\ sv_fds'[k] = sv_fds[k]
      /\ \E k \in DOMAIN sv_fds' : sv_fds'[k] = cur
  <2>1. /\ DOMAIN sv_fds' = 1 .. Len(sv_fds) + 1 /\ DOMAIN sv_fds = 1 .. Len(sv_fds)
        /\ \A k \in DOMAIN sv_fds : sv_fds'[k] = sv_fds[k]
        /\ sv_fds'[Len(sv_fds) + 1] = cur /\ Len(sv_fds) \in Nat
    BY <1>1, <1>2, <1>3, AppendFacts, LenProperties
  <2> QED
    BY <2>1
<1>7. Serving
  BY DEF Serving, Alive, ConnectArrives
<1>8. \A f \in Fds : conn[f] = conn[cur] => f = cur
  BY <1>1, <1>3, SocketsAssumption DEF ConnectionsDistinct
<1>9. AdmittedPolled'
  BY <1>2, <1>6, <1>7, <1>8 DEF AdmissionInv, AdmittedPolled
<1> QED
  BY <1>5, <1>9 DEF AdmissionInv

\* A packet of the subscribers' loop: what leaves the array was closed, what
\* moves down in it is still there.
LEMMA MessageAdmission ==
  ASSUME IInv, AdmissionInv, UNCHANGED cliVars, ParseClientMessage
  PROVE  AdmissionInv'
<1>1. UNCHANGED <<backlog, pc, cur, admitted>>
  BY DEF ParseClientMessage
<1>2. PICK k, i : MessageHandled(k, i) /\ (SessionGoesOn(k, i) \/ SessionEnds(k, i))
  BY MessageFacts
<1>3. pc = "clients" /\ k \in DOMAIN sv_fds
  BY <1>2 DEF MessageHandled, PacketReadyAt
<1>4. Serving /\ pc # "connect"
  BY <1>3 DEF Serving, Alive
<1>5. admitted \subseteq Clients /\ conn \in [Fds -> Clients \cup {None}]
  BY DEF IInv, TypeOK, SocketsTypeOK, ServerTypeOK
<1>6. AdmittedOnce'
  BY <1>1, <1>4, <1>5 DEF AdmissionInv, AdmittedOnce, AwaitsConnect
<1>7. CASE SessionGoesOn(k, i)
  BY <1>1, <1>4, <1>6, <1>7 DEF AdmissionInv, AdmittedPolled, SessionGoesOn
<1>8. CASE SessionEnds(k, i)
  <2> SUFFICES ASSUME NEW f \in Fds, conn'[f] \in admitted
               PROVE  \E n \in DOMAIN sv_fds' : sv_fds'[n] = f
    BY <1>1, <1>6 DEF AdmissionInv, AdmittedPolled
  <2>1. conn' = [conn EXCEPT ![sv_fds[k]] = None]
    BY <1>8 DEF SessionEnds
  <2>2. f # sv_fds[k] /\ conn[f] \in admitted
    BY <1>5, <2>1, SocketsAssumption
  <2>3. PICK j \in DOMAIN sv_fds : sv_fds[j] = f
    BY <1>4, <2>2 DEF AdmissionInv, AdmittedPolled
  <2>4. j # k
    BY <2>2, <2>3
  <2> QED
    BY <1>8, <2>3, <2>4 DEF SessionEnds
<1> QED
  BY <1>2, <1>7, <1>8

\* The other steps of the server.
LEMMA ServerAdmission ==
  ASSUME IInv, AdmissionInv, UNCHANGED cliVars, ServerStep
  PROVE  AdmissionInv'
<1>1. CASE Accept
  BY <1>1, AcceptAdmission
<1>2. CASE Reconnect
  BY <1>2, PollNewAdmission DEF Reconnect
<1>3. CASE AddNewSub
  BY <1>3, PollNewAdmission DEF AddNewSub
<1>4. CASE ParseClientMessage
  BY <1>4, MessageAdmission
<1>5. CASE \/ ReadStdin \/ ReceiveDatagram \/ SendNotification \/ StartRound \/ EndRound
           \/ RefuseIntruder
  <2>1. /\ UNCHANGED <<admitted, backlog, conn, sv_fds, cl>> /\ pc' # "connect"
        /\ pc \in {"poll", "connect", "notify", "clients"}
    BY <1>5 DEF ReadStdin, ReceiveDatagram, SendNotification, StartRound, EndRound,
                RefuseIntruder, ConnectArrives
  <2>2. Serving
    BY <2>1 DEF Serving, Alive
  <2>3. \A p \in Clients : AwaitsConnect(p)' => AwaitsConnect(p)
    BY <2>1 DEF AwaitsConnect
  <2> QED
    BY <2>1, <2>2, <2>3, AdmissionKept
<1>6. CASE AcceptFails \/ NotificationSigpipe \/ ClientMessageDies \/ StopSigpipe \/ StopServer
  <2>1. UNCHANGED <<admitted, cl>> /\ backlog' = <<>> /\ pc' = "dead"
    BY <1>6 DEF AcceptFails, NotificationSigpipe, ClientMessageDies, StopSigpipe, StopServer,
                Halt, CloseServerEnds
  <2>2. ~Serving'
    BY <2>1 DEF Serving, Alive
  <2>3. \A p \in Clients : ~AwaitsConnect(p)'
    BY <2>1, EmptyFacts DEF AwaitsConnect
  <2> QED
    BY <2>1, <2>2, <2>3, AdmissionKept
<1>7. CASE ConnectEof \/ NotificationBadFd \/ ClientEof
  <2>1. UNCHANGED <<admitted, cl, backlog, conn>> /\ pc' = "spin"
    BY <1>7 DEF ConnectEof, NotificationBadFd, ClientEof, Spin
  <2>2. ~Serving' /\ \A p \in Clients : AwaitsConnect(p)' => AwaitsConnect(p)
    BY <2>1 DEF Serving, Alive, AwaitsConnect
  <2> QED
    BY <2>1, <2>2, AdmissionKept
<1>8. CASE StopClient
  <2>1. UNCHANGED <<admitted, cl, backlog>> /\ pc = "stop" /\ pc' = "stop"
    BY <1>8 DEF StopClient
  <2>2. ~Serving' /\ \A p \in Clients : AwaitsConnect(p)' => AwaitsConnect(p)
    BY <2>1 DEF Serving, Alive, AwaitsConnect
  <2> QED
    BY <2>1, <2>2, AdmissionKept
<1> QED
  BY <1>1, <1>2, <1>3, <1>4, <1>5, <1>6, <1>7, <1>8 DEF ServerStep

\* Nobody but the server admits, closes or accepts.
LEMMA ClientAdmission ==
  ASSUME IInv, AdmissionInv, UNCHANGED srvVars, NEW p \in Clients, ClientStep(p) \/ UserStep(p)
  PROVE  AdmissionInv'
<1>1. CASE Connect(p)
  BY <1>1, ConnectAdmission
<1>2. CASE ~Connect(p)
  <2>1. /\ UNCHANGED <<conn, backlog>>
        /\ cl' = cl \/ \E c \in ClientPhases \ {"off"} : cl' = [cl EXCEPT ![p] = c]
    BY <1>2 DEF ClientStep, UserStep, ClientPhases, ConnectRefused, SendConnect, Subscribe, Unsubscribe, Exit,
                CloseAfterExit, ClientSigpipe, Kill, ReceiveNotification, ReceiveShutdown, ReceiveEof
  <2>2. cl \in [Clients -> ClientPhases]
    BY DEF IInv, TypeOK, SubscriberTypeOK
  <2>3. \A q \in Clients : cl'[q] = "off" => cl[q] = "off"
    BY <2>1, <2>2
  <2>4. \A q \in Clients : AwaitsConnect(q)' => AwaitsConnect(q)
    BY <2>1 DEF AwaitsConnect
  <2>5. Serving' => Serving
    BY DEF Serving, Alive
  <2> QED
    BY <2>1, <2>3, <2>4, <2>5, AdmissionKept
<1> QED
  BY <1>1, <1>2

\* The network loses packets behind a reset.
Resets ==
  \E p \in Clients : (LoseToServer(p) \/ LoseToClient(p)) /\ UNCHANGED <<srvVars, cliVars>>

\* Every step of the system.
LEMMA NextAdmission == IInv /\ AdmissionInv /\ [Next]_vars => AdmissionInv'
<1> SUFFICES ASSUME IInv, AdmissionInv, [Next]_vars PROVE AdmissionInv'
  OBVIOUS
<1>1. CASE ServerStep /\ UNCHANGED cliVars
  BY <1>1, ServerAdmission
<1>2. CASE \E p \in Clients : (ClientStep(p) \/ UserStep(p)) /\ UNCHANGED srvVars
  BY <1>2, ClientAdmission
<1>3. CASE \/ \E t \in Topics : Publish(t)
           \/ OperatorExit \/ Resets \/ UNCHANGED vars
  <2>1. UNCHANGED <<admitted, conn, backlog, sv_fds, pc, cur, cl>>
    BY <1>3 DEF Publish, OperatorExit, Resets, LoseToServer, LoseToClient, vars
  <2>2. \A p \in Clients : AwaitsConnect(p)' => AwaitsConnect(p)
    BY <2>1 DEF AwaitsConnect
  <2>3. Serving' => Serving
    BY <2>1 DEF Serving, Alive
  <2> QED
    BY <2>1, <2>2, <2>3, AdmissionKept
<1> QED
  BY <1>1, <1>2, <1>3 DEF Next, Resets

\* In every behaviour.
LEMMA AdmissionInvariance == Spec => []AdmissionInv
<1>1. Init => AdmissionInv
  BY EmptyFacts, SocketsAssumption
  DEF Init, SocketsInit, ServerInit, AdmissionInv, AdmittedOnce, AdmittedPolled
<1> QED
  BY <1>1, NextAdmission, Invariance, PTL DEF Spec

\* What is open and not polled besides the connection being accepted was
\* refused, and its id is in a record: so a run with that id was admitted.
Unpolled(f) == \A k \in DOMAIN sv_fds : sv_fds[k] # f
KnownId(id) == \E p \in admitted : IdOf[p] = id

RefusedKnown ==
  Serving => \A f \in Fds : conn[f] # None /\ f # cur /\ Unpolled(f) => KnownId(IdOf[conn[f]])
RecordsKnown == \A i \in DOMAIN subs : KnownId(subs[i].id)
CurOnlyConnecting == pc # "connect" => cur = None

LeakInv == RefusedKnown /\ RecordsKnown /\ CurOnlyConnecting

\* Steps that accept, admit and close nothing, or end the service.
LEMMA LeakKept ==
  ASSUME LeakInv, UNCHANGED <<subs, admitted>>, pc' # "connect" => cur' = None,
         Serving' => Serving /\ UNCHANGED <<conn, sv_fds, cur>>
  PROVE  LeakInv'
<1>1. RecordsKnown'
  BY DEF LeakInv, RecordsKnown, KnownId
<1>2. CurOnlyConnecting'
  BY DEF CurOnlyConnecting
<1>3. RefusedKnown'
  BY DEF LeakInv, RefusedKnown, Unpolled, KnownId
<1> QED
  BY <1>1, <1>2, <1>3 DEF LeakInv

\* add_new_pollfd_struc(): the connection is polled, its id known from now on.
LEMMA PollNewLeak ==
  ASSUME IInv, LeakInv, ConnectArrives, NEW i, PollNewConnection(i),
         \A j \in DOMAIN subs' :
           (j \in DOMAIN subs /\ subs'[j].id = subs[j].id) \/ subs'[j].id = ConnectId
  PROVE  LeakInv'
<1>1. /\ cur \in Fds /\ conn[cur] \in Clients /\ ConnectId = IdOf[conn[cur]]
  BY ConnectFacts
<1>2. /\ sv_fds' = Append(sv_fds, cur) /\ admitted' = admitted \cup {conn[cur]}
      /\ pc' = "poll" /\ cur' = None /\ UNCHANGED conn
  BY DEF PollNewConnection, ForgetLocals
<1>3. \A id : KnownId(id) => KnownId(id)'
  BY <1>2 DEF KnownId
<1>5. RecordsKnown'
  <2> SUFFICES ASSUME NEW j \in DOMAIN subs'
               PROVE  \E p \in admitted' : IdOf[p] = subs'[j].id
    BY DEF RecordsKnown, KnownId
  <2>1. CASE j \in DOMAIN subs /\ subs'[j].id = subs[j].id
    BY <1>2, <2>1 DEF LeakInv, RecordsKnown, KnownId
  <2>2. CASE subs'[j].id = ConnectId
    BY <1>1, <1>2, <2>2
  <2> QED
    BY <2>1, <2>2
<1>6. CurOnlyConnecting'
  BY <1>2 DEF CurOnlyConnecting
<1>7. sv_fds \in Seq(Fds) /\ Serving
  BY DEF IInv, TypeOK, ServerTypeOK, Serving, Alive, ConnectArrives
<1>8. \A f \in Fds : Unpolled(f)' => Unpolled(f) /\ f # cur
  <2>1. /\ DOMAIN sv_fds' = 1 .. Len(sv_fds) + 1 /\ DOMAIN sv_fds = 1 .. Len(sv_fds)
        /\ \A k \in DOMAIN sv_fds : sv_fds'[k] = sv_fds[k]
        /\ sv_fds'[Len(sv_fds) + 1] = cur /\ Len(sv_fds) \in Nat
    BY <1>1, <1>2, <1>7, AppendFacts, LenProperties
  <2>2. Len(sv_fds) + 1 \in DOMAIN sv_fds' /\ \A k \in DOMAIN sv_fds : k \in DOMAIN sv_fds'
    BY <2>1
  <2> QED
    BY <2>1, <2>2 DEF Unpolled
<1>9. RefusedKnown'
  <2> SUFFICES ASSUME NEW f \in Fds, conn[f] # None, Unpolled(f)'
               PROVE  \E p \in admitted' : IdOf[p] = IdOf[conn[f]]
    BY <1>2 DEF RefusedKnown, KnownId
  <2> QED
    BY <1>2, <1>7, <1>8 DEF LeakInv, RefusedKnown, KnownId
<1> QED
  BY <1>5, <1>6, <1>9 DEF LeakInv

\* check_and_add_new_sub(), for an id seen before and for a new one.
LEMMA AdmitLeak ==
  ASSUME IInv, LeakInv, Reconnect \/ AddNewSub
  PROVE  LeakInv'
<1>1. subs \in Seq(Subscribers)
  BY DEF IInv, TypeOK, ServerTypeOK
<1>2. CASE Reconnect
  <2>1. PICK i \in DOMAIN subs :
          /\ subs' = [subs EXCEPT ![i].fd = cur, ![i].online = TRUE]
          /\ PollNewConnection(i)
    BY <1>2 DEF Reconnect
  <2>2. subs[i] \in Subscribers
    BY <1>1, LenProperties, ElementOfSeq
  <2> DEFINE r == [[subs[i] EXCEPT !.fd = cur] EXCEPT !.online = TRUE]
  <2>3. r.id = subs[i].id
    BY <2>2 DEF Subscribers
  <2>4. subs' = [subs EXCEPT ![i] = r]
    BY <2>1, <1>1
  <2> HIDE DEF r
  <2>5. DOMAIN subs' = DOMAIN subs /\ \A j \in DOMAIN subs : subs'[j].id = subs[j].id
    BY <1>1, <2>3, <2>4
  <2> QED
    BY <1>2, <2>1, <2>5, PollNewLeak DEF Reconnect
<1>3. CASE AddNewSub
  <2>1. cur \in Fds /\ ConnectId \in Ids
    BY <1>3, ConnectFacts DEF AddNewSub
  <2> DEFINE r == [id |-> ConnectId, fd |-> cur, topics |-> [t \in Patterns |-> 0],
                   online |-> TRUE]
  <2>2. r \in Subscribers /\ r.id = ConnectId
    BY <2>1 DEF Subscribers
  <2>3. subs' = Append(subs, r) /\ PollNewConnection(Len(subs) + 1) /\ ConnectArrives
    BY <1>3 DEF AddNewSub
  <2> HIDE DEF r
  <2>4. /\ DOMAIN subs' = 1 .. Len(subs) + 1 /\ DOMAIN subs = 1 .. Len(subs) /\ Len(subs) \in Nat
        /\ \A j \in DOMAIN subs : subs'[j] = subs[j]
        /\ subs'[Len(subs) + 1] = r
    BY <1>1, <2>2, <2>3, AppendFacts, LenProperties
  <2>5. \A j \in DOMAIN subs' :
          (j \in DOMAIN subs /\ subs'[j].id = subs[j].id) \/ subs'[j].id = ConnectId
    BY <2>2, <2>4
  <2> QED
    BY <2>3, <2>5, PollNewLeak
<1> QED
  BY <1>2, <1>3

\* An intruder is refused because a record has its id.
LEMMA RefuseLeak ==
  ASSUME IInv, LeakInv, RefuseIntruder
  PROVE  LeakInv'
<1>1. /\ ConnectArrives /\ pc' = "poll" /\ cur' = None
      /\ UNCHANGED <<conn, sv_fds, subs, admitted>>
      /\ \E i \in DOMAIN subs : subs[i].id = ConnectId
  BY DEF RefuseIntruder, ForgetLocals
<1>2. ConnectId = IdOf[conn[cur]] /\ Serving
  BY <1>1, ConnectFacts DEF ConnectArrives, Serving, Alive
<1>3. KnownId(IdOf[conn[cur]])
  BY <1>1, <1>2 DEF LeakInv, RecordsKnown
<1>4. RefusedKnown'
  BY <1>1, <1>2, <1>3 DEF LeakInv, RefusedKnown, Unpolled, KnownId
<1>5. RecordsKnown' /\ CurOnlyConnecting'
  BY <1>1 DEF LeakInv, RecordsKnown, KnownId, CurOnlyConnecting
<1> QED
  BY <1>4, <1>5 DEF LeakInv

\* accept(): the new connection is cur, and there was none before it.
LEMMA AcceptLeak ==
  ASSUME IInv, LeakInv, Accept
  PROVE  LeakInv'
<1>1. PICK f \in Fds : conn' = [conn EXCEPT ![f] = Head(backlog)] /\ cur' = f
  BY DEF Accept
<1>2. pc = "poll" /\ pc' = "connect" /\ UNCHANGED <<subs, sv_fds, admitted>>
  BY DEF Accept
<1>3. cur = None /\ Serving
  BY <1>2 DEF LeakInv, CurOnlyConnecting, Serving, Alive
<1>4. \A g \in Fds : g # f => conn'[g] = conn[g] /\ g # cur
  BY <1>1, <1>3, SocketsAssumption DEF IInv, TypeOK, SocketsTypeOK
<1>5. RefusedKnown'
  BY <1>1, <1>2, <1>3, <1>4 DEF LeakInv, RefusedKnown, Unpolled, KnownId
<1>6. RecordsKnown' /\ CurOnlyConnecting'
  BY <1>2 DEF LeakInv, RecordsKnown, KnownId, CurOnlyConnecting
<1> QED
  BY <1>5, <1>6 DEF LeakInv

\* A handler: the entry that leaves the array is closed, the others stay in it.
LEMMA MessageLeak ==
  ASSUME IInv, LeakInv, ParseClientMessage
  PROVE  LeakInv'
<1>1. UNCHANGED <<pc, cur, admitted>>
  BY DEF ParseClientMessage
<1>2. PICK k, i : MessageHandled(k, i) /\ (SessionGoesOn(k, i) \/ SessionEnds(k, i))
  BY MessageFacts
<1>3. /\ Serving /\ k \in DOMAIN sv_fds /\ DOMAIN subs' = DOMAIN subs
      /\ \A j \in DOMAIN subs : subs'[j].id = subs[j].id
  BY <1>2 DEF MessageHandled, PacketReadyAt, Serving, Alive
<1>4. RecordsKnown' /\ CurOnlyConnecting'
  BY <1>1, <1>3 DEF LeakInv, RecordsKnown, KnownId, CurOnlyConnecting
<1>5. CASE SessionGoesOn(k, i)
  BY <1>1, <1>3, <1>4, <1>5 DEF LeakInv, RefusedKnown, Unpolled, KnownId, SessionGoesOn
<1>6. CASE SessionEnds(k, i)
  <2> SUFFICES ASSUME NEW f \in Fds, conn'[f] # None, f # cur, Unpolled(f)'
               PROVE  \E p \in admitted : IdOf[p] = IdOf[conn'[f]]
    BY <1>1, <1>4 DEF LeakInv, RefusedKnown, KnownId
  <2>1. conn' = [conn EXCEPT ![sv_fds[k]] = None] /\ conn \in [Fds -> Clients \cup {None}]
    BY <1>6 DEF SessionEnds, IInv, TypeOK, SocketsTypeOK
  <2>2. f # sv_fds[k] /\ conn'[f] = conn[f]
    BY <2>1
  <2>3. Unpolled(f)
    <3> SUFFICES ASSUME NEW j \in DOMAIN sv_fds, sv_fds[j] = f PROVE FALSE
      BY DEF Unpolled
    <3>1. j # k
      BY <2>2
    <3>2. PICK n \in DOMAIN sv_fds' : sv_fds'[n] = sv_fds[j]
      BY <1>6, <3>1 DEF SessionEnds
    <3> QED
      BY <3>2 DEF Unpolled
  <2>4. KnownId(IdOf[conn[f]])
    BY <1>3, <2>2, <2>3 DEF LeakInv, RefusedKnown
  <2> QED
    BY <1>1, <2>2, <2>4 DEF KnownId
<1> QED
  BY <1>2, <1>5, <1>6

\* Every step.
LEMMA NextLeak == IInv /\ LeakInv /\ [Next]_vars => LeakInv'
<1> SUFFICES ASSUME IInv, LeakInv, [Next]_vars PROVE LeakInv'
  OBVIOUS
<1>1. CASE ServerStep
  <2>1. CASE Accept
    BY <2>1, AcceptLeak
  <2>2. CASE Reconnect \/ AddNewSub
    BY <2>2, AdmitLeak
  <2>3. CASE RefuseIntruder
    BY <2>3, RefuseLeak
  <2>4. CASE ParseClientMessage
    BY <2>4, MessageLeak
  <2>5. CASE ReadStdin \/ ReceiveDatagram \/ SendNotification \/ StartRound \/ EndRound
    <3>1. /\ UNCHANGED <<subs, admitted, conn, sv_fds>> /\ pc' # "connect"
          /\ pc \in {"poll", "notify", "clients"} /\ (cur' = cur \/ cur' = None)
      BY <2>5 DEF ReadStdin, ReceiveDatagram, SendNotification, StartRound, EndRound,
                  ForgetLocals
    <3>2. cur = None /\ Serving
      BY <3>1 DEF LeakInv, CurOnlyConnecting, Serving, Alive
    <3> QED
      BY <3>1, <3>2, LeakKept
  <2>6. CASE \/ AcceptFails \/ NotificationSigpipe \/ ClientMessageDies \/ StopSigpipe
             \/ StopServer \/ ConnectEof \/ NotificationBadFd \/ ClientEof
    <3>1. UNCHANGED <<subs, admitted>> /\ pc' \in {"dead", "spin"} /\ cur' = None
      BY <2>6 DEF AcceptFails, NotificationSigpipe, ClientMessageDies, StopSigpipe, StopServer,
                  ConnectEof, NotificationBadFd, ClientEof, Halt, Spin, ForgetLocals
    <3>2. ~Serving'
      BY <3>1 DEF Serving, Alive
    <3> QED
      BY <3>1, <3>2, LeakKept
  <2>7. CASE StopClient
    <3>1. UNCHANGED <<subs, admitted, cur>> /\ pc = "stop" /\ pc' = "stop"
      BY <2>7 DEF StopClient
    <3>2. ~Serving' /\ cur = None
      BY <3>1 DEF Serving, Alive, LeakInv, CurOnlyConnecting
    <3> QED
      BY <3>1, <3>2, LeakKept
  <2> QED
    BY <1>1, <2>1, <2>2, <2>3, <2>4, <2>5, <2>6, <2>7 DEF ServerStep
<1>2. CASE ~ServerStep
  <2>1. UNCHANGED <<subs, admitted, sv_fds, conn, pc, cur>>
    BY <1>2 DEF Next, Publish, OperatorExit, LoseToServer, LoseToClient, vars, ClientStep,
       UserStep, Connect, ConnectRefused, SendConnect, Subscribe, Unsubscribe, Exit,
       CloseAfterExit, ClientSigpipe, Kill, ReceiveNotification, ReceiveShutdown, ReceiveEof
  <2>2. pc' # "connect" => cur' = None
    BY <2>1 DEF LeakInv, CurOnlyConnecting
  <2>3. Serving' => Serving
    BY <2>1 DEF Serving, Alive
  <2> QED
    BY <2>1, <2>2, <2>3, LeakKept
<1> QED
  BY <1>1, <1>2

\* The descriptor of an admitted run is polled until it is closed; one that is
\* open and not polled, the connection being accepted aside, belongs to a run
\* that was refused because a run with its id was admitted (server.cpp:408).
THEOREM OnlyIntruders == Spec => []OnlyIntrudersLeak
<1>1. Init => LeakInv
  BY EmptyFacts
  DEF Init, SocketsInit, ServerInit, LeakInv, RefusedKnown, RecordsKnown, CurOnlyConnecting
<1>2. AdmissionInv /\ LeakInv => OnlyIntrudersLeak
  <2> SUFFICES ASSUME AdmissionInv, LeakInv, Serving, NEW f \in Fds, conn[f] # None, f # cur,
                      Unpolled(f)
               PROVE  conn[f] \notin admitted /\ KnownId(IdOf[conn[f]])
    BY DEF OnlyIntrudersLeak, Unpolled, KnownId
  <2>1. conn[f] \notin admitted
    BY DEF AdmissionInv, AdmittedPolled, Unpolled
  <2> QED
    BY <2>1 DEF LeakInv, RefusedKnown
<1> QED
  BY <1>1, <1>2, NextLeak, AdmissionInvariance, Invariance, PTL DEF Spec

-----------------------------------------------------------------------------
(***************************************************************************)
(* Records and sessions, until two records share a descriptor.             *)
(***************************************************************************)

\* aliased speaks of the past: without it no two records share a number now.
RecordFdsDistinct ==
  ~aliased => \A i, j \in DOMAIN subs : subs[i].fd = subs[j].fd => i = j

\* A polled descriptor of record i on which a run with its id is connected.
PolledAs(i, k) ==
  k \in DOMAIN sv_fds /\ sv_fds[k] = subs[i].fd /\ IdOf[conn[sv_fds[k]]] = subs[i].id

OnlineIsPolled ==
  ~aliased /\ Serving => \A i \in DOMAIN subs : subs[i].online => \E k : PolledAs(i, k)

\* send_packet_to_subscribers goes through copies of records that are online.
PendingAreOnline ==
  pc = "notify" => \A i \in pending : i \in DOMAIN subs /\ subs[i].online

RecordInv ==
  RecordFdsDistinct /\ OnlineIsPolled /\ PendingAreOnline /\ StuckSendMeansAliased

\* Together with PolledHasRecord: online exactly while polled.
LEMMA RecordInvMeans == IInv /\ RecordInv => OnlineMeansPolled
<1> SUFFICES ASSUME IInv, RecordInv, Serving, ~aliased, NEW i \in DOMAIN subs
             PROVE  subs[i].online <=> \E k \in DOMAIN sv_fds :
                      sv_fds[k] = subs[i].fd /\ IdOf[Session(k)] = subs[i].id
  BY DEF OnlineMeansPolled
<1>1. subs[i].online => \E k \in DOMAIN sv_fds :
                          sv_fds[k] = subs[i].fd /\ IdOf[Session(k)] = subs[i].id
  BY DEF RecordInv, OnlineIsPolled, PolledAs, Session
<1>2. ASSUME NEW k \in DOMAIN sv_fds, sv_fds[k] = subs[i].fd
      PROVE  subs[i].online
  <2>1. PICK j \in DOMAIN subs : subs[j].fd = sv_fds[k] /\ subs[j].online
    BY DEF IInv, ServerInv, PolledHasRecord
  <2>2. j = i
    BY <1>2, <2>1 DEF RecordInv, RecordFdsDistinct
  <2> QED
    BY <2>1, <2>2
<1>3. subs \in Seq(Subscribers) /\ subs[i] \in Subscribers
  BY LenProperties, ElementOfSeq DEF IInv, TypeOK, ServerTypeOK
<1>4. subs[i].online \in BOOLEAN
  BY <1>3 DEF Subscribers
<1> QED
  BY <1>1, <1>2, <1>4

\* Steps that touch no record, connection or entry.
LEMMA RecordKept ==
  ASSUME RecordInv, UNCHANGED <<subs, aliased>>,
         Serving' => Serving /\ UNCHANGED <<sv_fds, conn>>,
         pc' = "notify" => pc = "notify" /\ pending' \subseteq pending,
         why' = "badfd" => why = "badfd" \/ aliased
  PROVE  RecordInv'
<1>1. RecordFdsDistinct'
  BY DEF RecordInv, RecordFdsDistinct
<1>2. OnlineIsPolled'
  BY DEF RecordInv, OnlineIsPolled, PolledAs
<1>3. PendingAreOnline'
  BY DEF RecordInv, PendingAreOnline
<1>4. StuckSendMeansAliased'
  BY DEF RecordInv, StuckSendMeansAliased
<1> QED
  BY <1>1, <1>2, <1>3, <1>4 DEF RecordInv

\* The record of an admitted connection gets its descriptor.
LEMMA PollNewRecord ==
  ASSUME IInv, RecordInv, ConnectArrives, NEW i, PollNewConnection(i),
         i \in DOMAIN subs', subs'[i].fd = cur, subs'[i].id = ConnectId,
         \A j \in DOMAIN subs' : j # i => j \in DOMAIN subs /\ subs'[j] = subs[j]
  PROVE  RecordInv'
<1>1. /\ cur \in Fds /\ ConnectId = IdOf[conn[cur]]
  BY ConnectFacts
<1>2. /\ sv_fds' = Append(sv_fds, cur) /\ pc' = "poll" /\ UNCHANGED <<conn, why>>
      /\ aliased' = (aliased \/ \E j \in DOMAIN subs : j # i /\ subs[j].fd = cur)
  BY DEF PollNewConnection
<1>3. sv_fds \in Seq(Fds)
  BY DEF IInv, TypeOK, ServerTypeOK
<1>4. /\ \A k \in DOMAIN sv_fds : k \in DOMAIN sv_fds' /\ sv_fds'[k] = sv_fds[k]
      /\ \E k \in DOMAIN sv_fds' : sv_fds'[k] = cur
  <2>1. /\ DOMAIN sv_fds' = 1 .. Len(sv_fds) + 1 /\ DOMAIN sv_fds = 1 .. Len(sv_fds)
        /\ \A k \in DOMAIN sv_fds : sv_fds'[k] = sv_fds[k]
        /\ sv_fds'[Len(sv_fds) + 1] = cur /\ Len(sv_fds) \in Nat
    BY <1>1, <1>2, <1>3, AppendFacts, LenProperties
  <2> QED
    BY <2>1
<1>5. Serving
  BY DEF Serving, Alive, ConnectArrives
<1>6. RecordFdsDistinct'
  BY <1>2 DEF RecordInv, RecordFdsDistinct
<1>7. OnlineIsPolled'
  <2> SUFFICES ASSUME ~aliased', NEW j \in DOMAIN subs', subs'[j].online
               PROVE  \E k : PolledAs(j, k)'
    BY DEF OnlineIsPolled
  <2>1. CASE j = i
    BY <1>1, <1>2, <1>4, <2>1 DEF PolledAs
  <2>2. CASE j # i
    <3>1. j \in DOMAIN subs /\ subs'[j] = subs[j] /\ ~aliased /\ subs[j].online
      BY <1>2, <2>2
    <3>2. PICK k : PolledAs(j, k)
      BY <1>5, <3>1 DEF RecordInv, OnlineIsPolled
    <3>3. PolledAs(j, k)'
      BY <1>2, <1>4, <3>1, <3>2 DEF PolledAs
    <3> QED
      BY <3>3
  <2> QED
    BY <2>1, <2>2
<1>8. PendingAreOnline'
  BY <1>2 DEF PendingAreOnline
<1>9. StuckSendMeansAliased'
  BY <1>2 DEF RecordInv, StuckSendMeansAliased
<1> QED
  BY <1>6, <1>7, <1>8, <1>9 DEF RecordInv

\* check_and_add_new_sub, for an id seen before and for a new one.
LEMMA AdmitRecord ==
  ASSUME IInv, RecordInv, Reconnect \/ AddNewSub
  PROVE  RecordInv'
<1>1. subs \in Seq(Subscribers)
  BY DEF IInv, TypeOK, ServerTypeOK
<1>2. CASE Reconnect
  <2>1. PICK i \in DOMAIN subs :
          /\ subs[i].id = ConnectId
          /\ subs' = [subs EXCEPT ![i].fd = cur, ![i].online = TRUE]
          /\ PollNewConnection(i)
    BY <1>2 DEF Reconnect
  <2>2. subs[i] \in Subscribers
    BY <1>1, LenProperties, ElementOfSeq
  <2> DEFINE r == [[subs[i] EXCEPT !.fd = cur] EXCEPT !.online = TRUE]
  <2>3. r.fd = cur /\ r.id = ConnectId
    BY <2>1, <2>2 DEF Subscribers
  <2>4. subs' = [subs EXCEPT ![i] = r]
    BY <2>1, <1>1
  <2> HIDE DEF r
  <2>5. DOMAIN subs' = DOMAIN subs /\ \A j \in DOMAIN subs : subs'[j] = IF j = i THEN r ELSE subs[j]
    BY <1>1, <2>4
  <2> QED
    BY <1>2, <2>1, <2>3, <2>5, PollNewRecord DEF Reconnect
<1>3. CASE AddNewSub
  <2>1. cur \in Fds /\ ConnectId \in Ids
    BY <1>3, ConnectFacts DEF AddNewSub
  <2> DEFINE r == [id |-> ConnectId, fd |-> cur, topics |-> [t \in Patterns |-> 0],
                   online |-> TRUE]
  <2>2. r \in Subscribers /\ r.fd = cur /\ r.id = ConnectId
    BY <2>1 DEF Subscribers
  <2>3. subs' = Append(subs, r) /\ PollNewConnection(Len(subs) + 1) /\ ConnectArrives
    BY <1>3 DEF AddNewSub
  <2> HIDE DEF r
  <2>4. /\ DOMAIN subs' = 1 .. Len(subs) + 1 /\ DOMAIN subs = 1 .. Len(subs) /\ Len(subs) \in Nat
        /\ \A j \in DOMAIN subs : subs'[j] = subs[j]
        /\ subs'[Len(subs) + 1] = r
    BY <1>1, <2>2, <2>3, AppendFacts, LenProperties
  <2>5. /\ Len(subs) + 1 \in DOMAIN subs'
        /\ \A j \in DOMAIN subs' : j # Len(subs) + 1 => j \in DOMAIN subs /\ subs'[j] = subs[j]
    BY <2>4
  <2> QED
    BY <2>2, <2>3, <2>4, <2>5, PollNewRecord
<1> QED
  BY <1>2, <1>3

\* A handler: only SHUTDOWN_CLOSE takes an entry away, and the record it marks
\* offline is then that entry's own.
LEMMA MessageRecord ==
  ASSUME IInv, RecordInv, ParseClientMessage
  PROVE  RecordInv'
<1>1. UNCHANGED <<pc, why, aliased>>
  BY DEF ParseClientMessage
<1>2. PICK k, i : MessageHandled(k, i) /\ (SessionGoesOn(k, i) \/ SessionEnds(k, i))
  BY MessageFacts
<1>3. /\ pc = "clients" /\ k \in DOMAIN sv_fds /\ i \in DOMAIN subs
      /\ subs[i].fd = sv_fds[k]
      /\ DOMAIN subs' = DOMAIN subs
      /\ \A j \in DOMAIN subs : subs'[j].id = subs[j].id /\ subs'[j].fd = subs[j].fd
      /\ \A j \in DOMAIN subs : j # i => subs'[j] = subs[j]
  BY <1>2 DEF MessageHandled, PacketReadyAt, IsSubscriberByFd
<1>4. Serving
  BY <1>3 DEF Serving, Alive
<1>5. conn \in [Fds -> Clients \cup {None}] /\ \A j \in DOMAIN sv_fds : sv_fds[j] \in Fds
  BY <1>4, PolledFacts DEF IInv, TypeOK, SocketsTypeOK
<1>6. RecordFdsDistinct'
  BY <1>1, <1>3 DEF RecordInv, RecordFdsDistinct
<1>7. OnlineIsPolled'
  <2> SUFFICES ASSUME ~aliased, NEW j \in DOMAIN subs, subs'[j].online
               PROVE  \E n : PolledAs(j, n)'
    BY <1>1, <1>3 DEF OnlineIsPolled
  <2>1. CASE SessionGoesOn(k, i)
    <3>1. subs[j].online
      BY <1>3, <2>1 DEF SessionGoesOn
    <3>2. PICK n : PolledAs(j, n)
      BY <1>4, <3>1 DEF RecordInv, OnlineIsPolled
    <3>3. PolledAs(j, n)'
      BY <1>3, <2>1, <3>2 DEF PolledAs, SessionGoesOn
    <3> QED
      BY <3>3
  <2>2. CASE SessionEnds(k, i)
    <3>1. j # i /\ subs[j].online
      BY <1>3, <2>2 DEF SessionEnds
    <3>2. PICK n : PolledAs(j, n)
      BY <1>4, <3>1 DEF RecordInv, OnlineIsPolled
    <3>3. n \in DOMAIN sv_fds /\ sv_fds[n] = subs[j].fd /\ sv_fds[n] \in Fds
      BY <1>5, <3>2 DEF PolledAs
    <3>4. sv_fds[n] # sv_fds[k]
      BY <1>3, <3>1, <3>3 DEF RecordInv, RecordFdsDistinct
    <3>5. conn'[sv_fds[n]] = conn[sv_fds[n]]
      BY <1>5, <2>2, <3>3, <3>4 DEF SessionEnds
    <3>6. PICK m \in DOMAIN sv_fds' : sv_fds'[m] = sv_fds[n]
      BY <2>2, <3>3, <3>4 DEF SessionEnds
    <3>7. PolledAs(j, m)'
      BY <1>3, <3>2, <3>5, <3>6 DEF PolledAs
    <3> QED
      BY <3>7
  <2> QED
    BY <1>2, <2>1, <2>2
<1>8. PendingAreOnline' /\ StuckSendMeansAliased'
  BY <1>1, <1>3 DEF RecordInv, PendingAreOnline, StuckSendMeansAliased
<1> QED
  BY <1>6, <1>7, <1>8 DEF RecordInv

\* Nothing is forwarded on a closed descriptor before a record is mistaken for
\* another: an online record is polled, and what is polled is open.
LEMMA BadFdMeansAliased ==
  ASSUME IInv, RecordInv, NotificationBadFd
  PROVE  aliased
<1>1. PICK i \in pending : conn[subs[i].fd] = None
  BY DEF NotificationBadFd
<1>2. pc = "notify" /\ Serving
  BY DEF NotificationBadFd, Serving, Alive
<1>3. i \in DOMAIN subs /\ subs[i].online
  BY <1>1, <1>2 DEF RecordInv, PendingAreOnline
<1>4. SUFFICES ASSUME ~aliased PROVE FALSE
  BY DEF IInv, TypeOK, ServerTypeOK
<1>5. PICK k : PolledAs(i, k)
  BY <1>2, <1>3, <1>4 DEF RecordInv, OnlineIsPolled
<1>6. conn[subs[i].fd] # None
  BY <1>2, <1>5 DEF PolledAs, IInv, ServerInv, PolledHasRecord
<1> QED
  BY <1>1, <1>6

\* The steps of the server.
LEMMA ServerRecord ==
  ASSUME IInv, RecordInv, ServerStep
  PROVE  RecordInv'
<1>1. CASE Reconnect \/ AddNewSub
  BY <1>1, AdmitRecord
<1>2. CASE ParseClientMessage
  BY <1>2, MessageRecord
<1>3. CASE ReceiveDatagram
  <2>1. /\ pending' = SubsByTopic(Head(udp).topic) /\ pc = "poll"
        /\ UNCHANGED <<subs, aliased, sv_fds, conn, why>>
    BY <1>3 DEF ReceiveDatagram
  <2>2. Serving
    BY <2>1 DEF Serving, Alive
  <2>3. PendingAreOnline'
    BY <2>1 DEF PendingAreOnline, SubsByTopic
  <2> QED
    BY <2>1, <2>2, <2>3
    DEF RecordInv, RecordFdsDistinct, OnlineIsPolled, PolledAs, StuckSendMeansAliased
<1>4. CASE SendNotification
  <2>1. /\ pc = "notify" /\ pending' \subseteq pending
        /\ UNCHANGED <<subs, aliased, sv_fds, conn, why>>
    BY <1>4 DEF SendNotification
  <2>2. Serving
    BY <2>1 DEF Serving, Alive
  <2> QED
    BY <2>1, <2>2, RecordKept
<1>5. CASE NotificationBadFd
  <2>1. UNCHANGED <<subs, aliased>> /\ pc' = "spin" /\ aliased
    BY <1>5, BadFdMeansAliased DEF NotificationBadFd, Spin
  <2>2. ~Serving'
    BY <2>1 DEF Serving, Alive
  <2> QED
    BY <2>1, <2>2, RecordKept
<1>6. CASE ReadStdin \/ Accept \/ RefuseIntruder \/ StartRound \/ EndRound
  <2>1. /\ UNCHANGED <<subs, aliased, sv_fds, why>> /\ pc' # "notify"
        /\ pc \in {"poll", "connect", "clients"}
    BY <1>6 DEF ReadStdin, Accept, RefuseIntruder, StartRound, EndRound, ConnectArrives
  <2>2. Serving
    BY <2>1 DEF Serving, Alive
  <2>3. CASE Accept
    <3>1. PICK f \in Fds : IsLowestFree(f) /\ conn' = [conn EXCEPT ![f] = Head(backlog)]
      BY <2>3 DEF Accept
    <3>2. conn \in [Fds -> Clients \cup {None}] /\ conn[f] = None
      BY <3>1 DEF IInv, TypeOK, SocketsTypeOK, IsLowestFree
    <3>3. \A k \in DOMAIN sv_fds : conn[sv_fds[k]] # None /\ sv_fds[k] \in Fds
      BY <2>2, PolledFacts DEF IInv, ServerInv, PolledHasRecord
    <3>4. \A k \in DOMAIN sv_fds : conn'[sv_fds[k]] = conn[sv_fds[k]]
      BY <3>1, <3>2, <3>3
    <3>5. \A i, k : PolledAs(i, k) => PolledAs(i, k)'
      BY <2>1, <3>4 DEF PolledAs
    <3>6. OnlineIsPolled'
      BY <2>1, <2>2, <3>5 DEF RecordInv, OnlineIsPolled
    <3> QED
      BY <2>1, <3>6
      DEF RecordInv, RecordFdsDistinct, PendingAreOnline, StuckSendMeansAliased
  <2>4. CASE ~Accept
    <3>1. UNCHANGED conn
      BY <1>6, <2>4 DEF ReadStdin, RefuseIntruder, StartRound, EndRound
    <3> QED
      BY <2>1, <2>2, <3>1, RecordKept
  <2> QED
    BY <2>3, <2>4
<1>7. CASE \/ AcceptFails \/ NotificationSigpipe \/ ClientMessageDies \/ StopSigpipe \/ StopServer
           \/ ConnectEof \/ ClientEof
  <2>1. UNCHANGED <<subs, aliased>> /\ pc' \in {"dead", "spin"} /\ why' # "badfd"
    BY <1>7 DEF AcceptFails, NotificationSigpipe, ClientMessageDies, StopSigpipe, StopServer,
                ConnectEof, ClientEof, Halt, Spin, FailedAsserts
  <2>2. ~Serving'
    BY <2>1 DEF Serving, Alive
  <2> QED
    BY <2>1, <2>2, RecordKept
<1>8. CASE StopClient
  <2>1. UNCHANGED <<subs, aliased, why>> /\ pc' = "stop"
    BY <1>8 DEF StopClient
  <2>2. ~Serving'
    BY <2>1 DEF Serving, Alive
  <2> QED
    BY <2>1, <2>2, RecordKept
<1> QED
  BY <1>1, <1>2, <1>3, <1>4, <1>5, <1>6, <1>7, <1>8 DEF ServerStep

\* Every step of the system.
LEMMA NextRecord == IInv /\ RecordInv /\ [Next]_vars => RecordInv'
<1> SUFFICES ASSUME IInv, RecordInv, [Next]_vars PROVE RecordInv'
  OBVIOUS
<1>1. CASE ServerStep
  BY <1>1, ServerRecord
<1>2. CASE ~ServerStep
  <2>1. UNCHANGED <<subs, aliased, sv_fds, conn, pc, pending, why>>
    BY <1>2 DEF Next, Publish, OperatorExit, LoseToServer, LoseToClient, vars, ClientStep,
       UserStep, Connect, ConnectRefused, SendConnect, Subscribe, Unsubscribe, Exit,
       CloseAfterExit, ClientSigpipe, Kill, ReceiveNotification, ReceiveShutdown, ReceiveEof
  <2> QED
    BY <2>1, RecordKept DEF Serving, Alive
<1> QED
  BY <1>1, <1>2

\* The invariant in every behaviour.
THEOREM RecordInvariance == Spec => []RecordInv
<1>1. Init => RecordInv
  BY EmptyFacts DEF Init, ServerInit, RecordInv, RecordFdsDistinct, OnlineIsPolled, PendingAreOnline,
     StuckSendMeansAliased
<1> QED
  BY <1>1, NextRecord, Invariance, PTL DEF Spec

\* A record is online exactly while a run with its id is polled on its
\* descriptor (handle_shutdown_sub, check_and_add_new_sub), as long as no
\* lookup can go wrong.
THEOREM OnlineIffPolled == Spec => []OnlineMeansPolled
BY RecordInvMeans, RecordInvariance, Invariance, PTL

\* send() is only ever tried on a closed descriptor, and send_tcp_packet stuck,
\* after two records shared a number.
THEOREM StuckSendNeedsAlias == Spec => []StuckSendMeansAliased
<1>1. RecordInv => StuckSendMeansAliased
  BY DEF RecordInv
<1> QED
  BY <1>1, RecordInvariance, PTL

-----------------------------------------------------------------------------
(***************************************************************************)
(* From the command to the display: whoever is shown a datagram asked for  *)
(* it, in this run or in another one with his id.                          *)
(***************************************************************************)

\* A run with this id has sent SUBSCRIBE for t; for a pattern of the topic.
AskedFor(id, t) == \E q \in Clients : IdOf[q] = id /\ asked[q][t] > 0
AskedAbout(id, topic) == \E t \in Patterns : AskedFor(id, t) /\ <<topic, t>> \in Matches

\* The commands on their way, the topics of the records, the interested_subs,
\* the notifications on their way, and those displayed.
CommandsAsked ==
  \A p \in Clients : \A n \in DOMAIN toServer[p] :
    toServer[p][n].action = "SUBSCRIBE_ACTION" => AskedFor(IdOf[p], toServer[p][n].topic)
TopicsAsked ==
  ~aliased => \A i \in DOMAIN subs, t \in Patterns :
                subs[i].topics[t] > 0 => AskedFor(subs[i].id, t)
PendingAsked ==
  ~aliased /\ pc = "notify" => \A i \in pending : AskedAbout(subs[i].id, dgram.topic)
SentAsked ==
  ~aliased => \A p \in Clients : \A n \in DOMAIN toClient[p] :
                toClient[p][n].action = "NOTIFICATION_ACTION"
                  => AskedAbout(IdOf[p], toClient[p][n].dgram.topic)
ShownAsked ==
  ~aliased => \A p \in Clients : \A n \in DOMAIN shown[p] :
                AskedAbout(IdOf[p], shown[p][n].topic)

DeliveryInv == CommandsAsked /\ TopicsAsked /\ PendingAsked /\ SentAsked /\ ShownAsked

\* Nobody takes a command back.
AskedGrows == \A q \in Clients, t \in Patterns : asked[q][t] > 0 => asked'[q][t] > 0

\* The queues of a step hold what they held before.
ToServerShrinks ==
  \A p \in Clients : \A n \in DOMAIN toServer'[p] :
    \E m \in DOMAIN toServer[p] : toServer'[p][n] = toServer[p][m]
ToClientShrinks ==
  \A p \in Clients : \A n \in DOMAIN toClient'[p] :
    \E m \in DOMAIN toClient[p] : toClient'[p][n] = toClient[p][m]

\* Whoever asked for something has asked for it.
LEMMA AskedStays ==
  ASSUME AskedGrows
  PROVE  /\ \A id, t : t \in Patterns /\ AskedFor(id, t) => AskedFor(id, t)'
         /\ \A id, topic : AskedAbout(id, topic) => AskedAbout(id, topic)'
BY DEF AskedGrows, AskedFor, AskedAbout

\* The types the next lemmas need.
LEMMA DeliveryTypes ==
  ASSUME IInv
  PROVE  /\ \A p \in Clients : toServer[p] \in Seq(ToServerPackets)
         /\ \A p \in Clients : toClient[p] \in Seq(ToClientPackets)
         /\ \A p \in Clients : shown[p] \in Seq(Datagrams)
         /\ \A p \in Clients : \A n \in DOMAIN toServer[p] :
              toServer[p][n].action = "SUBSCRIBE_ACTION" => toServer[p][n].topic \in Patterns
         /\ subs \in Seq(Subscribers) /\ \A i \in DOMAIN subs : subs[i] \in Subscribers
         /\ pending \subseteq DOMAIN subs
<1>1. /\ \A p \in Clients : toServer[p] \in Seq(ToServerPackets)
      /\ \A p \in Clients : toClient[p] \in Seq(ToClientPackets)
      /\ \A p \in Clients : shown[p] \in Seq(Datagrams)
      /\ subs \in Seq(Subscribers) /\ pending \subseteq DOMAIN subs
  BY DEF IInv, TypeOK, SocketsTypeOK, ServerTypeOK, SubscriberTypeOK
<1>2. \A i \in DOMAIN subs : subs[i] \in Subscribers
  BY <1>1, LenProperties, ElementOfSeq
<1>3. ASSUME NEW p \in Clients, NEW n \in DOMAIN toServer[p],
             toServer[p][n].action = "SUBSCRIBE_ACTION"
      PROVE  toServer[p][n].topic \in Patterns
  <2>1. toServer[p][n] \in ToServerPackets
    BY <1>1, LenProperties, ElementOfSeq
  <2> QED
    BY <1>3, <2>1 DEF ToServerPackets
<1> QED
  BY <1>1, <1>2, <1>3

\* Steps in which nothing new is asked; recorded; looked up; sent; displayed.
LEMMA CommandsKept ==
  ASSUME IInv, DeliveryInv, AskedGrows, ToServerShrinks
  PROVE  CommandsAsked'
<1> SUFFICES ASSUME NEW p \in Clients, NEW n \in DOMAIN toServer'[p],
                    toServer'[p][n].action = "SUBSCRIBE_ACTION"
             PROVE  \E q \in Clients : IdOf[q] = IdOf[p] /\ asked'[q][toServer'[p][n].topic] > 0
  BY DEF CommandsAsked, AskedFor
<1>1. PICK m \in DOMAIN toServer[p] : toServer'[p][n] = toServer[p][m]
  BY DEF ToServerShrinks
<1>2. AskedFor(IdOf[p], toServer[p][m].topic) /\ toServer[p][m].topic \in Patterns
  BY <1>1, DeliveryTypes DEF DeliveryInv, CommandsAsked
<1> QED
  BY <1>1, <1>2 DEF AskedGrows, AskedFor

\* Each part survives the steps that leave its variables alone.
LEMMA TopicsKept ==
  ASSUME DeliveryInv, AskedGrows, aliased => aliased', UNCHANGED subs
  PROVE  TopicsAsked'
BY DEF DeliveryInv, TopicsAsked, AskedGrows, AskedFor

\* The interested_subs.
LEMMA PendingKept ==
  ASSUME DeliveryInv, AskedGrows, aliased => aliased', UNCHANGED subs,
         pc' = "notify" => pc = "notify" /\ pending' \subseteq pending /\ dgram' = dgram
  PROVE  PendingAsked'
BY DEF DeliveryInv, PendingAsked, AskedGrows, AskedAbout, AskedFor

\* The notifications on their way.
LEMMA SentKept ==
  ASSUME DeliveryInv, AskedGrows, aliased => aliased', ToClientShrinks
  PROVE  SentAsked'
<1> SUFFICES ASSUME ~aliased', NEW p \in Clients, NEW n \in DOMAIN toClient'[p],
                    toClient'[p][n].action = "NOTIFICATION_ACTION"
             PROVE  \E t \in Patterns : AskedFor(IdOf[p], t)'
                                       /\ <<toClient'[p][n].dgram.topic, t>> \in Matches
  BY DEF SentAsked, AskedAbout
<1>1. PICK m \in DOMAIN toClient[p] : toClient'[p][n] = toClient[p][m]
  BY DEF ToClientShrinks
<1>2. AskedAbout(IdOf[p], toClient[p][m].dgram.topic)
  BY <1>1 DEF DeliveryInv, SentAsked
<1> QED
  BY <1>1, <1>2 DEF AskedGrows, AskedAbout, AskedFor

\* The notifications displayed.
LEMMA ShownKept ==
  ASSUME DeliveryInv, AskedGrows, aliased => aliased', UNCHANGED shown
  PROVE  ShownAsked'
BY DEF DeliveryInv, ShownAsked, AskedGrows, AskedAbout, AskedFor

\* Whoever's packet is taken, and wherever queues are emptied or left alone.
LEMMA QueuesShrink ==
  ASSUME IInv
  PROVE  /\ \A p \in Clients : toServer[p] # <<>> /\ TakeFrom(p) => ToServerShrinks
         /\ UNCHANGED toServer => ToServerShrinks
         /\ UNCHANGED toClient => ToClientShrinks
         /\ \A p \in Clients : toClient' = [toClient EXCEPT ![p] = <<>>] => ToClientShrinks
<1>1. ASSUME NEW p \in Clients, toServer[p] # <<>>, TakeFrom(p) PROVE ToServerShrinks
  <2>1. /\ toServer \in [Clients -> Seq(ToServerPackets)]
        /\ \A k \in DOMAIN Tail(toServer[p]) :
             k + 1 \in DOMAIN toServer[p] /\ Tail(toServer[p])[k] = toServer[p][k + 1]
    BY <1>1, TailFacts DEF IInv, TypeOK, SocketsTypeOK
  <2>2. \A q \in Clients : toServer'[q] = IF q = p THEN Tail(toServer[q]) ELSE toServer[q]
    BY <1>1, <2>1 DEF TakeFrom
  <2> QED
    BY <2>1, <2>2 DEF ToServerShrinks
<1>2. UNCHANGED toServer => ToServerShrinks
  BY DEF ToServerShrinks
<1>3. UNCHANGED toClient => ToClientShrinks
  BY DEF ToClientShrinks
<1>4. ASSUME NEW p \in Clients, toClient' = [toClient EXCEPT ![p] = <<>>] PROVE ToClientShrinks
  <2>1. \A q \in Clients : toClient'[q] = IF q = p THEN <<>> ELSE toClient[q]
    BY <1>4 DEF IInv, TypeOK, SocketsTypeOK
  <2> QED
    BY <2>1, EmptyFacts DEF ToClientShrinks
<1> QED
  BY <1>1, <1>2, <1>3, <1>4

\* A reset adds nothing to a queue.
LEMMA ResetsShrink ==
  ASSUME IInv, Resets
  PROVE  ToServerShrinks /\ ToClientShrinks
<1>1. PICK p \in Clients : LoseToServer(p) \/ LoseToClient(p)
  BY DEF Resets
<1>2. /\ toServer \in [Clients -> Seq(ToServerPackets)] /\ toServer[p] \in Seq(ToServerPackets)
      /\ toClient \in [Clients -> Seq(ToClientPackets)] /\ toClient[p] \in Seq(ToClientPackets)
  BY DEF IInv, TypeOK, SocketsTypeOK
<1>3. CASE LoseToServer(p)
  <2>1. /\ toServer[p] # <<>> /\ toServer' = [toServer EXCEPT ![p] = Front(toServer[p])]
        /\ UNCHANGED toClient
    BY <1>3 DEF LoseToServer
  <2>2. \A k \in DOMAIN Front(toServer[p]) :
          k \in DOMAIN toServer[p] /\ Front(toServer[p])[k] = toServer[p][k]
    BY <1>2, <2>1, FrontFacts
  <2>3. \A q \in Clients : toServer'[q] = IF q = p THEN Front(toServer[p]) ELSE toServer[q]
    BY <1>2, <2>1
  <2>4. ToServerShrinks
    BY <2>2, <2>3 DEF ToServerShrinks
  <2> QED
    BY <2>1, <2>4, QueuesShrink
<1>4. CASE LoseToClient(p)
  <2>1. /\ toClient[p] # <<>> /\ toClient' = [toClient EXCEPT ![p] = Front(toClient[p])]
        /\ UNCHANGED toServer
    BY <1>4 DEF LoseToClient
  <2>2. \A k \in DOMAIN Front(toClient[p]) :
          k \in DOMAIN toClient[p] /\ Front(toClient[p])[k] = toClient[p][k]
    BY <1>2, <2>1, FrontFacts
  <2>3. \A q \in Clients : toClient'[q] = IF q = p THEN Front(toClient[p]) ELSE toClient[q]
    BY <1>2, <2>1
  <2>4. ToClientShrinks
    BY <2>2, <2>3 DEF ToClientShrinks
  <2> QED
    BY <2>1, <2>4, QueuesShrink
<1> QED
  BY <1>1, <1>3, <1>4

\* Commands and goodbyes: what is sent is counted in the same step.
LEMMA CommandDelivery ==
  ASSUME IInv, DeliveryInv, AskedGrows, NEW p \in Clients, NEW m \in ToServerPackets,
         SendToServer(p, m), ToClientShrinks,
         m.action = "SUBSCRIBE_ACTION" => asked'[p][m.topic] > 0,
         UNCHANGED <<srvVars, shown>>
  PROVE  DeliveryInv'
<1>1. CommandsAsked'
  <2> SUFFICES ASSUME NEW q \in Clients, NEW n \in DOMAIN toServer'[q],
                      toServer'[q][n].action = "SUBSCRIBE_ACTION"
               PROVE  \E r \in Clients : IdOf[r] = IdOf[q] /\ asked'[r][toServer'[q][n].topic] > 0
    BY DEF CommandsAsked, AskedFor
  <2>1. /\ toServer \in [Clients -> Seq(ToServerPackets)]
        /\ \A k \in DOMAIN Append(toServer[p], m) :
             \/ k \in DOMAIN toServer[p] /\ Append(toServer[p], m)[k] = toServer[p][k]
             \/ Append(toServer[p], m)[k] = m
    <3>1. toServer[p] \in Seq(ToServerPackets)
      BY DeliveryTypes
    <3>2. /\ DOMAIN Append(toServer[p], m) = 1 .. Len(toServer[p]) + 1
          /\ DOMAIN toServer[p] = 1 .. Len(toServer[p]) /\ Len(toServer[p]) \in Nat
          /\ \A k \in DOMAIN toServer[p] : Append(toServer[p], m)[k] = toServer[p][k]
          /\ Append(toServer[p], m)[Len(toServer[p]) + 1] = m
      BY <3>1, AppendFacts, LenProperties
    <3>3. toServer \in [Clients -> Seq(ToServerPackets)]
      BY DEF IInv, TypeOK, SocketsTypeOK
    <3>4. SUFFICES ASSUME NEW k \in 1 .. Len(toServer[p]) + 1
                   PROVE  \/ k \in DOMAIN toServer[p] /\ Append(toServer[p], m)[k] = toServer[p][k]
                          \/ Append(toServer[p], m)[k] = m
      BY <3>2, <3>3
    <3>5. k \in 1 .. Len(toServer[p]) \/ k = Len(toServer[p]) + 1
      BY <3>2, <3>4
    <3> QED
      BY <3>2, <3>5
  <2>2. \A r \in Clients : toServer'[r] = IF r = p THEN Append(toServer[r], m) ELSE toServer[r]
    BY <2>1 DEF SendToServer
  <2>3. CASE n \in DOMAIN toServer[q] /\ toServer'[q][n] = toServer[q][n]
    <3>1. AskedFor(IdOf[q], toServer[q][n].topic) /\ toServer[q][n].topic \in Patterns
      BY <2>3, DeliveryTypes DEF DeliveryInv, CommandsAsked
    <3> QED
      BY <2>3, <3>1 DEF AskedGrows, AskedFor
  <2>4. CASE q = p /\ toServer'[q][n] = m
    BY <2>4
  <2> QED
    BY <2>1, <2>2, <2>3, <2>4
<1> QED
  BY <1>1, TopicsKept, PendingKept, SentKept, ShownKept DEF DeliveryInv

\* What a run does.
LEMMA ClientDelivery ==
  ASSUME IInv, DeliveryInv, UNCHANGED srvVars, NEW p \in Clients, ClientStep(p) \/ UserStep(p)
  PROVE  DeliveryInv'
<1>1. /\ asked \in [Clients -> [Patterns -> Nat]] /\ shown \in [Clients -> Seq(Datagrams)]
      /\ toClient \in [Clients -> Seq(ToClientPackets)]
  BY DEF IInv, TypeOK, SocketsTypeOK, SubscriberTypeOK
<1>2. ASSUME NEW t \in Patterns, Subscribe(p, t) PROVE DeliveryInv'
  <2> DEFINE m == [action |-> "SUBSCRIBE_ACTION", topic |-> t]
  <2>1. m \in ToServerPackets /\ m.topic = t
    BY DEF ToServerPackets
  <2>2. /\ asked' = Count(asked, p, t) /\ SendToServer(p, m) /\ UNCHANGED <<toClient, shown>>
    BY <1>2 DEF Subscribe
  <2> HIDE DEF m
  <2>3. AskedGrows /\ asked'[p][t] > 0
    BY <1>1, <2>2 DEF AskedGrows, Count
  <2> QED
    BY <2>1, <2>2, <2>3, QueuesShrink, CommandDelivery
<1>3. ASSUME NEW m \in ToServerPackets, m.action # "SUBSCRIBE_ACTION", SendToServer(p, m),
             UNCHANGED <<asked, shown>>,
             toClient' = toClient \/ toClient' = [toClient EXCEPT ![p] = <<>>]
      PROVE  DeliveryInv'
  <2>1. AskedGrows
    BY <1>3 DEF AskedGrows
  <2> QED
    BY <1>3, <2>1, QueuesShrink, CommandDelivery
<1>4. ASSUME NEW t \in Patterns, Unsubscribe(p, t) PROVE DeliveryInv'
  <2>1. [action |-> "UNSUBSCRIBE_ACTION", topic |-> t] \in ToServerPackets
    BY DEF ToServerPackets
  <2> QED
    BY <1>3, <1>4, <2>1 DEF Unsubscribe
<1>5. CASE Exit(p)
  <2>1. [action |-> "SHUTDOWN_CLOSE"] \in ToServerPackets
    BY DEF ToServerPackets
  <2> QED
    BY <1>3, <1>5, <2>1 DEF Exit
<1>6. CASE SendConnect(p)
  <2>1. [action |-> "CONNECT_ACTION", id |-> IdOf[p]] \in ToServerPackets
    BY SocketsAssumption DEF ToServerPackets
  <2> QED
    BY <1>3, <1>6, <2>1 DEF SendConnect
<1>7. CASE ReceiveNotification(p)
  <2> DEFINE d == Head(toClient[p]).dgram
  <2>1. /\ toClient[p] # <<>> /\ Head(toClient[p]).action = "NOTIFICATION_ACTION"
        /\ shown' = [shown EXCEPT ![p] = Append(shown[p], d)]
        /\ toClient' = [toClient EXCEPT ![p] = Tail(toClient[p])]
        /\ UNCHANGED <<toServer, asked>>
    BY <1>7 DEF ReceiveNotification
  <2>2. toClient[p] \in Seq(ToClientPackets) /\ shown[p] \in Seq(Datagrams)
    BY <1>1
  <2>3. /\ 1 \in DOMAIN toClient[p] /\ Head(toClient[p]) = toClient[p][1]
        /\ Head(toClient[p]) \in ToClientPackets
        /\ \A k \in DOMAIN Tail(toClient[p]) :
             k + 1 \in DOMAIN toClient[p] /\ Tail(toClient[p])[k] = toClient[p][k + 1]
    BY <2>1, <2>2, TailFacts
  <2>4. d \in Datagrams
    BY <2>1, <2>3 DEF ToClientPackets
  <2>5. \A k \in DOMAIN Append(shown[p], d) :
          \/ k \in DOMAIN shown[p] /\ Append(shown[p], d)[k] = shown[p][k]
          \/ Append(shown[p], d)[k] = d
    <3>1. /\ DOMAIN Append(shown[p], d) = 1 .. Len(shown[p]) + 1
          /\ DOMAIN shown[p] = 1 .. Len(shown[p]) /\ Len(shown[p]) \in Nat
          /\ \A k \in DOMAIN shown[p] : Append(shown[p], d)[k] = shown[p][k]
          /\ Append(shown[p], d)[Len(shown[p]) + 1] = d
      BY <2>2, <2>4, AppendFacts, LenProperties
    <3> QED
      BY <3>1
  <2>6. ~aliased => AskedAbout(IdOf[p], d.topic)
    BY <2>1, <2>3 DEF DeliveryInv, SentAsked
  <2>7. AskedGrows /\ ToServerShrinks
    BY <2>1, QueuesShrink DEF AskedGrows
  <2> HIDE DEF d
  <2>8. \A q \in Clients : shown'[q] = IF q = p THEN Append(shown[q], d) ELSE shown[q]
    BY <1>1, <2>1
  <2>9. ShownAsked'
    <3> SUFFICES ASSUME ~aliased, NEW q \in Clients, NEW n \in DOMAIN shown'[q]
                 PROVE  \E t \in Patterns : AskedFor(IdOf[q], t)'
                                           /\ <<shown'[q][n].topic, t>> \in Matches
      BY DEF ShownAsked, AskedAbout
    <3>1. AskedAbout(IdOf[q], shown'[q][n].topic)
      BY <2>5, <2>6, <2>8 DEF DeliveryInv, ShownAsked
    <3> QED
      BY <2>7, <3>1 DEF AskedAbout, AskedFor, AskedGrows
  <2>10. ToClientShrinks
    <3>1. \A q \in Clients : toClient'[q] = IF q = p THEN Tail(toClient[q]) ELSE toClient[q]
      BY <1>1, <2>1
    <3> SUFFICES ASSUME NEW q \in Clients, NEW n \in DOMAIN toClient'[q]
                 PROVE  \E k \in DOMAIN toClient[q] : toClient'[q][n] = toClient[q][k]
      BY DEF ToClientShrinks
    <3>2. CASE q = p
      <4>1. toClient'[q] = Tail(toClient[p]) /\ n \in DOMAIN Tail(toClient[p])
        BY <3>1, <3>2
      <4>2. n + 1 \in DOMAIN toClient[q] /\ toClient'[q][n] = toClient[q][n + 1]
        BY <2>3, <3>2, <4>1
      <4> QED
        BY <4>2
    <3>3. CASE q # p
      BY <3>1, <3>3
    <3> QED
      BY <3>2, <3>3
  <2> QED
    BY <2>7, <2>9, <2>10, CommandsKept, TopicsKept, PendingKept, SentKept DEF DeliveryInv
<1>8. CASE \/ Connect(p) \/ ConnectRefused(p) \/ CloseAfterExit(p) \/ ClientSigpipe(p)
           \/ Kill(p) \/ ReceiveShutdown(p) \/ ReceiveEof(p)
  <2>1. /\ UNCHANGED <<toServer, asked, shown>>
        /\ toClient' = toClient \/ toClient' = [toClient EXCEPT ![p] = <<>>]
    BY <1>8 DEF Connect, ConnectRefused, CloseAfterExit, ClientSigpipe, Kill, ReceiveShutdown,
                ReceiveEof, CloseClientEnd
  <2>2. AskedGrows /\ ToServerShrinks /\ ToClientShrinks
    BY <2>1, QueuesShrink DEF AskedGrows
  <2> QED
    BY <2>1, <2>2, CommandsKept, TopicsKept, PendingKept, SentKept, ShownKept DEF DeliveryInv
<1> QED
  BY <1>2, <1>4, <1>5, <1>6, <1>7, <1>8 DEF ClientStep, UserStep

\* A packet put into the socket of p by the server.
LEMMA DeliverSent ==
  ASSUME IInv, DeliveryInv, NEW p \in Clients, NEW m \in ToClientPackets, DeliverTo(p, m),
         m.action = "NOTIFICATION_ACTION" /\ ~aliased => AskedAbout(IdOf[p], m.dgram.topic),
         UNCHANGED <<asked, aliased>>
  PROVE  SentAsked'
<1>1. /\ toClient \in [Clients -> Seq(ToClientPackets)]
      /\ \A k \in DOMAIN Append(toClient[p], m) :
           \/ k \in DOMAIN toClient[p] /\ Append(toClient[p], m)[k] = toClient[p][k]
           \/ Append(toClient[p], m)[k] = m
  <2>1. toClient[p] \in Seq(ToClientPackets)
    BY DeliveryTypes
  <2>2. /\ DOMAIN Append(toClient[p], m) = 1 .. Len(toClient[p]) + 1
        /\ DOMAIN toClient[p] = 1 .. Len(toClient[p]) /\ Len(toClient[p]) \in Nat
        /\ \A k \in DOMAIN toClient[p] : Append(toClient[p], m)[k] = toClient[p][k]
        /\ Append(toClient[p], m)[Len(toClient[p]) + 1] = m
    BY <2>1, AppendFacts, LenProperties
  <2>3. toClient \in [Clients -> Seq(ToClientPackets)]
    BY DEF IInv, TypeOK, SocketsTypeOK
  <2>4. \A l \in Nat : \A k \in 1 .. l + 1 : k \in 1 .. l \/ k = l + 1
    OBVIOUS
  <2>5. \A k \in 1 .. Len(toClient[p]) + 1 :
          k \in DOMAIN toClient[p] \/ k = Len(toClient[p]) + 1
    BY <2>2, <2>4
  <2> QED
    BY <2>2, <2>3, <2>5
<1>2. toClient' = toClient \/ toClient' = [toClient EXCEPT ![p] = Append(toClient[p], m)]
  BY DEF DeliverTo
<1>3. \A q \in Clients : \/ toClient'[q] = toClient[q]
                         \/ q = p /\ toClient'[q] = Append(toClient[p], m)
  BY <1>1, <1>2
<1> SUFFICES ASSUME ~aliased, NEW q \in Clients, NEW n \in DOMAIN toClient'[q],
                    toClient'[q][n].action = "NOTIFICATION_ACTION"
             PROVE  AskedAbout(IdOf[q], toClient'[q][n].dgram.topic)
  BY DEF SentAsked, AskedAbout, AskedFor
<1>4. CASE n \in DOMAIN toClient[q] /\ toClient'[q][n] = toClient[q][n]
  BY <1>4 DEF DeliveryInv, SentAsked
<1>5. CASE q = p /\ toClient'[q][n] = m
  BY <1>5
<1> QED
  BY <1>1, <1>3, <1>4, <1>5

\* An admitted record starts without topics or keeps those it had.
LEMMA AdmitDelivery ==
  ASSUME IInv, DeliveryInv, UNCHANGED cliVars, Reconnect \/ AddNewSub
  PROVE  DeliveryInv'
<1>1. ConnectArrives /\ \E i : PollNewConnection(i)
  BY DEF Reconnect, AddNewSub
<1>2. /\ TakeFrom(conn[cur]) /\ pc' = "poll" /\ UNCHANGED <<toClient, shown, asked>>
      /\ aliased => aliased'
  BY <1>1 DEF PollNewConnection
<1>3. conn[cur] \in Clients /\ toServer[conn[cur]] # <<>> /\ ConnectId \in Ids /\ cur \in Fds
  BY <1>1, ConnectFacts
<1>4. AskedGrows /\ ToServerShrinks /\ ToClientShrinks
  BY <1>2, <1>3, QueuesShrink DEF AskedGrows
<1>5. subs \in Seq(Subscribers) /\ \A i \in DOMAIN subs : subs[i] \in Subscribers
  BY DeliveryTypes
<1>6. \A j \in DOMAIN subs' :
        \/ j \in DOMAIN subs /\ subs'[j].id = subs[j].id /\ subs'[j].topics = subs[j].topics
        \/ \A t \in Patterns : subs'[j].topics[t] = 0
  <2>1. CASE Reconnect
    <3>1. PICK i \in DOMAIN subs : subs' = [subs EXCEPT ![i].fd = cur, ![i].online = TRUE]
      BY <2>1 DEF Reconnect
    <3> DEFINE r == [[subs[i] EXCEPT !.fd = cur] EXCEPT !.online = TRUE]
    <3>2. r.id = subs[i].id /\ r.topics = subs[i].topics
      BY <1>5 DEF Subscribers
    <3>3. subs' = [subs EXCEPT ![i] = r]
      BY <1>5, <3>1
    <3> HIDE DEF r
    <3> QED
      BY <1>5, <3>2, <3>3
  <2>2. CASE AddNewSub
    <3> DEFINE r == [id |-> ConnectId, fd |-> cur, topics |-> [t \in Patterns |-> 0],
                     online |-> TRUE]
    <3>1. r \in Subscribers /\ \A t \in Patterns : r.topics[t] = 0
      BY <1>3 DEF Subscribers
    <3>2. subs' = Append(subs, r)
      BY <2>2 DEF AddNewSub
    <3> HIDE DEF r
    <3>3. /\ DOMAIN subs' = 1 .. Len(subs) + 1 /\ DOMAIN subs = 1 .. Len(subs) /\ Len(subs) \in Nat
          /\ \A j \in DOMAIN subs : subs'[j] = subs[j]
          /\ subs'[Len(subs) + 1] = r
      BY <1>5, <3>1, <3>2, AppendFacts, LenProperties
    <3>4. \A j \in DOMAIN subs' : j \in DOMAIN subs \/ j = Len(subs) + 1
      BY <3>3
    <3> QED
      BY <3>1, <3>3, <3>4
  <2> QED
    BY <2>1, <2>2
<1>7. TopicsAsked'
  <2> SUFFICES ASSUME ~aliased', NEW j \in DOMAIN subs', NEW t \in Patterns,
                      subs'[j].topics[t] > 0
               PROVE  \E q \in Clients : IdOf[q] = subs'[j].id /\ asked'[q][t] > 0
    BY DEF TopicsAsked, AskedFor
  <2>1. j \in DOMAIN subs /\ subs'[j].id = subs[j].id /\ subs'[j].topics = subs[j].topics
    BY <1>6
  <2> QED
    BY <1>2, <2>1 DEF DeliveryInv, TopicsAsked, AskedFor
<1>8. PendingAsked'
  BY <1>2 DEF PendingAsked
<1> QED
  BY <1>2, <1>4, <1>7, <1>8, CommandsKept, SentKept, ShownKept DEF DeliveryInv

\* The handlers.  The record a command is applied to is that of the run that
\* sent it, because no other record has its descriptor.
LEMMA MessageDelivery ==
  ASSUME IInv, RecordInv, DeliveryInv, UNCHANGED cliVars, ParseClientMessage
  PROVE  DeliveryInv'
<1>1. UNCHANGED <<toClient, pc, aliased, asked, shown>>
  BY DEF ParseClientMessage
<1>2. PICK k \in DOMAIN sv_fds :
        /\ PacketReadyAt(k)
        /\ \E i \in DOMAIN subs :
             /\ IsSubscriberByFd(i, sv_fds[k])
             /\ \/ HandleSubscribe(i, PacketAt(k))
                \/ HandleUnsubscribe(i, PacketAt(k))
                \/ HandleShutdownSub(i, PacketAt(k), k)
        /\ TakeFrom(conn[sv_fds[k]])
  BY DEF ParseClientMessage
<1>3. PICK i \in DOMAIN subs :
        /\ IsSubscriberByFd(i, sv_fds[k])
        /\ \/ HandleSubscribe(i, PacketAt(k))
           \/ HandleUnsubscribe(i, PacketAt(k))
           \/ HandleShutdownSub(i, PacketAt(k), k)
  BY <1>2
<1> DEFINE m == PacketAt(k)
           p == conn[sv_fds[k]]
<1>4. pc = "clients" /\ Serving /\ toServer[p] # <<>> /\ subs[i].fd = sv_fds[k]
  BY <1>2, <1>3 DEF PacketReadyAt, Serving, Alive, IsSubscriberByFd
<1>5. p \in Clients
  BY <1>4, PolledFacts
<1>6. AskedGrows /\ ToServerShrinks /\ ToClientShrinks
  BY <1>1, <1>2, <1>4, <1>5, QueuesShrink DEF AskedGrows
<1>7. subs \in Seq(Subscribers) /\ subs[i] \in Subscribers
  BY DeliveryTypes
<1>8. m.action = "SUBSCRIBE_ACTION" => m.topic \in Patterns /\ AskedFor(IdOf[p], m.topic)
  <2>1. 1 \in DOMAIN toServer[p] /\ m = toServer[p][1]
    BY <1>4, <1>5, DeliveryTypes, TailFacts DEF PacketAt
  <2> HIDE DEF m, p
  <2> QED
    BY <1>5, <2>1, DeliveryTypes DEF DeliveryInv, CommandsAsked
<1>9. ~aliased => subs[i].id = IdOf[p]
  <2>1. PICK n \in DOMAIN subs : subs[n].fd = sv_fds[k] /\ subs[n].id = IdOf[p]
    BY <1>4 DEF IInv, ServerInv, PolledHasRecord
  <2> QED
    BY <1>4, <2>1 DEF RecordInv, RecordFdsDistinct
<1>10. /\ m.action = "UNSUBSCRIBE_ACTION" => m.topic \in Patterns
  <2>1. m \in ToServerPackets
    BY <1>4, <1>5, DeliveryTypes, TailFacts DEF PacketAt
  <2> QED
    BY <2>1 DEF ToServerPackets
<1> HIDE DEF m, p
<1>11. PICK r : /\ subs' = [subs EXCEPT ![i] = r] /\ r.id = subs[i].id
                /\ \A t \in Patterns : r.topics[t] > 0 =>
                     subs[i].topics[t] > 0 \/ (m.action = "SUBSCRIBE_ACTION" /\ t = m.topic)
  <2>1. CASE HandleSubscribe(i, m)
    <3> DEFINE r == [subs[i] EXCEPT !.topics[m.topic] = @ + 1]
    <3>1. subs' = [subs EXCEPT ![i] = r] /\ m.action = "SUBSCRIBE_ACTION"
      BY <2>1 DEF HandleSubscribe
    <3>2. r.id = subs[i].id /\ \A t \in Patterns : t # m.topic => r.topics[t] = subs[i].topics[t]
      BY <1>7 DEF Subscribers
    <3> HIDE DEF r
    <3>3. \A t \in Patterns : r.topics[t] > 0 =>
            subs[i].topics[t] > 0 \/ (m.action = "SUBSCRIBE_ACTION" /\ t = m.topic)
      BY <3>1, <3>2
    <3>4. r.id = subs[i].id
      BY <3>2
    <3> QED
      BY <3>1, <3>3, <3>4
  <2>2. CASE HandleUnsubscribe(i, m)
    <3> DEFINE r == [subs[i] EXCEPT !.topics[m.topic] = @ - 1]
    <3>1. /\ subs' = [subs EXCEPT ![i] = r] /\ subs[i].topics[m.topic] > 0
      BY <2>2 DEF HandleUnsubscribe
    <3>2. r.id = subs[i].id /\ \A t \in Patterns : t # m.topic => r.topics[t] = subs[i].topics[t]
      BY <1>7 DEF Subscribers
    <3> HIDE DEF r
    <3>3. \A t \in Patterns : r.topics[t] > 0 =>
            subs[i].topics[t] > 0 \/ (m.action = "SUBSCRIBE_ACTION" /\ t = m.topic)
      BY <3>1, <3>2
    <3>4. r.id = subs[i].id
      BY <3>2
    <3> QED
      BY <3>1, <3>3, <3>4
  <2>3. CASE HandleShutdownSub(i, m, k)
    <3> DEFINE r == [subs[i] EXCEPT !.online = FALSE]
    <3>1. subs' = [subs EXCEPT ![i] = r]
      BY <2>3 DEF HandleShutdownSub
    <3>2. r.id = subs[i].id /\ r.topics = subs[i].topics
      BY <1>7 DEF Subscribers
    <3> HIDE DEF r
    <3> QED
      BY <3>1, <3>2
  <2> QED
    BY <1>3, <2>1, <2>2, <2>3 DEF m
<1>12. DOMAIN subs' = DOMAIN subs /\ \A j \in DOMAIN subs : subs'[j] = IF j = i THEN r ELSE subs[j]
  BY <1>7, <1>11
<1>13. TopicsAsked'
  <2> SUFFICES ASSUME ~aliased, NEW j \in DOMAIN subs, NEW t \in Patterns,
                      subs'[j].topics[t] > 0
               PROVE  AskedFor(subs'[j].id, t)
    BY <1>1, <1>12 DEF TopicsAsked, AskedFor
  <2>1. CASE subs[j].topics[t] > 0
    BY <1>11, <1>12, <2>1 DEF DeliveryInv, TopicsAsked
  <2>2. CASE j = i /\ m.action = "SUBSCRIBE_ACTION" /\ t = m.topic
    BY <1>8, <1>9, <1>11, <1>12, <2>2
  <2> QED
    BY <1>11, <1>12, <2>1, <2>2
<1>14. PendingAsked'
  BY <1>1, <1>4 DEF PendingAsked
<1> QED
  BY <1>1, <1>6, <1>13, <1>14, CommandsKept, SentKept, ShownKept DEF DeliveryInv

\* One turn of send_packet_to_subscribers: the run behind the descriptor has
\* the id of the record that was looked up.
LEMMA ForwardDelivery ==
  ASSUME IInv, RecordInv, DeliveryInv, UNCHANGED cliVars, SendNotification
  PROVE  DeliveryInv'
<1>1. PICK i \in pending :
        /\ conn[subs[i].fd] # None
        /\ DeliverTo(conn[subs[i].fd], [action |-> "NOTIFICATION_ACTION", dgram |-> dgram])
        /\ pending' = pending \ {i}
  BY DEF SendNotification
<1>2. /\ pc = "notify"
      /\ pc' = "notify" => dgram' = dgram
      /\ UNCHANGED <<toServer, subs, aliased, asked, shown>>
  BY DEF SendNotification
<1>3. Serving
  BY <1>2 DEF Serving, Alive
<1>4. i \in DOMAIN subs /\ subs[i].online /\ subs[i] \in Subscribers
  BY <1>1, <1>2, DeliveryTypes DEF RecordInv, PendingAreOnline
<1>5. conn[subs[i].fd] \in Clients /\ dgram \in Datagrams
  <2>1. subs[i].fd \in Fds
    BY <1>4 DEF Subscribers
  <2> QED
    BY <1>1, <1>2, <2>1 DEF IInv, TypeOK, SocketsTypeOK, ServerInv, ForwardsADatagram
<1>6. ~aliased => IdOf[conn[subs[i].fd]] = subs[i].id
  BY <1>3, <1>4 DEF RecordInv, OnlineIsPolled, PolledAs
<1>7. ~aliased => AskedAbout(subs[i].id, dgram.topic)
  BY <1>1, <1>2 DEF DeliveryInv, PendingAsked
<1> DEFINE m == [action |-> "NOTIFICATION_ACTION", dgram |-> dgram]
           p == conn[subs[i].fd]
<1>8. m \in ToClientPackets /\ m.dgram = dgram /\ DeliverTo(p, m) /\ p \in Clients
  BY <1>1, <1>5 DEF ToClientPackets
<1>9. ~aliased => AskedAbout(IdOf[p], dgram.topic)
  BY <1>6, <1>7
<1> HIDE DEF m, p
<1>10. SentAsked'
  BY <1>2, <1>8, <1>9, DeliverSent
<1>11. AskedGrows /\ ToServerShrinks
  BY <1>2, QueuesShrink DEF AskedGrows
<1>12. PendingAsked'
  BY <1>1, <1>2, <1>11, PendingKept
<1> QED
  BY <1>2, <1>10, <1>11, <1>12, CommandsKept, TopicsKept, ShownKept DEF DeliveryInv

\* The steps of the server.
LEMMA ServerDelivery ==
  ASSUME IInv, RecordInv, DeliveryInv, UNCHANGED cliVars, ServerStep
  PROVE  DeliveryInv'
<1>1. UNCHANGED <<asked, shown>> /\ AskedGrows
  BY DEF AskedGrows
<1>2. CASE Reconnect \/ AddNewSub
  BY <1>2, AdmitDelivery
<1>3. CASE ParseClientMessage
  BY <1>3, MessageDelivery
<1>4. CASE SendNotification
  BY <1>4, ForwardDelivery
<1>5. CASE ReceiveDatagram
  <2>1. /\ pending' = SubsByTopic(Head(udp).topic)
        /\ pc' = "notify" => dgram' = Head(udp)
        /\ UNCHANGED <<toServer, toClient, subs, aliased>>
    BY <1>5 DEF ReceiveDatagram
  <2>2. ToServerShrinks /\ ToClientShrinks
    BY <2>1, QueuesShrink
  <2>3. PendingAsked'
    <3> SUFFICES ASSUME ~aliased, pc' = "notify", NEW i \in pending'
                 PROVE  AskedAbout(subs[i].id, dgram'.topic)
      BY <1>1, <2>1 DEF PendingAsked, AskedAbout, AskedFor
    <3>1. i \in DOMAIN subs /\ IsInterested(subs[i], dgram'.topic)
      BY <2>1 DEF SubsByTopic
    <3> QED
      BY <3>1 DEF IsInterested, DeliveryInv, TopicsAsked, AskedAbout
  <2> QED
    BY <1>1, <2>1, <2>2, <2>3, CommandsKept, TopicsKept, SentKept, ShownKept DEF DeliveryInv
<1>6. CASE RefuseIntruder
  <2>1. /\ ConnectArrives /\ TakeFrom(conn[cur]) /\ pc' = "poll" /\ UNCHANGED <<subs, aliased>>
        /\ DeliverTo(conn[cur], [action |-> "SHUTDOWN_INTRUDER"])
    BY <1>6 DEF RefuseIntruder
  <2>2. conn[cur] \in Clients /\ toServer[conn[cur]] # <<>>
    BY <2>1, ConnectFacts
  <2>3. ToServerShrinks
    BY <2>1, <2>2, QueuesShrink
  <2> DEFINE m == [action |-> "SHUTDOWN_INTRUDER"]
  <2>4. m \in ToClientPackets /\ m.action # "NOTIFICATION_ACTION" /\ DeliverTo(conn[cur], m)
    BY <2>1 DEF ToClientPackets
  <2> HIDE DEF m
  <2>5. SentAsked'
    BY <1>1, <2>1, <2>2, <2>4, DeliverSent
  <2> QED
    BY <1>1, <2>1, <2>3, <2>5, CommandsKept, TopicsKept, PendingKept, ShownKept
    DEF DeliveryInv
<1>7. CASE StopClient
  <2>1. /\ pc' = "stop" /\ UNCHANGED <<toServer, subs, aliased>>
        /\ DeliverTo(conn[sv_fds[idx]], [action |-> "SHUTDOWN_CLOSE"])
    BY <1>7 DEF StopClient
  <2>2. ToServerShrinks
    BY <2>1, QueuesShrink
  <2> DEFINE m == [action |-> "SHUTDOWN_CLOSE"]
             p == conn[sv_fds[idx]]
  <2>3. m \in ToClientPackets /\ m.action # "NOTIFICATION_ACTION" /\ DeliverTo(p, m)
    BY <2>1 DEF ToClientPackets
  <2> HIDE DEF m, p
  <2>4. SentAsked'
    <3>1. CASE p \in Clients
      BY <1>1, <2>1, <2>3, <3>1, DeliverSent
    <3>2. CASE p \notin Clients
      <4>1. \A q \in Clients : toClient'[q] = toClient[q]
        BY <2>3, <3>2 DEF DeliverTo, IInv, TypeOK, SocketsTypeOK
      <4>2. ToClientShrinks
        BY <4>1 DEF ToClientShrinks
      <4> QED
        BY <1>1, <2>1, <4>2, SentKept
    <3> QED
      BY <3>1, <3>2
  <2> QED
    BY <1>1, <2>1, <2>2, <2>4, CommandsKept, TopicsKept, PendingKept, ShownKept
    DEF DeliveryInv
<1>8. CASE ClientMessageDies
  <2>1. PICK k \in DOMAIN sv_fds : PacketReadyAt(k) /\ TakeFrom(conn[sv_fds[k]])
    BY <1>8 DEF ClientMessageDies
  <2>2. Serving /\ toServer[conn[sv_fds[k]]] # <<>>
    BY <2>1 DEF PacketReadyAt, Serving, Alive
  <2>3. conn[sv_fds[k]] \in Clients
    BY <2>2, PolledFacts
  <2>4. pc' = "dead" /\ UNCHANGED <<toClient, subs, aliased>>
    BY <1>8 DEF ClientMessageDies, Halt
  <2>5. ToServerShrinks /\ ToClientShrinks
    BY <2>1, <2>2, <2>3, <2>4, QueuesShrink
  <2> QED
    BY <1>1, <2>4, <2>5, CommandsKept, TopicsKept, PendingKept, SentKept, ShownKept
    DEF DeliveryInv
<1>9. CASE \/ ReadStdin \/ Accept \/ StartRound \/ EndRound \/ AcceptFails
           \/ NotificationSigpipe \/ NotificationBadFd \/ ConnectEof \/ ClientEof
           \/ StopSigpipe \/ StopServer
  <2>1. UNCHANGED <<toServer, toClient, subs, aliased>> /\ pc' # "notify"
    BY <1>9 DEF ReadStdin, Accept, StartRound, EndRound, AcceptFails, NotificationSigpipe,
                NotificationBadFd, ConnectEof, ClientEof, StopSigpipe, StopServer, Halt, Spin
  <2>2. ToServerShrinks /\ ToClientShrinks
    BY <2>1, QueuesShrink
  <2> QED
    BY <1>1, <2>1, <2>2, CommandsKept, TopicsKept, PendingKept, SentKept, ShownKept
    DEF DeliveryInv
<1> QED
  BY <1>2, <1>3, <1>4, <1>5, <1>6, <1>7, <1>8, <1>9 DEF ServerStep

\* Every step of the system.
LEMMA NextDelivery == IInv /\ RecordInv /\ DeliveryInv /\ [Next]_vars => DeliveryInv'
<1> SUFFICES ASSUME IInv, RecordInv, DeliveryInv, [Next]_vars PROVE DeliveryInv'
  OBVIOUS
<1>1. CASE ServerStep /\ UNCHANGED cliVars
  BY <1>1, ServerDelivery
<1>2. CASE \E p \in Clients : (ClientStep(p) \/ UserStep(p)) /\ UNCHANGED srvVars
  BY <1>2, ClientDelivery
<1>3. CASE (\E t \in Topics : Publish(t)) \/ OperatorExit \/ UNCHANGED vars
  <2>1. UNCHANGED <<toServer, toClient, subs, aliased, asked, shown, pc, pending, dgram>>
    BY <1>3 DEF Publish, OperatorExit, vars
  <2>2. AskedGrows /\ ToServerShrinks /\ ToClientShrinks
    BY <2>1, QueuesShrink DEF AskedGrows
  <2> QED
    BY <2>1, <2>2, CommandsKept, TopicsKept, PendingKept, SentKept, ShownKept DEF DeliveryInv
<1>4. CASE Resets
  <2>1. UNCHANGED <<subs, aliased, asked, shown, pc, pending, dgram>>
    BY <1>4 DEF Resets
  <2>2. AskedGrows /\ ToServerShrinks /\ ToClientShrinks
    BY <1>4, <2>1, ResetsShrink DEF AskedGrows
  <2> QED
    BY <2>1, <2>2, CommandsKept, TopicsKept, PendingKept, SentKept, ShownKept DEF DeliveryInv
<1> QED
  BY <1>1, <1>2, <1>3, <1>4 DEF Next, Resets

\* Nobody is shown a datagram that no run with his id has asked for: not on the
\* way of the command into a record, not in the lookup, and not on the way of
\* the notification back (server.cpp:162-190, 297-304).
THEOREM NothingUnsolicited == Spec => []NoUnsolicited
<1>1. Init => DeliveryInv
  <2> SUFFICES ASSUME Init PROVE DeliveryInv
    OBVIOUS
  <2>1. /\ subs = <<>> /\ pc = "poll"
        /\ \A p \in Clients : toServer[p] = <<>> /\ toClient[p] = <<>> /\ shown[p] = <<>>
    BY DEF Init, SocketsInit, ServerInit, SubscriberInit
  <2>2. CommandsAsked
    BY <2>1, EmptyFacts DEF CommandsAsked
  <2>3. TopicsAsked /\ PendingAsked
    BY <2>1, EmptyFacts DEF TopicsAsked, PendingAsked
  <2>4. SentAsked /\ ShownAsked
    BY <2>1, EmptyFacts DEF SentAsked, ShownAsked
  <2> QED
    BY <2>2, <2>3, <2>4 DEF DeliveryInv
<1>2. DeliveryInv => NoUnsolicited
  BY DEF DeliveryInv, ShownAsked, NoUnsolicited, AskedAbout, AskedFor
<1> QED
  BY <1>1, <1>2, NextDelivery, RecordInvariance, Invariance, PTL DEF Spec
=============================================================================
