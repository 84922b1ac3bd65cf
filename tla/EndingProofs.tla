---------------------------- MODULE EndingProofs ----------------------------
(***************************************************************************)
(* Proofs about how programs end: whom shutdown_server() reaches, and that *)
(* a server caught in recv() has lost a subscriber that was killed, or his *)
(* goodbye to a reset.                                                     *)
(***************************************************************************)
EXTENDS RecordProofs

USE DEF sockVars, srvVars, cliVars

\* The last packet of a queue.
LEMMA LastFacts ==
  ASSUME NEW S, NEW s \in Seq(S)
  PROVE  /\ \A e \in S : Append(s, e) # <<>> /\ Last(Append(s, e)) = e
         /\ s # <<>> => Len(s) \in DOMAIN s /\ Last(s) = s[Len(s)]
         /\ s # <<>> => IF Tail(s) = <<>> THEN Last(s) = Head(s) ELSE Last(Tail(s)) = Last(s)
<1>1. ASSUME NEW e \in S PROVE Append(s, e) # <<>> /\ Last(Append(s, e)) = e
  BY AppendFacts DEF Last
<1>2. s # <<>> => Len(s) \in DOMAIN s /\ Last(s) = s[Len(s)]
  BY EmptySeq, LenProperties DEF Last
<1>3. ASSUME s # <<>>
      PROVE  IF Tail(s) = <<>> THEN Last(s) = Head(s) ELSE Last(Tail(s)) = Last(s)
  <2> DEFINE t == Tail(s)
  <2>1. /\ t \in Seq(S) /\ Len(t) = Len(s) - 1 /\ Head(s) = s[1]
        /\ DOMAIN t = 1 .. Len(s) - 1 /\ Len(s) \in Nat
        /\ \A k \in DOMAIN t : t[k] = s[k + 1]
    BY <1>3, TailFacts, LenProperties
  <2> HIDE DEF t
  <2>2. CASE t = <<>>
    <3>1. Len(t) = 0
      BY <2>1, <2>2, EmptySeq
    <3>2. Len(s) = 1
      BY <2>1, <3>1
    <3> QED
      BY <2>1, <2>2, <3>2 DEF Last, t
  <2>3. CASE t # <<>>
    <3>1. Len(t) \in DOMAIN t
      BY <2>1, <2>3, EmptySeq, LenProperties
    <3>2. t[Len(t)] = s[Len(t) + 1] /\ Len(t) + 1 = Len(s)
      BY <2>1, <3>1
    <3> QED
      BY <2>3, <3>2 DEF Last, t
  <2> QED
    BY <2>2, <2>3
<1> QED
  BY <1>1, <1>2, <1>3

\* A packet before the others.
LEMMA PrependFacts ==
  ASSUME NEW S, NEW s \in Seq(S), NEW e \in S
  PROVE  /\ 1 \in DOMAIN (<<e>> \o s) /\ (<<e>> \o s)[1] = e
         /\ \A n \in DOMAIN s : n + 1 \in DOMAIN (<<e>> \o s) /\ (<<e>> \o s)[n + 1] = s[n]
<1> DEFINE a == <<e>>
<1>1. a \in Seq(S) /\ Len(a) = 1 /\ a[1] = e
  OBVIOUS
<1> HIDE DEF a
<1>2. /\ a \o s \in Seq(S) /\ Len(a \o s) = 1 + Len(s)
      /\ \A j \in 1 .. 1 + Len(s) : (a \o s)[j] = IF j <= 1 THEN a[j] ELSE s[j - 1]
  <2>1. /\ a \o s \in Seq(S) /\ Len(a \o s) = Len(a) + Len(s)
        /\ \A j \in 1 .. Len(a) + Len(s) :
             (a \o s)[j] = IF j <= Len(a) THEN a[j] ELSE s[j - Len(a)]
    BY <1>1, ConcatProperties
  <2> QED
    BY <1>1, <2>1
<1>3. DOMAIN (a \o s) = 1 .. 1 + Len(s) /\ DOMAIN s = 1 .. Len(s) /\ Len(s) \in Nat
  BY <1>2, LenProperties
<1>4. 1 \in 1 .. 1 + Len(s) /\ 1 <= 1
  BY <1>3
<1>5. ASSUME NEW n \in DOMAIN s PROVE n + 1 \in DOMAIN (a \o s) /\ (a \o s)[n + 1] = s[n]
  <2>1. PICK x : x = n + 1
    OBVIOUS
  <2>2. x \in 1 .. 1 + Len(s) /\ ~(x <= 1) /\ x - 1 = n
    BY <1>3, <2>1
  <2> QED
    BY <1>2, <1>3, <2>1, <2>2
<1>6. 1 \in DOMAIN (a \o s) /\ (a \o s)[1] = e
  BY <1>1, <1>2, <1>3, <1>4
<1> QED
  BY <1>5, <1>6 DEF a

\* A step of p is p's own affair.
LEMMA ClientFrame ==
  ASSUME IInv, NEW p \in Clients, ClientStep(p) \/ UserStep(p)
  PROVE  /\ UNCHANGED <<conn, lost, missed>> /\ cl[p] \in {"off", "connecting", "run", "leaving"}
         /\ cl'[p] # "off" /\ (cl[p] = "leaving" => cl'[p] = "gone")
         /\ toServer[p] # <<>> => toServer'[p] # <<>>
         /\ \A q \in Clients : q # p =>
              /\ cl'[q] = cl[q] /\ peer'[q] = peer[q]
              /\ toClient'[q] = toClient[q] /\ toServer'[q] = toServer[q]
<1>1. /\ cl \in [Clients -> ClientPhases] /\ peer \in [Clients -> {"none", "open", "closed"}]
      /\ toClient \in [Clients -> Seq(ToClientPackets)]
      /\ toServer \in [Clients -> Seq(ToServerPackets)]
  BY DEF IInv, TypeOK, SocketsTypeOK, SubscriberTypeOK
<1>2. /\ UNCHANGED <<conn, lost, missed>> /\ cl[p] \in {"off", "connecting", "run", "leaving"}
  BY DEF ClientStep, UserStep, Connect, ConnectRefused, SendConnect, Subscribe, Unsubscribe, Exit,
         CloseAfterExit, ClientSigpipe, Kill, ReceiveNotification, ReceiveShutdown, ReceiveEof, Type
<1>3. \/ cl' = cl /\ cl[p] = "run"
      \/ cl[p] # "leaving" /\ \E c \in {"connecting", "run", "leaving", "spin"} : cl' = [cl EXCEPT ![p] = c]
      \/ cl' = [cl EXCEPT ![p] = "gone"]
  BY DEF ClientStep, UserStep, Connect, ConnectRefused, SendConnect, Subscribe, Unsubscribe, Exit,
         CloseAfterExit, ClientSigpipe, Kill, ReceiveNotification, ReceiveShutdown, ReceiveEof, Type
<1>4. peer' = peer \/ \E x : peer' = [peer EXCEPT ![p] = x]
  BY DEF ClientStep, UserStep, Connect, ConnectRefused, SendConnect, Subscribe, Unsubscribe, Exit,
         CloseAfterExit, ClientSigpipe, Kill, ReceiveNotification, ReceiveShutdown, ReceiveEof,
         CloseClientEnd
<1>5. toClient' = toClient \/ \E x : toClient' = [toClient EXCEPT ![p] = x]
  BY DEF ClientStep, UserStep, Connect, ConnectRefused, SendConnect, Subscribe, Unsubscribe, Exit,
         CloseAfterExit, ClientSigpipe, Kill, ReceiveNotification, ReceiveShutdown, ReceiveEof,
         CloseClientEnd
<1>6. toServer' = toServer \/ \E m \in ToServerPackets : SendToServer(p, m)
  BY SocketsAssumption
  DEF ClientStep, UserStep, Connect, ConnectRefused, SendConnect, Subscribe, Unsubscribe, Exit,
      CloseAfterExit, ClientSigpipe, Kill, ReceiveNotification, ReceiveShutdown, ReceiveEof,
      ToServerPackets
<1>7. toServer' = toServer \/ \E m \in ToServerPackets : toServer' = [toServer EXCEPT ![p] = Append(toServer[p], m)]
  BY <1>6 DEF SendToServer
<1>8. /\ toServer[p] # <<>> => toServer'[p] # <<>>
      /\ \A q \in Clients : q # p => toServer'[q] = toServer[q]
  <2>1. CASE toServer' = toServer
    BY <2>1
  <2>2. ASSUME NEW m \in ToServerPackets, toServer' = [toServer EXCEPT ![p] = Append(toServer[p], m)]
        PROVE  toServer'[p] # <<>> /\ \A q \in Clients : q # p => toServer'[q] = toServer[q]
    <3>1. toServer'[p] = Append(toServer[p], m) /\ toServer[p] \in Seq(ToServerPackets)
      BY <1>1, <2>2
    <3>2. toServer'[p] # <<>>
      BY <3>1, LastFacts
    <3> QED
      BY <1>1, <2>2, <3>2
  <2> QED
    BY <1>7, <2>1, <2>2
<1>9. cl'[p] # "off" /\ (cl[p] = "leaving" => cl'[p] = "gone")
      /\ \A q \in Clients : q # p => cl'[q] = cl[q]
  BY <1>1, <1>3
<1> QED
  BY <1>1, <1>2, <1>4, <1>5, <1>8, <1>9

-----------------------------------------------------------------------------
(***************************************************************************)
(* shutdown_server().                                                      *)
(***************************************************************************)

\* handle_shutdown() has begun, or the program has ended.
Going(p) == cl[p] \in {"leaving", "gone"}

\* handle_shutdown() says goodbye, and nothing else does.
GoodbyeMeansGoing ==
  \A p \in Clients : \A n \in DOMAIN toServer[p] :
    toServer[p][n].action = "SHUTDOWN_CLOSE" => Going(p)

\* Only a connection whose end at the server is closed loses what the server
\* has sent.  That end does not open again, so what the run has sent and the
\* server has not read remains unread.
CutOffIsClosed ==
  \A p \in Clients : missed[p] # <<>> => ~ServerEndOpen(p) /\ cl[p] # "off"

\* p is on his way out, or will find that he has to go, unless that was lost.
Told(p) ==
  \/ Going(p)
  \/ toClient[p] # <<>> /\ Last(toClient[p]).action = "SHUTDOWN_CLOSE"
  \/ CutOffUnread(p, "SHUTDOWN_CLOSE")

\* Whoever was admitted is leaving, has left or is polled; the shutdown still
\* has him before it or has told him.
AdmittedArePolled == Serving => \A p \in admitted : Going(p) \/ Polled(p)
ToBeTold ==
  pc = "stop" => \A p \in admitted :
    Told(p) \/ \E k \in DOMAIN sv_fds : idx <= k /\ conn[sv_fds[k]] = p
AllTold == why = "exit" => pc = "dead" /\ \A p \in admitted : Told(p)

StopInv == GoodbyeMeansGoing /\ CutOffIsClosed /\ AdmittedArePolled /\ ToBeTold /\ AllTold

\* The subscribers: who was told remains told until he is gone.
LEMMA ClientStop ==
  ASSUME IInv, RunningIsOpen, StopInv, UNCHANGED srvVars, NEW p \in Clients, ClientStep(p) \/ UserStep(p)
  PROVE  StopInv'
<1>1. /\ cl \in [Clients -> ClientPhases] /\ peer \in [Clients -> {"none", "open", "closed"}]
      /\ toClient \in [Clients -> Seq(ToClientPackets)]
      /\ toServer \in [Clients -> Seq(ToServerPackets)]
      /\ admitted \subseteq Clients
  BY DEF IInv, TypeOK, SocketsTypeOK, SubscriberTypeOK, ServerTypeOK
<1>2. /\ UNCHANGED <<conn, missed>> /\ cl[p] \in {"off", "connecting", "run", "leaving"}
      /\ cl'[p] # "off" /\ (cl[p] = "leaving" => cl'[p] = "gone")
      /\ toServer[p] # <<>> => toServer'[p] # <<>>
      /\ \A q \in Clients : q # p =>
           /\ cl'[q] = cl[q] /\ peer'[q] = peer[q]
           /\ toClient'[q] = toClient[q] /\ toServer'[q] = toServer[q]
  BY ClientFrame
<1>3. \A q \in Clients : Going(q) => Going(q)'
  BY <1>2 DEF Going
<1>4. GoodbyeMeansGoing'
  <2>1. \/ toServer'[p] = toServer[p]
        \/ \E m \in ToServerPackets :
             /\ toServer'[p] = Append(toServer[p], m)
             /\ m.action = "SHUTDOWN_CLOSE" => cl'[p] = "leaving"
    <3>1. CASE SendConnect(p)
      <4> DEFINE m == [action |-> "CONNECT_ACTION", id |-> IdOf[p]]
      <4>1. m \in ToServerPackets /\ m.action # "SHUTDOWN_CLOSE" /\ SendToServer(p, m)
        BY <3>1, SocketsAssumption DEF ToServerPackets, SendConnect
      <4> HIDE DEF m
      <4> QED
        BY <1>1, <4>1 DEF SendToServer
    <3>2. CASE \E t \in Patterns : Subscribe(p, t) \/ Unsubscribe(p, t)
      <4>1. PICK m \in ToServerPackets : m.action # "SHUTDOWN_CLOSE" /\ SendToServer(p, m)
        BY <3>2 DEF ToServerPackets, Subscribe, Unsubscribe
      <4> QED
        BY <1>1, <4>1 DEF SendToServer
    <3>3. CASE Exit(p)
      <4> DEFINE m == [action |-> "SHUTDOWN_CLOSE"]
      <4>1. m \in ToServerPackets /\ SendToServer(p, m) /\ cl' = [cl EXCEPT ![p] = "leaving"]
        BY <3>3 DEF ToServerPackets, Exit
      <4> HIDE DEF m
      <4> QED
        BY <1>1, <4>1 DEF SendToServer
    <3>4. CASE \/ Connect(p) \/ ConnectRefused(p) \/ ClientSigpipe(p) \/ Kill(p)
               \/ ReceiveNotification(p) \/ ReceiveShutdown(p) \/ ReceiveEof(p)
               \/ CloseAfterExit(p)
      BY <3>4 DEF Connect, ConnectRefused, ClientSigpipe, Kill, ReceiveNotification,
                  ReceiveShutdown, ReceiveEof, CloseAfterExit
    <3> QED
      BY <3>1, <3>2, <3>3, <3>4 DEF ClientStep, UserStep
  <2> SUFFICES ASSUME NEW q \in Clients, NEW n \in DOMAIN toServer'[q],
                      toServer'[q][n].action = "SHUTDOWN_CLOSE"
               PROVE  Going(q)'
    BY DEF GoodbyeMeansGoing
  <2>2. CASE toServer'[q] = toServer[q]
    BY <1>3, <2>2 DEF StopInv, GoodbyeMeansGoing
  <2>3. CASE toServer'[q] # toServer[q]
    <3>1. q = p
      BY <1>2, <2>3
    <3>2. PICK m \in ToServerPackets :
            /\ toServer'[p] = Append(toServer[p], m)
            /\ m.action = "SHUTDOWN_CLOSE" => cl'[p] = "leaving"
      BY <2>1, <2>3, <3>1
    <3>3. toServer[p] \in Seq(ToServerPackets)
      BY <1>1
    <3>4. /\ DOMAIN toServer'[p] = 1 .. Len(toServer[p]) + 1
          /\ DOMAIN toServer[p] = 1 .. Len(toServer[p]) /\ Len(toServer[p]) \in Nat
          /\ \A k \in DOMAIN toServer[p] : toServer'[p][k] = toServer[p][k]
          /\ toServer'[p][Len(toServer[p]) + 1] = m
      BY <3>2, <3>3, AppendFacts, LenProperties
    <3>5. CASE n \in DOMAIN toServer[p]
      BY <1>3, <3>1, <3>4, <3>5 DEF StopInv, GoodbyeMeansGoing
    <3>6. CASE n = Len(toServer[p]) + 1
      BY <3>1, <3>2, <3>4, <3>6 DEF Going
    <3> QED
      BY <3>1, <3>4, <3>5, <3>6
  <2> QED
    BY <2>2, <2>3
<1>5. CutOffIsClosed'
  <2>1. ASSUME NEW q \in Clients, cl[q] # "off" PROVE ServerEndOpen(q)' => ServerEndOpen(q)
    <3>1. CASE Connect(p)
      <4>1. /\ cl[p] = "off" /\ backlog' = Append(backlog, p) /\ backlog \in Seq(Clients)
            /\ UNCHANGED conn
        BY <3>1 DEF Connect, IInv, TypeOK, SocketsTypeOK
      <4>2. /\ DOMAIN backlog' = 1 .. Len(backlog) + 1 /\ DOMAIN backlog = 1 .. Len(backlog)
            /\ \A k \in DOMAIN backlog : backlog'[k] = backlog[k]
            /\ backlog'[Len(backlog) + 1] = p /\ Len(backlog) \in Nat
        BY <4>1, AppendFacts, LenProperties
      <4>3. \A k \in DOMAIN backlog' :
              backlog'[k] = p \/ (k \in DOMAIN backlog /\ backlog'[k] = backlog[k])
        BY <4>2
      <4> QED
        BY <2>1, <4>1, <4>3 DEF ServerEndOpen
    <3>2. CASE ~Connect(p)
      <4>1. UNCHANGED <<conn, backlog>>
        BY <3>2 DEF ClientStep, UserStep, ConnectRefused, SendConnect, Subscribe, Unsubscribe,
           Exit, CloseAfterExit, ClientSigpipe, Kill, ReceiveNotification, ReceiveShutdown,
           ReceiveEof
      <4> QED
        BY <4>1 DEF ServerEndOpen
    <3> QED
      BY <3>1, <3>2
  <2>2. \A q \in Clients : cl[q] # "off" => cl'[q] # "off"
    BY <1>2
  <2> QED
    BY <1>2, <2>1, <2>2 DEF StopInv, CutOffIsClosed
<1>6. \A q \in Clients : Told(q) => Told(q)'
  <2>1. \A q \in Clients : CutOffUnread(q, "SHUTDOWN_CLOSE") => CutOffUnread(q, "SHUTDOWN_CLOSE")'
    BY <1>2 DEF CutOffUnread
  <2>2. \A q \in Clients : q # p => (Told(q) => Told(q)')
    BY <1>2, <2>1 DEF Told, Going
  <2>3. CASE Going(p)'
    BY <2>2, <2>3 DEF Told
  <2>4. CASE toClient'[p] = toClient[p]
    BY <1>3, <2>1, <2>2, <2>4 DEF Told
  <2>5. CASE ReceiveNotification(p)
    <3>1. /\ toClient[p] # <<>> /\ Head(toClient[p]).action = "NOTIFICATION_ACTION"
          /\ toClient'[p] = Tail(toClient[p]) /\ toClient[p] \in Seq(ToClientPackets)
      BY <1>1, <2>5 DEF ReceiveNotification
    <3>2. Told(p) => Told(p)'
      BY <1>3, <2>1, <3>1, LastFacts DEF Told
    <3> QED
      BY <2>2, <3>2
  <2>6. Going(p)' \/ toClient'[p] = toClient[p] \/ ReceiveNotification(p)
    BY <1>1 DEF ClientStep, UserStep, Connect, ConnectRefused, SendConnect, Subscribe, Unsubscribe, Exit,
           CloseAfterExit, ClientSigpipe, Kill, ReceiveShutdown, ReceiveEof, Type, Going
  <2> QED
    BY <2>3, <2>4, <2>5, <2>6
<1>7. AdmittedArePolled'
  BY <1>1, <1>2, <1>3 DEF StopInv, AdmittedArePolled, Serving, Alive, Polled, Session
<1>8. ToBeTold' /\ AllTold'
  BY <1>1, <1>2, <1>6 DEF StopInv, ToBeTold, AllTold
<1> QED
  BY <1>4, <1>5, <1>7, <1>8 DEF StopInv

\* The server takes packets out of its sockets and puts none in.
LEMMA ServerTakes ==
  ASSUME IInv, ServerStep
  PROVE  ToServerShrinks /\ UNCHANGED peer
<1>1. CASE Reconnect \/ AddNewSub \/ RefuseIntruder
  <2>1. ConnectArrives /\ TakeFrom(conn[cur]) /\ UNCHANGED peer
    BY <1>1 DEF Reconnect, AddNewSub, RefuseIntruder, PollNewConnection
  <2>2. conn[cur] \in Clients /\ toServer[conn[cur]] # <<>>
    BY <2>1, ConnectFacts
  <2> QED
    BY <2>1, <2>2, QueuesShrink
<1>2. CASE ParseClientMessage \/ ClientMessageDies
  <2>1. PICK k \in DOMAIN sv_fds : PacketReadyAt(k) /\ TakeFrom(conn[sv_fds[k]])
    BY <1>2 DEF ParseClientMessage, ClientMessageDies
  <2>2. Serving /\ toServer[conn[sv_fds[k]]] # <<>>
    BY <2>1 DEF PacketReadyAt, Serving, Alive
  <2>3. conn[sv_fds[k]] \in Clients
    BY <2>2, PolledFacts
  <2>4. UNCHANGED peer
    BY <1>2 DEF ParseClientMessage, ClientMessageDies
  <2> QED
    BY <2>1, <2>2, <2>3, <2>4, QueuesShrink
<1>3. CASE \/ ReadStdin \/ Accept \/ StartRound \/ EndRound \/ AcceptFails
           \/ ReceiveDatagram \/ SendNotification \/ StopClient
           \/ NotificationSigpipe \/ NotificationBadFd \/ ConnectEof \/ ClientEof
           \/ StopSigpipe \/ StopServer
  <2>1. UNCHANGED <<toServer, peer>>
    BY <1>3 DEF ReadStdin, Accept, StartRound, EndRound, AcceptFails, ReceiveDatagram,
                SendNotification, StopClient, NotificationSigpipe,
                NotificationBadFd, ConnectEof, ClientEof, StopSigpipe, StopServer
  <2> QED
    BY <2>1, QueuesShrink
<1> QED
  BY <1>1, <1>2, <1>3 DEF ServerStep

\* The server opens no connection: accept() takes over one that is there.
LEMMA ServerOpensNone ==
  ASSUME IInv, ServerStep, NEW p \in Clients, ServerEndOpen(p)'
  PROVE  ServerEndOpen(p)
<1>1. conn \in [Fds -> Clients \cup {None}] /\ backlog \in Seq(Clients)
  BY DEF IInv, TypeOK, SocketsTypeOK
<1>2. CASE Accept
  <2>1. PICK f \in Fds : conn' = [conn EXCEPT ![f] = Head(backlog)]
    BY <1>2 DEF Accept
  <2>2. backlog # <<>> /\ backlog' = Tail(backlog)
    BY <1>2 DEF Accept
  <2>3. /\ 1 \in DOMAIN backlog /\ Head(backlog) = backlog[1]
        /\ \A k \in DOMAIN backlog' : k + 1 \in DOMAIN backlog /\ backlog'[k] = backlog[k + 1]
    BY <1>1, <2>2, TailFacts
  <2>4. \A g \in Fds : conn'[g] = conn[g] \/ conn'[g] = backlog[1]
    BY <1>1, <2>1, <2>3
  <2> QED
    BY <2>3, <2>4 DEF ServerEndOpen
<1>3. CASE ~Accept
  <2>1. UNCHANGED backlog \/ backlog' = <<>>
    BY <1>3 DEF ServerStep, ReadStdin, AcceptFails, Reconnect, AddNewSub, PollNewConnection,
       RefuseIntruder, ConnectEof, ReceiveDatagram, SendNotification, NotificationSigpipe,
       NotificationBadFd, StartRound, ParseClientMessage, ClientMessageDies, ClientEof, EndRound,
       StopClient, StopSigpipe, StopServer, Halt, Spin, CloseServerEnds
  <2>2. \/ UNCHANGED conn \/ conn' = [f \in Fds |-> None]
        \/ \E f : conn' = [conn EXCEPT ![f] = None]
    <3>1. CASE ParseClientMessage
      <4>1. PICK k, i : SessionGoesOn(k, i) \/ SessionEnds(k, i)
        BY <3>1, MessageFacts
      <4> QED
        BY <4>1 DEF SessionGoesOn, SessionEnds
    <3>2. CASE ~ParseClientMessage
      BY <1>3, <3>2 DEF ServerStep, ReadStdin, AcceptFails, Reconnect, AddNewSub,
         PollNewConnection, RefuseIntruder, ConnectEof, ReceiveDatagram, SendNotification,
         NotificationSigpipe, NotificationBadFd, StartRound, ClientMessageDies, ClientEof,
         EndRound, StopClient, StopSigpipe, StopServer, Halt, Spin, CloseServerEnds
    <3> QED
      BY <3>1, <3>2
  <2>3. \A f \in Fds : conn'[f] = p => conn[f] = p
    BY <1>1, <2>2, SocketsAssumption
  <2>4. \A k \in DOMAIN backlog' : backlog'[k] = p => k \in DOMAIN backlog /\ backlog[k] = p
    BY <2>1, EmptyFacts
  <2> QED
    BY <2>3, <2>4 DEF ServerEndOpen
<1> QED
  BY <1>2, <1>3

\* Handling a message: an entry is given up only for a run that is on his way
\* out.
LEMMA MessageStop ==
  ASSUME IInv, StopInv, UNCHANGED cliVars, ParseClientMessage
  PROVE  AdmittedArePolled'
<1>1. UNCHANGED <<pc, admitted>>
  BY DEF ParseClientMessage
<1>2. PICK k, i : MessageHandled(k, i) /\ (SessionGoesOn(k, i) \/ SessionEnds(k, i))
  BY MessageFacts
<1>3. /\ Serving /\ k \in DOMAIN sv_fds /\ toServer[conn[sv_fds[k]]] # <<>>
  BY <1>2 DEF MessageHandled, PacketReadyAt, Serving, Alive
<1>4. conn[sv_fds[k]] \in Clients /\ admitted \subseteq Clients
  BY <1>3, PolledFacts DEF IInv, TypeOK, ServerTypeOK
<1>5. conn \in [Fds -> Clients \cup {None}] /\ \A j \in DOMAIN sv_fds : sv_fds[j] \in Fds
  BY <1>3, PolledFacts DEF IInv, TypeOK, SocketsTypeOK
<1>6. CASE SessionGoesOn(k, i)
  BY <1>1, <1>3, <1>6 DEF StopInv, AdmittedArePolled, Going, Polled, Session, SessionGoesOn
<1>7. CASE SessionEnds(k, i)
  <2>1. Going(conn[sv_fds[k]])
    <3> DEFINE p == conn[sv_fds[k]]
    <3>1. 1 \in DOMAIN toServer[p] /\ PacketAt(k) = toServer[p][1]
      BY <1>3, <1>4, DeliveryTypes, TailFacts DEF PacketAt
    <3>2. PacketAt(k).action = "SHUTDOWN_CLOSE" /\ p \in Clients
      BY <1>4, <1>7 DEF SessionEnds
    <3> HIDE DEF p
    <3>3. Going(p)
      BY <3>1, <3>2 DEF StopInv, GoodbyeMeansGoing
    <3> QED
      BY <3>3 DEF p
  <2> SUFFICES ASSUME NEW p \in admitted, ~Going(p)
               PROVE  \E n \in DOMAIN sv_fds' : conn'[sv_fds'[n]] = p
    BY <1>1, <1>3 DEF AdmittedArePolled, Polled, Session, Going
  <2>2. PICK j \in DOMAIN sv_fds : conn[sv_fds[j]] = p
    BY <1>3 DEF StopInv, AdmittedArePolled, Polled, Session
  <2>3. sv_fds[j] # sv_fds[k] /\ j # k
    BY <2>1, <2>2
  <2>4. conn'[sv_fds[j]] = p
    BY <1>5, <1>7, <2>2, <2>3 DEF SessionEnds
  <2>5. PICK n \in DOMAIN sv_fds' : sv_fds'[n] = sv_fds[j]
    BY <1>7, <2>3 DEF SessionEnds
  <2> QED
    BY <2>4, <2>5
<1> QED
  BY <1>2, <1>6, <1>7

\* One turn of the loop: the run at idx is told; the others are still ahead.
LEMMA StopClientTells ==
  ASSUME IInv, RunningIsOpen, AdmissionInv, StopInv, UNCHANGED cliVars, StopClient
  PROVE  ToBeTold'
<1> DEFINE f == sv_fds[idx]
           m == [action |-> "SHUTDOWN_CLOSE"]
<1>1. /\ pc = "stop" /\ DeliverTo(conn[f], m)
      /\ conn' = [conn EXCEPT ![f] = None]
      /\ idx' = idx + 1
      /\ UNCHANGED <<sv_fds, admitted, toServer, missed>>
  BY DEF StopClient
<1>2. m \in ToClientPackets /\ m.action = "SHUTDOWN_CLOSE"
  BY DEF ToClientPackets
<1>3. /\ toClient \in [Clients -> Seq(ToClientPackets)] /\ admitted \subseteq Clients
      /\ cl \in [Clients -> ClientPhases] /\ idx \in Nat /\ sv_fds \in Seq(Fds)
      /\ conn \in [Fds -> Clients \cup {None}]
  BY DEF IInv, TypeOK, SocketsTypeOK, ServerTypeOK, SubscriberTypeOK
<1> HIDE DEF f, m
<1>4. \A p \in Clients : \/ toClient'[p] = toClient[p]
                         \/ toClient'[p] = Append(toClient[p], m)
  <2>1. toClient' = toClient \/ toClient' = [toClient EXCEPT ![conn[f]] = Append(toClient[conn[f]], m)]
    BY <1>1 DEF DeliverTo
  <2> QED
    BY <1>3, <2>1
<1>5. \A p \in Clients : Told(p) => Told(p)'
  <2>1. ASSUME NEW p \in Clients
        PROVE  Append(toClient[p], m) # <<>> /\ Last(Append(toClient[p], m)) = m
    <3>1. toClient[p] \in Seq(ToClientPackets)
      BY <1>3
    <3> QED
      BY <1>2, <3>1, LastFacts
  <2> QED
    BY <1>1, <1>2, <1>4, <2>1 DEF Told, Going, CutOffUnread
<1>6. ASSUME NEW p \in admitted, conn[f] = p PROVE Told(p)'
  <2>1. CASE peer[p] = "open"
    <3>1. toClient'[p] = Append(toClient[p], m)
      BY <1>1, <1>3, <1>6, <2>1 DEF DeliverTo
    <3> QED
      BY <1>2, <1>3, <3>1, LastFacts DEF Told
  <2>2. CASE peer[p] # "open"
    <3>1. cl[p] = "gone"
      BY <1>3, <2>2 DEF RunningIsOpen, AdmissionInv, AdmittedOnce, ClientPhases
    <3> QED
      BY <3>1 DEF Told, Going
  <2> QED
    BY <2>1, <2>2
<1>7. ASSUME NEW p \in admitted, ~Told(p)'
      PROVE  \E k \in DOMAIN sv_fds : idx + 1 <= k /\ conn'[sv_fds[k]] = p
  <2>1. PICK k \in DOMAIN sv_fds : idx <= k /\ conn[sv_fds[k]] = p
    BY <1>1, <1>3, <1>5, <1>7 DEF StopInv, ToBeTold
  <2>2. sv_fds[k] # f /\ k # idx
    BY <1>6, <1>7, <2>1 DEF f
  <2>3. sv_fds[k] \in Fds /\ k \in Nat
    BY <1>3, LenProperties, ElementOfSeq
  <2>4. idx + 1 <= k
    BY <1>3, <2>1, <2>2, <2>3
  <2>5. conn'[sv_fds[k]] = p
    BY <1>1, <1>3, <2>1, <2>2, <2>3
  <2> QED
    BY <2>4, <2>5
<1> QED
  BY <1>1, <1>7 DEF ToBeTold

\* What stays polled, whoever is accepted, admitted or forwarded to.
LEMMA StaysPolled ==
  ASSUME IInv, AdmissionInv, StopInv, UNCHANGED cliVars, ServerStep
  PROVE  AdmittedArePolled'
<1>1. CASE ParseClientMessage
  BY <1>1, MessageStop
<1>2. CASE Reconnect \/ AddNewSub
  <2>1. ConnectArrives /\ \E i : PollNewConnection(i)
    BY <1>2 DEF Reconnect, AddNewSub
  <2>2. sv_fds' = Append(sv_fds, cur) /\ admitted' = admitted \cup {conn[cur]} /\ UNCHANGED conn
    BY <2>1 DEF PollNewConnection
  <2>3. Serving /\ cur \in Fds /\ sv_fds \in Seq(Fds)
    BY <2>1, ConnectFacts DEF ConnectArrives, Serving, Alive, IInv, TypeOK, ServerTypeOK
  <2>4. /\ \A k \in DOMAIN sv_fds : k \in DOMAIN sv_fds' /\ sv_fds'[k] = sv_fds[k]
        /\ \E k \in DOMAIN sv_fds' : sv_fds'[k] = cur
    <3>1. /\ DOMAIN sv_fds' = 1 .. Len(sv_fds) + 1 /\ DOMAIN sv_fds = 1 .. Len(sv_fds)
          /\ \A k \in DOMAIN sv_fds : sv_fds'[k] = sv_fds[k]
          /\ sv_fds'[Len(sv_fds) + 1] = cur /\ Len(sv_fds) \in Nat
      BY <2>2, <2>3, AppendFacts, LenProperties
    <3> QED
      BY <3>1
  <2> QED
    BY <2>2, <2>3, <2>4 DEF StopInv, AdmittedArePolled, Going, Polled, Session
<1>3. CASE Accept
  <2>1. PICK f \in Fds : IsLowestFree(f) /\ conn' = [conn EXCEPT ![f] = Head(backlog)]
    BY <1>3 DEF Accept
  <2>2. Serving /\ UNCHANGED <<sv_fds, admitted>>
    BY <1>3 DEF Accept, Serving, Alive
  <2>3. conn \in [Fds -> Clients \cup {None}] /\ conn[f] = None
    BY <2>1 DEF IInv, TypeOK, SocketsTypeOK, IsLowestFree
  <2>4. \A k \in DOMAIN sv_fds : conn[sv_fds[k]] # None /\ sv_fds[k] \in Fds
    BY <2>2, PolledFacts DEF IInv, ServerInv, PolledHasRecord
  <2>5. \A k \in DOMAIN sv_fds : conn'[sv_fds[k]] = conn[sv_fds[k]]
    BY <2>1, <2>3, <2>4
  <2> QED
    BY <2>2, <2>5 DEF StopInv, AdmittedArePolled, Going, Polled, Session
<1>4. CASE ReceiveDatagram \/ SendNotification \/ StartRound \/ EndRound \/ RefuseIntruder
  <2>1. UNCHANGED <<conn, sv_fds, admitted>> /\ pc \in {"poll", "connect", "notify", "clients"}
    BY <1>4 DEF ReceiveDatagram, SendNotification, StartRound, EndRound, RefuseIntruder,
                ConnectArrives
  <2>2. Serving
    BY <2>1 DEF Serving, Alive
  <2> QED
    BY <2>1, <2>2 DEF StopInv, AdmittedArePolled, Going, Polled, Session
<1>5. CASE \/ ReadStdin \/ StopClient \/ AcceptFails \/ NotificationSigpipe
           \/ ClientMessageDies \/ StopSigpipe \/ StopServer
           \/ NotificationBadFd \/ ConnectEof \/ ClientEof
  <2>1. pc' \in {"stop", "dead", "spin"}
    BY <1>5 DEF ReadStdin, StopClient, AcceptFails, NotificationSigpipe, ClientMessageDies, StopSigpipe,
                StopServer, NotificationBadFd, ConnectEof, ClientEof, Halt, Spin
  <2> QED
    BY <2>1 DEF AdmittedArePolled, Serving, Alive
<1> QED
  BY <1>1, <1>2, <1>3, <1>4, <1>5 DEF ServerStep

\* The steps of the server.
LEMMA ServerStop ==
  ASSUME IInv, RunningIsOpen, AdmissionInv, StopInv, UNCHANGED cliVars, ServerStep
  PROVE  StopInv'
<1>1. GoodbyeMeansGoing' /\ CutOffIsClosed'
  <2>1. GoodbyeMeansGoing'
    BY ServerTakes DEF StopInv, GoodbyeMeansGoing, Going, ToServerShrinks
  <2>2. UNCHANGED <<cl, missed>>
    BY DEF ServerStep, ReadStdin, Accept, AcceptFails, Reconnect, AddNewSub, PollNewConnection,
       RefuseIntruder, ConnectEof, ReceiveDatagram, SendNotification, NotificationSigpipe,
       NotificationBadFd, StartRound, ParseClientMessage, ClientMessageDies, ClientEof, EndRound,
       StopClient, StopSigpipe, StopServer
  <2>3. CutOffIsClosed'
    BY <2>2, ServerOpensNone DEF StopInv, CutOffIsClosed
  <2> QED
    BY <2>1, <2>3
<1>2. ToBeTold'
  <2>1. CASE StopClient
    BY <2>1, StopClientTells
  <2>2. CASE ReadStdin
    <3>1. /\ Serving /\ idx' = 1 /\ UNCHANGED <<conn, sv_fds, admitted>>
      BY <2>2 DEF ReadStdin, Serving, Alive
    <3>2. \A k \in DOMAIN sv_fds : 1 <= k
      <4>1. DOMAIN sv_fds = 1 .. Len(sv_fds)
        BY LenProperties DEF IInv, TypeOK, ServerTypeOK
      <4> QED
        BY <4>1
    <3>3. \A p \in admitted : Going(p)' \/ \E k \in DOMAIN sv_fds : conn[sv_fds[k]] = p
      BY <3>1 DEF StopInv, AdmittedArePolled, Polled, Session, Going
    <3> QED
      BY <3>1, <3>2, <3>3 DEF ToBeTold, Told
  <2>3. CASE ~StopClient /\ ~ReadStdin
    <3>1. pc' # "stop"
      BY <2>3 DEF ServerStep, Accept, AcceptFails, Reconnect, AddNewSub, PollNewConnection,
             RefuseIntruder, ConnectEof, ReceiveDatagram, SendNotification, NotificationSigpipe,
             NotificationBadFd, StartRound, ParseClientMessage, PacketReadyAt, ClientMessageDies,
             ClientEof, EndRound, StopSigpipe, StopServer, Halt, Spin
    <3> QED
      BY <3>1 DEF ToBeTold
  <2> QED
    BY <2>1, <2>2, <2>3
<1>3. AllTold'
  <2>1. CASE StopServer
    <3>1. /\ pc = "stop" /\ idx > Len(sv_fds) /\ pc' = "dead"
          /\ UNCHANGED <<toClient, toServer, missed, admitted>>
      BY <2>1 DEF StopServer, Halt
    <3>2. \A k \in DOMAIN sv_fds : ~(idx <= k)
      <4>1. DOMAIN sv_fds = 1 .. Len(sv_fds) /\ Len(sv_fds) \in Nat /\ idx \in Nat
        BY LenProperties DEF IInv, TypeOK, ServerTypeOK
      <4> QED
        BY <3>1, <4>1
    <3> QED
      BY <3>1, <3>2 DEF StopInv, ToBeTold, AllTold, Told, Going, CutOffUnread
  <2>2. CASE ~StopServer
    <3>1. pc # "dead" /\ (why' = why \/ why' # "exit")
      BY <2>2 DEF ServerStep, ReadStdin, Accept, AcceptFails, Reconnect, AddNewSub, ConnectArrives,
             PollNewConnection, RefuseIntruder, ConnectEof, ReceiveDatagram, SendNotification,
             NotificationSigpipe, NotificationBadFd, StartRound, ParseClientMessage,
             PacketReadyAt, ClientMessageDies, FailedAsserts, ClientEof, EndRound, StopClient,
             StopSigpipe, Halt, Spin
    <3> QED
      BY <3>1 DEF StopInv, AllTold
  <2> QED
    BY <2>1, <2>2
<1> QED
  BY <1>1, <1>2, <1>3, StaysPolled DEF StopInv

\* A reset loses the last packets of a connection, one way or the other.
LEMMA ResetsStop ==
  ASSUME IInv, StopInv, Resets
  PROVE  StopInv'
<1>1. PICK p \in Clients : LoseToServer(p) \/ LoseToClient(p)
  BY DEF Resets
<1>2. /\ toServer \in [Clients -> Seq(ToServerPackets)] /\ admitted \subseteq Clients
      /\ toClient \in [Clients -> Seq(ToClientPackets)]
      /\ missed \in [Clients -> Seq(ToClientPackets)]
  BY DEF IInv, TypeOK, SocketsTypeOK, ServerTypeOK
<1>3. UNCHANGED <<conn, backlog, cl, sv_fds, idx, pc, why, admitted>>
  BY <1>1 DEF Resets, LoseToServer, LoseToClient
<1>4. GoodbyeMeansGoing'
  BY <1>3, ResetsShrink DEF StopInv, GoodbyeMeansGoing, Going, ToServerShrinks
<1>5. CutOffIsClosed'
  <2>1. CASE LoseToServer(p)
    <3>1. UNCHANGED missed
      BY <2>1 DEF LoseToServer
    <3> QED
      BY <1>3, <3>1 DEF StopInv, CutOffIsClosed, ServerEndOpen
  <2>2. CASE LoseToClient(p)
    <3>1. ~ServerEndOpen(p) /\ cl[p] # "off"
      BY <2>2 DEF LoseToClient, IInv, NothingBeforeConnect
    <3>2. \A q \in Clients : q # p => missed'[q] = missed[q]
      BY <1>2, <2>2 DEF LoseToClient
    <3> QED
      BY <1>3, <3>1, <3>2 DEF StopInv, CutOffIsClosed, ServerEndOpen
  <2> QED
    BY <1>1, <2>1, <2>2
<1>6. ASSUME NEW q \in Clients, Told(q) PROVE Told(q)'
  <2>1. CASE LoseToServer(p)
    <3>1. ServerEndOpen(p) /\ UNCHANGED <<toClient, missed>>
          /\ toServer' = [toServer EXCEPT ![p] = Front(toServer[p])]
      BY <2>1 DEF LoseToServer
    <3>2. CASE CutOffUnread(q, "SHUTDOWN_CLOSE")
      <4>1. missed[q] # <<>>
        BY <3>2, EmptyFacts DEF CutOffUnread
      <4>2. q # p
        BY <3>1, <4>1 DEF StopInv, CutOffIsClosed
      <4>3. toServer'[q] = toServer[q]
        BY <1>2, <3>1, <4>2
      <4> QED
        BY <3>1, <3>2, <4>3 DEF Told, CutOffUnread
    <3>3. CASE ~CutOffUnread(q, "SHUTDOWN_CLOSE")
      BY <1>3, <1>6, <3>1, <3>3 DEF Told, Going
    <3> QED
      BY <3>2, <3>3
  <2>2. CASE LoseToClient(p)
    <3>1. /\ toServer[p] # <<>> /\ toClient[p] # <<>> /\ UNCHANGED toServer
          /\ toClient' = [toClient EXCEPT ![p] = Front(toClient[p])]
          /\ missed' = [missed EXCEPT ![p] = <<Last(toClient[p])>> \o missed[p]]
      BY <2>2 DEF LoseToClient
    <3>2. CASE q # p
      <4>1. toClient'[q] = toClient[q] /\ missed'[q] = missed[q]
        BY <1>2, <3>1, <3>2
      <4> QED
        BY <1>3, <1>6, <3>1, <4>1 DEF Told, Going, CutOffUnread
    <3>3. CASE q = p
      <4> DEFINE e == Last(toClient[p])
      <4>1. e \in ToClientPackets /\ missed[p] \in Seq(ToClientPackets)
            /\ missed'[p] = <<e>> \o missed[p]
        <5>1. toClient[p] \in Seq(ToClientPackets)
          BY <1>2
        <5> QED
          BY <1>2, <3>1, <5>1, FrontFacts
      <4> HIDE DEF e
      <4>2. /\ 1 \in DOMAIN missed'[p] /\ missed'[p][1] = e
            /\ \A n \in DOMAIN missed[p] :
                 n + 1 \in DOMAIN missed'[p] /\ missed'[p][n + 1] = missed[p][n]
        BY <4>1, PrependFacts
      <4>3. CASE CutOffUnread(p, "SHUTDOWN_CLOSE")
        <5>1. PICK n \in DOMAIN missed[p] : missed[p][n].action = "SHUTDOWN_CLOSE"
          BY <4>3 DEF CutOffUnread
        <5> QED
          BY <3>1, <3>3, <4>2, <5>1 DEF Told, CutOffUnread
      <4>4. CASE e.action = "SHUTDOWN_CLOSE"
        BY <3>1, <3>3, <4>2, <4>4 DEF Told, CutOffUnread
      <4>5. CASE Going(p)
        BY <1>3, <3>3, <4>5 DEF Told, Going
      <4> QED
        BY <1>6, <3>3, <4>3, <4>4, <4>5 DEF Told, e
    <3> QED
      BY <3>2, <3>3
  <2> QED
    BY <1>1, <2>1, <2>2
<1>7. AdmittedArePolled'
  BY <1>3 DEF StopInv, AdmittedArePolled, Serving, Alive, Polled, Session, Going
<1>8. ToBeTold' /\ AllTold'
  BY <1>2, <1>3, <1>6 DEF StopInv, ToBeTold, AllTold
<1> QED
  BY <1>4, <1>5, <1>7, <1>8 DEF StopInv

\* Every step of the system.
LEMMA NextStop ==
  IInv /\ RunningIsOpen /\ AdmissionInv /\ StopInv /\ [Next]_vars => StopInv'
<1> SUFFICES ASSUME IInv, RunningIsOpen, AdmissionInv, StopInv, [Next]_vars PROVE StopInv'
  OBVIOUS
<1>1. CASE ServerStep /\ UNCHANGED cliVars
  BY <1>1, ServerStop
<1>2. CASE \E p \in Clients : (ClientStep(p) \/ UserStep(p)) /\ UNCHANGED srvVars
  BY <1>2, ClientStop
<1>3. CASE (\E t \in Topics : Publish(t)) \/ OperatorExit \/ UNCHANGED vars
  <2>1. UNCHANGED <<toServer, toClient, missed, conn, backlog, sv_fds, idx, admitted, cl, pc, why>>
    BY <1>3 DEF Publish, OperatorExit, vars
  <2>2. GoodbyeMeansGoing' /\ CutOffIsClosed' /\ AdmittedArePolled'
    BY <2>1 DEF StopInv, GoodbyeMeansGoing, CutOffIsClosed, ServerEndOpen, AdmittedArePolled, Going,
                Polled, Session, Serving, Alive
  <2>3. \A p \in Clients : Told(p) => Told(p)'
    BY <2>1 DEF Told, Going, CutOffUnread
  <2>4. admitted \subseteq Clients
    BY DEF IInv, TypeOK, ServerTypeOK
  <2> QED
    BY <2>1, <2>2, <2>3, <2>4 DEF StopInv, ToBeTold, AllTold
<1>4. CASE Resets
  BY <1>4, ResetsStop
<1> QED
  BY <1>1, <1>2, <1>3, <1>4 DEF Next, Resets

\* The invariant of shutdown_server holds in every reachable state.
LEMMA StopInvariance == Spec => []StopInv
<1>1. ASSUME Init PROVE StopInv
  <2>1. /\ \A p \in Clients : toServer[p] = <<>> /\ missed[p] = <<>>
        /\ admitted = {} /\ pc = "poll" /\ why = ""
    BY <1>1 DEF Init, SocketsInit, ServerInit, SubscriberInit
  <2> QED
    BY <2>1, EmptyFacts
    DEF StopInv, GoodbyeMeansGoing, CutOffIsClosed, AdmittedArePolled, ToBeTold, AllTold
<1> QED
  BY <1>1, NextStop, AdmissionInvariance, OpenInvariance, Invariance, PTL DEF Spec

\* A shutdown_server() that comes to its end has reached everybody it had ever
\* admitted: he is leaving or gone, or SHUTDOWN_CLOSE is the last packet in his
\* socket, unless he had sent something that the server never read and the
\* reset that this causes has lost the packet.
THEOREM ShutdownReaches == Spec => []StopReachesTheAdmitted
<1>1. StopInv => StopReachesTheAdmitted
  BY DEF StopInv, AllTold, Told, Going, StopReachesTheAdmitted
<1> QED
  BY <1>1, StopInvariance, PTL

-----------------------------------------------------------------------------
(***************************************************************************)
(* End of file.                                                            *)
(***************************************************************************)

\* One of the runs that may be killed is gone, or a reset has lost a goodbye.
CutOff ==
  \E p \in Clients :
    \/ p \in MayCrash /\ cl[p] = "gone"
    \/ [action |-> "SHUTDOWN_CLOSE"] \in Range(lost[p])

\* Who is cut off aside, a socket that the server still means to read and whose
\* other end is closed, or about to be, holds a goodbye.
LeavingHasSaid ==
  Serving /\ ~CutOff =>
    \A p \in Clients :
      (AwaitsConnect(p) \/ Polled(p)) /\ (cl[p] = "leaving" \/ peer[p] = "closed")
        => toServer[p] # <<>> /\ Last(toServer[p]).action = "SHUTDOWN_CLOSE"

\* The descriptors still before the loop of lines 426-430 have something to
\* read.
ReadyHasPackets ==
  pc = "clients" /\ ~CutOff =>
    \A k \in DOMAIN sv_fds :
      idx <= k /\ sv_fds[k] \in ready => toServer[conn[sv_fds[k]]] # <<>>

\* While the server serves, only those it refused are told to go.
SignalsMeant ==
  Serving =>
    \A p \in Clients : \A n \in DOMAIN toClient[p] :
      toClient[p][n].action # "NOTIFICATION_ACTION"
        => ~AwaitsConnect(p) /\ p \notin admitted /\ cl[p] # "off"

\* Only a connection that was opened carries packets.
OpenedToSend == \A p \in Clients : toServer[p] # <<>> => peer[p] # "none"

PolledAreAdmitted == Serving => \A p \in Clients : Polled(p) => p \in admitted

LeaveInv ==
  /\ LeavingHasSaid /\ ReadyHasPackets /\ SignalsMeant /\ OpenedToSend
  /\ PolledAreAdmitted /\ EofMeansCutOff

\* Whoever is cut off remains so.
LEMMA CutOffStays ==
  ASSUME CutOff, UNCHANGED lost, \A p \in Clients : cl[p] = "gone" => cl'[p] = "gone"
  PROVE  CutOff'
BY SubscriberAssumption DEF CutOff

\* Only connect() makes a run wait for the server to read its CONNECT packet.
LEMMA ClientAwaits ==
  ASSUME IInv, UNCHANGED srvVars, NEW p \in Clients, ClientStep(p) \/ UserStep(p)
  PROVE  \A q \in Clients : AwaitsConnect(q)' => AwaitsConnect(q) \/ (q = p /\ Connect(p))
<1>1. backlog \in Seq(Clients) /\ UNCHANGED conn
  BY ClientFrame DEF IInv, TypeOK, SocketsTypeOK
<1>2. CASE Connect(p)
  <2>1. /\ DOMAIN backlog' = 1 .. Len(backlog) + 1 /\ DOMAIN backlog = 1 .. Len(backlog)
        /\ \A k \in DOMAIN backlog : backlog'[k] = backlog[k]
        /\ backlog'[Len(backlog) + 1] = p /\ Len(backlog) \in Nat
    BY <1>1, <1>2, AppendFacts, LenProperties DEF Connect
  <2>2. \A k \in DOMAIN backlog' :
          backlog'[k] = p \/ (k \in DOMAIN backlog /\ backlog'[k] = backlog[k])
    BY <2>1
  <2> QED
    BY <1>1, <1>2, <2>2 DEF AwaitsConnect
<1>3. CASE ~Connect(p)
  <2>1. UNCHANGED backlog
    BY <1>3 DEF ClientStep, UserStep, ConnectRefused, SendConnect, Subscribe, Unsubscribe, Exit,
           CloseAfterExit, ClientSigpipe, Kill, ReceiveNotification, ReceiveShutdown, ReceiveEof
  <2> QED
    BY <1>1, <2>1 DEF AwaitsConnect
<1> QED
  BY <1>2, <1>3

\* A run only takes packets out of its socket, or empties it when it closes it.
LEMMA ClientTakes ==
  ASSUME IInv, NEW p \in Clients, ClientStep(p) \/ UserStep(p)
  PROVE  ToClientShrinks
<1>1. toClient \in [Clients -> Seq(ToClientPackets)]
  BY DEF IInv, TypeOK, SocketsTypeOK
<1>2. CASE ReceiveNotification(p)
  <2>1. toClient[p] # <<>> /\ toClient' = [toClient EXCEPT ![p] = Tail(toClient[p])]
    BY <1>2 DEF ReceiveNotification
  <2>2. \A k \in DOMAIN Tail(toClient[p]) :
          k + 1 \in DOMAIN toClient[p] /\ Tail(toClient[p])[k] = toClient[p][k + 1]
    BY <1>1, <2>1, TailFacts
  <2> SUFFICES ASSUME NEW q \in Clients, NEW n \in DOMAIN toClient'[q]
               PROVE  \E k \in DOMAIN toClient[q] : toClient'[q][n] = toClient[q][k]
    BY DEF ToClientShrinks
  <2>3. CASE q = p
    <3>1. toClient'[q] = Tail(toClient[p]) /\ n \in DOMAIN Tail(toClient[p])
      BY <1>1, <2>1, <2>3
    <3>2. n + 1 \in DOMAIN toClient[q] /\ toClient'[q][n] = toClient[q][n + 1]
      BY <2>2, <2>3, <3>1
    <3> QED
      BY <3>2
  <2>4. CASE q # p
    BY <1>1, <2>1, <2>4
  <2> QED
    BY <2>3, <2>4
<1>3. CASE ~ReceiveNotification(p)
  <2>1. toClient' = toClient \/ toClient' = [toClient EXCEPT ![p] = <<>>]
    BY <1>3 DEF ClientStep, UserStep, Connect, ConnectRefused, SendConnect, Subscribe, Unsubscribe, Exit,
           CloseAfterExit, ClientSigpipe, Kill, ReceiveShutdown, ReceiveEof, CloseClientEnd
  <2> QED
    BY <2>1, QueuesShrink
<1> QED
  BY <1>2, <1>3

\* What waits for its CONNECT packet or is polled has its end at the server.
LEMMA WantedIsOpen ==
  ASSUME IInv, Serving, NEW p \in Clients, AwaitsConnect(p) \/ Polled(p)
  PROVE  ServerEndOpen(p)
<1>1. CASE AwaitsConnect(p)
  BY <1>1 DEF AwaitsConnect, ServerEndOpen, IInv, ServerInv, CurIsFresh
<1>2. CASE Polled(p)
  BY <1>2, PolledFacts DEF Polled, Session, ServerEndOpen
<1> QED
  BY <1>1, <1>2

\* A run closes its end behind its goodbye, and what has been said stays.
LEMMA ClientLeaves ==
  ASSUME IInv, RunningIsOpen, LeaveInv, UNCHANGED srvVars, NEW p \in Clients,
         ClientStep(p) \/ UserStep(p)
  PROVE  LeavingHasSaid'
<1>1. /\ cl \in [Clients -> ClientPhases] /\ peer \in [Clients -> {"none", "open", "closed"}]
      /\ toServer \in [Clients -> Seq(ToServerPackets)]
      /\ toClient \in [Clients -> Seq(ToClientPackets)] /\ backlog \in Seq(Clients)
  BY DEF IInv, TypeOK, SocketsTypeOK, SubscriberTypeOK
<1>2. /\ UNCHANGED <<conn, lost>> /\ cl[p] \in {"off", "connecting", "run", "leaving"}
      /\ \A q \in Clients : q # p =>
           /\ cl'[q] = cl[q] /\ peer'[q] = peer[q] /\ toServer'[q] = toServer[q]
  BY ClientFrame
<1>3. CutOff => CutOff'
  BY <1>2, CutOffStays
<1>4. \A q \in Clients : AwaitsConnect(q)' => AwaitsConnect(q) \/ (q = p /\ Connect(p))
  BY ClientAwaits
<1> SUFFICES ASSUME Serving, ~CutOff', NEW q \in Clients,
                    AwaitsConnect(q)' \/ Polled(q), cl'[q] = "leaving" \/ peer'[q] = "closed"
             PROVE  toServer'[q] # <<>> /\ Last(toServer'[q]).action = "SHUTDOWN_CLOSE"
  BY <1>2 DEF LeavingHasSaid, Serving, Alive, Polled, Session
<1>5. CASE q # p
  BY <1>2, <1>3, <1>4, <1>5 DEF LeaveInv, LeavingHasSaid
<1>6. CASE q = p
  <2>1. CASE Connect(p) \/ SendConnect(p) \/ \E t \in Patterns : Subscribe(p, t) \/ Unsubscribe(p, t)
    <3>1. /\ peer'[p] = "open" \/ (peer'[p] = peer[p] /\ cl[p] \in {"connecting", "run"})
          /\ cl'[p] # "leaving"
      BY <1>1, <2>1 DEF Connect, SendConnect, Subscribe, Unsubscribe, Type
    <3> QED
      BY <1>6, <3>1 DEF RunningIsOpen
  <2>2. CASE Exit(p)
    <3> DEFINE m == [action |-> "SHUTDOWN_CLOSE"]
    <3>2. m \in ToServerPackets /\ m.action = "SHUTDOWN_CLOSE" /\ SendToServer(p, m)
      BY <2>2 DEF ToServerPackets, Exit
    <3> HIDE DEF m
    <3>3. toServer'[p] = Append(toServer[p], m) /\ toServer[p] \in Seq(ToServerPackets)
      BY <1>1, <3>2 DEF SendToServer
    <3> QED
      BY <1>6, <3>2, <3>3, LastFacts
  <2>3. CASE ClientSigpipe(p)
    BY <1>4, <1>6, <2>3, WantedIsOpen DEF ClientSigpipe, Connect
  <2>4. CASE Kill(p)
    <3>1. cl'[p] = "gone" /\ p \in MayCrash
      BY <1>1, <2>4 DEF Kill
    <3> QED
      BY <3>1 DEF CutOff
  <2>5. CASE ReceiveShutdown(p)
    <3>1. /\ toClient[p] # <<>> /\ Head(toClient[p]).action # "NOTIFICATION_ACTION"
          /\ toClient[p] \in Seq(ToClientPackets) /\ cl[p] = "run"
      BY <1>1, <2>5 DEF ReceiveShutdown
    <3>2. 1 \in DOMAIN toClient[p] /\ Head(toClient[p]) = toClient[p][1]
      BY <3>1, TailFacts
    <3>3. ~AwaitsConnect(p) /\ ~Polled(p)
      BY <3>1, <3>2 DEF LeaveInv, SignalsMeant, PolledAreAdmitted
    <3> QED
      BY <1>4, <1>6, <3>1, <3>3 DEF Connect
  <2>6. CASE ConnectRefused(p) \/ ReceiveNotification(p) \/ ReceiveEof(p)
    <3>1. UNCHANGED <<peer, toServer>> /\ ~(cl[p] = "off" /\ listening) /\ cl'[p] # "leaving"
      BY <1>1, <2>6 DEF ConnectRefused, ReceiveNotification, ReceiveEof
    <3> QED
      BY <1>3, <1>4, <1>6, <3>1 DEF LeaveInv, LeavingHasSaid, Connect
  <2>7. CASE CloseAfterExit(p)
    <3>1. UNCHANGED toServer /\ cl[p] = "leaving"
      BY <2>7 DEF CloseAfterExit
    <3> QED
      BY <1>3, <1>4, <1>6, <3>1 DEF LeaveInv, LeavingHasSaid, Connect
  <2> QED
    BY <2>1, <2>2, <2>3, <2>4, <2>5, <2>6, <2>7 DEF ClientStep, UserStep
<1> QED
  BY <1>5, <1>6

\* The rest of the invariant.
LEMMA ClientLeave ==
  ASSUME IInv, RunningIsOpen, LeaveInv, UNCHANGED srvVars, NEW p \in Clients,
         ClientStep(p) \/ UserStep(p)
  PROVE  LeaveInv'
<1>1. /\ UNCHANGED <<conn, lost>> /\ cl[p] # "gone" /\ cl'[p] # "off"
      /\ toServer[p] # <<>> => toServer'[p] # <<>>
      /\ \A q \in Clients : q # p => cl'[q] = cl[q] /\ toServer'[q] = toServer[q]
                                    /\ peer'[q] = peer[q]
  BY ClientFrame
<1>2. CutOff => CutOff'
  BY <1>1, CutOffStays
<1>3. ReadyHasPackets'
  <2> SUFFICES ASSUME pc = "clients", ~CutOff, NEW k \in DOMAIN sv_fds, idx <= k,
                      sv_fds[k] \in ready
               PROVE  toServer'[conn[sv_fds[k]]] # <<>>
    BY <1>1, <1>2 DEF ReadyHasPackets
  <2>1. conn[sv_fds[k]] \in Clients
    BY PolledFacts DEF Serving, Alive
  <2> QED
    BY <1>1, <2>1 DEF LeaveInv, ReadyHasPackets
<1>4. SignalsMeant'
  <2> SUFFICES ASSUME Serving, NEW q \in Clients, NEW n \in DOMAIN toClient'[q],
                      toClient'[q][n].action # "NOTIFICATION_ACTION"
               PROVE  ~AwaitsConnect(q)' /\ q \notin admitted /\ cl'[q] # "off"
    BY DEF SignalsMeant, Serving, Alive
  <2>1. PICK k \in DOMAIN toClient[q] : toClient'[q][n] = toClient[q][k]
    BY ClientTakes DEF ToClientShrinks
  <2>2. ~AwaitsConnect(q) /\ q \notin admitted /\ cl[q] # "off"
    BY <2>1 DEF LeaveInv, SignalsMeant
  <2>3. ~AwaitsConnect(q)'
    BY <2>2, ClientAwaits DEF Connect
  <2> QED
    BY <1>1, <2>2, <2>3
<1>5. PolledAreAdmitted'
  BY <1>1 DEF LeaveInv, PolledAreAdmitted, Polled, Session, Serving, Alive
<1>6. EofMeansCutOff'
  BY <1>2 DEF LeaveInv, EofMeansCutOff, CutOff
<1>7. OpenedToSend'
  <2>1. peer \in [Clients -> {"none", "open", "closed"}]
    BY DEF IInv, TypeOK, SocketsTypeOK
  <2>2. CASE SendConnect(p) \/ Exit(p) \/ \E t \in Patterns : Subscribe(p, t) \/ Unsubscribe(p, t)
    <3>1. UNCHANGED peer /\ cl[p] \in {"connecting", "run"}
      BY <2>2 DEF SendConnect, Exit, Subscribe, Unsubscribe, Type
    <3> QED
      BY <1>1, <3>1 DEF LeaveInv, OpenedToSend, RunningIsOpen
  <2>3. CASE Connect(p)
    <3>1. peer'[p] = "open" /\ UNCHANGED toServer
      BY <2>1, <2>3 DEF Connect
    <3> QED
      BY <1>1, <3>1 DEF LeaveInv, OpenedToSend
  <2>4. CASE \/ ConnectRefused(p) \/ ClientSigpipe(p) \/ Kill(p) \/ CloseAfterExit(p)
             \/ ReceiveNotification(p) \/ ReceiveShutdown(p) \/ ReceiveEof(p)
    <3>1. UNCHANGED toServer /\ (peer'[p] = peer[p] \/ peer'[p] = "closed")
      BY <2>1, <2>4 DEF ConnectRefused, ClientSigpipe, Kill, CloseAfterExit, ReceiveNotification,
         ReceiveShutdown, ReceiveEof, CloseClientEnd
    <3> QED
      BY <1>1, <3>1 DEF LeaveInv, OpenedToSend
  <2> QED
    BY <2>2, <2>3, <2>4 DEF ClientStep, UserStep
<1> QED
  BY <1>3, <1>4, <1>5, <1>6, <1>7, ClientLeaves DEF LeaveInv

\* A step of the server that goes on serving.
LEMMA ServesOn ==
  ASSUME IInv, ServerStep, Serving'
  PROVE  /\ Serving /\ UNCHANGED why
         /\ \/ Accept \/ Reconnect \/ AddNewSub \/ RefuseIntruder \/ ParseClientMessage
            \/ /\ ReceiveDatagram \/ SendNotification \/ StartRound \/ EndRound
               /\ UNCHANGED <<conn, backlog, sv_fds, toServer, admitted>> /\ pc' # "connect"
<1>1. pc' \notin {"dead", "spin", "stop"}
  BY DEF Serving, Alive
<1>2. \/ Accept \/ Reconnect \/ AddNewSub \/ RefuseIntruder \/ ParseClientMessage
      \/ ReceiveDatagram \/ SendNotification \/ StartRound \/ EndRound
  BY <1>1 DEF ServerStep, ReadStdin, StopClient, AcceptFails, NotificationSigpipe,
     ClientMessageDies, StopSigpipe, StopServer, NotificationBadFd, ConnectEof, ClientEof,
     Halt, Spin
<1>3. Serving /\ UNCHANGED why
  BY <1>2 DEF Serving, Alive, Accept, Reconnect, AddNewSub, ConnectArrives, PollNewConnection,
     RefuseIntruder, ParseClientMessage, PacketReadyAt, ReceiveDatagram, SendNotification,
     StartRound, EndRound
<1>4. ReceiveDatagram \/ SendNotification \/ StartRound \/ EndRound
        => UNCHANGED <<conn, backlog, sv_fds, toServer, admitted>> /\ pc' # "connect"
  BY DEF ReceiveDatagram, SendNotification, StartRound, EndRound
<1> QED
  BY <1>2, <1>3, <1>4

\* Nobody joins those who wait for the server to read their CONNECT packet.
LEMMA ServerAwaits ==
  ASSUME IInv, ServerStep, Serving'
  PROVE  \A q \in Clients : AwaitsConnect(q)' => AwaitsConnect(q)
<1>1. CASE Accept
  <2>1. PICK f \in Fds : conn' = [conn EXCEPT ![f] = Head(backlog)] /\ cur' = f
    BY <1>1 DEF Accept
  <2>2. backlog # <<>> /\ backlog' = Tail(backlog)
    BY <1>1 DEF Accept
  <2>3. backlog \in Seq(Clients) /\ conn \in [Fds -> Clients \cup {None}]
    BY DEF IInv, TypeOK, SocketsTypeOK
  <2>4. /\ 1 \in DOMAIN backlog /\ Head(backlog) = backlog[1]
        /\ \A k \in DOMAIN backlog' : k + 1 \in DOMAIN backlog /\ backlog'[k] = backlog[k + 1]
    BY <2>2, <2>3, TailFacts
  <2>5. conn'[cur'] = Head(backlog)
    BY <2>1, <2>3
  <2> QED
    BY <2>4, <2>5 DEF AwaitsConnect
<1>2. CASE Reconnect \/ AddNewSub \/ RefuseIntruder
  <2>1. UNCHANGED backlog /\ pc' = "poll"
    BY <1>2 DEF Reconnect, AddNewSub, RefuseIntruder, PollNewConnection
  <2> QED
    BY <2>1 DEF AwaitsConnect
<1>3. CASE ParseClientMessage
  <2>1. UNCHANGED <<backlog, pc>> /\ pc = "clients"
    BY <1>3 DEF ParseClientMessage, PacketReadyAt
  <2> QED
    BY <2>1 DEF AwaitsConnect
<1>4. CASE UNCHANGED <<conn, backlog>> /\ pc' # "connect"
  BY <1>4 DEF AwaitsConnect
<1> QED
  BY <1>1, <1>2, <1>3, <1>4, ServesOn

\* Only an admission makes a run polled.
LEMMA ServerPolls ==
  ASSUME IInv, ServerStep, Serving', NEW p \in Clients, Polled(p)', ~Polled(p)
  PROVE  (Reconnect \/ AddNewSub) /\ p = conn[cur]
<1>1. CASE Accept
  <2>1. PICK f \in Fds : IsLowestFree(f) /\ conn' = [conn EXCEPT ![f] = Head(backlog)]
    BY <1>1 DEF Accept
  <2>2. Serving /\ UNCHANGED sv_fds
    BY <1>1 DEF Accept, Serving, Alive
  <2>3. conn \in [Fds -> Clients \cup {None}] /\ conn[f] = None
    BY <2>1 DEF IInv, TypeOK, SocketsTypeOK, IsLowestFree
  <2>4. \A k \in DOMAIN sv_fds : conn[sv_fds[k]] # None /\ sv_fds[k] \in Fds
    BY <2>2, PolledFacts DEF IInv, ServerInv, PolledHasRecord
  <2>5. \A k \in DOMAIN sv_fds : conn'[sv_fds[k]] = conn[sv_fds[k]]
    BY <2>1, <2>3, <2>4
  <2> QED
    BY <2>2, <2>5 DEF Polled, Session
<1>2. CASE Reconnect \/ AddNewSub
  <2>1. ConnectArrives /\ sv_fds' = Append(sv_fds, cur) /\ UNCHANGED conn
    BY <1>2 DEF Reconnect, AddNewSub, PollNewConnection
  <2>2. cur \in Fds /\ sv_fds \in Seq(Fds)
    BY <2>1, ConnectFacts DEF IInv, TypeOK, ServerTypeOK
  <2>3. /\ DOMAIN sv_fds' = 1 .. Len(sv_fds) + 1 /\ DOMAIN sv_fds = 1 .. Len(sv_fds)
        /\ \A k \in DOMAIN sv_fds : sv_fds'[k] = sv_fds[k]
        /\ sv_fds'[Len(sv_fds) + 1] = cur /\ Len(sv_fds) \in Nat
    BY <2>1, <2>2, AppendFacts, LenProperties
  <2>4. \A k \in DOMAIN sv_fds' : sv_fds'[k] = cur \/ (k \in DOMAIN sv_fds /\ sv_fds'[k] = sv_fds[k])
    BY <2>3
  <2> QED
    BY <1>2, <2>1, <2>4 DEF Polled, Session
<1>3. CASE RefuseIntruder
  BY <1>3 DEF RefuseIntruder, Polled, Session
<1>4. CASE ParseClientMessage
  <2>1. PICK k, i : MessageHandled(k, i) /\ (SessionGoesOn(k, i) \/ SessionEnds(k, i))
    BY <1>4, MessageFacts
  <2>2. CASE SessionGoesOn(k, i)
    BY <2>2 DEF SessionGoesOn, Polled, Session
  <2>3. CASE SessionEnds(k, i)
    <3>1. PICK n \in DOMAIN sv_fds' : conn'[sv_fds'[n]] = p
      BY DEF Polled, Session
    <3>2. PICK j \in DOMAIN sv_fds : sv_fds'[n] = sv_fds[j]
      BY <2>3 DEF SessionEnds
    <3>3. /\ conn' = [conn EXCEPT ![sv_fds[k]] = None] /\ k \in DOMAIN sv_fds
          /\ conn \in [Fds -> Clients \cup {None}]
      BY <2>1, <2>3 DEF SessionEnds, MessageHandled, IInv, TypeOK, SocketsTypeOK
    <3>4. sv_fds[j] \in Fds
      BY ServesOn, PolledFacts
    <3>5. conn[sv_fds[j]] = p
      BY <3>1, <3>2, <3>3, <3>4, SocketsAssumption
    <3> QED
      BY <3>5 DEF Polled, Session
  <2> QED
    BY <2>1, <2>2, <2>3
<1>5. CASE UNCHANGED <<conn, sv_fds>>
  BY <1>5 DEF Polled, Session
<1> QED
  BY <1>1, <1>2, <1>3, <1>4, <1>5, ServesOn

\* A packet other than the goodbye is read: the goodbye stays the last one.
LEMMA GoodbyeStays ==
  ASSUME IInv, NEW q \in Clients, toServer[q] # <<>>, TakeFrom(q),
         Last(toServer[q]).action = "SHUTDOWN_CLOSE",
         Head(toServer[q]).action # "SHUTDOWN_CLOSE"
  PROVE  toServer'[q] # <<>> /\ Last(toServer'[q]).action = "SHUTDOWN_CLOSE"
<1>1. toServer \in [Clients -> Seq(ToServerPackets)] /\ toServer[q] \in Seq(ToServerPackets)
  BY DEF IInv, TypeOK, SocketsTypeOK
<1>2. toServer'[q] = Tail(toServer[q])
  BY <1>1 DEF TakeFrom
<1>3. Tail(toServer[q]) # <<>> /\ Last(Tail(toServer[q])) = Last(toServer[q])
  BY <1>1, LastFacts
<1> QED
  BY <1>2, <1>3

\* The server's steps lose no packet: only the network does.
LEMMA ServerLosesNone == ServerStep => UNCHANGED <<lost, missed>>
BY DEF ServerStep, ReadStdin, Accept, AcceptFails, Reconnect, AddNewSub, PollNewConnection,
   RefuseIntruder, ConnectEof, ReceiveDatagram, SendNotification, NotificationSigpipe,
   NotificationBadFd, StartRound, ParseClientMessage, ClientMessageDies, ClientEof, EndRound,
   StopClient, StopSigpipe, StopServer

\* No step of the server takes away what a run has said on leaving.
LEMMA ServerLeaves ==
  ASSUME IInv, LeaveInv, UNCHANGED cliVars, ServerStep
  PROVE  LeavingHasSaid'
<1> SUFFICES ASSUME Serving', ~CutOff, NEW q \in Clients, AwaitsConnect(q)' \/ Polled(q)',
                    cl[q] = "leaving" \/ peer[q] = "closed"
             PROVE  toServer'[q] # <<>> /\ Last(toServer'[q]).action = "SHUTDOWN_CLOSE"
  BY ServerTakes, ServerLosesNone DEF LeavingHasSaid, CutOff
<1>1. Serving
  BY ServesOn
<1>2. AwaitsConnect(q) \/ Polled(q)
  BY ServerAwaits, ServerPolls DEF Reconnect, AddNewSub, ConnectArrives, AwaitsConnect
<1>3. toServer[q] # <<>> /\ Last(toServer[q]).action = "SHUTDOWN_CLOSE"
  BY <1>1, <1>2 DEF LeaveInv, LeavingHasSaid
<1>4. toServer \in [Clients -> Seq(ToServerPackets)]
  BY DEF IInv, TypeOK, SocketsTypeOK
<1>5. CASE Reconnect \/ AddNewSub \/ RefuseIntruder
  <2>1. ConnectArrives /\ TakeFrom(conn[cur])
    BY <1>5 DEF Reconnect, AddNewSub, RefuseIntruder, PollNewConnection
  <2>2. CASE q = conn[cur]
    <3>1. AwaitsConnect(q)
      BY <2>1, <2>2 DEF ConnectArrives, AwaitsConnect
    <3>2. Head(toServer[q]) = [action |-> "CONNECT_ACTION", id |-> IdOf[q]]
      BY <1>3, <3>1 DEF IInv, FirstIsConnect
    <3>3. Head(toServer[q]).action # "SHUTDOWN_CLOSE"
      BY <3>2
    <3> QED
      BY <1>3, <2>1, <2>2, <3>3, GoodbyeStays
  <2>3. CASE q # conn[cur]
    BY <1>3, <1>4, <2>1, <2>3 DEF TakeFrom
  <2> QED
    BY <2>2, <2>3
<1>6. CASE ParseClientMessage
  <2>1. PICK k, i : MessageHandled(k, i) /\ (SessionGoesOn(k, i) \/ SessionEnds(k, i))
    BY <1>6, MessageFacts
  <2>2. /\ k \in DOMAIN sv_fds /\ TakeFrom(conn[sv_fds[k]]) /\ pc = "clients"
        /\ UNCHANGED <<backlog, pc>>
    BY <1>6, <2>1 DEF MessageHandled, PacketReadyAt, ParseClientMessage
  <2>3. CASE q # conn[sv_fds[k]]
    BY <1>3, <1>4, <2>2, <2>3 DEF TakeFrom
  <2>4. CASE q = conn[sv_fds[k]] /\ SessionGoesOn(k, i)
    BY <1>3, <2>2, <2>4, GoodbyeStays DEF SessionGoesOn, PacketAt
  <2>5. CASE q = conn[sv_fds[k]] /\ SessionEnds(k, i)
    <3>1. ~AwaitsConnect(q)'
      BY <1>1, <2>2, <2>5, PolledFacts DEF AwaitsConnect
    <3>2. PICK n \in DOMAIN sv_fds' : conn'[sv_fds'[n]] = q
      BY <3>1 DEF Polled, Session
    <3>3. PICK j \in DOMAIN sv_fds : j # k /\ sv_fds'[n] = sv_fds[j]
      BY <2>5 DEF SessionEnds
    <3>4. sv_fds[j] # sv_fds[k] /\ sv_fds[j] \in Fds /\ sv_fds[k] \in Fds
      BY <1>1, <2>2, <3>3, PolledFacts DEF IInv, ServerInv, PolledHasRecord
    <3>5. conn' = [conn EXCEPT ![sv_fds[k]] = None] /\ conn \in [Fds -> Clients \cup {None}]
      BY <2>5 DEF SessionEnds, IInv, TypeOK, SocketsTypeOK
    <3>6. conn[sv_fds[j]] = q /\ q # None
      BY <3>2, <3>3, <3>4, <3>5, SocketsAssumption
    <3> QED
      BY <2>5, <3>4, <3>6 DEF IInv, ConnectionsDistinct
  <2> QED
    BY <2>1, <2>3, <2>4, <2>5
<1>7. CASE UNCHANGED toServer
  BY <1>3, <1>7
<1>8. CASE Accept
  BY <1>7, <1>8 DEF Accept
<1> QED
  BY <1>5, <1>6, <1>7, <1>8, ServesOn

\* Who is ready has a packet: poll() reports a closed end only behind a
\* goodbye, and a handler empties no other socket than its own.
LEMMA ServerReady ==
  ASSUME IInv, LeaveInv, UNCHANGED cliVars, ServerStep
  PROVE  ReadyHasPackets'
<1> SUFFICES ASSUME pc' = "clients", ~CutOff, NEW n \in DOMAIN sv_fds', idx' <= n,
                    sv_fds'[n] \in ready'
             PROVE  toServer'[conn'[sv_fds'[n]]] # <<>>
  BY ServerLosesNone DEF ReadyHasPackets, CutOff
<1>1. CASE StartRound
  <2>1. /\ Serving /\ UNCHANGED <<conn, sv_fds, toServer>> /\ Readable(sv_fds[n])
    BY <1>1 DEF StartRound, Serving, Alive
  <2>2. conn[sv_fds[n]] \in Clients
    BY <2>1, PolledFacts
  <2>3. Polled(conn[sv_fds[n]])
    BY <2>1 DEF Polled, Session
  <2> QED
    BY <2>1, <2>2, <2>3 DEF Readable, LeaveInv, LeavingHasSaid
<1>2. CASE ParseClientMessage
  <2>1. PICK k, i : MessageHandled(k, i) /\ (SessionGoesOn(k, i) \/ SessionEnds(k, i))
    BY <1>2, MessageFacts
  <2>2. /\ k \in DOMAIN sv_fds /\ TakeFrom(conn[sv_fds[k]]) /\ pc = "clients" /\ Serving
        /\ idx' = k + 1 /\ idx <= k /\ UNCHANGED ready
    BY <1>2, <2>1 DEF MessageHandled, PacketReadyAt, IsNextReady, ParseClientMessage, Serving, Alive
  <2>3. conn \in [Fds -> Clients \cup {None}] /\ toServer \in [Clients -> Seq(ToServerPackets)]
        /\ sv_fds \in Seq(Fds) /\ sv_fds' \in Seq(Fds) /\ idx \in Nat
    <3>1. IInv'
      BY <1>2, ParseClientMessageInv
    <3> QED
      BY <3>1 DEF IInv, TypeOK, SocketsTypeOK, ServerTypeOK
  <2>4. k \in Nat /\ n \in Nat /\ DOMAIN sv_fds \subseteq Nat
    BY <2>2, <2>3, LenProperties
  <2>5. PICK j \in DOMAIN sv_fds : j # k /\ n <= j /\ sv_fds'[n] = sv_fds[j]
    <3>1. CASE SessionGoesOn(k, i)
      <4>1. n \in DOMAIN sv_fds /\ sv_fds'[n] = sv_fds[n]
        BY <3>1 DEF SessionGoesOn
      <4>2. n # k /\ n <= n
        BY <2>2, <2>4
      <4> QED
        BY <4>1, <4>2
    <3>2. CASE SessionEnds(k, i)
      BY <3>2 DEF SessionEnds
    <3> QED
      BY <2>1, <3>1, <3>2
  <2>6. idx <= j
    BY <2>2, <2>3, <2>4, <2>5
  <2>7. sv_fds[j] # sv_fds[k] /\ sv_fds[j] \in Fds /\ sv_fds[k] \in Fds
        /\ conn[sv_fds[j]] \in Clients
    BY <2>2, <2>5, PolledFacts DEF IInv, ServerInv, PolledHasRecord
  <2>8. conn[sv_fds[j]] # conn[sv_fds[k]]
    BY <2>7, SocketsAssumption DEF IInv, ConnectionsDistinct
  <2>9. conn'[sv_fds[j]] = conn[sv_fds[j]]
    BY <2>1, <2>3, <2>7 DEF SessionGoesOn, SessionEnds
  <2>10. toServer[conn[sv_fds[j]]] # <<>>
    BY <2>2, <2>5, <2>6 DEF LeaveInv, ReadyHasPackets
  <2>11. toServer'[conn[sv_fds[j]]] = toServer[conn[sv_fds[j]]]
    BY <2>2, <2>3, <2>7, <2>8 DEF TakeFrom
  <2> QED
    BY <2>5, <2>9, <2>10, <2>11
<1>3. CASE ~StartRound /\ ~ParseClientMessage
  <2>1. pc' # "clients"
    BY <1>3 DEF ServerStep, ReadStdin, Accept, AcceptFails, Reconnect, AddNewSub, PollNewConnection,
       RefuseIntruder, ConnectEof, ReceiveDatagram, SendNotification, NotificationSigpipe,
       NotificationBadFd, ClientMessageDies, ClientEof, EndRound, StopClient, StopSigpipe,
       StopServer, Halt, Spin
  <2> QED
    BY <2>1
<1> QED
  BY <1>1, <1>2, <1>3

\* A packet is delivered at the end of one queue or not at all.
LEMMA Delivered ==
  ASSUME IInv, NEW p \in Clients, NEW m \in ToClientPackets, DeliverTo(p, m),
         NEW q \in Clients, NEW n \in DOMAIN toClient'[q]
  PROVE  \/ n \in DOMAIN toClient[q] /\ toClient'[q][n] = toClient[q][n]
         \/ q = p /\ toClient'[q][n] = m
<1>1. toClient \in [Clients -> Seq(ToClientPackets)] /\ toClient[p] \in Seq(ToClientPackets)
  BY DEF IInv, TypeOK, SocketsTypeOK
<1>2. toClient' = toClient \/ toClient' = [toClient EXCEPT ![p] = Append(toClient[p], m)]
  BY DEF DeliverTo
<1>3. CASE toClient' = [toClient EXCEPT ![p] = Append(toClient[p], m)] /\ q = p
  <2>1. toClient'[q] = Append(toClient[p], m)
    BY <1>1, <1>3
  <2>2. /\ DOMAIN Append(toClient[p], m) = 1 .. Len(toClient[p]) + 1
        /\ DOMAIN toClient[p] = 1 .. Len(toClient[p])
        /\ \A k \in DOMAIN toClient[p] : Append(toClient[p], m)[k] = toClient[p][k]
        /\ Append(toClient[p], m)[Len(toClient[p]) + 1] = m
        /\ Len(toClient[p]) \in Nat
    BY <1>1, AppendFacts, LenProperties
  <2>3. n \in DOMAIN toClient[p] \/ n = Len(toClient[p]) + 1
    BY <2>1, <2>2
  <2> QED
    BY <1>3, <2>1, <2>2, <2>3
<1>4. CASE toClient' = toClient \/ q # p
  BY <1>1, <1>2, <1>4
<1> QED
  BY <1>2, <1>3, <1>4

\* Only RefuseIntruder sends a signal while the server serves, and whom it
\* refuses neither waits any longer nor is admitted.
LEMMA ServerSignals ==
  ASSUME IInv, AdmissionInv, LeaveInv, UNCHANGED cliVars, ServerStep
  PROVE  SignalsMeant'
<1> SUFFICES ASSUME Serving', NEW q \in Clients, NEW n \in DOMAIN toClient'[q],
                    toClient'[q][n].action # "NOTIFICATION_ACTION"
             PROVE  ~AwaitsConnect(q)' /\ q \notin admitted' /\ cl[q] # "off"
  BY DEF SignalsMeant
<1>1. Serving /\ (AwaitsConnect(q)' => AwaitsConnect(q))
  BY ServesOn, ServerAwaits
<1>2. ASSUME n \in DOMAIN toClient[q], toClient'[q][n] = toClient[q][n]
      PROVE  ~AwaitsConnect(q) /\ q \notin admitted /\ cl[q] # "off"
  BY <1>1, <1>2 DEF LeaveInv, SignalsMeant
<1>3. CASE RefuseIntruder
  <2> DEFINE m == [action |-> "SHUTDOWN_INTRUDER"]
  <2>1. ConnectArrives /\ m \in ToClientPackets /\ DeliverTo(conn[cur], m)
        /\ UNCHANGED <<backlog, admitted, conn>> /\ pc' = "poll"
    BY <1>3 DEF RefuseIntruder, ToClientPackets
  <2> HIDE DEF m
  <2>2. conn[cur] \in Clients /\ toServer[conn[cur]] # <<>>
        /\ \A k \in DOMAIN backlog : backlog[k] # conn[cur]
    BY <2>1, ConnectFacts
  <2>3. (n \in DOMAIN toClient[q] /\ toClient'[q][n] = toClient[q][n]) \/ q = conn[cur]
    BY <2>1, <2>2, Delivered
  <2>4. CASE q = conn[cur]
    <3>1. AwaitsConnect(q) /\ ~AwaitsConnect(q)'
      BY <2>1, <2>2, <2>4 DEF AwaitsConnect, ConnectArrives
    <3>2. q \notin admitted
      BY <3>1 DEF AdmissionInv, AdmittedOnce
    <3>3. cl[q] # "off"
      BY <2>2, <2>4 DEF IInv, NothingBeforeConnect
    <3> QED
      BY <2>1, <3>1, <3>2, <3>3
  <2> QED
    BY <1>1, <1>2, <2>1, <2>3, <2>4
<1>4. CASE SendNotification
  <2>1. PICK i \in pending :
          conn[subs[i].fd] # None
          /\ DeliverTo(conn[subs[i].fd], [action |-> "NOTIFICATION_ACTION", dgram |-> dgram])
    BY <1>4 DEF SendNotification
  <2> DEFINE m == [action |-> "NOTIFICATION_ACTION", dgram |-> dgram]
  <2>2. UNCHANGED admitted /\ pc = "notify"
    BY <1>4 DEF SendNotification
  <2>3. i \in DOMAIN subs /\ dgram \in Datagrams
    BY <2>2 DEF IInv, TypeOK, ServerTypeOK, ServerInv, ForwardsADatagram
  <2>4. m \in ToClientPackets /\ m.action = "NOTIFICATION_ACTION"
    BY <2>3 DEF ToClientPackets
  <2>5. subs[i].fd \in Fds
    <3>1. subs[i] \in Subscribers
      <4>1. subs \in Seq(Subscribers)
        BY DEF IInv, TypeOK, ServerTypeOK
      <4> QED
        BY <2>3, <4>1
    <3> QED
      BY <3>1 DEF Subscribers
  <2>6. conn[subs[i].fd] \in Clients
    BY <2>1, <2>5 DEF IInv, TypeOK, SocketsTypeOK
  <2>7. DeliverTo(conn[subs[i].fd], m)
    BY <2>1
  <2> HIDE DEF m
  <2>8. n \in DOMAIN toClient[q] /\ toClient'[q][n] = toClient[q][n]
    BY <2>4, <2>6, <2>7, Delivered
  <2> QED
    BY <1>1, <1>2, <2>2, <2>8
<1>5. CASE Reconnect \/ AddNewSub
  <2>1. ConnectArrives /\ admitted' = admitted \cup {conn[cur]} /\ UNCHANGED toClient
    BY <1>5 DEF Reconnect, AddNewSub, PollNewConnection
  <2>2. ~AwaitsConnect(q) /\ q \notin admitted /\ cl[q] # "off"
    BY <1>2, <2>1
  <2>3. q # conn[cur]
    BY <2>1, <2>2 DEF AwaitsConnect, ConnectArrives
  <2> QED
    BY <1>1, <2>1, <2>2, <2>3
<1>6. CASE Accept \/ ParseClientMessage \/ ReceiveDatagram \/ StartRound \/ EndRound
  <2>1. UNCHANGED <<toClient, admitted>>
    BY <1>6 DEF Accept, ParseClientMessage, ReceiveDatagram, StartRound, EndRound
  <2> QED
    BY <1>1, <1>2, <2>1
<1> QED
  BY <1>3, <1>4, <1>5, <1>6, ServesOn

\* The server reads an end of file only where nothing was said.
LEMMA ServerEof ==
  ASSUME IInv, LeaveInv, UNCHANGED cliVars, ServerStep
  PROVE  EofMeansCutOff'
<1>1. CASE ConnectEof
  <2>1. /\ pc = "connect" /\ toServer[conn[cur]] = <<>> /\ peer[conn[cur]] = "closed"
        /\ Serving
    BY <1>1 DEF ConnectEof, Serving, Alive
  <2>2. conn[cur] \in Clients /\ AwaitsConnect(conn[cur])
    BY <2>1, SocketsAssumption
    DEF IInv, ServerInv, CurIsFresh, TypeOK, SocketsTypeOK, AwaitsConnect
  <2>3. CutOff
    BY <2>1, <2>2 DEF LeaveInv, LeavingHasSaid
  <2> QED
    BY <2>3, ServerLosesNone DEF CutOff, EofMeansCutOff
<1>2. CASE ClientEof
  <2>1. PICK k \in DOMAIN sv_fds : IsNextReady(k) /\ toServer[conn[sv_fds[k]]] = <<>>
    BY <1>2 DEF ClientEof
  <2>2. pc = "clients" /\ idx <= k /\ sv_fds[k] \in ready
    BY <1>2, <2>1 DEF ClientEof, IsNextReady
  <2>3. CutOff
    BY <2>1, <2>2 DEF LeaveInv, ReadyHasPackets
  <2> QED
    BY <2>3, ServerLosesNone DEF CutOff, EofMeansCutOff
<1>3. CASE ~ConnectEof /\ ~ClientEof
  <2>1. why' = why \/ why' # "eof"
    BY <1>3 DEF ServerStep, ReadStdin, Accept, AcceptFails, Reconnect, AddNewSub,
       PollNewConnection, RefuseIntruder, ReceiveDatagram, SendNotification,
       NotificationSigpipe, NotificationBadFd, StartRound, ParseClientMessage,
       ClientMessageDies, FailedAsserts, EndRound, StopClient, StopSigpipe, StopServer,
       Halt, Spin
  <2> QED
    BY <2>1, ServerLosesNone DEF LeaveInv, EofMeansCutOff
<1> QED
  BY <1>1, <1>2, <1>3

\* What shrinks holds nothing that was not there.
LEMMA ShrinksToEmpty ==
  ASSUME IInv, IInv', ToServerShrinks, NEW p \in Clients, toServer'[p] # <<>>
  PROVE  toServer[p] # <<>>
<1>1. toServer'[p] \in Seq(ToServerPackets)
  BY DEF IInv, TypeOK, SocketsTypeOK
<1>2. 1 \in DOMAIN toServer'[p]
  BY <1>1, TailFacts
<1> QED
  BY <1>2, EmptyFacts DEF ToServerShrinks

\* A step of the server.
LEMMA ServerLeave ==
  ASSUME IInv, IInv', AdmissionInv, LeaveInv, UNCHANGED cliVars, ServerStep
  PROVE  LeaveInv'
<1>1. PolledAreAdmitted'
  <2> SUFFICES ASSUME Serving', NEW p \in Clients, Polled(p)' PROVE p \in admitted'
    BY DEF PolledAreAdmitted
  <2>1. Serving /\ admitted \subseteq admitted'
    BY ServesOn DEF Accept, Reconnect, AddNewSub, PollNewConnection, RefuseIntruder,
       ParseClientMessage
  <2>2. CASE Polled(p)
    BY <2>1, <2>2 DEF LeaveInv, PolledAreAdmitted
  <2>3. CASE ~Polled(p)
    BY <2>3, ServerPolls DEF Reconnect, AddNewSub, PollNewConnection
  <2> QED
    BY <2>2, <2>3
<1>2. OpenedToSend'
  <2> SUFFICES ASSUME NEW p \in Clients, toServer'[p] # <<>> PROVE peer[p] # "none"
    BY ServerTakes DEF OpenedToSend
  <2> QED
    BY ServerTakes, ShrinksToEmpty DEF LeaveInv, OpenedToSend
<1> QED
  BY <1>1, <1>2, ServerLeaves, ServerReady, ServerSignals, ServerEof DEF LeaveInv

\* A reset that loses the goodbye of a run cuts it off; before that, it finds
\* the goodbye last and takes nothing else.
LEMMA ResetsLeave ==
  ASSUME IInv, IInv', RunningIsOpen, LeaveInv, Resets
  PROVE  LeaveInv'
<1>1. PICK p \in Clients : LoseToServer(p) \/ LoseToClient(p)
  BY DEF Resets
<1>2. UNCHANGED <<conn, backlog, peer, cl, sv_fds, idx, ready, cur, pc, why, admitted>>
  BY <1>1 DEF Resets, LoseToServer, LoseToClient
<1>3. toServer \in [Clients -> Seq(ToServerPackets)] /\ lost \in [Clients -> Seq(ToServerPackets)]
  BY DEF IInv, TypeOK, SocketsTypeOK
<1>4. CutOff => CutOff'
  <2>1. CASE LoseToClient(p)
    <3>1. UNCHANGED lost
      BY <2>1 DEF LoseToClient
    <3> QED
      BY <1>2, <3>1, CutOffStays
  <2>2. CASE LoseToServer(p)
    <3>1. /\ lost' = [lost EXCEPT ![p] = <<Last(toServer[p])>> \o lost[p]]
          /\ lost[p] \in Seq(ToServerPackets) /\ Last(toServer[p]) \in ToServerPackets
      <4>1. toServer[p] \in Seq(ToServerPackets) /\ lost[p] \in Seq(ToServerPackets)
        BY <1>3
      <4> QED
        BY <2>2, <4>1, FrontFacts DEF LoseToServer
    <3>2. \A n \in DOMAIN lost[p] : n + 1 \in DOMAIN lost'[p] /\ lost'[p][n + 1] = lost[p][n]
      BY <1>3, <3>1, PrependFacts
    <3>3. \A q \in Clients : q # p => lost'[q] = lost[q]
      BY <1>3, <3>1
    <3>4. \A q \in Clients : \A e \in Range(lost[q]) : e \in Range(lost'[q])
      BY <3>2, <3>3 DEF Range
    <3> QED
      BY <1>2, <3>4 DEF CutOff
  <2> QED
    BY <1>1, <2>1, <2>2
<1>5. ASSUME LoseToServer(p), toServer[p] # <<>>, Last(toServer[p]).action = "SHUTDOWN_CLOSE"
      PROVE  CutOff'
  <2>1. toServer[p] \in Seq(ToServerPackets) /\ lost[p] \in Seq(ToServerPackets)
    BY <1>3
  <2>2. Last(toServer[p]) \in ToServerPackets
    BY <1>5, <2>1, FrontFacts
  <2>3. Last(toServer[p]) = [action |-> "SHUTDOWN_CLOSE"]
    BY <1>5, <2>2 DEF ToServerPackets
  <2>4. lost'[p] = <<Last(toServer[p])>> \o lost[p]
    BY <1>3, <1>5 DEF LoseToServer
  <2>5. 1 \in DOMAIN lost'[p] /\ lost'[p][1] = Last(toServer[p])
    BY <2>1, <2>2, <2>4, PrependFacts
  <2>6. [action |-> "SHUTDOWN_CLOSE"] \in Range(lost'[p])
    BY <2>3, <2>5 DEF Range
  <2> QED
    BY <2>6 DEF CutOff
<1>6. ASSUME LoseToServer(p), Serving, AwaitsConnect(p) \/ Polled(p)
      PROVE  CutOff'
  <2>1. toServer[p] # <<>> /\ rst[p] /\ peer[p] \in {"none", "open", "closed"}
    BY <1>6 DEF LoseToServer, IInv, TypeOK, SocketsTypeOK
  <2>2. peer[p] = "closed"
    BY <2>1 DEF LeaveInv, OpenedToSend, RunningIsOpen
  <2>3. CASE CutOff
    BY <1>4, <2>3
  <2>4. CASE ~CutOff
    <3>1. Last(toServer[p]).action = "SHUTDOWN_CLOSE"
      BY <1>6, <2>2, <2>4 DEF LeaveInv, LeavingHasSaid
    <3> QED
      BY <1>5, <1>6, <2>1, <3>1
  <2> QED
    BY <2>3, <2>4
<1>7. \A q \in Clients : (q = p /\ LoseToServer(p)) \/ toServer'[q] = toServer[q]
  BY <1>1, <1>3 DEF LoseToServer, LoseToClient
<1>8. LeavingHasSaid'
  <2> SUFFICES ASSUME Serving, ~CutOff', NEW q \in Clients, AwaitsConnect(q) \/ Polled(q),
                      cl[q] = "leaving" \/ peer[q] = "closed"
               PROVE  toServer'[q] # <<>> /\ Last(toServer'[q]).action = "SHUTDOWN_CLOSE"
    BY <1>2 DEF LeavingHasSaid, Serving, Alive, AwaitsConnect, Polled, Session
  <2>1. toServer'[q] = toServer[q]
    BY <1>6, <1>7
  <2> QED
    BY <1>4, <2>1 DEF LeaveInv, LeavingHasSaid
<1>9. ReadyHasPackets'
  <2> SUFFICES ASSUME pc = "clients", ~CutOff', NEW k \in DOMAIN sv_fds, idx <= k,
                      sv_fds[k] \in ready
               PROVE  toServer'[conn[sv_fds[k]]] # <<>>
    BY <1>2 DEF ReadyHasPackets
  <2>1. Serving /\ conn[sv_fds[k]] \in Clients
    BY PolledFacts DEF Serving, Alive
  <2>2. Polled(conn[sv_fds[k]])
    BY DEF Polled, Session
  <2>3. toServer'[conn[sv_fds[k]]] = toServer[conn[sv_fds[k]]]
    BY <1>6, <1>7, <2>1, <2>2
  <2> QED
    BY <1>4, <2>3 DEF LeaveInv, ReadyHasPackets
<1>10. SignalsMeant'
  <2> SUFFICES ASSUME Serving, NEW q \in Clients, NEW n \in DOMAIN toClient'[q],
                      toClient'[q][n].action # "NOTIFICATION_ACTION"
               PROVE  ~AwaitsConnect(q) /\ q \notin admitted /\ cl[q] # "off"
    BY <1>2 DEF SignalsMeant, Serving, Alive, AwaitsConnect
  <2>1. PICK k \in DOMAIN toClient[q] : toClient'[q][n] = toClient[q][k]
    BY ResetsShrink DEF ToClientShrinks
  <2> QED
    BY <2>1 DEF LeaveInv, SignalsMeant
<1>11. OpenedToSend'
  <2> SUFFICES ASSUME NEW q \in Clients, toServer'[q] # <<>> PROVE peer[q] # "none"
    BY <1>2 DEF OpenedToSend
  <2> QED
    BY ResetsShrink, ShrinksToEmpty DEF LeaveInv, OpenedToSend
<1>12. PolledAreAdmitted'
  BY <1>2 DEF LeaveInv, PolledAreAdmitted, Polled, Session, Serving, Alive
<1>13. EofMeansCutOff'
  BY <1>2, <1>4 DEF LeaveInv, EofMeansCutOff, CutOff
<1> QED
  BY <1>8, <1>9, <1>10, <1>11, <1>12, <1>13 DEF LeaveInv

\* Every step.
LEMMA NextLeave ==
  IInv /\ RunningIsOpen /\ AdmissionInv /\ LeaveInv /\ [Next]_vars => LeaveInv'
<1> SUFFICES ASSUME IInv, RunningIsOpen, AdmissionInv, LeaveInv, [Next]_vars PROVE LeaveInv'
  OBVIOUS
<1>0. IInv'
  BY NextInv
<1>1. CASE ServerStep /\ UNCHANGED cliVars
  BY <1>0, <1>1, ServerLeave
<1>2. CASE \E p \in Clients : (ClientStep(p) \/ UserStep(p)) /\ UNCHANGED srvVars
  BY <1>2, ClientLeave
<1>3. CASE (\E t \in Topics : Publish(t)) \/ OperatorExit \/ UNCHANGED vars
  <2>1. UNCHANGED <<toServer, toClient, peer, conn, backlog, sv_fds, idx, ready, cur,
                    admitted, cl, pc, why, lost>>
    BY <1>3 DEF Publish, OperatorExit, vars
  <2> QED
    BY <2>1 DEF LeaveInv, LeavingHasSaid, ReadyHasPackets, SignalsMeant, PolledAreAdmitted,
                OpenedToSend, EofMeansCutOff, CutOff, AwaitsConnect, Polled, Session, Serving, Alive
<1>4. CASE Resets
  BY <1>0, <1>4, ResetsLeave
<1> QED
  BY <1>1, <1>2, <1>3, <1>4 DEF Next, Resets

\* What is said on leaving, in every reachable state.
LEMMA LeaveInvariance == Spec => []LeaveInv
<1>1. ASSUME Init PROVE LeaveInv
  <2>1. /\ \A p \in Clients : toClient[p] = <<>> /\ toServer[p] = <<>> /\ peer[p] = "none"
        /\ \A p \in Clients : cl[p] = "off"
        /\ pc = "poll" /\ why = "" /\ sv_fds = <<>>
    BY <1>1 DEF Init, SocketsInit, ServerInit, SubscriberInit
  <2> QED
    BY <2>1, EmptyFacts
    DEF LeaveInv, LeavingHasSaid, ReadyHasPackets, SignalsMeant, PolledAreAdmitted,
        OpenedToSend, EofMeansCutOff, Polled
<1> QED
  BY <1>1, NextLeave, AdmissionInvariance, OpenInvariance, Invariance, PTL DEF Spec

\* The server is caught reading an end of file only when a run of the
\* subscriber program was killed or when its reset lost its SHUTDOWN_CLOSE: one
\* that leaves with the exit command, before or after it is admitted, and whose
\* goodbye arrives, never does this to it.
THEOREM EofNeedsACutOff == Spec => []EofMeansCutOff
<1>1. LeaveInv => EofMeansCutOff
  BY DEF LeaveInv
<1> QED
  BY <1>1, LeaveInvariance, PTL
=============================================================================
