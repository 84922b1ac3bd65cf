---------------------------- MODULE BrokerProofs ----------------------------
(***************************************************************************)
(* Proofs about the whole broker, for every number of runs, ids, patterns  *)
(* and descriptors, and for every pattern of crashes; as Server says, for  *)
(* executions in which the array sv_fds is not written past its end.       *)
(*                                                                         *)
(* One inductive invariant carries them all.  That an id has one polled    *)
(* session is not inductive: it needs the record behind every polled       *)
(* descriptor (PolledHasRecord), at most one record per id                 *)
(* (RecordsDistinct), that no two descriptors name the same run            *)
(* (ConnectionsDistinct), and that a connection being admitted has sent    *)
(* its CONNECT packet first (FirstIsConnect).                              *)
(***************************************************************************)
EXTENDS BrokerProperties, SequenceTheorems, TLAPS

\* A packet, a record or a descriptor added at the end of a queue or vector.
LEMMA AppendFacts ==
  ASSUME NEW S, NEW s \in Seq(S), NEW e \in S
  PROVE  /\ Append(s, e) \in Seq(S)
         /\ Append(s, e) # <<>>
         /\ Len(Append(s, e)) = Len(s) + 1
         /\ DOMAIN Append(s, e) = 1 .. Len(s) + 1
         /\ \A k \in DOMAIN s : Append(s, e)[k] = s[k]
         /\ Append(s, e)[Len(s) + 1] = e
         /\ s # <<>> => Head(Append(s, e)) = Head(s)
         /\ s = <<>> => Head(Append(s, e)) = e
<1>1. Append(s, e) \in Seq(S) /\ Append(s, e) # <<>> /\ Len(Append(s, e)) = Len(s) + 1
      /\ \A k \in 1 .. Len(s) : Append(s, e)[k] = s[k]
      /\ Append(s, e)[Len(s) + 1] = e
  BY AppendProperties
<1>2. DOMAIN s = 1 .. Len(s) /\ DOMAIN Append(s, e) = 1 .. Len(s) + 1
  BY <1>1, LenProperties
<1>3. Head(Append(s, e)) = IF s = <<>> THEN e ELSE Head(s)
  BY HeadTailAppend
<1> QED
  BY <1>1, <1>2, <1>3

\* A packet or a connection taken from the front of a queue.
LEMMA TailFacts ==
  ASSUME NEW S, NEW s \in Seq(S), s # <<>>
  PROVE  /\ Tail(s) \in Seq(S)
         /\ Head(s) \in S
         /\ Len(Tail(s)) = Len(s) - 1
         /\ DOMAIN s = 1 .. Len(s) /\ DOMAIN Tail(s) = 1 .. Len(s) - 1
         /\ \A k \in DOMAIN Tail(s) : k + 1 \in DOMAIN s /\ Tail(s)[k] = s[k + 1]
         /\ 1 \in DOMAIN s /\ Head(s) = s[1]
  OBVIOUS

\* What the shift of handle_shutdown_sub leaves in the array.
LEMMA RemoveAtFacts ==
  ASSUME NEW S, NEW s \in Seq(S), NEW k \in DOMAIN s
  PROVE  /\ RemoveAt(s, k) \in Seq(S)
         /\ Len(RemoveAt(s, k)) = Len(s) - 1
         /\ \A j \in DOMAIN RemoveAt(s, k) :
              RemoveAt(s, k)[j] = IF j < k THEN s[j] ELSE s[j + 1]
<1> DEFINE a == SubSeq(s, 1, k - 1)
           b == SubSeq(s, k + 1, Len(s))
<1>1. Len(s) \in Nat /\ DOMAIN s = 1 .. Len(s) /\ \A j \in 1 .. Len(s) : s[j] \in S
  BY LenProperties, ElementOfSeq
<1>2. k \in Nat /\ 1 <= k /\ k <= Len(s)
  BY <1>1
<1>3. a \in Seq(S) /\ Len(a) = k - 1 /\ \A j \in 1 .. k - 1 : a[j] = s[j]
  <2>1. 1 \in Int /\ k - 1 \in Int /\ \A j \in 1 .. k - 1 : s[j] \in S
    BY <1>1, <1>2
  <2>2. /\ a \in Seq(S)
        /\ Len(a) = IF 1 <= k - 1 THEN k - 1 - 1 + 1 ELSE 0
        /\ \A j \in 1 .. k - 1 - 1 + 1 : a[j] = s[1 + j - 1]
    BY <2>1, SubSeqProperties
  <2>3. k - 1 - 1 + 1 = k - 1 /\ \A j \in Int : 1 + j - 1 = j
    BY <1>2
  <2> HIDE DEF a, b
  <2> QED
    BY <1>1, <1>2, <2>2, <2>3
<1>4. b \in Seq(S) /\ Len(b) = Len(s) - k
      /\ \A j \in 1 .. Len(s) - k : b[j] = s[k + j]
  <2>1. k + 1 \in Int /\ Len(s) \in Int /\ \A j \in k + 1 .. Len(s) : s[j] \in S
    BY <1>1, <1>2
  <2>2. /\ b \in Seq(S)
        /\ Len(b) = IF k + 1 <= Len(s) THEN Len(s) - (k + 1) + 1 ELSE 0
        /\ \A j \in 1 .. Len(s) - (k + 1) + 1 : b[j] = s[k + 1 + j - 1]
    BY <2>1, SubSeqProperties
  <2>3. Len(s) - (k + 1) + 1 = Len(s) - k /\ \A j \in Int : k + 1 + j - 1 = k + j
    BY <1>1, <1>2
  <2> HIDE DEF a, b
  <2>4. Len(b) = Len(s) - k
    BY <1>1, <1>2, <2>2
  <2>5. ASSUME NEW j \in 1 .. Len(s) - k PROVE b[j] = s[k + j]
    <3>1. j \in 1 .. Len(s) - (k + 1) + 1 /\ k + 1 + j - 1 = k + j
      BY <1>1, <1>2
    <3> QED
      BY <2>2, <3>1
  <2> QED
    BY <2>2, <2>4, <2>5
<1> HIDE DEF a, b
<1>5. /\ a \o b \in Seq(S) /\ Len(a \o b) = Len(s) - 1
      /\ \A j \in 1 .. Len(s) - 1 : (a \o b)[j] = IF j <= k - 1 THEN a[j] ELSE b[j - (k - 1)]
  <2>1. /\ a \o b \in Seq(S) /\ Len(a \o b) = Len(a) + Len(b)
        /\ \A j \in 1 .. Len(a) + Len(b) :
             (a \o b)[j] = IF j <= Len(a) THEN a[j] ELSE b[j - Len(a)]
    BY <1>3, <1>4, ConcatProperties
  <2>2. Len(a) = k - 1 /\ Len(a) + Len(b) = Len(s) - 1
    BY <1>1, <1>2, <1>3, <1>4
  <2> QED
    BY <2>1, <2>2
<1>6. \A j \in 1 .. Len(s) - 1 : (a \o b)[j] = IF j < k THEN s[j] ELSE s[j + 1]
  <2> SUFFICES ASSUME NEW j \in 1 .. Len(s) - 1
               PROVE  (a \o b)[j] = IF j < k THEN s[j] ELSE s[j + 1]
    OBVIOUS
  <2>1. CASE j < k
    BY <1>1, <1>2, <1>3, <1>5, <2>1
  <2>2. CASE ~(j < k)
    <3>1. j - (k - 1) \in 1 .. Len(s) - k /\ k + (j - (k - 1)) = j + 1 /\ ~(j <= k - 1)
      BY <1>1, <1>2, <2>2
    <3> QED
      BY <1>4, <1>5, <2>2, <3>1
  <2> QED
    BY <2>1, <2>2
<1>7. DOMAIN (a \o b) = 1 .. Len(s) - 1
  BY <1>5, LenProperties
<1>8. RemoveAt(s, k) = a \o b
  BY DEF RemoveAt, a, b
<1> QED
  BY <1>5, <1>6, <1>7, <1>8
-----------------------------------------------------------------------------
(***************************************************************************)
(* The inductive invariant.                                                *)
(***************************************************************************)

\* p's CONNECT packet has not been read by the server yet.
AwaitsConnect(p) ==
  \/ \E k \in DOMAIN backlog : backlog[k] = p
  \/ pc = "connect" /\ conn[cur] = p

\* A connection has one place in the kernel: one descriptor, or one place in
\* the accept queue.
ConnectionsDistinct ==
  /\ \A f, g \in Fds : conn[f] = conn[g] /\ conn[f] # None => f = g
  /\ \A j, k \in DOMAIN backlog : backlog[j] = backlog[k] => j = k
  /\ \A k \in DOMAIN backlog, f \in Fds : conn[f] # backlog[k]

\* A run that has not started has no connection, and one that has not sent its
\* CONNECT packet has sent nothing.
NothingBeforeConnect ==
  \A p \in Clients :
    /\ cl[p] = "off" => ~ServerEndOpen(p)
    /\ cl[p] \in {"off", "connecting"} => toServer[p] = <<>>

\* The first packet of a connection that is not admitted yet is CONNECT, and
\* carries the id of the run.
FirstIsConnect ==
  \A p \in Clients :
    AwaitsConnect(p) =>
      IF toServer[p] = <<>>
      THEN cl[p] # "run"
      ELSE Head(toServer[p]) = [action |-> "CONNECT_ACTION", id |-> IdOf[p]]

\* The connection being accepted is open and not polled.
CurIsFresh ==
  pc = "connect" =>
    /\ cur \in Fds
    /\ conn[cur] # None
    /\ \A k \in DOMAIN sv_fds : sv_fds[k] # cur

\* While notifications go out there is a datagram to forward.
ForwardsADatagram == pc = "notify" => dgram \in Datagrams

\* check_and_add_new_sub never adds a second record for an id.
RecordsDistinct ==
  \A i, j \in DOMAIN subs : subs[i].id = subs[j].id => i = j

\* Every polled descriptor is open, polled once, and is the descriptor of the
\* online record of the id behind it.
PolledHasRecord ==
  Serving =>
    /\ \A j, k \in DOMAIN sv_fds : sv_fds[j] = sv_fds[k] => j = k
    /\ \A k \in DOMAIN sv_fds :
         /\ conn[sv_fds[k]] # None
         /\ \E i \in DOMAIN subs :
              /\ subs[i].fd = sv_fds[k]
              /\ subs[i].id = IdOf[conn[sv_fds[k]]]
              /\ subs[i].online

\* A run that goes on has not closed its socket, and only a socket that has been
\* closed resets its connection.
RunningIsOpen ==
  \A p \in Clients :
    /\ cl[p] \in {"connecting", "run", "leaving", "spin"} => peer[p] = "open"
    /\ rst[p] => peer[p] # "open" /\ cl[p] # "off"

\* What concerns the server's variables and descriptors only.
ServerInv ==
  /\ CurIsFresh
  /\ ForwardsADatagram
  /\ RecordsDistinct
  /\ PolledHasRecord
  /\ LookupsSucceed

IInv ==
  /\ TypeOK
  /\ ConnectionsDistinct
  /\ NothingBeforeConnect
  /\ FirstIsConnect
  /\ ServerInv

-----------------------------------------------------------------------------
USE DEF sockVars, srvVars, cliVars

\* An empty queue has no positions.
LEMMA EmptyFacts ==
  ASSUME NEW S
  PROVE  <<>> \in Seq(S) /\ DOMAIN <<>> = {}
BY EmptySeq, LenProperties

\* The state in which main() of server.cpp enters start_server().
LEMMA InitInv == Init => IInv
<1> SUFFICES ASSUME Init PROVE IInv
  OBVIOUS
<1>e. /\ <<>> \in Seq(Clients) /\ <<>> \in Seq(ToServerPackets)
      /\ <<>> \in Seq(ToClientPackets) /\ <<>> \in Seq(Datagrams)
      /\ <<>> \in Seq(Subscribers) /\ <<>> \in Seq(Fds)
      /\ DOMAIN <<>> = {}
  BY EmptyFacts
<1>1. SocketsTypeOK
  BY <1>e DEF Init, SocketsInit, SocketsTypeOK
<1>2. ServerTypeOK
  <2>1. subs \in Seq(Subscribers) /\ sv_fds \in Seq(Fds)
    BY <1>e DEF Init, ServerInit
  <2>2. /\ pc \in Phases
        /\ why \in {"", "exit", "accept", "get_sub", "not_subbed", "sigpipe", "eof", "badfd"}
    BY DEF Init, ServerInit, Phases
  <2>3. ready \subseteq Fds /\ pending \subseteq DOMAIN subs /\ admitted \subseteq Clients
    BY DEF Init, ServerInit
  <2>4. stdin \in BOOLEAN /\ aliased \in BOOLEAN
    BY DEF Init, ServerInit
  <2>5. idx \in Nat \ {0}
    <3>1. idx = 1
      BY DEF Init, ServerInit
    <3> QED
      BY <3>1
  <2>6. cur \in Fds \cup {None} /\ dgram \in Datagrams \cup {None}
    BY DEF Init, ServerInit
  <2> QED
    BY <2>1, <2>2, <2>3, <2>4, <2>5, <2>6 DEF ServerTypeOK
<1>3. SubscriberTypeOK
  BY <1>e DEF Init, SubscriberInit, SubscriberTypeOK, ClientPhases
<1>4. ConnectionsDistinct /\ NothingBeforeConnect /\ FirstIsConnect
  <2>1. /\ \A k \in DOMAIN backlog : FALSE
        /\ \A f \in Fds : conn[f] = None
        /\ \A p \in Clients : toServer[p] = <<>>
        /\ pc = "poll"
    BY <1>e DEF Init, SocketsInit, ServerInit
  <2> QED
    BY <2>1, SocketsAssumption
    DEF ConnectionsDistinct, NothingBeforeConnect, FirstIsConnect, AwaitsConnect,
        ServerEndOpen
<1>5. ServerInv
  BY <1>e DEF Init, ServerInit, ServerInv, CurIsFresh, ForwardsADatagram, RecordsDistinct, PolledHasRecord,
         LookupsSucceed, Serving, Alive
<1> QED
  BY <1>1, <1>2, <1>3, <1>4, <1>5 DEF IInv, TypeOK

-----------------------------------------------------------------------------
(***************************************************************************)
(* The subscribers' steps.  None of them touches the server's variables or *)
(* descriptors.                                                            *)
(***************************************************************************)

\* What the server relies on does not mention the subscribers' own state.
LEMMA ServerPartKept ==
  ASSUME IInv, UNCHANGED <<srvVars, conn>>
  PROVE  ServerTypeOK' /\ ServerInv'
BY ZenonT(40) DEF IInv, TypeOK, ServerTypeOK, Phases, ServerInv, CurIsFresh, ForwardsADatagram,
       RecordsDistinct, PolledHasRecord, LookupsSucceed, Serving, Alive, Subscribers

\* A packet a running subscriber sends goes behind those already sent.
LEMMA SendKeepsInv ==
  ASSUME IInv, NEW p \in Clients, NEW m \in ToServerPackets,
         cl[p] = "run", cl'[p] \in {"run", "leaving"},
         \A q \in Clients : q # p => cl'[q] = cl[q],
         SendToServer(p, m), UNCHANGED <<conn, backlog, pc, cur>>
  PROVE  /\ toServer' \in [Clients -> Seq(ToServerPackets)]
         /\ ConnectionsDistinct' /\ NothingBeforeConnect' /\ FirstIsConnect'
<1>1. /\ toServer \in [Clients -> Seq(ToServerPackets)]
      /\ toServer[p] \in Seq(ToServerPackets)
      /\ ConnectionsDistinct /\ NothingBeforeConnect /\ FirstIsConnect
  BY DEF IInv, TypeOK, SocketsTypeOK
<1>2. \A q \in Clients :
        toServer'[q] = IF q = p THEN Append(toServer[q], m) ELSE toServer[q]
  BY <1>1 DEF SendToServer
<1>3. /\ Append(toServer[p], m) \in Seq(ToServerPackets) /\ Append(toServer[p], m) # <<>>
      /\ toServer[p] # <<>> => Head(Append(toServer[p], m)) = Head(toServer[p])
  BY <1>1, AppendFacts
<1>4. toServer' \in [Clients -> Seq(ToServerPackets)]
  BY <1>1, <1>3 DEF SendToServer
<1>5. ConnectionsDistinct'
  BY <1>1 DEF ConnectionsDistinct
<1>6. NothingBeforeConnect'
  BY <1>1, <1>2 DEF NothingBeforeConnect, ServerEndOpen
<1>7. FirstIsConnect'
  <2> SUFFICES ASSUME NEW q \in Clients, AwaitsConnect(q)
               PROVE  IF toServer'[q] = <<>>
                      THEN cl'[q] # "run"
                      ELSE Head(toServer'[q]) = [action |-> "CONNECT_ACTION", id |-> IdOf[q]]
    BY DEF FirstIsConnect, AwaitsConnect
  <2>1. CASE q = p
    <3>1. toServer[p] # <<>> /\ Head(toServer[p]) = [action |-> "CONNECT_ACTION", id |-> IdOf[p]]
      BY <1>1, <2>1 DEF FirstIsConnect
    <3> QED
      BY <1>2, <1>3, <2>1, <3>1
  <2>2. CASE q # p
    BY <1>1, <1>2, <2>2 DEF FirstIsConnect
  <2> QED
    BY <2>1, <2>2
<1> QED
  BY <1>4, <1>5, <1>6, <1>7

\* A step that at most ends a run, or sets it spinning, keeps what the server
\* relies on while it accepts.
LEMMA EndKeepsInv ==
  ASSUME IInv, UNCHANGED <<conn, backlog, toServer, pc, cur>>,
         \A q \in Clients : cl'[q] = cl[q] \/ cl'[q] \in {"gone", "spin"}
  PROVE  ConnectionsDistinct' /\ NothingBeforeConnect' /\ FirstIsConnect'
<1>1. ConnectionsDistinct /\ NothingBeforeConnect /\ FirstIsConnect
  BY DEF IInv
<1>2. ConnectionsDistinct'
  BY <1>1 DEF ConnectionsDistinct
<1>3. NothingBeforeConnect'
  BY <1>1 DEF NothingBeforeConnect, ServerEndOpen
<1>4. FirstIsConnect'
  BY <1>1 DEF FirstIsConnect, AwaitsConnect
<1> QED
  BY <1>2, <1>3, <1>4

\* Closing the subscriber's end keeps the types of the sockets.
LEMMA CloseClientEndType ==
  ASSUME SocketsTypeOK, NEW p \in Clients, NEW unread, CloseClientEnd(p, unread)
  PROVE  /\ peer' \in [Clients -> {"none", "open", "closed"}]
         /\ toClient' \in [Clients -> Seq(ToClientPackets)]
         /\ rst' \in [Clients -> BOOLEAN]
<1>1. peer' \in [Clients -> {"none", "open", "closed"}]
  BY DEF SocketsTypeOK, CloseClientEnd
<1>2. toClient' \in [Clients -> Seq(ToClientPackets)]
  BY EmptyFacts DEF SocketsTypeOK, CloseClientEnd
<1>3. rst' \in [Clients -> BOOLEAN]
  BY DEF SocketsTypeOK, CloseClientEnd
<1> QED
  BY <1>1, <1>2, <1>3

\* connect() adds a connection that nobody has accepted and nothing has used.
LEMMA ConnectInv ==
  ASSUME IInv, UNCHANGED srvVars, NEW p \in Clients, Connect(p)
  PROVE  IInv'
<1>1. ServerTypeOK' /\ ServerInv'
  BY ServerPartKept DEF Connect
<1>2. SocketsTypeOK /\ SubscriberTypeOK /\ ConnectionsDistinct /\ NothingBeforeConnect
      /\ FirstIsConnect
  BY DEF IInv, TypeOK
<1>3. backlog \in Seq(Clients)
  BY <1>2 DEF SocketsTypeOK
<1>4. /\ backlog' \in Seq(Clients) /\ DOMAIN backlog = 1 .. Len(backlog)
      /\ DOMAIN backlog' = 1 .. Len(backlog) + 1 /\ Len(backlog) \in Nat
      /\ \A k \in DOMAIN backlog : backlog'[k] = backlog[k]
      /\ backlog'[Len(backlog) + 1] = p
  BY <1>3, AppendFacts, LenProperties DEF Connect
<1>5. SocketsTypeOK'
  BY <1>2, <1>4 DEF SocketsTypeOK, Connect
<1>6. SubscriberTypeOK'
  BY <1>2 DEF SubscriberTypeOK, ClientPhases, Connect
<1>7. /\ \A k \in DOMAIN backlog : backlog[k] # p
      /\ \A f \in Fds : conn[f] # p
      /\ toServer[p] = <<>>
  BY <1>2 DEF NothingBeforeConnect, ServerEndOpen, Connect
<1>8. ConnectionsDistinct'
  BY <1>2, <1>4, <1>7 DEF ConnectionsDistinct, Connect
<1>9. NothingBeforeConnect'
  BY <1>2, <1>4, <1>7 DEF NothingBeforeConnect, ServerEndOpen, Connect, SubscriberTypeOK
<1>10. FirstIsConnect'
  <2>1. ASSUME NEW q \in Clients, AwaitsConnect(q)' PROVE q = p \/ AwaitsConnect(q)
    BY <1>4, <2>1 DEF AwaitsConnect, Connect
  <2>2. \A q \in Clients : cl'[q] = IF q = p THEN "connecting" ELSE cl[q]
    BY <1>2 DEF SubscriberTypeOK, Connect
  <2>3. toServer' = toServer
    BY DEF Connect
  <2> QED
    BY <1>2, <1>7, <2>1, <2>2, <2>3 DEF FirstIsConnect
<1> QED
  BY <1>1, <1>5, <1>6, <1>8, <1>9, <1>10 DEF IInv, TypeOK

\* The CONNECT packet is the first packet of its connection.
LEMMA SendConnectInv ==
  ASSUME IInv, UNCHANGED srvVars, NEW p \in Clients, SendConnect(p)
  PROVE  IInv'
<1> DEFINE m == [action |-> "CONNECT_ACTION", id |-> IdOf[p]]
<1>1. ServerTypeOK' /\ ServerInv'
  BY ServerPartKept DEF SendConnect
<1>2. SocketsTypeOK /\ SubscriberTypeOK /\ ConnectionsDistinct /\ NothingBeforeConnect
      /\ FirstIsConnect
  BY DEF IInv, TypeOK
<1>3. m \in ToServerPackets
  BY SocketsAssumption DEF ToServerPackets
<1> HIDE DEF m
<1>4. toServer \in [Clients -> Seq(ToServerPackets)] /\ toServer[p] = <<>>
  BY <1>2 DEF SocketsTypeOK, NothingBeforeConnect, SendConnect
<1>5. /\ Append(toServer[p], m) \in Seq(ToServerPackets) /\ Append(toServer[p], m) # <<>>
      /\ Head(Append(toServer[p], m)) = m
  BY <1>3, <1>4, AppendFacts
<1>6. SendToServer(p, m)
  BY DEF SendConnect, m
<1>7. \A q \in Clients :
        toServer'[q] = IF q = p THEN Append(toServer[q], m) ELSE toServer[q]
  BY <1>4, <1>6 DEF SendToServer
<1>8. toServer' \in [Clients -> Seq(ToServerPackets)]
  BY <1>4, <1>5, <1>6 DEF SendToServer
<1>9. SocketsTypeOK'
  BY <1>2, <1>8 DEF SocketsTypeOK, SendConnect
<1>10. SubscriberTypeOK'
  BY <1>2 DEF SubscriberTypeOK, ClientPhases, SendConnect
<1>11. ConnectionsDistinct'
  BY <1>2 DEF ConnectionsDistinct, SendConnect
<1>12. \A q \in Clients : cl'[q] = IF q = p THEN "run" ELSE cl[q]
  BY <1>2 DEF SubscriberTypeOK, SendConnect
<1>13. NothingBeforeConnect'
  BY <1>2, <1>7, <1>12 DEF NothingBeforeConnect, ServerEndOpen, SendConnect
<1>14. FirstIsConnect'
  <2> SUFFICES ASSUME NEW q \in Clients, AwaitsConnect(q)
               PROVE  IF toServer'[q] = <<>>
                      THEN cl'[q] # "run"
                      ELSE Head(toServer'[q]) = [action |-> "CONNECT_ACTION", id |-> IdOf[q]]
    BY DEF FirstIsConnect, AwaitsConnect, SendConnect
  <2>1. CASE q = p
    BY <1>5, <1>7, <2>1 DEF m
  <2>2. CASE q # p
    BY <1>2, <1>7, <1>12, <2>2 DEF FirstIsConnect
  <2> QED
    BY <2>1, <2>2
<1> QED
  BY <1>1, <1>9, <1>10, <1>11, <1>13, <1>14 DEF IInv, TypeOK

\* The history of commands stays a count per run and pattern.
LEMMA CountType ==
  ASSUME NEW h \in [Clients -> [Patterns -> Nat]], NEW p \in Clients, NEW t \in Patterns
  PROVE  Count(h, p, t) \in [Clients -> [Patterns -> Nat]]
BY DEF Count

\* Subscribe, Unsubscribe and Exit.
LEMMA CommandInv ==
  ASSUME IInv, UNCHANGED srvVars, NEW p \in Clients,
         Exit(p) \/ \E t \in Patterns : Subscribe(p, t) \/ Unsubscribe(p, t)
  PROVE  IInv'
<1>1. ServerTypeOK' /\ ServerInv'
  BY ServerPartKept DEF Subscribe, Unsubscribe, Exit
<1>2. SocketsTypeOK /\ SubscriberTypeOK
  BY DEF IInv, TypeOK
<1>3. /\ cmds' \in Nat
      /\ cl[p] = "run"
  <2>1. Type(p)
    BY DEF Subscribe, Unsubscribe, Exit
  <2> QED
    BY <1>2, <2>1 DEF SubscriberTypeOK, Type
<1>4. ASSUME NEW t \in Patterns, Subscribe(p, t) PROVE IInv'
  <2>1. [action |-> "SUBSCRIBE_ACTION", topic |-> t] \in ToServerPackets
    BY DEF ToServerPackets
  <2>2. /\ toServer' \in [Clients -> Seq(ToServerPackets)]
        /\ ConnectionsDistinct' /\ NothingBeforeConnect' /\ FirstIsConnect'
    BY <1>3, <1>4, <2>1, SendKeepsInv DEF Subscribe
  <2>3. SocketsTypeOK'
    BY <1>2, <1>4, <2>2 DEF SocketsTypeOK, Subscribe
  <2>4. SubscriberTypeOK'
    BY <1>2, <1>3, <1>4, CountType DEF SubscriberTypeOK, Subscribe
  <2> QED
    BY <1>1, <2>2, <2>3, <2>4 DEF IInv, TypeOK
<1>5. ASSUME NEW t \in Patterns, Unsubscribe(p, t) PROVE IInv'
  <2>1. [action |-> "UNSUBSCRIBE_ACTION", topic |-> t] \in ToServerPackets
    BY DEF ToServerPackets
  <2>2. /\ toServer' \in [Clients -> Seq(ToServerPackets)]
        /\ ConnectionsDistinct' /\ NothingBeforeConnect' /\ FirstIsConnect'
    BY <1>3, <1>5, <2>1, SendKeepsInv DEF Unsubscribe
  <2>3. SocketsTypeOK'
    BY <1>2, <1>5, <2>2 DEF SocketsTypeOK, Unsubscribe
  <2>4. SubscriberTypeOK'
    BY <1>2, <1>3, <1>5, CountType DEF SubscriberTypeOK, Unsubscribe
  <2> QED
    BY <1>1, <2>2, <2>3, <2>4 DEF IInv, TypeOK
<1>6. CASE Exit(p)
  <2>1. [action |-> "SHUTDOWN_CLOSE"] \in ToServerPackets
    BY DEF ToServerPackets
  <2>2. cl'[p] = "leaving" /\ \A q \in Clients : q # p => cl'[q] = cl[q]
    BY <1>2, <1>6 DEF SubscriberTypeOK, Exit
  <2>3. /\ toServer' \in [Clients -> Seq(ToServerPackets)]
        /\ ConnectionsDistinct' /\ NothingBeforeConnect' /\ FirstIsConnect'
    BY <1>3, <1>6, <2>1, <2>2, SendKeepsInv DEF Exit
  <2>4. SocketsTypeOK'
    BY <1>2, <1>6, <2>3 DEF SocketsTypeOK, Exit
  <2>5. SubscriberTypeOK'
    BY <1>2, <1>3, <1>6 DEF SubscriberTypeOK, ClientPhases, Exit
  <2> QED
    BY <1>1, <2>3, <2>4, <2>5 DEF IInv, TypeOK
<1> QED
  BY <1>4, <1>5, <1>6

\* The steps that read from the server, or end a run without a word to it.
LEMMA QuietInv ==
  ASSUME IInv, UNCHANGED srvVars, NEW p \in Clients,
         \/ ConnectRefused(p) \/ CloseAfterExit(p) \/ ClientSigpipe(p) \/ Kill(p)
         \/ ReceiveNotification(p) \/ ReceiveShutdown(p) \/ ReceiveEof(p)
  PROVE  IInv'
<1>1. ServerTypeOK' /\ ServerInv'
  BY ServerPartKept
  DEF ConnectRefused, CloseAfterExit, ClientSigpipe, Kill, ReceiveNotification,
      ReceiveShutdown, ReceiveEof
<1>2. SocketsTypeOK /\ SubscriberTypeOK
  BY DEF IInv, TypeOK
<1>3. /\ \A q \in Clients : cl'[q] = cl[q] \/ cl'[q] \in {"gone", "spin"}
      /\ cl' \in [Clients -> ClientPhases]
  BY <1>2
  DEF SubscriberTypeOK, ClientPhases, ConnectRefused, CloseAfterExit, ClientSigpipe, Kill,
      ReceiveNotification, ReceiveShutdown, ReceiveEof
<1>4. UNCHANGED <<conn, backlog, listening, toServer, udp, arrived, lost, missed, cmds, asked,
                  dropped>>
  BY DEF ConnectRefused, CloseAfterExit, ClientSigpipe, Kill, ReceiveNotification,
         ReceiveShutdown, ReceiveEof
<1>5. ConnectionsDistinct' /\ NothingBeforeConnect' /\ FirstIsConnect'
  BY <1>3, <1>4, EndKeepsInv
<1>6. /\ peer' \in [Clients -> {"none", "open", "closed"}]
      /\ toClient' \in [Clients -> Seq(ToClientPackets)]
      /\ rst' \in [Clients -> BOOLEAN]
      /\ shown' \in [Clients -> Seq(Datagrams)]
  <2>1. CASE CloseAfterExit(p) \/ ClientSigpipe(p) \/ Kill(p) \/ ReceiveShutdown(p)
    BY <1>2, <2>1, CloseClientEndType
    DEF SubscriberTypeOK, CloseAfterExit, ClientSigpipe, Kill, ReceiveShutdown
  <2>2. CASE ConnectRefused(p) \/ ReceiveEof(p)
    BY <1>2, <2>2 DEF SocketsTypeOK, SubscriberTypeOK, ConnectRefused, ReceiveEof
  <2>3. CASE ReceiveNotification(p)
    <3>1. toClient[p] \in Seq(ToClientPackets) /\ toClient[p] # <<>>
      BY <1>2, <2>3 DEF SocketsTypeOK, ReceiveNotification
    <3>2. Tail(toClient[p]) \in Seq(ToClientPackets) /\ Head(toClient[p]) \in ToClientPackets
      BY <3>1, TailFacts
    <3>3. Head(toClient[p]).dgram \in Datagrams
      BY <2>3, <3>2 DEF ToClientPackets, ReceiveNotification
    <3>4. Append(shown[p], Head(toClient[p]).dgram) \in Seq(Datagrams)
      BY <1>2, <3>3, AppendFacts DEF SubscriberTypeOK
    <3>5. /\ toClient' \in [Clients -> Seq(ToClientPackets)]
          /\ shown' \in [Clients -> Seq(Datagrams)]
      BY <1>2, <2>3, <3>2, <3>4 DEF SocketsTypeOK, SubscriberTypeOK, ReceiveNotification
    <3> QED
      BY <1>2, <2>3, <3>5 DEF SocketsTypeOK, ReceiveNotification
  <2> QED
    BY <2>1, <2>2, <2>3
<1>7. SocketsTypeOK' /\ SubscriberTypeOK'
  BY <1>2, <1>3, <1>4, <1>6 DEF SocketsTypeOK, SubscriberTypeOK
<1> QED
  BY <1>1, <1>5, <1>7 DEF IInv, TypeOK

\* Every step of a subscriber or its user.
LEMMA ClientInv ==
  ASSUME IInv, UNCHANGED srvVars, NEW p \in Clients, ClientStep(p) \/ UserStep(p)
  PROVE  IInv'
BY ConnectInv, SendConnectInv, CommandInv, QuietInv DEF ClientStep, UserStep

-----------------------------------------------------------------------------
(***************************************************************************)
(* The server's steps.                                                     *)
(***************************************************************************)

\* The server ends, and the kernel closes all it had.
LEMMA HaltInv ==
  ASSUME IInv, UNCHANGED cliVars,
         NEW c \in {"exit", "accept", "not_subbed", "sigpipe"}, Halt(c),
         UNCHANGED <<toClient, peer, rst, udp, arrived, lost, missed, subs, sv_fds,
                   stdin, aliased, admitted>>,
         toServer' \in [Clients -> Seq(ToServerPackets)],
         \A p \in Clients : toServer[p] = <<>> => toServer'[p] = <<>>
  PROVE  IInv'
<1>1. SocketsTypeOK /\ ServerTypeOK /\ SubscriberTypeOK /\ NothingBeforeConnect
      /\ RecordsDistinct
  BY DEF IInv, TypeOK, ServerInv
<1>2. /\ pc' = "dead" /\ why' = c /\ idx' = 1 /\ ready' = {} /\ cur' = None
      /\ pending' = {} /\ dgram' = None
      /\ conn' = [f \in Fds |-> None] /\ backlog' = <<>> /\ listening' = FALSE
  BY DEF Halt, ForgetLocals, CloseServerEnds
<1>3. \A f \in Fds : conn'[f] = None
  BY <1>2
<1>4. backlog' \in Seq(Clients) /\ DOMAIN backlog' = {}
  BY <1>2, EmptyFacts
<1>5. SocketsTypeOK'
  BY <1>1, <1>2, <1>4 DEF SocketsTypeOK
<1>6. ServerTypeOK'
  <2>1. idx' \in Nat \ {0} /\ ready' \subseteq Fds /\ pending' \subseteq DOMAIN subs'
    BY <1>2
  <2> QED
    BY <1>1, <1>2, <2>1 DEF ServerTypeOK, Phases, Subscribers
<1>7. SubscriberTypeOK'
  BY <1>1 DEF SubscriberTypeOK
<1>8. ConnectionsDistinct' /\ NothingBeforeConnect' /\ FirstIsConnect'
  <2>1. \A p \in Clients : ~ServerEndOpen(p)' /\ ~AwaitsConnect(p)'
    BY <1>2, <1>3, <1>4, SocketsAssumption DEF ServerEndOpen, AwaitsConnect
  <2> QED
    BY <1>1, <1>3, <1>4, <2>1 DEF ConnectionsDistinct, NothingBeforeConnect, FirstIsConnect
<1>9. ServerInv'
  BY <1>1, <1>2
  DEF ServerInv, CurIsFresh, ForwardsADatagram, RecordsDistinct, PolledHasRecord,
      LookupsSucceed, Serving, Alive
<1> QED
  BY <1>5, <1>6, <1>7, <1>8, <1>9 DEF IInv, TypeOK

\* A step that moves the server within start_server() and touches neither
\* connections nor records.
LEMMA ControlKeepsInv ==
  ASSUME IInv, UNCHANGED <<cliVars, conn, backlog, toServer, subs, sv_fds>>,
         pc' # "connect", Serving \/ ~Serving'
  PROVE  /\ SubscriberTypeOK'
         /\ ConnectionsDistinct' /\ NothingBeforeConnect' /\ FirstIsConnect'
         /\ CurIsFresh' /\ RecordsDistinct' /\ PolledHasRecord'
<1>1. SubscriberTypeOK /\ ConnectionsDistinct /\ NothingBeforeConnect /\ FirstIsConnect
      /\ CurIsFresh /\ RecordsDistinct /\ PolledHasRecord
  BY DEF IInv, TypeOK, ServerInv
<1>2. SubscriberTypeOK'
  BY <1>1 DEF SubscriberTypeOK
<1>3. ConnectionsDistinct' /\ NothingBeforeConnect'
  BY <1>1 DEF ConnectionsDistinct, NothingBeforeConnect, ServerEndOpen
<1>4. FirstIsConnect'
  BY <1>1 DEF FirstIsConnect, AwaitsConnect
<1>5. CurIsFresh' /\ RecordsDistinct' /\ PolledHasRecord'
  BY <1>1 DEF CurIsFresh, RecordsDistinct, PolledHasRecord
<1> QED
  BY <1>2, <1>3, <1>4, <1>5

\* A server caught in a send or recv loop changes nothing any more.
LEMMA SpinInv ==
  ASSUME IInv, UNCHANGED cliVars, NEW c \in {"eof", "badfd"}, Spin(c),
         UNCHANGED <<toServer, toClient, peer, rst, udp, arrived, lost, missed, subs, sv_fds,
                     stdin, aliased, admitted>>
  PROVE  IInv'
<1>1. SocketsTypeOK /\ ServerTypeOK
  BY DEF IInv, TypeOK
<1>2. /\ pc' = "spin" /\ why' = c /\ idx' = 1 /\ ready' = {} /\ cur' = None
      /\ pending' = {} /\ dgram' = None
      /\ UNCHANGED <<conn, backlog, listening>>
  BY DEF Spin, ForgetLocals
<1>3. SocketsTypeOK'
  BY <1>1, <1>2 DEF SocketsTypeOK
<1>4. ServerTypeOK'
  <2>1. idx' \in Nat \ {0} /\ ready' \subseteq Fds /\ pending' \subseteq DOMAIN subs'
    BY <1>2
  <2> QED
    BY <1>1, <1>2, <2>1 DEF ServerTypeOK, Phases, Subscribers
<1>5. /\ SubscriberTypeOK'
      /\ ConnectionsDistinct' /\ NothingBeforeConnect' /\ FirstIsConnect'
      /\ CurIsFresh' /\ RecordsDistinct' /\ PolledHasRecord'
  BY <1>2, ControlKeepsInv DEF Serving, Alive
<1>6. ForwardsADatagram' /\ LookupsSucceed'
  BY <1>2 DEF ForwardsADatagram, LookupsSucceed
<1> QED
  BY <1>3, <1>4, <1>5, <1>6 DEF IInv, TypeOK, ServerInv

\* Receiving a packet on the server keeps the types of the sockets.
LEMMA TakeFromType ==
  ASSUME SocketsTypeOK, NEW p \in Clients, toServer[p] # <<>>, TakeFrom(p)
  PROVE  /\ toServer' \in [Clients -> Seq(ToServerPackets)]
         /\ \A q \in Clients : q # p => toServer'[q] = toServer[q]
         /\ Head(toServer[p]) \in ToServerPackets
<1>1. Tail(toServer[p]) \in Seq(ToServerPackets) /\ Head(toServer[p]) \in ToServerPackets
  BY TailFacts DEF SocketsTypeOK
<1> QED
  BY <1>1 DEF SocketsTypeOK, TakeFrom

\* Sending a packet to a subscriber keeps the types of the sockets.
LEMMA DeliverToType ==
  ASSUME SocketsTypeOK, NEW p, NEW m \in ToClientPackets, DeliverTo(p, m)
  PROVE  /\ toClient' \in [Clients -> Seq(ToClientPackets)]
         /\ rst' \in [Clients -> BOOLEAN]
<1>1. \A q \in Clients : Append(toClient[q], m) \in Seq(ToClientPackets)
  BY AppendFacts DEF SocketsTypeOK
<1>2. toClient' \in [Clients -> Seq(ToClientPackets)]
  <2>1. toClient' = toClient \/ toClient' = [toClient EXCEPT ![p] = Append(toClient[p], m)]
    BY DEF DeliverTo
  <2>2. toClient \in [Clients -> Seq(ToClientPackets)]
    BY DEF SocketsTypeOK
  <2> QED
    BY <1>1, <2>1, <2>2
<1>3. rst' \in [Clients -> BOOLEAN]
  <2>1. rst' = rst \/ rst' = [rst EXCEPT ![p] = TRUE]
    BY DEF DeliverTo
  <2>2. rst \in [Clients -> BOOLEAN]
    BY DEF SocketsTypeOK
  <2> QED
    BY <2>1, <2>2
<1> QED
  BY <1>2, <1>3

\* Reading a packet of an accepted connection, closing descriptors or not.
LEMMA TakeKeepsInv ==
  ASSUME IInv, UNCHANGED <<cliVars, backlog>>, NEW p \in Clients, toServer[p] # <<>>,
         TakeFrom(p), pc' # "connect",
         \A k \in DOMAIN backlog : backlog[k] # p,
         conn' \in [Fds -> Clients \cup {None}],
         \A f \in Fds : conn'[f] = conn[f] \/ conn'[f] = None
  PROVE  SubscriberTypeOK' /\ ConnectionsDistinct' /\ NothingBeforeConnect' /\ FirstIsConnect'
<1>1. SocketsTypeOK /\ SubscriberTypeOK /\ ConnectionsDistinct /\ NothingBeforeConnect
      /\ FirstIsConnect
  BY DEF IInv, TypeOK
<1>2. \A q \in Clients : q # p => toServer'[q] = toServer[q]
  BY <1>1, TakeFromType
<1>3. \A k \in DOMAIN backlog : backlog[k] \in Clients
  BY <1>1, LenProperties, ElementOfSeq DEF SocketsTypeOK
<1>4. SubscriberTypeOK'
  BY <1>1 DEF SubscriberTypeOK
<1>5. ConnectionsDistinct'
  BY <1>1, <1>3, SocketsAssumption DEF ConnectionsDistinct
<1>6. NothingBeforeConnect'
  <2>1. \A q \in Clients : ServerEndOpen(q)' => ServerEndOpen(q)
    BY SocketsAssumption DEF ServerEndOpen
  <2> QED
    BY <1>1, <1>2, <2>1 DEF NothingBeforeConnect
<1>7. FirstIsConnect'
  BY <1>1, <1>2 DEF FirstIsConnect, AwaitsConnect
<1> QED
  BY <1>4, <1>5, <1>6, <1>7

\* ReadStdin, ReceiveDatagram, SendNotification, StartRound and EndRound.
LEMMA ControlInv ==
  ASSUME IInv, UNCHANGED cliVars,
         ReadStdin \/ ReceiveDatagram \/ SendNotification \/ StartRound \/ EndRound
  PROVE  IInv'
<1>1. SocketsTypeOK /\ ServerTypeOK /\ ForwardsADatagram /\ LookupsSucceed
  BY DEF IInv, TypeOK, ServerInv
<1>2. /\ UNCHANGED <<conn, backlog, listening, toServer, peer, arrived, lost, missed, why, subs,
                     sv_fds, stdin, aliased, admitted>>
      /\ pc \in {"poll", "notify", "clients"}
      /\ pc' \in {"poll", "notify", "clients", "stop"}
  BY DEF ReadStdin, ReceiveDatagram, SendNotification, StartRound, EndRound, ForgetLocals
<1>3. /\ SubscriberTypeOK'
      /\ ConnectionsDistinct' /\ NothingBeforeConnect' /\ FirstIsConnect'
      /\ CurIsFresh' /\ RecordsDistinct' /\ PolledHasRecord'
  BY <1>2, ControlKeepsInv DEF Serving, Alive
<1>4. LookupsSucceed'
  BY <1>1, <1>2 DEF LookupsSucceed
<1>5. idx' \in Nat \ {0}
  <2>1. idx' = idx \/ idx' = 1
    BY DEF ReadStdin, ReceiveDatagram, SendNotification, StartRound, EndRound, ForgetLocals
  <2>2. idx \in Nat \ {0}
    BY <1>1 DEF ServerTypeOK
  <2> QED
    BY <2>1, <2>2
<1>6. ready' \subseteq Fds /\ cur' \in Fds \cup {None}
  <2>1. \/ ready' = ready \/ ready' = {}
        \/ ready' = {f \in Range(sv_fds) : Readable(f)}
    BY DEF ReadStdin, ReceiveDatagram, SendNotification, StartRound, EndRound, ForgetLocals
  <2>2. Range(sv_fds) \subseteq Fds
    BY <1>1, RangeOfSeq DEF ServerTypeOK
  <2>3. cur' = cur \/ cur' = None
    BY DEF ReadStdin, ReceiveDatagram, SendNotification, StartRound, EndRound, ForgetLocals
  <2> QED
    BY <1>1, <2>1, <2>2, <2>3 DEF ServerTypeOK
<1>7. /\ udp' \in Seq(Datagrams) /\ pending' \subseteq DOMAIN subs
      /\ dgram' \in Datagrams \cup {None} /\ ForwardsADatagram'
      /\ toClient' \in [Clients -> Seq(ToClientPackets)] /\ rst' \in [Clients -> BOOLEAN]
  <2>1. CASE ReceiveDatagram
    <3>1. udp \in Seq(Datagrams) /\ udp # <<>>
      BY <1>1, <2>1 DEF SocketsTypeOK, ReceiveDatagram
    <3>2. Tail(udp) \in Seq(Datagrams) /\ Head(udp) \in Datagrams
      BY <3>1, TailFacts
    <3>3. pending' \subseteq DOMAIN subs
      BY <2>1 DEF ReceiveDatagram, SubsByTopic
    <3>4. dgram' \in Datagrams \cup {None} /\ udp' \in Seq(Datagrams) /\ ForwardsADatagram'
      BY <2>1, <3>2 DEF ReceiveDatagram, ForwardsADatagram
    <3>5. UNCHANGED <<toClient, rst>>
      BY <2>1 DEF ReceiveDatagram
    <3> QED
      BY <1>1, <3>3, <3>4, <3>5 DEF SocketsTypeOK
  <2>2. CASE SendNotification
    <3>1. PICK i \in pending :
            /\ DeliverTo(conn[subs[i].fd], [action |-> "NOTIFICATION_ACTION", dgram |-> dgram])
            /\ pending' = pending \ {i}
      BY <2>2 DEF SendNotification
    <3>2. dgram \in Datagrams
      BY <1>1, <2>2 DEF ForwardsADatagram, SendNotification
    <3>3. [action |-> "NOTIFICATION_ACTION", dgram |-> dgram] \in ToClientPackets
      BY <3>2 DEF ToClientPackets
    <3>4. toClient' \in [Clients -> Seq(ToClientPackets)] /\ rst' \in [Clients -> BOOLEAN]
      BY <1>1, <3>1, <3>3, DeliverToType
    <3>5. pending' \subseteq DOMAIN subs
      BY <1>1, <3>1 DEF ServerTypeOK
    <3>6. dgram' = dgram \/ (dgram' = None /\ pc' # "notify")
      <4>1. IF pending' = {} THEN dgram' = None /\ pc' = "poll" ELSE UNCHANGED <<dgram, pc>>
        BY <2>2 DEF SendNotification
      <4> QED
        BY <4>1
    <3>7. UNCHANGED udp
      BY <2>2 DEF SendNotification
    <3> QED
      BY <1>1, <3>2, <3>4, <3>5, <3>6, <3>7 DEF SocketsTypeOK, ForwardsADatagram
  <2>3. CASE ReadStdin \/ StartRound \/ EndRound
    <3>1. /\ UNCHANGED <<udp, toClient, rst>> /\ pc' # "notify"
          /\ pending' = pending \/ pending' = {}
          /\ dgram' = dgram \/ dgram' = None
      BY <2>3 DEF ReadStdin, StartRound, EndRound, ForgetLocals
    <3> QED
      BY <1>1, <3>1 DEF SocketsTypeOK, ServerTypeOK, ForwardsADatagram
  <2> QED
    BY <2>1, <2>2, <2>3
<1>8. SocketsTypeOK'
  BY <1>1, <1>2, <1>7 DEF SocketsTypeOK
<1>9. ServerTypeOK'
  BY <1>1, <1>2, <1>5, <1>6, <1>7 DEF ServerTypeOK, Phases
<1> QED
  BY <1>3, <1>4, <1>7, <1>8, <1>9 DEF IInv, TypeOK, ServerInv

\* AcceptFails, NotificationSigpipe, StopSigpipe and StopServer.
LEMMA EndInv ==
  ASSUME IInv, UNCHANGED cliVars,
         AcceptFails \/ NotificationSigpipe \/ StopSigpipe \/ StopServer
  PROVE  IInv'
<1>1. PICK c \in {"exit", "accept", "not_subbed", "sigpipe"} : Halt(c)
  BY DEF AcceptFails, NotificationSigpipe, StopSigpipe, StopServer
<1>2. UNCHANGED <<toServer, toClient, peer, rst, udp, arrived, lost, missed, subs, sv_fds,
                  stdin, aliased, admitted>>
  BY DEF AcceptFails, NotificationSigpipe, StopSigpipe, StopServer
<1>3. toServer' \in [Clients -> Seq(ToServerPackets)]
  BY <1>2 DEF IInv, TypeOK, SocketsTypeOK
<1> QED
  BY <1>1, <1>2, <1>3, HaltInv

\* ConnectEof, NotificationBadFd and ClientEof.
LEMMA StuckInv ==
  ASSUME IInv, UNCHANGED cliVars, ConnectEof \/ NotificationBadFd \/ ClientEof
  PROVE  IInv'
<1>1. PICK c \in {"eof", "badfd"} : Spin(c)
  BY DEF ConnectEof, NotificationBadFd, ClientEof
<1>2. UNCHANGED <<toServer, toClient, peer, rst, udp, arrived, lost, missed, subs, sv_fds,
                  stdin, aliased, admitted>>
  BY DEF ConnectEof, NotificationBadFd, ClientEof
<1> QED
  BY <1>1, <1>2, SpinInv

\* What is polled is an accepted connection with the record of its id.
LEMMA PolledFacts ==
  ASSUME IInv, Serving, NEW k \in DOMAIN sv_fds
  PROVE  /\ sv_fds[k] \in Fds
         /\ conn[sv_fds[k]] \in Clients
         /\ \A j \in DOMAIN backlog : backlog[j] # conn[sv_fds[k]]
         /\ \E i \in DOMAIN subs : subs[i].fd = sv_fds[k]
<1>1. sv_fds \in Seq(Fds) /\ conn \in [Fds -> Clients \cup {None}]
  BY DEF IInv, TypeOK, SocketsTypeOK, ServerTypeOK
<1>2. sv_fds[k] \in Fds
  BY <1>1, LenProperties, ElementOfSeq
<1>3. conn[sv_fds[k]] # None /\ \E i \in DOMAIN subs : subs[i].fd = sv_fds[k]
  BY DEF IInv, ServerInv, PolledHasRecord
<1>4. \A j \in DOMAIN backlog : backlog[j] # conn[sv_fds[k]]
  BY <1>2 DEF IInv, ConnectionsDistinct
<1> QED
  BY <1>1, <1>2, <1>3, <1>4

\* DIE in a handler; DIE(!sub) is not among the assertions that can fail.
LEMMA ClientMessageDiesInv ==
  ASSUME IInv, UNCHANGED cliVars, ClientMessageDies
  PROVE  IInv'
<1>1. PICK k \in DOMAIN sv_fds :
        /\ PacketReadyAt(k)
        /\ \E c \in FailedAsserts(sv_fds[k], PacketAt(k)) : Halt(c)
        /\ TakeFrom(conn[sv_fds[k]])
  BY DEF ClientMessageDies
<1>2. Serving
  BY <1>1 DEF PacketReadyAt, Serving, Alive
<1>3. /\ conn[sv_fds[k]] \in Clients
      /\ \E i \in DOMAIN subs : subs[i].fd = sv_fds[k]
  BY <1>2, PolledFacts
<1>4. FailedAsserts(sv_fds[k], PacketAt(k)) \subseteq {"not_subbed"}
  BY <1>3 DEF FailedAsserts
<1>5. Halt("not_subbed")
  BY <1>1, <1>4
<1>6. toServer[conn[sv_fds[k]]] # <<>> /\ SocketsTypeOK
  BY <1>1 DEF PacketReadyAt, IInv, TypeOK
<1>7. /\ toServer' \in [Clients -> Seq(ToServerPackets)]
      /\ \A q \in Clients : q # conn[sv_fds[k]] => toServer'[q] = toServer[q]
  BY <1>1, <1>3, <1>6, TakeFromType
<1>8. \A q \in Clients : toServer[q] = <<>> => toServer'[q] = <<>>
  BY <1>6, <1>7
<1> QED
  BY <1>5, <1>7, <1>8, HaltInv DEF ClientMessageDies

\* accept() gives the oldest waiting connection an unused descriptor.
LEMMA AcceptInv ==
  ASSUME IInv, UNCHANGED cliVars, Accept
  PROVE  IInv'
<1>1. SocketsTypeOK /\ ServerTypeOK /\ SubscriberTypeOK /\ ConnectionsDistinct
      /\ NothingBeforeConnect /\ FirstIsConnect /\ ServerInv
  BY DEF IInv, TypeOK
<1>2. PICK f \in Fds : IsLowestFree(f) /\ conn' = [conn EXCEPT ![f] = Head(backlog)] /\ cur' = f
  BY DEF Accept
<1> DEFINE p == Head(backlog)
<1>3. backlog \in Seq(Clients) /\ backlog # <<>> /\ backlog' = Tail(backlog)
      /\ conn \in [Fds -> Clients \cup {None}] /\ conn[f] = None
  BY <1>1, <1>2 DEF SocketsTypeOK, Accept, IsLowestFree
<1>4. /\ p \in Clients /\ backlog' \in Seq(Clients)
      /\ 1 \in DOMAIN backlog /\ p = backlog[1]
      /\ \A k \in DOMAIN backlog' : k + 1 \in DOMAIN backlog /\ backlog'[k] = backlog[k + 1]
      /\ DOMAIN backlog' \subseteq Nat \ {0}
  BY <1>3, TailFacts
<1>5. \A k \in DOMAIN backlog' : backlog'[k] # p
  <2> SUFFICES ASSUME NEW k \in DOMAIN backlog', backlog'[k] = p PROVE FALSE
    OBVIOUS
  <2>1. backlog[k + 1] = backlog[1] /\ k + 1 \in DOMAIN backlog /\ k + 1 # 1
    BY <1>4
  <2> QED
    BY <1>1, <1>4, <2>1 DEF ConnectionsDistinct
<1> HIDE DEF p
<1>6. \A g \in Fds : conn'[g] = IF g = f THEN p ELSE conn[g]
  BY <1>2, <1>3 DEF p
<1>7. UNCHANGED <<listening, toServer, toClient, peer, rst, udp, arrived, lost, missed, why,
                  subs, sv_fds, stdin, idx, ready, pending, dgram, aliased, admitted>>
      /\ pc = "poll" /\ pc' = "connect" /\ cur' = f
  BY <1>2 DEF Accept
<1>8. SocketsTypeOK'
  <2>1. conn' \in [Fds -> Clients \cup {None}]
    BY <1>2, <1>3, <1>4 DEF p
  <2> QED
    BY <1>1, <1>4, <1>7, <2>1 DEF SocketsTypeOK
<1>9. ServerTypeOK' /\ SubscriberTypeOK'
  BY <1>1, <1>7 DEF ServerTypeOK, SubscriberTypeOK, Phases
<1>10. ConnectionsDistinct'
  <2>1. \A g \in Fds : conn[g] # p
    BY <1>1, <1>4 DEF ConnectionsDistinct
  <2>2. \A g, h \in Fds : conn'[g] = conn'[h] /\ conn'[g] # None => g = h
    BY <1>1, <1>6, <2>1 DEF ConnectionsDistinct
  <2>3. \A j, k \in DOMAIN backlog' : backlog'[j] = backlog'[k] => j = k
    <3> SUFFICES ASSUME NEW j \in DOMAIN backlog', NEW k \in DOMAIN backlog',
                        backlog'[j] = backlog'[k]
                 PROVE  j = k
      OBVIOUS
    <3>1. j + 1 = k + 1
      BY <1>1, <1>4 DEF ConnectionsDistinct
    <3> QED
      BY <1>4, <3>1
  <2>4. \A k \in DOMAIN backlog', g \in Fds : conn'[g] # backlog'[k]
    BY <1>1, <1>4, <1>5, <1>6 DEF ConnectionsDistinct
  <2> QED
    BY <2>2, <2>3, <2>4 DEF ConnectionsDistinct
<1>11. \A q \in Clients : (ServerEndOpen(q)' => ServerEndOpen(q))
                        /\ (AwaitsConnect(q)' => AwaitsConnect(q))
  <2>1. \A q \in Clients : (\E k \in DOMAIN backlog' : backlog'[k] = q)
                         => \E k \in DOMAIN backlog : backlog[k] = q
    BY <1>4
  <2>2. conn'[f] = p /\ \E k \in DOMAIN backlog : backlog[k] = p
    BY <1>4, <1>6
  <2> QED
    BY <1>6, <1>7, <2>1, <2>2 DEF ServerEndOpen, AwaitsConnect
<1>12. NothingBeforeConnect' /\ FirstIsConnect'
  BY <1>1, <1>7, <1>11 DEF NothingBeforeConnect, FirstIsConnect
<1>13. Serving
  BY <1>7 DEF Serving, Alive
<1>14. \A k \in DOMAIN sv_fds : sv_fds[k] \in Fds /\ sv_fds[k] # f
  BY <1>1, <1>3, <1>13, PolledFacts DEF ServerInv, PolledHasRecord
<1>15. CurIsFresh'
  BY <1>4, <1>6, <1>7, <1>14, SocketsAssumption DEF CurIsFresh
<1>16. PolledHasRecord'
  <2>1. \A k \in DOMAIN sv_fds : conn'[sv_fds[k]] = conn[sv_fds[k]]
    BY <1>6, <1>14
  <2> QED
    BY <1>1, <1>7, <1>13, <2>1 DEF ServerInv, PolledHasRecord
<1>17. ForwardsADatagram' /\ RecordsDistinct' /\ LookupsSucceed'
  BY <1>1, <1>7 DEF ServerInv, ForwardsADatagram, RecordsDistinct, LookupsSucceed
<1> QED
  BY <1>8, <1>9, <1>10, <1>12, <1>15, <1>16, <1>17 DEF IInv, TypeOK, ServerInv

\* The packet read after accept() is the CONNECT packet of that connection.
LEMMA ConnectFacts ==
  ASSUME IInv, ConnectArrives
  PROVE  /\ cur \in Fds /\ conn[cur] \in Clients
         /\ ConnectId = IdOf[conn[cur]] /\ ConnectId \in Ids
         /\ toServer[conn[cur]] # <<>>
         /\ \A k \in DOMAIN backlog : backlog[k] # conn[cur]
         /\ \A k \in DOMAIN sv_fds : sv_fds[k] # cur
<1>1. SocketsTypeOK /\ CurIsFresh /\ FirstIsConnect /\ ConnectionsDistinct
  BY DEF IInv, TypeOK, ServerInv
<1>2. cur \in Fds /\ conn[cur] # None /\ \A k \in DOMAIN sv_fds : sv_fds[k] # cur
  BY <1>1 DEF CurIsFresh, ConnectArrives
<1>3. conn[cur] \in Clients
  BY <1>1, <1>2 DEF SocketsTypeOK
<1>4. toServer[conn[cur]] # <<>> /\ AwaitsConnect(conn[cur])
  BY DEF ConnectArrives, AwaitsConnect
<1>5. Head(toServer[conn[cur]]) = [action |-> "CONNECT_ACTION", id |-> IdOf[conn[cur]]]
  BY <1>1, <1>3, <1>4 DEF FirstIsConnect
<1>6. ConnectId = IdOf[conn[cur]]
  BY <1>5 DEF ConnectId
<1>7. \A k \in DOMAIN backlog : backlog[k] # conn[cur]
  BY <1>1, <1>2 DEF ConnectionsDistinct
<1> QED
  BY <1>2, <1>3, <1>4, <1>6, <1>7, SocketsAssumption

\* A connection is polled once its record, subs'[i], is online.
LEMMA PollNewConnectionInv ==
  ASSUME IInv, UNCHANGED cliVars, ConnectArrives, NEW i, PollNewConnection(i),
         subs' \in Seq(Subscribers), i \in DOMAIN subs',
         subs'[i].fd = cur, subs'[i].id = ConnectId, subs'[i].online,
         \A j \in DOMAIN subs :
            j \in DOMAIN subs' /\ (j # i => subs'[j] = subs[j]) /\ (j = i => ~subs[j].online),
         RecordsDistinct'
  PROVE  IInv'
<1>1. SocketsTypeOK /\ ServerTypeOK /\ ServerInv
  BY DEF IInv, TypeOK
<1>2. /\ cur \in Fds /\ conn[cur] \in Clients /\ ConnectId = IdOf[conn[cur]]
      /\ toServer[conn[cur]] # <<>>
      /\ \A k \in DOMAIN backlog : backlog[k] # conn[cur]
      /\ \A k \in DOMAIN sv_fds : sv_fds[k] # cur
  BY ConnectFacts
<1>3. /\ TakeFrom(conn[cur])
      /\ pc' = "poll" /\ idx' = 1 /\ ready' = {} /\ cur' = None /\ pending' = {}
      /\ dgram' = None
      /\ UNCHANGED <<conn, backlog, listening, toClient, peer, rst, udp, arrived, lost, missed,
                     why, stdin>>
      /\ sv_fds' = Append(sv_fds, cur)
      /\ admitted' = admitted \cup {conn[cur]}
  BY DEF PollNewConnection, ForgetLocals
<1>4. /\ sv_fds' \in Seq(Fds) /\ Len(sv_fds) \in Nat /\ DOMAIN sv_fds = 1 .. Len(sv_fds)
      /\ DOMAIN sv_fds' = 1 .. Len(sv_fds) + 1
      /\ \A k \in DOMAIN sv_fds : sv_fds'[k] = sv_fds[k]
      /\ sv_fds'[Len(sv_fds) + 1] = cur
  <2>1. sv_fds \in Seq(Fds)
    BY <1>1 DEF ServerTypeOK
  <2>2. Len(sv_fds) \in Nat /\ DOMAIN sv_fds = 1 .. Len(sv_fds)
    BY <2>1, LenProperties
  <2> QED
    BY <1>2, <1>3, <2>1, <2>2, AppendFacts
<1>5. conn \in [Fds -> Clients \cup {None}]
  BY <1>1 DEF SocketsTypeOK
<1>6. SubscriberTypeOK' /\ ConnectionsDistinct' /\ NothingBeforeConnect' /\ FirstIsConnect'
  BY <1>2, <1>3, <1>5, TakeKeepsInv
<1>7. SocketsTypeOK'
  <2>1. toServer' \in [Clients -> Seq(ToServerPackets)]
    BY <1>1, <1>2, <1>3, TakeFromType
  <2> QED
    BY <1>1, <1>3, <2>1 DEF SocketsTypeOK
<1>8. ServerTypeOK'
  <2>1. idx' \in Nat \ {0} /\ ready' \subseteq Fds /\ pending' \subseteq DOMAIN subs'
    BY <1>3
  <2>2. aliased' \in BOOLEAN
    BY <1>1 DEF PollNewConnection, ServerTypeOK
  <2>3. admitted' \subseteq Clients
    BY <1>1, <1>2, <1>3 DEF ServerTypeOK
  <2> QED
    BY <1>1, <1>3, <1>4, <2>1, <2>2, <2>3 DEF ServerTypeOK, Phases
<1>9. CurIsFresh' /\ ForwardsADatagram' /\ LookupsSucceed'
  BY <1>1, <1>3 DEF ServerInv, CurIsFresh, ForwardsADatagram, LookupsSucceed
<1>10. Serving
  BY DEF ConnectArrives, Serving, Alive
<1>11. PolledHasRecord'
  <2>1. ASSUME NEW j \in DOMAIN sv_fds', NEW k \in DOMAIN sv_fds', sv_fds'[j] = sv_fds'[k]
        PROVE  j = k
    <3>1. /\ j \in DOMAIN sv_fds \/ j = Len(sv_fds) + 1
          /\ k \in DOMAIN sv_fds \/ k = Len(sv_fds) + 1
      BY <1>4
    <3> QED
      BY <1>1, <1>2, <1>4, <1>10, <2>1, <3>1 DEF ServerInv, PolledHasRecord
  <2>2. ASSUME NEW k \in DOMAIN sv_fds'
        PROVE  /\ conn'[sv_fds'[k]] # None
               /\ \E j \in DOMAIN subs' :
                    /\ subs'[j].fd = sv_fds'[k]
                    /\ subs'[j].id = IdOf[conn'[sv_fds'[k]]]
                    /\ subs'[j].online
    <3>1. CASE k \in DOMAIN sv_fds
      <4>1. /\ conn[sv_fds[k]] # None /\ sv_fds'[k] = sv_fds[k]
            /\ \E j \in DOMAIN subs :
                 /\ subs[j].fd = sv_fds[k]
                 /\ subs[j].id = IdOf[conn[sv_fds[k]]]
                 /\ subs[j].online
        BY <1>1, <1>4, <1>10, <3>1 DEF ServerInv, PolledHasRecord
      <4> QED
        BY <1>3, <4>1
    <3>2. CASE k = Len(sv_fds) + 1
      <4>1. sv_fds'[k] = cur /\ conn'[cur] = conn[cur] /\ conn[cur] # None
        BY <1>2, <1>3, <1>4, <3>2, SocketsAssumption
      <4>2. /\ subs'[i].fd = cur /\ subs'[i].id = IdOf[conn'[cur]] /\ subs'[i].online
            /\ i \in DOMAIN subs'
        BY <1>2, <1>3
      <4> QED
        BY <4>1, <4>2
    <3> QED
      BY <1>4, <3>1, <3>2
  <2> QED
    BY <2>1, <2>2 DEF PolledHasRecord
<1> QED
  BY <1>6, <1>7, <1>8, <1>9, <1>11 DEF IInv, TypeOK, ServerInv

\* An offline record is taken over by a new connection of the same id.
LEMMA ReconnectInv ==
  ASSUME IInv, UNCHANGED cliVars, Reconnect
  PROVE  IInv'
<1>1. subs \in Seq(Subscribers) /\ RecordsDistinct
  BY DEF IInv, TypeOK, ServerTypeOK, ServerInv
<1>2. PICK i \in DOMAIN subs :
        /\ subs[i].id = ConnectId /\ ~subs[i].online
        /\ subs' = [subs EXCEPT ![i].fd = cur, ![i].online = TRUE]
        /\ PollNewConnection(i)
  BY DEF Reconnect
<1>3. ConnectArrives /\ cur \in Fds
  BY ConnectFacts DEF Reconnect
<1>4. subs[i] \in Subscribers /\ i \in 1 .. Len(subs) /\ DOMAIN subs = 1 .. Len(subs)
  BY <1>1, LenProperties, ElementOfSeq
<1> DEFINE r == [subs[i] EXCEPT !.fd = cur, !.online = TRUE]
<1>5. r \in Subscribers /\ r.id = ConnectId /\ r.fd = cur /\ r.online
  BY <1>2, <1>3, <1>4 DEF Subscribers
<1>6. subs' = [subs EXCEPT ![i] = r]
  BY <1>2
<1> HIDE DEF r
<1>7. /\ subs' \in Seq(Subscribers) /\ DOMAIN subs' = DOMAIN subs
      /\ \A j \in DOMAIN subs : subs'[j] = IF j = i THEN r ELSE subs[j]
  BY <1>1, <1>4, <1>5, <1>6, ExceptSeq, LenProperties
<1>8. RecordsDistinct'
  BY <1>1, <1>2, <1>5, <1>7 DEF RecordsDistinct
<1> QED
  BY <1>2, <1>3, <1>5, <1>7, <1>8, PollNewConnectionInv

\* A record is added for an id that has none.
LEMMA AddNewSubInv ==
  ASSUME IInv, UNCHANGED cliVars, AddNewSub
  PROVE  IInv'
<1>1. subs \in Seq(Subscribers) /\ RecordsDistinct
  BY DEF IInv, TypeOK, ServerTypeOK, ServerInv
<1>2. ConnectArrives /\ cur \in Fds /\ ConnectId \in Ids
  BY ConnectFacts DEF AddNewSub
<1> DEFINE r == [id |-> ConnectId, fd |-> cur, topics |-> [t \in Patterns |-> 0],
                 online |-> TRUE]
           i == Len(subs) + 1
<1>3. /\ \A j \in DOMAIN subs : subs[j].id # ConnectId
      /\ subs' = Append(subs, r)
      /\ PollNewConnection(i)
  BY DEF AddNewSub
<1>4. r \in Subscribers /\ r.id = ConnectId /\ r.fd = cur /\ r.online
  BY <1>2 DEF Subscribers
<1> HIDE DEF r
<1>5. /\ subs' \in Seq(Subscribers) /\ Len(subs) \in Nat /\ DOMAIN subs = 1 .. Len(subs)
      /\ DOMAIN subs' = 1 .. Len(subs) + 1
      /\ \A j \in DOMAIN subs : subs'[j] = subs[j]
      /\ subs'[i] = r
  BY <1>1, <1>3, <1>4, AppendFacts, LenProperties
<1>6. /\ i \in DOMAIN subs' /\ i \notin DOMAIN subs
      /\ \A j \in DOMAIN subs' : j \in DOMAIN subs \/ j = i
      /\ \A j \in DOMAIN subs : j \in DOMAIN subs'
  BY <1>5
<1> HIDE DEF i
<1>7. RecordsDistinct'
  BY <1>1, <1>3, <1>4, <1>5, <1>6 DEF RecordsDistinct
<1> QED
  BY <1>2, <1>3, <1>4, <1>5, <1>6, <1>7, PollNewConnectionInv

\* An intruder keeps its descriptor and is not polled.
LEMMA RefuseIntruderInv ==
  ASSUME IInv, UNCHANGED cliVars, RefuseIntruder
  PROVE  IInv'
<1>1. SocketsTypeOK /\ ServerTypeOK /\ ServerInv
  BY DEF IInv, TypeOK
<1>2. /\ conn[cur] \in Clients /\ toServer[conn[cur]] # <<>>
      /\ \A k \in DOMAIN backlog : backlog[k] # conn[cur]
  BY ConnectFacts DEF RefuseIntruder
<1>3. /\ TakeFrom(conn[cur])
      /\ DeliverTo(conn[cur], [action |-> "SHUTDOWN_INTRUDER"])
      /\ pc' = "poll" /\ idx' = 1 /\ ready' = {} /\ cur' = None /\ pending' = {}
      /\ dgram' = None
      /\ UNCHANGED <<conn, backlog, listening, peer, udp, arrived, lost, missed, why, subs,
                     sv_fds, stdin,
                     aliased, admitted>>
  BY DEF RefuseIntruder, ForgetLocals
<1>4. conn \in [Fds -> Clients \cup {None}]
  BY <1>1 DEF SocketsTypeOK
<1>5. SubscriberTypeOK' /\ ConnectionsDistinct' /\ NothingBeforeConnect' /\ FirstIsConnect'
  BY <1>2, <1>3, <1>4, TakeKeepsInv
<1>6. SocketsTypeOK'
  <2>1. toServer' \in [Clients -> Seq(ToServerPackets)]
    BY <1>1, <1>2, <1>3, TakeFromType
  <2>2. [action |-> "SHUTDOWN_INTRUDER"] \in ToClientPackets
    BY DEF ToClientPackets
  <2>3. toClient' \in [Clients -> Seq(ToClientPackets)] /\ rst' \in [Clients -> BOOLEAN]
    BY <1>1, <1>3, <2>2, DeliverToType
  <2> QED
    BY <1>1, <1>3, <2>1, <2>3 DEF SocketsTypeOK
<1>7. ServerTypeOK'
  <2>1. idx' \in Nat \ {0} /\ ready' \subseteq Fds /\ pending' \subseteq DOMAIN subs'
    BY <1>3
  <2> QED
    BY <1>1, <1>3, <2>1 DEF ServerTypeOK, Phases
<1>8. Serving
  BY DEF RefuseIntruder, ConnectArrives, Serving, Alive
<1>9. ServerInv'
  BY <1>1, <1>3, <1>8
  DEF ServerInv, CurIsFresh, ForwardsADatagram, RecordsDistinct, PolledHasRecord,
      LookupsSucceed
<1> QED
  BY <1>5, <1>6, <1>7, <1>9 DEF IInv, TypeOK

\* A handler replaces one record by another with the same id and descriptor.
LEMMA HandlerFacts ==
  ASSUME subs \in Seq(Subscribers), NEW i \in DOMAIN subs, NEW r \in Subscribers,
         r.id = subs[i].id, r.fd = subs[i].fd,
         subs' = [subs EXCEPT ![i] = r]
  PROVE  /\ subs' \in Seq(Subscribers) /\ DOMAIN subs' = DOMAIN subs
         /\ \A j \in DOMAIN subs :
              /\ subs'[j].id = subs[j].id /\ subs'[j].fd = subs[j].fd
              /\ subs'[j].online = IF j = i THEN r.online ELSE subs[j].online
<1>1. i \in 1 .. Len(subs) /\ DOMAIN subs = 1 .. Len(subs)
  BY LenProperties
<1>2. /\ subs' \in Seq(Subscribers) /\ DOMAIN subs' = DOMAIN subs
      /\ \A j \in DOMAIN subs : subs'[j] = IF j = i THEN r ELSE subs[j]
  BY <1>1, ExceptSeq, LenProperties
<1> QED
  BY <1>2

\* Each handler, on the record that the descriptor finds.
LEMMA ParseClientMessageInv ==
  ASSUME IInv, UNCHANGED cliVars, ParseClientMessage
  PROVE  IInv'
<1>1. SocketsTypeOK /\ ServerTypeOK /\ ServerInv
  BY DEF IInv, TypeOK
<1>2. PICK k \in DOMAIN sv_fds :
        /\ PacketReadyAt(k)
        /\ \E i \in DOMAIN subs :
             /\ IsSubscriberByFd(i, sv_fds[k])
             /\ \/ HandleSubscribe(i, PacketAt(k))
                \/ HandleUnsubscribe(i, PacketAt(k))
                \/ HandleShutdownSub(i, PacketAt(k), k)
        /\ TakeFrom(conn[sv_fds[k]])
        /\ idx' = k + 1
  BY DEF ParseClientMessage
<1>3. PICK i \in DOMAIN subs :
        /\ IsSubscriberByFd(i, sv_fds[k])
        /\ \/ HandleSubscribe(i, PacketAt(k))
           \/ HandleUnsubscribe(i, PacketAt(k))
           \/ HandleShutdownSub(i, PacketAt(k), k)
  BY <1>2
<1> DEFINE m == PacketAt(k)
           p == conn[sv_fds[k]]
<1>4. Serving /\ pc = "clients"
  BY <1>2 DEF PacketReadyAt, Serving, Alive
<1>5. /\ sv_fds[k] \in Fds /\ p \in Clients
      /\ \A j \in DOMAIN backlog : backlog[j] # p
  BY <1>4, PolledFacts
<1>6. toServer[p] # <<>> /\ subs[i].fd = sv_fds[k]
  BY <1>2, <1>3 DEF PacketReadyAt, IsSubscriberByFd
<1>7. /\ toServer' \in [Clients -> Seq(ToServerPackets)]
      /\ m \in ToServerPackets
  BY <1>1, <1>2, <1>5, <1>6, TakeFromType DEF PacketAt
<1>8. UNCHANGED <<backlog, listening, toClient, peer, rst, udp, arrived, lost, missed, pc,
                  why, stdin, ready, cur, pending, dgram, aliased, admitted>>
  BY DEF ParseClientMessage
<1>9. /\ subs \in Seq(Subscribers) /\ sv_fds \in Seq(Fds)
      /\ conn \in [Fds -> Clients \cup {None}]
      /\ DOMAIN sv_fds = 1 .. Len(sv_fds) /\ Len(sv_fds) \in Nat
  BY <1>1, LenProperties DEF ServerTypeOK, SocketsTypeOK
<1>10. subs[i] \in Subscribers
  BY <1>9, LenProperties, ElementOfSeq
<1> HIDE DEF m, p
<1>11. PICK r \in Subscribers :
         /\ r.id = subs[i].id /\ r.fd = subs[i].fd
         /\ subs' = [subs EXCEPT ![i] = r]
         /\ \/ /\ r.online = subs[i].online
               /\ UNCHANGED <<sv_fds, conn>>
            \/ /\ r.online = FALSE
               /\ conn' = [conn EXCEPT ![sv_fds[k]] = None]
               /\ sv_fds' = RemoveAt(sv_fds, k)
  <2>1. CASE HandleSubscribe(i, m)
    <3>1. m.topic \in Patterns
      BY <1>7, <2>1 DEF HandleSubscribe, ToServerPackets
    <3> DEFINE r == [subs[i] EXCEPT !.topics[m.topic] = @ + 1]
    <3>2. r \in Subscribers /\ r.id = subs[i].id /\ r.fd = subs[i].fd
          /\ r.online = subs[i].online
      BY <1>10, <3>1 DEF Subscribers
    <3>3. subs' = [subs EXCEPT ![i] = r] /\ UNCHANGED <<sv_fds, conn>>
      BY <2>1 DEF HandleSubscribe
    <3> QED
      BY <3>2, <3>3
  <2>2. CASE HandleUnsubscribe(i, m)
    <3>1. m.topic \in Patterns /\ subs[i].topics[m.topic] > 0
      BY <1>7, <2>2 DEF HandleUnsubscribe, ToServerPackets
    <3> DEFINE r == [subs[i] EXCEPT !.topics[m.topic] = @ - 1]
    <3>2. r \in Subscribers /\ r.id = subs[i].id /\ r.fd = subs[i].fd
          /\ r.online = subs[i].online
      BY <1>10, <3>1 DEF Subscribers
    <3>3. subs' = [subs EXCEPT ![i] = r] /\ UNCHANGED <<sv_fds, conn>>
      BY <2>2 DEF HandleUnsubscribe
    <3> QED
      BY <3>2, <3>3
  <2>3. CASE HandleShutdownSub(i, m, k)
    <3> DEFINE r == [subs[i] EXCEPT !.online = FALSE]
    <3>2. r \in Subscribers /\ r.id = subs[i].id /\ r.fd = subs[i].fd /\ r.online = FALSE
      BY <1>10 DEF Subscribers
    <3>3. /\ subs' = [subs EXCEPT ![i] = r] /\ sv_fds' = RemoveAt(sv_fds, k)
          /\ conn' = [conn EXCEPT ![sv_fds[k]] = None]
      BY <1>6, <2>3 DEF HandleShutdownSub
    <3> QED
      BY <3>2, <3>3
  <2> QED
    BY <1>3, <2>1, <2>2, <2>3 DEF m
<1>12. /\ subs' \in Seq(Subscribers) /\ DOMAIN subs' = DOMAIN subs
       /\ \A j \in DOMAIN subs :
            /\ subs'[j].id = subs[j].id /\ subs'[j].fd = subs[j].fd
            /\ subs'[j].online = IF j = i THEN r.online ELSE subs[j].online
  BY <1>9, <1>11, HandlerFacts
<1>13. /\ conn' \in [Fds -> Clients \cup {None}]
       /\ \A f \in Fds : conn'[f] = conn[f] \/ conn'[f] = None
       /\ \A f \in Fds : f # sv_fds[k] => conn'[f] = conn[f]
  BY <1>9, <1>11
<1>14. SubscriberTypeOK' /\ ConnectionsDistinct' /\ NothingBeforeConnect' /\ FirstIsConnect'
  BY <1>2, <1>4, <1>5, <1>6, <1>8, <1>13, TakeKeepsInv DEF p
<1>15. SocketsTypeOK'
  BY <1>1, <1>7, <1>8, <1>13 DEF SocketsTypeOK
<1>16. sv_fds' \in Seq(Fds)
  BY <1>9, <1>11, RemoveAtFacts
<1>17. ServerTypeOK'
  <2>1. idx' \in Nat \ {0}
    BY <1>2, <1>9
  <2> QED
    BY <1>1, <1>8, <1>12, <1>16, <2>1 DEF ServerTypeOK
<1>18. CurIsFresh' /\ ForwardsADatagram' /\ RecordsDistinct' /\ LookupsSucceed'
  BY <1>1, <1>4, <1>8, <1>12
  DEF ServerInv, CurIsFresh, ForwardsADatagram, RecordsDistinct, LookupsSucceed
<1>19. PolledHasRecord'
  <2>1. CASE r.online = subs[i].online /\ UNCHANGED <<sv_fds, conn>>
    BY <1>1, <1>4, <1>12, <2>1 DEF ServerInv, PolledHasRecord
  <2>2. CASE r.online = FALSE /\ sv_fds' = RemoveAt(sv_fds, k)
    <3>1. ASSUME NEW j \in DOMAIN sv_fds'
          PROVE  LET j0 == IF j < k THEN j ELSE j + 1
                 IN  j0 \in DOMAIN sv_fds /\ j0 # k /\ sv_fds'[j] = sv_fds[j0] /\ j \in Nat
      <4>1. /\ Len(sv_fds') = Len(sv_fds) - 1
            /\ sv_fds'[j] = IF j < k THEN sv_fds[j] ELSE sv_fds[j + 1]
        BY <1>9, <2>2, RemoveAtFacts
      <4>2. DOMAIN sv_fds' = 1 .. Len(sv_fds')
        BY <1>16, LenProperties
      <4> QED
        BY <1>9, <4>1, <4>2
    <3>2. ASSUME NEW a \in DOMAIN sv_fds', NEW b \in DOMAIN sv_fds', sv_fds'[a] = sv_fds'[b]
          PROVE  a = b
      <4> DEFINE a0 == IF a < k THEN a ELSE a + 1
                 b0 == IF b < k THEN b ELSE b + 1
      <4>1. a0 \in DOMAIN sv_fds /\ b0 \in DOMAIN sv_fds /\ sv_fds[a0] = sv_fds[b0]
            /\ a \in Nat /\ b \in Nat /\ k \in Nat
        BY <1>9, <3>1, <3>2
      <4>2. a0 = b0
        <5> HIDE DEF a0, b0
        <5> QED
          BY <1>1, <1>4, <4>1 DEF ServerInv, PolledHasRecord
      <4> QED
        BY <4>1, <4>2
    <3>3. ASSUME NEW j \in DOMAIN sv_fds'
          PROVE  /\ conn'[sv_fds'[j]] # None
                 /\ \E n \in DOMAIN subs' :
                      /\ subs'[n].fd = sv_fds'[j]
                      /\ subs'[n].id = IdOf[conn'[sv_fds'[j]]]
                      /\ subs'[n].online
      <4>1. PICK j0 \in DOMAIN sv_fds : j0 # k /\ sv_fds'[j] = sv_fds[j0]
        BY <3>1
      <4>2. sv_fds[j0] # sv_fds[k] /\ conn[sv_fds[j0]] # None /\ sv_fds[j0] \in Fds
        BY <1>1, <1>4, <4>1, PolledFacts DEF ServerInv, PolledHasRecord
      <4>3. PICK n \in DOMAIN subs :
              /\ subs[n].fd = sv_fds[j0]
              /\ subs[n].id = IdOf[conn[sv_fds[j0]]]
              /\ subs[n].online
        BY <1>1, <1>4 DEF ServerInv, PolledHasRecord
      <4>4. n # i
        BY <1>6, <4>2, <4>3
      <4>5. conn'[sv_fds[j0]] = conn[sv_fds[j0]]
        BY <1>13, <4>2
      <4> QED
        BY <1>12, <4>1, <4>2, <4>3, <4>4, <4>5
    <3> QED
      BY <3>2, <3>3 DEF PolledHasRecord
  <2> QED
    BY <1>11, <2>1, <2>2
<1> QED
  BY <1>14, <1>15, <1>17, <1>18, <1>19 DEF IInv, TypeOK, ServerInv

\* One turn of the loop of shutdown_server().
LEMMA StopClientInv ==
  ASSUME IInv, UNCHANGED cliVars, StopClient
  PROVE  IInv'
<1>1. SocketsTypeOK /\ ServerTypeOK /\ SubscriberTypeOK /\ ServerInv
      /\ ConnectionsDistinct /\ NothingBeforeConnect /\ FirstIsConnect
  BY DEF IInv, TypeOK
<1> DEFINE f == sv_fds[idx]
<1>2. /\ pc = "stop" /\ idx <= Len(sv_fds)
      /\ DeliverTo(conn[f], [action |-> "SHUTDOWN_CLOSE"])
      /\ conn' = [conn EXCEPT ![f] = None]
      /\ idx' = idx + 1
      /\ UNCHANGED <<backlog, listening, toServer, peer, udp, arrived, lost, missed, pc, why,
                     subs, sv_fds, stdin, ready, cur, pending, dgram, aliased, admitted>>
  BY DEF StopClient
<1> HIDE DEF f
<1>3. conn' \in [Fds -> Clients \cup {None}] /\ \A g \in Fds : conn'[g] \in {conn[g], None}
  BY <1>1, <1>2 DEF SocketsTypeOK
<1>4. \A k \in DOMAIN backlog : backlog[k] \in Clients
  BY <1>1, LenProperties, ElementOfSeq DEF SocketsTypeOK
<1>5. SocketsTypeOK'
  <2>1. [action |-> "SHUTDOWN_CLOSE"] \in ToClientPackets
    BY DEF ToClientPackets
  <2>2. toClient' \in [Clients -> Seq(ToClientPackets)] /\ rst' \in [Clients -> BOOLEAN]
    BY <1>1, <1>2, <2>1, DeliverToType
  <2> QED
    BY <1>1, <1>2, <1>3, <2>2 DEF SocketsTypeOK
<1>6. ServerTypeOK'
  <2>1. idx' \in Nat \ {0}
    <3>1. idx \in Nat \ {0}
      BY <1>1 DEF ServerTypeOK
    <3> QED
      BY <1>2, <3>1
  <2> QED
    BY <1>1, <1>2, <2>1 DEF ServerTypeOK
<1>7. SubscriberTypeOK'
  BY <1>1 DEF SubscriberTypeOK
<1>8. ConnectionsDistinct'
  BY <1>1, <1>2, <1>3, <1>4, SocketsAssumption DEF ConnectionsDistinct
<1>9. NothingBeforeConnect' /\ FirstIsConnect'
  <2>1. \A q \in Clients : (ServerEndOpen(q)' => ServerEndOpen(q))
                         /\ (AwaitsConnect(q)' => AwaitsConnect(q))
    BY <1>2, <1>3, SocketsAssumption DEF ServerEndOpen, AwaitsConnect
  <2> QED
    BY <1>1, <1>2, <2>1 DEF NothingBeforeConnect, FirstIsConnect
<1>10. ServerInv'
  BY <1>1, <1>2
  DEF ServerInv, CurIsFresh, ForwardsADatagram, RecordsDistinct, PolledHasRecord,
      LookupsSucceed, Serving
<1> QED
  BY <1>5, <1>6, <1>7, <1>8, <1>9, <1>10 DEF IInv, TypeOK

\* A datagram reaches the UDP socket.
LEMMA PublishInv ==
  ASSUME IInv, NEW t \in Topics, Publish(t)
  PROVE  IInv'
<1>1. SocketsTypeOK /\ SubscriberTypeOK
  BY DEF IInv, TypeOK
<1>2. /\ arrived' = arrived + 1
      /\ udp' = Append(udp, [n |-> arrived + 1, topic |-> t])
      /\ UNCHANGED <<conn, backlog, listening, toServer, toClient, peer, rst, lost, missed,
                     srvVars, cliVars>>
  BY DEF Publish
<1>3. [n |-> arrived + 1, topic |-> t] \in Datagrams /\ arrived' \in Nat
  BY <1>1, <1>2 DEF SocketsTypeOK, Datagrams
<1>4. udp' \in Seq(Datagrams)
  BY <1>1, <1>2, <1>3, AppendFacts DEF SocketsTypeOK
<1>5. SocketsTypeOK'
  BY <1>1, <1>2, <1>3, <1>4 DEF SocketsTypeOK
<1>6. SubscriberTypeOK'
  BY <1>1, <1>2 DEF SubscriberTypeOK
<1>7. ServerTypeOK' /\ ServerInv'
  BY <1>2, ServerPartKept
<1>8. ConnectionsDistinct' /\ NothingBeforeConnect' /\ FirstIsConnect'
  BY <1>2, EndKeepsInv
<1> QED
  BY <1>5, <1>6, <1>7, <1>8 DEF IInv, TypeOK

\* A line reaches the standard input of the server.
LEMMA OperatorExitInv ==
  ASSUME IInv, OperatorExit
  PROVE  IInv'
<1>1. SocketsTypeOK /\ ServerTypeOK /\ SubscriberTypeOK /\ ServerInv
  BY DEF IInv, TypeOK
<1>2. /\ stdin' = TRUE
      /\ UNCHANGED <<sockVars, pc, why, subs, sv_fds, idx, ready, cur, pending, dgram, aliased,
                     admitted, cliVars>>
  BY DEF OperatorExit
<1>3. SocketsTypeOK' /\ SubscriberTypeOK'
  BY <1>1, <1>2 DEF SocketsTypeOK, SubscriberTypeOK
<1>4. ServerTypeOK'
  <2>1. stdin' \in BOOLEAN
    BY <1>2
  <2> QED
    BY <1>1, <1>2, <2>1 DEF ServerTypeOK
<1>5. ServerInv'
  BY <1>1, <1>2
  DEF ServerInv, CurIsFresh, ForwardsADatagram, RecordsDistinct, PolledHasRecord,
      LookupsSucceed, Serving, Alive
<1>6. ConnectionsDistinct' /\ NothingBeforeConnect' /\ FirstIsConnect'
  BY <1>2, EndKeepsInv
<1> QED
  BY <1>3, <1>4, <1>5, <1>6 DEF IInv, TypeOK

\* Steps that change nothing.
LEMMA StutterInv ==
  ASSUME IInv, UNCHANGED vars
  PROVE  IInv'
<1>1. SocketsTypeOK /\ ServerTypeOK /\ SubscriberTypeOK
  BY DEF IInv, TypeOK
<1>2. SocketsTypeOK' /\ SubscriberTypeOK'
  BY <1>1 DEF SocketsTypeOK, SubscriberTypeOK, vars
<1>3. ServerTypeOK' /\ ServerInv'
  BY ServerPartKept DEF vars
<1>4. ConnectionsDistinct' /\ NothingBeforeConnect' /\ FirstIsConnect'
  BY EndKeepsInv DEF vars
<1> QED
  BY <1>2, <1>3, <1>4 DEF IInv, TypeOK

-----------------------------------------------------------------------------
(***************************************************************************)
(* The network's steps: a reset loses the last packets of a connection.    *)
(***************************************************************************)

\* What a reset leaves of a queue, and what it loses.
LEMMA FrontFacts ==
  ASSUME NEW S, NEW s \in Seq(S), s # <<>>
  PROVE  /\ Front(s) \in Seq(S) /\ Last(s) \in S
         /\ Len(Front(s)) = Len(s) - 1 /\ Last(s) = s[Len(s)]
         /\ DOMAIN s = 1 .. Len(s) /\ DOMAIN Front(s) = 1 .. Len(s) - 1
         /\ Len(s) \in Nat \ {0}
         /\ \A k \in DOMAIN Front(s) : k \in DOMAIN s /\ Front(s)[k] = s[k]
<1> DEFINE a == SubSeq(s, 1, Len(s) - 1)
<1>1. Len(s) \in Nat /\ DOMAIN s = 1 .. Len(s) /\ \A j \in 1 .. Len(s) : s[j] \in S
  BY LenProperties, ElementOfSeq
<1>2. Len(s) # 0
  BY EmptySeq
<1>3. /\ a \in Seq(S)
      /\ Len(a) = IF 1 <= Len(s) - 1 THEN Len(s) - 1 - 1 + 1 ELSE 0
      /\ \A j \in 1 .. Len(s) - 1 - 1 + 1 : a[j] = s[1 + j - 1]
  <2>1. 1 \in Int /\ Len(s) - 1 \in Int /\ \A j \in 1 .. Len(s) - 1 : s[j] \in S
    BY <1>1
  <2> QED
    BY <2>1, SubSeqProperties
<1>4. Len(s) - 1 - 1 + 1 = Len(s) - 1 /\ \A j \in Int : 1 + j - 1 = j
  BY <1>1
<1>5. Front(s) = a /\ Last(s) = s[Len(s)]
  BY DEF Front, Last
<1> HIDE DEF a
<1>6. Len(a) = Len(s) - 1
  <2>1. CASE 1 <= Len(s) - 1
    <3>1. Len(a) = Len(s) - 1 - 1 + 1
      BY <1>3, <2>1
    <3> QED
      BY <1>1, <3>1
  <2>2. CASE ~(1 <= Len(s) - 1)
    <3>1. Len(a) = 0
      BY <1>3, <2>2
    <3>2. Len(s) = 1
      BY <1>1, <1>2, <2>2
    <3> QED
      BY <3>1, <3>2
  <2> QED
    BY <2>1, <2>2
<1>7. ASSUME NEW j \in 1 .. Len(s) - 1 PROVE a[j] = s[j] /\ j \in DOMAIN s
  <2>1. j \in 1 .. Len(s) - 1 - 1 + 1 /\ 1 + j - 1 = j /\ j \in 1 .. Len(s)
    BY <1>1
  <2> QED
    BY <1>1, <1>3, <2>1
<1>8. DOMAIN a = 1 .. Len(s) - 1
  BY <1>3, <1>6, LenProperties
<1>9. s[Len(s)] \in S /\ Len(s) \in Nat \ {0}
  BY <1>1, <1>2
<1> QED
  BY <1>1, <1>3, <1>5, <1>6, <1>7, <1>8, <1>9

\* What was lost before stays behind what is lost now.
LEMMA PrependType ==
  ASSUME NEW S, NEW s \in Seq(S), NEW e \in S
  PROVE  <<e>> \o s \in Seq(S)
<1>1. <<e>> \in Seq(S)
  OBVIOUS
<1> QED
  BY <1>1, ConcatProperties

\* Packets of a subscriber are lost: its CONNECT packet too, but only when the
\* run is over.
LEMMA LoseToServerInv ==
  ASSUME IInv, RunningIsOpen, NEW p \in Clients, LoseToServer(p),
         UNCHANGED <<srvVars, cliVars>>
  PROVE  IInv'
<1>1. SocketsTypeOK /\ SubscriberTypeOK /\ ConnectionsDistinct /\ NothingBeforeConnect
      /\ FirstIsConnect
  BY DEF IInv, TypeOK
<1>2. /\ rst[p] /\ toServer[p] # <<>>
      /\ toServer' = [toServer EXCEPT ![p] = Front(toServer[p])]
      /\ lost' = [lost EXCEPT ![p] = <<Last(toServer[p])>> \o lost[p]]
      /\ UNCHANGED <<conn, backlog, listening, toClient, peer, rst, udp, arrived, missed>>
  BY DEF LoseToServer
<1>3. /\ toServer \in [Clients -> Seq(ToServerPackets)] /\ toServer[p] \in Seq(ToServerPackets)
      /\ lost \in [Clients -> Seq(ToServerPackets)] /\ lost[p] \in Seq(ToServerPackets)
  BY <1>1 DEF SocketsTypeOK
<1>4. /\ Front(toServer[p]) \in Seq(ToServerPackets)
      /\ Last(toServer[p]) \in ToServerPackets
      /\ Front(toServer[p]) # <<>> => Head(Front(toServer[p])) = Head(toServer[p])
  <2>1. /\ Front(toServer[p]) \in Seq(ToServerPackets) /\ Last(toServer[p]) \in ToServerPackets
        /\ \A k \in DOMAIN Front(toServer[p]) : Front(toServer[p])[k] = toServer[p][k]
    BY <1>2, <1>3, FrontFacts
  <2>2. ASSUME Front(toServer[p]) # <<>> PROVE Head(Front(toServer[p])) = Head(toServer[p])
    <3>1. 1 \in DOMAIN Front(toServer[p]) /\ Head(Front(toServer[p])) = Front(toServer[p])[1]
      BY <2>1, <2>2, TailFacts
    <3>2. Head(toServer[p]) = toServer[p][1]
      BY <1>2, <1>3, TailFacts
    <3> QED
      BY <2>1, <3>1, <3>2
  <2> QED
    BY <2>1, <2>2
<1>5. /\ toServer' \in [Clients -> Seq(ToServerPackets)]
      /\ lost' \in [Clients -> Seq(ToServerPackets)]
  BY <1>2, <1>3, <1>4, PrependType
<1>6. SocketsTypeOK' /\ SubscriberTypeOK'
  BY <1>1, <1>2, <1>5 DEF SocketsTypeOK, SubscriberTypeOK
<1>7. ServerTypeOK' /\ ServerInv'
  BY <1>2, ServerPartKept
<1>8. ConnectionsDistinct'
  BY <1>1, <1>2 DEF ConnectionsDistinct
<1>9. NothingBeforeConnect'
  BY <1>1, <1>2, <1>3 DEF NothingBeforeConnect, ServerEndOpen
<1>10. FirstIsConnect'
  <2> SUFFICES ASSUME NEW q \in Clients, AwaitsConnect(q)
               PROVE  IF toServer'[q] = <<>>
                      THEN cl[q] # "run"
                      ELSE Head(toServer'[q]) = [action |-> "CONNECT_ACTION", id |-> IdOf[q]]
    BY <1>2 DEF FirstIsConnect, AwaitsConnect
  <2>1. CASE q = p
    <3>1. toServer'[p] = Front(toServer[p])
      BY <1>2, <1>3
    <3>2. cl[p] # "run"
      BY <1>2 DEF RunningIsOpen
    <3>3. Head(toServer[p]) = [action |-> "CONNECT_ACTION", id |-> IdOf[p]]
      BY <1>1, <1>2, <2>1 DEF FirstIsConnect
    <3> QED
      BY <1>4, <2>1, <3>1, <3>2, <3>3
  <2>2. CASE q # p
    <3>1. toServer'[q] = toServer[q]
      BY <1>2, <1>3, <2>2
    <3> QED
      BY <1>1, <3>1 DEF FirstIsConnect
  <2> QED
    BY <2>1, <2>2
<1> QED
  BY <1>6, <1>7, <1>8, <1>9, <1>10 DEF IInv, TypeOK

\* Packets to a subscriber are lost.
LEMMA LoseToClientInv ==
  ASSUME IInv, NEW p \in Clients, LoseToClient(p), UNCHANGED <<srvVars, cliVars>>
  PROVE  IInv'
<1>1. SocketsTypeOK /\ SubscriberTypeOK
  BY DEF IInv, TypeOK
<1>2. /\ toClient[p] # <<>>
      /\ toClient' = [toClient EXCEPT ![p] = Front(toClient[p])]
      /\ missed' = [missed EXCEPT ![p] = <<Last(toClient[p])>> \o missed[p]]
      /\ UNCHANGED <<conn, backlog, listening, toServer, peer, rst, udp, arrived, lost>>
  BY DEF LoseToClient
<1>3. /\ toClient \in [Clients -> Seq(ToClientPackets)] /\ toClient[p] \in Seq(ToClientPackets)
      /\ missed \in [Clients -> Seq(ToClientPackets)] /\ missed[p] \in Seq(ToClientPackets)
  BY <1>1 DEF SocketsTypeOK
<1>4. Front(toClient[p]) \in Seq(ToClientPackets) /\ Last(toClient[p]) \in ToClientPackets
  BY <1>2, <1>3, FrontFacts
<1>5. /\ toClient' \in [Clients -> Seq(ToClientPackets)]
      /\ missed' \in [Clients -> Seq(ToClientPackets)]
  BY <1>2, <1>3, <1>4, PrependType
<1>6. SocketsTypeOK' /\ SubscriberTypeOK'
  BY <1>1, <1>2, <1>5 DEF SocketsTypeOK, SubscriberTypeOK
<1>7. ServerTypeOK' /\ ServerInv'
  BY <1>2, ServerPartKept
<1>8. ConnectionsDistinct' /\ NothingBeforeConnect' /\ FirstIsConnect'
  BY <1>2, EndKeepsInv
<1> QED
  BY <1>6, <1>7, <1>8 DEF IInv, TypeOK

-----------------------------------------------------------------------------
\* The server sends to open connections, and those are of runs that have
\* started; so what resets a connection is a subscriber's closed end.
LEMMA DeliverOpen ==
  ASSUME IInv, RunningIsOpen, UNCHANGED <<cl, peer>>, NEW f \in Fds, NEW m,
         DeliverTo(conn[f], m)
  PROVE  RunningIsOpen'
<1>1. NothingBeforeConnect /\ rst \in [Clients -> BOOLEAN]
  BY DEF IInv, TypeOK, SocketsTypeOK
<1>2. ASSUME NEW q \in Clients, rst'[q] PROVE peer[q] # "open" /\ cl[q] # "off"
  <2>1. CASE rst[q]
    BY <2>1 DEF RunningIsOpen
  <2>2. CASE ~rst[q]
    <3>1. q = conn[f] /\ peer[conn[f]] # "open"
      BY <1>1, <1>2, <2>2 DEF DeliverTo
    <3>2. ServerEndOpen(q)
      BY <3>1 DEF ServerEndOpen
    <3> QED
      BY <1>1, <3>1, <3>2 DEF NothingBeforeConnect
  <2> QED
    BY <2>1, <2>2
<1> QED
  BY <1>2 DEF RunningIsOpen

\* The server's own steps.
LEMMA ServerOpen ==
  ASSUME IInv, RunningIsOpen, UNCHANGED cliVars, ServerStep
  PROVE  RunningIsOpen'
<1>1. CASE RefuseIntruder
  <2>1. cur \in Fds /\ UNCHANGED <<cl, peer>>
    BY <1>1, ConnectFacts DEF RefuseIntruder
  <2> QED
    BY <1>1, <2>1, DeliverOpen DEF RefuseIntruder
<1>2. CASE SendNotification
  <2>1. PICK i \in pending :
          DeliverTo(conn[subs[i].fd], [action |-> "NOTIFICATION_ACTION", dgram |-> dgram])
    BY <1>2 DEF SendNotification
  <2>2. subs[i] \in Subscribers
    <3>1. subs \in Seq(Subscribers) /\ i \in DOMAIN subs
      BY DEF IInv, TypeOK, ServerTypeOK
    <3> QED
      BY <3>1, LenProperties, ElementOfSeq
  <2>3. subs[i].fd \in Fds /\ UNCHANGED <<cl, peer>>
    BY <1>2, <2>2 DEF Subscribers, SendNotification
  <2> QED
    BY <2>1, <2>3, DeliverOpen
<1>3. CASE StopClient
  <2>1. sv_fds \in Seq(Fds) /\ idx \in Nat \ {0} /\ idx <= Len(sv_fds)
    BY <1>3 DEF IInv, TypeOK, ServerTypeOK, StopClient
  <2>2. sv_fds[idx] \in Fds
    <3>1. Len(sv_fds) \in Nat /\ idx \in 1 .. Len(sv_fds)
      BY <2>1, LenProperties
    <3> QED
      BY <2>1, <3>1, ElementOfSeq
  <2>3. UNCHANGED <<cl, peer>>
    BY <1>3 DEF StopClient
  <2> QED
    BY <1>3, <2>2, <2>3, DeliverOpen DEF StopClient
<1>4. CASE ~RefuseIntruder /\ ~SendNotification /\ ~StopClient
  <2>1. UNCHANGED <<cl, peer, rst>>
    BY <1>4 DEF ServerStep, ReadStdin, Accept, AcceptFails, Reconnect, AddNewSub,
       PollNewConnection, ConnectEof, ReceiveDatagram, NotificationSigpipe, NotificationBadFd,
       StartRound, ParseClientMessage, ClientMessageDies, ClientEof, EndRound, StopSigpipe,
       StopServer
  <2> QED
    BY <2>1 DEF RunningIsOpen
<1> QED
  BY <1>1, <1>2, <1>3, <1>4

\* A run closes its end only when it is over.
LEMMA ClientOpen ==
  ASSUME IInv, RunningIsOpen, NEW p \in Clients, ClientStep(p) \/ UserStep(p)
  PROVE  RunningIsOpen'
<1>1. /\ cl \in [Clients -> ClientPhases] /\ peer \in [Clients -> {"none", "open", "closed"}]
      /\ rst \in [Clients -> BOOLEAN]
  BY DEF IInv, TypeOK, SocketsTypeOK, SubscriberTypeOK
<1>2. CASE \/ CloseAfterExit(p) \/ ClientSigpipe(p) \/ Kill(p) \/ ReceiveShutdown(p)
  <2>1. /\ cl' = [cl EXCEPT ![p] = "gone"] /\ peer' = [peer EXCEPT ![p] = "closed"]
        /\ \E b \in BOOLEAN : rst' = [rst EXCEPT ![p] = b]
    BY <1>1, <1>2
    DEF CloseAfterExit, ClientSigpipe, Kill, ReceiveShutdown, CloseClientEnd
  <2>2. /\ \A q \in Clients : q # p => cl'[q] = cl[q] /\ peer'[q] = peer[q] /\ rst'[q] = rst[q]
        /\ cl'[p] = "gone" /\ peer'[p] = "closed"
    BY <1>1, <2>1
  <2> QED
    BY <2>2 DEF RunningIsOpen
<1>3. CASE Connect(p)
  BY <1>1, <1>3 DEF Connect, RunningIsOpen
<1>4. CASE ConnectRefused(p)
  BY <1>1, <1>4 DEF ConnectRefused, RunningIsOpen
<1>5. CASE SendConnect(p) \/ ReceiveNotification(p) \/ ReceiveEof(p) \/ Exit(p)
           \/ \E t \in Patterns : Subscribe(p, t) \/ Unsubscribe(p, t)
  <2>1. /\ UNCHANGED <<peer, rst>> /\ cl[p] \in {"connecting", "run"}
        /\ \E c \in {"run", "leaving", "spin"} : cl' = [cl EXCEPT ![p] = c]
    BY <1>1, <1>5 DEF SendConnect, ReceiveNotification, ReceiveEof, Exit, Subscribe,
       Unsubscribe, Type
  <2>2. \A q \in Clients : cl'[q] = cl[q] \/ (q = p /\ cl'[q] # "off")
    BY <1>1, <2>1
  <2> QED
    BY <1>1, <2>1, <2>2 DEF RunningIsOpen
<1> QED
  BY <1>2, <1>3, <1>4, <1>5 DEF ClientStep, UserStep

\* Every step.
LEMMA NextOpen == IInv /\ RunningIsOpen /\ [Next]_vars => RunningIsOpen'
<1> SUFFICES ASSUME IInv, RunningIsOpen, [Next]_vars PROVE RunningIsOpen'
  OBVIOUS
<1>1. CASE ServerStep /\ UNCHANGED cliVars
  BY <1>1, ServerOpen
<1>2. CASE \E p \in Clients : (ClientStep(p) \/ UserStep(p)) /\ UNCHANGED srvVars
  BY <1>2, ClientOpen
<1>3. CASE \/ \E t \in Topics : Publish(t)
           \/ OperatorExit
           \/ \E p \in Clients : (LoseToServer(p) \/ LoseToClient(p)) /\ UNCHANGED <<srvVars, cliVars>>
           \/ UNCHANGED vars
  <2>1. UNCHANGED <<cl, peer, rst>>
    BY <1>3 DEF Publish, OperatorExit, LoseToServer, LoseToClient, vars
  <2> QED
    BY <2>1 DEF RunningIsOpen
<1> QED
  BY <1>1, <1>2, <1>3 DEF Next

\* Every step of the system keeps the invariant.
LEMMA NextInv == IInv /\ RunningIsOpen /\ [Next]_vars => IInv'
<1> SUFFICES ASSUME IInv, RunningIsOpen, [Next]_vars PROVE IInv'
  OBVIOUS
<1>1. CASE ServerStep /\ UNCHANGED cliVars
  <2>1. CASE ReadStdin \/ ReceiveDatagram \/ SendNotification \/ StartRound \/ EndRound
    BY <1>1, <2>1, ControlInv
  <2>2. CASE AcceptFails \/ NotificationSigpipe \/ StopSigpipe \/ StopServer
    BY <1>1, <2>2, EndInv
  <2>3. CASE ConnectEof \/ NotificationBadFd \/ ClientEof
    BY <1>1, <2>3, StuckInv
  <2>4. CASE Accept
    BY <1>1, <2>4, AcceptInv
  <2>5. CASE Reconnect
    BY <1>1, <2>5, ReconnectInv
  <2>6. CASE AddNewSub
    BY <1>1, <2>6, AddNewSubInv
  <2>7. CASE RefuseIntruder
    BY <1>1, <2>7, RefuseIntruderInv
  <2>8. CASE ParseClientMessage
    BY <1>1, <2>8, ParseClientMessageInv
  <2>9. CASE ClientMessageDies
    BY <1>1, <2>9, ClientMessageDiesInv
  <2>10. CASE StopClient
    BY <1>1, <2>10, StopClientInv
  <2> QED
    BY <1>1, <2>1, <2>2, <2>3, <2>4, <2>5, <2>6, <2>7, <2>8, <2>9, <2>10 DEF ServerStep
<1>2. CASE \E p \in Clients : (ClientStep(p) \/ UserStep(p)) /\ UNCHANGED srvVars
  BY <1>2, ClientInv
<1>3. CASE \E t \in Topics : Publish(t)
  BY <1>3, PublishInv
<1>4. CASE OperatorExit
  BY <1>4, OperatorExitInv
<1>5. CASE \E p \in Clients : (LoseToServer(p) \/ LoseToClient(p)) /\ UNCHANGED <<srvVars, cliVars>>
  BY <1>5, LoseToServerInv, LoseToClientInv
<1>6. CASE UNCHANGED vars
  BY <1>6, StutterInv
<1> QED
  BY <1>1, <1>2, <1>3, <1>4, <1>5, <1>6 DEF Next

\* The inductive invariant holds in every behaviour of the system, for every
\* set of runs, ids, patterns and descriptors.
THEOREM Invariance == Spec => []IInv
<1>1. Init => RunningIsOpen
  BY DEF Init, SocketsInit, SubscriberInit, RunningIsOpen
<1> QED
  BY <1>1, InitInv, NextInv, NextOpen, PTL DEF Spec

\* So does what it rests on when a reset loses packets.
LEMMA OpenInvariance == Spec => []RunningIsOpen
<1>1. Init => RunningIsOpen
  BY DEF Init, SocketsInit, SubscriberInit, RunningIsOpen
<1> QED
  BY <1>1, InitInv, NextInv, NextOpen, PTL DEF Spec

\* Every variable of the server, the subscribers and the kernel keeps its
\* type; in particular the packet read after accept() is always a CONNECT
\* packet, so check_and_add_new_sub always reads an id.
THEOREM TypeCorrect == Spec => []TypeOK
<1>1. IInv => TypeOK
  BY DEF IInv
<1> QED
  BY <1>1, Invariance, PTL

\* While the server serves, the invariant says that an id has one session.
LEMMA InvOneSession == IInv => OneSessionPerId
<1> SUFFICES ASSUME IInv, Serving
             PROVE  /\ \A k \in DOMAIN sv_fds : Session(k) # None
                    /\ \A j, k \in DOMAIN sv_fds :
                         j # k => IdOf[Session(j)] # IdOf[Session(k)]
  BY DEF OneSessionPerId
<1>1. PolledHasRecord /\ RecordsDistinct
  BY DEF IInv, ServerInv
<1>2. \A k \in DOMAIN sv_fds : Session(k) # None
  BY <1>1 DEF PolledHasRecord, Session
<1>3. ASSUME NEW j \in DOMAIN sv_fds, NEW k \in DOMAIN sv_fds,
             IdOf[Session(j)] = IdOf[Session(k)]
      PROVE  j = k
  <2>1. PICK a \in DOMAIN subs : subs[a].fd = sv_fds[j] /\ subs[a].id = IdOf[Session(j)]
    BY <1>1 DEF PolledHasRecord, Session
  <2>2. PICK b \in DOMAIN subs : subs[b].fd = sv_fds[k] /\ subs[b].id = IdOf[Session(k)]
    BY <1>1 DEF PolledHasRecord, Session
  <2>3. a = b
    BY <1>1, <1>3, <2>1, <2>2 DEF RecordsDistinct
  <2> QED
    BY <1>1, <2>1, <2>2, <2>3 DEF PolledHasRecord
<1> QED
  BY <1>2, <1>3

\* However the lookups by descriptor go wrong, an identifier never has two
\* polled connections (check_and_add_new_sub, handle_shutdown_sub).
THEOREM OneSession == Spec => []OneSessionPerId
BY Invariance, InvOneSession, PTL

\* The assertion DIE(!sub) of the three handlers never fails.
THEOREM NoFailedLookup == Spec => []LookupsSucceed
<1>1. IInv => LookupsSucceed
  BY DEF IInv, ServerInv
<1> QED
  BY <1>1, Invariance, PTL
=============================================================================
