---------------------------- MODULE ServiceProofs ----------------------------
(***************************************************************************)
(* The broker implements PubSub: the initial states map to its initial     *)
(* state, and every step of a program is one of its steps or none.         *)
(***************************************************************************)
EXTENDS OrderProofs, BrokerService

USE DEF sockVars, srvVars, cliVars

-----------------------------------------------------------------------------
(***************************************************************************)
(* The front of a subscriber's socket.                                     *)
(***************************************************************************)

IsNotification(m) == m.action = "NOTIFICATION_ACTION"

\* The packet types.
LEMMA PacketTypes ==
  /\ \A m \in ToClientPackets : IsNotification(m) => m.dgram \in Datagrams
  /\ \A d \in Datagrams : /\ [action |-> "NOTIFICATION_ACTION", dgram |-> d] \in ToClientPackets
                          /\ IsNotification([action |-> "NOTIFICATION_ACTION", dgram |-> d])
BY DEF ToClientPackets, IsNotification

\* The first n packets are notifications, and the next one is not.
LeadingEnds(q, n) ==
  /\ \A k \in 1 .. n : IsNotification(q[k])
  /\ n < Len(q) => ~IsNotification(q[n + 1])

\* The front is known from the position where it ends.
LEMMA LeadingIs ==
  ASSUME NEW q \in Seq(ToClientPackets), NEW n \in 0 .. Len(q), LeadingEnds(q, n)
  PROVE  /\ Leading(q) \in Seq(Datagrams) /\ Len(Leading(q)) = n
         /\ \A k \in 1 .. n : Leading(q)[k] = q[k].dgram
<1>1. DOMAIN q = 1 .. Len(q) /\ Len(q) \in Nat /\ \A k \in 1 .. Len(q) : q[k] \in ToClientPackets
  BY LenProperties, ElementOfSeq
<1>2. {k \in DOMAIN q : \A j \in 1 .. k : q[j].action = "NOTIFICATION_ACTION"} = 1 .. n
  <2>1. ASSUME NEW k \in 1 .. n
        PROVE  k \in 1 .. Len(q) /\ \A j \in 1 .. k : q[j].action = "NOTIFICATION_ACTION"
    BY <1>1 DEF LeadingEnds, IsNotification
  <2>2. ASSUME NEW k \in 1 .. Len(q), k \notin 1 .. n
        PROVE  \E j \in 1 .. k : q[j].action # "NOTIFICATION_ACTION"
    <3>1. n < Len(q) /\ n + 1 \in 1 .. k
      BY <1>1, <2>2
    <3> QED
      BY <3>1 DEF LeadingEnds, IsNotification
  <2> QED
    BY <1>1, <2>1, <2>2
<1>3. Leading(q) = [k \in 1 .. n |-> q[k].dgram]
  BY <1>2 DEF Leading
<1>4. \A k \in 1 .. n : q[k].dgram \in Datagrams
  BY <1>1, PacketTypes DEF LeadingEnds
<1>5. n \in Nat
  BY <1>1
<1>6. Leading(q) \in Seq(Datagrams)
  BY <1>3, <1>4, <1>5, IsASeq
<1>7. Len(Leading(q)) = n
  BY <1>3, <1>5, <1>6, LenProperties
<1> QED
  BY <1>3, <1>6, <1>7

\* There is such a position.
LEMMA LeadingFacts ==
  ASSUME NEW q \in Seq(ToClientPackets)
  PROVE  Leading(q) \in Seq(Datagrams) /\ \E n \in 0 .. Len(q) : LeadingEnds(q, n)
<1> DEFINE Q == {k \in 1 .. Len(q) : IsNotification(q[k])}
<1>1. Len(q) \in Nat
  BY LenProperties
<1>2. PICK n \in 0 .. Len(q) : /\ \A k \in 1 .. n : k \in Q
                               /\ n = Len(q) \/ n + 1 \notin Q
  <2> HIDE DEF Q
  <2> QED
    BY <1>1, LeadingPositions
<1>3. LeadingEnds(q, n)
  BY <1>1, <1>2 DEF LeadingEnds
<1> QED
  BY <1>3, LeadingIs

\* An empty socket.
LEMMA LeadingEmpty == Leading(<<>>) = <<>>
<1>1. <<>> \in Seq(ToClientPackets) /\ Len(<<>>) = 0
  BY EmptySeq
<1>2. Leading(<<>>) \in Seq(Datagrams) /\ Len(Leading(<<>>)) = 0
  <2>1. 0 \in 0 .. Len(<<>>) /\ LeadingEnds(<<>>, 0)
    BY <1>1 DEF LeadingEnds
  <2> QED
    BY <1>1, <2>1, LeadingIs
<1> QED
  BY <1>2, EmptySeq

\* A notification behind notifications.
LEMMA LeadingGrows ==
  ASSUME NEW q \in Seq(ToClientPackets), \A k \in DOMAIN q : IsNotification(q[k]),
         NEW d \in Datagrams
  PROVE  Leading(Append(q, [action |-> "NOTIFICATION_ACTION", dgram |-> d])) = Append(Leading(q), d)
<1> DEFINE m == [action |-> "NOTIFICATION_ACTION", dgram |-> d]
           r == Append(q, m)
<1>1. m \in ToClientPackets /\ IsNotification(m) /\ m.dgram = d
  BY PacketTypes
<1> HIDE DEF m
<1>2. /\ r \in Seq(ToClientPackets) /\ Len(r) = Len(q) + 1
      /\ \A k \in DOMAIN q : r[k] = q[k]
      /\ r[Len(q) + 1] = m
  BY <1>1, AppendFacts
<1>3. Len(q) \in Nat /\ DOMAIN q = 1 .. Len(q)
  BY LenProperties
<1> HIDE DEF r
<1>4. /\ Leading(q) \in Seq(Datagrams) /\ Len(Leading(q)) = Len(q)
      /\ \A k \in 1 .. Len(q) : Leading(q)[k] = q[k].dgram
  <2>1. Len(q) \in 0 .. Len(q) /\ LeadingEnds(q, Len(q))
    BY <1>3 DEF LeadingEnds
  <2> QED
    BY <2>1, LeadingIs
<1>5. Len(r) \in 0 .. Len(r) /\ LeadingEnds(r, Len(r))
  BY <1>1, <1>2, <1>3 DEF LeadingEnds
<1>6. /\ Leading(r) \in Seq(Datagrams) /\ Len(Leading(r)) = Len(q) + 1
      /\ \A k \in 1 .. Len(r) : Leading(r)[k] = r[k].dgram
  BY <1>2, <1>5, LeadingIs
<1>7. /\ Append(Leading(q), d) \in Seq(Datagrams) /\ Len(Append(Leading(q), d)) = Len(q) + 1
      /\ \A k \in 1 .. Len(q) : Append(Leading(q), d)[k] = Leading(q)[k]
      /\ Append(Leading(q), d)[Len(q) + 1] = d
  BY <1>3, <1>4, AppendProperties
<1>8. \A k \in 1 .. Len(q) + 1 : Leading(r)[k] = Append(Leading(q), d)[k]
  BY <1>1, <1>2, <1>3, <1>4, <1>6, <1>7
<1>9. Leading(r) = Append(Leading(q), d)
  BY <1>6, <1>7, <1>8, SeqEqual
<1> QED
  BY <1>9 DEF r, m

\* A signal changes nothing before it.
LEMMA LeadingStays ==
  ASSUME NEW q \in Seq(ToClientPackets), NEW m \in ToClientPackets, ~IsNotification(m)
  PROVE  Leading(Append(q, m)) = Leading(q)
<1> DEFINE r == Append(q, m)
<1>1. /\ r \in Seq(ToClientPackets) /\ Len(r) = Len(q) + 1
      /\ \A k \in DOMAIN q : r[k] = q[k]
      /\ r[Len(q) + 1] = m
  BY AppendFacts
<1>2. Len(q) \in Nat /\ DOMAIN q = 1 .. Len(q)
  BY LenProperties
<1> HIDE DEF r
<1>3. PICK n \in 0 .. Len(q) : LeadingEnds(q, n)
  BY LeadingFacts
<1>4. /\ Leading(q) \in Seq(Datagrams) /\ Len(Leading(q)) = n
      /\ \A k \in 1 .. n : Leading(q)[k] = q[k].dgram
  BY <1>3, LeadingIs
<1>5. n \in 0 .. Len(r) /\ LeadingEnds(r, n)
  BY <1>1, <1>2, <1>3 DEF LeadingEnds
<1>6. /\ Leading(r) \in Seq(Datagrams) /\ Len(Leading(r)) = n
      /\ \A k \in 1 .. n : Leading(r)[k] = r[k].dgram
  BY <1>1, <1>5, LeadingIs
<1>7. \A k \in 1 .. n : Leading(r)[k] = Leading(q)[k]
  BY <1>1, <1>2, <1>4, <1>6
<1>8. Leading(r) = Leading(q)
  BY <1>4, <1>6, <1>7, SeqEqual
<1> QED
  BY <1>8 DEF r

\* A notification read from the front.
LEMMA LeadingTaken ==
  ASSUME NEW q \in Seq(ToClientPackets), q # <<>>, IsNotification(Head(q))
  PROVE  Head(q).dgram \in Datagrams /\ Leading(q) = <<Head(q).dgram>> \o Leading(Tail(q))
<1> DEFINE r == Tail(q)
           a == <<Head(q).dgram>>
<1>1. /\ r \in Seq(ToClientPackets) /\ Head(q) \in ToClientPackets
      /\ Len(r) = Len(q) - 1
      /\ DOMAIN q = 1 .. Len(q) /\ DOMAIN r = 1 .. Len(q) - 1
      /\ \A k \in DOMAIN r : k + 1 \in DOMAIN q /\ r[k] = q[k + 1]
      /\ 1 \in DOMAIN q /\ Head(q) = q[1]
  BY TailFacts
<1>2. Len(q) \in Nat /\ Len(r) \in Nat
  BY <1>1, LenProperties
<1>3. Head(q).dgram \in Datagrams
  BY <1>1, PacketTypes
<1>4. a \in Seq(Datagrams) /\ Len(a) = 1 /\ a[1] = Head(q).dgram
  BY <1>3
<1> HIDE DEF r, a
<1>5. PICK n \in 0 .. Len(r) : LeadingEnds(r, n)
  BY <1>1, LeadingFacts
<1>6. /\ Leading(r) \in Seq(Datagrams) /\ Len(Leading(r)) = n
      /\ \A k \in 1 .. n : Leading(r)[k] = r[k].dgram
  BY <1>1, <1>5, LeadingIs
<1>7. n + 1 \in 0 .. Len(q) /\ \A k \in 1 .. n + 1 : k = 1 \/ k - 1 \in 1 .. n
  BY <1>1, <1>2
<1>8. \A k \in 1 .. n : r[k] = q[k + 1]
  BY <1>1, <1>2
<1>9. ASSUME NEW k \in 1 .. n + 1 PROVE IsNotification(q[k])
  <2>1. k # 1 => k - 1 \in 1 .. n /\ (k - 1) + 1 = k
    BY <1>7
  <2> QED
    BY <1>1, <1>5, <1>8, <2>1 DEF LeadingEnds
<1>10. LeadingEnds(q, n + 1)
  <2>1. n + 1 < Len(q) => n < Len(r) /\ n + 1 \in DOMAIN r
    BY <1>1, <1>2
  <2> QED
    BY <1>1, <1>5, <1>9, <2>1 DEF LeadingEnds
<1>11. /\ Leading(q) \in Seq(Datagrams) /\ Len(Leading(q)) = n + 1
       /\ \A k \in 1 .. n + 1 : Leading(q)[k] = q[k].dgram
  BY <1>7, <1>10, LeadingIs
<1>12. /\ a \o Leading(r) \in Seq(Datagrams) /\ Len(a \o Leading(r)) = n + 1
       /\ \A k \in 1 .. n + 1 : (a \o Leading(r))[k] = IF k <= 1 THEN a[k] ELSE Leading(r)[k - 1]
  <2>1. /\ a \o Leading(r) \in Seq(Datagrams) /\ Len(a \o Leading(r)) = Len(a) + Len(Leading(r))
        /\ \A k \in 1 .. Len(a) + Len(Leading(r)) :
             (a \o Leading(r))[k] = IF k <= Len(a) THEN a[k] ELSE Leading(r)[k - Len(a)]
    BY <1>4, <1>6, ConcatProperties
  <2>2. Len(a) = 1 /\ Len(a) + Len(Leading(r)) = n + 1
    BY <1>4, <1>6
  <2> QED
    BY <2>1, <2>2
<1>13. ASSUME NEW k \in 1 .. n + 1 PROVE Leading(q)[k] = (a \o Leading(r))[k]
  <2>1. CASE k = 1
    BY <1>1, <1>4, <1>11, <1>12, <2>1
  <2>2. CASE k # 1
    <3>1. k - 1 \in 1 .. n /\ (k - 1) + 1 = k /\ ~(k <= 1)
      BY <2>2, <1>7
    <3>2. (a \o Leading(r))[k] = r[k - 1].dgram
      BY <1>6, <1>12, <3>1
    <3> QED
      BY <1>8, <1>11, <3>1, <3>2
  <2> QED
    BY <2>1, <2>2
<1>14. Leading(q) = a \o Leading(r)
  BY <1>11, <1>12, <1>13, SeqEqual
<1> QED
  BY <1>3, <1>14 DEF a, r

\* The last packet lost is the last datagram lost, or none.
LEMMA LeadingOfFront ==
  ASSUME NEW q \in Seq(ToClientPackets), q # <<>>
  PROVE  \E t \in Seq(Datagrams) : Leading(q) = Leading(Front(q)) \o t
<1> DEFINE f == Front(q)
<1>1. /\ f \in Seq(ToClientPackets) /\ Len(f) = Len(q) - 1 /\ Len(q) \in Nat \ {0}
      /\ DOMAIN f = 1 .. Len(q) - 1 /\ \A k \in DOMAIN f : f[k] = q[k]
  BY FrontFacts
<1> HIDE DEF f
<1>2. PICK n \in 0 .. Len(q) : LeadingEnds(q, n)
  BY LeadingFacts
<1>3. /\ Leading(q) \in Seq(Datagrams) /\ Len(Leading(q)) = n
      /\ \A k \in 1 .. n : Leading(q)[k] = q[k].dgram
  BY <1>2, LeadingIs
<1>4. CASE n <= Len(q) - 1
  <2>1. n \in 0 .. Len(f) /\ \A k \in 1 .. n : k \in DOMAIN f /\ f[k] = q[k]
    <3>1. n \in 0 .. Len(f) /\ 1 .. n \subseteq 1 .. Len(q) - 1
      <4>1. n \in Nat /\ Len(q) - 1 \in Nat /\ n <= Len(q) - 1
        BY <1>1, <1>4
      <4> QED
        BY <1>1, <4>1
    <3>2. 1 .. Len(q) - 1 = DOMAIN f
      BY <1>1
    <3> QED
      BY <1>1, <3>1, <3>2
  <2>2. n < Len(f) => n < Len(q) /\ n + 1 \in DOMAIN f
    BY <1>1, <1>4
  <2>3. LeadingEnds(f, n)
    BY <1>1, <1>2, <2>1, <2>2 DEF LeadingEnds
  <2>4. /\ Leading(f) \in Seq(Datagrams) /\ Len(Leading(f)) = n
        /\ \A k \in 1 .. n : Leading(f)[k] = f[k].dgram
    BY <1>1, <2>1, <2>3, LeadingIs
  <2>5. Leading(q) = Leading(f)
    BY <1>3, <2>1, <2>4, SeqEqual
  <2>6. Leading(f) \o <<>> = Leading(f) /\ <<>> \in Seq(Datagrams)
    BY <2>4, ConcatEmptySeq
  <2> QED
    BY <2>5, <2>6 DEF f
<1>5. CASE n = Len(q)
  <2>1. PICK m : m = Len(q) - 1
    OBVIOUS
  <2>2. /\ m \in 0 .. Len(f) /\ m = Len(f) /\ n = m + 1 /\ m \in Nat
        /\ \A k \in 1 .. m : k \in 1 .. n /\ f[k] = q[k]
    BY <1>1, <1>5, <2>1
  <2>3. LeadingEnds(f, m)
    BY <1>2, <2>2 DEF LeadingEnds
  <2>4. /\ Leading(f) \in Seq(Datagrams) /\ Len(Leading(f)) = m
        /\ \A k \in 1 .. m : Leading(f)[k] = f[k].dgram
    BY <1>1, <2>2, <2>3, LeadingIs
  <2>5. PICK d \in Datagrams : d = Leading(q)[n]
    BY <1>3, <2>2, ElementOfSeq
  <2>6. /\ Append(Leading(f), d) \in Seq(Datagrams) /\ Len(Append(Leading(f), d)) = m + 1
        /\ \A k \in 1 .. m : Append(Leading(f), d)[k] = Leading(f)[k]
        /\ Append(Leading(f), d)[m + 1] = d
    BY <2>2, <2>4, AppendProperties
  <2>7. \A k \in 1 .. n : Leading(q)[k] = Append(Leading(f), d)[k]
    BY <1>3, <2>2, <2>4, <2>5, <2>6
  <2>8. Leading(q) = Append(Leading(f), d)
    BY <1>3, <2>2, <2>6, <2>7, SeqEqual
  <2>9. Append(Leading(f), d) = Leading(f) \o <<d>> /\ <<d>> \in Seq(Datagrams)
    BY <2>4, AppendIsConcat
  <2> QED
    BY <2>8, <2>9 DEF f
<1>6. n <= Len(q) - 1 \/ n = Len(q)
  <2>1. n \in 0 .. Len(q) /\ Len(q) \in Nat
    BY <1>1
  <2> QED
    BY <2>1
<1> QED
  BY <1>4, <1>5, <1>6

\* A socket without notifications.
LEMMA NoLeading ==
  ASSUME NEW q \in Seq(ToClientPackets), \A k \in DOMAIN q : ~IsNotification(q[k])
  PROVE  Leading(q) = <<>>
<1>1. PICK n \in 0 .. Len(q) : LeadingEnds(q, n)
  BY LeadingFacts
<1>2. DOMAIN q = 1 .. Len(q) /\ Len(q) \in Nat
  BY LenProperties
<1>3. n = 0
  <2>1. n # 0 => 1 \in 1 .. n /\ 1 \in DOMAIN q
    BY <1>2
  <2> QED
    BY <1>1, <2>1 DEF LeadingEnds
<1>4. Leading(q) \in Seq(Datagrams) /\ Len(Leading(q)) = 0
  BY <1>1, <1>3, LeadingIs
<1> QED
  BY <1>4, EmptySeq

-----------------------------------------------------------------------------
(***************************************************************************)
(* What the mapping needs beside the invariants of the earlier modules.    *)
(***************************************************************************)

\* Only send_packet_to_subscribers has subscribers before it.
NothingPending == pc # "notify" => pending = {}

\* A run's end of its connection, its program and the server's end agree.
EndsAgree ==
  \A p \in Clients :
    /\ cl[p] = "off" => peer[p] = "none"
    /\ cl[p] = "gone" => peer[p] # "open"
    /\ ServerEndOpen(p) => peer[p] # "none"

\* Whoever was given a datagram has been admitted.
GivenToAdmitted ==
  ~aliased =>
    \A p \in Clients : \A k \in DOMAIN toClient[p] : OnTheWay(p, k) => p \in admitted

ServiceInv == NothingPending /\ EndsAgree /\ GivenToAdmitted

\* The descriptor of a record.
LEMMA RecordTypes ==
  ASSUME IInv, NEW i \in DOMAIN subs
  PROVE  /\ subs[i].fd \in Fds /\ subs[i].id \in Ids
         /\ subs[i].topics \in [Patterns -> Nat] /\ subs[i].online \in BOOLEAN
<1>1. subs[i] \in Subscribers
  BY LenProperties, ElementOfSeq DEF IInv, TypeOK, ServerTypeOK
<1> QED
  BY <1>1 DEF Subscribers

\* Two records that once shared a descriptor are not forgotten.
LEMMA AliasedStays ==
  ASSUME IInv, [Next]_vars, aliased
  PROVE  aliased'
<1>1. CASE Reconnect \/ AddNewSub
  BY <1>1 DEF Reconnect, AddNewSub, PollNewConnection
<1>2. CASE ~(Reconnect \/ AddNewSub)
  BY <1>2 DEF Next, vars, LoseToServer, LoseToClient, ServerStep, ReadStdin, Accept, AcceptFails,
     RefuseIntruder, ConnectEof, ReceiveDatagram, SendNotification, NotificationSigpipe,
     NotificationBadFd, StartRound, ParseClientMessage, ClientMessageDies, ClientEof, EndRound,
     StopClient, StopSigpipe, StopServer, Publish, OperatorExit
<1> QED
  BY <1>1, <1>2

\* Sockets that only lose, or get something else than a notification.
LEMMA GivenKept ==
  ASSUME IInv', GivenToAdmitted, aliased => aliased', admitted \subseteq admitted',
         \A q \in Clients : MovesUp(q)
  PROVE  GivenToAdmitted'
<1> SUFFICES ASSUME ~aliased', NEW p \in Clients, NEW k \in DOMAIN toClient'[p],
                    toClient'[p][k].action = "NOTIFICATION_ACTION"
             PROVE  p \in admitted'
  BY DEF GivenToAdmitted, OnTheWay
<1>1. PICK s \in {0, 1} :
        k + s \in DOMAIN toClient[p] /\ toClient'[p][k] = toClient[p][k + s]
  BY DEF MovesUp
<1> QED
  BY <1>1 DEF GivenToAdmitted, OnTheWay

\* A notification goes to the run behind a record that is online.
LEMMA GivenBySending ==
  ASSUME IInv, RecordInv, LeaveInv, GivenToAdmitted, SendNotification
  PROVE  GivenToAdmitted'
<1> SUFFICES ASSUME ~aliased, NEW p \in Clients, NEW k \in DOMAIN toClient'[p],
                    toClient'[p][k].action = "NOTIFICATION_ACTION"
             PROVE  p \in admitted
  BY DEF GivenToAdmitted, OnTheWay, SendNotification
<1> DEFINE m == [action |-> "NOTIFICATION_ACTION", dgram |-> dgram]
<1>1. PICK i \in pending : conn[subs[i].fd] # None /\ DeliverTo(conn[subs[i].fd], m)
  BY DEF SendNotification
<1>2. pc = "notify" /\ Serving
  BY DEF SendNotification, Serving, Alive
<1>3. m \in ToClientPackets
  BY <1>2, PacketTypes DEF IInv, ServerInv, ForwardsADatagram
<1> HIDE DEF m
<1>4. /\ i \in DOMAIN subs /\ subs[i].online /\ conn \in [Fds -> Clients \cup {None}]
      /\ subs[i].fd \in Fds
  BY <1>1, <1>2, RecordTypes DEF RecordInv, PendingAreOnline, IInv, TypeOK, SocketsTypeOK
<1>5. PICK q \in Clients : q = conn[subs[i].fd]
  BY <1>1, <1>4
<1>6. q \in admitted
  <2>1. PICK n : PolledAs(i, n)
    BY <1>2, <1>4 DEF RecordInv, OnlineIsPolled
  <2>2. Polled(q)
    BY <1>5, <2>1 DEF PolledAs, Polled, Session
  <2> QED
    BY <1>2, <2>2 DEF LeaveInv, PolledAreAdmitted
<1>7. \/ k \in DOMAIN toClient[p] /\ toClient'[p][k] = toClient[p][k]
      \/ p = q
  BY <1>1, <1>3, <1>5, Delivered
<1> QED
  BY <1>6, <1>7 DEF GivenToAdmitted, OnTheWay

\* Steps of the server.
LEMMA ServerService ==
  ASSUME IInv, IInv', RecordInv, LeaveInv, ServiceInv, ServerStep, UNCHANGED cliVars
  PROVE  ServiceInv'
<1>1. UNCHANGED <<cl, peer>>
  BY DEF ServerStep, ReadStdin, Accept, AcceptFails, Reconnect, AddNewSub, PollNewConnection,
     RefuseIntruder, ConnectEof, ReceiveDatagram, SendNotification, NotificationSigpipe,
     NotificationBadFd, StartRound, ParseClientMessage, ClientMessageDies, ClientEof, EndRound,
     StopClient, StopSigpipe, StopServer
<1>2. EndsAgree'
  BY <1>1, ServerOpensNone DEF ServiceInv, EndsAgree
<1>3. NothingPending'
  <2>1. \/ pending' = {} \/ pc' = "notify" \/ UNCHANGED <<pc, pending>>
        \/ UNCHANGED pending /\ pc # "notify"
    BY DEF ServerStep, ReadStdin, Accept, AcceptFails, Reconnect, AddNewSub, PollNewConnection,
       RefuseIntruder, ConnectEof, ReceiveDatagram, SendNotification, NotificationSigpipe,
       NotificationBadFd, StartRound, ParseClientMessage, ClientMessageDies, ClientEof, EndRound,
       StopClient, StopSigpipe, StopServer, Halt, Spin, ForgetLocals
  <2> QED
    BY <2>1 DEF ServiceInv, NothingPending
<1>4. GivenToAdmitted'
  <2>1. CASE SendNotification
    BY <2>1, GivenBySending DEF ServiceInv
  <2>2. CASE ~SendNotification
    <3>1. aliased => aliased'
      BY AliasedStays DEF Next
    <3>2. admitted \subseteq admitted'
      BY DEF ServerStep, ReadStdin, Accept, AcceptFails, Reconnect, AddNewSub, PollNewConnection,
         RefuseIntruder, ConnectEof, ReceiveDatagram, SendNotification, NotificationSigpipe,
         NotificationBadFd, StartRound, ParseClientMessage, ClientMessageDies, ClientEof, EndRound,
         StopClient, StopSigpipe, StopServer
    <3> QED
      BY <2>2, <3>1, <3>2, ServerMoves, GivenKept DEF ServiceInv
  <2> QED
    BY <2>1, <2>2
<1> QED
  BY <1>2, <1>3, <1>4 DEF ServiceInv

\* What a run does to its own socket.
LEMMA ClientMoves ==
  ASSUME IInv, NEW p \in Clients, ClientStep(p) \/ UserStep(p)
  PROVE  \A q \in Clients : MovesUp(q)
<1>1. CASE ReceiveNotification(p)
  <2>1. toClient \in [Clients -> Seq(ToClientPackets)] /\ toClient[p] \in Seq(ToClientPackets)
    BY DEF IInv, TypeOK, SocketsTypeOK
  <2>2. toClient[p] # <<>> /\ toClient' = [toClient EXCEPT ![p] = Tail(toClient[p])]
    BY <1>1 DEF ReceiveNotification
  <2>3. \A k \in DOMAIN Tail(toClient[p]) :
          k + 1 \in DOMAIN toClient[p] /\ Tail(toClient[p])[k] = toClient[p][k + 1]
    BY <2>1, <2>2, TailFacts
  <2>4. MovesUp(p)
    BY <2>1, <2>2, <2>3 DEF MovesUp
  <2>5. ASSUME NEW q \in Clients, q # p PROVE MovesUp(q)
    <3>1. toClient'[q] = toClient[q]
      BY <2>1, <2>2, <2>5
    <3>2. DOMAIN toClient[q] \subseteq Nat
      BY DeliveryTypes, LenProperties
    <3>3. \A k \in DOMAIN toClient[q] : k + 0 = k
      BY <3>2
    <3> QED
      BY <3>1, <3>3 DEF MovesUp
  <2> QED
    BY <2>4, <2>5
<1>2. CASE ~ReceiveNotification(p)
  <2>1. toClient' = toClient \/ toClient' = [toClient EXCEPT ![p] = <<>>]
    BY <1>2 DEF ClientStep, UserStep, Connect, ConnectRefused, SendConnect, Subscribe, Unsubscribe,
       Exit, CloseAfterExit, ClientSigpipe, Kill, ReceiveShutdown, ReceiveEof, CloseClientEnd
  <2> QED
    BY <2>1, MovesFacts
<1> QED
  BY <1>1, <1>2

\* Steps of a subscriber.
LEMMA ClientService ==
  ASSUME IInv, IInv', ServiceInv, UNCHANGED srvVars, NEW p \in Clients,
         ClientStep(p) \/ UserStep(p)
  PROVE  ServiceInv'
<1>1. /\ cl \in [Clients -> ClientPhases] /\ peer \in [Clients -> {"none", "open", "closed"}]
      /\ backlog \in Seq(Clients)
  BY DEF IInv, TypeOK, SocketsTypeOK, SubscriberTypeOK
<1>2. /\ UNCHANGED conn /\ cl[p] \in {"off", "connecting", "run", "leaving"} /\ cl'[p] # "off"
      /\ \A q \in Clients : q # p => cl'[q] = cl[q] /\ peer'[q] = peer[q]
  BY ClientFrame
<1>g. GivenToAdmitted'
  BY ClientMoves, GivenKept DEF ServiceInv
<1>3. CASE Connect(p)
  <2>1. peer'[p] = "open" /\ cl'[p] = "connecting" /\ backlog' = Append(backlog, p)
    BY <1>1, <1>3 DEF Connect
  <2>2. /\ DOMAIN backlog' = 1 .. Len(backlog) + 1 /\ DOMAIN backlog = 1 .. Len(backlog)
        /\ \A k \in DOMAIN backlog : backlog'[k] = backlog[k]
        /\ backlog'[Len(backlog) + 1] = p /\ Len(backlog) \in Nat
    BY <1>1, <2>1, AppendFacts, LenProperties
  <2>3. \A k \in DOMAIN backlog' : backlog'[k] = p \/ (k \in DOMAIN backlog /\ backlog'[k] = backlog[k])
    BY <2>2
  <2>4. \A q \in Clients : ServerEndOpen(q)' => q = p \/ ServerEndOpen(q)
    BY <1>2, <2>3 DEF ServerEndOpen
  <2> QED
    BY <1>2, <1>g, <2>1, <2>4 DEF ServiceInv, NothingPending, EndsAgree
<1>4. CASE ~Connect(p)
  <2>1. UNCHANGED <<conn, backlog>>
    BY <1>4 DEF ClientStep, UserStep, ConnectRefused, SendConnect, Subscribe, Unsubscribe, Exit,
       CloseAfterExit, ClientSigpipe, Kill, ReceiveNotification, ReceiveShutdown, ReceiveEof
  <2>2. peer'[p] = peer[p] \/ peer'[p] = "closed"
    BY <1>1, <1>4 DEF ClientStep, UserStep, ConnectRefused, SendConnect, Subscribe, Unsubscribe,
       Exit, CloseAfterExit, ClientSigpipe, Kill, ReceiveNotification, ReceiveShutdown,
       ReceiveEof, CloseClientEnd
  <2>3. cl'[p] = "gone" => peer'[p] = "closed" \/ (cl[p] = "off" /\ UNCHANGED peer)
    BY <1>1, <1>2, <1>4 DEF ClientStep, UserStep, ConnectRefused, SendConnect, Subscribe,
       Unsubscribe, Exit, CloseAfterExit, ClientSigpipe, Kill, ReceiveNotification,
       ReceiveShutdown, ReceiveEof, CloseClientEnd, Type
  <2>4. \A q \in Clients : ServerEndOpen(q)' <=> ServerEndOpen(q)
    BY <2>1 DEF ServerEndOpen
  <2>5. EndsAgree'
    BY <1>2, <2>2, <2>3, <2>4 DEF ServiceInv, EndsAgree
  <2> QED
    BY <1>g, <2>5 DEF ServiceInv, NothingPending
<1> QED
  BY <1>3, <1>4

\* Every step.
LEMMA NextService ==
  ASSUME IInv, IInv', RecordInv, LeaveInv, ServiceInv, [Next]_vars
  PROVE  ServiceInv'
<1>1. CASE ServerStep /\ UNCHANGED cliVars
  BY <1>1, ServerService
<1>2. CASE \E p \in Clients : (ClientStep(p) \/ UserStep(p)) /\ UNCHANGED srvVars
  BY <1>2, ClientService
<1>3. CASE (\E t \in Topics : Publish(t)) \/ OperatorExit \/ Resets \/ UNCHANGED vars
  <2>1. /\ UNCHANGED <<conn, backlog, peer, pc, pending, cl, aliased, admitted>>
        /\ Resets \/ UNCHANGED toClient
    BY <1>3 DEF Publish, OperatorExit, Resets, LoseToServer, LoseToClient, vars
  <2>2. \A q \in Clients : MovesUp(q)
    BY <2>1, MovesFacts, ResetsMove
  <2>3. GivenToAdmitted'
    BY <2>1, <2>2, GivenKept DEF ServiceInv
  <2> QED
    BY <2>1, <2>3 DEF ServiceInv, NothingPending, EndsAgree, ServerEndOpen
<1> QED
  BY <1>1, <1>2, <1>3 DEF Next, Resets

\* The invariant holds in every reachable state.
LEMMA ServiceInvariance == Spec => []ServiceInv
<1>1. ASSUME Init PROVE ServiceInv
  <2>1. /\ \A p \in Clients : peer[p] = "none" /\ cl[p] = "off" /\ p # None
        /\ \A f \in Fds : conn[f] = None
        /\ \A p \in Clients : DOMAIN toClient[p] = {}
        /\ DOMAIN backlog = {} /\ pending = {}
    BY <1>1, EmptyFacts, SocketsAssumption DEF Init, SocketsInit, ServerInit, SubscriberInit
  <2> QED
    BY <2>1 DEF ServiceInv, NothingPending, EndsAgree, ServerEndOpen, GivenToAdmitted
<1> QED
  BY <1>1, NextService, RecordInvariance, LeaveInvariance, Invariance, PTL DEF Spec

-----------------------------------------------------------------------------
(***************************************************************************)
(* The mapped variables.                                                   *)
(***************************************************************************)

\* The beginning of a sequence is a prefix of it.
LEMMA BeginningIsPrefix ==
  ASSUME NEW S, NEW s \in Seq(S), NEW t \in Seq(S)
  PROVE  IsPrefix(s, s \o t)
<1>1. Len(s) \in Nat /\ Len(t) \in Nat /\ \A k \in 1 .. Len(s) : s[k] \in S
  BY LenProperties, ElementOfSeq
<1>2. /\ s \o t \in Seq(S) /\ Len(s \o t) = Len(s) + Len(t)
      /\ \A k \in 1 .. Len(s) + Len(t) :
           (s \o t)[k] = IF k <= Len(s) THEN s[k] ELSE t[k - Len(s)]
  BY ConcatProperties
<1> DEFINE u == s \o t
<1> HIDE DEF u
<1>3. \A k \in 1 .. Len(s) : u[k] = s[k] /\ u[k] \in S
  BY <1>1, <1>2 DEF u
<1>4. SubSeq(u, 1, Len(s)) = SubSeq(s, 1, Len(s))
  <2>1. /\ SubSeq(u, 1, Len(s)) \in Seq(S)
        /\ Len(SubSeq(u, 1, Len(s))) = IF 1 <= Len(s) THEN Len(s) - 1 + 1 ELSE 0
        /\ \A k \in 1 .. Len(s) - 1 + 1 : SubSeq(u, 1, Len(s))[k] = u[1 + k - 1]
    BY <1>1, <1>3, SubSeqProperties
  <2>2. /\ SubSeq(s, 1, Len(s)) \in Seq(S)
        /\ Len(SubSeq(s, 1, Len(s))) = IF 1 <= Len(s) THEN Len(s) - 1 + 1 ELSE 0
        /\ \A k \in 1 .. Len(s) - 1 + 1 : SubSeq(s, 1, Len(s))[k] = s[1 + k - 1]
    BY <1>1, SubSeqProperties
  <2>3. Len(s) - 1 + 1 = Len(s) /\ \A k \in 1 .. Len(s) : 1 + k - 1 = k
    BY <1>1
  <2>4. Len(SubSeq(u, 1, Len(s))) = Len(s) /\ Len(SubSeq(s, 1, Len(s))) = Len(s)
    BY <1>1, <2>1, <2>2
  <2>5. \A k \in 1 .. Len(s) : SubSeq(u, 1, Len(s))[k] = SubSeq(s, 1, Len(s))[k]
    BY <1>3, <2>1, <2>2, <2>3
  <2> QED
    BY <2>1, <2>2, <2>4, <2>5, SeqEqual
<1> QED
  BY <1>1, <1>2, <1>4 DEF u, IsPrefix

\* What a run was given is three sequences of datagrams.
LEMMA InboxTypes ==
  ASSUME IInv, ServiceInv, NEW p \in Clients
  PROVE  /\ shown[p] \in Seq(Datagrams) /\ InSocket(p) \in Seq(Datagrams)
         /\ Promised(p) \in Seq(Datagrams)
         /\ Inbox[p] = shown[p] \o InSocket(p) \o Promised(p)
         /\ Inbox[p] = shown[p] \o (InSocket(p) \o Promised(p))
         /\ Inbox[p] \in Seq(Datagrams)
<1>1. shown[p] \in Seq(Datagrams) /\ toClient[p] \in Seq(ToClientPackets)
  BY DEF IInv, TypeOK, SocketsTypeOK, SubscriberTypeOK
<1>2. InSocket(p) \in Seq(Datagrams)
  BY <1>1, LeadingFacts DEF InSocket
<1>3. Promised(p) \in Seq(Datagrams)
  <2>1. CASE Promised(p) = <<>>
    BY <2>1, EmptySeq
  <2>2. CASE Promised(p) # <<>>
    <3>1. Promised(p) = <<dgram>> /\ pending # {}
      BY <2>2 DEF Promised
    <3>2. dgram \in Datagrams
      BY <3>1 DEF ServiceInv, NothingPending, IInv, ServerInv, ForwardsADatagram
    <3> QED
      BY <3>1, <3>2
  <2> QED
    BY <2>1, <2>2
<1>4. Inbox[p] = shown[p] \o InSocket(p) \o Promised(p)
  BY DEF Inbox
<1>5. shown[p] \o InSocket(p) \in Seq(Datagrams)
  BY <1>1, <1>2, ConcatProperties
<1>6. shown[p] \o InSocket(p) \o Promised(p) \in Seq(Datagrams)
  BY <1>3, <1>5, ConcatProperties
<1>7. shown[p] \o InSocket(p) \o Promised(p) = shown[p] \o (InSocket(p) \o Promised(p))
  <2> DEFINE s == shown[p]  t == InSocket(p)  u == Promised(p)
  <2>1. s \in Seq(Datagrams) /\ t \in Seq(Datagrams) /\ u \in Seq(Datagrams)
    BY <1>1, <1>2, <1>3
  <2> HIDE DEF s, t, u
  <2>2. s \o t \o u = s \o (t \o u)
    BY <2>1, ConcatAssociative
  <2> QED
    BY <2>2 DEF s, t, u
<1> QED
  BY <1>1, <1>2, <1>3, <1>4, <1>6, <1>7

\* Nothing is promised outside send_packet_to_subscribers.
LEMMA NothingPromised ==
  ASSUME IInv, ServiceInv, pending = {}, NEW p \in Clients
  PROVE  /\ Promised(p) = <<>>
         /\ Inbox[p] = shown[p] \o InSocket(p)
<1>1. Promised(p) = <<>>
  BY DEF Promised
<1>2. shown[p] \o InSocket(p) \in Seq(Datagrams)
  BY InboxTypes, ConcatProperties
<1> QED
  BY <1>1, <1>2, InboxTypes, ConcatEmptySeq

\* A step the service does not see.
Hidden == UNCHANGED <<Serving, Connected, TopicsById, udp, Inbox, Ending, Left, aliased>>

\* The inbox stays where its three parts do.
LEMMA InboxKept ==
  ASSUME \A p \in Clients :
           /\ shown'[p] = shown[p]
           /\ InSocket(p)' = InSocket(p) /\ Promised(p)' = Promised(p)
  PROVE  Inbox' = Inbox
BY DEF Inbox

\* The sessions stay where the array and its connections do.
LEMMA ConnectedKept ==
  ASSUME UNCHANGED sv_fds, Serving' = Serving,
         Serving => \A k \in DOMAIN sv_fds : conn'[sv_fds[k]] = conn[sv_fds[k]]
  PROVE  Connected' = Connected
BY DEF Connected, Session

\* The topics stay where the records do.
LEMMA TopicsStay ==
  ASSUME UNCHANGED subs
  PROVE  TopicsById' = TopicsById
BY DEF TopicsById, TopicsOf

-----------------------------------------------------------------------------
(***************************************************************************)
(* Each step is a step of the service or hidden from it.                   *)
(***************************************************************************)

\* A run closes its connection.
LEMMA LeavingIsLeave ==
  ASSUME IInv, RunningIsOpen, ServiceInv, UNCHANGED srvVars, NEW p \in Clients,
         CloseAfterExit(p) \/ ClientSigpipe(p) \/ Kill(p) \/ ReceiveShutdown(p)
  PROVE  Service!Leave(p)
<1>1. /\ peer \in [Clients -> {"none", "open", "closed"}]
      /\ toClient \in [Clients -> Seq(ToClientPackets)]
  BY DEF IInv, TypeOK, SocketsTypeOK
<1>2. /\ UNCHANGED conn
      /\ \A q \in Clients : q # p =>
           peer'[q] = peer[q] /\ toClient'[q] = toClient[q] /\ cl'[q] = cl[q]
  BY ClientFrame DEF ClientStep, UserStep
<1>3. /\ peer'[p] = "closed" /\ toClient'[p] = <<>> /\ UNCHANGED <<shown, udp>>
      /\ cl[p] \in {"connecting", "run", "leaving"} /\ cl'[p] = "gone"
  BY <1>1 DEF CloseAfterExit, ClientSigpipe, Kill, ReceiveShutdown, CloseClientEnd,
     IInv, TypeOK, SubscriberTypeOK
<1>4. peer[p] = "open"
  BY <1>3 DEF RunningIsOpen
<1>5. p \in Left' \ Left /\ Left' = Left \cup {p}
  BY <1>2, <1>3, <1>4 DEF Left
<1>6. Ending' = Ending \cup {p}
  BY <1>2, <1>3, <1>5 DEF Ending
<1>7. UNCHANGED <<Serving, Connected, TopicsById, udp, aliased>>
  BY <1>2, <1>3, ConnectedKept, TopicsStay DEF Serving, Alive
<1>8. ASSUME NEW q \in Clients, q # p PROVE Inbox'[q] = Inbox[q]
  <2>1. InSocket(q)' = InSocket(q) /\ Promised(q)' = Promised(q)
    BY <1>2, <1>8 DEF InSocket, Promised
  <2> QED
    BY <1>3, <2>1 DEF Inbox
<1>9. Inbox'[p] = shown[p]
  <2>1. InSocket(p)' = <<>> /\ Promised(p)' = <<>>
    BY <1>3, LeadingEmpty DEF InSocket, Promised
  <2>2. Inbox'[p] = shown[p] \o <<>> \o <<>>
    BY <1>3, <2>1 DEF Inbox
  <2> QED
    BY <2>2, InboxTypes, ConcatEmptySeq
<1>10. IsPrefix(Inbox'[p], Inbox[p])
  <2>1. InSocket(p) \o Promised(p) \in Seq(Datagrams)
    BY InboxTypes, ConcatProperties
  <2> QED
    BY <1>9, <2>1, InboxTypes, BeginningIsPrefix
<1>11. Inbox' = [Inbox EXCEPT ![p] = Inbox'[p]]
  BY <1>8 DEF Inbox
<1> QED
  BY <1>5, <1>6, <1>7, <1>10, <1>11 DEF Service!Leave, Service!IsPrefix, IsPrefix

\* A run says goodbye.
LEMMA ExitIsAnnounce ==
  ASSUME IInv, RunningIsOpen, ServiceInv, UNCHANGED srvVars, NEW p \in Clients, Exit(p)
  PROVE  Service!Announce(p)
<1>1. /\ UNCHANGED <<conn, udp, toClient, shown, peer>>
      /\ cl[p] = "run" /\ cl' = [cl EXCEPT ![p] = "leaving"]
  BY DEF Exit, Type
<1>2. cl \in [Clients -> ClientPhases] /\ peer[p] = "open"
  BY <1>1 DEF IInv, TypeOK, SubscriberTypeOK, RunningIsOpen
<1>3. UNCHANGED <<Serving, Connected, TopicsById, Left>>
  BY <1>1, ConnectedKept, TopicsStay DEF Serving, Alive, Left
<1>4. Inbox' = Inbox
  BY <1>1, InboxKept DEF InSocket, Promised
<1>5. p \in Ending' \ Ending /\ Ending' = Ending \cup {p}
  BY <1>1, <1>2, <1>3 DEF Ending, Left
<1> QED
  BY <1>1, <1>3, <1>4, <1>5 DEF Service!Announce

\* A run shows the datagram at the front of its socket.
LEMMA ShowingIsHidden ==
  ASSUME IInv, ServiceInv, UNCHANGED srvVars, NEW p \in Clients, ReceiveNotification(p)
  PROVE  Hidden
<1>1. /\ toClient \in [Clients -> Seq(ToClientPackets)] /\ shown \in [Clients -> Seq(Datagrams)]
  BY DEF IInv, TypeOK, SocketsTypeOK, SubscriberTypeOK
<1>2. /\ UNCHANGED <<conn, peer, udp, cl>>
      /\ toClient[p] # <<>> /\ IsNotification(Head(toClient[p]))
      /\ toClient' = [toClient EXCEPT ![p] = Tail(toClient[p])]
      /\ shown' = [shown EXCEPT ![p] = Append(shown[p], Head(toClient[p]).dgram)]
  BY DEF ReceiveNotification, IsNotification
<1>3. UNCHANGED <<Serving, Connected, TopicsById, udp, Ending, Left, aliased>>
  BY <1>2, ConnectedKept, TopicsStay DEF Serving, Alive, Ending, Left
<1>4. \A q \in Clients : Promised(q)' = Promised(q)
  BY <1>2 DEF Promised
<1> DEFINE d == Head(toClient[p]).dgram
           f == Leading(Tail(toClient[p]))
<1>5. d \in Datagrams /\ InSocket(p) = <<d>> \o f
  BY <1>1, <1>2, LeadingTaken DEF InSocket
<1>6. f \in Seq(Datagrams)
  BY <1>1, <1>2, TailFacts, LeadingFacts
<1>7. InSocket(p)' = f /\ shown'[p] = Append(shown[p], d)
  BY <1>1, <1>2 DEF InSocket
<1> HIDE DEF d, f
<1>8. shown[p] \in Seq(Datagrams) /\ <<d>> \in Seq(Datagrams)
  BY <1>1, <1>5
<1>9. Append(shown[p], d) \o f = shown[p] \o (<<d>> \o f)
  <2>1. Append(shown[p], d) = shown[p] \o <<d>>
    BY <1>5, <1>8, AppendIsConcat
  <2>2. (shown[p] \o <<d>>) \o f = shown[p] \o (<<d>> \o f)
    <3> DEFINE s == shown[p]  t == <<d>>
    <3>1. s \in Seq(Datagrams) /\ t \in Seq(Datagrams)
      BY <1>8
    <3> HIDE DEF s, t
    <3>2. (s \o t) \o f = s \o (t \o f)
      BY <1>6, <3>1, ConcatAssociative
    <3> QED
      BY <3>2 DEF s, t
  <2> QED
    BY <2>1, <2>2
<1>10. \A q \in Clients : shown'[q] \o InSocket(q)' = shown[q] \o InSocket(q)
  <2>1. \A q \in Clients : q # p => shown'[q] = shown[q] /\ InSocket(q)' = InSocket(q)
    BY <1>1, <1>2 DEF InSocket
  <2> QED
    BY <1>5, <1>7, <1>9, <2>1
<1>11. Inbox' = Inbox
  BY <1>4, <1>10 DEF Inbox
<1> QED
  BY <1>3, <1>11 DEF Hidden

\* Everything else a subscriber does is between it and its socket.
LEMMA ClientMapped ==
  ASSUME IInv, RunningIsOpen, ServiceInv, UNCHANGED srvVars, NEW p \in Clients,
         ClientStep(p) \/ UserStep(p)
  PROVE  Hidden \/ Service!Announce(p) \/ Service!Leave(p)
<1>1. CASE Exit(p) \/ CloseAfterExit(p) \/ ClientSigpipe(p) \/ Kill(p) \/ ReceiveShutdown(p)
  BY <1>1, ExitIsAnnounce, LeavingIsLeave
<1>2. CASE ReceiveNotification(p)
  BY <1>2, ShowingIsHidden
<1>3. CASE Connect(p)
  <2>1. peer \in [Clients -> {"none", "open", "closed"}]
    BY DEF IInv, TypeOK, SocketsTypeOK
  <2>2. /\ UNCHANGED <<conn, udp, toClient, shown>> /\ cl[p] = "off"
        /\ peer' = [peer EXCEPT ![p] = "open"] /\ cl' = [cl EXCEPT ![p] = "connecting"]
    BY <1>3 DEF Connect
  <2>3. peer[p] = "none" /\ \A f \in Fds : conn[f] # p
    BY <2>2 DEF ServiceInv, EndsAgree, IInv, NothingBeforeConnect, ServerEndOpen
  <2>4. ~ \E i \in pending : conn[subs[i].fd] = p
    BY <2>3, RecordTypes DEF IInv, TypeOK, ServerTypeOK
  <2>5. Promised(p)' = <<>> /\ Promised(p) = <<>>
    BY <2>2, <2>4 DEF Promised
  <2>6. \A q \in Clients : Promised(q)' = Promised(q)
    BY <2>1, <2>2, <2>5 DEF Promised
  <2>7. Left' = Left /\ Ending' = Ending
    <3>1. Left' = Left
      BY <2>1, <2>2, <2>3 DEF Left
    <3>2. cl \in [Clients -> ClientPhases]
      BY DEF IInv, TypeOK, SubscriberTypeOK
    <3> QED
      BY <2>2, <3>1, <3>2 DEF Ending
  <2>8. Inbox' = Inbox
    BY <2>2, <2>6, InboxKept DEF InSocket
  <2>9. UNCHANGED <<Serving, Connected, TopicsById>>
    BY <2>2, ConnectedKept, TopicsStay DEF Serving, Alive
  <2> QED
    BY <2>2, <2>7, <2>8, <2>9 DEF Hidden
<1>4. CASE \/ ConnectRefused(p) \/ SendConnect(p) \/ ReceiveEof(p)
           \/ \E t \in Patterns : Subscribe(p, t) \/ Unsubscribe(p, t)
  <2>1. /\ UNCHANGED <<conn, udp, toClient, shown, peer>>
        /\ UNCHANGED cl \/ \E c \in {"gone", "run", "spin"} :
                             cl[p] # "leaving" /\ cl' = [cl EXCEPT ![p] = c]
    BY <1>4 DEF ConnectRefused, SendConnect, ReceiveEof, Subscribe, Unsubscribe
  <2>2. UNCHANGED <<Serving, Connected, TopicsById>>
    BY <2>1, ConnectedKept, TopicsStay DEF Serving, Alive
  <2>3. Left' = Left /\ Inbox' = Inbox
    BY <2>1, InboxKept DEF Left, InSocket, Promised
  <2>4. Ending' = Ending
    <3>1. cl \in [Clients -> ClientPhases]
      BY DEF IInv, TypeOK, SubscriberTypeOK
    <3>2. \A q \in Clients : cl'[q] = "leaving" <=> cl[q] = "leaving"
      BY <2>1, <3>1
    <3> QED
      BY <2>3, <3>2 DEF Ending
  <2> QED
    BY <2>1, <2>2, <2>3, <2>4 DEF Hidden
<1> QED
  BY <1>1, <1>2, <1>3, <1>4 DEF ClientStep, UserStep

\* The ways in which the server comes to an end.
LEMMA EndingIsStop ==
  ASSUME IInv, ServiceInv, UNCHANGED cliVars,
         \/ ReadStdin \/ AcceptFails \/ ConnectEof \/ NotificationSigpipe
         \/ NotificationBadFd \/ ClientMessageDies \/ ClientEof
  PROVE  Service!Stop
<1>1. /\ pc \in {"poll", "connect", "notify", "clients"} /\ pc' \in {"stop", "dead", "spin"}
      /\ UNCHANGED <<toClient, peer, udp, subs, aliased>>
      /\ pending' = {} \/ (pc = "poll" /\ UNCHANGED pending)
  BY DEF ReadStdin, AcceptFails, ConnectEof, NotificationSigpipe, NotificationBadFd,
     ClientMessageDies, ClientEof, PacketReadyAt, Halt, Spin, ForgetLocals
<1>2. Serving /\ Serving' = FALSE
  BY <1>1 DEF Serving, Alive
<1>3. Connected' = {}
  BY <1>2 DEF Connected
<1>4. UNCHANGED <<TopicsById, udp, Ending, Left, aliased>>
  BY <1>1, TopicsStay DEF Ending, Left
<1>5. ASSUME NEW p \in Clients PROVE IsPrefix(Inbox'[p], Inbox[p])
  <2>1. pending' = {}
    BY <1>1 DEF ServiceInv, NothingPending
  <2>2. Promised(p)' = <<>> /\ InSocket(p)' = InSocket(p) /\ shown'[p] = shown[p]
    BY <1>1, <2>1 DEF Promised, InSocket
  <2>3. Inbox'[p] = shown[p] \o InSocket(p) \o <<>>
    BY <2>2 DEF Inbox
  <2> DEFINE s == shown[p] \o InSocket(p)
  <2>4. s \in Seq(Datagrams)
    BY InboxTypes, ConcatProperties
  <2>5. Inbox[p] = s \o Promised(p) /\ Promised(p) \in Seq(Datagrams)
    BY InboxTypes
  <2>6. Inbox'[p] = s \o <<>>
    BY <2>3
  <2> HIDE DEF s
  <2>7. Inbox'[p] = s
    BY <2>4, <2>6, ConcatEmptySeq
  <2> QED
    BY <2>4, <2>5, <2>7, BeginningIsPrefix
<1> QED
  BY <1>2, <1>3, <1>4, <1>5 DEF Service!Stop, Service!IsPrefix, IsPrefix

\* A packet that tells a run to end does not change what it was given.
LEMMA SignalsAreHidden ==
  ASSUME IInv, NEW q \in Clients, NEW m \in ToClientPackets, ~IsNotification(m), DeliverTo(q, m)
  PROVE  \A p \in Clients : InSocket(p)' = InSocket(p)
<1>1. toClient \in [Clients -> Seq(ToClientPackets)]
  BY DEF IInv, TypeOK, SocketsTypeOK
<1>2. \/ toClient' = [toClient EXCEPT ![q] = Append(toClient[q], m)]
      \/ toClient' = toClient
  BY DEF DeliverTo
<1>3. Leading(Append(toClient[q], m)) = Leading(toClient[q])
  BY <1>1, LeadingStays
<1> QED
  BY <1>1, <1>2, <1>3 DEF InSocket

\* The shutdown itself: nobody has a session any more.
LEMMA ShutdownIsHidden ==
  ASSUME IInv, ServiceInv, UNCHANGED cliVars, StopClient \/ StopSigpipe \/ StopServer
  PROVE  Hidden
<1>1. /\ pc = "stop" /\ pc' \in {"stop", "dead"}
      /\ UNCHANGED <<peer, udp, subs, aliased>>
      /\ pending' = {} \/ UNCHANGED pending
  BY DEF StopClient, StopSigpipe, StopServer, Halt, ForgetLocals
<1>2. Serving = FALSE /\ Serving' = FALSE
  BY <1>1 DEF Serving, Alive
<1>3. UNCHANGED <<Connected, TopicsById, Ending, Left>>
  BY <1>1, <1>2, TopicsStay DEF Connected, Ending, Left
<1>4. \A p \in Clients : InSocket(p)' = InSocket(p)
  <2>1. CASE StopClient
    <3> DEFINE m == [action |-> "SHUTDOWN_CLOSE"]
    <3>1. m \in ToClientPackets /\ ~IsNotification(m)
      BY DEF ToClientPackets, IsNotification
    <3>2. DeliverTo(conn[sv_fds[idx]], m)
      BY <2>1 DEF StopClient
    <3> HIDE DEF m
    <3>3. CASE conn[sv_fds[idx]] \in Clients
      BY <3>1, <3>2, <3>3, SignalsAreHidden
    <3>4. CASE conn[sv_fds[idx]] \notin Clients
      <4>1. toClient \in [Clients -> Seq(ToClientPackets)]
        BY DEF IInv, TypeOK, SocketsTypeOK
      <4>2. \A p \in Clients : toClient'[p] = toClient[p]
        BY <3>2, <3>4, <4>1 DEF DeliverTo
      <4> QED
        BY <4>2 DEF InSocket
    <3> QED
      BY <3>3, <3>4
  <2>2. CASE StopSigpipe \/ StopServer
    BY <2>2 DEF StopSigpipe, StopServer, InSocket
  <2> QED
    BY <2>1, <2>2
<1>5. pending = {} /\ pending' = {}
  BY <1>1 DEF ServiceInv, NothingPending
<1>6. Inbox' = Inbox
  BY <1>4, <1>5, InboxKept DEF Promised
<1> QED
  BY <1>1, <1>2, <1>3, <1>6 DEF Hidden

\* accept(), and the ends of the loop over the subscribers.
LEMMA WaitingIsHidden ==
  ASSUME IInv, ServiceInv, UNCHANGED cliVars, Accept \/ StartRound \/ EndRound
  PROVE  Hidden
<1>1. /\ pc \in {"poll", "clients"} /\ pc' \in {"poll", "clients", "connect"}
      /\ UNCHANGED <<toClient, peer, udp, subs, sv_fds, aliased>>
      /\ pending' = {} \/ UNCHANGED pending
  BY DEF Accept, StartRound, EndRound, ForgetLocals
<1>2. Serving /\ Serving' = Serving
  BY <1>1 DEF Serving, Alive
<1>3. ASSUME NEW k \in DOMAIN sv_fds PROVE conn'[sv_fds[k]] = conn[sv_fds[k]]
  <2>1. CASE Accept
    <3>1. PICK f \in Fds : IsLowestFree(f) /\ conn' = [conn EXCEPT ![f] = Head(backlog)]
      BY <2>1 DEF Accept
    <3>2. sv_fds[k] \in Fds /\ conn[sv_fds[k]] # None
      BY <1>2, PolledFacts, SocketsAssumption
    <3> QED
      BY <3>1, <3>2 DEF IsLowestFree
  <2>2. CASE StartRound \/ EndRound
    BY <2>2 DEF StartRound, EndRound
  <2> QED
    BY <2>1, <2>2
<1>4. UNCHANGED <<Connected, TopicsById, Ending, Left>>
  BY <1>1, <1>2, <1>3, ConnectedKept, TopicsStay DEF Ending, Left
<1>5. pending = {} /\ pending' = {}
  BY <1>1 DEF ServiceInv, NothingPending
<1>6. Inbox' = Inbox
  BY <1>1, <1>5, InboxKept DEF Promised, InSocket
<1> QED
  BY <1>1, <1>2, <1>4, <1>6 DEF Hidden

\* Who is refused never has a session.
LEMMA RefusingIsHidden ==
  ASSUME IInv, ServiceInv, UNCHANGED cliVars, RefuseIntruder
  PROVE  Hidden
<1>1. /\ pc = "connect" /\ pc' = "poll"
      /\ UNCHANGED <<conn, peer, udp, subs, sv_fds, aliased>>
      /\ pending' = {}
  BY DEF RefuseIntruder, ConnectArrives, ForgetLocals
<1>2. Serving' = Serving
  BY <1>1 DEF Serving, Alive
<1>3. UNCHANGED <<Connected, TopicsById, Ending, Left>>
  BY <1>1, <1>2, ConnectedKept, TopicsStay DEF Ending, Left
<1>4. \A p \in Clients : InSocket(p)' = InSocket(p)
  <2> DEFINE m == [action |-> "SHUTDOWN_INTRUDER"]
  <2>1. m \in ToClientPackets /\ ~IsNotification(m)
    BY DEF ToClientPackets, IsNotification
  <2>2. DeliverTo(conn[cur], m) /\ ConnectArrives
    BY DEF RefuseIntruder
  <2>3. conn[cur] \in Clients
    BY <2>2, ConnectFacts
  <2> HIDE DEF m
  <2> QED
    BY <2>1, <2>2, <2>3, SignalsAreHidden
<1>5. pending = {}
  BY <1>1 DEF ServiceInv, NothingPending
<1>6. Inbox' = Inbox
  BY <1>1, <1>4, <1>5, InboxKept DEF Promised
<1> QED
  BY <1>1, <1>2, <1>3, <1>6 DEF Hidden

-----------------------------------------------------------------------------
(***************************************************************************)
(* Topics and sessions.                                                    *)
(***************************************************************************)

NoTopics == [t \in Patterns |-> 0]

\* An identifier has the topics of its record, and none without one.
LEMMA TopicsFacts ==
  ASSUME RecordsDistinct
  PROVE  /\ \A i \in DOMAIN subs : TopicsOf(subs[i].id) = subs[i].topics
         /\ \A id : (\A i \in DOMAIN subs : subs[i].id # id) => TopicsOf(id) = NoTopics
<1>1. ASSUME NEW i \in DOMAIN subs PROVE TopicsOf(subs[i].id) = subs[i].topics
  <2>1. {j \in DOMAIN subs : subs[j].id = subs[i].id} = {i}
    BY DEF RecordsDistinct
  <2>2. (CHOOSE j \in {i} : TRUE) = i
    OBVIOUS
  <2> QED
    BY <2>1, <2>2 DEF TopicsOf
<1>2. ASSUME NEW id, \A i \in DOMAIN subs : subs[i].id # id PROVE TopicsOf(id) = NoTopics
  <2>1. {j \in DOMAIN subs : subs[j].id = id} = {}
    BY <1>2
  <2> QED
    BY <2>1 DEF TopicsOf, NoTopics
<1> QED
  BY <1>1, <1>2

\* The same of the next state.
LEMMA TopicsFactsNext ==
  ASSUME RecordsDistinct', NEW id
  PROVE  /\ \A i \in DOMAIN subs' : subs'[i].id = id => TopicsOf(id)' = subs'[i].topics
         /\ (\A i \in DOMAIN subs' : subs'[i].id # id) => TopicsOf(id)' = NoTopics
<1>1. ASSUME NEW i \in DOMAIN subs', subs'[i].id = id PROVE TopicsOf(id)' = subs'[i].topics
  <2>1. {j \in DOMAIN subs' : subs'[j].id = id} = {i}
    BY <1>1 DEF RecordsDistinct
  <2>2. (CHOOSE j \in {i} : TRUE) = i
    OBVIOUS
  <2> QED
    BY <2>1, <2>2 DEF TopicsOf
<1>2. ASSUME \A i \in DOMAIN subs' : subs'[i].id # id PROVE TopicsOf(id)' = NoTopics
  <2>1. {j \in DOMAIN subs' : subs'[j].id = id} = {}
    BY <1>2
  <2> QED
    BY <2>1 DEF TopicsOf, NoTopics
<1> QED
  BY <1>1, <1>2

\* Records that keep identifiers and topics, and a new one without topics.
LEMMA TopicsCarriedOver ==
  ASSUME RecordsDistinct, RecordsDistinct',
         \A i \in DOMAIN subs :
           i \in DOMAIN subs' /\ subs'[i].id = subs[i].id /\ subs'[i].topics = subs[i].topics,
         \A i \in DOMAIN subs' \ DOMAIN subs : subs'[i].topics = NoTopics
  PROVE  TopicsById' = TopicsById
<1> SUFFICES ASSUME NEW id \in Ids PROVE TopicsOf(id)' = TopicsOf(id)
  BY DEF TopicsById
<1>1. CASE \E i \in DOMAIN subs : subs[i].id = id
  <2>1. PICK i \in DOMAIN subs : subs[i].id = id
    BY <1>1
  <2>2. TopicsOf(id) = subs[i].topics
    BY <2>1, TopicsFacts
  <2>3. TopicsOf(id)' = subs'[i].topics
    BY <2>1, TopicsFactsNext
  <2> QED
    BY <2>2, <2>3
<1>2. CASE \A i \in DOMAIN subs : subs[i].id # id
  <2>1. TopicsOf(id) = NoTopics
    BY <1>2, TopicsFacts
  <2>2. TopicsOf(id)' = NoTopics
    <3>1. CASE \E i \in DOMAIN subs' : subs'[i].id = id
      <4>1. PICK i \in DOMAIN subs' : subs'[i].id = id
        BY <3>1
      <4>2. subs'[i].topics = NoTopics
        BY <1>2, <4>1
      <4> QED
        BY <4>1, <4>2, TopicsFactsNext
    <3>2. CASE ~ \E i \in DOMAIN subs' : subs'[i].id = id
      BY <3>2, TopicsFactsNext
    <3> QED
      BY <3>1, <3>2
  <2> QED
    BY <2>1, <2>2
<1> QED
  BY <1>1, <1>2

\* A CONNECT packet that is accepted begins a session.
LEMMA AdmittingIsBegin ==
  ASSUME IInv, IInv', ServiceInv, UNCHANGED cliVars, Reconnect \/ AddNewSub
  PROVE  \E p \in Clients : Service!Begin(p)
<1>1. ConnectArrives /\ \E i : PollNewConnection(i)
  BY DEF Reconnect, AddNewSub
<1>2. /\ cur \in Fds /\ conn[cur] \in Clients /\ ConnectId = IdOf[conn[cur]]
  BY <1>1, ConnectFacts
<1>3. /\ pc = "connect" /\ pc' = "poll" /\ UNCHANGED <<conn, peer, udp, toClient>>
      /\ pending' = {} /\ sv_fds' = Append(sv_fds, cur) /\ aliased' \in {aliased, TRUE}
  BY <1>1 DEF PollNewConnection, ConnectArrives, ForgetLocals, IInv, TypeOK, ServerTypeOK
<1>4. Serving /\ Serving'
  BY <1>3 DEF Serving, Alive
<1>5. RecordsDistinct /\ RecordsDistinct' /\ subs \in Seq(Subscribers)
  BY DEF IInv, ServerInv, TypeOK, ServerTypeOK
<1>6. ASSUME NEW q \in Connected PROVE IdOf[q] # IdOf[conn[cur]]
  <2>1. PICK k \in DOMAIN sv_fds : q = conn[sv_fds[k]]
    BY <1>4 DEF Connected, Session
  <2>2. PICK j \in DOMAIN subs : subs[j].id = IdOf[q] /\ subs[j].online
    BY <1>4, <2>1 DEF IInv, ServerInv, PolledHasRecord
  <2>3. CASE Reconnect
    <3>1. PICK i \in DOMAIN subs : subs[i].id = ConnectId /\ ~subs[i].online
      BY <2>3 DEF Reconnect
    <3> QED
      BY <1>2, <1>5, <2>2, <3>1 DEF RecordsDistinct
  <2>4. CASE AddNewSub
    BY <1>2, <2>2, <2>4 DEF AddNewSub
  <2> QED
    BY <2>3, <2>4
<1>7. Connected' = Connected \cup {conn[cur]}
  <2>1. sv_fds \in Seq(Fds)
    BY DEF IInv, TypeOK, ServerTypeOK
  <2>2. /\ DOMAIN sv_fds' = 1 .. Len(sv_fds) + 1 /\ DOMAIN sv_fds = 1 .. Len(sv_fds)
        /\ Len(sv_fds) \in Nat
        /\ \A k \in DOMAIN sv_fds : sv_fds'[k] = sv_fds[k]
        /\ sv_fds'[Len(sv_fds) + 1] = cur
    BY <1>2, <1>3, <2>1, AppendFacts, LenProperties
  <2>3. \A k \in DOMAIN sv_fds : k \in DOMAIN sv_fds'
    BY <2>2
  <2>4. Len(sv_fds) + 1 \in DOMAIN sv_fds' /\
        \A k \in DOMAIN sv_fds' : k \in DOMAIN sv_fds \/ k = Len(sv_fds) + 1
    BY <2>2
  <2>5. Connected = {conn[sv_fds[k]] : k \in DOMAIN sv_fds}
    BY <1>4 DEF Connected, Session
  <2>6. Connected' = {conn[sv_fds'[k]] : k \in DOMAIN sv_fds'}
    BY <1>3, <1>4 DEF Connected, Session
  <2>7. \A q : q \in Connected' <=> q \in Connected \/ q = conn[cur]
    BY <2>2, <2>3, <2>4, <2>5, <2>6
  <2> QED
    BY <2>7
<1>8. TopicsById' = TopicsById
  <2>1. CASE Reconnect
    <3>1. PICK i \in DOMAIN subs : subs' = [subs EXCEPT ![i].fd = cur, ![i].online = TRUE]
      BY <2>1 DEF Reconnect
    <3>2. subs[i] \in Subscribers
      BY <1>5, LenProperties, ElementOfSeq
    <3> DEFINE r == [subs[i] EXCEPT !.fd = cur, !.online = TRUE]
    <3>3. subs' = [subs EXCEPT ![i] = r] /\ r.id = subs[i].id /\ r.topics = subs[i].topics
      BY <3>1, <3>2 DEF Subscribers
    <3> HIDE DEF r
    <3>4. /\ DOMAIN subs' = DOMAIN subs
          /\ \A j \in DOMAIN subs : subs'[j] = IF j = i THEN r ELSE subs[j]
      BY <1>5, <3>3
    <3> QED
      BY <1>5, <3>3, <3>4, TopicsCarriedOver
  <2>2. CASE AddNewSub
    <3> DEFINE r == [id |-> ConnectId, fd |-> cur, topics |-> [t \in Patterns |-> 0], online |-> TRUE]
    <3>1. subs' = Append(subs, r) /\ r.topics = NoTopics
      BY <2>2 DEF AddNewSub, NoTopics
    <3>2. r \in Subscribers
      BY <1>2, SocketsAssumption DEF Subscribers
    <3> HIDE DEF r
    <3>3. /\ DOMAIN subs' = 1 .. Len(subs) + 1 /\ DOMAIN subs = 1 .. Len(subs)
          /\ Len(subs) \in Nat
          /\ \A k \in DOMAIN subs : subs'[k] = subs[k]
          /\ subs'[Len(subs) + 1] = r
      BY <1>5, <3>1, <3>2, AppendFacts, LenProperties
    <3>4. \A k \in DOMAIN subs : k \in DOMAIN subs'
      BY <3>3
    <3>5. \A k \in DOMAIN subs' \ DOMAIN subs : k = Len(subs) + 1
      BY <3>3
    <3> QED
      BY <1>5, <3>1, <3>3, <3>4, <3>5, TopicsCarriedOver
  <2> QED
    BY <2>1, <2>2
<1>9. Inbox' = Inbox /\ Ending' = Ending /\ Left' = Left
  <2>1. pending = {}
    BY <1>3 DEF ServiceInv, NothingPending
  <2> QED
    BY <1>3, <2>1, InboxKept DEF Promised, InSocket, Ending, Left
<1>10. UNCHANGED <<Serving, udp>>
  BY <1>3, <1>4 DEF Serving, Alive
<1>11. Service!Begin(conn[cur])
  BY <1>3, <1>4, <1>6, <1>7, <1>8, <1>9, <1>10 DEF Service!Begin
<1> QED
  BY <1>2, <1>11

\* An identifier whose record stays keeps its topics.
LEMMA TopicsOfOthers ==
  ASSUME RecordsDistinct, RecordsDistinct', NEW id, DOMAIN subs' = DOMAIN subs,
         \A i \in DOMAIN subs : subs'[i].id = subs[i].id,
         \A i \in DOMAIN subs : subs[i].id = id => subs'[i].topics = subs[i].topics
  PROVE  TopicsOf(id)' = TopicsOf(id)
<1>1. CASE \E i \in DOMAIN subs : subs[i].id = id
  <2>1. PICK i \in DOMAIN subs : subs[i].id = id
    BY <1>1
  <2> QED
    BY <2>1, TopicsFacts, TopicsFactsNext
<1>2. CASE \A i \in DOMAIN subs : subs[i].id # id
  BY <1>2, TopicsFacts, TopicsFactsNext
<1> QED
  BY <1>1, <1>2

\* A command of a polled run changes one of its identifier's topics by one.
LEMMA CommandingIsCommand ==
  ASSUME IInv, IInv', RecordInv, ServiceInv, UNCHANGED cliVars, ParseClientMessage, ~aliased,
         NEW k \in DOMAIN sv_fds, PacketReadyAt(k), NEW i \in DOMAIN subs,
         IsSubscriberByFd(i, sv_fds[k]),
         HandleSubscribe(i, PacketAt(k)) \/ HandleUnsubscribe(i, PacketAt(k))
  PROVE  \E id \in Ids, t \in Patterns : Service!Command(id, t)
<1> DEFINE p == conn[sv_fds[k]]
           t == PacketAt(k).topic
           id == subs[i].id
<1>1. /\ pc = "clients" /\ toServer[p] # <<>> /\ UNCHANGED <<pc, pending, peer, udp, toClient, aliased>>
      /\ UNCHANGED <<conn, sv_fds>>
  BY DEF PacketReadyAt, ParseClientMessage, HandleSubscribe, HandleUnsubscribe
<1>2. Serving /\ Serving' = Serving
  BY <1>1 DEF Serving, Alive
<1>3. sv_fds[k] \in Fds /\ p \in Clients
  BY <1>2, PolledFacts
<1>4. PacketAt(k) \in ToServerPackets
  <2>1. toServer[p] \in Seq(ToServerPackets)
    BY <1>3 DEF IInv, TypeOK, SocketsTypeOK
  <2> QED
    BY <1>1, <2>1, TailFacts DEF PacketAt
<1>5. t \in Patterns
  BY <1>4 DEF ToServerPackets, HandleSubscribe, HandleUnsubscribe
<1>6. id = IdOf[p] /\ id \in Ids
  <2>1. PICK j \in DOMAIN subs : subs[j].fd = sv_fds[k] /\ subs[j].id = IdOf[p]
    BY <1>2 DEF IInv, ServerInv, PolledHasRecord
  <2>2. j = i
    BY <2>1 DEF RecordInv, RecordFdsDistinct, IsSubscriberByFd
  <2> QED
    BY <2>1, <2>2, RecordTypes
<1>7. \E q \in Connected : IdOf[q] = id
  BY <1>2, <1>6 DEF Connected, Session
<1>8. PICK x : /\ x \in {subs[i].topics[t] + 1, subs[i].topics[t] - 1} \cap Nat
               /\ subs' = [subs EXCEPT ![i].topics[t] = x]
  <2>1. subs[i].topics[t] \in Nat
    BY <1>5, RecordTypes
  <2> DEFINE n == subs[i].topics[t]
  <2>2. CASE HandleSubscribe(i, PacketAt(k))
    <3>1. subs' = [subs EXCEPT ![i].topics[t] = n + 1]
      BY <2>2 DEF HandleSubscribe
    <3>2. n + 1 \in Nat
      BY <2>1
    <3> QED
      BY <3>1, <3>2
  <2>3. CASE HandleUnsubscribe(i, PacketAt(k))
    <3>1. subs' = [subs EXCEPT ![i].topics[t] = n - 1] /\ n > 0
      BY <2>3 DEF HandleUnsubscribe
    <3>2. n - 1 \in Nat
      BY <2>1, <3>1
    <3> QED
      BY <3>1, <3>2
  <2> QED
    BY <2>2, <2>3
<1> DEFINE r == [subs[i] EXCEPT !.topics[t] = x]
<1>9. subs \in Seq(Subscribers) /\ subs[i] \in Subscribers
  BY LenProperties, ElementOfSeq DEF IInv, TypeOK, ServerTypeOK
<1>10. /\ subs' = [subs EXCEPT ![i] = r] /\ r.id = id
       /\ r.topics = [subs[i].topics EXCEPT ![t] = x]
  BY <1>8, <1>9 DEF Subscribers
<1> HIDE DEF r, t
<1>11. /\ DOMAIN subs' = DOMAIN subs
       /\ \A j \in DOMAIN subs : subs'[j] = IF j = i THEN r ELSE subs[j]
  BY <1>9, <1>10
<1>12. RecordsDistinct /\ RecordsDistinct'
  BY DEF IInv, ServerInv
<1>13. \A j \in DOMAIN subs : subs'[j].id = subs[j].id
  BY <1>10, <1>11
<1>14. ASSUME NEW other \in Ids, other # id PROVE TopicsOf(other)' = TopicsOf(other)
  <2>1. \A j \in DOMAIN subs : subs[j].id = other => subs'[j].topics = subs[j].topics
    BY <1>11, <1>14
  <2> QED
    BY <1>11, <1>12, <1>13, <2>1, TopicsOfOthers
<1>15. TopicsOf(id) = subs[i].topics
  BY <1>12, TopicsFacts
<1>16. PICK new : new = subs[i].id /\ new \in Ids
  BY <1>6
<1>17. TopicsOf(new)' = [subs[i].topics EXCEPT ![t] = x]
  <2>1. i \in DOMAIN subs' /\ subs'[i].id = new /\ subs'[i].topics = r.topics
    BY <1>10, <1>11, <1>16
  <2> QED
    BY <1>10, <1>12, <2>1, TopicsFactsNext
<1>18. /\ TopicsById'[new] = [subs[i].topics EXCEPT ![t] = x]
       /\ TopicsById[new] = subs[i].topics
       /\ \A other \in Ids : other # new => TopicsById'[other] = TopicsById[other]
  BY <1>14, <1>15, <1>16, <1>17 DEF TopicsById
<1>19. subs[i].topics \in [Patterns -> Nat]
  BY RecordTypes
<1>20. TopicsById'[new][t] = x /\ TopicsById[new][t] = subs[i].topics[t]
  BY <1>5, <1>18, <1>19
<1>21. TopicsById' = [TopicsById EXCEPT ![new][t] = TopicsById'[new][t]]
  BY <1>16, <1>18, <1>20 DEF TopicsById
<1>22. UNCHANGED <<Serving, Connected, udp, Inbox, Ending, Left, aliased>>
  <2>1. Connected' = Connected
    BY <1>1, <1>2, ConnectedKept
  <2>2. pending = {}
    BY <1>1 DEF ServiceInv, NothingPending
  <2>3. Inbox' = Inbox
    BY <1>1, <2>2, InboxKept DEF Promised, InSocket
  <2> QED
    BY <1>1, <1>2, <2>1, <2>3 DEF Ending, Left
<1>23. Service!Command(new, t)
  BY <1>2, <1>7, <1>8, <1>16, <1>20, <1>21, <1>22 DEF Service!Command
<1> QED
  BY <1>5, <1>16, <1>23

\* The goodbye of a run ends its session, before or after it has closed its end.
LEMMA GoodbyeIsEnd ==
  ASSUME IInv, IInv', StopInv, ServiceInv, UNCHANGED cliVars, ParseClientMessage,
         NEW k \in DOMAIN sv_fds, PacketReadyAt(k), NEW i \in DOMAIN subs,
         IsSubscriberByFd(i, sv_fds[k]), HandleShutdownSub(i, PacketAt(k), k)
  PROVE  \E p \in Clients : Service!End(p)
<1> DEFINE p == conn[sv_fds[k]]
<1>1. /\ pc = "clients" /\ toServer[p] # <<>> /\ UNCHANGED <<pc, pending, peer, udp, toClient, aliased>>
      /\ PacketAt(k).action = "SHUTDOWN_CLOSE" /\ subs[i].fd = sv_fds[k]
      /\ conn' = [conn EXCEPT ![sv_fds[k]] = None] /\ sv_fds' = RemoveAt(sv_fds, k)
      /\ subs' = [subs EXCEPT ![i].online = FALSE]
  BY DEF PacketReadyAt, ParseClientMessage, HandleShutdownSub, IsSubscriberByFd
<1>2. Serving /\ Serving' = Serving
  BY <1>1 DEF Serving, Alive
<1>3. sv_fds[k] \in Fds /\ p \in Clients
  BY <1>2, PolledFacts
<1>4. p \in Ending
  <2>1. toServer[p] \in Seq(ToServerPackets)
    BY <1>3 DEF IInv, TypeOK, SocketsTypeOK
  <2>2. 1 \in DOMAIN toServer[p] /\ toServer[p][1].action = "SHUTDOWN_CLOSE"
    BY <1>1, <2>1, TailFacts DEF PacketAt
  <2>3. cl[p] \in {"leaving", "gone"}
    BY <1>3, <2>2 DEF StopInv, GoodbyeMeansGoing, Going
  <2>4. ServerEndOpen(p)
    BY <1>3 DEF ServerEndOpen
  <2>5. peer[p] \in {"none", "open", "closed"}
    BY <1>3 DEF IInv, TypeOK, SocketsTypeOK
  <2> QED
    BY <1>3, <2>3, <2>4, <2>5 DEF ServiceInv, EndsAgree, Ending, Left
<1>5. sv_fds \in Seq(Fds) /\ conn \in [Fds -> Clients \cup {None}]
  BY DEF IInv, TypeOK, ServerTypeOK, SocketsTypeOK
<1>6. ASSUME NEW j \in DOMAIN sv_fds, j # k
      PROVE  conn'[sv_fds[j]] = conn[sv_fds[j]] /\ conn[sv_fds[j]] # p
  <2>1. sv_fds[j] # sv_fds[k] /\ conn[sv_fds[j]] # None
    BY <1>2, <1>6 DEF IInv, ServerInv, PolledHasRecord
  <2>2. sv_fds[j] \in Fds
    BY <1>2, PolledFacts
  <2>3. conn[sv_fds[j]] # p
    BY <1>3, <2>1, <2>2 DEF IInv, ConnectionsDistinct
  <2> QED
    BY <1>1, <1>5, <2>1, <2>2, <2>3
<1>7. /\ \A j \in DOMAIN sv_fds : j # k => \E n \in DOMAIN sv_fds' : sv_fds'[n] = sv_fds[j]
      /\ \A n \in DOMAIN sv_fds' : \E j \in DOMAIN sv_fds : j # k /\ sv_fds'[n] = sv_fds[j]
  BY <1>1, <1>5, RemovedEntries
<1>8. Connected = {conn[sv_fds[j]] : j \in DOMAIN sv_fds}
  BY <1>2 DEF Connected, Session
<1>9. Connected' = {conn'[sv_fds'[n]] : n \in DOMAIN sv_fds'}
  BY <1>2 DEF Connected, Session
<1>10. Connected' = Connected \ {p} /\ p \in Connected
  <2>1. ASSUME NEW q \in Connected' PROVE q \in Connected /\ q # p
    <3>1. PICK n \in DOMAIN sv_fds' : q = conn'[sv_fds'[n]]
      BY <1>9
    <3>2. PICK j \in DOMAIN sv_fds : j # k /\ sv_fds'[n] = sv_fds[j]
      BY <1>7
    <3> QED
      BY <1>6, <1>8, <3>1, <3>2
  <2>2. ASSUME NEW q \in Connected, q # p PROVE q \in Connected'
    <3>1. PICK j \in DOMAIN sv_fds : q = conn[sv_fds[j]]
      BY <1>8
    <3>2. j # k
      BY <2>2, <3>1
    <3>3. PICK n \in DOMAIN sv_fds' : sv_fds'[n] = sv_fds[j]
      BY <1>7, <3>2
    <3> QED
      BY <1>6, <1>9, <3>1, <3>2, <3>3
  <2>3. p \in Connected
    BY <1>8
  <2> HIDE DEF p
  <2> QED
    BY <2>1, <2>2, <2>3
<1>11. TopicsById' = TopicsById
  <2>1. subs \in Seq(Subscribers) /\ subs[i] \in Subscribers
    BY LenProperties, ElementOfSeq DEF IInv, TypeOK, ServerTypeOK
  <2> DEFINE r == [subs[i] EXCEPT !.online = FALSE]
  <2>2. subs' = [subs EXCEPT ![i] = r] /\ r.id = subs[i].id /\ r.topics = subs[i].topics
    BY <1>1, <2>1 DEF Subscribers
  <2> HIDE DEF r
  <2>3. /\ DOMAIN subs' = DOMAIN subs
        /\ \A j \in DOMAIN subs : subs'[j] = IF j = i THEN r ELSE subs[j]
    BY <2>1, <2>2
  <2>4. RecordsDistinct /\ RecordsDistinct'
    BY DEF IInv, ServerInv
  <2> QED
    BY <2>2, <2>3, <2>4, TopicsCarriedOver
<1>12. UNCHANGED <<Serving, udp, Inbox, Ending, Left, aliased>>
  <2>1. pending = {}
    BY <1>1 DEF ServiceInv, NothingPending
  <2>2. Inbox' = Inbox
    BY <1>1, <2>1, InboxKept DEF Promised, InSocket
  <2> QED
    BY <1>1, <1>2, <2>2 DEF Ending, Left
<1>13. Service!End(p)
  BY <1>2, <1>4, <1>10, <1>11, <1>12 DEF Service!End
<1> QED
  BY <1>3, <1>13

\* Every packet of the loop over the subscribers.
LEMMA MessagesMapped ==
  ASSUME IInv, IInv', RecordInv, StopInv, ServiceInv, UNCHANGED cliVars, ParseClientMessage,
         ~aliased
  PROVE  \/ \E id \in Ids, t \in Patterns : Service!Command(id, t)
         \/ \E p \in Clients : Service!End(p)
<1>1. PICK k \in DOMAIN sv_fds : PacketReadyAt(k) /\ \E i \in DOMAIN subs :
        /\ IsSubscriberByFd(i, sv_fds[k])
        /\ \/ HandleSubscribe(i, PacketAt(k))
           \/ HandleUnsubscribe(i, PacketAt(k))
           \/ HandleShutdownSub(i, PacketAt(k), k)
  BY DEF ParseClientMessage
<1> QED
  BY <1>1, CommandingIsCommand, GoodbyeIsEnd

-----------------------------------------------------------------------------
(***************************************************************************)
(* Datagrams.                                                              *)
(***************************************************************************)

\* Who want a datagram are those behind the records that get_subs_by_topic
\* returns.
LEMMA WantedAreFound ==
  ASSUME IInv, RecordInv, ServiceInv, Serving, ~aliased, NEW d, NEW p \in Clients
  PROVE  Service!Wanted(p, d) <=>
           peer[p] = "open" /\ \E i \in SubsByTopic(d.topic) : conn[subs[i].fd] = p
<1>1. IdOf[p] \in Ids /\ peer[p] \in {"none", "open", "closed"}
  BY SocketsAssumption DEF IInv, TypeOK, SocketsTypeOK
<1>2. RecordsDistinct
  BY DEF IInv, ServerInv
<1>3. \A i \in DOMAIN subs : subs[i].id = IdOf[p] => TopicsById[IdOf[p]] = subs[i].topics
  BY <1>1, <1>2, TopicsFacts DEF TopicsById
<1>4. Connected = {conn[sv_fds[k]] : k \in DOMAIN sv_fds}
  BY DEF Connected, Session
<1>5. ASSUME Service!Wanted(p, d)
      PROVE  peer[p] = "open" /\ \E i \in SubsByTopic(d.topic) : conn[subs[i].fd] = p
  <2>1. /\ p \in Connected /\ peer[p] # "closed"
        /\ \E t \in Patterns : TopicsById[IdOf[p]][t] > 0 /\ <<d.topic, t>> \in Matches
    BY <1>5 DEF Service!Wanted, Left
  <2>2. PICK k \in DOMAIN sv_fds : conn[sv_fds[k]] = p
    BY <1>4, <2>1
  <2>3. PICK i \in DOMAIN subs : subs[i].id = IdOf[p]
    BY <2>2 DEF IInv, ServerInv, PolledHasRecord
  <2>4. Polled(p)
    BY <2>2 DEF Polled, Session
  <2>5. IsInterested(subs[i], d.topic)
    BY <1>3, <2>1, <2>3 DEF IsInterested
  <2>6. i \in SubsByTopic(d.topic) /\ conn[subs[i].fd] = p
    BY <2>3, <2>4, <2>5, LookupFindsPolled, RecordOfPolled
  <2>7. ServerEndOpen(p)
    BY <2>2, PolledFacts DEF ServerEndOpen
  <2> QED
    BY <1>1, <2>1, <2>6, <2>7 DEF ServiceInv, EndsAgree
<1>6. ASSUME peer[p] = "open", NEW i \in SubsByTopic(d.topic), conn[subs[i].fd] = p
      PROVE  Service!Wanted(p, d)
  <2>1. i \in DOMAIN subs /\ subs[i].online /\ IsInterested(subs[i], d.topic)
    BY DEF SubsByTopic
  <2>2. PICK k : PolledAs(i, k)
    BY <2>1 DEF RecordInv, OnlineIsPolled
  <2>3. k \in DOMAIN sv_fds /\ conn[sv_fds[k]] = p /\ IdOf[p] = subs[i].id
    BY <1>6, <2>2 DEF PolledAs
  <2>4. p \in Connected \ Left
    BY <1>4, <1>6, <2>3 DEF Ending, Left
  <2>5. \E t \in Patterns : TopicsById[IdOf[p]][t] > 0 /\ <<d.topic, t>> \in Matches
    BY <1>3, <2>1, <2>3 DEF IsInterested
  <2> QED
    BY <2>4, <2>5 DEF Service!Wanted
<1> QED
  BY <1>5, <1>6

\* One datagram is taken, and becomes a promise to all who want it.
LEMMA ReceivingIsForward ==
  ASSUME IInv, RecordInv, ServiceInv, UNCHANGED cliVars, ReceiveDatagram, ~aliased
  PROVE  Service!Forward
<1> DEFINE d == Head(udp)
<1>1. /\ pc = "poll" /\ pc' \in {"poll", "notify"} /\ udp # <<>> /\ udp' = Tail(udp)
      /\ UNCHANGED <<conn, toClient, peer, subs, sv_fds, aliased>>
      /\ pending' = SubsByTopic(d.topic) /\ (pending' # {} => dgram' = d)
  BY DEF ReceiveDatagram
<1>2. Serving /\ Serving' /\ Serving' = Serving /\ pending = {}
  BY <1>1 DEF Serving, Alive, ServiceInv, NothingPending
<1>3. d \in Datagrams
  BY <1>1, TailFacts DEF IInv, TypeOK, SocketsTypeOK
<1> HIDE DEF d
<1>4. ASSUME NEW p \in Clients
      PROVE  Inbox'[p] = IF Service!Wanted(p, d) THEN Append(Inbox[p], d) ELSE Inbox[p]
  <2> DEFINE s == shown[p] \o InSocket(p)
  <2>1. s \in Seq(Datagrams)
    BY InboxTypes, ConcatProperties
  <2>2. Inbox[p] = s
    BY <1>2, NothingPromised
  <2>3. Promised(p)' = IF Service!Wanted(p, d) THEN <<d>> ELSE <<>>
    <3>1. Service!Wanted(p, d) <=>
            peer[p] = "open" /\ \E i \in SubsByTopic(d.topic) : conn[subs[i].fd] = p
      BY <1>2, WantedAreFound
    <3>2. Promised(p)' = IF peer[p] = "open" /\ \E i \in pending' : conn[subs[i].fd] = p
                         THEN <<dgram'>> ELSE <<>>
      BY <1>1 DEF Promised
    <3> QED
      BY <1>1, <3>1, <3>2
  <2>4. Inbox'[p] = s \o Promised(p)'
    <3>1. InSocket(p)' = InSocket(p) /\ shown'[p] = shown[p]
      BY <1>1 DEF InSocket
    <3> QED
      BY <3>1 DEF Inbox
  <2> HIDE DEF s
  <2>5. CASE Service!Wanted(p, d)
    <3>1. s \o <<d>> = Append(s, d)
      BY <1>3, <2>1, AppendIsConcat
    <3> QED
      BY <2>2, <2>3, <2>4, <2>5, <3>1
  <2>6. CASE ~Service!Wanted(p, d)
    <3>1. s \o <<>> = s
      BY <2>1, ConcatEmptySeq
    <3> QED
      BY <2>2, <2>3, <2>4, <2>6, <3>1
  <2> QED
    BY <2>5, <2>6
<1>5. Inbox' = [p \in Clients |->
                  IF Service!Wanted(p, d) THEN Append(Inbox[p], d) ELSE Inbox[p]]
  BY <1>4 DEF Inbox
<1>6. UNCHANGED <<Serving, Connected, TopicsById, Ending, Left, aliased>>
  BY <1>1, <1>2, ConnectedKept, TopicsStay DEF Ending, Left
<1> QED
  BY <1>1, <1>2, <1>5, <1>6 DEF d, Service!Forward

\* A datagram sent is a promise kept: it moves to the end of the socket.
LEMMA SendingIsHidden ==
  ASSUME IInv, RecordInv, LeaveInv, ServiceInv, UNCHANGED cliVars, SendNotification, ~aliased
  PROVE  Hidden
<1> DEFINE m == [action |-> "NOTIFICATION_ACTION", dgram |-> dgram]
<1>1. PICK i \in pending : /\ conn[subs[i].fd] # None
                           /\ DeliverTo(conn[subs[i].fd], m) /\ pending' = pending \ {i}
  BY DEF SendNotification
<1>2. /\ pc = "notify" /\ pc' \in {"poll", "notify"} /\ (pending' # {} => UNCHANGED dgram)
      /\ UNCHANGED <<conn, peer, udp, subs, sv_fds, aliased>>
  BY DEF SendNotification
<1>3. Serving /\ Serving' = Serving
  BY <1>2 DEF Serving, Alive
<1>4. dgram \in Datagrams /\ m \in ToClientPackets
  BY <1>2, PacketTypes DEF IInv, ServerInv, ForwardsADatagram
<1>5. /\ pending \subseteq DOMAIN subs /\ conn \in [Fds -> Clients \cup {None}]
      /\ toClient \in [Clients -> Seq(ToClientPackets)]
  BY DEF IInv, TypeOK, SocketsTypeOK, ServerTypeOK
<1>6. PICK q : q = conn[subs[i].fd]
  OBVIOUS
<1>7. q \in Clients /\ \A j \in pending : subs[j].fd \in Fds
  BY <1>1, <1>5, <1>6, RecordTypes
<1>8. q \in admitted
  <2>1. subs[i].online
    BY <1>2 DEF RecordInv, PendingAreOnline
  <2>2. PICK k : PolledAs(i, k)
    BY <1>3, <1>5, <2>1 DEF RecordInv, OnlineIsPolled
  <2>3. Polled(q)
    BY <1>6, <2>2 DEF PolledAs, Polled, Session
  <2> QED
    BY <1>3, <1>7, <2>3 DEF LeaveInv, PolledAreAdmitted
<1>9. \A n \in DOMAIN toClient[q] : IsNotification(toClient[q][n])
  BY <1>3, <1>7, <1>8 DEF LeaveInv, SignalsMeant, IsNotification
<1>10. Leading(Append(toClient[q], m)) = Append(InSocket(q), dgram)
  BY <1>4, <1>5, <1>7, <1>9, LeadingGrows DEF InSocket
<1> HIDE DEF m
<1>11. /\ peer[q] = "open" => toClient' = [toClient EXCEPT ![q] = Append(toClient[q], m)]
       /\ peer[q] # "open" => UNCHANGED toClient
  BY <1>1, <1>6 DEF DeliverTo
<1>12. \A j \in pending : conn[subs[j].fd] = q => j = i
  BY <1>1, <1>5, <1>6, <1>7 DEF IInv, ConnectionsDistinct, RecordInv, RecordFdsDistinct
<1>13. ASSUME NEW p \in Clients, p # q \/ peer[q] # "open" PROVE Inbox'[p] = Inbox[p]
  <2>1. toClient'[p] = toClient[p]
    BY <1>5, <1>7, <1>11, <1>13
  <2>2. Promised(p)' = Promised(p)
    BY <1>1, <1>2, <1>6, <1>13 DEF Promised
  <2> QED
    BY <2>1, <2>2 DEF Inbox, InSocket
<1>14. ASSUME peer[q] = "open" PROVE Inbox'[q] = Inbox[q]
  <2> DEFINE s == shown[q]
             t == InSocket(q)
             d == dgram
  <2>1. Promised(q) = <<d>>
    BY <1>6, <1>14 DEF Promised
  <2>2. Promised(q)' = <<>>
    BY <1>1, <1>2, <1>12 DEF Promised
  <2>3. InSocket(q)' = Append(t, d)
    BY <1>5, <1>7, <1>10, <1>11, <1>14 DEF InSocket
  <2>4. Inbox'[q] = s \o Append(t, d) \o <<>>
    BY <1>7, <2>2, <2>3 DEF Inbox
  <2>5. Inbox[q] = s \o t \o <<d>>
    BY <1>7, <2>1 DEF Inbox
  <2>6. s \in Seq(Datagrams) /\ t \in Seq(Datagrams) /\ d \in Datagrams
    BY <1>4, <1>7, InboxTypes
  <2> HIDE DEF s, t, d
  <2>7. Append(t, d) = t \o <<d>> /\ Append(t, d) \in Seq(Datagrams) /\ <<d>> \in Seq(Datagrams)
    BY <2>6, AppendIsConcat, AppendProperties
  <2>8. s \o Append(t, d) \o <<>> = s \o Append(t, d)
    <3>1. s \o Append(t, d) \in Seq(Datagrams)
      BY <2>6, <2>7, ConcatProperties
    <3> QED
      BY <3>1, ConcatEmptySeq
  <2>9. s \o t \o <<d>> = s \o (t \o <<d>>)
    <3> DEFINE u == <<d>>
    <3>1. u \in Seq(Datagrams)
      BY <2>7
    <3> HIDE DEF u
    <3>2. s \o t \o u = s \o (t \o u)
      BY <2>6, <3>1, ConcatAssociative
    <3> QED
      BY <3>2 DEF u
  <2> QED
    BY <2>4, <2>5, <2>7, <2>8, <2>9
<1>15. Inbox' = Inbox
  <2>1. \A p \in Clients : Inbox'[p] = Inbox[p]
    BY <1>13, <1>14
  <2> QED
    BY <2>1 DEF Inbox
<1>16. UNCHANGED <<Connected, TopicsById, Ending, Left>>
  BY <1>2, <1>3, ConnectedKept, TopicsStay DEF Ending, Left
<1> QED
  BY <1>2, <1>3, <1>15, <1>16 DEF Hidden

\* A datagram arrives.
LEMMA PublishIsArrive ==
  ASSUME IInv, NEW t \in Topics, Publish(t)
  PROVE  Service!Arrive
<1> DEFINE d == [n |-> arrived + 1, topic |-> t]
<1>1. /\ udp \in Seq(Datagrams) /\ d \in Datagrams
  BY DEF IInv, TypeOK, SocketsTypeOK, Datagrams
<1>2. udp' = Append(udp, d)
  BY DEF Publish
<1>3. UNCHANGED <<conn, toClient, peer, pc, subs, sv_fds, pending, dgram, aliased, shown, cl>>
  BY DEF Publish
<1> HIDE DEF d
<1>4. Len(udp') = Len(udp) + 1 /\ udp' = udp \o <<d>> /\ <<d>> \in Seq(Datagrams)
  BY <1>1, <1>2, AppendIsConcat, AppendProperties
<1>5. IsPrefix(udp, udp')
  BY <1>1, <1>4, BeginningIsPrefix
<1>6. Serving' = Serving /\ Ending' = Ending /\ Left' = Left
  BY <1>3 DEF Serving, Alive, Ending, Left
<1>7. UNCHANGED <<Connected, TopicsById>>
  BY <1>3, <1>6, ConnectedKept, TopicsStay
<1>8. Inbox' = Inbox
  BY <1>3, InboxKept DEF InSocket, Promised
<1> QED
  BY <1>3, <1>4, <1>5, <1>6, <1>7, <1>8 DEF Service!Arrive, Service!IsPrefix, IsPrefix

\* What is on its way to a run is lost when the server's end is closed: the run
\* is leaving or has left, or was never given anything, or the server has ended.
LEMMA LosingIsLose ==
  ASSUME IInv, StopInv, LeaveInv, ServiceInv, UNCHANGED <<srvVars, cliVars>>,
         NEW p \in Clients, LoseToClient(p), ~aliased
  PROVE  Hidden \/ Service!Lose(p)
<1>1. /\ ~ServerEndOpen(p) /\ toServer[p] # <<>> /\ toClient[p] # <<>>
      /\ toClient' = [toClient EXCEPT ![p] = Front(toClient[p])]
      /\ UNCHANGED <<conn, peer, udp>>
  BY DEF LoseToClient
<1>2. /\ toClient \in [Clients -> Seq(ToClientPackets)] /\ toClient[p] \in Seq(ToClientPackets)
      /\ peer[p] \in {"none", "open", "closed"}
  BY DEF IInv, TypeOK, SocketsTypeOK
<1>3. UNCHANGED <<Serving, Connected, TopicsById, udp, Ending, Left, aliased>>
  BY <1>1, ConnectedKept, TopicsStay DEF Serving, Alive, Ending, Left
<1>4. \A q \in Clients : Promised(q)' = Promised(q)
  BY <1>1 DEF Promised
<1>5. ASSUME NEW q \in Clients, q # p PROVE Inbox'[q] = Inbox[q]
  <2>1. InSocket(q)' = InSocket(q)
    BY <1>1, <1>2, <1>5 DEF InSocket
  <2> QED
    BY <1>4, <2>1 DEF Inbox
<1>6. Promised(p) = <<>>
  <2>1. \A i \in pending : subs[i].fd \in Fds
    BY RecordTypes DEF IInv, TypeOK, ServerTypeOK
  <2> QED
    BY <1>1, <2>1 DEF Promised, ServerEndOpen
<1>7. InSocket(p)' = Leading(Front(toClient[p])) /\ InSocket(p) = Leading(toClient[p])
  BY <1>1, <1>2 DEF InSocket
<1>8. CASE ~Serving \/ p \in Ending
  <2> DEFINE s == shown[p]
             f == Leading(Front(toClient[p]))
  <2>1. Front(toClient[p]) \in Seq(ToClientPackets)
    BY <1>1, <1>2, FrontFacts
  <2>2. s \in Seq(Datagrams) /\ f \in Seq(Datagrams)
    BY <2>1, InboxTypes, LeadingFacts
  <2>3. PICK t \in Seq(Datagrams) : InSocket(p) = f \o t
    BY <1>1, <1>2, <1>7, LeadingOfFront
  <2>4. Inbox'[p] = s \o f \o <<>> /\ Inbox[p] = s \o (f \o t) \o <<>>
    BY <1>4, <1>6, <1>7, <2>3 DEF Inbox
  <2> HIDE DEF s, f
  <2>5. /\ s \o f \in Seq(Datagrams) /\ s \o (f \o t) \in Seq(Datagrams)
        /\ (s \o f) \o t = s \o (f \o t)
    BY <2>2, ConcatProperties, ConcatAssociative
  <2>6. Inbox'[p] = s \o f /\ Inbox[p] = (s \o f) \o t
    BY <2>4, <2>5, ConcatEmptySeq
  <2>7. IsPrefix(Inbox'[p], Inbox[p])
    BY <2>5, <2>6, BeginningIsPrefix
  <2>8. Inbox' = [Inbox EXCEPT ![p] = Inbox'[p]]
    BY <1>5 DEF Inbox
  <2> QED
    BY <1>3, <1>8, <2>7, <2>8 DEF Service!Lose, Service!IsPrefix, IsPrefix
<1>9. CASE Serving /\ p \notin Ending
  <2>1. ~Going(p)
    <3>1. peer[p] # "none"
      BY <1>1 DEF LeaveInv, OpenedToSend
    <3> QED
      BY <1>2, <1>9, <3>1 DEF Going, Ending, Left, ServiceInv, EndsAgree
  <2>2. p \notin admitted
    BY <1>1, <1>9, <2>1, WantedIsOpen DEF StopInv, AdmittedArePolled
  <2>3. \A k \in DOMAIN toClient[p] : ~IsNotification(toClient[p][k])
    BY <2>2 DEF ServiceInv, GivenToAdmitted, OnTheWay, IsNotification
  <2>4. /\ Front(toClient[p]) \in Seq(ToClientPackets)
        /\ \A k \in DOMAIN Front(toClient[p]) : ~IsNotification(Front(toClient[p])[k])
    BY <1>1, <1>2, <2>3, FrontFacts
  <2>5. InSocket(p)' = InSocket(p)
    BY <1>2, <1>7, <2>3, <2>4, NoLeading
  <2>6. Inbox' = Inbox
    <3>1. Inbox'[p] = Inbox[p]
      BY <1>4, <2>5 DEF Inbox
    <3> QED
      BY <1>5, <3>1 DEF Inbox
  <2> QED
    BY <1>3, <2>6 DEF Hidden
<1> QED
  BY <1>8, <1>9

\* The operator's line, packets to the server that are lost, and no step at all.
LEMMA QuietIsHidden ==
  ASSUME \/ OperatorExit \/ UNCHANGED vars
         \/ \E p \in Clients : LoseToServer(p) /\ UNCHANGED <<srvVars, cliVars>>
  PROVE  Hidden
<1>1. UNCHANGED <<conn, toClient, peer, udp, pc, subs, sv_fds, pending, dgram, aliased, shown, cl>>
  BY DEF OperatorExit, LoseToServer, vars
<1>2. Serving' = Serving /\ Ending' = Ending /\ Left' = Left
  BY <1>1 DEF Serving, Alive, Ending, Left
<1>3. UNCHANGED <<Connected, TopicsById>>
  BY <1>1, <1>2, ConnectedKept, TopicsStay
<1>4. Inbox' = Inbox
  BY <1>1, InboxKept DEF InSocket, Promised
<1> QED
  BY <1>1, <1>2, <1>3, <1>4 DEF Hidden

-----------------------------------------------------------------------------
(***************************************************************************)
(* The refinement.                                                         *)
(***************************************************************************)

\* Steps of the server, while no two records share a descriptor.
LEMMA ServerMapped ==
  ASSUME IInv, IInv', RecordInv, StopInv, LeaveInv, ServiceInv, UNCHANGED cliVars, ServerStep,
         ~aliased
  PROVE  Hidden \/ Service!ServiceNext
<1>1. CASE \/ ReadStdin \/ AcceptFails \/ ConnectEof \/ NotificationSigpipe
           \/ NotificationBadFd \/ ClientMessageDies \/ ClientEof
  BY <1>1, EndingIsStop DEF Service!ServiceNext
<1>2. CASE Accept \/ StartRound \/ EndRound
  BY <1>2, WaitingIsHidden
<1>3. CASE Reconnect \/ AddNewSub
  BY <1>3, AdmittingIsBegin DEF Service!ServiceNext
<1>4. CASE RefuseIntruder
  BY <1>4, RefusingIsHidden
<1>5. CASE ReceiveDatagram
  BY <1>5, ReceivingIsForward DEF Service!ServiceNext
<1>6. CASE SendNotification
  BY <1>6, SendingIsHidden
<1>7. CASE ParseClientMessage
  BY <1>7, MessagesMapped DEF Service!ServiceNext
<1>8. CASE StopClient \/ StopSigpipe \/ StopServer
  BY <1>8, ShutdownIsHidden
<1> QED
  BY <1>1, <1>2, <1>3, <1>4, <1>5, <1>6, <1>7, <1>8 DEF ServerStep

\* Every step.
LEMMA StepIsServiceStep ==
  ASSUME IInv, IInv', RunningIsOpen, RecordInv, StopInv, LeaveInv, ServiceInv, [Next]_vars
  PROVE  [Service!ServiceNext]_Service!serviceVars
<1>1. ASSUME Hidden PROVE UNCHANGED Service!serviceVars
  BY <1>1 DEF Hidden, Service!serviceVars
<1>2. CASE aliased
  BY <1>2, AliasedStays DEF Service!ServiceNext
<1>3. CASE ~aliased /\ ServerStep /\ UNCHANGED cliVars
  BY <1>1, <1>3, ServerMapped
<1>4. CASE \E p \in Clients : (ClientStep(p) \/ UserStep(p)) /\ UNCHANGED srvVars
  BY <1>1, <1>4, ClientMapped DEF Service!ServiceNext
<1>5. CASE \E t \in Topics : Publish(t)
  BY <1>5, PublishIsArrive DEF Service!ServiceNext
<1>6. CASE \/ OperatorExit \/ UNCHANGED vars
           \/ \E p \in Clients : LoseToServer(p) /\ UNCHANGED <<srvVars, cliVars>>
  BY <1>1, <1>6, QuietIsHidden
<1>7. ASSUME ~aliased, NEW p \in Clients, LoseToClient(p), UNCHANGED <<srvVars, cliVars>>
      PROVE  [Service!ServiceNext]_Service!serviceVars
  BY <1>1, <1>7, LosingIsLose DEF Service!ServiceNext
<1> QED
  BY <1>2, <1>3, <1>4, <1>5, <1>6, <1>7 DEF Next

\* The first state.
LEMMA InitIsServiceInit == Init => Service!ServiceInit
<1> SUFFICES ASSUME Init PROVE Service!ServiceInit
  OBVIOUS
<1>1. /\ pc = "poll" /\ subs = <<>> /\ sv_fds = <<>> /\ pending = {} /\ udp = <<>>
      /\ aliased = FALSE
      /\ \A p \in Clients :
           peer[p] = "none" /\ shown[p] = <<>> /\ toClient[p] = <<>> /\ cl[p] = "off"
  BY DEF Init, SocketsInit, ServerInit, SubscriberInit
<1>2. Serving = TRUE
  BY <1>1 DEF Serving, Alive
<1>3. Connected = {}
  BY <1>1, EmptyFacts DEF Connected
<1>4. TopicsById = [id \in Ids |-> [t \in Patterns |-> 0]]
  BY <1>1, EmptyFacts DEF TopicsById, TopicsOf
<1>5. ASSUME NEW p \in Clients PROVE Inbox[p] = <<>>
  <2>1. InSocket(p) = <<>> /\ Promised(p) = <<>>
    BY <1>1, LeadingEmpty DEF InSocket, Promised
  <2>2. Inbox[p] = <<>> \o <<>> \o <<>>
    BY <1>1, <2>1 DEF Inbox
  <2>3. <<>> \in Seq(Datagrams)
    OBVIOUS
  <2>4. <<>> \o <<>> = <<>>
    BY <2>3, ConcatEmptySeq
  <2> QED
    BY <2>2, <2>4
<1>6. Inbox = [p \in Clients |-> <<>>]
  BY <1>5 DEF Inbox
<1>7. Ending = {} /\ Left = {}
  BY <1>1 DEF Ending, Left
<1> QED
  BY <1>1, <1>2, <1>3, <1>4, <1>6, <1>7 DEF Service!ServiceInit

\* The programs together are the service of PubSub: whatever they do, runs get
\* sessions one per identifier, commands change the topics of their own
\* identifier, and every datagram is handed out whole, in the order of arrival,
\* to exactly those who want it.
THEOREM BrokerIsAPubSub == Spec => IsAPubSub
<1>1. Init => Service!ServiceInit
  BY InitIsServiceInit
<1>2. IInv /\ IInv' /\ RunningIsOpen /\ RecordInv /\ StopInv /\ LeaveInv /\ ServiceInv
        /\ [Next]_vars => [Service!ServiceNext]_Service!serviceVars
  BY StepIsServiceStep
<1> QED
  BY <1>1, <1>2, Invariance, OpenInvariance, RecordInvariance, StopInvariance, LeaveInvariance,
     ServiceInvariance, PTL DEF Spec, IsAPubSub, Service!ServiceSpec
=============================================================================
