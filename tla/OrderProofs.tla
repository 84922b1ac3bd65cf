---------------------------- MODULE OrderProofs ----------------------------
(***************************************************************************)
(* Proofs about the way of a datagram: from the UDP socket through         *)
(* send_packet_to_subscribers() to the screens, in order, and to each      *)
(* identifier once; and about the way of a command, from the subscriber    *)
(* that sends it into the record of its identifier.                        *)
(***************************************************************************)
EXTENDS EndingProofs, FiniteInduction

USE DEF sockVars, srvVars, cliVars

\* The k-th packet in the socket of p is a notification.
OnTheWay(p, k) == k \in DOMAIN toClient[p] /\ toClient[p][k].action = "NOTIFICATION_ACTION"

\* The numbers of the datagrams that p has shown or will find in its socket.
Reached(p) ==
       {shown[p][k].n : k \in DOMAIN shown[p]}
  \cup {toClient[p][k].dgram.n : k \in {k \in DOMAIN toClient[p] : OnTheWay(p, k)}}

\* The UDP socket is a queue.
ArrivalOrder ==
  /\ \A k \in DOMAIN udp : udp[k].n <= arrived
  /\ \A j, k \in DOMAIN udp : j < k => udp[j].n < udp[k].n

\* What has reached somebody left the UDP socket before what is still there.
ReachedIsOld ==
  \A p \in Clients : \A n \in Reached(p) :
    n <= arrived /\ \A k \in DOMAIN udp : n < udp[k].n

\* So did the datagram that is being forwarded, and after all others.
ForwardedIsNext ==
  pc = "notify" =>
    /\ dgram.n <= arrived
    /\ \A k \in DOMAIN udp : dgram.n < udp[k].n
    /\ \A p \in Clients : \A n \in Reached(p) : n <= dgram.n

\* Who is still to be served does not have the datagram, under any of his runs.
PendingNotReached ==
  ~aliased /\ pc = "notify" =>
    \A i \in pending, p \in Clients :
      IdOf[p] = subs[i].id => \A n \in Reached(p) : n < dgram.n

\* The socket and the screen of a run.
QueueOrder ==
  ~aliased =>
    \A p \in Clients :
      /\ \A j, k \in DOMAIN shown[p] : j < k => shown[p][j].n < shown[p][k].n
      /\ \A j \in DOMAIN shown[p], k \in DOMAIN toClient[p] :
           OnTheWay(p, k) => shown[p][j].n < toClient[p][k].dgram.n
      /\ \A j, k \in DOMAIN toClient[p] :
           OnTheWay(p, j) /\ OnTheWay(p, k) /\ j < k
             => toClient[p][j].dgram.n < toClient[p][k].dgram.n

ReachedOnce ==
  ~aliased =>
    \A p, q \in Clients : p # q /\ IdOf[p] = IdOf[q] => Reached(p) \cap Reached(q) = {}

OrderInv ==
  /\ ArrivalOrder /\ ReachedIsOld /\ ForwardedIsNext
  /\ PendingNotReached /\ QueueOrder /\ ReachedOnce

-----------------------------------------------------------------------------
\* The types the next lemmas need.
LEMMA OrderTypes ==
  ASSUME IInv
  PROVE  /\ arrived \in Nat /\ udp \in Seq(Datagrams)
         /\ \A k \in DOMAIN udp : udp[k] \in Datagrams /\ udp[k].n \in Nat
         /\ pc = "notify" => dgram \in Datagrams /\ dgram.n \in Nat
         /\ \A p \in Clients : \A k \in DOMAIN shown[p] : shown[p][k].n \in Nat
         /\ \A p \in Clients : \A k \in DOMAIN toClient[p] :
              OnTheWay(p, k) => toClient[p][k].dgram.n \in Nat
         /\ \A p \in Clients : Reached(p) \subseteq Nat
<1>1. arrived \in Nat /\ udp \in Seq(Datagrams)
  BY DEF IInv, TypeOK, SocketsTypeOK
<1>2. \A k \in DOMAIN udp : udp[k] \in Datagrams
  BY <1>1, LenProperties, ElementOfSeq
<1>3. pc = "notify" => dgram \in Datagrams
  BY DEF IInv, ServerInv, ForwardsADatagram
<1>4. \A p \in Clients : \A k \in DOMAIN shown[p] : shown[p][k].n \in Nat
  <2> SUFFICES ASSUME NEW p \in Clients, NEW k \in DOMAIN shown[p] PROVE shown[p][k].n \in Nat
    OBVIOUS
  <2>1. shown[p] \in Seq(Datagrams)
    BY DeliveryTypes
  <2>2. shown[p][k] \in Datagrams
    BY <2>1, LenProperties, ElementOfSeq
  <2> QED
    BY <2>2 DEF Datagrams
<1>5. \A p \in Clients : \A k \in DOMAIN toClient[p] :
        OnTheWay(p, k) => toClient[p][k].dgram.n \in Nat
  <2> SUFFICES ASSUME NEW p \in Clients, NEW k \in DOMAIN toClient[p], OnTheWay(p, k)
               PROVE  toClient[p][k].dgram.n \in Nat
    OBVIOUS
  <2>1. toClient[p] \in Seq(ToClientPackets)
    BY DeliveryTypes
  <2>2. toClient[p][k] \in ToClientPackets
    BY <2>1, LenProperties, ElementOfSeq
  <2>3. toClient[p][k].dgram \in Datagrams
    BY <2>2 DEF OnTheWay, ToClientPackets
  <2> QED
    BY <2>3 DEF Datagrams
<1>6. \A d \in Datagrams : d.n \in Nat
  BY DEF Datagrams
<1> QED
  BY <1>1, <1>2, <1>3, <1>4, <1>5, <1>6 DEF Reached

\* The packets of q's socket move up by at most one place; what is new there is
\* no notification.
MovesUp(q) ==
  \E s \in {0, 1} : \A k \in DOMAIN toClient'[q] :
    toClient'[q][k].action = "NOTIFICATION_ACTION"
      => k + s \in DOMAIN toClient[q] /\ toClient'[q][k] = toClient[q][k + s]

\* Steps that show nothing and forward nothing.
LEMMA QueueKept ==
  ASSUME IInv, QueueOrder, UNCHANGED shown, aliased => aliased', \A q \in Clients : MovesUp(q),
         \A q \in Clients : DOMAIN toClient'[q] \subseteq Nat
  PROVE  QueueOrder' /\ \A q \in Clients : Reached(q)' \subseteq Reached(q)
<1>1. ASSUME NEW q \in Clients
      PROVE  /\ Reached(q)' \subseteq Reached(q)
             /\ ~aliased =>
                  /\ \A j \in DOMAIN shown[q], k \in DOMAIN toClient'[q] :
                       toClient'[q][k].action = "NOTIFICATION_ACTION"
                         => shown[q][j].n < toClient'[q][k].dgram.n
                  /\ \A j, k \in DOMAIN toClient'[q] :
                       /\ toClient'[q][j].action = "NOTIFICATION_ACTION"
                       /\ toClient'[q][k].action = "NOTIFICATION_ACTION"
                       /\ j < k
                       => toClient'[q][j].dgram.n < toClient'[q][k].dgram.n
  <2>1. PICK s \in {0, 1} : \A k \in DOMAIN toClient'[q] :
          toClient'[q][k].action = "NOTIFICATION_ACTION"
            => k + s \in DOMAIN toClient[q] /\ toClient'[q][k] = toClient[q][k + s]
    BY DEF MovesUp
  <2>2. \A k \in DOMAIN toClient'[q] : toClient'[q][k].action = "NOTIFICATION_ACTION"
          => OnTheWay(q, k + s) /\ toClient'[q][k] = toClient[q][k + s]
    BY <2>1 DEF OnTheWay
  <2>3. \A j, k \in DOMAIN toClient'[q] : j < k => j + s < k + s
    OBVIOUS
  <2>4. Reached(q)' \subseteq Reached(q)
    BY <2>2 DEF Reached, OnTheWay
  <2> QED
    BY <2>2, <2>3, <2>4 DEF QueueOrder, OnTheWay
<1> QED
  BY <1>1 DEF QueueOrder, OnTheWay

\* They keep the rest as well.
LEMMA OrderKept ==
  ASSUME IInv, OrderInv, UNCHANGED <<udp, arrived>>, aliased => aliased',
         pc' = "notify" => pc = "notify" /\ UNCHANGED <<dgram, pending, subs>>,
         QueueOrder', \A q \in Clients : Reached(q)' \subseteq Reached(q)
  PROVE  OrderInv'
<1>1. ArrivalOrder' /\ ReachedIsOld' /\ ReachedOnce'
  BY DEF OrderInv, ArrivalOrder, ReachedIsOld, ReachedOnce
<1>2. ForwardedIsNext'
  BY DEF OrderInv, ForwardedIsNext
<1>3. PendingNotReached'
  BY DEF OrderInv, PendingNotReached
<1> QED
  BY <1>1, <1>2, <1>3 DEF OrderInv

\* Sockets left alone, emptied, read, or written something else than a
\* notification.
LEMMA MovesFacts ==
  ASSUME IInv
  PROVE  /\ UNCHANGED toClient => \A q \in Clients : MovesUp(q)
         /\ \A p \in Clients :
              toClient' = [toClient EXCEPT ![p] = <<>>] => \A q \in Clients : MovesUp(q)
         /\ \A p, m : DeliverTo(p, m) /\ m \in ToClientPackets /\ m.action # "NOTIFICATION_ACTION"
              => \A q \in Clients : MovesUp(q)
<1>1. toClient \in [Clients -> Seq(ToClientPackets)]
      /\ \A p \in Clients : toClient[p] \in Seq(ToClientPackets)
  BY DEF IInv, TypeOK, SocketsTypeOK
<1>2. ASSUME NEW q \in Clients, toClient'[q] = toClient[q] PROVE MovesUp(q)
  <2>1. \A k \in DOMAIN toClient[q] : k + 0 = k
    <3>1. DOMAIN toClient[q] = 1 .. Len(toClient[q]) /\ Len(toClient[q]) \in Nat
      BY <1>1, LenProperties
    <3> QED
      BY <3>1
  <2> QED
    BY <1>2, <2>1 DEF MovesUp
<1>3. ASSUME NEW q \in Clients, toClient'[q] = <<>> PROVE MovesUp(q)
  BY <1>3, EmptyFacts DEF MovesUp
<1>4. UNCHANGED toClient => \A q \in Clients : MovesUp(q)
  BY <1>2
<1>5. ASSUME NEW p \in Clients, toClient' = [toClient EXCEPT ![p] = <<>>], NEW q \in Clients
      PROVE  MovesUp(q)
  <2>1. toClient'[q] = toClient[q] \/ toClient'[q] = <<>>
    BY <1>1, <1>5
  <2> QED
    BY <1>2, <1>3, <2>1
<1>6. ASSUME NEW p, NEW m \in ToClientPackets, DeliverTo(p, m), m.action # "NOTIFICATION_ACTION",
             NEW q \in Clients
      PROVE  MovesUp(q)
  <2>1. CASE p \in Clients
    <3>1. \A k \in DOMAIN toClient'[q] : toClient'[q][k].action = "NOTIFICATION_ACTION"
            => k \in DOMAIN toClient[q] /\ toClient'[q][k] = toClient[q][k]
      BY <1>6, <2>1, Delivered
    <3>2. \A k \in DOMAIN toClient[q] : k + 0 = k
      <4>1. DOMAIN toClient[q] = 1 .. Len(toClient[q]) /\ Len(toClient[q]) \in Nat
        BY <1>1, LenProperties
      <4> QED
        BY <4>1
    <3> QED
      BY <3>1, <3>2 DEF MovesUp
  <2>2. CASE p \notin Clients
    BY <1>1, <1>2, <1>6, <2>2 DEF DeliverTo
  <2> QED
    BY <2>1, <2>2
<1> QED
  BY <1>4, <1>5, <1>6

\* Positions are numbers, also in the next state.
LEMMA PositionsAreNumbers ==
  ASSUME IInv'
  PROVE  \A q \in Clients : DOMAIN toClient'[q] \subseteq Nat
<1> SUFFICES ASSUME NEW q \in Clients PROVE DOMAIN toClient'[q] \subseteq Nat
  OBVIOUS
<1>1. toClient'[q] \in Seq(ToClientPackets)
  BY DEF IInv, TypeOK, SocketsTypeOK
<1>2. DOMAIN toClient'[q] = 1 .. Len(toClient'[q]) /\ Len(toClient'[q]) \in Nat
  BY <1>1, LenProperties
<1> QED
  BY <1>2

\* parse_notification(): the oldest packet goes from the socket to the screen.
LEMMA ShowOrder ==
  ASSUME IInv, OrderInv, UNCHANGED srvVars, NEW p \in Clients, ReceiveNotification(p)
  PROVE  QueueOrder' /\ \A q \in Clients : Reached(q)' \subseteq Reached(q)
<1> DEFINE d == Head(toClient[p]).dgram
<1>1. /\ toClient[p] # <<>> /\ Head(toClient[p]).action = "NOTIFICATION_ACTION"
      /\ shown' = [shown EXCEPT ![p] = Append(shown[p], d)]
      /\ toClient' = [toClient EXCEPT ![p] = Tail(toClient[p])]
  BY DEF ReceiveNotification
<1>2. toClient[p] \in Seq(ToClientPackets) /\ shown[p] \in Seq(Datagrams)
      /\ toClient \in [Clients -> Seq(ToClientPackets)] /\ shown \in [Clients -> Seq(Datagrams)]
  BY DEF IInv, TypeOK, SocketsTypeOK, SubscriberTypeOK
<1>3. /\ 1 \in DOMAIN toClient[p] /\ Head(toClient[p]) = toClient[p][1]
      /\ Head(toClient[p]) \in ToClientPackets
      /\ DOMAIN Tail(toClient[p]) = 1 .. Len(toClient[p]) - 1
      /\ \A k \in DOMAIN Tail(toClient[p]) :
           k + 1 \in DOMAIN toClient[p] /\ Tail(toClient[p])[k] = toClient[p][k + 1]
  BY <1>1, <1>2, TailFacts
<1>4. d \in Datagrams /\ OnTheWay(p, 1) /\ d = toClient[p][1].dgram
  BY <1>1, <1>3 DEF ToClientPackets, OnTheWay
<1> HIDE DEF d
<1>5. /\ DOMAIN Append(shown[p], d) = 1 .. Len(shown[p]) + 1
      /\ DOMAIN shown[p] = 1 .. Len(shown[p]) /\ Len(shown[p]) \in Nat
      /\ \A k \in DOMAIN shown[p] : Append(shown[p], d)[k] = shown[p][k]
      /\ Append(shown[p], d)[Len(shown[p]) + 1] = d
  BY <1>2, <1>4, AppendFacts, LenProperties
<1>6. \A q \in Clients : q # p => toClient'[q] = toClient[q] /\ shown'[q] = shown[q]
  BY <1>1, <1>2
<1>7. /\ toClient'[p] = Tail(toClient[p]) /\ shown'[p] = Append(shown[p], d)
  BY <1>1, <1>2
<1>8. \A k \in DOMAIN toClient'[p] : toClient'[p][k].action = "NOTIFICATION_ACTION"
        => /\ OnTheWay(p, k + 1) /\ toClient'[p][k] = toClient[p][k + 1]
           /\ k + 1 \in DOMAIN toClient[p] /\ 1 < k + 1
  BY <1>3, <1>7 DEF OnTheWay
<1>9. \A j, k \in DOMAIN toClient'[p] : j < k => j + 1 < k + 1
  BY <1>3, <1>7
<1>10. \A j, k \in DOMAIN shown'[p] : j < k =>
         j \in DOMAIN shown[p] /\ (k \in DOMAIN shown[p] \/ k = Len(shown[p]) + 1)
  BY <1>5, <1>7
<1>11. \A k \in DOMAIN shown'[p] :
         \/ k \in DOMAIN shown[p] /\ shown'[p][k] = shown[p][k]
         \/ shown'[p][k] = d
  BY <1>5, <1>7
<1>12. \A q \in Clients : Reached(q)' \subseteq Reached(q)
  <2> SUFFICES ASSUME NEW q \in Clients PROVE Reached(q)' \subseteq Reached(q)
    OBVIOUS
  <2>1. CASE q = p
    <3>1. \A k \in DOMAIN shown'[p] : shown'[p][k].n \in Reached(p)
      BY <1>3, <1>4, <1>11 DEF Reached
    <3>2. \A k \in DOMAIN toClient'[p] : toClient'[p][k].action = "NOTIFICATION_ACTION"
            => toClient'[p][k].dgram.n \in Reached(p)
      BY <1>8 DEF Reached
    <3> QED
      BY <2>1, <3>1, <3>2 DEF Reached, OnTheWay
  <2>2. CASE q # p
    BY <1>6, <2>2 DEF Reached, OnTheWay
  <2> QED
    BY <2>1, <2>2
<1>13. QueueOrder'
  <2> SUFFICES ASSUME ~aliased', NEW q \in Clients
               PROVE  /\ \A j, k \in DOMAIN shown'[q] : j < k => shown'[q][j].n < shown'[q][k].n
                      /\ \A j \in DOMAIN shown'[q], k \in DOMAIN toClient'[q] :
                           toClient'[q][k].action = "NOTIFICATION_ACTION"
                             => shown'[q][j].n < toClient'[q][k].dgram.n
                      /\ \A j, k \in DOMAIN toClient'[q] :
                           /\ toClient'[q][j].action = "NOTIFICATION_ACTION"
                           /\ toClient'[q][k].action = "NOTIFICATION_ACTION"
                           /\ j < k
                           => toClient'[q][j].dgram.n < toClient'[q][k].dgram.n
    BY DEF QueueOrder, OnTheWay
  <2>1. ~aliased
    OBVIOUS
  <2>2. /\ \A j, k \in DOMAIN shown[q] : j < k => shown[q][j].n < shown[q][k].n
        /\ \A j \in DOMAIN shown[q], k \in DOMAIN toClient[q] :
             OnTheWay(q, k) => shown[q][j].n < toClient[q][k].dgram.n
        /\ \A j, k \in DOMAIN toClient[q] :
             OnTheWay(q, j) /\ OnTheWay(q, k) /\ j < k
               => toClient[q][j].dgram.n < toClient[q][k].dgram.n
    BY <2>1 DEF OrderInv, QueueOrder
  <2>3. CASE q # p
    BY <1>6, <2>2, <2>3 DEF OnTheWay
  <2>4. CASE q = p
    <3>1. ASSUME NEW j \in DOMAIN shown'[p], NEW k \in DOMAIN shown'[p], j < k
          PROVE  shown'[p][j].n < shown'[p][k].n
      <4>1. j \in DOMAIN shown[p] /\ shown'[p][j] = shown[p][j]
        BY <1>5, <1>7, <1>10, <3>1
      <4>2. CASE k \in DOMAIN shown[p] /\ shown'[p][k] = shown[p][k]
        BY <2>2, <2>4, <3>1, <4>1, <4>2
      <4>3. CASE shown'[p][k] = d
        BY <1>3, <1>4, <2>2, <2>4, <4>1, <4>3
      <4> QED
        BY <1>11, <4>2, <4>3
    <3>2. ASSUME NEW j \in DOMAIN shown'[p], NEW k \in DOMAIN toClient'[p],
                 toClient'[p][k].action = "NOTIFICATION_ACTION"
          PROVE  shown'[p][j].n < toClient'[p][k].dgram.n
      <4>1. /\ OnTheWay(p, k + 1) /\ toClient'[p][k] = toClient[p][k + 1]
            /\ k + 1 \in DOMAIN toClient[p] /\ 1 < k + 1
        BY <1>8, <3>2
      <4>2. CASE j \in DOMAIN shown[p] /\ shown'[p][j] = shown[p][j]
        BY <2>2, <2>4, <4>1, <4>2
      <4>3. CASE shown'[p][j] = d
        BY <1>3, <1>4, <2>2, <2>4, <4>1, <4>3
      <4> QED
        BY <1>11, <4>2, <4>3
    <3>3. ASSUME NEW j \in DOMAIN toClient'[p], NEW k \in DOMAIN toClient'[p], j < k,
                 toClient'[p][j].action = "NOTIFICATION_ACTION",
                 toClient'[p][k].action = "NOTIFICATION_ACTION"
          PROVE  toClient'[p][j].dgram.n < toClient'[p][k].dgram.n
      <4>1. /\ OnTheWay(p, j + 1) /\ toClient'[p][j] = toClient[p][j + 1]
            /\ OnTheWay(p, k + 1) /\ toClient'[p][k] = toClient[p][k + 1]
            /\ j + 1 \in DOMAIN toClient[p] /\ k + 1 \in DOMAIN toClient[p]
        BY <1>8, <3>3
      <4>2. j + 1 < k + 1
        BY <1>9, <3>3
      <4> QED
        BY <2>2, <2>4, <4>1, <4>2
    <3> QED
      BY <2>4, <3>1, <3>2, <3>3
  <2> QED
    BY <2>3, <2>4
<1> QED
  BY <1>12, <1>13

\* The subscribers.
LEMMA ClientOrder ==
  ASSUME IInv, IInv', OrderInv, UNCHANGED srvVars, NEW p \in Clients, ClientStep(p) \/ UserStep(p)
  PROVE  OrderInv'
<1>1. UNCHANGED <<udp, arrived, aliased, pc, dgram, pending, subs>>
  BY DEF ClientStep, UserStep, Connect, ConnectRefused, SendConnect, Subscribe, Unsubscribe, Exit,
     CloseAfterExit, ClientSigpipe, Kill, ReceiveNotification, ReceiveShutdown, ReceiveEof,
     CloseClientEnd
<1>2. CASE ReceiveNotification(p)
  <2>1. QueueOrder' /\ \A q \in Clients : Reached(q)' \subseteq Reached(q)
    BY <1>2, ShowOrder
  <2> QED
    BY <1>1, <2>1, OrderKept
<1>3. CASE ~ReceiveNotification(p)
  <2>1. /\ UNCHANGED shown
        /\ toClient' = toClient \/ toClient' = [toClient EXCEPT ![p] = <<>>]
    BY <1>3 DEF ClientStep, UserStep, Connect, ConnectRefused, SendConnect, Subscribe, Unsubscribe,
       Exit, CloseAfterExit, ClientSigpipe, Kill, ReceiveShutdown, ReceiveEof, CloseClientEnd
  <2>2. \A q \in Clients : MovesUp(q)
    BY <2>1, MovesFacts
  <2>3. QueueOrder' /\ \A q \in Clients : Reached(q)' \subseteq Reached(q)
    BY <1>1, <2>1, <2>2, PositionsAreNumbers, QueueKept DEF OrderInv
  <2> QED
    BY <1>1, <2>3, OrderKept
<1> QED
  BY <1>2, <1>3

\* A UDP client: what arrives is younger than everything else.
LEMMA PublishOrder ==
  ASSUME IInv, OrderInv, NEW t \in Topics, Publish(t)
  PROVE  OrderInv'
<1> DEFINE d == [n |-> arrived + 1, topic |-> t]
<1>1. /\ arrived' = arrived + 1 /\ udp' = Append(udp, d)
      /\ UNCHANGED <<toClient, shown, pc, dgram, pending, subs, aliased>>
  BY DEF Publish
<1>2. d \in Datagrams /\ d.n = arrived + 1 /\ arrived \in Nat /\ udp \in Seq(Datagrams)
  BY OrderTypes DEF Datagrams
<1> HIDE DEF d
<1>3. /\ DOMAIN udp' = 1 .. Len(udp) + 1 /\ DOMAIN udp = 1 .. Len(udp) /\ Len(udp) \in Nat
      /\ \A k \in DOMAIN udp : udp'[k] = udp[k]
      /\ udp'[Len(udp) + 1] = d
  BY <1>1, <1>2, AppendFacts, LenProperties
<1>4. \A k \in DOMAIN udp' : \/ k \in DOMAIN udp /\ udp'[k] = udp[k]
                             \/ k = Len(udp) + 1 /\ udp'[k].n = arrived + 1
  BY <1>2, <1>3
<1>5. \A j, k \in DOMAIN udp' : j < k => j \in DOMAIN udp
  BY <1>3
<1>6. \A p \in Clients : Reached(p)' = Reached(p)
  BY <1>1 DEF Reached, OnTheWay
<1>7. ArrivalOrder'
  <2>1. ASSUME NEW k \in DOMAIN udp' PROVE udp'[k].n <= arrived'
    <3>1. \A j \in DOMAIN udp : udp[j].n <= arrived /\ udp[j].n \in Nat
      BY OrderTypes DEF OrderInv, ArrivalOrder
    <3> QED
      BY <1>1, <1>2, <1>4, <3>1
  <2>2. ASSUME NEW j \in DOMAIN udp', NEW k \in DOMAIN udp', j < k PROVE udp'[j].n < udp'[k].n
    <3>1. j \in DOMAIN udp /\ udp'[j] = udp[j]
      BY <1>3, <1>5, <2>2
    <3>2. udp[j].n <= arrived /\ udp[j].n \in Nat
      BY <3>1, OrderTypes DEF OrderInv, ArrivalOrder
    <3>3. CASE k \in DOMAIN udp /\ udp'[k] = udp[k]
      BY <2>2, <3>1, <3>3 DEF OrderInv, ArrivalOrder
    <3>4. CASE udp'[k].n = arrived + 1
      BY <1>2, <3>1, <3>2, <3>4
    <3> QED
      BY <1>4, <3>3, <3>4
  <2> QED
    BY <2>1, <2>2 DEF ArrivalOrder
<1>8. ASSUME NEW n \in Nat, n <= arrived, \A k \in DOMAIN udp : n < udp[k].n
      PROVE  n <= arrived' /\ \A k \in DOMAIN udp' : n < udp'[k].n
  <2>1. n <= arrived' /\ n < arrived + 1
    BY <1>1, <1>2, <1>8
  <2> QED
    BY <1>4, <1>8, <2>1
<1>9. ReachedIsOld'
  <2> SUFFICES ASSUME NEW p \in Clients, NEW n \in Reached(p)
               PROVE  n <= arrived' /\ \A k \in DOMAIN udp' : n < udp'[k].n
    BY <1>6 DEF ReachedIsOld
  <2>1. n \in Nat /\ n <= arrived /\ \A k \in DOMAIN udp : n < udp[k].n
    BY OrderTypes DEF OrderInv, ReachedIsOld
  <2> QED
    BY <1>8, <2>1
<1>10. ForwardedIsNext'
  <2> SUFFICES ASSUME pc = "notify"
               PROVE  /\ dgram.n <= arrived' /\ \A k \in DOMAIN udp' : dgram.n < udp'[k].n
                      /\ \A p \in Clients : \A n \in Reached(p) : n <= dgram.n
    BY <1>1, <1>6 DEF ForwardedIsNext
  <2>1. /\ dgram.n \in Nat /\ dgram.n <= arrived /\ \A k \in DOMAIN udp : dgram.n < udp[k].n
        /\ \A p \in Clients : \A n \in Reached(p) : n <= dgram.n
    BY OrderTypes DEF OrderInv, ForwardedIsNext
  <2> QED
    BY <1>8, <2>1
<1>11. PendingNotReached'
  BY <1>1, <1>6 DEF OrderInv, PendingNotReached
<1>12. QueueOrder' /\ ReachedOnce'
  BY <1>1, <1>6 DEF OrderInv, QueueOrder, ReachedOnce, OnTheWay
<1> QED
  BY <1>7, <1>9, <1>10, <1>11, <1>12 DEF OrderInv

\* recvfrom(): the oldest datagram is younger than all that has been forwarded.
LEMMA ReceiveOrder ==
  ASSUME IInv, OrderInv, UNCHANGED cliVars, ReceiveDatagram
  PROVE  OrderInv'
<1>1. /\ udp # <<>> /\ udp' = Tail(udp) /\ (pc' = "notify" => dgram' = Head(udp))
      /\ UNCHANGED <<toClient, shown, arrived, aliased, subs>>
  BY DEF ReceiveDatagram
<1>2. /\ 1 \in DOMAIN udp /\ Head(udp) = udp[1]
      /\ DOMAIN Tail(udp) = 1 .. Len(udp) - 1 /\ DOMAIN udp = 1 .. Len(udp) /\ Len(udp) \in Nat
      /\ \A k \in DOMAIN Tail(udp) : k + 1 \in DOMAIN udp /\ Tail(udp)[k] = udp[k + 1]
  BY <1>1, OrderTypes, TailFacts, LenProperties
<1>3. \A k \in DOMAIN udp' : k + 1 \in DOMAIN udp /\ udp'[k] = udp[k + 1] /\ 1 < k + 1
  BY <1>1, <1>2
<1>4. \A j, k \in DOMAIN udp' : j < k => j + 1 < k + 1
  BY <1>1, <1>2
<1>5. \A p \in Clients : Reached(p)' = Reached(p)
  BY <1>1 DEF Reached, OnTheWay
<1>6. ArrivalOrder'
  BY <1>1, <1>3, <1>4 DEF OrderInv, ArrivalOrder
<1>7. ReachedIsOld'
  BY <1>1, <1>3, <1>5 DEF OrderInv, ReachedIsOld
<1>8. \A k \in DOMAIN udp' : udp[1].n < udp'[k].n
  BY <1>2, <1>3 DEF OrderInv, ArrivalOrder
<1>9. udp[1].n <= arrived /\ \A p \in Clients : \A n \in Reached(p) : n < udp[1].n
  BY <1>2 DEF OrderInv, ArrivalOrder, ReachedIsOld
<1>10. ForwardedIsNext'
  <2> SUFFICES ASSUME pc' = "notify"
               PROVE  /\ udp[1].n <= arrived /\ \A k \in DOMAIN udp' : udp[1].n < udp'[k].n
                      /\ \A p \in Clients : \A n \in Reached(p) : n <= udp[1].n
    BY <1>1, <1>2, <1>5 DEF ForwardedIsNext
  <2>1. \A p \in Clients : \A n \in Reached(p) : n \in Nat
    BY OrderTypes
  <2>2. udp[1].n \in Nat
    BY <1>2, OrderTypes
  <2>3. \A p \in Clients : \A n \in Reached(p) : n <= udp[1].n
    BY <1>9, <2>1, <2>2
  <2> QED
    BY <1>8, <1>9, <2>3
<1>11. PendingNotReached'
  BY <1>1, <1>2, <1>5, <1>9 DEF PendingNotReached
<1>12. QueueOrder' /\ ReachedOnce'
  BY <1>1, <1>5 DEF OrderInv, QueueOrder, ReachedOnce, OnTheWay
<1> QED
  BY <1>6, <1>7, <1>10, <1>11, <1>12 DEF OrderInv

\* One turn of send_packet_to_subscribers: the datagram is younger than all that
\* reached the run before, and no other run with its id has it or will get it.
LEMMA ForwardOrder ==
  ASSUME IInv, RecordInv, OrderInv, UNCHANGED cliVars, SendNotification
  PROVE  OrderInv'
<1>1. PICK i \in pending :
        /\ conn[subs[i].fd] # None
        /\ DeliverTo(conn[subs[i].fd], [action |-> "NOTIFICATION_ACTION", dgram |-> dgram])
        /\ pending' = pending \ {i}
  BY DEF SendNotification
<1>2. /\ pc = "notify" /\ (pc' = "notify" => dgram' = dgram)
      /\ UNCHANGED <<udp, arrived, subs, aliased, shown>>
  BY DEF SendNotification
<1>3. i \in DOMAIN subs /\ subs[i].online /\ subs[i] \in Subscribers
  BY <1>1, <1>2, DeliveryTypes DEF RecordInv, PendingAreOnline
<1>4. conn[subs[i].fd] \in Clients /\ dgram \in Datagrams /\ dgram.n \in Nat
  <2>1. subs[i].fd \in Fds
    BY <1>3 DEF Subscribers
  <2>2. conn[subs[i].fd] \in Clients
    BY <1>1, <2>1 DEF IInv, TypeOK, SocketsTypeOK
  <2> QED
    BY <1>2, <2>2, OrderTypes
<1>5. ~aliased => IdOf[conn[subs[i].fd]] = subs[i].id
  <2>1. Serving
    BY <1>2 DEF Serving, Alive
  <2> QED
    BY <1>3, <2>1 DEF RecordInv, OnlineIsPolled, PolledAs
<1>0. PICK p \in Clients : p = conn[subs[i].fd]
  BY <1>4
<1> DEFINE m == [action |-> "NOTIFICATION_ACTION", dgram |-> dgram]
<1>6. m \in ToClientPackets /\ m.dgram = dgram /\ DeliverTo(p, m) /\ p \in Clients
      /\ m.action = "NOTIFICATION_ACTION"
  BY <1>0, <1>1, <1>4 DEF ToClientPackets
<1>7. ~aliased => IdOf[p] = subs[i].id
  BY <1>0, <1>5
<1> HIDE DEF m
<1>8. toClient \in [Clients -> Seq(ToClientPackets)] /\ toClient[p] \in Seq(ToClientPackets)
  BY <1>6 DEF IInv, TypeOK, SocketsTypeOK
<1>9. toClient' = toClient \/ toClient' = [toClient EXCEPT ![p] = Append(toClient[p], m)]
  BY <1>6 DEF DeliverTo
<1>10. \A q \in Clients : q # p => toClient'[q] = toClient[q]
  BY <1>8, <1>9
<1>11. toClient'[p] = toClient[p] \/ toClient'[p] = Append(toClient[p], m)
  BY <1>6, <1>8, <1>9
<1>12. /\ DOMAIN Append(toClient[p], m) = 1 .. Len(toClient[p]) + 1
       /\ DOMAIN toClient[p] = 1 .. Len(toClient[p]) /\ Len(toClient[p]) \in Nat
       /\ \A k \in DOMAIN toClient[p] : Append(toClient[p], m)[k] = toClient[p][k]
       /\ Append(toClient[p], m)[Len(toClient[p]) + 1] = m
  BY <1>6, <1>8, AppendFacts, LenProperties
<1>13. \A k \in DOMAIN toClient'[p] :
         \/ k \in DOMAIN toClient[p] /\ toClient'[p][k] = toClient[p][k]
         \/ k \notin DOMAIN toClient[p] /\ toClient'[p][k] = m
  BY <1>11, <1>12
<1>14. \A j, k \in DOMAIN toClient'[p] : j < k => j \in DOMAIN toClient[p]
  BY <1>11, <1>12
<1>15. \A q \in Clients : q # p => Reached(q)' = Reached(q)
  BY <1>2, <1>10 DEF Reached, OnTheWay
<1>16. Reached(p)' \subseteq Reached(p) \cup {dgram.n}
  <2> SUFFICES ASSUME NEW n \in Reached(p)' PROVE n \in Reached(p) \/ n = dgram.n
    OBVIOUS
  <2>1. CASE \E k \in DOMAIN shown[p] : n = shown[p][k].n
    BY <2>1 DEF Reached
  <2>2. ASSUME NEW k \in DOMAIN toClient'[p], toClient'[p][k].action = "NOTIFICATION_ACTION",
               n = toClient'[p][k].dgram.n
        PROVE  n \in Reached(p) \/ n = dgram.n
    <3>1. CASE toClient'[p][k] = m
      BY <1>6, <2>2, <3>1
    <3>2. CASE k \in DOMAIN toClient[p] /\ toClient'[p][k] = toClient[p][k]
      BY <2>2, <3>2 DEF Reached, OnTheWay
    <3> QED
      BY <1>13, <3>1, <3>2
  <2> QED
    BY <1>2, <2>1, <2>2 DEF Reached, OnTheWay
<1>17. /\ dgram.n <= arrived /\ \A k \in DOMAIN udp : dgram.n < udp[k].n
       /\ \A q \in Clients : \A n \in Reached(q) : n <= dgram.n
  BY <1>2 DEF OrderInv, ForwardedIsNext
<1>18. ~aliased => \A q \in Clients : IdOf[q] = IdOf[p] => \A n \in Reached(q) : n < dgram.n
  BY <1>1, <1>2, <1>7 DEF OrderInv, PendingNotReached
<1>19. \A q \in Clients : \A n \in Reached(q)' : n \in Reached(q) \/ n = dgram.n
  BY <1>15, <1>16
<1>20. ArrivalOrder' /\ ReachedIsOld'
  <2>1. ASSUME NEW q \in Clients, NEW n \in Reached(q)'
        PROVE  n <= arrived /\ \A k \in DOMAIN udp : n < udp[k].n
    <3>1. CASE n \in Reached(q)
      BY <3>1 DEF OrderInv, ReachedIsOld
    <3>2. CASE n = dgram.n
      BY <1>17, <3>2
    <3> QED
      BY <1>19, <2>1, <3>1, <3>2
  <2> QED
    BY <1>2, <2>1 DEF OrderInv, ArrivalOrder, ReachedIsOld
<1>21. ForwardedIsNext'
  <2>1. ASSUME NEW q \in Clients, NEW n \in Reached(q)' PROVE n <= dgram.n
    BY <1>4, <1>17, <1>19, <2>1
  <2> QED
    BY <1>2, <1>17, <2>1 DEF ForwardedIsNext
<1>22. PendingNotReached'
  <2> SUFFICES ASSUME ~aliased, NEW j \in pending', NEW q \in Clients, IdOf[q] = subs[j].id,
                      NEW n \in Reached(q)'
               PROVE  n < dgram.n
    BY <1>2 DEF PendingNotReached
  <2>1. j \in pending /\ j # i /\ j \in DOMAIN subs
    BY <1>1, DeliveryTypes
  <2>2. q # p
    BY <1>3, <1>7, <2>1 DEF IInv, ServerInv, RecordsDistinct
  <2>3. n \in Reached(q)
    BY <1>15, <2>2
  <2> QED
    BY <1>2, <2>1, <2>3 DEF OrderInv, PendingNotReached
<1>23. QueueOrder'
  <2> SUFFICES ASSUME ~aliased, NEW q \in Clients
               PROVE  /\ \A j, k \in DOMAIN shown[q] : j < k => shown[q][j].n < shown[q][k].n
                      /\ \A j \in DOMAIN shown[q], k \in DOMAIN toClient'[q] :
                           toClient'[q][k].action = "NOTIFICATION_ACTION"
                             => shown[q][j].n < toClient'[q][k].dgram.n
                      /\ \A j, k \in DOMAIN toClient'[q] :
                           /\ toClient'[q][j].action = "NOTIFICATION_ACTION"
                           /\ toClient'[q][k].action = "NOTIFICATION_ACTION"
                           /\ j < k
                           => toClient'[q][j].dgram.n < toClient'[q][k].dgram.n
    BY <1>2 DEF QueueOrder, OnTheWay
  <2>1. /\ \A j, k \in DOMAIN shown[q] : j < k => shown[q][j].n < shown[q][k].n
        /\ \A j \in DOMAIN shown[q], k \in DOMAIN toClient[q] :
             OnTheWay(q, k) => shown[q][j].n < toClient[q][k].dgram.n
        /\ \A j, k \in DOMAIN toClient[q] :
             OnTheWay(q, j) /\ OnTheWay(q, k) /\ j < k
               => toClient[q][j].dgram.n < toClient[q][k].dgram.n
    BY DEF OrderInv, QueueOrder
  <2>2. CASE q # p
    BY <1>10, <2>1, <2>2 DEF OnTheWay
  <2>3. CASE q = p
    <3>1. /\ \A j \in DOMAIN shown[p] : shown[p][j].n < dgram.n
          /\ \A j \in DOMAIN toClient[p] : OnTheWay(p, j) => toClient[p][j].dgram.n < dgram.n
      BY <1>6, <1>18 DEF Reached
    <3>2. ASSUME NEW j \in DOMAIN shown[p], NEW k \in DOMAIN toClient'[p],
                 toClient'[p][k].action = "NOTIFICATION_ACTION"
          PROVE  shown[p][j].n < toClient'[p][k].dgram.n
      <4>1. CASE k \in DOMAIN toClient[p] /\ toClient'[p][k] = toClient[p][k]
        BY <2>1, <2>3, <3>2, <4>1 DEF OnTheWay
      <4>2. CASE toClient'[p][k] = m
        BY <1>6, <3>1, <4>2
      <4> QED
        BY <1>13, <4>1, <4>2
    <3>3. ASSUME NEW j \in DOMAIN toClient'[p], NEW k \in DOMAIN toClient'[p], j < k,
                 toClient'[p][j].action = "NOTIFICATION_ACTION",
                 toClient'[p][k].action = "NOTIFICATION_ACTION"
          PROVE  toClient'[p][j].dgram.n < toClient'[p][k].dgram.n
      <4>1. OnTheWay(p, j) /\ j \in DOMAIN toClient[p] /\ toClient'[p][j] = toClient[p][j]
        BY <1>13, <1>14, <3>3 DEF OnTheWay
      <4>2. CASE k \in DOMAIN toClient[p] /\ toClient'[p][k] = toClient[p][k]
        BY <2>1, <2>3, <3>3, <4>1, <4>2 DEF OnTheWay
      <4>3. CASE toClient'[p][k] = m
        BY <1>6, <3>1, <4>1, <4>3
      <4> QED
        BY <1>13, <4>2, <4>3
    <3> QED
      BY <2>1, <2>3, <3>2, <3>3
  <2> QED
    BY <2>2, <2>3
<1>24. ReachedOnce'
  <2> SUFFICES ASSUME ~aliased, NEW q \in Clients, NEW r \in Clients, q # r, IdOf[q] = IdOf[r],
                      NEW n, n \in Reached(q)', n \in Reached(r)'
               PROVE  FALSE
    BY <1>2 DEF ReachedOnce
  <2>1. ~(n \in Reached(q) /\ n \in Reached(r))
    BY DEF OrderInv, ReachedOnce
  <2>2. n = dgram.n /\ (q = p \/ r = p)
    BY <1>15, <1>16, <2>1
  <2>3. ASSUME NEW s \in Clients, IdOf[s] = IdOf[p], s # p, n \in Reached(s)' PROVE FALSE
    <3>1. n \in Reached(s)
      BY <1>15, <2>3
    <3>2. n < dgram.n
      BY <1>18, <2>3, <3>1
    <3> QED
      BY <1>4, <2>2, <3>2
  <2> QED
    BY <2>2, <2>3
<1> QED
  BY <1>20, <1>21, <1>22, <1>23, <1>24 DEF OrderInv

\* What the server sends, notifications apart, moves nothing up.
LEMMA ServerMoves ==
  ASSUME IInv, ServerStep, ~SendNotification
  PROVE  \A q \in Clients : MovesUp(q)
<1>1. CASE RefuseIntruder
  <2> DEFINE m == [action |-> "SHUTDOWN_INTRUDER"]
  <2>1. m \in ToClientPackets /\ m.action # "NOTIFICATION_ACTION" /\ DeliverTo(conn[cur], m)
    BY <1>1 DEF RefuseIntruder, ToClientPackets
  <2> HIDE DEF m
  <2> QED
    BY <2>1, MovesFacts
<1>2. CASE StopClient
  <2> DEFINE m == [action |-> "SHUTDOWN_CLOSE"]
  <2>1. /\ m \in ToClientPackets /\ m.action # "NOTIFICATION_ACTION"
        /\ DeliverTo(conn[sv_fds[idx]], m)
    BY <1>2 DEF StopClient, ToClientPackets
  <2> HIDE DEF m
  <2> QED
    BY <2>1, MovesFacts
<1>3. CASE ~RefuseIntruder /\ ~StopClient
  <2>1. UNCHANGED toClient
    BY <1>3 DEF ServerStep, ReadStdin, Accept, AcceptFails, Reconnect, AddNewSub,
       PollNewConnection, ConnectEof, ReceiveDatagram, NotificationSigpipe, NotificationBadFd,
       StartRound, ParseClientMessage, ClientMessageDies, ClientEof, EndRound, StopSigpipe, StopServer
  <2> QED
    BY <2>1, MovesFacts
<1> QED
  BY <1>1, <1>2, <1>3

\* The steps of the server.
LEMMA ServerOrder ==
  ASSUME IInv, IInv', RecordInv, OrderInv, UNCHANGED cliVars, ServerStep
  PROVE  OrderInv'
<1>1. CASE ReceiveDatagram
  BY <1>1, ReceiveOrder
<1>2. CASE SendNotification
  BY <1>2, ForwardOrder
<1>3. CASE ~ReceiveDatagram /\ ~SendNotification
  <2>1. UNCHANGED <<udp, arrived, shown>> /\ pc' # "notify"
    BY <1>3 DEF ServerStep, ReadStdin, Accept, AcceptFails, Reconnect, AddNewSub,
       PollNewConnection, RefuseIntruder, ConnectEof, NotificationSigpipe, NotificationBadFd,
       StartRound, ParseClientMessage, PacketReadyAt, ClientMessageDies, ClientEof, EndRound,
       StopClient, StopSigpipe, StopServer, Halt, Spin
  <2>2. aliased => aliased'
    BY <1>3 DEF ServerStep, ReadStdin, Accept, AcceptFails, Reconnect, AddNewSub,
       PollNewConnection, RefuseIntruder, ConnectEof, NotificationSigpipe, NotificationBadFd,
       StartRound, ParseClientMessage, ClientMessageDies, ClientEof, EndRound, StopClient,
       StopSigpipe, StopServer
  <2>3. \A q \in Clients : MovesUp(q)
    BY <1>3, ServerMoves
  <2>4. QueueOrder' /\ \A q \in Clients : Reached(q)' \subseteq Reached(q)
    BY <2>1, <2>2, <2>3, PositionsAreNumbers, QueueKept DEF OrderInv
  <2> QED
    BY <2>1, <2>2, <2>4, OrderKept
<1> QED
  BY <1>1, <1>2, <1>3

\* A reset takes the last packets of a socket and leaves the others in place.
LEMMA ResetsMove ==
  ASSUME IInv, Resets
  PROVE  \A q \in Clients : MovesUp(q)
<1>1. PICK p \in Clients : LoseToServer(p) \/ LoseToClient(p)
  BY DEF Resets
<1>2. toClient \in [Clients -> Seq(ToClientPackets)] /\ toClient[p] \in Seq(ToClientPackets)
  BY DEF IInv, TypeOK, SocketsTypeOK
<1>3. CASE LoseToServer(p)
  BY <1>3, MovesFacts DEF LoseToServer
<1>4. CASE LoseToClient(p)
  <2>1. /\ toClient[p] # <<>> /\ toClient' = [toClient EXCEPT ![p] = Front(toClient[p])]
    BY <1>4 DEF LoseToClient
  <2>2. \A k \in DOMAIN Front(toClient[p]) :
          k \in DOMAIN toClient[p] /\ Front(toClient[p])[k] = toClient[p][k]
    BY <1>2, <2>1, FrontFacts
  <2>3. \A q \in Clients : \A k \in DOMAIN toClient[q] : k + 0 = k
    <3>1. ASSUME NEW q \in Clients PROVE DOMAIN toClient[q] \subseteq Nat
      BY DeliveryTypes, LenProperties
    <3> QED
      BY <3>1
  <2>4. ASSUME NEW q \in Clients, NEW k \in DOMAIN toClient'[q]
        PROVE  k + 0 \in DOMAIN toClient[q] /\ toClient'[q][k] = toClient[q][k + 0]
    <3>1. CASE q = p
      BY <1>2, <2>1, <2>2, <2>3, <3>1
    <3>2. CASE q # p
      BY <1>2, <2>1, <2>3, <3>2
    <3> QED
      BY <3>1, <3>2
  <2> QED
    BY <2>4 DEF MovesUp
<1> QED
  BY <1>1, <1>3, <1>4

\* Every step of the system.
LEMMA NextOrder == IInv /\ IInv' /\ RecordInv /\ OrderInv /\ [Next]_vars => OrderInv'
<1> SUFFICES ASSUME IInv, IInv', RecordInv, OrderInv, [Next]_vars PROVE OrderInv'
  OBVIOUS
<1>1. CASE ServerStep /\ UNCHANGED cliVars
  BY <1>1, ServerOrder
<1>2. CASE \E p \in Clients : (ClientStep(p) \/ UserStep(p)) /\ UNCHANGED srvVars
  BY <1>2, ClientOrder
<1>3. CASE \E t \in Topics : Publish(t)
  BY <1>3, PublishOrder
<1>4. CASE OperatorExit \/ Resets \/ UNCHANGED vars
  <2>1. /\ UNCHANGED <<udp, arrived, shown, aliased, pc, dgram, pending, subs>>
        /\ Resets \/ UNCHANGED toClient
    BY <1>4 DEF OperatorExit, Resets, LoseToServer, LoseToClient, vars
  <2>2. \A q \in Clients : MovesUp(q)
    BY <2>1, MovesFacts, ResetsMove
  <2>3. QueueOrder' /\ \A q \in Clients : Reached(q)' \subseteq Reached(q)
    BY <2>1, <2>2, PositionsAreNumbers, QueueKept DEF OrderInv
  <2> QED
    BY <2>1, <2>3, OrderKept
<1> QED
  BY <1>1, <1>2, <1>3, <1>4 DEF Next, Resets

\* The order holds in every reachable state.
LEMMA OrderInvariance == Spec => []OrderInv
<1>1. ASSUME Init PROVE OrderInv
  <2>1. /\ \A p \in Clients : toClient[p] = <<>> /\ shown[p] = <<>>
        /\ pc = "poll" /\ udp = <<>>
    BY <1>1 DEF Init, SocketsInit, ServerInit, SubscriberInit
  <2>2. \A p \in Clients : Reached(p) = {}
    BY <2>1, EmptyFacts DEF Reached
  <2> QED
    BY <2>1, <2>2, EmptyFacts
    DEF OrderInv, ArrivalOrder, ReachedIsOld, ForwardedIsNext, PendingNotReached, QueueOrder,
        ReachedOnce
<1> QED
  BY <1>1, NextOrder, RecordInvariance, Invariance, PTL DEF Spec

\* Nobody sees two datagrams in another order than that of their arrival, and no
\* datagram is shown to two runs with one id, or twice to one run, whoever
\* leaves, returns or is refused in between (server.cpp:162-190, 207-249).
THEOREM ShownInOrderAndOnce == Spec => []InOrderAndOnce
<1>1. OrderInv => InOrderAndOnce
  <2> SUFFICES ASSUME OrderInv, ~aliased
               PROVE  /\ \A p \in Clients : \A m, n \in DOMAIN shown[p] :
                           m < n => shown[p][m].n < shown[p][n].n
                      /\ \A p, q \in Clients : p # q /\ IdOf[p] = IdOf[q] =>
                           Range(shown[p]) \cap Range(shown[q]) = {}
    BY DEF InOrderAndOnce
  <2>1. \A p \in Clients : \A d \in Range(shown[p]) : d.n \in Reached(p)
    BY DEF Range, Reached
  <2> QED
    BY <2>1 DEF OrderInv, QueueOrder, ReachedOnce
<1> QED
  BY <1>1, OrderInvariance, PTL

-----------------------------------------------------------------------------
(***************************************************************************)
(* Whom send_packet_to_subscribers() serves.                               *)
(***************************************************************************)

\* The datagram is in p's socket or on his screen.
Has(p) ==
  \/ \E k \in DOMAIN toClient[p] :
       toClient[p][k] = [action |-> "NOTIFICATION_ACTION", dgram |-> dgram]
  \/ \E k \in DOMAIN shown[p] : shown[p][k] = dgram

\* Record i is p's and has a subscription that the datagram matches.
WantedBy(i, p) ==
  i \in DOMAIN subs /\ subs[i].id = IdOf[p] /\ IsInterested(subs[i], dgram.topic)

ServedOrPending ==
  pc = "notify" =>
    \A p \in Clients : Polled(p) /\ peer[p] = "open" =>
      \A i \in DOMAIN subs : WantedBy(i, p) => i \in pending \/ Has(p)

\* The record of a polled run is online and names the run's descriptor.
LEMMA RecordOfPolled ==
  ASSUME IInv, Serving, NEW p \in Clients, Polled(p), NEW i \in DOMAIN subs, subs[i].id = IdOf[p]
  PROVE  subs[i].online /\ subs[i].fd \in Fds /\ conn[subs[i].fd] = p
<1>1. PICK k \in DOMAIN sv_fds : conn[sv_fds[k]] = p
  BY DEF Polled, Session
<1>2. PICK j \in DOMAIN subs : subs[j].fd = sv_fds[k] /\ subs[j].id = IdOf[p] /\ subs[j].online
  BY <1>1 DEF IInv, ServerInv, PolledHasRecord
<1>3. j = i
  BY <1>2 DEF IInv, ServerInv, RecordsDistinct
<1>4. sv_fds[k] \in Fds
  BY <1>1, PolledFacts
<1> QED
  BY <1>1, <1>2, <1>3, <1>4

\* The lookup finds the records of all polled runs that want the datagram.
LEMMA LookupFindsPolled ==
  ASSUME IInv, Serving, NEW p \in Clients, Polled(p), NEW topic, NEW i \in DOMAIN subs,
         subs[i].id = IdOf[p], IsInterested(subs[i], topic)
  PROVE  i \in SubsByTopic(topic)
BY RecordOfPolled DEF SubsByTopic

\* A turn of the loop reaches the run it is for, and takes nothing from others.
LEMMA TurnServes ==
  ASSUME IInv, SendNotification, NEW p \in Clients, Polled(p), peer[p] = "open",
         NEW i \in DOMAIN subs, WantedBy(i, p), i \in pending \/ Has(p)
  PROVE  \/ i \in pending'
         \/ \E k \in DOMAIN toClient'[p] :
              toClient'[p][k] = [action |-> "NOTIFICATION_ACTION", dgram |-> dgram]
         \/ \E k \in DOMAIN shown[p] : shown[p][k] = dgram
<1> DEFINE m == [action |-> "NOTIFICATION_ACTION", dgram |-> dgram]
<1>1. PICK j \in pending :
        conn[subs[j].fd] # None /\ DeliverTo(conn[subs[j].fd], m) /\ pending' = pending \ {j}
  BY DEF SendNotification
<1>2. pc = "notify" /\ Serving
  BY DEF SendNotification, Serving, Alive
<1>3. m \in ToClientPackets
  BY <1>2, OrderTypes DEF ToClientPackets
<1> HIDE DEF m
<1>4. toClient \in [Clients -> Seq(ToClientPackets)] /\ toClient[p] \in Seq(ToClientPackets)
  BY DEF IInv, TypeOK, SocketsTypeOK
<1>5. /\ DOMAIN Append(toClient[p], m) = 1 .. Len(toClient[p]) + 1
      /\ DOMAIN toClient[p] = 1 .. Len(toClient[p]) /\ Len(toClient[p]) \in Nat
      /\ \A k \in DOMAIN toClient[p] : Append(toClient[p], m)[k] = toClient[p][k]
      /\ Append(toClient[p], m)[Len(toClient[p]) + 1] = m
  BY <1>3, <1>4, AppendFacts, LenProperties
<1>6. CASE i = j
  <2>1. conn[subs[j].fd] = p
    BY <1>2, <1>6, RecordOfPolled DEF WantedBy
  <2>2. toClient'[p] = Append(toClient[p], m)
    BY <1>1, <1>4, <2>1 DEF DeliverTo
  <2>3. Len(toClient[p]) + 1 \in DOMAIN toClient'[p] /\ toClient'[p][Len(toClient[p]) + 1] = m
    BY <1>5, <2>2
  <2> QED
    BY <2>3 DEF m
<1>7. CASE i # j /\ i \in pending
  BY <1>1, <1>7
<1>8. CASE \E k \in DOMAIN toClient[p] : toClient[p][k] = m
  <2>1. PICK k \in DOMAIN toClient[p] : toClient[p][k] = m
    BY <1>8
  <2>2. toClient'[p] = toClient[p] \/ toClient'[p] = Append(toClient[p], m)
    BY <1>1, <1>4 DEF DeliverTo
  <2>3. k \in DOMAIN toClient'[p] /\ toClient'[p][k] = m
    BY <1>5, <2>1, <2>2
  <2> QED
    BY <2>3 DEF m
<1>9. CASE \E k \in DOMAIN shown[p] : shown[p][k] = dgram
  BY <1>9
<1> QED
  BY <1>6, <1>7, <1>8, <1>9 DEF Has, m

\* What a run does to its own socket and screen while the server forwards.
LEMMA RunKeepsWhatItHas ==
  ASSUME IInv, UNCHANGED srvVars, NEW p \in Clients, ClientStep(p) \/ UserStep(p),
         NEW q \in Clients, ServerEndOpen(q), peer'[q] = "open"
  PROVE  peer[q] = "open" /\ (Has(q) => Has(q)')
<1>1. /\ UNCHANGED <<conn, dgram>> /\ cl[p] \in {"off", "connecting", "run", "leaving"}
      /\ \A r \in Clients : r # p =>
           cl'[r] = cl[r] /\ peer'[r] = peer[r] /\ toClient'[r] = toClient[r]
  BY ClientFrame
<1>2. /\ peer \in [Clients -> {"none", "open", "closed"}]
      /\ toClient \in [Clients -> Seq(ToClientPackets)]
      /\ shown \in [Clients -> Seq(Datagrams)]
  BY DEF IInv, TypeOK, SocketsTypeOK, SubscriberTypeOK
<1>3. CASE ReceiveNotification(p)
  <2> DEFINE d == Head(toClient[p]).dgram
  <2>1. /\ toClient[p] # <<>> /\ Head(toClient[p]).action = "NOTIFICATION_ACTION"
        /\ shown' = [shown EXCEPT ![p] = Append(shown[p], d)]
        /\ toClient' = [toClient EXCEPT ![p] = Tail(toClient[p])] /\ UNCHANGED peer
    BY <1>3 DEF ReceiveNotification
  <2>2. toClient[p] \in Seq(ToClientPackets) /\ shown[p] \in Seq(Datagrams)
    BY <1>2
  <2>3. /\ DOMAIN toClient[p] = 1 .. Len(toClient[p]) /\ Len(toClient[p]) \in Nat
        /\ DOMAIN Tail(toClient[p]) = 1 .. Len(toClient[p]) - 1
        /\ \A k \in DOMAIN Tail(toClient[p]) : Tail(toClient[p])[k] = toClient[p][k + 1]
        /\ Head(toClient[p]) = toClient[p][1] /\ Head(toClient[p]) \in ToClientPackets
    BY <2>1, <2>2, TailFacts, LenProperties
  <2>4. d \in Datagrams /\ d = toClient[p][1].dgram
    BY <2>1, <2>3 DEF ToClientPackets
  <2> HIDE DEF d
  <2>5. /\ DOMAIN Append(shown[p], d) = 1 .. Len(shown[p]) + 1
        /\ DOMAIN shown[p] = 1 .. Len(shown[p]) /\ Len(shown[p]) \in Nat
        /\ \A k \in DOMAIN shown[p] : Append(shown[p], d)[k] = shown[p][k]
        /\ Append(shown[p], d)[Len(shown[p]) + 1] = d
    BY <2>2, <2>4, AppendFacts, LenProperties
  <2>6. /\ toClient'[p] = Tail(toClient[p]) /\ shown'[p] = Append(shown[p], d)
    BY <1>2, <2>1
  <2>7. CASE q # p
    BY <1>1, <1>2, <2>1, <2>7 DEF Has
  <2>8. ASSUME q = p, NEW k \in DOMAIN toClient[p],
               toClient[p][k] = [action |-> "NOTIFICATION_ACTION", dgram |-> dgram]
        PROVE  Has(q)'
    <3>1. CASE k = 1
      <4>1. d = dgram
        BY <2>4, <2>8, <3>1
      <4>2. Len(shown[p]) + 1 \in DOMAIN shown'[p] /\ shown'[p][Len(shown[p]) + 1] = dgram
        BY <2>5, <2>6, <4>1
      <4> QED
        BY <1>1, <2>8, <4>2 DEF Has
    <3>2. CASE k # 1
      <4>1. k - 1 \in DOMAIN Tail(toClient[p]) /\ (k - 1) + 1 = k
        BY <2>3, <3>2
      <4>2. k - 1 \in DOMAIN toClient'[p] /\ toClient'[p][k - 1] = toClient[p][k]
        BY <2>3, <2>6, <4>1
      <4> QED
        BY <1>1, <2>8, <4>2 DEF Has
    <3> QED
      BY <3>1, <3>2
  <2>9. ASSUME q = p, NEW k \in DOMAIN shown[p], shown[p][k] = dgram PROVE Has(q)'
    <3>1. k \in DOMAIN shown'[p] /\ shown'[p][k] = dgram
      BY <2>5, <2>6, <2>9
    <3> QED
      BY <1>1, <2>9, <3>1 DEF Has
  <2> QED
    BY <2>1, <2>7, <2>8, <2>9 DEF Has
<1>4. CASE ~ReceiveNotification(p)
  <2>1. /\ UNCHANGED shown
        /\ \/ UNCHANGED <<toClient, peer>>
           \/ Connect(p)
           \/ \E u : CloseClientEnd(p, u)
    BY <1>4 DEF ClientStep, UserStep, Connect, ConnectRefused, SendConnect, Subscribe, Unsubscribe,
       Exit, CloseAfterExit, ClientSigpipe, Kill, ReceiveShutdown, ReceiveEof
  <2>2. CASE Connect(p)
    <3>1. q # p /\ UNCHANGED toClient
      BY <2>2 DEF Connect, IInv, NothingBeforeConnect
    <3> QED
      BY <1>1, <2>1, <3>1 DEF Has
  <2>3. CASE \E u : CloseClientEnd(p, u)
    <3>1. q # p
      BY <1>2, <2>3 DEF CloseClientEnd
    <3> QED
      BY <1>1, <2>1, <3>1 DEF Has
  <2>4. CASE UNCHANGED <<toClient, peer>>
    BY <1>1, <2>1, <2>4 DEF Has
  <2> QED
    BY <2>1, <2>2, <2>3, <2>4
<1> QED
  BY <1>3, <1>4

\* Every step.
LEMMA NextServed == IInv /\ ServedOrPending /\ [Next]_vars => ServedOrPending'
<1> SUFFICES ASSUME IInv, ServedOrPending, [Next]_vars, pc' = "notify",
                    NEW q \in Clients, Polled(q)', peer'[q] = "open",
                    NEW i \in DOMAIN subs', WantedBy(i, q)'
             PROVE  i \in pending' \/ Has(q)'
  BY DEF ServedOrPending
<1>1. CASE ServerStep /\ UNCHANGED cliVars
  <2>1. CASE ReceiveDatagram
    <3>1. /\ UNCHANGED <<conn, sv_fds, subs>> /\ Serving
          /\ pending' = SubsByTopic(Head(udp).topic) /\ dgram' = Head(udp)
      BY <2>1 DEF ReceiveDatagram, Serving, Alive
    <3>2. /\ Polled(q) /\ i \in DOMAIN subs /\ subs[i].id = IdOf[q]
          /\ IsInterested(subs[i], Head(udp).topic)
      BY <3>1 DEF Polled, Session, WantedBy, IsInterested
    <3> QED
      BY <3>1, <3>2, LookupFindsPolled
  <2>2. CASE SendNotification
    <3>1. UNCHANGED <<conn, sv_fds, subs, peer, shown, dgram>> /\ pc = "notify"
      BY <1>1, <2>2 DEF SendNotification
    <3>2. Polled(q) /\ peer[q] = "open" /\ i \in DOMAIN subs /\ WantedBy(i, q)
      BY <3>1 DEF Polled, Session, WantedBy, IsInterested
    <3>3. i \in pending \/ Has(q)
      BY <3>1, <3>2 DEF ServedOrPending
    <3> QED
      BY <2>2, <3>1, <3>2, <3>3, TurnServes DEF Has
  <2>3. CASE ~ReceiveDatagram /\ ~SendNotification
    <3>1. pc' # "notify"
      BY <1>1, <2>3 DEF ServerStep, ReadStdin, Accept, AcceptFails, Reconnect, AddNewSub,
         PollNewConnection, RefuseIntruder, ConnectEof, NotificationSigpipe, NotificationBadFd,
         StartRound, ParseClientMessage, PacketReadyAt, ClientMessageDies, ClientEof, EndRound,
         StopClient, StopSigpipe, StopServer, Halt, Spin
    <3> QED
      BY <3>1
  <2> QED
    BY <2>1, <2>2, <2>3
<1>2. ASSUME NEW p \in Clients, ClientStep(p) \/ UserStep(p), UNCHANGED srvVars
      PROVE  i \in pending' \/ Has(q)'
  <2>1. UNCHANGED <<conn, sv_fds, subs, dgram, pending, pc>>
    BY <1>2, ClientFrame
  <2>2. Polled(q) /\ i \in DOMAIN subs /\ WantedBy(i, q) /\ pc = "notify"
    BY <2>1 DEF Polled, Session, WantedBy, IsInterested
  <2>3. ServerEndOpen(q)
    BY <2>2, WantedIsOpen DEF Serving, Alive
  <2>4. peer[q] = "open" /\ (Has(q) => Has(q)')
    BY <1>2, <2>3, RunKeepsWhatItHas
  <2> QED
    BY <2>1, <2>2, <2>4 DEF ServedOrPending
<1>3. CASE (\E t \in Topics : Publish(t)) \/ OperatorExit \/ UNCHANGED vars
  <2>1. UNCHANGED <<conn, sv_fds, subs, dgram, pending, pc, peer, toClient, shown>>
    BY <1>3 DEF Publish, OperatorExit, vars
  <2> QED
    BY <2>1 DEF ServedOrPending, Polled, Session, WantedBy, IsInterested, Has
<1>4. CASE Resets
  <2>1. UNCHANGED <<conn, backlog, sv_fds, subs, dgram, pending, pc, peer, shown>>
    BY <1>4 DEF Resets, LoseToServer, LoseToClient
  <2>2. Polled(q) /\ i \in DOMAIN subs /\ WantedBy(i, q) /\ pc = "notify" /\ peer[q] = "open"
    BY <2>1 DEF Polled, Session, WantedBy, IsInterested
  <2>3. ServerEndOpen(q)
    BY <2>2, WantedIsOpen DEF Serving, Alive
  <2>4. toClient'[q] = toClient[q]
    <3>1. toClient \in [Clients -> Seq(ToClientPackets)]
      BY DEF IInv, TypeOK, SocketsTypeOK
    <3> QED
      BY <1>4, <2>3, <3>1 DEF Resets, LoseToServer, LoseToClient
  <2>5. Has(q) => Has(q)'
    BY <2>1, <2>4 DEF Has
  <2> QED
    BY <2>1, <2>2, <2>5 DEF ServedOrPending
<1> QED
  BY <1>1, <1>2, <1>3, <1>4 DEF Next, Resets

\* The step with which the server is done with a datagram.
LEMMA DoneServes ==
  ASSUME IInv, ServedOrPending, Next, NEW d \in Range(udp) \cup {dgram}, DoneWith(d)
  PROVE  Serves(d)
<1> SUFFICES ASSUME NEW p \in Clients, Polled(p), peer[p] = "open", Wants(p, d)
             PROVE  \/ [action |-> "NOTIFICATION_ACTION", dgram |-> d] \in Range(toClient'[p])
                    \/ d \in Range(shown[p])
  BY DEF Serves
<1>1. Serving /\ pc' = "poll"
  BY DEF DoneWith, Serving, Alive
<1>2. PICK i \in DOMAIN subs : subs[i].id = IdOf[p] /\ IsInterested(subs[i], d.topic)
  BY DEF Wants
<1>3. CASE pc = "notify" /\ d = dgram
  <2>1. SendNotification /\ pending' = {}
    <3>1. ServerStep
      BY <1>1, <1>3 DEF Next, Publish, OperatorExit
    <3>2. pc' = "poll" /\ pc = "notify"
      BY <1>1, <1>3
    <3>3. SendNotification
      BY <3>1, <3>2 DEF ServerStep, ReadStdin, Accept, AcceptFails, Reconnect, AddNewSub,
         PollNewConnection, RefuseIntruder, ConnectArrives, ConnectEof, ReceiveDatagram,
         NotificationSigpipe, NotificationBadFd, StartRound, ParseClientMessage, PacketReadyAt,
         ClientMessageDies, ClientEof, EndRound, StopClient, StopSigpipe, StopServer, Halt, Spin
    <3> QED
      BY <3>2, <3>3 DEF SendNotification
  <2>2. WantedBy(i, p)
    BY <1>2, <1>3 DEF WantedBy
  <2>3. i \in pending \/ Has(p)
    BY <1>3, <2>2 DEF ServedOrPending
  <2>4. \/ \E k \in DOMAIN toClient'[p] :
             toClient'[p][k] = [action |-> "NOTIFICATION_ACTION", dgram |-> dgram]
        \/ \E k \in DOMAIN shown[p] : shown[p][k] = dgram
    BY <2>1, <2>2, <2>3, TurnServes
  <2> QED
    BY <1>3, <2>4 DEF Range
<1>4. CASE pc = "poll" /\ udp # <<>> /\ udp' = Tail(udp) /\ d = Head(udp)
  <2>1. udp \in Seq(Datagrams) /\ Len(Tail(udp)) # Len(udp)
    BY <1>4, OrderTypes, TailFacts, LenProperties
  <2>2. ReceiveDatagram
    <3>1. CASE ServerStep
      BY <1>1, <1>4, <2>1, <3>1 DEF ServerStep, ReadStdin, Accept, AcceptFails, Reconnect,
         AddNewSub, PollNewConnection, RefuseIntruder, ConnectArrives, ConnectEof,
         SendNotification, NotificationSigpipe, NotificationBadFd, StartRound,
         ParseClientMessage, PacketReadyAt, ClientMessageDies, ClientEof, EndRound, StopClient,
         StopSigpipe, StopServer, Halt, Spin
    <3>2. CASE \E q \in Clients : ClientStep(q) \/ UserStep(q)
      <4>1. UNCHANGED udp
        BY <3>2 DEF ClientStep, UserStep, Connect, ConnectRefused, SendConnect, Subscribe,
           Unsubscribe, Exit, CloseAfterExit, ClientSigpipe, Kill, ReceiveNotification,
           ReceiveShutdown, ReceiveEof
      <4> QED
        BY <1>4, <2>1, <4>1
    <3>3. ASSUME NEW t \in Topics, Publish(t) PROVE FALSE
      <4> DEFINE e == [n |-> arrived + 1, topic |-> t]
      <4>1. e \in Datagrams /\ udp' = Append(udp, e)
        BY <3>3, OrderTypes DEF Publish, Datagrams
      <4> HIDE DEF e
      <4>2. Len(udp') = Len(udp) + 1 /\ Len(udp') = Len(udp) - 1 /\ Len(udp) \in Nat
        BY <1>4, <2>1, <4>1, AppendFacts, TailFacts, LenProperties
      <4> QED
        BY <4>2
    <3>4. CASE OperatorExit \/ Resets
      BY <1>4, <2>1, <3>4 DEF OperatorExit, Resets, LoseToServer, LoseToClient
    <3> QED
      BY <3>1, <3>2, <3>3, <3>4 DEF Next, Resets
  <2>3. SubsByTopic(d.topic) = {}
    BY <1>1, <1>4, <2>2 DEF ReceiveDatagram
  <2> QED
    BY <1>1, <1>2, <2>3, LookupFindsPolled
<1> QED
  BY <1>3, <1>4 DEF DoneWith

\* send_packet_to_subscribers returns only when the datagram has reached every
\* connected subscriber who wants it, whatever happened to descriptors and
\* records before (server.cpp:170-190, 250).
THEOREM NobodyIsLeftOut == Spec => ForwardingServesAll
<1>1. Init => ServedOrPending
  BY DEF Init, ServerInit, ServedOrPending
<1>2. IInv /\ ServedOrPending /\ [Next]_vars
        => [\A d \in Range(udp) \cup {dgram} : DoneWith(d) => Serves(d)]_vars
  BY DoneServes
<1> QED
  BY <1>1, <1>2, NextServed, Invariance, PTL DEF Spec, ForwardingServesAll

-----------------------------------------------------------------------------
(***************************************************************************)
(* The way of a command: counted when it is sent, and in the record when   *)
(* the server has read it.                                                 *)
(***************************************************************************)

Net(t) == [p \in Clients |-> NetRead(p, t)]
Command(act, t) == [action |-> act, topic |-> t]
Actions == {"SUBSCRIBE_ACTION", "UNSUBSCRIBE_ACTION"}

\* A packet that goes to the end of a queue waits there.
LEMMA WaitingGrows ==
  ASSUME NEW S, NEW q \in Seq(S), NEW m \in S, NEW act, NEW t
  PROVE  /\ Waiting(q, act, t) \in Nat
         /\ Waiting(Append(q, m), act, t)
              = Waiting(q, act, t) + (IF m = Command(act, t) THEN 1 ELSE 0)
<1> DEFINE W == {n \in DOMAIN q : q[n] = Command(act, t)}
           V == {n \in DOMAIN Append(q, m) : Append(q, m)[n] = Command(act, t)}
<1>1. /\ DOMAIN q = 1 .. Len(q) /\ Len(q) \in Nat
      /\ DOMAIN Append(q, m) = 1 .. Len(q) + 1
      /\ \A k \in DOMAIN q : Append(q, m)[k] = q[k]
      /\ Append(q, m)[Len(q) + 1] = m
  BY AppendFacts, LenProperties
<1>2. IsFiniteSet(W) /\ Cardinality(W) \in Nat
  <2>1. IsFiniteSet(DOMAIN q)
    BY <1>1, FS_Interval
  <2> QED
    BY <2>1, FS_Subset, FS_CardinalityType
<1>3. Len(q) + 1 \notin W
  BY <1>1
<1>w. Waiting(q, act, t) = Cardinality(W) /\ Waiting(Append(q, m), act, t) = Cardinality(V)
  BY DEF Waiting, Command
<1>4. CASE m = Command(act, t)
  <2>1. V = W \cup {Len(q) + 1}
    BY <1>1, <1>4
  <2> HIDE DEF V, W
  <2>2. Cardinality(V) = Cardinality(W) + 1
    BY <1>2, <1>3, <2>1, FS_AddElement
  <2> QED
    BY <1>2, <1>4, <1>w, <2>2
<1>5. CASE m # Command(act, t)
  <2>1. V = W
    BY <1>1, <1>5
  <2> HIDE DEF V, W
  <2> QED
    BY <1>2, <1>5, <1>w, <2>1
<1> QED
  BY <1>4, <1>5

\* A packet that is taken from the front does not wait any more.
LEMMA WaitingShrinks ==
  ASSUME NEW S, NEW q \in Seq(S), q # <<>>, NEW act, NEW t
  PROVE  Waiting(Tail(q), act, t)
           = Waiting(q, act, t) - (IF Head(q) = Command(act, t) THEN 1 ELSE 0)
<1> DEFINE W == {n \in DOMAIN q : q[n] = Command(act, t)}
           V == {n \in DOMAIN Tail(q) : Tail(q)[n] = Command(act, t)}
           next == [n \in V |-> n + 1]
<1>1. /\ DOMAIN q = 1 .. Len(q) /\ Len(q) \in Nat
      /\ DOMAIN Tail(q) = 1 .. Len(q) - 1
      /\ \A k \in DOMAIN Tail(q) : k + 1 \in DOMAIN q /\ Tail(q)[k] = q[k + 1]
      /\ 1 \in DOMAIN q /\ Head(q) = q[1]
  BY TailFacts, LenProperties
<1>2. IsFiniteSet(W) /\ Cardinality(W) \in Nat
  <2>1. IsFiniteSet(DOMAIN q)
    BY <1>1, FS_Interval
  <2> QED
    BY <2>1, FS_Subset, FS_CardinalityType
<1>3. IsFiniteSet(V)
  <2>1. IsFiniteSet(DOMAIN Tail(q))
    BY <1>1, FS_Interval
  <2> QED
    BY <2>1, FS_Subset
<1>4. \A n \in V : n \in Nat /\ n + 1 \in W \ {1}
  <2> SUFFICES ASSUME NEW n \in V PROVE n \in Nat /\ n + 1 \in W \ {1}
    OBVIOUS
  <2>1. n \in 1 .. Len(q) - 1 /\ n + 1 \in DOMAIN q /\ q[n + 1] = Command(act, t)
    BY <1>1
  <2> QED
    BY <1>1, <2>1
<1>5. \A k \in W \ {1} : \E n \in V : n + 1 = k
  <2> SUFFICES ASSUME NEW k \in W \ {1} PROVE k - 1 \in V /\ (k - 1) + 1 = k
    OBVIOUS
  <2>1. k \in 1 .. Len(q) /\ k # 1 /\ q[k] = Command(act, t)
    BY <1>1
  <2>2. k - 1 \in DOMAIN Tail(q) /\ (k - 1) + 1 = k
    BY <1>1, <2>1
  <2>3. Tail(q)[k - 1] = q[k]
    BY <1>1, <2>2
  <2> QED
    BY <2>1, <2>2, <2>3
<1>6. ExistsBijection(V, W \ {1})
  <2> HIDE DEF V, W
  <2>1. next \in [V -> W \ {1}]
    BY <1>4
  <2>2. next \in Injection(V, W \ {1})
    BY <1>4, <2>1 DEF Injection, IsInjective
  <2>3. next \in Surjection(V, W \ {1})
    BY <1>5, <2>1 DEF Surjection
  <2> QED
    BY <2>2, <2>3 DEF Bijection, ExistsBijection
<1>7. Cardinality(W \ {1}) = Cardinality(V)
  BY <1>3, <1>6, FS_Bijection
<1>8. Cardinality(W \ {1}) = Cardinality(W) - (IF 1 \in W THEN 1 ELSE 0)
  <2> HIDE DEF V, W
  <2>1. CASE 1 \in W
    BY <1>2, <2>1, FS_RemoveElement
  <2>2. CASE 1 \notin W
    <3>1. W \ {1} = W
      BY <2>2
    <3>2. Cardinality(W \ {1}) = Cardinality(W)
      BY <3>1, Zenon
    <3> QED
      BY <1>2, <2>2, <3>2
  <2> QED
    BY <2>1, <2>2
<1>9. 1 \in W <=> Head(q) = Command(act, t)
  BY <1>1
<1>10. Waiting(q, act, t) = Cardinality(W) /\ Waiting(Tail(q), act, t) = Cardinality(V)
  BY DEF Waiting, Command
<1> HIDE DEF V, W
<1> QED
  BY <1>2, <1>7, <1>8, <1>9, <1>10

\* Two queues one behind the other.
LEMMA WaitingInBoth ==
  ASSUME NEW S, NEW q \in Seq(S), NEW l \in Seq(S), NEW act, NEW t
  PROVE  /\ Waiting(q, act, t) \in Nat /\ Waiting(l, act, t) \in Nat
         /\ Waiting(q \o l, act, t) = Waiting(q, act, t) + Waiting(l, act, t)
<1> DEFINE c == Command(act, t)
           W == {n \in DOMAIN q : q[n] = c}
           V == {n \in DOMAIN l : l[n] = c}
           B == {n \in DOMAIN (q \o l) : (q \o l)[n] = c}
           R == B \ W
           far == [n \in V |-> Len(q) + n]
<1>1. /\ DOMAIN q = 1 .. Len(q) /\ Len(q) \in Nat
      /\ DOMAIN l = 1 .. Len(l) /\ Len(l) \in Nat
  BY LenProperties
<1>2. /\ DOMAIN (q \o l) = 1 .. Len(q) + Len(l)
      /\ \A k \in 1 .. Len(q) + Len(l) :
           (q \o l)[k] = IF k <= Len(q) THEN q[k] ELSE l[k - Len(q)]
  <2>1. q \o l \in Seq(S) /\ Len(q \o l) = Len(q) + Len(l)
    BY ConcatProperties
  <2>2. DOMAIN (q \o l) = 1 .. Len(q \o l)
    BY <2>1, LenProperties
  <2> QED
    BY <2>1, <2>2, ConcatProperties
<1>3. \A k \in DOMAIN q : k \in DOMAIN (q \o l) /\ (q \o l)[k] = q[k]
  <2> SUFFICES ASSUME NEW k \in DOMAIN q
               PROVE  k \in DOMAIN (q \o l) /\ (q \o l)[k] = q[k]
    OBVIOUS
  <2>1. k \in 1 .. Len(q) + Len(l) /\ k <= Len(q)
    BY <1>1
  <2> QED
    BY <1>2, <2>1
<1>4. \A k \in DOMAIN (q \o l) : k \notin DOMAIN q =>
        k - Len(q) \in DOMAIN l /\ (q \o l)[k] = l[k - Len(q)] /\ Len(q) + (k - Len(q)) = k
  <2> SUFFICES ASSUME NEW k \in DOMAIN (q \o l), k \notin DOMAIN q
               PROVE  /\ k - Len(q) \in DOMAIN l /\ (q \o l)[k] = l[k - Len(q)]
                      /\ Len(q) + (k - Len(q)) = k
    OBVIOUS
  <2>1. k \in 1 .. Len(q) + Len(l) /\ ~(k <= Len(q))
    BY <1>1, <1>2
  <2>2. k - Len(q) \in 1 .. Len(l) /\ Len(q) + (k - Len(q)) = k
    BY <1>1, <2>1
  <2> QED
    BY <1>1, <1>2, <2>1, <2>2
<1>5. \A n \in DOMAIN l :
        Len(q) + n \in DOMAIN (q \o l) /\ Len(q) + n \notin DOMAIN q /\ (q \o l)[Len(q) + n] = l[n]
  <2> SUFFICES ASSUME NEW n \in DOMAIN l
               PROVE  /\ Len(q) + n \in DOMAIN (q \o l) /\ Len(q) + n \notin DOMAIN q
                      /\ (q \o l)[Len(q) + n] = l[n]
    OBVIOUS
  <2>1. PICK x : x = Len(q) + n
    OBVIOUS
  <2>2. x \in 1 .. Len(q) + Len(l) /\ ~(x <= Len(q)) /\ x - Len(q) = n
    BY <1>1, <2>1
  <2>3. (q \o l)[x] = l[n]
    BY <1>2, <2>2
  <2> QED
    BY <1>1, <1>2, <2>1, <2>2, <2>3
<1>6. IsFiniteSet(W) /\ IsFiniteSet(V)
  <2>1. IsFiniteSet(DOMAIN q) /\ IsFiniteSet(DOMAIN l)
    BY <1>1, FS_Interval
  <2> QED
    BY <2>1, FS_Subset
<1>7. W \subseteq B
  BY <1>3
<1>8. /\ \A n \in V : Len(q) + n \in R
      /\ \A k \in R : \E n \in V : Len(q) + n = k
  <2>1. ASSUME NEW n \in V PROVE Len(q) + n \in R
    BY <1>5
  <2>2. ASSUME NEW k \in R PROVE \E n \in V : Len(q) + n = k
    <3>1. k \in DOMAIN (q \o l) /\ (q \o l)[k] = c /\ k \notin DOMAIN q
      BY <1>3
    <3>2. k - Len(q) \in V /\ Len(q) + (k - Len(q)) = k
      BY <1>4, <3>1
    <3> QED
      BY <3>2
  <2> QED
    BY <2>1, <2>2
<1>9. ExistsBijection(V, R)
  <2>1. \A n \in V : n \in Nat
    BY <1>1
  <2> HIDE DEF V, R
  <2>2. far \in [V -> R]
    BY <1>8
  <2>3. far \in Injection(V, R)
    BY <1>1, <2>1, <2>2 DEF Injection, IsInjective
  <2>4. far \in Surjection(V, R)
    BY <1>8, <2>2 DEF Surjection
  <2> QED
    BY <2>3, <2>4 DEF Bijection, ExistsBijection
<1>10. W \cap R = {} /\ W \cup R = B
  BY <1>7
<1>11. /\ Waiting(q, act, t) = Cardinality(W) /\ Waiting(l, act, t) = Cardinality(V)
       /\ Waiting(q \o l, act, t) = Cardinality(B)
  BY DEF Waiting, Command
<1> HIDE DEF c, W, V, B, R
<1>12. IsFiniteSet(R) /\ Cardinality(R) = Cardinality(V)
  BY <1>6, <1>9, FS_Bijection
<1>13. Cardinality(B) = Cardinality(W) + Cardinality(R) - Cardinality({})
  BY <1>6, <1>10, <1>12, FS_Union
<1>14. Cardinality({}) = 0 /\ Cardinality(W) \in Nat /\ Cardinality(V) \in Nat
  BY <1>6, FS_EmptySet, FS_CardinalityType
<1> QED
  BY <1>11, <1>12, <1>13, <1>14

\* The types of what is counted.
LEMMA NetTypes ==
  ASSUME IInv
  PROVE  /\ \A p \in Clients, t \in Patterns :
              /\ asked[p][t] \in Nat /\ dropped[p][t] \in Nat
              /\ \A act : Waiting(Unread(p), act, t) \in Nat
              /\ NetRead(p, t) \in Int
         /\ \A p \in Clients :
              toServer[p] \in Seq(ToServerPackets) /\ lost[p] \in Seq(ToServerPackets)
<1>1. /\ asked \in [Clients -> [Patterns -> Nat]] /\ dropped \in [Clients -> [Patterns -> Nat]]
      /\ \A p \in Clients :
           toServer[p] \in Seq(ToServerPackets) /\ lost[p] \in Seq(ToServerPackets)
  BY DEF IInv, TypeOK, SocketsTypeOK, SubscriberTypeOK
<1>2. \A p \in Clients : Unread(p) \in Seq(ToServerPackets)
  BY <1>1, ConcatProperties DEF Unread
<1>3. \A p \in Clients : \A t, act : Waiting(Unread(p), act, t) \in Nat
  BY <1>2, WaitingInBoth
<1>4. ASSUME NEW p \in Clients, NEW t \in Patterns PROVE NetRead(p, t) \in Int
  <2>1. asked[p][t] \in Nat /\ dropped[p][t] \in Nat
    BY <1>1
  <2>2. /\ Waiting(Unread(p), "SUBSCRIBE_ACTION", t) \in Nat
        /\ Waiting(Unread(p), "UNSUBSCRIBE_ACTION", t) \in Nat
    BY <1>3
  <2> QED
    BY <2>1, <2>2 DEF NetRead
<1> QED
  BY <1>1, <1>3, <1>4

\* What one step does to what is asked for, what waits, and what was read.
SameNet == \A p \in Clients, t \in Patterns : NetRead(p, t)' = NetRead(p, t)
Gain(m, t) ==
  IF m = Command("SUBSCRIBE_ACTION", t) THEN 1
  ELSE IF m = Command("UNSUBSCRIBE_ACTION", t) THEN -1 ELSE 0

\* A run that sends counts in the same step what it sends.
LEMMA SendingCounts ==
  ASSUME IInv, NEW p \in Clients, NEW m \in ToServerPackets, SendToServer(p, m), UNCHANGED lost,
         \A q \in Clients, t \in Patterns :
           /\ asked'[q][t]
                = asked[q][t] + (IF q = p /\ m = Command("SUBSCRIBE_ACTION", t) THEN 1 ELSE 0)
           /\ dropped'[q][t]
                = dropped[q][t] + (IF q = p /\ m = Command("UNSUBSCRIBE_ACTION", t) THEN 1 ELSE 0)
  PROVE  SameNet
<1> SUFFICES ASSUME NEW q \in Clients, NEW t \in Patterns
             PROVE  NetRead(q, t)' = NetRead(q, t)
  BY DEF SameNet
<1>1. /\ asked[q][t] \in Nat /\ dropped[q][t] \in Nat
      /\ toServer[q] \in Seq(ToServerPackets) /\ lost[q] \in Seq(ToServerPackets)
  BY NetTypes
<1>2. toServer'[q] = IF q = p THEN Append(toServer[q], m) ELSE toServer[q]
  BY DEF SendToServer, IInv, TypeOK, SocketsTypeOK
<1>3. ASSUME NEW act
      PROVE  /\ Waiting(toServer[q] \o lost[q], act, t) \in Nat
             /\ Waiting(toServer'[q] \o lost[q], act, t)
                  = Waiting(toServer[q] \o lost[q], act, t)
                      + (IF q = p /\ m = Command(act, t) THEN 1 ELSE 0)
  <2>1. /\ Waiting(toServer[q], act, t) \in Nat /\ Waiting(lost[q], act, t) \in Nat
        /\ Waiting(toServer[q] \o lost[q], act, t)
             = Waiting(toServer[q], act, t) + Waiting(lost[q], act, t)
    BY <1>1, WaitingInBoth
  <2>2. CASE q = p
    <3>1. toServer'[q] = Append(toServer[q], m) /\ toServer'[q] \in Seq(ToServerPackets)
      BY <1>1, <1>2, <2>2, AppendFacts
    <3>2. Waiting(toServer'[q], act, t)
            = Waiting(toServer[q], act, t) + (IF m = Command(act, t) THEN 1 ELSE 0)
      BY <1>1, <3>1, WaitingGrows
    <3>3. \A s \in Seq(ToServerPackets) :
            Waiting(s \o lost[q], act, t) = Waiting(s, act, t) + Waiting(lost[q], act, t)
      BY <1>1, WaitingInBoth
    <3>4. Waiting(toServer'[q] \o lost[q], act, t)
            = Waiting(toServer'[q], act, t) + Waiting(lost[q], act, t)
      BY <3>1, <3>3
    <3> QED
      BY <2>1, <2>2, <3>2, <3>4
  <2>3. CASE q # p
    BY <1>2, <2>1, <2>3
  <2> QED
    BY <2>2, <2>3
<1> DEFINE sub == Waiting(toServer[q] \o lost[q], "SUBSCRIBE_ACTION", t)
           uns == Waiting(toServer[q] \o lost[q], "UNSUBSCRIBE_ACTION", t)
<1>4. NetRead(q, t)'
        = (asked'[q][t] - Waiting(toServer'[q] \o lost[q], "SUBSCRIBE_ACTION", t))
            - (dropped'[q][t] - Waiting(toServer'[q] \o lost[q], "UNSUBSCRIBE_ACTION", t))
  BY DEF NetRead, Unread
<1>5. NetRead(q, t) = (asked[q][t] - sub) - (dropped[q][t] - uns)
  BY DEF NetRead, Unread
<1>6. PICK ds \in Nat : ds = IF q = p /\ m = Command("SUBSCRIBE_ACTION", t) THEN 1 ELSE 0
  OBVIOUS
<1>7. PICK du \in Nat : du = IF q = p /\ m = Command("UNSUBSCRIBE_ACTION", t) THEN 1 ELSE 0
  OBVIOUS
<1>8. /\ Waiting(toServer'[q] \o lost[q], "SUBSCRIBE_ACTION", t) = sub + ds /\ sub \in Nat
      /\ Waiting(toServer'[q] \o lost[q], "UNSUBSCRIBE_ACTION", t) = uns + du /\ uns \in Nat
  BY <1>3, <1>6, <1>7
<1> HIDE DEF sub, uns
<1>9. asked'[q][t] = asked[q][t] + ds /\ dropped'[q][t] = dropped[q][t] + du
  BY <1>6, <1>7
<1>10. NetRead(q, t)' = ((asked[q][t] + ds) - (sub + ds)) - ((dropped[q][t] + du) - (uns + du))
  BY <1>4, <1>8, <1>9
<1>11. PICK a \in Nat, b \in Nat, c \in Nat, e \in Nat :
         a = asked[q][t] /\ b = dropped[q][t] /\ c = sub /\ e = uns
  BY <1>1, <1>8
<1>12. ((a + ds) - (c + ds)) - ((b + du) - (e + du)) = (a - c) - (b - e)
  OBVIOUS
<1>13. NetRead(q, t)' = (a - c) - (b - e)
  BY <1>10, <1>11, <1>12
<1> QED
  BY <1>5, <1>11, <1>13

\* The server takes a packet from a connection.
LEMMA TakingCounts ==
  ASSUME IInv, NEW p \in Clients, toServer[p] # <<>>, TakeFrom(p),
         UNCHANGED <<lost, asked, dropped>>
  PROVE  \A q \in Clients, t \in Patterns :
           NetRead(q, t)' = NetRead(q, t) + (IF q = p THEN Gain(Head(toServer[p]), t) ELSE 0)
<1> SUFFICES ASSUME NEW q \in Clients, NEW t \in Patterns
             PROVE  NetRead(q, t)'
                      = NetRead(q, t) + (IF q = p THEN Gain(Head(toServer[p]), t) ELSE 0)
  OBVIOUS
<1> DEFINE m == Head(toServer[p])
<1>1. /\ asked[q][t] \in Nat /\ dropped[q][t] \in Nat
      /\ toServer[q] \in Seq(ToServerPackets) /\ lost[q] \in Seq(ToServerPackets)
  BY NetTypes
<1>2. toServer'[q] = IF q = p THEN Tail(toServer[q]) ELSE toServer[q]
  BY DEF TakeFrom, IInv, TypeOK, SocketsTypeOK
<1>3. ASSUME NEW act
      PROVE  /\ Waiting(toServer[q] \o lost[q], act, t) \in Nat
             /\ Waiting(toServer'[q] \o lost[q], act, t)
                  = Waiting(toServer[q] \o lost[q], act, t)
                      - (IF q = p /\ m = Command(act, t) THEN 1 ELSE 0)
  <2>1. /\ Waiting(toServer[q], act, t) \in Nat /\ Waiting(lost[q], act, t) \in Nat
        /\ Waiting(toServer[q] \o lost[q], act, t)
             = Waiting(toServer[q], act, t) + Waiting(lost[q], act, t)
    BY <1>1, WaitingInBoth
  <2>2. CASE q = p
    <3>1. toServer'[q] = Tail(toServer[q]) /\ toServer'[q] \in Seq(ToServerPackets)
      BY <1>1, <1>2, <2>2, TailFacts
    <3>2. Waiting(toServer'[q], act, t)
            = Waiting(toServer[q], act, t) - (IF m = Command(act, t) THEN 1 ELSE 0)
      BY <1>1, <2>2, <3>1, WaitingShrinks
    <3>3. \A s \in Seq(ToServerPackets) :
            Waiting(s \o lost[q], act, t) = Waiting(s, act, t) + Waiting(lost[q], act, t)
      BY <1>1, WaitingInBoth
    <3>4. Waiting(toServer'[q] \o lost[q], act, t)
            = Waiting(toServer'[q], act, t) + Waiting(lost[q], act, t)
      BY <3>1, <3>3
    <3> QED
      BY <2>1, <2>2, <3>2, <3>4
  <2>3. CASE q # p
    BY <1>2, <2>1, <2>3
  <2> QED
    BY <2>2, <2>3
<1> DEFINE sub == Waiting(toServer[q] \o lost[q], "SUBSCRIBE_ACTION", t)
           uns == Waiting(toServer[q] \o lost[q], "UNSUBSCRIBE_ACTION", t)
<1>4. NetRead(q, t)'
        = (asked[q][t] - Waiting(toServer'[q] \o lost[q], "SUBSCRIBE_ACTION", t))
            - (dropped[q][t] - Waiting(toServer'[q] \o lost[q], "UNSUBSCRIBE_ACTION", t))
  BY DEF NetRead, Unread
<1>5. NetRead(q, t) = (asked[q][t] - sub) - (dropped[q][t] - uns)
  BY DEF NetRead, Unread
<1>6. ~(m = Command("SUBSCRIBE_ACTION", t) /\ m = Command("UNSUBSCRIBE_ACTION", t))
  BY DEF Command
<1>s. /\ sub \in Nat /\ uns \in Nat
      /\ Waiting(toServer'[q] \o lost[q], "SUBSCRIBE_ACTION", t)
           = sub - (IF q = p /\ m = Command("SUBSCRIBE_ACTION", t) THEN 1 ELSE 0)
      /\ Waiting(toServer'[q] \o lost[q], "UNSUBSCRIBE_ACTION", t)
           = uns - (IF q = p /\ m = Command("UNSUBSCRIBE_ACTION", t) THEN 1 ELSE 0)
  BY <1>3
<1> HIDE DEF sub, uns, m
<1>7. Gain(m, t) = (IF m = Command("SUBSCRIBE_ACTION", t) THEN 1 ELSE 0)
                     - (IF m = Command("UNSUBSCRIBE_ACTION", t) THEN 1 ELSE 0)
  BY <1>6 DEF Gain
<1>8. NetRead(q, t)' = NetRead(q, t) + (IF q = p THEN Gain(m, t) ELSE 0)
  <2>1. PICK ds \in Nat : ds = IF m = Command("SUBSCRIBE_ACTION", t) THEN 1 ELSE 0
    OBVIOUS
  <2>2. PICK du \in Nat : du = IF m = Command("UNSUBSCRIBE_ACTION", t) THEN 1 ELSE 0
    OBVIOUS
  <2>3. Gain(m, t) = ds - du
    BY <1>7, <2>1, <2>2
  <2> HIDE DEF Gain
  <2>4. CASE q = p
    <3>1. /\ Waiting(toServer'[q] \o lost[q], "SUBSCRIBE_ACTION", t) = sub - ds
          /\ Waiting(toServer'[q] \o lost[q], "UNSUBSCRIBE_ACTION", t) = uns - du
      BY <1>s, <2>1, <2>2, <2>4
    <3>2. NetRead(q, t)' = (asked[q][t] - (sub - ds)) - (dropped[q][t] - (uns - du))
      BY <1>4, <3>1
    <3>3. PICK a \in Nat, b \in Nat, c \in Nat, e \in Nat :
            a = asked[q][t] /\ b = dropped[q][t] /\ c = sub /\ e = uns
      BY <1>1, <1>s
    <3>4. NetRead(q, t)' = (a - (c - ds)) - (b - (e - du)) /\ NetRead(q, t) = (a - c) - (b - e)
      BY <1>5, <3>2, <3>3
    <3>5. (a - (c - ds)) - (b - (e - du)) = ((a - c) - (b - e)) + (ds - du)
      OBVIOUS
    <3>6. NetRead(q, t)' = NetRead(q, t) + Gain(m, t)
      BY <2>3, <3>4, <3>5
    <3> QED
      BY <2>4, <3>6
  <2>5. CASE q # p
    <3>1. /\ Waiting(toServer'[q] \o lost[q], "SUBSCRIBE_ACTION", t) = sub
          /\ Waiting(toServer'[q] \o lost[q], "UNSUBSCRIBE_ACTION", t) = uns
      BY <1>s, <2>5
    <3> QED
      BY <1>1, <1>4, <1>5, <1>s, <2>5, <3>1
  <2> QED
    BY <2>4, <2>5
<1> QED
  BY <1>8 DEF m

\* What a reset takes from the socket of a run was not read and will not be.
LEMMA LosingKeepsUnread ==
  ASSUME NEW S, NEW q \in Seq(S), q # <<>>, NEW l \in Seq(S)
  PROVE  Front(q) \o (<<Last(q)>> \o l) = q \o l
<1> DEFINE f == Front(q)
           z == <<Last(q)>>
           n == Len(q)
<1>1. /\ f \in Seq(S) /\ Last(q) \in S /\ Len(f) = n - 1 /\ Last(q) = q[n] /\ n \in Nat \ {0}
      /\ DOMAIN f = 1 .. n - 1 /\ \A k \in DOMAIN f : f[k] = q[k]
  BY FrontFacts
<1>2. z \in Seq(S) /\ Len(z) = 1 /\ z[1] = q[n]
  BY <1>1
<1> HIDE DEF f, z, n
<1>3. Len(l) \in Nat
  BY LenProperties
<1>4. /\ z \o l \in Seq(S) /\ Len(z \o l) = 1 + Len(l)
      /\ \A j \in 1 .. 1 + Len(l) : (z \o l)[j] = IF j <= 1 THEN z[j] ELSE l[j - 1]
  <2>1. /\ z \o l \in Seq(S) /\ Len(z \o l) = Len(z) + Len(l)
        /\ \A j \in 1 .. Len(z) + Len(l) :
             (z \o l)[j] = IF j <= Len(z) THEN z[j] ELSE l[j - Len(z)]
    BY <1>2, ConcatProperties
  <2> QED
    BY <1>2, <2>1
<1>5. /\ f \o (z \o l) \in Seq(S) /\ Len(f \o (z \o l)) = (n - 1) + (1 + Len(l))
      /\ \A j \in 1 .. (n - 1) + (1 + Len(l)) :
           (f \o (z \o l))[j] = IF j <= n - 1 THEN f[j] ELSE (z \o l)[j - (n - 1)]
  <2>1. /\ f \o (z \o l) \in Seq(S) /\ Len(f \o (z \o l)) = Len(f) + Len(z \o l)
        /\ \A j \in 1 .. Len(f) + Len(z \o l) :
             (f \o (z \o l))[j] = IF j <= Len(f) THEN f[j] ELSE (z \o l)[j - Len(f)]
    BY <1>1, <1>4, ConcatProperties
  <2> QED
    BY <1>1, <1>4, <2>1
<1>6. /\ q \o l \in Seq(S) /\ Len(q \o l) = n + Len(l)
      /\ \A j \in 1 .. n + Len(l) : (q \o l)[j] = IF j <= n THEN q[j] ELSE l[j - n]
  BY ConcatProperties DEF n
<1>7. (n - 1) + (1 + Len(l)) = n + Len(l)
  BY <1>1, <1>3
<1>8. ASSUME NEW j \in 1 .. n + Len(l) PROVE (f \o (z \o l))[j] = (q \o l)[j]
  <2>1. CASE j <= n - 1
    <3>1. j \in DOMAIN f /\ j <= n
      BY <1>1, <1>3, <2>1
    <3> QED
      BY <1>1, <1>5, <1>6, <1>7, <2>1, <3>1
  <2>2. CASE j = n
    <3>1. ~(j <= n - 1) /\ j - (n - 1) = 1 /\ 1 \in 1 .. 1 + Len(l) /\ 1 <= 1 /\ j <= n
      BY <1>1, <1>3, <2>2
    <3>2. (f \o (z \o l))[j] = (z \o l)[1]
      BY <1>5, <1>7, <3>1
    <3>3. (z \o l)[1] = q[n]
      BY <1>2, <1>4, <3>1
    <3> QED
      BY <1>6, <2>2, <3>1, <3>2, <3>3
  <2>3. CASE ~(j <= n)
    <3>1. PICK x : x = j - (n - 1)
      OBVIOUS
    <3>2. ~(j <= n - 1) /\ x \in 1 .. 1 + Len(l) /\ ~(x <= 1) /\ x - 1 = j - n
      BY <1>1, <1>3, <2>3, <3>1
    <3>3. (f \o (z \o l))[j] = (z \o l)[x]
      BY <1>5, <1>7, <3>1, <3>2
    <3>4. (z \o l)[x] = l[j - n]
      BY <1>4, <3>2
    <3> QED
      BY <1>6, <2>3, <3>3, <3>4
  <2>4. n \in Nat /\ Len(l) \in Nat
    BY <1>1, <1>3
  <2>5. j <= n - 1 \/ j = n \/ ~(j <= n)
    BY <2>4
  <2> QED
    BY <2>1, <2>2, <2>3, <2>5
<1>9. /\ Len(f \o (z \o l)) = Len(q \o l)
      /\ \A j \in 1 .. Len(f \o (z \o l)) : (f \o (z \o l))[j] = (q \o l)[j]
  BY <1>5, <1>6, <1>7, <1>8
<1>10. f \o (z \o l) = q \o l
  BY <1>5, <1>6, <1>9, SeqEqual
<1> QED
  BY <1>10 DEF f, z

\* A reset leaves what the server has read.
LEMMA ResetsNet ==
  ASSUME IInv, Resets
  PROVE  SameNet
<1>1. PICK p \in Clients : LoseToServer(p) \/ LoseToClient(p)
  BY DEF Resets
<1>2. UNCHANGED <<asked, dropped>>
  BY DEF Resets
<1>3. /\ toServer \in [Clients -> Seq(ToServerPackets)] /\ toServer[p] \in Seq(ToServerPackets)
      /\ lost \in [Clients -> Seq(ToServerPackets)] /\ lost[p] \in Seq(ToServerPackets)
  BY DEF IInv, TypeOK, SocketsTypeOK
<1>4. \A q \in Clients : Unread(q)' = Unread(q)
  <2>1. CASE LoseToServer(p)
    <3>1. /\ toServer[p] # <<>> /\ toServer' = [toServer EXCEPT ![p] = Front(toServer[p])]
          /\ lost' = [lost EXCEPT ![p] = <<Last(toServer[p])>> \o lost[p]]
      BY <2>1 DEF LoseToServer
    <3>2. /\ toServer'[p] = Front(toServer[p]) /\ lost'[p] = <<Last(toServer[p])>> \o lost[p]
          /\ \A q \in Clients : q # p => toServer'[q] = toServer[q] /\ lost'[q] = lost[q]
      BY <1>3, <3>1
    <3>3. Front(toServer[p]) \o (<<Last(toServer[p])>> \o lost[p]) = toServer[p] \o lost[p]
      BY <1>3, <3>1, LosingKeepsUnread
    <3>4. toServer'[p] \o lost'[p] = toServer[p] \o lost[p]
      BY <3>2, <3>3
    <3> QED
      BY <3>2, <3>4 DEF Unread
  <2>2. CASE LoseToClient(p)
    BY <2>2 DEF LoseToClient, Unread
  <2> QED
    BY <1>1, <2>1, <2>2
<1> QED
  BY <1>2, <1>4 DEF SameNet, NetRead

\* Whatever a run does, what the server has read of it does not change.
LEMMA ClientNet ==
  ASSUME IInv, UNCHANGED srvVars, NEW p \in Clients, ClientStep(p) \/ UserStep(p)
  PROVE  SameNet
<1>1. /\ asked \in [Clients -> [Patterns -> Nat]] /\ dropped \in [Clients -> [Patterns -> Nat]]
  BY DEF IInv, TypeOK, SubscriberTypeOK
<1>2. ASSUME NEW t \in Patterns, Subscribe(p, t) PROVE SameNet
  <2>1. PICK m \in ToServerPackets : m = Command("SUBSCRIBE_ACTION", t)
    BY DEF ToServerPackets, Command
  <2>2. SendToServer(p, m) /\ asked' = Count(asked, p, t) /\ UNCHANGED <<dropped, lost>>
    BY <1>2, <2>1 DEF Subscribe, Command
  <2>3. \A u \in Patterns : /\ m = Command("SUBSCRIBE_ACTION", u) <=> u = t
                            /\ m # Command("UNSUBSCRIBE_ACTION", u)
    BY <2>1 DEF Command
  <2>4. \A q \in Clients, u \in Patterns :
          /\ asked'[q][u] = asked[q][u] + (IF q = p /\ u = t THEN 1 ELSE 0)
          /\ dropped'[q][u] = dropped[q][u] + 0
    BY <1>1, <2>2 DEF Count
  <2> QED
    BY <2>2, <2>3, <2>4, SendingCounts
<1>3. ASSUME NEW t \in Patterns, Unsubscribe(p, t) PROVE SameNet
  <2>1. PICK m \in ToServerPackets : m = Command("UNSUBSCRIBE_ACTION", t)
    BY DEF ToServerPackets, Command
  <2>2. SendToServer(p, m) /\ dropped' = Count(dropped, p, t) /\ UNCHANGED <<asked, lost>>
    BY <1>3, <2>1 DEF Unsubscribe, Command
  <2>3. \A u \in Patterns : /\ m = Command("UNSUBSCRIBE_ACTION", u) <=> u = t
                            /\ m # Command("SUBSCRIBE_ACTION", u)
    BY <2>1 DEF Command
  <2>4. \A q \in Clients, u \in Patterns :
          /\ dropped'[q][u] = dropped[q][u] + (IF q = p /\ u = t THEN 1 ELSE 0)
          /\ asked'[q][u] = asked[q][u] + 0
    BY <1>1, <2>2 DEF Count
  <2> QED
    BY <2>2, <2>3, <2>4, SendingCounts
<1>4. ASSUME NEW m \in ToServerPackets, m.action \notin Actions, SendToServer(p, m),
             UNCHANGED <<asked, dropped, lost>>
      PROVE  SameNet
  <2>1. \A t : m # Command("SUBSCRIBE_ACTION", t) /\ m # Command("UNSUBSCRIBE_ACTION", t)
    BY <1>4 DEF Command, Actions
  <2>2. \A q \in Clients, u \in Patterns :
          asked'[q][u] = asked[q][u] + 0 /\ dropped'[q][u] = dropped[q][u] + 0
    BY <1>1, <1>4
  <2> QED
    BY <1>4, <2>1, <2>2, SendingCounts
<1>5. CASE Exit(p)
  <2>1. [action |-> "SHUTDOWN_CLOSE"] \in ToServerPackets
    BY DEF ToServerPackets
  <2> QED
    BY <1>4, <1>5, <2>1 DEF Exit, Actions
<1>6. CASE SendConnect(p)
  <2>1. [action |-> "CONNECT_ACTION", id |-> IdOf[p]] \in ToServerPackets
    BY SocketsAssumption DEF ToServerPackets
  <2> QED
    BY <1>4, <1>6, <2>1 DEF SendConnect, Actions
<1>7. CASE \/ Connect(p) \/ ConnectRefused(p) \/ ClientSigpipe(p) \/ Kill(p)
           \/ ReceiveNotification(p) \/ ReceiveShutdown(p) \/ ReceiveEof(p) \/ CloseAfterExit(p)
  <2>1. UNCHANGED <<toServer, lost, asked, dropped>>
    BY <1>7 DEF Connect, ConnectRefused, ClientSigpipe, Kill, ReceiveNotification,
                ReceiveShutdown, ReceiveEof, CloseAfterExit
  <2> QED
    BY <2>1 DEF SameNet, NetRead, Unread
<1> QED
  BY <1>2, <1>3, <1>5, <1>6, <1>7 DEF ClientStep, UserStep

-----------------------------------------------------------------------------
\* What TopicsAccountedFor needs beside it: there are finitely many admitted
\* runs, each has a record of its id, and of a run that is not admitted the
\* server has read no command.
AdmittedHaveRecord ==
  IsFiniteSet(admitted) /\ \A p \in admitted : \E i \in DOMAIN subs : subs[i].id = IdOf[p]
UnreadBefore ==
  Alive => \A p \in Clients \ admitted, t \in Patterns : NetRead(p, t) = 0
AccountInv == AdmittedHaveRecord /\ UnreadBefore /\ TopicsAccountedFor

\* The sum of TopicsAccountedFor.
Account(id, t) == SumFunctionOnSet(Net(t), SessionsOf(id))

\* The sum has finitely many terms, and is what the topics are compared with.
LEMMA AccountFacts ==
  ASSUME IInv, AccountInv
  PROVE  /\ \A id : IsFiniteSet(SessionsOf(id)) /\ SessionsOf(id) \subseteq Clients
         /\ \A p \in Clients, t \in Patterns : Net(t)[p] = NetRead(p, t) /\ Net(t)[p] \in Int
         /\ Alive /\ ~aliased =>
              \A i \in DOMAIN subs, t \in Patterns : subs[i].topics[t] = Account(subs[i].id, t)
<1>1. admitted \subseteq Clients /\ IsFiniteSet(admitted)
  BY DEF IInv, TypeOK, ServerTypeOK, AccountInv, AdmittedHaveRecord
<1>2. \A id : IsFiniteSet(SessionsOf(id)) /\ SessionsOf(id) \subseteq Clients
  BY <1>1, FS_Subset DEF SessionsOf
<1>3. \A p \in Clients, t \in Patterns : Net(t)[p] = NetRead(p, t) /\ Net(t)[p] \in Int
  BY NetTypes DEF Net
<1>4. TopicsAccountedFor
  BY DEF AccountInv
<1> QED
  BY <1>2, <1>3, <1>4 DEF TopicsAccountedFor, Account, Net

\* The sums stay while nobody's commands are read and nobody new has any.
LEMMA AccountStays ==
  ASSUME IInv, AccountInv, SameNet, NEW id, NEW q,
         \/ SessionsOf(id)' = SessionsOf(id)
         \/ /\ q \in Clients /\ SessionsOf(id)' = SessionsOf(id) \cup {q}
            /\ \A t \in Patterns : NetRead(q, t) = 0
  PROVE  \A t \in Patterns : Account(id, t)' = Account(id, t)
<1> SUFFICES ASSUME NEW t \in Patterns PROVE Account(id, t)' = Account(id, t)
  OBVIOUS
<1> DEFINE f == Net(t)
           g == Net(t)'
           S == SessionsOf(id)
           R == SessionsOf(id)'
<1>1. IsFiniteSet(S) /\ S \subseteq Clients /\ \A p \in Clients : f[p] \in Int /\ f[p] = NetRead(p, t)
  BY AccountFacts
<1>2. \A p \in Clients : g[p] = f[p]
  BY <1>1 DEF SameNet, Net
<1>3. Account(id, t) = SumFunctionOnSet(f, S) /\ Account(id, t)' = SumFunctionOnSet(g, R)
  BY DEF Account
<1>4. R = S \/ (q \in Clients /\ R = S \cup {q} /\ f[q] = 0)
  BY <1>1
<1> HIDE DEF f, g, S, R
<1>5. SumFunctionOnSet(f, R) = SumFunctionOnSet(f, S)
  <2>1. CASE R = S
    BY <2>1
  <2>2. CASE q \in Clients /\ R = S \cup {q} /\ f[q] = 0
    BY <1>1, <2>2, SumIgnoresZero
  <2> QED
    BY <1>4, <2>1, <2>2
<1>6. IsFiniteSet(R) /\ R \subseteq Clients
  BY <1>1, <1>4, FS_AddElement
<1>7. SumFunctionOnSet(f, R) = SumFunctionOnSet(g, R)
  <2>1. \A x \in R : f[x] = g[x] /\ f[x] \in Int
    BY <1>1, <1>2, <1>6
  <2> QED
    BY <1>6, <2>1, SumsEqual
<1> QED
  BY <1>3, <1>5, <1>7

\* TopicsAccountedFor with the sum by its name, now and in the next state.
Accounted ==
  Alive /\ ~aliased =>
    \A i \in DOMAIN subs, t \in Patterns :
      \A id : id = subs[i].id => subs[i].topics[t] = Account(id, t)

\* It is the same.
LEMMA AccountedMeans == Accounted <=> TopicsAccountedFor
  BY DEF TopicsAccountedFor, Accounted, Account, Net

\* The same of the next state.
LEMMA AccountedNext == Accounted' <=> TopicsAccountedFor'
  BY AccountedMeans, PTL

\* Steps that admit nobody, and in which no topic changes and the server reads no
\* command, or after which it is dead.
LEMMA AccountKept ==
  ASSUME IInv, AccountInv, UNCHANGED admitted, aliased => aliased', Alive' => Alive /\ SameNet,
         DOMAIN subs' = DOMAIN subs,
         \A i \in DOMAIN subs : subs'[i].id = subs[i].id /\ subs'[i].topics = subs[i].topics
  PROVE  AccountInv'
<1>1. AdmittedHaveRecord'
  BY DEF AccountInv, AdmittedHaveRecord
<1>2. UnreadBefore'
  BY DEF AccountInv, UnreadBefore, SameNet
<1>3. Accounted'
  <2> SUFFICES ASSUME Alive', ~aliased', NEW i \in DOMAIN subs, NEW t \in Patterns,
                      NEW id, id = subs'[i].id
               PROVE  subs'[i].topics[t] = Account(id, t)'
    BY DEF Accounted
  <2>1. SessionsOf(id)' = SessionsOf(id) /\ Alive /\ ~aliased
    BY DEF SessionsOf
  <2>2. id = subs[i].id
    OBVIOUS
  <2>3. Account(id, t)' = Account(id, t)
    BY <2>1, <2>2, AccountStays
  <2>4. subs[i].topics[t] = Account(id, t)
    BY <2>1, <2>2, AccountFacts
  <2> QED
    BY <2>2, <2>3, <2>4
<1> QED
  BY <1>1, <1>2, <1>3, AccountedNext DEF AccountInv

\* The server takes the CONNECT packet of the connection it is accepting.
LEMMA ConnectNet ==
  ASSUME IInv, AdmissionInv, AccountInv, ConnectArrives, TakeFrom(conn[cur]),
         UNCHANGED <<lost, asked, dropped>>
  PROVE  /\ SameNet /\ conn[cur] \in Clients /\ Alive /\ IdOf[conn[cur]] = ConnectId
         /\ \A t \in Patterns : NetRead(conn[cur], t) = 0
<1>1. /\ cur \in Fds /\ conn[cur] \in Clients /\ ConnectId = IdOf[conn[cur]]
      /\ toServer[conn[cur]] # <<>>
  BY ConnectFacts
<1>2. PICK p \in Clients : p = conn[cur]
  BY <1>1
<1>3. AwaitsConnect(p) /\ Alive
  BY <1>2 DEF AwaitsConnect, ConnectArrives, Alive
<1>4. Head(toServer[p]) = [action |-> "CONNECT_ACTION", id |-> IdOf[p]]
  BY <1>1, <1>2, <1>3 DEF IInv, FirstIsConnect
<1>5. \A t : Gain(Head(toServer[p]), t) = 0
  BY <1>4 DEF Gain, Command
<1>6. SameNet
  <2>1. \A q \in Clients, t \in Patterns :
          NetRead(q, t)' = NetRead(q, t) + (IF q = p THEN Gain(Head(toServer[p]), t) ELSE 0)
    BY <1>1, <1>2, TakingCounts
  <2>2. \A q \in Clients, t \in Patterns : NetRead(q, t) \in Int
    BY NetTypes
  <2> QED
    BY <1>5, <2>1, <2>2 DEF SameNet
<1>7. p \notin admitted
  BY <1>3 DEF AdmissionInv, AdmittedOnce
<1>8. \A t \in Patterns : NetRead(p, t) = 0
  BY <1>3, <1>7 DEF AccountInv, UnreadBefore
<1> QED
  BY <1>1, <1>2, <1>3, <1>6, <1>8

\* A run is admitted: to the record of its id, or to a new one.
LEMMA AdmitAccount ==
  ASSUME IInv, AdmissionInv, AccountInv, UNCHANGED cliVars, Reconnect \/ AddNewSub
  PROVE  AccountInv'
<1>1. /\ ConnectArrives /\ TakeFrom(conn[cur]) /\ admitted' = admitted \cup {conn[cur]}
      /\ aliased => aliased'
      /\ UNCHANGED lost
  BY DEF Reconnect, AddNewSub, PollNewConnection
<1>2. PICK p \in Clients : p = conn[cur]
  BY <1>1, ConnectNet
<1>3. /\ SameNet /\ Alive /\ IdOf[p] = ConnectId /\ admitted' = admitted \cup {p}
      /\ \A t \in Patterns : NetRead(p, t) = 0
  BY <1>1, <1>2, ConnectNet
<1>4. subs \in Seq(Subscribers)
  BY DEF IInv, TypeOK, ServerTypeOK
<1>5. /\ \A i \in DOMAIN subs :
           /\ i \in DOMAIN subs' /\ subs'[i].id = subs[i].id /\ subs'[i].topics = subs[i].topics
      /\ \E i \in DOMAIN subs' : subs'[i].id = ConnectId
      /\ \A i \in DOMAIN subs' : i \notin DOMAIN subs =>
           /\ subs'[i].id = ConnectId /\ \A t \in Patterns : subs'[i].topics[t] = 0
           /\ \A j \in DOMAIN subs : subs[j].id # ConnectId
  <2>1. CASE Reconnect
    <3>1. PICK i \in DOMAIN subs :
            subs[i].id = ConnectId /\ subs' = [subs EXCEPT ![i].fd = cur, ![i].online = TRUE]
      BY <2>1 DEF Reconnect
    <3>2. subs[i] \in Subscribers
      BY <1>4, ElementOfSeq, LenProperties
    <3> DEFINE r == [subs[i] EXCEPT !.fd = cur, !.online = TRUE]
    <3>3. r.id = subs[i].id /\ r.topics = subs[i].topics
      BY <3>2 DEF Subscribers
    <3>4. subs' = [subs EXCEPT ![i] = r]
      BY <3>1
    <3> HIDE DEF r
    <3>5. DOMAIN subs' = DOMAIN subs /\ \A j \in DOMAIN subs : subs'[j] = IF j = i THEN r ELSE subs[j]
      BY <1>4, <3>4
    <3> QED
      BY <3>1, <3>3, <3>5
  <2>2. CASE AddNewSub
    <3> DEFINE r == [id |-> ConnectId, fd |-> cur, topics |-> [t \in Patterns |-> 0], online |-> TRUE]
    <3>1. subs' = Append(subs, r) /\ \A i \in DOMAIN subs : subs[i].id # ConnectId
      BY <2>2 DEF AddNewSub
    <3>2. r.id = ConnectId /\ \A t \in Patterns : r.topics[t] = 0
      OBVIOUS
    <3>3. r \in Subscribers
      BY <1>1, ConnectFacts DEF Subscribers
    <3> HIDE DEF r
    <3>4. /\ DOMAIN subs' = 1 .. Len(subs) + 1 /\ DOMAIN subs = 1 .. Len(subs)
          /\ \A k \in DOMAIN subs : subs'[k] = subs[k]
          /\ subs'[Len(subs) + 1] = r /\ Len(subs) \in Nat
      BY <1>4, <3>1, <3>3, AppendFacts, LenProperties
    <3> QED
      BY <3>1, <3>2, <3>4
  <2> QED
    BY <2>1, <2>2
<1>6. AdmittedHaveRecord'
  <2>1. IsFiniteSet(admitted')
    BY <1>3, FS_AddElement DEF AccountInv, AdmittedHaveRecord
  <2>2. \A q \in admitted' : \E i \in DOMAIN subs' : subs'[i].id = IdOf[q]
    BY <1>3, <1>5 DEF AccountInv, AdmittedHaveRecord
  <2> QED
    BY <2>1, <2>2 DEF AdmittedHaveRecord
<1>7. UnreadBefore'
  BY <1>3 DEF AccountInv, UnreadBefore, SameNet
<1>8. \A id, t : t \in Patterns => Account(id, t)' = Account(id, t)
  <2> SUFFICES ASSUME NEW id, NEW t \in Patterns PROVE Account(id, t)' = Account(id, t)
    OBVIOUS
  <2>1. SessionsOf(id)' = SessionsOf(id) \/ SessionsOf(id)' = SessionsOf(id) \cup {p}
    BY <1>3 DEF SessionsOf
  <2> QED
    BY <1>3, <2>1, AccountStays
<1>9. Accounted'
  <2> SUFFICES ASSUME Alive', ~aliased', NEW i \in DOMAIN subs', NEW t \in Patterns,
                      NEW id, id = subs'[i].id
               PROVE  subs'[i].topics[t] = Account(id, t)'
    BY DEF Accounted
  <2>1. id = subs'[i].id
    OBVIOUS
  <2>2. Account(id, t)' = Account(id, t)
    BY <1>8
  <2>3. CASE i \in DOMAIN subs
    <3>1. subs[i].topics[t] = Account(id, t)
      BY <1>1, <1>3, <1>5, <2>1, <2>3, AccountFacts
    <3> QED
      BY <1>5, <2>1, <2>2, <2>3, <3>1
  <2>4. CASE i \notin DOMAIN subs
    <3>1. SessionsOf(id) = {}
      BY <1>5, <2>1, <2>4 DEF AccountInv, AdmittedHaveRecord, SessionsOf
    <3>2. Account(id, t) = 0
      BY <3>1, FS_EmptySet, SumSplits DEF Account
    <3> QED
      BY <1>5, <2>1, <2>2, <2>4, <3>2
  <2> QED
    BY <2>3, <2>4
<1> QED
  BY <1>6, <1>7, <1>9, AccountedNext DEF AccountInv

\* parse_tcp_client_message changes one record, by what the packet says.
LEMMA MessageTopics ==
  ASSUME IInv, ParseClientMessage
  PROVE  \E k \in DOMAIN sv_fds, i \in DOMAIN subs :
           /\ PacketReadyAt(k) /\ IsSubscriberByFd(i, sv_fds[k]) /\ TakeFrom(conn[sv_fds[k]])
           /\ DOMAIN subs' = DOMAIN subs
           /\ \A j \in DOMAIN subs : subs'[j].id = subs[j].id
           /\ \A j \in DOMAIN subs, t \in Patterns :
                subs'[j].topics[t] = subs[j].topics[t] + (IF j = i THEN Gain(PacketAt(k), t) ELSE 0)
<1>1. PICK k \in DOMAIN sv_fds, i \in DOMAIN subs :
        /\ PacketReadyAt(k) /\ IsSubscriberByFd(i, sv_fds[k]) /\ TakeFrom(conn[sv_fds[k]])
        /\ \/ HandleSubscribe(i, PacketAt(k))
           \/ HandleUnsubscribe(i, PacketAt(k))
           \/ HandleShutdownSub(i, PacketAt(k), k)
  BY DEF ParseClientMessage
<1>2. subs \in Seq(Subscribers) /\ \A j \in DOMAIN subs : subs[j] \in Subscribers
  BY LenProperties, ElementOfSeq DEF IInv, TypeOK, ServerTypeOK
<1>3. \A j \in DOMAIN subs, t \in Patterns : subs[j].topics[t] \in Nat
  BY <1>2 DEF Subscribers
<1>4. PICK m \in ToServerPackets : m = PacketAt(k)
  <2>1. sv_fds[k] \in Fds /\ conn[sv_fds[k]] \in Clients
    <3>1. sv_fds \in Seq(Fds) /\ Serving
      BY <1>1 DEF IInv, TypeOK, ServerTypeOK, PacketReadyAt, Serving, Alive
    <3>2. sv_fds[k] \in Fds /\ conn[sv_fds[k]] # None
      BY <3>1, LenProperties, ElementOfSeq DEF IInv, ServerInv, PolledHasRecord
    <3> QED
      BY <3>2 DEF IInv, TypeOK, SocketsTypeOK
  <2>2. toServer[conn[sv_fds[k]]] \in Seq(ToServerPackets) /\ toServer[conn[sv_fds[k]]] # <<>>
    BY <1>1, <2>1, NetTypes DEF PacketReadyAt
  <2> QED
    BY <2>2, TailFacts DEF PacketAt
<1>5. CASE HandleSubscribe(i, m) \/ HandleUnsubscribe(i, m)
  <2>1. m.topic \in Patterns /\ m = Command(m.action, m.topic)
    BY <1>5 DEF HandleSubscribe, HandleUnsubscribe, ToServerPackets, Command
  <2>2. PICK t \in Patterns : t = m.topic
    BY <2>1
  <2>3. PICK d \in Int : d = Gain(m, t)
    BY DEF Gain
  <2>4. PICK x : subs' = [subs EXCEPT ![i].topics[t] = x] /\ x = subs[i].topics[t] + d
    <3>1. CASE HandleSubscribe(i, m)
      <4>1. m = Command("SUBSCRIBE_ACTION", t)
        BY <2>1, <2>2, <3>1 DEF HandleSubscribe
      <4>2. d = 1
        BY <2>3, <4>1 DEF Gain
      <4> QED
        BY <2>2, <3>1, <4>2 DEF HandleSubscribe
    <3>2. CASE HandleUnsubscribe(i, m)
      <4>1. m = Command("UNSUBSCRIBE_ACTION", t) /\ m # Command("SUBSCRIBE_ACTION", t)
        BY <2>1, <2>2, <3>2 DEF HandleUnsubscribe, Command
      <4>2. d = -1
        BY <2>3, <4>1 DEF Gain
      <4>3. subs[i].topics[t] - 1 = subs[i].topics[t] + d
        BY <1>3, <4>2
      <4> QED
        BY <2>2, <3>2, <4>3 DEF HandleUnsubscribe
    <3> QED
      BY <1>5, <3>1, <3>2
  <2>5. \A u \in Patterns : u # t => Gain(m, u) = 0
    BY <2>1, <2>2 DEF Gain, Command
  <2> DEFINE r == [subs[i] EXCEPT !.topics[t] = x]
  <2>6. /\ r.id = subs[i].id
        /\ \A u \in Patterns : r.topics[u] = subs[i].topics[u] + Gain(m, u)
    <3>1. r.id = subs[i].id /\ r.topics = [subs[i].topics EXCEPT ![t] = x]
      BY <1>2 DEF Subscribers
    <3>2. subs[i].topics \in [Patterns -> Nat]
      BY <1>2 DEF Subscribers
    <3> HIDE DEF r
    <3>3. \A u \in Patterns : u # t => r.topics[u] = subs[i].topics[u] + Gain(m, u)
      BY <2>5, <3>1, <3>2
    <3>4. r.topics[t] = subs[i].topics[t] + Gain(m, t)
      BY <2>3, <2>4, <3>1, <3>2
    <3> QED
      BY <3>1, <3>3, <3>4
  <2>7. subs' = [subs EXCEPT ![i] = r]
    BY <2>4
  <2> HIDE DEF r
  <2>8. DOMAIN subs' = DOMAIN subs /\ \A j \in DOMAIN subs : subs'[j] = IF j = i THEN r ELSE subs[j]
    BY <1>2, <2>7
  <2>9. \A j \in DOMAIN subs, u \in Patterns :
          subs'[j].topics[u] = subs[j].topics[u] + (IF j = i THEN Gain(m, u) ELSE 0)
    BY <1>3, <2>6, <2>8
  <2> QED
    BY <1>1, <1>4, <2>6, <2>8, <2>9
<1>6. CASE HandleShutdownSub(i, m, k)
  <2> DEFINE r == [subs[i] EXCEPT !.online = FALSE]
  <2>1. r.id = subs[i].id /\ r.topics = subs[i].topics
    BY <1>2 DEF Subscribers
  <2>2. subs' = [subs EXCEPT ![i] = r] /\ m.action = "SHUTDOWN_CLOSE"
    BY <1>6 DEF HandleShutdownSub
  <2> HIDE DEF r
  <2>3. DOMAIN subs' = DOMAIN subs /\ \A j \in DOMAIN subs : subs'[j] = IF j = i THEN r ELSE subs[j]
    BY <1>2, <2>2
  <2>4. \A u : Gain(m, u) = 0
    BY <2>2 DEF Gain, Command
  <2>5. \A j \in DOMAIN subs, u \in Patterns :
          subs'[j].topics[u] = subs[j].topics[u] + (IF j = i THEN Gain(m, u) ELSE 0)
    BY <1>3, <2>1, <2>3, <2>4
  <2> QED
    BY <1>1, <1>4, <2>1, <2>3, <2>5
<1> QED
  BY <1>1, <1>4, <1>5, <1>6

\* The record that the lookup finds is that of the run that sent the packet, as
\* long as no two records share a descriptor.
LEMMA LookupIsOwn ==
  ASSUME IInv, RecordInv, LeaveInv, NEW k \in DOMAIN sv_fds, NEW i \in DOMAIN subs,
         PacketReadyAt(k), IsSubscriberByFd(i, sv_fds[k])
  PROVE  /\ conn[sv_fds[k]] \in Clients /\ conn[sv_fds[k]] \in admitted
         /\ Alive /\ (~aliased => subs[i].id = IdOf[conn[sv_fds[k]]])
<1>1. Serving /\ Alive
  BY DEF PacketReadyAt, Serving, Alive
<1>2. /\ conn[sv_fds[k]] # None
      /\ \E j \in DOMAIN subs : subs[j].fd = sv_fds[k] /\ subs[j].id = IdOf[conn[sv_fds[k]]]
  BY <1>1 DEF IInv, ServerInv, PolledHasRecord
<1>3. sv_fds[k] \in Fds
  BY LenProperties, ElementOfSeq DEF IInv, TypeOK, ServerTypeOK
<1>4. conn[sv_fds[k]] \in Clients
  BY <1>2, <1>3 DEF IInv, TypeOK, SocketsTypeOK
<1>5. conn[sv_fds[k]] \in admitted
  BY <1>1, <1>4 DEF LeaveInv, PolledAreAdmitted, Polled, Session
<1>6. ~aliased => subs[i].id = IdOf[conn[sv_fds[k]]]
  BY <1>2 DEF RecordInv, RecordFdsDistinct, IsSubscriberByFd
<1> QED
  BY <1>1, <1>4, <1>5, <1>6

\* A command reaches the record and leaves the socket in the same step.
LEMMA MessageAccount ==
  ASSUME IInv, RecordInv, LeaveInv, AccountInv, UNCHANGED cliVars, ParseClientMessage
  PROVE  AccountInv'
<1>1. UNCHANGED <<admitted, aliased, pc, lost>>
  BY DEF ParseClientMessage
<1>2. PICK k \in DOMAIN sv_fds, i \in DOMAIN subs :
        /\ PacketReadyAt(k) /\ IsSubscriberByFd(i, sv_fds[k]) /\ TakeFrom(conn[sv_fds[k]])
        /\ DOMAIN subs' = DOMAIN subs
        /\ \A j \in DOMAIN subs : subs'[j].id = subs[j].id
        /\ \A j \in DOMAIN subs, t \in Patterns :
             subs'[j].topics[t] = subs[j].topics[t] + (IF j = i THEN Gain(PacketAt(k), t) ELSE 0)
  BY MessageTopics
<1>3. PICK p \in Clients : p = conn[sv_fds[k]]
  BY <1>2, LookupIsOwn
<1>4. p \in admitted /\ Alive /\ (~aliased => subs[i].id = IdOf[p])
  BY <1>2, <1>3, LookupIsOwn
<1>5. \A q \in Clients, t \in Patterns :
        NetRead(q, t)' = NetRead(q, t) + (IF q = p THEN Gain(PacketAt(k), t) ELSE 0)
  <2>1. toServer[p] # <<>> /\ TakeFrom(p) /\ PacketAt(k) = Head(toServer[p])
    BY <1>2, <1>3 DEF PacketReadyAt, PacketAt
  <2> QED
    BY <1>1, <2>1, TakingCounts
<1>6. AdmittedHaveRecord'
  BY <1>1, <1>2 DEF AccountInv, AdmittedHaveRecord
<1>7. UnreadBefore'
  <2>1. \A q \in Clients \ admitted, t \in Patterns : NetRead(q, t) = 0 /\ q # p
    BY <1>4 DEF AccountInv, UnreadBefore
  <2>2. \A q \in Clients \ admitted, t \in Patterns : NetRead(q, t)' = 0 + 0
    BY <1>5, <2>1
  <2> QED
    BY <1>1, <2>2 DEF UnreadBefore
<1>8. Accounted'
  <2> SUFFICES ASSUME ~aliased, NEW j \in DOMAIN subs, NEW t \in Patterns,
                      NEW id, id = subs'[j].id
               PROVE  subs'[j].topics[t] = Account(id, t)'
    BY <1>1, <1>2 DEF Accounted
  <2>1. id = subs[j].id /\ subs[j].topics[t] = Account(id, t) /\ SessionsOf(id)' = SessionsOf(id)
    BY <1>1, <1>2, <1>4, AccountFacts DEF SessionsOf
  <2>2. PICK d \in Int : d = Gain(PacketAt(k), t)
    BY DEF Gain
  <2>3. subs'[j].topics[t] = subs[j].topics[t] + (IF j = i THEN d ELSE 0)
    BY <1>2, <2>2
  <2> DEFINE f == Net(t)
             g == Net(t)'
             S == SessionsOf(id)
  <2>4. IsFiniteSet(S) /\ S \subseteq Clients /\ \A q \in Clients : f[q] \in Int
    BY AccountFacts
  <2>5. \A q \in Clients : g[q] = f[q] + (IF q = p THEN d ELSE 0)
    BY <1>5, <2>2 DEF Net
  <2>6. Account(id, t) = SumFunctionOnSet(f, S) /\ Account(id, t)' = SumFunctionOnSet(g, S)
    BY <2>1 DEF Account
  <2>7. p \in S <=> j = i
    <3>1. p \in S <=> IdOf[p] = id
      BY <1>4 DEF SessionsOf
    <3>2. IdOf[p] = subs[i].id
      BY <1>4
    <3>3. RecordsDistinct
      BY DEF IInv, ServerInv
    <3> QED
      BY <2>1, <3>1, <3>2, <3>3 DEF RecordsDistinct
  <2> HIDE DEF f, g, S
  <2>8. PICK s \in Int : s = SumFunctionOnSet(f, S)
    BY <2>4, SumSplits
  <2>9. CASE j = i
    <3>1. /\ p \in S /\ g[p] = f[p] + d
          /\ \A q \in S : f[q] \in Int /\ (q # p => g[q] = f[q])
      BY <2>4, <2>5, <2>7, <2>9
    <3>2. SumFunctionOnSet(g, S) = SumFunctionOnSet(f, S) + d
      BY <2>4, <3>1, SumChanges
    <3> QED
      BY <2>1, <2>3, <2>6, <2>8, <2>9, <3>2
  <2>10. CASE j # i
    <3>1. \A q \in S : f[q] = g[q] /\ f[q] \in Int
      BY <2>4, <2>5, <2>7, <2>10
    <3>2. SumFunctionOnSet(g, S) = SumFunctionOnSet(f, S)
      BY <2>4, <3>1, SumsEqual
    <3>3. subs'[j].topics[t] = s + 0
      BY <2>1, <2>3, <2>6, <2>8, <2>10
    <3> QED
      BY <2>6, <2>8, <3>2, <3>3
  <2> QED
    BY <2>9, <2>10
<1> QED
  BY <1>6, <1>7, <1>8, AccountedNext DEF AccountInv

\* What the server does.
LEMMA ServerAccount ==
  ASSUME IInv, AdmissionInv, RecordInv, LeaveInv, AccountInv, UNCHANGED cliVars, ServerStep
  PROVE  AccountInv'
<1>1. CASE Reconnect \/ AddNewSub
  BY <1>1, AdmitAccount
<1>2. CASE ParseClientMessage
  BY <1>2, MessageAccount
<1>3. CASE RefuseIntruder
  <2>1. ConnectArrives /\ TakeFrom(conn[cur]) /\ UNCHANGED <<subs, admitted, aliased, lost>>
    BY <1>3 DEF RefuseIntruder
  <2>2. SameNet /\ Alive
    BY <2>1, ConnectNet
  <2> QED
    BY <2>1, <2>2, AccountKept
<1>4. CASE ClientMessageDies
  <2>1. pc' = "dead" /\ UNCHANGED <<subs, admitted, aliased>>
    BY <1>4 DEF ClientMessageDies, Halt
  <2> QED
    BY <2>1, AccountKept DEF Alive
<1>5. CASE \/ ReadStdin \/ Accept \/ AcceptFails \/ ConnectEof \/ ReceiveDatagram
           \/ SendNotification \/ NotificationSigpipe \/ NotificationBadFd \/ StartRound
           \/ ClientEof \/ EndRound \/ StopClient \/ StopSigpipe \/ StopServer
  <2>1. UNCHANGED <<subs, admitted, aliased, toServer, lost>> /\ Alive
    BY <1>5 DEF ReadStdin, Accept, AcceptFails, ConnectEof, ReceiveDatagram, SendNotification,
                NotificationSigpipe, NotificationBadFd, StartRound, ClientEof, EndRound,
                StopClient, StopSigpipe, StopServer, Alive
  <2>2. SameNet
    BY <2>1 DEF SameNet, NetRead, Unread
  <2> QED
    BY <2>1, <2>2, AccountKept
<1> QED
  BY <1>1, <1>2, <1>3, <1>4, <1>5 DEF ServerStep

\* Every step.
LEMMA NextAccount ==
  IInv /\ AdmissionInv /\ RecordInv /\ LeaveInv /\ AccountInv /\ [Next]_vars => AccountInv'
<1> SUFFICES ASSUME IInv, AdmissionInv, RecordInv, LeaveInv, AccountInv, [Next]_vars
             PROVE  AccountInv'
  OBVIOUS
<1>1. CASE ServerStep /\ UNCHANGED cliVars
  BY <1>1, ServerAccount
<1>2. CASE \E p \in Clients : (ClientStep(p) \/ UserStep(p)) /\ UNCHANGED srvVars
  <2>1. SameNet /\ UNCHANGED srvVars
    BY <1>2, ClientNet
  <2> QED
    BY <2>1, AccountKept DEF Alive
<1>3. CASE (\E t \in Topics : Publish(t)) \/ OperatorExit \/ UNCHANGED vars
  <2>1. UNCHANGED <<subs, admitted, aliased, toServer, lost, asked, dropped, pc>>
    BY <1>3 DEF Publish, OperatorExit, vars
  <2>2. SameNet
    BY <2>1 DEF SameNet, NetRead, Unread
  <2> QED
    BY <2>1, <2>2, AccountKept DEF Alive
<1>4. CASE Resets
  <2>1. SameNet /\ UNCHANGED srvVars
    BY <1>4, ResetsNet DEF Resets
  <2> QED
    BY <2>1, AccountKept DEF Alive
<1> QED
  BY <1>1, <1>2, <1>3, <1>4 DEF Next, Resets

\* The sums with all that they rest on.
LEMMA AccountInvariance == Spec => []AccountInv
<1>1. ASSUME Init PROVE AccountInv
  <2>1. /\ admitted = {} /\ subs = <<>> /\ DOMAIN subs = {}
        /\ \A p \in Clients : toServer[p] = <<>> /\ lost[p] = <<>>
        /\ \A p \in Clients, t \in Patterns : asked[p][t] = 0 /\ dropped[p][t] = 0
    BY <1>1, EmptyFacts DEF Init, SocketsInit, ServerInit, SubscriberInit
  <2>2. \A act, t : Waiting(<<>>, act, t) = 0
    <3> SUFFICES ASSUME NEW act, NEW t PROVE Waiting(<<>>, act, t) = 0
      OBVIOUS
    <3>1. {n \in DOMAIN <<>> : <<>>[n] = [action |-> act, topic |-> t]} = {}
      BY EmptyFacts
    <3> QED
      BY <3>1, FS_EmptySet DEF Waiting
  <2>3. \A p \in Clients : Unread(p) = <<>>
    <3>1. <<>> \o <<>> = <<>>
      BY EmptySeq, ConcatEmptySeq
    <3> QED
      BY <2>1, <3>1 DEF Unread
  <2>4. \A p \in Clients, t \in Patterns : NetRead(p, t) = 0
    BY <2>1, <2>2, <2>3 DEF NetRead
  <2> QED
    BY <2>1, <2>4, FS_EmptySet
    DEF AccountInv, AdmittedHaveRecord, UnreadBefore, TopicsAccountedFor
<1> QED
  BY <1>1, NextAccount, LeaveInvariance, RecordInvariance, AdmissionInvariance, Invariance, PTL
  DEF Spec

\* The topics of a record are what the sessions of its id have subscribed to and
\* not unsubscribed from, over all reconnections: no command is lost, applied
\* twice, or applied to another record, until two records share a descriptor.
THEOREM TopicsAreAccountedFor == Spec => []TopicsAccountedFor
<1>1. AccountInv => TopicsAccountedFor
  BY DEF AccountInv
<1> QED
  BY <1>1, AccountInvariance, PTL
=============================================================================
