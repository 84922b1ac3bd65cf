------------------------------ MODULE Framing ------------------------------
(***************************************************************************)
(* common.cpp: send_tcp_packet and recv_tcp_packet, at the two ends of one *)
(* direction of a TCP connection.  The stream has no packet boundaries,    *)
(* send accepts and recv returns any number of bytes up to what there is   *)
(* room or data for, and the receiver learns from the header it has just   *)
(* read how much more belongs to the packet.                               *)
(*                                                                         *)
(* A byte is known by its position in the stream, from 0.  The receiver    *)
(* does not use this knowledge, except that the header of a packet tells   *)
(* the length of that packet.                                              *)
(*                                                                         *)
(* A definition called Name_Something is Name with a bug somebody could    *)
(* have written.                                                           *)
(***************************************************************************)
EXTENDS Integers, Sequences, SequencesExt, FiniteSets

CONSTANTS
  Hdr,       \* sizeof(tcp_hdr)
  Lens,      \* lengths of payloads, the len fields of headers
  Capacity,  \* bytes the socket buffers of both ends hold
  SizeT,     \* the counters are size_t: they count modulo this number
  MaxPackets \* bound: packets sent

ASSUME FramingAssumption ==
  /\ Hdr \in Nat \ {0}
  /\ Lens \subseteq Nat
  /\ Capacity \in Nat \ {0}
  /\ SizeT \in Nat /\ \A l \in Lens \cup {0} : Hdr + l + 1 < SizeT
  /\ MaxPackets \in Nat

VARIABLES
  sent,            \* the payload lengths of the packets given to send_tcp_packet
  sending,         \* the sender is in the loop of send_tcp_packet
  bytes_sent,      \* the sender's counters
  bytes_to_send,
  first,           \* history: first[n] is the position of packet n's first byte
  wire,            \* bytes accepted by send and not yet returned by recv
  open,            \* the sender's end is open
  reset,           \* the connection was reset, which recv has yet to report
  rpc,             \* where the receiver is
  bytes_received,  \* the receiver's counters
  bytes_remaining,
  buff,            \* the bytes written to the receiver's buffer by this call
  got              \* history: what the calls of recv_tcp_packet returned

sendVars == <<sent, sending, bytes_sent, bytes_to_send, first>>
recvVars == <<rpc, bytes_received, bytes_remaining, buff, got>>
vars == <<sendVars, wire, open, reset, recvVars>>

\* "idle": in poll(); "header", "payload": in the first and the second loop of
\* recv_tcp_packet; "spin": in a loop whose recv returns 0 for ever.
RecvPhases == {"idle", "header", "payload", "spin"}

FramingTypeOK ==
  /\ sent \in Seq(Lens)
  /\ sending \in BOOLEAN
  /\ bytes_sent \in 0 .. SizeT - 1 /\ bytes_to_send \in 0 .. SizeT - 1
  /\ first \in Seq(Nat)
  /\ wire \in Seq(Nat) /\ Len(wire) <= Capacity
  /\ open \in BOOLEAN /\ reset \in BOOLEAN
  /\ rpc \in RecvPhases
  /\ bytes_received \in 0 .. SizeT - 1 /\ bytes_remaining \in 0 .. SizeT - 1
  /\ buff \in Seq(Nat)
  /\ got \in Seq(Seq(Nat))

Init ==
  /\ sent = <<>> /\ sending = FALSE /\ bytes_sent = 0 /\ bytes_to_send = 0
  /\ first = <<0>>
  /\ wire = <<>> /\ open = TRUE /\ reset = FALSE
  /\ rpc = "idle" /\ bytes_received = 0 /\ bytes_remaining = 0 /\ buff = <<>> /\ got = <<>>

-----------------------------------------------------------------------------
\* Bytes a .. b - 1 of packet n.
Part(n, a, b) == [i \in 1 .. b - a |-> first[n] + a + i - 1]

\* The whole of packet n, header and payload.
Packet(n) == Part(n, 0, Hdr + sent[n])

\* send_tcp_packet is called with a header whose len is l.
SendPacket(l) ==
  /\ open /\ ~sending /\ Len(sent) < MaxPackets
  /\ sent' = Append(sent, l)
  /\ sending' = TRUE
  /\ bytes_sent' = 0 /\ bytes_to_send' = Hdr + l
  /\ first' = Append(first, first[Len(first)] + Hdr + l)
  /\ UNCHANGED <<wire, open, reset, recvVars>>

\* Variant: every send is asked for as many bytes as the packet has.
SendSome_WholeLength(k) ==
  /\ open /\ sending
  /\ k <= Hdr + Last(sent) /\ k <= Capacity - Len(wire)
  /\ wire' = wire \o Part(Len(sent), bytes_sent, bytes_sent + k)
  /\ bytes_sent' = (bytes_sent + k) % SizeT
  /\ bytes_to_send' = (bytes_to_send - k) % SizeT
  /\ sending' = (bytes_to_send' # 0)
  /\ UNCHANGED <<sent, first, open, reset, recvVars>>

\* One turn of the loop: send accepts k bytes; it blocks while there is no room.
SendSome(k) ==
  /\ open /\ sending
  /\ k <= bytes_to_send /\ k <= Capacity - Len(wire)
  /\ wire' = wire \o Part(Len(sent), bytes_sent, bytes_sent + k)
  /\ bytes_sent' = (bytes_sent + k) % SizeT
  /\ bytes_to_send' = (bytes_to_send - k) % SizeT
  /\ sending' = (bytes_to_send' # 0)
  /\ UNCHANGED <<sent, first, open, reset, recvVars>>

\* The sending program exits or is killed, perhaps in the middle of a packet.
\* If it leaves data unread the connection is reset, and bytes that have not
\* reached the other end are lost.
SenderEnds ==
  /\ open
  /\ open' = FALSE
  /\ \/ UNCHANGED <<wire, reset>>
     \/ reset' = TRUE /\ \E k \in 0 .. Len(wire) : wire' = SubSeq(wire, 1, k)
  /\ UNCHANGED <<sendVars, recvVars>>

-----------------------------------------------------------------------------
\* Variant: the call waits until the whole packet is in the socket.
ReceivePacket_WhenWhole ==
  /\ rpc = "idle" /\ wire # <<>>
  /\ \E n \in DOMAIN sent : Head(wire) = first[n] /\ Len(wire) >= Hdr + sent[n]
  /\ rpc' = "header"
  /\ bytes_received' = 0 /\ bytes_remaining' = Hdr /\ buff' = <<>>
  /\ UNCHANGED <<sendVars, wire, open, reset, got>>

\* poll() reported POLLIN: recv_tcp_packet is called.
ReceivePacket ==
  /\ rpc = "idle" /\ (wire # <<>> \/ ~open)
  /\ rpc' = "header"
  /\ bytes_received' = 0 /\ bytes_remaining' = Hdr /\ buff' = <<>>
  /\ UNCHANGED <<sendVars, wire, open, reset, got>>

\* The values hdr->len can have when the header was read as the bytes b: those
\* of the header of a packet give its length, others anything.
LenField(b) ==
  {l \in Lens : \A n \in DOMAIN sent : b = Part(n, 0, Hdr) => l = sent[n]}

\* Variant: len is taken to count the header too.
HeaderDone_LenOfAll(b) ==
  \E l \in LenField(b) :
    /\ bytes_remaining' = Hdr + l
    /\ rpc' = "payload" /\ buff' = b /\ UNCHANGED got

\* The first loop ends with b in the buffer.  A packet without payload is
\* complete, as the second loop is not entered.
HeaderDone(b) ==
  \E l \in LenField(b) :
    /\ bytes_remaining' = l
    /\ IF l = 0 THEN rpc' = "idle" /\ buff' = <<>> /\ got' = Append(got, b)
                ELSE rpc' = "payload" /\ buff' = b /\ UNCHANGED got

\* Variant: one recv is thought to return the whole payload.
Recv_PayloadAtOnce(k) ==
  /\ rpc \in {"header", "payload"}
  /\ k <= bytes_remaining /\ k <= Len(wire)
  /\ wire' = SubSeq(wire, k + 1, Len(wire))
  /\ bytes_received' = (bytes_received + k) % SizeT
  /\ LET b == buff \o SubSeq(wire, 1, k) IN
       \/ /\ rpc = "payload"
          /\ bytes_remaining' = 0
          /\ rpc' = "idle" /\ buff' = <<>> /\ got' = Append(got, b)
       \/ /\ rpc = "header" /\ bytes_remaining # k
          /\ bytes_remaining' = (bytes_remaining - k) % SizeT
          /\ buff' = b /\ UNCHANGED <<rpc, got>>
       \/ rpc = "header" /\ bytes_remaining = k /\ HeaderDone(b)
  /\ UNCHANGED <<sendVars, open, reset>>

\* One turn of either loop: recv returns k bytes.
Recv(k) ==
  /\ rpc \in {"header", "payload"}
  /\ k <= bytes_remaining /\ k <= Len(wire)
  /\ wire' = SubSeq(wire, k + 1, Len(wire))
  /\ bytes_received' = (bytes_received + k) % SizeT
  /\ LET b == buff \o SubSeq(wire, 1, k) IN
       \/ /\ bytes_remaining # k
          /\ bytes_remaining' = (bytes_remaining - k) % SizeT
          /\ buff' = b /\ UNCHANGED <<rpc, got>>
       \/ rpc = "header" /\ bytes_remaining = k /\ HeaderDone(b)
       \/ /\ rpc = "payload" /\ bytes_remaining = k
          /\ bytes_remaining' = 0
          /\ rpc' = "idle" /\ buff' = <<>> /\ got' = Append(got, b)
  /\ UNCHANGED <<sendVars, open, reset>>

\* recv returns -1, once, after a reset: as a size_t it is not < 0, and adding
\* and subtracting it moves both counters one byte the wrong way.
RecvError ==
  /\ rpc \in {"header", "payload"} /\ wire = <<>> /\ reset
  /\ bytes_received' = (bytes_received - 1) % SizeT
  /\ bytes_remaining' = (bytes_remaining + 1) % SizeT
  /\ reset' = FALSE
  /\ UNCHANGED <<sendVars, wire, open, rpc, buff, got>>

\* recv returns 0, now and for ever: the loop does not end.
RecvEof ==
  /\ rpc \in {"header", "payload"} /\ wire = <<>> /\ ~open /\ ~reset
  /\ rpc' = "spin"
  /\ UNCHANGED <<sendVars, wire, open, reset, bytes_received, bytes_remaining, buff, got>>

-----------------------------------------------------------------------------
SendLoop == \E k \in 1 .. Capacity : SendSome(k)
RecvLoop == ReceivePacket \/ (\E k \in 1 .. Capacity : Recv(k)) \/ RecvError \/ RecvEof

Next == (\E l \in Lens : SendPacket(l)) \/ SendLoop \/ SenderEnds \/ RecvLoop

\* Both processes are scheduled; nobody is obliged to send.
FramingSpec == Init /\ [][Next]_vars /\ WF_vars(SendLoop) /\ WF_vars(RecvLoop)

-----------------------------------------------------------------------------
\* Nothing can arrive any more, and recv has nothing left to report.
Exhausted == wire = <<>> /\ ~open /\ ~reset

\* The bytes of the packet that the loop the receiver is in goes up to.
Expected == IF rpc = "header" THEN Hdr ELSE Hdr + sent[Len(got) + 1]

\* Both counters of send_tcp_packet and of recv_tcp_packet, common.cpp:24-53 and
\* 60-71: together they are the bytes of the packet that is sent and of the part
\* that is received, so that send is never asked for bytes behind the packet nor
\* recv for bytes of the next one, and bytes_received is where the bytes already
\* in the buffer end, so that recv never leaves a gap nor writes over them.  The
\* -1 of a failed recv, which passes the test for < 0 and is added to them, breaks
\* this only when no byte can arrive any more.
CountersMatchThePacket ==
  /\ sending => bytes_to_send > 0 /\ bytes_sent + bytes_to_send = Hdr + Last(sent)
  /\ rpc \in {"header", "payload"} =>
       \/ Exhausted
       \/ bytes_received = Len(buff) /\ bytes_received + bytes_remaining = Expected

\* The packets that send_tcp_packet has returned from.
Complete == IF sending THEN Len(sent) - 1 ELSE Len(sent)

\* The number of the packet that the bytes b are, 0 if they are no packet.
NumberOf(b) ==
  IF \E n \in DOMAIN sent : b = Packet(n) THEN CHOOSE n \in DOMAIN sent : b = Packet(n) ELSE 0

Channel == INSTANCE PacketChannel WITH
  put   <- Complete,
  queue <- [i \in 1 .. Complete - Len(got) |-> Len(got) + i],
  taken <- [n \in DOMAIN got |-> NumberOf(got[n])]

\* The loops implement a queue of packets: recv_tcp_packet returns the packets
\* whole, once and in order, however send and recv cut the stream, and never a
\* part of one whose sender ended in the middle of it or was reset.
IsAChannel == Channel!ChannelSpec

\* send_tcp_packet returns, also when the packet is larger than the socket
\* buffers, as long as the other end reads.
SendReturns == sending ~> (~sending \/ ~open)

\* What was sent is received, even if its sender ends right afterwards, unless
\* the connection is reset.
PacketsGetThrough ==
  \A n \in 1 .. MaxPackets : (open /\ Complete >= n) ~> (Len(got) >= n \/ reset)
=============================================================================
