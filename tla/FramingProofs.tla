--------------------------- MODULE FramingProofs ---------------------------
(***************************************************************************)
(* Proofs about send_tcp_packet and recv_tcp_packet, for every size of the *)
(* header, of payloads, of the socket buffers and of size_t.               *)
(*                                                                         *)
(* The receiver is always at the byte after those of the packets it has    *)
(* returned and those of the packet it is reading, and the bytes on the    *)
(* wire are the ones from there to the last byte sent, or to an earlier    *)
(* one when a reset has lost the others.                                   *)
(***************************************************************************)
EXTENDS Framing, SequenceTheorems, TLAPS

\* Counters that stay below 2^64 are not changed by size_t.
LEMMA ModSmall ==
  ASSUME NEW n \in Nat, NEW x \in 0 .. n - 1
  PROVE  x % n = x
  OBVIOUS

\* Positions start with 0 and leave Hdr + sent[n] bytes for packet n.
Layout ==
  /\ Len(first) = Len(sent) + 1
  /\ \A n \in DOMAIN sent : first[n + 1] = first[n] + Hdr + sent[n]
  /\ \A m, n \in DOMAIN first : m < n => first[m] < first[n]

\* The counters of the sender make up the packet it is sending.
SenderInv ==
  sending =>
    /\ sent # <<>>
    /\ bytes_to_send > 0
    /\ bytes_sent + bytes_to_send = Hdr + sent[Len(sent)]

\* The position after the last byte sent, and the number of the packet that
\* the receiver is at.
End == first[Len(first)] - (IF sending THEN bytes_to_send ELSE 0)
Current == Len(got) + 1

WireInv ==
  /\ Len(got) <= Len(sent)
  /\ Len(wire) <= End - first[Current] - Len(buff)
  /\ open => Len(wire) = End - first[Current] - Len(buff)
  /\ \A i \in DOMAIN wire : wire[i] = first[Current] + Len(buff) + i - 1
  /\ \A i \in DOMAIN buff : buff[i] = first[Current] + i - 1

ReceiverInv ==
  /\ reset => ~open
  /\ rpc = "idle" => buff = <<>>
  /\ rpc = "header" =>
       /\ Len(buff) < Hdr
       /\ \/ Exhausted
          \/ bytes_received = Len(buff) /\ bytes_remaining = Hdr - Len(buff)
  /\ rpc = "payload" =>
       /\ Len(got) < Len(sent)
       /\ Hdr <= Len(buff)
       /\ Len(buff) < Hdr + sent[Current]
       /\ \/ Exhausted
          \/ bytes_received = Len(buff) /\ bytes_remaining = Hdr + sent[Current] - Len(buff)

\* The packets returned are those sent.
GotInv ==
  \A n \in DOMAIN got : n \in DOMAIN sent /\ got[n] = Packet(n)

FInv ==
  /\ FramingTypeOK
  /\ Layout
  /\ SenderInv
  /\ WireInv
  /\ ReceiverInv
  /\ GotInv

-----------------------------------------------------------------------------
\* The constants are numbers, and a size_t holds a packet's length.
LEMMA Sizes ==
  /\ Hdr \in Nat /\ 0 < Hdr /\ Hdr + 1 < SizeT
  /\ SizeT \in Nat /\ Capacity \in Nat
  /\ Lens \subseteq Nat
  /\ \A l \in Lens : Hdr + l + 1 < SizeT
<1>1. Hdr \in Nat /\ 0 < Hdr /\ SizeT \in Nat /\ Capacity \in Nat /\ Lens \subseteq Nat
      /\ \A l \in Lens \cup {0} : Hdr + l + 1 < SizeT
  BY FramingAssumption DEF FramingAssumption
<1>2. Hdr + 0 + 1 < SizeT
  BY <1>1
<1> QED
  BY <1>1, <1>2

\* What the types and the layout say about indices and positions.
Indices ==
  /\ Len(sent) \in Nat /\ DOMAIN sent = 1 .. Len(sent)
  /\ \A n \in DOMAIN sent : sent[n] \in Lens /\ sent[n] \in Nat
  /\ DOMAIN first = 1 .. Len(sent) + 1
  /\ \A n \in DOMAIN first : first[n] \in Nat
  /\ Len(got) \in Nat /\ DOMAIN got = 1 .. Len(got)
  /\ Current \in DOMAIN first
  /\ Len(wire) \in Nat /\ DOMAIN wire = 1 .. Len(wire)
  /\ Len(buff) \in Nat /\ DOMAIN buff = 1 .. Len(buff)
  /\ End \in Int

\* The types and the layout say so.
LEMMA Positions == FInv => Indices
<1> SUFFICES ASSUME FInv PROVE Indices
  OBVIOUS
<1>1. /\ sent \in Seq(Lens) /\ first \in Seq(Nat) /\ got \in Seq(Seq(Nat)) /\ wire \in Seq(Nat)
      /\ buff \in Seq(Nat) /\ bytes_to_send \in Int /\ Lens \subseteq Nat
  BY Sizes DEF FInv, FramingTypeOK
<1>2. Len(first) = Len(sent) + 1 /\ Len(got) <= Len(sent)
  BY DEF FInv, Layout, WireInv
<1>3. Len(sent) \in Nat /\ Len(got) \in Nat
  BY <1>1
<1>4. DOMAIN first = 1 .. Len(sent) + 1 /\ \A n \in DOMAIN first : first[n] \in Nat
  BY <1>1, <1>2
<1>5. Current \in DOMAIN first
  BY <1>2, <1>3, <1>4 DEF Current
<1>6. End \in Int
  BY <1>1, <1>2, <1>3, <1>4 DEF End
<1>7. /\ DOMAIN sent = 1 .. Len(sent) /\ DOMAIN got = 1 .. Len(got)
      /\ Len(wire) \in Nat /\ DOMAIN wire = 1 .. Len(wire)
      /\ Len(buff) \in Nat /\ DOMAIN buff = 1 .. Len(buff)
      /\ \A n \in DOMAIN sent : sent[n] \in Lens
  BY <1>1
<1> QED
  BY <1>1, <1>3, <1>4, <1>5, <1>6, <1>7 DEF Indices

\* Nothing is sent, and the receiver waits for the first packet.
LEMMA InitFInv == Init => FInv
<1> SUFFICES ASSUME Init PROVE FInv
  OBVIOUS
<1>1. Len(<<>>) = 0 /\ DOMAIN <<>> = {} /\ \A S : <<>> \in Seq(S)
  BY EmptySeq, LenProperties
<1>2. first = <<0>> /\ Len(first) = 1 /\ first \in Seq(Nat) /\ DOMAIN first = {1} /\ first[1] = 0
  BY DEF Init
<1>3. /\ sent = <<>> /\ ~sending /\ bytes_sent = 0 /\ bytes_to_send = 0 /\ wire = <<>> /\ open /\ ~reset
      /\ rpc = "idle" /\ bytes_received = 0 /\ bytes_remaining = 0 /\ buff = <<>> /\ got = <<>>
      /\ sending \in BOOLEAN /\ open \in BOOLEAN /\ reset \in BOOLEAN
  BY DEF Init
<1>4. 0 \in 0 .. SizeT - 1 /\ 0 <= Capacity
  BY Sizes
<1>5. FramingTypeOK
  BY <1>1, <1>2, <1>3, <1>4 DEF FramingTypeOK, RecvPhases
<1>6. Layout /\ SenderInv /\ ReceiverInv /\ GotInv
  BY <1>1, <1>2, <1>3 DEF Layout, SenderInv, ReceiverInv, GotInv
<1>7. WireInv
  BY <1>1, <1>2, <1>3 DEF WireInv, End, Current
<1> QED
  BY <1>5, <1>6, <1>7 DEF FInv

-----------------------------------------------------------------------------
\* One more element, for packet lengths and positions.
LEMMA AppendedFacts ==
  ASSUME NEW S, NEW s \in Seq(S), NEW e \in S
  PROVE  /\ Append(s, e) \in Seq(S)
         /\ Append(s, e) # <<>>
         /\ Len(Append(s, e)) = Len(s) + 1
         /\ DOMAIN Append(s, e) = 1 .. Len(s) + 1
         /\ \A k \in 1 .. Len(s) : Append(s, e)[k] = s[k]
         /\ Append(s, e)[Len(s) + 1] = e
<1>1. Append(s, e) \in Seq(S) /\ Len(Append(s, e)) = Len(s) + 1 /\ Append(s, e) # <<>>
  BY AppendProperties
<1>2. DOMAIN Append(s, e) = 1 .. Len(s) + 1
  BY <1>1, LenProperties
<1> QED
  BY <1>1, <1>2, AppendProperties

\* The call of send_tcp_packet puts the next packet behind the stream.
LEMMA SendPacketInv ==
  ASSUME FInv, NEW l \in Lens, SendPacket(l)
  PROVE  FInv'
<1> DEFINE e == first[Len(first)] + Hdr + l
<1>0. Indices
  BY Positions
<1>1. /\ sent' = Append(sent, l) /\ first' = Append(first, e) /\ open /\ ~sending
      /\ sending' = TRUE /\ bytes_sent' = 0 /\ bytes_to_send' = Hdr + l
      /\ UNCHANGED <<wire, open, reset, rpc, bytes_received, bytes_remaining, buff, got>>
  BY DEF SendPacket, recvVars
<1>2. Len(first) = Len(sent) + 1 /\ sent \in Seq(Lens) /\ first \in Seq(Nat) /\ FramingTypeOK
  BY DEF FInv, Layout, FramingTypeOK
<1>3. l \in Nat /\ Hdr \in Nat /\ 0 < Hdr /\ Hdr + l + 1 < SizeT /\ SizeT \in Nat
  BY Sizes
<1>4. first[Len(first)] \in Nat /\ Len(first) \in DOMAIN first
  BY <1>0, <1>2 DEF Indices
<1>5. e \in Nat /\ e > first[Len(first)]
  BY <1>3, <1>4
<1>6. e = first[Len(first)] + Hdr + l
  OBVIOUS
<1> HIDE DEF e
<1>7. /\ sent' \in Seq(Lens) /\ sent' # <<>> /\ Len(sent') = Len(sent) + 1
      /\ DOMAIN sent' = 1 .. Len(sent) + 1
      /\ \A n \in DOMAIN sent : sent'[n] = sent[n]
      /\ sent'[Len(sent) + 1] = l
  BY <1>0, <1>1, <1>2, AppendedFacts DEF Indices
<1>8. /\ first' \in Seq(Nat) /\ Len(first') = Len(sent) + 2
      /\ DOMAIN first' = 1 .. Len(sent) + 2
      /\ \A n \in DOMAIN first : first'[n] = first[n]
      /\ first'[Len(sent) + 2] = e
  <2>1. Len(first) + 1 = Len(sent) + 2 /\ DOMAIN first = 1 .. Len(first)
    BY <1>0, <1>2 DEF Indices
  <2> QED
    BY <1>1, <1>2, <1>5, <2>1, AppendedFacts
<1>9. FramingTypeOK'
  <2>1. 0 \in 0 .. SizeT - 1 /\ Hdr + l \in 0 .. SizeT - 1
    BY <1>3
  <2> QED
    BY <1>1, <1>2, <1>7, <1>8, <2>1 DEF FramingTypeOK
<1>10. Layout'
  <2>1. ASSUME NEW n \in DOMAIN sent'
        PROVE  first'[n + 1] = first'[n] + Hdr + sent'[n]
    <3>1. CASE n \in DOMAIN sent
      <4>1. n \in DOMAIN first /\ n + 1 \in DOMAIN first
        BY <1>0, <3>1 DEF Indices
      <4>2. first'[n + 1] = first[n + 1] /\ first'[n] = first[n] /\ sent'[n] = sent[n]
        BY <1>7, <1>8, <3>1, <4>1
      <4>3. first[n + 1] = first[n] + Hdr + sent[n]
        BY <3>1 DEF FInv, Layout
      <4> QED
        BY <4>2, <4>3
    <3>2. CASE n = Len(sent) + 1
      <4>1. n + 1 = Len(sent) + 2 /\ n = Len(first) /\ n \in DOMAIN first
        BY <1>0, <1>2, <3>2 DEF Indices
      <4>2. first'[n + 1] = e /\ first'[n] = first[Len(first)] /\ sent'[n] = l
        BY <1>7, <1>8, <3>2, <4>1
      <4> QED
        BY <1>6, <4>2
    <3> QED
      BY <1>0, <1>7, <3>1, <3>2 DEF Indices
  <2>2. ASSUME NEW m \in DOMAIN first', NEW n \in DOMAIN first', m < n
        PROVE  first'[m] < first'[n]
    <3>1. m \in DOMAIN first /\ m \in Nat /\ n \in Nat /\ m <= Len(first)
      <4>1. m \in 1 .. Len(sent) + 2 /\ n \in 1 .. Len(sent) + 2
        BY <1>8, <2>2
      <4>2. Len(sent) \in Nat /\ DOMAIN first = 1 .. Len(sent) + 1
        BY <1>0 DEF Indices
      <4> QED
        BY <1>2, <2>2, <4>1, <4>2
    <3>2. CASE n \in DOMAIN first
      <4>1. Layout
        BY DEF FInv
      <4>2. first[m] < first[n]
        BY <2>2, <3>1, <3>2, <4>1 DEF Layout
      <4>3. first'[m] = first[m] /\ first'[n] = first[n]
        BY <1>8, <3>1, <3>2
      <4> QED
        BY <4>2, <4>3
    <3>3. CASE n = Len(sent) + 2
      <4>1. first[m] <= first[Len(first)]
        <5>0. Layout
          BY DEF FInv
        <5>1. m < Len(first) => first[m] < first[Len(first)]
          BY <1>4, <3>1, <5>0 DEF Layout
        <5>2. first[m] \in Nat /\ Len(first) \in Nat
          BY <1>0, <1>2, <3>1 DEF Indices
        <5> QED
          BY <1>4, <3>1, <5>1, <5>2
      <4>2. first'[m] = first[m] /\ first'[n] = e /\ first[m] \in Nat
        BY <1>0, <1>8, <3>1, <3>3 DEF Indices
      <4> QED
        BY <1>4, <1>5, <4>1, <4>2
    <3> QED
      BY <1>0, <1>8, <3>2, <3>3 DEF Indices
  <2>3. Len(first') = Len(sent') + 1
    BY <1>0, <1>7, <1>8 DEF Indices
  <2> QED
    BY <2>1, <2>2, <2>3 DEF Layout
<1>11. SenderInv'
  BY <1>1, <1>3, <1>7 DEF SenderInv
<1>12. Current' = Current /\ first'[Current] = first[Current] /\ Len(got)' = Len(got)
  BY <1>0, <1>1, <1>8 DEF Current, Indices
<1>13. End' = End
  <2>1. End = first[Len(first)]
    BY <1>1, <1>4 DEF End
  <2>2. End' = e - (Hdr + l)
    BY <1>1, <1>8 DEF End
  <2> QED
    BY <1>3, <1>4, <1>6, <2>1, <2>2
<1>14. WireInv'
  <2>1. Len(got) <= Len(sent')
    BY <1>0, <1>7 DEF FInv, WireInv, Indices
  <2> QED
    BY <1>1, <1>12, <1>13, <2>1 DEF FInv, WireInv
<1>15. ReceiverInv'
  <2>1. Len(got) < Len(sent) => Len(got) < Len(sent') /\ sent'[Current] = sent[Current]
    BY <1>0, <1>7 DEF Current, Indices
  <2> QED
    BY <1>1, <1>12, <2>1 DEF FInv, ReceiverInv, Exhausted
<1>16. GotInv'
  <2> SUFFICES ASSUME NEW n \in DOMAIN got
               PROVE  n \in DOMAIN sent' /\ got[n] = Packet(n)'
    BY <1>1 DEF GotInv
  <2>1. n \in DOMAIN sent /\ n \in DOMAIN first /\ got[n] = Packet(n)
    BY <1>0 DEF FInv, GotInv, Indices
  <2>2. sent'[n] = sent[n] /\ first'[n] = first[n] /\ n \in DOMAIN sent'
    BY <1>0, <1>7, <1>8, <2>1 DEF Indices
  <2> QED
    BY <2>1, <2>2 DEF Packet, Part
<1> QED
  BY <1>9, <1>10, <1>11, <1>14, <1>15, <1>16 DEF FInv

\* The two parts of a concatenation.
LEMMA ConcatFacts ==
  ASSUME NEW S, NEW s \in Seq(S), NEW t \in Seq(S), NEW k, Len(t) = k
  PROVE  /\ s \o t \in Seq(S)
         /\ Len(s \o t) = Len(s) + k
         /\ \A i \in 1 .. Len(s) : (s \o t)[i] = s[i]
         /\ \A i \in Len(s) + 1 .. Len(s) + k : (s \o t)[i] = t[i - Len(s)]
<1>1. Len(s) \in Nat /\ Len(t) \in Nat
  BY LenProperties
<1>2. s \o t \in Seq(S) /\ Len(s \o t) = Len(s) + k
  BY ConcatProperties
<1>3. \A i \in 1 .. Len(s) + Len(t) : (s \o t)[i] = IF i <= Len(s) THEN s[i] ELSE t[i - Len(s)]
  BY ConcatProperties
<1>4. ASSUME NEW i \in 1 .. Len(s)
      PROVE  (s \o t)[i] = s[i]
  <2>1. i \in 1 .. Len(s) + Len(t) /\ i <= Len(s)
    BY <1>1
  <2> QED
    BY <1>3, <2>1
<1>5. ASSUME NEW i \in Len(s) + 1 .. Len(s) + k
      PROVE  (s \o t)[i] = t[i - Len(s)]
  <2>1. i \in 1 .. Len(s) + Len(t) /\ ~(i <= Len(s))
    BY <1>1
  <2> QED
    BY <1>3, <2>1
<1> QED
  BY <1>2, <1>4, <1>5

\* An accepted piece of the packet moves both counters and goes behind the
\* bytes on the wire.
LEMMA SendSomeInv ==
  ASSUME FInv, NEW k \in 1 .. Capacity, SendSome(k)
  PROVE  FInv'
<1> DEFINE n == Len(sent)
<1> DEFINE piece == Part(n, bytes_sent, bytes_sent + k)
<1>0. Indices
  BY Positions
<1>1. /\ open /\ sending /\ k <= bytes_to_send /\ k <= Capacity - Len(wire)
      /\ wire' = wire \o piece
      /\ bytes_sent' = (bytes_sent + k) % SizeT
      /\ bytes_to_send' = (bytes_to_send - k) % SizeT
      /\ sending' = (bytes_to_send' # 0)
      /\ UNCHANGED <<sent, first, open, reset, rpc, bytes_received, bytes_remaining, buff, got>>
  BY DEF SendSome, recvVars
<1>2. FramingTypeOK /\ Layout /\ SenderInv /\ WireInv /\ ReceiverInv /\ GotInv
  BY DEF FInv
<1>3. bytes_sent \in 0 .. SizeT - 1 /\ bytes_to_send \in 0 .. SizeT - 1 /\ wire \in Seq(Nat)
  BY <1>2 DEF FramingTypeOK
<1>4. /\ n \in Nat /\ n \in DOMAIN sent /\ n \in DOMAIN first /\ sent[n] \in Lens /\ first[n] \in Nat
      /\ Len(first) = n + 1
      /\ first[Len(first)] = first[n] + Hdr + sent[n]
      /\ bytes_sent + bytes_to_send = Hdr + sent[n]
  <2>1. sent # <<>> /\ bytes_sent + bytes_to_send = Hdr + sent[n]
    BY <1>1, <1>2 DEF SenderInv
  <2>2. n \in Nat /\ n \in DOMAIN sent
    <3>1. sent \in Seq(Lens)
      BY <1>2 DEF FramingTypeOK
    <3>2. n # 0
      BY <2>1, <3>1, EmptySeq
    <3> QED
      BY <1>0, <3>2 DEF Indices
  <2>3. Len(first) = n + 1 /\ first[n + 1] = first[n] + Hdr + sent[n]
    BY <1>2, <2>2 DEF Layout
  <2>4. n \in DOMAIN first /\ sent[n] \in Lens /\ first[n] \in Nat
    BY <1>0, <2>2 DEF Indices
  <2> QED
    BY <2>1, <2>2, <2>3, <2>4
<1>5. sent[n] \in Nat /\ Hdr \in Nat /\ Hdr + sent[n] + 1 < SizeT /\ SizeT \in Nat /\ Capacity \in Nat
  BY <1>4, Sizes
<1>6. bytes_sent' = bytes_sent + k /\ bytes_to_send' = bytes_to_send - k
  <2>1. bytes_sent + k \in 0 .. SizeT - 1 /\ bytes_to_send - k \in 0 .. SizeT - 1
    BY <1>1, <1>3, <1>4, <1>5
  <2> QED
    BY <1>1, <1>5, <2>1, ModSmall
<1>7. End = first[n] + bytes_sent
  <2>1. End = (first[n] + Hdr + sent[n]) - bytes_to_send
    BY <1>1, <1>4 DEF End
  <2>2. \A f, h, p, b, t \in Int : b + t = h + p => (f + h + p) - t = f + b
    OBVIOUS
  <2>3. /\ first[n] \in Int /\ Hdr \in Int /\ sent[n] \in Int
        /\ bytes_sent \in Int /\ bytes_to_send \in Int
    BY <1>3, <1>4, <1>5
  <2> QED
    BY <1>4, <2>1, <2>2, <2>3, SMTT(60)
<1>8. /\ piece \in Seq(Nat) /\ Len(piece) = k
      /\ \A i \in 1 .. k : piece[i] = End + i - 1
  <2>1. (bytes_sent + k) - bytes_sent = k
    BY <1>3
  <2>2. piece = [i \in 1 .. k |-> first[n] + bytes_sent + i - 1]
    BY <2>1 DEF Part
  <2>3. \A i \in 1 .. k : piece[i] = End + i - 1 /\ piece[i] \in Nat
    <3> SUFFICES ASSUME NEW i \in 1 .. k PROVE piece[i] = End + i - 1 /\ piece[i] \in Nat
      OBVIOUS
    <3>1. piece[i] = first[n] + bytes_sent + i - 1
      BY <2>2
    <3>2. first[n] \in Nat /\ bytes_sent \in Nat /\ i \in Nat /\ i >= 1
      BY <1>3, <1>4
    <3> QED
      BY <1>7, <3>1, <3>2
  <2>4. piece \in [1 .. k -> Nat] /\ k \in Nat
    BY <2>2, <2>3
  <2>5. piece \in Seq(Nat) /\ Len(piece) = k
    BY <2>4
  <2> QED
    BY <2>3, <2>5
<1> HIDE DEF n, piece
<1>9. /\ wire' \in Seq(Nat) /\ Len(wire') = Len(wire) + k
      /\ \A i \in 1 .. Len(wire) : wire'[i] = wire[i]
      /\ \A i \in Len(wire) + 1 .. Len(wire) + k : wire'[i] = End + (i - Len(wire)) - 1
  <2>1. /\ wire' \in Seq(Nat) /\ Len(wire') = Len(wire) + k
        /\ \A i \in 1 .. Len(wire) : wire'[i] = wire[i]
        /\ \A i \in Len(wire) + 1 .. Len(wire) + k : wire'[i] = piece[i - Len(wire)]
    <3>1. wire' = wire \o piece /\ wire \in Seq(Nat) /\ piece \in Seq(Nat) /\ Len(piece) = k
      BY <1>1, <1>3, <1>8
    <3> QED
      BY <3>1, ConcatFacts
  <2>2. \A i \in Len(wire) + 1 .. Len(wire) + k : i - Len(wire) \in 1 .. k
    BY <1>0 DEF Indices
  <2>3. \A i \in 1 .. k : piece[i] = End + i - 1
    BY <1>8
  <2>4. ASSUME NEW i \in Len(wire) + 1 .. Len(wire) + k
        PROVE  wire'[i] = End + (i - Len(wire)) - 1
    <3>1. wire'[i] = piece[i - Len(wire)] /\ i - Len(wire) \in 1 .. k
      BY <2>1, <2>2
    <3> QED
      BY <2>3, <3>1
  <2> QED
    BY <2>1, <2>4
<1>10. FramingTypeOK'
  <2>1. bytes_sent' \in 0 .. SizeT - 1 /\ bytes_to_send' \in 0 .. SizeT - 1
    BY <1>1, <1>3, <1>4, <1>5, <1>6, SMTT(60)
  <2>2. Len(wire') <= Capacity /\ sending' \in BOOLEAN
    BY <1>0, <1>1, <1>5, <1>9 DEF Indices
  <2> QED
    BY <1>1, <1>2, <1>9, <2>1, <2>2 DEF FramingTypeOK
<1>11. Layout'
  BY <1>1, <1>2 DEF Layout
<1>12. SenderInv'
  <2>1. bytes_sent' + bytes_to_send' = Hdr + sent[n]
    BY <1>3, <1>4, <1>5, <1>6
  <2>2. bytes_to_send' >= 0
    BY <1>1, <1>3, <1>6
  <2>3. sent # <<>>
    BY <1>1, <1>2 DEF SenderInv
  <2>4. sending' => bytes_to_send' > 0
    <3>1. sending' => bytes_to_send' # 0
      BY <1>1, Zenon
    <3>2. bytes_to_send' \in Int
      BY <1>3, <1>6
    <3> QED
      BY <2>2, <3>1, <3>2
  <2>5. sent' = sent /\ n = Len(sent)
    BY <1>1 DEF n
  <2> QED
    BY <2>1, <2>3, <2>4, <2>5 DEF SenderInv
<1>13. End' = End + k
  <2>1. bytes_to_send' \in Int /\ first[Len(first)] \in Int
    BY <1>3, <1>4, <1>5, <1>6
  <2>2. End' = first[Len(first)] - bytes_to_send'
    BY <1>1, <2>1 DEF End
  <2>3. End = first[Len(first)] - bytes_to_send
    BY <1>1 DEF End
  <2> QED
    BY <1>3, <1>6, <2>1, <2>2, <2>3
<1>14. WireInv'
  <2>1. /\ Len(got) <= Len(sent)
        /\ Len(wire) = End - first[Current] - Len(buff)
        /\ \A i \in DOMAIN wire : wire[i] = first[Current] + Len(buff) + i - 1
        /\ \A i \in DOMAIN buff : buff[i] = first[Current] + i - 1
    BY <1>1, <1>2 DEF WireInv
  <2>2. Current' = Current /\ first'[Current] = first[Current] /\ first[Current] \in Nat
    BY <1>0, <1>1 DEF Current, Indices
  <2>3. Len(wire') = End' - first[Current] - Len(buff)
    BY <1>0, <1>9, <1>13, <2>1, <2>2, SMTT(30) DEF Indices
  <2>4. ASSUME NEW i \in DOMAIN wire'
        PROVE  wire'[i] = first[Current] + Len(buff) + i - 1
    <3>1. i \in 1 .. Len(wire) + k
      BY <1>9
    <3>2. CASE i \in 1 .. Len(wire)
      BY <1>0, <1>9, <2>1, <3>2 DEF Indices
    <3>3. CASE i \in Len(wire) + 1 .. Len(wire) + k
      <4>1. wire'[i] = End + (i - Len(wire)) - 1
        BY <1>9, <3>3
      <4>2. End = first[Current] + Len(buff) + Len(wire)
        BY <1>0, <2>1, <2>2 DEF Indices
      <4>3. Len(wire) \in Nat /\ Len(buff) \in Nat /\ i \in Int
        BY <1>0, <3>3 DEF Indices
      <4> QED
        BY <2>2, <4>1, <4>2, <4>3, SMTT(30)
    <3> QED
      BY <1>0, <3>1, <3>2, <3>3 DEF Indices
  <2>5. Len(wire') <= End' - first[Current] - Len(buff)
    <3>1. Len(wire') \in Int
      BY <1>0, <1>9 DEF Indices
    <3> QED
      BY <2>3, <3>1
  <2> QED
    BY <1>1, <2>1, <2>2, <2>3, <2>4, <2>5 DEF WireInv
<1>15. ReceiverInv'
  BY <1>1, <1>2 DEF ReceiverInv, Exhausted, Current
<1>16. GotInv'
  BY <1>1, <1>2 DEF GotInv, Packet, Part
<1> QED
  BY <1>10, <1>11, <1>12, <1>14, <1>15, <1>16 DEF FInv

\* Taking bytes from a counter of bytes, or one too many, leaves a size_t.
LEMMA ModRange ==
  ASSUME NEW x \in Int
  PROVE  x % SizeT \in 0 .. SizeT - 1
<1>1. SizeT \in Nat /\ SizeT > 0
  BY Sizes
<1> QED
  BY <1>1

\* A sequence cut in two.
LEMMA CutFacts ==
  ASSUME NEW S, NEW s \in Seq(S), NEW k \in 0 .. Len(s)
  PROVE  /\ SubSeq(s, 1, k) \in Seq(S)
         /\ Len(SubSeq(s, 1, k)) = k
         /\ \A i \in 1 .. k : SubSeq(s, 1, k)[i] = s[i]
         /\ SubSeq(s, k + 1, Len(s)) \in Seq(S)
         /\ Len(SubSeq(s, k + 1, Len(s))) = Len(s) - k
         /\ \A i \in 1 .. Len(s) - k : SubSeq(s, k + 1, Len(s))[i] = s[k + i]
<1>1. Len(s) \in Nat /\ k \in Nat /\ k <= Len(s)
  BY LenProperties
<1>2. /\ SubSeq(s, 1, k) \in Seq(S)
      /\ Len(SubSeq(s, 1, k)) = k
      /\ \A i \in 1 .. k : SubSeq(s, 1, k)[i] = s[i]
  BY <1>1
<1>3. /\ SubSeq(s, k + 1, Len(s)) \in Seq(S)
      /\ Len(SubSeq(s, k + 1, Len(s))) = Len(s) - k
      /\ \A i \in 1 .. Len(s) - k : SubSeq(s, k + 1, Len(s))[i] = s[k + i]
  BY <1>1
<1> QED
  BY <1>2, <1>3

\* What the other end has taken in stays readable when the sender ends, up to
\* the loss a reset causes.
LEMMA SenderEndsInv ==
  ASSUME FInv, SenderEnds
  PROVE  FInv'
<1>0. Indices
  BY Positions
<1>1. /\ open' = FALSE /\ reset' \in BOOLEAN
      /\ UNCHANGED <<sent, sending, bytes_sent, bytes_to_send, first, rpc, bytes_received,
                     bytes_remaining, buff, got>>
  <2>1. reset \in BOOLEAN
    BY DEF FInv, FramingTypeOK
  <2>2. reset' = reset \/ reset' = TRUE
    BY DEF SenderEnds
  <2> QED
    BY <2>1, <2>2 DEF SenderEnds, sendVars, recvVars
<1>2. FramingTypeOK /\ Layout /\ SenderInv /\ WireInv /\ ReceiverInv /\ GotInv
  BY DEF FInv
<1>3. wire \in Seq(Nat) /\ Len(wire) <= Capacity /\ Len(wire) \in Nat /\ Capacity \in Nat
  BY <1>0, <1>2, Sizes DEF FramingTypeOK, Indices
<1>4. /\ wire' \in Seq(Nat) /\ Len(wire') <= Len(wire) /\ Len(wire') \in Nat
      /\ \A i \in 1 .. Len(wire') : wire'[i] = wire[i]
  <2>1. CASE wire' = wire
    BY <1>3, <2>1, SMT
  <2>2. CASE \E k \in 0 .. Len(wire) : wire' = SubSeq(wire, 1, k)
    <3>1. PICK k \in 0 .. Len(wire) : wire' = SubSeq(wire, 1, k)
      BY <2>2
    <3>2. wire' \in Seq(Nat) /\ Len(wire') = k /\ \A i \in 1 .. k : wire'[i] = wire[i]
      BY <1>3, <3>1, CutFacts
    <3> QED
      BY <1>3, <3>2
  <2> QED
    BY <2>1, <2>2 DEF SenderEnds
<1>5. FramingTypeOK'
  <2>1. Len(wire') <= Capacity /\ wire' \in Seq(Nat)
    BY <1>3, <1>4
  <2>2. open' \in BOOLEAN /\ reset' \in BOOLEAN
    BY <1>1
  <2> QED
    BY <1>1, <1>2, <2>1, <2>2 DEF FramingTypeOK
<1>6. Layout' /\ SenderInv' /\ GotInv'
  BY <1>1, <1>2 DEF Layout, SenderInv, GotInv, Packet, Part
<1>7. WireInv'
  <2>1. End' = End /\ Current' = Current /\ first[Current] \in Nat
    BY <1>0, <1>1 DEF End, Current, Indices
  <2>2. Len(wire) <= End - first[Current] - Len(buff)
    BY <1>2 DEF WireInv
  <2>3. Len(wire') <= End - first[Current] - Len(buff)
    BY <1>0, <1>3, <1>4, <2>1, <2>2 DEF Indices
  <2>4. DOMAIN wire' = 1 .. Len(wire') /\ DOMAIN wire = 1 .. Len(wire)
    BY <1>3, <1>4, LenProperties
  <2>5. \A i \in 1 .. Len(wire') : i \in 1 .. Len(wire)
    BY <1>3, <1>4
  <2>6. \A i \in DOMAIN wire' : i \in DOMAIN wire /\ wire'[i] = wire[i]
    BY <1>4, <2>4, <2>5
  <2> QED
    BY <1>1, <1>2, <2>1, <2>3, <2>6 DEF WireInv
<1>8. ReceiverInv'
  <2>1. ~Exhausted
    BY DEF SenderEnds, Exhausted
  <2> QED
    BY <1>1, <1>2, <2>1 DEF ReceiverInv, Current
<1> QED
  BY <1>5, <1>6, <1>7, <1>8 DEF FInv

\* A call of recv_tcp_packet starts with an empty buffer at a packet's header.
LEMMA ReceivePacketInv ==
  ASSUME FInv, ReceivePacket
  PROVE  FInv'
<1>0. Indices
  BY Positions
<1>1. /\ rpc = "idle" /\ rpc' = "header"
      /\ bytes_received' = 0 /\ bytes_remaining' = Hdr /\ buff' = <<>>
      /\ UNCHANGED <<sent, sending, bytes_sent, bytes_to_send, first, wire, open, reset, got>>
  BY DEF ReceivePacket, sendVars
<1>2. FramingTypeOK /\ Layout /\ SenderInv /\ WireInv /\ ReceiverInv /\ GotInv
  BY DEF FInv
<1>3. buff = <<>> /\ Len(buff) = 0
  <2>1. buff = <<>>
    BY <1>1, <1>2 DEF ReceiverInv
  <2> QED
    BY <2>1, EmptySeq
<1>4. 0 \in 0 .. SizeT - 1 /\ Hdr \in 0 .. SizeT - 1 /\ 0 < Hdr /\ Hdr - 0 = Hdr
  BY Sizes
<1>5. FramingTypeOK'
  BY <1>1, <1>2, <1>3, <1>4 DEF FramingTypeOK, RecvPhases
<1>6. Layout' /\ SenderInv' /\ GotInv'
  BY <1>1, <1>2 DEF Layout, SenderInv, GotInv, Packet, Part
<1>7. WireInv'
  BY <1>1, <1>2, <1>3 DEF WireInv, End, Current
<1>8. ReceiverInv'
  BY <1>1, <1>2, <1>3, <1>4 DEF ReceiverInv
<1> QED
  BY <1>5, <1>6, <1>7, <1>8 DEF FInv

\* The failed recv spoils the counters when nothing can arrive any more.
LEMMA RecvErrorInv ==
  ASSUME FInv, RecvError
  PROVE  FInv'
<1>1. /\ wire = <<>> /\ reset /\ reset' = FALSE
      /\ bytes_received' = (bytes_received - 1) % SizeT
      /\ bytes_remaining' = (bytes_remaining + 1) % SizeT
      /\ UNCHANGED <<sent, sending, bytes_sent, bytes_to_send, first, wire, open, rpc, buff, got>>
  BY DEF RecvError, sendVars
<1>2. FramingTypeOK /\ Layout /\ SenderInv /\ WireInv /\ ReceiverInv /\ GotInv
  BY DEF FInv
<1>3. Exhausted'
  BY <1>1, <1>2 DEF ReceiverInv, Exhausted
<1>4. bytes_received' \in 0 .. SizeT - 1 /\ bytes_remaining' \in 0 .. SizeT - 1
  <2>1. bytes_received - 1 \in Int /\ bytes_remaining + 1 \in Int
    BY <1>2 DEF FramingTypeOK
  <2> QED
    BY <1>1, <2>1, ModRange
<1>5. FramingTypeOK'
  BY <1>1, <1>2, <1>4 DEF FramingTypeOK
<1>6. Layout' /\ SenderInv' /\ GotInv'
  BY <1>1, <1>2 DEF Layout, SenderInv, GotInv, Packet, Part
<1>7. WireInv'
  BY <1>1, <1>2 DEF WireInv, End, Current
<1>8. ReceiverInv'
  BY <1>1, <1>2, <1>3 DEF ReceiverInv, Exhausted, Current
<1> QED
  BY <1>5, <1>6, <1>7, <1>8 DEF FInv

\* At the end of the stream the call does nothing more.
LEMMA RecvEofInv ==
  ASSUME FInv, RecvEof
  PROVE  FInv'
<1>1. /\ rpc' = "spin"
      /\ UNCHANGED <<sent, sending, bytes_sent, bytes_to_send, first, wire, open, reset,
                     bytes_received, bytes_remaining, buff, got>>
  BY DEF RecvEof, sendVars
<1>2. FramingTypeOK /\ Layout /\ SenderInv /\ WireInv /\ ReceiverInv /\ GotInv
  BY DEF FInv
<1>3. FramingTypeOK'
  BY <1>1, <1>2 DEF FramingTypeOK, RecvPhases
<1>4. Layout' /\ SenderInv' /\ GotInv'
  BY <1>1, <1>2 DEF Layout, SenderInv, GotInv, Packet, Part
<1>5. WireInv'
  BY <1>1, <1>2 DEF WireInv, End, Current
<1>6. ReceiverInv'
  BY <1>1, <1>2 DEF ReceiverInv
<1> QED
  BY <1>3, <1>4, <1>5, <1>6 DEF FInv

\* The bytes that a turn of the receiving loops takes off the wire are the next
\* ones, and leave the rest there.
LEMMA TakenBytes ==
  ASSUME FInv, NEW k \in 1 .. Capacity, k <= Len(wire)
  PROVE  /\ buff \o SubSeq(wire, 1, k) \in Seq(Nat)
         /\ Len(buff \o SubSeq(wire, 1, k)) = Len(buff) + k
         /\ \A i \in 1 .. Len(buff) + k :
              (buff \o SubSeq(wire, 1, k))[i] = first[Current] + i - 1
         /\ SubSeq(wire, k + 1, Len(wire)) \in Seq(Nat)
         /\ Len(SubSeq(wire, k + 1, Len(wire))) = Len(wire) - k
         /\ \A i \in 1 .. Len(wire) - k :
              SubSeq(wire, k + 1, Len(wire))[i] = first[Current] + (Len(buff) + k) + i - 1
<1> DEFINE front == SubSeq(wire, 1, k)
<1> DEFINE rest == SubSeq(wire, k + 1, Len(wire))
<1>0. Indices
  BY Positions
<1>1. wire \in Seq(Nat) /\ buff \in Seq(Nat)
  BY DEF FInv, FramingTypeOK
<1>2. /\ Len(wire) \in Nat /\ Len(buff) \in Nat /\ k \in 0 .. Len(wire) /\ k \in Nat
      /\ first[Current] \in Nat
  BY <1>0, Sizes DEF Indices
<1>3. /\ \A i \in 1 .. Len(wire) : wire[i] = first[Current] + Len(buff) + i - 1
      /\ \A i \in 1 .. Len(buff) : buff[i] = first[Current] + i - 1
  BY <1>0 DEF FInv, WireInv, Indices
<1>4. /\ front \in Seq(Nat) /\ Len(front) = k
      /\ \A i \in 1 .. k : front[i] = wire[i]
      /\ rest \in Seq(Nat) /\ Len(rest) = Len(wire) - k
      /\ \A i \in 1 .. Len(wire) - k : rest[i] = wire[k + i]
  BY <1>1, <1>2, CutFacts, SMTT(30)
<1> HIDE DEF front, rest
<1>5. /\ buff \o front \in Seq(Nat) /\ Len(buff \o front) = Len(buff) + k
      /\ \A i \in 1 .. Len(buff) : (buff \o front)[i] = buff[i]
      /\ \A i \in Len(buff) + 1 .. Len(buff) + k : (buff \o front)[i] = front[i - Len(buff)]
  <2>1. buff \in Seq(Nat) /\ front \in Seq(Nat) /\ Len(front) = k
    BY <1>1, <1>4
  <2> QED
    BY <2>1, ConcatFacts, SMTT(30)
<1>6. ASSUME NEW i \in 1 .. Len(buff) + k
      PROVE  (buff \o front)[i] = first[Current] + i - 1
  <2>1. CASE i \in 1 .. Len(buff)
    BY <1>3, <1>5, <2>1
  <2>2. CASE i \in Len(buff) + 1 .. Len(buff) + k
    <3>1. i - Len(buff) \in 1 .. k /\ i - Len(buff) \in 1 .. Len(wire)
      BY <1>2, <2>2
    <3>2. (buff \o front)[i] = front[i - Len(buff)]
      BY <1>5, <2>2
    <3>3. front[i - Len(buff)] = wire[i - Len(buff)]
      BY <1>4, <3>1
    <3>4. wire[i - Len(buff)] = first[Current] + Len(buff) + (i - Len(buff)) - 1
      BY <1>3, <3>1
    <3> QED
      BY <1>2, <3>2, <3>3, <3>4
  <2>3. i \in 1 .. Len(buff) \/ i \in Len(buff) + 1 .. Len(buff) + k
    BY <1>2
  <2> QED
    BY <2>1, <2>2, <2>3
<1>7. ASSUME NEW i \in 1 .. Len(wire) - k
      PROVE  rest[i] = first[Current] + (Len(buff) + k) + i - 1
  <2>1. k + i \in 1 .. Len(wire) /\ i \in Int
    BY <1>2
  <2>2. rest[i] = wire[k + i]
    BY <1>4
  <2>3. wire[k + i] = first[Current] + Len(buff) + (k + i) - 1
    BY <1>3, <2>1
  <2> QED
    BY <1>2, <2>2, <2>3
<1> QED
  BY <1>4, <1>5, <1>6, <1>7 DEF front, rest

\* The bytes sent end before the position of the packet after the last one, and
\* inside the last one while it is being sent.
LEMMA EndBounds ==
  ASSUME FInv
  PROVE  /\ End <= first[Len(sent) + 1]
         /\ \A n \in DOMAIN sent : (sending /\ n = Len(sent)) => End < first[n] + Hdr + sent[n]
<1>0. Indices
  BY Positions
<1>1. /\ bytes_to_send \in Nat /\ Len(first) = Len(sent) + 1
      /\ sending => bytes_to_send > 0
  BY DEF FInv, FramingTypeOK, Layout, SenderInv
<1>2. Len(sent) + 1 \in DOMAIN first /\ first[Len(sent) + 1] \in Nat
  BY <1>0 DEF Indices
<1>3. End <= first[Len(sent) + 1]
  BY <1>1, <1>2 DEF End
<1>4. ASSUME NEW n \in DOMAIN sent, sending, n = Len(sent)
      PROVE  End < first[n] + Hdr + sent[n]
  <2>1. first[Len(sent) + 1] = first[n] + Hdr + sent[n]
    BY <1>4 DEF FInv, Layout
  <2>2. End = first[Len(sent) + 1] - bytes_to_send
    BY <1>1, <1>4 DEF End
  <2> QED
    BY <1>1, <1>2, <1>4, <2>1, <2>2
<1> QED
  BY <1>3, <1>4

\* A turn that does not complete a packet adds the bytes to the buffer.
LEMMA BufferedInv ==
  ASSUME FInv, NEW k \in 1 .. Capacity, Recv(k),
         got' = got, buff' = buff \o SubSeq(wire, 1, k)
  PROVE  Layout' /\ SenderInv' /\ WireInv' /\ GotInv'
<1>0. Indices
  BY Positions
<1>1. /\ k <= Len(wire) /\ wire' = SubSeq(wire, k + 1, Len(wire))
      /\ UNCHANGED <<sent, sending, bytes_sent, bytes_to_send, first, open, reset>>
  BY DEF Recv, sendVars
<1>2. Layout /\ SenderInv /\ WireInv /\ GotInv
  BY DEF FInv
<1>3. Layout' /\ SenderInv' /\ GotInv'
  BY <1>1, <1>2 DEF Layout, SenderInv, GotInv, Packet, Part
<1>4. /\ buff' \in Seq(Nat) /\ Len(buff') = Len(buff) + k
      /\ \A i \in 1 .. Len(buff) + k : buff'[i] = first[Current] + i - 1
      /\ wire' \in Seq(Nat) /\ Len(wire') = Len(wire) - k
      /\ \A i \in 1 .. Len(wire) - k :
           wire'[i] = first[Current] + (Len(buff) + k) + i - 1
  BY <1>1, TakenBytes
<1>5. DOMAIN buff' = 1 .. Len(buff) + k /\ DOMAIN wire' = 1 .. Len(wire) - k
  BY <1>4, LenProperties
<1>6. End' = End /\ Current' = Current /\ first[Current] \in Nat /\ End \in Int
  BY <1>0, <1>1 DEF End, Current, Indices
<1>7. /\ Len(wire') <= End - first[Current] - Len(buff')
      /\ open => Len(wire') = End - first[Current] - Len(buff')
  <2>1. /\ Len(wire) <= End - first[Current] - Len(buff)
        /\ open => Len(wire) = End - first[Current] - Len(buff)
    BY <1>2 DEF WireInv
  <2>2. Len(wire) \in Nat /\ Len(buff) \in Nat /\ k \in Int
    BY <1>0 DEF Indices
  <2>3. Len(wire') = Len(wire) - k /\ Len(buff') = Len(buff) + k
    BY <1>4
  <2>4. Len(wire') <= End - first[Current] - Len(buff')
    BY <1>6, <2>1, <2>2, <2>3
  <2>5. Len(wire) = End - first[Current] - Len(buff) => Len(wire') = End - first[Current] - Len(buff')
    BY <1>6, <2>2, <2>3
  <2> QED
    BY <2>1, <2>4, <2>5
<1>8. Len(got) <= Len(sent)
  BY <1>2 DEF WireInv
<1>9. WireInv'
  BY <1>1, <1>4, <1>5, <1>6, <1>7, <1>8 DEF WireInv
<1> QED
  BY <1>3, <1>9

\* The bytes of a complete packet are that packet, and the call returns it.
LEMMA ReturnedInv ==
  ASSUME FInv, NEW k \in 1 .. Capacity, Recv(k),
         Current \in DOMAIN sent, Len(buff) + k = Hdr + sent[Current],
         got' = Append(got, buff \o SubSeq(wire, 1, k)), buff' = <<>>
  PROVE  Layout' /\ SenderInv' /\ WireInv' /\ GotInv' /\ got' \in Seq(Seq(Nat))
<1> DEFINE b == buff \o SubSeq(wire, 1, k)
<1>0. Indices
  BY Positions
<1>1. /\ k <= Len(wire) /\ wire' = SubSeq(wire, k + 1, Len(wire))
      /\ UNCHANGED <<sent, sending, bytes_sent, bytes_to_send, first, open, reset>>
  BY DEF Recv, sendVars
<1>2. Layout /\ SenderInv /\ WireInv /\ GotInv /\ got \in Seq(Seq(Nat))
  BY DEF FInv, FramingTypeOK
<1>3. Layout' /\ SenderInv'
  BY <1>1, <1>2 DEF Layout, SenderInv
<1>4. /\ b \in Seq(Nat) /\ Len(b) = Len(buff) + k
      /\ \A i \in 1 .. Len(buff) + k : b[i] = first[Current] + i - 1
      /\ wire' \in Seq(Nat) /\ Len(wire') = Len(wire) - k
      /\ \A i \in 1 .. Len(wire) - k :
           wire'[i] = first[Current] + (Len(buff) + k) + i - 1
  BY <1>1, TakenBytes
<1>5. /\ sent[Current] \in Nat /\ Hdr \in Nat /\ first[Current] \in Nat /\ Len(got) \in Nat
      /\ Current = Len(got) + 1 /\ Len(wire) \in Nat /\ Len(buff) \in Nat
  BY <1>0, Sizes DEF Indices, Current
<1>6. b = Packet(Current)
  <2>1. b = [i \in 1 .. Len(b) |-> b[i]]
    BY <1>4, SMTT(30)
  <2>2. Packet(Current) = [i \in 1 .. Hdr + sent[Current] |-> first[Current] + i - 1]
    <3>1. (Hdr + sent[Current]) - 0 = Hdr + sent[Current]
      BY <1>5
    <3>2. \A i \in 1 .. Hdr + sent[Current] : first[Current] + 0 + i - 1 = first[Current] + i - 1
      BY <1>5
    <3> QED
      BY <3>1, <3>2 DEF Packet, Part
  <2>3. Len(b) = Hdr + sent[Current] /\ \A i \in 1 .. Len(b) : b[i] = first[Current] + i - 1
    BY <1>4
  <2> QED
    BY <2>1, <2>2, <2>3
<1>7. /\ got' \in Seq(Seq(Nat)) /\ Len(got') = Current /\ DOMAIN got' = 1 .. Current
      /\ \A n \in 1 .. Len(got) : got'[n] = got[n]
      /\ got'[Current] = b
  <2>1. got' = Append(got, b) /\ b \in Seq(Nat) /\ got \in Seq(Seq(Nat)) /\ Len(got) + 1 = Current
    BY <1>2, <1>4, <1>5
  <2> QED
    BY <2>1, AppendedFacts
<1> HIDE DEF b
<1>8. GotInv'
  <2> SUFFICES ASSUME NEW n \in DOMAIN got'
               PROVE  n \in DOMAIN sent' /\ got'[n] = Packet(n)'
    BY DEF GotInv
  <2>1. Packet(n)' = Packet(n) /\ sent' = sent
    BY <1>1 DEF Packet, Part
  <2>2. CASE n = Current
    BY <1>6, <1>7, <2>1, <2>2
  <2>3. CASE n \in 1 .. Len(got)
    <3>1. n \in DOMAIN sent /\ got[n] = Packet(n)
      BY <1>0, <1>2, <2>3 DEF GotInv, Indices
    <3> QED
      BY <1>7, <2>1, <2>3, <3>1
  <2> QED
    BY <1>5, <1>7, <2>2, <2>3, SMTT(30)
<1>9. WireInv'
  <2>1. /\ Len(wire) <= End - first[Current] - Len(buff)
        /\ open => Len(wire) = End - first[Current] - Len(buff)
    BY <1>2 DEF WireInv
  <2>2. Current' = Current + 1 /\ first[Current + 1] = first[Current] + Hdr + sent[Current]
        /\ first[Current + 1] \in Nat
    <3>1. Current' = Current + 1
      BY <1>5, <1>7 DEF Current
    <3>2. first[Current + 1] = first[Current] + Hdr + sent[Current]
      BY <1>2 DEF Layout
    <3> QED
      BY <1>5, <3>1, <3>2, SMTT(30)
  <2>3. End' = End /\ End \in Int
    BY <1>0, <1>1 DEF End, Indices
  <2>4. Len(buff') = 0 /\ DOMAIN buff' = {}
    BY EmptySeq
  <2>5. /\ Len(wire') <= End - first[Current + 1] - 0
        /\ open => Len(wire') = End - first[Current + 1] - 0
    <3>1. Len(wire') = Len(wire) - k
      BY <1>4
    <3>2. /\ Hdr \in Int /\ sent[Current] \in Int /\ first[Current] \in Int /\ Len(wire) \in Int
          /\ Len(buff) \in Int /\ End \in Int /\ k \in Int
          /\ first[Current + 1] = first[Current] + Hdr + sent[Current]
          /\ Len(buff) + k = Hdr + sent[Current]
      BY <1>5, <2>2, <2>3
    <3>3. Len(wire') <= End - first[Current + 1] - 0
      <4>1. \A e, f, u, w \in Int : w <= e - f - u => w - k <= e - (f + (u + k)) - 0
        BY <3>2
      <4>2. first[Current + 1] = first[Current] + (Len(buff) + k)
        BY <3>2
      <4>3. Len(wire) - k <= End - (first[Current] + (Len(buff) + k)) - 0
        BY <2>1, <3>2, <4>1
      <4> QED
        BY <3>1, <4>2, <4>3
    <3>4. ASSUME Len(wire) = End - first[Current] - Len(buff)
          PROVE  Len(wire) - k = End - first[Current + 1] - 0
      <4>1. \A e, f, u, w \in Int : w = e - f - u => w - k = e - (f + (u + k)) - 0
        BY <3>2
      <4>2. first[Current + 1] = first[Current] + (Len(buff) + k)
        BY <3>2
      <4>3. Len(wire) - k = End - (first[Current] + (Len(buff) + k)) - 0
        BY <3>2, <3>4, <4>1, SMTT(60)
      <4> QED
        BY <4>2, <4>3
    <3> QED
      BY <2>1, <3>1, <3>3, <3>4
  <2>6. ASSUME NEW i \in DOMAIN wire'
        PROVE  wire'[i] = first[Current + 1] + 0 + i - 1
    <3>1. i \in 1 .. Len(wire) - k
      BY <1>4, LenProperties
    <3>2. wire'[i] = first[Current] + (Len(buff) + k) + i - 1
      BY <1>4, <3>1
    <3>3. /\ Hdr \in Int /\ sent[Current] \in Int /\ first[Current] \in Int
          /\ Len(buff) \in Int /\ k \in Int /\ i \in Int
          /\ first[Current + 1] = first[Current] + Hdr + sent[Current]
          /\ Len(buff) + k = Hdr + sent[Current]
      BY <1>5, <2>2, <3>1
    <3> QED
      BY <3>2, <3>3
  <2>7. Len(got') <= Len(sent)
    BY <1>0, <1>7 DEF Indices
  <2> QED
    BY <1>1, <2>2, <2>3, <2>4, <2>5, <2>6, <2>7 DEF WireInv
<1> QED
  BY <1>3, <1>7, <1>8, <1>9

\* One turn of a loop of recv_tcp_packet, whether it leaves bytes to read,
\* completes the header or completes the packet.
LEMMA RecvInv ==
  ASSUME FInv, NEW k \in 1 .. Capacity, Recv(k)
  PROVE  FInv'
<1> DEFINE b == buff \o SubSeq(wire, 1, k)
<1>0. Indices
  BY Positions
<1>1. /\ rpc \in {"header", "payload"} /\ k <= bytes_remaining /\ k <= Len(wire)
      /\ wire' = SubSeq(wire, k + 1, Len(wire))
      /\ bytes_received' = (bytes_received + k) % SizeT
      /\ UNCHANGED <<sent, sending, bytes_sent, bytes_to_send, first, open, reset>>
  BY DEF Recv, sendVars
<1>2. FramingTypeOK /\ Layout /\ SenderInv /\ WireInv /\ ReceiverInv /\ GotInv
  BY DEF FInv
<1>3. /\ b \in Seq(Nat) /\ Len(b) = Len(buff) + k
      /\ \A i \in 1 .. Len(buff) + k : b[i] = first[Current] + i - 1
      /\ wire' \in Seq(Nat) /\ Len(wire') = Len(wire) - k
  BY <1>1, TakenBytes
<1>4. /\ Len(wire) \in Nat /\ Len(buff) \in Nat /\ k \in Nat /\ 0 < k
      /\ Len(got) \in Nat /\ Current = Len(got) + 1 /\ first[Current] \in Nat /\ Len(sent) \in Nat
      /\ Hdr \in Nat /\ SizeT \in Nat /\ Capacity \in Nat
      /\ bytes_remaining \in 0 .. SizeT - 1
  BY <1>0, <1>2, Sizes DEF Indices, Current, FramingTypeOK
<1>5. ~Exhausted
  <2>1. Len(wire) # 0
    BY <1>1, <1>4
  <2> QED
    BY <2>1, EmptySeq DEF Exhausted
<1>7. Len(wire') <= Capacity
  BY <1>2, <1>3, <1>4 DEF FramingTypeOK
<1>8. /\ bytes_received = Len(buff)
      /\ rpc = "header" => bytes_remaining = Hdr - Len(buff)
      /\ rpc = "payload" =>
           /\ Len(got) < Len(sent) /\ Hdr <= Len(buff)
           /\ bytes_remaining = Hdr + sent[Current] - Len(buff)
  BY <1>1, <1>2, <1>5 DEF ReceiverInv
\* A packet of which a byte has been read was sent.
<1>9. Current \in DOMAIN sent
  <2>1. Current # Len(sent) + 1
    <3>1. Len(wire) <= End - first[Current] - Len(buff)
      BY <1>2 DEF WireInv
    <3>2. End <= first[Len(sent) + 1]
      BY EndBounds
    <3>3. End \in Int
      BY <1>0 DEF Indices
    <3>4. End - first[Current] > 0
      BY <1>1, <1>4, <3>1, <3>3
    <3>5. End > first[Current]
      BY <1>4, <3>3, <3>4
    <3>6. Current = Len(sent) + 1 => End <= first[Current]
      BY <3>2
    <3> QED
      BY <1>4, <3>3, <3>5, <3>6
  <2>2. Current \in 1 .. Len(sent) + 1 /\ DOMAIN sent = 1 .. Len(sent)
    BY <1>0 DEF Indices
  <2> QED
    BY <1>4, <2>1, <2>2
<1>10. sent[Current] \in Lens /\ sent[Current] \in Nat /\ Hdr + sent[Current] + 1 < SizeT
  BY <1>0, <1>9, Sizes DEF Indices
<1>6. bytes_received' = Len(buff) + k /\ bytes_received' \in 0 .. SizeT - 1
  <2>1. Len(buff) + k \in 0 .. SizeT - 1
    <3>1. CASE rpc = "header"
      <4>1. bytes_remaining = Hdr - Len(buff) /\ k <= bytes_remaining
        BY <1>1, <1>8, <3>1
      <4>2. Len(buff) + k <= Hdr
        BY <1>4, <4>1
      <4>3. Hdr <= SizeT - 1
        BY Sizes
      <4> QED
        BY <1>4, <4>2, <4>3
    <3>2. CASE rpc = "payload"
      <4>1. bytes_remaining = Hdr + sent[Current] - Len(buff) /\ k <= bytes_remaining
        BY <1>1, <1>8, <3>2
      <4>2. \A h, s, c, r \in Int : r = h + s - c /\ k <= r => c + k <= h + s
        BY <1>4
      <4>3. Hdr \in Int /\ sent[Current] \in Int /\ Len(buff) \in Int /\ bytes_remaining \in Int
        BY <1>4, <1>10
      <4>4. Len(buff) + k <= Hdr + sent[Current]
        BY <4>1, <4>2, <4>3
      <4>5. \A c, h, s \in Int :
               0 <= c + k /\ c + k <= h + s /\ h + s + 1 < SizeT => c + k \in 0 .. SizeT - 1
        BY <1>4, Sizes
      <4>6. 0 <= Len(buff) + k
        BY <1>4
      <4> QED
        BY <1>10, <4>3, <4>4, <4>5, <4>6
    <3> QED
      BY <1>1, <3>1, <3>2
  <2>2. bytes_received' = (Len(buff) + k) % SizeT
    BY <1>1, <1>8
  <2> QED
    BY <1>4, <2>1, <2>2, ModSmall
<1>11. UNCHANGED <<sent, sending, bytes_sent, bytes_to_send, first, open, reset>>
  BY <1>1
<1> HIDE DEF b
\* What remains to be shown of a turn after which the call goes on.
<1>12. ASSUME got' = got, buff' = b, rpc' \in RecvPhases, bytes_remaining' \in 0 .. SizeT - 1, ReceiverInv'
       PROVE  FInv'
  <2>1. Layout' /\ SenderInv' /\ WireInv' /\ GotInv'
    BY <1>12, BufferedInv DEF b
  <2>2. FramingTypeOK'
    BY <1>2, <1>3, <1>6, <1>7, <1>11, <1>12 DEF FramingTypeOK
  <2> QED
    BY <1>12, <2>1, <2>2 DEF FInv
\* And of one that returns the packet.
<1>13. ASSUME Len(buff) + k = Hdr + sent[Current], rpc' = "idle", buff' = <<>>, got' = Append(got, b),
              bytes_remaining' = 0
       PROVE  FInv'
  <2>1. Layout' /\ SenderInv' /\ WireInv' /\ GotInv' /\ got' \in Seq(Seq(Nat))
    BY <1>9, <1>13, ReturnedInv DEF b
  <2>2. bytes_remaining' \in 0 .. SizeT - 1 /\ rpc' \in RecvPhases /\ buff' \in Seq(Nat)
    BY <1>10, <1>4, <1>13, EmptySeq DEF RecvPhases
  <2>3. FramingTypeOK'
    BY <1>2, <1>3, <1>6, <1>7, <1>11, <2>1, <2>2 DEF FramingTypeOK
  <2>4. ReceiverInv'
    BY <1>2, <1>11, <1>13 DEF ReceiverInv
  <2> QED
    BY <2>1, <2>3, <2>4 DEF FInv
<1>14. CASE /\ bytes_remaining # k
            /\ bytes_remaining' = (bytes_remaining - k) % SizeT
            /\ buff' = b /\ UNCHANGED <<rpc, got>>
  <2>1. bytes_remaining' = bytes_remaining - k /\ bytes_remaining - k > 0
    <3>1. bytes_remaining - k \in 0 .. SizeT - 1 /\ bytes_remaining - k > 0
      BY <1>1, <1>4, <1>14
    <3> QED
      BY <1>4, <1>14, <3>1, ModSmall
  <2>2. bytes_remaining' \in 0 .. SizeT - 1
    BY <1>1, <1>4, <2>1
  <2>3. rpc' = rpc /\ got' = got /\ buff' = b /\ Current' = Current /\ Len(buff') = Len(buff) + k
    BY <1>3, <1>14 DEF Current
  <2>4. CASE rpc = "header"
    <3>1. Len(buff') < Hdr /\ bytes_remaining' = Hdr - Len(buff')
      BY <1>4, <1>8, <2>1, <2>3, <2>4
    <3>2. ReceiverInv'
      BY <1>2, <1>3, <1>6, <1>11, <2>3, <2>4, <3>1 DEF ReceiverInv
    <3> QED
      BY <1>1, <1>12, <2>2, <2>3, <3>2 DEF RecvPhases
  <2>5. CASE rpc = "payload"
    <3>1. /\ Hdr <= Len(buff') /\ Len(buff') < Hdr + sent[Current]
          /\ bytes_remaining' = Hdr + sent[Current] - Len(buff')
      <4>1. Hdr <= Len(buff) /\ bytes_remaining = Hdr + sent[Current] - Len(buff)
        BY <1>8, <2>5
      <4>2. \A h, s, c, r \in Int :
               r = h + s - c /\ r - k > 0 => c + k < h + s /\ r - k = h + s - (c + k)
        BY <1>4
      <4>3. Hdr \in Int /\ sent[Current] \in Int /\ Len(buff) \in Int /\ bytes_remaining \in Int
        BY <1>4, <1>10
      <4>4. /\ Len(buff) + k < Hdr + sent[Current]
            /\ bytes_remaining - k = Hdr + sent[Current] - (Len(buff) + k)
        BY <2>1, <4>1, <4>2, <4>3
      <4>5. Hdr <= Len(buff) + k
        BY <1>4, <4>1
      <4> QED
        BY <2>1, <2>3, <4>4, <4>5
    <3>2. Len(got) < Len(sent)
      BY <1>8, <2>5
    <3>3. ReceiverInv'
      BY <1>2, <1>3, <1>6, <1>11, <2>3, <2>5, <3>1, <3>2 DEF ReceiverInv
    <3> QED
      BY <1>1, <1>12, <2>2, <2>3, <3>3 DEF RecvPhases
  <2> QED
    BY <1>1, <2>4, <2>5
<1>15. CASE rpc = "header" /\ bytes_remaining = k /\ HeaderDone(b)
  <2>1. Len(buff) + k = Hdr
    BY <1>4, <1>8, <1>15
  <2>2. b = Part(Current, 0, Hdr)
    <3>1. b = [i \in 1 .. Len(b) |-> b[i]]
      BY <1>3
    <3>2. Hdr - 0 = Hdr /\ \A i \in 1 .. Hdr : first[Current] + 0 + i - 1 = first[Current] + i - 1
      BY <1>4
    <3>3. Part(Current, 0, Hdr) = [i \in 1 .. Hdr |-> first[Current] + i - 1]
      BY <3>2 DEF Part
    <3>4. Len(b) = Hdr /\ \A i \in 1 .. Hdr : b[i] = first[Current] + i - 1
      BY <1>3, <2>1
    <3> QED
      BY <3>1, <3>3, <3>4
  <2>3. PICK l \in LenField(b) :
          /\ bytes_remaining' = l
          /\ IF l = 0 THEN rpc' = "idle" /\ buff' = <<>> /\ got' = Append(got, b)
                      ELSE rpc' = "payload" /\ buff' = b /\ UNCHANGED got
    BY <1>15 DEF HeaderDone
  <2>4. l = sent[Current]
    BY <1>9, <2>2, <2>3 DEF LenField
  <2>5. CASE l = 0
    <3>1. Len(buff) + k = Hdr + sent[Current]
      BY <1>4, <2>1, <2>4, <2>5
    <3>2. rpc' = "idle" /\ buff' = <<>> /\ got' = Append(got, b) /\ bytes_remaining' = 0
      BY <2>3, <2>5
    <3> QED
      BY <1>13, <3>1, <3>2
  <2>6. CASE l # 0
    <3>1. rpc' = "payload" /\ buff' = b /\ got' = got /\ bytes_remaining' = sent[Current]
      BY <2>3, <2>4, <2>6
    <3>2. Current' = Current /\ Len(buff') = Hdr
      BY <1>3, <2>1, <3>1 DEF Current
    <3>3. /\ bytes_remaining' \in 0 .. SizeT - 1
          /\ Hdr <= Len(buff') /\ Len(buff') < Hdr + sent[Current]
          /\ bytes_remaining' = Hdr + sent[Current] - Len(buff')
      BY <1>4, <1>10, <2>4, <2>6, <3>1, <3>2, SMTT(30)
    <3>4. Len(got) < Len(sent)
      BY <1>0, <1>4, <1>9 DEF Indices
    <3>5. ReceiverInv'
      BY <1>2, <1>3, <1>6, <1>11, <2>1, <3>1, <3>2, <3>3, <3>4 DEF ReceiverInv
    <3> QED
      BY <1>12, <3>1, <3>3, <3>5 DEF RecvPhases
  <2> QED
    BY <2>5, <2>6
<1>16. CASE /\ rpc = "payload" /\ bytes_remaining = k
            /\ bytes_remaining' = 0
            /\ rpc' = "idle" /\ buff' = <<>> /\ got' = Append(got, b)
  <2>1. k = Hdr + sent[Current] - Len(buff)
    BY <1>8, <1>16
  <2>2. \A h, t, c \in Int : k = h + t - c => c + k = h + t
    BY <1>4
  <2>3. Hdr \in Int /\ sent[Current] \in Int /\ Len(buff) \in Int
    BY <1>4, <1>10
  <2>4. Len(buff) + k = Hdr + sent[Current]
    BY <2>1, <2>2, <2>3
  <2> QED
    BY <1>13, <1>16, <2>4
<1> QED
  BY <1>14, <1>15, <1>16 DEF Recv, b

\* Every step keeps the invariant.
LEMMA NextFInv == FInv /\ [Next]_vars => FInv'
<1> SUFFICES ASSUME FInv, [Next]_vars PROVE FInv'
  OBVIOUS
<1>1. ASSUME NEW l \in Lens, SendPacket(l) PROVE FInv'
  BY <1>1, SendPacketInv
<1>2. ASSUME NEW k \in 1 .. Capacity, SendSome(k) PROVE FInv'
  BY <1>2, SendSomeInv
<1>3. CASE SenderEnds
  BY <1>3, SenderEndsInv
<1>4. CASE ReceivePacket
  BY <1>4, ReceivePacketInv
<1>5. ASSUME NEW k \in 1 .. Capacity, Recv(k) PROVE FInv'
  BY <1>5, RecvInv
<1>6. CASE RecvError
  BY <1>6, RecvErrorInv
<1>7. CASE RecvEof
  BY <1>7, RecvEofInv
<1>8. CASE UNCHANGED vars
  BY <1>8 DEF vars, sendVars, recvVars, FInv, FramingTypeOK, Layout, SenderInv, WireInv, End, Current,
              ReceiverInv, Exhausted, GotInv, Packet, Part
<1> QED
  BY <1>1, <1>2, <1>3, <1>4, <1>5, <1>6, <1>7, <1>8 DEF Next, SendLoop, RecvLoop

\* In every state of send_tcp_packet and recv_tcp_packet, the bytes in the
\* receiver's buffer and those on the wire are the next ones, and the packets
\* returned are those sent.
THEOREM FramingInvariance == FramingSpec => []FInv
<1>1. Init => FInv
  BY InitFInv
<1>2. FInv /\ [Next]_vars => FInv'
  BY NextFInv
<1> QED
  BY <1>1, <1>2, PTL DEF FramingSpec

\* The counters of the invariant are those of the property.
LEMMA CountersOfFInv == FInv => CountersMatchThePacket
<1> SUFFICES ASSUME FInv PROVE CountersMatchThePacket
  OBVIOUS
<1>0. Indices
  BY Positions
<1>1. FramingTypeOK /\ SenderInv /\ ReceiverInv /\ Current = Len(got) + 1
  BY DEF FInv, Current
<1>2. sending => bytes_to_send > 0 /\ bytes_sent + bytes_to_send = Hdr + Last(sent)
  BY <1>1 DEF SenderInv, Last
<1>3. CASE rpc = "header"
  <2>1. Expected = Hdr /\ Hdr \in Int /\ Len(buff) \in Int
    BY <1>0, <1>3, Sizes DEF Expected, Indices
  <2>2. ~Exhausted => bytes_received = Len(buff) /\ bytes_remaining = Hdr - Len(buff)
    BY <1>1, <1>3 DEF ReceiverInv
  <2>3. \A h, c \in Int : c + (h - c) = h
    OBVIOUS
  <2>4. ~Exhausted => bytes_received = Len(buff) /\ bytes_received + bytes_remaining = Expected
    BY <2>1, <2>2, <2>3
  <2> QED
    BY <1>2, <1>3, <2>4 DEF CountersMatchThePacket
<1>4. CASE rpc = "payload"
  <2>1. Expected = Hdr + sent[Current] /\ Current \in DOMAIN sent
    BY <1>0, <1>1, <1>4 DEF Expected, Indices, ReceiverInv
  <2>2. Hdr \in Int /\ sent[Current] \in Int /\ Len(buff) \in Int
    BY <1>0, <2>1, Sizes DEF Indices
  <2>3. ~Exhausted =>
          bytes_received = Len(buff) /\ bytes_remaining = Hdr + sent[Current] - Len(buff)
    BY <1>1, <1>4 DEF ReceiverInv
  <2>4. \A h, s, c \in Int : c + (h + s - c) = h + s
    OBVIOUS
  <2>5. ~Exhausted => bytes_received = Len(buff) /\ bytes_received + bytes_remaining = Expected
    BY <2>1, <2>2, <2>3, <2>4
  <2> QED
    BY <1>2, <2>5 DEF CountersMatchThePacket
<1>5. CASE rpc \notin {"header", "payload"}
  BY <1>2, <1>5 DEF CountersMatchThePacket
<1> QED
  BY <1>3, <1>4, <1>5

\* While a packet is sent or received the counters make up that packet, and
\* recv writes behind the bytes that are in the buffer: for every size of the
\* header, of payloads, of the socket buffers and of size_t, however the stream
\* is cut and wherever the sender ends.
THEOREM FramingCountersCorrect == FramingSpec => []CountersMatchThePacket
<1>1. FInv => CountersMatchThePacket
  BY CountersOfFInv
<1> QED
  BY <1>1, FramingInvariance, PTL

-----------------------------------------------------------------------------
\* Consecutive numbers, with one more.
LEMMA UpToAppend ==
  ASSUME NEW g \in Nat, NEW n \in Nat
  PROVE  Append([i \in 1 .. n |-> g + i], g + n + 1) = [i \in 1 .. n + 1 |-> g + i]
<1> DEFINE q == [i \in 1 .. n |-> g + i]
<1> DEFINE a == Append(q, g + n + 1)
<1>1. q \in Seq(Nat) /\ Len(q) = n /\ \A i \in 1 .. n : q[i] = g + i
  <2>1. q \in [1 .. n -> Nat]
    OBVIOUS
  <2> QED
    BY <2>1
<1>2. g + n + 1 \in Nat
  OBVIOUS
<1> HIDE DEF q
<1>3. /\ DOMAIN a = 1 .. n + 1 /\ a \in Seq(Nat) /\ Len(a) = n + 1
      /\ \A i \in 1 .. n : a[i] = q[i]
      /\ a[n + 1] = g + n + 1
  BY <1>1, <1>2, AppendedFacts
<1>4. \A i \in 1 .. n + 1 : a[i] = g + i
  <2> SUFFICES ASSUME NEW i \in 1 .. n + 1 PROVE a[i] = g + i
    OBVIOUS
  <2>1. i \in 1 .. n => a[i] = g + i
    BY <1>1, <1>3
  <2>2. CASE i = n + 1
    BY <1>3, <2>2
  <2>3. i \in 1 .. n \/ i = n + 1
    OBVIOUS
  <2> QED
    BY <2>1, <2>2, <2>3
<1>5. a = [i \in 1 .. n + 1 |-> a[i]]
  BY <1>3
<1> HIDE DEF a
<1>6. a = [i \in 1 .. n + 1 |-> g + i]
  BY <1>4, <1>5
<1> QED
  BY <1>6 DEF a, q

\* Consecutive numbers, without the first.
LEMMA UpToTail ==
  ASSUME NEW g \in Nat, NEW n \in Nat
  PROVE  /\ [i \in 1 .. n + 1 |-> g + i] # <<>>
         /\ Head([i \in 1 .. n + 1 |-> g + i]) = g + 1
         /\ Tail([i \in 1 .. n + 1 |-> g + i]) = [i \in 1 .. n |-> (g + 1) + i]
<1> DEFINE q == [i \in 1 .. n + 1 |-> g + i]
<1>1. q \in Seq(Nat) /\ Len(q) = n + 1 /\ \A i \in 1 .. n + 1 : q[i] = g + i
  <2>1. q \in [1 .. n + 1 -> Nat]
    OBVIOUS
  <2> QED
    BY <2>1
<1> HIDE DEF q
<1>2. q # <<>>
  BY <1>1, EmptySeq
<1>3. /\ Head(q) = q[1]
      /\ Tail(q) \in Seq(Nat) /\ Len(Tail(q)) = n
      /\ \A i \in 1 .. n : Tail(q)[i] = q[i + 1]
  BY <1>1, <1>2, HeadTailProperties
<1>4. \A i \in 1 .. n : Tail(q)[i] = (g + 1) + i
  <2> SUFFICES ASSUME NEW i \in 1 .. n PROVE Tail(q)[i] = (g + 1) + i
    OBVIOUS
  <2>1. i + 1 \in 1 .. n + 1
    OBVIOUS
  <2>2. Tail(q)[i] = q[i + 1] /\ q[i + 1] = g + (i + 1)
    BY <1>1, <1>3, <2>1
  <2>3. g + (i + 1) = (g + 1) + i
    OBVIOUS
  <2> QED
    BY <2>2, <2>3
<1>5. Tail(q) = [i \in 1 .. n |-> Tail(q)[i]]
  BY <1>3, LenProperties
<1>6. Tail(q) = [i \in 1 .. n |-> (g + 1) + i]
  BY <1>4, <1>5
<1> QED
  BY <1>1, <1>2, <1>3, <1>6, SMTT(30) DEF q

\* The packets returned have different bytes, as they start at different
\* positions: each is recognised as the packet it is.
LEMMA Numbers == FInv => \A n \in DOMAIN got : NumberOf(got[n]) = n
<1> SUFFICES ASSUME FInv, NEW n \in DOMAIN got PROVE NumberOf(got[n]) = n
  OBVIOUS
<1>0. Indices
  BY Positions
<1>1. n \in DOMAIN sent /\ got[n] = Packet(n)
  BY DEF FInv, GotInv
<1>2. \A m \in DOMAIN sent : Packet(m)[1] = first[m] /\ first[m] \in Nat /\ m \in DOMAIN first /\ m \in Nat
  <2> SUFFICES ASSUME NEW m \in DOMAIN sent
               PROVE  Packet(m)[1] = first[m] /\ first[m] \in Nat /\ m \in DOMAIN first /\ m \in Nat
    OBVIOUS
  <2>1. first[m] \in Nat /\ m \in DOMAIN first /\ m \in Nat /\ sent[m] \in Nat
    BY <1>0 DEF Indices
  <2>2. 1 \in 1 .. (Hdr + sent[m]) - 0 /\ first[m] + 0 + 1 - 1 = first[m]
    BY <2>1, Sizes
  <2> QED
    BY <2>1, <2>2 DEF Packet, Part
<1>3. \A m \in DOMAIN sent : Packet(m) = Packet(n) => m = n
  <2> SUFFICES ASSUME NEW m \in DOMAIN sent, Packet(m) = Packet(n) PROVE m = n
    OBVIOUS
  <2>1. first[m] = first[n] /\ first[m] \in Nat /\ m \in Nat /\ n \in Nat
    BY <1>1, <1>2
  <2>2. Layout
    BY DEF FInv
  <2>3. (m < n => first[m] < first[n]) /\ (n < m => first[n] < first[m])
    BY <1>1, <1>2, <2>2 DEF Layout
  <2> QED
    BY <2>1, <2>3
<1>4. \E m \in DOMAIN sent : got[n] = Packet(m)
  BY <1>1
<1>5. (CHOOSE m \in DOMAIN sent : got[n] = Packet(m)) = n
  BY <1>1, <1>3
<1> QED
  BY <1>4, <1>5 DEF NumberOf

\* A packet is returned when all of it has been sent.
LEMMA ReturnedAreComplete ==
  FInv => Complete \in Nat /\ Len(got) \in Nat /\ Len(got) <= Complete
<1> SUFFICES ASSUME FInv PROVE Complete \in Nat /\ Len(got) \in Nat /\ Len(got) <= Complete
  OBVIOUS
<1>0. Indices
  BY Positions
<1>1. /\ Len(sent) \in Nat /\ Len(got) \in Nat /\ End \in Int /\ Len(wire) \in Nat /\ Len(buff) \in Nat
      /\ first[Current] \in Nat /\ Current = Len(got) + 1
  BY <1>0 DEF Indices, Current
<1>2. Len(got) <= Len(sent) /\ Len(wire) <= End - first[Current] - Len(buff)
  BY DEF FInv, WireInv
<1>3. ASSUME sending PROVE Len(got) < Len(sent)
  <2>1. sent # <<>> /\ sent \in Seq(Lens)
    BY <1>3 DEF FInv, SenderInv, FramingTypeOK
  <2>2. Len(sent) # 0 /\ Len(sent) \in DOMAIN sent
    BY <1>0, <2>1, EmptySeq DEF Indices
  <2>3. End < first[Len(sent)] + Hdr + sent[Len(sent)]
    BY <1>3, <2>2, EndBounds
  <2>4. first[Len(sent) + 1] = first[Len(sent)] + Hdr + sent[Len(sent)]
    BY <2>2 DEF FInv, Layout
  <2>5. first[Current] <= End
    BY <1>1, <1>2
  <2>6. Current # Len(sent) + 1
    BY <1>1, <2>3, <2>4, <2>5
  <2> QED
    BY <1>1, <1>2, <2>6
<1>4. CASE sending
  BY <1>1, <1>3, <1>4 DEF Complete
<1>5. CASE ~sending
  BY <1>1, <1>2, <1>5 DEF Complete
<1> QED
  BY <1>4, <1>5

\* What the queue of PacketChannel is for these loops: numbers of packets.
NumbersTaken == [n \in DOMAIN got |-> NumberOf(got[n])]
NumbersQueued == [i \in 1 .. Complete - Len(got) |-> Len(got) + i]

\* The numbers taken are the first ones.
LEMMA TakenAreFirst == FInv => NumbersTaken = [n \in 1 .. Len(got) |-> 0 + n]
<1> SUFFICES ASSUME FInv PROVE NumbersTaken = [n \in 1 .. Len(got) |-> 0 + n]
  OBVIOUS
<1>1. DOMAIN got = 1 .. Len(got)
  BY Positions DEF Indices
<1>2. \A n \in DOMAIN got : NumberOf(got[n]) = n
  BY Numbers
<1>3. NumbersTaken = [n \in DOMAIN got |-> n]
  BY <1>2 DEF NumbersTaken
<1>4. \A n \in 1 .. Len(got) : 0 + n = n
  OBVIOUS
<1> QED
  BY <1>1, <1>3, <1>4

\* The same of the state after a step.
LEMMA TakenAreFirstNext ==
  ASSUME FInv'
  PROVE  (NumbersTaken = [n \in 1 .. Len(got) |-> 0 + n])'
  BY TakenAreFirst, PTL

\* And of the number of packets returned.
LEMMA ReturnedAreCompleteNext ==
  ASSUME FInv'
  PROVE  (Complete \in Nat /\ Len(got) \in Nat /\ Len(got) <= Complete)'
  BY ReturnedAreComplete, PTL

\* A step that completes and returns no packet is one the channel does not see.
LEMMA StutterStep ==
  ASSUME FInv, FInv', Complete' = Complete, Len(got') = Len(got)
  PROVE  Complete' = Complete /\ NumbersQueued' = NumbersQueued /\ NumbersTaken' = NumbersTaken
<1>1. (NumbersTaken = [n \in 1 .. Len(got) |-> 0 + n])'
  BY TakenAreFirstNext
<1>2. NumbersTaken = [n \in 1 .. Len(got) |-> 0 + n]
  BY TakenAreFirst
<1>3. NumbersQueued' = NumbersQueued
  BY DEF NumbersQueued
<1> QED
  BY <1>1, <1>2, <1>3

\* A step that completes a packet puts it into the channel.
LEMMA PutStep ==
  ASSUME FInv, FInv', Complete' = Complete + 1, Len(got') = Len(got)
  PROVE  /\ NumbersQueued' = Append(NumbersQueued, Complete + 1)
         /\ NumbersTaken' = NumbersTaken
<1>1. NumbersTaken' = NumbersTaken
  <2>1. (NumbersTaken = [n \in 1 .. Len(got) |-> 0 + n])'
    BY TakenAreFirstNext
  <2>2. NumbersTaken = [i \in 1 .. Len(got) |-> 0 + i]
    BY TakenAreFirst
  <2> QED
    BY <2>1, <2>2
<1> DEFINE g == Len(got)
<1> DEFINE n == Complete - g
<1>2. Complete \in Nat /\ g \in Nat /\ n \in Nat /\ g + n + 1 = Complete + 1
      /\ (Complete + 1) - g = n + 1
  BY ReturnedAreComplete
<1>3. NumbersQueued = [i \in 1 .. n |-> g + i]
  BY DEF NumbersQueued
<1>4. NumbersQueued' = [i \in 1 .. n + 1 |-> g + i]
  <2>1. NumbersQueued' = [i \in 1 .. Complete' - Len(got') |-> Len(got') + i]
    BY DEF NumbersQueued
  <2>2. Complete' - Len(got') = n + 1
    BY <1>2
  <2> QED
    BY <2>1, <2>2
<1> HIDE DEF g, n
<1>5. NumbersQueued' = Append(NumbersQueued, Complete + 1)
  BY <1>2, <1>3, <1>4, UpToAppend
<1> QED
  BY <1>1, <1>5

\* A step that returns a packet takes it from the channel.
LEMMA TakeStep ==
  ASSUME FInv, FInv', Complete' = Complete, Len(got') = Len(got) + 1
  PROVE  /\ NumbersQueued # <<>>
         /\ NumbersTaken' = Append(NumbersTaken, Head(NumbersQueued))
         /\ NumbersQueued' = Tail(NumbersQueued)
<1>0. (NumbersTaken = [n \in 1 .. Len(got) |-> 0 + n])'
  BY TakenAreFirstNext
<1> DEFINE g == Len(got)
<1> DEFINE n == Complete - (g + 1)
<1>1. Complete \in Nat /\ g \in Nat
  BY ReturnedAreComplete
<1>2. (Complete \in Nat /\ Len(got) \in Nat /\ Len(got) <= Complete)'
  BY ReturnedAreCompleteNext
<1>3. n \in Nat /\ Complete - g = n + 1
  BY <1>1, <1>2
<1>4. NumbersQueued = [i \in 1 .. n + 1 |-> g + i]
  BY <1>3 DEF NumbersQueued
<1>5. NumbersQueued' = [i \in 1 .. n |-> (g + 1) + i]
  BY <1>3 DEF NumbersQueued
<1>6. NumbersTaken = [i \in 1 .. g |-> 0 + i]
  BY TakenAreFirst
<1>7. NumbersTaken' = [i \in 1 .. g + 1 |-> 0 + i]
  BY <1>0
<1> HIDE DEF g, n
<1>8. NumbersQueued # <<>> /\ Head(NumbersQueued) = g + 1 /\ Tail(NumbersQueued) = NumbersQueued'
  BY <1>1, <1>3, <1>4, <1>5, UpToTail
<1>9. NumbersTaken' = Append(NumbersTaken, g + 1)
  <2>1. 0 \in Nat /\ 0 + g + 1 = g + 1
    BY <1>1
  <2>2. Append([i \in 1 .. g |-> 0 + i], 0 + g + 1) = [i \in 1 .. g + 1 |-> 0 + i]
    BY <1>1, <2>1, UpToAppend
  <2> QED
    BY <1>6, <1>7, <2>1, <2>2
<1> QED
  BY <1>8, <1>9

\* At the start nothing is in the channel.
LEMMA InitIsChannelInit == Init => Channel!ChannelInit
<1> SUFFICES ASSUME Init PROVE Channel!ChannelInit
  OBVIOUS
<1>1. sent = <<>> /\ got = <<>> /\ ~sending /\ Len(sent) = 0 /\ Len(got) = 0 /\ DOMAIN got = {}
  BY EmptySeq DEF Init
<1>2. Complete = 0
  BY <1>1 DEF Complete
<1>3. [i \in 1 .. Complete - Len(got) |-> Len(got) + i] = <<>>
  BY <1>1, <1>2
<1>4. [n \in DOMAIN got |-> NumberOf(got[n])] = <<>>
  BY <1>1
<1> QED
  BY <1>2, <1>3, <1>4 DEF Channel!ChannelInit

\* A step of the loops is a step of the channel: it puts the packet whose last
\* byte send accepts, takes the packet whose last byte recv returns, and
\* otherwise moves bytes only.
LEMMA StepIsChannelStep ==
  FInv /\ FInv' /\ [Next]_vars => [Channel!Put \/ Channel!Take]_Channel!channelVars
<1> SUFFICES ASSUME FInv, FInv', [Next]_vars
             PROVE  [Channel!Put \/ Channel!Take]_Channel!channelVars
  OBVIOUS
<1>1. ASSUME Complete' = Complete, Len(got') = Len(got)
      PROVE  UNCHANGED Channel!channelVars
  BY <1>1, StutterStep DEF Channel!channelVars, NumbersQueued, NumbersTaken
<1>2. ASSUME Complete' = Complete + 1, Len(got') = Len(got)
      PROVE  Channel!Put
  BY <1>2, PutStep DEF Channel!Put, NumbersQueued, NumbersTaken
<1>3. ASSUME Complete' = Complete, Len(got') = Len(got) + 1
      PROVE  Channel!Take
  BY <1>3, TakeStep DEF Channel!Take, NumbersQueued, NumbersTaken
<1>4. ASSUME NEW l \in Lens, SendPacket(l)
      PROVE  Complete' = Complete /\ Len(got') = Len(got)
  <2>1. sent' = Append(sent, l) /\ ~sending /\ sending' = TRUE /\ got' = got
    BY <1>4 DEF SendPacket, recvVars
  <2>2. sent \in Seq(Lens)
    BY DEF FInv, FramingTypeOK
  <2>3. Len(sent') = Len(sent) + 1 /\ Len(sent) \in Nat
    BY <2>1, <2>2, AppendedFacts, LenProperties
  <2> QED
    BY <2>1, <2>3 DEF Complete
<1>5. ASSUME NEW k \in 1 .. Capacity, SendSome(k)
      PROVE  (Complete' = Complete \/ Complete' = Complete + 1) /\ Len(got') = Len(got)
  <2>1. sent' = sent /\ sending /\ got' = got
    BY <1>5 DEF SendSome, recvVars
  <2>2. Len(sent) \in Nat
    BY Positions DEF Indices
  <2>3. CASE sending'
    BY <2>1, <2>3 DEF Complete
  <2>4. CASE ~sending'
    BY <2>1, <2>2, <2>4 DEF Complete
  <2> QED
    BY <2>1, <2>3, <2>4
<1>6. ASSUME NEW k \in 1 .. Capacity, Recv(k)
      PROVE  Complete' = Complete /\ (Len(got') = Len(got) \/ Len(got') = Len(got) + 1)
  <2>1. sent' = sent /\ sending' = sending /\ k <= Len(wire)
    BY <1>6 DEF Recv, sendVars
  <2>2. got' = got \/ got' = Append(got, buff \o SubSeq(wire, 1, k))
    BY <1>6 DEF Recv, HeaderDone
  <2>3. got \in Seq(Seq(Nat)) /\ buff \o SubSeq(wire, 1, k) \in Seq(Nat)
    BY <2>1, TakenBytes DEF FInv, FramingTypeOK
  <2>4. got' = Append(got, buff \o SubSeq(wire, 1, k)) => Len(got') = Len(got) + 1
    BY <2>3, AppendedFacts
  <2> QED
    BY <2>1, <2>2, <2>4 DEF Complete
<1>7. ASSUME SenderEnds \/ ReceivePacket \/ RecvError \/ RecvEof \/ UNCHANGED vars
      PROVE  Complete' = Complete /\ Len(got') = Len(got)
  <2>1. sent' = sent /\ sending' = sending /\ got' = got
    BY <1>7 DEF SenderEnds, ReceivePacket, RecvError, RecvEof, vars, sendVars, recvVars
  <2> QED
    BY <2>1 DEF Complete
<1>8. \/ Complete' = Complete /\ Len(got') = Len(got)
      \/ Complete' = Complete + 1 /\ Len(got') = Len(got)
      \/ Complete' = Complete /\ Len(got') = Len(got) + 1
  BY <1>4, <1>5, <1>6, <1>7 DEF Next, SendLoop, RecvLoop
<1> QED
  BY <1>1, <1>2, <1>3, <1>8

\* send_tcp_packet and recv_tcp_packet make a queue of packets of a stream of
\* bytes: whatever the sizes of the packets and of the socket buffers, however
\* send and recv cut the stream and wherever the sender ends, recv_tcp_packet
\* returns whole packets, once and in order.
THEOREM LoopsAreAChannel == FramingSpec => IsAChannel
<1>1. Init => Channel!ChannelInit
  BY InitIsChannelInit
<1>2. FInv /\ FInv' /\ [Next]_vars => [Channel!Put \/ Channel!Take]_Channel!channelVars
  BY StepIsChannelStep
<1> QED
  BY <1>1, <1>2, FramingInvariance, PTL DEF FramingSpec, IsAChannel, Channel!ChannelSpec
=============================================================================
