---------------------------- MODULE Notification ----------------------------
(***************************************************************************)
(* What happens to the contents of a datagram: parse_udp_packet of         *)
(* server.cpp copies it from the receive buffer into a packet, and         *)
(* parse_notification of subscriber.cpp converts and prints that packet.   *)
(*                                                                         *)
(* The payload area is a sequence of cells: a sign byte, a number, an      *)
(* exponent or a character each.  htonl and ntohl cancel out, so a number  *)
(* is its value.                                                           *)
(***************************************************************************)
EXTENDS Integers, Sequences, SequencesExt

CONSTANTS
  Word,       \* 2^32: the numbers of INT and FLOAT count modulo this
  FloatExact, \* 2^24: up to here a float holds every integer
  MaxString   \* 1500: characters of a STRING

ASSUME NotificationAssumption ==
  /\ Word \in Nat /\ Word > 1 /\ Word % 2 = 0
  /\ FloatExact \in Nat \ {0} /\ FloatExact % 2 = 0
  /\ Word <= 256 * FloatExact
  /\ MaxString \in Nat /\ MaxString >= 3

Types == {"INT", "SHORT_REAL", "FLOAT", "STRING"}

\* What recvfrom takes of a payload, and memcpy copies of a STRING: one cell more
\* than the characters of a string (MAX_UDP_PACKET_LEN, len = 1501).
Cells == 1 .. MaxString + 1

\* The array that it is copied to, notification.payload, has no such cell: the
\* last one is written behind the array and behind the block that malloc was
\* asked for, in what glibc adds to the block to round its size up.
PayloadArray == 1 .. MaxString
Cleared == [i \in Cells |-> 0]

\* recvfrom overwrites the first cells of the buffer and cuts what is longer.
RecvFrom(cells, payload) == [i \in Cells |-> IF i <= Len(payload) THEN payload[i] ELSE cells[i]]

\* Variant: no NUL is written behind the cells 1 .. MaxString.
CString_NotTerminated(cells) ==
  LET ends == {i \in 0 .. MaxString + 1 : i = MaxString + 1 \/ cells[i + 1] = 0}
  IN  SubSeq(cells, 1, CHOOSE i \in ends : \A j \in ends : i <= j)

\* The characters before the first NUL among the cells 1 .. MaxString: a NUL
\* is written behind them.
CString(cells) ==
  LET ends == {i \in 0 .. MaxString : i = MaxString \/ cells[i + 1] = 0}
  IN  SubSeq(cells, 1, CHOOSE i \in ends : \A j \in ends : i <= j)

\* The values `len` can have after the switch: for an unknown type it is not
\* initialised (one that leads out of the memory is ReceiveCrashes of Feed).
PayloadLengths(type) ==
  CASE type = "INT" -> {2} [] type = "SHORT_REAL" -> {1} [] type = "FLOAT" -> {3}
    [] OTHER -> 0 .. MaxString + 1

\* The payloads that parse_udp_packet can send on.
SentPayloads(type, cells) ==
  IF type = "STRING" THEN {CString(cells)}
  ELSE {SubSeq(cells, 1, len) : len \in PayloadLengths(type)}

\* inet_ntop is given the start of the sockaddr in place of the address in it:
\* the two bytes of AF_INET and the two bytes of the port.
DisplayedIp(port) == <<2, 0, port \div 256, port % 256>>

-----------------------------------------------------------------------------
\* A cell of a packet in the cleared buffer of the subscriber.
Cell(payload, i) == IF i <= Len(payload) THEN payload[i] ELSE 0

\* uint32_t, negated modulo Word and printed with %d.
ShownInt(sgn, num) ==
  LET n == IF sgn = 1 THEN (Word - num) % Word ELSE num
  IN  IF n >= Word \div 2 THEN n - Word ELSE n

\* The distance of the floats around n, and n rounded to one of them: to the
\* nearest, and to the one with an even mantissa when there are two.  A number
\* is at most 8 bits longer than the mantissa.
Spacings == {1, 2, 4, 8, 16, 32, 64, 128, 256}
Ulp(n) == CHOOSE u \in Spacings : n < FloatExact * u /\ (u = 1 \/ 2 * n >= FloatExact * u)
RoundToFloat(n) ==
  LET u == Ulp(n)  q == n \div u  r == n % u
  IN  u * (IF 2 * r > u \/ (2 * r = u /\ q % 2 = 1) THEN q + 1 ELSE q)

\* What parse_notification prints for a payload.  A SHORT_REAL is in
\* hundredths: a float is near enough for its two decimals.  A FLOAT is sign,
\* digits and number of decimals; of its steps only the cast to float rounds
\* visibly, as the division and pow are in double.  An unknown type prints
\* nothing.
ShownValue(type, p) ==
  CASE type = "INT"        -> <<ShownInt(Cell(p, 1), Cell(p, 2))>>
    [] type = "SHORT_REAL" -> <<Cell(p, 1)>>
    [] type = "FLOAT"      -> <<IF Cell(p, 1) = 1 THEN -1 ELSE 1, RoundToFloat(Cell(p, 2)), Cell(p, 3)>>
    [] type = "STRING"     -> p
    [] OTHER               -> <<>>

-----------------------------------------------------------------------------
\* The values that a publisher who follows the formats means, as far as the
\* types of the display can hold them; a FLOAT to within the precision of a
\* float.  Whoever sends something else may be shown anything.
IsMeant(value, type, p) ==
  CASE type = "INT" ->
         Len(p) = 2 /\ p[1] \in {0, 1} /\ p[2] < Word \div 2
           => value = <<IF p[1] = 1 THEN -p[2] ELSE p[2]>>
    [] type = "SHORT_REAL" -> Len(p) = 1 => value = p
    [] type = "FLOAT" ->
         Len(p) = 3 /\ p[1] \in {0, 1}
           => /\ value[1] = IF p[1] = 1 THEN -1 ELSE 1
              /\ value[3] = p[3]
              /\ LET error == value[2] - p[2] IN
                   /\ error * FloatExact <= p[2] /\ -error * FloatExact <= p[2]
                   /\ p[2] <= FloatExact => error = 0
    [] type = "STRING" ->
         /\ Len(value) <= Len(p) /\ value = SubSeq(p, 1, Len(value))
         /\ Len(value) <= MaxString /\ \A i \in DOMAIN value : value[i] # 0
         /\ Len(value) \in {MaxString, Len(p)} \/ p[Len(value) + 1] = 0
    [] OTHER -> value = <<>>
=============================================================================
