-------------------------------- MODULE Feed --------------------------------
(***************************************************************************)
(* The way of a message from the input file of the UDP client to the       *)
(* subscriber's terminal: one run of udp_client.py, the network, the       *)
(* server's handling of its datagrams and one subscriber with one          *)
(* subscription.  Who is connected and when is the subject of Broker; here *)
(* it is what the messages carry.                                          *)
(***************************************************************************)
EXTENDS Publisher, Notification, TopicMatch

CONSTANTS
  Patterns,    \* subscriptions, by their levels
  Address,     \* the address of the publisher's host, four bytes
  MaxArrivals  \* bound: datagrams that arrive

\* What a UDP client sends: a topic by its levels, a type, the payload's cells.
Datagrams == [topic : LevelTexts, type : STRING, payload : Seq(0 .. Word - 1)]

ASSUME FeedAssumption ==
  /\ Payloads \subseteq Datagrams
  /\ Patterns \subseteq LevelTexts
  /\ MaxArrivals \in Nat

VARIABLES
  arrived,  \* how many datagrams have arrived
  udp,      \* datagrams in the server's UDP socket, with their sender's port
  buff,     \* the payload area of the server's receive buffer
  crashed,  \* the server is gone
  pattern,  \* the subscription
  toClient, \* notifications sent and not yet received
  shown     \* history: what the subscriber has printed

feedVars == <<arrived, udp, buff, crashed, pattern, toClient, shown>>
vars == <<pubVars, feedVars>>

\* In particular what is sent on of a payload of a known type, but for the NUL
\* behind a string, lies in the array it was copied to, however long the datagram
\* was (parse_udp_packet); an INT is printed as a signed number.
FeedTypeOK ==
  /\ arrived \in Nat /\ Len(udp) <= arrived
  /\ \A k \in DOMAIN udp : udp[k].dgram \in Payloads
  /\ buff \in [Cells -> Nat] /\ crashed \in BOOLEAN /\ pattern \in Patterns
  /\ \A k \in DOMAIN toClient :
       toClient[k].type \in Types => DOMAIN toClient[k].payload \subseteq PayloadArray
  /\ \A k \in DOMAIN shown :
       LET v == shown[k].value IN
         shown[k].type = "INT" => v[1] >= -(Word \div 2) /\ v[1] < Word \div 2

Init ==
  /\ PublisherInit
  /\ arrived = 0 /\ udp = <<>> /\ buff = Cleared /\ crashed = FALSE
  /\ pattern \in Patterns
  /\ toClient = <<>> /\ shown = <<>>

-----------------------------------------------------------------------------
\* A datagram arrives: any that was sent, at any time, or again.  One that
\* never arrives is lost.
Arrive ==
  /\ arrived < MaxArrivals /\ ~crashed
  /\ \E k \in DOMAIN sent :
       udp' = Append(udp, [n |-> arrived + 1, port |-> port, dgram |-> Message(sent[k]).payload])
  /\ arrived' = arrived + 1
  /\ UNCHANGED <<pubVars, buff, crashed, pattern, toClient, shown>>

\* The packet for datagram d, one for each payload that can be sent.
Packets(d, cells) ==
  {[n |-> d.n, ip |-> DisplayedIp(d.port), port |-> d.port, topic |-> d.dgram.topic,
    type |-> d.dgram.type, payload |-> p] : p \in SentPayloads(d.dgram.type, cells)}

\* Variant: the buffer is cleared once and not in every turn.
ReceiveDatagram_NotCleared ==
  /\ udp # <<>> /\ ~crashed
  /\ udp' = Tail(udp)
  /\ buff' = RecvFrom(buff, Head(udp).dgram.payload)
  /\ IF MatchesTopic(Head(udp).dgram.topic, pattern)
     THEN \E p \in Packets(Head(udp), buff') : toClient' = Append(toClient, p)
     ELSE UNCHANGED toClient
  /\ UNCHANGED <<pubVars, arrived, crashed, pattern, shown>>

\* One turn of start_server: the buffer is cleared, the datagram received,
\* parsed, and sent on if the subscriber wants its topic.
ReceiveDatagram ==
  /\ udp # <<>> /\ ~crashed
  /\ udp' = Tail(udp)
  /\ buff' = RecvFrom(Cleared, Head(udp).dgram.payload)
  /\ IF MatchesTopic(Head(udp).dgram.topic, pattern)
     THEN \E p \in Packets(Head(udp), buff') : toClient' = Append(toClient, p)
     ELSE UNCHANGED toClient
  /\ UNCHANGED <<pubVars, arrived, crashed, pattern, shown>>

\* A payload of unknown type: the uninitialised length is negative or too
\* large, and memcpy leaves the memory of the process.
ReceiveCrashes ==
  /\ udp # <<>> /\ ~crashed
  /\ Head(udp).dgram.type \notin Types
  /\ crashed' = TRUE
  /\ UNCHANGED <<pubVars, arrived, udp, buff, pattern, toClient, shown>>

\* Variant: one recv is taken to be one packet, and the rest is lost.
Display_LastOnly ==
  /\ toClient # <<>>
  /\ LET p == Last(toClient) IN
       shown' = Append(shown, [n |-> p.n, ip |-> p.ip, port |-> p.port, topic |-> p.topic,
                               type |-> p.type, value |-> ShownValue(p.type, p.payload)])
  /\ toClient' = <<>>
  /\ UNCHANGED <<pubVars, arrived, udp, buff, crashed, pattern>>

\* The subscriber receives a notification and prints it.
Display ==
  /\ toClient # <<>>
  /\ LET p == Head(toClient) IN
       shown' = Append(shown, [n |-> p.n, ip |-> p.ip, port |-> p.port, topic |-> p.topic,
                               type |-> p.type, value |-> ShownValue(p.type, p.payload)])
  /\ toClient' = Tail(toClient)
  /\ UNCHANGED <<pubVars, arrived, udp, buff, crashed, pattern>>

ServerReceives == ReceiveDatagram \/ ReceiveCrashes

Next ==
  \/ (PublisherStep \/ TerminalStep) /\ UNCHANGED feedVars
  \/ Arrive \/ ServerReceives \/ Display

\* The three programs are scheduled; the network and the user owe nothing.
Spec ==
  /\ Init /\ [][Next]_vars
  /\ WF_vars(PublisherStep /\ UNCHANGED feedVars)
  /\ WF_vars(ServerReceives) /\ WF_vars(Display)

-----------------------------------------------------------------------------
\* A datagram is sent on if and only if the topic's levels match those of the
\* subscription, for subscriptions whose wildcards are whole levels and that
\* have no other character with a meaning in regular expressions
\* (matches_topic; the others match more than they say).
ForwardedByLevels ==
  [][ReceiveDatagram /\ WellFormed(pattern)
       => (toClient' # toClient <=> MatchesByLevels(Head(udp).dgram.topic, pattern))]_vars

\* Whatever is shown was sent: some message of the input file, from this port,
\* on this topic, and with the value its bytes mean - nothing left from an
\* earlier datagram, no string cut or run on, no sign or decimal point lost
\* (CLEAR_BUFFER, parse_udp_packet, parse_notification).
ShownAsPublished ==
  \A k \in DOMAIN shown : \E i \in DOMAIN sent :
    LET d == Message(sent[i]).payload IN
      /\ shown[k].port = port /\ shown[k].topic = d.topic /\ shown[k].type = d.type
      /\ IsMeant(shown[k].value, d.type, d.payload)

\* A datagram that has reached the server on a topic that was asked for is
\* shown, unless the server is gone (run_subscriber reads packet by packet).
InterestingIsShown ==
  \A n \in 1 .. MaxArrivals :
    (\E k \in DOMAIN udp : udp[k].n = n /\ MatchesByLevels(udp[k].dgram.topic, pattern))
      ~> (crashed \/ \E k \in DOMAIN shown : shown[k].n = n)

\* server.cpp:239: "Get the sender's IP addr and port and stuff it inside the
\* packet".
SenderIsShown == \A k \in DOMAIN shown : shown[k].ip = Address
=============================================================================
