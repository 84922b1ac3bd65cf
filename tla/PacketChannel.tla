--------------------------- MODULE PacketChannel ---------------------------
(***************************************************************************)
(* What send_tcp_packet and recv_tcp_packet promise together: packets,     *)
(* numbered from 1, are taken whole, once each, in the order in which they *)
(* were put.  This is the queue the module Sockets works with.             *)
(***************************************************************************)
EXTENDS Naturals, Sequences

VARIABLES
  put,   \* how many packets have been put
  queue, \* the packets put and not yet taken
  taken  \* the packets taken

channelVars == <<put, queue, taken>>

ChannelInit == put = 0 /\ queue = <<>> /\ taken = <<>>

Put ==
  /\ put' = put + 1
  /\ queue' = Append(queue, put + 1)
  /\ UNCHANGED taken

Take ==
  /\ queue # <<>>
  /\ taken' = Append(taken, Head(queue))
  /\ queue' = Tail(queue)
  /\ UNCHANGED put

ChannelSpec == ChannelInit /\ [][Put \/ Take]_channelVars
=============================================================================
