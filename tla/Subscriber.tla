----------------------------- MODULE Subscriber -----------------------------
(***************************************************************************)
(* subscriber.cpp.  Each run of the program connects, announces its id and *)
(* then serves its standard input and its socket.  The user types whenever *)
(* he likes, so the preference for stdin in run_subscriber() does not      *)
(* restrict the order in which the two are served.                         *)
(***************************************************************************)
EXTENDS Sockets

CONSTANTS
  MayCrash,  \* the runs that may be killed at any moment
  MaxCmds    \* bound: commands typed in all the runs together

ASSUME SubscriberAssumption ==
  /\ MayCrash \subseteq Clients
  /\ MaxCmds \in Nat

VARIABLES
  cl,        \* where each run of the program is
  shown,     \* the notifications each run has printed
  cmds,      \* how many commands have been typed
  asked,     \* history: how often each run has sent SUBSCRIBE for each pattern
  dropped    \* history: the same for UNSUBSCRIBE

cliVars == <<cl, shown, cmds, asked, dropped>>

\* "off": not started; "connecting": between connect() and the CONNECT packet;
\* "run": in run_subscriber(); "leaving": in handle_shutdown(), SHUTDOWN_CLOSE
\* is sent and the socket still open; "gone": exited; "spin": recv() returns 0
\* for ever.
ClientPhases == {"off", "connecting", "run", "leaving", "gone", "spin"}

SubscriberInit ==
  /\ cl = [p \in Clients |-> "off"]
  /\ shown = [p \in Clients |-> <<>>]
  /\ cmds = 0
  /\ asked = [p \in Clients |-> [t \in Patterns |-> 0]]
  /\ dropped = [p \in Clients |-> [t \in Patterns |-> 0]]

SubscriberTypeOK ==
  /\ cl \in [Clients -> ClientPhases]
  /\ shown \in [Clients -> Seq(Datagrams)]
  /\ cmds \in Nat
  /\ asked \in [Clients -> [Patterns -> Nat]]
  /\ dropped \in [Clients -> [Patterns -> Nat]]

-----------------------------------------------------------------------------
\* connect() completes in the kernel, before the server calls accept().
Connect(p) ==
  /\ cl[p] = "off" /\ listening
  /\ cl' = [cl EXCEPT ![p] = "connecting"]
  /\ peer' = [peer EXCEPT ![p] = "open"]
  /\ backlog' = Append(backlog, p)
  /\ UNCHANGED <<conn, listening, toServer, toClient, rst, udp, arrived, lost, missed,
                 shown, cmds, asked, dropped>>

\* The server is gone: DIE(ret < 0).
ConnectRefused(p) ==
  /\ cl[p] = "off" /\ ~listening
  /\ cl' = [cl EXCEPT ![p] = "gone"]
  /\ UNCHANGED <<sockVars, shown, cmds, asked, dropped>>

SendConnect(p) ==
  /\ cl[p] = "connecting"
  /\ SendToServer(p, [action |-> "CONNECT_ACTION", id |-> IdOf[p]])
  /\ cl' = [cl EXCEPT ![p] = "run"]
  /\ UNCHANGED <<conn, backlog, listening, toClient, peer, rst, udp, arrived, lost, missed,
                 shown, cmds, asked, dropped>>

-----------------------------------------------------------------------------
\* The user types one more line.
Type(p) == cl[p] = "run" /\ cmds < MaxCmds /\ cmds' = cmds + 1

\* One more packet of p about t.
Count(history, p, t) == [history EXCEPT ![p][t] = @ + 1]

Subscribe(p, t) ==
  /\ Type(p)
  /\ SendToServer(p, [action |-> "SUBSCRIBE_ACTION", topic |-> t])
  /\ asked' = Count(asked, p, t)
  /\ UNCHANGED <<conn, backlog, listening, toClient, peer, rst, udp, arrived, lost, missed,
                 cl, shown, dropped>>

Unsubscribe(p, t) ==
  /\ Type(p)
  /\ SendToServer(p, [action |-> "UNSUBSCRIBE_ACTION", topic |-> t])
  /\ dropped' = Count(dropped, p, t)
  /\ UNCHANGED <<conn, backlog, listening, toClient, peer, rst, udp, arrived, lost, missed,
                 cl, shown, asked>>

\* handle_shutdown(): tell the server.
Exit(p) ==
  /\ Type(p)
  /\ SendToServer(p, [action |-> "SHUTDOWN_CLOSE"])
  /\ cl' = [cl EXCEPT ![p] = "leaving"]
  /\ UNCHANGED <<conn, backlog, listening, toClient, peer, rst, udp, arrived, lost, missed,
                 shown, asked, dropped>>

\* shutdown_and_close_conn_fd() at the end of handle_shutdown(): the server may
\* have read the packet by now, or not.
CloseAfterExit(p) ==
  /\ cl[p] = "leaving"
  /\ CloseClientEnd(p, toClient[p])
  /\ cl' = [cl EXCEPT ![p] = "gone"]
  /\ UNCHANGED <<conn, backlog, listening, toServer, udp, arrived, lost, missed, shown, cmds,
                 asked, dropped>>

\* A send on a connection the server has reset: SIGPIPE ends the program.
ClientSigpipe(p) ==
  /\ cl[p] = "connecting" \/ (cl[p] = "run" /\ cmds < MaxCmds)
  /\ ~ServerEndOpen(p)
  /\ CloseClientEnd(p, <<>>)
  /\ cl' = [cl EXCEPT ![p] = "gone"]
  /\ UNCHANGED <<conn, backlog, listening, toServer, udp, arrived, lost, missed, shown,
                 cmds, asked, dropped>>

\* The process is killed: nothing is sent, the kernel closes the socket.
Kill(p) ==
  /\ p \in MayCrash /\ cl[p] \in {"connecting", "run", "leaving"}
  /\ CloseClientEnd(p, toClient[p])
  /\ cl' = [cl EXCEPT ![p] = "gone"]
  /\ UNCHANGED <<conn, backlog, listening, toServer, udp, arrived, lost, missed, shown,
                 cmds, asked, dropped>>

-----------------------------------------------------------------------------
\* parse_notification()
ReceiveNotification(p) ==
  /\ cl[p] = "run" /\ toClient[p] # <<>>
  /\ Head(toClient[p]).action = "NOTIFICATION_ACTION"
  /\ shown' = [shown EXCEPT ![p] = Append(@, Head(toClient[p]).dgram)]
  /\ toClient' = [toClient EXCEPT ![p] = Tail(@)]
  /\ UNCHANGED <<conn, backlog, listening, toServer, peer, rst, udp, arrived, lost, missed,
                 cl, cmds, asked, dropped>>

\* SHUTDOWN_INTRUDER and SHUTDOWN_CLOSE: shutdown_and_close_conn_fd().
ReceiveShutdown(p) ==
  /\ cl[p] = "run" /\ toClient[p] # <<>>
  /\ Head(toClient[p]).action \in {"SHUTDOWN_INTRUDER", "SHUTDOWN_CLOSE"}
  /\ CloseClientEnd(p, Tail(toClient[p]))
  /\ cl' = [cl EXCEPT ![p] = "gone"]
  /\ UNCHANGED <<conn, backlog, listening, toServer, udp, arrived, lost, missed, shown,
                 cmds, asked, dropped>>

\* End of file: recv() returns 0 and recv_tcp_packet() goes round for ever.
ReceiveEof(p) ==
  /\ cl[p] = "run" /\ toClient[p] = <<>> /\ ~ServerEndOpen(p)
  /\ cl' = [cl EXCEPT ![p] = "spin"]
  /\ UNCHANGED <<sockVars, shown, cmds, asked, dropped>>

\* What the program does of its own accord, as opposed to what its user does.
ClientStep(p) ==
  \/ SendConnect(p) \/ ReceiveNotification(p) \/ ReceiveShutdown(p) \/ ReceiveEof(p)
  \/ CloseAfterExit(p)

UserStep(p) ==
  \/ Connect(p) \/ ConnectRefused(p) \/ Exit(p) \/ ClientSigpipe(p) \/ Kill(p)
  \/ \E t \in Patterns : Subscribe(p, t) \/ Unsubscribe(p, t)
=============================================================================
