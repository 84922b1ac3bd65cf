------------------------------- MODULE PubSub -------------------------------
(***************************************************************************)
(* What the broker promises, without descriptors, records, sockets or      *)
(* packets: identifiers have sessions and topics, and a datagram goes at   *)
(* once to all sessions that want it.                                      *)
(*                                                                         *)
(* A run that leaves and a server that ends may lose what was handed out   *)
(* last and not yet shown, and nothing else may.                           *)
(***************************************************************************)
EXTENDS Integers, Sequences, SequencesExt

CONSTANTS Clients, Ids, IdOf, Patterns, Matches

VARIABLES
  up,        \* the server serves
  connected, \* the runs that have a session
  topics,    \* the subscriptions of each id, as a bag
  incoming,  \* the datagrams that have arrived and wait
  inbox,     \* the datagrams handed out to each run
  ending,    \* the runs that have said they leave, and those that have left
  left,      \* the runs that have closed their connection
  void       \* nothing is promised any more

serviceVars == <<up, connected, topics, incoming, inbox, ending, left, void>>

ServiceInit ==
  /\ up = TRUE /\ connected = {}
  /\ topics = [id \in Ids |-> [t \in Patterns |-> 0]]
  /\ incoming = <<>> /\ inbox = [p \in Clients |-> <<>>]
  /\ ending = {} /\ left = {} /\ void = FALSE

Arrive ==
  /\ Len(incoming') = Len(incoming) + 1 /\ IsPrefix(incoming, incoming')
  /\ UNCHANGED <<up, connected, topics, inbox, ending, left, void>>

\* A run whose id has no session gets one, with the topics the id had before.
Begin(p) ==
  /\ up /\ \A q \in connected : IdOf[q] # IdOf[p]
  /\ connected' = connected \cup {p}
  /\ void' \in {void, TRUE}
  /\ UNCHANGED <<up, topics, incoming, inbox, ending, left>>

\* Only an id with a session changes its topics, by one copy of one of them.
Command(id, t) ==
  /\ up /\ \E p \in connected : IdOf[p] = id
  /\ topics'[id][t] \in {topics[id][t] + 1, topics[id][t] - 1} \cap Nat
  /\ topics' = [topics EXCEPT ![id][t] = topics'[id][t]]
  /\ UNCHANGED <<up, connected, incoming, inbox, ending, left, void>>

\* A run says that it leaves.
Announce(p) ==
  /\ p \in ending' \ ending /\ ending' = ending \cup {p}
  /\ UNCHANGED <<up, connected, topics, incoming, inbox, left, void>>

\* The session of a run that has said so ends, before or after it has left.
End(p) ==
  /\ up /\ p \in connected \cap ending
  /\ connected' = connected \ {p}
  /\ UNCHANGED <<up, topics, incoming, inbox, ending, left, void>>

Wanted(p, d) ==
  /\ p \in connected \ left
  /\ \E t \in Patterns : topics[IdOf[p]][t] > 0 /\ <<d.topic, t>> \in Matches

\* The oldest datagram is handed out to those who want it, and to nobody else.
Forward ==
  /\ up /\ incoming # <<>>
  /\ incoming' = Tail(incoming)
  /\ inbox' = [p \in Clients |->
                 IF Wanted(p, Head(incoming)) THEN Append(inbox[p], Head(incoming)) ELSE inbox[p]]
  /\ UNCHANGED <<up, connected, topics, ending, left, void>>

\* A run closes its connection, whether it has said so or not.
Leave(p) ==
  /\ p \in left' \ left /\ left' = left \cup {p} /\ ending' = ending \cup {p}
  /\ IsPrefix(inbox'[p], inbox[p])
  /\ inbox' = [inbox EXCEPT ![p] = inbox'[p]]
  /\ UNCHANGED <<up, connected, topics, incoming, void>>

\* What is on its way when one of the two ends may be lost.
Lose(p) ==
  /\ ~up \/ p \in ending
  /\ IsPrefix(inbox'[p], inbox[p])
  /\ inbox' = [inbox EXCEPT ![p] = inbox'[p]]
  /\ UNCHANGED <<up, connected, topics, incoming, ending, left, void>>

\* The server closes down, or comes to an end it did not want.
Stop ==
  /\ up /\ up' = FALSE /\ connected' = {}
  /\ \A p \in Clients : IsPrefix(inbox'[p], inbox[p])
  /\ UNCHANGED <<topics, incoming, ending, left, void>>

ServiceNext ==
  \/ Arrive \/ Forward \/ Stop
  \/ \E p \in Clients : Begin(p) \/ Announce(p) \/ Leave(p) \/ End(p) \/ Lose(p)
  \/ \E id \in Ids, t \in Patterns : Command(id, t)
  \/ void /\ void'

ServiceSpec == ServiceInit /\ [][ServiceNext]_serviceVars
=============================================================================
