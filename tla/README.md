# A verification development of MessageBroker-TCP-UDP

The repository holds a message broker: a server (`server.cpp`) that receives
datagrams from UDP publishers and forwards them over TCP to the subscribers
(`subscriber.cpp`) that asked for their topic.  The modules here model the server
and the subscribers at the level of single sends and receives, check them with TLC
on small instances and prove the central facts for instances of any size with TLAPS.
Below it, the byte loops that carry a packet over a TCP stream are modelled by
themselves and proved to be the queue of packets that the server's model works with.
Above it stands an abstract publish/subscribe service that the programs are proved to
implement.
Beside it, `Feed` follows what a message carries, from the input file of the UDP
client (`udp_client.py`) to the text on the subscriber's terminal.

    tlc -workers 2 -config sessions.cfg MCBroker.tla     # any of the runs
    tlc -workers 2 -config framing.cfg MCFraming.tla
    tlc -workers 2 -config feed.cfg MCFeed.tla
    tlc -workers 2 -config poll_table.cfg PollTable.tla
    tlapm BrokerProofs.tla                               # the proofs, in this order:
    tlapm RecordProofs.tla                               # each of these builds on the
    tlapm EndingProofs.tla                               # one before
    tlapm OrderProofs.tla
    tlapm ServiceProofs.tla
    tlapm FramingProofs.tla
    tlapm FeedProofs.tla
    tlapm FiniteInduction.tla                            # used by OrderProofs and FeedProofs

## 1. The system

| Part | State | Operations | What makes it correct |
|---|---|---|---|
| Server loop, `start_server` | polled descriptors `sv_fds`, the stage of the loop | poll, then stdin **else** accept **else** datagram **else** the subscribers | every ready input is served, or the program ends |
| Subscriber database, `subs` | id, descriptor, topics (with repetitions), online flag | add, reconnect, refuse, subscribe, unsubscribe, leave | one record and at most one session per id; a record is changed only by its owner; it survives a reconnection |
| Forwarding | the datagram and the subscribers still to serve | look up, one send after the other | only what was asked for, in order, once |
| Shutdown of the server | position in `sv_fds` | tell, close, next; exit | everybody admitted ends |
| Subscriber, `run_subscriber` | its connection | three commands, three packets, end of file | it ends when it is told to |
| Framing, `send_tcp_packet`/`recv_tcp_packet` | two `size_t` counters | loops around send and recv | a packet arrives whole, or the failure is noticed |
| Matching, `matches_topic` | - | pattern to regular expression, match of the whole topic | `+` is one level, `*` one or more |
| Notification, `parse_udp_packet`/`parse_notification` | the receive buffers | copies and conversions of fields | what is displayed is what was published |
| Poll table, `add_new_pollfd_struc` | capacity, allocated size | growth by `realloc` | the entries lie inside the allocation |
| UDP publisher, `udp_client.py` | arguments, socket, messages sent | parse, bind, three modes of sending | it sends what its mode says, also when something fails on the way |
| `test.py`, Makefile, payload files | - | - | read for what they expect of the programs |

The server is a single thread.  Concurrency comes from the processes: the kernel
completes a `connect()` before the server accepts it, subscribers send, close and
die at any moment, datagrams queue up, and the server serves its inputs by
priority.  Server and subscribers share no memory; all they share is in the
kernel: connections, their queues, their resets, the accept queue, the UDP queue.

What is hard about this code (each one with its line in PROJECT.json):

* **Descriptor numbers as keys.**  A record keeps the number of its descriptor
  after its session ended, and the kernel reuses the lowest free number.
  `get_subscriber_by_fd` then finds the wrong record.
* **Priorities.**  Accept goes before the subscribers' packets, so a reconnection
  overtakes the goodbye of the session before it.  Datagrams go before them too.
* **The running loop** over `sv_fds` while `handle_shutdown_sub` shifts it.
* **Ends of connections.**  recv returning 0, send raising SIGPIPE and calls failing
  with -1 are all unhandled: the checks for `< 0` are on `size_t` variables.
* **Blocking** on the CONNECT packet of one connection.
* **Resources**: the descriptor of a refused intruder is never closed; the array of
  descriptors is grown by the wrong number of bytes.
* **Buffers that stay**: one receive buffer for all datagrams, payloads with a length that
  depends on the type, and conversions at the edges of their numbers.
* **Failures behind the send**: `udp_client.py` reports and waits after it has sent, and can
  fail in both.

## 2. The modules

| Module | Models | Lines it stands for |
|---|---|---|
| `Sockets` | packets; the kernel objects both sides touch: descriptors, queues, accept queue, resets, the UDP queue | `common.h`, `strucs.h`, the calls of `common.cpp` |
| `Server` | the poll loop and all handlers | `server.cpp` |
| `Subscriber` | all runs of the client program | `subscriber.cpp` |
| `Broker` | the composition, with publishers and the operator; `Spec`, `FairSpec`, `TypeOK` | - |
| `BrokerProperties` | what they promise together | - |
| `PubSub` | the abstract service: ids with topics and sessions, datagrams handed out | `server.cpp`, one step per operation |
| `BrokerService` | how `Broker` implements it: the refinement mapping | - |
| `BrokerProofs` | the inductive invariant and the first theorems | - |
| `RecordProofs` | records, descriptors, subscriptions | - |
| `EndingProofs` | the shutdown, and end of file | - |
| `OrderProofs` | the order of datagrams, that nobody is left out, and that topics are accounted for | - |
| `ServiceProofs` | that `Broker` implements `PubSub` | - |
| `Framing` | one direction of a connection, byte by byte: both loops, their counters, the stream | `common.cpp:23-74` |
| `PacketChannel` | what `Framing` promises: a queue of packets | the same, as two steps |
| `FramingProofs` | the inductive invariant of the loops, and that they implement `PacketChannel` | - |
| `Publisher` | one run of the UDP client | `udp_client.py`, `unpriv_port.py` |
| `TopicMatch` | the regular expression of a pattern, and matching by levels | `server.cpp:141-158` |
| `Notification` | buffers, copies and conversions of a datagram's payload | `server.cpp:191-250`, `subscriber.cpp:149-185` |
| `Feed` | publisher, network, server and subscriber around a message | `server.cpp:416-423`, and the three above |
| `FeedProofs` | the publisher's inductive invariant, the way of a message, its display, and matching | - |
| `FiniteInduction` | lemmas: induction over numbers and finite sets, sums, recursions | - |
| `PollTable` | capacity and allocated bytes of `sv_fds` | `server.cpp:20-47`, `266-293` |
| `MCBroker`, `MCFraming`, `MCFeed` | instances for TLC | - |

**A step of the server** is one branch of `start_server`, cut where the code blocks
(`Accept`, then the CONNECT packet), where it sends to one more subscriber
(`SendNotification`, `StopClient`) and where its loop goes round
(`ParseClientMessage`).  `pc` says between which cuts it is.  The order of the tests
in `start_server` is in the guards: `Accept` needs `~stdin`, `ReceiveDatagram` also an
empty accept queue, `StartRound` also an empty UDP queue.  `ready` is the set of
descriptors whose `revents` poll set; it does not change during the round although
queues do.

**The interrupted cases have steps of their own.**  `AcceptFails` (no descriptor left),
`ConnectEof` and `ClientEof` (recv returns 0 and the loop never ends),
`NotificationBadFd` (send on a closed descriptor returns -1, which the `size_t`
counters swallow), `NotificationSigpipe` and `StopSigpipe` (the peer has answered with
a reset), `ClientMessageDies` (an assertion of a handler).  `why` records which
of them ended or caught the server.

**A subscriber leaves in two steps.**  `handle_shutdown` sends SHUTDOWN_CLOSE (`Exit`) and
then shuts its socket down and closes it (`CloseAfterExit`).  In between, in phase
"leaving", the server may read the packet and end the session, forward a datagram to a
socket that is still open, or stop.  The repository's README has the subscriber wait for the
server's answer there; the code waits for nothing.

**Data.**  A packet is a record with its action and what its payload names.  A
record's topics are a bag, because `handle_subscribe` pushes a topic again and
`handle_unsubscribe` erases one copy.  Matching is a constant relation `Matches`, which
`MCBroker` takes from `TopicMatch` for the instance with a wildcard.
Datagrams carry their number of arrival so that equal ones stay apart.  One element of
`Clients` is one *run* of the program; `IdOf` gives runs their ids, so a restart or an
intruder is another run with the same id.

**The kernel**, as the code uses it: accept returns the lowest free descriptor; data sent
before an orderly close can still be read after it; closing with unread data, or a send to a
closed peer, leads to a reset; a send after the reset *may* raise SIGPIPE (the reset may
still be on its way, so success is possible too).  A reset overtakes data: what the
subscriber sent before it may be lost from its end on, packet by packet (`LoseToServer`),
down to its SHUTDOWN_CLOSE and its commands.  The other way round, a server that closes
before it has read everything resets the connection, and what it sent last may be lost
(`LoseToClient`), the SHUTDOWN_CLOSE of `shutdown_server` among it.

**History variables.**  `admitted`, `asked` and `dropped` record what happened, for the
properties; `lost` and `missed` keep the packets that a reset lost on the way to the server
and to a subscriber.  `aliased` becomes true when a connection is polled on a descriptor
that another record still carries.  Properties that the wrong lookups destroy are stated for
behaviours before that point, and say so; `SubscribeReachesItsOwner` shows what comes after
it.

**Bytes.**  In `Framing` a byte is its position in the stream; the receiver knows nothing of
positions except that the header of a packet gives the length of that packet (`LenField`:
bytes that are no header give any length).  `SendSome(k)` and `Recv(k)` are one turn of
a loop with the count the kernel chose.  The counters are numbers modulo `SizeT`, so
that `RecvError`, recv's -1 after a reset, moves them one byte the wrong way as it
does in the code; `RecvEof` is the loop that recv's 0 never lets end.  When `SenderEnds`
with a reset, any part of what is still on its way is lost.  The refinement mapping
counts the packets that send_tcp_packet has returned from (`put`), those not yet
returned by recv_tcp_packet (`queue`), and recognises each buffer that was returned as the
packet with these bytes (`taken`); a buffer that is no packet counts as 0 and breaks it.

**The abstract service.**  `PubSub` knows no descriptors, records, sockets or packets.  An
id gets a session when it has none, keeps its topics over sessions, and only with a session
changes them; a datagram is handed out, in one step, to every session that wants it and has
not left.  A run announces that it leaves (`Announce`) and leaves (`Leave`); its session
ends after the announcement, before or after it has left (`End`).  A run on its way out and
a server that has ended may lose the end of what was handed out (`Leave`, `Lose`, `Stop`),
never something in the middle.  The mapping (`BrokerService`) takes the runs that are polled
as those with a session, the bag in the id's record as its topics, the runs in phase
"leaving" or with a closed end as those that have announced it (`Ending`), and as handed out
what a run has shown, what is in its socket, and the datagram that
`send_packet_to_subscribers` still has to send to it (`Promised`): so the loop of sends is
one step of the service, although subscribers leave, print and type between two sends.  Once
two records share a descriptor (`aliased`) the service promises nothing.

**The way of a message.**  In `Feed` a payload is a sequence of cells: a sign byte, a
number, an exponent or a character.  `Publisher` is one run of `udp_client.py`: `ParseArgs`
with the types and defaults of its options, `SetupSocket`, and one turn of the loop of each
mode, cut between `sendto` and what follows it (`SendTo`, `FinishSend`), because an
exception there ends a run whose message is on its way.  `outcome` says how a run ended.
The network (`Arrive`) delivers anything that was sent, late, again or never.
`ReceiveDatagram` is a turn of `start_server`: clear the buffer, receive, parse, match, send
on; for an unknown type the length is uninitialised and any value is possible, one that
leaves the memory included (`ReceiveCrashes`).  `Display` is `parse_notification`, with the
wrap-around of INT and the rounding of FLOAT.  htonl and ntohl cancel out. `Cells` is what
`recvfrom` takes of a payload, one cell more than `PayloadArray`, the array
`notification.payload` that it is copied to: of a STRING all of them are copied, so that the
last one is written behind the array, and behind the block malloc was asked for.
`FeedTypeOK` says of what is sent on that only this byte, which is always NUL, lies outside.

`TopicMatch` compiles a pattern as the code does, character by character of the text with
its slashes, and compares with the levels that the comments speak of (`MatchesByLevels`).
A level may be empty (`/a`, `a//b`, the empty topic): a literal level and `*` match it, `+`
does not, because the comment's "any character that is not a slash" is at least one.
The comparison is about patterns whose levels are a wildcard or free of the characters that mean
something to `std::regex` (`WellFormed`, `SpecialCharacters`).

Definitions called `Name_Something` in the modules that model code are not the code: each is
`Name` with a bug somebody could have written, and exists so that a property can be seen to
notice it.

## 3. The runs

`framing` uses `MCFraming`, `feed` and `sender_address` use `MCFeed`, `poll_table` uses
`PollTable`, the others `MCBroker`.  Runs p1 and p3 are given the same id, p2 another one.

| Run | Instance | Shows | Distinct states |
|---|---|---|---|
| `sessions` | 3 runs, 2 descriptors, 4 commands, 1 datagram | `TypeOK`, `OneSessionPerId`, `LookupsSucceed`, `EofMeansCutOff`, `OnlyIntrudersLeak`, `OnlineMeansPolled`, `StuckSendMeansAliased`, `TopicsAccountedFor` | 3.0 M |
| `notify` | 3 runs, 3 descriptors, 2 topics, a wildcard, 2 commands, 2 datagrams | `NoUnsolicited`, `InOrderAndOnce`, `ForwardingServesAll`, `IsAPubSub` | 1.2 M |
| `progress` | 2 runs, p1 may be killed, 3 commands, 1 datagram, the operator | `StopEndsTheAdmitted`, `PacketsAreRead` under fairness, `IsAPubSub` | 0.2 M |
| `admission` | 3 runs, p2 may be killed, 2 commands, the operator | `StopReachesTheAdmitted`, `ConnectIsAnswered` under fairness | 0.19 M |
| `framing` | header of 2 bytes, 3 packets with payloads of 0, 1 or 4, buffers of 3 bytes, counters modulo 8 | `CountersMatchThePacket`, `IsAChannel`, `SendReturns`, `PacketsGetThrough` under fairness | 5.6 K |
| `feed` | 170 command lines, 26 patterns, 88 payloads, 2 sends, 2 arrivals | `PublisherTypeOK`, `FeedTypeOK`, `SentAsAsked`, `ShownAsPublished`, `ForwardedByLevels`; `BoundedRunsEnd`, `InterestingIsShown` under fairness | 0.25 M |
| `intruder` | violated: `IntrudersMeetAnOnlineUser` | who starts again right after his program has closed and gone is refused as an intruder, because the server has not read his goodbye yet | |
| `subscribe_owner` | violated: `SubscribeReachesItsOwner` | a subscription lands in another record | |
| `unsubscribe_dies` | violated: `UnsubscribedTopicIsHeld` | one unsubscription ends the server | |
| `stop_sigpipe` | violated: `StopEndsEverySubscriber` | the shutdown dies half way and leaves subscribers behind | |
| `sender_address` | violated: `SenderIsShown` | what is shown as the sender's address is the address family and the port | |
| `poll_table` | violated: `EntriesAreAllocated` | the 65th descriptor shrinks the array and lies behind its end | |

The last six check something a comment, the README or a test of the repository says
and the code does not do; PROJECT.json quotes the text.

**Why these bounds.**  Two runs of one id are a restart, or a session and its
intruder.  A third run with another id is needed for a wrong record to be somebody
else's.  Two descriptors force reuse with three runs, and running out of them.
The shortest way to a record that is online with a closed descriptor takes four commands
(subscribe, exit, exit, exit) and a datagram; `sessions` has exactly that.  Order
and duplication need two datagrams and two interested ids: `notify`.  `Patterns` has
a wildcard that matches both topics, so one record can match twice.  `EofMeansCutOff` is
checked where nobody is killed, so that it says that end of file is read only behind a
goodbye that a reset has lost.

**Resets in the properties.**  A subscriber that sends something the server never reads, and
is told to end by a server that then closes, may miss that packet: no program can exclude it
short of waiting for an answer. `StopReachesTheAdmitted`, `StopEndsTheAdmitted` and
`StopEndsEverySubscriber` excuse exactly this case (`CutOffUnread`), and
`TopicsAccountedFor` counts a lost command as one never read.

In `framing` a header can be cut in two, an empty payload skips the second loop, a payload of
4 fits neither with its header nor by itself into the buffers, and a short packet can
be on the wire together with the header of the next.  With `SizeT` = 8 a counter that goes
below 0 or past the packet wraps visibly.  Three packets let an error in one reach the two
behind it.

`IsAPubSub` is checked where two runs share an id and two datagrams pass (`notify`), and
again where a subscriber may be killed, the operator may stop the server and SIGPIPE may
end it (`progress`).

In `feed` numbers have four bits (`Word` = 16) of which a float keeps two (`FloatExact` =
4), so every INT and FLOAT there is can be sent, with rounding down, up and to even; strings
have up to three characters (`MaxString`), and there are shorter, exact, longer ones, and
one with a NUL inside.  Two arrivals are enough for one datagram to leave something in a
buffer for the next.  Topics have up to three levels of two names, one a prefix of the
other, and there are topics with an empty level first or last and the empty topic; patterns
have each wildcard in each place, alone and beside another. Command lines take each option
to and past its edges, one at a time, and each mode with an empty, a good, two flawed and an
unreadable file.  `poll_table` has the sizes of the code.

`MaxCmds` bounds the commands typed, `MaxDgrams` the datagrams that arrive; queues need no
bound of their own.  The system may stop (all programs ended), so deadlock
is not checked; that somebody waits for ever is what the liveness properties exclude.

**Fairness.**  `FairSpec` adds weak fairness of the server's step as a whole and of each
subscriber's own steps (`ClientStep`): the operating system schedules every
process, and each of these programs acts by itself when poll returns.  One condition for
the whole of `ServerStep` is enough, because its branches exclude each other except
where the kernel decides (success or SIGPIPE).  Typing, publishing, killing and
stopping the server have no fairness.  The number of datagrams is finite, so
the liveness results of the broker are about a server whose publishers pause: with an endless
stream of datagrams the code never reaches its subscribers' packets.

`FramingSpec` has weak fairness of the sender's loop and of the receiver's loop: two
processes, each scheduled, each blocked only while its buffer is full or empty.  Nobody is
obliged to send a packet, and the sender may end in any state.

`Feed` has weak fairness of the publisher's own steps, of the server's receive and of the
subscriber's display: three processes, each scheduled.  The network owes nothing,
nor does the user of manual mode: `BoundedRunsEnd` is about the modes that end by
themselves, `InterestingIsShown` about datagrams that have arrived.

## 4. The proofs

### The broker

`BrokerProofs` proves, for every set of runs, ids, patterns, topics and descriptors and
every choice of who may be killed, from the named assumptions on the constants only
(`SocketsAssumption`, `SubscriberAssumption`, `BrokerAssumption`), the following.  One thing
about the code is presupposed: that `sv_fds` lies in its own memory.  With up to 61 polled
connections it does; with more, `add_new_pollfd_struc` writes behind the array (`PollTable`,
the run `poll_table`), and what the program does then is not described by `Server`.

* `Invariance`: `Spec => []IInv`, the inductive invariant;
* `TypeCorrect`: `Spec => []TypeOK`;
* `OneSession`: `Spec => []OneSessionPerId`;
* `NoFailedLookup`: `Spec => []LookupsSucceed`.

`OneSessionPerId` is not inductive.  That two polled connections have different ids follows
from each having its id's *online* record on its own descriptor (`PolledHasRecord`) and
from ids having one record (`RecordsDistinct`).  `PolledHasRecord` survives
`handle_shutdown_sub` marking the wrong record offline for a reason worth knowing: the
wrong record carries the same descriptor number as the right one, and of all records
with that number only the leaving session's is behind a polled entry, so no other
session loses its record.  `PolledHasRecord` survives an accept because the
new descriptor is not polled (`CurIsFresh`) and no run has two places in the
kernel (`ConnectionsDistinct`).  That the new record's id is that of the run behind the
connection, and that there is an id at all in the packet that `check_and_add_new_sub` reads
without looking at its action, needs `FirstIsConnect`; and that one
`NothingBeforeConnect`.  Types are part of the invariant because `ForwardsADatagram` and
`FirstIsConnect` decide the type of what is forwarded and of the id that is read.

Each action has a lemma that it preserves `IInv`; actions that share their effect share
the lemma (`HaltInv`, `SpinInv`, `ControlKeepsInv`, `TakeKeepsInv`, `PollNewConnectionInv`).
`NextInv` puts them together.

`RecordProofs` goes on from `IInv` (its theorems are about the same `Spec`):

* `OnlyIntruders`: `Spec => []OnlyIntrudersLeak`.  Of a descriptor that is open, not polled and not
  being admitted it says two things.  That its run was never admitted comes from `AdmissionInv`: an
  admitted run is polled as long as its connection is open (`AdmittedPolled`), and does not wait
  in the accept queue a second time (`AdmittedOnce`).  That its id is that of an
  admitted run comes from `LeakInv`: it is the id of some record (`RefusedKnown`), every record is
  that of an admitted run (`RecordsKnown`), and `cur` is only set while the CONNECT packet
  is awaited (`CurOnlyConnecting`).
* `RecordInvariance`: `Spec => []RecordInv`, from which follow `OnlineIffPolled`
  (`OnlineMeansPolled`) and `StuckSendNeedsAlias` (`StuckSendMeansAliased`).
  `RecordInv` makes of `aliased`, which speaks of the past, a fact about the present
  (`RecordFdsDistinct`: distinct records have distinct descriptors); then the lookup by
  descriptor finds the right record, the one that leaves is the one marked offline
  (`OnlineIsPolled`), and the records that a datagram is sent to have open descriptors
  (`PendingAreOnline`).
* `NothingUnsolicited`: `Spec => []NoUnsolicited`.  `DeliveryInv` follows a subscription on
  its whole way: in the packet (`CommandsAsked`), in the record (`TopicsAsked`), among the
  interested (`PendingAsked`), in the subscriber's socket (`SentAsked`), on the screen.

`EndingProofs`:

* `ShutdownReaches`: `Spec => []StopReachesTheAdmitted`.  While the server serves, everybody
  admitted is polled or is on his way out (`AdmittedArePolled`, because whoever has sent a
  goodbye is leaving or gone, `GoodbyeMeansGoing`).  During the loop of `shutdown_server`
  everybody admitted has been told or is still to come (`ToBeTold`), and one that runs has
  its socket open (`RunningIsOpen`), so that what is sent gets into it.  Only a reset takes
  it out again, and only when the server's end was closed over unread packets
  (`CutOffIsClosed`); that is what `AllTold` keeps for the server that has exited.
* `EofNeedsACutOff`: `Spec => []EofMeansCutOff`.  Unless somebody was killed or a goodbye
  was lost, a socket whose other end is closed has a goodbye as its last packet while the
  server still means to read it (`LeavingHasSaid`), and what poll marked as ready has a
  packet (`ReadyHasPackets`).  That only the refused are told to go while the server serves
  (`SignalsMeant`) is needed because being told is the other way to close, and that whoever
  is polled was admitted (`PolledAreAdmitted`) to know that a polled run was not refused.

`OrderProofs`:

* `ShownInOrderAndOnce`: `Spec => []InOrderAndOnce`.  `OrderInv` orders the UDP socket
  (`ArrivalOrder`), the datagram that is being forwarded (`ForwardedIsNext`), the sockets and
  the screens (`ReachedIsOld`, `QueueOrder`).  Once per id needs that whoever
  is still to be served has not been reached under any of his runs
  (`PendingNotReached`), and that two runs of one id never have the same datagram
  (`ReachedOnce`).
* `NobodyIsLeftOut`: `Spec => ForwardingServesAll`, an action property: in the middle of
  the loop whoever wants the datagram is served or pending (`ServedOrPending`), also
  when two records share a descriptor.
* `TopicsAreAccountedFor`: `Spec => []TopicsAccountedFor`.  The count of a topic in a record
  is a sum over the admitted runs of its id, of what each has asked for less what still
  waits in its socket (`NetRead`).  Only a step that reads a packet changes a term, and then
  one term by one (`SumChanges`); an admission enlarges the set of runs that is summed over,
  which changes nothing because the server has read no command of a run that it has not
  admitted (`UnreadBefore`); a reset moves a packet from the queue to `lost` and changes no
  term, as neither was read (`LosingKeepsUnread`, `ResetsNet`); and the sum of a new record
  is empty because every admitted run already has a record of its id (`AdmittedHaveRecord`).

`ServiceProofs`:

* `BrokerIsAPubSub`: `Spec => IsAPubSub`, the refinement.  `StepIsServiceStep` says of each
  action which step of `PubSub` it is under the mapping of `BrokerService`:

  | Step of the programs | Step of the service |
  |---|---|
  | `Reconnect`, `AddNewSub` | `Begin` |
  | `HandleSubscribe`, `HandleUnsubscribe` | `Command` |
  | `HandleShutdownSub` | `End` |
  | `ReceiveDatagram` with all the sends after it | `Forward` |
  | `Publish` | `Arrive` |
  | `Exit` | `Announce` |
  | every step that closes a subscriber's end (`CloseAfterExit`, `Kill`, `ReceiveShutdown`, SIGPIPE) | `Leave` |
  | `LoseToClient` | `Lose` |
  | `ReadStdin`, and every step that ends or catches the server while it serves | `Stop` |
  | everything else, `SendNotification`, `ReceiveNotification` and `LoseToServer` among them | none |

  The last line is where the work is.  A send moves a datagram from `Promised` to the
  socket, and a display from the front of the socket to the screen, so the inbox stays as it
  is (`SendingIsHidden`, `ShowingIsHidden`); but only if the promised datagram goes to the
  end of a socket of notifications (`LeadingGrows`), and is promised to the run behind the
  record's descriptor and to nobody else, for which `RecordInv` is needed.  The refinement
  needs three facts more, `ServiceInv`: nobody is pending outside the loop of sends
  (`NothingPending`), so nothing is promised elsewhere; a run's phase, its end and the
  server's end of its connection agree (`EndsAgree`), so that whom the service hands a
  datagram to, the sessions that have not left, are those the code finds and whose socket is
  open (`WantedAreFound`), and that a session whose goodbye is read belongs to a run in
  phase "leaving" or closed, which has announced it; and that only admitted runs have been
  given anything (`GivenToAdmitted`), so that a reset takes from the inbox of nobody but the
  leaving while the server serves.  What a leaving run, a reset or an ending server loses is
  the end of an inbox because shown, in the socket and promised follow each other in that
  order (`BeginningIsPrefix`).  After `aliased` every step is the step of the service that
  promises nothing.

### The framing

`FramingProofs` proves, from `FramingAssumption` only (a header has a byte, and a header
with any payload and one byte more is smaller than `SizeT`), for all sizes of
header, payloads, buffers and `size_t` and any number of packets:

* `FramingInvariance`: `FramingSpec => []FInv`;
* `FramingCountersCorrect`: `FramingSpec => []CountersMatchThePacket`;
* `LoopsAreAChannel`: `FramingSpec => IsAChannel`, the refinement of `PacketChannel`.

`IsAChannel` says nothing of the middle of a packet, so the invariant has to.  `WireInv`
places the receiver: after the packets it has returned and the bytes in its buffer comes the
first byte on the wire, and the last one on the wire is the last one sent, unless a reset
lost some.  `SenderInv` and `ReceiverInv` tie the counters to these places: what has been
done and what remains make up the packet, and `bytes_received` is the length of what is in
the buffer.  With the types, that the counters are numbers below `SizeT` and no packet
reaches it, this gives `CountersMatchThePacket`.  The receiver's tie is given up once
nothing can arrive any more and the reset has been reported (`Exhausted`), because
`RecvError` breaks it; the proof shows that no byte is ever counted after that.  `GotInv` is
the result: the buffers returned are the packets sent.  That a returned packet was complete
(`ReturnedAreComplete`) follows because the bytes sent end inside a packet that is being
sent; that buffers are recognised (`Numbers`) because packets start at different positions.
The refinement then has three kinds of steps (`PutStep`, `TakeStep`, `StutterStep`), and
`StepIsChannelStep` sorts the actions into them.

### The publisher, the display and matching

`FeedProofs` proves, for every command line and input file, every topic and payload, all widths
of numbers and strings and however many datagrams are lost, repeated and reordered:

* `PublisherInvariance`: `Spec => []PubInv`;
* `PublisherTypeCorrect`: `Spec => []PublisherTypeOK`;
* `ModesAreKept`: `Spec => []SentAsAsked`;
* `IntIsShown` and `ContentsAreMeant`, on the conversions alone;
* `FeedInvariance`: `Spec => []FeedInv`;
* `ShownWasPublished`: `Spec => []ShownAsPublished`;
* `FeedTypeCorrect`: `Spec => []FeedTypeOK`;
* `MatchesTheLevels`, on `matches_topic` alone;
* `ForwardingIsByLevels`: `Spec => ForwardedByLevels`, an action property.

The assumptions are `PublisherAssumption`, `NamespaceAssumption`, `FeedAssumption` (what is
sent has levels without slashes in them, and cells that are smaller than `Word`) and
`NotificationAssumption`.  That one holds of the code's numbers: 2^32 is even and not more than
256 times 2^24, and a mantissa has an even number of values; without the first of these INT
would have no sign bit, without the second a number could need a spacing of floats that
`RoundToFloat` does not have.

**The publisher.**  `SentAsAsked` compares `sent` with `count`, which are apart while
`send_message` is behind its `sendto`; `Counted` says in which phases and by how much, and
for a run that has ended it keeps both possibilities.  `AllOnce`, `Manual` and `Random` are
the loops' own bounds; `ArgsTyped` and `PortTyped` carry the types of the options, with the
default 0 of the source port, from `ParseArgs` to `SetupSocket`.

**The way of a message.**  `FeedInv` traces what waits in the UDP socket, what waits for the
subscriber and what has been printed each to a datagram that was given to `sendto`
(`WasSent`): the arrival *is* that datagram, the packet's payload is one that
`parse_udp_packet` can cut out of a buffer that was clear before that datagram
(`SentPayloads`), and the line is what `parse_notification` makes of such a payload.  That
a line says what its datagram means is then a fact about the conversions
(`ContentsAreMeant`): the buffer holds the payload and zeros behind it (`BufferFacts`), a
string ends at its first NUL or at the end of the array (`StringCut`), and a FLOAT is off by at
most half a spacing, which is at most one part in `FloatExact` (`RoundedNear`).

**Matching.**  `MatchesTheLevels` relates two recursions, one over the characters of a pattern and
one over its levels.  A text has a *layout* (`LayoutExists`): the positions at which its
levels begin and end, with exactly one slash between an end and the next beginning.  The
theorem's induction says: what the expression can have matched when level k of the
pattern is through is exactly the ends of the levels of the topic that k levels can have
matched.  For `+` and for a literal the text in between has no slash, and a slash or the end of
both texts follows, so it is one whole level (`PlusEnds`, `WordEnds`, `SlashBegins`); after `*` the
expression may stand inside a level, but the slash of the pattern that follows, or the
end, brings it back to a boundary (`StarEnds`).

**Induction.**  `FiniteInduction` has what these proofs recur with.  The induction theorems
of the library take a predicate, which the provers cannot instantiate; here its place is
taken by the *set* of the numbers, or of the finite sets, for which it holds
(`InductiveSet`, `InductiveSubsets`).  From these two: that a recursion defines a function
with the values it says (`RecursionExists`), and how `SumFunctionOnSet` changes with one
term or one more element.  `InductiveSet` itself is proved from finiteness: if it failed for
some number, the numbers below the failure would be a finite set with an injection into
itself that is not onto.

**What the proofs corrected.**  Two definitions on the property side were found wrong when the
proofs did not go through, although no run had noticed.  `IsMeant` used to say that a string ends at
the first NUL of its datagram, which is false of one whose first NUL lies beyond the array: now it
ends there or at `MaxString`.  `MatchesByLevels` used to let `+` match an empty level, which the
expression `[^/]+` does not; no topic of the instance had one, now some do.

### Not proved

The liveness properties (`StopEndsTheAdmitted`, `PacketsAreRead`, `ConnectIsAnswered`,
`SendReturns`, `PacketsGetThrough`, `BoundedRunsEnd`, `InterestingIsShown`) are model-checked only:
liveness under fairness needs `ENABLED`, which is out of TLAPS's reach.  All other
properties that the passing runs check are theorems.

The theorems say nothing of the six properties that the code violates.

## 5. What is not modelled

* The layout of a packet's bytes; that `len` is an `int`, and what a negative one would do.
  (Partial sends and receives are in `Framing`; everywhere else a packet is whole.)
* Characters with a meaning in a regular expression other than `+`, `*` and `.`
  (`SpecialCharacters` without these), patterns that are no valid expression and make the
  constructor throw, and line ends in a topic, which no `.` matches.
* What happens in memory behind an array: the byte behind a full STRING (`Notification` says
  where it goes, and that it is NUL), a length that was never initialised beyond the choice
  of a value or a crash, and `sv_fds` with more than 61 connections, where `PollTable` ends
  at the fact.
* The decoding of base64 and JSON in `udp_client.py`, beyond its success or failure.
* Bounded socket buffers in the broker: sends do not block there, only in `Framing`.  So
  the server that waits for a subscriber who waits for the server is not in the model.
* Starvation by an endless stream of datagrams.
* A reset that lets part of a packet through: in the broker it loses whole packets, in
  `Framing` bytes.
* Memory that is allocated for every packet and never freed.
* Commands the subscriber does not understand, end of its standard input, ids longer than
  three characters and topics longer than fifty.
* Socket setup of the server and the subscriber, beyond its outcome; output and logging.
* `test.py`, build files.

## 6. Plan

Done: the broker with its properties, the abstract service and the proof of the
refinement; the framing with its refinement and the proof of it; the publisher, matching and
notifications with theirs; the poll table.

What could come next:

1. The numbers behind liveness: variants that bound how many steps of the server a round, a
   shutdown or a datagram takes.  They are safety properties and can be proved; with them the
   liveness runs would rest on fairness alone.
2. Bounded socket buffers in `Sockets`: who waits for whom, and under which conditions the
   server and a subscriber wait for each other.
3. In `TopicMatch` further characters of regular expressions, and the exception that an
   invalid one throws.
