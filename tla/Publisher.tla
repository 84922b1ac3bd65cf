----------------------------- MODULE Publisher -----------------------------
(***************************************************************************)
(* udp_client.py and utils/unpriv_port.py: one run of the UDP client, from *)
(* its command line to its end.  A Python exception that nobody catches    *)
(* ends the run; `outcome` says which.  What is sent stays in `sent`, from *)
(* which the network delivers, or not, what it likes.                      *)
(*                                                                         *)
(* A definition called Name_Something is not the code: it is Name with a   *)
(* bug somebody could have written.                                        *)
(***************************************************************************)
EXTENDS Integers, Sequences, SequencesExt

CONSTANTS
  CommandLines, \* the command lines given, see CommandLine
  Payloads,     \* what can be encoded as payload_base64
  Ephemeral,    \* ports the kernel chooses from when none is asked for
  Bad,          \* a text that is no value of the type asked for
  Absent,       \* an option that is not given
  MaxSends      \* bound: messages sent in the modes without an end of their own

Modes == {"all_once", "manual", "random"}

\* An element of the input file.  Its description is only ever printed: what
\* matters is whether there is one.
Messages == [payload : Payloads \cup {Bad}, described : BOOLEAN]

\* sys.argv, each argument as the value it denotes.
CommandLine ==
  [server_ip : {"IPv4", "IPv6", Bad}, server_port : Int \cup {Bad},
   source_address : {"local", "remote", Bad, Absent}, source_port : Int \cup {Bad, Absent},
   input_file : Seq(Messages) \cup {Bad}, mode : Modes \cup {Bad, Absent},
   count : Int \cup {Bad, Absent}, delay : Int \cup {Bad, Absent}]

\* unpriv_port.py
MIN_VALUE == 1024
MAX_VALUE == 65535

ASSUME PublisherAssumption ==
  /\ CommandLines \subseteq CommandLine
  /\ Ephemeral \subseteq MIN_VALUE .. MAX_VALUE
  /\ MaxSends \in Nat
  /\ Bad \notin Int /\ Absent \notin Int /\ Bad # Absent

VARIABLES
  ppc,      \* where the run is, see PublisherPhases
  outcome,  \* how it ended, "" while it has not
  args,     \* the Namespace that parse_args returned
  port,     \* the port the socket is bound to
  count,    \* messages that the loop is done with (in manual mode only a history)
  chosen,   \* history: the offered numbers typed in manual mode
  sent      \* history: indices in the input file, as given to sendto

pubVars == <<ppc, outcome, args, port, count, chosen, sent>>

\* "setup": arguments parsed; "loop": at the head of the loop of the mode;
\* "sent": in send_message, sendto has returned.
PublisherPhases == {"start", "setup", "loop", "sent", "ended"}

\* "done" is a normal end, the others name what failed.
Outcomes == {"", "done", "usage", "bind", "options", "input", "choice",
             "decode", "sendto", "description", "delay", "interrupt"}

PublisherInit ==
  /\ ppc = "start" /\ outcome = "" /\ args = Absent /\ port = Absent
  /\ count = 0 /\ chosen = <<>> /\ sent = <<>>

PublisherEnds(o) == ppc' = "ended" /\ outcome' = o

-----------------------------------------------------------------------------
\* Variant: the lower limit is forgotten.
UnprivilegedPortType_NoMinimum(value) == value # Bad /\ value <= MAX_VALUE

\* unprivileged_port_type does not raise ValueError.
UnprivilegedPortType(value) == value # Bad /\ value >= 1024 /\ value <= MAX_VALUE

\* The range that the help text names.
UnprivilegedPortMeta == MIN_VALUE .. MAX_VALUE

\* What setup_parser declares: parse_args returns.  Whatever a type function
\* raises, a missing file included, becomes parser.error.
ArgumentsAccepted(c) ==
  /\ c.server_ip # Bad /\ UnprivilegedPortType(c.server_port)
  /\ c.source_address # Bad
  /\ c.source_port # Absent => UnprivilegedPortType(c.source_port)
  /\ c.input_file # Bad /\ c.mode # Bad /\ c.count # Bad /\ c.delay # Bad

OrDefault(value, default) == IF value = Absent THEN default ELSE value

\* The Namespace; the default port 0 is not put through the type.
ParsedArgs(c) ==
  [server_ip |-> c.server_ip, server_port |-> c.server_port,
   source_address |-> OrDefault(c.source_address, "local"),
   source_port |-> OrDefault(c.source_port, 0), input_file |-> c.input_file,
   mode |-> OrDefault(c.mode, "all_once"), count |-> c.count, delay |-> OrDefault(c.delay, 0)]

\* A Namespace is not taken for none.
ASSUME NamespaceAssumption == \A c \in CommandLines : ParsedArgs(c) # Absent

ParseArgs ==
  /\ ppc = "start"
  /\ \E c \in CommandLines :
       \/ ArgumentsAccepted(c) /\ args' = ParsedArgs(c) /\ ppc' = "setup" /\ UNCHANGED outcome
       \/ ~ArgumentsAccepted(c) /\ PublisherEnds("usage") /\ UNCHANGED args
  /\ UNCHANGED <<port, count, chosen, sent>>

\* What comes before the first turn of a loop: run_manual lists the options.
StartMode ==
  IF args.mode = "manual" /\ \E i \in DOMAIN args.input_file : ~args.input_file[i].described
  THEN PublisherEnds("options")
  ELSE ppc' = "loop" /\ UNCHANGED outcome

\* bind on a socket of family AF_INET; port 0 lets the kernel choose.
SetupSocket ==
  /\ ppc = "setup" /\ args.source_address = "local"
  /\ port' \in IF args.source_port = 0 THEN Ephemeral ELSE {args.source_port}
  /\ StartMode
  /\ UNCHANGED <<args, count, chosen, sent>>

\* The port is taken, or the address is not one of this host.
SetupFails ==
  /\ ppc = "setup" /\ PublisherEnds("bind")
  /\ UNCHANGED <<args, port, count, chosen, sent>>

-----------------------------------------------------------------------------
Message(i) == args.input_file[i + 1]
Indices == 0 .. Len(args.input_file) - 1

\* send_message up to sendto.  sendto may fail, and does when the address is
\* one of IPv6, as the socket is not.
SendTo(i) ==
  \/ /\ Message(i).payload = Bad
     /\ PublisherEnds("decode") /\ UNCHANGED sent
  \/ /\ Message(i).payload # Bad
     /\ PublisherEnds("sendto") /\ UNCHANGED sent
  \/ /\ Message(i).payload # Bad /\ args.server_ip = "IPv4"
     /\ sent' = Append(sent, i)
     /\ ppc' = "sent" /\ UNCHANGED outcome

\* Variant: the loop of run_random forgets to count.
FinishSend_Uncounted ==
  /\ ppc = "sent"
  /\ IF ~Message(Last(sent)).described THEN PublisherEnds("description") /\ UNCHANGED count
     ELSE IF args.delay < 0 THEN PublisherEnds("delay") /\ UNCHANGED count
     ELSE ppc' = "loop" /\ count' = (IF args.mode = "random" THEN count ELSE count + 1) /\ UNCHANGED outcome
  /\ UNCHANGED <<args, port, chosen, sent>>

\* The rest of send_message: the message is reported and the delay slept, both
\* after it was sent, and the loop goes on.
FinishSend ==
  /\ ppc = "sent"
  /\ IF ~Message(Last(sent)).described THEN PublisherEnds("description") /\ UNCHANGED count
     ELSE IF args.delay < 0 THEN PublisherEnds("delay") /\ UNCHANGED count
     ELSE ppc' = "loop" /\ count' = count + 1 /\ UNCHANGED outcome
  /\ UNCHANGED <<args, port, chosen, sent>>

RunAllOnce ==
  /\ ppc = "loop" /\ args.mode = "all_once"
  /\ IF count < Len(args.input_file) THEN SendTo(count)
                                     ELSE PublisherEnds("done") /\ UNCHANGED sent
  /\ UNCHANGED <<args, port, count, chosen>>

\* Variant: only the upper limit is tested; Python counts -1 from the end.
RunManual_Negative(choice) ==
  /\ ppc = "loop" /\ args.mode = "manual" /\ Len(sent) < MaxSends
  /\ chosen' = IF choice \in Indices THEN Append(chosen, choice) ELSE chosen
  /\ IF choice < Len(args.input_file) /\ choice + Len(args.input_file) >= 0
     THEN SendTo(choice % Len(args.input_file))
     ELSE UNCHANGED <<ppc, outcome, sent>>
  /\ UNCHANGED <<args, port, count>>

\* The user types a number; one that is not offered is asked for again.
RunManual(choice) ==
  /\ ppc = "loop" /\ args.mode = "manual" /\ Len(sent) < MaxSends
  /\ chosen' = IF choice \in Indices THEN Append(chosen, choice) ELSE chosen
  /\ IF choice \in Indices THEN SendTo(choice) ELSE UNCHANGED <<ppc, outcome, sent>>
  /\ UNCHANGED <<args, port, count>>

\* The user types "exit", or something that int() does not take, or nothing
\* more can be read.
ManualEnds ==
  /\ ppc = "loop" /\ args.mode = "manual"
  /\ \E o \in {"done", "input"} : PublisherEnds(o)
  /\ UNCHANGED <<args, port, count, chosen, sent>>

\* random.choice raises on an empty list; without --count there is no end.
RunRandom ==
  /\ ppc = "loop" /\ args.mode = "random"
  /\ IF args.count # Absent /\ count >= args.count THEN PublisherEnds("done") /\ UNCHANGED sent
     ELSE IF args.input_file = <<>> THEN PublisherEnds("choice") /\ UNCHANGED sent
     ELSE Len(sent) < MaxSends /\ \E i \in Indices : SendTo(i)
  /\ UNCHANGED <<args, port, count, chosen>>

\* Ctrl-C, between any two of these steps.
Interrupt ==
  /\ ppc # "ended" /\ PublisherEnds("interrupt")
  /\ UNCHANGED <<args, port, count, chosen, sent>>

\* What the program does by itself, and what its user does.
PublisherStep == ParseArgs \/ SetupSocket \/ SetupFails \/ RunAllOnce \/ RunRandom \/ FinishSend
TerminalStep == (\E choice \in -1 .. MaxSends : RunManual(choice)) \/ ManualEnds \/ Interrupt

-----------------------------------------------------------------------------
\* Types; the port that is bound is one the help text names.
PublisherTypeOK ==
  /\ ppc \in PublisherPhases /\ outcome \in Outcomes
  /\ ppc = "ended" <=> outcome # ""
  /\ ppc \in {"setup", "loop", "sent"} => args # Absent
  /\ port # Absent => port \in UnprivilegedPortMeta
  /\ count \in Nat /\ chosen \in Seq(Nat) /\ sent \in Seq(Nat)
  /\ args # Absent => \A k \in DOMAIN sent : sent[k] \in Indices

\* The help text of --mode: all_once sends "each payload in the list once", in
\* its order; manual sends what was chosen, as often as it was; random sends
\* --count payloads.  A run that fails has sent a beginning of that, and has
\* reported all it has sent but the last (send_message sends before it prints).
SentAsAsked ==
  args # Absent =>
    CASE args.mode = "all_once" ->
           /\ sent = [k \in 1 .. Len(sent) |-> k - 1]
           /\ Len(sent) - count \in {0, 1}
           /\ outcome = "done" => Len(sent) = Len(args.input_file)
      [] args.mode = "manual" ->
           /\ sent = IF outcome \in {"decode", "sendto"} THEN Front(chosen) ELSE chosen
           /\ Len(sent) - count \in {0, 1}
      [] args.mode = "random" ->
           /\ Len(sent) - count \in {0, 1}
           /\ args.count # Absent =>
                /\ sent = <<>> \/ Len(sent) <= args.count
                /\ outcome = "done" => Len(sent) = count /\ count >= args.count

\* A run with a given amount of work ends, whatever fails (all_once, and
\* random with --count).
BoundedRunsEnd ==
  (ppc = "setup" /\ (args.mode = "all_once" \/ (args.mode = "random" /\ args.count # Absent)))
    ~> ppc = "ended"
=============================================================================
