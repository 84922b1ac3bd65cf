----------------------------- MODULE FeedProofs -----------------------------
(***************************************************************************)
(* What is proved about the way of a message, for every input file,        *)
(* command line, topic and payload: the types of the UDP client, and that  *)
(* it sends what its mode says; that what is displayed is what the bytes   *)
(* mean and was published; and that the regular expression of a pattern    *)
(* accepts the topics whose levels match.                                  *)
(***************************************************************************)
EXTENDS Feed, FiniteInduction, SequenceTheorems

\* PublisherTypeOK in three parts: where the run is, ...
PhaseTyped ==
  /\ ppc \in PublisherPhases /\ outcome \in Outcomes
  /\ ppc = "ended" <=> outcome # ""
  /\ ppc \in {"setup", "loop", "sent"} => args # Absent

\* ... what it has done, ...
HistoryTyped == count \in Nat /\ chosen \in Seq(Nat) /\ sent \in Seq(Nat)

\* ... and what its arguments allow.
SentFromFile == args # Absent => \A k \in DOMAIN sent : sent[k] \in Indices

\* The parsed arguments have the types that setup_parser gives them.
ArgsTyped ==
  args # Absent =>
    /\ args.input_file \in Seq(Messages)
    /\ args.mode \in Modes
    /\ args.count \in Int \cup {Absent}
    /\ args.delay \in Int

PortTyped ==
  /\ args # Absent => args.source_port = 0 \/ args.source_port \in UnprivilegedPortMeta
  /\ port # Absent => port \in UnprivilegedPortMeta

\* Nothing is sent before there are arguments and a socket.
Idle ==
  ppc \in {"start", "setup"} \/ args = Absent => sent = <<>> /\ chosen = <<>> /\ count = 0

\* What the loop is done with is all that was sent, but for the message that
\* send_message is about to report.
Counted ==
  /\ ppc = "loop" => Len(sent) = count
  /\ ppc = "sent" => Len(sent) = count + 1
  /\ ppc = "ended" => Len(sent) = count \/ Len(sent) = count + 1

\* The modes, each with the bound that its loop keeps.
AllOnce ==
  args # Absent /\ args.mode = "all_once" =>
    /\ \A k \in 1 .. Len(sent) : sent[k] = k - 1
    /\ Len(sent) <= Len(args.input_file)
    /\ outcome = "done" => Len(sent) = Len(args.input_file)

Manual ==
  args # Absent /\ args.mode = "manual" =>
    sent = IF outcome \in {"decode", "sendto"} THEN Front(chosen) ELSE chosen

Random ==
  args # Absent /\ args.mode = "random" /\ args.count # Absent =>
    /\ sent = <<>> \/ Len(sent) <= args.count
    /\ outcome = "done" => Len(sent) = count /\ count >= args.count

\* The inductive invariant.
PubInv ==
  /\ PhaseTyped /\ HistoryTyped /\ SentFromFile /\ ArgsTyped /\ PortTyped
  /\ Idle /\ Counted /\ AllOnce /\ Manual /\ Random

-----------------------------------------------------------------------------
\* The parts are the type invariant of the runs.
LEMMA TypesTogether ==
  PublisherTypeOK <=> /\ PhaseTyped /\ HistoryTyped /\ SentFromFile
                      /\ port # Absent => port \in UnprivilegedPortMeta
  BY DEF PublisherTypeOK, PhaseTyped, HistoryTyped, SentFromFile

\* While nothing was sent, there is nothing to say of what was sent.
NothingYet ==
  /\ sent = <<>> /\ chosen = <<>> /\ count = 0 /\ ArgsTyped
  /\ outcome \notin {"done", "decode", "sendto"}

\* Then everything that is said of what was sent holds.
LEMMA NothingSent ==
  ASSUME NothingYet
  PROVE  HistoryTyped /\ SentFromFile /\ Idle /\ AllOnce /\ Manual /\ Random
<1>1. Len(sent) = 0 /\ DOMAIN sent = {} /\ 1 .. Len(sent) = {}
  BY DEF NothingYet
<1>2. args # Absent => Len(args.input_file) \in Nat
  BY DEF ArgsTyped, NothingYet
<1>3. HistoryTyped /\ Idle /\ Manual
  BY DEF NothingYet, HistoryTyped, Idle, Manual
<1>4. SentFromFile
  BY <1>1 DEF SentFromFile
<1>5. AllOnce
  BY <1>1, <1>2 DEF AllOnce, NothingYet
<1>6. Random
  BY DEF Random, NothingYet
<1> QED  BY <1>3, <1>4, <1>5, <1>6

\* The same of the next state.
LEMMA NothingSentNext ==
  ASSUME NothingYet'
  PROVE  (HistoryTyped /\ SentFromFile /\ Idle /\ AllOnce /\ Manual /\ Random)'
  BY NothingSent, PTL

\* The initial state.
LEMMA PubInit == Init => PubInv
<1> SUFFICES ASSUME Init PROVE PubInv
  OBVIOUS
<1>1. ArgsTyped /\ PortTyped /\ PhaseTyped
  BY DEF Init, PublisherInit, ArgsTyped, PortTyped, PhaseTyped, PublisherPhases, Outcomes
<1>2. HistoryTyped /\ SentFromFile /\ Idle /\ AllOnce /\ Manual /\ Random
  BY <1>1, NothingSent DEF Init, PublisherInit, NothingYet
<1>3. Counted
  BY DEF Init, PublisherInit, Counted
<1> QED  BY <1>1, <1>2, <1>3 DEF PubInv

\* The steps of the others leave the client alone.
LEMMA PubUnchanged == ASSUME PubInv, UNCHANGED pubVars PROVE PubInv'
<1>1. (PhaseTyped /\ HistoryTyped /\ SentFromFile)'
  BY DEF pubVars, PubInv, PhaseTyped, HistoryTyped, SentFromFile, Indices
<1>2. (ArgsTyped /\ PortTyped)'
  BY DEF pubVars, PubInv, ArgsTyped, PortTyped
<1>3. (Idle /\ Counted)'
  BY DEF pubVars, PubInv, Idle, Counted
<1>4. (AllOnce /\ Manual /\ Random)'
  BY DEF pubVars, PubInv, AllOnce, Manual, Random
<1> QED  BY <1>1, <1>2, <1>3, <1>4 DEF PubInv

\* An end that sends nothing and is not "done" keeps the invariant, whatever
\* fails: also Interrupt, and bind in SetupFails.
LEMMA PubFails ==
  ASSUME PubInv, ppc # "ended", NEW o \in Outcomes \ {"", "done", "decode", "sendto"},
         PublisherEnds(o), UNCHANGED <<args, port, count, chosen, sent>>
  PROVE  PubInv'
<1>0. ppc' = "ended" /\ outcome' = o /\ outcome = ""
  BY DEF PublisherEnds, PubInv, PhaseTyped
<1>1. (PhaseTyped /\ HistoryTyped /\ SentFromFile)'
  BY <1>0 DEF PubInv, PhaseTyped, HistoryTyped, SentFromFile, Indices, PublisherPhases
<1>2. (ArgsTyped /\ PortTyped)'
  BY DEF PubInv, ArgsTyped, PortTyped
<1>3. Idle'
  BY <1>0 DEF PubInv, Idle
<1>4. Counted'
  BY <1>0 DEF PubInv, Counted, Idle, PhaseTyped, PublisherPhases
<1>5. (AllOnce /\ Manual /\ Random)'
  BY <1>0 DEF PubInv, AllOnce, Manual, Random
<1> QED  BY <1>1, <1>2, <1>3, <1>4, <1>5 DEF PubInv

\* The arguments of an accepted command line have their types.
LEMMA ParsedArgsTyped ==
  ASSUME NEW c \in CommandLines, ArgumentsAccepted(c)
  PROVE  /\ ParsedArgs(c) # Absent
         /\ ParsedArgs(c).input_file \in Seq(Messages)
         /\ ParsedArgs(c).mode \in Modes
         /\ ParsedArgs(c).count \in Int \cup {Absent}
         /\ ParsedArgs(c).delay \in Int
         /\ ParsedArgs(c).source_port = 0 \/ ParsedArgs(c).source_port \in UnprivilegedPortMeta
<1>1. c \in CommandLine
  BY PublisherAssumption
<1>2. ParsedArgs(c) # Absent
  BY NamespaceAssumption
<1>3. ParsedArgs(c).input_file \in Seq(Messages)
  BY <1>1 DEF CommandLine, ArgumentsAccepted, ParsedArgs
<1>4. ParsedArgs(c).mode \in Modes
  BY <1>1 DEF CommandLine, ArgumentsAccepted, ParsedArgs, OrDefault, Modes
<1>5. ParsedArgs(c).count \in Int \cup {Absent} /\ ParsedArgs(c).delay \in Int
  BY <1>1 DEF CommandLine, ArgumentsAccepted, ParsedArgs, OrDefault
<1>6. ParsedArgs(c).source_port = 0 \/ ParsedArgs(c).source_port \in UnprivilegedPortMeta
  <2>1. ParsedArgs(c).source_port = OrDefault(c.source_port, 0)
    BY DEF ParsedArgs
  <2>2. c.source_port # Absent => UnprivilegedPortType(c.source_port)
    BY DEF ArgumentsAccepted
  <2>3. c.source_port \in Int \cup {Bad, Absent}
    BY <1>1 DEF CommandLine
  <2>4. CASE c.source_port = Absent
    BY <2>1, <2>4 DEF OrDefault
  <2>5. CASE c.source_port # Absent
    <3>1. c.source_port \in Int /\ c.source_port >= MIN_VALUE /\ c.source_port <= MAX_VALUE
      BY <2>2, <2>3, <2>5 DEF UnprivilegedPortType, MIN_VALUE
    <3>2. MIN_VALUE \in Int /\ MAX_VALUE \in Int
      BY DEF MIN_VALUE, MAX_VALUE
    <3>3. c.source_port \in UnprivilegedPortMeta
      BY <3>1, <3>2 DEF UnprivilegedPortMeta
    <3> QED  BY <2>1, <2>5, <3>3 DEF OrDefault
  <2> QED  BY <2>4, <2>5
<1> QED  BY <1>2, <1>3, <1>4, <1>5, <1>6

\* argparse accepts the command line.
LEMMA PubParseArgs == ASSUME PubInv, ParseArgs PROVE PubInv'
<1>0. sent = <<>> /\ chosen = <<>> /\ count = 0 /\ ppc = "start" /\ outcome = ""
  BY DEF PubInv, Idle, ParseArgs, PhaseTyped
<1>1. CASE \E c \in CommandLines : ~ArgumentsAccepted(c) /\ PublisherEnds("usage") /\ UNCHANGED args
  BY <1>0, <1>1, PubFails DEF ParseArgs, Outcomes
<1>2. CASE \E c \in CommandLines :
             ArgumentsAccepted(c) /\ args' = ParsedArgs(c) /\ ppc' = "setup" /\ UNCHANGED outcome
  <2>1. PICK c \in CommandLines :
               ArgumentsAccepted(c) /\ args' = ParsedArgs(c) /\ ppc' = "setup" /\ UNCHANGED outcome
    BY <1>2
  <2>2. /\ args' # Absent /\ args' = ParsedArgs(c) /\ ppc' = "setup" /\ outcome' = ""
        /\ UNCHANGED <<port, count, chosen, sent>>
    BY <1>0, <2>1, ParsedArgsTyped DEF ParseArgs
  <2>3. ArgsTyped'
    BY <2>1, <2>2, ParsedArgsTyped DEF ArgsTyped
  <2>4. PortTyped'
    BY <2>1, <2>2, ParsedArgsTyped DEF PortTyped, PubInv
  <2>5. (PhaseTyped /\ Counted)'
    BY <2>2 DEF PhaseTyped, Counted, PublisherPhases, Outcomes
  <2>6. (HistoryTyped /\ SentFromFile /\ Idle /\ AllOnce /\ Manual /\ Random)'
    BY <1>0, <2>2, <2>3, NothingSentNext DEF NothingYet
  <2> QED  BY <2>3, <2>4, <2>5, <2>6 DEF PubInv
<1> QED  BY <1>1, <1>2 DEF ParseArgs

\* The port that is bound is in the range that the help text names.
LEMMA PubSetupSocket == ASSUME PubInv, SetupSocket PROVE PubInv'
<1>0. /\ sent = <<>> /\ chosen = <<>> /\ count = 0 /\ outcome = "" /\ args # Absent
      /\ UNCHANGED <<args, count, chosen, sent>>
  BY DEF PubInv, Idle, SetupSocket, PhaseTyped
<1>1. port' \in UnprivilegedPortMeta
  <2>1. args.source_port = 0 \/ args.source_port \in UnprivilegedPortMeta
    BY <1>0 DEF PubInv, PortTyped
  <2>2. port' \in IF args.source_port = 0 THEN Ephemeral ELSE {args.source_port}
    BY DEF SetupSocket
  <2>3. Ephemeral \subseteq UnprivilegedPortMeta
    BY PublisherAssumption DEF UnprivilegedPortMeta
  <2> QED  BY <2>1, <2>2, <2>3
<1>2. \/ ppc' = "ended" /\ outcome' = "options"
      \/ ppc' = "loop" /\ outcome' = ""
  BY <1>0 DEF SetupSocket, StartMode, PublisherEnds
<1>3. PhaseTyped'
  BY <1>0, <1>2 DEF PhaseTyped, PublisherPhases, Outcomes
<1>4. (ArgsTyped /\ PortTyped)'
  BY <1>0, <1>1 DEF PubInv, ArgsTyped, PortTyped
<1>5. Counted'
  BY <1>0, <1>2 DEF Counted
<1>6. (HistoryTyped /\ SentFromFile /\ Idle /\ AllOnce /\ Manual /\ Random)'
  BY <1>0, <1>2, <1>4, NothingSentNext DEF NothingYet
<1> QED  BY <1>3, <1>4, <1>5, <1>6 DEF PubInv

-----------------------------------------------------------------------------
\* The end of a list with one more element, and what Front leaves of it.
LEMMA Appended ==
  ASSUME NEW s \in Seq(Nat), NEW x \in Nat
  PROVE  /\ Append(s, x) \in Seq(Nat) /\ Len(Append(s, x)) = Len(s) + 1
         /\ Front(Append(s, x)) = s
         /\ \A k \in 1 .. Len(s) : Append(s, x)[k] = s[k]
         /\ Append(s, x)[Len(s) + 1] = x
         /\ \A k \in DOMAIN Append(s, x) :
              (k \in DOMAIN s /\ Append(s, x)[k] = s[k]) \/ Append(s, x)[k] = x
<1>1. /\ Append(s, x) \in Seq(Nat) /\ Len(Append(s, x)) = Len(s) + 1
      /\ \A k \in 1 .. Len(s) : Append(s, x)[k] = s[k]
      /\ Append(s, x)[Len(s) + 1] = x
  OBVIOUS
<1>2. Front(Append(s, x)) = s
  BY <1>1 DEF Front
<1>3. ASSUME NEW k \in DOMAIN Append(s, x)
      PROVE  (k \in DOMAIN s /\ Append(s, x)[k] = s[k]) \/ Append(s, x)[k] = x
  OBVIOUS
<1> QED  BY <1>1, <1>2, <1>3

\* What send_message sends in the turn of a loop: SendTo either ends the run
\* with nothing sent, or adds index i and goes to the report.
LEMMA SendToCases ==
  ASSUME NEW i, SendTo(i)
  PROVE  \/ ppc' = "ended" /\ outcome' \in {"decode", "sendto"} /\ sent' = sent
         \/ ppc' = "sent" /\ outcome' = outcome /\ sent' = Append(sent, i)
  BY DEF SendTo, PublisherEnds

\* The parts that do not depend on the mode survive a turn of a loop.
LEMMA TurnOfLoop ==
  ASSUME PubInv, ppc = "loop", NEW i \in Indices, SendTo(i), UNCHANGED <<args, port, count>>
  PROVE  /\ (PhaseTyped /\ SentFromFile /\ ArgsTyped /\ PortTyped /\ Counted)'
         /\ sent' \in Seq(Nat) /\ Idle' /\ count' \in Nat
<1>0. /\ sent \in Seq(Nat) /\ count \in Nat /\ outcome = "" /\ args # Absent /\ Len(sent) = count
      /\ \A k \in DOMAIN sent : sent[k] \in Indices
  BY DEF PubInv, PhaseTyped, HistoryTyped, SentFromFile, Counted
<1>1. i \in Nat
  BY DEF Indices
<1>2. /\ Append(sent, i) \in Seq(Nat) /\ Len(Append(sent, i)) = Len(sent) + 1
      /\ \A k \in DOMAIN Append(sent, i) :
           (k \in DOMAIN sent /\ Append(sent, i)[k] = sent[k]) \/ Append(sent, i)[k] = i
  BY <1>0, <1>1, Appended
<1>3. (ArgsTyped /\ PortTyped)' /\ Indices' = Indices
  BY DEF PubInv, ArgsTyped, PortTyped, Indices
<1>4. CASE ppc' = "ended" /\ outcome' \in {"decode", "sendto"} /\ sent' = sent
  <2>1. (PhaseTyped /\ Counted)' /\ Idle'
    BY <1>0, <1>4 DEF PhaseTyped, Counted, Idle, PublisherPhases, Outcomes
  <2>2. SentFromFile'
    BY <1>0, <1>3, <1>4 DEF SentFromFile
  <2> QED  BY <1>0, <1>3, <1>4, <2>1, <2>2
<1>5. CASE ppc' = "sent" /\ outcome' = outcome /\ sent' = Append(sent, i)
  <2>1. (PhaseTyped /\ Counted)' /\ Idle'
    BY <1>0, <1>2, <1>5 DEF PhaseTyped, Counted, Idle, PublisherPhases, Outcomes
  <2>2. \A k \in DOMAIN sent' : sent'[k] \in Indices
    BY <1>0, <1>2, <1>5
  <2>3. SentFromFile'
    BY <1>3, <2>2 DEF SentFromFile
  <2> QED  BY <1>0, <1>2, <1>3, <1>5, <2>1, <2>3
<1> QED  BY <1>4, <1>5, SendToCases

\* One turn of each of the three loops.
LEMMA PubRunAllOnce == ASSUME PubInv, RunAllOnce PROVE PubInv'
<1>0. /\ ppc = "loop" /\ args # Absent /\ args.mode = "all_once" /\ outcome = ""
      /\ sent \in Seq(Nat) /\ count \in Nat /\ Len(sent) = count /\ chosen \in Seq(Nat)
      /\ UNCHANGED <<args, port, count, chosen>>
  BY DEF PubInv, RunAllOnce, PhaseTyped, HistoryTyped, Counted
<1>num. count \in Nat /\ Len(sent) = count
  BY <1>0
<1>1. /\ \A k \in 1 .. Len(sent) : sent[k] = k - 1
      /\ Len(sent) <= Len(args.input_file)
  BY <1>0 DEF PubInv, AllOnce
<1>len. Len(args.input_file) \in Nat
  <2>1. args.input_file \in Seq(Messages)
    BY <1>0 DEF PubInv, ArgsTyped
  <2> QED  BY <2>1
<1>2. (Manual /\ Random)'
  BY <1>0 DEF Manual, Random
<1>3. CASE count < Len(args.input_file) /\ SendTo(count)
  <2>1. count \in Indices
    <3>1. count \in 0 .. Len(args.input_file) - 1
      BY <1>num, <1>3, <1>len
    <3> QED  BY <3>1 DEF Indices
  <2>2. /\ (PhaseTyped /\ SentFromFile /\ ArgsTyped /\ PortTyped /\ Counted)'
        /\ HistoryTyped' /\ Idle'
    BY <1>0, <1>3, <2>1, TurnOfLoop DEF HistoryTyped
  <2>3. CASE ppc' = "ended" /\ outcome' \in {"decode", "sendto"} /\ sent' = sent
    BY <1>0, <1>1, <1>2, <2>2, <2>3 DEF PubInv, AllOnce
  <2>4. CASE ppc' = "sent" /\ outcome' = outcome /\ sent' = Append(sent, count)
    <3>1. /\ \A k \in 1 .. Len(sent) : Append(sent, count)[k] = sent[k]
          /\ Append(sent, count)[Len(sent) + 1] = count
          /\ Len(Append(sent, count)) = Len(sent) + 1
      BY <1>0, Appended
    <3>2. ASSUME NEW k \in 1 .. Len(sent) + 1 PROVE Append(sent, count)[k] = k - 1
      <4>1. CASE k \in 1 .. Len(sent)
        BY <1>1, <3>1, <4>1
      <4>2. CASE k = Len(sent) + 1
        <5>1. k - 1 = count
          BY <1>num, <4>2
        <5>2. Append(sent, count)[k] = count
          BY <3>1, <4>2
        <5> QED  BY <5>1, <5>2
      <4>3. k \in 1 .. Len(sent) \/ k = Len(sent) + 1
        BY <1>num
      <4> QED  BY <4>1, <4>2, <4>3
    <3>3. AllOnce'
      <4>1. Len(sent') = Len(sent) + 1 /\ \A k \in 1 .. Len(sent') : sent'[k] = k - 1
        BY <2>4, <3>1, <3>2
      <4>2. Len(sent') <= Len(args'.input_file)
        <5>1. Len(sent) + 1 <= Len(args.input_file)
          BY <1>num, <1>3, <1>len
        <5> QED  BY <1>0, <4>1, <5>1
      <4> QED  BY <1>0, <2>4, <4>1, <4>2 DEF AllOnce
    <3> QED  BY <1>2, <2>2, <3>3 DEF PubInv
  <2> QED  BY <1>3, <2>3, <2>4, SendToCases
<1>4. CASE ~(count < Len(args.input_file)) /\ PublisherEnds("done") /\ UNCHANGED sent
  <2>1. (PhaseTyped /\ HistoryTyped)'
    BY <1>0, <1>4 DEF PublisherEnds, PhaseTyped, HistoryTyped, PublisherPhases, Outcomes
  <2>2. (SentFromFile /\ ArgsTyped /\ PortTyped)'
    BY <1>0, <1>4 DEF PubInv, SentFromFile, ArgsTyped, PortTyped, Indices
  <2>3. (Idle /\ Counted)'
    BY <1>0, <1>4 DEF PublisherEnds, Idle, Counted
  <2>4. AllOnce'
    <3>1. Len(sent) = Len(args.input_file)
      BY <1>num, <1>1, <1>4, <1>len
    <3> QED  BY <1>0, <1>1, <1>4, <3>1 DEF AllOnce
  <2> QED  BY <1>2, <2>1, <2>2, <2>3, <2>4 DEF PubInv
<1> QED  BY <1>3, <1>4 DEF RunAllOnce

\* The user chooses a message.
LEMMA PubRunManual == ASSUME PubInv, NEW choice, RunManual(choice) PROVE PubInv'
<1>0. /\ ppc = "loop" /\ args # Absent /\ args.mode = "manual" /\ outcome = ""
      /\ sent \in Seq(Nat) /\ chosen \in Seq(Nat) /\ UNCHANGED <<args, port, count>>
      /\ sent = chosen
  BY DEF PubInv, RunManual, PhaseTyped, HistoryTyped, Manual
<1>1. CASE choice \notin Indices
  <2>1. UNCHANGED pubVars
    BY <1>0, <1>1 DEF RunManual, pubVars
  <2> QED  BY <2>1, PubUnchanged
<1>2. CASE choice \in Indices
  <2>1. choice \in Nat /\ chosen' = Append(chosen, choice) /\ SendTo(choice)
    BY <1>2 DEF RunManual, Indices
  <2>2. /\ (PhaseTyped /\ SentFromFile /\ ArgsTyped /\ PortTyped /\ Counted)'
        /\ sent' \in Seq(Nat) /\ count' \in Nat /\ Idle'
    BY <1>0, <1>2, <2>1, TurnOfLoop
  <2>3. chosen' \in Seq(Nat) /\ Front(chosen') = chosen
    BY <1>0, <2>1, Appended
  <2>4. HistoryTyped' /\ (AllOnce /\ Random)'
    BY <1>0, <2>2, <2>3 DEF HistoryTyped, AllOnce, Random
  <2>5. CASE ppc' = "ended" /\ outcome' \in {"decode", "sendto"} /\ sent' = sent
    <3>1. Manual'
      BY <1>0, <2>3, <2>5 DEF Manual
    <3> QED  BY <2>2, <2>4, <3>1 DEF PubInv
  <2>6. CASE ppc' = "sent" /\ outcome' = outcome /\ sent' = Append(sent, choice)
    <3>1. Manual'
      BY <1>0, <2>1, <2>6 DEF Manual
    <3> QED  BY <2>2, <2>4, <3>1 DEF PubInv
  <2> QED  BY <2>1, <2>5, <2>6, SendToCases
<1> QED  BY <1>1, <1>2

\* The user ends the manual mode: nothing is left over.
LEMMA PubManualEnds == ASSUME PubInv, ManualEnds PROVE PubInv'
<1>0. /\ ppc = "loop" /\ args # Absent /\ args.mode = "manual" /\ outcome = ""
      /\ UNCHANGED <<args, port, count, chosen, sent>>
  BY DEF PubInv, ManualEnds, PhaseTyped
<1>1. ppc' = "ended" /\ outcome' \in {"done", "input"}
  BY DEF ManualEnds, PublisherEnds
<1>2. (PhaseTyped /\ HistoryTyped)'
  BY <1>0, <1>1 DEF PubInv, PhaseTyped, HistoryTyped, PublisherPhases, Outcomes
<1>3. (SentFromFile /\ ArgsTyped /\ PortTyped)'
  BY <1>0 DEF PubInv, SentFromFile, ArgsTyped, PortTyped, Indices
<1>4. (Idle /\ Counted)'
  BY <1>0, <1>1 DEF PubInv, Idle, Counted
<1>5. (AllOnce /\ Manual /\ Random)'
  BY <1>0, <1>1 DEF PubInv, AllOnce, Manual, Random
<1> QED  BY <1>2, <1>3, <1>4, <1>5 DEF PubInv

\* A message is chosen at random.
LEMMA PubRunRandom == ASSUME PubInv, RunRandom PROVE PubInv'
<1>0. /\ ppc = "loop" /\ args # Absent /\ args.mode = "random" /\ outcome = ""
      /\ sent \in Seq(Nat) /\ chosen \in Seq(Nat)
      /\ UNCHANGED <<args, port, count, chosen>>
  BY DEF PubInv, RunRandom, PhaseTyped, HistoryTyped
<1>num. count \in Nat /\ Len(sent) = count
  BY <1>0 DEF PubInv, HistoryTyped, Counted
<1>typ. args.count \in Int \cup {Absent}
  BY <1>0 DEF PubInv, ArgsTyped
<1>1. CASE args.count # Absent /\ count >= args.count /\ PublisherEnds("done") /\ UNCHANGED sent
  <2>1. (PhaseTyped /\ HistoryTyped)'
    BY <1>0, <1>num, <1>1 DEF PublisherEnds, PhaseTyped, HistoryTyped, PublisherPhases, Outcomes
  <2>2. (SentFromFile /\ ArgsTyped /\ PortTyped)'
    BY <1>0, <1>1 DEF PubInv, SentFromFile, ArgsTyped, PortTyped, Indices
  <2>3. (Idle /\ Counted)'
    BY <1>0, <1>num, <1>1 DEF PublisherEnds, Idle, Counted
  <2>4. (AllOnce /\ Manual)'
    BY <1>0 DEF AllOnce, Manual
  <2>5. Random'
    BY <1>0, <1>num, <1>1 DEF PubInv, Random
  <2> QED  BY <2>1, <2>2, <2>3, <2>4, <2>5 DEF PubInv
<1>2. CASE PublisherEnds("choice") /\ UNCHANGED sent
  BY <1>0, <1>2, PubFails DEF Outcomes
<1>3. CASE ~(args.count # Absent /\ count >= args.count) /\ \E i \in Indices : SendTo(i)
  <2>1. PICK i \in Indices : SendTo(i)
    BY <1>3
  <2>2. i \in Nat
    BY DEF Indices
  <2>3. /\ (PhaseTyped /\ SentFromFile /\ ArgsTyped /\ PortTyped /\ Counted)'
        /\ HistoryTyped' /\ Idle'
    BY <1>0, <2>1, TurnOfLoop DEF HistoryTyped
  <2>4. (AllOnce /\ Manual)'
    BY <1>0 DEF AllOnce, Manual
  <2>5. CASE ppc' = "ended" /\ outcome' \in {"decode", "sendto"} /\ sent' = sent
    <3>1. Random'
      BY <1>0, <2>5 DEF PubInv, Random
    <3> QED  BY <2>3, <2>4, <3>1 DEF PubInv
  <2>6. CASE ppc' = "sent" /\ outcome' = outcome /\ sent' = Append(sent, i)
    <3>1. Len(sent') = count + 1
      BY <1>0, <1>num, <2>2, <2>6, Appended
    <3>2. args.count # Absent => Len(sent') <= args.count
      BY <1>num, <1>typ, <1>3, <3>1
    <3>3. Random'
      BY <1>0, <2>6, <3>2 DEF Random
    <3> QED  BY <2>3, <2>4, <3>3 DEF PubInv
  <2> QED  BY <2>1, <2>5, <2>6, SendToCases
<1> QED  BY <1>1, <1>2, <1>3 DEF RunRandom

\* The report: nothing is sent any more, the loop is done with one more.
LEMMA PubFinishSend == ASSUME PubInv, FinishSend PROVE PubInv'
<1>0. /\ ppc = "sent" /\ args # Absent /\ outcome = "" /\ UNCHANGED <<args, port, chosen, sent>>
  BY DEF PubInv, FinishSend, PhaseTyped
<1>num. count \in Nat /\ Len(sent) = count + 1
  BY <1>0 DEF PubInv, HistoryTyped, Counted
<1>1. CASE UNCHANGED count /\ \E o \in {"description", "delay"} : PublisherEnds(o)
  BY <1>0, <1>1, PubFails DEF Outcomes
<1>2. CASE ppc' = "loop" /\ count' = count + 1 /\ UNCHANGED outcome
  <2>1. (PhaseTyped /\ HistoryTyped)'
    <3>1. PhaseTyped'
      BY <1>0, <1>2 DEF PhaseTyped, PublisherPhases, Outcomes
    <3>2. HistoryTyped'
      <4>1. sent' \in Seq(Nat) /\ chosen' \in Seq(Nat)
        BY <1>0 DEF PubInv, HistoryTyped
      <4>2. count' \in Nat
        BY <1>num, <1>2
      <4> QED  BY <4>1, <4>2 DEF HistoryTyped
    <3> QED  BY <3>1, <3>2
  <2>2. (SentFromFile /\ ArgsTyped /\ PortTyped)'
    BY <1>0 DEF PubInv, SentFromFile, ArgsTyped, PortTyped, Indices
  <2>3. (Idle /\ Counted)'
    BY <1>0, <1>num, <1>2 DEF Idle, Counted
  <2>4. (AllOnce /\ Manual)'
    BY <1>0, <1>2 DEF PubInv, AllOnce, Manual
  <2>5. Random'
    BY <1>0, <1>2 DEF PubInv, Random
  <2> QED  BY <2>1, <2>2, <2>3, <2>4, <2>5 DEF PubInv
<1> QED  BY <1>1, <1>2 DEF FinishSend

-----------------------------------------------------------------------------
\* Every step of the program, of its user and of the rest of Feed.
LEMMA PubNext == ASSUME PubInv, [Next]_vars PROVE PubInv'
<1>1. CASE UNCHANGED pubVars
  BY <1>1, PubUnchanged
<1>2. CASE ParseArgs
  BY <1>2, PubParseArgs
<1>3. CASE SetupSocket
  BY <1>3, PubSetupSocket
<1>4. CASE SetupFails
  BY <1>4, PubFails DEF SetupFails, Outcomes
<1>5. CASE RunAllOnce
  BY <1>5, PubRunAllOnce
<1>6. CASE \E choice \in -1 .. MaxSends : RunManual(choice)
  BY <1>6, PubRunManual
<1>7. CASE ManualEnds
  BY <1>7, PubManualEnds
<1>8. CASE RunRandom
  BY <1>8, PubRunRandom
<1>9. CASE FinishSend
  BY <1>9, PubFinishSend
<1>10. CASE Interrupt
  BY <1>10, PubFails DEF Interrupt, Outcomes
<1>11. Arrive \/ ServerReceives \/ Display \/ UNCHANGED vars => UNCHANGED pubVars
  BY DEF Arrive, ServerReceives, ReceiveDatagram, ReceiveCrashes, Display, vars
<1> QED  BY <1>1, <1>2, <1>3, <1>4, <1>5, <1>6, <1>7, <1>8, <1>9, <1>10, <1>11
         DEF Next, PublisherStep, TerminalStep

\* The client's invariant holds throughout, whatever datagrams arrive and
\* whatever becomes of the server.
THEOREM PublisherInvariance == Spec => []PubInv
  BY PubInit, PubNext, PTL DEF Spec

\* udp_client.py keeps its types: every index sent is one of the input file,
\* and the port that is bound is in the range that unpriv_port.py names, the
\* default 0 included.
THEOREM PublisherTypeCorrect == Spec => []PublisherTypeOK
<1>1. PubInv => PublisherTypeOK
  BY TypesTogether DEF PubInv, PortTyped
<1> QED  BY <1>1, PublisherInvariance, PTL

\* For every input file and every command line the client sends what its mode
\* promises (run_all_once, run_manual, run_random), also when it fails.
THEOREM ModesAreKept == Spec => []SentAsAsked
<1>1. ASSUME PubInv PROVE SentAsAsked
  <2>1. CASE args = Absent
    BY <2>1 DEF SentAsAsked
  <2>2. CASE args # Absent
    <3>0. sent \in Seq(Nat) /\ count \in Nat
      BY <1>1 DEF PubInv, HistoryTyped
    <3>1. Len(sent) = count \/ Len(sent) = count + 1
      <4>1. ppc \in {"start", "setup"} => Len(sent) = count
        BY <1>1 DEF PubInv, Idle
      <4> QED  BY <1>1, <4>1 DEF PubInv, Counted, PhaseTyped, PublisherPhases
    <3>2. Len(sent) - count \in {0, 1}
      BY <3>0, <3>1
    <3>3. args.mode \in {"all_once", "manual", "random"}
      BY <1>1, <2>2 DEF PubInv, ArgsTyped, Modes
    <3>4. CASE args.mode = "all_once"
      <4>1. /\ \A k \in 1 .. Len(sent) : sent[k] = k - 1
            /\ outcome = "done" => Len(sent) = Len(args.input_file)
        BY <1>1, <2>2, <3>4 DEF PubInv, AllOnce
      <4>2. sent = [k \in 1 .. Len(sent) |-> k - 1]
        BY <3>0, <4>1
      <4> QED  BY <2>2, <3>2, <3>4, <4>1, <4>2 DEF SentAsAsked
    <3>5. CASE args.mode = "manual"
      BY <1>1, <2>2, <3>2, <3>5 DEF SentAsAsked, PubInv, Manual
    <3>6. CASE args.mode = "random"
      BY <1>1, <2>2, <3>2, <3>6 DEF SentAsAsked, PubInv, Random
    <3> QED  BY <3>3, <3>4, <3>5, <3>6
  <2> QED  BY <2>1, <2>2
<1> QED  BY <1>1, PublisherInvariance, PTL

-----------------------------------------------------------------------------
\* A negation modulo the word, in cases.
LEMMA NegatedModulo ==
  ASSUME NEW num \in 0 .. Word - 1
  PROVE  (Word - num) % Word = IF num = 0 THEN 0 ELSE Word - num
<1>0. Word \in Nat /\ Word > 1
  BY NotificationAssumption
<1>1. CASE num = 0
  BY <1>0, <1>1
<1>2. CASE num # 0
  BY <1>0, <1>2
<1> QED  BY <1>1, <1>2

\* parse_notification shows an INT in the range of a signed word whatever its
\* bits, and as the number meant whenever it fits: the unsigned negation and
\* the %d between them lose nothing.
THEOREM IntIsShown ==
  ASSUME NEW sgn, NEW num \in 0 .. Word - 1
  PROVE  /\ ShownInt(sgn, num) >= -(Word \div 2) /\ ShownInt(sgn, num) < Word \div 2
         /\ num < Word \div 2 => ShownInt(sgn, num) = IF sgn = 1 THEN -num ELSE num
<1>0. Word \in Nat /\ Word > 1 /\ Word % 2 = 0
  BY NotificationAssumption
<1>1. PICK half \in Nat : half = Word \div 2 /\ Word = half + half
  BY <1>0
<1>2. ShownInt(sgn, num) =
        LET n == IF sgn = 1 THEN IF num = 0 THEN 0 ELSE Word - num ELSE num
        IN  IF n >= half THEN n - Word ELSE n
  BY <1>1, NegatedModulo DEF ShownInt
<1>3. CASE sgn = 1
  BY <1>0, <1>1, <1>2, <1>3
<1>4. CASE sgn # 1
  BY <1>0, <1>1, <1>2, <1>4
<1> QED  BY <1>3, <1>4

\* Division with remainder by a spacing.
LEMMA DivMod ==
  ASSUME NEW n \in Nat, NEW u \in Spacings
  PROVE  n \div u \in Nat /\ n % u \in 0 .. u - 1 /\ n = u * (n \div u) + (n % u)
<1>1. u \in Nat \ {0}
  BY DEF Spacings
<1> QED
  BY <1>1

\* A spacing is found.
LEMMA SpacingFound ==
  ASSUME NEW n \in 0 .. Word - 1
  PROVE  /\ Ulp(n) \in Spacings /\ n < FloatExact * Ulp(n)
         /\ Ulp(n) = 1 \/ 2 * n >= FloatExact * Ulp(n)
<1> DEFINE Fits(u) == n < FloatExact * u /\ (u = 1 \/ 2 * n >= FloatExact * u)
<1>1. FloatExact \in Nat /\ Word \in Nat /\ Word <= 256 * FloatExact /\ n \in Nat
  BY NotificationAssumption
<1>2. n < FloatExact * 256
  BY <1>1
<1>3. /\ n < FloatExact * 1 => Fits(1)
      /\ n >= FloatExact * 1 /\ n < FloatExact * 2 => Fits(2)
      /\ n >= FloatExact * 2 /\ n < FloatExact * 4 => Fits(4)
      /\ n >= FloatExact * 4 /\ n < FloatExact * 8 => Fits(8)
      /\ n >= FloatExact * 8 /\ n < FloatExact * 16 => Fits(16)
      /\ n >= FloatExact * 16 /\ n < FloatExact * 32 => Fits(32)
      /\ n >= FloatExact * 32 /\ n < FloatExact * 64 => Fits(64)
      /\ n >= FloatExact * 64 /\ n < FloatExact * 128 => Fits(128)
      /\ n >= FloatExact * 128 /\ n < FloatExact * 256 => Fits(256)
  BY <1>1
<1> HIDE DEF Fits
<1>4. \/ Fits(1) \/ Fits(2) \/ Fits(4) \/ Fits(8) \/ Fits(16) \/ Fits(32) \/ Fits(64)
      \/ Fits(128) \/ Fits(256)
  BY <1>1, <1>2, <1>3
<1>5. \E u \in Spacings : Fits(u)
  BY <1>4 DEF Spacings
<1>6. Ulp(n) = CHOOSE u \in Spacings : Fits(u)
  BY DEF Ulp, Fits
<1>7. Ulp(n) \in Spacings /\ Fits(Ulp(n))
  BY <1>5, <1>6
<1> QED
  BY <1>7 DEF Fits

\* The cast to float is off by at most one part in FloatExact, and exact up to
\* FloatExact.
LEMMA RoundedNear ==
  ASSUME NEW n \in 0 .. Word - 1
  PROVE  /\ RoundToFloat(n) \in Int
         /\ (RoundToFloat(n) - n) * FloatExact <= n
         /\ -(RoundToFloat(n) - n) * FloatExact <= n
         /\ n <= FloatExact => RoundToFloat(n) = n
<1>1. FloatExact \in Nat /\ FloatExact > 0 /\ FloatExact % 2 = 0 /\ n \in Nat
  BY NotificationAssumption
<1>2. PICK u \in Nat \ {0} : /\ u = Ulp(n) /\ n < FloatExact * u
                             /\ u = 1 \/ 2 * n >= FloatExact * u
                             /\ u \in Spacings
  BY SpacingFound DEF Spacings
<1>3. PICK q \in Nat, r \in 0 .. u - 1 : q = n \div u /\ r = n % u /\ n = u * q + r
  <2>1. n \div u \in Nat /\ n % u \in 0 .. u - 1 /\ n = u * (n \div u) + (n % u)
    BY <1>1, <1>2, DivMod
  <2> QED
    BY <2>1, Zenon
<1>4. RoundToFloat(n) = IF 2 * r > u \/ (2 * r = u /\ q % 2 = 1) THEN u * (q + 1) ELSE u * q
  BY <1>2, <1>3 DEF RoundToFloat
<1>5. u * (q + 1) = u * q + u /\ u * q \in Int
  <2>1. u \in Int /\ q \in Int
    BY <1>2, <1>3
  <2> QED
    BY <2>1
<1>u. u \in Nat /\ u > 0 /\ r \in Nat /\ r < u
  <2>1. u \in Nat /\ u > 0 /\ r \in 0 .. u - 1
    OBVIOUS
  <2> QED
    BY <2>1
<1>6. PICK e \in Int : /\ RoundToFloat(n) = n + e
                       /\ 2 * e <= u /\ -(2 * e) <= u
                       /\ r = 0 => e = 0
  <2>1. CASE 2 * r > u \/ (2 * r = u /\ q % 2 = 1)
    <3>1. RoundToFloat(n) = n + (u - r)
      BY <1>1, <1>2, <1>3, <1>4, <1>5, <2>1
    <3>2. u - r \in Int /\ 2 * (u - r) <= u /\ -(2 * (u - r)) <= u /\ r # 0
      BY <1>u, <2>1
    <3> QED
      BY <3>1, <3>2
  <2>2. CASE ~(2 * r > u \/ (2 * r = u /\ q % 2 = 1))
    <3>1. RoundToFloat(n) = n + (-r)
      BY <1>1, <1>2, <1>3, <1>4, <1>5, <2>2
    <3>2. -r \in Int /\ 2 * (-r) <= u /\ -(2 * (-r)) <= u /\ (r = 0 => -r = 0)
      BY <1>u, <2>2
    <3> QED
      BY <3>1, <3>2
  <2> QED
    BY <2>1, <2>2
<1>7. u = 1 => e = 0
  BY <1>3, <1>6
<1>8. e * FloatExact <= n /\ -e * FloatExact <= n
  <2>1. CASE u = 1
    BY <1>1, <1>7, <2>1
  <2>2. CASE u # 1
    <3>1. 2 * e * FloatExact <= u * FloatExact /\ -(2 * e) * FloatExact <= u * FloatExact
      BY <1>1, <1>2, <1>6
    <3> QED
      BY <1>1, <1>2, <1>6, <2>2, <3>1
  <2> QED
    BY <2>1, <2>2
<1>9. ASSUME n <= FloatExact PROVE e = 0
  <2>1. CASE n < FloatExact
    <3>1. u # 1 => FloatExact * u >= 2 * FloatExact
      BY <1>1, <1>2 DEF Spacings
    <3> QED
      BY <1>1, <1>2, <1>7, <2>1, <3>1
  <2>2. CASE n = FloatExact
    <3>1. u = 2
      BY <1>1, <1>2, <2>2 DEF Spacings
    <3> QED
      BY <1>1, <1>3, <1>6, <2>2, <3>1
  <2> QED
    BY <1>1, <1>9, <2>1, <2>2
<1>10. RoundToFloat(n) \in Int /\ RoundToFloat(n) - n = e
  BY <1>1, <1>6
<1> QED
  BY <1>1, <1>6, <1>8, <1>9, <1>10

-----------------------------------------------------------------------------
(***************************************************************************)
(* The contents of a datagram, from the buffer to the terminal.            *)
(***************************************************************************)

\* The numbers of the cells.
Contents == 0 .. Word - 1

\* The buffer holds the beginning of the payload, and zeros behind it.
LEMMA BufferFacts ==
  ASSUME NEW d \in Seq(Contents)
  PROVE  /\ RecvFrom(Cleared, d) \in [Cells -> Contents]
         /\ \A i \in Cells : RecvFrom(Cleared, d)[i] = IF i <= Len(d) THEN d[i] ELSE 0
<1>1. Word \in Nat /\ Word > 1
  BY NotificationAssumption
<1>2. \A i \in Cells : i <= Len(d) => d[i] \in Contents
  <2>1. Len(d) \in Nat /\ \A i \in 1 .. Len(d) : d[i] \in Contents
    BY LenProperties, ElementOfSeq
  <2> QED
    BY <2>1 DEF Cells
<1>3. \A i \in Cells : Cleared[i] = 0
  BY DEF Cleared
<1> QED
  BY <1>1, <1>2, <1>3 DEF RecvFrom, Contents

\* What is cut from the buffer.
LEMMA CutOfBuffer ==
  ASSUME NEW cells \in [Cells -> Contents], NEW n \in 0 .. MaxString + 1
  PROVE  /\ SubSeq(cells, 1, n) \in Seq(Contents) /\ Len(SubSeq(cells, 1, n)) = n
         /\ \A i \in 1 .. n : SubSeq(cells, 1, n)[i] = cells[i]
<1>1. MaxString \in Nat /\ n \in Int
  BY NotificationAssumption
<1>2. \A i \in 1 .. n : cells[i] \in Contents
  BY <1>1 DEF Cells
<1>3. /\ SubSeq(cells, 1, n) \in Seq(Contents)
      /\ Len(SubSeq(cells, 1, n)) = IF 1 <= n THEN n - 1 + 1 ELSE 0
      /\ \A i \in 1 .. n - 1 + 1 : SubSeq(cells, 1, n)[i] = cells[1 + i - 1]
  BY <1>1, <1>2, SubSeqProperties
<1>4. n - 1 + 1 = n /\ \A i \in 1 .. n : 1 + i - 1 = i
  BY <1>1
<1> QED
  BY <1>1, <1>3, <1>4

\* A string ends at the first NUL, or where the buffer does.
LEMMA StringCut ==
  ASSUME NEW cells \in [Cells -> Contents]
  PROVE  \E n \in 0 .. MaxString : /\ CString(cells) = SubSeq(cells, 1, n)
                                   /\ \A i \in 1 .. n : cells[i] # 0
                                   /\ n = MaxString \/ cells[n + 1] = 0
<1> DEFINE Cuts == {i \in 0 .. MaxString : i = MaxString \/ cells[i + 1] = 0}
<1>1. MaxString \in Nat
  BY NotificationAssumption
<1>2. MaxString \in Cuts /\ Cuts \in SUBSET Nat
  BY <1>1
<1> DEFINE n == CHOOSE i \in Cuts : \A j \in Cuts : i <= j
<1>3. CString(cells) = SubSeq(cells, 1, n)
  BY DEF CString
<1>4. n \in Cuts /\ \A j \in Cuts : n <= j
  <2> HIDE DEF Cuts
  <2>1. \E i \in Cuts : \A j \in Cuts : i <= j
    BY <1>2, SmallestElement
  <2> QED
    BY <2>1
<1> HIDE DEF n
<1>5. ASSUME NEW i \in 1 .. n, cells[i] = 0 PROVE FALSE
  <2>1. i - 1 \in 0 .. MaxString /\ (i - 1) + 1 = i
    BY <1>1, <1>4
  <2>2. i - 1 \in Cuts
    BY <1>5, <2>1
  <2> QED
    BY <1>1, <1>4, <2>2
<1> QED
  BY <1>3, <1>4, <1>5

\* What parse_udp_packet sends on is a beginning of the buffer.
LEMMA SentIsCut ==
  ASSUME NEW type, NEW cells \in [Cells -> Contents], NEW p \in SentPayloads(type, cells)
  PROVE  /\ p \in Seq(Contents)
         /\ \E n \in 0 .. MaxString + 1 :
              /\ p = SubSeq(cells, 1, n)
              /\ type = "INT" => n = 2
              /\ type = "SHORT_REAL" => n = 1
              /\ type = "FLOAT" => n = 3
              /\ type = "STRING" => /\ n <= MaxString
                                    /\ \A i \in 1 .. n : cells[i] # 0
                                    /\ n = MaxString \/ cells[n + 1] = 0
<1>1. MaxString \in Nat /\ MaxString >= 3
  BY NotificationAssumption
<1>2. CASE type = "STRING"
  <2>1. p = CString(cells)
    BY <1>2 DEF SentPayloads
  <2>2. PICK n \in 0 .. MaxString : /\ p = SubSeq(cells, 1, n)
                                    /\ \A i \in 1 .. n : cells[i] # 0
                                    /\ n = MaxString \/ cells[n + 1] = 0
    BY <2>1, StringCut
  <2>3. n \in 0 .. MaxString + 1 /\ n <= MaxString
    BY <1>1
  <2>4. p \in Seq(Contents)
    BY <2>2, <2>3, CutOfBuffer
  <2> QED
    BY <1>2, <2>2, <2>3, <2>4
<1>3. CASE type # "STRING"
  <2>1. PICK n \in PayloadLengths(type) : p = SubSeq(cells, 1, n)
    BY <1>3 DEF SentPayloads
  <2>2. /\ n \in 0 .. MaxString + 1
        /\ type = "INT" => n = 2
        /\ type = "SHORT_REAL" => n = 1
        /\ type = "FLOAT" => n = 3
    BY <1>1, <2>1 DEF PayloadLengths
  <2>3. p \in Seq(Contents)
    BY <2>1, <2>2, CutOfBuffer
  <2> QED
    BY <1>3, <2>1, <2>2, <2>3
<1> QED
  BY <1>2, <1>3

\* What parse_notification shows of what parse_udp_packet made of a payload is
\* what the payload means: every INT, SHORT_REAL, FLOAT and STRING of every
\* length and value, whatever else arrived before.
THEOREM ContentsAreMeant ==
  ASSUME NEW type, NEW d \in Seq(Contents), NEW p \in SentPayloads(type, RecvFrom(Cleared, d))
  PROVE  IsMeant(ShownValue(type, p), type, d)
<1> DEFINE cells == RecvFrom(Cleared, d)
<1>1. /\ cells \in [Cells -> Contents]
      /\ \A i \in Cells : cells[i] = IF i <= Len(d) THEN d[i] ELSE 0
  BY BufferFacts
<1>2. Len(d) \in Nat /\ DOMAIN d = 1 .. Len(d) /\ \A i \in 1 .. Len(d) : d[i] \in Contents
  BY LenProperties, ElementOfSeq
<1>3. MaxString \in Nat /\ MaxString >= 3 /\ Word \in Nat
  BY NotificationAssumption
<1> HIDE DEF cells
<1>4. PICK n \in 0 .. MaxString + 1 :
        /\ p = SubSeq(cells, 1, n)
        /\ type = "INT" => n = 2
        /\ type = "SHORT_REAL" => n = 1
        /\ type = "FLOAT" => n = 3
        /\ type = "STRING" => /\ n <= MaxString
                              /\ \A i \in 1 .. n : cells[i] # 0
                              /\ n = MaxString \/ cells[n + 1] = 0
  BY <1>1, SentIsCut DEF cells
<1>5. p \in Seq(Contents) /\ Len(p) = n /\ \A i \in 1 .. n : p[i] = cells[i]
  BY <1>1, <1>4, CutOfBuffer
<1>6. \A i \in 1 .. n : i \in Cells /\ (i <= Len(d) => p[i] = d[i])
  BY <1>1, <1>3, <1>5 DEF Cells
<1>7. CASE type = "INT"
  <2> SUFFICES ASSUME Len(d) = 2, d[1] \in {0, 1}, d[2] < Word \div 2
               PROVE  ShownValue(type, p) = <<IF d[1] = 1 THEN -d[2] ELSE d[2]>>
    BY <1>7 DEF IsMeant
  <2>1. Cell(p, 1) = d[1] /\ Cell(p, 2) = d[2] /\ d[2] \in 0 .. Word - 1
    BY <1>2, <1>4, <1>5, <1>6, <1>7 DEF Cell, Contents
  <2>2. ShownValue(type, p) = <<ShownInt(d[1], d[2])>>
    BY <1>7, <2>1 DEF ShownValue
  <2>3. ShownInt(d[1], d[2]) = IF d[1] = 1 THEN -d[2] ELSE d[2]
    BY <2>1, IntIsShown
  <2> QED
    BY <2>2, <2>3
<1>8. CASE type = "SHORT_REAL"
  <2> SUFFICES ASSUME Len(d) = 1 PROVE ShownValue(type, p) = d
    BY <1>8 DEF IsMeant
  <2>1. Cell(p, 1) = d[1]
    BY <1>2, <1>4, <1>5, <1>6, <1>8 DEF Cell
  <2>2. ShownValue(type, p) = <<d[1]>>
    BY <1>8, <2>1 DEF ShownValue
  <2>3. d = <<d[1]>>
    BY <1>2
  <2> QED
    BY <2>2, <2>3
<1>9. CASE type = "FLOAT"
  <2> SUFFICES ASSUME Len(d) = 3, d[1] \in {0, 1}
               PROVE  LET v == ShownValue(type, p) IN
                        /\ v[1] = IF d[1] = 1 THEN -1 ELSE 1
                        /\ v[3] = d[3]
                        /\ (v[2] - d[2]) * FloatExact <= d[2]
                        /\ -(v[2] - d[2]) * FloatExact <= d[2]
                        /\ d[2] <= FloatExact => v[2] - d[2] = 0
    BY <1>9 DEF IsMeant
  <2>1. Cell(p, 1) = d[1] /\ Cell(p, 2) = d[2] /\ Cell(p, 3) = d[3] /\ d[2] \in 0 .. Word - 1
    BY <1>2, <1>4, <1>5, <1>6, <1>9 DEF Cell, Contents
  <2>2. ShownValue(type, p) = <<IF d[1] = 1 THEN -1 ELSE 1, RoundToFloat(d[2]), d[3]>>
    BY <1>9, <2>1 DEF ShownValue
  <2>3. PICK near \in Int : /\ near = RoundToFloat(d[2])
                            /\ (near - d[2]) * FloatExact <= d[2]
                            /\ -(near - d[2]) * FloatExact <= d[2]
                            /\ d[2] <= FloatExact => near = d[2]
    BY <2>1, RoundedNear
  <2>4. near = d[2] => near - d[2] = 0
    BY <2>1, <2>3
  <2>5. PICK v : v = ShownValue(type, p)
    OBVIOUS
  <2>6. v[1] = (IF d[1] = 1 THEN -1 ELSE 1) /\ v[2] = near /\ v[3] = d[3]
    BY <2>2, <2>3, <2>5
  <2> QED
    BY <2>3, <2>4, <2>5, <2>6
<1>10. CASE type = "STRING"
  <2>1. ShownValue(type, p) = p
    BY <1>10 DEF ShownValue
  <2>2. n <= MaxString /\ \A i \in 1 .. n : p[i] # 0
    BY <1>4, <1>5, <1>10
  <2>3. n <= Len(d)
    <3> SUFFICES ASSUME n > Len(d) PROVE FALSE
      BY <1>2
    <3>1. n \in 1 .. n /\ n \in Cells /\ ~(n <= Len(d))
      BY <1>2, <1>6
    <3>2. cells[n] = 0
      BY <1>1, <3>1
    <3> QED
      BY <1>5, <2>2, <3>1, <3>2
  <2>4. p = SubSeq(d, 1, n)
    <3>1. \A i \in 1 .. n : d[i] \in Contents
      BY <1>2, <2>3
    <3>2. /\ SubSeq(d, 1, n) \in Seq(Contents)
          /\ Len(SubSeq(d, 1, n)) = IF 1 <= n THEN n - 1 + 1 ELSE 0
          /\ \A i \in 1 .. n - 1 + 1 : SubSeq(d, 1, n)[i] = d[1 + i - 1]
      BY <3>1, SubSeqProperties
    <3>3. n - 1 + 1 = n /\ \A i \in 1 .. n : 1 + i - 1 = i /\ i <= Len(d)
      BY <1>2, <2>3
    <3>4. Len(SubSeq(d, 1, n)) = n /\ \A i \in 1 .. n : SubSeq(d, 1, n)[i] = p[i]
      BY <1>6, <3>2, <3>3
    <3> QED
      BY <1>5, <3>2, <3>4, SeqEqual
  <2>5. n \in {MaxString, Len(d)} \/ d[n + 1] = 0
    <3>0. n \in Nat /\ Len(d) \in Nat /\ n <= MaxString
      BY <1>2, <1>3, <2>2
    <3>1. n = MaxString \/ n = Len(d) \/ (n < MaxString /\ n < Len(d))
      BY <1>3, <2>3, <3>0
    <3>2. ASSUME n < MaxString, n < Len(d) PROVE d[n + 1] = 0
      <4>1. n + 1 \in Cells /\ n + 1 <= Len(d) /\ n # MaxString
        BY <1>2, <1>3, <3>2 DEF Cells
      <4> QED
        BY <1>1, <1>4, <1>10, <4>1
    <3> QED
      BY <3>1, <3>2
  <2>6. DOMAIN p = 1 .. n
    BY <1>5, LenProperties
  <2> QED
    BY <1>5, <1>10, <2>1, <2>2, <2>3, <2>4, <2>5, <2>6 DEF IsMeant
<1>11. CASE type \notin Types
  BY <1>11 DEF Types, IsMeant, ShownValue
<1> QED
  BY <1>7, <1>8, <1>9, <1>10, <1>11 DEF Types

-----------------------------------------------------------------------------
(***************************************************************************)
(* Where everything comes from that is on its way.                         *)
(***************************************************************************)

Ports == UnprivilegedPortMeta \cup {Absent}
Arrivals == [n : Nat, port : Ports, dgram : Payloads]
Packages == [n : Nat, ip : {DisplayedIp(q) : q \in Ports}, port : Ports,
             topic : Seq(Seq(STRING)), type : STRING, payload : Seq(Contents)]
Lines == [n : Nat, ip : {DisplayedIp(q) : q \in Ports}, port : Ports,
          topic : Seq(Seq(STRING)), type : STRING, value : Seq(Int)]

\* d was given to sendto.
WasSent(d) == \E i \in DOMAIN sent : d = Message(sent[i]).payload

\* Nothing is sent that is not in the base64 of the input file.
SentArePayloads == \A i \in DOMAIN sent : Message(sent[i]).payload \in Payloads

\* A datagram that has arrived, a packet and a printed line, each made of d.
ArrivalOf(x, d) == x.port = port /\ x.dgram = d
PackageOf(x, d) ==
  /\ x.port = port /\ x.topic = d.topic /\ x.type = d.type
  /\ x.payload \in SentPayloads(d.type, RecvFrom(Cleared, d.payload))
LineOf(x, d) ==
  /\ x.port = port /\ x.topic = d.topic /\ x.type = d.type
  /\ \E p \in SentPayloads(d.type, RecvFrom(Cleared, d.payload)) : x.value = ShownValue(d.type, p)

ArrivedWereSent ==
  /\ udp \in Seq(Arrivals) /\ arrived \in Nat /\ Len(udp) <= arrived
  /\ \A k \in DOMAIN udp : \E d \in Payloads : WasSent(d) /\ ArrivalOf(udp[k], d)
ForwardedWereSent ==
  /\ toClient \in Seq(Packages)
  /\ \A k \in DOMAIN toClient : \E d \in Payloads : WasSent(d) /\ PackageOf(toClient[k], d)
ShownWereSent ==
  /\ shown \in Seq(Lines)
  /\ \A k \in DOMAIN shown : \E d \in Payloads : WasSent(d) /\ LineOf(shown[k], d)
ServerTyped == buff \in [Cells -> Nat] /\ crashed \in BOOLEAN /\ pattern \in Patterns

FeedInv ==
  SentArePayloads /\ ArrivedWereSent /\ ForwardedWereSent /\ ShownWereSent /\ ServerTyped

\* A payload and its cells.
LEMMA PayloadFacts ==
  ASSUME NEW d \in Payloads
  PROVE  /\ d.topic \in LevelTexts /\ d.topic \in Seq(Seq(STRING))
         /\ d.type \in STRING /\ d.payload \in Seq(Contents)
<1>1. d.topic \in LevelTexts /\ d.type \in STRING /\ d.payload \in Seq(Contents)
  BY FeedAssumption DEF Datagrams, Contents
<1> QED
  BY <1>1 DEF LevelTexts

\* The entries of a queue with one more at its end.
LEMMA OneMore ==
  ASSUME NEW S, NEW s \in Seq(S), NEW e \in S
  PROVE  /\ Append(s, e) \in Seq(S) /\ Len(Append(s, e)) = Len(s) + 1 /\ Len(s) \in Nat
         /\ \A k \in DOMAIN Append(s, e) :
              (k \in DOMAIN s /\ Append(s, e)[k] = s[k]) \/ Append(s, e)[k] = e
<1>1. /\ Append(s, e) \in Seq(S) /\ Len(Append(s, e)) = Len(s) + 1
      /\ \A k \in 1 .. Len(s) : Append(s, e)[k] = s[k]
      /\ Append(s, e)[Len(s) + 1] = e
  BY AppendProperties
<1>2. /\ Len(s) \in Nat /\ DOMAIN s = 1 .. Len(s)
      /\ DOMAIN Append(s, e) = 1 .. Len(Append(s, e))
  BY <1>1, LenProperties
<1> QED
  BY <1>1, <1>2

\* The entries of a queue without its first.
LEMMA OneLess ==
  ASSUME NEW S, NEW s \in Seq(S), s # <<>>
  PROVE  /\ Tail(s) \in Seq(S) /\ Len(Tail(s)) = Len(s) - 1 /\ Len(s) \in Nat
         /\ Head(s) \in S /\ 1 \in DOMAIN s /\ Head(s) = s[1]
         /\ \A k \in DOMAIN Tail(s) : k + 1 \in DOMAIN s /\ Tail(s)[k] = s[k + 1]
<1>1. /\ Head(s) \in S /\ Tail(s) \in Seq(S) /\ Len(Tail(s)) = Len(s) - 1
      /\ \A k \in 1 .. Len(Tail(s)) : Tail(s)[k] = s[k + 1]
      /\ Head(s) = s[1]
  BY HeadTailProperties
<1>2. /\ Len(s) \in Nat /\ Len(s) > 0 /\ DOMAIN s = 1 .. Len(s)
      /\ DOMAIN Tail(s) = 1 .. Len(Tail(s))
  BY <1>1, LenProperties, EmptySeq
<1> QED
  BY <1>1, <1>2

-----------------------------------------------------------------------------
\* A step of the program adds at most one datagram to those sent, and the
\* arguments and the port are known before the first is.
LEMMA SentGrows ==
  ASSUME PubInv, PublisherStep \/ TerminalStep
  PROVE  \/ sent = <<>> /\ sent' = <<>>
         \/ sent' = sent /\ UNCHANGED <<args, port>>
         \/ \E i \in Indices : /\ sent' = Append(sent, i) /\ Message(i).payload # Bad
                               /\ UNCHANGED <<args, port>> /\ args # Absent
<1>1. CASE ParseArgs \/ SetupSocket
  BY <1>1 DEF PubInv, Idle, ParseArgs, SetupSocket
<1>2. CASE SetupFails \/ FinishSend \/ ManualEnds \/ Interrupt
  BY <1>2 DEF SetupFails, FinishSend, ManualEnds, Interrupt
<1>3. ASSUME NEW i \in Indices, SendTo(i), UNCHANGED <<args, port>>, args # Absent
      PROVE  \/ sent' = sent
             \/ sent' = Append(sent, i) /\ Message(i).payload # Bad
  BY <1>3 DEF SendTo
<1>4. ppc = "loop" => args # Absent
  BY DEF PubInv, PhaseTyped
<1>5. CASE RunAllOnce
  <2>1. count < Len(args.input_file) => count \in Indices
    <3>1. count \in Nat /\ Len(args.input_file) \in Nat
      BY <1>4, <1>5 DEF PubInv, HistoryTyped, ArgsTyped, RunAllOnce
    <3> QED
      BY <3>1 DEF Indices
  <2> QED
    BY <1>3, <1>4, <1>5, <2>1 DEF RunAllOnce
<1>6. CASE \E choice \in -1 .. MaxSends : RunManual(choice)
  BY <1>3, <1>4, <1>6 DEF RunManual
<1>7. CASE RunRandom
  BY <1>3, <1>4, <1>7 DEF RunRandom
<1> QED
  BY <1>1, <1>2, <1>5, <1>6, <1>7 DEF PublisherStep, TerminalStep

\* What was sent stays sent.
LEMMA WasSentStays ==
  ASSUME PubInv, PublisherStep \/ TerminalStep, NEW d, WasSent(d)
  PROVE  WasSent(d)' /\ UNCHANGED port
<1>1. PICK i \in DOMAIN sent : d = Message(sent[i]).payload
  BY DEF WasSent
<1>2. sent \in Seq(Nat) /\ sent # <<>>
  BY <1>1 DEF PubInv, HistoryTyped
<1>3. UNCHANGED <<args, port>> /\ i \in DOMAIN sent' /\ sent'[i] = sent[i]
  <2>1. CASE sent' = sent /\ UNCHANGED <<args, port>>
    BY <1>1, <2>1
  <2>2. CASE \E j \in Indices : sent' = Append(sent, j) /\ UNCHANGED <<args, port>>
    <3>1. PICK j \in Indices : sent' = Append(sent, j)
      BY <2>2
    <3>2. j \in Nat
      BY DEF Indices
    <3>3. i \in 1 .. Len(sent) /\ i \in DOMAIN Append(sent, j) /\ Append(sent, j)[i] = sent[i]
      BY <1>1, <1>2, <3>2
    <3> QED
      BY <2>2, <3>1, <3>3
  <2> QED
    BY <1>2, <2>1, <2>2, SentGrows
<1> QED
  BY <1>1, <1>3 DEF WasSent, Message

\* Steps of the program.
LEMMA PublisherFeed ==
  ASSUME PubInv, FeedInv, PublisherStep \/ TerminalStep, UNCHANGED feedVars
  PROVE  FeedInv'
<1>1. UNCHANGED <<arrived, udp, buff, crashed, pattern, toClient, shown>>
  BY DEF feedVars
<1>2. SentArePayloads'
  <2>1. CASE sent' = <<>>
    BY <2>1 DEF SentArePayloads
  <2>2. CASE sent' = sent /\ UNCHANGED <<args, port>>
    BY <2>2 DEF FeedInv, SentArePayloads, Message
  <2>3. CASE \E i \in Indices : /\ sent' = Append(sent, i) /\ Message(i).payload # Bad
                                /\ UNCHANGED <<args, port>> /\ args # Absent
    <3>1. PICK i \in Indices : /\ sent' = Append(sent, i) /\ Message(i).payload # Bad
                               /\ UNCHANGED args /\ args # Absent
      BY <2>3
    <3>2. args.input_file \in Seq(Messages) /\ Len(args.input_file) \in Nat
      BY <3>1 DEF PubInv, ArgsTyped
    <3>3. i \in Nat /\ i + 1 \in 1 .. Len(args.input_file)
      BY <3>2 DEF Indices
    <3>4. Message(i) \in Messages
      BY <3>2, <3>3, ElementOfSeq DEF Message
    <3>5. Message(i).payload \in Payloads
      BY <3>1, <3>4 DEF Messages
    <3>6. sent \in Seq(Nat)
      BY DEF PubInv, HistoryTyped
    <3>7. \A k \in DOMAIN sent' : (k \in DOMAIN sent /\ sent'[k] = sent[k]) \/ sent'[k] = i
      BY <3>1, <3>3, <3>6, OneMore
    <3> QED
      BY <3>1, <3>5, <3>7 DEF FeedInv, SentArePayloads, Message
  <2> QED
    BY <2>1, <2>2, <2>3, SentGrows
<1>3. ArrivedWereSent'
  BY <1>1, WasSentStays DEF FeedInv, ArrivedWereSent, ArrivalOf
<1>4. ForwardedWereSent'
  BY <1>1, WasSentStays DEF FeedInv, ForwardedWereSent, PackageOf
<1>5. ShownWereSent'
  BY <1>1, WasSentStays DEF FeedInv, ShownWereSent, LineOf
<1> QED
  BY <1>1, <1>2, <1>3, <1>4, <1>5 DEF FeedInv, ServerTyped

\* The network delivers.
LEMMA ArriveFeed ==
  ASSUME PubInv, FeedInv, Arrive
  PROVE  FeedInv'
<1>1. PICK k \in DOMAIN sent :
        udp' = Append(udp, [n |-> arrived + 1, port |-> port, dgram |-> Message(sent[k]).payload])
  BY DEF Arrive
<1>2. UNCHANGED <<args, port, sent, buff, crashed, pattern, toClient, shown>> /\ arrived' = arrived + 1
  BY DEF Arrive, pubVars
<1> DEFINE d == Message(sent[k]).payload
           e == [n |-> arrived + 1, port |-> port, dgram |-> d]
<1>3. d \in Payloads /\ WasSent(d)
  BY DEF FeedInv, SentArePayloads, WasSent
<1>4. udp \in Seq(Arrivals) /\ arrived \in Nat /\ Len(udp) <= arrived
  BY DEF FeedInv, ArrivedWereSent
<1>5. e \in Arrivals /\ ArrivalOf(e, d)
  BY <1>3, <1>4 DEF Arrivals, ArrivalOf, Ports, PubInv, PortTyped
<1>6. udp' = Append(udp, e)
  BY <1>1
<1> HIDE DEF d, e
<1>7. \A x : WasSent(x)' <=> WasSent(x)
  BY <1>2 DEF WasSent, Message
<1>8. /\ udp' \in Seq(Arrivals) /\ Len(udp') = Len(udp) + 1 /\ Len(udp) \in Nat
      /\ \A j \in DOMAIN udp' : (j \in DOMAIN udp /\ udp'[j] = udp[j]) \/ udp'[j] = e
  BY <1>4, <1>5, <1>6, OneMore
<1>9. ASSUME NEW j \in DOMAIN udp'
      PROVE  \E x \in Payloads : WasSent(x) /\ ArrivalOf(udp'[j], x)
  BY <1>3, <1>5, <1>8 DEF FeedInv, ArrivedWereSent
<1>10. ArrivedWereSent'
  <2>1. Len(udp') <= arrived' /\ arrived' \in Nat
    BY <1>2, <1>4, <1>8
  <2> QED
    BY <1>2, <1>7, <1>8, <1>9, <2>1 DEF ArrivedWereSent, ArrivalOf
<1>11. SentArePayloads' /\ ServerTyped'
  BY <1>2 DEF FeedInv, SentArePayloads, Message, ServerTyped
<1>12. ForwardedWereSent' /\ ShownWereSent'
  BY <1>2, <1>7 DEF FeedInv, ForwardedWereSent, ShownWereSent, PackageOf, LineOf
<1> QED
  BY <1>10, <1>11, <1>12 DEF FeedInv

\* Entries that move to another queue, or stay, keep where they come from.
LEMMA OriginsKept ==
  ASSUME UNCHANGED pubVars
  PROVE  /\ port' = port /\ \A d : WasSent(d)' <=> WasSent(d)
         /\ \A x, d : ArrivalOf(x, d)' <=> ArrivalOf(x, d)
         /\ \A x, d : PackageOf(x, d)' <=> PackageOf(x, d)
         /\ \A x, d : LineOf(x, d)' <=> LineOf(x, d)
  BY DEF pubVars, WasSent, Message, ArrivalOf, PackageOf, LineOf

\* One turn of start_server.
LEMMA ReceiveFeed ==
  ASSUME PubInv, FeedInv, ReceiveDatagram
  PROVE  FeedInv'
<1>1. /\ udp # <<>> /\ udp' = Tail(udp) /\ UNCHANGED pubVars
      /\ UNCHANGED <<arrived, crashed, pattern, shown>>
      /\ buff' = RecvFrom(Cleared, Head(udp).dgram.payload)
  BY DEF ReceiveDatagram
<1>2. /\ udp \in Seq(Arrivals) /\ toClient \in Seq(Packages)
      /\ Len(udp) <= arrived /\ arrived \in Nat
  BY DEF FeedInv, ArrivedWereSent, ForwardedWereSent
<1>3. /\ udp' \in Seq(Arrivals) /\ Len(udp') = Len(udp) - 1 /\ Len(udp) \in Nat
      /\ Head(udp) \in Arrivals /\ 1 \in DOMAIN udp /\ Head(udp) = udp[1]
      /\ \A k \in DOMAIN udp' : k + 1 \in DOMAIN udp /\ udp'[k] = udp[k + 1]
  BY <1>1, <1>2, OneLess
<1>4. PICK d \in Payloads : WasSent(d) /\ ArrivalOf(Head(udp), d)
  BY <1>3 DEF FeedInv, ArrivedWereSent
<1>5. d.topic \in Seq(Seq(STRING)) /\ d.type \in STRING /\ d.payload \in Seq(Contents)
  BY PayloadFacts
<1>6. Head(udp).port = port /\ Head(udp).dgram = d /\ Head(udp).n \in Nat /\ Head(udp).port \in Ports
  BY <1>3, <1>4 DEF ArrivalOf, Arrivals
<1>7. buff' = RecvFrom(Cleared, d.payload) /\ buff' \in [Cells -> Contents]
  BY <1>1, <1>5, <1>6, BufferFacts
<1>8. Contents \subseteq Nat
  BY NotificationAssumption DEF Contents
<1>9. ServerTyped'
  BY <1>1, <1>7, <1>8 DEF FeedInv, ServerTyped
<1>10. SentArePayloads'
  BY <1>1 DEF pubVars, FeedInv, SentArePayloads, Message
<1>11. ArrivedWereSent'
  <2>1. Len(udp') <= arrived' /\ arrived' \in Nat
    BY <1>1, <1>2, <1>3
  <2>2. \A k \in DOMAIN udp' : \E x \in Payloads : WasSent(x) /\ ArrivalOf(udp'[k], x)
    BY <1>3 DEF FeedInv, ArrivedWereSent
  <2>3. \A x : WasSent(x)' <=> WasSent(x)
    BY <1>1, OriginsKept
  <2> QED
    BY <1>1, <1>3, <2>1, <2>2, <2>3 DEF ArrivedWereSent, ArrivalOf, pubVars
<1>12. ShownWereSent'
  <2>1. \A x : WasSent(x)' <=> WasSent(x)
    BY <1>1, OriginsKept
  <2> QED
    BY <1>1, <2>1 DEF FeedInv, ShownWereSent, LineOf, pubVars
<1>13. ForwardedWereSent'
  <2>1. \A x : WasSent(x)' <=> WasSent(x)
    BY <1>1, OriginsKept
  <2>2. CASE UNCHANGED toClient
    BY <1>1, <2>1, <2>2 DEF FeedInv, ForwardedWereSent, PackageOf, pubVars
  <2>3. CASE \E p \in Packets(Head(udp), buff') : toClient' = Append(toClient, p)
    <3>1. PICK e \in Packets(Head(udp), buff') : toClient' = Append(toClient, e)
      BY <2>3
    <3>2. PICK p \in SentPayloads(d.type, RecvFrom(Cleared, d.payload)) :
            e = [n |-> Head(udp).n, ip |-> DisplayedIp(Head(udp).port), port |-> port,
                 topic |-> d.topic, type |-> d.type, payload |-> p]
      BY <1>6, <1>7 DEF Packets
    <3>3. p \in Seq(Contents)
      BY <1>7, SentIsCut
    <3>4. e \in Packages
      BY <1>5, <1>6, <3>2, <3>3 DEF Packages
    <3>5. PackageOf(e, d)
      BY <3>2 DEF PackageOf
    <3>6. /\ toClient' \in Seq(Packages)
          /\ \A k \in DOMAIN toClient' :
               (k \in DOMAIN toClient /\ toClient'[k] = toClient[k]) \/ toClient'[k] = e
      BY <1>2, <3>1, <3>4, OneMore
    <3>7. \A k \in DOMAIN toClient' : \E x \in Payloads : WasSent(x) /\ PackageOf(toClient'[k], x)
      BY <1>4, <3>5, <3>6 DEF FeedInv, ForwardedWereSent
    <3> QED
      BY <1>1, <2>1, <3>6, <3>7 DEF ForwardedWereSent, PackageOf, pubVars
  <2> QED
    BY <2>2, <2>3 DEF ReceiveDatagram
<1> QED
  BY <1>9, <1>10, <1>11, <1>12, <1>13 DEF FeedInv

\* Every value that is printed is a sequence of numbers.
LEMMA ValuesAreNumbers ==
  ASSUME NEW type, NEW p \in Seq(Contents)
  PROVE  ShownValue(type, p) \in Seq(Int)
<1>1. Word \in Nat /\ Word > 1 /\ Contents \subseteq Int
  BY NotificationAssumption DEF Contents
<1>2. \A i \in 1 .. 3 : Cell(p, i) \in Contents
  <2>1. Len(p) \in Nat /\ \A i \in 1 .. Len(p) : p[i] \in Contents
    BY LenProperties, ElementOfSeq
  <2> QED
    BY <1>1, <2>1 DEF Cell, Contents
<1>3. CASE type = "INT"
  <2>1. ShownInt(Cell(p, 1), Cell(p, 2)) \in Int
    <3>1. Cell(p, 2) \in 0 .. Word - 1
      BY <1>2 DEF Contents
    <3>2. (Word - Cell(p, 2)) % Word \in Int /\ Cell(p, 2) \in Int
      BY <1>1, <3>1, NegatedModulo
    <3>3. PICK v \in Int : v = IF Cell(p, 1) = 1 THEN (Word - Cell(p, 2)) % Word ELSE Cell(p, 2)
      BY <3>2
    <3>4. ShownInt(Cell(p, 1), Cell(p, 2)) = IF v >= Word \div 2 THEN v - Word ELSE v
      BY <3>3 DEF ShownInt
    <3> QED
      BY <1>1, <3>4
  <2> QED
    BY <1>3, <2>1 DEF ShownValue
<1>4. CASE type = "SHORT_REAL"
  BY <1>1, <1>2, <1>4 DEF ShownValue
<1>5. CASE type = "FLOAT"
  <2>1. RoundToFloat(Cell(p, 2)) \in Int
    BY <1>2, RoundedNear DEF Contents
  <2> QED
    BY <1>1, <1>2, <1>5, <2>1 DEF ShownValue
<1>6. CASE type = "STRING"
  <2>1. ShownValue(type, p) = p
    BY <1>6 DEF ShownValue
  <2>2. p = [i \in 1 .. Len(p) |-> p[i]] /\ Len(p) \in Nat /\ \A i \in 1 .. Len(p) : p[i] \in Int
    BY <1>1, LenProperties, ElementOfSeq
  <2> QED
    BY <2>1, <2>2, IsASeq
<1>7. CASE type \notin Types
  BY <1>7 DEF Types, ShownValue
<1> QED
  BY <1>3, <1>4, <1>5, <1>6, <1>7 DEF Types

\* The subscriber prints.
LEMMA DisplayFeed ==
  ASSUME PubInv, FeedInv, Display
  PROVE  FeedInv'
<1>1. /\ toClient # <<>> /\ toClient' = Tail(toClient) /\ UNCHANGED pubVars
      /\ UNCHANGED <<arrived, udp, buff, crashed, pattern>>
  BY DEF Display
<1>2. toClient \in Seq(Packages) /\ shown \in Seq(Lines)
  BY DEF FeedInv, ForwardedWereSent, ShownWereSent
<1>3. PICK p : p = Head(toClient)
  OBVIOUS
<1>4. /\ toClient' \in Seq(Packages)
      /\ p \in Packages /\ 1 \in DOMAIN toClient /\ p = toClient[1]
      /\ \A k \in DOMAIN toClient' : k + 1 \in DOMAIN toClient /\ toClient'[k] = toClient[k + 1]
  BY <1>1, <1>2, <1>3, OneLess
<1>5. PICK d \in Payloads : WasSent(d) /\ PackageOf(p, d)
  BY <1>4 DEF FeedInv, ForwardedWereSent
<1> DEFINE e == [n |-> p.n, ip |-> p.ip, port |-> p.port, topic |-> p.topic,
                 type |-> p.type, value |-> ShownValue(p.type, p.payload)]
<1>6. shown' = Append(shown, e)
  BY <1>3 DEF Display
<1>7. e \in Lines
  <2>1. ShownValue(p.type, p.payload) \in Seq(Int)
    BY <1>4, ValuesAreNumbers DEF Packages
  <2> QED
    BY <1>4, <2>1 DEF Packages, Lines
<1>8. LineOf(e, d)
  BY <1>5 DEF PackageOf, LineOf
<1> HIDE DEF e
<1>9. /\ shown' \in Seq(Lines)
      /\ \A k \in DOMAIN shown' :
           (k \in DOMAIN shown /\ shown'[k] = shown[k]) \/ shown'[k] = e
  BY <1>2, <1>6, <1>7, OneMore
<1>10. \A x : WasSent(x)' <=> WasSent(x)
  BY <1>1, OriginsKept
<1>11. ShownWereSent'
  <2>1. \A k \in DOMAIN shown' : \E x \in Payloads : WasSent(x) /\ LineOf(shown'[k], x)
    BY <1>5, <1>8, <1>9 DEF FeedInv, ShownWereSent
  <2> QED
    BY <1>1, <1>9, <1>10, <2>1 DEF ShownWereSent, LineOf, pubVars
<1>12. ForwardedWereSent'
  <2>1. \A k \in DOMAIN toClient' : \E x \in Payloads : WasSent(x) /\ PackageOf(toClient'[k], x)
    BY <1>4 DEF FeedInv, ForwardedWereSent
  <2> QED
    BY <1>1, <1>4, <1>10, <2>1 DEF ForwardedWereSent, PackageOf, pubVars
<1>13. ArrivedWereSent'
  BY <1>1, <1>10 DEF FeedInv, ArrivedWereSent, ArrivalOf, pubVars
<1>14. SentArePayloads' /\ ServerTyped'
  BY <1>1 DEF pubVars, FeedInv, SentArePayloads, Message, ServerTyped
<1> QED
  BY <1>11, <1>12, <1>13, <1>14 DEF FeedInv

\* Every step, and the beginning.
LEMMA NextFeed ==
  ASSUME PubInv, FeedInv, [Next]_vars
  PROVE  FeedInv'
<1>1. CASE (PublisherStep \/ TerminalStep) /\ UNCHANGED feedVars
  BY <1>1, PublisherFeed
<1>2. CASE ReceiveCrashes \/ UNCHANGED vars
  <2>1. UNCHANGED pubVars /\ UNCHANGED <<arrived, udp, buff, pattern, toClient, shown>>
        /\ crashed' \in {crashed, TRUE}
    BY <1>2 DEF ReceiveCrashes, vars, feedVars
  <2>2. \A x : WasSent(x)' <=> WasSent(x)
    BY <2>1, OriginsKept
  <2>3. SentArePayloads' /\ ServerTyped'
    BY <2>1 DEF pubVars, FeedInv, SentArePayloads, Message, ServerTyped
  <2>4. ArrivedWereSent' /\ ForwardedWereSent' /\ ShownWereSent'
    BY <2>1, <2>2
    DEF FeedInv, ArrivedWereSent, ForwardedWereSent, ShownWereSent, ArrivalOf, PackageOf, LineOf, pubVars
  <2> QED
    BY <2>3, <2>4 DEF FeedInv
<1>3. CASE Arrive \/ ReceiveDatagram \/ Display
  BY <1>3, ArriveFeed, ReceiveFeed, DisplayFeed
<1> QED
  BY <1>1, <1>2, <1>3 DEF Next, ServerReceives

\* The inductive invariant holds in every reachable state.
LEMMA FeedInvariance == Spec => []FeedInv
<1>1. ASSUME Init PROVE FeedInv
  <2>0. sent = <<>> /\ udp = <<>> /\ toClient = <<>> /\ shown = <<>> /\ arrived = 0
    BY <1>1 DEF Init, PublisherInit
  <2>1. /\ DOMAIN sent = {} /\ DOMAIN udp = {} /\ DOMAIN toClient = {} /\ DOMAIN shown = {}
        /\ Len(udp) = 0
    BY <2>0
  <2>2. udp \in Seq(Arrivals) /\ toClient \in Seq(Packages) /\ shown \in Seq(Lines)
    BY <2>0
  <2>3. ServerTyped
    BY <1>1 DEF Init, ServerTyped, Cleared
  <2> QED
    BY <2>0, <2>1, <2>2, <2>3
    DEF FeedInv, SentArePayloads, ArrivedWereSent, ForwardedWereSent, ShownWereSent
<1> QED
  BY <1>1, NextFeed, PublisherInvariance, PTL DEF Spec

\* Whatever is shown was sent, from this port, on this topic and with the value
\* that its bytes mean, for every input file, every payload and every order in
\* which the network delivers, drops and repeats.
THEOREM ShownWasPublished == Spec => []ShownAsPublished
<1>1. ASSUME FeedInv PROVE ShownAsPublished
  <2> SUFFICES ASSUME NEW k \in DOMAIN shown
               PROVE  \E i \in DOMAIN sent :
                        LET d == Message(sent[i]).payload IN
                          /\ shown[k].port = port /\ shown[k].topic = d.topic
                          /\ shown[k].type = d.type
                          /\ IsMeant(shown[k].value, d.type, d.payload)
    BY DEF ShownAsPublished
  <2>1. PICK d \in Payloads : WasSent(d) /\ LineOf(shown[k], d)
    BY <1>1 DEF FeedInv, ShownWereSent
  <2>2. PICK p \in SentPayloads(d.type, RecvFrom(Cleared, d.payload)) :
          shown[k].value = ShownValue(d.type, p)
    BY <2>1 DEF LineOf
  <2>3. IsMeant(shown[k].value, d.type, d.payload)
    BY <2>2, PayloadFacts, ContentsAreMeant
  <2>4. PICK i \in DOMAIN sent : d = Message(sent[i]).payload
    BY <2>1 DEF WasSent
  <2> QED
    BY <2>1, <2>3, <2>4 DEF LineOf
<1> QED
  BY <1>1, FeedInvariance, PTL

\* The queues between the programs keep their types; what is sent on of a payload
\* of a known type, but for the NUL behind a string, lies in notification.payload,
\* and an INT is always one that %d can print.
THEOREM FeedTypeCorrect == Spec => []FeedTypeOK
<1>1. ASSUME FeedInv PROVE FeedTypeOK
  <2>1. /\ arrived \in Nat /\ Len(udp) <= arrived
        /\ \A k \in DOMAIN udp : udp[k].dgram \in Payloads
        /\ buff \in [Cells -> Nat] /\ crashed \in BOOLEAN /\ pattern \in Patterns
    BY <1>1 DEF FeedInv, ArrivedWereSent, ArrivalOf, ServerTyped
  <2>2. ASSUME NEW k \in DOMAIN toClient, toClient[k].type \in Types
        PROVE  DOMAIN toClient[k].payload \subseteq PayloadArray
    <3>1. PICK d \in Payloads : PackageOf(toClient[k], d)
      BY <1>1 DEF FeedInv, ForwardedWereSent
    <3> DEFINE cells == RecvFrom(Cleared, d.payload)
    <3>2. cells \in [Cells -> Contents] /\ toClient[k].payload \in SentPayloads(d.type, cells)
      BY <3>1, PayloadFacts, BufferFacts DEF PackageOf
    <3> HIDE DEF cells
    <3>3. PICK n \in 0 .. MaxString + 1 :
            /\ toClient[k].payload = SubSeq(cells, 1, n)
            /\ d.type = "INT" => n = 2
            /\ d.type = "SHORT_REAL" => n = 1
            /\ d.type = "FLOAT" => n = 3
            /\ d.type = "STRING" => n <= MaxString
      BY <3>2, SentIsCut
    <3>4. d.type \in {"INT", "SHORT_REAL", "FLOAT", "STRING"}
      BY <2>2, <3>1 DEF PackageOf, Types
    <3>5. MaxString \in Nat /\ MaxString >= 3
      BY NotificationAssumption
    <3>6. n \in Nat /\ n <= MaxString
      BY <3>3, <3>4, <3>5
    <3>7. toClient[k].payload \in Seq(Contents) /\ Len(toClient[k].payload) = n
      BY <3>2, <3>3, CutOfBuffer
    <3>8. DOMAIN toClient[k].payload = 1 .. n
      BY <3>7, LenProperties
    <3> QED
      BY <3>5, <3>6, <3>8 DEF PayloadArray
  <2>3. ASSUME NEW k \in DOMAIN shown, shown[k].type = "INT"
        PROVE  shown[k].value[1] >= -(Word \div 2) /\ shown[k].value[1] < Word \div 2
    <3>1. PICK d \in Payloads : LineOf(shown[k], d)
      BY <1>1 DEF FeedInv, ShownWereSent
    <3> DEFINE cells == RecvFrom(Cleared, d.payload)
    <3>2. cells \in [Cells -> Contents] /\ d.type = "INT"
      BY <2>3, <3>1, PayloadFacts, BufferFacts DEF LineOf
    <3>3. PICK p \in SentPayloads(d.type, cells) : shown[k].value = ShownValue(d.type, p)
      BY <3>1 DEF LineOf
    <3> HIDE DEF cells
    <3>4. shown[k].value = <<ShownInt(Cell(p, 1), Cell(p, 2))>>
      BY <3>2, <3>3 DEF ShownValue
    <3>5. Cell(p, 2) \in 0 .. Word - 1
      <4>1. p \in Seq(Contents)
        BY <3>2, <3>3, SentIsCut
      <4>2. Len(p) \in Nat /\ \A i \in 1 .. Len(p) : p[i] \in Contents
        BY <4>1, LenProperties, ElementOfSeq
      <4>3. Word \in Nat /\ Word > 1
        BY NotificationAssumption
      <4> QED
        BY <4>2, <4>3 DEF Cell, Contents
    <3>6. PICK v : v = ShownInt(Cell(p, 1), Cell(p, 2))
      OBVIOUS
    <3>7. v >= -(Word \div 2) /\ v < Word \div 2
      BY <3>5, <3>6, IntIsShown
    <3> QED
      BY <3>4, <3>6, <3>7
  <2> QED
    BY <2>1, <2>2, <2>3 DEF FeedTypeOK
<1> QED
  BY <1>1, FeedInvariance, PTL

-----------------------------------------------------------------------------
(***************************************************************************)
(* Matching: the regular expression of a pattern, which goes through the   *)
(* characters of both texts, against the matching of levels by levels.     *)
(***************************************************************************)

\* The characters there can be.
Characters == STRING \cup {"/"}

\* Where an atom can end lies inside the text.
LEMMA AtomInText ==
  ASSUME NEW text \in Seq(Characters), NEW c, NEW i \in 0 .. Len(text)
  PROVE  Atom(c, text, i) \in SUBSET (0 .. Len(text))
<1>1. Len(text) \in Nat
  OBVIOUS
<1>2. /\ OneLevel(text, i) \in SUBSET (0 .. Len(text))
      /\ MultiLevel(text, i) \in SUBSET (0 .. Len(text))
  BY <1>1 DEF OneLevel, MultiLevel
<1>3. {j \in {i + 1} : j <= Len(text) /\ c \in {text[j], "."}} \in SUBSET (0 .. Len(text))
  BY <1>1
<1> QED
  BY <1>2, <1>3 DEF Atom

\* The recursion of Ends.
LEMMA EndsRule ==
  ASSUME NEW text \in Seq(Characters), NEW pat \in Seq(Characters), NEW E, E = Ends(text, pat)
  PROVE  /\ E[0] = {0}
         /\ \A k \in 0 .. Len(pat) : E[k] \in SUBSET (0 .. Len(text))
         /\ \A k \in 1 .. Len(pat) : E[k] = UNION {Atom(pat[k], text, i) : i \in E[k - 1]}
<1> DEFINE n == Len(pat)
           S == SUBSET (0 .. Len(text))
           step == [k \in 1 .. n |-> [F \in S |-> UNION {Atom(pat[k], text, i) : i \in F}]]
           Rule(f) == f = [k \in 0 .. n |->
                             IF k = 0 THEN {0} ELSE UNION {Atom(pat[k], text, i) : i \in f[k - 1]}]
<1>1. n \in Nat /\ Len(text) \in Nat
  OBVIOUS
<1>2. \A k \in 1 .. n : \A F \in S :
        step[k][F] = UNION {Atom(pat[k], text, i) : i \in F} /\ step[k][F] \in S
  <2> SUFFICES ASSUME NEW k \in 1 .. n, NEW F \in S
               PROVE  /\ step[k][F] = UNION {Atom(pat[k], text, i) : i \in F}
                      /\ step[k][F] \in S
    OBVIOUS
  <2>1. \A i \in F : Atom(pat[k], text, i) \in S
    BY AtomInText
  <2> QED
    BY <2>1
<1> HIDE DEF step
<1>3. PICK f \in [0 .. n -> S] :
        \A k \in 0 .. n : f[k] = IF k = 0 THEN {0} ELSE step[k][f[k - 1]]
  <2> DEFINE base == {0}
  <2>1. base \in S
    BY <1>1
  <2> HIDE DEF S, n, base
  <2>2. 0 \in Nat /\ 0 <= n /\ \A k \in 0 .. n : k # 0 => k \in 1 .. n
    BY <1>1
  <2>3. \A k \in 0 .. n : k # 0 => \A F \in S : step[k][F] \in S
    BY <1>2, <2>2
  <2>4. \E f : Recursion(f, 0, n, S, base, step)
    BY <1>1, <2>1, <2>2, <2>3, RecursionExists
  <2> QED
    BY <2>4 DEF base, Recursion
<1>4. Rule(f)
  <2>1. ASSUME NEW k \in 0 .. n
        PROVE  f[k] = IF k = 0 THEN {0} ELSE UNION {Atom(pat[k], text, i) : i \in f[k - 1]}
    <3>1. CASE k = 0
      BY <1>3, <3>1
    <3>2. CASE k # 0
      <4>1. k \in 1 .. n /\ k - 1 \in 0 .. n
        BY <1>1, <3>2
      <4>2. f[k - 1] \in S
        BY <1>3, <4>1
      <4> HIDE DEF S, n
      <4> QED
        BY <1>2, <1>3, <3>2, <4>1, <4>2
    <3> QED
      BY <3>1, <3>2
  <2> HIDE DEF S
  <2> QED
    BY <1>3, <2>1
<1>5. E = CHOOSE g : Rule(g)
  BY DEF Ends
<1>6. Rule(E)
  <2> HIDE DEF Rule
  <2> QED
    BY <1>4, <1>5
<1>7. E[0] = {0} /\ \A k \in 1 .. n : E[k] = UNION {Atom(pat[k], text, i) : i \in E[k - 1]}
  <2>1. 0 \in 0 .. n /\ \A k \in 1 .. n : k \in 0 .. n /\ k # 0
    BY <1>1
  <2> HIDE DEF n
  <2> QED
    BY <1>6, <2>1
<1>8. \A k \in 0 .. n : E[k] \in S
  <2> DEFINE T == {k \in Nat : k <= n => E[k] \in S}
  <2>1. 0 \in T
    BY <1>1, <1>7
  <2>2. ASSUME NEW k \in Nat, k \in T PROVE k + 1 \in T
    <3>1. CASE k + 1 <= n
      <4>1. E[k] \in S
        BY <1>1, <2>2, <3>1
      <4>2. k + 1 \in 1 .. n /\ (k + 1) - 1 = k
        BY <1>1, <2>2, <3>1
      <4>3. E[k + 1] = UNION {Atom(pat[k + 1], text, i) : i \in E[k]}
        BY <1>7, <4>2
      <4>4. \A i \in E[k] : Atom(pat[k + 1], text, i) \in S
        BY <4>1, AtomInText
      <4>5. E[k + 1] \in S
        BY <4>3, <4>4
      <4> HIDE DEF S, n
      <4> QED
        BY <2>2, <4>5
    <3> QED
      BY <3>1
  <2>3. \A k \in Nat : k \in T
    <3> HIDE DEF T
    <3> QED
      BY <2>1, <2>2, InductiveSet
  <2> QED
    BY <1>1, <2>3
<1> QED
  BY <1>7, <1>8

\* Where a level can end is inside the topic.
LEMMA LevelInTopic ==
  ASSUME NEW topic \in Seq(Seq(STRING)), NEW level, NEW i \in 0 .. Len(topic)
  PROVE  Level(level, topic, i) \in SUBSET (0 .. Len(topic))
<1>1. Len(topic) \in Nat
  OBVIOUS
<1>2. i + 1 .. Len(topic) \in SUBSET (0 .. Len(topic))
  BY <1>1
<1>3. {j \in {i + 1} : j <= Len(topic) /\ topic[j] # <<>>} \in SUBSET (0 .. Len(topic))
  BY <1>1
<1> QED
  BY <1>1, <1>2, <1>3 DEF Level

\* The recursion of LevelEnds.
LEMMA LevelEndsRule ==
  ASSUME NEW topic \in Seq(Seq(STRING)), NEW pat \in Seq(Seq(STRING)),
         NEW L, L = LevelEnds(topic, pat)
  PROVE  /\ L[0] = {0}
         /\ \A k \in 0 .. Len(pat) : L[k] \in SUBSET (0 .. Len(topic))
         /\ \A k \in 1 .. Len(pat) : L[k] = UNION {Level(pat[k], topic, i) : i \in L[k - 1]}
<1> DEFINE n == Len(pat)
           S == SUBSET (0 .. Len(topic))
           step == [k \in 1 .. n |-> [F \in S |-> UNION {Level(pat[k], topic, i) : i \in F}]]
           Rule(f) == f = [k \in 0 .. n |->
                             IF k = 0 THEN {0} ELSE UNION {Level(pat[k], topic, i) : i \in f[k - 1]}]
<1>1. n \in Nat /\ Len(topic) \in Nat
  OBVIOUS
<1>2. \A k \in 1 .. n : \A F \in S :
        step[k][F] = UNION {Level(pat[k], topic, i) : i \in F} /\ step[k][F] \in S
  <2> SUFFICES ASSUME NEW k \in 1 .. n, NEW F \in S
               PROVE  /\ step[k][F] = UNION {Level(pat[k], topic, i) : i \in F}
                      /\ step[k][F] \in S
    OBVIOUS
  <2>1. \A i \in F : Level(pat[k], topic, i) \in S
    BY LevelInTopic
  <2> QED
    BY <2>1
<1> HIDE DEF step
<1>3. PICK f \in [0 .. n -> S] :
        \A k \in 0 .. n : f[k] = IF k = 0 THEN {0} ELSE step[k][f[k - 1]]
  <2> DEFINE base == {0}
  <2>1. base \in S
    BY <1>1
  <2> HIDE DEF S, n, base
  <2>2. 0 \in Nat /\ 0 <= n /\ \A k \in 0 .. n : k # 0 => k \in 1 .. n
    BY <1>1
  <2>3. \A k \in 0 .. n : k # 0 => \A F \in S : step[k][F] \in S
    BY <1>2, <2>2
  <2>4. \E f : Recursion(f, 0, n, S, base, step)
    BY <1>1, <2>1, <2>2, <2>3, RecursionExists
  <2> QED
    BY <2>4 DEF base, Recursion
<1>4. Rule(f)
  <2>1. ASSUME NEW k \in 0 .. n
        PROVE  f[k] = IF k = 0 THEN {0} ELSE UNION {Level(pat[k], topic, i) : i \in f[k - 1]}
    <3>1. CASE k = 0
      BY <1>3, <3>1
    <3>2. CASE k # 0
      <4>1. k \in 1 .. n /\ k - 1 \in 0 .. n
        BY <1>1, <3>2
      <4>2. f[k - 1] \in S
        BY <1>3, <4>1
      <4> HIDE DEF S, n
      <4> QED
        BY <1>2, <1>3, <3>2, <4>1, <4>2
    <3> QED
      BY <3>1, <3>2
  <2> HIDE DEF S
  <2> QED
    BY <1>3, <2>1
<1>5. L = CHOOSE g : Rule(g)
  BY DEF LevelEnds
<1>6. Rule(L)
  <2> HIDE DEF Rule
  <2> QED
    BY <1>4, <1>5
<1>7. L[0] = {0} /\ \A k \in 1 .. n : L[k] = UNION {Level(pat[k], topic, i) : i \in L[k - 1]}
  <2>1. 0 \in 0 .. n /\ \A k \in 1 .. n : k \in 0 .. n /\ k # 0
    BY <1>1
  <2> HIDE DEF n
  <2> QED
    BY <1>6, <2>1
<1>8. \A k \in 0 .. n : L[k] \in S
  <2> DEFINE T == {k \in Nat : k <= n => L[k] \in S}
  <2>1. 0 \in T
    BY <1>1, <1>7
  <2>2. ASSUME NEW k \in Nat, k \in T PROVE k + 1 \in T
    <3>1. CASE k + 1 <= n
      <4>1. L[k] \in S
        BY <1>1, <2>2, <3>1
      <4>2. k + 1 \in 1 .. n /\ (k + 1) - 1 = k
        BY <1>1, <2>2, <3>1
      <4>3. L[k + 1] = UNION {Level(pat[k + 1], topic, i) : i \in L[k]}
        BY <1>7, <4>2
      <4>4. \A i \in L[k] : Level(pat[k + 1], topic, i) \in S
        BY <4>1, LevelInTopic
      <4>5. L[k + 1] \in S
        BY <4>3, <4>4
      <4> HIDE DEF S, n
      <4> QED
        BY <2>2, <4>5
    <3> QED
      BY <3>1
  <2>3. \A k \in Nat : k \in T
    <3> HIDE DEF T
    <3> QED
      BY <2>1, <2>2, InductiveSet
  <2> QED
    BY <1>1, <2>3
<1> QED
  BY <1>7, <1>8

\* The text u is s and t joined with a slash.
Joins(u, s, t) ==
  /\ u \in Seq(Characters)
  /\ Len(u) = Len(s) + 1 + Len(t) /\ Len(s) <= Len(u)
  /\ \A i \in 1 .. Len(s) : i \in 1 .. Len(u) /\ u[i] = s[i]
  /\ Len(s) + 1 \in 1 .. Len(u) /\ u[Len(s) + 1] = "/"
  /\ \A i \in 1 .. Len(t) : Len(s) + 1 + i \in 1 .. Len(u) /\ u[Len(s) + 1 + i] = t[i]

\* Joining two texts with a slash.
LEMMA JoinTwo ==
  ASSUME NEW s \in Seq(Characters), NEW t \in Seq(Characters)
  PROVE  Joins(s \o <<"/">> \o t, s, t)
<1> DEFINE u == s \o <<"/">> \o t
<1>1. Len(s) \in Nat /\ Len(t) \in Nat
  OBVIOUS
<1> DEFINE slash == <<"/">>
           v == s \o slash
<1>2. slash \in Seq(Characters) /\ Len(slash) = 1 /\ slash[1] = "/"
  <2>1. "/" \in Characters
    BY DEF Characters
  <2> QED
    BY <2>1
<1> HIDE DEF slash
<1>3. /\ v \in Seq(Characters) /\ Len(v) = Len(s) + 1
      /\ \A i \in 1 .. Len(s) : v[i] = s[i]
      /\ v[Len(s) + 1] = "/"
  <2>1. /\ v \in Seq(Characters) /\ Len(v) = Len(s) + Len(slash)
        /\ \A i \in 1 .. Len(s) + Len(slash) :
             v[i] = IF i <= Len(s) THEN s[i] ELSE slash[i - Len(s)]
    BY <1>2, ConcatProperties
  <2> HIDE DEF v
  <2>2. \A i \in 1 .. Len(s) : v[i] = s[i]
    BY <1>1, <1>2, <2>1
  <2>3. v[Len(s) + 1] = slash[1]
    BY <1>1, <1>2, <2>1
  <2> QED
    BY <1>2, <2>1, <2>2, <2>3
<1>4. u = v \o t
  BY DEF slash
<1> HIDE DEF v, u
<1>5. /\ u \in Seq(Characters) /\ Len(u) = Len(v) + Len(t)
       /\ \A i \in 1 .. Len(v) + Len(t) : u[i] = IF i <= Len(v) THEN v[i] ELSE t[i - Len(v)]
  <2>1. /\ v \o t \in Seq(Characters) /\ Len(v \o t) = Len(v) + Len(t)
        /\ \A i \in 1 .. Len(v) + Len(t) :
             (v \o t)[i] = IF i <= Len(v) THEN v[i] ELSE t[i - Len(v)]
    BY <1>3, ConcatProperties
  <2> QED
    BY <1>4, <2>1
<1>6. u \in Seq(Characters) /\ Len(u) = Len(v) + Len(t)
  BY <1>5
<1>7. \A i \in 1 .. Len(v) : u[i] = v[i]
  BY <1>1, <1>3, <1>5
<1>8. \A i \in 1 .. Len(t) : u[Len(v) + i] = t[i]
  <2>1. \A x, y \in Nat : \A i \in 1 .. y :
          x + i \in 1 .. x + y /\ ~(x + i <= x) /\ (x + i) - x = i
    OBVIOUS
  <2>2. Len(v) \in Nat
    BY <1>3, LenProperties
  <2> QED
    BY <1>1, <1>5, <2>1, <2>2
<1>9. Len(s) + 1 \in 1 .. Len(v) /\ \A i \in 1 .. Len(s) : i \in 1 .. Len(v)
  BY <1>1, <1>3
<1>10. \A i \in 1 .. Len(t) : Len(s) + 1 + i \in 1 .. Len(s) + 1 + Len(t)
  BY <1>1
<1>11. /\ Len(u) = Len(s) + 1 + Len(t) /\ Len(s) <= Len(u) /\ Len(s) + 1 \in 1 .. Len(u)
       /\ \A i \in 1 .. Len(s) : i \in 1 .. Len(u)
  BY <1>1, <1>3, <1>6
<1>12. \A i \in 1 .. Len(s) : u[i] = s[i]
  BY <1>3, <1>7, <1>9
<1>13. u[Len(s) + 1] = "/"
  BY <1>3, <1>7, <1>9
<1>14. \A i \in 1 .. Len(t) : u[Len(s) + 1 + i] = t[i]
  BY <1>3, <1>8
<1>15. Joins(u, s, t)
  BY <1>6, <1>10, <1>11, <1>12, <1>13, <1>14 DEF Joins
<1> QED
  BY <1>15 DEF u

\* A text by its levels has a first one, and they are sequences.
LEMMA LevelFacts ==
  ASSUME NEW levels \in LevelTexts
  PROVE  /\ levels \in Seq(Seq(STRING)) /\ Len(levels) \in Nat /\ Len(levels) >= 1
         /\ \A m \in 1 .. Len(levels) :
              /\ levels[m] \in Seq(Characters) /\ Len(levels[m]) \in Nat
              /\ \A i \in 1 .. Len(levels[m]) : levels[m][i] # "/"
<1>1. /\ levels \in Seq(Seq(STRING)) /\ levels # <<>>
      /\ \A m \in DOMAIN levels : "/" \notin Range(levels[m])
  BY DEF LevelTexts
<1>2. Len(levels) \in Nat /\ Len(levels) >= 1 /\ DOMAIN levels = 1 .. Len(levels)
  BY <1>1
<1>3. ASSUME NEW m \in 1 .. Len(levels)
      PROVE  /\ levels[m] \in Seq(Characters) /\ Len(levels[m]) \in Nat
             /\ \A i \in 1 .. Len(levels[m]) : levels[m][i] # "/"
  <2>1. levels[m] \in Seq(STRING)
    BY <1>1, <1>2
  <2>2. DOMAIN levels[m] = 1 .. Len(levels[m]) /\ Len(levels[m]) \in Nat
    BY <2>1
  <2>3. levels[m] \in Seq(Characters)
    <3>1. \A i \in 1 .. Len(levels[m]) : levels[m][i] \in Characters
      BY <2>1 DEF Characters
    <3>2. levels[m] = [i \in 1 .. Len(levels[m]) |-> levels[m][i]]
      BY <2>1
    <3> QED
      BY <2>2, <3>1, <3>2
  <2> QED
    BY <1>1, <1>2, <2>2, <2>3 DEF Range
<1> QED
  BY <1>1, <1>2, <1>3

\* The recursion of Joined.
LEMMA JoinedRule ==
  ASSUME NEW levels \in LevelTexts, NEW T, T = Joined(levels)
  PROVE  /\ T[1] = levels[1]
         /\ \A k \in 1 .. Len(levels) : T[k] \in Seq(Characters)
         /\ \A k \in 2 .. Len(levels) : T[k] = T[k - 1] \o <<"/">> \o levels[k]
<1> DEFINE n == Len(levels)
           S == Seq(Characters)
           step == [k \in 1 .. n |-> [t \in S |-> t \o <<"/">> \o levels[k]]]
           Rule(f) == f = [k \in 1 .. n |->
                             IF k = 1 THEN levels[1] ELSE f[k - 1] \o <<"/">> \o levels[k]]
<1>1. n \in Nat /\ n >= 1 /\ \A k \in 1 .. n : levels[k] \in S
  BY LevelFacts
<1>2. \A k \in 1 .. n : \A t \in S :
        step[k][t] = t \o <<"/">> \o levels[k] /\ step[k][t] \in S
  <2> SUFFICES ASSUME NEW k \in 1 .. n, NEW t \in S
               PROVE  step[k][t] = t \o <<"/">> \o levels[k] /\ step[k][t] \in S
    OBVIOUS
  <2>1. levels[k] \in S
    BY <1>1
  <2>2. t \o <<"/">> \o levels[k] \in S
    BY <2>1, JoinTwo DEF Joins
  <2> QED
    BY <2>2
<1> HIDE DEF step
<1>3. PICK f \in [1 .. n -> S] :
        \A k \in 1 .. n : f[k] = IF k = 1 THEN levels[1] ELSE step[k][f[k - 1]]
  <2>1. 1 \in Nat /\ 1 <= n /\ levels[1] \in S
    BY <1>1
  <2> HIDE DEF S, n
  <2>2. \E f : Recursion(f, 1, n, S, levels[1], step)
    BY <1>1, <1>2, <2>1, RecursionExists
  <2> QED
    BY <2>2 DEF Recursion
<1>4. Rule(f)
  <2>1. ASSUME NEW k \in 1 .. n
        PROVE  f[k] = IF k = 1 THEN levels[1] ELSE f[k - 1] \o <<"/">> \o levels[k]
    <3>1. CASE k = 1
      BY <1>3, <3>1
    <3>2. CASE k # 1
      <4>1. k - 1 \in 1 .. n
        BY <1>1, <3>2
      <4>2. f[k - 1] \in S
        BY <1>3, <4>1
      <4> HIDE DEF S, n
      <4> QED
        BY <1>2, <1>3, <3>2, <4>2
    <3> QED
      BY <3>1, <3>2
  <2> HIDE DEF S
  <2> QED
    BY <1>3, <2>1
<1>5. T = CHOOSE g : Rule(g)
  BY DEF Joined
<1>6. Rule(T)
  <2> HIDE DEF Rule
  <2> QED
    BY <1>4, <1>5
<1>7. T[1] = levels[1] /\ \A k \in 2 .. n : T[k] = T[k - 1] \o <<"/">> \o levels[k]
  <2>1. 1 \in 1 .. n /\ \A k \in 2 .. n : k \in 1 .. n /\ k # 1
    BY <1>1
  <2> HIDE DEF n
  <2> QED
    BY <1>6, <2>1
<1>8. \A k \in 1 .. n : T[k] \in S
  <2> DEFINE P == {k \in Nat : k \in 1 .. n => T[k] \in S}
  <2>1. 0 \in P
    OBVIOUS
  <2>2. ASSUME NEW k \in Nat, k \in P PROVE k + 1 \in P
    <3>1. CASE k + 1 \in 1 .. n
      <4>1. CASE k = 0
        BY <1>1, <1>7, <4>1
      <4>2. CASE k # 0
        <5>1. k \in 1 .. n /\ k + 1 \in 2 .. n /\ (k + 1) - 1 = k
          BY <1>1, <2>2, <3>1, <4>2
        <5>2. T[k] \in S /\ levels[k + 1] \in S
          BY <1>1, <2>2, <3>1, <5>1
        <5>3. T[k + 1] = T[k] \o <<"/">> \o levels[k + 1]
          BY <1>7, <5>1
        <5>4. T[k + 1] \in S
          BY <5>2, <5>3, JoinTwo DEF Joins
        <5> HIDE DEF S, n
        <5> QED
          BY <2>2, <5>4
      <4> QED
        BY <4>1, <4>2
    <3> QED
      BY <3>1
  <2>3. \A k \in Nat : k \in P
    <3> HIDE DEF P
    <3> QED
      BY <2>1, <2>2, InductiveSet
  <2> QED
    BY <1>1, <2>3
<1> QED
  BY <1>7, <1>8

\* The places of the levels in a text: e[m] is where level m ends, and a slash
\* follows; the text begins as if one came before it.
Layout(e, text, levels) ==
  LET n == Len(levels) IN
    /\ e \in [0 .. n -> Int] /\ e[0] = -1 /\ e[n] = Len(text)
    /\ \A m \in 1 .. n : e[m] = e[m - 1] + 1 + Len(levels[m])
    /\ \A m \in 1 .. n : \A i \in 1 .. Len(levels[m]) : text[e[m - 1] + 1 + i] = levels[m][i]
    /\ \A m \in 1 .. n : m < n => text[e[m] + 1] = "/"

\* The text u begins with t.
BeginsWith(u, t) == Len(t) <= Len(u) /\ \A j \in 1 .. Len(t) : u[j] = t[j]

\* What is joined later leaves what came before in its place.
LEMMA JoinedPrefix ==
  ASSUME NEW levels \in LevelTexts, NEW T, T = Joined(levels),
         NEW m \in 1 .. Len(levels), NEW k \in m .. Len(levels)
  PROVE  BeginsWith(T[k], T[m])
<1> DEFINE n == Len(levels)
           Keeps(l) == BeginsWith(T[l], T[m])
           P == {l \in Nat : l \in m .. n => Keeps(l)}
<1>1. n \in Nat /\ m \in Nat /\ m >= 1
  BY LevelFacts
<1>2. \A l \in 1 .. n : T[l] \in Seq(Characters) /\ Len(T[l]) \in Nat
  BY JoinedRule, LenProperties
<1>3. Keeps(m)
  BY <1>2 DEF BeginsWith
<1>4. ASSUME NEW l \in m .. n, l + 1 <= n, Keeps(l) PROVE Keeps(l + 1)
  <2>1. l \in 1 .. n /\ l + 1 \in 2 .. n /\ l + 1 \in 1 .. n /\ (l + 1) - 1 = l
    BY <1>1, <1>4
  <2>2. T[l + 1] = T[l] \o <<"/">> \o levels[l + 1] /\ levels[l + 1] \in Seq(Characters)
    <3>1. levels[l + 1] \in Seq(Characters)
      BY <2>1, LevelFacts
    <3>2. \A x \in 2 .. n : T[x] = T[x - 1] \o <<"/">> \o levels[x]
      BY JoinedRule
    <3>3. PICK x : x = l + 1
      OBVIOUS
    <3>4. x \in 2 .. n /\ x - 1 = l
      BY <2>1, <3>3
    <3> QED
      BY <3>1, <3>2, <3>3, <3>4
  <2>3. Joins(T[l + 1], T[l], levels[l + 1])
    BY <1>2, <2>1, <2>2, JoinTwo
  <2>4. Len(T[l + 1]) \in Nat /\ Len(T[l]) \in Nat /\ Len(T[m]) \in Nat
    BY <1>2, <2>1
  <2>5. Len(T[m]) <= Len(T[l]) /\ Len(T[l]) <= Len(T[l + 1])
    BY <1>4, <2>3 DEF Joins, BeginsWith
  <2>6. Len(T[m]) <= Len(T[l + 1]) /\ \A j \in 1 .. Len(T[m]) : j \in 1 .. Len(T[l])
    BY <2>4, <2>5
  <2>7. \A j \in 1 .. Len(T[m]) : T[l + 1][j] = T[m][j]
    BY <1>4, <2>3, <2>6 DEF Joins, BeginsWith
  <2> QED
    BY <2>6, <2>7 DEF BeginsWith
<1> HIDE DEF Keeps
<1>5. 0 \in P
  BY <1>1
<1>6. ASSUME NEW l \in Nat, l \in P PROVE l + 1 \in P
  <2>1. CASE l \in m .. n /\ l + 1 <= n
    BY <1>4, <1>6, <2>1
  <2>2. CASE l + 1 = m
    BY <1>3, <2>2
  <2>3. CASE l + 1 \notin m .. n
    BY <2>3
  <2>4. (l \in m .. n /\ l + 1 <= n) \/ l + 1 = m \/ l + 1 \notin m .. n
    BY <1>1
  <2> QED
    BY <2>1, <2>2, <2>3, <2>4
<1>7. k \in Nat /\ k \in m .. n
  BY <1>1
<1>8. k \in P
  <2> HIDE DEF P
  <2> QED
    BY <1>5, <1>6, <1>7, InductiveSet
<1> QED
  BY <1>7, <1>8 DEF Keeps

\* Every text has a layout.
LEMMA LayoutExists ==
  ASSUME NEW levels \in LevelTexts
  PROVE  Text(levels) \in Seq(Characters) /\ \E e : Layout(e, Text(levels), levels)
<1> DEFINE n == Len(levels)
           T == Joined(levels)
           text == Text(levels)
           e == [m \in 0 .. n |-> IF m = 0 THEN -1 ELSE Len(T[m])]
<1>1. /\ n \in Nat /\ n >= 1 /\ n \in 1 .. n
      /\ \A m \in 1 .. n : levels[m] \in Seq(Characters) /\ Len(levels[m]) \in Nat
  BY LevelFacts
<1>2. T[1] = levels[1] /\ \A m \in 1 .. n : T[m] \in Seq(Characters) /\ Len(T[m]) \in Nat
  BY JoinedRule, LenProperties
<1>3. ASSUME NEW m \in 2 .. n PROVE Joins(T[m], T[m - 1], levels[m])
  <2>1. m \in 1 .. n /\ m - 1 \in 1 .. n
    BY <1>1
  <2>2. T[m] = T[m - 1] \o <<"/">> \o levels[m]
    BY JoinedRule
  <2>3. T[m - 1] \in Seq(Characters) /\ levels[m] \in Seq(Characters)
    BY <1>1, <1>2, <2>1
  <2> HIDE DEF T, n
  <2> QED
    BY <2>2, <2>3, JoinTwo
<1>4. text = T[n]
  BY DEF Text
<1>5. \A m \in 1 .. n : \A j \in 1 .. Len(T[m]) : text[j] = T[m][j]
  <2> SUFFICES ASSUME NEW m \in 1 .. n PROVE \A j \in 1 .. Len(T[m]) : T[n][j] = T[m][j]
    BY <1>4
  <2>1. n \in m .. n
    BY <1>1
  <2>2. PICK J : J = Joined(levels)
    OBVIOUS
  <2>3. BeginsWith(J[n], J[m])
    BY <2>1, <2>2, JoinedPrefix
  <2> QED
    BY <2>2, <2>3 DEF BeginsWith
<1> HIDE DEF T, text
<1>6. e \in [0 .. n -> Int] /\ e[0] = -1 /\ e[n] = Len(text) /\ \A m \in 1 .. n : e[m] = Len(T[m])
  <2>1. \A m \in 1 .. n : m \in 0 .. n /\ m # 0 /\ Len(T[m]) \in Int
    BY <1>1, <1>2
  <2>2. 0 \in 0 .. n /\ -1 \in Int
    BY <1>1
  <2>3. e \in [0 .. n -> Int]
    <3>1. \A m \in 0 .. n : m # 0 => m \in 1 .. n
      BY <1>1
    <3> HIDE DEF n
    <3> QED
      BY <2>1, <2>2, <3>1
  <2>4. e[0] = -1 /\ \A m \in 1 .. n : e[m] = Len(T[m])
    <3> HIDE DEF n
    <3> QED
      BY <2>1, <2>2
  <2> HIDE DEF e, n
  <2> QED
    BY <1>1, <1>4, <2>3, <2>4
<1> HIDE DEF e
<1>7. ASSUME NEW m \in 1 .. n
      PROVE  /\ e[m] = e[m - 1] + 1 + Len(levels[m])
             /\ \A i \in 1 .. Len(levels[m]) : text[e[m - 1] + 1 + i] = levels[m][i]
  <2>1. CASE m = 1
    <3>1. e[m - 1] = -1 /\ e[m] = Len(levels[1])
      BY <1>1, <1>2, <1>6, <2>1
    <3>2. \A i \in 1 .. Len(levels[1]) : text[i] = levels[1][i]
      BY <1>1, <1>2, <1>5, <2>1
    <3>3. \A i \in 1 .. Len(levels[1]) : -1 + 1 + i = i
      OBVIOUS
    <3> QED
      BY <1>1, <2>1, <3>1, <3>2, <3>3
  <2>2. CASE m # 1
    <3>1. m \in 2 .. n /\ m - 1 \in 1 .. n
      BY <1>1, <2>2
    <3>2. e[m] = Len(T[m]) /\ e[m - 1] = Len(T[m - 1]) /\ Len(T[m - 1]) \in Nat
      BY <1>2, <1>6, <3>1
    <3>3. Joins(T[m], T[m - 1], levels[m])
      BY <1>3, <3>1
    <3>4. \A i \in 1 .. Len(levels[m]) : text[Len(T[m - 1]) + 1 + i] = levels[m][i]
      BY <1>5, <3>3 DEF Joins
    <3> QED
      BY <3>2, <3>3, <3>4 DEF Joins
  <2> QED
    BY <2>1, <2>2
<1>8. ASSUME NEW m \in 1 .. n, m < n PROVE text[e[m] + 1] = "/"
  <2>1. m + 1 \in 2 .. n /\ m + 1 \in 1 .. n /\ (m + 1) - 1 = m
    BY <1>1, <1>8
  <2>2. e[m] = Len(T[m]) /\ Joins(T[m + 1], T[m], levels[m + 1])
    BY <1>3, <1>6, <2>1
  <2>3. PICK x : x = Len(T[m]) + 1
    OBVIOUS
  <2>4. x \in 1 .. Len(T[m + 1]) /\ T[m + 1][x] = "/"
    BY <2>2, <2>3 DEF Joins
  <2>5. text[x] = "/"
    BY <1>5, <2>1, <2>4
  <2> QED
    BY <2>2, <2>3, <2>5
<1>9. Layout(e, text, levels)
  BY <1>6, <1>7, <1>8 DEF Layout
<1> QED
  BY <1>1, <1>2, <1>4, <1>9 DEF text

\* Later levels end later.
LEMMA LayoutOrder ==
  ASSUME NEW levels \in LevelTexts, NEW text, NEW e, Layout(e, text, levels),
         NEW m \in 0 .. Len(levels), NEW l \in m + 1 .. Len(levels)
  PROVE  e[m] < e[l]
<1> DEFINE n == Len(levels)
           P == {k \in Nat : k \in m + 1 .. n => e[m] < e[k]}
<1>1. n \in Nat /\ m \in Nat /\ l \in Nat /\ l \in m + 1 .. n
  BY LevelFacts
<1>2. 0 \in P
  BY <1>1
<1>3. ASSUME NEW k \in Nat, k \in P PROVE k + 1 \in P
  <2>1. CASE k + 1 \in m + 1 .. n
    <3>1. k + 1 \in 1 .. n /\ (k + 1) - 1 = k /\ k \in 0 .. n /\ (k = m \/ k \in m + 1 .. n)
      BY <1>1, <2>1
    <3>2. e[k + 1] = e[k] + 1 + Len(levels[k + 1]) /\ e[k] \in Int /\ e[m] \in Int
      BY <1>1, <3>1 DEF Layout
    <3>3. Len(levels[k + 1]) \in Nat
      BY <3>1, LevelFacts
    <3>4. e[m] <= e[k]
      BY <1>3, <3>1, <3>2
    <3>5. e[m] < e[k + 1]
      BY <3>2, <3>3, <3>4
    <3> QED
      BY <1>3, <3>5
  <2>2. CASE k + 1 \notin m + 1 .. n
    BY <1>3, <2>2
  <2> QED
    BY <2>1, <2>2
<1>4. l \in P
  <2> HIDE DEF P
  <2> QED
    BY <1>1, <1>2, <1>3, InductiveSet
<1> QED
  BY <1>1, <1>4

\* What a layout says, with the range of its places.
Places(e, text, levels) ==
  LET n == Len(levels) IN
    /\ n \in Nat /\ n >= 1 /\ Len(text) \in Nat /\ e[0] = -1 /\ e[n] = Len(text)
    /\ \A m \in 0 .. n : e[m] \in Int /\ -1 <= e[m] /\ e[m] <= Len(text)
    /\ \A m \in 0 .. n : \A l \in m + 1 .. n : e[m] < e[l]
    /\ \A m \in 1 .. n : Len(levels[m]) \in Nat /\ e[m] = e[m - 1] + 1 + Len(levels[m])
    /\ \A m \in 1 .. n : \A i \in 1 .. Len(levels[m]) :
         text[e[m - 1] + 1 + i] = levels[m][i] /\ text[e[m - 1] + 1 + i] # "/"
    /\ \A m \in 1 .. n : m < n => text[e[m] + 1] = "/"

LEMMA LayoutFacts ==
  ASSUME NEW levels \in LevelTexts, NEW text \in Seq(Characters), NEW e, Layout(e, text, levels)
  PROVE  Places(e, text, levels)
<1> DEFINE n == Len(levels)
<1>1. n \in Nat /\ n >= 1 /\ Len(text) \in Nat
  BY LevelFacts
<1>2. /\ \A m \in 0 .. n : e[m] \in Int
      /\ e[0] = -1 /\ e[n] = Len(text)
      /\ \A m \in 1 .. n : e[m] = e[m - 1] + 1 + Len(levels[m])
      /\ \A m \in 1 .. n : \A i \in 1 .. Len(levels[m]) : text[e[m - 1] + 1 + i] = levels[m][i]
      /\ \A m \in 1 .. n : m < n => text[e[m] + 1] = "/"
  BY DEF Layout
<1>3. \A m \in 0 .. n : \A l \in m + 1 .. n : e[m] < e[l]
  BY LayoutOrder
<1>4. ASSUME NEW m \in 0 .. n PROVE -1 <= e[m] /\ e[m] <= Len(text)
  <2>1. m = 0 \/ (m \in 0 + 1 .. n /\ 0 \in 0 .. n)
    BY <1>1
  <2>2. m = n \/ n \in m + 1 .. n
    BY <1>1
  <2>3. e[0] <= e[m]
    BY <1>2, <1>3, <2>1
  <2>4. e[m] <= e[n]
    BY <1>1, <1>2, <1>3, <2>2
  <2> QED
    BY <1>2, <2>3, <2>4
<1>5. \A m \in 1 .. n : Len(levels[m]) \in Nat /\ \A i \in 1 .. Len(levels[m]) : levels[m][i] # "/"
  BY LevelFacts
<1> QED
  BY <1>1, <1>2, <1>3, <1>4, <1>5 DEF Places

\* The levels end where the text ends or a slash follows, and nowhere else.
LEMMA Boundaries ==
  ASSUME NEW levels \in LevelTexts, NEW text \in Seq(Characters), NEW e, Layout(e, text, levels),
         NEW j \in 0 .. Len(text)
  PROVE  j = Len(text) \/ text[j + 1] = "/" <=> \E m \in 1 .. Len(levels) : e[m] = j
<1> DEFINE n == Len(levels)
           P == {m \in 0 .. n : j <= e[m]}
<1>1. n \in Nat /\ n >= 1 /\ Len(text) \in Nat /\ j \in Nat
  BY LevelFacts
<1>2. /\ \A m \in 0 .. n : e[m] \in Int
      /\ e[0] = -1 /\ e[n] = Len(text)
      /\ \A m \in 1 .. n : e[m] = e[m - 1] + 1 + Len(levels[m])
      /\ \A m \in 1 .. n : \A i \in 1 .. Len(levels[m]) : text[e[m - 1] + 1 + i] = levels[m][i]
      /\ \A m \in 1 .. n : m < n => text[e[m] + 1] = "/"
  BY DEF Layout
<1>3. ASSUME NEW m \in 1 .. n, e[m] = j PROVE j = Len(text) \/ text[j + 1] = "/"
  <2>1. m = n \/ m < n
    BY <1>1
  <2> QED
    BY <1>2, <1>3, <2>1
<1>4. ASSUME j = Len(text) \/ text[j + 1] = "/" PROVE \E m \in 1 .. n : e[m] = j
  <2>1. n \in P /\ P \in SUBSET Nat
    BY <1>1, <1>2
  <2>2. PICK m \in P : \A k \in P : m <= k
    <3> HIDE DEF P
    <3> QED
      BY <2>1, SmallestElement
  <2>3. m \in 1 .. n /\ m - 1 \in 0 .. n /\ j <= e[m]
    BY <1>1, <1>2, <2>2
  <2>4. e[m - 1] \in Int /\ e[m] \in Int /\ Len(levels[m]) \in Nat
    BY <1>2, <2>3, LevelFacts
  <2>5. e[m - 1] < j
    <3>1. m - 1 \notin P
      BY <1>1, <2>2, <2>3
    <3>2. ~(j <= e[m - 1])
      BY <2>3, <3>1
    <3> QED
      BY <1>1, <2>4, <3>2
  <2>6. ASSUME j # e[m] PROVE FALSE
    <3> DEFINE i == j - e[m - 1]
    <3>1. i \in 1 .. Len(levels[m]) /\ e[m - 1] + 1 + i = j + 1
      <4>1. e[m] = e[m - 1] + 1 + Len(levels[m])
        BY <1>2, <2>3
      <4>2. j < e[m - 1] + 1 + Len(levels[m])
        BY <1>1, <2>3, <2>4, <2>6, <4>1
      <4>3. \A x \in Int, y, z \in Nat :
              x < z /\ z < x + 1 + y => z - x \in 1 .. y /\ x + 1 + (z - x) = z + 1
        OBVIOUS
      <4> QED
        BY <1>1, <2>4, <2>5, <4>2, <4>3
    <3>2. text[j + 1] = levels[m][i]
      <4> HIDE DEF i
      <4> QED
        BY <1>2, <2>3, <3>1
    <3>3. levels[m][i] # "/"
      <4> HIDE DEF i
      <4> QED
        BY <2>3, <3>1, LevelFacts
    <3>4. j # Len(text)
      <4>1. CASE m = n
        BY <1>2, <2>6, <4>1
      <4>2. CASE m # n
        <5>1. n \in m + 1 .. n /\ m \in 0 .. n
          BY <1>1, <2>3, <4>2
        <5>2. e[m] < e[n]
          BY <5>1, LayoutOrder
        <5> QED
          BY <1>1, <1>2, <2>3, <2>4, <5>2
      <4> QED
        BY <4>1, <4>2
    <3> QED
      BY <1>4, <3>2, <3>3, <3>4
  <2> QED
    BY <2>3, <2>6
<1> QED
  BY <1>3, <1>4

\* F are the places in the text where a level can begin after the levels L ...
Begins(F, L, e, n) == \A j : j \in F <=> \E m \in L : m < n /\ j = e[m] + 1

\* ... and of the places F, those at the end of a level are the ends of L.
EndsOf(F, L, e, n) == \A m \in 1 .. n : e[m] \in F <=> m \in L

\* A slash in the pattern takes the ends of levels to the beginnings of the next.
LEMMA SlashBegins ==
  ASSUME NEW levels \in LevelTexts, NEW text \in Seq(Characters), NEW e, Layout(e, text, levels),
         NEW F \in SUBSET (0 .. Len(text)), NEW L \in SUBSET (1 .. Len(levels)),
         EndsOf(F, L, e, Len(levels))
  PROVE  Begins(UNION {Atom("/", text, i) : i \in F}, L, e, Len(levels))
<1> DEFINE n == Len(levels)
           G == UNION {Atom("/", text, i) : i \in F}
<1>1. n \in Nat /\ n >= 1 /\ Len(text) \in Nat
  BY LevelFacts
<1>2. /\ \A m \in 1 .. n : e[m] \in Int
      /\ e[n] = Len(text)
      /\ \A m \in 1 .. n : m < n => text[e[m] + 1] = "/"
  <2>1. e \in [0 .. n -> Int] /\ \A m \in 1 .. n : m \in 0 .. n
    BY <1>1 DEF Layout
  <2>2. e[n] = Len(text) /\ \A m \in 1 .. n : m < n => text[e[m] + 1] = "/"
    BY DEF Layout
  <2> QED
    BY <2>1, <2>2
<1>3. \A m \in 1 .. n : m < n => e[m] < Len(text)
  <2> SUFFICES ASSUME NEW m \in 1 .. n, m < n PROVE e[m] < e[n]
    BY <1>2
  <2>1. m \in 0 .. n /\ n \in m + 1 .. n
    BY <1>1
  <2> QED
    BY <2>1, LayoutOrder
<1>4. \A i \in F : Atom("/", text, i) = {j \in {i + 1} : j <= Len(text) /\ "/" \in {text[j], "."}}
  BY DEF Atom
<1>5. ASSUME NEW j \in G PROVE \E m \in L : m < n /\ j = e[m] + 1
  <2>1. PICK i \in F : j = i + 1 /\ j <= Len(text) /\ text[i + 1] = "/"
    BY <1>4
  <2>2. i \in 0 .. Len(text) /\ i # Len(text)
    BY <1>1, <2>1
  <2>3. PICK m \in 1 .. n : e[m] = i
    BY <2>1, <2>2, Boundaries
  <2>4. m \in L /\ m # n
    BY <1>2, <2>1, <2>2, <2>3 DEF EndsOf
  <2> QED
    BY <1>1, <2>1, <2>3, <2>4
<1>6. ASSUME NEW m \in L, m < n PROVE e[m] + 1 \in G
  <2>1. m \in 1 .. n /\ e[m] \in F /\ e[m] \in Int /\ e[m] < Len(text)
    BY <1>2, <1>3, <1>6 DEF EndsOf
  <2>2. text[e[m] + 1] = "/" /\ e[m] + 1 <= Len(text)
    BY <1>1, <1>2, <1>6, <2>1
  <2>3. e[m] + 1 \in Atom("/", text, e[m])
    BY <1>4, <2>1, <2>2
  <2> QED
    BY <2>1, <2>3
<1> HIDE DEF G
<1> QED
  BY <1>5, <1>6 DEF Begins, G

\* The end of a level that follows a beginning without a slash between them is
\* the end of the level that begins there.
LEMMA SameLevel ==
  ASSUME NEW levels \in LevelTexts, NEW text \in Seq(Characters), NEW e, Layout(e, text, levels),
         NEW i \in 0 .. Len(levels), i < Len(levels), NEW m \in 1 .. Len(levels),
         e[i] + 1 <= e[m], \A k \in e[i] + 2 .. e[m] : text[k] # "/"
  PROVE  m = i + 1
<1> DEFINE n == Len(levels)
<1>1. /\ n \in Nat /\ i + 1 \in 1 .. n /\ i + 1 \in i + 1 .. n /\ (i + 1) - 1 = i
      /\ i + 1 \in 0 .. n /\ m \in 0 .. n
  BY LevelFacts
<1>2. e[i] \in Int /\ e[m] \in Int /\ e[i + 1] \in Int /\ e[i] < e[i + 1]
  <2>1. Places(e, text, levels)
    BY LayoutFacts
  <2>2. \A l \in 0 .. n : e[l] \in Int
    BY <2>1 DEF Places
  <2>3. e[i] < e[i + 1]
    BY <1>1, <2>1 DEF Places
  <2> QED
    BY <1>1, <2>2, <2>3
<1>3. ASSUME m <= i PROVE FALSE
  <2>1. m = i \/ i \in m + 1 .. n
    BY <1>1, <1>3
  <2>2. e[m] <= e[i]
    BY <1>1, <1>2, <2>1, LayoutFacts DEF Places
  <2> QED
    BY <1>2, <2>2
<1>4. ASSUME m > i + 1 PROVE FALSE
  <2>1. m \in (i + 1) + 1 .. n /\ i + 1 < n
    BY <1>1, <1>4
  <2>2. e[i + 1] < e[m] /\ text[e[i + 1] + 1] = "/"
    BY <1>1, <2>1, LayoutFacts DEF Places
  <2>3. e[i + 1] + 1 \in e[i] + 2 .. e[m]
    <3>1. \A x, y, z \in Int : x < y /\ y < z => y + 1 \in x + 2 .. z
      OBVIOUS
    <3> QED
      BY <1>2, <2>2, <3>1
  <2> QED
    BY <2>2, <2>3
<1> QED
  BY <1>1, <1>3, <1>4

\* "[^/]+" goes from one place to another if there is no slash between them.
LEMMA OneLevelPlaces ==
  ASSUME NEW text \in Seq(Characters), NEW i \in 0 .. Len(text), NEW j \in 0 .. Len(text)
  PROVE  j \in OneLevel(text, i) <=> i < j /\ \A k \in i + 1 .. j : text[k] # "/"
<1>1. Len(text) \in Nat
  OBVIOUS
<1> SUFFICES ASSUME i < j
             PROVE  "/" \notin Range(SubSeq(text, i + 1, j)) <=> \A k \in i + 1 .. j : text[k] # "/"
  BY <1>1 DEF OneLevel
<1> DEFINE q == SubSeq(text, i + 1, j)
<1>2. DOMAIN q = 1 .. j - i /\ \A l \in 1 .. j - i : q[l] = text[i + l]
  <2>1. i + 1 \in Int /\ j \in Int /\ \A k \in i + 1 .. j : text[k] \in Characters
    BY <1>1
  <2>2. /\ q \in Seq(Characters) /\ Len(q) = IF i + 1 <= j THEN j - (i + 1) + 1 ELSE 0
        /\ \A l \in 1 .. j - (i + 1) + 1 : q[l] = text[(i + 1) + l - 1]
    BY <2>1, SubSeqProperties
  <2> HIDE DEF q
  <2>3. j - (i + 1) + 1 = j - i /\ \A l \in 1 .. j - i : (i + 1) + l - 1 = i + l
    BY <1>1
  <2>4. Len(q) = j - i /\ \A l \in 1 .. j - i : q[l] = text[i + l]
    BY <1>1, <2>2, <2>3
  <2> QED
    BY <2>2, <2>4
<1>3. \A k \in i + 1 .. j : k - i \in 1 .. j - i /\ i + (k - i) = k
  OBVIOUS
<1>4. \A l \in 1 .. j - i : i + l \in i + 1 .. j
  OBVIOUS
<1> HIDE DEF q
<1>5. "/" \notin Range(q) <=> \A l \in 1 .. j - i : q[l] # "/"
  BY <1>2 DEF Range
<1>6. (\A l \in 1 .. j - i : q[l] # "/") <=> \A k \in i + 1 .. j : text[k] # "/"
  BY <1>2, <1>3, <1>4
<1> QED
  BY <1>5, <1>6 DEF q

\* "+" takes a beginning to the end of the level, unless the level is empty.
LEMMA PlusEnds ==
  ASSUME NEW levels \in LevelTexts, NEW text \in Seq(Characters), NEW e, Layout(e, text, levels),
         NEW F, NEW L \in SUBSET (0 .. Len(levels)), Begins(F, L, e, Len(levels))
  PROVE  EndsOf(UNION {Atom("+", text, i) : i \in F}, UNION {Level(<<"+">>, levels, i) : i \in L},
                e, Len(levels))
<1> DEFINE n == Len(levels)
           G == UNION {Atom("+", text, i) : i \in F}
           M == UNION {Level(<<"+">>, levels, i) : i \in L}
<1>1. n \in Nat /\ n >= 1 /\ Len(text) \in Nat /\ \A m \in 0 .. n : e[m] \in Int
  BY LayoutFacts DEF Places
<1>2. \A i : Atom("+", text, i) = OneLevel(text, i)
  BY DEF Atom
<1>3. \A i : Level(<<"+">>, levels, i) = {j \in {i + 1} : j <= n /\ levels[j] # <<>>}
  BY DEF Level
<1>4. \A i \in L : i \in 0 .. n
  OBVIOUS
<1>5. \A i \in L : i < n => e[i] + 1 \in F
  BY DEF Begins
<1>6. \A j \in F : \E i \in L : i < n /\ j = e[i] + 1
  BY DEF Begins
<1>7. ASSUME NEW i \in 0 .. n, i < n, NEW m \in 1 .. n
      PROVE  e[m] \in OneLevel(text, e[i] + 1) <=> m = i + 1 /\ levels[m] # <<>>
  <2>1. i + 1 \in 1 .. n /\ (i + 1) - 1 = i /\ i + 1 \in 0 .. n /\ m \in 0 .. n /\ i + 1 \in i + 1 .. n
    BY <1>1, <1>7
  <2>2. /\ -1 <= e[i] /\ e[i] \in Int /\ e[i + 1] \in Int /\ e[i + 1] <= Len(text)
        /\ e[m] \in Int /\ e[m] <= Len(text) /\ e[i] < e[i + 1]
    <3>1. Places(e, text, levels)
      BY LayoutFacts
    <3>2. \A l \in 0 .. n : e[l] \in Int /\ -1 <= e[l] /\ e[l] <= Len(text)
      BY <3>1 DEF Places
    <3>3. e[i] < e[i + 1]
      BY <2>1, <3>1 DEF Places
    <3> QED
      BY <2>1, <3>2, <3>3
  <2>3. /\ e[i + 1] = e[i] + 1 + Len(levels[i + 1]) /\ Len(levels[i + 1]) \in Nat
        /\ levels[i + 1] \in Seq(Characters)
    <3>1. levels[i + 1] \in Seq(Characters)
      BY <2>1, LevelFacts
    <3>2. PICK l : l = i + 1
      OBVIOUS
    <3>3. Places(e, text, levels) /\ l \in 1 .. n /\ l - 1 = i
      BY <2>1, <3>2, LayoutFacts
    <3>4. e[l] = e[l - 1] + 1 + Len(levels[l]) /\ Len(levels[l]) \in Nat
      BY <3>3 DEF Places
    <3> QED
      BY <3>1, <3>2, <3>3, <3>4
  <2>4. e[m] >= 0
    <3>1. m \in 0 + 1 .. n /\ 0 \in 0 .. n
      BY <1>1
    <3>2. e[0] < e[m] /\ e[0] = -1
      BY <3>1, LayoutFacts DEF Places
    <3> QED
      BY <2>2, <3>2
  <2>5. e[i] + 1 \in 0 .. Len(text) /\ e[m] \in 0 .. Len(text)
    BY <1>1, <2>2, <2>4
  <2>6. e[m] \in OneLevel(text, e[i] + 1)
          <=> e[i] + 1 < e[m] /\ \A k \in e[i] + 1 + 1 .. e[m] : text[k] # "/"
    BY <2>5, OneLevelPlaces
  <2>7. ASSUME m = i + 1, levels[m] # <<>> PROVE e[m] \in OneLevel(text, e[i] + 1)
    <3>1. Len(levels[m]) > 0 /\ e[m] = e[i] + 1 + Len(levels[m]) /\ Len(levels[m]) \in Nat
      BY <2>3, <2>7, EmptySeq
    <3>2. ASSUME NEW k \in e[i] + 1 + 1 .. e[m] PROVE text[k] # "/"
      <4> DEFINE c == k - (e[i] + 1)
      <4>1. c \in 1 .. Len(levels[m]) /\ e[i] + 1 + c = k
        <5>1. \A x, z \in Int, y \in Nat :
                z \in x + 1 + 1 .. x + 1 + y => z - (x + 1) \in 1 .. y /\ x + 1 + (z - (x + 1)) = z
          OBVIOUS
        <5>2. k \in e[i] + 1 + 1 .. e[i] + 1 + Len(levels[m]) /\ k \in Int
          BY <2>2, <3>1
        <5>3. k - (e[i] + 1) \in 1 .. Len(levels[m]) /\ e[i] + 1 + (k - (e[i] + 1)) = k
          <6> HIDE DEF c
          <6> QED
            BY <2>2, <3>1, <5>1, <5>2
        <5> QED
          BY <5>3
      <4>2. m - 1 = i
        BY <1>1, <2>7
      <4> HIDE DEF c
      <4>3. text[e[m - 1] + 1 + c] # "/"
        BY <4>1, LayoutFacts DEF Places
      <4> QED
        BY <4>1, <4>2, <4>3
    <3> QED
      BY <2>2, <2>6, <3>1, <3>2
  <2>8. ASSUME e[m] \in OneLevel(text, e[i] + 1) PROVE m = i + 1 /\ levels[m] # <<>>
    <3>1. e[i] + 1 < e[m] /\ e[i] + 1 <= e[m] /\ e[i] + 1 + 1 = e[i] + 2
      BY <2>2, <2>6, <2>8
    <3>2. \A k \in e[i] + 2 .. e[m] : text[k] # "/"
      BY <2>6, <2>8, <3>1
    <3>3. m = i + 1
      BY <1>7, <3>1, <3>2, SameLevel
    <3>4. Len(levels[m]) # 0
      BY <2>2, <2>3, <3>1, <3>3
    <3> QED
      BY <3>3, <3>4
  <2> QED
    BY <2>7, <2>8
<1>8. ASSUME NEW m \in 1 .. n PROVE e[m] \in G <=> m \in M
  <2>1. ASSUME e[m] \in G PROVE m \in M
    <3>1. PICK j \in F : e[m] \in OneLevel(text, j)
      BY <1>2, <2>1
    <3>2. PICK i \in L : i < n /\ j = e[i] + 1
      BY <1>6
    <3>3. m = i + 1 /\ levels[m] # <<>>
      BY <1>4, <1>7, <3>1, <3>2
    <3>4. m \in Level(<<"+">>, levels, i)
      BY <1>1, <1>3, <3>3
    <3> QED
      BY <3>4
  <2>2. ASSUME m \in M PROVE e[m] \in G
    <3>1. PICK i \in L : m \in Level(<<"+">>, levels, i)
      BY <2>2
    <3>2. m = i + 1 /\ levels[m] # <<>> /\ i < n /\ i \in 0 .. n
      BY <1>1, <1>3, <1>4, <3>1
    <3>3. e[m] \in OneLevel(text, e[i] + 1) /\ e[i] + 1 \in F
      BY <1>5, <1>7, <3>2
    <3> QED
      BY <1>2, <3>3
  <2> QED
    BY <2>1, <2>2
<1> HIDE DEF G, M
<1>9. EndsOf(G, M, e, n)
  BY <1>8 DEF EndsOf
<1> QED
  BY <1>9 DEF G, M

\* "*" takes a beginning to the ends of all the levels that follow.
LEMMA StarEnds ==
  ASSUME NEW levels \in LevelTexts, NEW text \in Seq(Characters), NEW e, Layout(e, text, levels),
         NEW F, NEW L \in SUBSET (0 .. Len(levels)), Begins(F, L, e, Len(levels))
  PROVE  EndsOf(UNION {Atom("*", text, i) : i \in F}, UNION {Level(<<"*">>, levels, i) : i \in L},
                e, Len(levels))
<1> DEFINE n == Len(levels)
           G == UNION {Atom("*", text, i) : i \in F}
           M == UNION {Level(<<"*">>, levels, i) : i \in L}
<1>1. n \in Nat /\ n >= 1 /\ Len(text) \in Nat
  BY LayoutFacts DEF Places
<1>2. \A i : Atom("*", text, i) = i .. Len(text)
  BY DEF Atom, MultiLevel
<1>3. \A i : Level(<<"*">>, levels, i) = i + 1 .. n
  <2>1. <<"*">> # <<"+">>
    <3>1. <<"*">>[1] = "*" /\ <<"+">>[1] = "+"
      OBVIOUS
    <3> QED
      BY <3>1
  <2> QED
    BY <2>1 DEF Level
<1>4. \A i \in L : i \in 0 .. n
  OBVIOUS
<1>5. \A i \in L : i < n => e[i] + 1 \in F
  BY DEF Begins
<1>6. \A j \in F : \E i \in L : i < n /\ j = e[i] + 1
  BY DEF Begins
<1>7. ASSUME NEW i \in 0 .. n, i < n, NEW m \in 1 .. n
      PROVE  e[m] \in e[i] + 1 .. Len(text) <=> m \in i + 1 .. n
  <2>1. m \in 0 .. n /\ (m \in i + 1 .. n \/ m = i \/ i \in m + 1 .. n)
    BY <1>1
  <2>2. e[i] \in Int /\ e[m] \in Int /\ e[m] <= Len(text)
    BY <2>1, LayoutFacts DEF Places
  <2>3. m \in i + 1 .. n => e[i] < e[m]
    BY LayoutFacts DEF Places
  <2>4. i \in m + 1 .. n => e[m] < e[i]
    BY <2>1, LayoutFacts DEF Places
  <2>5. m = i \/ i \in m + 1 .. n => m \notin i + 1 .. n
    BY <1>1
  <2> QED
    BY <1>1, <2>1, <2>2, <2>3, <2>4, <2>5
<1>8. ASSUME NEW m \in 1 .. n PROVE e[m] \in G <=> m \in M
  <2>1. ASSUME e[m] \in G PROVE m \in M
    <3>1. PICK j \in F : e[m] \in j .. Len(text)
      BY <1>2, <2>1
    <3>2. PICK i \in L : i < n /\ j = e[i] + 1
      BY <1>6
    <3>3. m \in i + 1 .. n
      BY <1>4, <1>7, <3>1, <3>2
    <3> QED
      BY <1>3, <3>3
  <2>2. ASSUME m \in M PROVE e[m] \in G
    <3>1. PICK i \in L : m \in i + 1 .. n
      BY <1>3, <2>2
    <3>2. i < n /\ i \in 0 .. n
      BY <1>1, <1>4, <3>1
    <3>3. e[m] \in e[i] + 1 .. Len(text) /\ e[i] + 1 \in F
      BY <1>5, <1>7, <3>1, <3>2
    <3> QED
      BY <1>2, <3>3
  <2> QED
    BY <2>1, <2>2
<1> HIDE DEF G, M
<1>9. EndsOf(G, M, e, n)
  BY <1>8 DEF EndsOf
<1> QED
  BY <1>9 DEF G, M

\* What Ends is, as a table E for the characters of a pattern.
EndsTable(E, text, pat) ==
  /\ \A k \in 0 .. Len(pat) : E[k] \in SUBSET (0 .. Len(text))
  /\ \A k \in 1 .. Len(pat) : E[k] = UNION {Atom(pat[k], text, i) : i \in E[k - 1]}

\* The word w stands in the pattern after position p.
IsAt(w, pat, p) ==
  /\ p \in Nat /\ p + Len(w) <= Len(pat)
  /\ \A c \in 1 .. Len(w) : pat[p + c] = w[c]

\* None of its characters is a slash or means something in an expression.
IsPlain(w) == \A c \in 1 .. Len(w) : w[c] \notin {"+", "*", ".", "/"}

\* The first l characters of a word have matched themselves.
MatchedSoFar(E, text, w, p, l) ==
  \A j \in Int : j \in E[p + l] <=>
    /\ l <= j /\ j <= Len(text) /\ j - l \in E[p]
    /\ \A c \in 1 .. l : text[j - l + c] = w[c]

\* The first l characters of a word without special characters match themselves.
LEMMA WordMatches ==
  ASSUME NEW text \in Seq(Characters), NEW pat \in Seq(Characters),
         NEW E, EndsTable(E, text, pat),
         NEW w \in Seq(Characters), NEW p, IsAt(w, pat, p),
         IsPlain(w), NEW l \in 0 .. Len(w)
  PROVE  MatchedSoFar(E, text, w, p, l)
<1> DEFINE Claim(k) == MatchedSoFar(E, text, w, p, k)
           P == {k \in Nat : k <= Len(w) => Claim(k)}
<1>1. /\ Len(text) \in Nat /\ Len(w) \in Nat /\ Len(pat) \in Nat /\ p \in Nat
      /\ p + Len(w) <= Len(pat) /\ l \in Nat
  BY DEF IsAt
<1>2. E[p] \in SUBSET (0 .. Len(text))
  BY <1>1 DEF EndsTable
<1>3. 0 \in P
  <2>1. Claim(0)
    <3> SUFFICES ASSUME NEW j \in Int
                 PROVE  j \in E[p + 0] <=> 0 <= j /\ j <= Len(text) /\ j - 0 \in E[p]
      BY DEF MatchedSoFar
    <3>1. p + 0 = p /\ j - 0 = j
      BY <1>1
    <3> QED
      BY <1>1, <1>2, <3>1
  <2> HIDE DEF Claim
  <2> QED
    BY <2>1
<1>4. ASSUME NEW k \in Nat, k + 1 <= Len(w), Claim(k) PROVE Claim(k + 1)
  <2>1. p + (k + 1) \in 1 .. Len(pat) /\ p + (k + 1) - 1 = p + k /\ k + 1 \in 1 .. Len(w)
    BY <1>1, <1>4
  <2>2. E[p + (k + 1)] = UNION {Atom(w[k + 1], text, i) : i \in E[p + k]}
    <3>1. PICK x : x = p + (k + 1)
      OBVIOUS
    <3>2. x \in 1 .. Len(pat) /\ x - 1 = p + k
      <4> HIDE DEF Claim, P
      <4> QED
        BY <1>1, <1>4, <3>1
    <3>3. pat[x] = w[k + 1]
      BY <2>1, <3>1 DEF IsAt
    <3>4. E[x] = UNION {Atom(pat[x], text, i) : i \in E[x - 1]}
      BY <3>2 DEF EndsTable
    <3> QED
      BY <3>1, <3>2, <3>3, <3>4
  <2>3. \A i : Atom(w[k + 1], text, i) = {j \in {i + 1} : j <= Len(text) /\ w[k + 1] \in {text[j], "."}}
    BY <2>1 DEF Atom, IsPlain
  <2>4. E[p + k] \in SUBSET (0 .. Len(text))
    <3>1. p + k \in 0 .. Len(pat)
      <4> HIDE DEF Claim, P
      <4> QED
        BY <1>1, <1>4
    <3> QED
      BY <3>1 DEF EndsTable
  <2> SUFFICES ASSUME NEW j \in Int
               PROVE  j \in E[p + (k + 1)] <=>
                        /\ k + 1 <= j /\ j <= Len(text) /\ j - (k + 1) \in E[p]
                        /\ \A c \in 1 .. k + 1 : text[j - (k + 1) + c] = w[c]
    BY DEF MatchedSoFar
  <2>5. j \in E[p + (k + 1)] <=> j - 1 \in E[p + k] /\ j <= Len(text) /\ text[j] = w[k + 1]
    <3>1. ASSUME j \in E[p + (k + 1)]
          PROVE  j - 1 \in E[p + k] /\ j <= Len(text) /\ text[j] = w[k + 1]
      <4>1. PICK i \in E[p + k] : j = i + 1 /\ j <= Len(text) /\ w[k + 1] \in {text[j], "."}
        BY <2>2, <2>3, <3>1
      <4>2. j - 1 = i
        BY <2>4, <4>1
      <4> QED
        BY <2>1, <4>1, <4>2 DEF IsPlain
    <3>2. ASSUME j - 1 \in E[p + k], j <= Len(text), text[j] = w[k + 1]
          PROVE  j \in E[p + (k + 1)]
      <4>1. (j - 1) + 1 = j
        OBVIOUS
      <4>2. j \in Atom(w[k + 1], text, j - 1)
        BY <2>3, <3>2, <4>1
      <4> QED
        BY <2>2, <3>2, <4>2
    <3> QED
      BY <3>1, <3>2
  <2>6. j - 1 \in E[p + k] <=>
          /\ k <= j - 1 /\ j - 1 <= Len(text) /\ j - 1 - k \in E[p]
          /\ \A c \in 1 .. k : text[j - 1 - k + c] = w[c]
    <3> DEFINE i == j - 1
    <3>1. i \in Int
      OBVIOUS
    <3> HIDE DEF i
    <3>2. i \in E[p + k] <=>
            /\ k <= i /\ i <= Len(text) /\ i - k \in E[p]
            /\ \A c \in 1 .. k : text[i - k + c] = w[c]
      BY <1>4, <3>1 DEF MatchedSoFar
    <3> QED
      BY <3>2 DEF i
  <2>7. j - 1 - k = j - (k + 1) /\ j - (k + 1) + (k + 1) = j
    OBVIOUS
  <2>8. (\A c \in 1 .. k + 1 : text[j - (k + 1) + c] = w[c])
          <=> text[j] = w[k + 1] /\ \A c \in 1 .. k : text[j - (k + 1) + c] = w[c]
    <3>1. \A c \in 1 .. k + 1 : c \in 1 .. k \/ c = k + 1
      OBVIOUS
    <3>2. k + 1 \in 1 .. k + 1 /\ \A c \in 1 .. k : c \in 1 .. k + 1
      OBVIOUS
    <3> QED
      BY <2>7, <3>1, <3>2
  <2>9. k <= j - 1 <=> k + 1 <= j
    OBVIOUS
  <2>10. j <= Len(text) => j - 1 <= Len(text)
    BY <1>1
  <2> QED
    BY <2>5, <2>6, <2>7, <2>8, <2>9, <2>10
<1>5. ASSUME NEW k \in Nat, k \in P PROVE k + 1 \in P
  <2> HIDE DEF Claim
  <2> QED
    BY <1>1, <1>4, <1>5
<1>6. l \in P
  <2> HIDE DEF P
  <2> QED
    BY <1>1, <1>3, <1>5, InductiveSet
<1> QED
  BY <1>1, <1>6

\* Where the levels L, followed by one more of the pattern, can end.
LevelsAfter(level, topic, L) == UNION {Level(level, topic, i) : i \in L}

\* A word takes a beginning to the end of the level if the level is this word.
LEMMA WordEnds ==
  ASSUME NEW levels \in LevelTexts, NEW text \in Seq(Characters), NEW e, Layout(e, text, levels),
         NEW pat \in Seq(Characters), NEW E, EndsTable(E, text, pat),
         NEW w \in Seq(Characters), NEW p, IsAt(w, pat, p),
         IsPlain(w),
         NEW L \in SUBSET (0 .. Len(levels)), Begins(E[p], L, e, Len(levels))
  PROVE  EndsOf(E[p + Len(w)], LevelsAfter(w, levels, L), e, Len(levels))
<1> DEFINE n == Len(levels)
           M == UNION {Level(w, levels, i) : i \in L}
<1>1. /\ n \in Nat /\ n >= 1 /\ Len(text) \in Nat /\ Len(w) \in Nat /\ Places(e, text, levels)
      /\ \A m \in 0 .. n : e[m] \in Int /\ e[m] <= Len(text) /\ e[m] >= -1
  BY LayoutFacts DEF Places
<1>2. w # <<"+">> /\ w # <<"*">>
  <2>1. ASSUME NEW d, w = <<d>> PROVE w[1] = d /\ 1 \in 1 .. Len(w)
    BY <2>1
  <2> QED
    BY <2>1 DEF IsPlain
<1>3. \A i : Level(w, levels, i) = {j \in {i + 1} : j <= n /\ levels[j] = w}
  BY <1>2 DEF Level
<1>4. \A i \in L : i \in 0 .. n
  OBVIOUS
<1>5. \A j \in Int : j \in E[p + Len(w)] <=>
        /\ Len(w) <= j /\ j <= Len(text) /\ j - Len(w) \in E[p]
        /\ \A c \in 1 .. Len(w) : text[j - Len(w) + c] = w[c]
  <2>1. Len(w) \in 0 .. Len(w)
    BY <1>1
  <2>2. MatchedSoFar(E, text, w, p, Len(w))
    BY <2>1, WordMatches
  <2> QED
    BY <2>2 DEF MatchedSoFar
<1>6. ASSUME NEW m \in 1 .. n, e[m] \in E[p + Len(w)] PROVE m \in M
  <2>1. m \in 0 .. n /\ e[m] \in Int
    BY <1>1
  <2>2. e[m] - Len(w) \in E[p] /\ \A c \in 1 .. Len(w) : text[e[m] - Len(w) + c] = w[c]
    BY <1>5, <1>6, <2>1
  <2>3. PICK i \in L : i < n /\ e[m] - Len(w) = e[i] + 1
    BY <2>2 DEF Begins
  <2>4. i \in 0 .. n /\ e[i] \in Int
    BY <1>1, <1>4
  <2>5. e[m] = e[i] + 1 + Len(w)
    BY <1>1, <2>1, <2>3, <2>4
  <2>6. \A c \in 1 .. Len(w) : text[e[i] + 1 + c] = w[c]
    BY <2>2, <2>3
  <2>7. m = i + 1
    <3>1. ASSUME NEW k \in e[i] + 2 .. e[m] PROVE text[k] # "/"
      <4> DEFINE c == k - (e[i] + 1)
      <4>1. \A x, z \in Int, y \in Nat :
              z \in x + 2 .. x + 1 + y => z - (x + 1) \in 1 .. y /\ x + 1 + (z - (x + 1)) = z
        OBVIOUS
      <4>2. k \in e[i] + 2 .. e[i] + 1 + Len(w) /\ k \in Int
        BY <2>1, <2>4, <2>5
      <4>3. c \in 1 .. Len(w) /\ e[i] + 1 + c = k
        BY <1>1, <2>4, <4>1, <4>2
      <4> HIDE DEF c
      <4> QED
        BY <2>6, <4>3 DEF IsPlain
    <3>2. e[i] + 1 <= e[m]
      BY <1>1, <2>1, <2>4, <2>5
    <3> QED
      BY <2>3, <2>4, <3>1, <3>2, SameLevel
  <2>8. m - 1 = i
    BY <2>4, <2>7
  <2>9. /\ levels[m] \in Seq(Characters) /\ Len(levels[m]) \in Nat
        /\ e[m] = e[i] + 1 + Len(levels[m])
        /\ \A c \in 1 .. Len(levels[m]) : text[e[i] + 1 + c] = levels[m][c]
    <3>1. /\ Len(levels[m]) \in Nat /\ e[m] = e[m - 1] + 1 + Len(levels[m])
          /\ \A c \in 1 .. Len(levels[m]) : text[e[m - 1] + 1 + c] = levels[m][c]
      BY <1>1 DEF Places
    <3> QED
      BY <2>8, <3>1, LevelFacts
  <2>10. Len(levels[m]) = Len(w)
    BY <1>1, <2>4, <2>5, <2>9
  <2>11. \A c \in 1 .. Len(w) : levels[m][c] = w[c]
    BY <2>6, <2>9, <2>10
  <2>12. levels[m] = w
    BY <2>9, <2>10, <2>11, SeqEqual
  <2>13. m \in Level(w, levels, i)
    BY <1>1, <1>3, <2>7, <2>12
  <2> QED
    BY <2>13
<1>7. ASSUME NEW m \in 1 .. n, m \in M PROVE e[m] \in E[p + Len(w)]
  <2>1. PICK i \in L : m = i + 1 /\ levels[m] = w
    BY <1>3, <1>7
  <2>2. m - 1 = i /\ i < n /\ i \in 0 .. n /\ m \in 0 .. n
    BY <1>1, <1>4, <2>1
  <2>3. /\ e[m] \in Int /\ e[i] \in Int /\ e[m] <= Len(text) /\ e[i] >= -1
        /\ e[m] = e[i] + 1 + Len(w)
        /\ \A c \in 1 .. Len(w) : text[e[i] + 1 + c] = w[c]
    <3>1. /\ e[m] = e[m - 1] + 1 + Len(levels[m])
          /\ \A c \in 1 .. Len(levels[m]) : text[e[m - 1] + 1 + c] = levels[m][c]
      BY <1>1 DEF Places
    <3> QED
      BY <1>1, <2>1, <2>2, <3>1
  <2>4. e[i] + 1 \in E[p]
    BY <2>2 DEF Begins
  <2>5. e[m] - Len(w) = e[i] + 1 /\ Len(w) <= e[m]
    BY <1>1, <2>3
  <2> QED
    BY <1>5, <2>3, <2>4, <2>5
<1> HIDE DEF M
<1>8. EndsOf(E[p + Len(w)], M, e, n)
  BY <1>6, <1>7 DEF EndsOf
<1> QED
  BY <1>8 DEF M, LevelsAfter

\* A level of the pattern takes beginnings to ends of levels.
LEMMA LevelMatches ==
  ASSUME NEW topic \in LevelTexts, NEW pat \in LevelTexts, WellFormed(pat),
         NEW text \in Seq(Characters), NEW e, Layout(e, text, topic),
         NEW regex \in Seq(Characters), NEW f, Layout(f, regex, pat),
         NEW E, EndsTable(E, text, regex),
         NEW k \in 1 .. Len(pat), NEW L \in SUBSET (0 .. Len(topic)),
         Begins(E[f[k - 1] + 1], L, e, Len(topic))
  PROVE  EndsOf(E[f[k]], UNION {Level(pat[k], topic, i) : i \in L}, e, Len(topic))
<1> DEFINE w == pat[k]
           p == f[k - 1] + 1
<1>1. /\ Places(f, regex, pat) /\ k - 1 \in 0 .. Len(pat) /\ k \in 0 .. Len(pat)
      /\ k \in DOMAIN pat /\ k - 1 \in Int /\ k \in k - 1 + 1 .. Len(pat)
  BY LayoutFacts, LevelFacts
<1>2. w \in Seq(Characters) /\ Len(w) \in Nat /\ \A c \in 1 .. Len(w) : w[c] # "/"
  BY LevelFacts
<1>3. f[k - 1] \in Int /\ f[k - 1] >= -1 /\ f[k] \in Int /\ f[k] <= Len(regex) /\ Len(regex) \in Nat
  BY <1>1 DEF Places
<1>4. f[k] = p + Len(w) /\ \A c \in 1 .. Len(w) : regex[p + c] = w[c]
  BY <1>1 DEF Places
<1>5. p \in Nat
  BY <1>3
<1> HIDE DEF p, w
<1>6. p + Len(w) <= Len(regex)
  BY <1>3, <1>4
<1>7. IsAt(w, regex, p)
  BY <1>4, <1>5, <1>6 DEF IsAt
<1>8. Begins(E[p], L, e, Len(topic))
  BY DEF p
<1>9. ASSUME NEW d, w = <<d>> PROVE E[f[k]] = UNION {Atom(d, text, i) : i \in E[p]}
  <2>1. Len(w) = 1 /\ w[1] = d
    BY <1>9
  <2>2. regex[p + 1] = d /\ f[k] = p + 1 /\ p + 1 \in 1 .. Len(regex) /\ (p + 1) - 1 = p
    BY <1>3, <1>4, <1>5, <1>6, <2>1
  <2>3. PICK x : x = p + 1
    OBVIOUS
  <2>4. x \in 1 .. Len(regex) /\ x - 1 = p /\ regex[x] = d /\ f[k] = x
    BY <2>2, <2>3
  <2>5. E[x] = UNION {Atom(regex[x], text, i) : i \in E[x - 1]}
    BY <2>4 DEF EndsTable
  <2> QED
    BY <2>4, <2>5
<1>10. CASE w = <<"+">>
  <2>1. E[f[k]] = UNION {Atom("+", text, i) : i \in E[p]}
    BY <1>9, <1>10
  <2>2. EndsOf(UNION {Atom("+", text, i) : i \in E[p]},
               UNION {Level(<<"+">>, topic, i) : i \in L}, e, Len(topic))
    BY <1>8, PlusEnds
  <2>3. pat[k] = <<"+">>
    BY <1>10 DEF w
  <2> QED
    BY <2>1, <2>2, <2>3
<1>11. CASE w = <<"*">>
  <2>1. E[f[k]] = UNION {Atom("*", text, i) : i \in E[p]}
    BY <1>9, <1>11
  <2>2. EndsOf(UNION {Atom("*", text, i) : i \in E[p]},
               UNION {Level(<<"*">>, topic, i) : i \in L}, e, Len(topic))
    BY <1>8, StarEnds
  <2>3. pat[k] = <<"*">>
    BY <1>11 DEF w
  <2> QED
    BY <2>1, <2>2, <2>3
<1>12. CASE w \notin {<<"+">>, <<"*">>}
  <2>1. Range(w) \cap {"+", "*", "."} = {}
    <3>1. Range(w) \cap SpecialCharacters = {}
      BY <1>1, <1>12 DEF WellFormed, Wildcards, w
    <3>2. {"+", "*", "."} \subseteq SpecialCharacters
      BY DEF SpecialCharacters
    <3> QED
      BY <3>1, <3>2
  <2>2. \A c \in 1 .. Len(w) : w[c] \in Range(w)
    BY <1>2 DEF Range
  <2>3. IsPlain(w)
    BY <1>2, <2>1, <2>2 DEF IsPlain
  <2>4. EndsOf(E[p + Len(w)], LevelsAfter(w, topic, L), e, Len(topic))
    BY <1>2, <1>7, <1>8, <2>3, WordEnds
  <2> QED
    BY <1>4, <2>4 DEF w, LevelsAfter
<1> QED
  BY <1>10, <1>11, <1>12

\* Levels end behind where they begin.
LEMMA LevelEndsLater ==
  ASSUME NEW topic \in LevelTexts, NEW level, NEW i \in 0 .. Len(topic)
  PROVE  Level(level, topic, i) \in SUBSET (1 .. Len(topic))
<1>1. Len(topic) \in Nat
  BY LevelFacts
<1>2. i + 1 .. Len(topic) \in SUBSET (1 .. Len(topic))
  BY <1>1
<1>3. ASSUME NEW j \in {i + 1}, j <= Len(topic) PROVE j \in 1 .. Len(topic)
  BY <1>1, <1>3
<1> QED
  BY <1>2, <1>3 DEF Level

\* A topic is accepted by the regular expression of a pattern exactly if its
\* levels match those of the pattern, for every topic, however many levels it has
\* and whatever is in them, and every pattern whose wildcards are whole levels
\* and that has no other special character (matches_topic).
THEOREM MatchesTheLevels ==
  ASSUME NEW topic \in LevelTexts, NEW pat \in LevelTexts, WellFormed(pat)
  PROVE  MatchesTopic(topic, pat) <=> MatchesByLevels(topic, pat)
<1> DEFINE text == Text(topic)
           regex == Text(pat)
           E == Ends(text, regex)
           L == LevelEnds(topic, pat)
           n == Len(topic)
           np == Len(pat)
<1>1. text \in Seq(Characters) /\ regex \in Seq(Characters)
  BY LayoutExists
<1>2. PICK e : Layout(e, text, topic)
  BY LayoutExists
<1>3. PICK f : Layout(f, regex, pat)
  BY LayoutExists
<1>4. E[0] = {0} /\ EndsTable(E, text, regex)
  <2> HIDE DEF text, regex
  <2>1. /\ E[0] = {0}
        /\ \A k \in 0 .. Len(regex) : E[k] \in SUBSET (0 .. Len(text))
        /\ \A k \in 1 .. Len(regex) : E[k] = UNION {Atom(regex[k], text, i) : i \in E[k - 1]}
    BY <1>1, EndsRule
  <2> QED
    BY <2>1 DEF EndsTable
<1>5. /\ L[0] = {0}
      /\ \A k \in 0 .. np : L[k] \in SUBSET (0 .. n)
      /\ \A k \in 1 .. np : L[k] = UNION {Level(pat[k], topic, i) : i \in L[k - 1]}
  BY LevelFacts, LevelEndsRule
<1> HIDE DEF text, regex, E, L
<1>6. n \in Nat /\ n >= 1 /\ e[0] = -1 /\ e[n] = Len(text) /\ Len(text) \in Nat
  BY <1>1, <1>2, LayoutFacts DEF Places
<1>7. /\ np \in Nat /\ np >= 1 /\ f[0] = -1 /\ f[np] = Len(regex) /\ Len(regex) \in Nat
      /\ \A k \in 1 .. np : f[k] \in Int /\ f[k] <= Len(regex) /\ f[k] >= 0
  <2>1. Places(f, regex, pat)
    BY <1>1, <1>3, LayoutFacts
  <2>2. \A k \in 1 .. np : k \in 0 .. np /\ k \in 0 + 1 .. np /\ 0 \in 0 .. np
    BY <2>1 DEF Places
  <2>3. \A k \in 1 .. np : f[k] \in Int /\ f[k] <= Len(regex) /\ f[0] < f[k] /\ f[0] = -1
    BY <2>1, <2>2 DEF Places
  <2>4. \A k \in 1 .. np : f[k] >= 0
    BY <2>3
  <2> QED
    BY <2>1, <2>3, <2>4 DEF Places
<1> DEFINE Reached(k) == Begins(E[f[k - 1] + 1], L[k - 1], e, n)
           P == {k \in Nat : k \in 1 .. np => Reached(k)}
<1>8. Reached(1)
  <2>1. f[1 - 1] + 1 = 0 /\ e[0] + 1 = 0 /\ 0 < n
    BY <1>6, <1>7
  <2>2. E[f[1 - 1] + 1] = {0} /\ L[1 - 1] = {0}
    BY <1>4, <1>5, <2>1
  <2> HIDE DEF n
  <2> QED
    BY <2>1, <2>2 DEF Begins
<1>9. ASSUME NEW k \in 1 .. np, Reached(k) PROVE EndsOf(E[f[k]], L[k], e, n)
  <2>1. k - 1 \in 0 .. np
    BY <1>7
  <2>2. L[k - 1] \in SUBSET (0 .. n) /\ L[k] = UNION {Level(pat[k], topic, i) : i \in L[k - 1]}
    BY <1>5, <2>1
  <2>3. EndsOf(E[f[k]], UNION {Level(pat[k], topic, i) : i \in L[k - 1]}, e, n)
    BY <1>1, <1>2, <1>3, <1>4, <1>9, <2>2, LevelMatches
  <2> QED
    BY <2>2, <2>3
<1>10. ASSUME NEW k \in 1 .. np, k < np, Reached(k) PROVE Reached(k + 1)
  <2>1. EndsOf(E[f[k]], L[k], e, n)
    BY <1>9, <1>10
  <2>2. f[k] \in 0 .. Len(regex) /\ k - 1 \in 0 .. np /\ k + 1 - 1 = k
    BY <1>7
  <2>3. E[f[k]] \in SUBSET (0 .. Len(text))
    BY <1>4, <2>2 DEF EndsTable
  <2>4. L[k] \in SUBSET (1 .. n)
    <3>1. \A i \in L[k - 1] : Level(pat[k], topic, i) \in SUBSET (1 .. n)
      BY <1>5, <2>2, LevelEndsLater
    <3> QED
      BY <1>5, <3>1
  <2>5. Begins(UNION {Atom("/", text, i) : i \in E[f[k]]}, L[k], e, n)
    BY <1>1, <1>2, <2>1, <2>3, <2>4, SlashBegins
  <2>6. regex[f[k] + 1] = "/" /\ f[k] < Len(regex)
    <3>1. Places(f, regex, pat) /\ k \in 0 .. np /\ np \in k + 1 .. np
      BY <1>1, <1>3, <1>7, <1>10, LayoutFacts
    <3> QED
      BY <1>10, <3>1 DEF Places
  <2>7. PICK x : x = f[k] + 1
    OBVIOUS
  <2>8. x \in 1 .. Len(regex) /\ x - 1 = f[k] /\ regex[x] = "/"
    BY <1>7, <2>2, <2>6, <2>7
  <2>9. E[x] = UNION {Atom(regex[x], text, i) : i \in E[x - 1]}
    BY <1>4, <2>8 DEF EndsTable
  <2>10. E[x] = UNION {Atom("/", text, i) : i \in E[f[k]]}
    BY <2>8, <2>9
  <2>11. Begins(E[f[k] + 1], L[k], e, n)
    BY <2>5, <2>7, <2>10
  <2> QED
    BY <2>2, <2>11
<1>11. 0 \in P
  OBVIOUS
<1>12. ASSUME NEW k \in Nat, k \in P PROVE k + 1 \in P
  <2> HIDE DEF Reached
  <2>1. k = 0 \/ (k \in 1 .. np /\ k < np) \/ k + 1 \notin 1 .. np
    BY <1>7
  <2>2. k = 0 => k + 1 = 1
    OBVIOUS
  <2> QED
    BY <1>8, <1>10, <1>12, <2>1, <2>2
<1>13. Reached(np)
  <2>1. np \in P
    <3> HIDE DEF P
    <3> QED
      BY <1>7, <1>11, <1>12, InductiveSet
  <2> HIDE DEF Reached
  <2> QED
    BY <1>7, <2>1
<1>14. EndsOf(E[f[np]], L[np], e, n)
  <2>1. np \in 1 .. np
    BY <1>7
  <2> HIDE DEF Reached, np
  <2> QED
    BY <1>9, <1>13, <2>1
<1>15. e[n] \in E[f[np]] <=> n \in L[np]
  BY <1>6, <1>14 DEF EndsOf
<1> QED
  BY <1>6, <1>7, <1>15 DEF MatchesTopic, TextMatches, MatchesByLevels, text, regex, E, L

\* A datagram is forwarded exactly if the levels of its topic match those of the
\* subscription (start_server, matches_topic), for every topic there is.
THEOREM ForwardingIsByLevels == Spec => ForwardedByLevels
<1>1. ASSUME FeedInv, ReceiveDatagram, WellFormed(pattern)
      PROVE  toClient' # toClient <=> MatchesByLevels(Head(udp).dgram.topic, pattern)
  <2>1. pattern \in LevelTexts
    BY <1>1, FeedAssumption DEF FeedInv, ServerTyped
  <2>2. Head(udp).dgram.topic \in LevelTexts
    <3>1. udp # <<>> /\ udp \in Seq(Arrivals)
      BY <1>1 DEF FeedInv, ArrivedWereSent, ReceiveDatagram
    <3>2. Head(udp) \in Arrivals
      BY <3>1
    <3>3. Head(udp).dgram \in Payloads
      BY <3>2 DEF Arrivals
    <3> QED
      BY <3>3, PayloadFacts
  <2>3. toClient' # toClient <=> MatchesTopic(Head(udp).dgram.topic, pattern)
    BY <1>1 DEF ReceiveDatagram
  <2> QED
    BY <1>1, <2>1, <2>2, <2>3, MatchesTheLevels
<1>2. FeedInv /\ [Next]_vars
        => [ReceiveDatagram /\ WellFormed(pattern)
              => (toClient' # toClient <=> MatchesByLevels(Head(udp).dgram.topic, pattern))]_vars
  BY <1>1
<1> QED
  BY <1>2, FeedInvariance, PTL DEF Spec, ForwardedByLevels
=============================================================================
