------------------------------- MODULE MCFeed -------------------------------
(***************************************************************************)
(* Instances of Feed for TLC: numbers of four bits of which a float keeps  *)
(* two, strings of up to three characters, topics of up to three levels.   *)
(***************************************************************************)
EXTENDS Feed

A == <<"a">>
AB == <<"a", "b">>
Plus == <<"+">>
Star == <<"*">>

AllTopics == {<<l>> : l \in {<<>>, A, AB}} \cup {<<A, <<>>>>, <<<<>>, AB>>}
             \cup ({A, AB} \X {A, AB}) \cup ({A, AB} \X {A, AB} \X {A, AB})

AllPatterns ==
  {<<l>> : l \in {A, AB, Plus, Star, <<".">>}} \cup ({A, AB, Plus, Star} \X {A, AB, Plus, Star})
    \cup {<<A, Plus, AB>>, <<A, Star, AB>>, <<Star, A, Star>>, <<Plus, AB, Plus>>, <<Star, AB, Plus>>}

OnePattern == {<<Plus>>}

On(topic, type, payload) == [topic |-> topic, type |-> type, payload |-> payload]

Numbers == {On(<<A>>, "INT", <<s, n>>) : s \in {0, 1}, n \in 0 .. Word - 1}
       \cup {On(<<A>>, "FLOAT", <<s, n, 2 * s>>) : s \in {0, 1}, n \in 0 .. Word - 1}
       \cup {On(<<A>>, "SHORT_REAL", <<n>>) : n \in {0, Word - 1}}

Strings == {On(<<A>>, "STRING", p) : p \in {<<>>, <<1>>, <<2, 2>>, <<3, 3, 3>>, <<4, 4, 4, 4, 0>>, <<5, 0, 5>>}}

\* Not as the formats say: no such type, a sign that is none, cut short.
Odd == {On(<<A>>, "OTHER", <<1, 1>>), On(<<A>>, "INT", <<2, 1>>), On(<<A>>, "FLOAT", <<1>>)}

OnTopics == {On(t, "INT", <<1, 1>>) : t \in AllTopics}

AllPayloads == Numbers \cup Strings \cup Odd \cup OnTopics

Says(p) == [payload |-> p, described |-> TRUE]
Good == Says(On(<<A>>, "INT", <<0, 1>>))
Other == Says(On(<<AB>>, "INT", <<1, 1>>))
Unnamed == [Good EXCEPT !.described = FALSE]
Garbled == [Good EXCEPT !.payload = Bad]

Command(file, mode) ==
  [server_ip |-> "IPv4", server_port |-> 8080, source_address |-> Absent, source_port |-> Absent,
   input_file |-> file, mode |-> mode, count |-> Absent, delay |-> Absent]

\* Every message by itself, and every two strings one after the other.
OneByOne == {Command(<<Says(p)>>, Absent) : p \in AllPayloads}
Mixed == {Command(<<Says(p), Says(q)>>, Absent) : p, q \in Strings}

\* Every mode with files that are empty, good, or flawed somewhere.
Files == {<<>>, <<Good, Other>>, <<Unnamed, Good>>, <<Good, Garbled>>, Bad}
Runs ==
  {Command(f, m) : f \in Files, m \in Modes}
    \cup {[Command(f, "random") EXCEPT !.count = c] : f \in Files, c \in {2, 0, -1}}
    \cup {[Command(<<Good, Other>>, m) EXCEPT !.delay = -1] : m \in Modes}

\* Arguments at and past the edges of what is accepted.
Edges ==
  {[Command(<<Good>>, "all_once") EXCEPT !.source_port = p] : p \in {1024, 65535, 65536, 1023, 0, Bad}}
    \cup {[Command(<<Good>>, "all_once") EXCEPT !.server_port = p] : p \in {1023, Bad}}
    \cup {[Command(<<Good>>, "all_once") EXCEPT !.server_ip = a] : a \in {"IPv6", Bad}}
    \cup {[Command(<<Good>>, "all_once") EXCEPT !.source_address = a] : a \in {"remote", Bad}}
    \cup {Command(<<Good>>, Bad)}

AllCommandLines == OneByOne \cup Mixed \cup Runs \cup Edges
OneCommandLine == {Command(<<Good>>, Absent)}
KernelPorts == {50000}
Localhost == <<127, 0, 0, 1>>
=============================================================================
