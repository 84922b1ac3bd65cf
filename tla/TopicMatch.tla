----------------------------- MODULE TopicMatch -----------------------------
(***************************************************************************)
(* matches_topic of server.cpp: which topics a pattern's regular           *)
(* expression accepts, and what its comments say it accepts.  A text is    *)
(* given by its levels, each a sequence of characters; the code sees only  *)
(* the levels joined with slashes.  No line end is among the characters:   *)
(* a "." of a regular expression does not accept one.                      *)
(***************************************************************************)
EXTENDS Integers, Sequences, SequencesExt

\* Topics and patterns by their levels: there is at least one, and a slash can
\* only be between two of them.
LevelTexts ==
  {levels \in Seq(Seq(STRING)) \ {<<>>} : \A k \in DOMAIN levels : "/" \notin Range(levels[k])}

\* The characters of the first levels, joined.
Joined(levels) ==
  LET text[k \in 1 .. Len(levels)] ==
        IF k = 1 THEN levels[1] ELSE text[k - 1] \o <<"/">> \o levels[k]
  IN  text

\* The characters of a text, from its levels.
Text(levels) == Joined(levels)[Len(levels)]

\* Variant: one level is any text.
OneLevel_AnyText(text, i) == i + 1 .. Len(text)

\* "[^/]+" matches from after position i up to one of these.
OneLevel(text, i) == {j \in i + 1 .. Len(text) : "/" \notin Range(SubSeq(text, i + 1, j))}

\* ".*"
MultiLevel(text, i) == i .. Len(text)

\* What one character of the pattern has become, matched after position i: the
\* two rewritings replace "+" and "*"; a "." keeps its meaning in a regular
\* expression.  So do the other SpecialCharacters, and with one of those in it a
\* pattern is outside this definition.
Atom(c, text, i) ==
  CASE c = "+" -> OneLevel(text, i)
    [] c = "*" -> MultiLevel(text, i)
    [] OTHER   -> {j \in {i + 1} : j <= Len(text) /\ c \in {text[j], "."}}

\* Where the first k characters of the pattern can end.
Ends(text, pattern) ==
  LET ends[k \in 0 .. Len(pattern)] ==
        IF k = 0 THEN {0} ELSE UNION {Atom(pattern[k], text, i) : i \in ends[k - 1]}
  IN  ends

\* regex_match of the whole text.
TextMatches(text, pattern) == Len(text) \in Ends(text, pattern)[Len(pattern)]

\* A topic and a pattern, given by their levels, in the code.
MatchesTopic(topic, pattern) == TextMatches(Text(topic), Text(pattern))

-----------------------------------------------------------------------------
Wildcards == {"+", "*"}

\* The characters that mean something in the grammar of std::regex.
SpecialCharacters ==
  {"^", "$", "\\", ".", "*", "+", "?", "(", ")", "[", "]", "{", "}", "|"}

\* Every level is a wildcard or has no character with a special meaning.
WellFormed(pattern) ==
  \A k \in DOMAIN pattern :
    \/ pattern[k] \in {<<w>> : w \in Wildcards}
    \/ Range(pattern[k]) \cap SpecialCharacters = {}

\* The comments of matches_topic, by levels: "+" is "one topic level" of "any
\* character that is not a slash", at least one; "*" is "multiple topic levels",
\* anything else is itself.
Level(level, topic, i) ==
  CASE level = <<"+">> -> {j \in {i + 1} : j <= Len(topic) /\ topic[j] # <<>>}
    [] level = <<"*">> -> i + 1 .. Len(topic)
    [] OTHER           -> {j \in {i + 1} : j <= Len(topic) /\ topic[j] = level}

\* Where the first k levels of the pattern can end.
LevelEnds(topic, pattern) ==
  LET ends[k \in 0 .. Len(pattern)] ==
        IF k = 0 THEN {0} ELSE UNION {Level(pattern[k], topic, i) : i \in ends[k - 1]}
  IN  ends

MatchesByLevels(topic, pattern) == Len(topic) \in LevelEnds(topic, pattern)[Len(pattern)]
=============================================================================
