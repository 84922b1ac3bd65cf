------------------------------ MODULE MCBroker ------------------------------
(***************************************************************************)
(* Instances of the broker for TLC.  Runs of the subscriber program are    *)
(* model values; the descriptors are those that follow the server's stdin, *)
(* stdout, stderr and its two sockets.                                     *)
(***************************************************************************)
EXTENDS BrokerService, TopicMatch

CONSTANTS A, B,     \* two identifiers
          p1, p2, p3, \* runs of the subscriber program
          news, sport, \* two topics
          all         \* a pattern with a wildcard

\* p1 and p3 are given the same identifier.
FirstAndThirdShare == (p1 :> A @@ p2 :> B @@ p3 :> A)

TwoRunsDiffer == (p1 :> A @@ p2 :> B)
TwoRunsShare == (p1 :> A @@ p2 :> A)

OneTopic == {<<news, news>>}

\* The levels of the topics and patterns; which match is what matches_topic says.
Levels == (news :> <<<<"n">>>> @@ sport :> <<<<"s">>>> @@ all :> <<<<"*">>>>)
WithWildcard ==
  {m \in {news, sport} \X {news, all} : MatchesTopic(Levels[m[1]], Levels[m[2]])}
=============================================================================
