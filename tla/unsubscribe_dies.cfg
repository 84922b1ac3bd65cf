SPECIFICATION Spec
CONSTANTS
  A = A
  B = B
  p1 = p1
  p2 = p2
  p3 = p3
  news = news
  sport = sport
  all = all
  None = None
  Clients = {p1, p2}
  Ids = {A, B}
  IdOf <- TwoRunsDiffer
  Topics = {news}
  Patterns = {news}
  Matches <- OneTopic
  Fds = {5, 6}
  MayCrash = {}
  MaxCmds = 1
  MaxDgrams = 0
  OperatorExits = FALSE
CHECK_DEADLOCK FALSE
INVARIANT UnsubscribedTopicIsHeld
