SPECIFICATION Spec
CONSTANTS
  A = A
  B = B
  p1 = p1
  p2 = p2
  p3 = p3
  news = news
  sport = sport
  all = all
  None = None
  Clients = {p1, p2, p3}
  Ids = {A, B}
  IdOf <- FirstAndThirdShare
  Topics = {news, sport}
  Patterns = {news, all}
  Matches <- WithWildcard
  Fds = {5, 6, 7}
  MayCrash = {}
  MaxCmds = 2
  MaxDgrams = 2
  OperatorExits = FALSE
CHECK_DEADLOCK FALSE
INVARIANTS
  NoUnsolicited
  InOrderAndOnce
PROPERTIES
  ForwardingServesAll
  IsAPubSub
