SPECIFICATION Spec
CONSTANTS
  Bad = Bad
  Absent = Absent
  CommandLines <- AllCommandLines
  Payloads <- AllPayloads
  Ephemeral <- KernelPorts
  Patterns <- AllPatterns
  Address <- Localhost
  Word = 16
  FloatExact = 4
  MaxString = 3
  MaxSends = 2
  MaxArrivals = 2
CHECK_DEADLOCK FALSE
INVARIANTS
  PublisherTypeOK
  FeedTypeOK
  SentAsAsked
  ShownAsPublished
PROPERTIES
  ForwardedByLevels
  BoundedRunsEnd
  InterestingIsShown
