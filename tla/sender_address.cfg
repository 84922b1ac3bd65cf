SPECIFICATION Spec
CONSTANTS
  Bad = Bad
  Absent = Absent
  CommandLines <- OneCommandLine
  Payloads <- AllPayloads
  Ephemeral <- KernelPorts
  Patterns <- OnePattern
  Address <- Localhost
  Word = 16
  FloatExact = 4
  MaxString = 3
  MaxSends = 1
  MaxArrivals = 1
CHECK_DEADLOCK FALSE
INVARIANTS
  SenderIsShown
