SPECIFICATION FramingSpec
CONSTANTS
  Hdr = 2
  Lens <- PayloadLengths
  Capacity = 3
  SizeT = 8
  MaxPackets = 3
CHECK_DEADLOCK FALSE
INVARIANTS
  CountersMatchThePacket
PROPERTIES
  IsAChannel
  SendReturns
  PacketsGetThrough
