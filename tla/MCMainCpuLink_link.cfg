CONSTANTS
  RingSize = 14
  BufSize = 10
  Size = 4
  Half = 2
  Messages <- MCMessages
  I2cWrites = {2, 3}
  Garble = {254, 255}
  SecondCpu = TRUE
  MaxSent = 2
  MaxFaults = 1
SPECIFICATION Spec
INVARIANTS
  TypeOK
  DeliveredIntact
  InsideStruct
  
  FlashInSync
PROPERTY ChannelSpec
\* The main CPU may have nothing more to send.
CHECK_DEADLOCK FALSE
