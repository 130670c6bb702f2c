CONSTANTS
  RingSize = 14
  BufSize = 10
  Size = 4
  Half = 2
  Messages <- MCSwitches
  I2cWrites = {}
  Garble = {}
  SecondCpu = FALSE
  MaxSent = 3
  MaxFaults = 0
SPECIFICATION Spec
INVARIANT AskedIsStored
CHECK_DEADLOCK FALSE
