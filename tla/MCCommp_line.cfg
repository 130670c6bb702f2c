SPECIFICATION Spec
CONSTANTS
  RomImages = {r1, r2}
  SpiImages = {s1, s2}
  r1 = r1
  r2 = r2
  s1 = s1
  s2 = s2
  NBlocks = 2
  FullBlocks = 1
  LongRest = FALSE
  Junk = Junk
  FF = FF
  Hole = Hole
  None = None
  Targets = {"rom", "spi0"}
  Sources = {"spi0"}
  Prepare = TRUE
  LineSize = 3
  Env = {"lose", "garble", "cut", "merge", "slow", "reset", "write"}
  MaxFaults = 2
INVARIANTS
  TypeOK
  OkMeansWritten
  AckedIsStored
  ReadBackFaithful
PROPERTIES
  Recovers
