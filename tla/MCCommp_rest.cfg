SPECIFICATION Spec
CONSTANTS
  RomImages = {r1, r2}
  SpiImages = {s1, s2}
  r1 = r1
  r2 = r2
  s1 = s1
  s2 = s2
  NBlocks = 2
  FullBlocks = 1
  LongRest = TRUE
  Junk = Junk
  FF = FF
  Hole = Hole
  None = None
  Targets = {"spi0", "spi1"}
  Sources = {"spi0"}
  Prepare = TRUE
  LineSize = 3
  Env = {}
  MaxFaults = 0
SYMMETRY ImageSymmetry
INVARIANTS
  IntactImageAccepted
