SPECIFICATION Spec
CONSTANTS
  Images = {a}
  a = a
  NBlocks = 1
  Magic = Magic
  Junk = Junk
  Blank = Blank
  Torn = Torn
  MaxPowerLosses = 1
  Env = {}
INVARIANTS
  LastGoodImageKept
