SPECIFICATION FairSpec
CONSTANTS
  Images = {a}
  a = a
  NBlocks = 2
  Magic = Magic
  Junk = Junk
  Blank = Blank
  Torn = Torn
  MaxPowerLosses = 0
  Env = {"boot", "setrom"}
PROPERTIES
  AlwaysServes
