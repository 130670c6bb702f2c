SPECIFICATION Spec
CONSTANTS
  Images = {a, b}
  a = a
  b = b
  NBlocks = 2
  Magic = Magic
  Junk = Junk
  Blank = Blank
  Torn = Torn
  MaxPowerLosses = 1
  Env = {"torn", "corrupt"}
SYMMETRY ImageSymmetry
INVARIANTS
  TypeOK
  ContextSurvives
  UpdateAtomic
  CommitReplicated
  StoredCrcFromHost
  LastGoodWithoutLoss
PROPERTIES
  AutoBootRunsWholeImage
