SPECIFICATION FairSpec
CONSTANTS
  Retries = 1
  SlowHubs = {0, 1}
  MaxLost = 1
  MaxReboots = 1
  MaxRecoveries = 1
  MaxPlugs = 1
  Tries = 2
  ZeusMaxLost = 2
  ZeusReboots = 1
INVARIANTS
  TypeOK
  ConfiguredApart
  EntriesOnTheirPage
  SuccessMeansReady
PROPERTY
  InitEnds
CHECK_DEADLOCK FALSE
