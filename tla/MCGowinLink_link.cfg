SPECIFICATION FairSpec
CONSTANTS
  QueueSize = 7
  ReplyTimeout = 0
  DataLen = 2
  BufSize = 4
  RingSize = 5
  FloodLimit = 1
  RecoverDelay = 2
  Default <- MCDefault
  Zero <- MCZero
  Requests <- Reread
  DirectCmds = {"SET_STANDBY_ON", "READ_ETH_STATUS"}
  Env = {"loss", "wakeup", "flood", "nack"}
  MaxAsks = 1
  MaxFaults = 1
INVARIANT TypeOK
PROPERTIES QueuedIsSent OneAtATime ReadbackIntact StartupVerified Settles
