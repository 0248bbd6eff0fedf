SPECIFICATION FairSpec
CONSTANTS
  MaxSrvRecords = 2
  ResendTimes = 2
  Reliable = {1}
  MaxForwarded = 0
  Invites = {TRUE, FALSE}
  None = None
PROPERTIES
  NoServerAfterCancel
CHECK_DEADLOCK FALSE
