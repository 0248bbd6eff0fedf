SPECIFICATION FairSpec
CONSTANTS
  MaxSrvRecords = 2
  ResendTimes = 2
  Reliable = {1}
  MaxForwarded = 1
  Invites = {TRUE, FALSE}
  None = None
INVARIANTS
  TypeOK
  OneServerAtATime
  PursuitIsBounded
  SilenceIsTimed
  SettledAtFinal
  RingingIsCanceled
  CancelAfterProvisional
PROPERTIES
  SearchSpec
  NoServerAfterAnswer
  SilentServersGiveWay
  AppHearsFinal
CHECK_DEADLOCK FALSE
