SPECIFICATION FairSpec
CONSTANTS
  Timers = {a, b}
  Periodic = {b}
  Fresh = {}
  Offsets = {0, 1, 3}
  Period = 2
  Heartbeat = 2
  MaxLag = 2
  None = None
INVARIANTS
  TypeOK
  StoppedIsUnused
  DueKept
PROPERTIES
  ClockSpec
  StartedFires
  StopReturns
