SPECIFICATION Spec
CONSTANTS
  Timers = {a, b}
  Periodic = {b}
  Fresh = {a, b}
  Offsets = {0, 1, 3}
  Period = 2
  Heartbeat = 2
  MaxLag = 2
  None = None
INVARIANTS
  EveryStopIsFinal
