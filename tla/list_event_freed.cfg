SPECIFICATION Spec
CONSTANTS
  Tasks = {ua, t1, t2}
  UserAgent = ua
  Transactions = {x1, x2}
  Events = {e1, e2}
  None = None
  OldAge = 1
SYMMETRY Symmetry
INVARIANTS
  EventsLive
