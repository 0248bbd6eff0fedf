SPECIFICATION FairSpec
CONSTANTS
  Tasks = {t1, t2, t3}
  Calls = {c1}
  MaxRefs = 1
  None = None
INVARIANTS
  TypeOK
  CallDataLives
  OnlyKnownBlocks
PROPERTIES
  LookupsEnd
CHECK_DEADLOCK FALSE
