SPECIFICATION FairSpec
CONSTANTS
  Tasks = {t1, t2, t3, t4}
  SemMax = 4
INVARIANTS
  Exclusive
  TicketsConserved
PROPERTIES
  ReadersWritersSpec
  WritersGetIn
  ReadersGetIn
