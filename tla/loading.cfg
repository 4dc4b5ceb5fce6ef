SPECIFICATION FairSpec
CONSTANTS
  Mount = {m1, m2}
  Recognised = {m1, m2}
  System = System
  MaxLoads = 1
INVARIANTS NothingDangles SomeoneAnswers
PROPERTIES EntriesAllOrNothing MountsAnswered
CHECK_DEADLOCK FALSE
