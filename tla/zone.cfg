SPECIFICATION Spec
CONSTANTS
  Thread = {t1, t2, t3}
  NoThread = NoThread
  Kinds = {"irpContext", "byteLocks"}
  Blocks = {1, 2}
  Pool = {p1}
  Null = Null
SYMMETRY ThreadSymmetry
INVARIANTS TypeOK BlocksConserved ReturnedWhereTaken
PROPERTY ZonesAllocate
