SPECIFICATION Spec
CONSTANTS
  Pool = {p1, p2, p3}
  Address = {1, 2}
  Pending = 2
  MaxWrites = 3
INVARIANTS TypeOK PoolsDisjoint
CHECK_DEADLOCK FALSE
