SPECIFICATION Spec
CONSTANTS
  w1 = w1  w2 = w2  r1 = r1  r2 = r2  c = c
  None = None
  Threads = {w1, r1, c}
  Items = {i1, i2, i3}
  MaxSize = 2
  Calls <- CallsAll
SYMMETRY Symm
INVARIANTS TypeOK
PROPERTIES Linearizable
CHECK_DEADLOCK FALSE
