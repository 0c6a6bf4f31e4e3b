SPECIFICATION Spec
CONSTANTS
  Ptrs = {p, q, r}
  Objects = {o1, o2, o3, o4}
  Kinds = {k, l}
  Values = {v, w}
  DefaultValue = v
  None = None
INVARIANTS TypeOK OneOwner OnlySpoiledHurts
PROPERTIES ActsAsVariables
CHECK_DEADLOCK FALSE
