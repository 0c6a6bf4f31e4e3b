SPECIFICATION Spec
CONSTANTS
  None = None
  Radius = 3
  Arguments <- Near
INVARIANTS TypeOK OpenSetConsistent ScoresMatchOrigins PathIsShortest SearchIsBounded
CHECK_DEADLOCK FALSE
