SPECIFICATION Spec
CONSTANTS
  Models = {m1, m2}
  Views = {v1}
  Numbers = {0, 1, 2}
  DefaultMaximum = 2
  None = None
PROPERTIES OnlyItsModelIsShown
CHECK_DEADLOCK FALSE
