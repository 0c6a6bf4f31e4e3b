SPECIFICATION Spec
CONSTANTS
  Threads = {t1}
  Resources = {q1, q2}
  Slots = {s1, s2}
  Notifiers = {n1}
  Overwrites = TRUE
  None = None
INVARIANTS EveryUnlockNotified
CHECK_DEADLOCK FALSE
