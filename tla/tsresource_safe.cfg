SPECIFICATION Spec
CONSTANTS
  Threads = {t1, t2, t3}
  Resources = {q1, q2}
  Slots = {s1, s2}
  Notifiers = {n1, n2}
  Overwrites = FALSE
  None = None
SYMMETRY Symm
INVARIANTS TypeOK Exclusive ValidWhileLocked EveryUnlockNotified NotifierMayLock NoAccessorOutlives
CHECK_DEADLOCK FALSE
