SPECIFICATION FairSpec
CONSTANTS
  main = main  t1 = t1
  Threads = {main, t1}
  Owner = main
  Values = {v1, v2}
  Watchers = {a1}
  None = None  Object = Object  Absent = Absent
  a = a  b = b  c = c
  Uses <- CarefulAndNot
  Names <- AllNames
  Keys <- Family
INVARIANTS TypeOK NothingForgotten WatchersUpToDate
PROPERTIES ActsAsPersistentMap EventuallySaved
