SPECIFICATION FairSpec
CONSTANTS
  Inputs <- TestInputs
  MaxItems = 3
  MaxLen = 5
  Keys = {1, 2}
  MaxCpus = 4
  None = None
INVARIANTS TypeOK RaceFree WithinCpus NothingLost RangesOrdered SortedWhenDone
PROPERTIES Terminates
CHECK_DEADLOCK FALSE
