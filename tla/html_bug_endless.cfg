SPECIFICATION FairSpec
CONSTANTS
  None = None
  a = a  b = b  br = br
  Ids = {a, br}
  Voids = {br}
  Slashed = {}
  Names <- AttrNames
  Values <- AttrValues
  AttrLists <- Plain
  Conditions <- Asked
  MaxTags = 4
  MaxWildTags = 0
  MaxFilters = 3
PROPERTIES SearchReturns
CHECK_DEADLOCK FALSE
