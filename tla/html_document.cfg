SPECIFICATION Spec
CONSTANTS
  None = None
  a = a  b = b  br = br
  Ids = {a, br}
  Voids = {br}
  Slashed = {a, br}
  Names <- AttrNames
  Values <- AttrValues
  AttrLists <- WithAttributes
  Conditions <- Asked
  MaxTags = 6
  MaxWildTags = 4
  MaxFilters = 3
INVARIANTS TypeOK LevelsAreDepths NestingKept ResultsSatisfyQuery
CHECK_DEADLOCK FALSE
