CONSTANTS
  Rows <- MCRows
  SortKeys <- MCSortKeys
  Listings <- MCListings
  DefaultPageSize = 2
  MaxPageSize = 3
  AskedPages <- MCAskedPages
  AskedSizes <- MCAskedSizes
  MaxChanges = 3
SPECIFICATION Spec
CHECK_DEADLOCK FALSE
INVARIANTS
  TypeOK
  WalkIsExactUpToChanges
  AnnouncedPageIsThere
