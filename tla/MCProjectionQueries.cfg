CONSTANTS
  Ids = {1, 2, 3, 4, 5}
  Fields = {"name", "metadata", "total"}
  Paths = {"total"}
  Kept = {"name"}
  Values = {0, 1}
  Tables <- AllTables
  Queries <- AllQueries
  PageSize = 2
  MaxSaves = 1
SPECIFICATION Spec
INVARIANTS
  PageIsSlice
  WalkSeesEachOnce
  AdaptersAgree
