\* A walk with bundles that does not land content again, and a resumed load with
\* one object a payload, two runs each and a fault; a record both deliver,
\* one the mapper refuses, and one whose upsert may raise: the walk quarantines
\* it.
SPECIFICATION FairSpec
CONSTANTS
  None = None
  p1 = p1  p2 = p2  p3 = p3  p4 = p4
  walk = walk  load = load
  Payloads = {p1, p2, p3, p4}
  Ids <- AllIds
  RowId <- IdOf
  RowSource <- SourceOfId
  Runs = {walk, load}
  Loads = {load}
  Refreshes = {}
  FixedTag = {}
  SkipsHeld = {walk}
  Source <- OwnSource
  Delivers <- WalkAndLoad
  Malformed = {p2}
  Poisoned = {p3}
  MaxQuarantined = 1
  MaxRuns = 2
  MaxFaults = 1
INVARIANTS RowsResolve SuccessIndexesAll
PROPERTIES WrittenOnce EventuallyLanded
CHECK_DEADLOCK FALSE
