\* A resumed load and a compactor at once: two runs of the load, one fault and one
\* broken compaction, a record that may fail the load; the compactor may run at
\* any time, as often as it likes.
SPECIFICATION ArchiveSpec
CONSTANTS
  None = None
  p1 = p1  p2 = p2  p3 = p3
  load = load  tool = tool
  Payloads = {p1, p2, p3}
  Runs = {load}
  Loads = {load}
  Refreshes = {}
  FixedTag = {}
  SkipsHeld = {}
  Delivers <- LoadMore
  Ids = {11, 12, 13, 21, 22, 23}
  RowId <- IdOf
  RowSource <- ItsRows
  Source <- OneSource
  Malformed = {}
  Poisoned = {p3}
  MaxQuarantined = 1
  MaxRuns = 2
  MaxFaults = 1
  Compactors = {tool}
  Sizes = {1, 2}
  Landed = {}
  Objects <- NoObjects
  MaxBreaks = 1
INVARIANTS RowsResolve
CHECK_DEADLOCK FALSE
