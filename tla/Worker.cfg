\* A daily feed and a weekly job, two starts of the worker, one run of an
\* operator.
SPECIFICATION Spec
CONSTANTS
  None = None
  feed = feed  requalify = requalify  s1 = s1
  Jobs = {feed, requalify}
  Daily = {feed}
  Rare = {requalify}
  SourceOf <- Reads
  Slots <- SlotsOf
  Order <- InOrder
  Stale = 1
  MaxTime = 3
  MaxStarts = 2
  MaxRuns = 1
INVARIANTS OneAtATime
PROPERTIES RunsEndRightly SlotsAreMet
CHECK_DEADLOCK FALSE
