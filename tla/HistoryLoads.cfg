\* A load that resumes, a day a run, and one by hand from scratch, two, over three
\* days; a refusal and two failures.
SPECIFICATION HistoryFairSpec
CONSTANTS
  None = None
  a = a  b = b  c = c  d = d 
  auto = auto  byHand = byHand
  Payloads = {a, b, c, d}
  Loaders = {auto, byHand}
  FromScratch = {byHand}
  DayCount = 3
  MaxDays <- Capped
  ChunkSize = 2
  Published <- ThreeDays
  Unmapped = {b}
  MaxStops = 1
  MaxFailures = 2
INVARIANTS MarkedIsLoaded
PROPERTIES EventuallyLoaded
