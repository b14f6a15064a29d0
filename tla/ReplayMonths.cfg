\* The months of a year as they go by and the year's end, resumed runs, three
\* failures of any kind or runs from scratch. Two quarantined entries fail an
\* attempt: those of the first month lie in two stretches, so that a resumed
\* one passes, as it does in the year's file; those of the second month lie in
\* one stretch, which no attempt passes.
SPECIFICATION FairSpec
CONSTANTS
  Months = 3
  Year <- EightEntries
  Ends <- ThreeMonths
  Poisoned = {1, 2, 5, 6}
  MaxQuarantined = 1
  Every = 2
  MayRestart = {FALSE, TRUE}
  YearEnds = TRUE
  Attempts = 2
  MaxFaults = 3
INVARIANTS ProgressIsCommitted DoneIsReplayed
PROPERTIES EventuallyMarked
