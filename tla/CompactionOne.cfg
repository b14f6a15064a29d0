\* One compactor, chunks of one, two or three rows, originals kept or deleted,
\* two failures: six rows over four keys, one key shared by two rows of
\* different chunks, one key that cannot be verified.
SPECIFICATION CompactionFairSpec
CONSTANTS
  None = None
  p1 = p1  p2 = p2  p3 = p3  early = early
  one = one  two = two
  Payloads = {p1, p2, p3}
  Compactors = {one}
  Sizes = {1, 2, 3}
  Landed <- SomeRows
  Objects <- SomeObjects
  MaxBreaks = 2
INVARIANTS OrphansAreJournaled
PROPERTIES ReadsTheSame EventuallyCompacted
