\* Files of two entries, walks of one or two pages, months of four days; one
\* entry that cannot be parsed, two that raise, one too many for one run.
SPECIFICATION Spec
CONSTANTS
  Size = 2
  MinPages = 1
  HardCap = 2
  MaxQuarantined = 1
  StaleDays = 1
  Early = 2
  MonthLength = 4
  Malformed = {3}
  Poisoned = {2, 4}
  MaxEntries = 5
  MaxDay = 7
  MaxFaults = 1
INVARIANTS MarkStands PromptlyHeld
PROPERTIES SuccessIsComplete OverlapIsRetried
CHECK_DEADLOCK FALSE
