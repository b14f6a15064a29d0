SPECIFICATION FairSpec
CONSTANTS
  walk = walk
  replay = replay
  folder = folder
  call = call
  prat = prat
  garriga = garriga
  a = a
  b = b
  c = c
  d = d
  e = e
  f = f
  None = None
  Sessions = {walk, replay}
  Guarded = {walk}
  Loads = {replay}
  Natives <- MCNatives
  LocalKey <- MCLocal
  Buyers <- MCBuyers
  Hashes <- MCHashes
  Facts <- MCFacts
  Readings <- MCReadings
  TaxMoves <- MCTaxMoves
  StatusMoves <- MCStatusMoves
  Links <- MCLinks
  Feed <- RaceFeed
  Malformed = {d}
  DayLength = 4
  Today = 3
  MaxQuarantined = 1
  MaxFaults = 1
INVARIANTS
  IntervalsMeet
  ServingIsLatest
  DiffsAreTrue
  OneBuyer
PROPERTIES
  ImplementsLedger
  RunsEnd
