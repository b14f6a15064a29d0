SPECIFICATION FairSpec
CONSTANTS
  walk = walk
  replay = replay
  folder = folder
  call = call
  prat = prat
  garriga = garriga
  a = a
  b = b
  c = c
  d = d
  e = e
  f = f
  None = None
  Sessions = {walk}
  Guarded = {walk}
  Loads = {}
  Natives <- MCNatives
  LocalKey <- MCLocal
  Buyers <- MCBuyers
  Hashes <- MCHashes
  Facts <- MCFacts
  Readings <- MCReadings
  TaxMoves <- MCTaxMoves
  StatusMoves <- MCStatusMoves
  Links <- MCLinks
  Feed <- LongFeed
  Malformed = {}
  DayLength = 4
  Today = 3
  MaxQuarantined = 1
  MaxFaults = 1
INVARIANTS
  DatesKept
PROPERTIES
  LinkKept
  EventuallyServesNewest
