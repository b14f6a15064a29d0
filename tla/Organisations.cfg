\* Three rows and up to two more, two notices, two batches of merges and
\* their undos, next to a run.
SPECIFICATION Spec
CONSTANTS
  None = None
  navy = navy  arsenal = arsenal  depot = depot
  r1 = r1  r2 = r2  p1 = p1  ted = ted 
  n1 = n1  n2 = n2 
  Names = {navy, arsenal, depot}
  Compatible <- Related
  Seeded = {}
  Sources = {ted}
  Numbers = {r1, r2}
  Pics = {p1}
  Listed <- ThreeRows
  MaxOrg = 4
  Notices = {n1, n2}
  Statements <- TwoSay
  Awards <- Won
  Overrides = {FALSE}
  MaxBatch = 2
  MaxMerge = 2
  Sessions = {s1, s2}
  s1 = s1  s2 = s2
INVARIANTS NoChains IdentifiersKept
PROPERTIES UndoRestores
SYMMETRY Runs
CHECK_DEADLOCK FALSE
