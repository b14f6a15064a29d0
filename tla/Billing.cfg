\* Two tabs of one account and another account, one founding place, two events
\* at once.
SPECIFICATION Spec
CONSTANTS
  None = None
  ann = ann  bob = bob  first = first  second = second  other = other
  Accounts = {ann, bob}
  Refs = {first, second, other}
  Buyer <- BuyerOf
  Plan <- PlanOf
  Cap = 1
  MaxAt <- Changes
  MaxAgain = 1
  MaxTx = 2
INVARIANTS RowFollowsCreem PaidIsHeldOrTold FoundingCap
PROPERTIES FirstStays NeverBackwards
CHECK_DEADLOCK FALSE
