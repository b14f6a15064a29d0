\* Ann and Bob have a plan with a workspace of two seats, Eve has none.
SPECIFICATION Spec
CONSTANTS
  None = None
  ann = ann  bob = bob  eve = eve
  Accounts = {ann, bob, eve}
  Writers = {bob}
  r1 = r1  r2 = r2
  Requests = {r1, r2}
  Plan0 <- Plans
  Seats = 2
  MaxWorkspaces = 2
  MaxInvites = 1
  MaxChanges = 1
INVARIANTS SeatsAreKept RowsFollow
PROPERTIES TokensWorkOnce
SYMMETRY Alike
