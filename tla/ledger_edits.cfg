SPECIFICATION FairSpec
CONSTANTS
  h1 = h1
  h2 = h2
  Trades = {1}
  Commands = {1}
  Requests = {1}
  Handlers = {h1, h2}
  Geometries <- ShortAndEdited
  Prices = {1, 2, 3, 4}
  Policies = {"REDUCE_TAKE"}
  OrderParts = {2}
  Unit = 1
  MaxEvents = 2
INVARIANTS
  ClosedTradeHasNoPending
PROPERTIES
  OldLevelsAreWithdrawn
CHECK_DEADLOCK FALSE
