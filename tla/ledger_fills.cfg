SPECIFICATION Spec
CONSTANTS
  h1 = h1
  h2 = h2
  Trades = {1}
  Commands = {1, 2}
  Requests = {1}
  Handlers = {h1, h2}
  Geometries <- LongOnly
  Prices = {1, 3, 4}
  Policies = {"CLOSE_50", "TIGHTEN_STOP"}
  OrderParts = {2}
  Unit = 4
  MaxEvents = 3
INVARIANTS
  TypeOK
  LedgerChain
  ReceiptMatchesLedger
  FilledTradeIsClosed
  AvailableResultIsPriced
PROPERTIES
  ExplicitTotalKept
  StopNeverLoosens
SYMMETRY HandlerSymmetry
CHECK_DEADLOCK FALSE
