SPECIFICATION Spec
CONSTANTS
  h1 = h1
  Trades = {1}
  Commands = {1, 2}
  Requests = {1}
  Handlers = {h1}
  Geometries <- LongOnly
  Prices = {1, 3, 4}
  Policies = {"SCALE_OUT_ON_SPIKE", "TIME_STOP"}
  OrderParts = {2}
  Unit = 4
  MaxEvents = 4
INVARIANTS
  ScaleOutKeepsItsSize
PROPERTIES
  ReceiptIsFinal
  ImplementsBook
CHECK_DEADLOCK FALSE
