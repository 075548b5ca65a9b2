SPECIFICATION Spec
CONSTANTS
  Codes = {NAS100, XAU}
  None = None
  Channels = {}
  Polled = {"price", "tick"}
  Requests = {r1, r2}
  HeavyLock = TRUE
  MaxRefreshes = 1
  MaxObservations = 2
INVARIANT PointOfTradeInstrument
