SPECIFICATION Spec
CONSTANTS
  Codes = {NAS100}
  None = None
  Channels = {"proxy", "chain", "iv", "intraday"}
  Polled = {"chain", "intraday", "price", "tick"}
  Requests = {r1}
  HeavyLock = TRUE
  MaxRefreshes = 1
  MaxObservations = 2
PROPERTY StreamTickStays
