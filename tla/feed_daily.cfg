SPECIFICATION Spec
CONSTANTS
  Codes = {NAS100, XAU}
  None = None
  Channels = {"daily"}
  Polled = {"daily"}
  Requests = {r1, r2}
  HeavyLock = FALSE
  MaxRefreshes = 1
  MaxObservations = 2
SYMMETRY Symmetry
INVARIANT PublishedIsOfEpoch
PROPERTY DiskNeverGoesBack
PROPERTY ShownNeverGoesBack
CHECK_DEADLOCK FALSE
