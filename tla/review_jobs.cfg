SPECIFICATION FairSpec
CONSTANTS
  Polls = {p1, p2}
  Review = Review
  Worlds = {"t0", "moved"}
  MaxJobs = 2
INVARIANTS
  SlotIsHeldByItsCall
  NeverResurrected
  DeliveredWasCurrent
PROPERTIES
  JobEnds
CHECK_DEADLOCK FALSE
