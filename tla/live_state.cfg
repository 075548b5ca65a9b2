SPECIFICATION FairSpec
CONSTANTS
  Requests = {"r1"}
  MaxWrites = 2
  MaxFailures = 1
  MaxTickFailures = 1
INVARIANT RowsSeeWrites
INVARIANT SingleFlight
INVARIANT ClosesAfterItsReaders
PROPERTY GenerationsAdvance
PROPERTY StateReturns
