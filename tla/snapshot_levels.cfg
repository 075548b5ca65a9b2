SPECIFICATION Spec
CONSTANTS
  Markets = {"near", "far"}
  MaxTrades = 1
  MaxEdits = 1
  MaxPublications = 0
  MaxMoves = 0
  MaxFailures = 0
  MaxRequests = 0
INVARIANT AcceptedHasLevels
